SPECIFICATION Spec
CONSTANTS
  a = a
  b = b
  c = c
  d = d
  v = v
  o = o
  p = p
  q = q
  t1 = t1
  t2 = t2
  Threads = {t1, t2}
  Inputs = {a, b, c, d}
  Outputs = {o, p}
  Subscribers <- ChainSubscribers
  Destinations <- ChainDestinations
  PushesOn <- EachItsOwn
  SetsOn <- Nobody
  Decimations <- ChainFactors
  Type <- Integers
  Acknowledges <- ChainAcknowledges
  Throwing = {}
  Width = 4
  MaxCalls = 3
  NoThread = NoThread
  NoValue = NoValue
INVARIANTS ExactDecimation 
