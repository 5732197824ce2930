SPECIFICATION FairSpec
CONSTANTS
  a = a
  b = b
  c = c
  d = d
  v = v
  o = o
  p = p
  q = q
  t1 = t1
  t2 = t2
  Threads = {t1, t2}
  Inputs = {a, b, c, v}
  Outputs = {o, p, q}
  Subscribers <- JoinSubscribers
  Destinations <- JoinDestinations
  PushesOn <- EachItsOwn
  SetsOn <- OneOnV
  Decimations <- NoFactors
  Type <- Bytes
  Acknowledges <- NoAcknowledges
  Throwing = {p}
  Width = 4
  MaxCalls = 2
  NoThread = NoThread
  NoValue = NoValue
INVARIANT SubscribersAgree
PROPERTY PushesReturn
