SPECIFICATION FairSpec
CONSTANTS
  a = a
  twin = twin
  b = b
  o = o
  t1 = t1
  t2 = t2
  t3 = t3
  Threads = {t1, t2, t3}
  Inputs = {a, twin, b}
  Outputs = {o}
  Names = {"a", "b", "o"}
  Name <- Named
  Requests <- Asked
  NoThread = NoThread
  NoPV = NoPV
INVARIANTS NamesAgree NothingGoneIsReachable FanOutIsStable
PROPERTIES ImplementsDirectory EverythingReturns
