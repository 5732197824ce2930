SPECIFICATION FairSpec
CONSTANTS
  t1 = t1
  t2 = t2
  t3 = t3
  d1 = d1
  d2 = d2
  Threads = {t1, t2, t3}
  Devices = {d1, d2}
  Null = Null
  Outcomes <- AllOutcomes
  Serialized = TRUE
  NoThread = NoThread
INVARIANTS NodesDieFirst MapsAgree
PROPERTIES  CallsReturn
