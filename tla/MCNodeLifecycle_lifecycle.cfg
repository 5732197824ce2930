SPECIFICATION FairSpec
CONSTANTS
  t1 = t1
  t2 = t2
  devA = devA
  devB = devB
  devC = devC
  chan = chan
  data = data
  sub = sub
  level = level
  sm = sm
  getState = getState
  spare = spare
  offset = offset
  aux = aux
  Components <- MCComponents
  Label <- MCLabel
  Children <- MCChildren
  NoNode = NoNode
  NoThread = NoThread
  Kind <- MCKind
  Roots = {devA, devB, devC}
  Failing = {"getNewInterface", "registerCommand", "registerPV"}
  MaxCalls = 4
  Threads = {t1, t2}
INVARIANTS KnownIsUsable RegistersAgree
PROPERTIES TerminatedMeansRegistered 
