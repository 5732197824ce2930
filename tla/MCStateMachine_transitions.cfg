SPECIFICATION FairSpec
CONSTANTS
  a = a
  b = b
  c1 = c1
  c2 = c2
  Machines <- TwoMachines
  Callers <- TwoCallers
  Async = {a}
  Requests <- SettableStates
  DelegateOutcomes <- RuntimeErrors
  PushOutcomes <- NoException
  MaxCalls = 2
  NoThread = NoThread
  NoMachine = NoMachine
  NoTransition = NoTransition
INVARIANTS AtMostOneTransition DelegateGuarantee  ShownIsCurrent
PROPERTIES ShownFollowsDiagram   AsyncCallsReturn
