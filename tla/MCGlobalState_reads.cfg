SPECIFICATION Spec
CONSTANTS
  port = port
  ch0 = ch0
  ch1 = ch1
  grp = grp
  r1 = r1
  Nodes <- TreeNodes
  Children <- FlatChildren
  Owners <- FlatOwners
  Readers = {r1}
  MaxClock = 1
  MaxReads = 1
  Consistency = FALSE
  NoTransition = NoTransition
  NoNode = NoNode
INVARIANTS GlobalIsHighest NothingHidden
