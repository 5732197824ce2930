SPECIFICATION Spec
CONSTANTS
  Threads = {t1, t2}
  MaxStreams = 2
  Systems = {1, 2, 3, 4, 5}
  Devices = {d1}
  Files = {system, plain, other, linked, extra, empty, broken, static}
  About <- Modules
  SystemFiles = {system}
  DriverFiles = {plain, other, empty, broken, static}
  SystemFolders <- SystemLists
  DriverFolders <- DriverLists
  Declared <- DeclaredHere
  Here <- HereName
  Folders <- Disk
  LateFolders <- Late
  Linked = {linked}
  Calls <- Requests
  Replaces = FALSE
  NameOrder <- Order
  None = None
  Levels = {1, 2}
  FirstLevel = 2
  NoStream = NoStream
  system = system
  plain = plain
  other = other
  linked = linked
  extra = extra
  empty = empty
  broken = broken
  static = static
SYMMETRY Either
INVARIANTS DeclaredIsKnown OwnDeallocator SystemsOutliveDevices StreamIsOwn
