SPECIFICATION Spec
CONSTANTS
  root = root
  channel = channel
  machine = machine
  state = state
  setpoint = setpoint
  Tokens <- Strings
  Components = {root, channel, machine, state, setpoint}
  Order <- Device
  Parent <- Parents
  Kind <- Kinds
  Ports = {root, channel}
  OwnName <- Names
  Renames <- Renaming
  Files <- FirstFiles
  Reloads <- LaterFiles
  RuleNames <- SectionNames
  DefaultSeparator <- Separators
  Upper <- UpperCase
  Lower <- LowerCase
  Means <- Meaning
  MaxLoads = 2
  MaxChoices = 1
  NoParent = NoParent
  NoRules = NoRules
  Nameless = Nameless
INVARIANTS SectionsAsWritten  PortSplitsName
