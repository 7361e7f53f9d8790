SPECIFICATION CommandSpec
CONSTANTS
  Order <- MCOrder
  Kind <- MCKind
  OwnPrefix = {"doc"}
  MaxCommands = 3
  MaxEdits = 1
  Keys = {"k1", "k2"}
  MaxChanges = 2
  MaxRuns = 3
  Locals = {"app", "tool"}
  Remotes = {"ext"}
  Values = {"debug", "release"}
  NoValue = ""
  Release = "release"
  Debug = "debug"
  Defaults = {"", "release"}
  Declaring = {"app", "ext"}
  Requires <- MCRequires
  Imports <- MCImports
CHECK_DEADLOCK FALSE
INVARIANTS
  ReportIsTrue
  VoidIsCurrent
  ReadersAgree
PROPERTIES
  UserFilesStay
