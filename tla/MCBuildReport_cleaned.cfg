SPECIFICATION Spec
CONSTANTS
  Order <- MCOrder
  Kind <- MCKind
  OwnPrefix = {"doc"}
  MaxCommands = 3
  MaxEdits = 1
CHECK_DEADLOCK FALSE
INVARIANTS
  CleanupFollowsInvalidation
