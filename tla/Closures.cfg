SPECIFICATION Spec
CONSTANTS
  MaxStack = 3
  MaxFrames = 2
  MaxTemps = 2
  MaxBlockLocals = 2
  Globals = {}
  Arities = {0, 1}
  MaxCaptures = 2
  NClosures = 3
  NUpvalues = 2
  MaxErrors = 1
  MaxScripts = 1
  ReenterCapturing = FALSE
  AnonymousFunctions = FALSE
INVARIANTS TypeOK SlotsLineUp SharedVariables OpenListSorted NeverCrashes NothingFreedInUse
PROPERTY OnlyAssignmentChanges
CHECK_DEADLOCK FALSE
