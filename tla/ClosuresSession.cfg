SPECIFICATION Spec
CONSTANTS
  MaxStack = 4
  MaxFrames = 4
  MaxTemps = 1
  MaxBlockLocals = 0
  Globals = {g}
  Arities = {0}
  MaxCaptures = 1
  NClosures = 3
  NUpvalues = 2
  MaxErrors = 0
  MaxScripts = 2
  ReenterCapturing = FALSE
  AnonymousFunctions = FALSE
INVARIANTS SharedVariables NothingFreedInUse
PROPERTY OnlyAssignmentChanges
CHECK_DEADLOCK FALSE
