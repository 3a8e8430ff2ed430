SPECIFICATION Spec
CONSTANTS
  MaxStack = 4
  MaxFrames = 2
  MaxTemps = 1
  MaxBlockLocals = 2
  Globals = {}
  Arities = {0}
  MaxCaptures = 1
  NClosures = 3
  NUpvalues = 2
  MaxErrors = 0
  MaxScripts = 1
  ReenterCapturing = TRUE
  AnonymousFunctions = FALSE
INVARIANT NeverCrashes
CHECK_DEADLOCK FALSE
