SPECIFICATION Spec
CONSTANTS
  MaxStack = 3
  MaxFrames = 2
  MaxTemps = 2
  MaxBlockLocals = 2
  Globals = {}
  Arities = {1}
  MaxCaptures = 1
  NClosures = 3
  NUpvalues = 2
  MaxErrors = 0
  MaxScripts = 1
  ReenterCapturing = FALSE
  AnonymousFunctions = TRUE
INVARIANT SlotsLineUp
CHECK_DEADLOCK FALSE
