SPECIFICATION Spec
CONSTANTS
  MaxStack = 3
  MaxFrames = 2
  MaxTemps = 1
  MaxBlockLocals = 2
  Globals = {}
  Arities = {0}
  MaxCaptures = 1
  NClosures = 3
  NUpvalues = 2
  MaxErrors = 1
  MaxScripts = 2
  ReenterCapturing = FALSE
  AnonymousFunctions = FALSE
INVARIANT SlotsLineUp
CHECK_DEADLOCK FALSE
