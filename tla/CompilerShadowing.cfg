SPECIFICATION CompilerSpec
CONSTANTS
  Identifier = {"a", "b"}
  MaxFunctions = 3
  MaxLocals = 2
  MaxNesting = 3
  ShadowInFunction = TRUE
PROPERTY UsesInnermost
CHECK_DEADLOCK FALSE
