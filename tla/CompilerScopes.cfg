SPECIFICATION CompilerSpec
CONSTANTS
  Identifier = {"a", "b"}
  MaxFunctions = 3
  MaxLocals = 2
  MaxNesting = 3
  ShadowInFunction = FALSE
INVARIANTS CompilerTypeOK OneUpvaluePerVariable
PROPERTIES ImplementsLexicalScopes CapturedAreClosed
CHECK_DEADLOCK FALSE
