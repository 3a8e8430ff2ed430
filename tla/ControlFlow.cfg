SPECIFICATION FlowSpec
CONSTANTS
  ByteValues = 6
  Units <- MCUnits
  Names = {"a"}
INVARIANTS FlowTypeOK CodeSound PcAtInstruction StackAsTracked OperandsMeanTheirSource
PROPERTY ImplementsStructuredFlow
CHECK_DEADLOCK FALSE
