SPECIFICATION ClassesSpec
CONSTANTS
  Names = {"init", "m"}
  Fields = {"m"}
  A = A
  B = B
  Variables = {A, B}
  NObjects = 7
  MaxGarbage = 0
  MaxClasses = 3
  MaxMethods = 2
  MaxFree = 1
  MaxFrames = 2
  MaxTemps = 1
SYMMETRY MCSymmetry
INVARIANTS ClassesTypeOK TablesAreComplete ThisIsReceiver NoBadVariantAccess NoObjectFreedInUse
PROPERTIES ImplementsMethodResolution ConstructionYieldsInstance
CHECK_DEADLOCK FALSE
