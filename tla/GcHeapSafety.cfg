SPECIFICATION HeapSpec
CONSTANTS
  b1 = b1
  b2 = b2
  b3 = b3
  Block = {b1, b2, b3}
  Sizes = {1, 2}
  MaxRefs = 2
SYMMETRY BlockSymmetry
INVARIANTS HeapTypeOK NoDangling TriColor SweepExact QueuedOnce BytesAccounted HeapIInv
PROPERTY ImplementsContract
