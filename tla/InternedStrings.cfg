SPECIFICATION StringsSpec
CONSTANTS
  b1 = b1
  b2 = b2
  b3 = b3
  c1 = c1
  c2 = c2
  Block = {b1, b2, b3}
  Chars = {c1, c2}
  Sizes = {1}
  MaxRefs = 1
  NotAString = NotAString
  Null = Null
SYMMETRY StringsSymmetry
INVARIANTS StringsTypeOK TableExact CanonicalPointer
