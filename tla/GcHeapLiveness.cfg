SPECIFICATION FairHeapSpec
CONSTANTS
  b1 = b1
  b2 = b2
  b3 = b3
  Block = {b1, b2, b3}
  Sizes = {1}
  MaxRefs = 1
PROPERTY CollectionEnds
