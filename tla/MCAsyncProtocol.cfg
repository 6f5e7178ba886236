CONSTANTS
  Size = 6
  Capacity = 2
  ReadBack = 2
  Chunk = 2
  Threshold = 1
  ReadSizes = {1, 2}
SPECIFICATION Spec
INVARIANTS
  NeverOverwritten
PROPERTIES
  EveryCallReturns
  ImplementsByteFile
