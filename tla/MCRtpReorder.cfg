CONSTANTS
  Count = 7
  First = 12
  M = 16
  Dropout = 5
  Misorder = 4
  QueueSize = 3
  Window = 4
  MaxDups = 1
  MaxRest = 2
SPECIFICATION Spec
INVARIANT QueueInOrder
PROPERTIES
  NewPacketsInOrder
  QueueIsDrained
