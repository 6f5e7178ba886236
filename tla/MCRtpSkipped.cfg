CONSTANTS
  Count = 4
  First = 4
  M = 16
  Dropout = 5
  Misorder = 4
  QueueSize = 3
  Window = 4
  MaxDups = 0
  MaxRest = 2
SPECIFICATION Spec
PROPERTY NoFrameIsSkipped
