SPECIFICATION FairSpec
CONSTANTS
  ThreadCount = 2
  BUFFER_SIZE = 4
  MaxFrames = 5
INVARIANTS
  ResultsInOrder
  EveryFrameIsSomewhere
  EncoderInv
PROPERTIES
  CallsReturn
  CloseEnds
