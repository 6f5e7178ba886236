SPECIFICATION FairSpec
CONSTANTS
  N = 2
  Codecs <- AllKinds
  MaxCalls = 3
  MaxFlush = 1
  SpuriousOn = {"progress"}
INVARIANTS
  FramesInOrder
  ContextIsPassedOn
  ThreadsInv
  NothingIsHeldBack
PROPERTIES
  CallsReturn
  FlushAndFreeEnd
