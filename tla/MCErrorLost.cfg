SPECIFICATION Spec
CONSTANTS
  N = 3
  Codecs <- RefKinds
  MaxCalls = 5
  MaxFlush = 0
  SpuriousOn = {}
INVARIANT ErrorsAreNotLost
