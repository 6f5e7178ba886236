SPECIFICATION ClientsFairSpec
CONSTANTS
  s1 = s1
  s2 = s2
  r1 = r1
  r2 = r2
  Senders <- MCSenders
  Receivers <- MCReceivers
  NELEM = 2
  Count = 3
INVARIANTS
  QueueInv
  NothingLostAtTheEnd
PROPERTIES
  EveryoneFinishes
