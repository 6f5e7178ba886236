SPECIFICATION FairSpec
CONSTANTS
  NELEM = 2
  NPackets = 4
  Loop = 1
  AllocFailures = {"struct", "mutex", "cond"}
INVARIANTS
  NoPacketLeaked
  InputInv
PROPERTIES
  ReadReturns
  ShutdownTerminates
