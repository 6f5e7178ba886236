CONSTANTS
  Packets = 2
  MaxQueued = 1
  Slots = 2
  Targets = {1}
  Loop = 2
  MaxEvents = 1
  SeekRounds = {1}
SPECIFICATION Spec
INVARIANTS
  SerialsTellTheTruth
  PicturesInv
PROPERTIES
  EndedMeansAllShown
  SeekIsShown
  CloseEnds
