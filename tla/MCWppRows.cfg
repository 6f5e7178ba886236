\* Three threads decode slices of two and of four rows of three CTBs.
CONSTANTS
  N = 3
  JobCounts = {2, 4}
  MaxExec = 2
  Cols = 3
  CorruptRows = {3}
  Leftover = {5}
  AllocMayFail = TRUE
SPECIFICATION WppSpec
INVARIANTS
  Wavefront
  RowInheritsContexts
  ExecuteIsABarrier
PROPERTIES
  SliceReturns
  FreeTerminates
  ImplementsParallelFor
