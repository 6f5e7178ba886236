\* Two threads decode a slice of three rows; row 1 has no valid entry point.
CONSTANTS
  N = 2
  JobCounts = {3}
  MaxExec = 1
  Cols = 2
  CorruptRows = {1}
  Leftover = {0}
  AllocMayFail = FALSE
SPECIFICATION WppSpec
PROPERTY ExecuteReturns
