SPECIFICATION Spec
CONSTANTS
  t1 = t1
  t2 = t2
  t3 = t3
  r1 = r1
  r2 = r2
  r3 = r3
  d1 = d1
  d2 = d2
  d3 = d3
  p1 = p1
  p2 = p2
  Threads <- MCThreads
  Refs <- MCRefs
  Blocks <- MCBlocks
  Pools <- MCPools
  None = None
SYMMETRY Symmetry
INVARIANTS
  NoUseAfterRelease
  ExclusiveWrite
  PoolOutlivesItsUse
  PoolIsFreedInTheEnd
  NoBlockLeaks
