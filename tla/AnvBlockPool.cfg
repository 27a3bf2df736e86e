\* Three threads allocate from both sides, with blocks smaller and larger than the pool.
CONSTANTS
  Threads = {t1, t2, t3}
  NoThread = NoThread
  FrontSizes = {1, 16}
  BackSize = 4
  PageSize = 2
  WordSize = 1024
  InitialSize = 8
  MaxAllocs = 3
  MaxFails = 1
SPECIFICATION Spec
INVARIANTS TypeOK BlocksDisjoint PoolHoldsBlocks GrowAssertions
PROPERTY CallsReturn
\* The threads may stop allocating.
CHECK_DEADLOCK FALSE
