\* Two processes write, evict, remove and read two keys; a process is killed or a call fails.
CONSTANTS
  Procs = {p1, p2}
  Keys = {k1, k2}
  Length <- MCLength
  MaxLength = 3
  Nobody = Nobody
  NumInodes = 2
  MaxSize = 3
  SizeWord = 16
  EvictTries = 1
  MaxPuts = 2
  MaxRemoves = 1
  MaxFaults = 1
SPECIFICATION Spec
INVARIANTS TypeOK ReadersSeeWholeFiles SizeAccounted
PROPERTY QueueDrains
\* The processes may stop using the cache.
CHECK_DEADLOCK FALSE
