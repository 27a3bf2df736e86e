\* One worker, a ring of one slot.
CONSTANTS
  Jobs = {j1, j2, j3}
  NoJob = NoJob
  Workers = {w1}
  Clients = {c1}
  InitialMax = 1
  Resize = {FALSE}
  Cleanup = {j1}
  Shutdown = TRUE
  MaxAdds = 1
SPECIFICATION Spec
INVARIANT RemainingSignalled
CHECK_DEADLOCK FALSE
