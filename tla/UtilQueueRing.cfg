\* Two workers and two clients on a ring of two slots that may grow, with exit().
CONSTANTS
  Jobs = {j1, j2, j3, j4}
  NoJob = NoJob
  Workers = {w1, w2}
  Clients = {c1, c2}
  InitialMax = 2
  Resize = {TRUE, FALSE}
  Cleanup = {j1}
  Shutdown = TRUE
  MaxAdds = 1
SPECIFICATION Spec
SYMMETRY QueueSymmetry
INVARIANTS TypeOK RingOK JobHeldOnce CleanupOnce
PROPERTY ImplementsJobQueue
CHECK_DEADLOCK FALSE
