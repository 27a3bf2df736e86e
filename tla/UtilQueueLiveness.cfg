\* Progress of jobs and calls, and the end of exit().
CONSTANTS
  Jobs = {j1, j2, j3}
  NoJob = NoJob
  Workers = {w1, w2}
  Clients = {c1, c2}
  InitialMax = 1
  Resize = {FALSE}
  Cleanup = {j1}
  Shutdown = TRUE
  MaxAdds = 1
SPECIFICATION FairSpec
PROPERTIES JobsFinish CallsReturn ShutdownEnds
CHECK_DEADLOCK FALSE
