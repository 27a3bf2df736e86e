\* Every call returns when the user events get completed.
SPECIFICATION FairSpec
CONSTANTS
  Threads = {t1, t2}
  NumQueues = 1
  MaxEvents = 3
  MaxDeps = 1
  WordSize = 4
  ExclusiveSet = TRUE
  Calls = {"user", "complete", "command", "copy", "blocking", "callback", "finish"}
PROPERTIES
  CallsReturn
\* The application may stop calling, or wait for an event nobody completes.
CHECK_DEADLOCK FALSE
