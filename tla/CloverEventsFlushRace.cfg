\* A flush races with the trigger of a queued command.
SPECIFICATION Spec
CONSTANTS
  Threads = {t1, t2}
  NumQueues = 1
  MaxEvents = 2
  MaxDeps = 1
  WordSize = 4
  ExclusiveSet = TRUE
  Calls = {"user", "complete", "command", "flush"}
INVARIANTS
  CompleteWasExecuted
\* The application may stop calling, or wait for an event nobody completes.
CHECK_DEADLOCK FALSE
