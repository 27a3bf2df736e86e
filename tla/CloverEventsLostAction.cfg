\* Two user events complete at the same time.
SPECIFICATION Spec
CONSTANTS
  Threads = {t1, t2}
  NumQueues = 1
  MaxEvents = 3
  MaxDeps = 2
  WordSize = 5
  ExclusiveSet = TRUE
  Calls = {"user", "complete", "command"}
INVARIANTS
  SignalledWasStarted
\* The application may stop calling, or wait for an event nobody completes.
CHECK_DEADLOCK FALSE
