\* One thread that makes every call, aborts included.
SPECIFICATION Spec
CONSTANTS
  Threads = {t1}
  NumQueues = 1
  MaxEvents = 4
  MaxDeps = 1
  WordSize = 4
  ExclusiveSet = TRUE
  Calls = {"user", "complete", "fail", "command", "copy", "marker", "map", "blocking", "callback", "wait", "finish", "flush"}
INVARIANTS
  SignalledWasStarted
  CompleteWasExecuted
\* The application may stop calling, or wait for an event nobody completes.
CHECK_DEADLOCK FALSE
