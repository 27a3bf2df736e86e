\* Two threads enqueue, wait, finish and set callbacks on two queues while user
\* events are completed and failed.
SPECIFICATION Spec
CONSTANTS
  Threads = {t1, t2}
  NumQueues = 2
  MaxEvents = 3
  MaxDeps = 2
  WordSize = 5
  ExclusiveSet = TRUE
  Calls = {"user", "complete", "fail", "command", "callback", "wait", "finish"}
SYMMETRY ThreadSymmetry
INVARIANTS
  TypeOK
  TriggerAccounting
  ActionAtMostOnce
  AbortedNeverRuns
  ActionAfterDeps
  QueueInOrder
  WaitNeverFails
  NotifyAfterComplete
PROPERTIES
  CompleteForever
\* The application may stop calling, or wait for an event nobody completes.
CHECK_DEADLOCK FALSE
