----------------------------- MODULE UtilQueue ------------------------------
(***************************************************************************)
(* util/u_queue.c: the job queue that gallium drivers, the threaded        *)
(* context, the winsyses and the shader cache share.  Worker threads take  *)
(* jobs from a ring buffer; clients add jobs, drop them and wait for their *)
(* fences; exit() stops the workers.                                       *)
(*                                                                         *)
(* Everything the code does under queue->lock is one step, because nothing *)
(* else can touch the ring meanwhile; cnd_wait ends a step and waking up   *)
(* starts another.  fence_signal and fence_wait use the fence's own mutex, *)
(* under which the condition is tested before and after every sleep.       *)
(***************************************************************************)
EXTENDS Integers, FiniteSets

CONSTANTS
  Jobs,         \* job objects, each with its fence
  NoJob,        \* an empty slot (job == NULL)
  Workers,      \* threads started by util_queue_init
  Clients,      \* threads that use the queue
  InitialMax,   \* max_jobs given to util_queue_init
  Resize,       \* values UTIL_QUEUE_INIT_RESIZE_IF_FULL may have in flags
  Cleanup,      \* the jobs added with a cleanup callback
  Shutdown,     \* exit() may be called
  MaxAdds       \* bound: calls of util_queue_add_job per job

ASSUME QueueAssumption ==
  /\ NoJob \notin Jobs
  /\ IsFiniteSet(Workers) /\ InitialMax \in Nat \ {0}
  /\ Resize \subseteq BOOLEAN /\ Shutdown \in BOOLEAN
  /\ Cleanup \subseteq Jobs
  /\ MaxAdds \in Nat

VARIABLES
  jobs,          \* util_queue::jobs, the ring
  max_jobs, read_idx, write_idx, num_queued, kill_threads, num_threads,
  resize,        \* flags & UTIL_QUEUE_INIT_RESIZE_IF_FULL
  signalled,     \* util_queue_fence::signalled of each job's fence
  wpc, wjob,     \* where each worker is, and its local job
  cpc, cjob,     \* where each client is, and the job it is about
  added, ran, cleaned  \* history: additions accepted, executions, cleanups

ringVars == <<jobs, max_jobs, read_idx, write_idx, num_queued>>
histVars == <<added, ran, cleaned>>
vars == <<ringVars, kill_threads, num_threads, resize, signalled, wpc, wjob, cpc, cjob, histVars>>

Slots == 0..(max_jobs - 1)

(* The slots a loop from read_idx up to, not including, write_idx visits.   *)
Scanned ==
  {i \in Slots : (i - read_idx) % max_jobs < (write_idx - read_idx) % max_jobs}

(* util_queue_init.  u_thread_create may fail for all but the first worker. *)
util_queue_init ==
  /\ jobs = [i \in 0..(InitialMax - 1) |-> NoJob]
  /\ max_jobs = InitialMax
  /\ read_idx = 0 /\ write_idx = 0 /\ num_queued = 0
  /\ kill_threads = FALSE /\ resize \in Resize
  /\ wpc \in {pc \in [Workers -> {"look", "none"}] : \E w \in Workers : pc[w] = "look"}
  /\ num_threads = Cardinality({w \in Workers : wpc[w] = "look"})
  /\ wjob = [w \in Workers |-> NoJob]
  /\ signalled = [j \in Jobs |-> TRUE]
  /\ cpc = [c \in Clients |-> "idle"]
  /\ cjob = [c \in Clients |-> NoJob]
  /\ added = [j \in Jobs |-> 0]
  /\ ran = [j \in Jobs |-> 0]
  /\ cleaned = [j \in Jobs |-> 0]

-----------------------------------------------------------------------------
(* Condition variables.  cnd_signal wakes one sleeper, if there is one.     *)

SignalHasQueued ==
  LET sleepers == {w \in Workers : wpc[w] = "asleep"} IN
  IF sleepers = {} THEN UNCHANGED wpc
  ELSE \E w \in sleepers : wpc' = [wpc EXCEPT ![w] = "look"]

SignalHasSpace ==
  LET sleepers == {c \in Clients : cpc[c] = "asleep"} IN
  IF sleepers = {} THEN UNCHANGED cpc
  ELSE \E c \in sleepers : cpc' = [cpc EXCEPT ![c] = "woken"]

-----------------------------------------------------------------------------
(* Workers: util_queue_thread_func.                                         *)

(* Mutant: has_space_cond is not signalled.                                 *)
TakeJobSilently(w) ==
  /\ wpc[w] = "look" /\ ~kill_threads /\ num_queued > 0
  /\ wjob' = [wjob EXCEPT ![w] = jobs[read_idx]]
  /\ jobs' = [jobs EXCEPT ![read_idx] = NoJob]
  /\ read_idx' = (read_idx + 1) % max_jobs
  /\ num_queued' = num_queued - 1
  /\ wpc' = [wpc EXCEPT ![w] = IF jobs[read_idx] = NoJob THEN "look" ELSE "execute"]
  /\ UNCHANGED <<max_jobs, write_idx, kill_threads, num_threads, resize, signalled, cpc, cjob, histVars>>

(* Mutant: the slot is not cleared.                                         *)
TakeJobKeeps(w) ==
  /\ wpc[w] = "look" /\ ~kill_threads /\ num_queued > 0
  /\ wjob' = [wjob EXCEPT ![w] = jobs[read_idx]]
  /\ read_idx' = (read_idx + 1) % max_jobs
  /\ num_queued' = num_queued - 1
  /\ SignalHasSpace
  /\ wpc' = [wpc EXCEPT ![w] = IF jobs[read_idx] = NoJob THEN "look" ELSE "execute"]
  /\ UNCHANGED <<jobs, max_jobs, write_idx, kill_threads, num_threads, resize, signalled, cjob, histVars>>

(* Takes the job at read_idx; a dropped one is a no-op.                     *)
TakeJob(w) ==
  /\ wpc[w] = "look" /\ ~kill_threads /\ num_queued > 0
  /\ wjob' = [wjob EXCEPT ![w] = jobs[read_idx]]
  /\ jobs' = [jobs EXCEPT ![read_idx] = NoJob]
  /\ read_idx' = (read_idx + 1) % max_jobs
  /\ num_queued' = num_queued - 1
  /\ SignalHasSpace
  /\ wpc' = [wpc EXCEPT ![w] = IF jobs[read_idx] = NoJob THEN "look" ELSE "execute"]
  /\ UNCHANGED <<max_jobs, write_idx, kill_threads, num_threads, resize, signalled, cjob, histVars>>

WaitForJob(w) ==
  /\ wpc[w] = "look" /\ ~kill_threads /\ num_queued = 0
  /\ wpc' = [wpc EXCEPT ![w] = "asleep"]
  /\ UNCHANGED <<ringVars, kill_threads, num_threads, resize, signalled, wjob, cpc, cjob, histVars>>

(* execute() returns and the fence is signalled.                            *)
FinishJob(w) ==
  LET j == wjob[w] IN
  /\ wpc[w] = "execute"
  /\ ran' = [ran EXCEPT ![j] = @ + 1]
  /\ signalled' = [signalled EXCEPT ![j] = TRUE]
  /\ wpc' = [wpc EXCEPT ![w] = IF j \in Cleanup THEN "cleanup" ELSE "look"]
  /\ wjob' = [wjob EXCEPT ![w] = IF j \in Cleanup THEN j ELSE NoJob]
  /\ UNCHANGED <<ringVars, kill_threads, num_threads, resize, cpc, cjob, added, cleaned>>

CleanupJob(w) ==
  /\ wpc[w] = "cleanup"
  /\ cleaned' = [cleaned EXCEPT ![wjob[w]] = @ + 1]
  /\ wpc' = [wpc EXCEPT ![w] = "look"]
  /\ wjob' = [wjob EXCEPT ![w] = NoJob]
  /\ UNCHANGED <<ringVars, kill_threads, num_threads, resize, signalled, cpc, cjob, added, ran>>

(* kill_threads ends the loop...                                            *)
LeaveLoop(w) ==
  /\ wpc[w] = "look" /\ kill_threads
  /\ wpc' = [wpc EXCEPT ![w] = "exit"]
  /\ UNCHANGED <<ringVars, kill_threads, num_threads, resize, signalled, wjob, cpc, cjob, histVars>>

(* ... and the last critical section signals the remaining jobs.            *)
SignalRemaining(w) ==
  /\ wpc[w] = "exit"
  /\ signalled' = [j \in Jobs |-> signalled[j] \/ \E i \in Scanned : jobs[i] = j]
  /\ jobs' = [i \in Slots |-> IF i \in Scanned THEN NoJob ELSE jobs[i]]
  /\ read_idx' = write_idx
  /\ num_queued' = 0
  /\ wpc' = [wpc EXCEPT ![w] = "done"]
  /\ UNCHANGED <<max_jobs, write_idx, kill_threads, num_threads, resize, wjob, cpc, cjob, histVars>>

-----------------------------------------------------------------------------
(* Clients.                                                                 *)

(* The call of c returns.                                                   *)
Return(c) ==
  /\ cpc' = [cpc EXCEPT ![c] = "idle"]
  /\ cjob' = [cjob EXCEPT ![c] = NoJob]

(* The end of util_queue_add_job: the job goes to the slot at write_idx of  *)
(* the ring r (the resized one, or the old one).                            *)
PutJob(j, r, max, read, write) ==
  /\ jobs' = [r EXCEPT ![write] = j]
  /\ max_jobs' = max
  /\ read_idx' = read
  /\ write_idx' = (write + 1) % max
  /\ num_queued' = num_queued + 1
  /\ SignalHasQueued

(* The jobs that the resizing loop copies, from read_idx on.                *)
CopiedJobs ==
  LET n == IF read_idx = write_idx THEN max_jobs ELSE (write_idx - read_idx) % max_jobs IN
  [k \in 0..(n - 1) |-> jobs[(read_idx + k) % max_jobs]]

(* Mutant: the ring is copied as it lies in memory.                         *)
PutResizedUnrotated(j) ==
  LET new_max == max_jobs + 8 IN
  PutJob(j, [i \in 0..(new_max - 1) |-> IF i \in Slots THEN jobs[i] ELSE NoJob],
         new_max, 0, max_jobs)

(* The ring that is 8 slots larger, with the copied jobs at its start.      *)
ResizedRing ==
  [i \in 0..(max_jobs + 7) |-> IF i \in DOMAIN CopiedJobs THEN CopiedJobs[i] ELSE NoJob]

(* Mutant: write_idx is not moved to the end of what was copied.            *)
PutResizedBack(j) == PutJob(j, ResizedRing, max_jobs + 8, 0, write_idx)

(* A full ring with UTIL_QUEUE_INIT_RESIZE_IF_FULL grows by 8 slots.        *)
PutResized(j) == PutJob(j, ResizedRing, max_jobs + 8, 0, Cardinality(DOMAIN CopiedJobs))

(* A call of util_queue_add_job is legal: the fence is signalled, and the   *)
(* caller is done with the job's last use.                                  *)
MayAdd(j) ==
  /\ signalled[j]
  /\ \A c \in Clients : cpc[c] # "idle" => cjob[c] # j
  /\ \A w \in Workers : wpc[w] = "cleanup" => wjob[w] # j

(* util_queue_add_job.  After kill_threads it returns at once and the job   *)
(* is neither run nor cleaned up: a stuttering step.                        *)
util_queue_add_job(c, j) ==
  /\ cpc[c] = "idle" /\ MayAdd(j) /\ ~kill_threads
  /\ added[j] < MaxAdds
  /\ added' = [added EXCEPT ![j] = @ + 1]
  /\ signalled' = [signalled EXCEPT ![j] = FALSE]
  /\ \/ /\ num_queued # max_jobs
        /\ PutJob(j, jobs, max_jobs, read_idx, write_idx)
        /\ UNCHANGED <<cpc, cjob>>
     \/ /\ num_queued = max_jobs /\ resize
        /\ PutResized(j)
        /\ UNCHANGED <<cpc, cjob>>
     \/ /\ num_queued = max_jobs /\ ~resize
        /\ cpc' = [cpc EXCEPT ![c] = "asleep"]
        /\ cjob' = [cjob EXCEPT ![c] = j]
        /\ UNCHANGED <<ringVars, wpc>>
  /\ UNCHANGED <<kill_threads, num_threads, resize, wjob, ran, cleaned>>

(* Mutant: the condition is tested with if, not while.                      *)
WokenWithoutTest(c) ==
  /\ cpc[c] = "woken"
  /\ PutJob(cjob[c], jobs, max_jobs, read_idx, write_idx)
  /\ Return(c)
  /\ UNCHANGED <<kill_threads, num_threads, resize, signalled, wjob, histVars>>

(* It wakes up in cnd_wait(&queue->has_space_cond).                         *)
Woken(c) ==
  /\ cpc[c] = "woken"
  /\ IF num_queued = max_jobs
     THEN cpc' = [cpc EXCEPT ![c] = "asleep"] /\ UNCHANGED <<ringVars, wpc, cjob>>
     ELSE PutJob(cjob[c], jobs, max_jobs, read_idx, write_idx) /\ Return(c)
  /\ UNCHANGED <<kill_threads, num_threads, resize, signalled, wjob, histVars>>

(* util_queue_drop_job first looks at the fence, without any lock.          *)
util_queue_drop_job(c, j) ==
  /\ cpc[c] = "idle" /\ ~signalled[j]
  /\ cpc' = [cpc EXCEPT ![c] = "drop"]
  /\ cjob' = [cjob EXCEPT ![c] = j]
  /\ UNCHANGED <<ringVars, kill_threads, num_threads, resize, signalled, wpc, wjob, histVars>>

(* Mutant: the slot of the dropped job is not cleared.                      *)
DropLockedKeeps(c) ==
  LET j == cjob[c]
      found == {i \in Scanned : jobs[i] = j} IN
  /\ cpc[c] = "drop"
  /\ cpc' = [cpc EXCEPT ![c] = IF found = {} THEN "dropwait" ELSE "dropped"]
  /\ cleaned' = [cleaned EXCEPT ![j] = IF found # {} /\ j \in Cleanup THEN @ + 1 ELSE @]
  /\ UNCHANGED <<ringVars, kill_threads, num_threads, resize, signalled, wpc, wjob, cjob, added, ran>>

(* Under the lock: the callback is called and the slot is cleared.  A job   *)
(* is never in two slots (JobHeldOnce).                                     *)
DropLocked(c) ==
  LET j == cjob[c]
      found == {i \in Scanned : jobs[i] = j} IN
  /\ cpc[c] = "drop"
  /\ jobs' = [i \in Slots |-> IF i \in found THEN NoJob ELSE jobs[i]]
  /\ cpc' = [cpc EXCEPT ![c] = IF found = {} THEN "dropwait" ELSE "dropped"]
  /\ cleaned' = [cleaned EXCEPT ![j] = IF found # {} /\ j \in Cleanup THEN @ + 1 ELSE @]
  /\ UNCHANGED <<max_jobs, read_idx, write_idx, num_queued, kill_threads, num_threads, resize,
                 signalled, wpc, wjob, cjob, added, ran>>

(* Unlocked again: the fence of a removed job is signalled.                 *)
DropSignal(c) ==
  /\ cpc[c] = "dropped"
  /\ signalled' = [signalled EXCEPT ![cjob[c]] = TRUE]
  /\ Return(c)
  /\ UNCHANGED <<ringVars, kill_threads, num_threads, resize, wpc, wjob, histVars>>

(* util_queue_fence_wait is called, by a client or by util_queue_drop_job.  *)
util_queue_fence_wait(c, j) ==
  /\ cpc[c] = "idle" /\ ~signalled[j]
  /\ cpc' = [cpc EXCEPT ![c] = "wait"]
  /\ cjob' = [cjob EXCEPT ![c] = j]
  /\ UNCHANGED <<ringVars, kill_threads, num_threads, resize, signalled, wpc, wjob, histVars>>

FenceWaitReturns(c) ==
  /\ cpc[c] \in {"wait", "dropwait"} /\ signalled[cjob[c]]
  /\ Return(c)
  /\ UNCHANGED <<ringVars, kill_threads, num_threads, resize, signalled, wpc, wjob, histVars>>

-----------------------------------------------------------------------------
(* exit() or util_queue_destroy: util_queue_killall_and_wait.               *)

(* Mutant: the sleeping workers are not woken.                              *)
KillAllSilently ==
  /\ Shutdown /\ ~kill_threads
  /\ kill_threads' = TRUE
  /\ UNCHANGED <<ringVars, num_threads, resize, signalled, wpc, wjob, cpc, cjob, histVars>>

KillAll ==
  /\ Shutdown /\ ~kill_threads
  /\ kill_threads' = TRUE
  /\ wpc' = [w \in Workers |-> IF wpc[w] = "asleep" THEN "look" ELSE wpc[w]]
  /\ UNCHANGED <<ringVars, num_threads, resize, signalled, wjob, cpc, cjob, histVars>>

(* Every thread has been joined.                                            *)
Joined ==
  /\ kill_threads /\ num_threads # 0
  /\ \A w \in Workers : wpc[w] \in {"done", "none"}
  /\ num_threads' = 0
  /\ UNCHANGED <<ringVars, kill_threads, resize, signalled, wpc, wjob, cpc, cjob, histVars>>

-----------------------------------------------------------------------------

Worker(w) ==
  \/ TakeJob(w) \/ WaitForJob(w) \/ FinishJob(w) \/ CleanupJob(w)
  \/ LeaveLoop(w) \/ SignalRemaining(w)

(* A client inside one of the functions goes on.                            *)
Resume(c) == Woken(c) \/ DropLocked(c) \/ DropSignal(c) \/ FenceWaitReturns(c)

Client(c) ==
  \/ \E j \in Jobs : \/ util_queue_add_job(c, j)
                     \/ util_queue_drop_job(c, j)
                     \/ util_queue_fence_wait(c, j)
  \/ Resume(c)

Next ==
  \/ \E w \in Workers : Worker(w)
  \/ \E c \in Clients : Client(c)
  \/ KillAll \/ Joined

Spec == util_queue_init /\ [][Next]_vars

(* Threads run when they can (every step below is a critical section under  *)
(* one lock); nobody has to call exit() or any function of the queue.       *)
FairSpec ==
  /\ Spec
  /\ \A w \in Workers : WF_vars(Worker(w))
  /\ \A c \in Clients : WF_vars(Resume(c))
  /\ WF_vars(Joined)

-----------------------------------------------------------------------------
(* Properties.                                                              *)

(* Type invariant, with the assertion that num_queued is within the ring.   *)
TypeOK ==
  /\ max_jobs \in Nat \ {0}
  /\ jobs \in [Slots -> Jobs \cup {NoJob}]
  /\ read_idx \in Slots /\ write_idx \in Slots
  /\ num_queued \in 0..max_jobs
  /\ kill_threads \in BOOLEAN
  /\ num_threads \in 0..Cardinality(Workers)
  /\ resize \in BOOLEAN
  /\ signalled \in [Jobs -> BOOLEAN]
  /\ wpc \in [Workers -> {"look", "asleep", "execute", "cleanup", "exit", "done",
                      "none"}]
  /\ wjob \in [Workers -> Jobs \cup {NoJob}]
  /\ cpc \in [Clients -> {"idle", "asleep", "woken", "drop", "dropped", "dropwait", "wait"}]
  /\ cjob \in [Clients -> Jobs \cup {NoJob}]
  /\ added \in [Jobs -> Nat] /\ ran \in [Jobs -> Nat] /\ cleaned \in [Jobs -> Nat]

(* A worker has terminated after exit().                                    *)
ShutDown == kill_threads /\ \E w \in Workers : wpc[w] = "done"

(* Until a worker terminates, the num_queued slots from read_idx end before *)
(* write_idx and every other slot is empty, through wrap-around, drops and  *)
(* resizing: what the assertions of util_queue_add_job rely on.             *)
RingOK ==
  ShutDown \/
  /\ write_idx = (read_idx + num_queued) % max_jobs
  /\ \A i \in Slots : (i - read_idx) % max_jobs >= num_queued => jobs[i] = NoJob

(* No job is lost or taken twice: until a worker terminates, a job whose    *)
(* fence is not signalled is in one slot, or in the hands of one worker     *)
(* that executes it, of one client that waits for space to add it, or of    *)
(* one that is about to signal its fence after dropping it; and a job whose *)
(* fence is signalled is nowhere.                                           *)
Holders(j) ==
       {<<"slot", i>> : i \in {i \in Slots : jobs[i] = j}}
  \cup {<<"worker", w>> : w \in {w \in Workers : wpc[w] = "execute" /\ wjob[w] = j}}
  \cup {<<"client", c>> : c \in {c \in Clients :
                                   cpc[c] \in {"asleep", "woken", "dropped"} /\ cjob[c] = j}}

JobHeldOnce ==
  ShutDown \/ \A j \in Jobs : Cardinality(Holders(j)) = IF signalled[j] THEN 0 ELSE 1

(* Every accepted job with a cleanup callback gets exactly one call of it,  *)
(* from the worker that ran it or from util_queue_drop_job.                 *)
CleanupOnce ==
  \A j \in Cleanup :
    /\ cleaned[j] <= added[j]
    /\ (~kill_threads /\ MayAdd(j)) => cleaned[j] = added[j]

(* Until shutdown every job that was added runs or is dropped: no wakeup of *)
(* a worker or of a client that waits for space is lost.                    *)
JobsFinish == \A j \in Jobs : ~signalled[j] ~> (signalled[j] \/ kill_threads)

(* Until shutdown util_queue_add_job, util_queue_drop_job and               *)
(* util_queue_fence_wait return.                                            *)
CallsReturn == \A c \in Clients : cpc[c] # "idle" ~> (cpc[c] = "idle" \/ kill_threads)

(* exit() gets to the end of the joins: every worker, asleep or busy, sees  *)
(* kill_threads and terminates.                                             *)
ShutdownEnds == kill_threads ~> num_threads = 0

(* The ring is a queue: until shutdown it implements JobQueue.              *)
At(k) == jobs[(read_idx + k) % max_jobs]

Ahead == {r \in Jobs \X Jobs : \E k, l \in 0..(num_queued - 1) :
                                 k < l /\ At(k) = r[1] /\ At(l) = r[2]}

PhaseOf(j) ==
  CASE \E i \in Slots : jobs[i] = j -> "queued"
    [] \E w \in Workers : wpc[w] = "execute" /\ wjob[w] = j -> "running"
    [] \E c \in Clients : cpc[c] \in {"asleep", "woken"} /\ cjob[c] = j -> "blocked"
    [] \E c \in Clients : cpc[c] = "dropped" /\ cjob[c] = j -> "dropped"
    [] OTHER -> "idle"

JQ == INSTANCE JobQueue WITH
        phase <- [j \in Jobs |-> PhaseOf(j)],
        ahead <- Ahead,
        open <- ~kill_threads

(* Jobs start in the order in which they entered the queue, each once, and  *)
(* a dropped one never (refinement of JobQueue).                            *)
ImplementsJobQueue == JQ!JQSpec

(* u_queue.c, thread_func: "signal remaining jobs before terminating": when *)
(* all workers have terminated, no queued job has an unsignalled fence.     *)
RemainingSignalled ==
  (\A w \in Workers : wpc[w] \in {"done", "none"}) =>
    \A i \in Slots : jobs[i] # NoJob => signalled[jobs[i]]
=============================================================================
