------------------------------ MODULE JobQueue ------------------------------
(***************************************************************************)
(* What util_queue promises to its callers before shutdown: jobs start in  *)
(* the order in which they entered the queue, each of them at most once    *)
(* per addition, and a job may be taken back until it starts.  There is no *)
(* ring, no capacity and no condition variable here.  Once the queue is    *)
(* closed it promises nothing about the order of jobs any more.            *)
(***************************************************************************)
CONSTANT Jobs

VARIABLES
  phase,   \* where each job is
  ahead,   \* <<i, j>>: both are queued, and i is to start first
  open     \* exit() has not been called

Phases == {"idle", "blocked", "queued", "running", "dropped"}

JQInit ==
  /\ phase = [j \in Jobs |-> "idle"]
  /\ ahead = {}
  /\ open = TRUE

(* Moves a job to another phase.                                            *)
Move(j, from, to) ==
  /\ phase[j] = from
  /\ phase' = [phase EXCEPT ![j] = to]

(* The order without a job.                                                 *)
Without(j) == {r \in ahead : r[1] # j /\ r[2] # j}

(* A job enters behind all that are queued.                                 *)
Enter(j) ==
  /\ Move(j, "idle", "queued") \/ Move(j, "blocked", "queued")
  /\ ahead' = ahead \cup {i \in Jobs : phase[i] = "queued"} \X {j}

Block(j) == Move(j, "idle", "blocked") /\ UNCHANGED ahead

(* The first job starts.                                                    *)
Start(j) ==
  /\ \A i \in Jobs : <<i, j>> \notin ahead
  /\ Move(j, "queued", "running")
  /\ ahead' = Without(j)

TakeBack(j) ==
  /\ Move(j, "queued", "dropped")
  /\ ahead' = Without(j)

Finish(j) ==
  /\ Move(j, "running", "idle") \/ Move(j, "dropped", "idle")
  /\ UNCHANGED ahead

Working == \E j \in Jobs : Enter(j) \/ Block(j) \/ Start(j) \/ TakeBack(j) \/ Finish(j)

JQNext ==
  \/ open /\ Working /\ UNCHANGED open
  \/ ~open'

JQSpec == JQInit /\ [][JQNext]_<<phase, ahead, open>>
=============================================================================
