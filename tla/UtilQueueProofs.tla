-------------------------- MODULE UtilQueueProofs ---------------------------
(***************************************************************************)
(* The ring of util_queue and the jobs in it, for any number of jobs,      *)
(* workers, clients and slots: RingOK, JobHeldOnce and CleanupOnce; and    *)
(* that util_queue implements JobQueue.                                    *)
(*                                                                         *)
(* RingOK is not inductive by itself: that growing the ring keeps it needs *)
(* that kill_threads is set before a worker terminates.  JobHeldOnce and   *)
(* CleanupOnce count; IInv says instead which holders exclude each other,  *)
(* also after shutdown, when jobs may be lost but never doubled, and that  *)
(* a job in the hands of a cleanup callback has a signalled fence.         *)
(***************************************************************************)
EXTENDS UtilQueue, FiniteSetTheorems, TLAPS

(* Where a job with an unsignalled fence is: in a slot, ...                *)
InSlot(j) == \E i \in Slots : jobs[i] = j

(* ... with a worker that executes it, ...                                 *)
Executes(w, j) == wpc[w] = "execute" /\ wjob[w] = j

(* ... or with a client that waits for space or has taken it back.         *)
Has(c, j) == cpc[c] \in {"asleep", "woken", "dropped"} /\ cjob[c] = j

Waits(c, j) == cpc[c] \in {"asleep", "woken"} /\ cjob[c] = j

(* A worker is in the cleanup callback.                                    *)
Cleans(w, j) == wpc[w] = "cleanup" /\ wjob[w] = j

(* What each thread's place says about its local job, and about exit().    *)
LocalsOK ==
  /\ \A w \in Workers : /\ wjob[w] # NoJob <=> wpc[w] \in {"execute", "cleanup"}
                        /\ wpc[w] = "cleanup" => wjob[w] \in Cleanup
                        /\ wpc[w] \in {"exit", "done"} => kill_threads
  /\ \A c \in Clients : cjob[c] # NoJob <=> cpc[c] # "idle"

SlotsUnique ==
  \A i, k \in Slots : jobs[i] # NoJob /\ jobs[i] = jobs[k] => i = k

(* The holders of a job exclude each other, and its fence is not signalled.*)
HoldersOK ==
  \A j \in Jobs :
    /\ signalled[j] => ~InSlot(j)
    /\ \A w \in Workers : Executes(w, j) =>
         /\ ~signalled[j] /\ ~InSlot(j)
         /\ \A v \in Workers : Executes(v, j) => v = w
    /\ \A c \in Clients : Has(c, j) =>
         /\ ~signalled[j] /\ ~InSlot(j)
         /\ \A w \in Workers : ~Executes(w, j)
         /\ \A d \in Clients : Has(d, j) => d = c
    /\ \A w \in Workers : Cleans(w, j) =>
         signalled[j] /\ \A v \in Workers : Cleans(v, j) => v = w

(* A job whose fence is not signalled is somewhere.                        *)
NotLost ==
  ShutDown \/ \A j \in Jobs :
    \/ signalled[j] \/ InSlot(j)
    \/ \E w \in Workers : Executes(w, j)
    \/ \E c \in Clients : Has(c, j)

(* The job is still owed a call of its callback.                           *)
Owed(j) ==
  \/ InSlot(j)
  \/ \E w \in Workers : Executes(w, j) \/ Cleans(w, j)
  \/ \E c \in Clients : Waits(c, j)

CleanupOK ==
  \A j \in Cleanup :
    /\ cleaned[j] <= added[j]
    /\ Owed(j) => cleaned[j] < added[j]
    /\ ShutDown \/ added[j] = cleaned[j] + (IF Owed(j) THEN 1 ELSE 0)

IInv ==
  /\ TypeOK /\ RingOK /\ LocalsOK /\ SlotsUnique
  /\ HoldersOK /\ NotLost /\ CleanupOK

-----------------------------------------------------------------------------
(* Indices modulo the size of the ring.                                    *)

(* How far a slot is from another one.                                     *)
LEMMA Distance ==
  ASSUME NEW m \in Nat \ {0}, NEW r \in 0..(m - 1), NEW i \in 0..(m - 1)
  PROVE  (i - r) % m = IF i >= r THEN i - r ELSE i - r + m
  OBVIOUS

(* The slot at some distance.                                              *)
RingAdd(r, n, m) == (r + n) % m

LEMMA Advance ==
  ASSUME NEW m \in Nat \ {0}, NEW r \in 0..(m - 1), NEW n \in 0..m
  PROVE  RingAdd(r, n, m) = IF r + n < m THEN r + n ELSE r + n - m
  BY DEF RingAdd

(* The slot at some distance, and back.                                    *)
LEMMA DistanceAdvance ==
  ASSUME NEW m \in Nat \ {0}, NEW r \in 0..(m - 1)
  PROVE  /\ \A i \in 0..(m - 1) : /\ (i - r) % m \in 0..(m - 1)
                                  /\ \E n \in 0..(m - 1) : (r + n) % m = i
         /\ \A n \in 0..(m - 1) : /\ (r + n) % m \in 0..(m - 1)
                                  /\ (((r + n) % m) - r) % m = n
<1>1. ASSUME NEW i \in 0..(m - 1)
      PROVE  /\ (i - r) % m \in 0..(m - 1)
             /\ \E n \in 0..(m - 1) : (r + n) % m = i
  <2> DEFINE n == IF i >= r THEN i - r ELSE i - r + m
  <2>1. (i - r) % m = n
    BY Distance
  <2>2. n \in 0..(m - 1) /\ r + n = IF i >= r THEN i ELSE i + m
    OBVIOUS
  <2>3. (r + n) % m = i
    <3>1. CASE i >= r
      <4>1. r + n = i
        BY <2>2, <3>1
      <4>2. i % m = i
        OBVIOUS
      <4> QED BY <4>1, <4>2
    <3>2. CASE ~(i >= r)
      <4>1. r + n = i + m
        BY <2>2, <3>2
      <4>2. (i + m) % m = i
        OBVIOUS
      <4> QED BY <4>1, <4>2
    <3> QED BY <3>1, <3>2
  <2> HIDE DEF n
  <2> QED BY <2>1, <2>2, <2>3
<1>2. ASSUME NEW n \in 0..(m - 1)
      PROVE  /\ (r + n) % m \in 0..(m - 1)
             /\ (((r + n) % m) - r) % m = n
  <2>1. (r + n) % m = IF r + n < m THEN r + n ELSE r + n - m
    OBVIOUS
  <2>2. (r + n) % m \in 0..(m - 1)
    BY <2>1
  <2>3. (((r + n) % m) - r) % m = IF (r + n) % m >= r THEN ((r + n) % m) - r
                                                    ELSE ((r + n) % m) - r + m
    BY <2>2, Distance
  <2> QED BY <2>1, <2>2, <2>3
<1> QED BY <1>1, <1>2

-----------------------------------------------------------------------------
(* What the steps do to the ring.                                          *)

(* The types of the ring's variables.                                      *)
RingType ==
  /\ max_jobs \in Nat \ {0}
  /\ jobs \in [Slots -> Jobs \cup {NoJob}]
  /\ read_idx \in Slots /\ write_idx \in Slots
  /\ num_queued \in 0..max_jobs

RingShape ==
  /\ write_idx = (read_idx + num_queued) % max_jobs
  /\ \A i \in Slots : (i - read_idx) % max_jobs >= num_queued => jobs[i] = NoJob

(* The job at read_idx leaves the ring.                                    *)
SlotTaken ==
  /\ num_queued > 0
  /\ jobs' = [jobs EXCEPT ![read_idx] = NoJob]
  /\ read_idx' = (read_idx + 1) % max_jobs
  /\ num_queued' = num_queued - 1
  /\ UNCHANGED <<max_jobs, write_idx>>

(* A worker takes the job at read_idx.                                     *)
LEMMA TakeRing ==
  ASSUME RingType, SlotTaken
  PROVE  RingType' /\ (RingShape => RingShape')
<1>1. /\ max_jobs \in Nat \ {0} /\ read_idx \in 0..(max_jobs - 1)
      /\ num_queued \in 1..max_jobs
      /\ jobs \in [0..(max_jobs - 1) -> Jobs \cup {NoJob}]
      /\ jobs' = [jobs EXCEPT ![read_idx] = NoJob] /\ num_queued' = num_queued - 1
      /\ write_idx' = write_idx /\ max_jobs' = max_jobs
  BY DEF RingType, Slots, SlotTaken
<1>2. read_idx' = IF read_idx + 1 < max_jobs THEN read_idx + 1 ELSE 0
  BY <1>1 DEF SlotTaken
<1>3. RingType'
  BY <1>1, <1>2 DEF RingType, Slots
<1>4. ASSUME RingShape
      PROVE  RingShape'
  <2>1. write_idx = IF read_idx + num_queued < max_jobs THEN read_idx + num_queued
                    ELSE read_idx + num_queued - max_jobs
    <3>1. write_idx = (read_idx + num_queued) % max_jobs
      BY <1>4 DEF RingShape
    <3> QED BY <1>1, <3>1
  <2>2. /\ read_idx' \in 0..(max_jobs - 1) /\ num_queued' \in 0..max_jobs
        /\ max_jobs \in Nat \ {0}
    BY <1>1, <1>2
  <2>3. (read_idx' + num_queued') % max_jobs =
          IF read_idx' + num_queued' < max_jobs THEN read_idx' + num_queued'
          ELSE read_idx' + num_queued' - max_jobs
    BY <2>2, Advance, (read_idx' + num_queued') % max_jobs = RingAdd(read_idx', num_queued', max_jobs)
       DEF RingAdd
  <2>4. write_idx' = (read_idx' + num_queued') % max_jobs'
    BY <1>1, <1>2, <2>1, <2>3
  <2>5. ASSUME NEW i \in 0..(max_jobs - 1), (i - read_idx') % max_jobs >= num_queued'
        PROVE  jobs'[i] = NoJob
    <3>1. (i - read_idx') % max_jobs = IF i >= read_idx' THEN i - read_idx' ELSE i - read_idx' + max_jobs
      BY <1>1, <2>2, Distance
    <3>2. (i - read_idx) % max_jobs = IF i >= read_idx THEN i - read_idx ELSE i - read_idx + max_jobs
      BY <1>1, Distance
    <3>3. i # read_idx => (i - read_idx) % max_jobs >= num_queued
      BY <1>1, <1>2, <2>2, <2>5, <3>1, <3>2
    <3>4. i # read_idx => jobs[i] = NoJob
      BY <1>4, <3>3 DEF RingShape, Slots
    <3> QED BY <1>1, <3>4
  <2> QED BY <1>1, <2>4, <2>5 DEF RingShape, Slots
<1> QED BY <1>3, <1>4

(* The slot at write_idx is free when the ring is not full.                *)
LEMMA WriteSlotFree ==
  ASSUME RingType, RingShape, num_queued # max_jobs
  PROVE  jobs[write_idx] = NoJob
<1>1. /\ max_jobs \in Nat \ {0} /\ read_idx \in 0..(max_jobs - 1)
      /\ num_queued \in 0..(max_jobs - 1)
  BY DEF RingType, Slots
<1>2. (write_idx - read_idx) % max_jobs = num_queued
  BY <1>1, DistanceAdvance DEF RingShape
<1> QED BY <1>1, <1>2 DEF RingType, RingShape

(* A job goes to the slot at write_idx of a ring that is not full.         *)
LEMMA PutRing ==
  ASSUME RingType, num_queued # max_jobs, NEW j \in Jobs,
         PutJob(j, jobs, max_jobs, read_idx, write_idx)
  PROVE  RingType' /\ (RingShape => RingShape')
<1>1. /\ max_jobs \in Nat \ {0} /\ read_idx \in 0..(max_jobs - 1)
      /\ num_queued \in 0..(max_jobs - 1) /\ write_idx \in 0..(max_jobs - 1)
      /\ jobs \in [0..(max_jobs - 1) -> Jobs \cup {NoJob}]
  BY DEF RingType, Slots
<1>2. /\ jobs' = [jobs EXCEPT ![write_idx] = j]
      /\ max_jobs' = max_jobs /\ read_idx' = read_idx
      /\ write_idx' = (write_idx + 1) % max_jobs
      /\ num_queued' = num_queued + 1
  BY DEF PutJob
<1>3. write_idx' = IF write_idx + 1 < max_jobs THEN write_idx + 1 ELSE 0
  BY <1>1, <1>2
<1>4. RingType'
  BY <1>1, <1>2, <1>3 DEF RingType, Slots
<1>5. ASSUME RingShape
      PROVE  RingShape'
  <2>1. write_idx = IF read_idx + num_queued < max_jobs THEN read_idx + num_queued
                    ELSE read_idx + num_queued - max_jobs
    <3>1. write_idx = (read_idx + num_queued) % max_jobs
      BY <1>5 DEF RingShape
    <3> QED BY <1>1, <3>1
  <2>2. (read_idx + num_queued') % max_jobs =
          IF read_idx + num_queued' < max_jobs THEN read_idx + num_queued'
          ELSE read_idx + num_queued' - max_jobs
    BY <1>1, <1>2
  <2>3. write_idx' = (read_idx' + num_queued') % max_jobs'
    BY <1>1, <1>2, <1>3, <2>1, <2>2
  <2>4. ASSUME NEW i \in 0..(max_jobs - 1), (i - read_idx) % max_jobs >= num_queued + 1
        PROVE  jobs'[i] = NoJob
    <3>1. (i - read_idx) % max_jobs \in Int
      BY <1>1, DistanceAdvance
    <3>2. jobs[i] = NoJob
      BY <1>1, <1>5, <2>4, <3>1 DEF RingShape, Slots
    <3>3. (write_idx - read_idx) % max_jobs = num_queued
      BY <1>1, <1>5, DistanceAdvance DEF RingShape
    <3>4. i # write_idx
      BY <1>1, <2>4, <3>3
    <3> QED BY <1>1, <1>2, <3>2, <3>4
  <2> QED BY <1>2, <2>3, <2>4 DEF RingShape, Slots
<1> QED BY <1>4, <1>5

(* Which jobs are in the ring afterwards.  A worker takes one out.         *)
LEMMA TakeContents ==
  ASSUME RingType, SlotsUnique, SlotTaken
  PROVE  /\ SlotsUnique'
         /\ \A j \in Jobs : InSlot(j)' <=> InSlot(j) /\ j # jobs[read_idx]
<1>1. /\ Slots' = Slots /\ jobs' = [jobs EXCEPT ![read_idx] = NoJob]
      /\ jobs \in [Slots -> Jobs \cup {NoJob}] /\ read_idx \in Slots
  BY DEF SlotTaken, RingType, Slots
<1> QED BY <1>1, QueueAssumption DEF SlotsUnique, InSlot

(* An added job is in the ring, and only one that shutdown left in its     *)
(* slot may be overwritten.                                                *)
LEMMA PutContents ==
  ASSUME RingType, SlotsUnique, num_queued # max_jobs, NEW j \in Jobs, ~InSlot(j),
         PutJob(j, jobs, max_jobs, read_idx, write_idx)
  PROVE  /\ SlotsUnique' /\ InSlot(j)'
         /\ \A k \in Jobs : InSlot(k)' => InSlot(k) \/ k = j
         /\ RingShape => \A k \in Jobs : InSlot(k) => InSlot(k)'
<1>1. /\ Slots' = Slots /\ jobs' = [jobs EXCEPT ![write_idx] = j]
      /\ jobs \in [Slots -> Jobs \cup {NoJob}] /\ write_idx \in Slots
  BY DEF PutJob, RingType, Slots
<1>2. RingShape => jobs[write_idx] = NoJob
  BY WriteSlotFree
<1>3. SlotsUnique'
  BY <1>1 DEF SlotsUnique, InSlot
<1>4. InSlot(j)' /\ \A k \in Jobs : InSlot(k)' => InSlot(k) \/ k = j
  BY <1>1 DEF InSlot
<1>5. ASSUME RingShape, NEW k \in Jobs, InSlot(k)
      PROVE  InSlot(k)'
  BY <1>1, <1>2, <1>5, QueueAssumption DEF InSlot
<1> QED BY <1>3, <1>4, <1>5

(* A full ring grows: its jobs are copied from read_idx on, and the new    *)
(* one comes after them.                                                   *)
LEMMA GrowRing ==
  ASSUME RingType, RingShape, SlotsUnique, num_queued = max_jobs,
         NEW j \in Jobs, ~InSlot(j), PutResized(j)
  PROVE  /\ RingType' /\ RingShape' /\ SlotsUnique'
         /\ \A k \in Jobs : InSlot(k)' <=> InSlot(k) \/ k = j
<1> DEFINE m == max_jobs
           r == read_idx
           at(i) == jobs[(r + i) % m]
<1>1. /\ m \in Nat \ {0} /\ r \in 0..(m - 1)
      /\ jobs \in [0..(m - 1) -> Jobs \cup {NoJob}] /\ Slots = 0..(m - 1)
  BY DEF RingType, Slots
<1>2. write_idx = r
  <2>1. write_idx = RingAdd(r, m, m)
    BY DEF RingShape, RingAdd
  <2>2. RingAdd(r, m, m) = r
    BY <1>1, Advance
  <2> QED BY <2>1, <2>2
<1>3. CopiedJobs = [k \in 0..(m - 1) |-> at(k)]
  BY <1>2 DEF CopiedJobs
<1>4. DOMAIN CopiedJobs = 0..(m - 1) /\ Cardinality(DOMAIN CopiedJobs) = m
  BY <1>1, <1>3, FS_Interval
<1>5. \A i \in 0..(m - 1) : CopiedJobs[i] = at(i) /\ (r + i) % m \in 0..(m - 1)
  BY <1>1, <1>3, DistanceAdvance
<1>6. max_jobs' = m + 8 /\ read_idx' = 0 /\ write_idx' = (m + 1) % (m + 8) /\ num_queued' = m + 1
  <2>1. /\ max_jobs' = max_jobs + 8 /\ read_idx' = 0 /\ num_queued' = num_queued + 1
        /\ write_idx' = (Cardinality(DOMAIN CopiedJobs) + 1) % (max_jobs + 8)
    BY DEF PutResized, PutJob
  <2> QED BY <1>4, <2>1
<1>7. Slots' = 0..(m + 7)
  <2>1. Slots' = 0..(max_jobs' - 1)
    BY DEF Slots
  <2> QED BY <1>1, <1>6, <2>1
<1>8. /\ jobs' \in [0..(m + 7) -> Jobs \cup {NoJob}]
      /\ jobs'[m] = j
      /\ \A i \in 0..(m - 1) : jobs'[i] = at(i)
      /\ \A i \in (m + 1)..(m + 7) : jobs'[i] = NoJob
  <2>1. jobs' = [ResizedRing EXCEPT ![Cardinality(DOMAIN CopiedJobs)] = j]
    BY DEF PutResized, PutJob
  <2>2. \A i \in 0..(m - 1) : CopiedJobs[i] \in Jobs \cup {NoJob}
    BY <1>1, <1>5
  <2>3. m \in 0..(m + 7)
    BY <1>1
  <2>4. ResizedRing \in [0..(m + 7) -> Jobs \cup {NoJob}]
    BY <1>4, <2>2 DEF ResizedRing
  <2>5. \A i \in 0..(m + 7) : ResizedRing[i] = IF i \in 0..(m - 1) THEN CopiedJobs[i] ELSE NoJob
    BY <1>4 DEF ResizedRing
  <2>6. /\ jobs' \in [0..(m + 7) -> Jobs \cup {NoJob}] /\ jobs'[m] = j
        /\ \A i \in 0..(m + 7) : i # m => jobs'[i] = ResizedRing[i]
    BY <1>4, <2>1, <2>3, <2>4
  <2>7. ASSUME NEW i \in 0..(m - 1)
        PROVE  jobs'[i] = at(i)
    <3>1. i \in 0..(m + 7) /\ i # m
      BY <1>1
    <3> QED BY <1>5, <2>5, <2>6, <3>1
  <2>8. ASSUME NEW i \in (m + 1)..(m + 7)
        PROVE  jobs'[i] = NoJob
    <3>1. i \in 0..(m + 7) /\ i # m /\ i \notin 0..(m - 1)
      BY <1>1
    <3> QED BY <2>5, <2>6, <3>1
  <2> QED BY <2>6, <2>7, <2>8
<1>9. write_idx' = m + 1
  BY <1>1, <1>6
<1>10. RingType'
  BY <1>1, <1>6, <1>7, <1>8, <1>9 DEF RingType
<1>11. RingShape'
  <2>1. write_idx' = (0 + (m + 1)) % (m + 8)
    BY <1>1, <1>6
  <2>2. ASSUME NEW i \in 0..(m + 7), (i - 0) % (m + 8) >= m + 1
        PROVE  jobs'[i] = NoJob
    <3>1. i % (m + 8) = i
      BY <1>1
    <3>2. i \in (m + 1)..(m + 7)
      BY <1>1, <2>2, <3>1
    <3> QED BY <1>8, <3>2
  <2> QED BY <1>6, <1>7, <2>1, <2>2 DEF RingShape
<1>12. \A i \in 0..(m - 1) : at(i) # j
  BY <1>1, <1>5 DEF InSlot
<1>13. SlotsUnique'
  <2>1. SUFFICES ASSUME NEW i \in 0..(m + 7), NEW k \in 0..(m + 7),
                        jobs'[i] # NoJob, jobs'[i] = jobs'[k]
                 PROVE  i = k
    BY <1>1, <1>7 DEF SlotsUnique
  <2>2. i \in 0..m /\ k \in 0..m
    BY <1>1, <1>8, <2>1
  <2>3. CASE i \in 0..(m - 1) /\ k \in 0..(m - 1)
    <3>1. at(i) = at(k) /\ at(i) # NoJob
      BY <1>8, <2>1, <2>3
    <3>2. (r + i) % m = (r + k) % m
      BY <1>1, <1>5, <2>3, <3>1 DEF SlotsUnique
    <3>3. (((r + i) % m) - r) % m = i /\ (((r + k) % m) - r) % m = k
      BY <1>1, <2>3, DistanceAdvance
    <3> QED BY <3>2, <3>3
  <2>4. CASE i = m \/ k = m
    BY <1>1, <1>8, <1>12, <2>1, <2>2, <2>4
  <2> QED BY <1>1, <2>2, <2>3, <2>4
<1>14. ASSUME NEW k \in Jobs, InSlot(k)
       PROVE  InSlot(k)'
  <2>1. PICK i \in 0..(m - 1) : jobs[i] = k
    BY <1>1, <1>14 DEF InSlot
  <2>2. PICK d \in 0..(m - 1) : (r + d) % m = i
    BY <1>1, DistanceAdvance
  <2>3. jobs'[d] = jobs[(r + d) % m] /\ d \in Slots'
    BY <1>1, <1>7, <1>8
  <2>4. jobs[(r + d) % m] = jobs[i]
    BY <2>2
  <2> QED BY <2>1, <2>3, <2>4 DEF InSlot
<1>15. ASSUME NEW k \in Jobs, InSlot(k)'
       PROVE  InSlot(k) \/ k = j
  <2>1. PICK i \in 0..(m + 7) : jobs'[i] = k
    BY <1>1, <1>7, <1>15 DEF InSlot
  <2>2. i \in 0..(m - 1) \/ i = m
    BY <1>1, <1>8, <2>1, QueueAssumption
  <2> QED BY <1>1, <1>5, <1>8, <2>1, <2>2 DEF InSlot
<1>16. InSlot(j)'
  <2>1. m \in Slots' /\ jobs'[m] = j
    BY <1>1, <1>7, <1>8
  <2> QED BY <2>1 DEF InSlot
<1> QED BY <1>10, <1>11, <1>13, <1>14, <1>15, <1>16

-----------------------------------------------------------------------------
(* What the steps do to the threads.                                       *)

(* The types of the other variables.                                       *)
ThreadType ==
  /\ kill_threads \in BOOLEAN
  /\ num_threads \in 0..Cardinality(Workers)
  /\ resize \in BOOLEAN
  /\ signalled \in [Jobs -> BOOLEAN]
  /\ wpc \in [Workers -> {"look", "asleep", "execute", "cleanup", "exit", "done", "none"}]
  /\ wjob \in [Workers -> Jobs \cup {NoJob}]
  /\ cpc \in [Clients -> {"idle", "asleep", "woken", "drop", "dropped", "dropwait", "wait"}]
  /\ cjob \in [Clients -> Jobs \cup {NoJob}]
  /\ added \in [Jobs -> Nat] /\ ran \in [Jobs -> Nat] /\ cleaned \in [Jobs -> Nat]

(* The two halves of TypeOK, and RingOK in terms of RingShape.             *)
LEMMA Halves ==
  /\ TypeOK <=> RingType /\ ThreadType
  /\ RingOK <=> ShutDown \/ RingShape
  BY DEF TypeOK, RingType, ThreadType, RingOK, RingShape

(* cnd_signal(has_queued_cond) moves at most a sleeping worker.            *)
LEMMA WorkerWoken ==
  ASSUME ThreadType, SignalHasQueued
  PROVE  /\ wpc' \in [Workers -> {"look", "asleep", "execute", "cleanup", "exit", "done", "none"}]
         /\ \A w \in Workers : wpc'[w] = wpc[w] \/ (wpc[w] = "asleep" /\ wpc'[w] = "look")
  BY DEF SignalHasQueued, ThreadType

(* cnd_signal(has_space_cond) moves at most a sleeping client.             *)
LEMMA ClientWoken ==
  ASSUME ThreadType, SignalHasSpace
  PROVE  /\ cpc' \in [Clients -> {"idle", "asleep", "woken", "drop", "dropped", "dropwait", "wait"}]
         /\ \A c \in Clients : cpc'[c] = cpc[c] \/ (cpc[c] = "asleep" /\ cpc'[c] = "woken")
  BY DEF SignalHasSpace, ThreadType

(* The holders of jobs are the same.                                       *)
SameHolders ==
  /\ \A j \in Jobs : \A w \in Workers : Executes(w, j)' <=> Executes(w, j)
  /\ \A j \in Jobs : \A w \in Workers : Cleans(w, j)' <=> Cleans(w, j)
  /\ \A j \in Jobs : \A c \in Clients : Has(c, j)' <=> Has(c, j)
  /\ \A j \in Jobs : \A c \in Clients : Waits(c, j)' <=> Waits(c, j)

(* They are when only threads move that hold no job.                       *)
OthersMove ==
  /\ \A w \in Workers :
       \/ wpc'[w] = wpc[w] /\ wjob'[w] = wjob[w]
       \/ wpc[w] \notin {"execute", "cleanup"} /\ wpc'[w] \notin {"execute", "cleanup"}
  /\ \A c \in Clients :
       \/ cjob'[c] = cjob[c] /\ cpc'[c] = cpc[c]
       \/ cjob'[c] = cjob[c] /\ cpc[c] \in {"asleep", "woken"} /\ cpc'[c] \in {"asleep", "woken"}
       \/ /\ cpc[c] \notin {"asleep", "woken", "dropped"}
          /\ cpc'[c] \notin {"asleep", "woken", "dropped"}

LEMMA OthersMoveHolders ==
  ASSUME OthersMove
  PROVE  SameHolders
<1>1. ASSUME NEW j \in Jobs, NEW w \in Workers
      PROVE  Executes(w, j)' <=> Executes(w, j)
  BY DEF OthersMove, Executes
<1>2. ASSUME NEW j \in Jobs, NEW w \in Workers
      PROVE  Cleans(w, j)' <=> Cleans(w, j)
  BY DEF OthersMove, Cleans
<1>3. ASSUME NEW j \in Jobs, NEW c \in Clients
      PROVE  Has(c, j)' <=> Has(c, j)
  BY DEF OthersMove, Has
<1>4. ASSUME NEW j \in Jobs, NEW c \in Clients
      PROVE  Waits(c, j)' <=> Waits(c, j)
  BY DEF OthersMove, Waits
<1> QED BY <1>1, <1>2, <1>3, <1>4 DEF SameHolders

(* A step that changes neither the ring nor the holders keeps what IInv    *)
(* says of them.                                                           *)
LEMMA QuietStep ==
  ASSUME IInv, UNCHANGED <<ringVars, signalled, histVars>>, OthersMove, ShutDown' <=> ShutDown,
         ThreadType', LocalsOK'
  PROVE  IInv'
<1>1. RingType' /\ (RingShape' <=> RingShape) /\ \A j \in Jobs : InSlot(j)' <=> InSlot(j)
  BY Halves DEF IInv, ringVars, RingType, RingShape, InSlot, Slots
<1>2. TypeOK' /\ RingOK'
  <2>1. TypeOK'
    BY <1>1 DEF TypeOK, RingType, ThreadType
  <2>2. RingOK'
    BY <1>1, Halves DEF IInv, RingOK, RingShape
  <2> QED BY <2>1, <2>2
<1>3. SlotsUnique'
  BY DEF IInv, ringVars, SlotsUnique, Slots
<1>4. HoldersOK'
  BY <1>1, OthersMoveHolders DEF IInv, HoldersOK, SameHolders
<1>5. NotLost'
  BY <1>1, OthersMoveHolders DEF IInv, NotLost, SameHolders
<1>6. \A j \in Jobs : Owed(j)' <=> Owed(j)
  BY <1>1, OthersMoveHolders DEF Owed, SameHolders
<1>7. CleanupOK'
  BY <1>6, QueueAssumption DEF IInv, CleanupOK, histVars
<1> QED BY <1>2, <1>3, <1>4, <1>5, <1>7 DEF IInv

-----------------------------------------------------------------------------
(* The steps that only move threads.                                       *)

(* A worker goes to sleep.                                                 *)
LEMMA WaitForJobPreserves ==
  ASSUME IInv, NEW w \in Workers, WaitForJob(w)
  PROVE  IInv'
<1> USE QueueAssumption DEF WaitForJob, IInv
<1>1. ThreadType' /\ LocalsOK'
  BY Halves DEF ThreadType, LocalsOK, histVars
<1>2. OthersMove
  BY Halves DEF ThreadType, OthersMove
<1>3. ShutDown' <=> ShutDown
  BY Halves DEF ThreadType, ShutDown
<1> QED BY <1>1, <1>2, <1>3, QuietStep

(* A worker leaves its loop.                                               *)
LEMMA LeaveLoopPreserves ==
  ASSUME IInv, NEW w \in Workers, LeaveLoop(w)
  PROVE  IInv'
<1> USE QueueAssumption DEF LeaveLoop, IInv
<1>1. ThreadType' /\ LocalsOK'
  BY Halves DEF ThreadType, LocalsOK, histVars
<1>2. OthersMove
  BY Halves DEF ThreadType, OthersMove
<1>3. ShutDown' <=> ShutDown
  BY Halves DEF ThreadType, ShutDown
<1> QED BY <1>1, <1>2, <1>3, QuietStep

(* A client calls util_queue_drop_job.                                     *)
LEMMA util_queue_drop_jobPreserves ==
  ASSUME IInv, NEW c \in Clients, NEW j \in Jobs, util_queue_drop_job(c, j)
  PROVE  IInv'
<1> USE QueueAssumption DEF util_queue_drop_job, IInv
<1>1. ThreadType' /\ LocalsOK'
  BY Halves DEF ThreadType, LocalsOK, histVars
<1>2. OthersMove
  BY Halves DEF ThreadType, OthersMove
<1>3. ShutDown' <=> ShutDown
  BY Halves DEF ThreadType, ShutDown
<1> QED BY <1>1, <1>2, <1>3, QuietStep

(* A client calls util_queue_fence_wait.                                   *)
LEMMA util_queue_fence_waitPreserves ==
  ASSUME IInv, NEW c \in Clients, NEW j \in Jobs, util_queue_fence_wait(c, j)
  PROVE  IInv'
<1> USE QueueAssumption DEF util_queue_fence_wait, IInv
<1>1. ThreadType' /\ LocalsOK'
  BY Halves DEF ThreadType, LocalsOK, histVars
<1>2. OthersMove
  BY Halves DEF ThreadType, OthersMove
<1>3. ShutDown' <=> ShutDown
  BY Halves DEF ThreadType, ShutDown
<1> QED BY <1>1, <1>2, <1>3, QuietStep

(* ... and returns from it.                                                *)
LEMMA FenceWaitReturnsPreserves ==
  ASSUME IInv, NEW c \in Clients, FenceWaitReturns(c)
  PROVE  IInv'
<1> USE QueueAssumption DEF FenceWaitReturns, Return, IInv
<1>1. ThreadType' /\ LocalsOK'
  BY Halves DEF ThreadType, LocalsOK, histVars
<1>2. OthersMove
  BY Halves DEF ThreadType, OthersMove
<1>3. ShutDown' <=> ShutDown
  BY Halves DEF ThreadType, ShutDown
<1> QED BY <1>1, <1>2, <1>3, QuietStep

(* exit() sets kill_threads and wakes the workers.                         *)
LEMMA KillAllPreserves ==
  ASSUME IInv, KillAll
  PROVE  IInv'
<1> USE QueueAssumption DEF KillAll, IInv
<1>1. ThreadType' /\ LocalsOK'
  BY Halves DEF ThreadType, LocalsOK, histVars
<1>2. OthersMove
  BY Halves DEF ThreadType, OthersMove
<1>3. ShutDown' <=> ShutDown
  BY Halves DEF ThreadType, LocalsOK, ShutDown
<1> QED BY <1>1, <1>2, <1>3, QuietStep

(* exit() has joined the workers.                                          *)
LEMMA JoinedPreserves ==
  ASSUME IInv, Joined
  PROVE  IInv'
<1> USE QueueAssumption DEF Joined, IInv
<1>1. Cardinality(Workers) \in Nat
  BY FS_CardinalityType
<1>2. ThreadType' /\ LocalsOK'
  BY <1>1, Halves DEF ThreadType, LocalsOK, histVars
<1>3. OthersMove
  BY Halves DEF ThreadType, OthersMove
<1>4. ShutDown' <=> ShutDown
  BY Halves DEF ThreadType, ShutDown
<1> QED BY <1>2, <1>3, <1>4, QuietStep

-----------------------------------------------------------------------------
(* The steps that hand jobs on.                                            *)

(* A worker takes the first job: it leaves its slot and is executed.       *)
LEMMA TakeJobPreserves ==
  ASSUME IInv, NEW w \in Workers, TakeJob(w)
  PROVE  IInv'
<1> USE QueueAssumption
<1> DEFINE t == jobs[read_idx]
<1>1. /\ RingType /\ ThreadType /\ SlotTaken /\ wpc[w] = "look" /\ ~kill_threads
      /\ SignalHasSpace
      /\ wjob' = [wjob EXCEPT ![w] = t]
      /\ wpc' = [wpc EXCEPT ![w] = IF t = NoJob THEN "look" ELSE "execute"]
      /\ UNCHANGED <<kill_threads, num_threads, resize, signalled, cjob, histVars>>
  BY Halves DEF IInv, TakeJob, SlotTaken
<1>2. t \in Jobs \cup {NoJob} /\ (t \in Jobs => InSlot(t))
  BY <1>1 DEF RingType, InSlot
<1>3. /\ cpc' \in [Clients -> {"idle", "asleep", "woken", "drop", "dropped", "dropwait", "wait"}]
      /\ \A c \in Clients : cpc'[c] = cpc[c] \/ (cpc[c] = "asleep" /\ cpc'[c] = "woken")
  BY <1>1, ClientWoken
<1>4. RingType' /\ (RingShape => RingShape') /\ SlotsUnique'
  BY <1>1, TakeRing, TakeContents DEF IInv
<1>5. ThreadType'
  BY <1>1, <1>2, <1>3 DEF ThreadType, histVars
<1>6. LocalsOK'
  BY <1>1, <1>2, <1>3 DEF IInv, LocalsOK, ThreadType
<1>7. ~ShutDown /\ ~ShutDown'
  BY <1>1 DEF ShutDown
<1>8. \A j \in Jobs : InSlot(j)' <=> InSlot(j) /\ j # t
  BY <1>1, TakeContents DEF IInv
<1>9. \A j \in Jobs : \A v \in Workers :
        Executes(v, j)' <=> (v = w /\ j = t) \/ (v # w /\ Executes(v, j))
  BY <1>1, <1>2 DEF Executes, ThreadType
<1>10. \A j \in Jobs : ~Executes(w, j)
  BY <1>1 DEF Executes
<1>11. \A j \in Jobs : \A v \in Workers : Cleans(v, j)' <=> Cleans(v, j)
  BY <1>1, <1>2 DEF Cleans, ThreadType
<1>12. \A j \in Jobs : \A c \in Clients :
         (Has(c, j)' <=> Has(c, j)) /\ (Waits(c, j)' <=> Waits(c, j))
  BY <1>1, <1>3 DEF Has, Waits
<1>13. HoldersOK'
  BY <1>1, <1>2, <1>8, <1>9, <1>11, <1>12 DEF IInv, HoldersOK
<1>14. NotLost'
  BY <1>1, <1>7, <1>8, <1>9, <1>10, <1>12 DEF IInv, NotLost
<1>15. \A j \in Jobs : Owed(j)' <=> Owed(j)
  BY <1>2, <1>8, <1>9, <1>10, <1>11, <1>12 DEF Owed
<1>16. CleanupOK'
  BY <1>1, <1>7, <1>15 DEF IInv, CleanupOK, histVars
<1>17. TypeOK'
  BY <1>4, <1>5 DEF TypeOK, RingType, ThreadType
<1>18. RingOK'
  BY <1>4, <1>7, Halves DEF IInv, RingOK, RingShape
<1> QED BY <1>4, <1>6, <1>13, <1>14, <1>16, <1>17, <1>18 DEF IInv

(* execute() returns: the job is in no hands but the callback's.           *)
LEMMA FinishJobPreserves ==
  ASSUME IInv, NEW w \in Workers, FinishJob(w)
  PROVE  IInv'
<1> USE QueueAssumption
<1> DEFINE t == wjob[w]
<1>1. /\ RingType /\ ThreadType /\ wpc[w] = "execute"
      /\ ran' = [ran EXCEPT ![t] = @ + 1]
      /\ signalled' = [signalled EXCEPT ![t] = TRUE]
      /\ wpc' = [wpc EXCEPT ![w] = IF t \in Cleanup THEN "cleanup" ELSE "look"]
      /\ wjob' = [wjob EXCEPT ![w] = IF t \in Cleanup THEN t ELSE NoJob]
      /\ UNCHANGED <<ringVars, kill_threads, num_threads, resize, cpc, cjob, added, cleaned>>
  BY Halves DEF IInv, FinishJob
<1>2. t \in Jobs /\ Executes(w, t)
  BY <1>1 DEF IInv, LocalsOK, ThreadType, Executes
<1>3. RingType' /\ (RingShape' <=> RingShape) /\ SlotsUnique' /\ \A j \in Jobs : InSlot(j)' <=> InSlot(j)
  BY <1>1 DEF IInv, ringVars, RingType, RingShape, SlotsUnique, InSlot, Slots
<1>4. ThreadType' /\ LocalsOK'
  BY <1>1, <1>2 DEF IInv, ThreadType, LocalsOK
<1>5. ShutDown' <=> ShutDown
  BY <1>1 DEF ShutDown, ThreadType
<1>6. \A j \in Jobs : \A v \in Workers : Executes(v, j)' <=> v # w /\ Executes(v, j)
  BY <1>1 DEF Executes, ThreadType
<1>7. \A j \in Jobs : \A v \in Workers :
        Cleans(v, j)' <=> (v = w /\ j = t /\ t \in Cleanup) \/ (v # w /\ Cleans(v, j))
  BY <1>1, <1>2 DEF Cleans, ThreadType
<1>8. \A j \in Jobs : ~Cleans(w, j)
  BY <1>1 DEF Cleans
<1>9. \A j \in Jobs : \A c \in Clients :
        (Has(c, j)' <=> Has(c, j)) /\ (Waits(c, j)' <=> Waits(c, j))
  BY <1>1 DEF Has, Waits
<1>10. \A j \in Jobs : signalled'[j] <=> signalled[j] \/ j = t
  BY <1>1, <1>2 DEF ThreadType
<1>11. HoldersOK'
  BY <1>2, <1>3, <1>6, <1>7, <1>9, <1>10 DEF IInv, HoldersOK
<1>12. NotLost'
  BY <1>2, <1>3, <1>5, <1>6, <1>9, <1>10 DEF IInv, NotLost, HoldersOK, Executes
<1>13. \A j \in Cleanup : Owed(j)' <=> Owed(j)
  BY <1>2, <1>3, <1>6, <1>7, <1>8, <1>9 DEF Owed, Executes
<1>14. CleanupOK'
  BY <1>1, <1>5, <1>13 DEF IInv, CleanupOK
<1>15. TypeOK'
  BY <1>3, <1>4 DEF TypeOK, RingType, ThreadType
<1>16. RingOK'
  BY <1>3, <1>5, Halves DEF IInv, RingOK, RingShape
<1> QED BY <1>3, <1>4, <1>11, <1>12, <1>14, <1>15, <1>16 DEF IInv

(* The callback is called for a job that is nowhere else.                  *)
LEMMA CleanupJobPreserves ==
  ASSUME IInv, NEW w \in Workers, CleanupJob(w)
  PROVE  IInv'
<1> USE QueueAssumption
<1>0. PICK t : t = wjob[w]
  OBVIOUS
<1>1. /\ RingType /\ ThreadType /\ wpc[w] = "cleanup"
      /\ cleaned' = [cleaned EXCEPT ![t] = @ + 1]
      /\ wpc' = [wpc EXCEPT ![w] = "look"]
      /\ wjob' = [wjob EXCEPT ![w] = NoJob]
      /\ UNCHANGED <<ringVars, kill_threads, num_threads, resize, signalled, cpc, cjob, added, ran>>
  BY <1>0, Halves DEF IInv, CleanupJob
<1>2. t \in Cleanup /\ t \in Jobs /\ Cleans(w, t)
  BY <1>0, <1>1 DEF IInv, LocalsOK, ThreadType, Cleans
<1>3. RingType' /\ (RingShape' <=> RingShape) /\ SlotsUnique' /\ \A j \in Jobs : InSlot(j)' <=> InSlot(j)
  BY <1>1 DEF IInv, ringVars, RingType, RingShape, SlotsUnique, InSlot, Slots
<1>4. ThreadType' /\ LocalsOK'
  BY <1>1, <1>2 DEF IInv, ThreadType, LocalsOK
<1>5. ShutDown' <=> ShutDown
  BY <1>1 DEF ShutDown, ThreadType
<1>6. \A j \in Jobs : \A v \in Workers : Executes(v, j)' <=> Executes(v, j)
  BY <1>1 DEF Executes, ThreadType
<1>7. \A j \in Jobs : \A v \in Workers : Cleans(v, j)' <=> v # w /\ Cleans(v, j)
  BY <1>0, <1>1, <1>2 DEF Cleans, ThreadType
<1>8. \A j \in Jobs : \A c \in Clients :
        (Has(c, j)' <=> Has(c, j)) /\ (Waits(c, j)' <=> Waits(c, j))
  BY <1>1 DEF Has, Waits
<1>9. HoldersOK'
  BY <1>1, <1>3, <1>6, <1>7, <1>8 DEF IInv, HoldersOK
<1>10. NotLost'
  BY <1>1, <1>3, <1>5, <1>6, <1>8 DEF IInv, NotLost
<1>11. \A j \in Jobs \ {t} : Owed(j)' <=> Owed(j)
  BY <1>0, <1>1, <1>3, <1>6, <1>7, <1>8 DEF Owed, Cleans
<1>12. Owed(t) /\ ~Owed(t)'
  <2>1. ~InSlot(t) /\ \A v \in Workers : ~Executes(v, t) /\ (Cleans(v, t) => v = w)
    BY <1>2 DEF IInv, HoldersOK
  <2>2. \A c \in Clients : ~Waits(c, t)
    BY <1>2 DEF IInv, HoldersOK, Has, Waits
  <2> QED BY <1>2, <1>3, <1>6, <1>7, <1>8, <2>1, <2>2 DEF Owed
<1>13. CleanupOK'
  <2>1. /\ cleaned'[t] = cleaned[t] + 1 /\ \A j \in Jobs \ {t} : cleaned'[j] = cleaned[j]
        /\ \A j \in Jobs : cleaned[j] \in Nat /\ added[j] \in Nat
    BY <1>1, <1>2 DEF ThreadType
  <2> QED BY <1>1, <1>2, <1>5, <1>11, <1>12, <2>1 DEF IInv, CleanupOK
<1>14. TypeOK'
  BY <1>3, <1>4 DEF TypeOK, RingType, ThreadType
<1>15. RingOK'
  BY <1>3, <1>5, Halves DEF IInv, RingOK, RingShape
<1> QED BY <1>3, <1>4, <1>9, <1>10, <1>13, <1>14, <1>15 DEF IInv

(* The last critical section of a worker: queued jobs are forgotten, each  *)
(* after its fence is signalled.                                           *)
LEMMA SignalRemainingPreserves ==
  ASSUME IInv, NEW w \in Workers, SignalRemaining(w)
  PROVE  IInv'
<1> USE QueueAssumption
<1>1. /\ RingType /\ ThreadType /\ wpc[w] = "exit"
      /\ signalled' = [j \in Jobs |-> signalled[j] \/ \E i \in Scanned : jobs[i] = j]
      /\ jobs' = [i \in Slots |-> IF i \in Scanned THEN NoJob ELSE jobs[i]]
      /\ read_idx' = write_idx /\ num_queued' = 0
      /\ wpc' = [wpc EXCEPT ![w] = "done"]
      /\ UNCHANGED <<max_jobs, write_idx, kill_threads, num_threads, resize, wjob, cpc, cjob, histVars>>
  BY Halves DEF IInv, SignalRemaining
<1>2. Slots' = Slots /\ Scanned \subseteq Slots
  BY <1>1 DEF Slots, Scanned
<1>3. RingType'
  <2>1. max_jobs' \in Nat \ {0} /\ num_queued' \in 0..max_jobs'
    BY <1>1 DEF RingType
  <2> QED BY <1>1, <1>2, <2>1 DEF RingType
<1>4. ShutDown'
  BY <1>1 DEF ShutDown, ThreadType, IInv, LocalsOK
<1>5. ThreadType'
  BY <1>1 DEF ThreadType, histVars
<1>6. LocalsOK'
  BY <1>1 DEF ThreadType, IInv, LocalsOK
<1>7. SlotsUnique'
  BY <1>1, <1>2 DEF IInv, SlotsUnique
<1>8. \A j \in Jobs : InSlot(j)' => InSlot(j) /\ ~\E i \in Scanned : jobs[i] = j
  <2>1. SUFFICES ASSUME NEW j \in Jobs, NEW k \in Slots, jobs'[k] = j
                 PROVE  InSlot(j) /\ \A i \in Scanned : jobs[i] # j
    BY <1>2 DEF InSlot
  <2>2. k \notin Scanned /\ jobs[k] = j
    BY <1>1, <2>1
  <2> QED BY <1>2, <2>2 DEF InSlot, IInv, SlotsUnique
<1>9. \A j \in Jobs : ~InSlot(j) => ~\E i \in Scanned : jobs[i] = j
  BY <1>2 DEF InSlot
<1>10. \A j \in Jobs : signalled'[j] <=> (signalled[j] \/ \E i \in Scanned : jobs[i] = j)
  BY <1>1
<1>11. \A j \in Jobs : \A v \in Workers :
         (Executes(v, j)' <=> Executes(v, j)) /\ (Cleans(v, j)' <=> Cleans(v, j))
  BY <1>1 DEF Executes, Cleans, ThreadType
<1>12. \A j \in Jobs : \A c \in Clients :
         (Has(c, j)' <=> Has(c, j)) /\ (Waits(c, j)' <=> Waits(c, j))
  BY <1>1 DEF Has, Waits
<1>13. HoldersOK'
  BY <1>8, <1>9, <1>10, <1>11, <1>12 DEF IInv, HoldersOK
<1>14. NotLost'
  BY <1>4 DEF NotLost
<1>15. \A j \in Jobs : Owed(j)' => Owed(j)
  BY <1>8, <1>11, <1>12 DEF Owed
<1>16. CleanupOK'
  BY <1>1, <1>4, <1>15 DEF IInv, CleanupOK, histVars
<1>17. TypeOK'
  BY <1>3, <1>5 DEF TypeOK, RingType, ThreadType
<1>18. RingOK'
  BY <1>4 DEF RingOK
<1> QED BY <1>6, <1>7, <1>13, <1>14, <1>16, <1>17, <1>18 DEF IInv

(* What entering the ring, grown or not, means for its jobs and workers.   *)
LEMMA Entered ==
  ASSUME IInv, NEW j \in Jobs, ~InSlot(j), UNCHANGED <<kill_threads, wjob>>,
         \/ num_queued # max_jobs /\ PutJob(j, jobs, max_jobs, read_idx, write_idx)
         \/ num_queued = max_jobs /\ ~ShutDown /\ PutResized(j)
  PROVE  /\ RingType' /\ RingOK' /\ SlotsUnique' /\ (ShutDown' <=> ShutDown)
         /\ wpc' \in [Workers -> {"look", "asleep", "execute", "cleanup", "exit", "done", "none"}]
         /\ \A w \in Workers : wpc'[w] = wpc[w] \/ (wpc[w] = "asleep" /\ wpc'[w] = "look")
         /\ InSlot(j)' /\ \A k \in Jobs : InSlot(k)' => InSlot(k) \/ k = j
         /\ ~ShutDown => \A k \in Jobs : InSlot(k) => InSlot(k)'
         /\ \A k \in Jobs : \A w \in Workers :
              (Executes(w, k)' <=> Executes(w, k)) /\ (Cleans(w, k)' <=> Cleans(w, k))
<1>1. RingType /\ ThreadType /\ (ShutDown \/ RingShape) /\ SlotsUnique
  BY Halves DEF IInv
<1>2. SignalHasQueued
  BY DEF PutResized, PutJob
<1>3. /\ wpc' \in [Workers -> {"look", "asleep", "execute", "cleanup", "exit", "done", "none"}]
      /\ \A w \in Workers : wpc'[w] = wpc[w] \/ (wpc[w] = "asleep" /\ wpc'[w] = "look")
  BY <1>1, <1>2, WorkerWoken
<1>4. ShutDown' <=> ShutDown
  BY <1>3 DEF ShutDown
<1>5. \A k \in Jobs : \A w \in Workers :
        (Executes(w, k)' <=> Executes(w, k)) /\ (Cleans(w, k)' <=> Cleans(w, k))
  BY <1>3 DEF Executes, Cleans
<1>6. CASE num_queued # max_jobs /\ PutJob(j, jobs, max_jobs, read_idx, write_idx)
  <2>1. RingType' /\ (RingShape => RingShape')
    BY <1>1, <1>6, PutRing
  <2>2. /\ SlotsUnique' /\ InSlot(j)'
        /\ \A k \in Jobs : InSlot(k)' => InSlot(k) \/ k = j
        /\ RingShape => \A k \in Jobs : InSlot(k) => InSlot(k)'
    BY <1>1, <1>6, PutContents
  <2>3. RingOK'
    BY <1>1, <1>4, <2>1 DEF RingOK, RingShape
  <2> QED BY <1>1, <1>3, <1>4, <1>5, <2>1, <2>2, <2>3
<1>7. CASE num_queued = max_jobs /\ ~ShutDown /\ PutResized(j)
  <2>1. /\ RingType' /\ RingShape' /\ SlotsUnique'
        /\ \A k \in Jobs : InSlot(k)' <=> InSlot(k) \/ k = j
    BY <1>1, <1>7, GrowRing
  <2>2. RingOK'
    BY <2>1 DEF RingOK, RingShape
  <2> QED BY <1>1, <1>3, <1>4, <1>5, <2>1, <2>2
<1> QED BY <1>6, <1>7

(* util_queue_add_job accepts a job that nobody holds.                     *)
LEMMA util_queue_add_jobPreserves ==
  ASSUME IInv, NEW c \in Clients, NEW j \in Jobs, util_queue_add_job(c, j)
  PROVE  IInv'
<1> USE QueueAssumption
<1>1. /\ RingType /\ ThreadType /\ cpc[c] = "idle" /\ MayAdd(j) /\ ~kill_threads
      /\ added' = [added EXCEPT ![j] = @ + 1]
      /\ signalled' = [signalled EXCEPT ![j] = FALSE]
      /\ UNCHANGED <<kill_threads, num_threads, resize, wjob, ran, cleaned>>
  BY Halves DEF IInv, util_queue_add_job
<1>2. /\ ~ShutDown /\ ~ShutDown' /\ signalled[j] /\ ~InSlot(j)
      /\ \A w \in Workers : ~Executes(w, j) /\ ~Cleans(w, j)
      /\ \A d \in Clients : ~Has(d, j) /\ ~Waits(d, j)
  BY <1>1 DEF ShutDown, MayAdd, IInv, HoldersOK, Cleans, Has, Waits
<1>3. \A k \in Jobs : signalled'[k] <=> signalled[k] /\ k # j
  BY <1>1 DEF ThreadType
<1>4. /\ added'[j] = added[j] + 1 /\ \A k \in Jobs \ {j} : added'[k] = added[k]
      /\ \A k \in Jobs : cleaned'[k] = cleaned[k] /\ cleaned[k] \in Nat /\ added[k] \in Nat
  BY <1>1 DEF ThreadType
<1>5. ASSUME Owed(j)', \A k \in Jobs \ {j} : Owed(k)' <=> Owed(k)
      PROVE  CleanupOK'
  <2>1. ~Owed(j)
    BY <1>2 DEF Owed
  <2> QED BY <1>2, <1>4, <1>5, <2>1 DEF IInv, CleanupOK
<1>6. CASE /\ \/ num_queued # max_jobs /\ PutJob(j, jobs, max_jobs, read_idx, write_idx)
              \/ num_queued = max_jobs /\ PutResized(j)
           /\ UNCHANGED <<cpc, cjob>>
  <2>1. /\ RingType' /\ RingOK' /\ SlotsUnique'
        /\ wpc' \in [Workers -> {"look", "asleep", "execute", "cleanup", "exit", "done", "none"}]
        /\ \A w \in Workers : wpc'[w] = wpc[w] \/ (wpc[w] = "asleep" /\ wpc'[w] = "look")
        /\ \A k \in Jobs : InSlot(k)' <=> InSlot(k) \/ k = j
        /\ \A k \in Jobs : \A w \in Workers :
             (Executes(w, k)' <=> Executes(w, k)) /\ (Cleans(w, k)' <=> Cleans(w, k))
    BY <1>1, <1>2, <1>6, Entered
  <2>2. \A k \in Jobs : \A d \in Clients :
          (Has(d, k)' <=> Has(d, k)) /\ (Waits(d, k)' <=> Waits(d, k))
    BY <1>6 DEF Has, Waits
  <2>3. ThreadType'
    BY <1>1, <1>6, <2>1 DEF ThreadType
  <2>4. LocalsOK'
    BY <1>1, <1>6, <2>1 DEF IInv, LocalsOK
  <2>5. HoldersOK'
    BY <1>2, <1>3, <2>1, <2>2 DEF IInv, HoldersOK
  <2>6. NotLost'
    BY <1>2, <1>3, <2>1, <2>2 DEF IInv, NotLost
  <2>7. CleanupOK'
    BY <1>5, <2>1, <2>2 DEF Owed
  <2>8. TypeOK'
    BY <2>1, <2>3 DEF TypeOK, RingType, ThreadType
  <2> QED BY <2>1, <2>4, <2>5, <2>6, <2>7, <2>8 DEF IInv
<1>7. CASE /\ cpc' = [cpc EXCEPT ![c] = "asleep"]
           /\ cjob' = [cjob EXCEPT ![c] = j]
           /\ UNCHANGED <<ringVars, wpc>>
  <2>1. RingType' /\ RingOK' /\ SlotsUnique' /\ \A k \in Jobs : InSlot(k)' <=> InSlot(k)
    BY <1>1, <1>2, <1>7, Halves DEF IInv, ringVars, RingType, RingOK, RingShape, SlotsUnique, InSlot, Slots
  <2>2. \A k \in Jobs : \A w \in Workers :
          (Executes(w, k)' <=> Executes(w, k)) /\ (Cleans(w, k)' <=> Cleans(w, k))
    BY <1>1, <1>7 DEF Executes, Cleans
  <2>3. \A k \in Jobs : \A d \in Clients :
          /\ Has(d, k)' <=> Has(d, k) \/ (d = c /\ k = j)
          /\ Waits(d, k)' <=> Waits(d, k) \/ (d = c /\ k = j)
    BY <1>1, <1>7 DEF Has, Waits, ThreadType
  <2>4. ThreadType' /\ LocalsOK'
    BY <1>1, <1>7 DEF IInv, LocalsOK, ThreadType
  <2>5. HoldersOK'
    BY <1>2, <1>3, <2>1, <2>2, <2>3 DEF IInv, HoldersOK
  <2>6. NotLost'
    BY <1>2, <1>3, <2>1, <2>2, <2>3 DEF IInv, NotLost
  <2>7. CleanupOK'
    BY <1>5, <2>1, <2>2, <2>3 DEF Owed
  <2>8. TypeOK'
    BY <2>1, <2>4 DEF TypeOK, RingType, ThreadType
  <2> QED BY <2>1, <2>4, <2>5, <2>6, <2>7, <2>8 DEF IInv
<1> QED BY <1>6, <1>7 DEF util_queue_add_job

(* A client wakes up: it sleeps again, or its job enters the ring.         *)
LEMMA WokenPreserves ==
  ASSUME IInv, NEW c \in Clients, Woken(c)
  PROVE  IInv'
<1> USE QueueAssumption
<1>0. PICK j : j = cjob[c]
  OBVIOUS
<1>1. /\ RingType /\ ThreadType /\ cpc[c] = "woken"
      /\ UNCHANGED <<kill_threads, num_threads, resize, signalled, wjob, histVars>>
  BY Halves DEF IInv, Woken
<1>2. j \in Jobs /\ Has(c, j) /\ Waits(c, j)
  BY <1>0, <1>1 DEF IInv, LocalsOK, ThreadType, Has, Waits
<1>3. CASE num_queued = max_jobs
  <2>1. cpc' = [cpc EXCEPT ![c] = "asleep"] /\ UNCHANGED <<ringVars, wpc, cjob>>
    BY <1>3 DEF Woken
  <2>2. ThreadType' /\ LocalsOK'
    BY <1>1, <2>1 DEF IInv, ThreadType, LocalsOK, histVars
  <2>3. OthersMove
    BY <1>1, <2>1 DEF ThreadType, OthersMove
  <2>4. ShutDown' <=> ShutDown
    BY <1>1, <2>1 DEF ShutDown
  <2> QED BY <1>1, <2>1, <2>2, <2>3, <2>4, QuietStep
<1>4. CASE num_queued # max_jobs
  <2>1. /\ PutJob(j, jobs, max_jobs, read_idx, write_idx)
        /\ cpc' = [cpc EXCEPT ![c] = "idle"] /\ cjob' = [cjob EXCEPT ![c] = NoJob]
    BY <1>0, <1>4 DEF Woken, Return
  <2>2. /\ ~InSlot(j) /\ ~signalled[j] /\ \A w \in Workers : ~Executes(w, j) /\ ~Cleans(w, j)
        /\ \A d \in Clients : Has(d, j) => d = c
    BY <1>2 DEF IInv, HoldersOK
  <2>3. /\ RingType' /\ RingOK' /\ SlotsUnique' /\ (ShutDown' <=> ShutDown)
        /\ wpc' \in [Workers -> {"look", "asleep", "execute", "cleanup", "exit", "done", "none"}]
        /\ \A w \in Workers : wpc'[w] = wpc[w] \/ (wpc[w] = "asleep" /\ wpc'[w] = "look")
        /\ InSlot(j)' /\ \A k \in Jobs : InSlot(k)' => InSlot(k) \/ k = j
        /\ ~ShutDown => \A k \in Jobs : InSlot(k) => InSlot(k)'
        /\ \A k \in Jobs : \A w \in Workers :
             (Executes(w, k)' <=> Executes(w, k)) /\ (Cleans(w, k)' <=> Cleans(w, k))
    BY <1>1, <1>2, <1>4, <2>1, <2>2, Entered
  <2>4. \A k \in Jobs : \A d \in Clients :
          /\ Has(d, k)' <=> Has(d, k) /\ d # c
          /\ Waits(d, k)' <=> Waits(d, k) /\ d # c
    BY <1>1, <2>1 DEF Has, Waits, ThreadType
  <2>5. \A k \in Jobs : (Has(c, k) => k = j) /\ (Waits(c, k) => k = j)
    BY <1>0 DEF Has, Waits
  <2>6. ThreadType'
    BY <1>1, <2>1, <2>3 DEF ThreadType, histVars
  <2>7. LocalsOK'
    BY <1>1, <2>1, <2>3 DEF IInv, LocalsOK, ThreadType
  <2>8. HoldersOK'
    BY <1>1, <2>2, <2>3, <2>4 DEF IInv, HoldersOK
  <2>9. NotLost'
    BY <1>1, <2>3, <2>4, <2>5 DEF IInv, NotLost
  <2>10. /\ \A k \in Jobs : Owed(k)' => Owed(k)
         /\ ~ShutDown => \A k \in Jobs : Owed(k) => Owed(k)'
    BY <1>2, <2>3, <2>4, <2>5 DEF Owed
  <2>11. CleanupOK'
    BY <1>1, <2>3, <2>10 DEF IInv, CleanupOK, histVars
  <2>12. TypeOK'
    BY <2>3, <2>6 DEF TypeOK, RingType, ThreadType
  <2> QED BY <2>3, <2>7, <2>8, <2>9, <2>11, <2>12 DEF IInv
<1> QED BY <1>3, <1>4

(* util_queue_drop_job looks for the job under the lock: one that it finds *)
(* is cleaned up and leaves its slot, and the client holds it.             *)
LEMMA DropLockedPreserves ==
  ASSUME IInv, NEW c \in Clients, DropLocked(c)
  PROVE  IInv'
<1> USE QueueAssumption
<1>0. PICK j, found : j = cjob[c] /\ found = {i \in Scanned : jobs[i] = j}
  OBVIOUS
<1>1. /\ RingType /\ ThreadType /\ cpc[c] = "drop"
      /\ jobs' = [i \in Slots |-> IF i \in found THEN NoJob ELSE jobs[i]]
      /\ cpc' = [cpc EXCEPT ![c] = IF found = {} THEN "dropwait" ELSE "dropped"]
      /\ cleaned' = [cleaned EXCEPT ![j] = IF found # {} /\ j \in Cleanup THEN @ + 1 ELSE @]
      /\ UNCHANGED <<max_jobs, read_idx, write_idx, num_queued, kill_threads, num_threads, resize,
                     signalled, wpc, wjob, cjob, added, ran>>
  BY <1>0, Halves DEF IInv, DropLocked
<1>2. j \in Jobs /\ Slots' = Slots /\ found \subseteq Slots
  BY <1>0, <1>1 DEF IInv, LocalsOK, ThreadType, Slots, Scanned
<1>3. \A i \in Slots : jobs'[i] = jobs[i] \/ jobs'[i] = NoJob
  BY <1>1
<1>4. RingType' /\ RingOK' /\ SlotsUnique' /\ (ShutDown' <=> ShutDown)
  <2>1. RingType'
    BY <1>1, <1>2 DEF RingType
  <2>2. ShutDown' <=> ShutDown
    BY <1>1 DEF ShutDown
  <2>3. RingShape => RingShape'
    BY <1>1, <1>2, <1>3 DEF RingShape
  <2>4. RingOK'
    BY <2>2, <2>3, Halves DEF IInv, RingOK, RingShape
  <2>5. SlotsUnique'
    BY <1>2, <1>3 DEF IInv, SlotsUnique
  <2> QED BY <2>1, <2>2, <2>4, <2>5
<1>5. ThreadType' /\ LocalsOK'
  BY <1>0, <1>1, <1>2 DEF IInv, ThreadType, LocalsOK
<1>6. TypeOK'
  BY <1>4, <1>5 DEF TypeOK, RingType, ThreadType
<1>7. \A k \in Jobs : \A w \in Workers :
        (Executes(w, k)' <=> Executes(w, k)) /\ (Cleans(w, k)' <=> Cleans(w, k))
  BY <1>1 DEF Executes, Cleans
<1>8. CASE found = {}
  <2>1. \A k \in Jobs : InSlot(k)' <=> InSlot(k)
    BY <1>1, <1>2, <1>8 DEF InSlot
  <2>2. \A k \in Jobs : \A d \in Clients :
          (Has(d, k)' <=> Has(d, k)) /\ (Waits(d, k)' <=> Waits(d, k))
    BY <1>1, <1>8 DEF Has, Waits, ThreadType
  <2>3. \A k \in Jobs : cleaned'[k] = cleaned[k]
    BY <1>1, <1>2, <1>8 DEF ThreadType
  <2>4. HoldersOK'
    BY <1>1, <1>7, <2>1, <2>2 DEF IInv, HoldersOK
  <2>5. NotLost'
    BY <1>1, <1>4, <1>7, <2>1, <2>2 DEF IInv, NotLost
  <2>6. \A k \in Jobs : Owed(k)' <=> Owed(k)
    BY <1>7, <2>1, <2>2 DEF Owed
  <2>7. CleanupOK'
    BY <1>1, <1>4, <2>3, <2>6 DEF IInv, CleanupOK
  <2> QED BY <1>4, <1>5, <1>6, <2>4, <2>5, <2>7 DEF IInv
<1>9. CASE found # {}
  <2>1. InSlot(j) /\ ~InSlot(j)'
    <3>1. PICK i \in Slots : i \in found /\ jobs[i] = j
      BY <1>0, <1>2, <1>9
    <3>2. \A k \in Slots : jobs[k] = j => k = i
      BY <1>2, <3>1 DEF IInv, SlotsUnique
    <3>3. \A k \in Slots : jobs'[k] # j
      BY <1>1, <1>2, <3>1, <3>2
    <3> QED BY <1>2, <3>1, <3>3 DEF InSlot
  <2>2. \A k \in Jobs \ {j} : InSlot(k)' <=> InSlot(k)
    BY <1>0, <1>1, <1>2 DEF InSlot
  <2>3. \A k \in Jobs : \A d \in Clients :
          /\ Has(d, k)' <=> Has(d, k) \/ (d = c /\ k = j)
          /\ Waits(d, k)' <=> Waits(d, k)
    BY <1>0, <1>1, <1>9 DEF Has, Waits, ThreadType
  <2>4. /\ ~signalled[j] /\ \A w \in Workers : ~Executes(w, j) /\ ~Cleans(w, j)
        /\ \A d \in Clients : ~Has(d, j) /\ ~Waits(d, j)
    BY <1>2, <2>1 DEF IInv, HoldersOK, Has, Waits
  <2>5. HoldersOK'
    BY <1>1, <1>7, <2>1, <2>2, <2>3, <2>4 DEF IInv, HoldersOK
  <2>6. NotLost'
    BY <1>1, <1>2, <1>4, <1>7, <2>1, <2>2, <2>3 DEF IInv, NotLost
  <2>7. Owed(j) /\ ~Owed(j)' /\ \A k \in Jobs \ {j} : Owed(k)' <=> Owed(k)
    BY <1>2, <1>7, <2>1, <2>2, <2>3, <2>4 DEF Owed
  <2>8. /\ \A k \in Jobs \ {j} : cleaned'[k] = cleaned[k]
        /\ j \in Cleanup => cleaned'[j] = cleaned[j] + 1
        /\ \A k \in Jobs : cleaned[k] \in Nat /\ added[k] \in Nat
    BY <1>1, <1>2, <1>9 DEF ThreadType
  <2>9. CleanupOK'
    BY <1>1, <1>4, <2>7, <2>8 DEF IInv, CleanupOK
  <2> QED BY <1>4, <1>5, <1>6, <2>5, <2>6, <2>9 DEF IInv
<1> QED BY <1>8, <1>9

(* The fence of the dropped job is signalled.                              *)
LEMMA DropSignalPreserves ==
  ASSUME IInv, NEW c \in Clients, DropSignal(c)
  PROVE  IInv'
<1> USE QueueAssumption
<1>0. PICK j : j = cjob[c]
  OBVIOUS
<1>1. /\ RingType /\ ThreadType /\ cpc[c] = "dropped"
      /\ signalled' = [signalled EXCEPT ![j] = TRUE]
      /\ cpc' = [cpc EXCEPT ![c] = "idle"] /\ cjob' = [cjob EXCEPT ![c] = NoJob]
      /\ UNCHANGED <<ringVars, kill_threads, num_threads, resize, wpc, wjob, histVars>>
  BY <1>0, Halves DEF IInv, DropSignal, Return
<1>2. j \in Jobs /\ Has(c, j)
  BY <1>0, <1>1 DEF IInv, LocalsOK, ThreadType, Has
<1>3. /\ ~InSlot(j) /\ \A w \in Workers : ~Executes(w, j)
      /\ \A d \in Clients : Has(d, j) => d = c
  BY <1>2 DEF IInv, HoldersOK
<1>4. RingType' /\ (RingShape' <=> RingShape) /\ SlotsUnique' /\ \A k \in Jobs : InSlot(k)' <=> InSlot(k)
  BY <1>1 DEF IInv, ringVars, RingType, RingShape, SlotsUnique, InSlot, Slots
<1>5. ThreadType' /\ LocalsOK'
  BY <1>1, <1>2 DEF IInv, ThreadType, LocalsOK, histVars
<1>6. ShutDown' <=> ShutDown
  BY <1>1 DEF ShutDown
<1>7. \A k \in Jobs : \A w \in Workers :
        (Executes(w, k)' <=> Executes(w, k)) /\ (Cleans(w, k)' <=> Cleans(w, k))
  BY <1>1 DEF Executes, Cleans
<1>8. \A k \in Jobs : \A d \in Clients :
        /\ Has(d, k)' <=> Has(d, k) /\ d # c
        /\ Waits(d, k)' <=> Waits(d, k)
  BY <1>1 DEF Has, Waits, ThreadType
<1>9. \A k \in Jobs : Has(c, k) => k = j
  BY <1>0 DEF Has
<1>10. \A k \in Jobs : signalled'[k] <=> signalled[k] \/ k = j
  BY <1>1, <1>2 DEF ThreadType
<1>11. HoldersOK'
  BY <1>3, <1>4, <1>7, <1>8, <1>10 DEF IInv, HoldersOK
<1>12. NotLost'
  BY <1>4, <1>6, <1>7, <1>8, <1>9, <1>10 DEF IInv, NotLost
<1>13. \A k \in Jobs : Owed(k)' <=> Owed(k)
  BY <1>4, <1>7, <1>8 DEF Owed
<1>14. CleanupOK'
  BY <1>1, <1>6, <1>13 DEF IInv, CleanupOK, histVars
<1>15. TypeOK'
  BY <1>4, <1>5 DEF TypeOK, RingType, ThreadType
<1>16. RingOK'
  BY <1>4, <1>6, Halves DEF IInv, RingOK, RingShape
<1> QED BY <1>4, <1>5, <1>11, <1>12, <1>14, <1>15, <1>16 DEF IInv

-----------------------------------------------------------------------------
(* The theorems.                                                           *)

(* The invariant holds after util_queue_init.                              *)
LEMMA InitInvariant == util_queue_init => IInv
<1> SUFFICES ASSUME util_queue_init PROVE IInv
  OBVIOUS
<1> USE QueueAssumption DEF util_queue_init
<1>1. RingType /\ RingShape
  BY DEF RingType, RingShape, Slots
<1>2. num_threads \in 0..Cardinality(Workers)
  <2> DEFINE started == {w \in Workers : wpc[w] = "look"}
  <2>1. Cardinality(started) <= Cardinality(Workers) /\ IsFiniteSet(started)
    BY FS_Subset, started \in SUBSET Workers
  <2>2. Cardinality(started) \in Nat /\ Cardinality(Workers) \in Nat
    BY <2>1, FS_CardinalityType
  <2> QED BY <2>1, <2>2
<1>3. ThreadType
  BY <1>2 DEF ThreadType
<1>4. TypeOK /\ RingOK
  BY <1>1, <1>3, Halves
<1>5. LocalsOK /\ SlotsUnique
  BY DEF LocalsOK, SlotsUnique, Slots
<1>6. /\ \A j \in Jobs : ~InSlot(j)
      /\ \A j \in Jobs : \A w \in Workers : ~Executes(w, j) /\ ~Cleans(w, j)
      /\ \A j \in Jobs : \A c \in Clients : ~Has(c, j) /\ ~Waits(c, j)
  BY DEF InSlot, Slots, Executes, Cleans, Has, Waits
<1>7. HoldersOK /\ NotLost /\ CleanupOK
  BY <1>6 DEF HoldersOK, NotLost, CleanupOK, Owed
<1> QED BY <1>4, <1>5, <1>7 DEF IInv

(* Every step keeps it.                                                    *)
LEMMA NextInvariant == IInv /\ [Next]_vars => IInv'
<1> SUFFICES ASSUME IInv, [Next]_vars PROVE IInv'
  OBVIOUS
<1>1. CASE UNCHANGED vars
  <2>1. ThreadType' /\ LocalsOK' /\ (ShutDown' <=> ShutDown)
    BY <1>1, Halves DEF vars, histVars, IInv, ThreadType, LocalsOK, ShutDown
  <2>2. OthersMove
    BY <1>1 DEF vars, OthersMove
  <2> QED BY <1>1, <2>1, <2>2, QuietStep DEF vars
<1>2. ASSUME NEW w \in Workers, Worker(w)
      PROVE  IInv'
  BY <1>2, TakeJobPreserves, WaitForJobPreserves, FinishJobPreserves, CleanupJobPreserves,
     LeaveLoopPreserves, SignalRemainingPreserves DEF Worker
<1>3. ASSUME NEW c \in Clients, Client(c)
      PROVE  IInv'
  <2>1. ASSUME NEW j \in Jobs, \/ util_queue_add_job(c, j) \/ util_queue_drop_job(c, j)
                               \/ util_queue_fence_wait(c, j)
        PROVE  IInv'
    BY <2>1, util_queue_add_jobPreserves, util_queue_drop_jobPreserves,
       util_queue_fence_waitPreserves
  <2>2. ASSUME Resume(c)
        PROVE  IInv'
    BY <2>2, WokenPreserves, DropLockedPreserves, DropSignalPreserves,
       FenceWaitReturnsPreserves DEF Resume
  <2> QED BY <1>3, <2>1, <2>2 DEF Client
<1>4. CASE KillAll \/ Joined
  BY <1>4, KillAllPreserves, JoinedPreserves
<1> QED BY <1>1, <1>2, <1>3, <1>4 DEF Next

(* The invariant always holds.                                             *)
LEMMA Invariant == Spec => []IInv
  BY InitInvariant, NextInvariant, PTL DEF Spec

(* Every variable keeps its type: num_queued stays within the ring in      *)
(* every call, which the assertions of util_queue_add_job state.           *)
THEOREM TypeCorrect == Spec => []TypeOK
<1>1. IInv => TypeOK
  BY DEF IInv
<1> QED BY <1>1, Invariant, PTL

(* The queued jobs are the num_queued slots from read_idx to write_idx,    *)
(* whatever the size of the ring, through wrap-around, drops and growth,   *)
(* until a worker terminates.                                              *)
THEOREM RingIsConsistent == Spec => []RingOK
<1>1. IInv => RingOK
  BY DEF IInv
<1> QED BY <1>1, Invariant, PTL

(* Until a worker terminates, a job with an unsignalled fence is in        *)
(* exactly one slot or the hands of one thread, and the others nowhere.    *)
THEOREM JobsHeldOnce == Spec => []JobHeldOnce
<1>1. ASSUME IInv, ~ShutDown, NEW j \in Jobs
      PROVE  Cardinality(Holders(j)) = IF signalled[j] THEN 0 ELSE 1
  <2>1. CASE signalled[j]
    <3>1. Holders(j) = {}
      BY <1>1, <2>1 DEF IInv, HoldersOK, Holders, InSlot, Executes, Has
    <3> QED BY <2>1, <3>1, FS_EmptySet
  <2>2. CASE ~signalled[j]
    <3>1. /\ Holders(j) = {<<"slot", i>> : i \in {i \in Slots : jobs[i] = j}}
                         \cup {<<"worker", w>> : w \in {w \in Workers : Executes(w, j)}}
                         \cup {<<"client", c>> : c \in {c \in Clients : Has(c, j)}}
          /\ j # NoJob
      BY QueueAssumption DEF Holders, Executes, Has
    <3>2. ASSUME NEW i \in Slots, jobs[i] = j
          PROVE  Holders(j) = {<<"slot", i>>}
      <4>1. InSlot(j) /\ \A k \in Slots : jobs[k] = j => k = i
        BY <1>1, <3>1, <3>2 DEF InSlot, IInv, SlotsUnique
      <4>2. /\ \A w \in Workers : ~Executes(w, j)
            /\ \A c \in Clients : ~Has(c, j)
        BY <1>1, <4>1 DEF IInv, HoldersOK
      <4> QED BY <3>1, <3>2, <4>1, <4>2
    <3>3. ASSUME NEW w \in Workers, Executes(w, j)
          PROVE  Holders(j) = {<<"worker", w>>}
      <4>1. /\ ~InSlot(j) /\ \A v \in Workers : Executes(v, j) => v = w
            /\ \A c \in Clients : ~Has(c, j)
        BY <1>1, <3>3 DEF IInv, HoldersOK
      <4> QED BY <3>1, <3>3, <4>1 DEF InSlot
    <3>4. ASSUME NEW c \in Clients, Has(c, j)
          PROVE  Holders(j) = {<<"client", c>>}
      <4>1. /\ ~InSlot(j) /\ \A w \in Workers : ~Executes(w, j)
            /\ \A d \in Clients : Has(d, j) => d = c
        BY <1>1, <3>4 DEF IInv, HoldersOK
      <4> QED BY <3>1, <3>4, <4>1 DEF InSlot
    <3>5. \E x : Holders(j) = {x}
      BY <1>1, <2>2, <3>2, <3>3, <3>4 DEF IInv, NotLost, InSlot
    <3> QED BY <2>2, <3>5, FS_Singleton
  <2> QED BY <2>1, <2>2
<1>2. IInv => JobHeldOnce
  BY <1>1 DEF JobHeldOnce
<1> QED BY <1>2, Invariant, PTL

(* The cleanup callback is called at most once for each addition of a job, *)
(* after exit() too, and exactly once when the job is at rest before it.   *)
THEOREM CleanedUpOnce == Spec => []CleanupOnce
<1>1. ASSUME IInv, NEW j \in Cleanup
      PROVE  /\ cleaned[j] <= added[j]
             /\ (~kill_threads /\ MayAdd(j)) => cleaned[j] = added[j]
  <2>1. cleaned[j] <= added[j]
    BY <1>1 DEF IInv, CleanupOK
  <2>2. ASSUME ~kill_threads, MayAdd(j)
        PROVE  cleaned[j] = added[j]
    <3>1. j \in Jobs /\ ~ShutDown /\ signalled[j]
      BY <2>2, QueueAssumption DEF ShutDown, MayAdd
    <3>2. ~Owed(j)
      BY <1>1, <2>2, <3>1 DEF IInv, HoldersOK, Owed, MayAdd, Cleans, Has, Waits
    <3>3. cleaned[j] \in Nat /\ added[j] \in Nat
      BY <1>1, <3>1, Halves DEF IInv, ThreadType
    <3> QED BY <1>1, <3>1, <3>2, <3>3 DEF IInv, CleanupOK
  <2> QED BY <2>1, <2>2
<1>2. IInv => CleanupOnce
  BY <1>1 DEF CleanupOnce
<1> QED BY <1>2, Invariant, PTL

-----------------------------------------------------------------------------
(* The refinement.  util_queue implements JobQueue: until exit() jobs start *)
(* in the order in which they entered the queue, each once, and a dropped   *)
(* one never.  The ring is read through the distance of each slot from      *)
(* read_idx, which does not change when indices wrap or when the ring       *)
(* grows; IInv tells in which phase each job is.                            *)

(* The same of the ring: distances from read_idx.                          *)
LEMMA RingDistance ==
  ASSUME max_jobs \in Nat \ {0}, read_idx \in 0..(max_jobs - 1)
  PROVE  /\ \A i \in 0..(max_jobs - 1) : \E n \in 0..(max_jobs - 1) : (read_idx + n) % max_jobs = i
         /\ \A n \in 0..(max_jobs - 1) :
              /\ (read_idx + n) % max_jobs \in 0..(max_jobs - 1)
              /\ (((read_idx + n) % max_jobs) - read_idx) % max_jobs = n
  BY DistanceAdvance

(* Until a worker terminates, the jobs in slots are those at a distance    *)
(* below num_queued, each at one of them.                                  *)
LEMMA SlotAt ==
  ASSUME RingType, RingShape, SlotsUnique
  PROVE  /\ \A k \in 0..(num_queued - 1) : At(k) \in Jobs \cup {NoJob}
         /\ \A j \in Jobs : InSlot(j) <=> \E k \in 0..(num_queued - 1) : At(k) = j
         /\ \A k, l \in 0..(num_queued - 1) : At(k) \in Jobs /\ At(k) = At(l) => k = l
<1> USE QueueAssumption
<1>1. /\ max_jobs \in Nat \ {0} /\ read_idx \in 0..(max_jobs - 1) /\ num_queued \in 0..max_jobs
      /\ jobs \in [0..(max_jobs - 1) -> Jobs \cup {NoJob}] /\ Slots = 0..(max_jobs - 1)
  BY DEF RingType, Slots
<1>2. \A k \in 0..(num_queued - 1) : k \in 0..(max_jobs - 1)
  BY <1>1
<1>3. ASSUME NEW k \in 0..(num_queued - 1)
      PROVE  /\ (read_idx + k) % max_jobs \in 0..(max_jobs - 1)
             /\ (((read_idx + k) % max_jobs) - read_idx) % max_jobs = k
  BY <1>1, <1>2, RingDistance
<1>4. \A k \in 0..(num_queued - 1) : At(k) \in Jobs \cup {NoJob}
  BY <1>1, <1>3 DEF At
<1>5. ASSUME NEW j \in Jobs, NEW k \in 0..(num_queued - 1), At(k) = j
      PROVE  InSlot(j)
  BY <1>1, <1>3, <1>5 DEF At, InSlot
<1>6. ASSUME NEW j \in Jobs, InSlot(j)
      PROVE  \E k \in 0..(num_queued - 1) : At(k) = j
  <2>1. PICK i \in 0..(max_jobs - 1) : jobs[i] = j
    BY <1>1, <1>6 DEF InSlot
  <2>2. PICK n \in 0..(max_jobs - 1) : (read_idx + n) % max_jobs = i
    BY <1>1, RingDistance
  <2>3. (((read_idx + n) % max_jobs) - read_idx) % max_jobs = n
    BY <1>1, RingDistance
  <2>4. (i - read_idx) % max_jobs = n
    BY <2>2, <2>3
  <2>5. n < num_queued
    BY <1>1, <2>1, <2>4 DEF RingShape
  <2>6. At(n) = jobs[i]
    BY <2>2 DEF At
  <2> QED BY <1>1, <2>1, <2>5, <2>6
<1>7. ASSUME NEW k \in 0..(num_queued - 1), NEW l \in 0..(num_queued - 1),
             At(k) \in Jobs, At(k) = At(l)
      PROVE  k = l
  <2>1. (read_idx + k) % max_jobs = (read_idx + l) % max_jobs
    BY <1>1, <1>3, <1>7 DEF At, SlotsUnique
  <2> QED BY <1>3, <2>1
<1> QED BY <1>4, <1>5, <1>6, <1>7

(* Taking the first job moves the others one nearer.                       *)
LEMMA TakeAt ==
  ASSUME RingType, SlotTaken
  PROVE  /\ \A k \in 0..(num_queued - 2) : At(k)' = At(k + 1)
         /\ At(0) = jobs[read_idx]
<1>1. /\ max_jobs \in Nat \ {0} /\ read_idx \in 0..(max_jobs - 1) /\ num_queued \in 1..max_jobs
      /\ jobs \in [0..(max_jobs - 1) -> Jobs \cup {NoJob}]
      /\ jobs' = [jobs EXCEPT ![read_idx] = NoJob] /\ max_jobs' = max_jobs
      /\ read_idx' = RingAdd(read_idx, 1, max_jobs)
  BY DEF RingType, Slots, SlotTaken, RingAdd
<1>2. ASSUME NEW k \in 0..(num_queued - 2)
      PROVE  At(k)' = At(k + 1)
  <2>1. k \in 0..max_jobs /\ k + 1 \in 0..max_jobs /\ 1 \in 0..max_jobs /\ k + 1 < max_jobs
    BY <1>1
  <2>2. /\ read_idx' = IF read_idx + 1 < max_jobs THEN read_idx + 1 ELSE read_idx + 1 - max_jobs
        /\ RingAdd(read_idx, k + 1, max_jobs) =
             IF read_idx + (k + 1) < max_jobs THEN read_idx + (k + 1)
             ELSE read_idx + (k + 1) - max_jobs
    BY <1>1, <2>1, Advance
  <2>3. read_idx' \in 0..(max_jobs - 1)
    BY <1>1, <2>2
  <2>4. RingAdd(read_idx', k, max_jobs) =
          IF read_idx' + k < max_jobs THEN read_idx' + k ELSE read_idx' + k - max_jobs
    BY <1>1, <2>1, <2>3, Advance
  <2>5. /\ RingAdd(read_idx', k, max_jobs) = RingAdd(read_idx, k + 1, max_jobs)
        /\ RingAdd(read_idx, k + 1, max_jobs) # read_idx
        /\ RingAdd(read_idx, k + 1, max_jobs) \in 0..(max_jobs - 1)
    BY <1>1, <2>1, <2>2, <2>3, <2>4
  <2>6. At(k)' = jobs'[RingAdd(read_idx', k, max_jobs)] /\ At(k + 1) = jobs[RingAdd(read_idx, k + 1, max_jobs)]
    BY <1>1 DEF At, RingAdd
  <2>7. jobs'[RingAdd(read_idx, k + 1, max_jobs)] = jobs[RingAdd(read_idx, k + 1, max_jobs)]
    BY <1>1, <2>5
  <2> QED BY <2>5, <2>6, <2>7
<1>3. At(0) = jobs[read_idx]
  <2>1. RingAdd(read_idx, 0, max_jobs) = read_idx
    BY <1>1, Advance
  <2>2. At(0) = jobs[RingAdd(read_idx, 0, max_jobs)]
    BY DEF At, RingAdd
  <2> QED BY <2>1, <2>2
<1> QED BY <1>2, <1>3

(* A job that enters is at the end.                                        *)
LEMMA PutAt ==
  ASSUME RingType, RingShape, num_queued # max_jobs, NEW j \in Jobs,
         PutJob(j, jobs, max_jobs, read_idx, write_idx), NEW n, n = num_queued
  PROVE  (\A k \in 0..(n - 1) : At(k)' = At(k)) /\ At(n)' = j
<1>1. /\ max_jobs \in Nat \ {0} /\ read_idx \in 0..(max_jobs - 1)
      /\ num_queued \in 0..(max_jobs - 1) /\ write_idx \in 0..(max_jobs - 1)
      /\ jobs \in [0..(max_jobs - 1) -> Jobs \cup {NoJob}]
      /\ jobs' = [jobs EXCEPT ![write_idx] = j]
      /\ max_jobs' = max_jobs /\ read_idx' = read_idx
  BY DEF RingType, Slots, PutJob
<1>2. write_idx = (read_idx + num_queued) % max_jobs
  BY DEF RingShape
<1>3. ASSUME NEW k \in 0..(num_queued - 1)
      PROVE  At(k)' = At(k)
  <2>1. k \in 0..(max_jobs - 1) /\ k # num_queued
    BY <1>1
  <2>2. /\ (read_idx + k) % max_jobs \in 0..(max_jobs - 1)
        /\ (((read_idx + k) % max_jobs) - read_idx) % max_jobs = k
        /\ (((read_idx + num_queued) % max_jobs) - read_idx) % max_jobs = num_queued
    BY <1>1, <2>1, RingDistance
  <2>3. (read_idx + k) % max_jobs # write_idx
    BY <1>2, <2>1, <2>2
  <2> QED BY <1>1, <2>2, <2>3 DEF At
<1>4. At(n)' = j
  BY <1>1, <1>2 DEF At
<1> QED BY <1>3, <1>4

(* So it is when the ring grows.                                           *)
LEMMA GrowAt ==
  ASSUME RingType, RingShape, num_queued = max_jobs, NEW j \in Jobs, PutResized(j),
         NEW n, n = num_queued
  PROVE  (\A k \in 0..(n - 1) : At(k)' = At(k)) /\ At(n)' = j
<1>1. /\ n = max_jobs /\ n \in Nat \ {0} /\ read_idx \in 0..(n - 1)
      /\ jobs \in [0..(n - 1) -> Jobs \cup {NoJob}]
  BY DEF RingType, Slots
<1>2. write_idx = read_idx
  <2>1. write_idx = RingAdd(read_idx, n, n)
    BY <1>1 DEF RingShape, RingAdd
  <2>2. RingAdd(read_idx, n, n) = read_idx
    BY <1>1, Advance
  <2> QED BY <2>1, <2>2
<1>3. CopiedJobs = [k \in 0..(n - 1) |-> jobs[(read_idx + k) % n]]
  BY <1>1, <1>2 DEF CopiedJobs
<1>4. /\ DOMAIN CopiedJobs = 0..(n - 1) /\ Cardinality(DOMAIN CopiedJobs) = n
      /\ \A k \in 0..(n - 1) : CopiedJobs[k] = At(k)
  BY <1>1, <1>3, FS_Interval DEF At
<1>5. /\ jobs' = [ResizedRing EXCEPT ![n] = j] /\ read_idx' = 0 /\ max_jobs' = n + 8
  <2>1. /\ jobs' = [ResizedRing EXCEPT ![Cardinality(DOMAIN CopiedJobs)] = j]
        /\ read_idx' = 0 /\ max_jobs' = max_jobs + 8
    BY DEF PutResized, PutJob
  <2> QED BY <1>1, <1>4, <2>1
<1>6. /\ DOMAIN ResizedRing = 0..(n + 7)
      /\ \A k \in 0..(n + 7) : ResizedRing[k] = IF k \in 0..(n - 1) THEN At(k) ELSE NoJob
  BY <1>1, <1>4 DEF ResizedRing
<1>7. ASSUME NEW k \in 0..(n + 7)
      PROVE  At(k)' = jobs'[k]
  <2>1. (0 + k) % (n + 8) = k
    BY <1>1
  <2>2. At(k)' = jobs'[(0 + k) % (n + 8)]
    BY <1>5 DEF At
  <2> QED BY <2>1, <2>2
<1>8. ASSUME NEW k \in 0..(n - 1)
      PROVE  At(k)' = At(k)
  <2>1. k \in 0..(n + 7) /\ k # n
    BY <1>1
  <2> QED BY <1>5, <1>6, <1>7, <2>1
<1>9. At(n)' = j
  <2>1. n \in 0..(n + 7)
    BY <1>1
  <2> QED BY <1>5, <1>6, <1>7, <2>1
<1> QED BY <1>8, <1>9

-----------------------------------------------------------------------------
(* What that means for the order of the jobs.                              *)

(* The new job is behind all others.                                       *)
LEMMA EnterAhead ==
  ASSUME RingType, RingShape, SlotsUnique, NEW j \in Jobs, NEW n, n = num_queued,
         num_queued' = n + 1, At(n)' = j, \A k \in 0..(n - 1) : At(k)' = At(k)
  PROVE  Ahead' = Ahead \cup {i \in Jobs : InSlot(i)} \X {j}
<1>1. n \in Nat /\ num_queued' - 1 = n
  BY DEF RingType
<1>2. \A i \in Jobs : InSlot(i) <=> \E k \in 0..(n - 1) : At(k) = i
  BY SlotAt
<1>3. ASSUME NEW a \in Jobs, NEW b \in Jobs, <<a, b>> \in Ahead'
      PROVE  <<a, b>> \in Ahead \cup {i \in Jobs : InSlot(i)} \X {j}
  <2>1. PICK k \in 0..n, l \in 0..n : k < l /\ At(k)' = a /\ At(l)' = b
    BY <1>1, <1>3 DEF Ahead
  <2>2. k \in 0..(n - 1) /\ At(k) = a
    BY <1>1, <2>1
  <2>3. CASE l = n
    BY <1>2, <2>1, <2>2, <2>3
  <2>4. CASE l \in 0..(n - 1)
    BY <2>1, <2>2, <2>4 DEF Ahead
  <2> QED BY <1>1, <2>3, <2>4
<1>4. ASSUME NEW a \in Jobs, NEW b \in Jobs, <<a, b>> \in Ahead
      PROVE  <<a, b>> \in Ahead'
  <2>1. PICK k \in 0..(n - 1), l \in 0..(n - 1) : k < l /\ At(k) = a /\ At(l) = b
    BY <1>4 DEF Ahead
  <2>2. k \in 0..n /\ l \in 0..n /\ k < l /\ At(k)' = a /\ At(l)' = b
    BY <1>1, <2>1
  <2> QED BY <1>1, <2>2 DEF Ahead
<1>5. ASSUME NEW a \in Jobs, InSlot(a)
      PROVE  <<a, j>> \in Ahead'
  <2>1. PICK k \in 0..(n - 1) : At(k) = a
    BY <1>2, <1>5
  <2>2. k \in 0..n /\ n \in 0..n /\ k < n /\ At(k)' = a /\ At(n)' = j
    BY <1>1, <2>1
  <2> QED BY <1>1, <2>2 DEF Ahead
<1>6. Ahead \subseteq Jobs \X Jobs /\ Ahead' \subseteq Jobs \X Jobs
  BY DEF Ahead
<1> QED BY <1>3, <1>4, <1>5, <1>6

(* The order without some job.                                             *)
Rest(j) == {r \in Ahead : r[1] # j /\ r[2] # j}

(* The job that is taken was first, and the order of the others is kept.   *)
LEMMA TakeAhead ==
  ASSUME RingType, RingShape, SlotsUnique, SlotTaken, NEW t, t = jobs[read_idx]
  PROVE  /\ Ahead' = Rest(t) /\ \A i \in Jobs : t \in Jobs => <<i, t>> \notin Ahead
         /\ t = NoJob => Rest(t) = Ahead
<1> USE QueueAssumption
<1>0. PICK n : n = num_queued
  OBVIOUS
<1>1. n \in Nat \ {0} /\ num_queued' = n - 1 /\ num_queued' - 1 = n - 2
  BY <1>0 DEF RingType, SlotTaken
<1>2. /\ \A k \in 0..(n - 2) : At(k)' = At(k + 1)
      /\ At(0) = t
  BY <1>0, TakeAt
<1>3. /\ \A k, l \in 0..(n - 1) : At(k) \in Jobs /\ At(k) = At(l) => k = l
      /\ 0 \in 0..(n - 1)
  BY <1>0, <1>1, SlotAt
<1>4. ASSUME NEW a \in Jobs, NEW b \in Jobs, <<a, b>> \in Ahead'
      PROVE  <<a, b>> \in Ahead /\ a # t /\ b # t
  <2>1. PICK k \in 0..(n - 2), l \in 0..(n - 2) : k < l /\ At(k)' = a /\ At(l)' = b
    BY <1>1, <1>4 DEF Ahead
  <2>2. /\ k + 1 \in 0..(n - 1) /\ l + 1 \in 0..(n - 1) /\ k + 1 < l + 1
        /\ At(k + 1) = a /\ At(l + 1) = b /\ k + 1 # 0 /\ l + 1 # 0
    BY <1>1, <1>2, <2>1
  <2>3. <<a, b>> \in Ahead
    BY <1>0, <2>2 DEF Ahead
  <2> QED BY <1>2, <1>3, <2>2, <2>3
<1>5. ASSUME NEW a \in Jobs, NEW b \in Jobs, <<a, b>> \in Ahead
      PROVE  /\ b # t
             /\ a # t => <<a, b>> \in Ahead'
  <2>1. PICK k \in 0..(n - 1), l \in 0..(n - 1) : k < l /\ At(k) = a /\ At(l) = b
    BY <1>0, <1>5 DEF Ahead
  <2>2. l # 0 /\ b # t
    BY <1>1, <1>2, <1>3, <2>1
  <2>3. ASSUME a # t
        PROVE  <<a, b>> \in Ahead'
    <3>1. k # 0
      BY <1>2, <2>1, <2>3
    <3>2. /\ k - 1 \in 0..(n - 2) /\ l - 1 \in 0..(n - 2) /\ k - 1 < l - 1
          /\ (k - 1) + 1 = k /\ (l - 1) + 1 = l
      BY <1>1, <2>1, <2>2, <3>1
    <3>3. At(k - 1)' = a /\ At(l - 1)' = b
      BY <1>2, <2>1, <3>2
    <3> QED BY <1>1, <3>2, <3>3 DEF Ahead
  <2> QED BY <2>2, <2>3
<1>6. Ahead \subseteq Jobs \X Jobs /\ Ahead' \subseteq Jobs \X Jobs
  BY DEF Ahead
<1>7. Ahead' = Rest(t)
  BY <1>4, <1>5, <1>6 DEF Rest
<1> QED BY <1>5, <1>6, <1>7 DEF Rest

(* A job that is dropped leaves the order of the others as it is.          *)
LEMMA DropAhead ==
  ASSUME NEW j \in Jobs, num_queued' = num_queued,
         \A k \in 0..(num_queued - 1) : At(k)' = IF At(k) = j THEN NoJob ELSE At(k)
  PROVE  Ahead' = Rest(j)
<1> USE QueueAssumption
<1>1. ASSUME NEW a \in Jobs, NEW b \in Jobs
      PROVE  <<a, b>> \in Ahead' <=> <<a, b>> \in Ahead /\ a # j /\ b # j
  BY DEF Ahead
<1>2. Ahead \subseteq Jobs \X Jobs /\ Ahead' \subseteq Jobs \X Jobs
  BY DEF Ahead
<1> QED BY <1>1, <1>2 DEF Rest

-----------------------------------------------------------------------------
(* The phase of each job.                                                  *)

Running(j) == \E w \in Workers : Executes(w, j)
Blocked(j) == \E c \in Clients : Waits(c, j)
TakenBack(j) == \E c \in Clients : cpc[c] = "dropped" /\ cjob[c] = j

(* PhaseOf in these terms.                                                 *)
LEMMA PhaseIs ==
  ASSUME NEW j \in Jobs
  PROVE  PhaseOf(j) = CASE InSlot(j) -> "queued"
                        [] Running(j) -> "running"
                        [] Blocked(j) -> "blocked"
                        [] TakenBack(j) -> "dropped"
                        [] OTHER -> "idle"
  BY DEF PhaseOf, InSlot, Running, Blocked, TakenBack, Executes, Waits

(* The phases exclude each other, and a signalled job is idle.             *)
LEMMA PhaseFacts ==
  ASSUME IInv, NEW j \in Jobs
  PROVE  /\ InSlot(j) => PhaseOf(j) = "queued"
         /\ Running(j) => PhaseOf(j) = "running"
         /\ Blocked(j) => PhaseOf(j) = "blocked"
         /\ TakenBack(j) => PhaseOf(j) = "dropped"
         /\ signalled[j] => PhaseOf(j) = "idle"
<1>1. /\ ~(InSlot(j) /\ Running(j)) /\ ~(InSlot(j) /\ Blocked(j)) /\ ~(InSlot(j) /\ TakenBack(j))
      /\ ~(Running(j) /\ Blocked(j)) /\ ~(Running(j) /\ TakenBack(j))
      /\ signalled[j] => ~InSlot(j) /\ ~Running(j) /\ ~Blocked(j) /\ ~TakenBack(j)
  BY DEF IInv, HoldersOK, Running, Blocked, TakenBack, Waits, Has
<1>2. ~(Blocked(j) /\ TakenBack(j))
  <2>1. SUFFICES ASSUME NEW c \in Clients, Waits(c, j),
                        NEW d \in Clients, cpc[d] = "dropped", cjob[d] = j
                 PROVE  FALSE
    BY DEF Blocked, TakenBack
  <2>2. Has(c, j) /\ Has(d, j)
    BY <2>1 DEF Has, Waits
  <2>3. c = d
    BY <2>2 DEF IInv, HoldersOK
  <2> QED BY <2>1, <2>3 DEF Waits
<1> QED BY <1>1, <1>2, PhaseIs

(* The same facts keep the phase.                                          *)
LEMMA SamePhase ==
  ASSUME NEW j \in Jobs, InSlot(j)' <=> InSlot(j), Running(j)' <=> Running(j),
         Blocked(j)' <=> Blocked(j), TakenBack(j)' <=> TakenBack(j)
  PROVE  PhaseOf(j)' = PhaseOf(j)
<1>1. PhaseOf(j)' = CASE InSlot(j)' -> "queued"
                      [] Running(j)' -> "running"
                      [] Blocked(j)' -> "blocked"
                      [] TakenBack(j)' -> "dropped"
                      [] OTHER -> "idle"
  BY DEF PhaseOf, InSlot, Running, Blocked, TakenBack, Executes, Waits
<1> QED BY <1>1, PhaseIs

(* One job changes its phase.                                              *)
LEMMA MoveOne ==
  ASSUME NEW j \in Jobs, NEW from, NEW to, PhaseOf(j) = from, PhaseOf(j)' = to,
         \A k \in Jobs \ {j} : PhaseOf(k)' = PhaseOf(k)
  PROVE  JQ!Move(j, from, to)
  BY DEF JQ!Move

(* A step of JobQueue, or none.                                            *)
JQStep == JQ!JQNext \/ UNCHANGED <<[j \in Jobs |-> PhaseOf(j)], Ahead, ~kill_threads>>

(* A step that leaves the ring, the phases and kill_threads alone is none. *)
LEMMA QuietJQ ==
  ASSUME UNCHANGED <<ringVars, kill_threads>>,
         \A j \in Jobs : PhaseOf(j)' = PhaseOf(j)
  PROVE  JQStep
<1>1. Ahead' = Ahead
  BY DEF Ahead, At, ringVars
<1>2. [j \in Jobs |-> PhaseOf(j)]' = [j \in Jobs |-> PhaseOf(j)]
  OBVIOUS
<1> QED BY <1>1, <1>2 DEF JQStep

(* After exit() everything is allowed.                                     *)
LEMMA ClosedJQ ==
  ASSUME kill_threads'
  PROVE  JQStep
  BY DEF JQStep, JQ!JQNext

(* The phases in the next state.                                           *)
LEMMA PhaseFactsNext ==
  ASSUME IInv', NEW j \in Jobs
  PROVE  /\ InSlot(j)' => PhaseOf(j)' = "queued"
         /\ Running(j)' => PhaseOf(j)' = "running"
         /\ Blocked(j)' => PhaseOf(j)' = "blocked"
         /\ TakenBack(j)' => PhaseOf(j)' = "dropped"
         /\ signalled'[j] => PhaseOf(j)' = "idle"
<1>1. PhaseOf(j)' = CASE InSlot(j)' -> "queued"
                      [] Running(j)' -> "running"
                      [] Blocked(j)' -> "blocked"
                      [] TakenBack(j)' -> "dropped"
                      [] OTHER -> "idle"
  BY DEF PhaseOf, InSlot, Running, Blocked, TakenBack, Executes, Waits
<1>2. /\ ~(InSlot(j)' /\ Running(j)') /\ ~(InSlot(j)' /\ Blocked(j)') /\ ~(InSlot(j)' /\ TakenBack(j)')
      /\ ~(Running(j)' /\ Blocked(j)') /\ ~(Running(j)' /\ TakenBack(j)')
      /\ signalled'[j] => ~InSlot(j)' /\ ~Running(j)' /\ ~Blocked(j)' /\ ~TakenBack(j)'
  BY DEF IInv, HoldersOK, Running, Blocked, TakenBack, Waits, Has
<1>3. ~(Blocked(j)' /\ TakenBack(j)')
  <2>1. SUFFICES ASSUME NEW c \in Clients, Waits(c, j)',
                        NEW d \in Clients, cpc'[d] = "dropped", cjob'[d] = j
                 PROVE  FALSE
    BY DEF Blocked, TakenBack
  <2>2. Has(c, j)' /\ Has(d, j)'
    BY <2>1 DEF Has, Waits
  <2>3. c = d
    BY <2>2 DEF IInv, HoldersOK
  <2> QED BY <2>1, <2>3 DEF Waits
<1> QED BY <1>1, <1>2, <1>3

-----------------------------------------------------------------------------
(* Every step before exit() is a step of JobQueue, or none.                *)

(* The phases of the jobs when only threads move that hold no job.         *)
LEMMA OthersMoveJQ ==
  ASSUME UNCHANGED <<ringVars, kill_threads>>, OthersMove
  PROVE  JQStep
<1>1. ASSUME NEW j \in Jobs
      PROVE  PhaseOf(j)' = PhaseOf(j)
  <2>1. InSlot(j)' <=> InSlot(j)
    BY DEF ringVars, InSlot, Slots
  <2>2. (Running(j)' <=> Running(j)) /\ (Blocked(j)' <=> Blocked(j))
    BY OthersMoveHolders DEF SameHolders, Running, Blocked
  <2>3. TakenBack(j)' <=> TakenBack(j)
    BY DEF OthersMove, TakenBack
  <2> QED BY <2>1, <2>2, <2>3, SamePhase
<1> QED BY <1>1, QuietJQ

(* TakeJob starts the first job, or skips the slot of a dropped one.       *)
LEMMA TakeJobJQ ==
  ASSUME IInv, IInv', NEW w \in Workers, TakeJob(w)
  PROVE  JQStep
<1> USE QueueAssumption
<1>0. PICK t : t = jobs[read_idx]
  OBVIOUS
<1>1. /\ RingType /\ RingShape /\ SlotsUnique /\ ThreadType /\ SlotTaken
      /\ wpc[w] = "look" /\ ~kill_threads /\ SignalHasSpace
      /\ wjob' = [wjob EXCEPT ![w] = t]
      /\ wpc' = [wpc EXCEPT ![w] = IF t = NoJob THEN "look" ELSE "execute"]
      /\ UNCHANGED <<kill_threads, cjob>>
  BY <1>0, Halves DEF IInv, TakeJob, SlotTaken, ShutDown
<1>2. t \in Jobs \cup {NoJob} /\ (t \in Jobs => InSlot(t))
  BY <1>0, <1>1 DEF RingType, InSlot
<1>3. \A c \in Clients : cpc'[c] = cpc[c] \/ (cpc[c] = "asleep" /\ cpc'[c] = "woken")
  BY <1>1, ClientWoken
<1>4. /\ Ahead' = Rest(t) /\ \A i \in Jobs : t \in Jobs => <<i, t>> \notin Ahead
      /\ t = NoJob => Rest(t) = Ahead
  BY <1>0, <1>1, TakeAhead
<1>5. \A k \in Jobs : InSlot(k)' <=> InSlot(k) /\ k # t
  BY <1>0, <1>1, TakeContents
<1>6. \A k \in Jobs : Running(k)' <=> Running(k) \/ k = t
  BY <1>1, <1>2 DEF Running, Executes, ThreadType
<1>7. \A k \in Jobs : (Blocked(k)' <=> Blocked(k)) /\ (TakenBack(k)' <=> TakenBack(k))
  BY <1>1, <1>3 DEF Blocked, Waits, TakenBack
<1>8. \A k \in Jobs \ {t} : PhaseOf(k)' = PhaseOf(k)
  BY <1>5, <1>6, <1>7, SamePhase
<1>9. CASE t = NoJob
  <2>1. [j \in Jobs |-> PhaseOf(j)]' = [j \in Jobs |-> PhaseOf(j)]
    BY <1>8, <1>9
  <2> QED BY <1>1, <1>4, <1>9, <2>1 DEF JQStep
<1>10. CASE t \in Jobs
  <2>1. PhaseOf(t) = "queued" /\ PhaseOf(t)' = "running"
    BY <1>2, <1>6, <1>10, PhaseFacts, PhaseFactsNext
  <2>2. JQ!Move(t, "queued", "running")
    BY <1>8, <1>10, <2>1, MoveOne
  <2>3. JQ!Start(t)
    BY <1>4, <1>10, <2>2 DEF JQ!Start, JQ!Without, Rest
  <2> QED BY <1>1, <1>10, <2>3 DEF JQStep, JQ!JQNext, JQ!Working
<1> QED BY <1>2, <1>9, <1>10

(* FinishJob is Finish.                                                    *)
LEMMA FinishJobJQ ==
  ASSUME IInv, IInv', NEW w \in Workers, FinishJob(w)
  PROVE  JQStep
<1> USE QueueAssumption
<1>0. PICK t : t = wjob[w]
  OBVIOUS
<1>1. /\ ThreadType /\ wpc[w] = "execute"
      /\ signalled' = [signalled EXCEPT ![t] = TRUE]
      /\ wpc' = [wpc EXCEPT ![w] = IF t \in Cleanup THEN "cleanup" ELSE "look"]
      /\ wjob' = [wjob EXCEPT ![w] = IF t \in Cleanup THEN t ELSE NoJob]
      /\ UNCHANGED <<ringVars, kill_threads, cpc, cjob>>
  BY <1>0, Halves DEF IInv, FinishJob
<1>2. t \in Jobs /\ Executes(w, t) /\ signalled'[t]
  BY <1>0, <1>1 DEF IInv, LocalsOK, ThreadType, Executes
<1>3. \A k \in Jobs : InSlot(k)' <=> InSlot(k)
  BY <1>1 DEF ringVars, InSlot, Slots
<1>4. \A k \in Jobs \ {t} : Running(k)' <=> Running(k)
  BY <1>0, <1>1 DEF Running, Executes, ThreadType
<1>5. \A k \in Jobs : (Blocked(k)' <=> Blocked(k)) /\ (TakenBack(k)' <=> TakenBack(k))
  BY <1>1 DEF Blocked, Waits, TakenBack
<1>6. \A k \in Jobs \ {t} : PhaseOf(k)' = PhaseOf(k)
  BY <1>3, <1>4, <1>5, SamePhase
<1>7. PhaseOf(t) = "running" /\ PhaseOf(t)' = "idle"
  BY <1>2, PhaseFacts, PhaseFactsNext DEF Running
<1>8. JQ!Move(t, "running", "idle")
  BY <1>2, <1>6, <1>7, MoveOne
<1>9. Ahead' = Ahead
  BY <1>1 DEF Ahead, At, ringVars
<1>10. JQ!Finish(t)
  BY <1>8, <1>9 DEF JQ!Finish
<1>11. CASE kill_threads
  BY <1>1, <1>11, ClosedJQ
<1>12. CASE ~kill_threads
  BY <1>1, <1>2, <1>10, <1>12 DEF JQStep, JQ!JQNext, JQ!Working
<1> QED BY <1>11, <1>12

(* A job enters the ring, new or resized: Enter.                           *)
LEMMA EnteredJQ ==
  ASSUME IInv, IInv', ~kill_threads, NEW j \in Jobs, ~InSlot(j), PhaseOf(j) \in {"idle", "blocked"},
         UNCHANGED <<kill_threads, wjob>>,
         \/ num_queued # max_jobs /\ PutJob(j, jobs, max_jobs, read_idx, write_idx)
         \/ num_queued = max_jobs /\ PutResized(j),
         \A k \in Jobs \ {j} : (Blocked(k)' <=> Blocked(k)) /\ (TakenBack(k)' <=> TakenBack(k))
  PROVE  JQStep
<1> USE QueueAssumption
<1>0. PICK n : n = num_queued
  OBVIOUS
<1>1. ~ShutDown /\ RingType /\ RingShape /\ SlotsUnique
  BY Halves DEF IInv, ShutDown
<1>2. /\ InSlot(j)' /\ \A k \in Jobs : InSlot(k)' <=> InSlot(k) \/ k = j
      /\ \A k \in Jobs : \A w \in Workers : Executes(w, k)' <=> Executes(w, k)
  BY <1>1, Entered
<1>3. \A k \in Jobs \ {j} : PhaseOf(k)' = PhaseOf(k)
  BY <1>2, SamePhase DEF Running
<1>4. PhaseOf(j)' = "queued"
  BY <1>2, PhaseFactsNext
<1>5. JQ!Move(j, "idle", "queued") \/ JQ!Move(j, "blocked", "queued")
  BY <1>3, <1>4, MoveOne
<1>6. (\A k \in 0..(n - 1) : At(k)' = At(k)) /\ At(n)' = j
  BY <1>0, <1>1, PutAt, GrowAt
<1>7. num_queued' = n + 1
  BY <1>0 DEF PutJob, PutResized
<1>8. Ahead' = Ahead \cup {i \in Jobs : InSlot(i)} \X {j}
  BY <1>0, <1>1, <1>6, <1>7, EnterAhead
<1>9. ASSUME NEW i \in Jobs  PROVE InSlot(i) <=> PhaseOf(i) = "queued"
  <2>1. CASE InSlot(i) \/ Running(i) \/ Blocked(i) \/ TakenBack(i)
    <3>1. ~(InSlot(i) /\ Running(i)) /\ ~(InSlot(i) /\ Blocked(i)) /\ ~(InSlot(i) /\ TakenBack(i))
      BY DEF IInv, HoldersOK, Running, Blocked, TakenBack, Waits, Has
    <3> QED BY <2>1, <3>1, PhaseFacts
  <2>2. CASE ~InSlot(i) /\ ~Running(i) /\ ~Blocked(i) /\ ~TakenBack(i)
    <3>1. PhaseOf(i) = "idle"
      BY <2>2, PhaseIs
    <3> QED BY <2>2, <3>1
  <2> QED BY <2>1, <2>2
<1>10. JQ!Enter(j)
  <2>1. {i \in Jobs : InSlot(i)} = {i \in Jobs : [k \in Jobs |-> PhaseOf(k)][i] = "queued"}
    BY <1>9
  <2> QED BY <1>5, <1>8, <2>1 DEF JQ!Enter
<1> QED BY <1>10 DEF JQStep, JQ!JQNext, JQ!Working

(* util_queue_add_job is Enter, or Block when the ring is full.            *)
LEMMA AddJobJQ ==
  ASSUME IInv, IInv', NEW c \in Clients, NEW j \in Jobs, util_queue_add_job(c, j)
  PROVE  JQStep
<1> USE QueueAssumption
<1>1. /\ ThreadType /\ cpc[c] = "idle" /\ signalled[j] /\ ~kill_threads
      /\ UNCHANGED <<kill_threads, wjob>>
  BY Halves DEF IInv, util_queue_add_job, MayAdd
<1>2. ~InSlot(j) /\ PhaseOf(j) = "idle"
  BY <1>1, PhaseFacts DEF IInv, HoldersOK
<1>3. CASE /\ \/ num_queued # max_jobs /\ PutJob(j, jobs, max_jobs, read_idx, write_idx)
              \/ num_queued = max_jobs /\ PutResized(j)
           /\ UNCHANGED <<cpc, cjob>>
  <2>1. \A k \in Jobs : (Blocked(k)' <=> Blocked(k)) /\ (TakenBack(k)' <=> TakenBack(k))
    BY <1>3 DEF Blocked, Waits, TakenBack
  <2> QED BY <1>1, <1>2, <1>3, <2>1, EnteredJQ
<1>4. CASE /\ cpc' = [cpc EXCEPT ![c] = "asleep"]
           /\ cjob' = [cjob EXCEPT ![c] = j]
           /\ UNCHANGED <<ringVars, wpc>>
  <2>1. \A k \in Jobs : (InSlot(k)' <=> InSlot(k)) /\ (Running(k)' <=> Running(k))
    BY <1>1, <1>4 DEF ringVars, InSlot, Slots, Running, Executes
  <2>2. \A k \in Jobs \ {j} : Blocked(k)' <=> Blocked(k)
    BY <1>1, <1>4 DEF Blocked, Waits, ThreadType
  <2>3. \A k \in Jobs \ {j} : TakenBack(k)' <=> TakenBack(k)
    BY <1>1, <1>4 DEF TakenBack, ThreadType
  <2>4. Blocked(j)'
    BY <1>1, <1>4 DEF Blocked, Waits, ThreadType
  <2>5. \A k \in Jobs \ {j} : PhaseOf(k)' = PhaseOf(k)
    BY <2>1, <2>2, <2>3, SamePhase
  <2>6. JQ!Move(j, "idle", "blocked")
    BY <1>2, <2>4, <2>5, PhaseFactsNext, MoveOne
  <2>7. Ahead' = Ahead
    BY <1>4 DEF Ahead, At, ringVars
  <2>8. JQ!Block(j)
    BY <2>6, <2>7 DEF JQ!Block
  <2> QED BY <1>1, <2>8 DEF JQStep, JQ!JQNext, JQ!Working
<1> QED BY <1>3, <1>4 DEF util_queue_add_job

(* A client that was blocked enters its job, or goes on sleeping.          *)
LEMMA WokenJQ ==
  ASSUME IInv, IInv', NEW c \in Clients, Woken(c)
  PROVE  JQStep
<1> USE QueueAssumption
<1>0. PICK j : j = cjob[c]
  OBVIOUS
<1>1. ThreadType /\ cpc[c] = "woken" /\ UNCHANGED <<kill_threads, wjob>>
  BY Halves DEF IInv, Woken
<1>2. j \in Jobs /\ Has(c, j) /\ Waits(c, j)
  BY <1>0, <1>1 DEF IInv, LocalsOK, ThreadType, Has, Waits
<1>3. CASE num_queued = max_jobs
  <2>1. cpc' = [cpc EXCEPT ![c] = "asleep"] /\ UNCHANGED <<ringVars, wpc, cjob>>
    BY <1>3 DEF Woken
  <2>2. OthersMove
    BY <1>1, <2>1 DEF ThreadType, OthersMove
  <2> QED BY <1>1, <2>1, <2>2, OthersMoveJQ
<1>4. CASE num_queued # max_jobs /\ kill_threads
  BY <1>1, <1>4, ClosedJQ
<1>5. CASE num_queued # max_jobs /\ ~kill_threads
  <2>1. /\ PutJob(j, jobs, max_jobs, read_idx, write_idx)
        /\ cpc' = [cpc EXCEPT ![c] = "idle"] /\ cjob' = [cjob EXCEPT ![c] = NoJob]
    BY <1>0, <1>5 DEF Woken, Return
  <2>2. ~InSlot(j) /\ PhaseOf(j) = "blocked"
    BY <1>2, PhaseFacts DEF IInv, HoldersOK, Blocked
  <2>3. \A k \in Jobs \ {j} : Blocked(k)' <=> Blocked(k)
    BY <1>0, <1>1, <2>1 DEF Blocked, Waits, ThreadType
  <2>4. \A k \in Jobs \ {j} : TakenBack(k)' <=> TakenBack(k)
    BY <1>0, <1>1, <2>1 DEF TakenBack, ThreadType
  <2> QED BY <1>1, <1>2, <1>5, <2>1, <2>2, <2>3, <2>4, EnteredJQ
<1> QED BY <1>3, <1>4, <1>5

(* A dropped job that is found is taken back.                              *)
LEMMA DropLockedJQ ==
  ASSUME IInv, IInv', NEW c \in Clients, DropLocked(c)
  PROVE  JQStep
<1> USE QueueAssumption
<1>0. PICK j, found : j = cjob[c] /\ found = {i \in Scanned : jobs[i] = j}
  OBVIOUS
<1>1. /\ RingType /\ ThreadType /\ SlotsUnique /\ cpc[c] = "drop"
      /\ jobs' = [i \in Slots |-> IF i \in found THEN NoJob ELSE jobs[i]]
      /\ cpc' = [cpc EXCEPT ![c] = IF found = {} THEN "dropwait" ELSE "dropped"]
      /\ UNCHANGED <<max_jobs, read_idx, write_idx, num_queued, kill_threads, wpc, wjob, cjob>>
  BY <1>0, Halves DEF IInv, DropLocked
<1>2. j \in Jobs /\ Slots' = Slots /\ found \subseteq Slots
  BY <1>0, <1>1 DEF IInv, LocalsOK, ThreadType, Slots, Scanned
<1>3. CASE found = {}
  <2>1. jobs' = jobs
    BY <1>1, <1>3 DEF RingType
  <2>2. OthersMove
    BY <1>1, <1>3 DEF ThreadType, OthersMove
  <2> QED BY <1>1, <2>1, <2>2, OthersMoveJQ DEF ringVars
<1>4. CASE found # {} /\ kill_threads
  BY <1>1, <1>4, ClosedJQ
<1>5. CASE found # {} /\ ~kill_threads
  <2>1. PICK i \in Slots : i \in found /\ jobs[i] = j
    BY <1>0, <1>2, <1>5
  <2>2. \A k \in Slots : jobs'[k] = IF jobs[k] = j THEN NoJob ELSE jobs[k]
    BY <1>0, <1>1, <1>2, <2>1 DEF SlotsUnique
  <2>3. InSlot(j) /\ \A k \in Jobs \ {j} : InSlot(k)' <=> InSlot(k)
    BY <1>2, <2>1, <2>2 DEF InSlot
  <2>4. \A k \in Jobs : (Running(k)' <=> Running(k)) /\ (Blocked(k)' <=> Blocked(k))
    BY <1>1, <1>5 DEF Running, Executes, Blocked, Waits, ThreadType
  <2>5. TakenBack(j)' /\ \A k \in Jobs \ {j} : TakenBack(k)' <=> TakenBack(k)
    BY <1>0, <1>1, <1>5 DEF TakenBack, ThreadType
  <2>6. \A k \in Jobs \ {j} : PhaseOf(k)' = PhaseOf(k)
    BY <2>3, <2>4, <2>5, SamePhase
  <2>7. JQ!Move(j, "queued", "dropped")
    BY <1>2, <2>3, <2>5, <2>6, PhaseFacts, PhaseFactsNext, MoveOne
  <2>8. \A k \in 0..(num_queued - 1) : At(k)' = IF At(k) = j THEN NoJob ELSE At(k)
    <3>1. max_jobs \in Nat \ {0} /\ read_idx \in 0..(max_jobs - 1) /\ num_queued \in 0..max_jobs
      BY <1>1 DEF RingType, Slots
    <3>2. ASSUME NEW k \in 0..(num_queued - 1)
          PROVE  (read_idx + k) % max_jobs \in Slots
      <4>1. k \in 0..(max_jobs - 1)
        BY <3>1
      <4> QED BY <3>1, <4>1, DistanceAdvance DEF Slots
    <3> QED BY <1>1, <2>2, <3>2 DEF At
  <2>9. Ahead' = Rest(j)
    BY <1>1, <1>2, <2>8, DropAhead
  <2>10. JQ!TakeBack(j)
    BY <2>7, <2>9 DEF JQ!TakeBack, JQ!Without, Rest
  <2> QED BY <1>1, <1>2, <1>5, <2>10 DEF JQStep, JQ!JQNext, JQ!Working
<1> QED BY <1>3, <1>4, <1>5

(* Signalling the fence of a dropped job is Finish.                        *)
LEMMA DropSignalJQ ==
  ASSUME IInv, IInv', NEW c \in Clients, DropSignal(c)
  PROVE  JQStep
<1> USE QueueAssumption
<1>0. PICK j : j = cjob[c]
  OBVIOUS
<1>1. /\ ThreadType /\ cpc[c] = "dropped"
      /\ signalled' = [signalled EXCEPT ![j] = TRUE]
      /\ cpc' = [cpc EXCEPT ![c] = "idle"] /\ cjob' = [cjob EXCEPT ![c] = NoJob]
      /\ UNCHANGED <<ringVars, kill_threads, wpc, wjob>>
  BY <1>0, Halves DEF IInv, DropSignal, Return
<1>2. j \in Jobs /\ TakenBack(j) /\ signalled'[j]
  BY <1>0, <1>1 DEF IInv, LocalsOK, ThreadType, TakenBack
<1>3. \A k \in Jobs : (InSlot(k)' <=> InSlot(k)) /\ (Running(k)' <=> Running(k))
  BY <1>1 DEF ringVars, InSlot, Slots, Running, Executes
<1>4. \A k \in Jobs \ {j} : Blocked(k)' <=> Blocked(k)
  BY <1>0, <1>1 DEF Blocked, Waits, ThreadType
<1>5. \A k \in Jobs \ {j} : TakenBack(k)' <=> TakenBack(k)
  BY <1>0, <1>1 DEF TakenBack, ThreadType
<1>6. \A k \in Jobs \ {j} : PhaseOf(k)' = PhaseOf(k)
  BY <1>3, <1>4, <1>5, SamePhase
<1>7. JQ!Move(j, "dropped", "idle")
  BY <1>2, <1>6, PhaseFacts, PhaseFactsNext, MoveOne
<1>8. Ahead' = Ahead
  BY <1>1 DEF Ahead, At, ringVars
<1>9. JQ!Finish(j)
  BY <1>7, <1>8 DEF JQ!Finish
<1>10. CASE kill_threads
  BY <1>1, <1>10, ClosedJQ
<1>11. CASE ~kill_threads
  BY <1>1, <1>2, <1>9, <1>11 DEF JQStep, JQ!JQNext, JQ!Working
<1> QED BY <1>10, <1>11

(* Every step.                                                             *)
LEMMA NextJQ ==
  ASSUME IInv, IInv', Next
  PROVE  JQStep
<1> USE QueueAssumption
<1>1. ThreadType
  BY Halves DEF IInv
<1>2. ASSUME NEW w \in Workers, Worker(w)
      PROVE  JQStep
  <2>1. CASE WaitForJob(w) \/ LeaveLoop(w)
    <3>1. OthersMove /\ UNCHANGED <<ringVars, kill_threads>>
      BY <1>1, <2>1 DEF WaitForJob, LeaveLoop, ThreadType, OthersMove
    <3> QED BY <3>1, OthersMoveJQ
  <2>2. CASE CleanupJob(w)
    <3>1. UNCHANGED <<ringVars, kill_threads, cpc, cjob>> /\ \A j \in Jobs : InSlot(j)' <=> InSlot(j)
      BY <2>2 DEF CleanupJob, ringVars, InSlot, Slots
    <3>2. \A j \in Jobs : Running(j)' <=> Running(j)
      BY <1>1, <2>2 DEF CleanupJob, Running, Executes, ThreadType
    <3>3. \A j \in Jobs : (Blocked(j)' <=> Blocked(j)) /\ (TakenBack(j)' <=> TakenBack(j))
      BY <3>1 DEF Blocked, Waits, TakenBack
    <3> QED BY <3>1, <3>2, <3>3, SamePhase, QuietJQ
  <2>3. CASE SignalRemaining(w)
    <3>1. kill_threads'
      BY <2>3 DEF SignalRemaining, IInv, LocalsOK
    <3> QED BY <3>1, ClosedJQ
  <2> QED BY <1>2, <2>1, <2>2, <2>3, TakeJobJQ, FinishJobJQ DEF Worker
<1>3. ASSUME NEW c \in Clients, NEW j \in Jobs,
             util_queue_drop_job(c, j) \/ util_queue_fence_wait(c, j)
      PROVE  JQStep
  <2>1. OthersMove /\ UNCHANGED <<ringVars, kill_threads>>
    BY <1>1, <1>3 DEF util_queue_drop_job, util_queue_fence_wait, ThreadType, OthersMove
  <2> QED BY <2>1, OthersMoveJQ
<1>4. ASSUME NEW c \in Clients, FenceWaitReturns(c)
      PROVE  JQStep
  <2>1. OthersMove /\ UNCHANGED <<ringVars, kill_threads>>
    BY <1>1, <1>4 DEF FenceWaitReturns, Return, ThreadType, OthersMove
  <2> QED BY <2>1, OthersMoveJQ
<1>5. ASSUME NEW c \in Clients, Client(c)
      PROVE  JQStep
  BY <1>3, <1>4, <1>5, AddJobJQ, WokenJQ, DropLockedJQ, DropSignalJQ DEF Client, Resume
<1>6. CASE KillAll \/ Joined
  BY <1>6, ClosedJQ DEF KillAll, Joined
<1> QED BY <1>2, <1>5, <1>6 DEF Next

(* After util_queue_init the queue is an empty JobQueue.                   *)
LEMMA InitJQ == util_queue_init => JQ!JQInit
<1> SUFFICES ASSUME util_queue_init PROVE JQ!JQInit
  OBVIOUS
<1> USE QueueAssumption DEF util_queue_init
<1>1. Ahead = {}
  BY DEF Ahead
<1>2. ASSUME NEW j \in Jobs
      PROVE  PhaseOf(j) = "idle"
  <2>1. ~InSlot(j) /\ ~Running(j) /\ ~Blocked(j) /\ ~TakenBack(j)
    BY DEF InSlot, Slots, Running, Executes, Blocked, Waits, TakenBack
  <2> QED BY <2>1, PhaseIs
<1>3. [j \in Jobs |-> PhaseOf(j)] = [j \in Jobs |-> "idle"]
  BY <1>2
<1> QED BY <1>1, <1>3 DEF JQ!JQInit

(* util_queue implements JobQueue: until exit() every job that enters      *)
(* starts once, in the order of entering, or is taken back.                *)
THEOREM QueueImplementsJobQueue == Spec => ImplementsJobQueue
<1>1. IInv /\ IInv' /\ [Next]_vars => [JQ!JQNext]_<<[j \in Jobs |-> PhaseOf(j)], Ahead, ~kill_threads>>
  <2>1. ASSUME IInv, IInv', Next
        PROVE  JQStep
    BY <2>1, NextJQ
  <2>2. ASSUME UNCHANGED vars
        PROVE  UNCHANGED <<[j \in Jobs |-> PhaseOf(j)], Ahead, ~kill_threads>>
    BY <2>2 DEF vars, ringVars, PhaseOf, Ahead, At, Slots
  <2> QED BY <2>1, <2>2 DEF JQStep
<1> QED BY <1>1, InitJQ, Invariant, PTL DEF Spec, ImplementsJobQueue, JQ!JQSpec
=============================================================================
