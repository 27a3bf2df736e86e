----------------------- MODULE CloverAccountingProofs -----------------------
(***************************************************************************)
(* For an application that serialises its calls of clSetUserEventStatus    *)
(* per event, or has one thread, TriggerAccounting is an inductive         *)
(* invariant of CloverEvents.                                              *)
(* From it follow the promises of event.hpp that concurrency does not      *)
(* break: an action runs at most once, after every dependency, and never   *)
(* for an aborted event, and a queue is signalled in order.                *)
(***************************************************************************)
EXTENDS CloverEventsProofs

-----------------------------------------------------------------------------
(* What the count says about the triggers an event is owed.                 *)

(* _wait_count and the set of owed triggers.                                *)
LEMMA OwedCount ==
  ASSUME TypeOK, CountOK, NEW e \in Events
  PROVE  /\ Signalled(e) <=> owed[e] = {}
         /\ IsFiniteSet(owed[e]) /\ waitCount[e] = Cardinality(owed[e]) /\ waitCount[e] \in Nat
         /\ \A i \in owed[e] : /\ waitCount[e] >= 1
                               /\ waitCount[e] = 1 => owed[e] = {i}
                               /\ IsFiniteSet(owed[e] \ {i})
                               /\ Cardinality(owed[e] \ {i}) = waitCount[e] - 1
         /\ \A i : i \notin owed[e] => /\ IsFiniteSet(owed[e] \cup {i})
                                       /\ Cardinality(owed[e] \cup {i}) = waitCount[e] + 1
<1> DEFINE S == owed[e]
<1>1. IsFiniteSet(S) /\ waitCount[e] = Cardinality(S) /\ waitCount[e] \in Nat
  BY DEF CountOK, TypeOK
<1>2. Cardinality(S) = 0 <=> S = {}
  BY <1>1, FS_EmptySet
<1>3. ASSUME NEW i \in S
      PROVE  /\ Cardinality(S) >= 1 /\ (Cardinality(S) = 1 => S = {i})
             /\ IsFiniteSet(S \ {i}) /\ Cardinality(S \ {i}) = Cardinality(S) - 1
  <2>1. IsFiniteSet(S \ {i}) /\ Cardinality(S \ {i}) = Cardinality(S) - 1
    BY <1>1, FS_RemoveElement
  <2>2. Cardinality(S) # 0
    BY <1>2
  <2>3. ASSUME Cardinality(S) = 1
        PROVE  S = {i}
    <3>1. Cardinality(S \ {i}) = 0
      BY <2>1, <2>3
    <3>2. S \ {i} = {}
      BY <2>1, <3>1, FS_EmptySet
    <3> QED BY <3>2
  <2> QED BY <1>1, <2>1, <2>2, <2>3
<1>4. ASSUME NEW i, i \notin S
      PROVE  IsFiniteSet(S \cup {i}) /\ Cardinality(S \cup {i}) = Cardinality(S) + 1
  BY <1>1, <1>4, FS_AddElement
<1> QED BY <1>1, <1>2, <1>3, <1>4 DEF Signalled

(* An aborted event is never signalled: the trigger it lacks never comes.   *)
LEMMA AbortedUnsignalled ==
  ASSUME TypeOK, CountOK, StuckOK, NEW e \in Events, status[e] # 0
  PROVE  ~Signalled(e)
  BY OwedCount DEF StuckOK

-----------------------------------------------------------------------------
(* What a step does to the operations on the stacks, in general.            *)

(* Where an operation that t's step did not push was before.                *)
Origin(t, n, u, k) == IF u = t THEN k - n ELSE k

(* The operation at that place is the same.                                 *)
LEMMA ShiftBack ==
  ASSUME TypeOK, NEW t \in Threads, NEW m, NEW n, Shift(t, m, n),
         NEW u \in Threads, NEW k \in DOMAIN stack'[u], ~(u = t /\ k <= m)
  PROVE  /\ Origin(t, n, u, k) \in DOMAIN stack[u]
         /\ stack'[u][k] = stack[u][Origin(t, n, u, k)]
<1>1. k \in Nat /\ m \in Nat
  BY DEF Shift
<1> QED BY <1>1 DEF Shift, Origin

(* If the pushed operations duplicate no trigger, triggers stay unique.     *)
LEMMA UniqueShift ==
  ASSUME TypeOK, TriggerUnique, NEW t \in Threads, NEW m, NEW n, Shift(t, m, n),
         \A k, l \in DOMAIN stack'[t] :
           (k <= m /\ l <= m /\ SameTrigger(stack'[t][k], stack'[t][l])) => k = l,
         \A k \in DOMAIN stack'[t] : \A u \in Threads : \A l \in DOMAIN stack'[u] :
           (k <= m /\ ~(u = t /\ l <= m)) => ~SameTrigger(stack'[t][k], stack'[u][l])
  PROVE  TriggerUnique'
<1>0. ASSUME NEW o, NEW p, SameTrigger(o, p)
      PROVE  SameTrigger(p, o)
  BY <1>0 DEF SameTrigger
<1>1. SUFFICES ASSUME NEW u \in Threads, NEW v \in Threads,
                      NEW k \in DOMAIN stack'[u], NEW l \in DOMAIN stack'[v],
                      SameTrigger(stack'[u][k], stack'[v][l])
               PROVE  u = v /\ k = l
  BY DEF TriggerUnique, SameTrigger, Holds
<1>2. k \in Nat /\ l \in Nat /\ m \in Nat /\ n \in Int
  BY DEF Shift
<1>3. CASE u = t /\ k <= m
  BY <1>1, <1>3
<1>4. CASE v = t /\ l <= m
  BY <1>0, <1>1, <1>4
<1>5. CASE ~(u = t /\ k <= m) /\ ~(v = t /\ l <= m)
  <2>1. /\ Origin(t, n, u, k) \in DOMAIN stack[u] /\ Origin(t, n, v, l) \in DOMAIN stack[v]
        /\ SameTrigger(stack[u][Origin(t, n, u, k)], stack[v][Origin(t, n, v, l)])
    BY <1>1, <1>5, ShiftBack
  <2>2. u = v /\ Origin(t, n, u, k) = Origin(t, n, v, l)
    BY <2>1 DEF TriggerUnique
  <2> QED BY <1>2, <2>2 DEF Origin
<1> QED BY <1>3, <1>4, <1>5

(* If the pushed operations of a constructor end in its trigger, the other  *)
(* constructors keep theirs.                                                *)
LEMMA PendingShift ==
  ASSUME TypeOK, PendingOK, NEW t \in Threads, NEW m, NEW n, Shift(t, m, n),
         \A k \in DOMAIN stack'[t] :
           (k <= m /\ stack'[t][k].op \in {"chain", "seq"}) =>
             \E l \in DOMAIN stack'[t] :
               l > k /\ stack'[t][l] = Op("trig", stack'[t][k].ev, 0)
  PROVE  PendingOK'
<1>1. SUFFICES ASSUME NEW u \in Threads, NEW k \in DOMAIN stack'[u],
                      stack'[u][k].op \in {"chain", "seq"}
               PROVE  \E l \in DOMAIN stack'[u] :
                        l > k /\ stack'[u][l] = Op("trig", stack'[u][k].ev, 0)
  BY DEF PendingOK, Op
<1>2. CASE u = t /\ k <= m
  BY <1>1, <1>2
<1>3. CASE u # t
  BY <1>1, <1>3 DEF Shift, PendingOK
<1>4. CASE u = t /\ ~(k <= m)
  <2>0. stack \in [Threads -> Seq(Ops)] /\ stack' \in [Threads -> Seq(Ops)]
    BY DEF TypeOK, Shift
  <2>1. /\ k \in Nat /\ m \in Nat /\ n \in Int /\ Len(stack[t]) \in Nat /\ Len(stack'[t]) \in Nat
        /\ DOMAIN stack[t] = 1..Len(stack[t]) /\ DOMAIN stack'[t] = 1..Len(stack'[t])
    BY <2>0 DEF Shift
  <2>a. k \in DOMAIN stack'[t]
    BY <1>4
  <2>b. k > m /\ Len(stack'[t]) # 0
    BY <1>4, <2>1, <2>a
  <2>2. k - n \in DOMAIN stack[t] /\ stack'[t][k] = stack[t][k - n]
    BY <2>a, <2>b DEF Shift
  <2>3. PICK j \in DOMAIN stack[t] :
          j > k - n /\ stack[t][j] = Op("trig", stack[t][k - n].ev, 0)
    BY <1>1, <1>4, <2>2 DEF PendingOK
  <2>4. Len(stack'[t]) = Len(stack[t]) + n
    BY <2>b DEF Shift
  <2>5. j + n \in DOMAIN stack'[t] /\ j + n > k /\ j + n > m /\ (j + n) - n = j
    BY <1>4, <2>1, <2>3, <2>4
  <2>6. stack'[t][j + n] = stack[t][j]
    BY <2>5 DEF Shift
  <2> QED BY <1>4, <2>2, <2>3, <2>5, <2>6
<1> QED BY <1>2, <1>3, <1>4

(* If a step pushes no call of sequence() and puts nothing new in a queue,  *)
(* the pending calls stay single and early.                                 *)
LEMMA SequenceShift ==
  ASSUME TypeOK, SequenceOK, NEW t \in Threads, NEW m, NEW n, Shift(t, m, n),
         \A k \in DOMAIN stack'[t] : k <= m => stack'[t][k].op # "seq",
         \A q \in Queues : \A j \in DOMAIN queued'[q] :
           \E i \in DOMAIN queued[q] : queued'[q][j] = queued[q][i]
  PROVE  SequenceOK'
<1>1. SUFFICES ASSUME NEW u \in Threads, NEW k \in DOMAIN stack'[u], stack'[u][k].op = "seq"
               PROVE  /\ \A q \in Queues : \A j \in DOMAIN queued'[q] :
                           queued'[q][j] # stack'[u][k].ev
                      /\ \A v \in Threads : \A l \in DOMAIN stack'[v] :
                           (stack'[v][l].op = "seq" /\ stack'[v][l].ev = stack'[u][k].ev)
                             => v = u /\ l = k
  BY DEF SequenceOK
<1>2. /\ Origin(t, n, u, k) \in DOMAIN stack[u]
      /\ stack'[u][k] = stack[u][Origin(t, n, u, k)]
  BY <1>1, ShiftBack
<1>3. \A q \in Queues : \A j \in DOMAIN queued'[q] : queued'[q][j] # stack'[u][k].ev
  BY <1>1, <1>2 DEF SequenceOK
<1>4. ASSUME NEW v \in Threads, NEW l \in DOMAIN stack'[v],
             stack'[v][l].op = "seq", stack'[v][l].ev = stack'[u][k].ev
      PROVE  v = u /\ l = k
  <2>1. /\ Origin(t, n, v, l) \in DOMAIN stack[v]
        /\ stack'[v][l] = stack[v][Origin(t, n, v, l)]
    BY <1>4, ShiftBack
  <2>2. v = u /\ Origin(t, n, v, l) = Origin(t, n, u, k)
    BY <1>1, <1>2, <1>4, <2>1 DEF SequenceOK
  <2>3. k \in Nat /\ l \in Nat /\ n \in Int
    BY DEF Shift
  <2> QED BY <2>2, <2>3 DEF Origin
<1> QED BY <1>3, <1>4

(* The counting step of a started user event is only removed by itself.     *)
LEMMA CountingShift ==
  ASSUME TypeOK, CountingOK, NEW t \in Threads, NEW m, NEW n, Shift(t, m, n),
         stack[t] # << >> => Head(stack[t]).op # "dec",
         UNCHANGED <<owed, kind, started>>
  PROVE  CountingOK'
<1>1. SUFFICES ASSUME NEW e \in Events, started[e] # 0, kind[e] = "user", owed[e] # {}
               PROVE  \E u \in Threads : stack'[u] # << >> /\ Head(stack'[u]) = Op("dec", e, 0)
  BY DEF CountingOK, Op
<1>2. PICK u \in Threads : stack[u] # << >> /\ Head(stack[u]) = Op("dec", e, 0)
  BY <1>1 DEF CountingOK
<1>3. u # t
  BY <1>2, OpIsOp
<1> QED BY <1>2, <1>3 DEF Shift

(* What a quiet operation is not.                                           *)
LEMMA QuietIsInert ==
  ASSUME NEW o \in QuietOps
  PROVE  /\ o.op \notin {"chain", "seq", "trig", "act", "dec", "abort", "aself"}
         /\ ~Holds(o) /\ CausedTrigger(o) /\ CausedAbort(o)
  BY QuietOpsOK DEF CausedTrigger, CausedAbort

(* A step that leaves the graph alone and pushes, besides quiet operations, *)
(* at most one that carries a trigger or an abort on.                       *)
LEMMA TokenShift ==
  ASSUME TypeOK, TriggerOK, AbortOK, TriggerUnique, PendingOK,
         NEW t \in Threads, NEW m, NEW n, Shift(t, m, n), NEW r,
         UNCHANGED <<waitCount, deps, owed, kind, status>>,
         \A k \in DOMAIN stack'[t] : k <= m =>
           \/ stack'[t][k] \in QuietOps
           \/ /\ k = r
              /\ stack'[t][k].op \notin {"chain", "seq"}
              /\ CausedTrigger(stack'[t][k]) /\ CausedAbort(stack'[t][k])
              /\ \A u \in Threads : \A l \in DOMAIN stack'[u] :
                   ~(u = t /\ l <= m) => ~SameTrigger(stack'[t][k], stack'[u][l])
  PROVE  TriggerOK' /\ AbortOK' /\ TriggerUnique' /\ PendingOK'
<1>1. ASSUME NEW u \in Threads, NEW k \in DOMAIN stack'[u]
      PROVE  CausedTrigger(stack'[u][k]) /\ CausedAbort(stack'[u][k])
  <2>1. CASE u = t /\ k <= m
    BY <2>1, QuietIsInert
  <2>2. CASE ~(u = t /\ k <= m)
    <3>1. /\ Origin(t, n, u, k) \in DOMAIN stack[u]
          /\ stack'[u][k] = stack[u][Origin(t, n, u, k)]
      BY <2>2, ShiftBack
    <3> QED BY <3>1 DEF TriggerOK, AbortOK
  <2> QED BY <2>1, <2>2
<1>2. TriggerOK'
  <2>1. ASSUME NEW u \in Threads, NEW k \in DOMAIN stack'[u]
        PROVE  CausedTrigger(stack[u][k])'
    <3>1. CausedTrigger(stack'[u][k])
      BY <1>1
    <3> QED BY <3>1 DEF CausedTrigger, Signalled
  <2> QED BY <2>1 DEF TriggerOK
<1>3. AbortOK'
  <2>1. ASSUME NEW u \in Threads, NEW k \in DOMAIN stack'[u]
        PROVE  CausedAbort(stack[u][k])'
    <3>1. CausedAbort(stack'[u][k])
      BY <1>1
    <3> QED BY <3>1 DEF CausedAbort
  <2> QED BY <2>1 DEF AbortOK
<1>4. TriggerUnique'
  <2>1. ASSUME NEW k \in DOMAIN stack'[t], NEW l \in DOMAIN stack'[t],
               k <= m, l <= m, SameTrigger(stack'[t][k], stack'[t][l])
        PROVE  k = l
    BY <2>1, QuietIsInert DEF SameTrigger
  <2>2. ASSUME NEW k \in DOMAIN stack'[t], NEW u \in Threads, NEW l \in DOMAIN stack'[u],
               k <= m, ~(u = t /\ l <= m)
        PROVE  ~SameTrigger(stack'[t][k], stack'[u][l])
    BY <2>2, QuietIsInert DEF SameTrigger
  <2> QED BY <2>1, <2>2, UniqueShift
<1>5. PendingOK'
  <2>1. \A k \in DOMAIN stack'[t] : k <= m => stack'[t][k].op \notin {"chain", "seq"}
    BY QuietIsInert
  <2> QED BY <2>1, PendingShift
<1> QED BY <1>2, <1>3, <1>4, <1>5

(* The parts of the invariant that only speak of the event graph.           *)
LEMMA GraphKept ==
  ASSUME CountOK, ReleasedOK, ChainOK, StuckOK,
         UNCHANGED <<waitCount, chain, deps, owed, kind, status>>
  PROVE  CountOK' /\ ReleasedOK' /\ ChainOK' /\ StuckOK'
<1>1. CountOK'
  BY DEF CountOK
<1>2. ReleasedOK'
  BY DEF ReleasedOK, Signalled
<1>3. ChainOK'
  BY DEF ChainOK, Signalled
<1>4. StuckOK'
  BY DEF StuckOK
<1> QED BY <1>1, <1>2, <1>3, <1>4

(* The same of the queues.                                                  *)
LEMMA QueuesKept ==
  ASSUME QueueLinked, QueueInOrder, UNCHANGED <<waitCount, deps, queued>>
  PROVE  QueueLinked' /\ QueueInOrder'
  BY DEF QueueLinked, QueueInOrder, Signalled

(* Started events stay as they are while their graph does.                  *)
LEMMA StartedKept ==
  ASSUME StartedOK, UNCHANGED <<waitCount, chain, deps, owed, status, started>>
  PROVE  StartedOK'
  BY DEF StartedOK, Signalled

(* No step but those of a constructor and a trigger can start an action.    *)
LEMMA StartedOnceShift ==
  ASSUME TypeOK, StartedOnceOK, NEW t \in Threads, NEW m, NEW n, Shift(t, m, n),
         UNCHANGED started,
         \A k \in DOMAIN stack'[t] :
           (k <= m /\ stack'[t][k].op \in {"chain", "seq", "trig", "act"})
             => started[stack'[t][k].ev] = 0
  PROVE  StartedOnceOK'
<1>1. ASSUME NEW u \in Threads, NEW k \in DOMAIN stack'[u],
             stack'[u][k].op \in {"chain", "seq", "trig", "act"}
      PROVE  started[stack'[u][k].ev] = 0
  <2>1. CASE u = t /\ k <= m
    BY <1>1, <2>1
  <2>2. CASE ~(u = t /\ k <= m)
    <3>1. /\ Origin(t, n, u, k) \in DOMAIN stack[u]
          /\ stack'[u][k] = stack[u][Origin(t, n, u, k)]
      BY <2>2, ShiftBack
    <3> QED BY <1>1, <3>1 DEF StartedOnceOK
  <2> QED BY <2>1, <2>2
<1> QED BY <1>1 DEF StartedOnceOK

-----------------------------------------------------------------------------
(* The invariant, step by step.                                             *)

(* The invariant without the parts proved with type correctness.            *)
Accounts ==
  /\ CountOK /\ ReleasedOK /\ TriggerOK /\ TriggerUnique /\ ChainOK
  /\ AbortOK /\ StuckOK /\ PendingOK /\ SequenceOK
  /\ StartedOK /\ StartedOnceOK /\ CountingOK
  /\ QueueLinked /\ QueueInOrder

(* Taking the first event off a queue keeps the others in line.             *)
LEMMA QuietQueuesOK ==
  ASSUME TypeOK, QueueLinked, QueueInOrder, QuietQueues, UNCHANGED <<waitCount, deps>>
  PROVE  /\ QueueLinked' /\ QueueInOrder'
         /\ \A q \in Queues : \A j \in DOMAIN queued'[q] :
              \E i \in DOMAIN queued[q] : queued'[q][j] = queued[q][i]
<1>1. CASE queued' = queued
  <2>1. QueueLinked' /\ QueueInOrder'
    BY <1>1, QueuesKept
  <2> QED BY <1>1, <2>1
<1>2. ASSUME NEW p \in Queues, queued[p] # << >>, queued' = [queued EXCEPT ![p] = Tail(@)]
      PROVE  /\ QueueLinked' /\ QueueInOrder'
             /\ \A q \in Queues : \A j \in DOMAIN queued'[q] :
                  \E i \in DOMAIN queued[q] : queued'[q][j] = queued[q][i]
  <2>1. queued[p] \in Seq(Events)
    BY DEF TypeOK
  <2>2. ASSUME NEW k \in DOMAIN Tail(queued[p])
        PROVE  k \in Nat /\ k >= 1 /\ k + 1 \in DOMAIN queued[p] /\ k \in DOMAIN queued[p]
               /\ Tail(queued[p])[k] = queued[p][k + 1]
    BY <1>2, <2>1
  <2>3. queued'[p] = Tail(queued[p]) /\ \A q \in Queues : q # p => queued'[q] = queued[q]
    BY <1>2 DEF TypeOK
  <2>4. ASSUME NEW k \in DOMAIN queued'[p]
        PROVE  k \in Nat /\ k >= 1 /\ k + 1 \in DOMAIN queued[p] /\ k \in DOMAIN queued[p]
               /\ queued'[p][k] = queued[p][k + 1]
    BY <2>2, <2>3
  <2>5. ASSUME NEW q \in Queues, NEW k \in DOMAIN queued'[q]
        PROVE  /\ \A j \in DOMAIN queued'[q] : queued'[q][j] = queued'[q][k] => j = k
               /\ k > 1 => \E i \in DOMAIN deps[queued'[q][k]] :
                             deps[queued'[q][k]][i] = queued'[q][k - 1]
               /\ \A j \in DOMAIN queued'[q] :
                    (j < k /\ Signalled(queued'[q][k])) => Signalled(queued'[q][j])
               /\ \E i \in DOMAIN queued[q] : queued'[q][k] = queued[q][i]
    <3>1. CASE q # p
      BY <2>3, <3>1 DEF QueueLinked, QueueInOrder
    <3>2. CASE q = p
      <4>1. \A j \in DOMAIN queued'[p] : queued'[p][j] = queued'[p][k] => j = k
        <5>1. ASSUME NEW j \in DOMAIN queued'[p], queued'[p][j] = queued'[p][k]
              PROVE  j = k
          <6>1. j + 1 = k + 1
            BY <2>4, <2>5, <3>2, <5>1 DEF QueueLinked
          <6> QED BY <2>4, <2>5, <3>2, <6>1
        <5> QED BY <5>1
      <4>2. ASSUME k > 1
            PROVE  \E i \in DOMAIN deps[queued'[p][k]] :
                     deps[queued'[p][k]][i] = queued'[p][k - 1]
        <5>1. k \in DOMAIN queued'[p] /\ k \in Nat /\ k + 1 > 1 /\ (k + 1) - 1 = k
          BY <2>4, <2>5, <3>2
        <5>2. k - 1 \in DOMAIN queued'[p] /\ (k - 1) + 1 = k
          BY <2>1, <2>3, <4>2, <5>1
        <5>3. queued'[p][k - 1] = queued[p][k] /\ queued'[p][k] = queued[p][k + 1]
              /\ k + 1 \in DOMAIN queued[p]
          BY <2>4, <5>1, <5>2
        <5> QED BY <5>1, <5>3 DEF QueueLinked
      <4>3. ASSUME NEW j \in DOMAIN queued'[p], j < k, Signalled(queued'[p][k])
            PROVE  Signalled(queued'[p][j])
        <5>1. j + 1 < k + 1
          BY <2>4, <2>5, <3>2, <4>3
        <5> QED BY <2>4, <2>5, <3>2, <4>3, <5>1 DEF QueueInOrder
      <4> QED BY <2>4, <2>5, <3>2, <4>1, <4>2, <4>3
    <3> QED BY <3>1, <3>2
  <2>6. QueueLinked'
    BY <2>5 DEF QueueLinked
  <2>7. QueueInOrder'
    BY <2>5 DEF QueueInOrder, Signalled
  <2> QED BY <2>5, <2>6, <2>7
<1> QED BY <1>1, <1>2 DEF QuietQueues

(* Quiet steps leave every trigger where it is.                             *)
LEMMA AccountsQuiet ==
  ASSUME TypeOK, Accounts, Quiet
  PROVE  Accounts'
<1>1. /\ UNCHANGED <<waitCount, chain, deps, owed, kind, status, started>>
      /\ QuietStack /\ QuietQueues
  BY DEF Quiet, graphVars
<1>2. /\ CountOK' /\ ReleasedOK' /\ ChainOK' /\ StuckOK' /\ StartedOK'
      /\ QueueLinked' /\ QueueInOrder'
      /\ \A q \in Queues : \A j \in DOMAIN queued'[q] :
           \E i \in DOMAIN queued[q] : queued'[q][j] = queued[q][i]
  BY <1>1, GraphKept, StartedKept, QuietQueuesOK DEF Accounts
<1>3. CASE stack' = stack
  <2>1. TriggerOK' /\ TriggerUnique' /\ AbortOK' /\ PendingOK'
    BY <1>1, <1>3 DEF Accounts, TriggerOK, TriggerUnique, AbortOK, PendingOK,
                      CausedTrigger, CausedAbort, SameTrigger, Signalled, Holds
  <2>2. SequenceOK'
    BY <1>2, <1>3 DEF Accounts, SequenceOK
  <2>3. StartedOnceOK' /\ CountingOK'
    BY <1>1, <1>3 DEF Accounts, StartedOnceOK, CountingOK
  <2> QED BY <1>2, <2>1, <2>2, <2>3 DEF Accounts
<1>4. CASE stack' # stack
  <2>1. PICK t \in Threads, m \in Nat, n \in Int :
          /\ Shift(t, m, n)
          /\ \A k \in DOMAIN stack'[t] : k <= m => stack'[t][k] \in QuietOps
          /\ stack[t] # << >> => Head(stack[t]) \in QuietOps
    BY <1>1, <1>4, QuietShift
  <2>2. TriggerOK' /\ AbortOK' /\ TriggerUnique' /\ PendingOK'
    BY <1>1, <2>1, TokenShift DEF Accounts
  <2>3. \A k \in DOMAIN stack'[t] :
          k <= m => stack'[t][k].op \notin {"chain", "seq", "trig", "act"}
    BY <2>1, QuietIsInert
  <2>4. SequenceOK'
    BY <1>2, <2>1, <2>3, SequenceShift DEF Accounts
  <2>5. StartedOnceOK'
    BY <1>1, <2>1, <2>3, StartedOnceShift DEF Accounts
  <2>6. stack[t] # << >> => Head(stack[t]).op # "dec"
    BY <2>1, QuietIsInert
  <2>7. CountingOK'
    BY <1>1, <2>1, <2>6, CountingShift DEF Accounts
  <2> QED BY <1>2, <2>2, <2>4, <2>5, <2>7 DEF Accounts
<1> QED BY <1>3, <1>4

(* When a step replaces its first operation, the trigger that operation     *)
(* stood for is not among the operations it leaves in place.                *)
LEMMA HeadGone ==
  ASSUME TypeOK, TriggerUnique, NEW t \in Threads, stack[t] # << >>,
         NEW a \in Seq(Ops), Continue(t, a),
         NEW u \in Threads, NEW l \in DOMAIN stack'[u], ~(u = t /\ l <= Len(a))
  PROVE  ~SameTrigger(Head(stack[t]), stack'[u][l])
<1> DEFINE j == Origin(t, Len(a) - 1, u, l)
<1>1. Len(a) \in Nat /\ Shift(t, Len(a), Len(a) - 1)
  BY ContinueIsShift
<1>2. j \in DOMAIN stack[u] /\ stack'[u][l] = stack[u][j]
  BY <1>1, ShiftBack
<1>3. 1 \in DOMAIN stack[t] /\ Head(stack[t]) = stack[t][1]
  BY HeadOp DEF TypeOK
<1>4. u = t => j # 1
  <2>1. l \in Nat
    BY <1>1 DEF Shift
  <2> QED BY <1>1, <2>1 DEF Origin
<1> HIDE DEF j
<1> QED BY <1>2, <1>3, <1>4 DEF TriggerUnique

(* A step that leaves the graph and the queues alone and replaces its first *)
(* operation by quiet ones and at most one that carries the trigger on.     *)
LEMMA AccountsToken ==
  ASSUME TypeOK, Accounts, NEW t \in Threads, stack[t] # << >>, Head(stack[t]).op # "dec",
         NEW a \in Seq(Ops), Continue(t, a),
         UNCHANGED <<waitCount, chain, deps, owed, kind, status, started, queued>>,
         \A j \in 1..Len(a) :
           \/ a[j] \in QuietOps
           \/ /\ j = Len(a)
              /\ a[j].op \notin {"chain", "seq"}
              /\ CausedTrigger(a[j]) /\ CausedAbort(a[j])
              /\ a[j].op \in {"trig", "act"} => started[a[j].ev] = 0
              /\ Holds(a[j]) => SameTrigger(Head(stack[t]), a[j])
  PROVE  Accounts'
<1> DEFINE m == Len(a)
<1>1. /\ m \in Nat /\ Shift(t, m, m - 1) /\ m - 1 \in Int
      /\ \A k \in 1..m : k \in DOMAIN stack'[t] /\ stack'[t][k] = a[k]
  BY ContinueIsShift
<1>2. ASSUME NEW k \in DOMAIN stack'[t], k <= m
      PROVE  k \in 1..m /\ stack'[t][k] = a[k]
  <2>1. k \in Nat /\ k >= 1
    BY <1>1 DEF Shift
  <2> QED BY <1>1, <1>2, <2>1
<1>3. TriggerOK' /\ AbortOK' /\ TriggerUnique' /\ PendingOK'
  <2>1. ASSUME NEW k \in DOMAIN stack'[t], k <= m
        PROVE  \/ stack'[t][k] \in QuietOps
               \/ /\ k = m
                  /\ stack'[t][k].op \notin {"chain", "seq"}
                  /\ CausedTrigger(stack'[t][k]) /\ CausedAbort(stack'[t][k])
                  /\ \A u \in Threads : \A l \in DOMAIN stack'[u] :
                       ~(u = t /\ l <= m) => ~SameTrigger(stack'[t][k], stack'[u][l])
    <3>1. k \in 1..m /\ stack'[t][k] = a[k]
      BY <1>2, <2>1
    <3>2. CASE a[k] \in QuietOps
      BY <3>1, <3>2
    <3>3. CASE a[k] \notin QuietOps
      <4>1. ASSUME NEW u \in Threads, NEW l \in DOMAIN stack'[u], ~(u = t /\ l <= m)
            PROVE  ~SameTrigger(a[k], stack'[u][l])
        <5>1. ~SameTrigger(Head(stack[t]), stack'[u][l])
          BY <4>1, HeadGone DEF Accounts
        <5>2. Holds(a[k]) => SameTrigger(Head(stack[t]), a[k])
          BY <3>1, <3>3
        <5> QED BY <5>1, <5>2 DEF SameTrigger
      <4> QED BY <3>1, <3>3, <4>1
    <3> QED BY <3>2, <3>3
  <2>2. TriggerOK /\ AbortOK /\ TriggerUnique /\ PendingOK
    BY DEF Accounts
  <2>3. UNCHANGED <<waitCount, deps, owed, kind, status>>
    OBVIOUS
  <2>4. \A k \in DOMAIN stack'[t] : k <= m =>
          \/ stack'[t][k] \in QuietOps
          \/ /\ k = m
             /\ stack'[t][k].op \notin {"chain", "seq"}
             /\ CausedTrigger(stack'[t][k]) /\ CausedAbort(stack'[t][k])
             /\ \A u \in Threads : \A l \in DOMAIN stack'[u] :
                  ~(u = t /\ l <= m) => ~SameTrigger(stack'[t][k], stack'[u][l])
    BY <2>1
  <2>5. PICK n : n = m - 1
    OBVIOUS
  <2>6. Shift(t, m, n)
    BY <1>1, <2>5
  <2> HIDE DEF m
  <2> QED BY <2>2, <2>3, <2>4, <2>6, TokenShift
<1>4. \A k \in DOMAIN stack'[t] : k <= m => stack'[t][k].op # "seq"
  BY <1>2, QuietIsInert
<1>5. SequenceOK'
  BY <1>1, <1>4, SequenceShift DEF Accounts
<1>6. \A k \in DOMAIN stack'[t] :
        (k <= m /\ stack'[t][k].op \in {"chain", "seq", "trig", "act"})
          => started[stack'[t][k].ev] = 0
  BY <1>2, QuietIsInert
<1>7. StartedOnceOK'
  BY <1>1, <1>6, StartedOnceShift DEF Accounts
<1>8. CountingOK'
  BY <1>1, CountingShift DEF Accounts
<1>9. /\ CountOK' /\ ReleasedOK' /\ ChainOK' /\ StuckOK' /\ StartedOK'
      /\ QueueLinked' /\ QueueInOrder'
  BY GraphKept, StartedKept, QueuesKept DEF Accounts
<1> QED BY <1>3, <1>5, <1>7, <1>8, <1>9 DEF Accounts

(* What is known of the trigger a thread is at.                             *)
LEMMA HeadTrigger ==
  ASSUME TypeOK, NamesOK, Accounts, NEW t \in Threads, NEW n, At(t, n)
  PROVE  LET o == Head(stack[t]) IN
         /\ stack[t] # << >> /\ o \in Ops /\ o.op = n /\ OpOK(o)
         /\ 1 \in DOMAIN stack[t] /\ o = stack[t][1]
         /\ CausedTrigger(o) /\ CausedAbort(o)
         /\ n \in {"chain", "seq", "trig", "act"} => started[o.ev] = 0
         /\ n \in EventOps => o.ev \in Events /\ o.arg \in Nat /\ o.ev <= nev
<1> DEFINE o == Head(stack[t])
<1>1. /\ stack[t] # << >> /\ 1 \in DOMAIN stack[t] /\ o = stack[t][1] /\ o \in Ops
      /\ o.op = n /\ OpOK(o)
  BY HeadFacts
<1>2. CausedTrigger(o) /\ CausedAbort(o)
  BY <1>1 DEF Accounts, TriggerOK, AbortOK
<1>3. n \in {"chain", "seq", "trig", "act"} => started[o.ev] = 0
  BY <1>1 DEF Accounts, StartedOnceOK
<1>4. n \in EventOps => o.ev \in Events /\ o.arg \in Nat /\ o.ev <= nev
  BY <1>1, OpTypes DEF OpOK
<1> QED BY <1>1, <1>2, <1>3, <1>4

(* clSetUserEventStatus passes its check and sets off the only trigger or   *)
(* abort of the event.                                                      *)
LEMMA AccountsSetStatus ==
  ASSUME TypeOK, NamesOK, Accounts, NEW t \in Threads, SetStatus(t)
  PROVE  Accounts'
<1> DEFINE o == Head(stack[t])
           e == o.ev
           p == Op(IF o.op = "fail" THEN "abort" ELSE "trig", e, 0)
<1>1. /\ UNCHANGED <<waitCount, chain, deps, owed, kind, status, started, queued>>
      /\ Continue(t, IF status[e] < 0 \/ Signalled(e) THEN << >> ELSE <<p>>)
      /\ At(t, "complete") \/ At(t, "fail")
  BY DEF SetStatus, graphVars, deviceVars, identVars
<1>2. /\ stack[t] # << >> /\ o.op \in {"complete", "fail"} /\ OpOK(o) /\ e \in Events
      /\ 1 \in DOMAIN stack[t] /\ o = stack[t][1]
  BY <1>1, HeadTrigger DEF EventOps
<1>3. kind[e] = "user" /\ o.arg = 0 /\ deps[e] = << >>
  BY <1>2 DEF OpOK, NamesOK
<1>4. CASE status[e] < 0 \/ Signalled(e)
  <2>1. << >> \in Seq(Ops) /\ Continue(t, << >>) /\ Len(<< >>) = 0
    BY <1>1, <1>4
  <2>2. \A j \in 1..Len(<< >>) : FALSE
    OBVIOUS
  <2>3. Head(stack[t]).op # "dec"
    BY <1>2
  <2> HIDE DEF o, e, p
  <2> QED BY <1>1, <1>2, <2>1, <2>2, <2>3, AccountsToken
<1>5. CASE ~(status[e] < 0 \/ Signalled(e))
  <2>1. p \in Ops /\ p.op \in {"trig", "abort"} /\ p.ev = e /\ p.arg = 0
    BY <1>2, OpIsOp DEF EventOps
  <2>2. <<p>> \in Seq(Ops) /\ Len(<<p>>) = 1 /\ <<p>>[1] = p /\ Continue(t, <<p>>)
    BY <1>1, <1>5, <2>1
  <2>3. status[e] = 0
    BY <1>2, <1>5 DEF TypeOK
  <2>4. owed[e] = {0}
    <3>1. owed[e] # {} /\ owed[e] \subseteq 0..0
      BY <1>2, <1>3, <1>5, OwedCount DEF Accounts, CountOK
    <3> QED BY <3>1
  <2>5. started[e] = 0
    <3>1. SUFFICES ASSUME started[e] # 0 PROVE FALSE
      OBVIOUS
    <3>2. PICK u \in Threads : stack[u] # << >> /\ Head(stack[u]) = Op("dec", e, 0)
      BY <1>2, <1>3, <2>4, <3>1 DEF Accounts, CountingOK
    <3>3. 1 \in DOMAIN stack[u] /\ stack[u][1] = Op("dec", e, 0)
      BY <3>2, HeadOp DEF TypeOK
    <3>4. SameTrigger(stack[u][1], stack[t][1])
      BY <1>2, <1>3, <3>3, OpIsOp DEF SameTrigger, Holds
    <3>5. u = t
      <4>1. TriggerUnique
        BY DEF Accounts
      <4> QED BY <1>2, <3>3, <3>4, <4>1 DEF TriggerUnique
    <3>6. Head(stack[t]).op = "dec"
      BY <3>2, <3>5, OpIsOp, SMTT(30)
    <3> QED BY <1>2, <3>6
  <2>6. CausedTrigger(p) /\ CausedAbort(p) /\ SameTrigger(o, p)
    BY <1>2, <1>3, <2>1, <2>3, <2>4 DEF CausedTrigger, CausedAbort, SameTrigger, Holds
  <2> HIDE DEF p, e, o
  <2>7. Head(stack[t]).op # "dec" /\ SameTrigger(Head(stack[t]), p)
    BY <1>2, <2>6 DEF o
  <2>8. ASSUME NEW j \in 1..Len(<<p>>)
        PROVE  /\ j = Len(<<p>>) /\ <<p>>[j] = p
    BY <2>2, <2>8
  <2> QED BY <1>1, <1>2, <2>1, <2>2, <2>5, <2>6, <2>7, <2>8, AccountsToken
<1> QED BY <1>4, <1>5

(* The first critical section of trigger() takes the last trigger of an     *)
(* event to its action.                                                     *)
LEMMA AccountsTrigger ==
  ASSUME TypeOK, NamesOK, Accounts, NEW t \in Threads, Trigger(t)
  PROVE  Accounts'
<1> DEFINE o == Head(stack[t])
           p == Op(IF waitCount[o.ev] = 1 THEN "act" ELSE "dec", o.ev, o.arg)
<1>1. /\ UNCHANGED <<waitCount, chain, deps, owed, kind, status, started, queued>>
      /\ Continue(t, <<p>>) /\ At(t, "trig")
  BY DEF Trigger, graphVars, deviceVars, identVars
<1>2. /\ stack[t] # << >> /\ o.op = "trig" /\ o.ev \in Events /\ o.arg \in Nat
      /\ CausedTrigger(o) /\ started[o.ev] = 0
  BY <1>1, HeadTrigger DEF EventOps
<1>3. p \in Ops /\ p.op \in {"act", "dec"} /\ p.ev = o.ev /\ p.arg = o.arg
      /\ (p.op = "act" => waitCount[o.ev] = 1)
  BY <1>2, OpIsOp DEF EventOps
<1>4. <<p>> \in Seq(Ops) /\ Len(<<p>>) = 1 /\ <<p>>[1] = p
  BY <1>3
<1>5. o.arg \in owed[o.ev] /\ (waitCount[o.ev] = 1 => owed[o.ev] = {o.arg})
  BY <1>2, OwedCount DEF Accounts, CausedTrigger
<1> HIDE DEF p, o
<1>6. CausedTrigger(p) /\ CausedAbort(p)
  BY <1>2, <1>3, <1>5 DEF CausedTrigger, CausedAbort
<1>7. SameTrigger(o, p)
  BY <1>2, <1>3 DEF SameTrigger, Holds
<1>8. Head(stack[t]).op # "dec" /\ SameTrigger(Head(stack[t]), p)
  BY <1>2, <1>7 DEF o
<1>9. ASSUME NEW j \in 1..Len(<<p>>)
      PROVE  /\ j = Len(<<p>>) /\ <<p>>[j] = p
  BY <1>4, <1>9
<1> QED BY <1>1, <1>2, <1>3, <1>4, <1>6, <1>8, <1>9, AccountsToken

(* abort() runs action_fail and then abort_self().                          *)
LEMMA AccountsAbort ==
  ASSUME TypeOK, NamesOK, Accounts, NEW t \in Threads, Abort(t)
  PROVE  Accounts'
<1> DEFINE o == Head(stack[t])
           p == Op("aself", o.ev, o.arg)
           a == ActionOps(o.ev, p)
<1>1. /\ UNCHANGED <<waitCount, chain, deps, owed, kind, status, started, queued>>
      /\ Continue(t, a) /\ At(t, "abort")
  BY DEF Abort, graphVars, deviceVars, identVars
<1>2. /\ stack[t] # << >> /\ o.op = "abort" /\ o.ev \in Events /\ o.arg \in Nat
      /\ CausedAbort(o) /\ o.ev <= nev
  BY <1>1, HeadTrigger DEF EventOps
<1>3. p.op = "aself" /\ p.ev = o.ev /\ p.arg = o.arg
  BY OpIsOp
<1>4. CausedTrigger(p) /\ CausedAbort(p) /\ (Holds(p) => SameTrigger(o, p))
  BY <1>2, <1>3 DEF CausedTrigger, CausedAbort, SameTrigger, Holds
<1>5. /\ a \in Seq(Ops) /\ a[Len(a)] = p
      /\ \A j \in 1..Len(a) : j # Len(a) => a[j] \in QuietOps
  BY <1>2, CallbackShape
<1> HIDE DEF p, o, a
<1>6. Head(stack[t]).op # "dec" /\ (Holds(p) => SameTrigger(Head(stack[t]), p))
  BY <1>2, <1>4 DEF o
<1> QED BY <1>1, <1>2, <1>3, <1>4, <1>5, <1>6, AccountsToken

(* The application has one thread, and no calls that overlap, or serialises *)
(* its calls of clSetUserEventStatus per event.                             *)
OneThread == \A t, u \in Threads : t = u
Serialised == ExclusiveSet \/ OneThread

(* The call of clSetUserEventStatus, when no other call on the event is     *)
(* under way.                                                               *)
LEMMA AccountsSetCall ==
  ASSUME TypeOK, NamesOK, Accounts, NEW t \in Threads, Serialised,
         NEW e \in published, NEW how \in {"complete", "fail"}, ClSetUserEventStatus(t, e, how)
  PROVE  Accounts'
<1> DEFINE p == Op(how, e, 0)
<1>0. /\ UNCHANGED <<waitCount, chain, deps, owed, kind, status, started, queued>>
      /\ stack[t] = << >> /\ stack' = [stack EXCEPT ![t] = <<p>>]
      /\ ExclusiveSet => ~BeingSet(e)
  BY DEF ClSetUserEventStatus, Call, graphVars, deviceVars, identVars
<1>1. /\ UNCHANGED <<waitCount, chain, deps, owed, kind, status, started, queued>>
      /\ stack[t] = << >> /\ stack' = [stack EXCEPT ![t] = <<p>>]
      /\ ~BeingSet(e)
  <2>1. OneThread => ~BeingSet(e)
    BY <1>0 DEF OneThread, BeingSet
  <2> QED BY <1>0, <2>1 DEF Serialised
<1>2. p \in Ops /\ p.op \in {"complete", "fail"} /\ p.ev = e /\ p.arg = 0
  BY OpIsOp DEF EventOps, TypeOK
<1> HIDE DEF p
<1>3. <<p>> \in Seq(Ops) /\ Len(<<p>>) = 1 /\ <<p>>[1] = p
  BY <1>2
<1>4. Shift(t, 1, 1) /\ stack'[t] = <<p>> /\ DOMAIN stack'[t] = 1..1
  BY <1>1, <1>3, CallIsShift
<1>5. ASSUME NEW k \in DOMAIN stack'[t], k <= 1
      PROVE  k = 1 /\ stack'[t][k] = p
  BY <1>3, <1>4, <1>5
<1>6. ASSUME NEW u \in Threads, NEW l \in DOMAIN stack'[u], ~(u = t /\ l <= 1)
      PROVE  ~SameTrigger(p, stack'[u][l])
  <2>1. \E j \in DOMAIN stack[u] : stack'[u][l] = stack[u][j]
    BY <1>4, <1>6, ShiftOrigin
  <2> QED BY <1>1, <1>2, <2>1 DEF BeingSet, SameTrigger
<1>7. CausedTrigger(p) /\ CausedAbort(p)
  BY <1>2 DEF CausedTrigger, CausedAbort
<1>8. TriggerOK' /\ AbortOK' /\ TriggerUnique' /\ PendingOK'
  <2>1. TriggerOK /\ AbortOK /\ TriggerUnique /\ PendingOK
    BY DEF Accounts
  <2>2. UNCHANGED <<waitCount, deps, owed, kind, status>>
    BY <1>1
  <2>3. \A k \in DOMAIN stack'[t] : k <= 1 =>
           /\ k = 1
           /\ stack'[t][k].op \notin {"chain", "seq"}
           /\ CausedTrigger(stack'[t][k]) /\ CausedAbort(stack'[t][k])
           /\ \A u \in Threads : \A l \in DOMAIN stack'[u] :
                ~(u = t /\ l <= 1) => ~SameTrigger(stack'[t][k], stack'[u][l])
    BY <1>2, <1>5, <1>6, <1>7
  <2> QED BY <1>4, <2>1, <2>2, <2>3, TokenShift
<1>9. SequenceOK' /\ StartedOnceOK'
  <2>1. \A k \in DOMAIN stack'[t] :
          k <= 1 => stack'[t][k].op \notin {"chain", "seq", "trig", "act"}
    BY <1>2, <1>5
  <2>2. SequenceOK'
    BY <1>1, <1>4, <2>1, SequenceShift DEF Accounts
  <2>3. StartedOnceOK'
    BY <1>1, <1>4, <2>1, StartedOnceShift DEF Accounts
  <2> QED BY <2>2, <2>3
<1>10. CountingOK'
  BY <1>1, <1>4, CountingShift DEF Accounts
<1>11. /\ CountOK' /\ ReleasedOK' /\ ChainOK' /\ StuckOK' /\ StartedOK'
       /\ QueueLinked' /\ QueueInOrder'
  BY <1>1, GraphKept, StartedKept, QueuesKept DEF Accounts
<1> QED BY <1>8, <1>9, <1>10, <1>11 DEF Accounts

(* A thread about to run the action of an event holds the last trigger of   *)
(* it, and the event has not been aborted.                                  *)
LEMMA LastTrigger ==
  ASSUME TypeOK, NamesOK, Accounts, NEW t \in Threads, At(t, "act")
  PROVE  LET o == Head(stack[t]) IN
         /\ owed[o.ev] = {o.arg}
         /\ o.arg # 0 => Signalled(deps[o.ev][o.arg])
         /\ status[o.ev] = 0
         /\ \A d \in Events : \A k \in DOMAIN chain[d] : chain[d][k][1] # o.ev
<1> DEFINE o == Head(stack[t])
           e == o.ev
<1>1. o.op = "act" /\ e \in Events /\ o.arg \in Nat /\ CausedTrigger(o)
  BY HeadTrigger DEF EventOps
<1>2. /\ owed[e] = {o.arg}
      /\ o.arg # 0 => Signalled(deps[e][o.arg])
      /\ (o.arg = 0 /\ kind[e] = "user") => status[e] = 0
  BY <1>1 DEF CausedTrigger
<1> HIDE DEF o
<1>3. deps[e] \in Seq(Events) /\ \A i \in DOMAIN deps[e] : deps[e][i] \in Events /\ i # 0
  BY <1>1 DEF TypeOK
<1>4. status[e] = 0
  <2>1. SUFFICES ASSUME status[e] # 0 PROVE FALSE
    OBVIOUS
  <2>2. IF o.arg = 0 THEN kind[e] = "user"
        ELSE o.arg \in DOMAIN deps[e] /\ status[deps[e][o.arg]] # 0
    BY <1>1, <1>2, <2>1 DEF Accounts, StuckOK
  <2>3. o.arg # 0
    BY <1>2, <2>1, <2>2
  <2> QED BY <1>2, <1>3, <2>2, <2>3, AbortedUnsignalled DEF Accounts
<1>5. ASSUME NEW d \in Events, NEW k \in DOMAIN chain[d], chain[d][k][1] = e
      PROVE  FALSE
  <2>1. /\ chain[d][k][2] \in DOMAIN deps[e] /\ chain[d][k][2] \in owed[e]
        /\ deps[e][chain[d][k][2]] = d /\ ~Signalled(d)
    BY <1>5 DEF Accounts, ChainOK
  <2>2. chain[d][k][2] = o.arg /\ o.arg # 0
    BY <1>2, <1>3, <2>1
  <2> QED BY <1>2, <2>1, <2>2
<1> QED BY <1>2, <1>4, <1>5 DEF o

(* Running the action: the counting step that follows is the only operation *)
(* left that stands for a trigger of the event.                             *)
LEMMA AccountsAct ==
  ASSUME TypeOK, NamesOK, Accounts, NEW t \in Threads, Act(t)
  PROVE  Accounts'
<1> DEFINE o == Head(stack[t])
           e == o.ev
           p == Op("dec", e, o.arg)
           a == ActionOps(e, p)
           m == Len(a)
<1>1. /\ UNCHANGED <<waitCount, chain, deps, owed, kind, status, queued>>
      /\ started' = [started EXCEPT ![e] = started[e] + 1]
      /\ Continue(t, a) /\ At(t, "act")
  BY DEF Act, graphVars, deviceVars, identVars
<1>2. /\ stack[t] # << >> /\ o.op = "act" /\ e \in Events /\ o.arg \in Nat /\ e <= nev
      /\ CausedTrigger(o) /\ started[e] = 0
  BY <1>1, HeadTrigger DEF EventOps
<1>3. /\ owed[e] = {o.arg}
      /\ o.arg # 0 => Signalled(deps[e][o.arg])
      /\ status[e] = 0
      /\ \A d \in Events : \A k \in DOMAIN chain[d] : chain[d][k][1] # e
  BY <1>1, LastTrigger
<1>4. p.op = "dec" /\ p.ev = e /\ p.arg = o.arg
  BY OpIsOp
<1>5. /\ a \in Seq(Ops) /\ m \in Nat /\ m >= 1 /\ a[m] = p
      /\ \A j \in 1..m : j # m => a[j] \in QuietOps
      /\ kind[e] # "cb" => m = 1
  BY <1>2, CallbackShape
<1> HIDE DEF p, a, m, e, o
<1>6. CausedTrigger(p) /\ CausedAbort(p) /\ SameTrigger(o, p)
  BY <1>2, <1>4 DEF CausedTrigger, CausedAbort, SameTrigger, Holds, e
<1>7. /\ Shift(t, m, m - 1) /\ m - 1 \in Int
      /\ \A k \in 1..m : k \in DOMAIN stack'[t] /\ stack'[t][k] = a[k]
      /\ stack' \in [Threads -> Seq(Ops)]
  BY <1>1, <1>2, <1>5, ContinueIsShift DEF m, Shift
<1>8. ASSUME NEW k \in DOMAIN stack'[t], k <= m
      PROVE  k \in 1..m /\ stack'[t][k] = a[k]
  BY <1>5, <1>7, <1>8
<1>9. ASSUME NEW u \in Threads, NEW l \in DOMAIN stack'[u], ~(u = t /\ l <= m)
      PROVE  ~SameTrigger(o, stack'[u][l])
  BY <1>1, <1>2, <1>5, <1>9, HeadGone DEF Accounts, m, o
<1>10. TriggerOK' /\ AbortOK' /\ TriggerUnique' /\ PendingOK'
  <2>1. TriggerOK /\ AbortOK /\ TriggerUnique /\ PendingOK
    BY DEF Accounts
  <2>2. UNCHANGED <<waitCount, deps, owed, kind, status>>
    BY <1>1
  <2>3. ASSUME NEW k \in DOMAIN stack'[t], k <= m
        PROVE  \/ stack'[t][k] \in QuietOps
               \/ /\ k = m
                  /\ stack'[t][k].op \notin {"chain", "seq"}
                  /\ CausedTrigger(stack'[t][k]) /\ CausedAbort(stack'[t][k])
                  /\ \A u \in Threads : \A l \in DOMAIN stack'[u] :
                       ~(u = t /\ l <= m) => ~SameTrigger(stack'[t][k], stack'[u][l])
    <3>1. k \in 1..m /\ stack'[t][k] = a[k]
      BY <1>8, <2>3
    <3>2. CASE k # m
      BY <1>5, <3>1, <3>2
    <3>3. CASE k = m
      <4>1. stack'[t][k] = p
        BY <1>5, <3>1, <3>3
      <4>2. ASSUME NEW u \in Threads, NEW l \in DOMAIN stack'[u], ~(u = t /\ l <= m)
            PROVE  ~SameTrigger(p, stack'[u][l])
        BY <1>6, <1>9, <4>2 DEF SameTrigger
      <4> QED BY <1>4, <1>6, <3>3, <4>1, <4>2
    <3> QED BY <3>2, <3>3
  <2>4. Shift(t, m, m - 1)
    BY <1>7
  <2> QED BY <2>1, <2>2, <2>3, <2>4, TokenShift
<1>11. \A k \in DOMAIN stack'[t] : k <= m => stack'[t][k].op \notin {"chain", "seq", "trig", "act"}
  BY <1>4, <1>5, <1>8, QuietIsInert
<1>12. SequenceOK'
  BY <1>1, <1>7, <1>11, SequenceShift DEF Accounts
<1>13. ASSUME NEW u \in Threads, NEW k \in DOMAIN stack'[u], stack'[u][k].ev = e,
              stack'[u][k].op \in {"chain", "seq", "trig", "act"}
       PROVE  FALSE
  <2>1. ~(u = t /\ k <= m)
    BY <1>11, <1>13
  <2>2. PICK l \in DOMAIN stack'[u] : /\ ~(u = t /\ l <= m)
                                      /\ stack'[u][l].ev = e /\ stack'[u][l].op \in {"trig", "act"}
    <3>1. CASE stack'[u][k].op \in {"trig", "act"}
      BY <1>13, <2>1, <3>1
    <3>2. CASE stack'[u][k].op \in {"chain", "seq"}
      <4>1. PICK l \in DOMAIN stack'[u] : l > k /\ stack'[u][l] = Op("trig", e, 0)
        BY <1>10, <1>13, <3>2 DEF PendingOK, Op
      <4>2. ~(u = t /\ l <= m)
        <5>1. k \in Nat /\ l \in Nat
          BY <1>7
        <5> QED BY <1>5, <2>1, <4>1, <5>1
      <4> QED BY <4>1, <4>2, OpIsOp
    <3> QED BY <1>13, <3>1, <3>2
  <2>3. PICK j \in DOMAIN stack[u] : stack'[u][l] = stack[u][j]
    BY <1>7, <2>2, ShiftOrigin
  <2>4. stack'[u][l].arg = o.arg
    BY <1>3, <2>2, <2>3 DEF Accounts, TriggerOK, CausedTrigger
  <2>5. SameTrigger(o, stack'[u][l])
    BY <1>2, <2>2, <2>4 DEF SameTrigger, Holds, e
  <2> QED BY <1>9, <2>2, <2>5
<1>14. /\ started'[e] = 1
       /\ \A x \in Events : x # e => started'[x] = started[x]
  BY <1>1, <1>2 DEF TypeOK
<1>15. StartedOnceOK'
  <2>1. ASSUME NEW u \in Threads, NEW k \in DOMAIN stack'[u],
               stack'[u][k].op \in {"chain", "seq", "trig", "act"}
        PROVE  started'[stack'[u][k].ev] = 0
    <3>1. ~(u = t /\ k <= m)
      BY <1>11, <2>1
    <3>2. PICK j \in DOMAIN stack[u] : stack'[u][k] = stack[u][j]
      BY <1>7, <3>1, ShiftOrigin
    <3>3. started[stack'[u][k].ev] = 0
      BY <2>1, <3>2 DEF Accounts, StartedOnceOK
    <3>4. stack'[u][k] \in Ops
      BY <1>7
    <3>5. stack'[u][k].ev \in Events
      BY <2>1, <3>4, OpTypes DEF EventOps
    <3>6. stack'[u][k].ev # e
      BY <1>13, <2>1
    <3> QED BY <1>14, <3>3, <3>5, <3>6
  <2> QED BY <2>1 DEF StartedOnceOK
<1>16. StartedOK'
  <2>1. ASSUME NEW x \in Events, started'[x] # 0
        PROVE  /\ started'[x] = 1 /\ status[x] = 0
               /\ \A i \in owed[x] : i # 0 => Signalled(deps[x][i])
               /\ \A d \in Events : \A k \in DOMAIN chain[d] : chain[d][k][1] # x
    <3>1. CASE x = e
      BY <1>3, <1>14, <3>1
    <3>2. CASE x # e
      BY <1>14, <2>1, <3>2 DEF Accounts, StartedOK
    <3> QED BY <3>1, <3>2
  <2> QED BY <1>1, <2>1 DEF StartedOK, Signalled
<1>17. CountingOK'
  <2>1. ASSUME NEW x \in Events, started'[x] # 0, kind[x] = "user", owed[x] # {}
        PROVE  \E u \in Threads : stack'[u] # << >> /\ Head(stack'[u]) = Op("dec", x, 0)
    <3>1. CASE x = e
      <4>1. m = 1 /\ deps[e] = << >>
        BY <1>2, <1>5, <2>1, <3>1 DEF NamesOK
      <4>2. o.arg = 0
        <5>1. owed[e] \subseteq 0..0
          BY <1>2, <4>1 DEF Accounts, CountOK
        <5> QED BY <1>3, <5>1
      <4>3. 1 \in DOMAIN stack'[t] /\ stack'[t][1] = p
        BY <1>5, <1>7, <4>1
      <4>4. stack'[t] # << >> /\ Head(stack'[t]) = p
        BY <1>7, <4>3
      <4> QED BY <3>1, <4>2, <4>4 DEF p
    <3>2. CASE x # e
      <4>1. PICK u \in Threads : stack[u] # << >> /\ Head(stack[u]) = Op("dec", x, 0)
        BY <1>14, <2>1, <3>2 DEF Accounts, CountingOK
      <4>2. u # t
        BY <1>2, <4>1, OpIsOp DEF o
      <4> QED BY <1>7, <4>1, <4>2 DEF Shift
    <3> QED BY <3>1, <3>2
  <2> QED BY <1>1, <2>1 DEF CountingOK, Op
<1>18. CountOK' /\ ReleasedOK' /\ ChainOK' /\ StuckOK' /\ QueueLinked' /\ QueueInOrder'
  <2>1. CountOK' /\ ReleasedOK' /\ ChainOK' /\ StuckOK'
    <3>1. /\ CountOK /\ ReleasedOK /\ ChainOK /\ StuckOK
          /\ UNCHANGED <<waitCount, chain, deps, owed, kind, status>>
      BY <1>1 DEF Accounts
    <3> QED BY <3>1, GraphKept
  <2>2. QueueLinked /\ QueueInOrder /\ UNCHANGED <<waitCount, deps, queued>>
    BY <1>1 DEF Accounts
  <2>3. QueueLinked' /\ QueueInOrder'
    BY <2>2, QueuesKept, SMTT(30)
  <2> QED BY <2>1, <2>3
<1> QED BY <1>10, <1>12, <1>15, <1>16, <1>17, <1>18 DEF Accounts

(* What trigger_self() does: it consumes one owed trigger, and the last one *)
(* empties the chain into the triggers that follow.                         *)
LEMMA TriggerSelfShape ==
  ASSUME TypeOK, NamesOK, Accounts, NEW t \in Threads, TriggerSelf(t)
  PROVE  LET o == Head(stack[t])  e == o.ev  i == o.arg IN
         /\ stack[t] # << >> /\ o.op = "dec" /\ e \in Events /\ i \in Nat
         /\ i \in owed[e] /\ ~Signalled(e)
         /\ i # 0 => Signalled(deps[e][i])
         /\ (i = 0 /\ kind[e] = "user") => status[e] = 0
         /\ UNCHANGED <<deps, kind, status, started, queued>>
         /\ owed'[e] = owed[e] \ {i} /\ waitCount'[e] = waitCount[e] - 1
         /\ \A x \in Events : x # e => owed'[x] = owed[x] /\ waitCount'[x] = waitCount[x]
         /\ \A x \in Events : waitCount[x] = 0 => waitCount'[x] = 0
         /\ waitCount'[e] = 0 <=> owed[e] = {i}
         /\ \/ owed[e] = {i} /\ chain' = [chain EXCEPT ![e] = << >>] /\ Continue(t, Fire("trig", e))
            \/ owed[e] # {i} /\ chain' = chain /\ Continue(t, << >>)
<1> DEFINE o == Head(stack[t])
           e == o.ev
           i == o.arg
<1>1. /\ stack[t] # << >> /\ o.op = "dec" /\ e \in Events /\ i \in Nat /\ CausedTrigger(o)
  BY HeadTrigger DEF EventOps, TriggerSelf
<1>2. /\ i \in owed[e]
      /\ i # 0 => Signalled(deps[e][i])
      /\ (i = 0 /\ kind[e] = "user") => status[e] = 0
  BY <1>1 DEF CausedTrigger
<1>3. /\ ~Signalled(e) /\ waitCount[e] \in Nat /\ waitCount[e] # 0
      /\ waitCount[e] = 1 => owed[e] = {i}
      /\ owed[e] = {i} => waitCount[e] = 1
  <2>1. waitCount[e] >= 1 /\ waitCount[e] \in Nat /\ (waitCount[e] = 1 => owed[e] = {i})
        /\ Cardinality(owed[e] \ {i}) = waitCount[e] - 1
    BY <1>1, <1>2, OwedCount DEF Accounts
  <2>2. owed[e] = {i} => owed[e] \ {i} = {}
    OBVIOUS
  <2>3. owed[e] = {i} => waitCount[e] - 1 = 0
    BY <2>1, <2>2, FS_EmptySet
  <2> QED BY <2>1, <2>3 DEF Signalled
<1>4. Dec(waitCount[e]) = waitCount[e] - 1
  BY <1>3 DEF Dec
<1>5. /\ waitCount' = [waitCount EXCEPT ![e] = waitCount[e] - 1]
      /\ owed' = [owed EXCEPT ![e] = owed[e] \ {i}]
      /\ UNCHANGED <<deps, kind, status, started, queued>>
  BY <1>4 DEF TriggerSelf, graphVars, deviceVars, identVars
<1>6. /\ owed'[e] = owed[e] \ {i} /\ waitCount'[e] = waitCount[e] - 1
      /\ \A x \in Events : x # e => owed'[x] = owed[x] /\ waitCount'[x] = waitCount[x]
  BY <1>1, <1>5 DEF TypeOK
<1>7. waitCount[e] - 1 = 0 <=> owed[e] = {i}
  BY <1>3
<1>8. /\ chain' = IF waitCount[e] - 1 = 0 THEN [chain EXCEPT ![e] = << >>] ELSE chain
      /\ Continue(t, IF waitCount[e] - 1 = 0 THEN Fire("trig", e) ELSE << >>)
  BY <1>4 DEF TriggerSelf
<1>9. \A x \in Events : waitCount[x] = 0 => waitCount'[x] = 0
  BY <1>3, <1>6
<1> QED BY <1>1, <1>2, <1>3, <1>5, <1>6, <1>7, <1>8, <1>9

(* trigger_self() keeps the event graph and the queues accounted for.       *)
LEMMA TriggerSelfGraph ==
  ASSUME TypeOK, NamesOK, Accounts, NEW t \in Threads, TriggerSelf(t)
  PROVE  /\ CountOK' /\ ReleasedOK' /\ ChainOK' /\ StuckOK' /\ StartedOK'
         /\ QueueLinked' /\ QueueInOrder'
<1> DEFINE o == Head(stack[t])
           e == o.ev
           i == o.arg
<1>1. /\ e \in Events /\ i \in Nat /\ i \in owed[e] /\ ~Signalled(e)
      /\ i # 0 => Signalled(deps[e][i])
      /\ (i = 0 /\ kind[e] = "user") => status[e] = 0
      /\ UNCHANGED <<deps, kind, status, started, queued>>
      /\ owed'[e] = owed[e] \ {i} /\ waitCount'[e] = waitCount[e] - 1
      /\ \A x \in Events : x # e => owed'[x] = owed[x] /\ waitCount'[x] = waitCount[x]
      /\ \A x \in Events : waitCount[x] = 0 => waitCount'[x] = 0
      /\ waitCount'[e] = 0 <=> owed[e] = {i}
      /\ \/ owed[e] = {i} /\ chain' = [chain EXCEPT ![e] = << >>]
         \/ owed[e] # {i} /\ chain' = chain
  BY TriggerSelfShape
<1> HIDE DEF o, e, i
<1>2. ASSUME NEW x \in Events
      PROVE  /\ deps[x] \in Seq(Events)
             /\ \A j \in DOMAIN deps[x] : deps[x][j] \in Events /\ j # 0
             /\ owed'[x] \subseteq owed[x]
             /\ \A j \in owed[x] : j \notin owed'[x] => x = e /\ j = i
  <2>1. deps[x] \in Seq(Events)
    BY DEF TypeOK
  <2>2. \A j \in DOMAIN deps[x] : deps[x][j] \in Events /\ j # 0
    BY <2>1
  <2> QED BY <1>1, <2>1, <2>2
<1>3. ASSUME NEW d \in Events, NEW k \in DOMAIN chain'[d]
      PROVE  /\ k \in DOMAIN chain[d] /\ chain'[d] = chain[d]
             /\ d = e => owed[e] # {i}
  <2>1. CASE chain' = chain
    BY <1>1, <1>3, <2>1 DEF TypeOK
  <2>2. CASE chain' = [chain EXCEPT ![e] = << >>]
    <3>1. d # e
      BY <1>1, <1>3, <2>2 DEF TypeOK
    <3> QED BY <1>3, <2>2, <3>1 DEF TypeOK
  <2> QED BY <1>1, <2>1, <2>2
<1>4. CountOK'
  <2>1. ASSUME NEW x \in Events
        PROVE  /\ owed'[x] \subseteq 0..Len(deps[x]) /\ IsFiniteSet(owed'[x])
               /\ waitCount'[x] = Cardinality(owed'[x])
    <3>1. CASE x = e
      <4>1. IsFiniteSet(owed[e] \ {i}) /\ Cardinality(owed[e] \ {i}) = waitCount[e] - 1
        BY <1>1, OwedCount DEF Accounts
      <4>2. owed[e] \subseteq 0..Len(deps[e])
        BY <1>1 DEF Accounts, CountOK
      <4> QED BY <1>1, <3>1, <4>1, <4>2
    <3>2. CASE x # e
      BY <1>1, <3>2 DEF Accounts, CountOK
    <3> QED BY <3>1, <3>2
  <2> QED BY <1>1, <2>1 DEF CountOK
<1>5. ReleasedOK'
  <2>1. ASSUME NEW x \in Events, NEW j \in DOMAIN deps[x], j \notin owed'[x]
        PROVE  waitCount'[deps[x][j]] = 0
    <3>1. deps[x][j] \in Events /\ j # 0
      BY <1>2
    <3>2. Signalled(deps[x][j])
      <4>1. CASE j \notin owed[x]
        BY <4>1 DEF Accounts, ReleasedOK
      <4>2. CASE j \in owed[x]
        BY <1>1, <1>2, <2>1, <3>1, <4>2
      <4> QED BY <4>1, <4>2
    <3> QED BY <1>1, <3>1, <3>2 DEF Signalled
  <2> QED BY <1>1, <2>1 DEF ReleasedOK, Signalled
<1>6. ChainOK'
  <2>1. ASSUME NEW d \in Events, NEW k \in DOMAIN chain'[d]
        PROVE  LET x == chain'[d][k][1]  j == chain'[d][k][2] IN
               /\ j \in DOMAIN deps[x] /\ j \in owed'[x] /\ deps[x][j] = d
               /\ waitCount'[d] # 0
               /\ \A l \in DOMAIN chain'[d] : chain'[d][l] = chain'[d][k] => l = k
    <3> DEFINE x == chain[d][k][1]
               j == chain[d][k][2]
    <3>1. k \in DOMAIN chain[d] /\ chain'[d] = chain[d] /\ (d = e => owed[e] # {i})
      BY <1>3
    <3>2. /\ j \in DOMAIN deps[x] /\ j \in owed[x] /\ deps[x][j] = d
          /\ ~Signalled(d)
          /\ \A l \in DOMAIN chain[d] : chain[d][l] = chain[d][k] => l = k
      BY <3>1 DEF Accounts, ChainOK
    <3>3. x \in Events
      <4>1. chain[d] \in Seq(Events \X Nat)
        BY DEF TypeOK
      <4>2. chain[d][k] \in Events \X Nat
        BY <3>1, <4>1
      <4> QED BY <4>2
    <3>4. waitCount'[d] # 0
      BY <1>1, <3>1, <3>2 DEF Signalled
    <3>5. j \in owed'[x]
      <4>1. j # 0
        BY <1>2, <3>2, <3>3
      <4> QED BY <1>1, <1>2, <3>2, <3>3, <4>1
    <3> QED BY <3>1, <3>2, <3>4, <3>5
  <2> QED BY <1>1, <2>1 DEF ChainOK, Signalled
<1>7. StuckOK'
  <2>1. ASSUME NEW x \in Events, status[x] # 0
        PROVE  \E j \in owed'[x] : IF j = 0 THEN kind[x] = "user"
                                   ELSE j \in DOMAIN deps[x] /\ status[deps[x][j]] # 0
    <3>1. PICK j \in owed[x] : IF j = 0 THEN kind[x] = "user"
                               ELSE j \in DOMAIN deps[x] /\ status[deps[x][j]] # 0
      BY <2>1 DEF Accounts, StuckOK
    <3>2. j \in owed'[x]
      <4>1. SUFFICES ASSUME x = e, j = i PROVE FALSE
        BY <1>2
      <4>2. i # 0
        BY <1>1, <2>1, <3>1, <4>1
      <4>3. deps[e][i] \in Events /\ status[deps[e][i]] # 0 /\ Signalled(deps[e][i])
        BY <1>1, <1>2, <3>1, <4>1, <4>2
      <4> QED BY <4>3, AbortedUnsignalled DEF Accounts
    <3> QED BY <3>1, <3>2
  <2> QED BY <1>1, <2>1 DEF StuckOK
<1>8. StartedOK'
  <2>1. ASSUME NEW x \in Events, started[x] # 0
        PROVE  /\ started[x] = 1 /\ status[x] = 0
               /\ \A j \in owed'[x] : j # 0 => waitCount'[deps[x][j]] = 0
               /\ \A d \in Events : \A k \in DOMAIN chain'[d] : chain'[d][k][1] # x
    <3>1. /\ started[x] = 1 /\ status[x] = 0
          /\ \A j \in owed[x] : j # 0 => Signalled(deps[x][j])
          /\ \A d \in Events : \A k \in DOMAIN chain[d] : chain[d][k][1] # x
      BY <2>1 DEF Accounts, StartedOK
    <3>2. ASSUME NEW j \in owed'[x], j # 0
          PROVE  waitCount'[deps[x][j]] = 0
      <4>1. j \in owed[x] /\ owed[x] \subseteq 0..Len(deps[x])
        BY <1>2, <3>2 DEF Accounts, CountOK
      <4>2. j \in DOMAIN deps[x]
        BY <1>2, <3>2, <4>1
      <4>3. deps[x][j] \in Events /\ Signalled(deps[x][j])
        BY <1>2, <3>1, <3>2, <4>1, <4>2
      <4> QED BY <1>1, <4>3 DEF Signalled
    <3>3. \A d \in Events : \A k \in DOMAIN chain'[d] : chain'[d][k][1] # x
      BY <1>3, <3>1
    <3> QED BY <3>1, <3>2, <3>3
  <2> QED BY <1>1, <2>1 DEF StartedOK, Signalled
<1>9. QueueLinked'
  BY <1>1 DEF Accounts, QueueLinked
<1>10. QueueInOrder'
  <2>1. ASSUME NEW q \in Queues, NEW j \in DOMAIN queued[q], NEW k \in DOMAIN queued[q],
               j < k, waitCount'[queued[q][k]] = 0
        PROVE  waitCount'[queued[q][j]] = 0
    <3>0. /\ queued[q] \in Seq(Events) /\ j \in Nat /\ k \in Nat /\ j >= 1 /\ k <= Len(queued[q])
          /\ Len(queued[q]) \in Nat /\ DOMAIN queued[q] = 1..Len(queued[q])
          /\ queued[q][j] \in Events /\ queued[q][k] \in Events
      <4>1. queued[q] \in Seq(Events)
        BY DEF TypeOK
      <4> QED BY <4>1
    <3>1. CASE waitCount[queued[q][k]] = 0
      <4>1. waitCount[queued[q][j]] = 0
        BY <2>1, <3>1 DEF Accounts, QueueInOrder, Signalled
      <4> QED BY <1>1, <3>0, <4>1
    <3>2. CASE waitCount[queued[q][k]] # 0
      <4>1. queued[q][k] = e /\ owed[e] = {i} /\ owed'[e] = {}
        BY <1>1, <2>1, <3>0, <3>2
      <4>2. k > 1 /\ k - 1 \in DOMAIN queued[q] /\ k - 1 # k
        BY <2>1, <3>0
      <4>3. PICK l \in DOMAIN deps[e] : deps[e][l] = queued[q][k - 1]
        BY <4>1, <4>2 DEF Accounts, QueueLinked
      <4>4. waitCount'[queued[q][k - 1]] = 0
        BY <1>1, <1>5, <4>1, <4>3 DEF ReleasedOK, Signalled
      <4>5. queued[q][k - 1] # e /\ queued[q][k - 1] \in Events
        BY <3>0, <4>1, <4>2 DEF Accounts, QueueLinked
      <4>6. waitCount[queued[q][k - 1]] = 0
        BY <1>1, <4>4, <4>5
      <4>7. CASE j = k - 1
        BY <4>4, <4>7
      <4>8. CASE j # k - 1
        <5>1. j < k - 1
          BY <2>1, <3>0, <4>8
        <5>2. waitCount[queued[q][j]] = 0
          BY <4>2, <4>6, <5>1 DEF Accounts, QueueInOrder, Signalled
        <5> QED BY <1>1, <3>0, <5>2
      <4> QED BY <4>7, <4>8
    <3> QED BY <3>1, <3>2
  <2> QED BY <1>1, <2>1 DEF QueueInOrder, Signalled
<1> QED BY <1>4, <1>5, <1>6, <1>7, <1>8, <1>9, <1>10

(* trigger_self() and the loop over the chain: a trigger is neither lost    *)
(* nor doubled.                                                             *)
LEMMA AccountsTriggerSelf ==
  ASSUME TypeOK, NamesOK, Accounts, NEW t \in Threads, TriggerSelf(t)
  PROVE  Accounts'
<1> DEFINE o == Head(stack[t])
           e == o.ev
           i == o.arg
           a == IF owed[e] = {i} THEN Fire("trig", e) ELSE << >>
           m == Len(a)
<1>1. /\ stack[t] # << >> /\ o.op = "dec" /\ e \in Events /\ i \in Nat
      /\ i \in owed[e] /\ ~Signalled(e)
      /\ UNCHANGED <<deps, kind, status, started, queued>>
      /\ owed'[e] = owed[e] \ {i}
      /\ \A x \in Events : x # e => owed'[x] = owed[x] /\ waitCount'[x] = waitCount[x]
      /\ \A x \in Events : waitCount[x] = 0 => waitCount'[x] = 0
      /\ waitCount'[e] = 0 <=> owed[e] = {i}
      /\ Continue(t, a)
  BY TriggerSelfShape
<1>2. a \in Seq(Ops)
  <2>1. Fire("trig", e) \in Seq(Ops) /\ << >> \in Seq(Ops)
    BY <1>1, FireShape
  <2> QED BY <2>1
<1>3. ASSUME NEW k \in 1..m
      PROVE  /\ owed[e] = {i} /\ k \in DOMAIN chain[e]
             /\ chain[e][k][1] \in Events /\ chain[e][k][2] \in Nat
             /\ chain[e][k] = <<chain[e][k][1], chain[e][k][2]>>
             /\ a[k] = Op("trig", chain[e][k][1], chain[e][k][2])
  <2>1. CASE owed[e] = {i}
    BY <1>1, <2>1, FireShape
  <2>2. CASE owed[e] # {i}
    BY <2>2
  <2> QED BY <2>1, <2>2
<1> HIDE DEF a, m, i, e, o
<1>4. ASSUME NEW k \in 1..m
      PROVE  /\ a[k].op = "trig" /\ a[k].ev \in Events /\ a[k].arg \in Nat /\ a[k].arg # 0
             /\ a[k].ev # e
             /\ a[k].arg \in DOMAIN deps[a[k].ev] /\ a[k].arg \in owed[a[k].ev]
             /\ deps[a[k].ev][a[k].arg] = e
             /\ owed[e] = {i}
             /\ started[a[k].ev] = 0
             /\ \A l \in 1..m : (a[l].ev = a[k].ev /\ a[l].arg = a[k].arg) => l = k
  <2> DEFINE x == chain[e][k][1]
             j == chain[e][k][2]
  <2>1. a[k].op = "trig" /\ a[k].ev = x /\ a[k].arg = j /\ x \in Events /\ j \in Nat
        /\ owed[e] = {i} /\ k \in DOMAIN chain[e]
    BY <1>3, OpIsOp
  <2>2. j \in DOMAIN deps[x] /\ j \in owed[x] /\ deps[x][j] = e
        /\ \A l \in DOMAIN chain[e] : chain[e][l] = chain[e][k] => l = k
    BY <1>1, <2>1 DEF Accounts, ChainOK
  <2>3. j # 0
    <3>1. deps[x] \in Seq(Events)
      BY <2>1 DEF TypeOK
    <3> QED BY <2>2, <3>1
  <2>4. x # e
    <3>1. SUFFICES ASSUME x = e PROVE FALSE
      OBVIOUS
    <3>2. j = i /\ deps[e][i] = e
      BY <2>1, <2>2, <3>1
    <3>3. Signalled(deps[e][i])
      BY <2>3, <3>2, TriggerSelfShape DEF i, e, o
    <3> QED BY <1>1, <3>2, <3>3
  <2>5. started[x] = 0
    BY <1>1, <2>1 DEF Accounts, StartedOK
  <2>6. ASSUME NEW l \in 1..m, a[l].ev = x, a[l].arg = j
        PROVE  l = k
    <3>1. /\ chain[e][l] = <<chain[e][l][1], chain[e][l][2]>> /\ l \in DOMAIN chain[e]
          /\ a[l] = Op("trig", chain[e][l][1], chain[e][l][2])
          /\ chain[e][k] = <<x, j>>
      BY <1>3
    <3>2. chain[e][l] = chain[e][k]
      BY <2>6, <3>1, OpIsOp
    <3> QED BY <2>2, <3>1, <3>2
  <2> QED BY <2>1, <2>2, <2>3, <2>4, <2>5, <2>6
<1>5. /\ m \in Nat /\ Shift(t, m, m - 1) /\ m - 1 \in Int
      /\ \A k \in 1..m : k \in DOMAIN stack'[t] /\ stack'[t][k] = a[k]
      /\ stack' \in [Threads -> Seq(Ops)]
  BY <1>1, <1>2, ContinueIsShift DEF m, Shift
<1>6. ASSUME NEW k \in DOMAIN stack'[t], k <= m
      PROVE  k \in 1..m /\ stack'[t][k] = a[k]
  BY <1>5, <1>6
<1>7. ASSUME NEW u \in Threads, NEW l \in DOMAIN stack'[u], ~(u = t /\ l <= m)
      PROVE  /\ ~SameTrigger(o, stack'[u][l])
             /\ CausedTrigger(stack'[u][l]) /\ CausedAbort(stack'[u][l])
             /\ stack'[u][l] \in Ops
  <2>1. ~SameTrigger(o, stack'[u][l])
    BY <1>1, <1>2, <1>7, HeadGone DEF Accounts, m, o
  <2>2. PICK j \in DOMAIN stack[u] : stack'[u][l] = stack[u][j]
    BY <1>5, <1>7, ShiftOrigin
  <2> QED BY <1>5, <2>1, <2>2 DEF Accounts, TriggerOK, AbortOK
<1>8. TriggerOK'
  <2>1. ASSUME NEW u \in Threads, NEW k \in DOMAIN stack'[u],
               stack'[u][k].op \in {"trig", "act", "dec"}
        PROVE  LET p == stack'[u][k] IN
               /\ p.arg \in owed'[p.ev]
               /\ p.arg # 0 => waitCount'[deps[p.ev][p.arg]] = 0
               /\ (p.arg = 0 /\ kind[p.ev] = "user") => status[p.ev] = 0
               /\ p.op = "act" => owed'[p.ev] = {p.arg}
    <3> DEFINE p == stack'[u][k]
    <3>1. CASE u = t /\ k <= m
      BY <1>1, <1>4, <1>6, <3>1
    <3>2. CASE ~(u = t /\ k <= m)
      <4>1. /\ ~SameTrigger(o, p) /\ CausedTrigger(p) /\ p \in Ops
        BY <1>7, <3>2
      <4>2. p.ev \in Events /\ p.arg \in Nat
        BY <2>1, <4>1, OpTypes DEF EventOps
      <4>3. /\ p.arg \in owed[p.ev]
            /\ p.arg # 0 => Signalled(deps[p.ev][p.arg])
            /\ (p.arg = 0 /\ kind[p.ev] = "user") => status[p.ev] = 0
            /\ p.op = "act" => owed[p.ev] = {p.arg}
        BY <2>1, <4>1 DEF CausedTrigger
      <4>4. ~(p.ev = e /\ p.arg = i)
        BY <1>1, <2>1, <4>1 DEF SameTrigger, Holds, e, i
      <4>5. p.arg # 0 => deps[p.ev][p.arg] \in Events
        <5>1. deps[p.ev] \in Seq(Events) /\ p.arg \in 0..Len(deps[p.ev])
          BY <4>2, <4>3 DEF Accounts, CountOK, TypeOK
        <5> QED BY <4>2, <5>1
      <4>6. p.arg # 0 => waitCount'[deps[p.ev][p.arg]] = 0
        BY <1>1, <4>3, <4>5 DEF Signalled
      <4>7. CASE p.ev = e
        BY <1>1, <4>3, <4>4, <4>6, <4>7
      <4>8. CASE p.ev # e
        BY <1>1, <4>2, <4>3, <4>6, <4>8
      <4> QED BY <4>7, <4>8
    <3> QED BY <3>1, <3>2
  <2> QED BY <1>1, <2>1 DEF TriggerOK, CausedTrigger, Signalled
<1>9. AbortOK'
  <2>1. ASSUME NEW u \in Threads, NEW k \in DOMAIN stack'[u],
               stack'[u][k].op \in {"abort", "aself"}
        PROVE  LET p == stack'[u][k] IN
               IF p.arg = 0 THEN kind[p.ev] = "user" /\ 0 \in owed'[p.ev]
               ELSE p.arg \in DOMAIN deps[p.ev] /\ status[deps[p.ev][p.arg]] # 0
    <3> DEFINE p == stack'[u][k]
    <3>1. ~(u = t /\ k <= m)
      BY <1>4, <1>6, <2>1
    <3>2. ~SameTrigger(o, p) /\ CausedAbort(p) /\ p \in Ops
      BY <1>7, <3>1
    <3>3. p.ev \in Events
      BY <2>1, <3>2, OpTypes DEF EventOps
    <3>4. IF p.arg = 0 THEN kind[p.ev] = "user" /\ 0 \in owed[p.ev]
          ELSE p.arg \in DOMAIN deps[p.ev] /\ status[deps[p.ev][p.arg]] # 0
      BY <2>1, <3>2 DEF CausedAbort
    <3>5. ASSUME p.arg = 0, p.ev = e
          PROVE  i # 0
      BY <1>1, <2>1, <3>2, <3>5 DEF SameTrigger, Holds, e, i
    <3> HIDE DEF p
    <3>6. ASSUME p.arg = 0
          PROVE  0 \in owed'[p.ev]
      BY <1>1, <3>3, <3>4, <3>5, <3>6
    <3> QED BY <3>4, <3>6 DEF p
  <2> QED BY <1>1, <2>1 DEF AbortOK, CausedAbort
<1>10. TriggerUnique'
  <2>1. ASSUME NEW k \in DOMAIN stack'[t], NEW l \in DOMAIN stack'[t],
               k <= m, l <= m, SameTrigger(stack'[t][k], stack'[t][l])
        PROVE  k = l
    <3>1. k \in 1..m /\ l \in 1..m /\ stack'[t][k] = a[k] /\ stack'[t][l] = a[l]
      BY <1>6, <2>1
    <3> QED BY <1>4, <2>1, <3>1 DEF SameTrigger
  <2>2. ASSUME NEW k \in DOMAIN stack'[t], NEW u \in Threads, NEW l \in DOMAIN stack'[u],
               k <= m, ~(u = t /\ l <= m)
        PROVE  ~SameTrigger(stack'[t][k], stack'[u][l])
    <3>1. SUFFICES ASSUME SameTrigger(stack'[t][k], stack'[u][l]) PROVE FALSE
      OBVIOUS
    <3> DEFINE p == stack'[u][l]
    <3>2. k \in 1..m /\ stack'[t][k] = a[k]
      BY <1>6, <2>2
    <3>3. p.ev = a[k].ev /\ p.arg = a[k].arg /\ p.arg # 0 /\ Holds(p) /\ deps[p.ev][p.arg] = e
      BY <1>4, <3>1, <3>2 DEF SameTrigger
    <3>4. CausedTrigger(p)
      BY <1>7, <2>2
    <3>5. Signalled(e)
      BY <3>3, <3>4 DEF Holds, CausedTrigger
    <3> QED BY <1>1, <3>5
  <2>3. TriggerUnique /\ Shift(t, m, m - 1)
    BY <1>5 DEF Accounts
  <2> QED BY <2>1, <2>2, <2>3, UniqueShift
<1>11. \A k \in DOMAIN stack'[t] :
         k <= m => stack'[t][k].op = "trig" /\ started[stack'[t][k].ev] = 0
  BY <1>4, <1>6
<1>12. PendingOK' /\ SequenceOK' /\ StartedOnceOK'
  <2>1. PendingOK'
    BY <1>5, <1>11, PendingShift DEF Accounts
  <2>2. SequenceOK'
    BY <1>1, <1>5, <1>11, SequenceShift DEF Accounts
  <2>3. StartedOnceOK'
    BY <1>1, <1>5, <1>11, StartedOnceShift DEF Accounts
  <2> QED BY <2>1, <2>2, <2>3
<1>13. CountingOK'
  <2>1. ASSUME NEW x \in Events, started[x] # 0, kind[x] = "user", owed'[x] # {}
        PROVE  \E u \in Threads : stack'[u] # << >> /\ Head(stack'[u]) = Op("dec", x, 0)
    <3>1. x # e
      <4>1. SUFFICES ASSUME x = e PROVE FALSE
        OBVIOUS
      <4>2. owed[e] \subseteq 0..Len(deps[e]) /\ deps[e] = << >>
        BY <1>1, <2>1, <4>1 DEF Accounts, CountOK, NamesOK
      <4>3. owed[e] \subseteq {0}
        BY <4>2
      <4> QED BY <1>1, <2>1, <4>1, <4>3
    <3>2. PICK u \in Threads : stack[u] # << >> /\ Head(stack[u]) = Op("dec", x, 0)
      BY <1>1, <2>1, <3>1 DEF Accounts, CountingOK
    <3>3. u # t
      BY <3>1, <3>2, OpIsOp DEF e, o
    <3> QED BY <1>5, <3>2, <3>3 DEF Shift
  <2> QED BY <1>1, <2>1 DEF CountingOK, Op
<1> QED BY <1>8, <1>9, <1>10, <1>12, <1>13, TriggerSelfGraph DEF Accounts

(* An event that is about to be aborted still waits for the trigger that    *)
(* will never come, and its action has not run.                             *)
LEMMA AbortCause ==
  ASSUME TypeOK, NamesOK, Accounts, NEW t \in Threads, At(t, "aself")
  PROVE  LET o == Head(stack[t])  e == o.ev  i == o.arg IN
         /\ stack[t] # << >> /\ o.op = "aself" /\ e \in Events /\ i \in Nat
         /\ i \in owed[e] /\ started[e] = 0
         /\ IF i = 0 THEN kind[e] = "user"
            ELSE i \in DOMAIN deps[e] /\ status[deps[e][i]] # 0
<1> DEFINE o == Head(stack[t])
           e == o.ev
           i == o.arg
<1>1. /\ stack[t] # << >> /\ o.op = "aself" /\ e \in Events /\ i \in Nat /\ CausedAbort(o)
      /\ 1 \in DOMAIN stack[t] /\ o = stack[t][1]
  BY HeadTrigger DEF EventOps
<1>2. IF i = 0 THEN kind[e] = "user" /\ 0 \in owed[e]
      ELSE i \in DOMAIN deps[e] /\ status[deps[e][i]] # 0
  BY <1>1 DEF CausedAbort
<1> HIDE DEF o
<1>3. i # 0 => ~Signalled(deps[e][i])
  <2>1. deps[e] \in Seq(Events)
    BY <1>1 DEF TypeOK
  <2>2. i # 0 => deps[e][i] \in Events
    BY <1>2, <2>1
  <2> QED BY <1>2, <2>2, AbortedUnsignalled DEF Accounts
<1>4. i \in owed[e]
  BY <1>1, <1>2, <1>3 DEF Accounts, ReleasedOK
<1>5. started[e] = 0
  <2>1. SUFFICES ASSUME started[e] # 0 PROVE FALSE
    OBVIOUS
  <2>2. i = 0
    BY <1>1, <1>3, <1>4, <2>1 DEF Accounts, StartedOK
  <2>3. PICK u \in Threads : stack[u] # << >> /\ Head(stack[u]) = Op("dec", e, 0)
    BY <1>1, <1>2, <1>4, <2>1, <2>2 DEF Accounts, CountingOK
  <2>4. 1 \in DOMAIN stack[u] /\ stack[u][1] = Op("dec", e, 0)
    BY <2>3, HeadOp DEF TypeOK
  <2>5. SameTrigger(stack[u][1], stack[t][1])
    BY <1>1, <2>2, <2>4, OpIsOp DEF SameTrigger, Holds
  <2>6. u = t
    BY <1>1, <2>4, <2>5 DEF Accounts, TriggerUnique
  <2> QED BY <1>1, <2>4, <2>6, OpIsOp
<1> QED BY <1>1, <1>2, <1>4, <1>5 DEF o

(* abort_self() and the loop over the chain: the event and what depends on  *)
(* it stay stuck.                                                           *)
LEMMA AccountsAbortSelf ==
  ASSUME TypeOK, NamesOK, Accounts, NEW t \in Threads, AbortSelf(t)
  PROVE  Accounts'
<1> DEFINE o == Head(stack[t])
           e == o.ev
           i == o.arg
           a == Fire("abort", e)
           m == Len(a)
<1>1. /\ stack[t] # << >> /\ o.op = "aself" /\ e \in Events /\ i \in Nat
      /\ i \in owed[e] /\ started[e] = 0
      /\ IF i = 0 THEN kind[e] = "user"
         ELSE i \in DOMAIN deps[e] /\ status[deps[e][i]] # 0
  BY AbortCause DEF AbortSelf
<1>2. /\ UNCHANGED <<waitCount, deps, owed, kind, started, queued>>
      /\ status' = [status EXCEPT ![e] = -1]
      /\ chain' = [chain EXCEPT ![e] = << >>]
      /\ Continue(t, a)
  BY DEF AbortSelf, deviceVars, identVars
<1>3. /\ a \in Seq(Ops) /\ m \in Nat
      /\ \A k \in 1..m : /\ k \in DOMAIN chain[e]
                         /\ a[k] = Op("abort", chain[e][k][1], chain[e][k][2])
  BY <1>1, FireShape
<1> HIDE DEF a, m, i, e, o
<1>4. /\ status'[e] = -1 /\ chain'[e] = << >>
      /\ \A x \in Events : x # e => status'[x] = status[x] /\ chain'[x] = chain[x]
      /\ \A x \in Events : status[x] # 0 => status'[x] # 0
  BY <1>1, <1>2 DEF TypeOK
<1>5. ASSUME NEW k \in 1..m
      PROVE  /\ a[k].op = "abort" /\ a[k].arg # 0
             /\ a[k].arg \in DOMAIN deps[a[k].ev] /\ deps[a[k].ev][a[k].arg] = e
  <2> DEFINE x == chain[e][k][1]
             j == chain[e][k][2]
  <2>1. a[k].op = "abort" /\ a[k].ev = x /\ a[k].arg = j /\ k \in DOMAIN chain[e]
    BY <1>3, OpIsOp
  <2>2. j \in DOMAIN deps[x] /\ deps[x][j] = e
    BY <1>1, <2>1 DEF Accounts, ChainOK
  <2>3. x \in Events
    <3>1. chain[e] \in Seq(Events \X Nat)
      BY <1>1 DEF TypeOK
    <3>2. chain[e][k] \in Events \X Nat
      BY <2>1, <3>1
    <3> QED BY <3>2
  <2>4. j # 0
    <3>1. deps[x] \in Seq(Events)
      BY <2>3 DEF TypeOK
    <3> QED BY <2>2, <3>1
  <2> QED BY <2>1, <2>2, <2>4
<1>6. /\ Shift(t, m, m - 1) /\ m - 1 \in Int
      /\ \A k \in 1..m : k \in DOMAIN stack'[t] /\ stack'[t][k] = a[k]
      /\ stack' \in [Threads -> Seq(Ops)]
  BY <1>1, <1>2, <1>3, ContinueIsShift DEF m, Shift
<1>7. ASSUME NEW k \in DOMAIN stack'[t], k <= m
      PROVE  k \in 1..m /\ stack'[t][k] = a[k]
  BY <1>3, <1>6, <1>7
<1>8. ASSUME NEW u \in Threads, NEW l \in DOMAIN stack'[u], ~(u = t /\ l <= m)
      PROVE  /\ ~SameTrigger(o, stack'[u][l])
             /\ CausedTrigger(stack'[u][l]) /\ CausedAbort(stack'[u][l])
             /\ stack'[u][l] \in Ops
  <2>1. ~SameTrigger(o, stack'[u][l])
    BY <1>1, <1>2, <1>3, <1>8, HeadGone DEF Accounts, m, o
  <2>2. PICK j \in DOMAIN stack[u] : stack'[u][l] = stack[u][j]
    BY <1>6, <1>8, ShiftOrigin
  <2> QED BY <1>6, <2>1, <2>2 DEF Accounts, TriggerOK, AbortOK
<1>9. TriggerOK'
  <2>1. ASSUME NEW u \in Threads, NEW k \in DOMAIN stack'[u],
               stack'[u][k].op \in {"trig", "act", "dec"}
        PROVE  LET p == stack'[u][k] IN
               /\ p.arg \in owed[p.ev]
               /\ p.arg # 0 => waitCount[deps[p.ev][p.arg]] = 0
               /\ (p.arg = 0 /\ kind[p.ev] = "user") => status'[p.ev] = 0
               /\ p.op = "act" => owed[p.ev] = {p.arg}
    <3> DEFINE p == stack'[u][k]
    <3>1. ~(u = t /\ k <= m)
      BY <1>5, <1>7, <2>1
    <3>2. ~SameTrigger(o, p) /\ CausedTrigger(p) /\ p \in Ops
      BY <1>8, <3>1
    <3>3. p.ev \in Events
      BY <2>1, <3>2, OpTypes DEF EventOps
    <3>4. /\ p.arg \in owed[p.ev]
          /\ p.arg # 0 => Signalled(deps[p.ev][p.arg])
          /\ (p.arg = 0 /\ kind[p.ev] = "user") => status[p.ev] = 0
          /\ p.op = "act" => owed[p.ev] = {p.arg}
      BY <2>1, <3>2 DEF CausedTrigger
    <3>5. ASSUME p.arg = 0, kind[p.ev] = "user"
          PROVE  p.ev # e
      <4>1. SUFFICES ASSUME p.ev = e PROVE FALSE
        OBVIOUS
      <4>2. deps[e] = << >>
        BY <1>1, <3>5, <4>1 DEF NamesOK
      <4>3. i = 0
        BY <1>1, <4>2
      <4>4. SameTrigger(o, p)
        BY <1>1, <2>1, <3>5, <4>1, <4>3 DEF SameTrigger, Holds, e, i
      <4> QED BY <3>2, <4>4
    <3> QED BY <1>4, <3>3, <3>4, <3>5 DEF Signalled
  <2> QED BY <1>2, <2>1 DEF TriggerOK, CausedTrigger, Signalled
<1>10. AbortOK'
  <2>1. ASSUME NEW u \in Threads, NEW k \in DOMAIN stack'[u],
               stack'[u][k].op \in {"abort", "aself"}
        PROVE  LET p == stack'[u][k] IN
               IF p.arg = 0 THEN kind[p.ev] = "user" /\ 0 \in owed[p.ev]
               ELSE p.arg \in DOMAIN deps[p.ev] /\ status'[deps[p.ev][p.arg]] # 0
    <3> DEFINE p == stack'[u][k]
    <3>1. CASE u = t /\ k <= m
      BY <1>4, <1>5, <1>7, <3>1
    <3>2. CASE ~(u = t /\ k <= m)
      <4>1. CausedAbort(p) /\ p \in Ops
        BY <1>8, <3>2
      <4>2. p.ev \in Events
        BY <2>1, <4>1, OpTypes DEF EventOps
      <4>3. IF p.arg = 0 THEN kind[p.ev] = "user" /\ 0 \in owed[p.ev]
            ELSE p.arg \in DOMAIN deps[p.ev] /\ status[deps[p.ev][p.arg]] # 0
        BY <2>1, <4>1 DEF CausedAbort
      <4>4. deps[p.ev] \in Seq(Events)
        BY <4>2 DEF TypeOK
      <4>5. p.arg \in DOMAIN deps[p.ev] => deps[p.ev][p.arg] \in Events
        BY <4>4
      <4> QED BY <1>4, <4>3, <4>5
    <3> QED BY <3>1, <3>2
  <2> QED BY <1>2, <2>1 DEF AbortOK, CausedAbort
<1>11. TriggerUnique'
  <2>1. ASSUME NEW k \in DOMAIN stack'[t], k <= m
        PROVE  ~Holds(stack'[t][k])
    BY <1>5, <1>7, <2>1 DEF Holds
  <2>2. \A k, l \in DOMAIN stack'[t] :
          (k <= m /\ l <= m /\ SameTrigger(stack'[t][k], stack'[t][l])) => k = l
    BY <2>1 DEF SameTrigger
  <2>3. \A k \in DOMAIN stack'[t] : \A u \in Threads : \A l \in DOMAIN stack'[u] :
          (k <= m /\ ~(u = t /\ l <= m)) => ~SameTrigger(stack'[t][k], stack'[u][l])
    BY <2>1 DEF SameTrigger
  <2>4. TriggerUnique /\ Shift(t, m, m - 1)
    BY <1>6 DEF Accounts
  <2> QED BY <2>2, <2>3, <2>4, UniqueShift
<1>12. \A k \in DOMAIN stack'[t] : k <= m => stack'[t][k].op = "abort"
  BY <1>5, <1>7
<1>13. PendingOK' /\ SequenceOK' /\ StartedOnceOK' /\ CountingOK'
  <2>1. PendingOK'
    BY <1>6, <1>12, PendingShift DEF Accounts
  <2>2. SequenceOK'
    BY <1>2, <1>6, <1>12, SequenceShift DEF Accounts
  <2>3. StartedOnceOK'
    BY <1>2, <1>6, <1>12, StartedOnceShift DEF Accounts
  <2>4. CountingOK'
    <3>1. Head(stack[t]).op # "dec"
      BY <1>1 DEF o
    <3> QED BY <1>2, <1>6, <3>1, CountingShift DEF Accounts
  <2> QED BY <2>1, <2>2, <2>3, <2>4
<1>14. ASSUME NEW d \in Events, NEW k \in DOMAIN chain'[d]
       PROVE  d # e /\ chain'[d] = chain[d]
  <2>1. d # e
    BY <1>4, <1>14
  <2> QED BY <1>4, <2>1
<1>15. ChainOK'
  <2>1. ASSUME NEW d \in Events, NEW k \in DOMAIN chain'[d]
        PROVE  LET x == chain'[d][k][1]  j == chain'[d][k][2] IN
               /\ j \in DOMAIN deps[x] /\ j \in owed[x] /\ deps[x][j] = d
               /\ ~Signalled(d)
               /\ \A l \in DOMAIN chain'[d] : chain'[d][l] = chain'[d][k] => l = k
    <3>1. chain'[d] = chain[d] /\ k \in DOMAIN chain[d]
      BY <1>14, <2>1
    <3> QED BY <3>1 DEF Accounts, ChainOK
  <2> QED BY <1>2, <2>1 DEF ChainOK, Signalled
<1>16. StuckOK'
  <2>1. ASSUME NEW x \in Events, status'[x] # 0
        PROVE  \E j \in owed[x] : IF j = 0 THEN kind[x] = "user"
                                  ELSE j \in DOMAIN deps[x] /\ status'[deps[x][j]] # 0
    <3>1. deps[x] \in Seq(Events) /\ deps[e] \in Seq(Events)
      BY <1>1 DEF TypeOK
    <3>2. /\ \A j \in DOMAIN deps[x] : deps[x][j] \in Events
          /\ \A j \in DOMAIN deps[e] : deps[e][j] \in Events
      BY <3>1
    <3>3. CASE x = e
      BY <1>1, <1>4, <3>2, <3>3
    <3>4. CASE x # e
      <4>1. status[x] # 0
        BY <1>4, <2>1, <3>4
      <4>2. PICK j \in owed[x] : IF j = 0 THEN kind[x] = "user"
                                 ELSE j \in DOMAIN deps[x] /\ status[deps[x][j]] # 0
        BY <4>1 DEF Accounts, StuckOK
      <4> QED BY <1>4, <3>2, <4>2
    <3> QED BY <3>3, <3>4
  <2> QED BY <1>2, <2>1 DEF StuckOK
<1>17. StartedOK'
  <2>1. ASSUME NEW x \in Events, started[x] # 0
        PROVE  /\ started[x] = 1 /\ status'[x] = 0
               /\ \A j \in owed[x] : j # 0 => Signalled(deps[x][j])
               /\ \A d \in Events : \A k \in DOMAIN chain'[d] : chain'[d][k][1] # x
    <3>1. x # e
      BY <1>1, <2>1
    <3>2. /\ started[x] = 1 /\ status[x] = 0
          /\ \A j \in owed[x] : j # 0 => Signalled(deps[x][j])
          /\ \A d \in Events : \A k \in DOMAIN chain[d] : chain[d][k][1] # x
      BY <2>1 DEF Accounts, StartedOK
    <3> QED BY <1>4, <1>14, <3>1, <3>2
  <2> QED BY <1>2, <2>1 DEF StartedOK, Signalled
<1>18. CountOK' /\ ReleasedOK' /\ QueueLinked' /\ QueueInOrder'
  <2>1. CountOK'
    BY <1>2 DEF Accounts, CountOK
  <2>2. ReleasedOK'
    BY <1>2 DEF Accounts, ReleasedOK, Signalled
  <2> QED BY <1>2, <2>1, <2>2, QueuesKept DEF Accounts
<1> QED BY <1>9, <1>10, <1>11, <1>13, <1>15, <1>16, <1>17, <1>18 DEF Accounts

-----------------------------------------------------------------------------
(* The steps of a constructor.                                              *)

(* While an event's constructor runs, its own trigger is owed, so no other  *)
(* trigger can be taken for the last one.                                   *)
LEMMA ConstructorHead ==
  ASSUME TypeOK, NamesOK, Accounts, NEW t \in Threads, NEW n \in {"chain", "seq"}, At(t, n)
  PROVE  LET o == Head(stack[t])  e == o.ev IN
         /\ stack[t] # << >> /\ o.op = n /\ 1 \in DOMAIN stack[t] /\ o = stack[t][1]
         /\ e \in Events /\ e <= nev /\ kind[e] # "user"
         /\ 0 \in owed[e] /\ ~Signalled(e) /\ started[e] = 0
         /\ \A u \in Threads : \A k \in DOMAIN stack[u] :
              ~(stack[u][k].op = "act" /\ stack[u][k].ev = e)
<1> DEFINE o == Head(stack[t])
           e == o.ev
<1>1. /\ stack[t] # << >> /\ o.op = n /\ o \in Ops /\ OpOK(o) /\ started[e] = 0
      /\ 1 \in DOMAIN stack[t] /\ o = stack[t][1]
  BY HeadTrigger
<1>2. e \in Events /\ e <= nev /\ kind[e] # "user"
  BY <1>1, OpTypes DEF OpOK, Hard, EventOps
<1>3. PICK l \in DOMAIN stack[t] : stack[t][l] = Op("trig", e, 0)
  BY <1>1 DEF Accounts, PendingOK
<1> HIDE DEF o
<1>4. 0 \in owed[e] /\ CausedTrigger(stack[t][l])
  <2>1. CausedTrigger(stack[t][l])
    BY DEF Accounts, TriggerOK
  <2> QED BY <1>3, <2>1, OpIsOp DEF CausedTrigger
<1>5. ~Signalled(e)
  BY <1>2, <1>4, OwedCount DEF Accounts
<1>6. ASSUME NEW u \in Threads, NEW k \in DOMAIN stack[u],
             stack[u][k].op = "act", stack[u][k].ev = e
      PROVE  FALSE
  <2>1. owed[e] = {stack[u][k].arg}
    BY <1>6 DEF Accounts, TriggerOK, CausedTrigger
  <2>2. stack[u][k].arg = 0
    BY <1>4, <2>1
  <2>3. SameTrigger(stack[u][k], stack[t][l])
    BY <1>3, <1>6, <2>2, OpIsOp DEF SameTrigger, Holds
  <2>4. u = t /\ k = l
    BY <2>3 DEF Accounts, TriggerUnique
  <2> QED BY <1>3, <1>6, <2>4, OpIsOp
<1> QED BY <1>1, <1>2, <1>4, <1>5, <1>6 DEF o

(* The graph gains at most a dependency of e and a trigger owed for it.     *)
Extends(e) ==
  /\ \A x \in Events : x # e => deps'[x] = deps[x] /\ owed'[x] = owed[x]
  /\ \A i \in DOMAIN deps[e] : i \in DOMAIN deps'[e] /\ deps'[e][i] = deps[e][i]
  /\ owed[e] \subseteq owed'[e]
  /\ \A x \in Events : waitCount'[x] = 0 <=> waitCount[x] = 0

(* The operations on the stacks stay accounted for when the graph is only   *)
(* extended at the event of the constructor that steps.                     *)
LEMMA ExtendStack ==
  ASSUME TypeOK, NamesOK, Accounts, NEW t \in Threads, NEW n \in {"chain", "seq"}, At(t, n),
         Continue(t, << >>), Extends(Head(stack[t]).ev), UNCHANGED <<kind, status, started>>
  PROVE  /\ TriggerOK' /\ TriggerUnique' /\ AbortOK' /\ PendingOK'
         /\ StartedOnceOK' /\ CountingOK'
<1> DEFINE o == Head(stack[t])
           e == o.ev
<1>1. /\ stack[t] # << >> /\ o.op = n /\ e \in Events /\ kind[e] # "user"
      /\ \A u \in Threads : \A k \in DOMAIN stack[u] :
           ~(stack[u][k].op = "act" /\ stack[u][k].ev = e)
  BY ConstructorHead
<1>2. << >> \in Seq(Ops) /\ Len(<< >>) = 0
  OBVIOUS
<1>3. Shift(t, 0, -1) /\ stack' \in [Threads -> Seq(Ops)]
  <2>1. Shift(t, Len(<< >>), Len(<< >>) - 1)
    BY <1>1, <1>2, ContinueIsShift
  <2>2. 0 - 1 = -1
    OBVIOUS
  <2> QED BY <1>2, <2>1, <2>2 DEF Shift
<1>4. Extends(e)
  OBVIOUS
<1> HIDE DEF e, o
<1>5. ASSUME NEW x \in Events
      PROVE  /\ deps[x] \in Seq(Events) /\ owed[x] \subseteq owed'[x]
             /\ owed[x] \subseteq 0..Len(deps[x])
             /\ \A i \in DOMAIN deps[x] : /\ i \in DOMAIN deps'[x] /\ deps'[x][i] = deps[x][i]
                                          /\ deps[x][i] \in Events
  <2>1. deps[x] \in Seq(Events) /\ owed[x] \subseteq 0..Len(deps[x])
    BY DEF TypeOK, Accounts, CountOK
  <2>2. \A i \in DOMAIN deps[x] : deps[x][i] \in Events
    BY <2>1
  <2> QED BY <1>4, <2>1, <2>2 DEF Extends
<1>6. ASSUME NEW u \in Threads, NEW k \in DOMAIN stack'[u]
      PROVE  /\ ~(u = t /\ k <= 0) /\ \E j \in DOMAIN stack[u] : stack'[u][k] = stack[u][j]
             /\ stack'[u][k] \in Ops
             /\ CausedTrigger(stack'[u][k]) /\ CausedAbort(stack'[u][k])
  <2>1. k \in Nat /\ k >= 1 /\ stack'[u][k] \in Ops
    BY <1>3
  <2>2. ~(u = t /\ k <= 0)
    BY <2>1
  <2>3. PICK j \in DOMAIN stack[u] : stack'[u][k] = stack[u][j]
    BY <1>3, <2>2, ShiftOrigin
  <2> QED BY <2>1, <2>2, <2>3 DEF Accounts, TriggerOK, AbortOK
<1>7. TriggerOK'
  <2>1. ASSUME NEW u \in Threads, NEW k \in DOMAIN stack'[u],
               stack'[u][k].op \in {"trig", "act", "dec"}
        PROVE  LET p == stack'[u][k] IN
               /\ p.arg \in owed'[p.ev]
               /\ p.arg # 0 => waitCount'[deps'[p.ev][p.arg]] = 0
               /\ (p.arg = 0 /\ kind[p.ev] = "user") => status[p.ev] = 0
               /\ p.op = "act" => owed'[p.ev] = {p.arg}
    <3> DEFINE p == stack'[u][k]
    <3>1. p \in Ops /\ CausedTrigger(p)
      BY <1>6
    <3>2. p.ev \in Events /\ p.arg \in Nat
      BY <2>1, <3>1, OpTypes DEF EventOps
    <3>3. /\ p.arg \in owed[p.ev]
          /\ p.arg # 0 => Signalled(deps[p.ev][p.arg])
          /\ (p.arg = 0 /\ kind[p.ev] = "user") => status[p.ev] = 0
          /\ p.op = "act" => owed[p.ev] = {p.arg}
      BY <2>1, <3>1 DEF CausedTrigger
    <3>4. p.op = "act" => p.ev # e
      BY <1>1, <1>6
    <3> HIDE DEF p
    <3>5. p.arg # 0 => p.arg \in DOMAIN deps[p.ev]
      <4>1. deps[p.ev] \in Seq(Events) /\ p.arg \in 0..Len(deps[p.ev])
        BY <1>5, <3>2, <3>3
      <4> QED BY <3>2, <4>1
    <3>6. ASSUME p.arg # 0
          PROVE  waitCount'[deps'[p.ev][p.arg]] = 0
      <4>1. deps'[p.ev][p.arg] = deps[p.ev][p.arg] /\ deps[p.ev][p.arg] \in Events
        BY <1>5, <3>2, <3>5, <3>6
      <4> QED BY <1>4, <3>3, <3>6, <4>1 DEF Extends, Signalled
    <3>7. p.op = "act" => owed'[p.ev] = {p.arg}
      BY <1>4, <3>2, <3>3, <3>4 DEF Extends
    <3>8. p.arg \in owed'[p.ev]
      BY <1>5, <3>2, <3>3
    <3> QED BY <3>3, <3>6, <3>7, <3>8 DEF p
  <2> QED BY <2>1 DEF TriggerOK, CausedTrigger, Signalled
<1>8. AbortOK'
  <2>1. ASSUME NEW u \in Threads, NEW k \in DOMAIN stack'[u],
               stack'[u][k].op \in {"abort", "aself"}
        PROVE  LET p == stack'[u][k] IN
               IF p.arg = 0 THEN kind[p.ev] = "user" /\ 0 \in owed'[p.ev]
               ELSE p.arg \in DOMAIN deps'[p.ev] /\ status[deps'[p.ev][p.arg]] # 0
    <3> DEFINE p == stack'[u][k]
    <3>1. p \in Ops /\ CausedAbort(p)
      BY <1>6
    <3>2. p.ev \in Events
      BY <2>1, <3>1, OpTypes DEF EventOps
    <3>3. IF p.arg = 0 THEN kind[p.ev] = "user" /\ 0 \in owed[p.ev]
          ELSE p.arg \in DOMAIN deps[p.ev] /\ status[deps[p.ev][p.arg]] # 0
      BY <2>1, <3>1 DEF CausedAbort
    <3> HIDE DEF p
    <3> QED BY <1>5, <3>2, <3>3 DEF p
  <2> QED BY <2>1 DEF AbortOK, CausedAbort
<1>9. \A k \in DOMAIN stack'[t] : ~(k <= 0)
  BY <1>6
<1>10. TriggerUnique'
  BY <1>3, <1>9, UniqueShift DEF Accounts
<1>11. PendingOK' /\ StartedOnceOK'
  BY <1>3, <1>9, PendingShift, StartedOnceShift DEF Accounts
<1>12. CountingOK'
  <2>1. ASSUME NEW x \in Events, started[x] # 0, kind[x] = "user", owed'[x] # {}
        PROVE  \E u \in Threads : stack'[u] # << >> /\ Head(stack'[u]) = Op("dec", x, 0)
    <3>1. owed[x] # {}
      BY <1>1, <1>4, <2>1 DEF Extends
    <3>2. PICK u \in Threads : stack[u] # << >> /\ Head(stack[u]) = Op("dec", x, 0)
      BY <2>1, <3>1 DEF Accounts, CountingOK
    <3>3. u # t
      BY <1>1, <3>2, OpIsOp DEF o
    <3> QED BY <1>3, <3>2, <3>3 DEF Shift
  <2> QED BY <2>1 DEF CountingOK, Op
<1> QED BY <1>7, <1>8, <1>10, <1>11, <1>12

(* event::chain extends the graph of an event that is still being           *)
(* constructed and keeps it accounted for.                                  *)
LEMMA ChainToGraph ==
  ASSUME TypeOK, Accounts, NEW d \in Events, NEW e \in Events, ChainTo(d, e),
         ~Signalled(e), started[e] = 0, UNCHANGED <<kind, status, started>>
  PROVE  /\ Extends(e) /\ \E i \in DOMAIN deps'[e] : deps'[e][i] = d
         /\ CountOK' /\ ReleasedOK' /\ ChainOK' /\ StuckOK' /\ StartedOK'
<1> DEFINE n == Len(deps[e]) + 1
<1>1. /\ deps[e] \in Seq(Events) /\ Len(deps[e]) \in Nat /\ n \in Nat /\ n # 0
      /\ DOMAIN deps[e] = 1..Len(deps[e]) /\ n \notin DOMAIN deps[e]
  BY SMTT(30) DEF TypeOK
<1>2. deps' = [deps EXCEPT ![e] = Append(deps[e], d)]
  BY DEF ChainTo
<1>3. \/ /\ waitCount[d] # 0
         /\ waitCount' = [waitCount EXCEPT ![e] = waitCount[e] + 1]
         /\ chain' = [chain EXCEPT ![d] = Append(chain[d], <<e, n>>)]
         /\ owed' = [owed EXCEPT ![e] = owed[e] \cup {n}]
      \/ waitCount[d] = 0 /\ UNCHANGED <<waitCount, chain, owed>>
  BY DEF ChainTo
<1>4. /\ deps'[e] = Append(deps[e], d)
      /\ \A x \in Events : x # e => deps'[x] = deps[x]
  BY <1>2 DEF TypeOK
<1>5. /\ DOMAIN deps'[e] = 1..n /\ Len(deps'[e]) = n /\ deps'[e][n] = d
      /\ \A i \in DOMAIN deps[e] : deps'[e][i] = deps[e][i] /\ i \in 1..n
  BY <1>1, <1>4
<1> HIDE DEF n
<1>6. ASSUME NEW x \in Events
      PROVE  /\ x # e => owed'[x] = owed[x] /\ waitCount'[x] = waitCount[x]
             /\ owed[x] \subseteq owed'[x]
             /\ \A i \in owed'[x] : i \in owed[x] \/ (x = e /\ i = n /\ waitCount[d] # 0)
             /\ waitCount'[x] = 0 <=> waitCount[x] = 0
  <2>1. waitCount[e] \in Nat /\ waitCount[e] # 0
    BY DEF Signalled, TypeOK
  <2>2. CASE waitCount[d] = 0
    BY <1>3, <2>2
  <2>3. CASE waitCount[d] # 0
    <3>1. /\ waitCount' = [waitCount EXCEPT ![e] = waitCount[e] + 1]
          /\ owed' = [owed EXCEPT ![e] = owed[e] \cup {n}]
      BY <1>3, <2>3
    <3>2. waitCount'[e] = waitCount[e] + 1 /\ owed'[e] = owed[e] \cup {n}
          /\ (x # e => owed'[x] = owed[x] /\ waitCount'[x] = waitCount[x])
      BY <3>1 DEF TypeOK
    <3>3. waitCount'[e] # 0
      BY <2>1, <3>2
    <3> QED BY <2>1, <2>3, <3>2, <3>3
  <2> QED BY <2>2, <2>3
<1>7. Extends(e)
  BY <1>4, <1>5, <1>6 DEF Extends
<1>8. ASSUME NEW x \in Events
      PROVE  /\ deps[x] \in Seq(Events)
             /\ \A i \in DOMAIN deps[x] : /\ i # 0 /\ deps[x][i] \in Events
                                          /\ i \in DOMAIN deps'[x] /\ deps'[x][i] = deps[x][i]
             /\ \A i \in DOMAIN deps'[x] : i \in DOMAIN deps[x] \/ (x = e /\ i = n)
  <2>1. deps[x] \in Seq(Events)
    BY DEF TypeOK
  <2>2. \A i \in DOMAIN deps[x] : i # 0 /\ deps[x][i] \in Events
    BY <2>1
  <2>3. \A i \in DOMAIN deps'[e] : i \in DOMAIN deps[e] \/ i = n
    BY <1>1, <1>5 DEF n
  <2> QED BY <1>4, <1>5, <2>1, <2>2, <2>3
<1>9. CountOK'
  <2>1. ASSUME NEW x \in Events
        PROVE  /\ owed'[x] \subseteq 0..Len(deps'[x]) /\ IsFiniteSet(owed'[x])
               /\ waitCount'[x] = Cardinality(owed'[x])
    <3>0. /\ owed[x] \subseteq 0..Len(deps[x]) /\ IsFiniteSet(owed[x])
          /\ waitCount[x] = Cardinality(owed[x])
      BY DEF Accounts, CountOK
    <3>1. CASE x # e
      BY <1>4, <1>6, <3>0, <3>1
    <3>2. CASE x = e
      <4>1. owed[e] \subseteq 0..n /\ n \in 0..n /\ n \notin owed[e]
        BY <1>1, <3>0, <3>2 DEF n
      <4>2. CASE waitCount[d] = 0
        BY <1>3, <1>5, <3>0, <3>2, <4>1, <4>2
      <4>3. CASE waitCount[d] # 0
        <5>1. owed'[e] = owed[e] \cup {n} /\ waitCount'[e] = waitCount[e] + 1
          BY <1>3, <4>3 DEF TypeOK
        <5>2. IsFiniteSet(owed[e] \cup {n}) /\ Cardinality(owed[e] \cup {n}) = waitCount[e] + 1
          BY <4>1, OwedCount DEF Accounts
        <5> QED BY <1>5, <3>2, <4>1, <5>1, <5>2
      <4> QED BY <4>2, <4>3
    <3> QED BY <3>1, <3>2
  <2> QED BY <2>1 DEF CountOK
<1>10. ReleasedOK'
  <2>1. ASSUME NEW x \in Events, NEW i \in DOMAIN deps'[x], i \notin owed'[x]
        PROVE  waitCount'[deps'[x][i]] = 0
    <3>1. CASE i \in DOMAIN deps[x]
      <4>1. deps'[x][i] = deps[x][i] /\ deps[x][i] \in Events /\ i \notin owed[x]
        BY <1>6, <1>8, <2>1, <3>1
      <4>2. Signalled(deps[x][i])
        BY <3>1, <4>1 DEF Accounts, ReleasedOK
      <4> QED BY <1>6, <4>1, <4>2 DEF Signalled
    <3>2. CASE i \notin DOMAIN deps[x]
      <4>1. x = e /\ i = n
        BY <1>8, <3>2
      <4>2. waitCount[d] = 0
        <5>1. SUFFICES ASSUME waitCount[d] # 0 PROVE n \in owed'[e]
          BY <2>1, <4>1
        <5> QED BY <1>3, <5>1 DEF TypeOK
      <4> QED BY <1>5, <1>6, <4>1, <4>2
    <3> QED BY <3>1, <3>2
  <2> QED BY <2>1 DEF ReleasedOK, Signalled
<1>11. ChainOK'
  <2>1. ASSUME NEW c \in Events, NEW k \in DOMAIN chain[c]
        PROVE  LET x == chain[c][k][1]  j == chain[c][k][2] IN
               /\ j \in DOMAIN deps'[x] /\ j \in owed'[x] /\ deps'[x][j] = c
               /\ waitCount'[c] # 0
               /\ \A l \in DOMAIN chain[c] : chain[c][l] = chain[c][k] => l = k
               /\ chain[c][k] # <<e, n>>
    <3> DEFINE x == chain[c][k][1]
               j == chain[c][k][2]
    <3>1. /\ j \in DOMAIN deps[x] /\ j \in owed[x] /\ deps[x][j] = c
          /\ ~Signalled(c)
          /\ \A l \in DOMAIN chain[c] : chain[c][l] = chain[c][k] => l = k
      BY DEF Accounts, ChainOK
    <3>2. x \in Events
      <4>1. chain[c] \in Seq(Events \X Nat)
        BY DEF TypeOK
      <4>2. chain[c][k] \in Events \X Nat
        BY <4>1
      <4> QED BY <4>2
    <3>3. x = e => j # n
      BY <1>1, <3>1 DEF n
    <3>4. chain[c][k] # <<e, n>>
      BY <3>3
    <3>5. waitCount'[c] # 0
      BY <1>6, <3>1 DEF Signalled
    <3>6. j \in DOMAIN deps'[x] /\ j \in owed'[x] /\ deps'[x][j] = c
      BY <1>6, <1>8, <3>1, <3>2
    <3> QED BY <3>1, <3>4, <3>5, <3>6
  <2>2. CASE waitCount[d] = 0
    <3>1. chain' = chain
      BY <1>3, <2>2
    <3> QED BY <2>1, <3>1 DEF ChainOK, Signalled
  <2>3. CASE waitCount[d] # 0
    <3>1. chain' = [chain EXCEPT ![d] = Append(chain[d], <<e, n>>)]
      BY <1>3, <2>3
    <3>2. /\ chain'[d] = Append(chain[d], <<e, n>>)
          /\ \A c \in Events : c # d => chain'[c] = chain[c]
      BY <3>1 DEF TypeOK
    <3>3. chain[d] \in Seq(Events \X Nat)
      BY DEF TypeOK
    <3>4. /\ \A k \in DOMAIN chain[d] : chain'[d][k] = chain[d][k]
          /\ \A k \in DOMAIN chain'[d] : \/ k \in DOMAIN chain[d]
                                         \/ k = Len(chain[d]) + 1 /\ chain'[d][k] = <<e, n>>
      BY <3>2, <3>3
    <3>5. n \in DOMAIN deps'[e] /\ n \in owed'[e] /\ deps'[e][n] = d /\ waitCount'[d] # 0
      <4>1. n \in owed'[e]
        BY <1>3, <2>3 DEF TypeOK
      <4>2. n \in DOMAIN deps'[e]
        BY <1>1, <1>5
      <4> QED BY <1>5, <1>6, <2>3, <4>1, <4>2
    <3>6. ASSUME NEW c \in Events, NEW k \in DOMAIN chain'[c]
          PROVE  LET x == chain'[c][k][1]  j == chain'[c][k][2] IN
                 /\ j \in DOMAIN deps'[x] /\ j \in owed'[x] /\ deps'[x][j] = c
                 /\ waitCount'[c] # 0
                 /\ \A l \in DOMAIN chain'[c] : chain'[c][l] = chain'[c][k] => l = k
      <4>1. CASE c # d
        <5>1. chain'[c] = chain[c] /\ k \in DOMAIN chain[c]
          BY <3>2, <4>1
        <5> QED BY <2>1, <5>1
      <4>2. CASE c = d /\ k \in DOMAIN chain[d]
        <5>1. chain'[c][k] = chain[d][k]
          BY <3>4, <4>2
        <5>2. ASSUME NEW l \in DOMAIN chain'[c], chain'[c][l] = chain'[c][k]
              PROVE  l = k
          BY <2>1, <3>4, <4>2, <5>1, <5>2
        <5> QED BY <2>1, <4>2, <5>1, <5>2
      <4>3. CASE c = d /\ k \notin DOMAIN chain[d]
        <5>1. chain'[d][k] = <<e, n>> /\ k = Len(chain[d]) + 1
          BY <3>4, <4>3
        <5>2. <<e, n>>[1] = e /\ <<e, n>>[2] = n
          OBVIOUS
        <5>3. ASSUME NEW l \in DOMAIN chain'[c], chain'[c][l] = chain'[c][k]
              PROVE  l = k
          BY <2>1, <3>4, <4>3, <5>1, <5>3
        <5> QED BY <3>5, <4>3, <5>1, <5>2, <5>3
      <4> QED BY <4>1, <4>2, <4>3
    <3> QED BY <3>6 DEF ChainOK, Signalled
  <2> QED BY <2>2, <2>3
<1>12. StuckOK'
  <2>1. ASSUME NEW x \in Events, status[x] # 0
        PROVE  \E j \in owed'[x] : IF j = 0 THEN kind[x] = "user"
                                   ELSE j \in DOMAIN deps'[x] /\ status[deps'[x][j]] # 0
    <3>1. PICK j \in owed[x] : IF j = 0 THEN kind[x] = "user"
                               ELSE j \in DOMAIN deps[x] /\ status[deps[x][j]] # 0
      BY <2>1 DEF Accounts, StuckOK
    <3>2. j \in owed'[x] /\ (j # 0 => j \in DOMAIN deps'[x] /\ deps'[x][j] = deps[x][j])
      BY <1>6, <1>8, <3>1
    <3> QED BY <3>1, <3>2
  <2> QED BY <2>1 DEF StuckOK
<1>13. StartedOK'
  <2>1. ASSUME NEW x \in Events, started[x] # 0
        PROVE  /\ started[x] = 1 /\ status[x] = 0
               /\ \A j \in owed'[x] : j # 0 => waitCount'[deps'[x][j]] = 0
               /\ \A c \in Events : \A k \in DOMAIN chain'[c] : chain'[c][k][1] # x
    <3>1. x # e
      BY <2>1
    <3>2. /\ started[x] = 1 /\ status[x] = 0
          /\ \A j \in owed[x] : j # 0 => Signalled(deps[x][j])
          /\ \A c \in Events : \A k \in DOMAIN chain[c] : chain[c][k][1] # x
          /\ owed[x] \subseteq 0..Len(deps[x])
      BY <2>1 DEF Accounts, StartedOK, CountOK
    <3>3. ASSUME NEW j \in owed'[x], j # 0
          PROVE  waitCount'[deps'[x][j]] = 0
      <4>1. j \in owed[x] /\ deps'[x] = deps[x]
        BY <1>4, <1>6, <3>1
      <4>2. j \in DOMAIN deps[x]
        BY <1>8, <3>2, <3>3, <4>1
      <4>3. deps[x][j] \in Events /\ Signalled(deps[x][j])
        BY <1>8, <3>2, <3>3, <4>1, <4>2
      <4> QED BY <1>6, <4>1, <4>3 DEF Signalled
    <3>4. ASSUME NEW c \in Events, NEW k \in DOMAIN chain'[c]
          PROVE  chain'[c][k][1] # x
      <4>1. CASE waitCount[d] = 0 \/ c # d
        BY <1>3, <3>2, <4>1 DEF TypeOK
      <4>2. CASE waitCount[d] # 0 /\ c = d
        <5>1. chain'[d] = Append(chain[d], <<e, n>>)
          BY <1>3, <4>2 DEF TypeOK
        <5>2. chain[d] \in Seq(Events \X Nat)
          BY DEF TypeOK
        <5>3. (k \in DOMAIN chain[d] /\ chain'[d][k] = chain[d][k]) \/ chain'[d][k] = <<e, n>>
          BY <4>2, <5>1, <5>2
        <5> QED BY <3>1, <3>2, <4>2, <5>3
      <4> QED BY <4>1, <4>2
    <3> QED BY <3>2, <3>3, <3>4
  <2> QED BY <2>1 DEF StartedOK, Signalled
<1>14. n \in DOMAIN deps'[e]
  BY <1>1, <1>5
<1> QED BY <1>5, <1>7, <1>9, <1>10, <1>11, <1>12, <1>13, <1>14

(* A link between two events of a queue survives an extension of the graph. *)
LEMMA ExtendLinks ==
  ASSUME TypeOK, NEW e \in Events, Extends(e), NEW x \in Events, NEW d,
         \E i \in DOMAIN deps[x] : deps[x][i] = d
  PROVE  \E i \in DOMAIN deps'[x] : deps'[x][i] = d
<1>1. CASE x = e
  BY <1>1 DEF Extends
<1>2. CASE x # e
  BY <1>2 DEF Extends
<1> QED BY <1>1, <1>2

(* The constructor chains its event to one event of the wait list.          *)
LEMMA AccountsChain ==
  ASSUME TypeOK, NamesOK, Accounts, NEW t \in Threads, Chain(t)
  PROVE  Accounts'
<1> DEFINE o == Head(stack[t])
           e == o.ev
           d == o.arg
<1>1. /\ At(t, "chain") /\ ChainTo(d, e) /\ Continue(t, << >>)
      /\ UNCHANGED <<kind, status, started, queued>>
  BY DEF Chain, deviceVars, identVars
<1>2. /\ stack[t] # << >> /\ o.op = "chain" /\ e \in Events
      /\ ~Signalled(e) /\ started[e] = 0
  BY <1>1, ConstructorHead
<1>3. d \in Events
  BY <1>1, HeadTrigger, OpTypes
<1>4. Extends(e) /\ CountOK' /\ ReleasedOK' /\ ChainOK' /\ StuckOK' /\ StartedOK'
  BY <1>1, <1>2, <1>3, ChainToGraph
<1>5. TriggerOK' /\ TriggerUnique' /\ AbortOK' /\ PendingOK' /\ StartedOnceOK' /\ CountingOK'
  BY <1>1, <1>4, ExtendStack
<1> HIDE DEF o, e, d
<1>6. SequenceOK'
  <2>1. << >> \in Seq(Ops) /\ Len(<< >>) = 0
    OBVIOUS
  <2>2. Shift(t, 0, -1)
    <3>1. Shift(t, Len(<< >>), Len(<< >>) - 1)
      BY <1>1, <1>2, <2>1, ContinueIsShift
    <3>2. 0 - 1 = -1
      OBVIOUS
    <3> QED BY <2>1, <3>1, <3>2
  <2>3. \A k \in DOMAIN stack'[t] : ~(k <= 0)
    <3>1. stack' \in [Threads -> Seq(Ops)]
      BY <2>2 DEF Shift
    <3> QED BY <3>1
  <2> QED BY <1>1, <2>2, <2>3, SequenceShift DEF Accounts
<1>7. QueueLinked'
  <2>1. ASSUME NEW q \in Queues, NEW k \in DOMAIN queued[q]
        PROVE  /\ \A j \in DOMAIN queued[q] : queued[q][j] = queued[q][k] => j = k
               /\ k > 1 => \E i \in DOMAIN deps'[queued[q][k]] :
                             deps'[queued[q][k]][i] = queued[q][k - 1]
    <3>1. queued[q] \in Seq(Events)
      BY DEF TypeOK
    <3>2. queued[q][k] \in Events
      BY <3>1
    <3>3. /\ \A j \in DOMAIN queued[q] : queued[q][j] = queued[q][k] => j = k
          /\ k > 1 => \E i \in DOMAIN deps[queued[q][k]] :
                        deps[queued[q][k]][i] = queued[q][k - 1]
      BY DEF Accounts, QueueLinked
    <3> QED BY <1>2, <1>4, <3>2, <3>3, ExtendLinks
  <2> QED BY <1>1, <2>1 DEF QueueLinked
<1>8. QueueInOrder'
  <2>1. ASSUME NEW q \in Queues, NEW j \in DOMAIN queued[q], NEW k \in DOMAIN queued[q],
               j < k, waitCount'[queued[q][k]] = 0
        PROVE  waitCount'[queued[q][j]] = 0
    <3>1. queued[q] \in Seq(Events)
      BY DEF TypeOK
    <3>2. queued[q][k] \in Events /\ queued[q][j] \in Events
      BY <3>1
    <3> QED BY <1>4, <2>1, <3>2 DEF Extends, Accounts, QueueInOrder, Signalled
  <2> QED BY <1>1, <2>1 DEF QueueInOrder, Signalled
<1> QED BY <1>4, <1>5, <1>6, <1>7, <1>8 DEF Accounts

(* sequence() chains the event to the last one of its queue and appends it. *)
LEMMA AccountsSequence ==
  ASSUME TypeOK, NamesOK, Accounts, NEW t \in Threads, Sequence(t)
  PROVE  Accounts'
<1> DEFINE o == Head(stack[t])
           e == o.ev
           p == queue[e]
           n == Len(queued[p])
           d == queued[p][n]
<1>1. /\ At(t, "seq") /\ Continue(t, << >>)
      /\ IF queued[p] = << >> THEN UNCHANGED <<waitCount, chain, deps, owed>> ELSE ChainTo(d, e)
      /\ queued' = [queued EXCEPT ![p] = Append(queued[p], e)]
      /\ UNCHANGED <<kind, status, started>>
  BY DEF Sequence, graphVars, identVars
<1>2. /\ stack[t] # << >> /\ o.op = "seq" /\ e \in Events
      /\ ~Signalled(e) /\ started[e] = 0 /\ 1 \in DOMAIN stack[t] /\ o = stack[t][1]
  BY <1>1, ConstructorHead
<1>3. p \in Queues
  <2>1. Hard(e)
    BY <1>1, HeadTrigger DEF OpOK
  <2> QED BY <1>2, <2>1 DEF NamesOK
<1>4. /\ queued[p] \in Seq(Events) /\ n \in Nat /\ DOMAIN queued[p] = 1..n
      /\ queued[p] # << >> => n >= 1 /\ d \in Events
  <2>1. queued[p] \in Seq(Events)
    BY <1>3 DEF TypeOK
  <2> HIDE DEF p, e, o
  <2>2. n \in Nat /\ DOMAIN queued[p] = 1..n
    BY <2>1
  <2>3. queued[p] # << >> => n >= 1
    BY <2>1, <2>2, EmptySeq
  <2>4. n >= 1 => n \in 1..n /\ d \in Events
    BY <2>1, <2>2
  <2> QED BY <2>1, <2>2, <2>3, <2>4
<1>5. /\ Extends(e) /\ CountOK' /\ ReleasedOK' /\ ChainOK' /\ StuckOK' /\ StartedOK'
      /\ n >= 1 => \E i \in DOMAIN deps'[e] : deps'[e][i] = d
  <2>1. CASE queued[p] = << >>
    <3>1. Extends(e)
      BY <1>1, <2>1 DEF Extends
    <3>2. CountOK' /\ ReleasedOK' /\ ChainOK' /\ StuckOK' /\ StartedOK'
      BY <1>1, <2>1, GraphKept, StartedKept DEF Accounts
    <3>3. n = 0
      BY <2>1
    <3> QED BY <3>1, <3>2, <3>3
  <2>2. CASE queued[p] # << >>
    <3>1. ChainTo(d, e) /\ d \in Events
      BY <1>1, <1>4, <2>2
    <3>2. e \in Events /\ ~Signalled(e) /\ started[e] = 0 /\ UNCHANGED <<kind, status, started>>
      BY <1>1, <1>2
    <3> HIDE DEF o, e, p, n, d
    <3> QED BY <3>1, <3>2, ChainToGraph
  <2> QED BY <2>1, <2>2
<1>6. TriggerOK' /\ TriggerUnique' /\ AbortOK' /\ PendingOK' /\ StartedOnceOK' /\ CountingOK'
  BY <1>1, <1>5, ExtendStack
<1> HIDE DEF n, d
<1>7. /\ queued'[p] = Append(queued[p], e)
      /\ \A q \in Queues : q # p => queued'[q] = queued[q]
  <2>1. queued \in [Queues -> Seq(Events)] /\ queued' = [queued EXCEPT ![p] = Append(queued[p], e)]
    BY <1>1 DEF TypeOK
  <2> HIDE DEF o, e, p
  <2> QED BY <1>3, <2>1
<1>8. /\ DOMAIN queued'[p] = 1..(n + 1) /\ queued'[p][n + 1] = e
      /\ \A k \in 1..n : queued'[p][k] = queued[p][k]
  <2> DEFINE s == queued[p]
  <2>1. s \in Seq(Events) /\ e \in Events /\ queued'[p] = Append(s, e) /\ n = Len(s)
    BY <1>2, <1>4, <1>7 DEF n
  <2> HIDE DEF s, p, e, o
  <2>2. /\ DOMAIN queued'[p] = 1..(Len(s) + 1) /\ queued'[p][Len(s) + 1] = e
        /\ \A k \in 1..Len(s) : queued'[p][k] = s[k]
    BY <2>1
  <2> QED BY <2>1, <2>2 DEF s
<1>9. \A q \in Queues : \A j \in DOMAIN queued[q] : queued[q][j] # e
  BY <1>2 DEF Accounts, SequenceOK
<1> HIDE DEF o, e, p
<1>10. SequenceOK'
  <2>1. << >> \in Seq(Ops) /\ Len(<< >>) = 0
    OBVIOUS
  <2>2. Shift(t, 0, -1)
    <3>1. Shift(t, Len(<< >>), Len(<< >>) - 1)
      BY <1>1, <1>2, <2>1, ContinueIsShift
    <3>2. 0 - 1 = -1
      OBVIOUS
    <3> QED BY <2>1, <3>1, <3>2
  <2>3. ASSUME NEW u \in Threads, NEW k \in DOMAIN stack'[u]
        PROVE  /\ k \in Nat /\ Origin(t, -1, u, k) \in DOMAIN stack[u]
               /\ stack'[u][k] = stack[u][Origin(t, -1, u, k)]
               /\ ~(u = t /\ Origin(t, -1, u, k) = 1)
    <3>1. k \in Nat /\ k >= 1
      BY <2>2 DEF Shift
    <3>2. ~(u = t /\ k <= 0)
      BY <3>1
    <3>3. Origin(t, -1, u, k) \in DOMAIN stack[u] /\ stack'[u][k] = stack[u][Origin(t, -1, u, k)]
      BY <2>2, <3>2, ShiftBack
    <3>4. u = t => Origin(t, -1, u, k) # 1
      BY <3>1 DEF Origin
    <3> QED BY <3>1, <3>3, <3>4
  <2>4. ASSUME NEW u \in Threads, NEW k \in DOMAIN stack'[u], stack'[u][k].op = "seq"
        PROVE  /\ \A q \in Queues : \A j \in DOMAIN queued'[q] : queued'[q][j] # stack'[u][k].ev
               /\ \A v \in Threads : \A l \in DOMAIN stack'[v] :
                    (stack'[v][l].op = "seq" /\ stack'[v][l].ev = stack'[u][k].ev)
                      => v = u /\ l = k
    <3>1. stack'[u][k].ev # e
      BY <1>2, <2>3, <2>4 DEF Accounts, SequenceOK, e
    <3>2. \A q \in Queues : \A j \in DOMAIN queued[q] : queued[q][j] # stack'[u][k].ev
      BY <2>3, <2>4 DEF Accounts, SequenceOK
    <3>3. ASSUME NEW q \in Queues, NEW j \in DOMAIN queued'[q]
          PROVE  queued'[q][j] # stack'[u][k].ev
      <4>1. CASE q # p
        BY <1>7, <3>2, <4>1
      <4>2. CASE q = p
        <5>1. j \in 1..n \/ j = n + 1
          BY <1>4, <1>8, <4>2
        <5> QED BY <1>3, <1>4, <1>8, <3>1, <3>2, <4>2, <5>1
      <4> QED BY <4>1, <4>2
    <3>4. ASSUME NEW v \in Threads, NEW l \in DOMAIN stack'[v],
                 stack'[v][l].op = "seq", stack'[v][l].ev = stack'[u][k].ev
          PROVE  v = u /\ l = k
      <4>1. v = u /\ Origin(t, -1, v, l) = Origin(t, -1, u, k)
        BY <2>3, <2>4, <3>4 DEF Accounts, SequenceOK
      <4>2. k \in Nat /\ l \in Nat
        BY <2>3
      <4> QED BY <4>1, <4>2 DEF Origin
    <3> QED BY <3>3, <3>4
  <2> QED BY <2>4 DEF SequenceOK
<1>11. QueueLinked'
  <2>1. ASSUME NEW q \in Queues, NEW k \in DOMAIN queued[q]
        PROVE  /\ \A j \in DOMAIN queued[q] : queued[q][j] = queued[q][k] => j = k
               /\ k > 1 => \E i \in DOMAIN deps'[queued[q][k]] :
                             deps'[queued[q][k]][i] = queued[q][k - 1]
    <3>1. queued[q] \in Seq(Events)
      BY DEF TypeOK
    <3>2. queued[q][k] \in Events
      BY <3>1
    <3>3. /\ \A j \in DOMAIN queued[q] : queued[q][j] = queued[q][k] => j = k
          /\ k > 1 => \E i \in DOMAIN deps[queued[q][k]] :
                        deps[queued[q][k]][i] = queued[q][k - 1]
      BY DEF Accounts, QueueLinked
    <3> QED BY <1>2, <1>5, <3>2, <3>3, ExtendLinks
  <2>2. ASSUME NEW q \in Queues, NEW k \in DOMAIN queued'[q]
        PROVE  /\ \A j \in DOMAIN queued'[q] : queued'[q][j] = queued'[q][k] => j = k
               /\ k > 1 => \E i \in DOMAIN deps'[queued'[q][k]] :
                             deps'[queued'[q][k]][i] = queued'[q][k - 1]
    <3>1. CASE q # p
      <4>1. queued'[q] = queued[q] /\ k \in DOMAIN queued[q]
        BY <1>7, <3>1
      <4> QED BY <2>1, <4>1
    <3>2. CASE q = p
      <4>1. k \in 1..(n + 1)
        BY <1>8, <3>2
      <4>2. ASSUME NEW j \in DOMAIN queued'[p], queued'[p][j] = queued'[p][k]
            PROVE  j = k
        <5>1. (j \in 1..n \/ j = n + 1) /\ (k \in 1..n \/ k = n + 1)
          BY <1>4, <1>8, <3>2, <4>1
        <5>2. CASE j \in 1..n /\ k \in 1..n
          <6>1. queued[p][j] = queued[p][k] /\ j \in DOMAIN queued[p] /\ k \in DOMAIN queued[p]
            BY <1>4, <1>8, <4>2, <5>2
          <6> QED BY <1>3, <6>1 DEF Accounts, QueueLinked
        <5>3. CASE j \in 1..n /\ k = n + 1
          BY <1>3, <1>4, <1>8, <1>9, <4>2, <5>3
        <5>4. CASE j = n + 1 /\ k \in 1..n
          BY <1>3, <1>4, <1>8, <1>9, <4>2, <5>4
        <5> QED BY <5>1, <5>2, <5>3, <5>4
      <4>3. ASSUME k > 1
            PROVE  \E i \in DOMAIN deps'[queued'[p][k]] :
                     deps'[queued'[p][k]][i] = queued'[p][k - 1]
        <5>1. CASE k = n + 1
          <6>1. n >= 1 /\ k - 1 = n /\ n \in 1..n
            BY <1>4, <4>3, <5>1
          <6>2. queued'[p][k] = e /\ queued'[p][k - 1] = d
            BY <1>8, <5>1, <6>1 DEF d
          <6> QED BY <1>5, <6>1, <6>2
        <5>2. CASE k # n + 1
          <6>1. k \in 1..n /\ k - 1 \in 1..n
            BY <1>4, <4>1, <4>3, <5>2
          <6>2. queued'[p][k] = queued[p][k] /\ queued'[p][k - 1] = queued[p][k - 1]
            BY <1>8, <6>1
          <6> QED BY <1>3, <1>4, <2>1, <4>3, <6>1, <6>2
        <5> QED BY <5>1, <5>2
      <4> QED BY <3>2, <4>2, <4>3
    <3> QED BY <3>1, <3>2
  <2> QED BY <2>2 DEF QueueLinked
<1>12. QueueInOrder'
  <2>1. ASSUME NEW q \in Queues, NEW j \in DOMAIN queued'[q], NEW k \in DOMAIN queued'[q],
               j < k, waitCount'[queued'[q][k]] = 0
        PROVE  waitCount'[queued'[q][j]] = 0
    <3>1. j \in DOMAIN queued[q] /\ k \in DOMAIN queued[q]
          /\ queued'[q][j] = queued[q][j] /\ queued'[q][k] = queued[q][k]
      <4>1. CASE q # p
        BY <1>7, <4>1
      <4>2. CASE q = p
        <5>1. j \in 1..(n + 1) /\ k \in 1..(n + 1)
          BY <1>8, <4>2
        <5>2. k # n + 1
          BY <1>2, <1>5, <1>8, <2>1, <4>2 DEF Extends, Signalled
        <5>3. j \in 1..n /\ k \in 1..n
          BY <1>4, <2>1, <5>1, <5>2
        <5> QED BY <1>4, <1>8, <4>2, <5>3
      <4> QED BY <4>1, <4>2
    <3>2. queued[q] \in Seq(Events)
      BY DEF TypeOK
    <3>3. queued[q][k] \in Events /\ queued[q][j] \in Events
      BY <3>1, <3>2
    <3> QED BY <1>5, <2>1, <3>1, <3>3 DEF Extends, Accounts, QueueInOrder, Signalled
  <2> QED BY <2>1 DEF QueueInOrder, Signalled
<1> QED BY <1>5, <1>6, <1>10, <1>11, <1>12 DEF Accounts

-----------------------------------------------------------------------------
(* The calls that construct an event.                                       *)

(* The new event is one nobody names yet; everything else stays as it is.   *)
LEMMA NewEventShape ==
  ASSUME TypeOK, NamesOK, FreshOK, Accounts, NEW k, NEW q, NEW w, NewEvent(k, q, w)
  PROVE  LET x == nev + 1 IN
         /\ x \in Events /\ nev \in Nat
         /\ waitCount[x] = 0 /\ deps[x] = << >> /\ status[x] = 0 /\ started[x] = 0
         /\ waitCount'[x] = 1 /\ owed'[x] = {0} /\ kind'[x] = k
         /\ \A e \in Events : e # x => /\ waitCount'[e] = waitCount[e]
                                       /\ owed'[e] = owed[e] /\ kind'[e] = kind[e]
         /\ \A e \in Events : \A i \in DOMAIN deps[e] :
              deps[e][i] \in Events /\ deps[e][i] # x /\ i # 0
         /\ \A d \in Events : \A j \in DOMAIN chain[d] :
              d # x /\ chain[d][j][1] # x /\ chain[d][j][1] \in Events
         /\ \A p \in Queues : \A j \in DOMAIN queued[p] :
              queued[p][j] # x /\ queued[p][j] \in Events
         /\ \A u \in Threads : \A j \in DOMAIN stack[u] : stack[u][j].ev # x
<1> DEFINE x == nev + 1
<1>1. x \in Events /\ nev \in Nat /\ x > nev
  BY EventsAssumption DEF TypeOK, Events, NewEvent
<1>2. waitCount[x] = 0 /\ deps[x] = << >> /\ status[x] = 0 /\ started[x] = 0
  BY <1>1 DEF FreshOK
<1>3. /\ waitCount'[x] = 1 /\ owed'[x] = {0} /\ kind'[x] = k
      /\ \A e \in Events : e # x => /\ waitCount'[e] = waitCount[e]
                                    /\ owed'[e] = owed[e] /\ kind'[e] = kind[e]
  BY <1>1 DEF NewEvent, TypeOK
<1>4. \A y \in Events : y <= nev => y # x
  BY <1>1 DEF Events
<1> HIDE DEF x
<1>5. ASSUME NEW e \in Events, NEW i \in DOMAIN deps[e]
      PROVE  deps[e][i] \in Events /\ deps[e][i] # x /\ i # 0
  <2>1. deps[e] \in Seq(Events)
    BY DEF TypeOK
  <2>2. deps[e][i] \in Events /\ i # 0
    BY <2>1
  <2> QED BY <1>4, <2>2 DEF NamesOK
<1>6. ASSUME NEW d \in Events, NEW j \in DOMAIN chain[d]
      PROVE  d # x /\ chain[d][j][1] # x /\ chain[d][j][1] \in Events
  <2>1. chain[d] \in Seq(Events \X Nat)
    BY DEF TypeOK
  <2>2. chain[d][j] \in Events \X Nat
    BY <2>1
  <2>3. chain[d][j][1] \in Events /\ chain[d][j][1] <= nev
    BY <2>2 DEF NamesOK
  <2>4. ~Signalled(d)
    BY DEF Accounts, ChainOK
  <2> QED BY <1>2, <1>4, <2>3, <2>4 DEF Signalled
<1>7. ASSUME NEW p \in Queues, NEW j \in DOMAIN queued[p]
      PROVE  queued[p][j] # x /\ queued[p][j] \in Events
  <2>1. queued[p] \in Seq(Events)
    BY DEF TypeOK
  <2>2. queued[p][j] \in Events
    BY <2>1
  <2> QED BY <1>4, <2>2 DEF NamesOK
<1>8. ASSUME NEW u \in Threads, NEW j \in DOMAIN stack[u]
      PROVE  stack[u][j].ev # x
  <2>1. stack[u][j] \in Ops
    BY SeqDomain DEF TypeOK
  <2>2. stack[u][j].ev \in Nat /\ stack[u][j].ev <= nev
    BY <2>1, OpTypes DEF NamesOK, OpOK
  <2> QED BY <1>1, <2>2 DEF x
<1> QED BY <1>1, <1>2, <1>3, <1>5, <1>6, <1>7, <1>8 DEF x

(* A new event leaves the graph and the queues accounted for.               *)
LEMMA NewEventGraph ==
  ASSUME TypeOK, NamesOK, FreshOK, Accounts, NEW k, NEW q, NEW w, NewEvent(k, q, w),
         UNCHANGED <<chain, deps, queued, status, started>>
  PROVE  /\ CountOK' /\ ReleasedOK' /\ ChainOK' /\ StuckOK' /\ StartedOK'
         /\ QueueLinked' /\ QueueInOrder'
<1> DEFINE x == nev + 1
<1>1. /\ x \in Events
      /\ waitCount[x] = 0 /\ deps[x] = << >> /\ status[x] = 0 /\ started[x] = 0
      /\ waitCount'[x] = 1 /\ owed'[x] = {0}
      /\ \A e \in Events : e # x => /\ waitCount'[e] = waitCount[e]
                                    /\ owed'[e] = owed[e] /\ kind'[e] = kind[e]
      /\ \A e \in Events : \A i \in DOMAIN deps[e] :
           deps[e][i] \in Events /\ deps[e][i] # x /\ i # 0
      /\ \A d \in Events : \A j \in DOMAIN chain[d] :
           d # x /\ chain[d][j][1] # x /\ chain[d][j][1] \in Events
      /\ \A p \in Queues : \A j \in DOMAIN queued[p] :
           queued[p][j] # x /\ queued[p][j] \in Events
  BY NewEventShape
<1> HIDE DEF x
<1>2. CountOK'
  <2>1. ASSUME NEW e \in Events
        PROVE  /\ owed'[e] \subseteq 0..Len(deps[e]) /\ IsFiniteSet(owed'[e])
               /\ waitCount'[e] = Cardinality(owed'[e])
    <3>1. CASE e # x
      BY <1>1, <3>1 DEF Accounts, CountOK
    <3>2. CASE e = x
      <4>1. IsFiniteSet({0}) /\ Cardinality({0}) = 1
        BY FS_Singleton
      <4>2. {0} \subseteq 0..Len(deps[x])
        BY <1>1
      <4> QED BY <1>1, <3>2, <4>1, <4>2
    <3> QED BY <3>1, <3>2
  <2> QED BY <2>1 DEF CountOK
<1>3. ReleasedOK'
  <2>1. ASSUME NEW e \in Events, NEW i \in DOMAIN deps[e], i \notin owed'[e]
        PROVE  waitCount'[deps[e][i]] = 0
    <3>1. e # x
      BY <1>1
    <3>2. Signalled(deps[e][i])
      BY <1>1, <2>1, <3>1 DEF Accounts, ReleasedOK
    <3> QED BY <1>1, <3>2 DEF Signalled
  <2> QED BY <2>1 DEF ReleasedOK, Signalled
<1>4. ChainOK'
  <2>1. ASSUME NEW d \in Events, NEW j \in DOMAIN chain[d]
        PROVE  LET e == chain[d][j][1]  i == chain[d][j][2] IN
               /\ i \in DOMAIN deps[e] /\ i \in owed'[e] /\ deps[e][i] = d
               /\ waitCount'[d] # 0
               /\ \A l \in DOMAIN chain[d] : chain[d][l] = chain[d][j] => l = j
    <3>1. d # x /\ chain[d][j][1] # x /\ chain[d][j][1] \in Events
      BY <1>1
    <3>2. LET e == chain[d][j][1]  i == chain[d][j][2] IN
          /\ i \in DOMAIN deps[e] /\ i \in owed[e] /\ deps[e][i] = d
          /\ waitCount[d] # 0
          /\ \A l \in DOMAIN chain[d] : chain[d][l] = chain[d][j] => l = j
      BY DEF Accounts, ChainOK, Signalled
    <3> QED BY <1>1, <3>1, <3>2
  <2> QED BY <2>1 DEF ChainOK, Signalled
<1>5. StuckOK'
  <2>1. ASSUME NEW e \in Events, status[e] # 0
        PROVE  \E j \in owed'[e] : IF j = 0 THEN kind'[e] = "user"
                                   ELSE j \in DOMAIN deps[e] /\ status[deps[e][j]] # 0
    <3>1. e # x
      BY <1>1, <2>1
    <3>2. \E j \in owed[e] : IF j = 0 THEN kind[e] = "user"
                             ELSE j \in DOMAIN deps[e] /\ status[deps[e][j]] # 0
      BY <2>1 DEF Accounts, StuckOK
    <3> QED BY <1>1, <3>1, <3>2
  <2> QED BY <2>1 DEF StuckOK
<1>6. StartedOK'
  <2>1. ASSUME NEW e \in Events, started[e] # 0
        PROVE  /\ started[e] = 1 /\ status[e] = 0
               /\ \A j \in owed'[e] : j # 0 => waitCount'[deps[e][j]] = 0
               /\ \A d \in Events : \A j \in DOMAIN chain[d] : chain[d][j][1] # e
    <3>1. e # x
      BY <1>1, <2>1
    <3>2. /\ started[e] = 1 /\ status[e] = 0
          /\ \A j \in owed[e] : j # 0 => Signalled(deps[e][j])
          /\ \A d \in Events : \A j \in DOMAIN chain[d] : chain[d][j][1] # e
          /\ owed[e] \subseteq 0..Len(deps[e]) /\ deps[e] \in Seq(Events)
      BY <2>1 DEF Accounts, StartedOK, CountOK, TypeOK
    <3>3. ASSUME NEW j \in owed'[e], j # 0
          PROVE  waitCount'[deps[e][j]] = 0
      <4>1. j \in owed[e] /\ j \in DOMAIN deps[e]
        BY <1>1, <3>1, <3>2, <3>3
      <4>2. deps[e][j] \in Events /\ deps[e][j] # x
        BY <1>1, <4>1
      <4> QED BY <1>1, <3>2, <3>3, <4>1, <4>2 DEF Signalled
    <3> QED BY <3>2, <3>3
  <2> QED BY <2>1 DEF StartedOK, Signalled
<1>7. QueueLinked'
  BY DEF Accounts, QueueLinked
<1>8. QueueInOrder'
  <2>1. ASSUME NEW p \in Queues, NEW i \in DOMAIN queued[p], NEW j \in DOMAIN queued[p],
               i < j, waitCount'[queued[p][j]] = 0
        PROVE  waitCount'[queued[p][i]] = 0
    <3>1. waitCount[queued[p][j]] = 0
      BY <1>1, <2>1
    <3>2. waitCount[queued[p][i]] = 0
      BY <2>1, <3>1 DEF Accounts, QueueInOrder, Signalled
    <3> QED BY <1>1, <3>2
  <2> QED BY <2>1 DEF QueueInOrder, Signalled
<1> QED BY <1>2, <1>3, <1>4, <1>5, <1>6, <1>7, <1>8

(* A call that constructs an event, with the body its constructor leaves to *)
(* run or none (clCreateUserEvent).                                         *)
LEMMA AccountsNewEvent ==
  ASSUME TypeOK, NamesOK, FreshOK, Accounts, NEW t \in Threads, NEW k, NEW q, NEW w,
         NewEvent(k, q, w), UNCHANGED <<chain, deps, queued, status, started>>,
         stack[t] = << >>, NEW body \in Seq(Ops), stack' = [stack EXCEPT ![t] = body],
         body = << >> \/ (k # "user" /\ CtorBody(body, nev + 1, k))
  PROVE  Accounts'
<1> DEFINE x == nev + 1
           m == Len(body)
<1>1. /\ x \in Events /\ waitCount[x] = 0 /\ started[x] = 0
      /\ waitCount'[x] = 1 /\ owed'[x] = {0} /\ kind'[x] = k
      /\ \A e \in Events : e # x => /\ waitCount'[e] = waitCount[e]
                                    /\ owed'[e] = owed[e] /\ kind'[e] = kind[e]
      /\ \A e \in Events : \A i \in DOMAIN deps[e] : deps[e][i] \in Events /\ deps[e][i] # x
      /\ \A p \in Queues : \A j \in DOMAIN queued[p] : queued[p][j] # x
      /\ \A u \in Threads : \A j \in DOMAIN stack[u] : stack[u][j].ev # x
  BY NewEventShape
<1>2. /\ m \in Nat /\ Shift(t, m, m) /\ stack'[t] = body /\ DOMAIN stack'[t] = 1..m
      /\ stack' \in [Threads -> Seq(Ops)]
  <2>1. m \in Nat /\ Shift(t, m, m) /\ stack'[t] = body /\ DOMAIN stack'[t] = 1..m
    BY CallIsShift
  <2> QED BY <2>1 DEF Shift
<1>3. m = 0 \/ (k # "user" /\ CtorBody(body, x, k))
  <2>1. CASE body = << >>
    BY <2>1
  <2>2. CASE k # "user" /\ CtorBody(body, nev + 1, k)
    BY <2>2
  <2> QED BY <2>1, <2>2
<1> HIDE DEF x, m
<1>4. ASSUME NEW l \in 1..m
      PROVE  /\ body[l].ev = x /\ k # "user"
             /\ body[l].op \in {"chain", "seq", "trig", "wsig", "wait", "ret"}
             /\ body[l].op = "trig" => body[l].arg = 0
             /\ \A j \in 1..m : (body[l].op = body[j].op /\ body[l].op \in {"trig", "seq"}) => l = j
             /\ body[l].op \in {"chain", "seq"} =>
                  \E j \in 1..m : j > l /\ body[j] = Op("trig", x, 0)
  <2>1. CtorBody(body, x, k) /\ k # "user"
    BY <1>2, <1>3
  <2>2. PICK r \in 1..m :
          /\ body[r] = Op("trig", x, 0)
          /\ \A j \in 1..m :
               /\ body[j].ev = x
               /\ j < r => \/ body[j].op = "chain" /\ body[j].arg \in published
                           \/ body[j].op = "seq" /\ j = r - 1 /\ k \in {"command", "copy", "marker"}
               /\ j > r => body[j].op \in {"wsig", "wait", "ret"}
    BY <2>1 DEF CtorBody, m
  <2>3. body[r].op = "trig" /\ body[r].arg = 0
    BY <2>2, OpIsOp
  <2>4. ASSUME NEW j \in 1..m
        PROVE  /\ j \in Nat /\ r \in Nat
               /\ body[j].op \in {"chain", "seq", "trig", "wsig", "wait", "ret"}
               /\ body[j].op = "trig" => j = r
               /\ body[j].op = "seq" => j = r - 1
               /\ body[j].op \in {"chain", "seq"} => r > j
    <3>1. j \in Nat /\ r \in Nat
      BY <1>2
    <3>2. CASE j = r
      BY <2>3, <3>1, <3>2
    <3>3. CASE j < r
      BY <2>2, <3>1, <3>3
    <3>4. CASE j > r
      BY <2>2, <3>1, <3>4
    <3> QED BY <3>1, <3>2, <3>3, <3>4
  <2>5. body[l].op = "trig" => body[l].arg = 0
    BY <2>3, <2>4
  <2>6. ASSUME NEW j \in 1..m, body[l].op = body[j].op, body[l].op \in {"trig", "seq"}
        PROVE  l = j
    BY <2>4, <2>6
  <2> QED BY <2>1, <2>2, <2>4, <2>5, <2>6
<1>5. ASSUME NEW u \in Threads, NEW l \in DOMAIN stack'[u], ~(u = t /\ l <= m)
      PROVE  /\ \E j \in DOMAIN stack[u] : stack'[u][l] = stack[u][j]
             /\ stack'[u][l].ev # x /\ stack'[u][l] \in Ops
             /\ CausedTrigger(stack'[u][l]) /\ CausedAbort(stack'[u][l])
  <2>1. PICK j \in DOMAIN stack[u] : stack'[u][l] = stack[u][j]
    BY <1>2, <1>5, ShiftOrigin
  <2> QED BY <1>1, <1>2, <2>1 DEF Accounts, TriggerOK, AbortOK
<1>6. ASSUME NEW l \in DOMAIN stack'[t]
      PROVE  l \in 1..m /\ l <= m /\ stack'[t][l] = body[l]
  BY <1>2
<1>7. TriggerOK'
  <2>1. ASSUME NEW u \in Threads, NEW l \in DOMAIN stack'[u],
               stack'[u][l].op \in {"trig", "act", "dec"}
        PROVE  LET p == stack'[u][l] IN
               /\ p.arg \in owed'[p.ev]
               /\ p.arg # 0 => waitCount'[deps[p.ev][p.arg]] = 0
               /\ (p.arg = 0 /\ kind'[p.ev] = "user") => status[p.ev] = 0
               /\ p.op = "act" => owed'[p.ev] = {p.arg}
    <3> DEFINE p == stack'[u][l]
    <3>1. CASE u = t
      <4>1. p.ev = x /\ p.op = "trig" /\ p.arg = 0 /\ k # "user"
        BY <1>4, <1>6, <2>1, <3>1
      <4> QED BY <1>1, <4>1
    <3>2. CASE u # t
      <4>1. p.ev # x /\ p \in Ops /\ CausedTrigger(p)
        BY <1>5, <3>2
      <4>2. p.ev \in Events /\ p.arg \in Nat
        BY <2>1, <4>1, OpTypes DEF EventOps
      <4>3. /\ p.arg \in owed[p.ev]
            /\ p.arg # 0 => Signalled(deps[p.ev][p.arg])
            /\ (p.arg = 0 /\ kind[p.ev] = "user") => status[p.ev] = 0
            /\ p.op = "act" => owed[p.ev] = {p.arg}
        BY <2>1, <4>1 DEF CausedTrigger
      <4> HIDE DEF p
      <4>4. ASSUME p.arg # 0
            PROVE  waitCount'[deps[p.ev][p.arg]] = 0
        <5>1. deps[p.ev] \in Seq(Events) /\ p.arg \in 0..Len(deps[p.ev])
          BY <4>2, <4>3 DEF Accounts, CountOK, TypeOK
        <5>2. p.arg \in DOMAIN deps[p.ev]
          BY <4>2, <4>4, <5>1
        <5> QED BY <1>1, <4>2, <4>3, <4>4, <5>2 DEF Signalled
      <4> QED BY <1>1, <4>1, <4>2, <4>3, <4>4 DEF p
    <3> QED BY <3>1, <3>2
  <2> QED BY <2>1 DEF TriggerOK, CausedTrigger, Signalled
<1>8. AbortOK'
  <2>1. ASSUME NEW u \in Threads, NEW l \in DOMAIN stack'[u],
               stack'[u][l].op \in {"abort", "aself"}
        PROVE  LET p == stack'[u][l] IN
               IF p.arg = 0 THEN kind'[p.ev] = "user" /\ 0 \in owed'[p.ev]
               ELSE p.arg \in DOMAIN deps[p.ev] /\ status[deps[p.ev][p.arg]] # 0
    <3> DEFINE p == stack'[u][l]
    <3>1. u # t
      BY <1>4, <1>6, <2>1
    <3>2. p.ev # x /\ p \in Ops /\ CausedAbort(p)
      BY <1>5, <3>1
    <3>3. p.ev \in Events
      BY <2>1, <3>2, OpTypes DEF EventOps
    <3>4. IF p.arg = 0 THEN kind[p.ev] = "user" /\ 0 \in owed[p.ev]
          ELSE p.arg \in DOMAIN deps[p.ev] /\ status[deps[p.ev][p.arg]] # 0
      BY <2>1, <3>2 DEF CausedAbort
    <3> HIDE DEF p
    <3> QED BY <1>1, <3>2, <3>3, <3>4 DEF p
  <2> QED BY <2>1 DEF AbortOK, CausedAbort
<1>9. TriggerUnique'
  <2>1. ASSUME NEW i \in DOMAIN stack'[t], NEW j \in DOMAIN stack'[t],
               i <= m, j <= m, SameTrigger(stack'[t][i], stack'[t][j])
        PROVE  i = j
    <3>1. i \in 1..m /\ j \in 1..m /\ stack'[t][i] = body[i] /\ stack'[t][j] = body[j]
      BY <1>6
    <3>2. body[i].op = "trig" /\ body[j].op = "trig"
      BY <1>4, <2>1, <3>1 DEF SameTrigger, Holds
    <3> QED BY <1>4, <3>1, <3>2
  <2>2. ASSUME NEW i \in DOMAIN stack'[t], NEW u \in Threads, NEW j \in DOMAIN stack'[u],
               i <= m, ~(u = t /\ j <= m)
        PROVE  ~SameTrigger(stack'[t][i], stack'[u][j])
    BY <1>4, <1>5, <1>6, <2>2 DEF SameTrigger
  <2>3. TriggerUnique /\ Shift(t, m, m)
    BY <1>2 DEF Accounts
  <2> QED BY <2>1, <2>2, <2>3, UniqueShift
<1>10. PendingOK'
  <2>1. ASSUME NEW i \in DOMAIN stack'[t], stack'[t][i].op \in {"chain", "seq"}
        PROVE  \E l \in DOMAIN stack'[t] : l > i /\ stack'[t][l] = Op("trig", stack'[t][i].ev, 0)
    <3>1. i \in 1..m /\ stack'[t][i] = body[i]
      BY <1>6
    <3>2. body[i].ev = x /\ \E j \in 1..m : j > i /\ body[j] = Op("trig", x, 0)
      BY <1>4, <2>1, <3>1
    <3> QED BY <1>2, <3>1, <3>2
  <2> QED BY <1>2, <2>1, PendingShift DEF Accounts
<1>11. SequenceOK'
  <2>1. ASSUME NEW u \in Threads, NEW i \in DOMAIN stack'[u], stack'[u][i].op = "seq"
        PROVE  /\ \A p \in Queues : \A j \in DOMAIN queued[p] : queued[p][j] # stack'[u][i].ev
               /\ \A v \in Threads : \A l \in DOMAIN stack'[v] :
                    (stack'[v][l].op = "seq" /\ stack'[v][l].ev = stack'[u][i].ev)
                      => v = u /\ l = i
    <3>1. CASE u = t
      <4>1. i \in 1..m /\ stack'[u][i] = body[i] /\ body[i].ev = x
        BY <1>4, <1>6, <3>1
      <4>2. ASSUME NEW v \in Threads, NEW l \in DOMAIN stack'[v],
                   stack'[v][l].op = "seq", stack'[v][l].ev = x
            PROVE  v = t /\ l = i
        <5>1. v = t
          BY <1>5, <4>2
        <5>2. l \in 1..m /\ stack'[v][l] = body[l]
          BY <1>6, <5>1
        <5> QED BY <1>4, <2>1, <4>1, <4>2, <5>1, <5>2
      <4> QED BY <1>1, <3>1, <4>1, <4>2
    <3>2. CASE u # t
      <4>1. stack'[u] = stack[u] /\ i \in DOMAIN stack[u]
        BY <1>2, <3>2 DEF Shift
      <4>2. stack'[u][i].ev # x
        BY <1>1, <4>1
      <4>3. ASSUME NEW v \in Threads, NEW l \in DOMAIN stack'[v],
                   stack'[v][l].op = "seq", stack'[v][l].ev = stack'[u][i].ev
            PROVE  v = u /\ l = i
        <5>1. v # t
          BY <1>4, <1>6, <4>2, <4>3
        <5>2. stack'[v] = stack[v] /\ l \in DOMAIN stack[v]
          BY <1>2, <5>1 DEF Shift
        <5> QED BY <2>1, <4>1, <4>3, <5>2 DEF Accounts, SequenceOK
      <4> QED BY <2>1, <4>1, <4>3 DEF Accounts, SequenceOK
    <3> QED BY <3>1, <3>2
  <2> QED BY <2>1 DEF SequenceOK
<1>12. StartedOnceOK'
  <2>1. \A i \in DOMAIN stack'[t] : started[stack'[t][i].ev] = 0
    BY <1>1, <1>4, <1>6
  <2> QED BY <1>2, <2>1, StartedOnceShift DEF Accounts
<1>13. CountingOK'
  <2>1. ASSUME NEW e \in Events, started[e] # 0, kind'[e] = "user", owed'[e] # {}
        PROVE  \E u \in Threads : stack'[u] # << >> /\ Head(stack'[u]) = Op("dec", e, 0)
    <3>1. e # x
      BY <1>1, <2>1
    <3>2. PICK u \in Threads : stack[u] # << >> /\ Head(stack[u]) = Op("dec", e, 0)
      BY <1>1, <2>1, <3>1 DEF Accounts, CountingOK
    <3> QED BY <1>2, <3>2 DEF Shift
  <2> QED BY <2>1 DEF CountingOK, Op
<1> QED BY <1>7, <1>8, <1>9, <1>10, <1>11, <1>12, <1>13, NewEventGraph DEF Accounts

-----------------------------------------------------------------------------
(* The theorems.                                                            *)

(* Every API call keeps the triggers accounted for.                         *)
LEMMA AccountsCalls ==
  ASSUME TypeOK, NamesOK, FreshOK, Accounts, Serialised, NEW t \in Threads, ApiCall(t)
  PROVE  Accounts'
<1> USE DEF graphVars, deviceVars, identVars
<1>1. CASE ClCreateUserEvent(t)
  <2>1. /\ NewEvent("user", 0, 0) /\ stack[t] = << >>
        /\ UNCHANGED <<chain, deps, queued, status, started, stack>>
    BY <1>1 DEF ClCreateUserEvent
  <2>2. << >> \in Seq(Ops) /\ stack' = [stack EXCEPT ![t] = << >>]
    BY <2>1 DEF TypeOK
  <2> QED BY <2>1, <2>2, AccountsNewEvent
<1>2. CASE \/ EnqueueCall(t)
           \/ \E q \in Queues : ClFinish(t, q)
           \/ \E ds \in WaitLists : ClWaitForEvents(t, ds)
           \/ \E w \in published : ClSetEventCallback(t, w)
  <2>1. PICK k, q, w, body : Construct(t, k, q, w, body)
    BY <1>2, ConstructCalls
  <2>2. /\ NewEvent(k, q, w) /\ UNCHANGED <<chain, deps, queued, status, started>>
        /\ stack[t] = << >> /\ body \in Seq(Ops) /\ stack' = [stack EXCEPT ![t] = body]
        /\ k # "user" /\ CtorBody(body, nev + 1, k)
    BY <2>1 DEF Construct
  <2> QED BY <2>2, AccountsNewEvent
<1>3. ASSUME NEW e \in published, NEW how \in {"complete", "fail"}, ClSetUserEventStatus(t, e, how)
      PROVE  Accounts'
  BY <1>3, AccountsSetCall
<1>4. CASE \E q \in Queues : ClFlush(t, q)
  BY <1>4, QuietSteps, AccountsQuiet
<1> QED BY <1>1, <1>2, <1>3, <1>4 DEF ApiCall

(* So does every step of a running call.                                    *)
LEMMA AccountsSteps ==
  ASSUME TypeOK, NamesOK, Accounts, NEW t \in Threads, Step(t)
  PROVE  Accounts'
<1>1. CASE \/ Wait(t) \/ WaitSignalled(t) \/ WaitEnd(t) \/ WaitFence(t)
           \/ Flush(t) \/ FlushPop(t) \/ Notify(t) \/ Return(t)
  BY <1>1, QuietSteps, AccountsQuiet
<1> QED BY <1>1, AccountsChain, AccountsSequence, AccountsSetStatus, AccountsTrigger, AccountsAct,
           AccountsTriggerSelf, AccountsAbort, AccountsAbortSelf DEF Step

(* And so does every step of the system.                                    *)
LEMMA AccountsNext ==
  ASSUME TypeOK, NamesOK, FreshOK, Accounts, Serialised, [Next]_vars
  PROVE  Accounts'
<1>1. ASSUME NEW e \in Events, DeviceFinish(e)
      PROVE  Accounts'
  <2>1. Quiet
    BY <1>1 DEF DeviceFinish, Quiet, QuietStack, QuietQueues, graphVars, identVars
  <2> QED BY <2>1, AccountsQuiet
<1>2. CASE UNCHANGED vars
  <2>1. Quiet
    BY <1>2 DEF vars, Quiet, QuietStack, QuietQueues, graphVars, identVars, deviceVars
  <2> QED BY <2>1, AccountsQuiet
<1> QED BY <1>1, <1>2, AccountsCalls, AccountsSteps DEF Next

(* Nothing is owed in an initial state.                                     *)
LEMMA InitAccounts ==
  ASSUME Init
  PROVE  Accounts
<1>1. CountOK
  <2>1. IsFiniteSet({}) /\ Cardinality({}) = 0
    BY FS_EmptySet
  <2> QED BY <2>1 DEF Init, CountOK
<1>2. ReleasedOK /\ ChainOK /\ StuckOK /\ StartedOK
  BY DEF Init, ReleasedOK, ChainOK, StuckOK, StartedOK
<1>3. TriggerOK /\ TriggerUnique /\ AbortOK /\ PendingOK /\ SequenceOK /\ StartedOnceOK
  BY DEF Init, TriggerOK, TriggerUnique, AbortOK, PendingOK, SequenceOK, StartedOnceOK
<1>4. CountingOK
  BY DEF Init, CountingOK
<1>5. QueueLinked /\ QueueInOrder
  BY DEF Init, QueueLinked, QueueInOrder
<1> QED BY <1>1, <1>2, <1>3, <1>4, <1>5 DEF Accounts

(* Every trigger an event waits for is accounted for: when calls of         *)
(* clSetUserEventStatus on one event do not overlap, the counts, chains and *)
(* pending calls of event.cpp always agree, in every interleaving.          *)
THEOREM TriggersAccounted ==
  ASSUME Serialised
  PROVE  Spec => []TriggerAccounting
<1> DEFINE I == TypeOK /\ NamesOK /\ FreshOK /\ Accounts
<1>1. Init => I
  BY InitNames, InitAccounts
<1>2. I /\ [Next]_vars => I'
  BY TypeNext, NamesNext, FreshNext, AccountsNext
<1>3. I => TriggerAccounting
  BY DEF Accounts, TriggerAccounting
<1> QED BY <1>1, <1>2, <1>3, PTL DEF Spec

(* event::trigger runs the action of an event at most once, and never the   *)
(* one of an aborted event, however triggers and aborts interleave.         *)
THEOREM ActionRunsOnce ==
  ASSUME Serialised
  PROVE  Spec => [](ActionAtMostOnce /\ AbortedNeverRuns)
<1>1. TriggerAccounting => ActionAtMostOnce /\ AbortedNeverRuns
  <2>1. ASSUME TypeOK, StartedOK, NEW e \in Events
        PROVE  started[e] <= 1 /\ (status[e] # 0 => started[e] = 0)
    <3>1. started[e] \in Nat /\ (started[e] # 0 => started[e] = 1 /\ status[e] = 0)
      BY <2>1 DEF TypeOK, StartedOK
    <3> QED BY <3>1
  <2> QED BY <2>1 DEF TriggerAccounting, ActionAtMostOnce, AbortedNeverRuns
<1> QED BY <1>1, TriggersAccounted, PTL

(* event.hpp: an aborted event's task is never started, also while other    *)
(* dependencies of the event still trigger it on other threads.             *)
THEOREM AbortedTasksNeverRun ==
  ASSUME Serialised
  PROVE  Spec => []AbortedNeverRuns
<1>1. (ActionAtMostOnce /\ AbortedNeverRuns) => AbortedNeverRuns
  OBVIOUS
<1> QED BY <1>1, ActionRunsOnce, PTL

(* The action of an event starts only after every event of its wait list    *)
(* and its predecessor in the queue have been signalled.                    *)
THEOREM ActionWaitsForDeps ==
  ASSUME Serialised
  PROVE  Spec => []ActionAfterDeps
<1>1. TriggerAccounting => ActionAfterDeps
  <2>1. SUFFICES ASSUME TriggerAccounting, NEW t \in Threads, At(t, "act"),
                        NEW k \in DOMAIN deps[Head(stack[t]).ev]
                 PROVE  Signalled(deps[Head(stack[t]).ev][k])
    BY DEF ActionAfterDeps
  <2>2. TypeOK /\ NamesOK /\ Accounts
    BY <2>1 DEF TriggerAccounting, Accounts
  <2> DEFINE o == Head(stack[t])
  <2>3. o.ev \in Events
    BY <2>1, <2>2, HeadTrigger DEF EventOps
  <2>4. owed[o.ev] = {o.arg} /\ (o.arg # 0 => Signalled(deps[o.ev][o.arg]))
    BY <2>1, <2>2, LastTrigger
  <2>5. deps[o.ev] \in Seq(Events)
    BY <2>2, <2>3 DEF TypeOK
  <2>6. k # 0
    BY <2>1, <2>5
  <2>7. CASE k = o.arg
    BY <2>4, <2>6, <2>7
  <2>8. CASE k # o.arg
    <3>1. k \notin owed[o.ev]
      BY <2>4, <2>8
    <3> QED BY <2>1, <2>2, <2>3, <3>1 DEF Accounts, ReleasedOK
  <2> QED BY <2>7, <2>8
<1> QED BY <1>1, TriggersAccounted, PTL

(* The events of a queue are signalled in queue order, so the loop of       *)
(* command_queue::flush, which stops at the first unsignalled event, leaves *)
(* no signalled one behind.                                                 *)
THEOREM QueueSignalledInOrder ==
  ASSUME Serialised
  PROVE  Spec => []QueueInOrder
<1>1. TriggerAccounting => QueueInOrder
  BY DEF TriggerAccounting
<1> QED BY <1>1, TriggersAccounted, PTL
=============================================================================
