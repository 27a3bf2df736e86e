-------------------------- MODULE CloverWaitsProofs --------------------------
(***************************************************************************)
(* For an application that serialises its calls of clSetUserEventStatus    *)
(* per event, or has one thread, no wait() of Clover throws, completion is *)
(* final, and the callback of clSetEventCallback runs after completion.    *)
(* With one thread, moreover, a signalled event's action has run and a     *)
(* complete event's work has been executed (Sequential).  The invariant,   *)
(* Waits, goes beside TriggerAccounting: it says of every operation left   *)
(* of a wait what has been done before it, or is still to be done first on *)
(* the same stack.                                                         *)
(***************************************************************************)
EXTENDS CloverAccountingProofs

-----------------------------------------------------------------------------
(* The invariant.                                                           *)

(* Events the application can name: it gets handles of these kinds only.    *)
Handle(e) == kind[e] = "user" \/ Hard(e)

(* Waits, callbacks, dependencies and queues are about such events.         *)
KindsOK ==
  /\ \A e \in published : Handle(e)
  /\ \A e \in Events : \A i \in DOMAIN deps[e] : Handle(deps[e][i])
  /\ \A e \in Events : kind[e] = "cb" => Handle(watch[e])
  /\ \A q \in Queues : \A j \in DOMAIN queued[q] :
       Hard(queued[q][j]) /\ queue[queued[q][j]] = q
  /\ \A t \in Threads : \A k \in DOMAIN stack[t] :
       /\ stack[t][k].op = "chain" => Handle(stack[t][k].arg)
       /\ stack[t][k].op \in {"ret", "wfence"} => Hard(stack[t][k].ev)
       /\ stack[t][k].op = "notify" => kind[stack[t][k].ev] = "cb"

(* A soft event is waited for after its constructor: what the constructor   *)
(* has left to do comes before the wait, on the same stack, and nothing is  *)
(* left of it once the wait has begun.                                      *)
ConstructedFirst ==
  \A t, u \in Threads : \A k \in DOMAIN stack[t], l \in DOMAIN stack[u] :
    (/\ stack[u][l].op = "chain" /\ stack[u][l].ev = stack[t][k].ev
     /\ stack[t][k].op \in {"wait", "wend"} /\ ~Hard(stack[t][k].ev))
      => stack[t][k].op = "wait" /\ u = t /\ l < k

(* When t gets to operation k, e will be complete.                          *)
Waited(t, k, e) ==
  \/ HandleComplete(e)
  \/ \E j \in DOMAIN stack[t] :
       j < k /\ stack[t][j].op \in {"wait", "wend", "wfence"} /\ stack[t][j].ev = e

(* What the rest of a wait relies on will be true when t gets to it.        *)
WaitOK(t, k) ==
  LET o == stack[t][k] IN
  /\ o.op = "wend" =>
       /\ \/ Signalled(o.ev)
          \/ \E j \in DOMAIN stack[t] : j < k /\ stack[t][j].op = "wsig" /\ stack[t][j].ev = o.ev
       /\ Hard(o.ev) \/ \A i \in DOMAIN deps[o.ev] : Waited(t, k, deps[o.ev][i])
  /\ o.op = "wfence" =>
       /\ Signalled(o.ev)
       /\ \/ fence[o.ev] # NoFence
          \/ \E j \in DOMAIN stack[t] :
               j < k /\ stack[t][j].op \in {"flush", "fpop"} /\ stack[t][j].arg = queue[o.ev]
  /\ o.op = "notify" => Waited(t, k, watch[o.ev])

WaitsOK == \A t \in Threads : \A k \in DOMAIN stack[t] : WaitOK(t, k)

(* A hard event is about to be put in its queue, in it, or has a fence,     *)
(* which it gets when it leaves the queue, signalled.                       *)
InQueue(e) == \E j \in DOMAIN queued[queue[e]] : queued[queue[e]][j] = e
ToSequence(e) == \E t \in Threads : \E k \in DOMAIN stack[t] :
                   stack[t][k].op = "seq" /\ stack[t][k].ev = e

FencesOK ==
  \A e \in Events :
    /\ Hard(e) => ToSequence(e) \/ InQueue(e) \/ fence[e] # NoFence
    /\ fence[e] # NoFence =>
         Hard(e) /\ Signalled(e) /\ ~ToSequence(e) /\ ~InQueue(e) /\ fence[e] \subseteq Events

(* Only the flush that holds the mutex of a queue is in its loop.           *)
FlushOK ==
  /\ \A q \in Queues : flushing[q] # NoFence => flushing[q] \subseteq Events
  /\ \A t \in Threads : \A k \in DOMAIN stack[t] : stack[t][k].op = "fpop" =>
       /\ flushing[stack[t][k].arg] # NoFence
       /\ \A u \in Threads : \A l \in DOMAIN stack[u] :
            stack[u][l].op = "fpop" /\ stack[u][l].arg = stack[t][k].arg => u = t /\ l = k

(* No work before the action, nothing at all before the constructor.        *)
WorkOK ==
  \A e \in Events :
    /\ started[e] = 0 => cmd[e] = "none"
    /\ e > nev => kind[e] = "none"

Waits == KindsOK /\ ConstructedFirst /\ WaitsOK /\ FencesOK /\ FlushOK /\ WorkOK

-----------------------------------------------------------------------------
(* What is final.                                                           *)

(* A signalled event is not aborted, and no constructor works on it.        *)
LEMMA SignalledFacts ==
  ASSUME TypeOK, NamesOK, Accounts, NEW e \in Events, Signalled(e)
  PROVE  status[e] = 0 /\ owed[e] = {} /\ ~ToSequence(e)
<1>1. owed[e] = {}
  BY OwedCount DEF Accounts
<1>2. status[e] = 0
  BY AbortedUnsignalled DEF Accounts
<1>3. ASSUME ToSequence(e)
      PROVE  FALSE
  <2>1. PICK t \in Threads : \E k \in DOMAIN stack[t] : stack[t][k].op = "seq" /\ stack[t][k].ev = e
    BY <1>3 DEF ToSequence
  <2>2. PICK l \in DOMAIN stack[t] : stack[t][l] = Op("trig", e, 0)
    BY <2>1 DEF Accounts, PendingOK
  <2>3. stack[t][l].op = "trig" /\ stack[t][l].ev = e /\ stack[t][l].arg = 0
    BY <2>2 DEF Op
  <2>4. CausedTrigger(stack[t][l])
    BY DEF Accounts, TriggerOK
  <2>5. 0 \in owed[e]
    BY <2>3, <2>4 DEF CausedTrigger
  <2> QED BY <1>1, <2>5
<1> QED BY <1>1, <1>2, <1>3

(* Events keep what the constructor gave them.                              *)
LEMMA IdentKept ==
  ASSUME TypeOK, [Next]_vars
  PROVE  /\ nev <= nev'
         /\ \A e \in Events : e <= nev =>
              kind'[e] = kind[e] /\ queue'[e] = queue[e] /\ watch'[e] = watch[e]
<1>1. nev \in Nat
  BY EventsAssumption DEF TypeOK
<1>2. ASSUME NEW k, NEW q, NEW w, NewEvent(k, q, w)
      PROVE  /\ nev <= nev'
             /\ \A e \in Events : e <= nev =>
                  kind'[e] = kind[e] /\ queue'[e] = queue[e] /\ watch'[e] = watch[e]
  <2>1. \A e \in Events : e <= nev => e # nev + 1
    BY <1>1 DEF Events
  <2>2. nev <= nev'
    BY <1>1, <1>2 DEF NewEvent
  <2> QED BY <1>2, <2>1, <2>2 DEF NewEvent, TypeOK
<1>3. ASSUME UNCHANGED <<nev, kind, queue, watch>>
      PROVE  /\ nev <= nev'
             /\ \A e \in Events : e <= nev =>
                  kind'[e] = kind[e] /\ queue'[e] = queue[e] /\ watch'[e] = watch[e]
  BY <1>1, <1>3
<1>4. ASSUME NEW t \in Threads, ApiCall(t)
      PROVE  UNCHANGED <<nev, kind, queue, watch>> \/ \E k, q, w : NewEvent(k, q, w)
  BY <1>4 DEF ApiCall, EnqueueCall, ClCreateUserEvent, ClSetUserEventStatus, ClEnqueueKernel,
              ClEnqueueTransfer, ClEnqueueMarker, ClEnqueueMap, Enqueue, ClFinish, ClFlush,
              ClWaitForEvents, ClSetEventCallback, identVars
<1>5. ASSUME NEW t \in Threads, Step(t)
      PROVE  UNCHANGED <<nev, kind, queue, watch>>
  BY <1>5, StepConstructsNone
<1>6. CASE (\E e \in Events : DeviceFinish(e)) \/ UNCHANGED vars
  BY <1>3, <1>6 DEF DeviceFinish, vars, identVars
<1> QED BY <1>2, <1>3, <1>4, <1>5, <1>6 DEF Next

(* Once signalled, always signalled: whoever counts an event down holds a   *)
(* trigger of it, and whoever counts it up is its constructor.              *)
LEMMA SignalledForever ==
  ASSUME TypeOK, NamesOK, Accounts, [Next]_vars, NEW e \in Events, e <= nev, Signalled(e)
  PROVE  Signalled(e)'
<1> USE DEF graphVars, deviceVars, identVars
<1>1. owed[e] = {}
  BY SignalledFacts
<1>2. ASSUME UNCHANGED waitCount
      PROVE  Signalled(e)'
  BY <1>2 DEF Signalled
<1>3. ASSUME NEW t \in Threads, Step(t)
      PROVE  Signalled(e)'
  <2>1. CASE e # Head(stack[t]).ev
    <3>1. waitCount'[e] = waitCount[e]
      BY <1>3, <2>1, StepIsLocal
    <3> QED BY <3>1 DEF Signalled
  <2>2. CASE e = Head(stack[t]).ev
    <3>1. ASSUME Chain(t) \/ Sequence(t)
          PROVE  FALSE
      BY <2>2, <3>1, ConstructorHead DEF Chain, Sequence
    <3>2. ASSUME TriggerSelf(t)
          PROVE  FALSE
      <4>1. CausedTrigger(Head(stack[t])) /\ Head(stack[t]).op = "dec"
        BY <3>2, HeadTrigger DEF TriggerSelf
      <4> QED BY <1>1, <2>2, <4>1 DEF CausedTrigger
    <3>3. CASE SetStatus(t) \/ Trigger(t) \/ Act(t) \/ Abort(t) \/ AbortSelf(t)
      BY <1>2, <3>3 DEF SetStatus, Trigger, Act, Abort, AbortSelf
    <3>4. CASE \/ Wait(t) \/ WaitSignalled(t) \/ WaitEnd(t) \/ WaitFence(t)
               \/ Flush(t) \/ FlushPop(t) \/ Notify(t) \/ Return(t)
      BY <1>2, <3>4, QuietSteps DEF Quiet
    <3> QED BY <1>3, <3>1, <3>2, <3>3, <3>4 DEF Step
  <2> QED BY <2>1, <2>2
<1>4. ASSUME NEW k, NEW q, NEW w, NewEvent(k, q, w)
      PROVE  Signalled(e)'
  <2>1. e # nev + 1
    BY EventsAssumption DEF TypeOK, Events
  <2> QED BY <1>4, <2>1 DEF NewEvent, Signalled, TypeOK
<1>5. ASSUME NEW t \in Threads, ApiCall(t)
      PROVE  UNCHANGED waitCount \/ \E k, q, w : NewEvent(k, q, w)
  BY <1>5 DEF ApiCall, EnqueueCall, ClCreateUserEvent, ClSetUserEventStatus, ClEnqueueKernel,
              ClEnqueueTransfer, ClEnqueueMarker, ClEnqueueMap, Enqueue, ClFinish, ClFlush,
              ClWaitForEvents, ClSetEventCallback
<1>6. CASE (\E d \in Events : DeviceFinish(d)) \/ UNCHANGED vars
  BY <1>2, <1>6 DEF DeviceFinish, vars
<1> QED BY <1>2, <1>3, <1>4, <1>5, <1>6 DEF Next

(* What is aborted was not signalled.                                       *)
LEMMA StatusForever ==
  ASSUME TypeOK, NamesOK, Accounts, [Next]_vars, NEW e \in Events, Signalled(e)
  PROVE  status'[e] = 0
<1> USE DEF graphVars, deviceVars, identVars
<1>1. status[e] = 0 /\ owed[e] = {}
  BY SignalledFacts
<1>2. ASSUME NEW t \in Threads, AbortSelf(t)
      PROVE  status'[e] = 0
  <2>1. Head(stack[t]).arg \in owed[Head(stack[t]).ev]
    BY <1>2, AbortCause DEF AbortSelf
  <2>2. e # Head(stack[t]).ev
    BY <1>1, <2>1
  <2> QED BY <1>1, <1>2, <2>2 DEF AbortSelf, TypeOK
<1>3. ASSUME NEW t \in Threads, Step(t), ~AbortSelf(t)
      PROVE  UNCHANGED status
  BY <1>3 DEF Step, Chain, Sequence, SetStatus, Trigger, Act, TriggerSelf, Abort, Wait,
         WaitSignalled, WaitEnd, WaitFence, Flush, FlushPop, Notify, Return
<1>4. ASSUME NEW t \in Threads, ApiCall(t)
      PROVE  UNCHANGED status
  BY <1>4 DEF ApiCall, EnqueueCall, ClCreateUserEvent, ClSetUserEventStatus, ClEnqueueKernel,
              ClEnqueueTransfer, ClEnqueueMarker, ClEnqueueMap, Enqueue, ClFinish, ClFlush,
              ClWaitForEvents, ClSetEventCallback
<1>5. CASE (\E d \in Events : DeviceFinish(d)) \/ UNCHANGED vars
  BY <1>1, <1>5 DEF DeviceFinish, vars
<1> QED BY <1>1, <1>2, <1>3, <1>4, <1>5 DEF Next

(* Work that is done stays done.                                            *)
LEMMA DoneForever ==
  ASSUME TypeOK, NamesOK, Accounts, WorkOK, [Next]_vars, NEW e \in Events, cmd[e] = "done"
  PROVE  cmd'[e] = "done"
<1> USE DEF graphVars, deviceVars, identVars
<1>1. ASSUME NEW t \in Threads, Act(t)
      PROVE  cmd'[e] = "done"
  <2>1. started[Head(stack[t]).ev] = 0 /\ Head(stack[t]).ev \in Events
    BY <1>1, HeadTrigger DEF Act, EventOps
  <2>2. e # Head(stack[t]).ev
    BY <2>1 DEF WorkOK
  <2> QED BY <1>1, <2>2 DEF Act, TypeOK
<1>2. ASSUME NEW t \in Threads, Flush(t)
      PROVE  cmd'[e] = "done"
  BY <1>2 DEF Flush, InFlight
<1>3. ASSUME NEW t \in Threads, Step(t), ~Act(t), ~Flush(t)
      PROVE  UNCHANGED cmd
  BY <1>3 DEF Step, Chain, Sequence, SetStatus, Trigger, TriggerSelf, Abort, AbortSelf, Wait,
         WaitSignalled, WaitEnd, WaitFence, FlushPop, Notify, Return
<1>4. ASSUME NEW t \in Threads, ApiCall(t)
      PROVE  UNCHANGED cmd
  BY <1>4 DEF ApiCall, EnqueueCall, ClCreateUserEvent, ClSetUserEventStatus, ClEnqueueKernel,
              ClEnqueueTransfer, ClEnqueueMarker, ClEnqueueMap, Enqueue, ClFinish, ClFlush,
              ClWaitForEvents, ClSetEventCallback
<1>5. ASSUME NEW d \in Events, DeviceFinish(d)
      PROVE  cmd'[e] = "done"
  BY <1>5 DEF DeviceFinish, TypeOK
<1>6. CASE UNCHANGED vars
  BY <1>6 DEF vars
<1> QED BY <1>1, <1>2, <1>3, <1>4, <1>5, <1>6 DEF Next

(* Only the loop of flush() writes a fence, and only to an event without    *)
(* one.                                                                     *)
LEMMA FenceForever ==
  ASSUME TypeOK, NamesOK, KindsOK, FencesOK, [Next]_vars, NEW e \in Events, fence[e] # NoFence
  PROVE  fence'[e] = fence[e]
<1> USE DEF graphVars, deviceVars, identVars
<1>1. ASSUME NEW t \in Threads, FlushPop(t)
      PROVE  fence'[e] = fence[e]
  <2> DEFINE q == Head(stack[t]).arg
             h == Head(queued[q])
  <2>1. q \in Queues
    BY <1>1, HeadFacts, OpTypes DEF FlushPop
  <2>2. CASE queued[q] # << >> /\ Signalled(h)
    <3>1. h = queued[q][1] /\ 1 \in DOMAIN queued[q]
      BY <2>1, <2>2 DEF TypeOK
    <3>2. queue[h] = q
      BY <2>1, <3>1 DEF KindsOK
    <3>3. InQueue(h)
      BY <3>1, <3>2 DEF InQueue
    <3>4. h # e
      BY <3>3 DEF FencesOK
    <3> QED BY <1>1, <2>2, <3>4 DEF FlushPop, TypeOK
  <2>3. CASE ~(queued[q] # << >> /\ Signalled(h))
    BY <1>1, <2>3 DEF FlushPop
  <2> QED BY <2>2, <2>3
<1>2. ASSUME NEW t \in Threads, Step(t), ~FlushPop(t)
      PROVE  UNCHANGED fence
  BY <1>2 DEF Step, Chain, Sequence, SetStatus, Trigger, Act, TriggerSelf, Abort, AbortSelf, Wait,
         WaitSignalled, WaitEnd, WaitFence, Flush, Notify, Return
<1>3. ASSUME NEW t \in Threads, ApiCall(t)
      PROVE  UNCHANGED fence
  BY <1>3 DEF ApiCall, EnqueueCall, ClCreateUserEvent, ClSetUserEventStatus, ClEnqueueKernel,
              ClEnqueueTransfer, ClEnqueueMarker, ClEnqueueMap, Enqueue, ClFinish, ClFlush,
              ClWaitForEvents, ClSetEventCallback
<1>4. CASE (\E d \in Events : DeviceFinish(d)) \/ UNCHANGED vars
  BY <1>4 DEF DeviceFinish, vars
<1> QED BY <1>1, <1>2, <1>3, <1>4 DEF Next

(* Complete is final.                                                       *)
LEMMA CompleteStays ==
  ASSUME TypeOK, NamesOK, Accounts, KindsOK, FencesOK, WorkOK, [Next]_vars,
         NEW e \in Events, e <= nev, HandleComplete(e)
  PROVE  HandleComplete(e)'
<1>1. Signalled(e)
  BY DEF HandleComplete, FencesOK, Finished
<1>2. Signalled(e)' /\ status'[e] = 0 /\ kind'[e] = kind[e]
  BY <1>1, SignalledForever, StatusForever, IdentKept
<1>3. ASSUME Hard(e)
      PROVE  Finished(fence[e])'
  <2>1. fence[e] # NoFence /\ \A x \in fence[e] : cmd[x] = "done"
    BY <1>3 DEF HandleComplete, Finished
  <2>2. fence[e] \subseteq Events /\ fence'[e] = fence[e]
    BY <2>1, FenceForever DEF FencesOK
  <2>3. \A x \in fence[e] : cmd'[x] = "done"
    BY <2>1, <2>2, DoneForever
  <2> QED BY <2>1, <2>2, <2>3 DEF Finished, NoFence
<1> QED BY <1>2, <1>3 DEF HandleComplete, Hard

(* What every step leaves alone or only makes more final.                   *)
Steady ==
  \A e \in Events : e <= nev =>
    /\ kind'[e] = kind[e] /\ queue'[e] = queue[e] /\ watch'[e] = watch[e]
    /\ waitCount[e] = 0 => waitCount'[e] = 0
    /\ HandleComplete(e) => HandleComplete(e)'
    /\ fence[e] # NoFence => fence'[e] # NoFence

LEMMA SteadyNext ==
  ASSUME TypeOK, NamesOK, Accounts, Waits, [Next]_vars
  PROVE  Steady
<1>1. ASSUME NEW e \in Events, e <= nev
      PROVE  /\ kind'[e] = kind[e] /\ queue'[e] = queue[e] /\ watch'[e] = watch[e]
             /\ fence[e] # NoFence => fence'[e] # NoFence
  BY <1>1, IdentKept, FenceForever DEF Waits
<1>2. ASSUME NEW e \in Events, e <= nev, waitCount[e] = 0
      PROVE  waitCount'[e] = 0
  BY <1>2, SignalledForever DEF Signalled
<1>3. ASSUME NEW e \in Events, e <= nev, HandleComplete(e)
      PROVE  HandleComplete(e)'
  BY <1>3, CompleteStays DEF Waits
<1> QED BY <1>1, <1>2, <1>3 DEF Steady

(* A soft event that is being waited for gets no more dependencies.         *)
WaitedDepsKept ==
  \A u \in Threads : \A k \in DOMAIN stack[u] :
    (stack[u][k].op = "wend" /\ ~Hard(stack[u][k].ev))
      => deps'[stack[u][k].ev] = deps[stack[u][k].ev]

LEMMA DepsKept ==
  ASSUME TypeOK, NamesOK, Accounts, ConstructedFirst, [Next]_vars
  PROVE  WaitedDepsKept
<1> USE DEF graphVars, deviceVars, identVars
<1>1. SUFFICES ASSUME NEW u \in Threads, NEW k \in DOMAIN stack[u], stack[u][k].op = "wend",
                      ~Hard(stack[u][k].ev)
               PROVE  deps'[stack[u][k].ev] = deps[stack[u][k].ev]
  BY DEF WaitedDepsKept
<1>2. stack[u][k].ev \in Events
  BY <1>1, SeqDomain, OpTypes DEF TypeOK, EventOps
<1>3. ASSUME NEW t \in Threads, Step(t)
      PROVE  deps'[stack[u][k].ev] = deps[stack[u][k].ev]
  <2>1. CASE stack[u][k].ev # Head(stack[t]).ev
    BY <1>2, <1>3, <2>1, StepIsLocal
  <2>2. CASE stack[u][k].ev = Head(stack[t]).ev
    <3>1. ASSUME Chain(t)
          PROVE  FALSE
      <4>1. 1 \in DOMAIN stack[t] /\ Head(stack[t]) = stack[t][1] /\ stack[t][1].op = "chain"
        BY <3>1, HeadFacts DEF Chain
      <4> QED BY <1>1, <2>2, <4>1 DEF ConstructedFirst
    <3>2. ASSUME Sequence(t)
          PROVE  FALSE
      BY <1>1, <2>2, <3>2, HeadFacts DEF Sequence, OpOK
    <3>3. CASE \/ SetStatus(t) \/ Trigger(t) \/ Act(t) \/ TriggerSelf(t) \/ Abort(t) \/ AbortSelf(t)
      BY <3>3 DEF SetStatus, Trigger, Act, TriggerSelf, Abort, AbortSelf
    <3>4. CASE \/ Wait(t) \/ WaitSignalled(t) \/ WaitEnd(t) \/ WaitFence(t)
               \/ Flush(t) \/ FlushPop(t) \/ Notify(t) \/ Return(t)
      BY <3>4, QuietSteps DEF Quiet
    <3> QED BY <1>3, <3>1, <3>2, <3>3, <3>4 DEF Step
  <2> QED BY <2>1, <2>2
<1>4. ASSUME NEW t \in Threads, ApiCall(t)
      PROVE  UNCHANGED deps
  BY <1>4 DEF ApiCall, EnqueueCall, ClCreateUserEvent, ClSetUserEventStatus, ClEnqueueKernel,
              ClEnqueueTransfer, ClEnqueueMarker, ClEnqueueMap, Enqueue, ClFinish, ClFlush,
              ClWaitForEvents, ClSetEventCallback
<1>5. CASE (\E d \in Events : DeviceFinish(d)) \/ UNCHANGED vars
  BY <1>5 DEF DeviceFinish, vars
<1> QED BY <1>3, <1>4, <1>5 DEF Next

-----------------------------------------------------------------------------
(* What is left of a wait, across a step.                                   *)

(* Continue removes the head, and moves what follows it.                    *)
LEMMA ContinueAt ==
  ASSUME TypeOK, NEW t \in Threads, stack[t] # << >>, NEW a \in Seq(Ops), Continue(t, a)
  PROVE  /\ Len(a) \in Nat
         /\ \A u \in Threads : u # t => stack'[u] = stack[u]
         /\ DOMAIN stack[t] = 1..Len(stack[t]) /\ DOMAIN stack'[t] = 1..Len(stack'[t])
         /\ \A k \in 1..Len(a) : k \in DOMAIN stack'[t] /\ stack'[t][k] = a[k]
         /\ \A j \in DOMAIN stack[t] : j # 1 =>
              /\ j + (Len(a) - 1) \in DOMAIN stack'[t] /\ j + (Len(a) - 1) > Len(a)
              /\ stack'[t][j + (Len(a) - 1)] = stack[t][j]
         /\ \A k \in DOMAIN stack'[t] : k > Len(a) =>
              /\ k - (Len(a) - 1) \in DOMAIN stack[t] /\ k - (Len(a) - 1) # 1
              /\ stack'[t][k] = stack[t][k - (Len(a) - 1)]
         /\ 1 \in DOMAIN stack[t] /\ Head(stack[t]) = stack[t][1]
<1> DEFINE n == Len(a) - 1
<1>1. stack \in [Threads -> Seq(Ops)]
  BY DEF TypeOK
<1>2. /\ Len(a) \in Nat /\ Shift(t, Len(a), n) /\ Len(stack'[t]) = Len(stack[t]) + n
      /\ \A k \in 1..Len(a) : k \in DOMAIN stack'[t] /\ stack'[t][k] = a[k]
  BY ContinueIsShift
<1>3. /\ DOMAIN stack'[t] = 1..Len(stack'[t]) /\ DOMAIN stack[t] = 1..Len(stack[t])
      /\ Len(stack[t]) \in Nat /\ Len(stack[t]) >= 1 /\ Len(stack'[t]) \in Nat
  BY <1>1, <1>2, EmptySeq DEF Shift
<1>4. ASSUME NEW k \in DOMAIN stack'[t], k > Len(a)
      PROVE  k - n \in DOMAIN stack[t] /\ k - n # 1 /\ stack'[t][k] = stack[t][k - n]
  <2>1. k - n # 1
    BY <1>2, <1>3, <1>4
  <2> QED BY <1>2, <1>4, <2>1 DEF Shift
<1>5. ASSUME NEW j \in DOMAIN stack[t], j # 1
      PROVE  j + n \in DOMAIN stack'[t] /\ j + n > Len(a) /\ stack'[t][j + n] = stack[t][j]
  <2>1. j + n \in DOMAIN stack'[t] /\ j + n > Len(a) /\ (j + n) - n = j
    BY <1>2, <1>3, <1>5
  <2> QED BY <1>4, <2>1
<1>6. 1 \in DOMAIN stack[t] /\ Head(stack[t]) = stack[t][1]
  BY <1>1, <1>3
<1> QED BY <1>2, <1>3, <1>4, <1>5, <1>6 DEF Shift

(* What the first operation of a stack stood for when it is replaced by a:  *)
(* it has come true, or a stands for it.                                    *)
Replaced(t, a) ==
  LET o == Head(stack[t]) IN
  /\ o.op \in {"wait", "wend", "wfence"} => \A e \in Events : e = o.ev =>
       \/ HandleComplete(e)'
       \/ \E j \in 1..Len(a) : a[j].op \in {"wait", "wend", "wfence"} /\ a[j].ev = e
  /\ o.op = "wsig" => waitCount'[o.ev] = 0
  /\ o.op \in {"flush", "fpop"} =>
       \/ \E j \in 1..Len(a) : a[j].op \in {"flush", "fpop"} /\ a[j].arg = o.arg
       \/ \A e \in Events : Hard(e) /\ Signalled(e) /\ queue[e] = o.arg => fence'[e] # NoFence

(* Where the step puts an operation that stays.                             *)
LEMMA WaitedMoves ==
  ASSUME TypeOK, Steady, NEW t \in Threads, stack[t] # << >>, NEW a \in Seq(Ops),
         Continue(t, a), Replaced(t, a),
         NEW k \in DOMAIN stack[t], k # 1, NEW e \in Events, e <= nev, Waited(t, k, e)
  PROVE  Waited(t, k + (Len(a) - 1), e)'
<1> DEFINE n == Len(a) - 1
<1>1. CASE HandleComplete(e)
  BY <1>1 DEF Steady, Waited
<1>2. ASSUME NEW j \in DOMAIN stack[t], j < k, stack[t][j].op \in {"wait", "wend", "wfence"},
             stack[t][j].ev = e
      PROVE  \/ HandleComplete(e)'
             \/ \E l \in DOMAIN stack'[t] :
                  /\ l < k + n /\ stack'[t][l].op \in {"wait", "wend", "wfence"}
                  /\ stack'[t][l].ev = e
  <2>1. CASE j = 1
    <3>1. Head(stack[t]) = stack[t][1]
      BY ContinueAt
    <3>2. CASE HandleComplete(e)'
      BY <3>2
    <3>3. ASSUME NEW l \in 1..Len(a), a[l].op \in {"wait", "wend", "wfence"}, a[l].ev = e
          PROVE  /\ l \in DOMAIN stack'[t] /\ l < k + n /\ stack'[t][l].ev = e
                 /\ stack'[t][l].op \in {"wait", "wend", "wfence"}
      <4>1. l \in DOMAIN stack'[t] /\ stack'[t][l] = a[l] /\ k + n > Len(a) /\ Len(a) \in Nat
        BY ContinueAt
      <4>2. k + n \in Int
        BY ContinueAt
      <4>3. l < k + n
        BY <4>1, <4>2
      <4> QED BY <3>3, <4>1, <4>3
    <3> QED BY <1>2, <2>1, <3>1, <3>2, <3>3 DEF Replaced
  <2>2. CASE j # 1
    <3>1. j + n \in DOMAIN stack'[t] /\ stack'[t][j + n] = stack[t][j] /\ j + n < k + n
      BY <1>2, <2>2, ContinueAt
    <3> QED BY <1>2, <3>1
  <2> QED BY <2>1, <2>2
<1>3. CASE ~HandleComplete(e)
  <2>1. \/ HandleComplete(e)'
        \/ \E l \in DOMAIN stack'[t] :
             /\ l < k + n /\ stack'[t][l].op \in {"wait", "wend", "wfence"}
             /\ stack'[t][l].ev = e
    BY <1>2, <1>3 DEF Waited
  <2> QED BY <2>1 DEF Waited
<1> QED BY <1>1, <1>3

(* So what every operation that stays relies on is still to come true.      *)
LEMMA WaitMoves ==
  ASSUME TypeOK, NamesOK, KindsOK, WaitsOK, Steady, WaitedDepsKept,
         NEW t \in Threads, stack[t] # << >>, NEW a \in Seq(Ops),
         Continue(t, a), Replaced(t, a), NEW k \in DOMAIN stack[t], k # 1
  PROVE  WaitOK(t, k + (Len(a) - 1))'
<1> DEFINE n == Len(a) - 1
<1>1. PICK o : o = stack[t][k]
  OBVIOUS
<1>2. /\ k + n \in DOMAIN stack'[t] /\ k + n > Len(a) /\ Len(a) \in Nat
      /\ stack'[t][k + n] = o /\ k \in Nat /\ Head(stack[t]) = stack[t][1]
  BY <1>1, ContinueAt
<1>3. o \in Ops /\ OpOK(o) /\ WaitOK(t, k)
  BY <1>1, SeqDomain DEF TypeOK, NamesOK, WaitsOK
<1>4. o.op \in {"wend", "wfence", "notify"} => o.ev \in Events /\ o.ev <= nev
  BY <1>3, OpTypes DEF EventOps, OpOK
<1>5. ASSUME o.op = "wend"
      PROVE  \/ waitCount'[o.ev] = 0
             \/ \E l \in DOMAIN stack'[t] :
                  l < k + n /\ stack'[t][l].op = "wsig" /\ stack'[t][l].ev = o.ev
  <2>1. CASE Signalled(o.ev)
    BY <1>4, <1>5, <2>1 DEF Steady, Signalled
  <2>2. ASSUME NEW j \in DOMAIN stack[t], j < k, stack[t][j].op = "wsig", stack[t][j].ev = o.ev
        PROVE  \/ waitCount'[o.ev] = 0
               \/ \E l \in DOMAIN stack'[t] :
                    l < k + n /\ stack'[t][l].op = "wsig" /\ stack'[t][l].ev = o.ev
    <3>1. CASE j = 1
      BY <1>2, <2>2, <3>1 DEF Replaced
    <3>2. CASE j # 1
      <4>1. j + n \in DOMAIN stack'[t] /\ stack'[t][j + n] = stack[t][j] /\ j + n < k + n
        BY <2>2, <3>2, ContinueAt
      <4> QED BY <2>2, <4>1
    <3> QED BY <3>1, <3>2
  <2> QED BY <1>1, <1>3, <1>5, <2>1, <2>2 DEF WaitOK
<1>6. ASSUME o.op = "wend", ~Hard(o.ev)
      PROVE  \A i \in DOMAIN deps'[o.ev] : Waited(t, k + n, deps[o.ev][i])'
  <2>1. deps'[o.ev] = deps[o.ev]
    BY <1>1, <1>6 DEF WaitedDepsKept
  <2>2. ASSUME NEW i \in DOMAIN deps'[o.ev]
        PROVE  Waited(t, k + n, deps[o.ev][i])'
    <3>1. PICK d : d = deps[o.ev][i]
      OBVIOUS
    <3>2. d \in Events /\ d <= nev /\ i \in DOMAIN deps[o.ev]
      <4>1. deps[o.ev] \in Seq(Events) /\ i \in DOMAIN deps[o.ev] /\ o.ev \in Events
        BY <1>4, <1>6, <2>1 DEF TypeOK
      <4>2. i \in 1..Len(deps[o.ev])
        BY <4>1
      <4> QED BY <3>1, <4>1, <4>2, ElementOfSeq DEF NamesOK
    <3>3. Waited(t, k, d)
      BY <1>1, <1>3, <1>6, <3>1, <3>2 DEF WaitOK
    <3>4. Waited(t, k + n, d)'
      BY <3>2, <3>3, WaitedMoves
    <3>5. d = deps'[o.ev][i]
      BY <2>1, <3>1
    <3> QED BY <3>4, <3>5 DEF Waited, HandleComplete, Hard, Signalled, Finished
  <2> QED BY <2>2
<1>7. ASSUME o.op = "wfence"
      PROVE  /\ waitCount'[o.ev] = 0
             /\ \/ fence'[o.ev] # NoFence
                \/ \E l \in DOMAIN stack'[t] :
                     /\ l < k + n /\ stack'[t][l].op \in {"flush", "fpop"}
                     /\ stack'[t][l].arg = queue'[o.ev]
  <2>1. waitCount[o.ev] = 0 /\ Hard(o.ev) /\ queue'[o.ev] = queue[o.ev]
    BY <1>1, <1>3, <1>4, <1>7 DEF WaitOK, Signalled, KindsOK, Steady
  <2>2. waitCount'[o.ev] = 0
    BY <1>4, <1>7, <2>1 DEF Steady
  <2>3. CASE fence[o.ev] # NoFence
    BY <1>4, <1>7, <2>2, <2>3 DEF Steady
  <2>4. ASSUME NEW j \in DOMAIN stack[t], j < k, stack[t][j].op \in {"flush", "fpop"},
               stack[t][j].arg = queue[o.ev]
        PROVE  \/ fence'[o.ev] # NoFence
               \/ \E l \in DOMAIN stack'[t] :
                    /\ l < k + n /\ stack'[t][l].op \in {"flush", "fpop"}
                    /\ stack'[t][l].arg = queue[o.ev]
    <3>1. CASE j = 1
      <4>1. ASSUME NEW l \in 1..Len(a), a[l].op \in {"flush", "fpop"}, a[l].arg = queue[o.ev]
            PROVE  /\ l \in DOMAIN stack'[t] /\ l < k + n /\ stack'[t][l].arg = queue[o.ev]
                   /\ stack'[t][l].op \in {"flush", "fpop"}
        <5>1. l \in DOMAIN stack'[t] /\ stack'[t][l] = a[l]
          BY ContinueAt
        <5>2. l < k + n
          BY <1>2
        <5> QED BY <4>1, <5>1, <5>2
      <4> QED BY <1>2, <1>4, <1>7, <2>1, <2>4, <3>1, <4>1 DEF Replaced, Signalled
    <3>2. CASE j # 1
      <4>1. j + n \in DOMAIN stack'[t] /\ stack'[t][j + n] = stack[t][j] /\ j + n < k + n
        BY <2>4, <3>2, ContinueAt
      <4> QED BY <2>4, <4>1
    <3> QED BY <3>1, <3>2
  <2> QED BY <1>1, <1>3, <1>7, <2>1, <2>2, <2>3, <2>4 DEF WaitOK
<1>8. ASSUME o.op = "notify"
      PROVE  Waited(t, k + n, watch[o.ev])'
  <2>1. kind[o.ev] = "cb"
    BY <1>1, <1>8 DEF KindsOK
  <2>2. PICK d : d = watch[o.ev]
    OBVIOUS
  <2>3. d \in Events /\ d <= nev /\ Waited(t, k, d)
    BY <1>1, <1>3, <1>4, <1>8, <2>1, <2>2, EventsAssumption DEF NamesOK, WaitOK, TypeOK, Events
  <2>4. Waited(t, k + n, d)'
    BY <2>3, WaitedMoves
  <2>5. d = watch'[o.ev]
    BY <1>4, <1>8, <2>2 DEF Steady
  <2> QED BY <2>4, <2>5 DEF Waited, HandleComplete, Hard, Signalled, Finished
<1>9. o.op = "wend" => (Hard(o.ev)' <=> Hard(o.ev))
  BY <1>4 DEF Steady, Hard
<1> QED BY <1>2, <1>5, <1>6, <1>7, <1>8, <1>9 DEF WaitOK, Signalled

(* Another thread's step takes nothing away from a wait.                    *)
LEMMA WaitStays ==
  ASSUME TypeOK, NamesOK, KindsOK, WaitsOK, Steady, WaitedDepsKept,
         NEW u \in Threads, stack'[u] = stack[u], NEW k \in DOMAIN stack[u]
  PROVE  WaitOK(u, k)'
<1>1. PICK o : o = stack[u][k]
  OBVIOUS
<1>2. o \in Ops /\ OpOK(o) /\ WaitOK(u, k) /\ stack'[u][k] = o
  BY <1>1, SeqDomain DEF TypeOK, NamesOK, WaitsOK
<1>3. o.op \in {"wend", "wfence", "notify"} => o.ev \in Events /\ o.ev <= nev
  BY <1>2, OpTypes DEF EventOps, OpOK
<1>4. ASSUME NEW d \in Events, d <= nev, Waited(u, k, d)
      PROVE  Waited(u, k, d)'
  BY <1>4 DEF Waited, Steady
<1>5. ASSUME o.op = "wend"
      PROVE  \/ waitCount'[o.ev] = 0
             \/ \E j \in DOMAIN stack'[u] :
                  j < k /\ stack'[u][j].op = "wsig" /\ stack'[u][j].ev = o.ev
  BY <1>1, <1>2, <1>3, <1>5 DEF WaitOK, Steady, Signalled
<1>6. ASSUME o.op = "wend", ~Hard(o.ev)
      PROVE  \A i \in DOMAIN deps'[o.ev] : Waited(u, k, deps[o.ev][i])'
  <2>1. deps'[o.ev] = deps[o.ev]
    BY <1>1, <1>6 DEF WaitedDepsKept
  <2>2. ASSUME NEW i \in DOMAIN deps'[o.ev]
        PROVE  Waited(u, k, deps[o.ev][i])'
    <3>1. PICK d : d = deps[o.ev][i]
      OBVIOUS
    <3>2. d \in Events /\ d <= nev /\ i \in DOMAIN deps[o.ev]
      <4>1. deps[o.ev] \in Seq(Events) /\ i \in DOMAIN deps[o.ev] /\ o.ev \in Events
        BY <1>3, <1>6, <2>1 DEF TypeOK
      <4>2. i \in 1..Len(deps[o.ev])
        BY <4>1
      <4> QED BY <3>1, <4>1, <4>2, ElementOfSeq DEF NamesOK
    <3>3. Waited(u, k, d)
      BY <1>1, <1>2, <1>6, <3>1, <3>2 DEF WaitOK
    <3>4. Waited(u, k, d)' /\ d = deps'[o.ev][i]
      BY <1>4, <2>1, <3>1, <3>2, <3>3
    <3> QED BY <3>4 DEF Waited, HandleComplete, Hard, Signalled, Finished
  <2> QED BY <2>2
<1>7. ASSUME o.op = "wfence"
      PROVE  /\ waitCount'[o.ev] = 0
             /\ \/ fence'[o.ev] # NoFence
                \/ \E j \in DOMAIN stack'[u] :
                     /\ j < k /\ stack'[u][j].op \in {"flush", "fpop"}
                     /\ stack'[u][j].arg = queue'[o.ev]
  BY <1>1, <1>2, <1>3, <1>7 DEF WaitOK, Steady, Signalled
<1>8. ASSUME o.op = "notify"
      PROVE  Waited(u, k, watch[o.ev])'
  <2>1. kind[o.ev] = "cb"
    BY <1>1, <1>8 DEF KindsOK
  <2>2. PICK d : d = watch[o.ev]
    OBVIOUS
  <2>3. d \in Events /\ d <= nev /\ Waited(u, k, d)
    BY <1>1, <1>2, <1>3, <1>8, <2>1, <2>2, EventsAssumption DEF NamesOK, WaitOK, TypeOK, Events
  <2>4. Waited(u, k, d)'
    BY <1>4, <2>3
  <2>5. d = watch'[o.ev]
    BY <1>3, <1>8, <2>2 DEF Steady
  <2> QED BY <2>4, <2>5 DEF Waited, HandleComplete, Hard, Signalled, Finished
<1>9. o.op = "wend" => (Hard(o.ev)' <=> Hard(o.ev))
  BY <1>3 DEF Steady, Hard
<1> QED BY <1>2, <1>5, <1>6, <1>7, <1>8, <1>9 DEF WaitOK, Signalled

(* A step keeps WaitsOK if what it pushes is in order and stands for what   *)
(* it replaces.                                                             *)
LEMMA WaitsContinue ==
  ASSUME TypeOK, NamesOK, KindsOK, WaitsOK, Steady, WaitedDepsKept,
         NEW t \in Threads, stack[t] # << >>, NEW a \in Seq(Ops),
         Continue(t, a), Replaced(t, a), \A k \in 1..Len(a) : WaitOK(t, k)'
  PROVE  WaitsOK'
<1>1. ASSUME NEW u \in Threads, NEW k \in DOMAIN stack'[u]
      PROVE  WaitOK(u, k)'
  <2>1. CASE u # t
    <3>1. stack'[u] = stack[u]
      BY <2>1, ContinueAt
    <3> QED BY <3>1, WaitStays
  <2>2. CASE u = t /\ k \in 1..Len(a)
    BY <2>2
  <2>3. CASE u = t /\ k \notin 1..Len(a)
    <3>1. k > Len(a) /\ k \in Nat /\ Len(a) \in Nat
      BY <2>3, ContinueAt
    <3>2. PICK j : j = k - (Len(a) - 1)
      OBVIOUS
    <3>3. j \in DOMAIN stack[t] /\ j # 1 /\ k = j + (Len(a) - 1)
      BY <2>3, <3>1, <3>2, ContinueAt
    <3>4. WaitOK(t, j + (Len(a) - 1))'
      BY <3>3, WaitMoves
    <3> QED BY <2>3, <3>3, <3>4
  <2> QED BY <2>1, <2>2, <2>3
<1> QED BY <1>1 DEF WaitsOK

(* Operations that rely on nothing.                                         *)
LEMMA PlainWaitOK ==
  ASSUME NEW t, NEW k, stack'[t][k].op \notin {"wend", "wfence", "notify"}
  PROVE  WaitOK(t, k)'
  BY DEF WaitOK

(* A call keeps it if its body relies on nothing.                           *)
LEMMA WaitsCall ==
  ASSUME TypeOK, NamesOK, KindsOK, WaitsOK, Steady, WaitedDepsKept,
         NEW t \in Threads, NEW body, stack' = [stack EXCEPT ![t] = body],
         \A k \in DOMAIN body : body[k].op \notin {"wend", "wfence", "notify"}
  PROVE  WaitsOK'
<1>1. stack'[t] = body /\ \A u \in Threads : u # t => stack'[u] = stack[u]
  BY DEF TypeOK
<1>2. ASSUME NEW u \in Threads, NEW k \in DOMAIN stack'[u]
      PROVE  WaitOK(u, k)'
  <2>1. CASE u # t
    BY <1>1, <2>1, WaitStays
  <2>2. CASE u = t
    BY <1>1, <2>2, PlainWaitOK
  <2> QED BY <2>1, <2>2
<1> QED BY <1>2 DEF WaitsOK

LEMMA WaitsSame ==
  ASSUME TypeOK, NamesOK, KindsOK, WaitsOK, Steady, WaitedDepsKept, UNCHANGED stack
  PROVE  WaitsOK'
<1>1. ASSUME NEW u \in Threads, NEW k \in DOMAIN stack'[u]
      PROVE  WaitOK(u, k)'
  BY WaitStays
<1> QED BY <1>1 DEF WaitsOK

-----------------------------------------------------------------------------
(* What a thread knows when it gets to an operation of a wait.              *)

(* wait_signalled() has returned: the event is signalled and, if it is a    *)
(* soft one, complete.                                                      *)
LEMMA AtWaitEnd ==
  ASSUME TypeOK, NamesOK, Accounts, Waits, NEW t \in Threads, At(t, "wend")
  PROVE  LET e == Head(stack[t]).ev IN
         /\ e \in Events /\ e <= nev /\ Signalled(e) /\ status[e] = 0
         /\ Hard(e) => InQueue(e) \/ fence[e] # NoFence
         /\ ~Hard(e) => SoftComplete(e)
<1> DEFINE e == Head(stack[t]).ev
<1>1. /\ 1 \in DOMAIN stack[t] /\ Head(stack[t]) = stack[t][1]
      /\ stack[t][1].op = "wend" /\ e \in Events /\ e <= nev
  BY HeadFacts, OpTypes DEF EventOps, OpOK
<1>2. WaitOK(t, 1) /\ \A j \in DOMAIN stack[t] : ~(j < 1)
  BY <1>1, SeqDomain DEF Waits, WaitsOK, TypeOK
<1>3. Signalled(e)
  BY <1>1, <1>2 DEF WaitOK
<1>4. status[e] = 0 /\ ~ToSequence(e)
  BY <1>1, <1>3, SignalledFacts
<1>5. Hard(e) => InQueue(e) \/ fence[e] # NoFence
  BY <1>1, <1>4 DEF Waits, FencesOK
<1>6. ASSUME ~Hard(e)
      PROVE  SoftComplete(e)
  <2>1. \A i \in DOMAIN deps[e] : HandleComplete(deps[e][i])
    BY <1>1, <1>2, <1>6 DEF WaitOK, Waited
  <2> QED BY <1>3, <1>4, <2>1 DEF SoftComplete
<1> QED BY <1>1, <1>3, <1>4, <1>5, <1>6

(* flush() has returned: the event has a fence.                             *)
LEMMA AtWaitFence ==
  ASSUME TypeOK, NamesOK, Accounts, Waits, NEW t \in Threads, At(t, "wfence")
  PROVE  LET e == Head(stack[t]).ev IN
         /\ e \in Events /\ e <= nev /\ Signalled(e) /\ status[e] = 0 /\ Hard(e)
         /\ fence[e] # NoFence
<1> DEFINE e == Head(stack[t]).ev
<1>1. /\ 1 \in DOMAIN stack[t] /\ Head(stack[t]) = stack[t][1]
      /\ stack[t][1].op = "wfence" /\ e \in Events /\ e <= nev
  BY HeadFacts, OpTypes DEF EventOps, OpOK
<1>2. WaitOK(t, 1) /\ \A j \in DOMAIN stack[t] : ~(j < 1)
  BY <1>1, SeqDomain DEF Waits, WaitsOK, TypeOK
<1>3. Signalled(e) /\ fence[e] # NoFence /\ Hard(e)
  BY <1>1, <1>2 DEF WaitOK, Waits, KindsOK
<1> QED BY <1>1, <1>3, SignalledFacts

(* The action of a callback has waited for the event it reports.            *)
LEMMA AtNotify ==
  ASSUME TypeOK, NamesOK, Waits, NEW t \in Threads, At(t, "notify")
  PROVE  HandleComplete(watch[Head(stack[t]).ev])
<1>1. 1 \in DOMAIN stack[t] /\ Head(stack[t]) = stack[t][1] /\ stack[t][1].op = "notify"
  BY HeadFacts
<1>2. WaitOK(t, 1) /\ \A j \in DOMAIN stack[t] : ~(j < 1)
  BY <1>1, SeqDomain DEF Waits, WaitsOK, TypeOK
<1> QED BY <1>1, <1>2 DEF WaitOK, Waited

(* A flush that ends leaves no signalled event of its queue without fence.  *)
LEMMA FlushEnds ==
  ASSUME TypeOK, NamesOK, Accounts, Waits, NEW q \in Queues,
         queued[q] = << >> \/ ~Signalled(Head(queued[q])),
         NEW e \in Events, Hard(e), Signalled(e), queue[e] = q
  PROVE  fence[e] # NoFence
<1>1. ~ToSequence(e)
  BY SignalledFacts
<1>2. ASSUME InQueue(e)
      PROVE  FALSE
  <2>1. PICK j \in DOMAIN queued[q] : queued[q][j] = e
    BY <1>2 DEF InQueue
  <2>2. queued[q] \in Seq(Events)
    BY DEF TypeOK
  <2>3. 1 \in DOMAIN queued[q] /\ Head(queued[q]) = queued[q][1] /\ queued[q] # << >>
    BY <2>1, <2>2
  <2>4. j = 1 \/ 1 < j
    BY <2>1, <2>2
  <2>5. Signalled(queued[q][1])
    BY <2>1, <2>3, <2>4 DEF Accounts, QueueInOrder
  <2> QED BY <2>3, <2>5
<1> QED BY <1>1, <1>2 DEF Waits, FencesOK

-----------------------------------------------------------------------------
(* What the steps push.                                                     *)

Pushed(t, a) ==
  /\ a \in Seq(Ops) /\ stack[t] # << >> /\ Continue(t, a)
  /\ \A k \in 1..Len(a) :
       /\ a[k].op \notin {"chain", "seq", "ret"}
       /\ a[k].op = "wait" => Handle(a[k].ev)
       /\ a[k].op = "wend" => At(t, "wait") /\ a[k].ev = Head(stack[t]).ev
       /\ a[k].op = "wfence" => Hard(a[k].ev)
       /\ a[k].op = "notify" => kind[a[k].ev] = "cb"
       /\ a[k].op = "fpop" => At(t, "flush") /\ Len(a) = 1 /\ a[k].arg = Head(stack[t]).arg

(* Steps that are not about waiting or flushing push nothing that is.       *)
Plain(t, a) ==
  /\ a \in Seq(Ops) /\ stack[t] # << >> /\ Continue(t, a)
  /\ Head(stack[t]).op \notin {"wait", "wend", "wfence", "wsig", "flush", "fpop"}
  /\ \A k \in 1..Len(a) : a[k].op \in {"trig", "act", "dec", "abort", "aself"}

LEMMA PlainPushed ==
  ASSUME TypeOK, NEW t \in Threads, NEW a, Plain(t, a)
  PROVE  Pushed(t, a) /\ Replaced(t, a) /\ \A k \in 1..Len(a) : WaitOK(t, k)'
<1>1. Pushed(t, a) /\ Replaced(t, a)
  BY DEF Plain, Pushed, Replaced
<1>2. ASSUME NEW k \in 1..Len(a)
      PROVE  WaitOK(t, k)'
  <2>1. stack'[t][k] = a[k]
    BY ContinueAt DEF Plain
  <2> QED BY <2>1, PlainWaitOK DEF Plain
<1> QED BY <1>1, <1>2

(* The steps of constructors, triggers and aborts without a callback.       *)
LEMMA PlainSteps ==
  ASSUME TypeOK, NamesOK, Accounts, NEW t \in Threads,
         \/ Chain(t) \/ Sequence(t) \/ SetStatus(t) \/ Trigger(t) \/ TriggerSelf(t)
         \/ AbortSelf(t) \/ Notify(t) \/ Return(t)
  PROVE  \E a : Plain(t, a)
<1> DEFINE o == Head(stack[t])
<1>0. << >> \in Seq(Ops) /\ Len(<< >>) = 0
  OBVIOUS
<1>1. CASE Chain(t) \/ Sequence(t) \/ Notify(t) \/ Return(t)
  <2>1. stack[t] # << >> /\ o.op \in {"chain", "seq", "notify", "ret"} /\ Continue(t, << >>)
    BY <1>1 DEF Chain, Sequence, Notify, Return, At
  <2>2. Plain(t, << >>)
    BY <1>0, <2>1 DEF Plain
  <2> QED BY <2>2
<1>2. ASSUME NEW n \in {"trig", "act", "dec", "abort", "aself"}, NEW i \in Nat, o.ev \in Events
      PROVE  /\ <<Op(n, o.ev, i)>> \in Seq(Ops) /\ Len(<<Op(n, o.ev, i)>>) = 1
             /\ \A k \in 1..1 : <<Op(n, o.ev, i)>>[k].op = n
  <2>1. Op(n, o.ev, i) \in Ops /\ Op(n, o.ev, i).op = n
    BY <1>2, OpIsOp DEF EventOps, Op
  <2> QED BY <2>1
<1>3. CASE SetStatus(t)
  <2>1. stack[t] # << >> /\ o.op \in {"complete", "fail"} /\ o.ev \in Events
    BY <1>3, HeadTrigger DEF SetStatus, EventOps
  <2>2. CASE Continue(t, << >>)
    <3>1. Plain(t, << >>)
      BY <1>0, <2>1, <2>2 DEF Plain
    <3> QED BY <3>1
  <2>3. ASSUME NEW n \in {"abort", "trig"}, Continue(t, <<Op(n, o.ev, 0)>>)
        PROVE  Plain(t, <<Op(n, o.ev, 0)>>)
    BY <1>2, <2>1, <2>3 DEF Plain
  <2> QED BY <1>3, <2>2, <2>3 DEF SetStatus
<1>4. CASE Trigger(t)
  <2>1. stack[t] # << >> /\ o.op = "trig" /\ o.ev \in Events /\ o.arg \in Nat
    BY <1>4, HeadTrigger DEF Trigger, EventOps
  <2>2. ASSUME NEW n \in {"act", "dec"}, Continue(t, <<Op(n, o.ev, o.arg)>>)
        PROVE  Plain(t, <<Op(n, o.ev, o.arg)>>)
    BY <1>2, <2>1, <2>2 DEF Plain
  <2> QED BY <1>4, <2>2 DEF Trigger
<1>5. ASSUME NEW n \in {"trig", "abort"}, Continue(t, Fire(n, o.ev)), o.op \in {"dec", "aself"},
             stack[t] # << >>, o.ev \in Events
      PROVE  Plain(t, Fire(n, o.ev))
  <2>1. /\ Fire(n, o.ev) \in Seq(Ops)
        /\ \A k \in 1..Len(Fire(n, o.ev)) : Fire(n, o.ev)[k].op = n
    <3>1. PICK f : f = Fire(n, o.ev)
      OBVIOUS
    <3>2. /\ f \in Seq(Ops) /\ Len(f) = Len(chain[o.ev])
          /\ \A k \in 1..Len(chain[o.ev]) : f[k] = Op(n, chain[o.ev][k][1], chain[o.ev][k][2])
      BY <1>5, <3>1, FireShape
    <3>3. \A k \in 1..Len(f) : f[k].op = n
      BY <3>2, OpIsOp
    <3> QED BY <3>1, <3>2, <3>3
  <2> QED BY <1>5, <2>1 DEF Plain
<1>6. CASE TriggerSelf(t)
  <2>1. stack[t] # << >> /\ o.op = "dec" /\ o.ev \in Events
    BY <1>6, HeadTrigger DEF TriggerSelf, EventOps
  <2>2. CASE Continue(t, << >>)
    <3>1. Plain(t, << >>)
      BY <1>0, <2>1, <2>2 DEF Plain
    <3> QED BY <3>1
  <2>3. Continue(t, << >>) \/ Continue(t, Fire("trig", o.ev))
    BY <1>6 DEF TriggerSelf
  <2> QED BY <1>5, <2>1, <2>2, <2>3
<1>7. CASE AbortSelf(t)
  <2>1. stack[t] # << >> /\ o.op = "aself" /\ o.ev \in Events /\ Continue(t, Fire("abort", o.ev))
    BY <1>7, HeadTrigger DEF AbortSelf, EventOps
  <2> QED BY <1>5, <2>1
<1> QED BY <1>1, <1>3, <1>4, <1>6, <1>7

(* An action that is a callback waits before it notifies.                   *)
LEMMA ActionPushed ==
  ASSUME TypeOK, NamesOK, Waits, NEW t \in Threads, stack[t] # << >>,
         NEW e \in Events, e <= nev, NEW n \in {"dec", "aself"}, NEW i \in Nat, NEW a,
         a = ActionOps(e, Op(n, e, i)), Continue(t, a), UNCHANGED watch,
         Head(stack[t]).op \in {"act", "abort"}
  PROVE  Pushed(t, a) /\ Replaced(t, a) /\ \A k \in 1..Len(a) : WaitOK(t, k)'
<1>1. a \in Seq(Ops)
  BY CallbackShape
<1>2. Replaced(t, a)
  BY DEF Replaced
<1>3. CASE kind[e] # "cb"
  <2>1. a = <<Op(n, e, i)>>
    BY <1>3 DEF ActionOps
  <2>2. Len(a) = 1 /\ \A k \in 1..1 : a[k].op = n
    BY <2>1 DEF Op
  <2>3. Plain(t, a)
    BY <1>1, <2>2 DEF Plain
  <2> QED BY <2>3, PlainPushed
<1>4. CASE kind[e] = "cb"
  <2>1. PICK d : d = watch[e]
    OBVIOUS
  <2>2. a = <<Op("wait", d, 0), Op("notify", e, 0), Op(n, e, i)>>
    BY <1>4, <2>1 DEF ActionOps
  <2>21. PICK x, y, z : x = Op("wait", d, 0) /\ y = Op("notify", e, 0) /\ z = Op(n, e, i)
    OBVIOUS
  <2>22. a = <<x, y, z>>
    BY <2>2, <2>21
  <2>23. Len(a) = 3 /\ a[1] = x /\ a[2] = y /\ a[3] = z
    BY <2>22
  <2>3. /\ Len(a) = 3 /\ a[1].op = "wait" /\ a[1].ev = d /\ a[2].op = "notify" /\ a[2].ev = e
        /\ a[3].op = n
    BY <2>21, <2>23, OpIsOp
  <2>4. Handle(d)
    BY <1>4, <2>1 DEF Waits, KindsOK
  <2>5. Pushed(t, a)
    BY <1>1, <1>4, <2>3, <2>4 DEF Pushed
  <2>61. \A k \in 1..Len(a) : k \in DOMAIN stack'[t] /\ stack'[t][k] = a[k]
    BY <1>1, ContinueAt
  <2>6. \A k \in 1..3 : k \in DOMAIN stack'[t] /\ stack'[t][k] = a[k]
    BY <2>23, <2>61
  <2>7. WaitOK(t, 1)' /\ WaitOK(t, 3)'
    BY <2>3, <2>6, PlainWaitOK
  <2>8. WaitOK(t, 2)'
    <3>1. Waited(t, 2, d)'
      BY <2>3, <2>6 DEF Waited
    <3>2. d = watch'[e] /\ stack'[t][2].op = "notify" /\ stack'[t][2].ev = e
      BY <2>1, <2>3, <2>6
    <3> QED BY <3>1, <3>2 DEF WaitOK, Waited, HandleComplete, Hard, Signalled, Finished
  <2> QED BY <1>2, <2>3, <2>5, <2>7, <2>8
<1> QED BY <1>3, <1>4

(* wait() pushes the waits of the dependencies, and then its own rest.      *)
LEMMA WaitPushed ==
  ASSUME TypeOK, NamesOK, Waits, NEW t \in Threads, Wait(t)
  PROVE  \E a : Pushed(t, a) /\ Replaced(t, a) /\ \A k \in 1..Len(a) : WaitOK(t, k)'
<1>1. PICK e : e = Head(stack[t]).ev
  OBVIOUS
<1> DEFINE w == [k \in 1..Len(deps[e]) |-> Op("wait", deps[e][k], 0)]
           x == <<Op("wsig", e, 0), Op("wend", e, 0)>>
<1>m. PICK m : m = Len(deps[e])
  OBVIOUS
<1>2. /\ stack[t] # << >> /\ Head(stack[t]).op = "wait" /\ e \in Events /\ e <= nev
      /\ Continue(t, w \o x) /\ At(t, "wait")
  BY <1>1, HeadFacts, OpTypes DEF Wait, EventOps, OpOK
<1>3. w \o x \in Seq(Ops)
  BY <1>2, WaitOpsQuiet, QuietOpsOK
<1>4. deps[e] \in Seq(Events) /\ m \in Nat /\ DOMAIN deps[e] = 1..m
  BY <1>2, <1>m DEF TypeOK
<1>5. \A k \in 1..m : deps[e][k] \in Events /\ deps[e][k] <= nev /\ Handle(deps[e][k])
  BY <1>2, <1>4, ElementOfSeq DEF NamesOK, Waits, KindsOK
<1>6. w \in Seq(Ops) /\ Len(w) = m /\ \A k \in 1..m : w[k] = Op("wait", deps[e][k], 0)
  <2>1. w \in [1..m -> Ops]
    BY <1>m, <1>5, OpIsOp DEF EventOps
  <2> QED BY <1>m, <1>4, <2>1, SeqOfFunction
<1>7. x \in Seq(Ops) /\ Len(x) = 2 /\ x[1] = Op("wsig", e, 0) /\ x[2] = Op("wend", e, 0)
  BY <1>2, OpIsOp DEF EventOps
<1>8. PICK a : a = w \o x
  OBVIOUS
<1>9. /\ a \in Seq(Ops) /\ Len(a) = m + 2
      /\ \A k \in 1..m : a[k] = w[k]
      /\ \A k \in (m + 1)..(m + 2) : a[k] = x[k - m]
  BY <1>3, <1>6, <1>7, <1>8, Concat
<1>10. /\ \A k \in 1..m : a[k].op = "wait" /\ a[k].ev = deps[e][k]
       /\ a[m + 1].op = "wsig" /\ a[m + 1].ev = e /\ a[m + 2].op = "wend" /\ a[m + 2].ev = e
  <2>1. m + 1 \in (m + 1)..(m + 2) /\ m + 2 \in (m + 1)..(m + 2) /\ (m + 1) - m = 1 /\ (m + 2) - m = 2
    BY <1>4
  <2>2. a[m + 1] = x[1] /\ a[m + 2] = x[2]
    BY <1>9, <2>1
  <2>3. a[m + 1] = Op("wsig", e, 0) /\ a[m + 2] = Op("wend", e, 0)
    BY <1>7, <2>2
  <2>4. \A k \in 1..m : a[k] = Op("wait", deps[e][k], 0)
    BY <1>6, <1>9
  <2> HIDE DEF w, x
  <2> QED BY <2>3, <2>4, OpIsOp
<1> HIDE DEF w, x
<1>11. \A k \in 1..Len(a) : k \in 1..m \/ k = m + 1 \/ k = m + 2
  BY <1>4, <1>9
<1>12. Pushed(t, a)
  BY <1>1, <1>2, <1>5, <1>8, <1>9, <1>10, <1>11 DEF Pushed
<1>13. Replaced(t, a)
  <2>1. m + 2 \in 1..Len(a)
    BY <1>4, <1>9
  <2> QED BY <1>1, <1>2, <1>10, <2>1 DEF Replaced
<1>14. \A k \in 1..Len(a) : k \in DOMAIN stack'[t] /\ stack'[t][k] = a[k]
  BY <1>2, <1>8, <1>9, ContinueAt
<1>15. \A k \in 1..m : WaitOK(t, k)'
  <2>1. \A k \in 1..m : k \in 1..Len(a)
    BY <1>4, <1>9
  <2> QED BY <1>10, <1>14, <2>1, PlainWaitOK
<1>16. WaitOK(t, m + 1)'
  <2>1. m + 1 \in 1..Len(a)
    BY <1>4, <1>9
  <2> QED BY <1>10, <1>14, <2>1, PlainWaitOK
<1>17. WaitOK(t, m + 2)'
  <2>1. PICK p : p = m + 2
    OBVIOUS
  <2>2. /\ p \in DOMAIN stack'[t] /\ stack'[t][p].op = "wend" /\ stack'[t][p].ev = e
        /\ m + 1 \in DOMAIN stack'[t] /\ m + 1 < p
        /\ stack'[t][m + 1].op = "wsig" /\ stack'[t][m + 1].ev = e
    <3>1. m + 2 \in 1..Len(a) /\ m + 1 \in 1..Len(a) /\ m + 1 < m + 2
      BY <1>4, <1>9
    <3> QED BY <1>10, <1>14, <2>1, <3>1
  <2>3. deps' = deps
    BY DEF Wait, graphVars
  <2>4. ASSUME NEW i \in DOMAIN deps'[e]
        PROVE  Waited(t, p, deps[e][i])'
    <3>1. PICK d : d = deps[e][i]
      OBVIOUS
    <3>2. i \in 1..m /\ i \in 1..Len(a) /\ i < p
      BY <1>4, <1>9, <2>1, <2>3
    <3>3. i \in DOMAIN stack'[t] /\ stack'[t][i].op = "wait" /\ stack'[t][i].ev = d
      BY <1>10, <1>14, <3>1, <3>2
    <3>4. d = deps'[e][i]
      BY <2>3, <3>1
    <3> QED BY <3>2, <3>3, <3>4 DEF Waited
  <2>5. WaitOK(t, p)'
    BY <2>2, <2>4 DEF WaitOK
  <2> QED BY <2>1, <2>5
<1> QED BY <1>11, <1>12, <1>13, <1>15, <1>16, <1>17

(* Removing the first operation is in order if what it stood for is true.   *)
LEMMA Popped ==
  ASSUME TypeOK, NEW t \in Threads, stack[t] # << >>, Continue(t, << >>), Replaced(t, << >>)
  PROVE  \E a : Pushed(t, a) /\ Replaced(t, a) /\ \A k \in 1..Len(a) : WaitOK(t, k)'
<1>1. << >> \in Seq(Ops) /\ Len(<< >>) = 0 /\ \A k \in 1..Len(<< >>) : FALSE
  OBVIOUS
<1>2. Pushed(t, << >>)
  BY <1>1 DEF Pushed
<1> QED BY <1>1, <1>2

(* The rest of wait(), which throws nothing.                                *)
LEMMA WaitRestPushed ==
  ASSUME TypeOK, NamesOK, Accounts, Waits, NEW t \in Threads,
         WaitSignalled(t) \/ WaitEnd(t) \/ WaitFence(t)
  PROVE  \E a : Pushed(t, a) /\ Replaced(t, a) /\ \A k \in 1..Len(a) : WaitOK(t, k)'
<1> USE DEF graphVars, deviceVars, identVars
<1>0. UNCHANGED <<waitCount, cmd, fence, queued, kind, queue, status, deps>>
  BY DEF WaitSignalled, WaitEnd, WaitFence
<1>1. PICK e : e = Head(stack[t]).ev
  OBVIOUS
<1>2. ASSUME e \in Events, HandleComplete(e)
      PROVE  HandleComplete(e)'
  BY <1>0, <1>2 DEF HandleComplete, Hard, Signalled, Finished
<1>3. CASE WaitSignalled(t)
  <2>1. stack[t] # << >> /\ Head(stack[t]).op = "wsig" /\ waitCount[e] = 0 /\ Continue(t, << >>)
    BY <1>1, <1>3 DEF WaitSignalled, At, Signalled
  <2>2. Replaced(t, << >>)
    BY <1>0, <1>1, <2>1 DEF Replaced
  <2> QED BY <2>1, <2>2, Popped
<1>4. CASE WaitFence(t)
  <2>1. /\ At(t, "wfence") /\ stack[t] # << >> /\ Head(stack[t]).op = "wfence"
        /\ e \in Events /\ fence[e] # NoFence /\ Hard(e) /\ status[e] = 0
    BY <1>1, <1>4, AtWaitFence DEF WaitFence, At
  <2>2. Finished(fence[e]) /\ Continue(t, << >>)
    BY <1>1, <1>4, <2>1 DEF WaitFence
  <2>3. HandleComplete(e)'
    BY <1>2, <2>1, <2>2 DEF HandleComplete
  <2>4. Replaced(t, << >>)
    BY <1>1, <2>1, <2>3 DEF Replaced
  <2> QED BY <2>1, <2>2, <2>4, Popped
<1>5. CASE WaitEnd(t)
  <2>1. /\ At(t, "wend") /\ stack[t] # << >> /\ Head(stack[t]).op = "wend"
        /\ e \in Events /\ e <= nev /\ Signalled(e) /\ status[e] = 0
        /\ Hard(e) => InQueue(e) \/ fence[e] # NoFence
        /\ ~Hard(e) => SoftComplete(e)
    BY <1>1, <1>5, AtWaitEnd DEF WaitEnd, At
  <2>2. CASE ~Hard(e)
    <3>1. Continue(t, << >>)
      BY <1>1, <1>5, <2>1, <2>2 DEF WaitEnd
    <3>2. HandleComplete(e)'
      BY <1>2, <2>1, <2>2 DEF HandleComplete
    <3>3. Replaced(t, << >>)
      BY <1>1, <2>1, <3>2 DEF Replaced
    <3> QED BY <2>1, <3>1, <3>3, Popped
  <2>3. CASE Hard(e)
    <3>1. PICK q : q = queue[e]
      OBVIOUS
    <3>2. q \in Queues
      BY <2>1, <2>3, <3>1 DEF NamesOK
    <3>3. PICK x, y : x = Op("flush", 0, q) /\ y = Op("wfence", e, 0)
      OBVIOUS
    <3>4. /\ x \in Ops /\ y \in Ops /\ x.op = "flush" /\ x.arg = q
          /\ y.op = "wfence" /\ y.ev = e
      BY <2>1, <3>2, <3>3, OpIsOp DEF EventOps
    <3>5. Continue(t, (IF fence[e] = NoFence THEN <<x>> ELSE << >>) \o <<y>>)
      BY <1>1, <1>5, <2>1, <2>3, <3>1, <3>3 DEF WaitEnd
    <3>6. << >> \o <<y>> = <<y>>
      BY <3>4, ConcatEmptySeq
    <3>7. CASE fence[e] = NoFence
      <4>1. PICK a : a = <<x>> \o <<y>>
        OBVIOUS
      <4>2. Continue(t, a)
        BY <3>5, <3>7, <4>1
      <4>3. /\ a \in Seq(Ops) /\ Len(a) = 2 /\ a[1] = x /\ a[2] = y
        <5>1. /\ <<x>> \in Seq(Ops) /\ Len(<<x>>) = 1 /\ <<x>>[1] = x
              /\ <<y>> \in Seq(Ops) /\ Len(<<y>>) = 1 /\ <<y>>[1] = y
          BY <3>4
        <5>2. /\ a \in Seq(Ops) /\ Len(a) = 1 + 1
              /\ \A j \in 1..1 : a[j] = <<x>>[j]
              /\ \A j \in 2..2 : a[j] = <<y>>[j - 1]
          BY <4>1, <5>1, Concat
        <5> QED BY <5>1, <5>2
      <4>4. \A k \in 1..Len(a) : k = 1 \/ k = 2
        BY <4>3
      <4>5. Pushed(t, a)
        BY <2>1, <2>3, <3>4, <4>2, <4>3, <4>4 DEF Pushed
      <4>6. Replaced(t, a)
        <5>1. 2 \in 1..Len(a) /\ a[2].op = "wfence" /\ a[2].ev = e
          BY <3>4, <4>3
        <5> QED BY <1>1, <2>1, <5>1 DEF Replaced
      <4>7. \A k \in 1..Len(a) : k \in DOMAIN stack'[t] /\ stack'[t][k] = a[k]
        BY <2>1, <4>2, <4>3, ContinueAt
      <4>8. 1 \in DOMAIN stack'[t] /\ 2 \in DOMAIN stack'[t] /\ stack'[t][1] = x /\ stack'[t][2] = y
        BY <4>3, <4>7
      <4>9. WaitOK(t, 1)'
        BY <3>4, <4>8, PlainWaitOK
      <4>10. WaitOK(t, 2)'
        <5>1. waitCount'[e] = 0 /\ queue'[e] = q
          BY <1>0, <2>1, <3>1 DEF Signalled
        <5>2. 1 < 2 /\ stack'[t][1].op \in {"flush", "fpop"} /\ stack'[t][1].arg = queue'[e]
          BY <3>4, <4>8, <5>1
        <5> QED BY <3>4, <4>8, <5>1, <5>2 DEF WaitOK, Signalled
      <4> QED BY <4>4, <4>5, <4>6, <4>9, <4>10
    <3>8. CASE fence[e] # NoFence
      <4>1. PICK a : a = <<y>>
        OBVIOUS
      <4>2. Continue(t, a)
        BY <3>5, <3>6, <3>8, <4>1
      <4>3. /\ a \in Seq(Ops) /\ Len(a) = 1 /\ a[1] = y
        BY <3>4, <4>1
      <4>4. \A k \in 1..Len(a) : k = 1
        BY <4>3
      <4>5. Pushed(t, a)
        BY <2>1, <2>3, <3>4, <4>2, <4>3, <4>4 DEF Pushed
      <4>6. Replaced(t, a)
        <5>1. 1 \in 1..Len(a) /\ a[1].op = "wfence" /\ a[1].ev = e
          BY <3>4, <4>3
        <5> QED BY <1>1, <2>1, <5>1 DEF Replaced
      <4>7. \A k \in 1..Len(a) : k \in DOMAIN stack'[t] /\ stack'[t][k] = a[k]
        BY <2>1, <4>2, <4>3, ContinueAt
      <4>8. 1 \in DOMAIN stack'[t] /\ stack'[t][1] = y
        BY <4>3, <4>7
      <4>9. WaitOK(t, 1)'
        <5>1. waitCount'[e] = 0 /\ fence'[e] # NoFence
          BY <1>0, <2>1, <3>8 DEF Signalled
        <5> QED BY <3>4, <4>8, <5>1 DEF WaitOK, Signalled
      <4> QED BY <4>4, <4>5, <4>6, <4>9
    <3> QED BY <3>7, <3>8
  <2> QED BY <2>2, <2>3
<1> QED BY <1>3, <1>4, <1>5

(* flush() and its loop.                                                    *)
LEMMA FlushPushed ==
  ASSUME TypeOK, NamesOK, Accounts, Waits, NEW t \in Threads, Flush(t) \/ FlushPop(t)
  PROVE  \/ FlushPop(t) /\ UNCHANGED stack
         \/ \E a : Pushed(t, a) /\ Replaced(t, a) /\ \A k \in 1..Len(a) : WaitOK(t, k)'
<1> USE DEF graphVars, deviceVars, identVars
<1>1. PICK q : q = Head(stack[t]).arg
  OBVIOUS
<1>2. /\ stack[t] # << >> /\ q \in Queues /\ Head(stack[t]).op \in {"flush", "fpop"}
      /\ Flush(t) => At(t, "flush")
  BY <1>1, HeadFacts, OpTypes DEF Flush, FlushPop
<1>3. ASSUME queued[q] = << >> \/ ~Signalled(Head(queued[q])), UNCHANGED fence, Continue(t, << >>)
      PROVE  \E a : Pushed(t, a) /\ Replaced(t, a) /\ \A k \in 1..Len(a) : WaitOK(t, k)'
  <2>1. \A e \in Events : Hard(e) /\ Signalled(e) /\ queue[e] = q => fence'[e] # NoFence
    BY <1>2, <1>3, FlushEnds
  <2>2. Replaced(t, << >>)
    BY <1>1, <1>2, <2>1 DEF Replaced
  <2> QED BY <1>2, <1>3, <2>2, Popped
<1>4. CASE Flush(t) /\ queued[q] = << >>
  BY <1>1, <1>3, <1>4 DEF Flush
<1>5. CASE Flush(t) /\ queued[q] # << >>
  <2>1. PICK x : x = Op("fpop", 0, q)
    OBVIOUS
  <2>2. PICK a : a = <<x>>
    OBVIOUS
  <2>3. x \in Ops /\ x.op = "fpop" /\ x.arg = q
    BY <1>2, <2>1, OpIsOp
  <2>4. /\ a \in Seq(Ops) /\ Len(a) = 1 /\ a[1] = x
    BY <2>2, <2>3
  <2>5. Continue(t, a)
    BY <1>1, <1>5, <2>1, <2>2 DEF Flush
  <2>6. \A k \in 1..Len(a) : k = 1
    BY <2>4
  <2>7. Pushed(t, a)
    BY <1>1, <1>2, <1>5, <2>3, <2>4, <2>5, <2>6 DEF Pushed
  <2>8. Replaced(t, a)
    <3>1. 1 \in 1..Len(a) /\ a[1].op = "fpop" /\ a[1].arg = Head(stack[t]).arg
      BY <1>1, <2>3, <2>4
    <3> QED BY <1>2, <3>1 DEF Replaced
  <2>9. \A k \in 1..Len(a) : k \in DOMAIN stack'[t] /\ stack'[t][k] = a[k]
    BY <1>2, <2>4, <2>5, ContinueAt
  <2>10. \A k \in 1..Len(a) : WaitOK(t, k)'
    BY <2>3, <2>4, <2>6, <2>9, PlainWaitOK
  <2> QED BY <2>7, <2>8, <2>10
<1>6. CASE FlushPop(t)
  BY <1>1, <1>3, <1>6 DEF FlushPop
<1> QED BY <1>4, <1>5, <1>6

(* Every step but a turn of the loop of flush() replaces the first          *)
(* operation of its thread in such a way.                                   *)
LEMMA StepPushes ==
  ASSUME TypeOK, NamesOK, Accounts, Waits, NEW t \in Threads, Step(t)
  PROVE  \/ FlushPop(t) /\ UNCHANGED stack
         \/ \E a : Pushed(t, a) /\ Replaced(t, a) /\ \A k \in 1..Len(a) : WaitOK(t, k)'
<1> USE DEF graphVars, deviceVars, identVars
<1>1. CASE \/ Chain(t) \/ Sequence(t) \/ SetStatus(t) \/ Trigger(t) \/ TriggerSelf(t)
           \/ AbortSelf(t) \/ Notify(t) \/ Return(t)
  <2>1. PICK a : Plain(t, a)
    BY <1>1, PlainSteps
  <2> QED BY <2>1, PlainPushed
<1>2. CASE Act(t) \/ Abort(t)
  <2>1. PICK e, i, n : /\ e = Head(stack[t]).ev /\ i = Head(stack[t]).arg
                       /\ n = IF Act(t) THEN "dec" ELSE "aself"
    OBVIOUS
  <2>2. /\ stack[t] # << >> /\ Head(stack[t]).op \in {"act", "abort"}
        /\ e \in Events /\ e <= nev /\ i \in Nat
    BY <1>2, <2>1, HeadFacts, OpTypes DEF Act, Abort, EventOps, OpOK
  <2>3. PICK a : a = ActionOps(e, Op(n, e, i))
    OBVIOUS
  <2>4. Continue(t, a) /\ UNCHANGED watch
    BY <1>2, <2>1, <2>3 DEF Act, Abort
  <2>5. n \in {"dec", "aself"}
    BY <2>1
  <2> QED BY <2>2, <2>3, <2>4, <2>5, ActionPushed
<1>3. CASE Wait(t)
  BY <1>3, WaitPushed
<1>4. CASE WaitSignalled(t) \/ WaitEnd(t) \/ WaitFence(t)
  BY <1>4, WaitRestPushed
<1>5. CASE Flush(t) \/ FlushPop(t)
  BY <1>5, FlushPushed
<1> QED BY <1>1, <1>2, <1>3, <1>4, <1>5 DEF Step

(* So a step keeps WaitsOK.                                                 *)
LEMMA WaitsStep ==
  ASSUME TypeOK, NamesOK, Accounts, Waits, Steady, WaitedDepsKept, NEW t \in Threads, Step(t)
  PROVE  WaitsOK'
<1>1. CASE UNCHANGED stack
  BY <1>1, WaitsSame DEF Waits
<1>2. ASSUME NEW a, Pushed(t, a), Replaced(t, a), \A k \in 1..Len(a) : WaitOK(t, k)'
      PROVE  WaitsOK'
  BY <1>2, WaitsContinue DEF Pushed, Waits
<1> QED BY <1>1, <1>2, StepPushes

-----------------------------------------------------------------------------
(* The other parts of the invariant, across a step.                         *)

(* An operation on a stack is a pushed one, or was there before.            *)
LEMMA Kept ==
  ASSUME TypeOK, NEW t \in Threads, NEW a, Pushed(t, a),
         NEW u \in Threads, NEW k \in DOMAIN stack'[u]
  PROVE  /\ k \in Nat
         /\ \/ u = t /\ k \in 1..Len(a) /\ stack'[u][k] = a[k]
            \/ /\ Origin(t, Len(a) - 1, u, k) \in DOMAIN stack[u]
               /\ stack'[u][k] = stack[u][Origin(t, Len(a) - 1, u, k)]
               /\ u = t => Origin(t, Len(a) - 1, u, k) # 1
<1>1. a \in Seq(Ops) /\ stack[t] # << >> /\ Continue(t, a)
  BY DEF Pushed
<1>2. CASE u # t
  <2>1. stack'[u] = stack[u]
    BY <1>1, <1>2, ContinueAt
  <2>2. k \in Nat
    BY <2>1, SeqDomain DEF TypeOK
  <2> QED BY <1>2, <2>1, <2>2 DEF Origin
<1>3. CASE u = t /\ k > Len(a)
  BY <1>1, <1>3, ContinueAt DEF Origin
<1>4. CASE u = t /\ ~(k > Len(a))
  <2>1. k \in Nat /\ k >= 1 /\ Len(a) \in Nat
    BY <1>1, <1>4, ContinueAt
  <2>2. k \in 1..Len(a)
    BY <1>4, <2>1
  <2> QED BY <1>1, <1>4, <2>1, <2>2, ContinueAt
<1> QED BY <1>2, <1>3, <1>4

(* No wait starts before its event's constructor is through.                *)
LEMMA ConstructedFirstStep ==
  ASSUME TypeOK, NamesOK, Waits, NEW t \in Threads, NEW a, Pushed(t, a), UNCHANGED kind
  PROVE  ConstructedFirst'
<1> DEFINE n == Len(a) - 1
<1>1. SUFFICES ASSUME NEW v \in Threads, NEW u \in Threads,
                      NEW k \in DOMAIN stack'[v], NEW l \in DOMAIN stack'[u],
                      stack'[u][l].op = "chain", stack'[u][l].ev = stack'[v][k].ev,
                      stack'[v][k].op \in {"wait", "wend"}, ~Hard(stack'[v][k].ev)
               PROVE  stack'[v][k].op = "wait" /\ u = v /\ l < k
  BY DEF ConstructedFirst, Hard
<1>2. PICK e : e = stack'[v][k].ev
  OBVIOUS
<1>3. PICK lo : lo = Origin(t, n, u, l)
  OBVIOUS
<1>4. PICK ko : ko = Origin(t, n, v, k)
  OBVIOUS
<1>5. lo \in DOMAIN stack[u] /\ stack'[u][l] = stack[u][lo] /\ (u = t => lo # 1) /\ l \in Nat
  BY <1>1, <1>3, Kept DEF Pushed
<1>6. lo \in Nat /\ lo >= 1 /\ OpOK(stack[u][lo])
  BY <1>5, SeqDomain DEF TypeOK, NamesOK
<1>7. kind[e] # "user"
  BY <1>1, <1>2, <1>5, <1>6 DEF OpOK
<1>8. ConstructedFirst
  BY DEF Waits
<1>9. CASE v = t /\ k \in 1..Len(a) /\ stack'[v][k] = a[k]
  <2>1. a[k].op # "wait"
    BY <1>1, <1>2, <1>7, <1>9 DEF Pushed, Handle
  <2>2. a[k].op = "wend" /\ At(t, "wait") /\ e = Head(stack[t]).ev
    BY <1>1, <1>2, <1>9, <2>1 DEF Pushed
  <2>3. 1 \in DOMAIN stack[t] /\ Head(stack[t]) = stack[t][1] /\ stack[t][1].op = "wait"
    BY <2>2, HeadFacts
  <2>4. lo < 1
    BY <1>1, <1>2, <1>5, <1>8, <2>2, <2>3 DEF ConstructedFirst
  <2> QED BY <1>6, <2>4
<1>10. CASE ko \in DOMAIN stack[v] /\ stack'[v][k] = stack[v][ko]
  <2>1. stack[v][ko].op = "wait" /\ u = v /\ lo < ko
    BY <1>1, <1>5, <1>8, <1>10 DEF ConstructedFirst
  <2>2. ko \in Nat /\ k \in Nat /\ Len(a) \in Nat
    <3>1. ko \in Nat
      BY <1>10, SeqDomain DEF TypeOK
    <3>2. k \in Nat
      BY Kept
    <3>3. Len(a) \in Nat
      BY DEF Pushed
    <3> QED BY <3>1, <3>2, <3>3
  <2>3. l < k
    BY <1>3, <1>4, <1>5, <1>6, <2>1, <2>2 DEF Origin
  <2> QED BY <1>10, <2>1, <2>3
<1> QED BY <1>1, <1>4, <1>9, <1>10, Kept

(* What is on the stacks is about events of the right kind.                 *)
LEMMA KindsStack ==
  ASSUME TypeOK, NamesOK, Waits, NEW t \in Threads, NEW a, Pushed(t, a), UNCHANGED kind,
         NEW u \in Threads, NEW k \in DOMAIN stack'[u]
  PROVE  /\ stack'[u][k].op = "chain" => Handle(stack'[u][k].arg)
         /\ stack'[u][k].op \in {"ret", "wfence"} => Hard(stack'[u][k].ev)
         /\ stack'[u][k].op = "notify" => kind[stack'[u][k].ev] = "cb"
<1>1. CASE u = t /\ k \in 1..Len(a) /\ stack'[u][k] = a[k]
  BY <1>1 DEF Pushed
<1>2. ASSUME NEW j \in DOMAIN stack[u], stack'[u][k] = stack[u][j]
      PROVE  /\ stack'[u][k].op = "chain" => Handle(stack'[u][k].arg)
             /\ stack'[u][k].op \in {"ret", "wfence"} => Hard(stack'[u][k].ev)
             /\ stack'[u][k].op = "notify" => kind[stack'[u][k].ev] = "cb"
  BY <1>2 DEF Waits, KindsOK
<1> QED BY <1>1, <1>2, Kept

(* A dependency added by a constructor is one the application can name.     *)
LEMMA KindsDeps ==
  ASSUME TypeOK, NamesOK, Waits, NEW t \in Threads, Step(t)
  PROVE  \A e \in Events : \A i \in DOMAIN deps'[e] : Handle(deps'[e][i])
<1> USE DEF graphVars, deviceVars, identVars
<1>1. ASSUME NEW d \in Events, Handle(d), NEW x \in Events, deps' = [deps EXCEPT ![x] = Append(@, d)]
      PROVE  \A e \in Events : \A i \in DOMAIN deps'[e] : Handle(deps'[e][i])
  <2>1. SUFFICES ASSUME NEW e \in Events, NEW i \in DOMAIN deps'[e]
                 PROVE  Handle(deps'[e][i])
    OBVIOUS
  <2>2. CASE e # x
    <3>1. deps'[e] = deps[e]
      BY <1>1, <2>2 DEF TypeOK
    <3> QED BY <2>1, <3>1 DEF Waits, KindsOK
  <2>3. CASE e = x
    <3>1. deps[x] \in Seq(Events) /\ deps'[x] = Append(deps[x], d)
      BY <1>1 DEF TypeOK
    <3>2. /\ Len(deps[x]) \in Nat /\ DOMAIN deps[x] = 1..Len(deps[x])
          /\ DOMAIN deps'[x] = 1..(Len(deps[x]) + 1)
          /\ \A j \in 1..Len(deps[x]) : deps'[x][j] = deps[x][j]
          /\ deps'[x][Len(deps[x]) + 1] = d
      BY <3>1, AppendProperties
    <3>3. i \in DOMAIN deps[x] \/ i = Len(deps[x]) + 1
      BY <2>1, <2>3, <3>2
    <3> QED BY <1>1, <2>3, <3>2, <3>3 DEF Waits, KindsOK
  <2> QED BY <2>2, <2>3
<1>2. CASE Chain(t)
  <2>1. PICK x, d : x = Head(stack[t]).ev /\ d = Head(stack[t]).arg
    OBVIOUS
  <2>2. x \in Events /\ d \in Events /\ Handle(d)
    BY <1>2, <2>1, HeadFacts, OpTypes DEF Chain, Waits, KindsOK
  <2>3. deps' = [deps EXCEPT ![x] = Append(@, d)]
    BY <1>2, <2>1 DEF Chain, ChainTo
  <2> QED BY <1>1, <2>2, <2>3
<1>3. CASE Sequence(t) /\ deps' # deps
  <2>1. PICK x, q, d : x = Head(stack[t]).ev /\ q = queue[x] /\ d = queued[q][Len(queued[q])]
    OBVIOUS
  <2>2. x \in Events /\ q \in Queues
    BY <1>3, <2>1, HeadFacts, OpTypes DEF Sequence, OpOK, NamesOK, EventOps
  <2>3. queued[q] # << >> /\ deps' = [deps EXCEPT ![x] = Append(@, d)]
    BY <1>3, <2>1 DEF Sequence, ChainTo
  <2>4. /\ queued[q] \in Seq(Events) /\ Len(queued[q]) \in 1..Len(queued[q])
        /\ Len(queued[q]) \in DOMAIN queued[q]
    <3>1. queued[q] \in Seq(Events)
      BY <2>2 DEF TypeOK
    <3>2. Len(queued[q]) \in Nat /\ Len(queued[q]) # 0 /\ DOMAIN queued[q] = 1..Len(queued[q])
      BY <2>3, <3>1, EmptySeq
    <3> QED BY <3>1, <3>2
  <2>5. d \in Events /\ Handle(d)
    BY <2>1, <2>2, <2>4, ElementOfSeq DEF Waits, KindsOK, Handle
  <2> QED BY <1>1, <2>2, <2>3, <2>5
<1>4. CASE deps' = deps
  BY <1>4 DEF Waits, KindsOK
<1>5. CASE ~Chain(t) /\ ~Sequence(t)
  <2>1. deps' = deps
    BY <1>5 DEF Step, SetStatus, Trigger, Act, TriggerSelf, Abort, AbortSelf, Wait,
           WaitSignalled, WaitEnd, WaitFence, Flush, FlushPop, Notify, Return
  <2> QED BY <1>4, <2>1
<1> QED BY <1>2, <1>3, <1>4, <1>5

(* The elements of a tail.                                                  *)
LEMMA TailFacts ==
  ASSUME NEW S, NEW s \in Seq(S), s # << >>
  PROVE  /\ Head(s) = s[1] /\ 1 \in DOMAIN s
         /\ \A j \in DOMAIN Tail(s) : j + 1 \in DOMAIN s /\ Tail(s)[j] = s[j + 1] /\ j + 1 # 1
         /\ \A i \in DOMAIN s : i # 1 => i - 1 \in DOMAIN Tail(s) /\ Tail(s)[i - 1] = s[i]
<1>1. /\ Tail(s) \in Seq(S) /\ Len(Tail(s)) = Len(s) - 1 /\ Head(s) = s[1]
      /\ \A j \in 1..(Len(s) - 1) : Tail(s)[j] = s[j + 1]
  BY HeadTailProperties
<1>2. Len(s) \in Nat /\ Len(s) # 0 /\ DOMAIN s = 1..Len(s) /\ DOMAIN Tail(s) = 1..(Len(s) - 1)
  BY <1>1, EmptySeq
<1>3. ASSUME NEW i \in DOMAIN s, i # 1
      PROVE  i - 1 \in DOMAIN Tail(s) /\ Tail(s)[i - 1] = s[i]
  <2>1. i - 1 \in 1..(Len(s) - 1) /\ (i - 1) + 1 = i
    BY <1>2, <1>3
  <2>2. Tail(s)[i - 1] = s[(i - 1) + 1]
    BY <1>1, <2>1
  <2> QED BY <1>2, <2>1, <2>2
<1>4. ASSUME NEW j \in DOMAIN Tail(s)
      PROVE  j + 1 \in DOMAIN s /\ Tail(s)[j] = s[j + 1] /\ j + 1 # 1
  BY <1>1, <1>2, <1>4
<1> QED BY <1>1, <1>2, <1>3, <1>4

(* A queue holds hard events that belong to it.                             *)
LEMMA KindsQueued ==
  ASSUME TypeOK, NamesOK, Waits, NEW t \in Threads, Step(t)
  PROVE  \A q \in Queues : \A j \in DOMAIN queued'[q] :
           Hard(queued'[q][j]) /\ queue[queued'[q][j]] = q
<1> USE DEF graphVars, deviceVars, identVars
<1>1. CASE queued' = queued
  BY <1>1 DEF Waits, KindsOK
<1>2. CASE Sequence(t)
  <2>1. PICK x, p : x = Head(stack[t]).ev /\ p = queue[x]
    OBVIOUS
  <2>2. x \in Events /\ p \in Queues /\ Hard(x)
    BY <1>2, <2>1, HeadFacts, OpTypes DEF Sequence, OpOK, NamesOK, EventOps
  <2>3. queued' = [queued EXCEPT ![p] = Append(@, x)]
    BY <1>2, <2>1 DEF Sequence
  <2>4. SUFFICES ASSUME NEW q \in Queues, NEW j \in DOMAIN queued'[q]
                 PROVE  Hard(queued'[q][j]) /\ queue[queued'[q][j]] = q
    OBVIOUS
  <2>5. CASE q # p
    <3>1. queued'[q] = queued[q]
      BY <2>3, <2>5 DEF TypeOK
    <3> QED BY <2>4, <3>1 DEF Waits, KindsOK
  <2>6. CASE q = p
    <3>1. queued[p] \in Seq(Events) /\ queued'[p] = Append(queued[p], x)
      BY <2>2, <2>3 DEF TypeOK
    <3>2. /\ Len(queued[p]) \in Nat /\ DOMAIN queued[p] = 1..Len(queued[p])
          /\ DOMAIN queued'[p] = 1..(Len(queued[p]) + 1)
          /\ \A i \in 1..Len(queued[p]) : queued'[p][i] = queued[p][i]
          /\ queued'[p][Len(queued[p]) + 1] = x
      BY <2>2, <3>1, AppendProperties
    <3>3. j \in DOMAIN queued[p] \/ j = Len(queued[p]) + 1
      BY <2>4, <2>6, <3>2
    <3>4. CASE j \in DOMAIN queued[p]
      <4>1. queued'[p][j] = queued[p][j]
        BY <3>2, <3>4
      <4>2. Hard(queued[p][j]) /\ queue[queued[p][j]] = p
        <5>1. KindsOK
          BY SMTT(30) DEF Waits
        <5> QED BY <2>2, <3>4, <5>1 DEF KindsOK
      <4> QED BY <2>6, <4>1, <4>2
    <3>5. CASE j = Len(queued[p]) + 1
      BY <2>1, <2>2, <2>6, <3>2, <3>5
    <3> QED BY <3>3, <3>4, <3>5
  <2> QED BY <2>5, <2>6
<1>3. CASE FlushPop(t) /\ queued' # queued
  <2>1. PICK p : p = Head(stack[t]).arg
    OBVIOUS
  <2>2. p \in Queues
    BY <1>3, <2>1, HeadFacts, OpTypes DEF FlushPop
  <2>3. queued[p] # << >> /\ queued' = [queued EXCEPT ![p] = Tail(@)]
    BY <1>3, <2>1 DEF FlushPop
  <2>4. SUFFICES ASSUME NEW q \in Queues, NEW j \in DOMAIN queued'[q]
                 PROVE  Hard(queued'[q][j]) /\ queue[queued'[q][j]] = q
    OBVIOUS
  <2>5. CASE q # p
    <3>1. queued'[q] = queued[q]
      BY <2>3, <2>5 DEF TypeOK
    <3> QED BY <2>4, <3>1 DEF Waits, KindsOK
  <2>6. CASE q = p
    <3>1. queued[p] \in Seq(Events) /\ queued'[p] = Tail(queued[p])
      BY <2>2, <2>3 DEF TypeOK
    <3>2. j \in DOMAIN Tail(queued[p])
      BY <2>4, <2>6, <3>1
    <3>3. j + 1 \in DOMAIN queued[p] /\ Tail(queued[p])[j] = queued[p][j + 1]
      BY <2>3, <3>1, <3>2, TailFacts
    <3>4. Hard(queued[p][j + 1]) /\ queue[queued[p][j + 1]] = p
      <4>1. KindsOK
        BY DEF Waits
      <4> QED BY <2>2, <3>3, <4>1 DEF KindsOK
    <3> QED BY <2>6, <3>1, <3>3, <3>4
  <2> QED BY <2>5, <2>6
<1>4. CASE ~Sequence(t) /\ ~FlushPop(t)
  <2>1. queued' = queued
    BY <1>4 DEF Step, Chain, SetStatus, Trigger, Act, TriggerSelf, Abort, AbortSelf, Wait,
           WaitSignalled, WaitEnd, WaitFence, Flush, Notify, Return
  <2> QED BY <1>1, <2>1, SMTT(30)
<1> QED BY <1>1, <1>2, <1>3, <1>4

LEMMA KindsStep ==
  ASSUME TypeOK, NamesOK, Accounts, Waits, NEW t \in Threads, Step(t)
  PROVE  KindsOK' /\ ConstructedFirst'
<1>1. UNCHANGED <<nev, kind, queue, watch>>
  BY StepConstructsNone
<1>2. \A e \in published' : Handle(e)
  <2>1. CASE Return(t)
    <3>1. Hard(Head(stack[t]).ev)
      BY <2>1, HeadFacts DEF Return, Waits, KindsOK
    <3> QED BY <2>1, <3>1 DEF Return, Waits, KindsOK, Handle
  <2>2. CASE ~Return(t)
    <3>1. published' = published
      BY <2>2 DEF Step, Chain, Sequence, SetStatus, Trigger, Act, TriggerSelf, Abort, AbortSelf, Wait,
             WaitSignalled, WaitEnd, WaitFence, Flush, FlushPop, Notify, identVars
    <3> QED BY <3>1 DEF Waits, KindsOK
  <2> QED BY <2>1, <2>2
<1>3. \A e \in Events : \A i \in DOMAIN deps'[e] : Handle(deps'[e][i])
  BY KindsDeps
<1>4. \A e \in Events : kind[e] = "cb" => Handle(watch[e])
  BY DEF Waits, KindsOK
<1>5. \A q \in Queues : \A j \in DOMAIN queued'[q] :
        Hard(queued'[q][j]) /\ queue[queued'[q][j]] = q
  BY KindsQueued
<1>6. /\ \A u \in Threads : \A k \in DOMAIN stack'[u] :
           /\ stack'[u][k].op = "chain" => Handle(stack'[u][k].arg)
           /\ stack'[u][k].op \in {"ret", "wfence"} => Hard(stack'[u][k].ev)
           /\ stack'[u][k].op = "notify" => kind[stack'[u][k].ev] = "cb"
      /\ ConstructedFirst'
  <2>1. CASE UNCHANGED stack
    BY <1>1, <2>1 DEF Waits, KindsOK, ConstructedFirst, Hard
  <2>2. ASSUME NEW a, Pushed(t, a)
        PROVE  /\ \A u \in Threads : \A k \in DOMAIN stack'[u] :
                    /\ stack'[u][k].op = "chain" => Handle(stack'[u][k].arg)
                    /\ stack'[u][k].op \in {"ret", "wfence"} => Hard(stack'[u][k].ev)
                    /\ stack'[u][k].op = "notify" => kind[stack'[u][k].ev] = "cb"
               /\ ConstructedFirst'
    BY <1>1, <2>2, KindsStack, ConstructedFirstStep
  <2> QED BY <2>1, <2>2, StepPushes
<1> QED BY <1>1, <1>2, <1>3, <1>4, <1>5, <1>6 DEF KindsOK, Handle, Hard

(* What a thread does is what the first operation of its stack says.        *)
LEMMA StepOfHead ==
  ASSUME NEW t \in Threads, Step(t)
  PROVE  /\ At(t, "seq") => Sequence(t)
         /\ At(t, "flush") => Flush(t)
         /\ At(t, "fpop") => FlushPop(t)
  BY DEF Step, Chain, Sequence, SetStatus, Trigger, Act, TriggerSelf, Abort, AbortSelf, Wait,
         WaitSignalled, WaitEnd, WaitFence, Flush, FlushPop, Notify, Return, At

(* If no loop of flush() is pushed, the ones that run are old ones.         *)
LEMMA LoopsKept ==
  ASSUME TypeOK, FlushOK, NEW t \in Threads, NEW a, Pushed(t, a),
         \A k \in 1..Len(a) : a[k].op # "fpop",
         NEW u \in Threads, NEW k \in DOMAIN stack'[u], stack'[u][k].op = "fpop"
  PROVE  /\ flushing[stack'[u][k].arg] # NoFence
         /\ \E j \in DOMAIN stack[u] : stack[u][j] = stack'[u][k] /\ (u = t => j # 1)
         /\ \A v \in Threads : \A l \in DOMAIN stack'[v] :
              stack'[v][l].op = "fpop" /\ stack'[v][l].arg = stack'[u][k].arg => v = u /\ l = k
<1> DEFINE n == Len(a) - 1
<1>1. PICK j : j = Origin(t, n, u, k)
  OBVIOUS
<1>2. j \in DOMAIN stack[u] /\ stack'[u][k] = stack[u][j] /\ (u = t => j # 1) /\ k \in Nat
  BY <1>1, Kept
<1>3. ASSUME NEW v \in Threads, NEW l \in DOMAIN stack'[v], stack'[v][l].op = "fpop",
             stack'[v][l].arg = stack'[u][k].arg
      PROVE  v = u /\ l = k
  <2>1. PICK i : i = Origin(t, n, v, l)
    OBVIOUS
  <2>2. i \in DOMAIN stack[v] /\ stack'[v][l] = stack[v][i] /\ l \in Nat
    BY <1>3, <2>1, Kept
  <2>3. v = u /\ i = j
    BY <1>2, <1>3, <2>2 DEF FlushOK
  <2>4. Len(a) \in Nat
    BY DEF Pushed
  <2> QED BY <1>1, <1>2, <2>1, <2>2, <2>3, <2>4 DEF Origin
<1>4. flushing[stack'[u][k].arg] # NoFence
  BY <1>2 DEF FlushOK
<1> QED BY <1>2, <1>3, <1>4

(* The mutex of a queue is held by at most one loop of flush().             *)
LEMMA FlushStep ==
  ASSUME TypeOK, NamesOK, Accounts, Waits, NEW t \in Threads, Step(t)
  PROVE  FlushOK'
<1> USE DEF graphVars, deviceVars, identVars
<1>0. FlushOK
  BY DEF Waits
<1>1. ASSUME UNCHANGED flushing, NEW a, Pushed(t, a), \A k \in 1..Len(a) : a[k].op # "fpop"
      PROVE  FlushOK'
  <2>1. \A q \in Queues : flushing'[q] # NoFence => flushing'[q] \subseteq Events
    BY <1>0, <1>1 DEF FlushOK
  <2>2. \A u \in Threads : \A k \in DOMAIN stack'[u] : stack'[u][k].op = "fpop" =>
          /\ flushing[stack'[u][k].arg] # NoFence
          /\ \A v \in Threads : \A l \in DOMAIN stack'[v] :
               stack'[v][l].op = "fpop" /\ stack'[v][l].arg = stack'[u][k].arg => v = u /\ l = k
    BY <1>0, <1>1, LoopsKept
  <2> QED BY <1>1, <2>1, <2>2 DEF FlushOK, NoFence
<1>2. CASE ~Flush(t) /\ ~FlushPop(t)
  <2>1. UNCHANGED flushing
    BY <1>2 DEF Step, Chain, Sequence, SetStatus, Trigger, Act, TriggerSelf, Abort, AbortSelf, Wait,
           WaitSignalled, WaitEnd, WaitFence, Notify, Return
  <2>2. PICK a : Pushed(t, a)
    BY <1>2, StepPushes
  <2>3. \A k \in 1..Len(a) : a[k].op # "fpop"
    BY <1>2, <2>2, StepOfHead DEF Pushed
  <2> QED BY <1>1, <2>1, <2>2, <2>3
<1>3. PICK q : q = Head(stack[t]).arg
  OBVIOUS
<1>4. << >> \in Seq(Ops) /\ Len(<< >>) = 0 /\ \A k \in 1..Len(<< >>) : FALSE
  OBVIOUS
<1>5. CASE Flush(t)
  <2>1. At(t, "flush") /\ stack[t] # << >> /\ q \in Queues /\ flushing[q] = NoFence
    BY <1>3, <1>5, HeadFacts, OpTypes DEF Flush
  <2>2. CASE queued[q] = << >>
    <3>1. UNCHANGED flushing /\ Continue(t, << >>)
      BY <1>3, <1>5, <2>2 DEF Flush
    <3>2. Pushed(t, << >>)
      BY <1>4, <2>1, <3>1 DEF Pushed
    <3> QED BY <1>1, <1>4, <3>1, <3>2
  <2>3. CASE queued[q] # << >>
    <3>1. PICK x : x = Op("fpop", 0, q)
      OBVIOUS
    <3>2. PICK a : a = <<x>>
      OBVIOUS
    <3>3. x \in Ops /\ x.op = "fpop" /\ x.arg = q
      BY <2>1, <3>1, OpIsOp
    <3>4. a \in Seq(Ops) /\ Len(a) = 1 /\ a[1] = x
      BY <3>2, <3>3
    <3>5. Continue(t, a) /\ flushing' = [flushing EXCEPT ![q] = InFlight(q)]
      BY <1>3, <1>5, <2>3, <3>1, <3>2 DEF Flush
    <3>6. Pushed(t, a)
      BY <1>3, <2>1, <3>3, <3>4, <3>5 DEF Pushed
    <3>7. InFlight(q) \subseteq Events /\ InFlight(q) # NoFence
      BY DEF InFlight, NoFence, Events
    <3>8. flushing'[q] = InFlight(q) /\ \A p \in Queues : p # q => flushing'[p] = flushing[p]
      BY <2>1, <3>5 DEF TypeOK
    <3>9. \A p \in Queues : flushing'[p] # NoFence => flushing'[p] \subseteq Events
      BY <1>0, <3>7, <3>8 DEF FlushOK
    <3>10. ASSUME NEW u \in Threads, NEW k \in DOMAIN stack'[u], stack'[u][k].op = "fpop"
           PROVE  \/ u = t /\ k = 1 /\ stack'[u][k].arg = q
                  \/ /\ Origin(t, Len(a) - 1, u, k) \in DOMAIN stack[u]
                     /\ stack'[u][k] = stack[u][Origin(t, Len(a) - 1, u, k)]
                     /\ stack'[u][k].arg \in Queues /\ stack'[u][k].arg # q
                     /\ flushing[stack'[u][k].arg] # NoFence
      <4>1. CASE u = t /\ k \in 1..Len(a) /\ stack'[u][k] = a[k]
        <5>1. k = 1
          BY <3>4, <4>1
        <5> QED BY <3>3, <3>4, <4>1, <5>1
      <4>2. CASE /\ Origin(t, Len(a) - 1, u, k) \in DOMAIN stack[u]
                 /\ stack'[u][k] = stack[u][Origin(t, Len(a) - 1, u, k)]
        <5>1. PICK j : j = Origin(t, Len(a) - 1, u, k)
          OBVIOUS
        <5>2. stack[u][j] \in Ops /\ stack[u][j] = stack'[u][k] /\ j \in DOMAIN stack[u]
          BY <4>2, <5>1, SeqDomain DEF TypeOK
        <5>3. stack[u][j].arg \in Queues
          BY <3>10, <5>2, OpTypes
        <5>4. flushing[stack[u][j].arg] # NoFence
          BY <1>0, <3>10, <5>2 DEF FlushOK
        <5>5. stack[u][j].arg # q
          BY <2>1, <5>4
        <5> QED BY <4>2, <5>1, <5>2, <5>3, <5>4, <5>5
      <4> QED BY <3>6, <4>1, <4>2, Kept
    <3>11. ASSUME NEW u \in Threads, NEW k \in DOMAIN stack'[u], stack'[u][k].op = "fpop"
           PROVE  flushing'[stack'[u][k].arg] # NoFence
      BY <3>7, <3>8, <3>10, <3>11
    <3>12. ASSUME NEW u \in Threads, NEW k \in DOMAIN stack'[u], stack'[u][k].op = "fpop",
                  NEW v \in Threads, NEW l \in DOMAIN stack'[v], stack'[v][l].op = "fpop",
                  stack'[v][l].arg = stack'[u][k].arg
           PROVE  v = u /\ l = k
      <4>1. CASE stack'[u][k].arg = q
        BY <3>10, <3>12, <4>1
      <4>2. CASE stack'[u][k].arg # q
        <5>1. PICK j, i : j = Origin(t, Len(a) - 1, u, k) /\ i = Origin(t, Len(a) - 1, v, l)
          OBVIOUS
        <5>2. /\ j \in DOMAIN stack[u] /\ stack'[u][k] = stack[u][j]
              /\ i \in DOMAIN stack[v] /\ stack'[v][l] = stack[v][i]
          BY <3>10, <3>12, <4>2, <5>1
        <5>3. v = u /\ i = j
          BY <1>0, <3>12, <5>2 DEF FlushOK
        <5>4. Len(a) \in Nat /\ k \in Nat /\ l \in Nat
          <6>1. k \in Nat
            BY <3>6, <3>12, Kept
          <6>2. l \in Nat
            BY <3>6, <3>12, Kept
          <6> QED BY <3>4, <6>1, <6>2
        <5> QED BY <5>1, <5>3, <5>4 DEF Origin
      <4> QED BY <4>1, <4>2
    <3> QED BY <3>9, <3>11, <3>12 DEF FlushOK, NoFence
  <2> QED BY <2>2, <2>3
<1>6. CASE FlushPop(t)
  <2>1. /\ At(t, "fpop") /\ stack[t] # << >> /\ q \in Queues
        /\ 1 \in DOMAIN stack[t] /\ Head(stack[t]) = stack[t][1] /\ stack[t][1].op = "fpop"
    BY <1>3, <1>6, HeadFacts, OpTypes DEF FlushPop
  <2>2. CASE UNCHANGED <<flushing, stack>>
    BY <1>0, <2>2 DEF FlushOK, NoFence
  <2>3. CASE ~UNCHANGED <<flushing, stack>>
    <3>1. flushing' = [flushing EXCEPT ![q] = NoFence] /\ Continue(t, << >>)
      BY <1>3, <1>6, <2>3 DEF FlushPop
    <3>2. Pushed(t, << >>)
      BY <1>4, <2>1, <3>1 DEF Pushed
    <3>3. flushing'[q] = NoFence /\ \A p \in Queues : p # q => flushing'[p] = flushing[p]
      BY <2>1, <3>1 DEF TypeOK
    <3>4. \A p \in Queues : flushing'[p] # NoFence => flushing'[p] \subseteq Events
      BY <1>0, <3>3 DEF FlushOK
    <3>5. ASSUME NEW u \in Threads, NEW k \in DOMAIN stack'[u], stack'[u][k].op = "fpop"
          PROVE  /\ flushing'[stack'[u][k].arg] # NoFence
                 /\ \A v \in Threads : \A l \in DOMAIN stack'[v] :
                      stack'[v][l].op = "fpop" /\ stack'[v][l].arg = stack'[u][k].arg => v = u /\ l = k
      <4>1. /\ flushing[stack'[u][k].arg] # NoFence
            /\ \E j \in DOMAIN stack[u] : stack[u][j] = stack'[u][k] /\ (u = t => j # 1)
            /\ \A v \in Threads : \A l \in DOMAIN stack'[v] :
                 stack'[v][l].op = "fpop" /\ stack'[v][l].arg = stack'[u][k].arg => v = u /\ l = k
        BY <1>0, <1>4, <3>2, <3>5, LoopsKept
      <4>2. PICK j \in DOMAIN stack[u] : stack[u][j] = stack'[u][k] /\ (u = t => j # 1)
        BY <4>1
      <4>3. stack[u][j].arg # q
        BY <1>0, <1>3, <2>1, <3>5, <4>2 DEF FlushOK
      <4>4. stack[u][j].arg \in Queues
        BY <3>5, <4>2, SeqDomain, OpTypes DEF TypeOK
      <4> QED BY <3>3, <4>1, <4>2, <4>3, <4>4
    <3> QED BY <3>4, <3>5 DEF FlushOK, NoFence
  <2> QED BY <2>2, <2>3
<1> QED BY <1>2, <1>5, <1>6

(* Work is recorded by the action, and changed only afterwards.             *)
LEMMA WorkStep ==
  ASSUME TypeOK, NamesOK, Accounts, Waits, NEW t \in Threads, Step(t)
  PROVE  WorkOK'
<1> USE DEF graphVars, deviceVars, identVars
<1>1. UNCHANGED <<nev, kind>>
  BY StepConstructsNone
<1>2. ASSUME NEW e \in Events, started'[e] = 0
      PROVE  cmd'[e] = "none"
  <2>1. CASE Act(t)
    <3>1. PICK x : x = Head(stack[t]).ev
      OBVIOUS
    <3>2. x \in Events /\ started' = [started EXCEPT ![x] = @ + 1]
      BY <2>1, <3>1, HeadFacts, OpTypes DEF Act, EventOps
    <3>3. e # x
      <4>1. started[x] \in Nat
        BY <3>2 DEF TypeOK
      <4> QED BY <1>2, <3>2, <4>1 DEF TypeOK
    <3>4. started[e] = 0 /\ cmd'[e] = cmd[e]
      BY <1>2, <2>1, <3>1, <3>2, <3>3 DEF Act, TypeOK
    <3> QED BY <3>4 DEF Waits, WorkOK
  <2>2. CASE Flush(t)
    <3>1. cmd[e] = "none"
      BY <1>2, <2>2 DEF Flush, Waits, WorkOK
    <3> QED BY <2>2, <3>1 DEF Flush, InFlight
  <2>3. CASE ~Act(t) /\ ~Flush(t)
    <3>1. UNCHANGED <<started, cmd>>
      BY <2>3 DEF Step, Chain, Sequence, SetStatus, Trigger, TriggerSelf, Abort, AbortSelf, Wait,
             WaitSignalled, WaitEnd, WaitFence, FlushPop, Notify, Return
    <3> QED BY <1>2, <3>1 DEF Waits, WorkOK
  <2> QED BY <2>1, <2>2, <2>3
<1> QED BY <1>1, <1>2 DEF Waits, WorkOK

(* No step puts back a call of sequence(), and only Sequence removes one.   *)
LEMMA ToSequenceStep ==
  ASSUME TypeOK, NEW t \in Threads, NEW a, Pushed(t, a), NEW e
  PROVE  /\ ToSequence(e)' => ToSequence(e)
         /\ (ToSequence(e) /\ ~(At(t, "seq") /\ Head(stack[t]).ev = e)) => ToSequence(e)'
<1>1. a \in Seq(Ops) /\ stack[t] # << >> /\ Continue(t, a)
  BY DEF Pushed
<1>2. ASSUME NEW u \in Threads, NEW k \in DOMAIN stack'[u],
             stack'[u][k].op = "seq", stack'[u][k].ev = e
      PROVE  ToSequence(e)
  <2>1. PICK j \in DOMAIN stack[u] : stack'[u][k] = stack[u][j]
    BY <1>2, Kept DEF Pushed
  <2> QED BY <1>2, <2>1 DEF ToSequence
<1>3. ASSUME NEW u \in Threads, NEW j \in DOMAIN stack[u], stack[u][j].op = "seq", stack[u][j].ev = e,
             ~(At(t, "seq") /\ Head(stack[t]).ev = e)
      PROVE  ToSequence(e)'
  <2>1. CASE u # t
    <3>1. stack'[u] = stack[u]
      BY <1>1, <2>1, ContinueAt
    <3> QED BY <1>3, <3>1 DEF ToSequence
  <2>2. CASE u = t
    <3>1. Head(stack[t]) = stack[t][1]
      BY <1>1, ContinueAt
    <3>2. j # 1
      BY <1>1, <1>3, <2>2, <3>1 DEF At
    <3>3. j + (Len(a) - 1) \in DOMAIN stack'[t] /\ stack'[t][j + (Len(a) - 1)] = stack[t][j]
      BY <1>1, <2>2, <3>2, ContinueAt
    <3> QED BY <1>3, <2>2, <3>3 DEF ToSequence
  <2> QED BY <2>1, <2>2
<1> QED BY <1>2, <1>3 DEF ToSequence

(* A hard event that exists.                                                *)
LEMMA HardExists ==
  ASSUME TypeOK, WorkOK, NEW e \in Events, Hard(e)
  PROVE  e <= nev
  BY EventsAssumption DEF WorkOK, Hard, TypeOK, Events

(* A hard event goes from its constructor to its queue, and from there to a *)
(* fence.                                                                   *)
LEMMA FencesStep ==
  ASSUME TypeOK, NamesOK, Accounts, Waits, Steady, NEW t \in Threads, Step(t)
  PROVE  FencesOK'
<1> USE DEF graphVars, deviceVars, identVars
<1>0. FencesOK /\ WorkOK /\ FlushOK /\ KindsOK
  BY DEF Waits
<1>1. UNCHANGED <<nev, kind, queue, watch>>
  BY StepConstructsNone
<1>2. SUFFICES ASSUME NEW e \in Events
               PROVE  /\ Hard(e) => ToSequence(e)' \/ InQueue(e)' \/ fence'[e] # NoFence
                      /\ fence'[e] # NoFence =>
                           /\ Hard(e) /\ Signalled(e)' /\ ~ToSequence(e)' /\ ~InQueue(e)'
                           /\ fence'[e] \subseteq Events
  <2>1. NoFence' = NoFence /\ Events' = Events
    BY DEF NoFence, Events
  <2> QED BY <1>1, <2>1 DEF FencesOK, Hard
<1>3. Hard(e) /\ Signalled(e) => Signalled(e)'
  BY <1>0, HardExists DEF Steady, Signalled
<1>4. PICK q : q = queue[e]
  OBVIOUS
<1>5. Hard(e) => q \in Queues
  BY <1>4 DEF NamesOK
<1>6. InQueue(e)' <=> \E j \in DOMAIN queued'[q] : queued'[q][j] = e
  BY <1>1, <1>4 DEF InQueue
<1>7. InQueue(e) <=> \E j \in DOMAIN queued[q] : queued[q][j] = e
  BY <1>4 DEF InQueue
<1>8. CASE Sequence(t)
  <2>1. PICK x, p : x = Head(stack[t]).ev /\ p = queue[x]
    OBVIOUS
  <2>2. At(t, "seq") /\ x \in Events /\ p \in Queues /\ Hard(x) /\ ToSequence(x)
    BY <1>8, <2>1, HeadFacts, OpTypes DEF Sequence, OpOK, NamesOK, EventOps, ToSequence
  <2>3. queued' = [queued EXCEPT ![p] = Append(@, x)] /\ UNCHANGED fence
    BY <1>8, <2>1 DEF Sequence
  <2>4. PICK a : Pushed(t, a)
    BY <1>8, <2>2, StepPushes DEF FlushPop, At
  <2>5. /\ queued[p] \in Seq(Events) /\ queued'[p] = Append(queued[p], x)
        /\ \A r \in Queues : r # p => queued'[r] = queued[r]
    BY <2>2, <2>3 DEF TypeOK
  <2>6. /\ Len(queued[p]) \in Nat /\ DOMAIN queued[p] = 1..Len(queued[p])
        /\ DOMAIN queued'[p] = 1..(Len(queued[p]) + 1)
        /\ \A i \in 1..Len(queued[p]) : queued'[p][i] = queued[p][i]
        /\ queued'[p][Len(queued[p]) + 1] = x
    BY <2>2, <2>5, AppendProperties
  <2>7. Len(queued[p]) + 1 \in DOMAIN queued'[p] /\ DOMAIN queued[p] \subseteq DOMAIN queued'[p]
    BY <2>6
  <2>8. ASSUME Hard(e)
        PROVE  ToSequence(e)' \/ InQueue(e)' \/ fence'[e] # NoFence
    <3>1. CASE e = x
      BY <1>4, <1>6, <2>1, <2>6, <2>7, <3>1
    <3>2. CASE ToSequence(e) /\ e # x
      BY <2>1, <2>4, <3>2, ToSequenceStep
    <3>3. CASE fence[e] # NoFence
      BY <2>3, <3>3
    <3>4. CASE InQueue(e)
      BY <1>5, <1>6, <1>7, <2>5, <2>6, <2>7, <2>8, <3>4
    <3> QED BY <1>0, <2>8, <3>1, <3>2, <3>3, <3>4 DEF FencesOK
  <2>9. ASSUME fence'[e] # NoFence
        PROVE  /\ Hard(e) /\ Signalled(e)' /\ ~ToSequence(e)' /\ ~InQueue(e)'
               /\ fence'[e] \subseteq Events
    <3>1. Hard(e) /\ Signalled(e) /\ ~ToSequence(e) /\ ~InQueue(e) /\ fence'[e] \subseteq Events
      BY <1>0, <2>3, <2>9 DEF FencesOK
    <3>2. e # x
      BY <2>2, <3>1
    <3>3. ASSUME NEW j \in DOMAIN queued'[q], queued'[q][j] = e
          PROVE  FALSE
      <4>1. CASE q # p
        BY <1>5, <1>7, <2>5, <3>1, <3>3, <4>1
      <4>2. CASE q = p
        <5>1. j \in DOMAIN queued[p]
          BY <2>6, <3>2, <3>3, <4>2
        <5> QED BY <1>7, <2>6, <3>1, <3>3, <4>2, <5>1
      <4> QED BY <4>1, <4>2
    <3> QED BY <1>3, <1>6, <2>4, <3>1, <3>3, ToSequenceStep
  <2> QED BY <2>8, <2>9
<1>9. CASE FlushPop(t) /\ UNCHANGED stack
  <2>1. PICK p : p = Head(stack[t]).arg
    OBVIOUS
  <2>2. /\ At(t, "fpop") /\ p \in Queues /\ stack[t] # << >>
        /\ 1 \in DOMAIN stack[t] /\ Head(stack[t]) = stack[t][1] /\ stack[t][1].op = "fpop"
    BY <1>9, <2>1, HeadFacts, OpTypes DEF FlushPop
  <2>3. flushing[p] # NoFence /\ flushing[p] \subseteq Events
    BY <1>0, <2>1, <2>2 DEF FlushOK
  <2>4. ~Continue(t, << >>)
    <3>1. ASSUME Continue(t, << >>)
          PROVE  FALSE
      <4>1. << >> \in Seq(Ops) /\ Len(<< >>) = 0
        OBVIOUS
      <4>2. stack[t] \in Seq(Ops) /\ stack \in [Threads -> Seq(Ops)]
        BY DEF TypeOK
      <4>3. Len(stack'[t]) = 0 + Len(stack[t]) - 1
        BY <2>2, <3>1, <4>1, <4>2, ContinueShape
      <4>4. Len(stack[t]) \in Nat
        BY <4>2
      <4> QED BY <1>9, <4>3, <4>4
    <3> QED BY <3>1
  <2>5. PICK h : h = Head(queued[p])
    OBVIOUS
  <2>6. /\ queued[p] # << >> /\ Signalled(h)
        /\ fence' = [fence EXCEPT ![h] = flushing[p]]
        /\ queued' = [queued EXCEPT ![p] = Tail(@)]
    BY <1>9, <2>1, <2>4, <2>5 DEF FlushPop
  <2>7. queued[p] \in Seq(Events)
    BY <2>2 DEF TypeOK
  <2>8. /\ h = queued[p][1] /\ 1 \in DOMAIN queued[p]
        /\ \A j \in DOMAIN Tail(queued[p]) : /\ j + 1 \in DOMAIN queued[p] /\ j + 1 # 1
                                             /\ Tail(queued[p])[j] = queued[p][j + 1]
        /\ \A i \in DOMAIN queued[p] : i # 1 =>
             i - 1 \in DOMAIN Tail(queued[p]) /\ Tail(queued[p])[i - 1] = queued[p][i]
    BY <2>5, <2>6, <2>7, TailFacts
  <2>9. h \in Events /\ Hard(h) /\ queue[h] = p
    <3>1. h \in Events
      BY <2>5, <2>6, <2>7
    <3> QED BY <1>0, <2>2, <2>8, <3>1 DEF KindsOK
  <2>10. /\ queued'[p] = Tail(queued[p]) /\ \A r \in Queues : r # p => queued'[r] = queued[r]
         /\ fence'[h] = flushing[p] /\ \A y \in Events : y # h => fence'[y] = fence[y]
    BY <2>2, <2>6, <2>9 DEF TypeOK
  <2>11. ToSequence(e)' <=> ToSequence(e)
    BY <1>9 DEF ToSequence
  <2>12. waitCount' = waitCount
    BY <1>9 DEF FlushPop
  <2>13. CASE e = h
    <3>1. fence'[e] # NoFence /\ fence'[e] \subseteq Events /\ Hard(e) /\ Signalled(e)'
      BY <2>3, <2>6, <2>9, <2>10, <2>12, <2>13 DEF Signalled
    <3>2. ~ToSequence(e)'
      BY <2>6, <2>11, <2>13, SignalledFacts
    <3>3. ASSUME NEW j \in DOMAIN Tail(queued[p]), Tail(queued[p])[j] = h
          PROVE  FALSE
      <4>1. j + 1 \in DOMAIN queued[p] /\ j + 1 # 1 /\ queued[p][j + 1] = queued[p][1]
        BY <2>8, <3>3
      <4> QED BY <2>2, <2>8, <4>1 DEF Accounts, QueueLinked
    <3>4. ~InQueue(e)'
      BY <1>4, <1>6, <2>9, <2>10, <2>13, <3>3
    <3> QED BY <3>1, <3>2, <3>4
  <2>14. CASE e # h
    <3>1. fence'[e] = fence[e]
      BY <2>10, <2>14
    <3>2. Hard(e) => (InQueue(e)' <=> InQueue(e))
      <4>1. CASE Hard(e) /\ q # p
        BY <1>5, <1>6, <1>7, <2>10, <4>1
      <4>2. CASE q = p
        <5>1. ASSUME NEW j \in DOMAIN queued[p], queued[p][j] = e
              PROVE  \E i \in DOMAIN queued'[p] : queued'[p][i] = e
          <6>1. j # 1
            BY <2>8, <2>14, <5>1
          <6>2. j - 1 \in DOMAIN queued'[p] /\ queued'[p][j - 1] = e
            BY <2>8, <2>10, <5>1, <6>1
          <6> QED BY <6>2
        <5>2. ASSUME NEW j \in DOMAIN queued'[p], queued'[p][j] = e
              PROVE  \E i \in DOMAIN queued[p] : queued[p][i] = e
          BY <2>8, <2>10, <5>2
        <5> QED BY <1>6, <1>7, <4>2, <5>1, <5>2
      <4> QED BY <4>1, <4>2
    <3> QED BY <1>0, <1>3, <2>11, <3>1, <3>2 DEF FencesOK
  <2> QED BY <2>13, <2>14
<1>10. CASE ~Sequence(t) /\ ~(FlushPop(t) /\ UNCHANGED stack)
  <2>1. PICK a : Pushed(t, a)
    BY <1>10, StepPushes
  <2>2. ~At(t, "seq")
    BY <1>10, StepOfHead
  <2>3. UNCHANGED <<fence, queued>>
    BY <1>10 DEF Step, Chain, SetStatus, Trigger, Act, TriggerSelf, Abort, AbortSelf, Wait,
           WaitSignalled, WaitEnd, WaitFence, Flush, FlushPop, Notify, Return
  <2>4. (ToSequence(e)' <=> ToSequence(e)) /\ (InQueue(e)' <=> InQueue(e))
    BY <1>6, <1>7, <2>1, <2>2, <2>3, ToSequenceStep
  <2> QED BY <1>0, <1>3, <2>3, <2>4 DEF FencesOK
<1> QED BY <1>8, <1>9, <1>10

(* A step of a running call keeps the invariant.                            *)
LEMMA WaitsOfStep ==
  ASSUME TypeOK, NamesOK, Accounts, Waits, Steady, WaitedDepsKept, NEW t \in Threads, Step(t)
  PROVE  Waits'
  BY WaitsStep, KindsStep, FlushStep, WorkStep, FencesStep DEF Waits

-----------------------------------------------------------------------------
(* API calls.                                                               *)

(* A call leaves a body to run, and constructs at most the next event.      *)
Called(t, body) ==
  /\ stack[t] = << >> /\ body \in Seq(Ops) /\ stack' = [stack EXCEPT ![t] = body]
  /\ UNCHANGED <<deps, deviceVars, started>>
  /\ nev' \in {nev, nev + 1}
  /\ \A e \in Events : e # nev + 1 =>
       /\ kind'[e] = kind[e] /\ queue'[e] = queue[e]
       /\ watch'[e] = watch[e] /\ waitCount'[e] = waitCount[e]
  /\ nev + 1 \in Events /\ nev' = nev => kind'[nev + 1] = kind[nev + 1]
  /\ \A e \in published' : e \in published \/ kind'[e] = "user"
  /\ nev + 1 \in Events /\ kind'[nev + 1] = "cb" => watch'[nev + 1] \in published
  /\ (nev + 1 \in Events /\ kind'[nev + 1] \in {"command", "copy", "marker"}) =>
       \E j \in DOMAIN body : body[j].op = "seq" /\ body[j].ev = nev + 1

(* What a body holds: nothing of a wait that has begun, and the constructor *)
(* of the new event before any wait for it.                                 *)
BodyOK(body, j) ==
  LET o == body[j] IN
  /\ o.op \notin {"wend", "wfence", "notify", "fpop"}
  /\ o.op \in {"chain", "seq", "wait", "ret"} => o.ev = nev + 1
  /\ o.op = "chain" => o.arg \in published
  /\ o.op = "ret" => kind'[nev + 1] \in {"command", "copy", "marker"}
  /\ o.op = "wait" => \A i \in DOMAIN body : body[i].op = "chain" => i < j

(* Where an operation of a stack comes from after a call.                   *)
LEMMA CalledStacks ==
  ASSUME TypeOK, NEW t \in Threads, NEW body, Called(t, body),
         NEW u \in Threads, NEW k \in DOMAIN stack'[u]
  PROVE  \/ u = t /\ k \in DOMAIN body /\ stack'[u][k] = body[k]
         \/ u # t /\ k \in DOMAIN stack[u] /\ stack'[u][k] = stack[u][k]
<1>1. stack'[t] = body /\ (u # t => stack'[u] = stack[u])
  BY DEF Called, TypeOK
<1> QED BY <1>1

(* No call changes what exists, and nothing that exists names the next      *)
(* event.                                                                   *)
LEMMA CalledOld ==
  ASSUME TypeOK, NamesOK, Waits, NEW t \in Threads, NEW body, Called(t, body)
  PROVE  /\ \A e \in Events : e <= nev =>
              /\ e # nev + 1 /\ kind'[e] = kind[e] /\ queue'[e] = queue[e] /\ watch'[e] = watch[e]
         /\ \A e \in published : e \in Events /\ e <= nev
         /\ \A u \in Threads : \A k \in DOMAIN stack[u] : stack[u][k].ev <= nev
<1>1. nev \in Nat /\ published \subseteq Events /\ Events \subseteq Nat
  BY EventsAssumption DEF TypeOK, Events
<1>2. \A e \in Events : e <= nev => e # nev + 1
  BY <1>1
<1>3. \A e \in published : e <= nev
  BY <1>1 DEF NamesOK
<1>4. \A u \in Threads : \A k \in DOMAIN stack[u] : stack[u][k].ev <= nev
  BY DEF NamesOK, OpOK
<1> QED BY <1>1, <1>2, <1>3, <1>4 DEF Called

(* Events get one of the kinds, and keep it.                                *)
LEMMA CalledKinds ==
  ASSUME TypeOK, NamesOK, Waits, NEW t \in Threads, NEW body, Called(t, body),
         \A j \in DOMAIN body : BodyOK(body, j)
  PROVE  KindsOK'
<1> USE DEF deviceVars
<1>0. KindsOK
  BY DEF Waits
<1>1. \A e \in Events : e <= nev /\ Handle(e) => Handle(e)'
  BY CalledOld DEF Handle, Hard
<1>2. ASSUME NEW e \in published'
      PROVE  Handle(e)'
  <2>1. CASE e \in published
    BY <1>0, <1>1, <2>1, CalledOld DEF KindsOK
  <2>2. CASE kind'[e] = "user"
    BY <2>2 DEF Handle
  <2> QED BY <1>2, <2>1, <2>2 DEF Called
<1>3. ASSUME NEW e \in Events, NEW i \in DOMAIN deps'[e]
      PROVE  Handle(deps[e][i])' 
  <2>1. PICK d : d = deps[e][i]
    OBVIOUS
  <2>2. deps' = deps /\ deps[e] \in Seq(Events)
    BY DEF Called, TypeOK
  <2>3. d \in Events /\ d <= nev /\ Handle(d)
    BY <1>0, <1>3, <2>1, <2>2, ElementOfSeq DEF NamesOK, KindsOK
  <2>4. Handle(d)'
    BY <1>1, <2>3
  <2> QED BY <2>1, <2>2, <2>4 DEF Handle, Hard
<1>4. ASSUME NEW e \in Events, kind'[e] = "cb"
      PROVE  Handle(watch[e])'
  <2>1. PICK d : d = watch'[e]
    OBVIOUS
  <2>2. CASE e = nev + 1
    <3>1. d \in published
      BY <1>4, <2>1, <2>2 DEF Called
    <3>2. Handle(d)'
      BY <1>0, <1>1, <3>1, CalledOld DEF KindsOK
    <3> QED BY <2>1, <3>2 DEF Handle, Hard
  <2>3. CASE e # nev + 1
    <3>1. kind[e] = "cb" /\ d = watch[e]
      BY <1>4, <2>1, <2>3 DEF Called
    <3>2. d \in Events /\ d <= nev /\ Handle(d)
      BY <1>0, <3>1, EventsAssumption DEF NamesOK, KindsOK, TypeOK, Events
    <3>3. Handle(d)'
      BY <1>1, <3>2
    <3> QED BY <2>1, <3>3 DEF Handle, Hard
  <2> QED BY <2>2, <2>3
<1>5. ASSUME NEW q \in Queues, NEW j \in DOMAIN queued'[q]
      PROVE  Hard(queued[q][j])' /\ queue'[queued'[q][j]] = q
  <2>1. PICK d : d = queued[q][j]
    OBVIOUS
  <2>2. queued' = queued /\ queued[q] \in Seq(Events)
    BY DEF Called, TypeOK
  <2>3. d \in Events /\ d <= nev /\ Hard(d) /\ queue[d] = q
    BY <1>0, <1>5, <2>1, <2>2, ElementOfSeq DEF NamesOK, KindsOK
  <2>4. kind'[d] = kind[d] /\ queue'[d] = queue[d]
    BY <2>3, CalledOld
  <2> QED BY <2>1, <2>2, <2>3, <2>4 DEF Hard
<1>6. ASSUME NEW u \in Threads, NEW k \in DOMAIN stack'[u]
      PROVE  /\ stack'[u][k].op = "chain" => Handle(stack[u][k].arg)'
             /\ stack'[u][k].op \in {"ret", "wfence"} => Hard(stack[u][k].ev)'
             /\ stack'[u][k].op = "notify" => kind'[stack'[u][k].ev] = "cb"
  <2>1. PICK o : o = stack'[u][k]
    OBVIOUS
  <2>2. CASE u = t /\ k \in DOMAIN body /\ o = body[k]
    <3>1. BodyOK(body, k)
      BY <2>2
    <3>2. o.op = "chain" => Handle(o.arg)'
      <4>1. o.op = "chain" => o.arg \in published
        BY <2>2, <3>1 DEF BodyOK
      <4> QED BY <1>0, <1>1, <4>1, CalledOld DEF KindsOK
    <3>3. o.op = "ret" => Hard(o.ev)'
      BY <2>2, <3>1 DEF BodyOK, Hard
    <3>4. o.op \notin {"wfence", "notify"}
      BY <2>2, <3>1 DEF BodyOK
    <3> QED BY <2>1, <3>2, <3>3, <3>4 DEF Handle, Hard
  <2>3. CASE k \in DOMAIN stack[u] /\ o = stack[u][k]
    <3>1. o \in Ops /\ OpOK(o)
      BY <2>3, SeqDomain DEF TypeOK, NamesOK
    <3>2. /\ o.op = "chain" => Handle(o.arg)
          /\ o.op \in {"ret", "wfence"} => Hard(o.ev)
          /\ o.op = "notify" => kind[o.ev] = "cb"
      BY <1>0, <2>3 DEF KindsOK
    <3>3. o.op = "chain" => Handle(o.arg)'
      <4>1. o.op = "chain" => o.arg \in Events /\ o.arg <= nev
        BY <3>1, OpTypes DEF OpOK
      <4> QED BY <1>1, <3>2, <4>1
    <3>4. o.op \in {"ret", "wfence", "notify"} => o.ev \in Events /\ o.ev <= nev
      BY <3>1, OpTypes DEF OpOK, EventOps
    <3>5. o.op \in {"ret", "wfence", "notify"} => kind'[o.ev] = kind[o.ev]
      BY <3>4, CalledOld
    <3> QED BY <2>1, <3>2, <3>3, <3>5 DEF Handle, Hard
  <2> QED BY <2>1, <2>2, <2>3, CalledStacks
<1> QED BY <1>2, <1>3, <1>4, <1>5, <1>6 DEF KindsOK

(* No call makes a wait start before its event's constructor is through.    *)
LEMMA CalledFirst ==
  ASSUME TypeOK, NamesOK, Waits, NEW t \in Threads, NEW body, Called(t, body),
         \A j \in DOMAIN body : BodyOK(body, j)
  PROVE  ConstructedFirst'
<1>0. ConstructedFirst /\ nev \in Nat
  BY EventsAssumption DEF Waits, TypeOK
<1>1. SUFFICES ASSUME NEW v \in Threads, NEW u \in Threads,
                      NEW k \in DOMAIN stack'[v], NEW l \in DOMAIN stack'[u],
                      stack'[u][l].op = "chain", stack'[u][l].ev = stack'[v][k].ev,
                      stack'[v][k].op \in {"wait", "wend"},
                      kind'[stack'[v][k].ev] \notin {"command", "copy", "marker"}
               PROVE  stack'[v][k].op = "wait" /\ u = v /\ l < k
  BY DEF ConstructedFirst, Hard
<1>2. CASE v = t /\ u = t
  <2>1. stack'[v][k] = body[k] /\ stack'[u][l] = body[l] /\ k \in DOMAIN body /\ l \in DOMAIN body
    BY <1>2, CalledStacks
  <2>2. body[k].op = "wait"
    BY <1>1, <2>1 DEF BodyOK
  <2>3. l < k
    BY <1>1, <2>1, <2>2 DEF BodyOK
  <2> QED BY <1>2, <2>1, <2>2, <2>3
<1>3. CASE v # t /\ u # t
  <2>1. /\ stack'[v][k] = stack[v][k] /\ stack'[u][l] = stack[u][l]
        /\ k \in DOMAIN stack[v] /\ l \in DOMAIN stack[u]
    BY <1>3, CalledStacks
  <2>2. stack[v][k].ev \in Events /\ stack[v][k].ev <= nev
    BY <1>1, <2>1, SeqDomain, OpTypes DEF TypeOK, NamesOK, OpOK, EventOps
  <2>3. ~Hard(stack[v][k].ev)
    BY <1>1, <2>1, <2>2, CalledOld DEF Hard
  <2> QED BY <1>0, <1>1, <2>1, <2>3 DEF ConstructedFirst
<1>4. CASE v = t /\ u # t
  <2>1. /\ stack'[v][k] = body[k] /\ stack'[u][l] = stack[u][l]
        /\ k \in DOMAIN body /\ l \in DOMAIN stack[u]
    BY <1>4, CalledStacks
  <2>2. body[k].ev = nev + 1
    BY <1>1, <2>1 DEF BodyOK
  <2>3. stack[u][l].ev <= nev
    BY <2>1, CalledOld
  <2> QED BY <1>0, <1>1, <2>1, <2>2, <2>3
<1>5. CASE v # t /\ u = t
  <2>1. /\ stack'[v][k] = stack[v][k] /\ stack'[u][l] = body[l]
        /\ k \in DOMAIN stack[v] /\ l \in DOMAIN body
    BY <1>5, CalledStacks
  <2>2. body[l].ev = nev + 1
    BY <1>1, <2>1 DEF BodyOK
  <2>3. stack[v][k].ev <= nev
    BY <2>1, CalledOld
  <2> QED BY <1>0, <1>1, <2>1, <2>2, <2>3
<1> QED BY <1>2, <1>3, <1>4, <1>5

(* A call is in no flush loop.                                              *)
LEMMA CalledFlush ==
  ASSUME TypeOK, NamesOK, Waits, NEW t \in Threads, NEW body, Called(t, body),
         \A j \in DOMAIN body : BodyOK(body, j)
  PROVE  FlushOK'
<1>0. FlushOK /\ flushing' = flushing
  BY DEF Waits, Called, deviceVars
<1>1. ASSUME NEW u \in Threads, NEW k \in DOMAIN stack'[u], stack'[u][k].op = "fpop"
      PROVE  k \in DOMAIN stack[u] /\ stack'[u][k] = stack[u][k]
  BY <1>1, CalledStacks DEF BodyOK
<1> QED BY <1>0, <1>1 DEF FlushOK

(* An event that has just been constructed has no work yet.                 *)
LEMMA CalledWork ==
  ASSUME TypeOK, NamesOK, Waits, NEW t \in Threads, NEW body, Called(t, body)
  PROVE  WorkOK'
<1>0. WorkOK /\ cmd' = cmd /\ started' = started /\ nev \in Nat
  BY EventsAssumption DEF Waits, Called, deviceVars, TypeOK
<1>1. ASSUME NEW e \in Events, e > nev'
      PROVE  kind'[e] = "none"
  <2>1. e \in Nat /\ e > nev /\ (e = nev + 1 => nev' = nev)
    BY <1>0, <1>1 DEF Called, Events
  <2>2. kind'[e] = kind[e]
    BY <2>1 DEF Called
  <2> QED BY <1>0, <2>1, <2>2 DEF WorkOK
<1> QED BY <1>0, <1>1 DEF WorkOK

(* The constructor of a hard event is going to put it in its queue.         *)
LEMMA CalledFences ==
  ASSUME TypeOK, NamesOK, Waits, NEW t \in Threads, NEW body, Called(t, body),
         \A j \in DOMAIN body : BodyOK(body, j)
  PROVE  FencesOK'
<1>0. FencesOK /\ WorkOK /\ fence' = fence /\ queued' = queued /\ nev \in Nat
  BY EventsAssumption DEF Waits, Called, deviceVars, TypeOK
<1>1. stack'[t] = body /\ stack[t] = << >> /\ \A u \in Threads : u # t => stack'[u] = stack[u]
  BY DEF Called, TypeOK
<1>2. SUFFICES ASSUME NEW e \in Events
               PROVE  /\ Hard(e)' => ToSequence(e)' \/ InQueue(e)' \/ fence'[e] # NoFence
                      /\ fence'[e] # NoFence =>
                           /\ Hard(e)' /\ Signalled(e)' /\ ~ToSequence(e)' /\ ~InQueue(e)'
                           /\ fence'[e] \subseteq Events
  BY DEF FencesOK
<1>3. CASE e = nev + 1
  <2>1. kind[e] = "none"
    BY <1>0, <1>3 DEF WorkOK
  <2>2. fence[e] = NoFence
    BY <1>0, <2>1 DEF FencesOK, Hard
  <2>3. ASSUME kind'[e] \in {"command", "copy", "marker"}
        PROVE  ToSequence(e)'
    <3>1. \E j \in DOMAIN body : body[j].op = "seq" /\ body[j].ev = e
      BY <1>3, <2>3 DEF Called
    <3> QED BY <1>1, <3>1 DEF ToSequence
  <2> QED BY <1>0, <2>2, <2>3 DEF Hard
<1>4. CASE e # nev + 1
  <2>1. kind'[e] = kind[e] /\ queue'[e] = queue[e] /\ waitCount'[e] = waitCount[e]
    BY <1>4 DEF Called
  <2>2. (Hard(e)' <=> Hard(e)) /\ (Signalled(e)' <=> Signalled(e)) /\ (InQueue(e)' <=> InQueue(e))
    BY <1>0, <2>1 DEF Hard, Signalled, InQueue
  <2>3. ToSequence(e) => ToSequence(e)'
    <3>1. \A u \in Threads : \A k \in DOMAIN stack[u] : u # t
      BY <1>1
    <3> QED BY <1>1, <3>1 DEF ToSequence
  <2>4. ToSequence(e)' => ToSequence(e)
    <3>1. ASSUME NEW u \in Threads, NEW k \in DOMAIN stack'[u],
                 stack'[u][k].op = "seq", stack'[u][k].ev = e
          PROVE  k \in DOMAIN stack[u] /\ stack'[u][k] = stack[u][k]
      BY <1>4, <3>1, CalledStacks DEF BodyOK
    <3> QED BY <3>1 DEF ToSequence
  <2> QED BY <1>0, <2>2, <2>3, <2>4 DEF FencesOK
<1> QED BY <1>3, <1>4

(* So a call keeps the invariant.                                           *)
LEMMA WaitsCalled ==
  ASSUME TypeOK, NamesOK, Waits, Steady, WaitedDepsKept,
         NEW t \in Threads, NEW body, Called(t, body), \A j \in DOMAIN body : BodyOK(body, j)
  PROVE  Waits'
<1>1. WaitsOK'
  <2>1. \A j \in DOMAIN body : body[j].op \notin {"wend", "wfence", "notify"}
    BY DEF BodyOK
  <2> QED BY <2>1, WaitsCall DEF Waits, Called
<1> QED BY <1>1, CalledKinds, CalledFirst, CalledFences, CalledFlush, CalledWork DEF Waits

(* The calls that construct an event other than a user event.               *)
LEMMA ConstructCalled ==
  ASSUME TypeOK, NamesOK, Waits, NEW t \in Threads, NEW k, NEW q, NEW w, NEW body,
         Construct(t, k, q, w, body)
  PROVE  Called(t, body) /\ \A j \in DOMAIN body : BodyOK(body, j)
<1> DEFINE H == {"command", "copy", "marker"}
<1>1. /\ NewEvent(k, q, w) /\ stack[t] = << >> /\ body \in Seq(Ops)
      /\ stack' = [stack EXCEPT ![t] = body]
      /\ UNCHANGED <<deps, deviceVars, started, published>>
      /\ k = "cb" => w \in published
  BY DEF Construct
<1>2. nev \in Nat /\ nev + 1 \in Events /\ nev' = nev + 1
  BY <1>1, EventsAssumption DEF NewEvent, TypeOK, Events
<1>3. kind'[nev + 1] = k /\ watch'[nev + 1] = w
  BY <1>1, <1>2 DEF NewEvent, TypeOK
<1>4. \A e \in Events : e # nev + 1 =>
        /\ kind'[e] = kind[e] /\ queue'[e] = queue[e]
        /\ watch'[e] = watch[e] /\ waitCount'[e] = waitCount[e]
  BY <1>1 DEF NewEvent, TypeOK
<1>5. Len(body) \in Nat /\ DOMAIN body = 1..Len(body)
  BY <1>1
<1>6. PICK l \in 1..Len(body) :
        /\ body[l] = Op("trig", nev + 1, 0)
        /\ k \in H => l > 1 /\ body[l - 1].op = "seq"
        /\ \A j \in 1..Len(body) :
             /\ body[j].ev = nev + 1
             /\ j < l => \/ body[j].op = "chain" /\ body[j].arg \in published
                         \/ body[j].op = "seq" /\ j = l - 1 /\ k \in H
             /\ j > l => \/ body[j].op \in {"wsig", "wait"}
                         \/ body[j].op = "ret" /\ k \in H
  BY DEF Construct, CtorBody
<1>7. ASSUME k \in H
      PROVE  \E j \in DOMAIN body : body[j].op = "seq" /\ body[j].ev = nev + 1
  <2>1. l > 1 /\ body[l - 1].op = "seq"
    BY <1>6, <1>7
  <2>2. l - 1 \in 1..Len(body)
    BY <1>5, <2>1
  <2> QED BY <1>5, <1>6, <2>1, <2>2
<1>8. Called(t, body)
  <2>1. (nev + 1 \in Events /\ kind'[nev + 1] \in H)
          => \E j \in DOMAIN body : body[j].op = "seq" /\ body[j].ev = nev + 1
    BY <1>3, <1>7
  <2>2. kind'[nev + 1] = "cb" => watch'[nev + 1] \in published
    BY <1>1, <1>3
  <2>3. nev' # nev
    BY <1>2
  <2> QED BY <1>1, <1>2, <1>4, <2>1, <2>2, <2>3 DEF Called
<1>9. body[l].op = "trig"
  BY <1>6, OpIsOp
<1>10. ASSUME NEW j \in DOMAIN body
       PROVE  BodyOK(body, j)
  <2>1. j \in Nat /\ l \in Nat
    BY <1>5, <1>10
  <2>2. /\ body[j].ev = nev + 1
        /\ body[j].op \in {"chain", "seq", "trig", "wsig", "wait", "ret"}
        /\ body[j].op = "chain" => body[j].arg \in published
        /\ body[j].op = "ret" => k \in H
    <3>1. CASE j < l
      BY <1>5, <1>6, <3>1
    <3>2. CASE j = l
      BY <1>5, <1>6, <1>9, <3>2
    <3>3. CASE j > l
      BY <1>5, <1>6, <3>3
    <3> QED BY <2>1, <3>1, <3>2, <3>3
  <2>3. ASSUME body[j].op = "wait", NEW i \in DOMAIN body, body[i].op = "chain"
        PROVE  i < j
    <3>1. i \in Nat
      BY <1>5
    <3>2. j > l
      BY <1>5, <1>6, <1>9, <2>1, <2>3
    <3>3. i < l
      BY <1>5, <1>6, <1>9, <2>1, <2>3, <3>1
    <3> QED BY <2>1, <3>1, <3>2, <3>3
  <2> QED BY <1>3, <2>2, <2>3 DEF BodyOK
<1> QED BY <1>8, <1>10

(* Every API call keeps the invariant.                                      *)
LEMMA WaitsOfCall ==
  ASSUME TypeOK, NamesOK, Waits, Steady, WaitedDepsKept, NEW t \in Threads, ApiCall(t)
  PROVE  Waits'
<1> USE DEF graphVars, deviceVars, identVars
<1>0. nev \in Nat /\ published \subseteq Events /\ WorkOK
  BY EventsAssumption DEF TypeOK, Waits
<1>1. CASE ClCreateUserEvent(t)
  <2>1. /\ NewEvent("user", 0, 0) /\ stack[t] = << >>
        /\ UNCHANGED <<deps, deviceVars, started, stack>> /\ published' = published \cup {nev + 1}
    BY <1>1 DEF ClCreateUserEvent
  <2>2. << >> \in Seq(Ops) /\ stack' = [stack EXCEPT ![t] = << >>] /\ DOMAIN << >> = {}
    BY <2>1 DEF TypeOK
  <2>3. nev' = nev + 1 /\ kind'[nev + 1] = "user" /\ nev' # nev
    BY <1>0, <2>1, EventsAssumption DEF NewEvent, TypeOK, Events
  <2>4. \A e \in Events : e # nev + 1 =>
          /\ kind'[e] = kind[e] /\ queue'[e] = queue[e]
          /\ watch'[e] = watch[e] /\ waitCount'[e] = waitCount[e]
    BY <2>1 DEF NewEvent, TypeOK
  <2>5. Called(t, << >>)
    BY <2>1, <2>2, <2>3, <2>4 DEF Called
  <2> QED BY <2>2, <2>5, WaitsCalled
<1>2. CASE \/ EnqueueCall(t)
           \/ \E q \in Queues : ClFinish(t, q)
           \/ \E ds \in WaitLists : ClWaitForEvents(t, ds)
           \/ \E w \in published : ClSetEventCallback(t, w)
  <2>1. PICK k, q, w, body : Construct(t, k, q, w, body)
    BY <1>2, ConstructCalls
  <2> QED BY <2>1, ConstructCalled, WaitsCalled
<1>3. ASSUME NEW n \in {"complete", "fail", "flush"}, NEW e, NEW i, Op(n, e, i) \in Ops,
             Call(t, <<Op(n, e, i)>>),
             UNCHANGED <<graphVars, deviceVars, identVars, status, started, notified>>
      PROVE  Waits'
  <2> DEFINE body == <<Op(n, e, i)>>
  <2>1. /\ body \in Seq(Ops) /\ DOMAIN body = {1} /\ body[1].op = n
        /\ stack[t] = << >> /\ stack' = [stack EXCEPT ![t] = body]
    BY <1>3, OpIsOp DEF Call
  <2> HIDE DEF body
  <2>2. \A j \in DOMAIN body : BodyOK(body, j)
    BY <1>3, <2>1 DEF BodyOK
  <2>3. nev + 1 \in Events => kind[nev + 1] = "none"
    BY <1>0 DEF WorkOK
  <2>4. Called(t, body)
    BY <1>3, <2>1, <2>3 DEF Called
  <2> QED BY <2>2, <2>4, WaitsCalled
<1>4. ASSUME NEW e \in published, NEW how \in {"complete", "fail"}, ClSetUserEventStatus(t, e, how)
      PROVE  Waits'
  <2>1. Op(how, e, 0) \in Ops
    BY <1>0, OpIsOp DEF EventOps
  <2> QED BY <1>3, <1>4, <2>1 DEF ClSetUserEventStatus
<1>5. ASSUME NEW q \in Queues, ClFlush(t, q)
      PROVE  Waits'
  <2>1. Op("flush", 0, q) \in Ops
    BY OpIsOp
  <2> QED BY <1>3, <1>5, <2>1 DEF ClFlush
<1> QED BY <1>1, <1>2, <1>4, <1>5 DEF ApiCall

(* And so does every step of the system.                                    *)
LEMMA WaitsNext ==
  ASSUME TypeOK, NamesOK, Accounts, Waits, [Next]_vars
  PROVE  Waits'
<1> USE DEF graphVars, deviceVars, identVars
<1>1. Steady /\ WaitedDepsKept
  BY SteadyNext, DepsKept DEF Waits
<1>2. ASSUME UNCHANGED <<graphVars, fence, queued, flushing, identVars, status, started, stack>>,
             \A e \in Events : cmd[e] = "none" => cmd'[e] = "none"
      PROVE  Waits'
  <2>1. WaitsOK'
    BY <1>1, <1>2, WaitsSame DEF Waits
  <2>2. KindsOK' /\ ConstructedFirst'
    BY <1>2 DEF Waits, KindsOK, ConstructedFirst, Handle, Hard
  <2>3. FencesOK'
    BY <1>2 DEF Waits, FencesOK, Hard, Signalled, ToSequence, InQueue
  <2>4. FlushOK'
    BY <1>2 DEF Waits, FlushOK
  <2>5. WorkOK'
    BY <1>2 DEF Waits, WorkOK
  <2> QED BY <2>1, <2>2, <2>3, <2>4, <2>5 DEF Waits
<1>3. ASSUME NEW e \in Events, DeviceFinish(e)
      PROVE  Waits'
  <2>1. \A d \in Events : cmd[d] = "none" => cmd'[d] = "none"
    BY <1>3 DEF DeviceFinish, TypeOK
  <2> QED BY <1>2, <1>3, <2>1 DEF DeviceFinish
<1>4. CASE UNCHANGED vars
  BY <1>2, <1>4 DEF vars
<1> QED BY <1>1, <1>3, <1>4, WaitsOfStep, WaitsOfCall DEF Next

(* No call has begun in an initial state.                                   *)
LEMMA InitWaits ==
  ASSUME Init
  PROVE  Waits
<1>1. \A t \in Threads : DOMAIN stack[t] = {}
  BY DEF Init
<1>2. KindsOK /\ ConstructedFirst
  BY <1>1 DEF Init, KindsOK, ConstructedFirst
<1>3. WaitsOK /\ FlushOK
  BY <1>1 DEF Init, WaitsOK, FlushOK
<1>4. FencesOK /\ WorkOK
  BY DEF Init, FencesOK, WorkOK, Hard
<1> QED BY <1>2, <1>3, <1>4 DEF Waits

-----------------------------------------------------------------------------
(* Theorems.                                                                *)

(* The invariant of every pending wait: whatever the rest of a wait() of    *)
(* event.cpp relies on has happened, or happens earlier on the same stack.  *)
THEOREM WaitsInOrder ==
  ASSUME Serialised
  PROVE  Spec => [](TriggerAccounting /\ Waits)
<1> DEFINE I == TypeOK /\ NamesOK /\ FreshOK /\ Accounts /\ Waits
<1>1. Init => I
  BY InitNames, InitAccounts, InitWaits
<1>2. I /\ [Next]_vars => I'
  BY TypeNext, NamesNext, FreshNext, AccountsNext, WaitsNext
<1>3. I => TriggerAccounting /\ Waits
  BY DEF Accounts, TriggerAccounting
<1> QED BY <1>1, <1>2, <1>3, PTL DEF Spec

(* No wait() throws: hard_event::wait finds a fence after its flush, and    *)
(* soft_event::wait, used by clWaitForEvents, finds the event complete.     *)
THEOREM WaitsNeverFail ==
  ASSUME Serialised
  PROVE  Spec => []WaitNeverFails
<1>1. TriggerAccounting /\ Waits => WaitNeverFails
  <2>1. SUFFICES ASSUME TriggerAccounting, Waits, NEW t \in Threads
                 PROVE  LET e == Head(stack[t]).ev IN
                        /\ At(t, "wfence") => fence[e] # NoFence
                        /\ (At(t, "wend") /\ ~Hard(e)) => SoftComplete(e)
    BY DEF WaitNeverFails
  <2>2. TypeOK /\ NamesOK /\ Accounts
    BY <2>1 DEF TriggerAccounting, Accounts
  <2> QED BY <2>1, <2>2, AtWaitEnd, AtWaitFence
<1> QED BY <1>1, WaitsInOrder, PTL

(* The callback of clSetEventCallback runs once the event it reports is     *)
(* complete, whichever thread triggers it.                                  *)
THEOREM NotifiedAfterComplete ==
  ASSUME Serialised
  PROVE  Spec => []NotifyAfterComplete
<1>1. TriggerAccounting /\ Waits => NotifyAfterComplete
  BY AtNotify DEF TriggerAccounting, NotifyAfterComplete
<1> QED BY <1>1, WaitsInOrder, PTL

(* An event the application has seen complete stays complete: its count     *)
(* does not wrap, its fence is not replaced and it is not aborted.          *)
THEOREM CompletionIsFinal ==
  ASSUME Serialised
  PROVE  Spec => CompleteForever
<1>1. TriggerAccounting /\ Waits /\ [Next]_vars
        => [\A e \in published : HandleComplete(e) => HandleComplete(e)']_vars
  <2>1. SUFFICES ASSUME TriggerAccounting, Waits, [Next]_vars, NEW e \in published, HandleComplete(e)
                 PROVE  HandleComplete(e)'
    OBVIOUS
  <2>2. TypeOK /\ NamesOK /\ Accounts
    BY <2>1 DEF TriggerAccounting, Accounts
  <2>3. e \in Events /\ e <= nev
    BY <2>1, <2>2 DEF TypeOK, NamesOK
  <2>4. Steady
    BY <2>1, <2>2, SteadyNext
  <2> QED BY <2>1, <2>3, <2>4 DEF Steady
<1> QED BY <1>1, WaitsInOrder, PTL DEF Spec, CompleteForever

-----------------------------------------------------------------------------
(* An application with one thread.  With several, event::trigger may count  *)
(* an event down to zero without its action, and an action may record its   *)
(* work between two turns of the loop of flush(); with one, neither is      *)
(* possible.                                                                *)

(* A trigger that is about to be counted follows the action, or it is       *)
(* counted at once and is not the last one.                                 *)
CountedAfterAction ==
  \A t \in Threads : \A k \in DOMAIN stack[t] : stack[t][k].op = "dec" =>
    started[stack[t][k].ev] # 0 \/ (k = 1 /\ owed[stack[t][k].ev] # {stack[t][k].arg})

(* While flush() is in its loop nothing else runs, so its fence covers all  *)
(* the work of the queue.                                                   *)
FlushedWork ==
  \A q \in Queues : flushing[q] # NoFence =>
    /\ \E t \in Threads : At(t, "fpop") /\ Head(stack[t]).arg = q
    /\ InFlight(q) \subseteq flushing[q]

(* An action leaves work, and the fence of an event covers its own.         *)
FenceCovers ==
  \A e \in Events :
    /\ (kind[e] = "copy" /\ started[e] # 0) => cmd[e] = "done"
    /\ (kind[e] = "command" /\ started[e] # 0) => cmd[e] # "none"
    /\ (kind[e] = "command" /\ fence[e] # NoFence) => cmd[e] = "done" \/ e \in fence[e]

Sequential == CountedAfterAction /\ SignalledWasStarted /\ FlushedWork /\ FenceCovers

(* An action that ran has run.                                              *)
LEMMA StartedStays ==
  ASSUME TypeOK, NEW t \in Threads, Step(t), NEW e \in Events, started[e] # 0
  PROVE  started'[e] # 0
<1>1. CASE Act(t)
  <2>1. started[e] \in Nat
    BY DEF TypeOK
  <2>2. started'[e] \in {started[e], started[e] + 1}
    BY <1>1 DEF Act, TypeOK
  <2> QED BY <2>1, <2>2
<1>2. CASE ~Act(t)
  <2>1. UNCHANGED started
    BY <1>2 DEF Step, Chain, Sequence, SetStatus, Trigger, TriggerSelf, Abort, AbortSelf, Wait,
           WaitSignalled, WaitEnd, WaitFence, Flush, FlushPop, Notify, Return
  <2> QED BY <2>1
<1> QED BY <1>1, <1>2

(* If no counting is pushed, what will be counted was there before.         *)
LEMMA NoCountPushed ==
  ASSUME TypeOK, NEW t \in Threads, stack[t] # << >>, NEW a \in Seq(Ops), Continue(t, a),
         \A k \in 1..Len(a) : a[k].op # "dec",
         NEW k \in DOMAIN stack'[t], stack'[t][k].op = "dec"
  PROVE  \E j \in DOMAIN stack[t] : j # 1 /\ stack'[t][k] = stack[t][j]
<1>1. k \in Nat /\ k >= 1 /\ Len(a) \in Nat
  BY ContinueAt
<1>2. CASE k > Len(a)
  BY <1>2, ContinueAt
<1>3. CASE ~(k > Len(a))
  <2>1. k \in 1..Len(a)
    BY <1>1, <1>3
  <2>2. stack'[t][k] = a[k]
    BY <2>1, ContinueAt
  <2> QED BY <2>1, <2>2
<1> QED BY <1>2, <1>3

(* Where a trigger that is about to be counted comes from.                  *)
LEMMA CountOrigin ==
  ASSUME TypeOK, NamesOK, Accounts, Waits, NEW t \in Threads, Step(t),
         NEW k \in DOMAIN stack'[t], stack'[t][k].op = "dec"
  PROVE  LET o == Head(stack[t]) IN
         \/ \E j \in DOMAIN stack[t] : j # 1 /\ stack'[t][k] = stack[t][j]
         \/ Trigger(t) /\ k = 1 /\ waitCount[o.ev] # 1 /\ stack'[t][k] = Op("dec", o.ev, o.arg)
         \/ Act(t) /\ stack'[t][k] = Op("dec", o.ev, o.arg)
<1> USE DEF graphVars, deviceVars, identVars
<1> DEFINE o == Head(stack[t])
           Old == \E j \in DOMAIN stack[t] : j # 1 /\ stack'[t][k] = stack[t][j]
<1>0. ASSUME stack[t] # << >>, Continue(t, << >>)
      PROVE  Old
  <2>1. PICK a : a = << >>
    OBVIOUS
  <2>2. a \in Seq(Ops) /\ Len(a) = 0
    BY <2>1
  <2>3. Continue(t, a) /\ \A j \in 1..Len(a) : a[j].op # "dec"
    BY <1>0, <2>1, <2>2
  <2> QED BY <1>0, <2>2, <2>3, NoCountPushed
<1>1. CASE Chain(t) \/ Sequence(t) \/ Notify(t) \/ Return(t)
  <2>1. stack[t] # << >> /\ Continue(t, << >>)
    BY <1>1 DEF Chain, Sequence, Notify, Return, At
  <2>2. Old
    BY <1>0, <2>1
  <2> QED BY <2>2
<1>2. CASE SetStatus(t)
  <2>1. stack[t] # << >> /\ o.ev \in Events
    BY <1>2, HeadTrigger DEF SetStatus, EventOps
  <2>2. CASE Continue(t, << >>)
    <3>1. Old
      BY <1>0, <2>1, <2>2
    <3> QED BY <3>1
  <2>3. ASSUME NEW n \in {"abort", "trig"}, Continue(t, <<Op(n, o.ev, 0)>>)
        PROVE  Old
    <3>1. PICK p : p = Op(n, o.ev, 0)
      OBVIOUS
    <3>2. p \in Ops /\ p.op = n
      BY <2>1, <3>1, OpIsOp DEF EventOps
    <3>3. <<p>> \in Seq(Ops) /\ \A j \in 1..Len(<<p>>) : <<p>>[j].op # "dec"
      BY <3>2
    <3>4. Continue(t, <<p>>)
      BY <2>3, <3>1
    <3> QED BY <2>1, <3>3, <3>4, NoCountPushed
  <2> QED BY <1>2, <2>2, <2>3 DEF SetStatus
<1>3. CASE Trigger(t)
  <2>1. stack[t] # << >> /\ o.ev \in Events /\ o.arg \in Nat
    BY <1>3, HeadTrigger DEF Trigger, EventOps
  <2>2. PICK p : p = Op(IF waitCount[o.ev] = 1 THEN "act" ELSE "dec", o.ev, o.arg)
    OBVIOUS
  <2>3. PICK a : a = <<p>>
    OBVIOUS
  <2>4. p \in Ops /\ p.op = IF waitCount[o.ev] = 1 THEN "act" ELSE "dec"
    BY <2>1, <2>2, OpIsOp DEF EventOps
  <2>5. a \in Seq(Ops) /\ Len(a) = 1 /\ a[1] = p /\ Continue(t, a)
    <3>1. a \in Seq(Ops) /\ Len(a) = 1 /\ a[1] = p
      BY <2>3, <2>4
    <3> QED BY <1>3, <2>2, <2>3, <3>1 DEF Trigger
  <2>6. CASE k > 1
    <3>1. Old
      BY <2>1, <2>5, <2>6, ContinueAt
    <3> QED BY <3>1
  <2>7. CASE ~(k > 1)
    <3>1. k \in Nat /\ k >= 1
      BY <2>1, <2>5, ContinueAt
    <3>2. k = 1
      BY <2>7, <3>1
    <3>3. stack'[t][1] = p
      <4>1. \A j \in 1..Len(a) : stack'[t][j] = a[j]
        BY <2>1, <2>5, ContinueAt
      <4> QED BY <2>5, <4>1
    <3>4. waitCount[o.ev] # 1
      BY <2>4, <3>2, <3>3
    <3> QED BY <1>3, <2>2, <3>2, <3>3, <3>4
  <2> QED BY <2>6, <2>7
<1>4. CASE Act(t) \/ Abort(t)
  <2>1. PICK e, i, n : e = o.ev /\ i = o.arg /\ n = IF Act(t) THEN "dec" ELSE "aself"
    OBVIOUS
  <2>2. stack[t] # << >> /\ e \in Events /\ e <= nev /\ i \in Nat /\ n \in {"dec", "aself"}
    BY <1>4, <2>1, HeadFacts, OpTypes DEF Act, Abort, EventOps, OpOK
  <2>3. PICK a : a = ActionOps(e, Op(n, e, i))
    OBVIOUS
  <2>4. Continue(t, a)
    BY <1>4, <2>1, <2>3 DEF Act, Abort
  <2>5. /\ a \in Seq(Ops) /\ Len(a) \in Nat /\ a[Len(a)] = Op(n, e, i)
        /\ \A j \in 1..Len(a) : j # Len(a) => a[j] \in QuietOps
    BY <2>2, <2>3, CallbackShape
  <2>6. \A j \in 1..Len(a) : j # Len(a) => a[j].op # "dec"
    BY <2>5, QuietOpsOK
  <2>7. k \in Nat /\ k >= 1
    BY <2>2, <2>4, <2>5, ContinueAt
  <2>8. CASE k > Len(a)
    <3>1. Old
      BY <2>2, <2>4, <2>5, <2>8, ContinueAt
    <3> QED BY <3>1
  <2>9. CASE ~(k > Len(a))
    <3>1. k \in 1..Len(a)
      BY <2>5, <2>7, <2>9
    <3>2. stack'[t][k] = a[k]
      BY <2>2, <2>4, <2>5, <3>1, ContinueAt
    <3>3. k = Len(a)
      BY <2>6, <3>1, <3>2
    <3>4. stack'[t][k] = Op(n, e, i)
      BY <2>5, <3>2, <3>3
    <3>5. n = "dec"
      BY <3>4, OpIsOp
    <3> QED BY <2>1, <3>4, <3>5
  <2> QED BY <2>8, <2>9
<1>5. ASSUME NEW n \in {"trig", "abort"}, Continue(t, Fire(n, o.ev)), stack[t] # << >>,
             o.ev \in Events
      PROVE  Old
  <2>1. PICK f : f = Fire(n, o.ev)
    OBVIOUS
  <2>2. /\ f \in Seq(Ops) /\ Len(f) = Len(chain[o.ev])
        /\ \A j \in 1..Len(chain[o.ev]) : f[j] = Op(n, chain[o.ev][j][1], chain[o.ev][j][2])
    BY <1>5, <2>1, FireShape
  <2>3. \A j \in 1..Len(f) : f[j].op # "dec"
    BY <2>2, OpIsOp
  <2> QED BY <1>5, <2>1, <2>2, <2>3, NoCountPushed
<1>6. CASE TriggerSelf(t)
  <2>1. stack[t] # << >> /\ o.ev \in Events
    BY <1>6, HeadTrigger DEF TriggerSelf, EventOps
  <2>2. CASE Continue(t, << >>)
    <3>1. Old
      BY <1>0, <2>1, <2>2
    <3> QED BY <3>1
  <2>3. Continue(t, << >>) \/ Continue(t, Fire("trig", o.ev))
    BY <1>6 DEF TriggerSelf
  <2> QED BY <1>5, <2>1, <2>2, <2>3
<1>7. CASE AbortSelf(t)
  <2>1. stack[t] # << >> /\ o.ev \in Events /\ Continue(t, Fire("abort", o.ev))
    BY <1>7, HeadTrigger DEF AbortSelf, EventOps
  <2> QED BY <1>5, <2>1
<1>8. CASE Wait(t) \/ WaitSignalled(t) \/ WaitEnd(t) \/ WaitFence(t) \/ Flush(t) \/ FlushPop(t)
  <2>1. Quiet
    BY <1>8, QuietSteps
  <2>2. /\ stack[t] # << >>
        /\ o.op \in {"wait", "wsig", "wend", "wfence", "flush", "fpop"}
    BY <1>8 DEF Wait, WaitSignalled, WaitEnd, WaitFence, Flush, FlushPop, At
  <2>3. CASE stack'[t] = stack[t]
    <3>1. k \in DOMAIN stack[t] /\ stack'[t][k] = stack[t][k]
      BY <2>3
    <3>2. o = stack[t][1]
      BY <2>2, HeadOp DEF TypeOK
    <3>3. k # 1
      BY <2>2, <3>1, <3>2
    <3> QED BY <3>1, <3>3
  <2>4. ASSUME NEW a \in Seq(QuietOps), Continue(t, a)
        PROVE  Old
    <3>1. a \in Seq(Ops) /\ \A j \in 1..Len(a) : a[j].op # "dec"
      BY <2>4, QuietOpsOK
    <3> QED BY <2>2, <2>4, <3>1, NoCountPushed
  <2>5. CASE Throw(t)
    BY <2>5 DEF Throw, TypeOK
  <2>6. ASSUME NEW u \in Threads, NEW x, u # t, stack' = [stack EXCEPT ![u] = x]
        PROVE  stack'[t] = stack[t]
    BY <2>6 DEF TypeOK
  <2>7. \/ stack'[t] = stack[t] \/ Throw(t) \/ \E a \in Seq(QuietOps) : Continue(t, a)
    <3>1. CASE stack' = stack
      BY <3>1
    <3>2. ASSUME NEW u \in Threads, Throw(u)
          PROVE  stack'[t] = stack[t] \/ Throw(t)
      BY <2>6, <3>2 DEF Throw
    <3>3. ASSUME NEW u \in Threads, NEW a \in Seq(QuietOps), Continue(u, a)
          PROVE  stack'[t] = stack[t] \/ Continue(t, a)
      BY <2>6, <3>3 DEF Continue
    <3>4. ASSUME NEW u \in Threads, NEW p \in QuietOps, stack[u] = << >>,
                 stack' = [stack EXCEPT ![u] = <<p>>]
          PROVE  stack'[t] = stack[t]
      BY <2>2, <2>6, <3>4
    <3> QED BY <2>1, <3>1, <3>2, <3>3, <3>4 DEF Quiet, QuietStack
  <2> QED BY <2>3, <2>4, <2>5, <2>7
<1> QED BY <1>1, <1>2, <1>3, <1>4, <1>6, <1>7, <1>8 DEF Step

(* Every trigger counted by the only thread follows the action or is not    *)
(* the last one: nothing happens between the two halves of trigger().       *)
LEMMA CountedStep ==
  ASSUME TypeOK, NamesOK, Accounts, Waits, OneThread, CountedAfterAction,
         NEW t \in Threads, Step(t)
  PROVE  CountedAfterAction'
<1> USE DEF graphVars, deviceVars, identVars
<1>1. ASSUME NEW u \in Threads, NEW k \in DOMAIN stack'[u], stack'[u][k].op = "dec"
      PROVE  \/ started'[stack'[u][k].ev] # 0
             \/ k = 1 /\ owed'[stack'[u][k].ev] # {stack'[u][k].arg}
  <2>1. u = t
    BY DEF OneThread
  <2>2. PICK o : o = Head(stack[t])
    OBVIOUS
  <2>3. ASSUME NEW j \in DOMAIN stack[t], j # 1, stack'[t][k] = stack[t][j]
        PROVE  started'[stack'[t][k].ev] # 0
    <3>1. PICK p : p = stack[t][j]
      OBVIOUS
    <3>2. p \in Ops /\ p.op = "dec"
      BY <1>1, <2>1, <2>3, <3>1, SeqDomain DEF TypeOK
    <3>3. p.ev \in Events
      BY <3>2, OpTypes DEF EventOps
    <3>4. started[p.ev] # 0
      BY <2>3, <3>1, <3>2 DEF CountedAfterAction
    <3> QED BY <2>3, <3>1, <3>3, <3>4, StartedStays
  <2>4. ASSUME Trigger(t), waitCount[o.ev] # 1, stack'[t][k] = Op("dec", o.ev, o.arg)
        PROVE  owed'[stack'[t][k].ev] # {stack'[t][k].arg}
    <3>1. o.ev \in Events
      BY <2>2, <2>4, HeadTrigger DEF Trigger, EventOps
    <3>2. waitCount[o.ev] = Cardinality(owed[o.ev])
      BY <3>1 DEF Accounts, CountOK
    <3>3. Cardinality({o.arg}) = 1
      BY FS_Singleton
    <3>4. owed[o.ev] # {o.arg}
      BY <2>4, <3>2, <3>3
    <3>5. UNCHANGED owed
      BY <2>4 DEF Trigger
    <3> QED BY <2>4, <3>4, <3>5, OpIsOp
  <2>5. ASSUME Act(t), stack'[t][k] = Op("dec", o.ev, o.arg)
        PROVE  started'[stack'[t][k].ev] # 0
    <3>1. o.ev \in Events
      BY <2>2, <2>5, HeadTrigger DEF Act, EventOps
    <3>2. started[o.ev] \in Nat /\ started'[o.ev] = started[o.ev] + 1
      BY <2>2, <2>5, <3>1 DEF Act, TypeOK
    <3> QED BY <2>5, <3>2, OpIsOp
  <2>6. \/ \E j \in DOMAIN stack[t] : j # 1 /\ stack'[t][k] = stack[t][j]
        \/ Trigger(t) /\ k = 1 /\ waitCount[o.ev] # 1 /\ stack'[t][k] = Op("dec", o.ev, o.arg)
        \/ Act(t) /\ stack'[t][k] = Op("dec", o.ev, o.arg)
    BY <1>1, <2>1, <2>2, CountOrigin
  <2> QED BY <2>1, <2>3, <2>4, <2>5, <2>6
<1> QED BY <1>1 DEF CountedAfterAction

(* So what a step signals has been started.                                 *)
LEMMA SignalledStep ==
  ASSUME TypeOK, NamesOK, Accounts, CountedAfterAction, SignalledWasStarted,
         NEW t \in Threads, Step(t)
  PROVE  SignalledWasStarted'
<1> USE DEF graphVars, deviceVars, identVars
<1>1. nev' = nev /\ nev \in Nat /\ 1..nev \subseteq Events
  BY StepConstructsNone, EventsAssumption DEF TypeOK, Events
<1>2. ASSUME NEW e \in 1..nev, waitCount'[e] = 0
      PROVE  started'[e] # 0
  <2>1. e \in Events /\ waitCount[e] \in Nat /\ started[e] \in Nat
    BY <1>1, <1>2 DEF TypeOK
  <2>2. CASE waitCount[e] = 0
    <3>1. started[e] # 0
      BY <2>1, <2>2 DEF SignalledWasStarted, Signalled
    <3> QED BY <2>1, <3>1, StartedStays
  <2>3. CASE waitCount[e] # 0
    <3>1. PICK o : o = Head(stack[t])
      OBVIOUS
    <3>2. e = o.ev
      BY <1>2, <2>1, <2>3, <3>1, StepIsLocal
    <3>3. ASSUME NEW d, ChainTo(d, e)
          PROVE  FALSE
      <4>1. waitCount'[e] \in {waitCount[e], waitCount[e] + 1}
        BY <2>1, <3>3 DEF ChainTo, TypeOK
      <4> QED BY <1>2, <2>1, <2>3, <4>1, SMTT(30)
    <3>4. ASSUME UNCHANGED waitCount
          PROVE  FALSE
      BY <1>2, <2>3, <3>4
    <3>5. CASE Chain(t) \/ Sequence(t)
      BY <3>1, <3>2, <3>3, <3>4, <3>5 DEF Chain, Sequence
    <3>6. CASE SetStatus(t) \/ Trigger(t) \/ Act(t) \/ Abort(t) \/ AbortSelf(t)
      BY <3>4, <3>6 DEF SetStatus, Trigger, Act, Abort, AbortSelf
    <3>7. CASE \/ Wait(t) \/ WaitSignalled(t) \/ WaitEnd(t) \/ WaitFence(t)
               \/ Flush(t) \/ FlushPop(t) \/ Notify(t) \/ Return(t)
      BY <3>4, <3>7, QuietSteps DEF Quiet
    <3>8. CASE TriggerSelf(t)
      <4>1. /\ o.op = "dec" /\ 1 \in DOMAIN stack[t] /\ o = stack[t][1] /\ CausedTrigger(o)
        BY <3>1, <3>8, HeadTrigger DEF TriggerSelf
      <4>2. o.arg \in owed[e]
        BY <3>2, <4>1 DEF CausedTrigger
      <4>3. waitCount'[e] = Dec(waitCount[e])
        BY <2>1, <3>1, <3>2, <3>8 DEF TriggerSelf, TypeOK
      <4>4. waitCount[e] = 1
        BY <1>2, <2>1, <2>3, <4>3 DEF Dec
      <4>5. owed[e] = {o.arg}
        BY <2>1, <4>2, <4>4, OwedCount DEF Accounts
      <4>6. started[e] # 0
        BY <3>2, <4>1, <4>5 DEF CountedAfterAction
      <4> QED BY <2>1, <4>6, StartedStays
    <3> QED BY <3>5, <3>6, <3>7, <3>8 DEF Step
  <2> QED BY <2>2, <2>3
<1>3. ASSUME NEW e \in 1..nev', Signalled(e)'
      PROVE  started'[e] > 0
  <2>1. started'[e] # 0 /\ e \in Events
    BY <1>1, <1>2, <1>3 DEF Signalled
  <2>2. started'[e] \in Nat
    <3>1. TypeOK'
      BY TypeNext DEF Next
    <3> QED BY <2>1, <3>1 DEF TypeOK
  <2> QED BY <2>1, <2>2
<1> QED BY <1>3 DEF SignalledWasStarted

(* While the only thread is in the loop of flush(), nothing records work.   *)
LEMMA FlushedStep ==
  ASSUME TypeOK, NamesOK, OneThread, FlushedWork, NEW t \in Threads, Step(t)
  PROVE  FlushedWork'
<1> USE DEF graphVars, deviceVars, identVars
<1>0. UNCHANGED <<nev, kind, queue, watch>>
  BY StepConstructsNone
<1>1. CASE At(t, "fpop")
  <2>1. FlushPop(t)
    BY <1>1, StepOfHead
  <2>2. PICK x : x = Head(stack[t]).arg
    OBVIOUS
  <2>3. x \in Queues
    BY <1>1, <2>2, HeadFacts, OpTypes
  <2>4. CASE queued[x] # << >> /\ Signalled(Head(queued[x]))
    <3>1. UNCHANGED <<flushing, stack, cmd>>
      BY <2>1, <2>2, <2>4 DEF FlushPop
    <3> QED BY <1>0, <3>1 DEF FlushedWork, At, InFlight
  <2>5. CASE ~(queued[x] # << >> /\ Signalled(Head(queued[x])))
    <3>1. flushing' = [flushing EXCEPT ![x] = NoFence]
      BY <2>1, <2>2, <2>5 DEF FlushPop
    <3>2. ASSUME NEW q \in Queues
          PROVE  flushing'[q] = NoFence
      <4>1. CASE q = x
        BY <2>3, <3>1, <4>1 DEF TypeOK
      <4>2. CASE q # x
        <5>1. flushing[q] = NoFence
          BY <2>2, <4>2 DEF FlushedWork, OneThread
        <5> QED BY <3>1, <4>2, <5>1 DEF TypeOK
      <4> QED BY <4>1, <4>2
    <3> QED BY <3>2 DEF FlushedWork
  <2> QED BY <2>4, <2>5
<1>2. CASE ~At(t, "fpop")
  <2>1. \A q \in Queues : flushing[q] = NoFence
    BY <1>2 DEF FlushedWork, OneThread
  <2>2. CASE Flush(t)
    <3>1. PICK x : x = Head(stack[t]).arg
      OBVIOUS
    <3>2. x \in Queues /\ stack[t] # << >>
      BY <2>2, <3>1, HeadFacts, OpTypes DEF Flush
    <3>3. CASE queued[x] = << >>
      <4>1. UNCHANGED flushing
        BY <2>2, <3>1, <3>3 DEF Flush
      <4> QED BY <2>1, <4>1 DEF FlushedWork
    <3>4. CASE queued[x] # << >>
      <4>1. /\ flushing' = [flushing EXCEPT ![x] = InFlight(x)]
            /\ cmd' = [e \in Events |-> IF e \in InFlight(x) THEN "submitted" ELSE cmd[e]]
            /\ Continue(t, <<Op("fpop", 0, x)>>)
        BY <2>2, <3>1, <3>4 DEF Flush
      <4>2. PICK p, a : p = Op("fpop", 0, x) /\ a = <<p>>
        OBVIOUS
      <4>3. p \in Ops /\ p.op = "fpop" /\ p.arg = x
        BY <3>2, <4>2, OpIsOp
      <4>4. a \in Seq(Ops) /\ Len(a) = 1 /\ a[1] = p
        BY <4>2, <4>3
      <4>5. 1 \in DOMAIN stack'[t] /\ stack'[t][1] = p
        <5>1. Continue(t, a)
          BY <4>1, <4>2
        <5>2. \A j \in 1..Len(a) : j \in DOMAIN stack'[t] /\ stack'[t][j] = a[j]
          BY <3>2, <4>4, <5>1, ContinueAt
        <5> QED BY <4>4, <5>2
      <4>6. stack'[t] \in Seq(Ops)
        <5>1. TypeOK'
          BY TypeNext DEF Next
        <5> QED BY <5>1 DEF TypeOK
      <4>7. stack'[t] # << >> /\ Head(stack'[t]) = p
        BY <4>5, <4>6
      <4>8. \A e \in Events : (queue[e] = x /\ cmd'[e] \in {"recorded", "submitted"}) => e \in InFlight(x)
        BY <4>1 DEF InFlight
      <4>9. ASSUME NEW q \in Queues, flushing'[q] # NoFence
            PROVE  q = x /\ flushing'[q] = InFlight(x)
        BY <2>1, <3>2, <4>1, <4>9 DEF TypeOK
      <4>10. ASSUME NEW q \in Queues, flushing'[q] # NoFence
             PROVE  InFlight(q)' \subseteq flushing'[q]
        <5>1. InFlight(q)' = {e \in Events : queue[e] = q /\ cmd'[e] \in {"recorded", "submitted"}}
          BY <1>0 DEF InFlight
        <5> QED BY <4>8, <4>9, <4>10, <5>1
      <4> QED BY <4>3, <4>7, <4>9, <4>10 DEF FlushedWork, At
    <3> QED BY <3>3, <3>4
  <2>3. CASE ~Flush(t)
    <3>1. ~FlushPop(t)
      BY <1>2 DEF FlushPop
    <3>2. UNCHANGED flushing
      BY <2>3, <3>1 DEF Step, Chain, Sequence, SetStatus, Trigger, Act, TriggerSelf, Abort,
             AbortSelf, Wait, WaitSignalled, WaitEnd, WaitFence, Notify, Return
    <3> QED BY <2>1, <3>2 DEF FlushedWork
  <2> QED BY <2>2, <2>3
<1> QED BY <1>1, <1>2

(* An event leaves its queue with a fence that covers its own work.         *)
LEMMA FenceCoversStep ==
  ASSUME TypeOK, NamesOK, Accounts, Waits, Sequential, NEW t \in Threads, Step(t)
  PROVE  FenceCovers'
<1> USE DEF graphVars, deviceVars, identVars
<1>0. UNCHANGED <<nev, kind, queue, watch>> /\ FenceCovers
  BY StepConstructsNone DEF Sequential
<1>1. CASE Act(t)
  <2>1. PICK x : x = Head(stack[t]).ev
    OBVIOUS
  <2>2. x \in Events /\ owed[x] = {Head(stack[t]).arg}
    BY <1>1, <2>1, HeadTrigger, LastTrigger DEF Act, EventOps
  <2>3. fence[x] = NoFence
    <3>1. ~Signalled(x)
      BY <2>2, OwedCount DEF Accounts
    <3> QED BY <2>2, <3>1 DEF Waits, FencesOK
  <2>4. /\ UNCHANGED fence
        /\ kind[x] = "copy" => cmd'[x] = "done"
        /\ kind[x] = "command" => cmd'[x] = "recorded"
        /\ \A e \in Events : e # x => cmd'[e] = cmd[e] /\ started'[e] = started[e]
    BY <1>1, <2>1, <2>2 DEF Act, TypeOK
  <2> QED BY <1>0, <2>2, <2>3, <2>4 DEF FenceCovers
<1>2. CASE Flush(t)
  <2>1. UNCHANGED <<fence, started>>
    BY <1>2 DEF Flush
  <2>2. \A e \in Events : /\ cmd[e] = "done" => cmd'[e] = "done"
                          /\ cmd[e] # "none" => cmd'[e] # "none"
    BY <1>2 DEF Flush, InFlight
  <2> QED BY <1>0, <2>1, <2>2 DEF FenceCovers
<1>3. CASE FlushPop(t)
  <2>1. UNCHANGED <<cmd, started>>
    BY <1>3 DEF FlushPop
  <2>2. PICK x, h : x = Head(stack[t]).arg /\ h = Head(queued[x])
    OBVIOUS
  <2>3. /\ x \in Queues /\ 1 \in DOMAIN stack[t]
        /\ stack[t][1].op = "fpop" /\ stack[t][1].arg = x
    BY <1>3, <2>2, HeadFacts, OpTypes DEF FlushPop
  <2>4. CASE queued[x] # << >> /\ Signalled(h)
    <3>1. fence' = [fence EXCEPT ![h] = flushing[x]]
      BY <1>3, <2>2, <2>4 DEF FlushPop
    <3>2. queued[x] \in Seq(Events)
      BY <2>3 DEF TypeOK
    <3>3. h \in Events /\ 1 \in DOMAIN queued[x] /\ h = queued[x][1]
      BY <2>2, <2>4, <3>2
    <3>4. h \in 1..nev /\ queue[h] = x
      <4>1. h <= nev /\ queue[h] = x
        BY <2>3, <3>3 DEF NamesOK, Waits, KindsOK
      <4> QED BY <3>3, <4>1, EventsAssumption DEF TypeOK, Events
    <3>5. started[h] # 0
      <4>1. started[h] > 0
        BY <2>4, <3>4 DEF Sequential, SignalledWasStarted
      <4> QED BY <4>1
    <3>6. flushing[x] # NoFence
      BY <2>3 DEF Waits, FlushOK
    <3>7. InFlight(x) \subseteq flushing[x]
      BY <2>3, <3>6 DEF Sequential, FlushedWork
    <3>8. kind[h] = "command" => cmd[h] = "done" \/ h \in flushing[x]
      <4>1. kind[h] = "command" => cmd[h] # "none"
        BY <1>0, <3>3, <3>5 DEF FenceCovers
      <4>2. cmd[h] \in {"none", "recorded", "submitted", "done"}
        BY <3>3 DEF TypeOK
      <4> QED BY <3>3, <3>4, <3>7, <4>1, <4>2 DEF InFlight
    <3>9. fence'[h] = flushing[x] /\ \A e \in Events : e # h => fence'[e] = fence[e]
      BY <3>1, <3>3 DEF TypeOK
    <3> QED BY <1>0, <2>1, <3>8, <3>9 DEF FenceCovers
  <2>5. CASE ~(queued[x] # << >> /\ Signalled(h))
    <3>1. UNCHANGED fence
      BY <1>3, <2>2, <2>5 DEF FlushPop
    <3> QED BY <1>0, <2>1, <3>1 DEF FenceCovers
  <2> QED BY <2>4, <2>5
<1>4. CASE ~Act(t) /\ ~Flush(t) /\ ~FlushPop(t)
  <2>1. UNCHANGED <<cmd, fence, started>>
    BY <1>4 DEF Step, Chain, Sequence, SetStatus, Trigger, TriggerSelf, Abort, AbortSelf, Wait,
           WaitSignalled, WaitEnd, WaitFence, Notify, Return
  <2> QED BY <1>0, <2>1 DEF FenceCovers
<1> QED BY <1>1, <1>2, <1>3, <1>4

(* A call begins when nothing else runs, and its body counts nothing.       *)
LEMMA CallFacts ==
  ASSUME TypeOK, NamesOK, NEW t \in Threads, ApiCall(t)
  PROVE  /\ stack[t] = << >>
         /\ UNCHANGED <<deviceVars, started>>
         /\ \A k \in DOMAIN stack'[t] : stack'[t][k].op # "dec"
         /\ \/ UNCHANGED <<nev, kind, queue, waitCount>>
            \/ \E k, q, w : NewEvent(k, q, w)
<1> USE DEF graphVars, deviceVars, identVars
<1>1. CASE ClCreateUserEvent(t)
  <2>1. /\ stack[t] = << >> /\ UNCHANGED <<deviceVars, started, stack>>
        /\ NewEvent("user", 0, 0)
    BY <1>1 DEF ClCreateUserEvent
  <2> QED BY <2>1
<1>2. CASE \/ EnqueueCall(t)
           \/ \E q \in Queues : ClFinish(t, q)
           \/ \E ds \in WaitLists : ClWaitForEvents(t, ds)
           \/ \E w \in published : ClSetEventCallback(t, w)
  <2>1. PICK k, q, w, body : Construct(t, k, q, w, body)
    BY <1>2, ConstructCalls
  <2>2. /\ NewEvent(k, q, w) /\ stack[t] = << >> /\ body \in Seq(Ops)
        /\ stack' = [stack EXCEPT ![t] = body] /\ UNCHANGED <<deviceVars, started>>
    BY <2>1 DEF Construct
  <2>3. stack'[t] = body /\ DOMAIN body = 1..Len(body)
    BY <2>2 DEF TypeOK
  <2>4. ASSUME NEW j \in 1..Len(body)
        PROVE  body[j].op # "dec"
    <3>1. PICK l \in 1..Len(body) :
            /\ body[l] = Op("trig", nev + 1, 0)
            /\ j < l => body[j].op \in {"chain", "seq"}
            /\ j > l => body[j].op \in {"wsig", "wait", "ret"}
      BY <2>1, <2>4 DEF Construct, CtorBody
    <3>2. body[l].op = "trig"
      BY <3>1, OpIsOp
    <3>3. j < l \/ j = l \/ j > l
      OBVIOUS
    <3> QED BY <3>1, <3>2, <3>3
  <2> QED BY <2>2, <2>3, <2>4
<1>3. ASSUME NEW n \in {"complete", "fail", "flush"}, NEW e, NEW i, Call(t, <<Op(n, e, i)>>)
      PROVE  stack[t] = << >> /\ \A k \in DOMAIN stack'[t] : stack'[t][k].op # "dec"
  <2>1. PICK p : p = Op(n, e, i)
    OBVIOUS
  <2>2. p.op = n
    BY <2>1, OpIsOp
  <2>3. stack[t] = << >> /\ stack'[t] = <<p>>
    BY <1>3, <2>1 DEF Call, TypeOK
  <2>4. \A k \in DOMAIN <<p>> : <<p>>[k] = p
    OBVIOUS
  <2> QED BY <2>2, <2>3, <2>4
<1>4. ASSUME NEW e \in published, NEW how \in {"complete", "fail"}, ClSetUserEventStatus(t, e, how)
      PROVE  /\ Call(t, <<Op(how, e, 0)>>)
             /\ UNCHANGED <<deviceVars, nev, kind, queue, waitCount, started>>
  BY <1>4 DEF ClSetUserEventStatus
<1>5. ASSUME NEW q \in Queues, ClFlush(t, q)
      PROVE  /\ Call(t, <<Op("flush", 0, q)>>)
             /\ UNCHANGED <<deviceVars, nev, kind, queue, waitCount, started>>
  BY <1>5 DEF ClFlush
<1> QED BY <1>1, <1>2, <1>3, <1>4, <1>5 DEF ApiCall

(* So a call of the only thread keeps the invariant.                        *)
LEMMA SequentialCall ==
  ASSUME TypeOK, NamesOK, FreshOK, Waits, OneThread, Sequential, NEW t \in Threads, ApiCall(t)
  PROVE  Sequential'
<1> USE DEF graphVars, deviceVars, identVars
<1>1. /\ stack[t] = << >> /\ UNCHANGED <<deviceVars, started>>
      /\ \A k \in DOMAIN stack'[t] : stack'[t][k].op # "dec"
      /\ UNCHANGED <<nev, kind, queue, waitCount>> \/ \E k, q, w : NewEvent(k, q, w)
  BY CallFacts
<1>2. CountedAfterAction'
  BY <1>1 DEF CountedAfterAction, OneThread
<1>3. FlushedWork'
  <2>1. \A q \in Queues : flushing[q] = NoFence
    BY <1>1 DEF Sequential, FlushedWork, OneThread, At
  <2> QED BY <1>1, <2>1 DEF FlushedWork
<1>4. ASSUME UNCHANGED <<nev, kind, queue, waitCount>>
      PROVE  SignalledWasStarted' /\ FenceCovers'
  BY <1>1, <1>4 DEF Sequential, SignalledWasStarted, FenceCovers, Signalled
<1>5. ASSUME NEW k, NEW q, NEW w, NewEvent(k, q, w)
      PROVE  SignalledWasStarted' /\ FenceCovers'
  <2>1. PICK n : n = nev + 1
    OBVIOUS
  <2>2. n \in Events /\ nev \in Nat /\ nev' = n /\ n > nev
    BY <1>5, <2>1, EventsAssumption DEF NewEvent, TypeOK, Events
  <2>3. /\ waitCount'[n] = 1
        /\ \A e \in Events : e # n => waitCount'[e] = waitCount[e] /\ kind'[e] = kind[e]
    BY <1>5, <2>1, <2>2 DEF NewEvent, TypeOK
  <2>4. started[n] = 0 /\ fence[n] = NoFence
    <3>1. started[n] = 0 /\ kind[n] = "none"
      BY <2>2 DEF FreshOK, Waits, WorkOK
    <3> QED BY <2>2, <3>1 DEF Waits, FencesOK, Hard
  <2>5. FenceCovers'
    BY <1>1, <2>3, <2>4 DEF Sequential, FenceCovers
  <2>6. ASSUME NEW e \in 1..nev', waitCount'[e] = 0
        PROVE  started'[e] > 0
    <3>1. e # n
      BY <2>3, <2>6
    <3>2. e \in 1..n
      BY <2>2, <2>6
    <3>3. e \in 1..nev /\ e \in Events
      BY <2>1, <2>2, <3>1, <3>2, EventsAssumption DEF Events
    <3> QED BY <1>1, <2>3, <2>6, <3>1, <3>3 DEF Sequential, SignalledWasStarted, Signalled
  <2> QED BY <2>5, <2>6 DEF SignalledWasStarted, Signalled
<1> QED BY <1>1, <1>2, <1>3, <1>4, <1>5 DEF Sequential

(* And so does every step.                                                  *)
LEMMA SequentialNext ==
  ASSUME TypeOK, NamesOK, FreshOK, Accounts, Waits, OneThread, Sequential, [Next]_vars
  PROVE  Sequential'
<1> USE DEF graphVars, deviceVars, identVars
<1>1. ASSUME NEW t \in Threads, Step(t)
      PROVE  Sequential'
  <2>1. CountedAfterAction' /\ SignalledWasStarted'
    BY <1>1, CountedStep, SignalledStep DEF Sequential
  <2>2. FlushedWork'
    BY <1>1, FlushedStep DEF Sequential
  <2> QED BY <1>1, <2>1, <2>2, FenceCoversStep DEF Sequential
<1>2. ASSUME NEW d \in Events, DeviceFinish(d)
      PROVE  Sequential'
  <2>1. /\ UNCHANGED <<stack, started, owed, waitCount, nev, kind, queue, fence, flushing>>
        /\ \A e \in Events : cmd'[e] = cmd[e] \/ (cmd[e] # "none" /\ cmd'[e] = "done")
    BY <1>2 DEF DeviceFinish, TypeOK
  <2>2. CountedAfterAction' /\ SignalledWasStarted'
    BY <2>1 DEF Sequential, CountedAfterAction, SignalledWasStarted, Signalled
  <2>3. FlushedWork'
    <3>1. \A q \in Queues : InFlight(q)' \subseteq InFlight(q)
      BY <2>1 DEF InFlight
    <3> QED BY <2>1, <3>1 DEF Sequential, FlushedWork, At
  <2>4. FenceCovers'
    BY <2>1 DEF Sequential, FenceCovers
  <2> QED BY <2>2, <2>3, <2>4 DEF Sequential
<1>3. CASE UNCHANGED vars
  <2>1. UNCHANGED <<stack, started, owed, waitCount, nev, kind, queue, fence, flushing, cmd>>
    BY <1>3 DEF vars
  <2>2. CountedAfterAction' /\ SignalledWasStarted'
    BY <2>1 DEF Sequential, CountedAfterAction, SignalledWasStarted, Signalled
  <2>3. FlushedWork' /\ FenceCovers'
    BY <2>1 DEF Sequential, FlushedWork, FenceCovers, At, InFlight
  <2> QED BY <2>2, <2>3 DEF Sequential
<1> QED BY <1>1, <1>2, <1>3, SequentialCall DEF Next

(* With one thread, nothing comes between the two halves of a trigger(),    *)
(* nor into the loop of a flush().                                          *)
THEOREM SequentialOrder ==
  ASSUME OneThread
  PROVE  Spec => [](TypeOK /\ Sequential)
<1> DEFINE I == TypeOK /\ NamesOK /\ FreshOK /\ Accounts /\ Waits /\ Sequential
<1>1. Init => I
  <2>1. ASSUME Init
        PROVE  Sequential
    <3>1. CountedAfterAction /\ SignalledWasStarted
      BY <2>1 DEF Init, CountedAfterAction, SignalledWasStarted
    <3>2. FlushedWork /\ FenceCovers
      BY <2>1 DEF Init, FlushedWork, FenceCovers
    <3> QED BY <3>1, <3>2 DEF Sequential
  <2> QED BY <2>1, InitNames, InitAccounts, InitWaits
<1>2. I /\ [Next]_vars => I'
  <2>1. Serialised
    BY DEF Serialised
  <2> QED BY <2>1, TypeNext, NamesNext, FreshNext, AccountsNext, WaitsNext, SequentialNext
<1> QED BY <1>1, <1>2, PTL DEF Spec

(* event.hpp: when an event is signalled "the associated task will be       *)
(* started".  In an application with one thread an event is signalled only  *)
(* after its action has run, whatever is chained, aborted, called back or   *)
(* waited for; with a second thread it is not so (see events_lost_action).  *)
THEOREM SignalledAfterAction ==
  ASSUME OneThread
  PROVE  Spec => []SignalledWasStarted
<1>1. TypeOK /\ Sequential => SignalledWasStarted
  BY DEF Sequential
<1> QED BY <1>1, SequentialOrder, PTL

(* event.hpp: "A hard_event is considered complete when the associated      *)
(* hardware task finishes execution".  In an application with one thread a  *)
(* complete event's work has been executed: the fence it got from flush()   *)
(* covers it; with a second thread it may not (see events_flush_race).      *)
THEOREM CompleteAfterWork ==
  ASSUME OneThread
  PROVE  Spec => []CompleteWasExecuted
<1>1. TypeOK /\ Sequential => CompleteWasExecuted
  <2>1. SUFFICES ASSUME TypeOK, FenceCovers, NEW e \in Events, kind[e] \in {"command", "copy"},
                        started[e] > 0, HandleComplete(e)
                 PROVE  cmd[e] = "done"
    BY DEF Sequential, CompleteWasExecuted
  <2>2. Finished(fence[e])
    BY <2>1 DEF HandleComplete, Hard
  <2>3. started[e] # 0
    BY <2>1
  <2> QED BY <2>1, <2>2, <2>3 DEF FenceCovers, Finished
<1> QED BY <1>1, SequentialOrder, PTL
=============================================================================
