---------------------------- MODULE CloverEvents ----------------------------
(***************************************************************************)
(* The event graph and the command queues of the Clover OpenCL state       *)
(* tracker (core/event.cpp, core/queue.cpp) under the API entry points     *)
(* that drive them (api/event.cpp, api/queue.cpp, and the common shape of  *)
(* the enqueue calls of api/transfer.cpp and api/kernel.cpp).              *)
(*                                                                         *)
(* Every thread of the application runs at most one API call at a time.    *)
(* What is left of the call is a sequence of operations, stack[t]: a step  *)
(* of the thread executes the first one and replaces it by what the C++    *)
(* code runs next (the callee's body), so that one step is one critical    *)
(* section of the code and every interleaving of critical sections is      *)
(* explored.                                                               *)
(*                                                                         *)
(* The device (pipe_context, fences) is external: a recorded command is    *)
(* submitted by pipe->flush and finishes some time later.                  *)
(***************************************************************************)
EXTENDS Integers, Sequences, FiniteSets

CONSTANTS
  Threads,        \* threads of the application
  NumQueues,      \* command queues, all on one device
  MaxEvents,      \* bound: events created in a behaviour
  MaxDeps,        \* bound: length of a wait list
  WordSize,       \* number of values of the unsigned _wait_count
  ExclusiveSet,   \* the application serialises clSetUserEventStatus per event
  Calls           \* the API calls the application makes

ASSUME EventsAssumption ==
  /\ NumQueues \in Nat /\ MaxEvents \in Nat /\ MaxDeps \in Nat
  /\ WordSize \in Nat \ {0}
  /\ ExclusiveSet \in BOOLEAN

VARIABLES
  nev,        \* events 1..nev have been constructed
  kind,       \* what the event is: user (clCreateUserEvent), command, copy
              \* or marker (a hard_event whose action records work for the
              \* device, copies at once, or is empty), cb
              \* (clSetEventCallback), tmp (the soft_event of clWaitForEvents)
  queue,      \* hard_event::_queue (0 for a soft event)
  watch,      \* the event a cb event reports (the lambda's &ev)
  waitCount,  \* event::_wait_count
  status,     \* event::_status
  chain,      \* event::_chain, each entry with its position in deps
  deps,       \* event::deps
  owed,       \* history: the triggers the event still waits for (0 is its
              \* own, i the one of deps[i])
  started,    \* history: how many times action_ok ran
  notified,   \* history: how many times the callback of a cb event ran
  cmd,        \* external: state of the event's work in the pipe_context
  fence,      \* hard_event::_fence, as the set of events it covers
  queued,     \* command_queue::queued_events
  flushing,   \* the local fence of the running flush, NoFence when
              \* queued_events_mutex is free
  published,  \* events the application has a handle of
  stack       \* what is left to run of each thread's call

graphVars == <<waitCount, chain, deps, owed>>
deviceVars == <<cmd, fence, queued, flushing>>
identVars == <<nev, kind, queue, watch, published>>
vars == <<graphVars, deviceVars, identVars, status, started, notified, stack>>

Events == 1..MaxEvents
Queues == 1..NumQueues
Kinds == {"none", "user", "command", "copy", "marker", "cb", "tmp"}
NoFence == {0}

EventOps == {"seq", "complete", "fail", "trig", "act", "dec", "abort", "aself",
             "wait", "wsig", "wend", "wfence", "notify", "ret"}

(* An operation: its name, the event it is about and its argument (a        *)
(* dependency, a queue, or the position in deps of the event that caused    *)
(* it).                                                                     *)
Op(name, e, arg) == [op |-> name, ev |-> e, arg |-> arg]
Ops ==
       [op : {"chain"}, ev : Events, arg : Events]
  \cup [op : {"flush", "fpop"}, ev : {0}, arg : Queues]
  \cup [op : EventOps, ev : Events, arg : Nat]

Hard(e) == kind[e] \in {"command", "copy", "marker"}
Signalled(e) == waitCount[e] = 0

(* External: a fence is finished when everything it covers has finished.    *)
Finished(f) == f # NoFence /\ \A e \in f : cmd[e] = "done"

(* status() == CL_COMPLETE, of an event the application can name, and of a  *)
(* soft event, whose dependencies are always such events.                   *)
HandleComplete(e) ==
  /\ status[e] = 0
  /\ IF Hard(e) THEN Finished(fence[e]) ELSE Signalled(e)

SoftComplete(e) ==
  /\ status[e] = 0
  /\ Signalled(e)
  /\ \A k \in DOMAIN deps[e] : HandleComplete(deps[e][k])

(* --_wait_count on an unsigned: 0 wraps.  (++_wait_count would wrap after  *)
(* 2^32 dependencies of one event, which no program reaches.)               *)
Dec(n) == IF n = 0 THEN WordSize - 1 ELSE n - 1

Init ==
  /\ nev = 0
  /\ kind = [e \in Events |-> "none"]
  /\ queue = [e \in Events |-> 0]
  /\ watch = [e \in Events |-> 0]
  /\ waitCount = [e \in Events |-> 0]
  /\ status = [e \in Events |-> 0]
  /\ chain = [e \in Events |-> << >>]
  /\ deps = [e \in Events |-> << >>]
  /\ owed = [e \in Events |-> {}]
  /\ started = [e \in Events |-> 0]
  /\ notified = [e \in Events |-> 0]
  /\ cmd = [e \in Events |-> "none"]
  /\ fence = [e \in Events |-> NoFence]
  /\ queued = [q \in Queues |-> << >>]
  /\ flushing = [q \in Queues |-> NoFence]
  /\ published = {}
  /\ stack = [t \in Threads |-> << >>]

-----------------------------------------------------------------------------
(* API calls.  A call needs an idle thread and leaves its body in stack[t]. *)

(* The constructor of event: _wait_count(1), _status(0), no fence.          *)
NewEvent(k, q, w) ==
  /\ nev < MaxEvents
  /\ nev' = nev + 1
  /\ kind' = [kind EXCEPT ![nev + 1] = k]
  /\ queue' = [queue EXCEPT ![nev + 1] = q]
  /\ watch' = [watch EXCEPT ![nev + 1] = w]
  /\ waitCount' = [waitCount EXCEPT ![nev + 1] = 1]
  /\ owed' = [owed EXCEPT ![nev + 1] = {0}]

(* The constructor's loop that chains the event to its wait list.           *)
ChainOps(e, ds) == [k \in 1..Len(ds) |-> Op("chain", e, ds[k])]

WaitLists == UNION {[1..n -> published] : n \in 0..MaxDeps}

Call(t, body) ==
  /\ stack[t] = << >>
  /\ stack' = [stack EXCEPT ![t] = body]

ClCreateUserEvent(t) ==
  /\ "user" \in Calls
  /\ stack[t] = << >>
  /\ NewEvent("user", 0, 0)
  /\ published' = published \cup {nev + 1}
  /\ UNCHANGED <<chain, deps, deviceVars, status, started, notified, stack>>

(* An operation that stands for one trigger of its event: the operations of *)
(* trigger(), and those of clSetUserEventStatus on the way to it.           *)
Holds(o) ==
  \/ o.op \in {"trig", "act", "dec"}
  \/ o.op \in {"complete", "fail", "abort", "aself"} /\ o.arg = 0

(* A call on e that has not yet triggered or aborted it.                    *)
BeingSet(e) ==
  \E t \in Threads : \E k \in DOMAIN stack[t] :
    Holds(stack[t][k]) /\ stack[t][k].ev = e /\ stack[t][k].arg = 0

ClSetUserEventStatus(t, e, how) ==
  /\ how \in Calls
  /\ e \in published /\ kind[e] = "user"
  /\ ExclusiveSet => ~BeingSet(e)
  /\ Call(t, <<Op(how, e, 0)>>)
  /\ UNCHANGED <<graphVars, deviceVars, identVars, status, started, notified>>

(* The constructor of hard_event, chained to a wait list, put in its queue  *)
(* and triggered; blocking calls then wait until it is signalled.           *)
Enqueue(t, k, q, ds, blocking) ==
  LET e == nev + 1 IN
  /\ NewEvent(k, q, 0)
  /\ Call(t, ChainOps(e, ds) \o
               IF blocking
               THEN <<Op("seq", e, 0), Op("trig", e, 0), Op("wsig", e, 0), Op("ret", e, 0)>>
               ELSE <<Op("seq", e, 0), Op("trig", e, 0), Op("ret", e, 0)>>)
  /\ UNCHANGED <<chain, deps, deviceVars, published, status, started, notified>>

(* The calls whose action records work in the pipe_context: the kernels     *)
(* and the copies of clEnqueueCopyBuffer and clEnqueueCopyImage.            *)
ClEnqueueKernel(t, q, ds) ==
  /\ "command" \in Calls
  /\ Enqueue(t, "command", q, ds, FALSE)

(* The calls whose action copies with the CPU through a mapping.            *)
ClEnqueueTransfer(t, q, ds, blocking) ==
  /\ "copy" \in Calls
  /\ blocking => "blocking" \in Calls
  /\ Enqueue(t, "copy", q, ds, blocking)

(* The calls whose event has an empty action: markers and barriers...       *)
ClEnqueueMarker(t, q, ds) ==
  /\ "marker" \in Calls
  /\ Enqueue(t, "marker", q, ds, FALSE)

(* ... and maps: the memory is mapped before the event is created.          *)
ClEnqueueMap(t, q, ds, blocking) ==
  /\ "map" \in Calls
  /\ blocking => "blocking" \in Calls
  /\ Enqueue(t, "marker", q, ds, blocking)

ClFinish(t, q) ==
  LET e == nev + 1 IN
  /\ "finish" \in Calls
  /\ NewEvent("marker", q, 0)
  /\ Call(t, <<Op("seq", e, 0), Op("trig", e, 0), Op("wait", e, 0)>>)
  /\ UNCHANGED <<chain, deps, deviceVars, published, status, started, notified>>

ClWaitForEvents(t, ds) ==
  LET e == nev + 1 IN
  /\ "wait" \in Calls
  /\ ds # << >>
  /\ \A k \in DOMAIN ds : status[ds[k]] = 0
  /\ NewEvent("tmp", 0, 0)
  /\ Call(t, ChainOps(e, ds) \o <<Op("trig", e, 0), Op("wait", e, 0)>>)
  /\ UNCHANGED <<chain, deps, deviceVars, published, status, started, notified>>

ClSetEventCallback(t, w) ==
  LET e == nev + 1 IN
  /\ "callback" \in Calls
  /\ NewEvent("cb", 0, w)
  /\ Call(t, <<Op("chain", e, w), Op("trig", e, 0)>>)
  /\ UNCHANGED <<chain, deps, deviceVars, published, status, started, notified>>

ClFlush(t, q) ==
  /\ "flush" \in Calls
  /\ Call(t, <<Op("flush", 0, q)>>)
  /\ UNCHANGED <<graphVars, deviceVars, identVars, status, started, notified>>

-----------------------------------------------------------------------------
(* Steps of a running call.                                                 *)

(* The first operation of t is the one named.                               *)
At(t, name) == stack[t] # << >> /\ Head(stack[t]).op = name

(* It is replaced by the operations next; << >> just removes it.            *)
Continue(t, next) == stack' = [stack EXCEPT ![t] = next \o Tail(@)]

(* An exception unwinds the whole call.                                     *)
Throw(t) == stack' = [stack EXCEPT ![t] = << >>]

(* Mutant: chain() forgets ev._wait_count++.                                *)
ChainToUncounted(d, e) ==
  LET i == Len(deps[e]) + 1 IN
  /\ deps' = [deps EXCEPT ![e] = Append(@, d)]
  /\ IF waitCount[d] # 0
     THEN /\ chain' = [chain EXCEPT ![d] = Append(@, <<e, i>>)]
          /\ owed' = [owed EXCEPT ![e] = @ \cup {i}]
          /\ UNCHANGED waitCount
     ELSE UNCHANGED <<waitCount, chain, owed>>

(* Mutant: chain() does not look whether d has already been signalled.      *)
ChainToSignalled(d, e) ==
  LET i == Len(deps[e]) + 1 IN
  /\ deps' = [deps EXCEPT ![e] = Append(@, d)]
  /\ waitCount' = [waitCount EXCEPT ![e] = @ + 1]
  /\ chain' = [chain EXCEPT ![d] = Append(@, <<e, i>>)]
  /\ owed' = [owed EXCEPT ![e] = @ \cup {i}]

(* d.chain(e), under the mutexes of both: e waits for d unless d has        *)
(* already been signalled.                                                  *)
ChainTo(d, e) ==
  LET i == Len(deps[e]) + 1 IN
  /\ deps' = [deps EXCEPT ![e] = Append(@, d)]
  /\ IF waitCount[d] # 0
     THEN /\ waitCount' = [waitCount EXCEPT ![e] = @ + 1]
          /\ chain' = [chain EXCEPT ![d] = Append(@, <<e, i>>)]
          /\ owed' = [owed EXCEPT ![e] = @ \cup {i}]
     ELSE UNCHANGED <<waitCount, chain, owed>>

Chain(t) ==
  LET o == Head(stack[t]) IN
  /\ At(t, "chain")
  /\ ChainTo(o.arg, o.ev)
  /\ Continue(t, << >>)
  /\ UNCHANGED <<deviceVars, identVars, status, started, notified>>

(* Mutant: sequence() does not chain the event to the one before it.        *)
SequenceUnchained(t) ==
  LET e == Head(stack[t]).ev
      q == queue[e] IN
  /\ At(t, "seq")
  /\ flushing[q] = NoFence
  /\ queued' = [queued EXCEPT ![q] = Append(@, e)]
  /\ Continue(t, << >>)
  /\ UNCHANGED <<graphVars, cmd, fence, flushing, identVars, status, started, notified>>

(* command_queue::sequence, under queued_events_mutex.                      *)
Sequence(t) ==
  LET e == Head(stack[t]).ev
      q == queue[e] IN
  /\ At(t, "seq")
  /\ flushing[q] = NoFence
  /\ IF queued[q] = << >>
     THEN UNCHANGED graphVars
     ELSE ChainTo(queued[q][Len(queued[q])], e)
  /\ queued' = [queued EXCEPT ![q] = Append(@, e)]
  /\ Continue(t, << >>)
  /\ UNCHANGED <<cmd, fence, flushing, identVars, status, started, notified>>

(* Mutant: clSetUserEventStatus only refuses an event that failed.          *)
SetStatusAgain(t) ==
  LET o == Head(stack[t]) IN
  /\ At(t, "complete") \/ At(t, "fail")
  /\ Continue(t, IF status[o.ev] < 0 THEN << >>
                 ELSE <<Op(IF o.op = "fail" THEN "abort" ELSE "trig", o.ev, 0)>>)
  /\ UNCHANGED <<graphVars, deviceVars, identVars, status, started, notified>>

(* The check of clSetUserEventStatus: sev.status() <= 0 is an error.        *)
SetStatus(t) ==
  LET o == Head(stack[t]) IN
  /\ At(t, "complete") \/ At(t, "fail")
  /\ Continue(t, IF status[o.ev] < 0 \/ Signalled(o.ev) THEN << >>
                 ELSE <<Op(IF o.op = "fail" THEN "abort" ELSE "trig", o.ev, 0)>>)
  /\ UNCHANGED <<graphVars, deviceVars, identVars, status, started, notified>>

(* Mutant: every trigger runs the action.                                   *)
TriggerAlways(t) ==
  LET o == Head(stack[t]) IN
  /\ At(t, "trig")
  /\ Continue(t, <<Op("act", o.ev, o.arg)>>)
  /\ UNCHANGED <<graphVars, deviceVars, identVars, status, started, notified>>

(* Mutant: the action is run for an event that is already signalled.        *)
TriggerOffByOne(t) ==
  LET o == Head(stack[t]) IN
  /\ At(t, "trig")
  /\ Continue(t, <<Op(IF waitCount[o.ev] = 0 THEN "act" ELSE "dec", o.ev, o.arg)>>)
  /\ UNCHANGED <<graphVars, deviceVars, identVars, status, started, notified>>

(* The first critical section of trigger(): is this the last trigger?       *)
Trigger(t) ==
  LET o == Head(stack[t]) IN
  /\ At(t, "trig")
  /\ Continue(t, <<Op(IF waitCount[o.ev] = 1 THEN "act" ELSE "dec", o.ev, o.arg)>>)
  /\ UNCHANGED <<graphVars, deviceVars, identVars, status, started, notified>>

(* Mutant: the callback does not wait for the event.                        *)
ActionOpsAtOnce(e, after) ==
  IF kind[e] = "cb" THEN <<Op("notify", e, 0), after>> ELSE <<after>>

(* What runs when an action is called, and after it: the action of a cb     *)
(* event waits for the event it watches and calls pfn_notify.               *)
ActionOps(e, after) ==
  IF kind[e] = "cb"
  THEN <<Op("wait", watch[e], 0), Op("notify", e, 0), after>>
  ELSE <<after>>

(* action_ok: a command records its work in the pipe_context, a copy is     *)
(* made at once.                                                            *)
Act(t) ==
  LET o == Head(stack[t]) IN
  /\ At(t, "act")
  /\ started' = [started EXCEPT ![o.ev] = @ + 1]
  /\ cmd' = CASE kind[o.ev] = "command" -> [cmd EXCEPT ![o.ev] = "recorded"]
              [] kind[o.ev] = "copy" -> [cmd EXCEPT ![o.ev] = "done"]
              [] OTHER -> cmd
  /\ Continue(t, ActionOps(o.ev, Op("dec", o.ev, o.arg)))
  /\ UNCHANGED <<graphVars, fence, queued, flushing, identVars, status, notified>>

(* The triggers (or aborts) of everything chained to e, one after another.  *)
Fire(name, e) ==
  [k \in 1..Len(chain[e]) |-> Op(name, chain[e][k][1], chain[e][k][2])]

(* trigger_self(), and the loop of trigger() over what it returns.          *)
TriggerSelf(t) ==
  LET o == Head(stack[t])
      last == Dec(waitCount[o.ev]) = 0 IN
  /\ At(t, "dec")
  /\ waitCount' = [waitCount EXCEPT ![o.ev] = Dec(@)]
  /\ owed' = [owed EXCEPT ![o.ev] = @ \ {o.arg}]
  /\ chain' = IF last THEN [chain EXCEPT ![o.ev] = << >>] ELSE chain
  /\ Continue(t, IF last THEN Fire("trig", o.ev) ELSE << >>)
  /\ UNCHANGED <<deps, deviceVars, identVars, status, started, notified>>

(* abort() starts with action_fail, which is empty for a hard event and the *)
(* same action as action_ok for a soft one.                                 *)
Abort(t) ==
  LET o == Head(stack[t]) IN
  /\ At(t, "abort")
  /\ Continue(t, ActionOps(o.ev, Op("aself", o.ev, o.arg)))
  /\ UNCHANGED <<graphVars, deviceVars, identVars, status, started, notified>>

(* Mutant: a status that is not negative gets through to abort_self.        *)
AbortSelfPositive(t) ==
  LET o == Head(stack[t]) IN
  /\ At(t, "aself")
  /\ status' = [status EXCEPT ![o.ev] = 1]
  /\ chain' = [chain EXCEPT ![o.ev] = << >>]
  /\ Continue(t, Fire("abort", o.ev))
  /\ UNCHANGED <<waitCount, deps, owed, deviceVars, identVars, started, notified>>

(* Mutant: abort_self counts as a trigger.                                  *)
AbortSelfCounts(t) ==
  LET o == Head(stack[t]) IN
  /\ At(t, "aself")
  /\ status' = [status EXCEPT ![o.ev] = -1]
  /\ waitCount' = [waitCount EXCEPT ![o.ev] = Dec(@)]
  /\ chain' = [chain EXCEPT ![o.ev] = << >>]
  /\ Continue(t, Fire("abort", o.ev))
  /\ UNCHANGED <<deps, owed, deviceVars, identVars, started, notified>>

(* abort_self(), and the loop of abort() over what it returns.              *)
AbortSelf(t) ==
  LET o == Head(stack[t]) IN
  /\ At(t, "aself")
  /\ status' = [status EXCEPT ![o.ev] = -1]
  /\ chain' = [chain EXCEPT ![o.ev] = << >>]
  /\ Continue(t, Fire("abort", o.ev))
  /\ UNCHANGED <<waitCount, deps, owed, deviceVars, identVars, started, notified>>

(* Mutant: wait() does not wait for the dependencies.                       *)
WaitIgnoringDeps(t) ==
  LET e == Head(stack[t]).ev IN
  /\ At(t, "wait")
  /\ Continue(t, <<Op("wsig", e, 0), Op("wend", e, 0)>>)
  /\ UNCHANGED <<graphVars, deviceVars, identVars, status, started, notified>>

(* wait(): event::wait() on every dependency, wait_signalled(), and then    *)
(* the rest of the override of hard_event or soft_event.                    *)
Wait(t) ==
  LET e == Head(stack[t]).ev IN
  /\ At(t, "wait")
  /\ Continue(t, [k \in 1..Len(deps[e]) |-> Op("wait", deps[e][k], 0)]
                   \o <<Op("wsig", e, 0), Op("wend", e, 0)>>)
  /\ UNCHANGED <<graphVars, deviceVars, identVars, status, started, notified>>

WaitSignalled(t) ==
  /\ At(t, "wsig")
  /\ Signalled(Head(stack[t]).ev)
  /\ Continue(t, << >>)
  /\ UNCHANGED <<graphVars, deviceVars, identVars, status, started, notified>>

(* hard_event::wait flushes a queued event; soft_event::wait throws unless  *)
(* the event is complete.                                                   *)
WaitEnd(t) ==
  LET e == Head(stack[t]).ev IN
  /\ At(t, "wend")
  /\ IF Hard(e)
     THEN Continue(t, (IF status[e] = 0 /\ fence[e] = NoFence
                       THEN <<Op("flush", 0, queue[e])>> ELSE << >>)
                        \o <<Op("wfence", e, 0)>>)
     ELSE IF SoftComplete(e) THEN Continue(t, << >>) ELSE Throw(t)
  /\ UNCHANGED <<graphVars, deviceVars, identVars, status, started, notified>>

WaitFence(t) ==
  LET e == Head(stack[t]).ev IN
  /\ At(t, "wfence")
  /\ \/ fence[e] = NoFence /\ Throw(t)
     \/ Finished(fence[e]) /\ Continue(t, << >>)
  /\ UNCHANGED <<graphVars, deviceVars, identVars, status, started, notified>>

(* Mutant: the fence stands for what an earlier flush submitted.            *)
InFlightBefore(q) == {e \in Events : queue[e] = q /\ cmd[e] = "submitted"}

(* The work of q that a fence returned by pipe->flush stands for.           *)
InFlight(q) == {e \in Events : queue[e] = q /\ cmd[e] \in {"recorded", "submitted"}}

(* command_queue::flush takes queued_events_mutex and, unless the queue is  *)
(* empty, submits what has been recorded.                                   *)
Flush(t) ==
  LET q == Head(stack[t]).arg IN
  /\ At(t, "flush")
  /\ flushing[q] = NoFence
  /\ IF queued[q] = << >>
     THEN UNCHANGED <<cmd, flushing>> /\ Continue(t, << >>)
     ELSE /\ flushing' = [flushing EXCEPT ![q] = InFlight(q)]
          /\ cmd' = [e \in Events |-> IF e \in InFlight(q) THEN "submitted" ELSE cmd[e]]
          /\ Continue(t, <<Op("fpop", 0, q)>>)
  /\ UNCHANGED <<graphVars, fence, queued, identVars, status, started, notified>>

(* One turn of its loop: give the fence to a signalled event at the front,  *)
(* or stop and release the mutex.                                           *)
FlushPop(t) ==
  LET q == Head(stack[t]).arg IN
  /\ At(t, "fpop")
  /\ IF queued[q] # << >> /\ Signalled(Head(queued[q]))
     THEN /\ fence' = [fence EXCEPT ![Head(queued[q])] = flushing[q]]
          /\ queued' = [queued EXCEPT ![q] = Tail(@)]
          /\ UNCHANGED <<flushing, stack>>
     ELSE /\ flushing' = [flushing EXCEPT ![q] = NoFence]
          /\ Continue(t, << >>)
          /\ UNCHANGED <<fence, queued>>
  /\ UNCHANGED <<graphVars, cmd, identVars, status, started, notified>>

(* pfn_notify of clSetEventCallback.                                        *)
Notify(t) ==
  /\ At(t, "notify")
  /\ notified' = [notified EXCEPT ![Head(stack[t]).ev] = @ + 1]
  /\ Continue(t, << >>)
  /\ UNCHANGED <<graphVars, deviceVars, identVars, status, started>>

(* ret_object: the application gets the handle.                             *)
Return(t) ==
  /\ At(t, "ret")
  /\ published' = published \cup {Head(stack[t]).ev}
  /\ Continue(t, << >>)
  /\ UNCHANGED <<graphVars, deviceVars, nev, kind, queue, watch, status, started, notified>>

(* External: the device finishes a submitted command.                       *)
DeviceFinish(e) ==
  /\ cmd[e] = "submitted"
  /\ cmd' = [cmd EXCEPT ![e] = "done"]
  /\ UNCHANGED <<graphVars, fence, queued, flushing, identVars, status,
                 started, notified, stack>>

-----------------------------------------------------------------------------

EnqueueCall(t) ==
  \E q \in Queues, ds \in WaitLists :
    \/ ClEnqueueKernel(t, q, ds) \/ ClEnqueueMarker(t, q, ds)
    \/ \E b \in BOOLEAN : ClEnqueueTransfer(t, q, ds, b) \/ ClEnqueueMap(t, q, ds, b)

ApiCall(t) ==
  \/ ClCreateUserEvent(t)
  \/ \E e \in published, how \in {"complete", "fail"} : ClSetUserEventStatus(t, e, how)
  \/ EnqueueCall(t)
  \/ \E q \in Queues : ClFinish(t, q) \/ ClFlush(t, q)
  \/ \E ds \in WaitLists : ClWaitForEvents(t, ds)
  \/ \E w \in published : ClSetEventCallback(t, w)

Step(t) ==
  \/ Chain(t) \/ Sequence(t) \/ SetStatus(t)
  \/ Trigger(t) \/ Act(t) \/ TriggerSelf(t)
  \/ Abort(t) \/ AbortSelf(t)
  \/ Wait(t) \/ WaitSignalled(t) \/ WaitEnd(t) \/ WaitFence(t)
  \/ Flush(t) \/ FlushPop(t)
  \/ Notify(t) \/ Return(t)

Next ==
  \/ \E t \in Threads : ApiCall(t) \/ Step(t)
  \/ \E e \in Events : DeviceFinish(e)

Spec == Init /\ [][Next]_vars

(* A thread inside the library runs whenever it can, even when it has to    *)
(* compete for a mutex again and again, and the device finishes what was    *)
(* submitted to it.  Nothing makes the application call anything.           *)
FairSpec ==
  /\ Spec
  /\ \A t \in Threads : SF_vars(Step(t))
  /\ \A e \in Events : WF_vars(DeviceFinish(e))

-----------------------------------------------------------------------------
(* Properties.                                                              *)

(* Type invariant: the values every variable ranges over.                   *)
TypeOK ==
  /\ nev \in 0..MaxEvents
  /\ kind \in [Events -> Kinds]
  /\ queue \in [Events -> 0..NumQueues]
  /\ watch \in [Events -> 0..MaxEvents]
  /\ waitCount \in [Events -> Nat]
  /\ status \in [Events -> {0, -1}]
  /\ chain \in [Events -> Seq(Events \X Nat)]
  /\ deps \in [Events -> Seq(Events)]
  /\ owed \in [Events -> SUBSET Nat]
  /\ started \in [Events -> Nat]
  /\ notified \in [Events -> Nat]
  /\ cmd \in [Events -> {"none", "recorded", "submitted", "done"}]
  /\ fence \in [Events -> SUBSET (0..MaxEvents)]
  /\ queued \in [Queues -> Seq(Events)]
  /\ flushing \in [Queues -> SUBSET (0..MaxEvents)]
  /\ published \subseteq Events
  /\ stack \in [Threads -> Seq(Ops)]

(* event::trigger runs the task of an event at most once, however the       *)
(* triggers of its dependencies interleave.                                 *)
ActionAtMostOnce == \A e \in Events : started[e] <= 1

(* event.hpp: once an event is aborted "the associated task will never be   *)
(* started", even while other dependencies still trigger it.                *)
AbortedNeverRuns == \A e \in Events : status[e] # 0 => started[e] = 0

(* When a thread is about to run the task of an event, every dependency of  *)
(* the event (wait list and queue predecessor) has been signalled.          *)
ActionAfterDeps ==
  \A t \in Threads : At(t, "act") =>
    LET e == Head(stack[t]).ev IN
      \A k \in DOMAIN deps[e] : Signalled(deps[e][k])

(* Events of a queue become signalled in queue order: flush(), which stops  *)
(* at the first unsignalled event, leaves no signalled one behind.          *)
QueueInOrder ==
  \A q \in Queues : \A j, k \in DOMAIN queued[q] :
    (j < k /\ Signalled(queued[q][k])) => Signalled(queued[q][j])

(* No wait() throws: after wait_signalled() and flush() a hard event has a  *)
(* fence, and a soft event whose dependencies were waited for is complete.  *)
WaitNeverFails ==
  \A t \in Threads :
    LET e == Head(stack[t]).ev IN
    /\ At(t, "wfence") => fence[e] # NoFence
    /\ (At(t, "wend") /\ ~Hard(e)) => SoftComplete(e)

(* The callback of clSetEventCallback runs after the event it watches is    *)
(* complete, and pfn_notify gets that status.                               *)
NotifyAfterComplete ==
  \A t \in Threads : At(t, "notify") => HandleComplete(watch[Head(stack[t]).ev])

(* Completion is final: an event the application has seen complete stays so *)
(* (its count does not wrap, its fence is not replaced, it is not aborted). *)
CompleteForever ==
  [][\A e \in published : HandleComplete(e) => HandleComplete(e)']_vars

(* event.hpp: when an event is signalled "the associated task will be       *)
(* started", i.e. an event is signalled only after its task was started.    *)
SignalledWasStarted ==
  \A e \in 1..nev : Signalled(e) => started[e] > 0

(* event.hpp: "A hard_event is considered complete when the associated      *)
(* hardware task finishes execution": once complete, what the task recorded *)
(* has been executed.                                                       *)
CompleteWasExecuted ==
  \A e \in Events :
    (kind[e] \in {"command", "copy"} /\ started[e] > 0 /\ HandleComplete(e)) => cmd[e] = "done"

(* If the application eventually completes every user event, every call     *)
(* returns: no lost wakeup, no cycle of waits, no event without its fence.  *)
UsersComplete == \A e \in Events : kind[e] = "user" => Signalled(e)

CallsReturn ==
  []<>UsersComplete => \A t \in Threads : []<>(stack[t] = << >>)

-----------------------------------------------------------------------------
(* An inductive invariant for an application that serialises its calls of   *)
(* clSetUserEventStatus per event (ExclusiveSet).  It accounts for every    *)
(* trigger an event waits for: the ones it is owed are in the chain of a    *)
(* dependency or on the stack of exactly one thread.                        *)

(* What an operation names exists and has the kind the code's types say.    *)
OpOK(o) ==
  /\ o.ev <= nev
  /\ o.op = "chain" => o.arg <= nev /\ kind[o.ev] # "user"
  /\ o.op = "seq" => Hard(o.ev)
  /\ o.op \in {"complete", "fail"} => kind[o.ev] = "user" /\ o.arg = 0

(* The same of everything else that names an event or a queue.              *)
NamesOK ==
  /\ published \subseteq 1..nev
  /\ \A e \in Events : \A k \in DOMAIN deps[e] : deps[e][k] <= nev
  /\ \A q \in Queues : \A k \in DOMAIN queued[q] : queued[q][k] <= nev
  /\ \A e \in Events : Hard(e) => queue[e] \in Queues
  /\ \A e \in Events : kind[e] = "cb" => watch[e] \in 1..nev
  /\ \A e \in Events : kind[e] = "user" => deps[e] = << >>
  /\ \A d \in Events : \A k \in DOMAIN chain[d] : chain[d][k][1] <= nev
  /\ \A t \in Threads : \A k \in DOMAIN stack[t] : OpOK(stack[t][k])

(* An event that does not exist yet is as the constructor expects it.       *)
FreshOK ==
  \A e \in Events : e > nev =>
    waitCount[e] = 0 /\ owed[e] = {} /\ deps[e] = << >> /\ status[e] = 0 /\ started[e] = 0

(* _wait_count counts the triggers the event is owed: its own and at most   *)
(* one per dependency.                                                      *)
CountOK ==
  \A e \in Events :
    /\ owed[e] \subseteq 0..Len(deps[e])
    /\ IsFiniteSet(owed[e])
    /\ waitCount[e] = Cardinality(owed[e])

(* A dependency that does not owe a trigger any more has been signalled.    *)
ReleasedOK ==
  \A e \in Events : \A i \in DOMAIN deps[e] :
    i \notin owed[e] => Signalled(deps[e][i])

(* A trigger on the way is still owed, and its cause is real: a signalled   *)
(* dependency, or clSetUserEventStatus on an event that has not failed.     *)
CausedTrigger(o) ==
  o.op \in {"trig", "act", "dec"} =>
    /\ o.arg \in owed[o.ev]
    /\ o.arg # 0 => Signalled(deps[o.ev][o.arg])
    /\ (o.arg = 0 /\ kind[o.ev] = "user") => status[o.ev] = 0
    /\ o.op = "act" => owed[o.ev] = {o.arg}

TriggerOK == \A t \in Threads : \A k \in DOMAIN stack[t] : CausedTrigger(stack[t][k])

(* No two operations stand for the same trigger.                            *)
SameTrigger(o, p) == Holds(o) /\ Holds(p) /\ o.ev = p.ev /\ o.arg = p.arg

TriggerUnique ==
  \A t, u \in Threads : \A k \in DOMAIN stack[t], l \in DOMAIN stack[u] :
    SameTrigger(stack[t][k], stack[u][l]) => t = u /\ k = l

(* A chain holds triggers that are owed because of its owner, each once,    *)
(* and is empty once the owner is signalled.                                *)
ChainOK ==
  \A d \in Events : \A k \in DOMAIN chain[d] :
    LET e == chain[d][k][1]  i == chain[d][k][2] IN
    /\ i \in DOMAIN deps[e] /\ i \in owed[e] /\ deps[e][i] = d
    /\ ~Signalled(d)
    /\ \A l \in DOMAIN chain[d] : chain[d][l] = chain[d][k] => l = k

(* An abort on the way has a cause: an aborted dependency, or the           *)
(* application, on a user event nobody has completed.                       *)
CausedAbort(o) ==
  o.op \in {"abort", "aself"} =>
    IF o.arg = 0
    THEN kind[o.ev] = "user" /\ 0 \in owed[o.ev]
    ELSE o.arg \in DOMAIN deps[o.ev] /\ status[deps[o.ev][o.arg]] # 0

AbortOK == \A t \in Threads : \A k \in DOMAIN stack[t] : CausedAbort(stack[t][k])

(* An aborted event waits for a trigger that never comes.                   *)
StuckOK ==
  \A e \in Events : status[e] # 0 =>
    \E i \in owed[e] :
      IF i = 0 THEN kind[e] = "user"
      ELSE i \in DOMAIN deps[e] /\ status[deps[e][i]] # 0

(* While the constructor adds dependencies, the event's own trigger is      *)
(* still to come.                                                           *)
PendingOK ==
  \A t \in Threads : \A k \in DOMAIN stack[t] :
    stack[t][k].op \in {"chain", "seq"} =>
      \E l \in DOMAIN stack[t] : l > k /\ stack[t][l] = Op("trig", stack[t][k].ev, 0)

(* sequence() runs once, before the event is in its queue.                  *)
SequenceOK ==
  \A t \in Threads : \A k \in DOMAIN stack[t] : stack[t][k].op = "seq" =>
    /\ \A q \in Queues : \A j \in DOMAIN queued[q] : queued[q][j] # stack[t][k].ev
    /\ \A u \in Threads : \A l \in DOMAIN stack[u] :
         (stack[u][l].op = "seq" /\ stack[u][l].ev = stack[t][k].ev) => u = t /\ l = k

(* Once the action of an event ran, the event is not aborted and nothing    *)
(* but the last trigger is owed to it...                                    *)
StartedOK ==
  \A e \in Events : started[e] # 0 =>
    /\ started[e] = 1
    /\ status[e] = 0
    /\ \A i \in owed[e] : i # 0 => Signalled(deps[e][i])
    /\ \A d \in Events : \A k \in DOMAIN chain[d] : chain[d][k][1] # e

(* ... no operation on the way can make it run again...                     *)
StartedOnceOK ==
  \A t \in Threads : \A k \in DOMAIN stack[t] :
    stack[t][k].op \in {"chain", "seq", "trig", "act"} => started[stack[t][k].ev] = 0

(* ... and if it is a user event, some thread is about to count it.         *)
CountingOK ==
  \A e \in Events : (started[e] # 0 /\ kind[e] = "user" /\ owed[e] # {}) =>
    \E t \in Threads : stack[t] # << >> /\ Head(stack[t]) = Op("dec", e, 0)

(* Each event of a queue depends on the one before it.                      *)
QueueLinked ==
  \A q \in Queues : \A k \in DOMAIN queued[q] :
    /\ \A j \in DOMAIN queued[q] : queued[q][j] = queued[q][k] => j = k
    /\ k > 1 => \E i \in DOMAIN deps[queued[q][k]] :
                  deps[queued[q][k]][i] = queued[q][k - 1]

(* The triggers counted in _wait_count are exactly the ones event.cpp will  *)
(* deliver: each is in one chain, or in one pending call of trigger, or     *)
(* will never come because what should deliver it was aborted. This is the  *)
(* inductive invariant.                                                     *)
TriggerAccounting ==
  /\ TypeOK /\ NamesOK /\ FreshOK
  /\ CountOK /\ ReleasedOK /\ TriggerOK /\ TriggerUnique /\ ChainOK
  /\ AbortOK /\ StuckOK /\ PendingOK /\ SequenceOK
  /\ StartedOK /\ StartedOnceOK /\ CountingOK
  /\ QueueLinked /\ QueueInOrder
=============================================================================
