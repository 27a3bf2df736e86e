# A TLA+ verification of mesa3d-comp-bridge

The repository is Mesa 3D with a bridge that lets Clover, Mesa's OpenCL state
tracker, load kernels produced by an external compiler (AMDOCL2). This directory
holds TLA+ models of its concurrent core, TLC configurations that check them on
small instances and TLAPS proofs about them.

Paths below are relative to the root of the repository; `clover/` stands for
`src/gallium/state_trackers/clover/`.

## 1. Inventory

### Clover events and command queues (`clover/core/event.*`, `clover/core/queue.*`)

*State.* An `event` has an unsigned `_wait_count`, a `_status`, a `_chain` of
events to release and `deps`, the events it depends on; a mutex and a condition
variable protect the count, the status and the chain. A `hard_event` also has a
queue and a `_fence`. A `command_queue` has the list `queued_events` under
`queued_events_mutex`, and a `pipe_context`.

*Operations.* The constructor chains the event to its wait list; a `hard_event`
is then put in its queue by `sequence`, which chains it to the event before it,
and is triggered. `trigger` runs the action when the count is 1, decrements, and
triggers what was chained. `abort` runs the failure action, sets the status of
the event and aborts what was chained. `wait` waits for the dependencies, then
until the event is signalled, flushes the queue if need be and waits for the
fence. `flush` submits the recorded commands and hands the fence to the
signalled events at the front of the queue.

*Interactions.* The API files (`clover/api/event.cpp`, `queue.cpp`,
`transfer.cpp`, `kernel.cpp`) create events whose actions are lambdas. An action
runs on whichever thread delivers the last trigger: in the middle of somebody
else's `clSetUserEventStatus`, for instance. The action of a callback event
itself waits for an event.

*Hard.* Every method takes and releases the mutex several times, so two threads
interleave between the test of the count and its decrement, between the status
check of `clSetUserEventStatus` and its trigger, between `pipe->flush` and the
loop that hands out the fence, and between a wait's look at the status and its
flush. Aborts travel through the graph while triggers do.

*Correct when:* an action runs at most once, after all dependencies are
signalled, and never for an aborted event; the triggers counted in `_wait_count`
are exactly the ones that will be delivered; the events of a queue are signalled
in order; a wait does not fail spuriously; completion is final; a callback runs
after completion; calls return if the application completes its user events.

### util_queue (`src/util/u_queue.c`, `u_queue.h`)

*State.* A ring of slots with `read_idx`, `write_idx`, `num_queued` and
`max_jobs`, two condition variables and `kill_threads`, all under one lock; a
fence per job with a lock of its own.

*Operations.* `util_queue_init`, `util_queue_add_job` (which blocks on a full
ring, or resizes it), the worker loop, `util_queue_drop_job`,
`util_queue_fence_wait`, `util_queue_killall_and_wait`.

*Interactions.* Drivers, the threaded context, the winsyses and the disk cache
add jobs; an `atexit` handler stops the workers of every queue.

*Hard.* Stolen and lost wakeups, a ring that is full (`read_idx = write_idx`,
as when it is empty), drops that race with workers, shutdown while clients are
inside a call.

*Correct when:* the ring is a FIFO; no job is lost or run twice; every fence is
signalled; the cleanup callback is called once; calls and shutdown end.

### Clover programs and the AMDOCL2 bridge (`clover/core/program.*`, `clover/api/program.cpp`)

*State.* A program has a source or binaries, and a map from devices to builds
(binary, options, log, and the binary of the external compiler).
*Operations.* compile, link, build_amdocl2, and their error paths.
*Interactions.* `clBuildProgram` runs the three loops over the same devices, each
leaving out the devices of the others; kernels count themselves in
`_kernel_ref_counter`, and a build is refused while there are any.
*Hard.* What is left in the map when one device of several, or one loop, fails;
the check "no kernel is attached" against a concurrent build.
*Correct when:* a successful build leaves an executable of its options for every
device, a failed one leaves none of an earlier build, and nothing that an
enqueued launch relies on changes under it.

### Clover kernels (`clover/core/kernel.*`, `clover/api/kernel.cpp`)

*State.* Arguments, each with its value; an `exec_context` with bound resources.
*Operations.* create, set argument, enqueue, launch (bind, launch, unbind),
release. *Hard.* An enqueued launch uses the kernel and the build when its action
runs, possibly long after they were checked. *Correct when:* what was checked
still holds then.

### On-disk shader cache (`src/util/disk_cache.c`)

*State.* One file per key, a `.tmp` file while it is written, and an index that all
processes map, with the size of the cache; a queue with one worker per process.
*Operations.* `disk_cache_put` (queue a job), `cache_put` (evict, write, lock,
rename, account), `disk_cache_get`, `disk_cache_remove`.
*Interactions.* Processes share the directory and the index and nothing else: the
protocol is open, `flock`, `rename`, `unlink` and an atomic addition.
*Hard.* Locks are on inodes and renames on names; evictions race with writers,
readers and each other; a process may be killed between any two system calls and
leaves its `.tmp` file. *Correct when:* a reader sees one writer's whole file, the
size follows the files, and the worker gets through its queue.

### Slab allocator (`src/util/slab.c`)

*State.* Per child pool: pages, a free list, a list of migrated objects; per object
its owner; per orphaned page the number of its objects that are not freed.
*Operations.* create and destroy a child, `slab_alloc`, `slab_free` by any thread.
*Hard.* A pool is destroyed while others free its objects; only some accesses are
under the parent's mutex. *Correct when:* no object is handed out twice, no page is
freed under an object and none leaks.

### Vulkan block pool (`src/intel/vulkan/anv_allocator.c`)

*State.* `next` and `end` of the front and of the back, in one 64-bit word each; the
bo with its size and centre. *Operations.* `anv_block_pool_alloc`,
`anv_block_pool_alloc_back`, growth. *Hard.* Lock-free fast path, one grower per
side chosen by a fetch-and-add, futexes for the others, growth of both sides at
once, failures to grow. *Correct when:* blocks are disjoint and inside the bo, and
every call returns.

### Clover memory objects (`clover/core/memory.*`, `clover/core/resource.*`)

*State.* A root buffer has a map from devices to resources, created on first use
and copied from the resource of another device; a resource has a list of
mappings. *Hard.* Creation on first use without a lock. Not modelled.

### Other parts

Reference counting (`clover/util/pointer.hpp`), the buffer caches, the threaded
context, the free lists and state pools of `anv_allocator.c`, the winsys
submission threads. Compilers (GLSL, NIR, LLVM glue), the OpenGL state machine,
hardware drivers, EGL, GLX and the loaders are listed in PROJECT.json with the
reason why they are left out.

PROJECT.json's `hazards` lists what is hard to test, at its line, with the
property that would notice.

## 2. Plan

| step | module | content | state |
|------|--------|---------|-------|
| 1 | `CloverEvents` | the event graph, queues, waits, callbacks | done |
| 2 | `CloverEventsProofs` | type correctness for all constants | done |
| 2 | `CloverAccountingProofs` | `TriggerAccounting` is inductive; what follows from it | done |
| 3 | `UtilQueue`, `JobQueue` | the ring, and the abstract FIFO it implements | done |
| 4 | `CloverPrograms` | the build table with the error paths of the AMDOCL2 bridge, kernels, deferred launches | done |
| 5 | `DiskCache` | writers, evictors and readers in several processes, crashes | done |
| 6 | `Slab` | ownership of objects across pools | done |
| 7 | `AnvBlockPool` | the lock-free block pool | done |
| 8 | `SlabProofs`, `UtilQueueProofs`, `CloverProgramsProofs`, `DiskCacheProofs`, `AnvBlockPoolProofs` | the safety invariants of each component for all constants | done |
| 8 | `UtilQueueProofs` | the ring implements `JobQueue` | done |
| 9 | `CloverWaitsProofs` | waits and callbacks of `CloverEvents` (`WaitNeverFails`, `NotifyAfterComplete`, `CompleteForever`) | done |
| 9 | `CloverWaitsProofs` | what holds of one thread (`SignalledWasStarted`, `CompleteWasExecuted`) | done |
| 9 | `DiskCacheProofs` | the size in the index (`SizeAccounted`) | done |
| 10 | `CloverRefs`, `ThreadedContext` | who keeps an event alive; batches over `JobQueue` | |

## 3. The modules

### `CloverEvents`

One application thread runs at most one API call. `stack[t]` is what is left of
it to run: the first operation is executed by a step, which replaces it by the
body of what it calls. A step is one critical section of the code. So `trigger`
is `Trigger` (is the count 1?), `Act` (the action, outside the mutex) and
`TriggerSelf` (the decrement, which takes the chain); the triggers of the chain
are pushed in front of what the thread had to do.

| model | code |
|-------|------|
| `waitCount`, `status`, `chain`, `deps` | the fields of `event` |
| `fence` | `hard_event::_fence`, as the set of commands it covers |
| `queued`, `flushing` | `queued_events`; `flushing[q]` is the local fence of the flush that holds the mutex |
| `cmd` | external: a command is recorded, submitted, done |
| `published` | events the application has a handle of |
| `owed`, `started`, `notified` | history variables |

`Op("chain", e, d)` is one turn of the constructor's loop, `seq` is
`sequence`, `complete`/`fail` the status check of `clSetUserEventStatus`,
`trig`/`act`/`dec` are `trigger`, `abort`/`aself` are `abort`, `wait`, `wsig`,
`wend` and `wfence` are `wait`, `flush` and `fpop` are `flush`.

The position in `deps` that goes with each chain entry is a ghost: it gives the
triggers of an event names, so that `owed` can say which are missing.

`WordSize` is the number of values of the unsigned count (2^32 in the code; the
instances use a value the counts cannot reach except by wrapping). An exception
unwinds the whole call (`Throw`). `ExclusiveSet` says that the application does
not call `clSetUserEventStatus` on one event from two threads at once.

The enqueue calls differ in what their action does: `ClEnqueueKernel` stands for
the calls that record work in the `pipe_context` (kernels and hardware copies),
`ClEnqueueTransfer` for those that copy with the CPU through a mapping,
`ClEnqueueMarker` and `ClEnqueueMap` for those with an empty action. All share
`Enqueue`, the constructor of `hard_event`. `clReleaseCommandQueue` flushes as
`ClFlush` does; that it may delete the queue is not modelled.

Abstractions: a CPU copy is done when its action returns (mapping the memory
waits for the device, and that the driver may submit recorded work while it maps
is ignored); the device executes commands in any order and finishes each of
them; a fence is finished when everything the queue had in flight when it was
made is; all queues share a device but each has its context. What the commands
compute, argument validation, profiling timestamps and object life times are left
out. The dependencies of an event the application can name have always been
signalled before it, so `status()` of such an event need not recurse
(`HandleComplete`); `SoftComplete` has the recursion for the temporary events.

### `UtilQueue` and `JobQueue`

Everything under `queue->lock` is one step; `cnd_wait` ends a step. `cnd_signal`
wakes one sleeper chosen at random, and the woken thread competes for the lock
with everybody else. `wpc`/`wjob` and `cpc`/`cjob` are the program counters and
local variables of workers and clients. `u_thread_create` may fail for all but
one worker. `exit()` and `util_queue_destroy` are `KillAll` and `Joined`.
A job may be added again when its last use is over (`MayAdd` is the caller's
obligation: `util_queue_add_job` asserts that the fence is signalled).

`JobQueue` is the promise to the callers: a FIFO without a ring, capacity or
condition variables. Its `ahead` holds the pairs of queued jobs of which the first is
to start first; the refinement mapping reads it off the ring by the distance of the
slots from `read_idx` (`At(k)` is the slot at distance `k`), leaving out the slots that
a drop has emptied. `Resize` is the set of
choices for the flag `UTIL_QUEUE_INIT_RESIZE_IF_FULL`, made once in `Init`.

### `DiskCache`

A step is one system call, or one atomic access to the size in the index; the scan
of a directory for a victim is one step. Each key has a directory of its own and
two names, `file` and `tmp`, that stand for inodes; `content` is what an inode
holds: a header chunk and data chunks, each named after the payload it belongs to.
A put has one of several payloads, of different lengths (`Length`): nothing obliges
two processes to store the same bytes under a key. A writer overwrites what a `.tmp`
file holds from its start and does not truncate it (disk_cache.c:864), so a file may be
longer than what was last written to it. `flocked` belongs to the inode, as `flock` does,
and goes with the descriptor. `worker[p]` is the thread in `cache_put` of process `p`
(`pc`, open descriptor, file position, evictions so far, victim), `app[p]` the thread
that calls `disk_cache_put`, `_get` and `_remove`. `Kill` drops everything of a process
except the files and the index; the process starts again at once.

Every system call of a writer, an evictor or a removal may fail (the actions named
`...Fails`): a full disk, an exhausted descriptor table, an I/O error. So the test for
the final file may miss an entry that is there (`CheckFinalFails`, line 893), after which
the rename replaces it; an `unlink` that fails takes the bytes off the size all the same.

The size is counted in chunks and wraps at `SizeWord` (2^64 in the code). What is
compared with the limit is the length of the payload, which stands for its size before
compression; that only shifts the moment of eviction.

Two history variables say when a promise is off. `stray` is set when a worker goes
on with a `.tmp` name that is no longer the inode it locked: the entry has been
renamed into place by another process and removed again between `open` and the
test for the final file (or it unlinks the `.tmp` of another writer). `drift` adds
up what nobody will ever add to or take off the size; `seen` in the records of the two
threads is the file that `stat` saw or `rename` published, which tells whether the next
call meets the same one.

### `Slab`

`held` is what the program has; `free`, `migrated` and `pages` are the lists of each
pool, as sets; `owner` is the owner word of each object, `Nobody` for the page with
its low bit set. A step is a section under the parent's mutex, or the code between
two accesses to shared memory; `slab_destroy_child` holds the mutex across steps. A
thread uses one pool, as slab.h demands, and may free any object.

### `AnvBlockPool`

`next[s]` and `end[s]` are the two halves of `state` and `back_state`, `boSize` and
`center` the fields of the pool. A step is one atomic operation on a state word, one
futex call, one access to `bo.size` or `center_bo_offset`. `anv_block_pool_grow`
reads these two after it has unlocked the mutex, in an order the compiler chooses
(`ReadFrontFirst`). The words are unsigned: a difference that would be negative wraps
at `WordSize` (`Word`). The loop that doubles the size until it is large enough is
`DoubledTo`, the set with the power-of-two multiple of the old size that it ends with;
`Gather` has as a bound that the usage is so small that no sum wraps. The page size and the
block sizes are small numbers with the same divisibility. `raced` records that the
pool grew for one side while a thread still had the result of a grow of the other
side in hand.

### `CloverPrograms`

One program with source, on devices compiled for by LLVM, devices that take TGSI
(`Tgsi`) and devices behind the compiler bridge (`Bridge`). `call[t]` is a
`clBuildProgram` or `clCompileProgram` in one of the loops compile, link, bridge, with
the devices still to do; a step treats one device. The loops follow the application's
list of devices; the model lets each loop take the devices in any order, which includes
every list. The compilers succeed or fail. Of a binary the model keeps its kind and the
number of arguments the kernel has in it, which depends on the device and the options
(`NumArgs`). Compiling for TGSI makes an executable at once, which linking takes as it
is, and its arguments are in the text itself (tgsi/compiler.cpp): `clCreateKernel`
works after a bare `clCompileProgram` there. `launches` are the enqueued commands, which
`CloverEvents` treats in detail; they have no reference to the kernel. `Launch` is the
moment the command reads kernel and build; what it hands to the driver, and an exception
on the way, are left out. `finished` and `failed` are what the last calls reported; `raced`,
`mixed` and `dropped` name the three ways an application can leave what
`kernel_ref_count` protects.

## 4. The runs

| run | shows |
|-----|-------|
| `events_graph` | two threads, two queues, three events with wait lists of two, aborts: `TriggerAccounting` (the inductive invariant), tasks run at most once, after their dependencies, never once aborted; queue order, waits do not fail, callbacks after completion, completion is final |
| `events_liveness` | every call returns if the user events get completed |
| `events_sequential` | one thread with every call: what event.hpp promises of tasks and completion holds without concurrency |
| `queue_ring` | two workers, two clients, four jobs on two slots that may be resized, with drops and exit; the ring implements `JobQueue` |
| `queue_liveness` | jobs finish, calls return until shutdown, shutdown ends |
| `disk_cache` | two processes, two keys, a short and a long payload, room for one entry, a kill or a failing call: readers see whole files, the size is accounted for, the queues drain |
| `anv_block_pool` | three threads, both sides, blocks smaller and larger than the pool, one failure: disjoint blocks inside the bo, the assertions of grow, every call returns |
| `slab` | three pools, four objects on two pages, pools destroyed and created again: no object in two places, pages counted, none leaks |
| `programs` | two threads, an LLVM device, a TGSI device and one behind the bridge, two options, a kernel, two launches: launches stay valid, builds cover their devices, failures forget |
| the three others | disagreements, section 6 |

*Bounds.* Three events with lists of two on two queues give diamonds through the
wait list and through the queue, which is where two triggers of one event come
from two threads; the sequential run has four events and all calls, so that
between them the passing runs take every action. Two threads are enough for every
race between two critical sections of one call. A ring of two slots with four jobs
wraps, fills, blocks both clients, or grows after it has wrapped. In `disk_cache`
room for one entry makes the second put evict; payloads of two and three chunks make
a rewrite shorter or longer than what it overwrites, and an entry differ from the one
that `stat` saw; two puts, a removal and one kill or failing call are enough for a
leftover `.tmp` file to be reused, for two processes to write one key, for a double
unlink, for an entry replaced because it could not be opened and for an entry that is
gone before its writer looks. In `programs` two calls can overlap or follow each other
with different options and devices of each kind; a second kernel is like the first,
since nothing relates two kernels but `kernel_ref_count`. In `anv_block_pool` a block of 16 on a pool of 8 makes one grow take several
doublings and the clamps of the centre contradict the ratio; three calls give a
grower and a waiter on one side and a grower on the other. In `slab` four creations
let one pool be destroyed and made again while its objects are still out. `Max...`
constants make the instances finite; each is named in its module.

*Symmetry* is used on threads, workers, clients, pools and kernels in the runs
without liveness properties; no definition distinguishes them.

*Deadlock* is not checked: an application may stop calling, or wait for a user
event that nobody completes; processes may stop using the cache.

*Fairness.* In `CloverEvents`, strong fairness of each thread's `Step`: a thread
that needs a mutex is enabled again and again, not continuously, while others
take it, and the operating system's mutexes do not starve a thread for ever.
Weak fairness of the device. In `UtilQueue`, weak fairness of workers and of
clients inside a call. In `DiskCache`, weak fairness of each process's worker, which
never waits for another process (`LOCK_NB`); in `AnvBlockPool`, weak fairness of
each thread in a call. Kills and failures are never forced. Nothing is assumed of the application, except that
`CallsReturn` of `CloverEvents` has the hypothesis that user events get completed.
Wakeups without a signal, which POSIX permits, are not modelled: they would only
make a thread test its condition again, which `while` loops do anyway.

## 5. The proofs

### Clover events

`CloverEventsProofs` proves

* `TypeCorrect`: `Spec => []TypeOK`, for every number of threads, queues and
  events, every word size and set of calls, and with or without `ExclusiveSet`.

`TypeOK` is not inductive: a step takes an operation from the stack and indexes
functions with what it finds there, and the events named in `deps`, `chain` and
the queues are used as indices too. The invariant that is proved is
`TypeOK /\ NamesOK /\ FreshOK`: everything that names an event names a
constructed one of the right kind (so that `sequence` finds a queue and the
action of a callback an event), and events not constructed yet are as the
constructor expects them. The lemmas say what the head of a stack is, what
`Continue`, `Call` and `Throw` leave on a stack, that a step is local to its
thread, and then treat the API calls, the steps that change the graph and the
steps that do not, in groups with one case per action.

`CloverAccountingProofs` proves, each from `Serialised` (`ExclusiveSet`, or an
application with one thread, whose calls cannot overlap),

* `TriggersAccounted`: `Spec => []TriggerAccounting`;
* `ActionRunsOnce` and `AbortedTasksNeverRun`:
  `Spec => [](ActionAtMostOnce /\ AbortedNeverRuns)`;
* `ActionWaitsForDeps`: `Spec => []ActionAfterDeps`;
* `QueueSignalledInOrder`: `Spec => []QueueInOrder`.

None of the last ones is inductive. That an action runs once rests on two
threads never holding the last trigger of one event, which is a statement about
all chains and all stacks at once. `TriggerAccounting` makes it one:

* `_wait_count` is the number of triggers in `owed`, the ones not delivered yet
  (`CountOK`), and a trigger not owed any more has had its cause (`ReleasedOK`);
* a trigger that is being delivered is owed and its cause is signalled
  (`TriggerOK`), is on one stack only (`TriggerUnique`) and in no chain; what is
  in a chain is owed and there once (`ChainOK`);
* hence the thread that runs an action, having seen a count of 1, holds the only
  trigger there is, and nobody can reach the count or the status in the
  meantime (`StartedOK`, `StartedOnceOK`);
* an aborted event, and what depends on it, waits for a trigger that never comes
  (`AbortOK`, `StuckOK`): this keeps aborts and actions apart;
* while a constructor adds dependencies the event's own trigger is still to
  come, so the event cannot be signalled (`PendingOK`, `SequenceOK`); a user event
  whose action ran is about to be counted (`CountingOK`); each event of a queue
  depends on the one before it (`QueueLinked`), which gives `QueueInOrder`.

The proof has one part per way a step moves triggers: steps that move none
(waits, flushes, the device), steps that rewrite the operation holding one
(`Trigger`, `complete`, `fail`, `abort`), the action, the decrement with its
hand-over of the chain, the abort of one event, the two ways a constructor
extends the graph, and the creation of events. Lemmas named `...Shift` carry
an invariant of the stacks over any step that only removes operations or rewrites
the head. The counting itself needs only the cardinality of a set with one
element less or more.

`CloverWaitsProofs` proves, each from `Serialised`,

* `WaitsNeverFail`: `Spec => []WaitNeverFails`;
* `NotifiedAfterComplete`: `Spec => []NotifyAfterComplete`;
* `CompletionIsFinal`: `Spec => CompleteForever`.

`TriggerAccounting` says nothing about a thread that waits. Its companion `Waits` says of
every operation left of a `wait()`, anywhere on a stack, that what it relies on has
happened or is still to happen earlier on the same stack (`WaitsOK`): before `wend` the
event is signalled or there is a `wsig`, and if it is a soft event each dependency is
complete or is waited for first; before `wfence` there is a fence or a flush of its queue;
before `notify` the reported event is complete or waited for. This lasts because

* what has happened is final (`Steady`): a signalled event is owed nothing, so nobody can
  count it down or abort it; a fence is never replaced, because the event left its queue;
  commands stay done;
* a soft event gets no dependency while it is waited for: its constructor comes first, on
  the same stack (`ConstructedFirst`, `WaitedDepsKept`);
* a hard event is about to be put in its queue, in it, or has a fence, and gets the fence
  signalled (`FencesOK`). One flush at a time is in the loop of a queue (`FlushOK`), and
  when it ends, `QueueInOrder` says that no signalled event is left in the queue: so the
  event that was waited for has its fence;
* what waits, dependencies, queues and callbacks name are events of the right kind
  (`KindsOK`), and an event whose action did not run has no work (`WorkOK`).

Without `Serialised` the theorems are false: two overlapping calls deliver
one trigger twice (section 6). They say nothing about whether an action
*does* run: `events_lost_action` shows that it may not when there are two threads.

For an application with one thread (`OneThread`), and for any events, queues and
calls, `CloverWaitsProofs` also proves

* `SignalledAfterAction`: `Spec => []SignalledWasStarted`;
* `CompleteAfterWork`: `Spec => []CompleteWasExecuted`.

So the two promises of event.hpp that `events_lost_action` and `events_flush_race`
refute are broken by concurrency alone. One thread does not make a call atomic: an
action that runs in the middle of a trigger may release other events, wait, flush and
call back. The invariant `Sequential` says what none of these can come between. A
trigger about to be counted has run the action, or it is at the head of the stack and
is not the last one owed (`CountedAfterAction`): since it is counted next, what
`trigger` saw of the count is still so. A flush in its loop is at the head of the stack
too, so that no action records work and its fence covers all that is in flight
(`FlushedWork`); hence the fence of an event covers the event's own command, which was
recorded before the event was signalled (`FenceCovers`). That the events a flush hands
its fence to have been started is `SignalledWasStarted` again, and which triggers are
owed, and that a fence is handed out once, comes from `TriggerAccounting` and `Waits`.

The only other assumption is `EventsAssumption` on the constants, which TLC
evaluates in every run.

### Slab

`SlabProofs` proves `TypeOK`, `InOnePlace`, `PagesAccounted` and `NoPageLeaks` for any
pools, pages and objects per page. The invariant `IInv` says that an object is in one
place (`Exclusive`), that what is in some place is on a mapped page (`PlacedMapped`),
that the owner word of an object is the pool whose list its page is in, or nobody when
it is in none (`OwnerOK`), that the lists of a pool hold objects of its own pages
(`ListsOK`), that a dead pool has nothing (`DeadOK`), which calls hold the mutex or an
object (`CallsOK`), and that the counter of an orphaned page is the number of its
objects that are somewhere (`CountsOK`). The hard case is a free that has read the
owner and is overtaken by `slab_destroy_child`: `CallsOK` says that an object on its way
to its orphaned page has no owner, and `ListsOK` that only a pool past its lock has
orphaned objects in its lists.

### util_queue

`UtilQueueProofs` proves `TypeOK`, `RingOK`, `JobHeldOnce` and `CleanupOnce` for any jobs,
threads and slots. The invariant adds what a thread's place says about its local job
(`LocalsOK`), that no job is in two slots (`SlotsUnique`), which holders of a job exclude
each other and what its fence says then (`HoldersOK`), that before shutdown a job with
an unsignalled fence is somewhere (`NotLost`), and that additions and calls of the
callback differ by the one call still owed (`CleanupOK`). Lemmas about distances modulo
the size of the ring carry `RingOK` over wrapping and over the copy that makes a ring
larger.

It also proves `ImplementsJobQueue`: every step of the ring is a step of
`JobQueue` or leaves its variables alone. The distance of a slot from `read_idx` does not
change when the indices wrap or the ring grows, shrinks by one for all slots when a
worker takes a job, and a new job has the largest one; `HoldersOK` and `NotLost` say in
which phase a job is.

### Clover programs

`CloverProgramsProofs` proves `TypeOK`, `LaunchStillValid`, `BuildCoversDevices` and
`FailureForgetsExecutable` for any threads, devices of each of the three kinds,
options and kernels. The invariant says that without a race there is one build call at
a time, and none while a kernel is alive (`OneCall`); what each of the three loops has
made of each device so far (`Progress`: for TGSI devices compile makes the executable); that the calls that have ended speak of devices
the call under way does not name (`FinishedOK`, `FailedOK`); and that kernels and
executables agree on the number of arguments (`ArgsAgree`, `LaunchesOK`).

### Disk cache

`DiskCacheProofs` proves `TypeOK` and `ReadersSeeWholeFiles` for any processes, keys,
inodes and lengths of payloads, kills and failing calls included. The invariant: the
holder of a `flock` is the worker with the file open (`LocksOK`), an inode has one name
(`NamesOK`), a worker that writes has the `.tmp` name of its key and has written the file
from its start, whatever a longer leftover has behind that (`WritersOK`), files begin with
the whole of a payload (`FilesOK`), and what a reader has open is no `.tmp` file
(`ReadersOK`). The last three hold until `stray` is set, as the property does: it says
that a worker acts on a `.tmp` name that is not the file it has locked, which section 6
describes.

It also proves `SizeIsAccounted`: `Spec => []SizeAccounted`. The size may be off, but
only by what the listed accidents cost: a kill between the change to the directory and
the change to the size; an `unlink` that fails or meets another file than `stat` saw; a
rename over an entry that could not be opened; a writer whose `stat` does not find the
file it renamed, and the `unlink` after it. What has to be shown is that nothing else
makes it drift: a file that `stat` has seen or `rename` published has no `.tmp` name any
more, so nobody can make it longer before the bytes are booked (`SeenOK`). Each step is
then shown to leave `disk + subs - adds + drift` alone, or to move it by what it adds to
the size, modulo `SizeWord`. The sums count pairs (`Total`), so that the change of a sum
is the change in cardinality of one set, for any finite number of processes and keys.

### Vulkan block pool

`AnvBlockPoolProofs` proves `TypeOK`, `BlocksDisjoint`, `PoolHoldsBlocks` and
`GrowAssertions` for any threads, block sizes, page size and word size. `next` passes
`end` exactly while one thread of the side grows the pool (`GrowersOK`), and the blocks
given out lie below `next`, all but the grower's below the grower's (`BlocksOK`): so what
`TestAndSet` overwrites is only increments of threads that wait and will ask again. The
other half is arithmetic: sizes are whole pages (`SizesOK`), the centre is in the bo and
each side reaches to its end (`CenterOK`), and what a thread has read without the mutex
is still so (`ReadsOK`). `CenterOK` and `ReadsOK` hold until `raced`, as the properties
do; afterwards the code's assertions can fail (section 6).

### Assumptions, and what is not proved

Each module has one named `ASSUME` on its constants (`SlabAssumption`,
`QueueAssumption`, `ProgramAssumption`, `CacheAssumption`, `PoolAssumption`): sets that
are counted are finite, sizes are positive, the initial size of the block pool is whole
pages and fits in a word. The bounds `Max...` are arbitrary numbers.

*Only model-checked:* liveness, which is out of TLAPS's reach: `CallsReturn` of
`CloverEvents`, `UtilQueue` and `AnvBlockPool`, `JobsFinish` and `ShutdownEnds` of
`UtilQueue`, and `QueueDrains` of `DiskCache`. Every invariant and action property of
the passing runs, and the refinement of `JobQueue`, is proved.

## 6. Disagreements between the code and its comments

Each has a run that ends in a counterexample (`findings` in PROJECT.json).

* `events_lost_action`: two triggers of an event are delivered at the same time (in
  the trace, that of a dependency and the one that ends the event's own constructor;
  two dependencies do it too), both see a count of 2, neither runs the action, and the
  event is signalled. The task never starts, against event.hpp:41.
* `events_flush_race`: a command recorded between `pipe->flush` and the loop of
  `flush()` gets the fence of a submission that does not contain it.
* `queue_remaining`: the loop that signals the remaining jobs at exit takes a full
  ring for an empty one.

Met while modelling, without a run of their own:

* An event chained to an already aborted one is not aborted (event.hpp:46 says
  dependents are, recursively), and `abort_self` does not wake a thread in
  `wait_signalled`.
* With `ExclusiveSet = FALSE` two calls of `clSetUserEventStatus` that both pass the
  status check wrap the count, so `CompleteForever` fails.
* `util_queue_drop_job` makes the comparison of `queue_remaining` too, so on a full
  ring it does not find a job that has not started and waits for it; a client woken
  for space after the workers left a full ring and reset `num_queued` violates
  `assert(ptr->job == NULL)`; a client asleep for space at exit is woken by nobody;
  `util_queue_drop_job` calls the cleanup callback before it signals the fence,
  u_queue.h says after.
* disk_cache.c:304 says that atomic addition keeps processes from scrambling the
  size. Each addition is atomic, the pair of `unlink` and addition is not: two
  processes that evict one entry both subtract it, an entry replaced between `stat`
  and `unlink` is subtracted with the length of the old one, and an entry evicted
  between `rename` and `stat` is subtracted and never added. The comment at line 891
  says that the test for the final file keeps the accounting right; when that `open`
  fails for want of a descriptor the entry is replaced and its bytes stay in the size.
  `drift` in `SizeAccounted` is exactly this, kills and failing calls added. Once `stray` is set, a half-written file can be renamed into
  place: the writer of the new `.tmp` file is still writing when the stray one
  renames it.
* anv_allocator.c:437 says that neither end of the pool can get shortened. A thread
  publishes the new end after it has released the mutex; a grow for the other side
  in between clamps the centre to the old end and may move it back, and the size and
  centre read without the mutex may belong to two different pools, so that their
  difference wraps. Both need `raced`, without which `PoolHoldsBlocks` and
  `GrowAssertions` are checked and proved; after it the code's assertions can fail.
  `old.next != state.next` (line 588) is always true, so `futex_wake` is always
  called. When the pool cannot grow any more, the grower retries for ever.
* A failure of `build_amdocl2` after AMDOCL2 succeeded keeps an older executable
  when the older build had a log (program.cpp:211); `FailureForgetsExecutable`
  excepts it.
* A kernel takes its arguments from the first device's build, and a command does
  not keep its kernel alive; the test of `kernel_ref_count` and the build are not
  atomic. `LaunchStillValid` excepts all three (`mixed`, `dropped`, `raced`), so it says
  nothing about them.

## 7. Not modelled

Life times of objects, the torn reads of `_fence` (read without the lock that
its writer holds), a launch that throws inside the constructor of its event,
two shutdowns of one queue at once; argument values of kernels (they are read when
the command launches), programs from binaries and `clLinkProgram`;
`disk_cache_put_key` and `disk_cache_has_key`, calls of a reader that fail (it then
returns nothing), memory exhaustion, and `disk_cache_destroy`, which waits for the job
under way and does not drain the queue; the bounds of the block pool against the size
of its memfd (anv_allocator.c:346-348); the free lists above the block pool;
and the components of PROJECT.json marked `not_modelled`.

## 8. Running

    tlc -workers 2 -config CloverEventsGraph.cfg MCCloverEvents
    tlc -workers 2 -config UtilQueueRing.cfg MCUtilQueue
    tlc -workers 2 -config DiskCache.cfg MCDiskCache
    tlc -workers 2 -config AnvBlockPool.cfg AnvBlockPool
    tlc -workers 2 -config Slab.cfg MCSlab
    tlc -workers 2 -config CloverPrograms.cfg MCCloverPrograms
    tlapm CloverEventsProofs.tla
    tlapm CloverAccountingProofs.tla
    tlapm CloverWaitsProofs.tla
    tlapm SlabProofs.tla
    tlapm UtilQueueProofs.tla
    tlapm CloverProgramsProofs.tla
    tlapm DiskCacheProofs.tla
    tlapm AnvBlockPoolProofs.tla
