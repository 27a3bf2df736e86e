---------------------------- MODULE AnvBlockPool ----------------------------
(***************************************************************************)
(* intel/vulkan/anv_allocator.c: the lock-free block pool that the state   *)
(* pools of a VkDevice allocate from.  The pool is one bo whose centre is  *)
(* center_bo_offset; blocks are taken from the front with                  *)
(* anv_block_pool_alloc and from the back with anv_block_pool_alloc_back,  *)
(* and never returned (the free lists are above this level).  Each side    *)
(* has a 64-bit word, next and end: the thread whose fetch-and-add is the  *)
(* first to pass end grows the pool under the device mutex, the others     *)
(* sleep on a futex.                                                       *)
(*                                                                         *)
(* A step is one atomic operation, one futex call, or one access to        *)
(* pool->bo.size or pool->center_bo_offset, which anv_block_pool_grow      *)
(* reads after it has released the mutex.                                  *)
(***************************************************************************)
EXTENDS Integers, FiniteSets, FiniteSetsExt

CONSTANTS
  Threads,
  NoThread,     \* the device mutex is free
  FrontSizes,   \* block sizes that anv_block_pool_alloc is called with
  BackSize,     \* the one size of anv_block_pool_alloc_back
  PageSize,
  WordSize,     \* number of values of a 32-bit word
  InitialSize,  \* initial_size of anv_block_pool_init
  MaxAllocs,    \* bound: calls
  MaxFails      \* bound: failures of anv_block_pool_expand_range

ASSUME PoolAssumption ==
  /\ IsFiniteSet(Threads) /\ NoThread \notin Threads
  /\ FrontSizes \subseteq Nat \ {0} /\ BackSize \in Nat \ {0}
  /\ PageSize \in Nat \ {0} /\ InitialSize \in Nat \ {0} /\ InitialSize % PageSize = 0
  /\ WordSize \in Nat /\ InitialSize < WordSize
  /\ MaxAllocs \in Nat /\ MaxFails \in Nat

Sides == {"front", "back"}
Other(s) == IF s = "front" THEN "back" ELSE "front"

VARIABLES
  next, end,        \* pool->state and pool->back_state
  boSize, center,   \* pool->bo.size, pool->center_bo_offset
  mutex,            \* device->mutex
  thread,           \* the call each thread is in
  blocks,           \* the blocks handed out
  allocs, fails,    \* counters for the bounds
  raced             \* history: the pool has grown for one side while a thread
                    \* had released the mutex and not yet set end of the other

vars == <<next, end, boSize, center, mutex, thread, blocks, allocs, fails, raced>>

(* next and end: what the fetch-and-add returned.  used: what grow found   *)
(* used of each side.  got: what it read first after the mutex.  new_end:  *)
(* what it returned.                                                       *)
Idle == [pc |-> "idle", side |-> "front", size |-> 0, next |-> 0, end |-> 0,
         used |-> [s \in Sides |-> 0], new_size |-> 0, got |-> 0, new_end |-> 0]

(* anv_block_pool_init: the bo is there, but both ends are 0.              *)
Init ==
  /\ next = [s \in Sides |-> 0] /\ end = [s \in Sides |-> 0]
  /\ boSize = InitialSize /\ center = 0
  /\ mutex = NoThread
  /\ thread = [t \in Threads |-> Idle]
  /\ blocks = {}
  /\ allocs = 0 /\ fails = 0
  /\ raced = FALSE

Goto(t, pc) == thread' = [thread EXCEPT ![t].pc = pc]

Block(w) == [side |-> w.side, offset |-> w.next, size |-> w.size]

(* The call returns the block its fetch-and-add was given.                 *)
Return(t, w) ==
  /\ blocks' = blocks \cup {Block(w)}
  /\ thread' = [thread EXCEPT ![t] = Idle]

(***************************************************************************)
(* anv_block_pool_alloc_new                                                *)
(***************************************************************************)

(* The first block outside the pool makes its thread the grower; the rest  *)
(* of the threads wait.                                                    *)
FetchAndAdd(t, s, size) ==
  LET w == [Idle EXCEPT !.side = s, !.size = size, !.next = next[s], !.end = end[s]]
  IN /\ next' = [next EXCEPT ![s] = @ + size]
     /\ \/ next[s] + size <= end[s] /\ Return(t, w)
        \/ /\ next[s] + size > end[s] /\ next[s] <= end[s]
           /\ thread' = [thread EXCEPT ![t] = [w EXCEPT !.pc = "grow"]]
           /\ UNCHANGED blocks
        \/ /\ next[s] > end[s]
           /\ thread' = [thread EXCEPT ![t] = [w EXCEPT !.pc = "wait"]]
           /\ UNCHANGED blocks

anv_block_pool_alloc(t, side, size) ==
  /\ thread[t].pc = "idle" /\ allocs < MaxAllocs
  /\ allocs' = allocs + 1
  /\ FetchAndAdd(t, side, size)
  /\ UNCHANGED <<end, boSize, center, mutex, fails, raced>>

Again(t) ==
  /\ thread[t].pc = "again"
  /\ FetchAndAdd(t, thread[t].side, thread[t].size)
  /\ UNCHANGED <<end, boSize, center, mutex, allocs, fails, raced>>

(* The kernel compares and sleeps in one step.                             *)
FutexWait(t) ==
  /\ thread[t].pc = "wait"
  /\ Goto(t, IF end[thread[t].side] = thread[t].end THEN "sleep" ELSE "again")
  /\ UNCHANGED <<next, end, boSize, center, mutex, blocks, allocs, fails, raced>>

(* What anv_block_pool_grow returned is too small: it is called again.     *)
GrowAgain(t) ==
  /\ thread[t].pc = "got" /\ thread[t].new_end < thread[t].next + thread[t].size
  /\ Goto(t, "grow")
  /\ UNCHANGED <<next, end, boSize, center, mutex, blocks, allocs, fails, raced>>

(* Mutant: the grower forgets its own block.                               *)
TestAndSetBehind(t) ==
  LET w == thread[t]
  IN /\ w.pc = "got" /\ w.new_end >= w.next + w.size
     /\ next' = [next EXCEPT ![w.side] = w.next]
     /\ end' = [end EXCEPT ![w.side] = w.new_end]
     /\ Goto(t, "wake")
     /\ UNCHANGED <<boSize, center, mutex, blocks, allocs, fails, raced>>

(* The increments of the threads that wait are overwritten.  The old next  *)
(* includes at least the grower's own increment, so it differs from        *)
(* w.next and the grower always goes on to futex_wake.                     *)
TestAndSet(t) ==
  LET w == thread[t]
  IN /\ w.pc = "got" /\ w.new_end >= w.next + w.size
     /\ next' = [next EXCEPT ![w.side] = w.next + w.size]
     /\ end' = [end EXCEPT ![w.side] = w.new_end]
     /\ Goto(t, "wake")
     /\ UNCHANGED <<boSize, center, mutex, blocks, allocs, fails, raced>>

Sleepers(side) == {u \in Threads : thread[u].pc = "sleep" /\ thread[u].side = side}

(* Mutant: nobody is woken.                                                *)
FutexWakeNobody(t) ==
  /\ thread[t].pc = "wake"
  /\ Return(t, thread[t])
  /\ UNCHANGED <<next, end, boSize, center, mutex, allocs, fails, raced>>

FutexWake(t) ==
  /\ thread[t].pc = "wake"
  /\ blocks' = blocks \cup {Block(thread[t])}
  /\ thread' = [u \in Threads |->
       IF u = t THEN Idle
       ELSE IF u \in Sleepers(thread[t].side) THEN [thread[u] EXCEPT !.pc = "again"]
       ELSE thread[u]]
  /\ UNCHANGED <<next, end, boSize, center, mutex, allocs, fails, raced>>

(***************************************************************************)
(* anv_block_pool_grow                                                     *)
(***************************************************************************)
AlignUp(n) == ((n + PageSize - 1) \div PageSize) * PageSize
AlignDown(n) == (n \div PageSize) * PageSize

(* Words are unsigned: what would be negative is huge.                     *)
Word(n) == n % WordSize

(* back_required and front_required.                                       *)
Required(used) ==
  [s \in Sides |-> Max({used[s], IF s = "front" THEN Word(boSize - center) ELSE center})]

PowerOfTwo(n) == \A d \in 2..n : n % d = 0 => d % 2 = 0

(* The loop over size: the old size, doubled until it holds what is        *)
(* required.  A size of a whole word would wrap to 0, and the loop not end.*)
DoubledTo(total) ==
  {boSize * n : n \in {m \in 2..(2 * (total \div boSize) + 2) :
                         /\ boSize * m >= total /\ boSize * m < WordSize
                         /\ m = 2 \/ boSize * (m \div 2) < total
                         /\ PowerOfTwo(m)}}

Lock(t) ==
  /\ thread[t].pc = "grow" /\ mutex = NoThread
  /\ mutex' = t
  /\ Goto(t, "gather")
  /\ UNCHANGED <<next, end, boSize, center, blocks, allocs, fails, raced>>

(* The usage of both sides, and the power-of-two multiple of the old size  *)
(* that holds what is required; nothing to do if both sides have twice     *)
(* what they use.  Bound: the usage is so small that no sum wraps (the     *)
(* memfd behind the pool is one word long).                                *)
Gather(t) ==
  LET used == [s \in Sides |-> AlignUp(next[s])]
      required == Required(used)
      enough == \A s \in Sides : used[s] * 2 <= required[s]
  IN /\ thread[t].pc = "gather"
     /\ 2 * (used["front"] + used["back"]) + boSize < WordSize
     /\ \/ /\ enough
           /\ mutex' = NoThread
           /\ Goto(t, "read")
        \/ /\ ~enough
           /\ \E size \in DoubledTo(Word(required["front"] + required["back"])) :
                thread' = [thread EXCEPT ![t].pc = "expand", ![t].used = used,
                                         ![t].new_size = size]
           /\ UNCHANGED mutex
     /\ UNCHANGED <<next, end, boSize, center, blocks, allocs, fails, raced>>

(* Mutant: the centre is not kept behind the end of the back.              *)
NewCenterByRatio(size, used) ==
  LET ratio == AlignDown((size * used["back"]) \div (used["front"] + used["back"]))
  IN IF used["back"] = 0 THEN 0
     ELSE IF Word(size - ratio) < end["front"] THEN Word(size - end["front"]) ELSE ratio

(* Mutant: the centre is not kept before the end of the front.             *)
NewCenterBackOnly(size, used) ==
  LET ratio == AlignDown((size * used["back"]) \div (used["front"] + used["back"]))
  IN IF used["back"] = 0 THEN 0 ELSE Max({ratio, end["back"]})

(* The new centre keeps the ratio of what is used, and shrinks neither     *)
(* side below its end, as end is when it is read.                          *)
NewCenter(size, used) ==
  LET ratio == AlignDown((size * used["back"]) \div (used["front"] + used["back"]))
      keepBack == Max({ratio, end["back"]})
  IN IF used["back"] = 0 THEN 0
     ELSE IF Word(size - keepBack) < end["front"] THEN Word(size - end["front"]) ELSE keepBack

(* A thread has what grow returned to it, but has not set end.             *)
Unpublished(side) ==
  \E u \in Threads : thread[u].side = side /\ thread[u].pc \in {"read", "readsize", "readcenter", "got"}

(* The maps are made, and the centre is written before the size.           *)
Expand(t) ==
  /\ thread[t].pc = "expand"
  /\ center' = NewCenter(thread[t].new_size, thread[t].used)
  /\ raced' = (raced \/ Unpublished(Other(thread[t].side)))
  /\ Goto(t, "setsize")
  /\ UNCHANGED <<next, end, boSize, mutex, blocks, allocs, fails>>

SetSizeUnlock(t) ==
  /\ thread[t].pc = "setsize"
  /\ boSize' = thread[t].new_size
  /\ mutex' = NoThread
  /\ thread' = [thread EXCEPT ![t].pc = "read", ![t].used = Idle.used, ![t].new_size = 0]
  /\ UNCHANGED <<next, end, center, blocks, allocs, fails, raced>>

(* u_vector_add, mmap or anv_gem_userptr fails: grow returns 0.            *)
ExpandFails(t) ==
  /\ thread[t].pc = "expand" /\ fails < MaxFails
  /\ fails' = fails + 1
  /\ mutex' = NoThread
  /\ thread' = [thread EXCEPT ![t].pc = "got", ![t].new_end = 0,
                              ![t].used = Idle.used, ![t].new_size = 0]
  /\ UNCHANGED <<next, end, boSize, center, blocks, allocs, raced>>

(* Without the mutex: the back reads the centre; the front reads the size  *)
(* and the centre, in the order the compiler chooses.                      *)
ReadBack(t) ==
  /\ thread[t].pc = "read" /\ thread[t].side = "back"
  /\ thread' = [thread EXCEPT ![t].pc = "got", ![t].new_end = center]
  /\ UNCHANGED <<next, end, boSize, center, mutex, blocks, allocs, fails, raced>>

ReadFrontFirst(t) ==
  /\ thread[t].pc = "read" /\ thread[t].side = "front"
  /\ \/ thread' = [thread EXCEPT ![t].pc = "readcenter", ![t].got = boSize]
     \/ thread' = [thread EXCEPT ![t].pc = "readsize", ![t].got = center]
  /\ UNCHANGED <<next, end, boSize, center, mutex, blocks, allocs, fails, raced>>

(* Mutant: the centre is taken off twice.                                  *)
ReadFrontTwice(t) ==
  LET size == IF thread[t].pc = "readcenter" THEN thread[t].got ELSE boSize
      c == IF thread[t].pc = "readcenter" THEN center ELSE thread[t].got
  IN /\ thread[t].pc \in {"readcenter", "readsize"}
     /\ thread' = [thread EXCEPT ![t].pc = "got", ![t].new_end = size - 2 * c,
                                 ![t].got = 0]
     /\ UNCHANGED <<next, end, boSize, center, mutex, blocks, allocs, fails, raced>>

(* The difference of two words that need not belong together.              *)
ReadFrontSecond(t) ==
  LET size == IF thread[t].pc = "readcenter" THEN thread[t].got ELSE boSize
      c == IF thread[t].pc = "readcenter" THEN center ELSE thread[t].got
  IN /\ thread[t].pc \in {"readcenter", "readsize"}
     /\ thread' = [thread EXCEPT ![t].pc = "got", ![t].new_end = Word(size - c),
                                 ![t].got = 0]
     /\ UNCHANGED <<next, end, boSize, center, mutex, blocks, allocs, fails, raced>>

Step(t) ==
  \/ Again(t) \/ FutexWait(t) \/ GrowAgain(t) \/ TestAndSet(t) \/ FutexWake(t)
  \/ Lock(t) \/ Gather(t) \/ Expand(t) \/ SetSizeUnlock(t)
  \/ ReadBack(t) \/ ReadFrontFirst(t) \/ ReadFrontSecond(t)

Next == \E t \in Threads :
          \/ \E size \in FrontSizes : anv_block_pool_alloc(t, "front", size)
          \/ anv_block_pool_alloc(t, "back", BackSize)
          \/ Step(t) \/ ExpandFails(t)

Spec == Init /\ [][Next]_vars /\ \A t \in Threads : WF_vars(Step(t))

(***************************************************************************)
(* Properties                                                              *)
(***************************************************************************)
PC == {"idle", "again", "wait", "sleep", "grow", "gather", "expand", "setsize",
       "read", "readcenter", "readsize", "got", "wake"}

TypeOK ==
  /\ next \in [Sides -> Nat] /\ end \in [Sides -> Nat]
  /\ boSize \in Nat /\ center \in Nat
  /\ mutex \in Threads \cup {NoThread}
  /\ thread \in [Threads -> [pc : PC, side : Sides, size : Nat, next : Nat, end : Nat,
                             used : [Sides -> Nat], new_size : Nat, got : Nat, new_end : Nat]]
  /\ \A b \in blocks : b \in [side : Sides, offset : Nat, size : Nat]
  /\ allocs \in 0..MaxAllocs /\ fails \in 0..MaxFails /\ raced \in BOOLEAN

Waiting == {t \in Threads : thread[t].pc \in {"again", "wait", "sleep"}}

(* The blocks handed out, and those that calls have been given.            *)
AllBlocks == blocks \cup {Block(thread[t]) : t \in {u \in Threads \ Waiting : thread[u].pc # "idle"}}

(* anv_block_pool_alloc_new: no two calls are given overlapping blocks,    *)
(* though the increments of waiting threads are overwritten, and there is  *)
(* one grower per side.                                                    *)
BlocksDisjoint ==
  /\ \A b, c \in AllBlocks :
       b # c /\ b.side = c.side => b.offset + b.size <= c.offset \/ c.offset + c.size <= b.offset
  /\ Cardinality(AllBlocks) = allocs - Cardinality(Waiting)

SideSize(s) == IF s = "front" THEN boSize - center ELSE center

(* "We have enough space allocated for at least one more block" and        *)
(* "Neither end can get shortened": with the mutex free, the bo reaches to *)
(* both ends and holds every block handed out, unless one side has grown   *)
(* while a thread was about to publish what it read for the other.         *)
PoolHoldsBlocks ==
  ~raced /\ mutex = NoThread =>
    /\ \A s \in Sides : end[s] <= SideSize(s)
    /\ \A b \in blocks : b.offset + b.size <= SideSize(b.side)

(* The assertions of anv_block_pool_grow and of expand_range: the new      *)
(* centre leaves room for the ends and for what grow found used, as long   *)
(* as no end was read while the pool grew for the other side.              *)
GrowAssertions ==
  \A t \in Threads : ~raced /\ thread[t].pc = "expand" =>
    LET w == thread[t]
        c == NewCenter(w.new_size, w.used)
    IN /\ w.new_size > boSize
       /\ w.side = "back" => w.used["back"] > 0
       /\ c % PageSize = 0
       /\ w.used["back"] <= c /\ end["back"] <= c
       /\ end["front"] <= w.new_size - c

(* Every call returns: no futex wakeup is lost, and a grower gets enough.  *)
CallsReturn == \A t \in Threads : (thread[t].pc # "idle") ~> (thread[t].pc = "idle")
=============================================================================
