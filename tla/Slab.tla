-------------------------------- MODULE Slab --------------------------------
(***************************************************************************)
(* util/slab.c: the allocator of same-sized objects.  Each thread has a    *)
(* child pool, which it alone allocates from and passes to slab_free; an   *)
(* object may be freed by another thread than the one that allocated it.   *)
(* Such an object goes to the migrated list of the pool that owns it,      *)
(* under the mutex of the parent, or, when that pool has been destroyed in *)
(* the meantime, counts down the orphaned page it lies in; the last one    *)
(* frees the page.                                                         *)
(*                                                                         *)
(* A step is a section under the mutex, or what a thread does between two  *)
(* accesses to memory it shares; slab_destroy_child, which holds the mutex *)
(* throughout its loops, takes a step for each page and element.  The      *)
(* lists are sets: no property depends on which free element is taken.     *)
(* The memory of a freed page is reused.                                   *)
(***************************************************************************)
EXTENDS Integers, FiniteSets, FiniteSetsExt

CONSTANTS
  Pools,        \* child pools, one for each thread
  Nobody,       \* no pool: the mutex is free, or the page is orphaned
  NumElements,  \* parent->num_elements
  NumPages,     \* bound: pages malloc can provide at a time
  MaxCreates    \* bound: calls of slab_create_child

Pages == 1..NumPages
Elements == Pages \X (1..NumElements)
NoElement == <<0, 0>>
ElementsOf(page) == {page} \X (1..NumElements)

ASSUME SlabAssumption ==
  /\ Nobody \notin Pools
  /\ NumElements \in Nat \ {0} /\ NumPages \in Nat /\ MaxCreates \in Nat

VARIABLES
  alive,        \* pools with a parent
  pages, free, migrated,  \* the lists of each pool
  owner,        \* of each element: its pool, or Nobody for page | 1
  num_remaining,  \* of each orphaned page
  mapped,       \* pages that are malloc'ed
  mutex,        \* parent->mutex, when held across steps
  held,         \* objects the program has
  pc, elt,      \* the call each thread is in, and the element it is freeing
  creates       \* counter for the bound

lists == <<pages, free, migrated>>
memory == <<owner, num_remaining, mapped>>
vars == <<alive, lists, memory, mutex, held, pc, elt, creates>>

Init ==
  /\ alive = {}
  /\ pages = [p \in Pools |-> {}]
  /\ free = [p \in Pools |-> {}]
  /\ migrated = [p \in Pools |-> {}]
  /\ owner = [e \in Elements |-> Nobody]
  /\ num_remaining = [g \in Pages |-> 0]
  /\ mapped = {}
  /\ mutex = Nobody
  /\ held = {}
  /\ pc = [p \in Pools |-> "idle"]
  /\ elt = [p \in Pools |-> NoElement]
  /\ creates = 0

Idle(p) == p \in alive /\ pc[p] = "idle"
Goto(p, l) == pc' = [pc EXCEPT ![p] = l]

slab_create_child(p) ==
  /\ p \notin alive /\ creates < MaxCreates
  /\ creates' = creates + 1
  /\ alive' = alive \cup {p}
  /\ UNCHANGED <<lists, memory, mutex, held, pc, elt>>

(***************************************************************************)
(* slab_alloc                                                              *)
(***************************************************************************)
Take(p, e) ==
  /\ free' = [free EXCEPT ![p] = @ \ {e}]
  /\ held' = held \cup {e}

slab_alloc(p) ==
  /\ Idle(p)
  /\ \/ /\ \E e \in free[p] : Take(p, e)
        /\ UNCHANGED pc
     \/ /\ free[p] = {}
        /\ Goto(p, "collect")
        /\ UNCHANGED <<free, held>>
  /\ UNCHANGED <<alive, pages, migrated, memory, mutex, elt, creates>>

(* Mutant: the migrated list is not emptied.                               *)
CollectMigratedKeeps(p) ==
  /\ pc[p] = "collect" /\ mutex = Nobody
  /\ free' = [free EXCEPT ![p] = migrated[p]]
  /\ Goto(p, "take")
  /\ UNCHANGED <<alive, pages, migrated, memory, mutex, held, elt, creates>>

(* Elements that were freed from a different child pool.                   *)
CollectMigrated(p) ==
  /\ pc[p] = "collect" /\ mutex = Nobody
  /\ free' = [free EXCEPT ![p] = migrated[p]]
  /\ migrated' = [migrated EXCEPT ![p] = {}]
  /\ Goto(p, "take")
  /\ UNCHANGED <<alive, pages, memory, mutex, held, elt, creates>>

TakeCollected(p) ==
  /\ pc[p] = "take"
  /\ \E e \in free[p] : Take(p, e)
  /\ Goto(p, "idle")
  /\ UNCHANGED <<alive, pages, migrated, memory, mutex, elt, creates>>

slab_add_new_page(p) ==
  /\ pc[p] = "take" /\ free[p] = {}
  /\ \E g \in Pages \ mapped :
       /\ mapped' = mapped \cup {g}
       /\ owner' = [e \in Elements |-> IF e[1] = g THEN p ELSE owner[e]]
       /\ pages' = [pages EXCEPT ![p] = @ \cup {g}]
       /\ \E e \in ElementsOf(g) :
            /\ free' = [free EXCEPT ![p] = ElementsOf(g) \ {e}]
            /\ held' = held \cup {e}
  /\ Goto(p, "idle")
  /\ UNCHANGED <<alive, migrated, num_remaining, mutex, elt, creates>>

(* malloc returns NULL, and so does slab_alloc.                            *)
AllocFails(p) ==
  /\ pc[p] = "take" /\ free[p] = {}
  /\ Goto(p, "idle")
  /\ UNCHANGED <<alive, lists, memory, mutex, held, elt, creates>>

(***************************************************************************)
(* slab_free                                                               *)
(***************************************************************************)

(* The owner is read without the mutex: only an element of this pool takes *)
(* the short way.                                                          *)
slab_free(p, e) ==
  /\ Idle(p) /\ e \in held
  /\ held' = held \ {e}
  /\ IF owner[e] = p
     THEN /\ free' = [free EXCEPT ![p] = @ \cup {e}]
          /\ UNCHANGED <<pc, elt>>
     ELSE /\ elt' = [elt EXCEPT ![p] = e]
          /\ Goto(p, "migrate")
          /\ UNCHANGED free
  /\ UNCHANGED <<alive, pages, migrated, memory, mutex, creates>>

(* The owner is read again, under the mutex.                               *)
Migrate(p) ==
  LET q == owner[elt[p]]
  IN /\ pc[p] = "migrate" /\ mutex = Nobody
     /\ IF q # Nobody
        THEN /\ migrated' = [migrated EXCEPT ![q] = @ \cup {elt[p]}]
             /\ elt' = [elt EXCEPT ![p] = NoElement]
             /\ Goto(p, "idle")
        ELSE /\ Goto(p, "orphan")
             /\ UNCHANGED <<migrated, elt>>
     /\ UNCHANGED <<alive, pages, free, memory, mutex, held, creates>>

(* The count goes down, and the last element frees the page.               *)
slab_free_orphaned(e) ==
  /\ num_remaining' = [num_remaining EXCEPT ![e[1]] = @ - 1]
  /\ mapped' = IF num_remaining[e[1]] = 1 THEN mapped \ {e[1]} ELSE mapped
  /\ UNCHANGED owner

FreeOrphaned(p) ==
  /\ pc[p] = "orphan"
  /\ slab_free_orphaned(elt[p])
  /\ elt' = [elt EXCEPT ![p] = NoElement]
  /\ Goto(p, "idle")
  /\ UNCHANGED <<alive, lists, mutex, held, creates>>

(***************************************************************************)
(* slab_destroy_child                                                      *)
(***************************************************************************)
slab_destroy_child(p) ==
  /\ Idle(p) /\ mutex = Nobody
  /\ mutex' = p
  /\ Goto(p, "pages")
  /\ UNCHANGED <<alive, lists, memory, held, elt, creates>>

(* Mutant: the count is not set.                                           *)
OrphanPageUncounted(p) ==
  /\ pc[p] = "pages"
  /\ \E g \in pages[p] :
       /\ pages' = [pages EXCEPT ![p] = @ \ {g}]
       /\ owner' = [e \in Elements |-> IF e[1] = g THEN Nobody ELSE owner[e]]
  /\ UNCHANGED <<alive, free, migrated, num_remaining, mapped, mutex, held, pc, elt, creates>>

(* Mutant: the count only includes the elements on the free list.          *)
OrphanPageCountsFree(p) ==
  /\ pc[p] = "pages"
  /\ \E g \in pages[p] :
       /\ pages' = [pages EXCEPT ![p] = @ \ {g}]
       /\ num_remaining' = [num_remaining EXCEPT ![g] = Cardinality(free[p] \cap ElementsOf(g))]
       /\ owner' = [e \in Elements |-> IF e[1] = g THEN Nobody ELSE owner[e]]
  /\ UNCHANGED <<alive, free, migrated, mapped, mutex, held, pc, elt, creates>>

OrphanPage(p) ==
  /\ pc[p] = "pages"
  /\ \E g \in pages[p] :
       /\ pages' = [pages EXCEPT ![p] = @ \ {g}]
       /\ num_remaining' = [num_remaining EXCEPT ![g] = NumElements]
       /\ owner' = [e \in Elements |-> IF e[1] = g THEN Nobody ELSE owner[e]]
  /\ UNCHANGED <<alive, free, migrated, mapped, mutex, held, pc, elt, creates>>

DropMigrated(p) ==
  /\ pc[p] = "pages" /\ pages[p] = {}
  /\ \E e \in migrated[p] :
       /\ migrated' = [migrated EXCEPT ![p] = @ \ {e}]
       /\ slab_free_orphaned(e)
  /\ UNCHANGED <<alive, pages, free, mutex, held, pc, elt, creates>>

(* Mutant: the migrated elements are forgotten.                            *)
UnlockEarly(p) ==
  /\ pc[p] = "pages" /\ pages[p] = {}
  /\ mutex' = Nobody
  /\ Goto(p, "free")
  /\ UNCHANGED <<alive, lists, memory, held, elt, creates>>

Unlock(p) ==
  /\ pc[p] = "pages" /\ pages[p] = {} /\ migrated[p] = {}
  /\ mutex' = Nobody
  /\ Goto(p, "free")
  /\ UNCHANGED <<alive, lists, memory, held, elt, creates>>

DropFree(p) ==
  /\ pc[p] = "free"
  /\ \E e \in free[p] :
       /\ free' = [free EXCEPT ![p] = @ \ {e}]
       /\ slab_free_orphaned(e)
  /\ UNCHANGED <<alive, pages, migrated, mutex, held, pc, elt, creates>>

Destroyed(p) ==
  /\ pc[p] = "free" /\ free[p] = {}
  /\ alive' = alive \ {p}
  /\ Goto(p, "idle")
  /\ UNCHANGED <<lists, memory, mutex, held, elt, creates>>

Step(p) ==
  \/ CollectMigrated(p) \/ TakeCollected(p) \/ slab_add_new_page(p) \/ AllocFails(p)
  \/ Migrate(p) \/ FreeOrphaned(p)
  \/ OrphanPage(p) \/ DropMigrated(p) \/ Unlock(p) \/ DropFree(p) \/ Destroyed(p)

Next == \E p \in Pools :
          \/ slab_create_child(p) \/ slab_alloc(p) \/ slab_destroy_child(p)
          \/ \E e \in held : slab_free(p, e)
          \/ Step(p)

Spec == Init /\ [][Next]_vars

(***************************************************************************)
(* Properties                                                              *)
(***************************************************************************)
TypeOK ==
  /\ alive \subseteq Pools
  /\ pages \in [Pools -> SUBSET Pages]
  /\ free \in [Pools -> SUBSET Elements] /\ migrated \in [Pools -> SUBSET Elements]
  /\ owner \in [Elements -> Pools \cup {Nobody}]
  /\ num_remaining \in [Pages -> 0..NumElements]
  /\ mapped \subseteq Pages
  /\ mutex \in Pools \cup {Nobody}
  /\ held \subseteq Elements
  /\ pc \in [Pools -> {"idle", "collect", "take", "migrate", "orphan", "pages", "free"}]
  /\ elt \in [Pools -> Elements \cup {NoElement}]
  /\ creates \in 0..MaxCreates

(* Where an element is: the program has it, it is in a list, or a thread   *)
(* is freeing it.                                                          *)
Places(e) ==
  (IF e \in held THEN {"held"} ELSE {})
    \cup ({"free"} \X {p \in Pools : e \in free[p]})
    \cup ({"migrated"} \X {p \in Pools : e \in migrated[p]})
    \cup ({"freeing"} \X {p \in Pools : elt[p] = e})

(* slab_alloc never returns an object that somebody has, and no list or    *)
(* thread that is in slab_free refers to memory that was freed: every      *)
(* element is in one place at most, and its page is mapped.                *)
InOnePlace == \A e \in Elements : Cardinality(Places(e)) <= (IF e[1] \in mapped THEN 1 ELSE 0)

(* The page of a pool has all its elements in some place; an orphaned page *)
(* counts those that are still in one, while the pool is being destroyed   *)
(* and other threads free its objects, and is freed with the last.         *)
PagesAccounted ==
  \A g \in mapped :
    LET placed == {e \in ElementsOf(g) : Places(e) # {}}
    IN IF \E p \in Pools : g \in pages[p] THEN placed = ElementsOf(g)
       ELSE Cardinality(placed) = num_remaining[g] /\ placed # {}

(* "They are eventually freed when all objects in them are freed": with    *)
(* the pools destroyed and the objects freed, no page is left.             *)
NoPageLeaks ==
  alive = {} /\ held = {} => mapped = {}
=============================================================================
