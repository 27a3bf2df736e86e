----------------------------- MODULE SlabProofs -----------------------------
(***************************************************************************)
(* The slab allocator neither hands out an object twice, nor touches a     *)
(* page that it has freed, nor leaks one: InOnePlace, PagesAccounted and   *)
(* NoPageLeaks hold for any number of pools, pages and elements.           *)
(*                                                                         *)
(* The three properties are not inductive.  That the last step of          *)
(* slab_free may count down a page needs that the page is still orphaned   *)
(* then; that an element may be put in the migrated list of its owner      *)
(* needs that the owner is not past its lock in slab_destroy_child; and    *)
(* that the elements in the lists of a pool under destruction may count    *)
(* down their pages needs that all these pages are orphaned already.  The  *)
(* invariant IInv adds what the page lists, the owner of every element,    *)
(* the mutex and the calls of the threads say about each other.            *)
(***************************************************************************)
EXTENDS Slab, FiniteSetTheorems, TLAPS

(* The element is in some place.                                           *)
Placed(e) ==
  \/ e \in held
  \/ \E p \in Pools : e \in free[p] \/ e \in migrated[p] \/ elt[p] = e

PlacedOf(g) == {e \in ElementsOf(g) : Placed(e)}

(* An element is in one place only.                                        *)
Exclusive ==
  \A e \in Elements, p, q \in Pools :
    /\ e \in free[p] => /\ e \notin held /\ e \notin migrated[q] /\ elt[q] # e
                        /\ e \in free[q] => p = q
    /\ e \in migrated[p] => /\ e \notin held /\ elt[q] # e
                            /\ e \in migrated[q] => p = q
    /\ elt[p] = e => /\ e \notin held
                     /\ elt[q] = e => p = q

(* Memory in use is mapped.                                                *)
PlacedMapped == \A e \in Elements : Placed(e) => e[1] \in mapped

(* The owner of an element says in whose list its page is.                 *)
OwnerOK ==
  /\ \A p \in Pools : \A g \in pages[p] :
       g \in mapped /\ \A e \in ElementsOf(g) : owner[e] = p
  /\ \A g \in mapped :
       (\A p \in Pools : g \notin pages[p]) => \A e \in ElementsOf(g) : owner[e] = Nobody

(* The lists of a pool hold elements of its own pages, some of which are   *)
(* orphaned while the pool is being destroyed.                             *)
ListsOK ==
  \A p \in Pools :
    /\ \A e \in free[p] : owner[e] = p \/ (owner[e] = Nobody /\ pc[p] \in {"pages", "free"})
    /\ \A e \in migrated[p] : owner[e] = p \/ (owner[e] = Nobody /\ pc[p] = "pages")
    /\ pc[p] = "free" => pages[p] = {} /\ migrated[p] = {}
    /\ pc[p] = "collect" => free[p] = {}

(* A pool that is not alive is in no call and has no memory.               *)
DeadOK ==
  \A p \in Pools \ alive :
    pc[p] = "idle" /\ pages[p] = {} /\ free[p] = {} /\ migrated[p] = {}

(* Which calls hold the mutex, or an element that is being freed.          *)
CallsOK ==
  \A p \in Pools :
    /\ mutex = p <=> pc[p] = "pages"
    /\ elt[p] # NoElement <=> pc[p] \in {"migrate", "orphan"}
    /\ pc[p] = "orphan" => owner[elt[p]] = Nobody

(* PagesAccounted, in terms of PlacedOf.                                   *)
CountsOK ==
  \A g \in mapped :
    IF \E p \in Pools : g \in pages[p] THEN PlacedOf(g) = ElementsOf(g)
    ELSE Cardinality(PlacedOf(g)) = num_remaining[g] /\ PlacedOf(g) # {}

IInv ==
  /\ TypeOK /\ Exclusive /\ PlacedMapped /\ OwnerOK
  /\ ListsOK /\ DeadOK /\ CallsOK /\ CountsOK

-----------------------------------------------------------------------------
(* Facts about elements and pages.                                         *)

(* The elements of a page are those with its number.                       *)
LEMMA ElementFacts ==
  /\ NoElement \notin Elements
  /\ \A e \in Elements : e[1] \in Pages /\ e \in ElementsOf(e[1])
  /\ \A g \in Pages : \A e : e \in ElementsOf(g) <=> e \in Elements /\ e[1] = g
  BY SlabAssumption DEF Elements, ElementsOf, NoElement, Pages

(* A page has NumElements elements, so at least one.                       *)
LEMMA ElementsCount ==
  ASSUME NEW g \in Pages
  PROVE  /\ IsFiniteSet(ElementsOf(g)) /\ ElementsOf(g) # {}
         /\ Cardinality(ElementsOf(g)) = NumElements
<1>1. IsFiniteSet(1..NumElements) /\ Cardinality(1..NumElements) = NumElements
  BY SlabAssumption, FS_Interval
<1>2. IsFiniteSet({g}) /\ Cardinality({g}) = 1
  BY FS_Singleton
<1>3. /\ IsFiniteSet({g} \X (1..NumElements))
      /\ Cardinality({g} \X (1..NumElements)) = 1 * NumElements
  BY <1>1, <1>2, FS_Product
<1>4. ElementsOf(g) # {}
  BY SlabAssumption, <<g, 1>> \in ElementsOf(g) DEF ElementsOf
<1> QED BY <1>3, <1>4, SlabAssumption DEF ElementsOf

(* The page of an element that has an owner is in the owner's list.        *)
LEMMA OwnersPage ==
  ASSUME TypeOK, OwnerOK, NEW e \in Elements, e[1] \in mapped, owner[e] # Nobody
  PROVE  owner[e] \in Pools /\ e[1] \in pages[owner[e]]
  BY ElementFacts DEF TypeOK, OwnerOK

(* The page of an element without an owner is in no list.                  *)
LEMMA OrphanedPage ==
  ASSUME TypeOK, OwnerOK, NEW e \in Elements, owner[e] = Nobody
  PROVE  \A p \in Pools : e[1] \notin pages[p]
  BY ElementFacts, SlabAssumption DEF TypeOK, OwnerOK

(* A page is in the list of one pool.                                      *)
LEMMA OnePool ==
  ASSUME TypeOK, OwnerOK, NEW p \in Pools, NEW q \in Pools, NEW g \in pages[p], g \in pages[q]
  PROVE  p = q
<1>1. PICK e : e \in ElementsOf(g)
  BY ElementsCount DEF TypeOK
<1> QED BY <1>1 DEF OwnerOK

-----------------------------------------------------------------------------
(* What the steps have in common.                                          *)

(* A step that only moves elements between places leaves the pages         *)
(* accounted.                                                              *)
LEMMA MovedCounts ==
  ASSUME TypeOK, CountsOK, PlacedMapped,
         \A e \in Elements : Placed(e)' <=> Placed(e),
         pages' = pages, mapped' = mapped, num_remaining' = num_remaining
  PROVE  CountsOK' /\ PlacedMapped'
<1>1. \A g \in mapped : PlacedOf(g)' = PlacedOf(g)
  BY ElementFacts DEF PlacedOf, TypeOK
<1> QED BY <1>1 DEF CountsOK, PlacedMapped

(* Freeing an element of an orphaned page: the page counts one element     *)
(* less, and goes away with the last one.                                  *)
LEMMA FreedCounts ==
  ASSUME TypeOK, CountsOK, PlacedMapped, OwnerOK,
         NEW e \in Elements, Placed(e), owner[e] = Nobody, slab_free_orphaned(e),
         \A f \in Elements : Placed(f)' <=> Placed(f) /\ f # e,
         pages' = pages
  PROVE  /\ CountsOK' /\ PlacedMapped' /\ OwnerOK'
         /\ mapped' \subseteq Pages /\ num_remaining' \in [Pages -> 0..NumElements]
<1> DEFINE g == e[1]
<1>1. g \in Pages /\ g \in mapped /\ e \in PlacedOf(g)
  BY ElementFacts DEF PlacedMapped, PlacedOf
<1>2. \A p \in Pools : g \notin pages[p]
  BY OrphanedPage
<1>3. Cardinality(PlacedOf(g)) = num_remaining[g]
  BY <1>1, <1>2 DEF CountsOK
<1>4. IsFiniteSet(PlacedOf(g))
  BY <1>1, ElementsCount, FS_Subset, PlacedOf(g) \in SUBSET ElementsOf(g) DEF PlacedOf
<1>5. /\ IsFiniteSet(PlacedOf(g) \ {e})
      /\ Cardinality(PlacedOf(g) \ {e}) = num_remaining[g] - 1
  BY <1>1, <1>3, <1>4, FS_RemoveElement
<1>6. /\ num_remaining[g] = 1 => PlacedOf(g) \ {e} = {}
      /\ num_remaining[g] # 1 => PlacedOf(g) \ {e} # {}
      /\ num_remaining[g] - 1 \in 0..NumElements
  <2>1. Cardinality(PlacedOf(g) \ {e}) = 0 <=> PlacedOf(g) \ {e} = {}
    BY <1>5, FS_EmptySet
  <2>2. Cardinality(PlacedOf(g) \ {e}) \in Nat
    BY <1>5, FS_CardinalityType
  <2>3. num_remaining[g] \in 0..NumElements
    BY <1>1 DEF TypeOK
  <2> QED BY <1>5, <2>1, <2>2, <2>3, SlabAssumption
<1>7. PlacedOf(g)' = PlacedOf(g) \ {e}
  BY <1>1, ElementFacts DEF PlacedOf
<1>8. \A h \in mapped \ {g} : PlacedOf(h)' = PlacedOf(h)
  BY ElementFacts DEF PlacedOf, TypeOK
<1>9. /\ num_remaining'[g] = num_remaining[g] - 1
      /\ \A h \in Pages \ {g} : num_remaining'[h] = num_remaining[h]
      /\ num_remaining' \in [Pages -> 0..NumElements]
  BY <1>1, <1>6 DEF TypeOK, slab_free_orphaned
<1>10. mapped' = IF num_remaining[g] = 1 THEN mapped \ {g} ELSE mapped
  BY DEF slab_free_orphaned
<1>11. CountsOK'
  <2>1. SUFFICES ASSUME NEW h \in mapped'
                 PROVE  IF \E p \in Pools : h \in pages[p] THEN PlacedOf(h)' = ElementsOf(h)
                        ELSE Cardinality(PlacedOf(h)') = num_remaining'[h] /\ PlacedOf(h)' # {}
    BY DEF CountsOK
  <2>2. CASE h = g
    BY <1>2, <1>5, <1>6, <1>7, <1>9, <1>10, <2>2
  <2>3. CASE h # g
    <3>1. h \in mapped /\ h \in Pages
      BY <1>10 DEF TypeOK
    <3> QED BY <1>8, <1>9, <2>3, <3>1 DEF CountsOK
  <2> QED BY <2>2, <2>3
<1>12. PlacedMapped'
  <2>1. SUFFICES ASSUME NEW f \in Elements, Placed(f), f # e
                 PROVE  f[1] \in mapped'
    BY DEF PlacedMapped
  <2>2. f[1] \in mapped
    BY <2>1 DEF PlacedMapped
  <2>3. f[1] = g => f \in PlacedOf(g) \ {e}
    BY <2>1, ElementFacts DEF PlacedOf
  <2> QED BY <1>6, <1>10, <2>2, <2>3
<1>13. OwnerOK'
  BY <1>2, <1>10 DEF OwnerOK, slab_free_orphaned
<1> QED BY <1>9, <1>10, <1>11, <1>12, <1>13 DEF TypeOK

-----------------------------------------------------------------------------
(* Every step keeps the invariant.                                          *)

(* slab_create_child makes a pool without memory.                          *)
LEMMA slab_create_childPreserves ==
  ASSUME IInv, NEW p \in Pools, slab_create_child(p)
  PROVE  IInv'
<1> USE SlabAssumption, ElementFacts DEF IInv
<1>1. TypeOK'
  BY DEF slab_create_child, TypeOK, lists, memory
<1>2. \A e \in Elements : Placed(e)' <=> Placed(e)
  BY DEF slab_create_child, TypeOK, Placed, lists, memory
<1>3. Exclusive'
  BY DEF slab_create_child, TypeOK, Exclusive, lists, memory
<1>4. CountsOK' /\ PlacedMapped'
  BY <1>2, MovedCounts DEF slab_create_child, lists, memory
<1>5. OwnerOK'
  BY DEF slab_create_child, TypeOK, OwnerOK, lists, memory
<1>6. ListsOK'
  BY DEF slab_create_child, TypeOK, ListsOK, DeadOK, CallsOK, lists, memory
<1>7. DeadOK'
  BY DEF slab_create_child, TypeOK, DeadOK, ListsOK, lists, memory
<1>8. CallsOK'
  BY DEF slab_create_child, TypeOK, CallsOK, DeadOK, lists, memory
<1> QED BY <1>1, <1>3, <1>4, <1>5, <1>6, <1>7, <1>8

(* slab_alloc takes a free element.                                        *)
LEMMA slab_allocPreserves ==
  ASSUME IInv, NEW p \in Pools, slab_alloc(p)
  PROVE  IInv'
<1> USE SlabAssumption, ElementFacts DEF IInv
<1>1. TypeOK'
  BY DEF slab_alloc, Idle, Goto, Take, TypeOK, lists, memory
<1>2. \A e \in Elements : Placed(e)' <=> Placed(e)
  BY DEF slab_alloc, Idle, Goto, Take, TypeOK, Placed, lists, memory
<1>3. Exclusive'
  BY DEF slab_alloc, Idle, Goto, Take, TypeOK, Exclusive, lists, memory
<1>4. CountsOK' /\ PlacedMapped'
  BY <1>2, MovedCounts DEF slab_alloc, lists, memory
<1>5. OwnerOK'
  BY DEF slab_alloc, Idle, Goto, Take, TypeOK, OwnerOK, lists, memory
<1>6. ListsOK'
  BY DEF slab_alloc, Idle, Goto, Take, TypeOK, ListsOK, DeadOK, CallsOK, lists, memory
<1>7. DeadOK'
  BY DEF slab_alloc, Idle, Goto, Take, TypeOK, DeadOK, ListsOK, lists, memory
<1>8. CallsOK'
  BY DEF slab_alloc, Idle, Goto, Take, TypeOK, CallsOK, DeadOK, lists, memory
<1> QED BY <1>1, <1>3, <1>4, <1>5, <1>6, <1>7, <1>8

(* The migrated list becomes the free list.                                *)
LEMMA CollectMigratedPreserves ==
  ASSUME IInv, NEW p \in Pools, CollectMigrated(p)
  PROVE  IInv'
<1> USE SlabAssumption, ElementFacts DEF IInv
<1>1. TypeOK'
  BY DEF CollectMigrated, Goto, TypeOK, lists, memory
<1>2. \A e \in Elements : Placed(e)' <=> Placed(e)
  BY DEF CollectMigrated, Goto, TypeOK, Placed, ListsOK, lists, memory
<1>3. Exclusive'
  BY DEF CollectMigrated, Goto, TypeOK, Exclusive, lists, memory
<1>4. CountsOK' /\ PlacedMapped'
  BY <1>2, MovedCounts DEF CollectMigrated, lists, memory
<1>5. OwnerOK'
  BY DEF CollectMigrated, Goto, TypeOK, OwnerOK, lists, memory
<1>6. ListsOK'
  BY DEF CollectMigrated, Goto, TypeOK, ListsOK, DeadOK, CallsOK, lists, memory
<1>7. DeadOK'
  BY DEF CollectMigrated, Goto, TypeOK, DeadOK, ListsOK, lists, memory
<1>8. CallsOK'
  BY DEF CollectMigrated, Goto, TypeOK, CallsOK, DeadOK, lists, memory
<1> QED BY <1>1, <1>3, <1>4, <1>5, <1>6, <1>7, <1>8

(* slab_alloc takes a collected element.                                   *)
LEMMA TakeCollectedPreserves ==
  ASSUME IInv, NEW p \in Pools, TakeCollected(p)
  PROVE  IInv'
<1> USE SlabAssumption, ElementFacts DEF IInv
<1>1. TypeOK'
  BY DEF TakeCollected, Goto, Take, TypeOK, lists, memory
<1>2. \A e \in Elements : Placed(e)' <=> Placed(e)
  BY DEF TakeCollected, Goto, Take, TypeOK, Placed, lists, memory
<1>3. Exclusive'
  BY DEF TakeCollected, Goto, Take, TypeOK, Exclusive, lists, memory
<1>4. CountsOK' /\ PlacedMapped'
  BY <1>2, MovedCounts DEF TakeCollected, lists, memory
<1>5. OwnerOK'
  BY DEF TakeCollected, Goto, Take, TypeOK, OwnerOK, lists, memory
<1>6. ListsOK'
  BY DEF TakeCollected, Goto, Take, TypeOK, ListsOK, DeadOK, CallsOK, lists, memory
<1>7. DeadOK'
  BY DEF TakeCollected, Goto, Take, TypeOK, DeadOK, ListsOK, lists, memory
<1>8. CallsOK'
  BY DEF TakeCollected, Goto, Take, TypeOK, CallsOK, DeadOK, lists, memory
<1> QED BY <1>1, <1>3, <1>4, <1>5, <1>6, <1>7, <1>8

(* An allocation that fails changes no place.                              *)
LEMMA AllocFailsPreserves ==
  ASSUME IInv, NEW p \in Pools, AllocFails(p)
  PROVE  IInv'
<1> USE SlabAssumption, ElementFacts DEF IInv
<1>1. TypeOK'
  BY DEF AllocFails, Goto, TypeOK, lists, memory
<1>2. \A e \in Elements : Placed(e)' <=> Placed(e)
  BY DEF AllocFails, Goto, TypeOK, Placed, lists, memory
<1>3. Exclusive'
  BY DEF AllocFails, Goto, TypeOK, Exclusive, lists, memory
<1>4. CountsOK' /\ PlacedMapped'
  BY <1>2, MovedCounts DEF AllocFails, lists, memory
<1>5. OwnerOK'
  BY DEF AllocFails, Goto, TypeOK, OwnerOK, lists, memory
<1>6. ListsOK'
  BY DEF AllocFails, Goto, TypeOK, ListsOK, DeadOK, CallsOK, lists, memory
<1>7. DeadOK'
  BY DEF AllocFails, Goto, TypeOK, DeadOK, ListsOK, lists, memory
<1>8. CallsOK'
  BY DEF AllocFails, Goto, TypeOK, CallsOK, DeadOK, lists, memory
<1> QED BY <1>1, <1>3, <1>4, <1>5, <1>6, <1>7, <1>8

(* slab_destroy_child locks the mutex.                                     *)
LEMMA slab_destroy_childPreserves ==
  ASSUME IInv, NEW p \in Pools, slab_destroy_child(p)
  PROVE  IInv'
<1> USE SlabAssumption, ElementFacts DEF IInv
<1>1. TypeOK'
  BY DEF slab_destroy_child, Idle, Goto, TypeOK, lists, memory
<1>2. \A e \in Elements : Placed(e)' <=> Placed(e)
  BY DEF slab_destroy_child, Idle, Goto, TypeOK, Placed, lists, memory
<1>3. Exclusive'
  BY DEF slab_destroy_child, Idle, Goto, TypeOK, Exclusive, lists, memory
<1>4. CountsOK' /\ PlacedMapped'
  BY <1>2, MovedCounts DEF slab_destroy_child, lists, memory
<1>5. OwnerOK'
  BY DEF slab_destroy_child, Idle, Goto, TypeOK, OwnerOK, lists, memory
<1>6. ListsOK'
  BY DEF slab_destroy_child, Idle, Goto, TypeOK, ListsOK, DeadOK, CallsOK, lists, memory
<1>7. DeadOK'
  BY DEF slab_destroy_child, Idle, Goto, TypeOK, DeadOK, ListsOK, lists, memory
<1>8. CallsOK'
  BY DEF slab_destroy_child, Idle, Goto, TypeOK, CallsOK, DeadOK, lists, memory
<1> QED BY <1>1, <1>3, <1>4, <1>5, <1>6, <1>7, <1>8

(* slab_destroy_child unlocks the mutex.                                   *)
LEMMA UnlockPreserves ==
  ASSUME IInv, NEW p \in Pools, Unlock(p)
  PROVE  IInv'
<1> USE SlabAssumption, ElementFacts DEF IInv
<1>1. TypeOK'
  BY DEF Unlock, Goto, TypeOK, lists, memory
<1>2. \A e \in Elements : Placed(e)' <=> Placed(e)
  BY DEF Unlock, Goto, TypeOK, Placed, lists, memory
<1>3. Exclusive'
  BY DEF Unlock, Goto, TypeOK, Exclusive, lists, memory
<1>4. CountsOK' /\ PlacedMapped'
  BY <1>2, MovedCounts DEF Unlock, lists, memory
<1>5. OwnerOK'
  BY DEF Unlock, Goto, TypeOK, OwnerOK, lists, memory
<1>6. ListsOK'
  BY DEF Unlock, Goto, TypeOK, ListsOK, DeadOK, CallsOK, lists, memory
<1>7. DeadOK'
  BY DEF Unlock, Goto, TypeOK, DeadOK, ListsOK, lists, memory
<1>8. CallsOK'
  BY DEF Unlock, Goto, TypeOK, CallsOK, DeadOK, lists, memory
<1> QED BY <1>1, <1>3, <1>4, <1>5, <1>6, <1>7, <1>8

(* The pool is gone.                                                       *)
LEMMA DestroyedPreserves ==
  ASSUME IInv, NEW p \in Pools, Destroyed(p)
  PROVE  IInv'
<1> USE SlabAssumption, ElementFacts DEF IInv
<1>1. TypeOK'
  BY DEF Destroyed, Goto, TypeOK, lists, memory
<1>2. \A e \in Elements : Placed(e)' <=> Placed(e)
  BY DEF Destroyed, Goto, TypeOK, Placed, lists, memory
<1>3. Exclusive'
  BY DEF Destroyed, Goto, TypeOK, Exclusive, lists, memory
<1>4. CountsOK' /\ PlacedMapped'
  BY <1>2, MovedCounts DEF Destroyed, lists, memory
<1>5. OwnerOK'
  BY DEF Destroyed, Goto, TypeOK, OwnerOK, lists, memory
<1>6. ListsOK'
  BY DEF Destroyed, Goto, TypeOK, ListsOK, DeadOK, CallsOK, lists, memory
<1>7. DeadOK'
  BY DEF Destroyed, Goto, TypeOK, DeadOK, ListsOK, lists, memory
<1>8. CallsOK'
  BY DEF Destroyed, Goto, TypeOK, CallsOK, DeadOK, lists, memory
<1> QED BY <1>1, <1>3, <1>4, <1>5, <1>6, <1>7, <1>8


(* The element goes to the migrated list of its owner, which is alive and  *)
(* not past its lock in slab_destroy_child, or its page is orphaned, and   *)
(* stays so.                                                               *)
LEMMA MigratePreserves ==
  ASSUME IInv, NEW p \in Pools, Migrate(p)
  PROVE  IInv'
<1> USE SlabAssumption, ElementFacts DEF IInv
<1> DEFINE e == elt[p]
           q == owner[e]
<1>1. /\ pc[p] = "migrate" /\ mutex = Nobody
      /\ UNCHANGED <<alive, pages, free, memory, mutex, held, creates>>
  BY DEF Migrate
<1>2. e \in Elements /\ Placed(e) /\ q \in Pools \cup {Nobody}
  BY <1>1 DEF CallsOK, TypeOK, Placed
<1>3. CASE q = Nobody
  <2>1. pc' = [pc EXCEPT ![p] = "orphan"] /\ UNCHANGED <<migrated, elt>>
    BY <1>3 DEF Migrate, Goto
  <2>2. TypeOK'
    BY <1>1, <2>1 DEF TypeOK, memory
  <2>3. CountsOK' /\ PlacedMapped'
    BY <1>1, <2>1, MovedCounts DEF Placed, memory
  <2>4. Exclusive' /\ OwnerOK'
    BY <1>1, <2>1 DEF Exclusive, OwnerOK, memory
  <2>5. ListsOK' /\ DeadOK'
    BY <1>1, <2>1 DEF ListsOK, DeadOK, TypeOK, memory
  <2>6. CallsOK'
    BY <1>1, <1>3, <2>1 DEF CallsOK, TypeOK, memory
  <2> QED BY <2>2, <2>3, <2>4, <2>5, <2>6
<1>4. CASE q # Nobody
  <2>1. /\ migrated' = [migrated EXCEPT ![q] = @ \cup {e}]
        /\ elt' = [elt EXCEPT ![p] = NoElement]
        /\ pc' = [pc EXCEPT ![p] = "idle"]
    BY <1>4 DEF Migrate, Goto
  <2>2. q \in Pools /\ pages[q] # {} /\ q \in alive /\ pc[q] \notin {"pages", "free"}
    <3>1. q \in Pools /\ e[1] \in pages[q]
      BY <1>2, <1>4, OwnersPage DEF PlacedMapped
    <3> QED BY <1>1, <3>1 DEF DeadOK, ListsOK, CallsOK
  <2>3. TypeOK'
    BY <1>1, <1>2, <2>1, <2>2 DEF TypeOK, memory
  <2>4. \A f \in Elements : Placed(f)' <=> Placed(f)
    BY <1>1, <1>2, <2>1, <2>2 DEF Placed, TypeOK
  <2>5. CountsOK' /\ PlacedMapped'
    BY <1>1, <2>4, MovedCounts DEF memory
  <2>6. Exclusive'
    BY <1>1, <1>2, <2>1, <2>2 DEF Exclusive, TypeOK
  <2>7. OwnerOK'
    BY <1>1 DEF OwnerOK, memory
  <2>8. ListsOK' /\ DeadOK'
    BY <1>1, <1>2, <2>1, <2>2 DEF ListsOK, DeadOK, TypeOK, memory
  <2>9. CallsOK'
    BY <1>1, <2>1 DEF CallsOK, TypeOK, memory
  <2> QED BY <2>3, <2>5, <2>6, <2>7, <2>8, <2>9
<1> QED BY <1>2, <1>3, <1>4

(* slab_free gives an element of this pool back to it, or remembers it.    *)
LEMMA slab_freePreserves ==
  ASSUME IInv, NEW p \in Pools, NEW e \in held, slab_free(p, e)
  PROVE  IInv'
<1> USE SlabAssumption, ElementFacts DEF IInv
<1>1. /\ p \in alive /\ pc[p] = "idle" /\ e \in Elements /\ held' = held \ {e}
      /\ UNCHANGED <<alive, pages, migrated, memory, mutex, creates>>
      /\ elt[p] = NoElement
  BY DEF slab_free, Idle, TypeOK, CallsOK
<1>2. CASE owner[e] = p
  <2>1. free' = [free EXCEPT ![p] = @ \cup {e}] /\ UNCHANGED <<pc, elt>>
    BY <1>2 DEF slab_free
  <2>2. TypeOK'
    BY <1>1, <2>1 DEF TypeOK, memory
  <2>3. \A f \in Elements : Placed(f)' <=> Placed(f)
    BY <1>1, <2>1 DEF Placed, TypeOK
  <2>4. CountsOK' /\ PlacedMapped'
    BY <1>1, <2>3, MovedCounts DEF memory
  <2>5. Exclusive'
    BY <1>1, <2>1 DEF Exclusive, TypeOK
  <2>6. OwnerOK' /\ CallsOK'
    BY <1>1, <2>1 DEF OwnerOK, CallsOK, memory
  <2>7. ListsOK' /\ DeadOK'
    BY <1>1, <1>2, <2>1 DEF ListsOK, DeadOK, TypeOK, memory
  <2> QED BY <2>2, <2>4, <2>5, <2>6, <2>7
<1>3. CASE owner[e] # p
  <2>1. /\ elt' = [elt EXCEPT ![p] = e] /\ pc' = [pc EXCEPT ![p] = "migrate"]
        /\ UNCHANGED free
    BY <1>3 DEF slab_free, Goto
  <2>2. TypeOK'
    BY <1>1, <2>1 DEF TypeOK, memory
  <2>3. \A f \in Elements : Placed(f)' <=> Placed(f)
    BY <1>1, <2>1 DEF Placed, TypeOK
  <2>4. CountsOK' /\ PlacedMapped'
    BY <1>1, <2>3, MovedCounts DEF memory
  <2>5. Exclusive'
    BY <1>1, <2>1 DEF Exclusive, TypeOK
  <2>6. OwnerOK'
    BY <1>1 DEF OwnerOK, memory
  <2>7. ListsOK' /\ DeadOK'
    BY <1>1, <2>1 DEF ListsOK, DeadOK, TypeOK, memory
  <2>8. CallsOK'
    BY <1>1, <2>1 DEF CallsOK, TypeOK, memory
  <2> QED BY <2>2, <2>4, <2>5, <2>6, <2>7, <2>8
<1> QED BY <1>2, <1>3

(* A new page is wholly in use, and owned by the pool.                     *)
LEMMA slab_add_new_pagePreserves ==
  ASSUME IInv, NEW p \in Pools, slab_add_new_page(p)
  PROVE  IInv'
<1> USE SlabAssumption, ElementFacts DEF IInv
<1>1. /\ pc[p] = "take" /\ free[p] = {} /\ pc' = [pc EXCEPT ![p] = "idle"]
      /\ UNCHANGED <<alive, migrated, num_remaining, mutex, elt, creates>>
      /\ p \in alive
  BY DEF slab_add_new_page, Goto, DeadOK
<1>2. PICK g \in Pages \ mapped :
        /\ mapped' = mapped \cup {g}
        /\ owner' = [e \in Elements |-> IF e[1] = g THEN p ELSE owner[e]]
        /\ pages' = [pages EXCEPT ![p] = @ \cup {g}]
        /\ \E e \in ElementsOf(g) :
             /\ free' = [free EXCEPT ![p] = ElementsOf(g) \ {e}]
             /\ held' = held \cup {e}
  BY DEF slab_add_new_page
<1>3. PICK e \in ElementsOf(g) :
        free' = [free EXCEPT ![p] = ElementsOf(g) \ {e}] /\ held' = held \cup {e}
  BY <1>2
<1>4. \A f \in Elements : f[1] = g => ~Placed(f)
  BY DEF PlacedMapped
<1>5. \A q \in Pools : g \notin pages[q]
  BY DEF OwnerOK
<1>6. TypeOK'
  BY <1>1, <1>2, <1>3 DEF TypeOK
<1>7. \A f \in Elements : Placed(f)' <=> Placed(f) \/ f[1] = g
  BY <1>1, <1>3 DEF Placed, TypeOK
<1>8. PlacedMapped'
  BY <1>2, <1>7 DEF PlacedMapped
<1>9. CountsOK'
  <2>1. PlacedOf(g)' = ElementsOf(g)
    BY <1>7 DEF PlacedOf
  <2>2. \A h \in mapped : PlacedOf(h)' = PlacedOf(h)
    BY <1>7 DEF PlacedOf, TypeOK
  <2>3. \A h \in mapped : \A q \in Pools : h \in pages'[q] <=> h \in pages[q]
    BY <1>2 DEF TypeOK
  <2>4. g \in pages'[p]
    BY <1>2 DEF TypeOK
  <2> QED BY <1>1, <1>2, <2>1, <2>2, <2>3, <2>4 DEF CountsOK
<1>10. Exclusive'
  BY <1>1, <1>2, <1>3, <1>4 DEF Exclusive, TypeOK, Placed
<1>11. OwnerOK'
  BY <1>1, <1>2, <1>5 DEF OwnerOK, TypeOK
<1>12. \A f \in Elements : Placed(f) => owner'[f] = owner[f]
  BY <1>2, <1>4 DEF TypeOK
<1>13. ListsOK'
  <2>1. ASSUME NEW q \in Pools, NEW f \in free'[q]
        PROVE  owner'[f] = q \/ (owner'[f] = Nobody /\ pc'[q] \in {"pages", "free"})
    <3>1. CASE q = p
      BY <1>2, <1>3, <2>1, <3>1 DEF TypeOK
    <3>2. CASE q # p
      BY <1>1, <1>3, <1>12, <2>1, <3>2 DEF TypeOK, ListsOK, Placed
    <3> QED BY <3>1, <3>2
  <2>2. ASSUME NEW q \in Pools, NEW f \in migrated'[q]
        PROVE  owner'[f] = q \/ (owner'[f] = Nobody /\ pc'[q] = "pages")
    BY <1>1, <1>12, <2>2 DEF TypeOK, ListsOK, Placed
  <2>3. ASSUME NEW q \in Pools
        PROVE  /\ pc'[q] = "free" => pages'[q] = {} /\ migrated'[q] = {}
               /\ pc'[q] = "collect" => free'[q] = {}
    BY <1>1, <1>2, <1>3 DEF TypeOK, ListsOK
  <2> QED BY <2>1, <2>2, <2>3 DEF ListsOK
<1>14. DeadOK'
  BY <1>1, <1>2, <1>3 DEF DeadOK, TypeOK
<1>15. CallsOK'
  BY <1>1, <1>12 DEF CallsOK, TypeOK, Placed
<1> QED BY <1>6, <1>8, <1>9, <1>10, <1>11, <1>13, <1>14, <1>15

(* The page of the element is still orphaned, and counts one element less. *)
LEMMA FreeOrphanedPreserves ==
  ASSUME IInv, NEW p \in Pools, FreeOrphaned(p)
  PROVE  IInv'
<1> USE SlabAssumption, ElementFacts DEF IInv
<1> DEFINE e == elt[p]
<1>1. /\ pc[p] = "orphan" /\ slab_free_orphaned(e)
      /\ elt' = [elt EXCEPT ![p] = NoElement] /\ pc' = [pc EXCEPT ![p] = "idle"]
      /\ UNCHANGED <<alive, lists, mutex, held, creates>> /\ UNCHANGED owner
  BY DEF FreeOrphaned, slab_free_orphaned, Goto
<1>2. e \in Elements /\ Placed(e) /\ owner[e] = Nobody
  BY <1>1 DEF CallsOK, TypeOK, Placed
<1>3. \A f \in Elements : Placed(f)' <=> Placed(f) /\ f # e
  BY <1>1, <1>2 DEF Placed, TypeOK, Exclusive, lists
<1>4. /\ CountsOK' /\ PlacedMapped' /\ OwnerOK'
      /\ mapped' \subseteq Pages /\ num_remaining' \in [Pages -> 0..NumElements]
  BY <1>1, <1>2, <1>3, FreedCounts DEF lists
<1>5. TypeOK'
  BY <1>1, <1>4 DEF TypeOK, lists
<1>6. Exclusive'
  BY <1>1 DEF Exclusive, TypeOK, lists
<1>7. ListsOK' /\ DeadOK'
  BY <1>1 DEF ListsOK, DeadOK, TypeOK, lists
<1>8. CallsOK'
  BY <1>1 DEF CallsOK, TypeOK
<1> QED BY <1>4, <1>5, <1>6, <1>7, <1>8

(* A page of the pool is orphaned: all its elements are in some place, and *)
(* num_remaining counts all of them.                                       *)
LEMMA OrphanPagePreserves ==
  ASSUME IInv, NEW p \in Pools, OrphanPage(p)
  PROVE  IInv'
<1> USE SlabAssumption, ElementFacts DEF IInv
<1>1. /\ pc[p] = "pages"
      /\ UNCHANGED <<alive, free, migrated, mapped, mutex, held, pc, elt, creates>>
  BY DEF OrphanPage
<1>2. PICK g \in pages[p] :
        /\ pages' = [pages EXCEPT ![p] = @ \ {g}]
        /\ num_remaining' = [num_remaining EXCEPT ![g] = NumElements]
        /\ owner' = [e \in Elements |-> IF e[1] = g THEN Nobody ELSE owner[e]]
  BY DEF OrphanPage
<1>3. g \in Pages /\ g \in mapped /\ \A e \in ElementsOf(g) : owner[e] = p
  BY DEF TypeOK, OwnerOK
<1>4. TypeOK'
  BY <1>1, <1>2, <1>3 DEF TypeOK
<1>5. \A h : PlacedOf(h)' = PlacedOf(h)
  BY <1>1 DEF PlacedOf, Placed
<1>6. \A q \in Pools : g \notin pages'[q]
  BY <1>2, OnePool DEF TypeOK
<1>7. \A h \in Pages \ {g} : \A q \in Pools : h \in pages'[q] <=> h \in pages[q]
  BY <1>2 DEF TypeOK
<1>8. CountsOK'
  <2>1. PlacedOf(g) = ElementsOf(g)
    BY <1>3 DEF CountsOK
  <2>2. Cardinality(PlacedOf(g)) = num_remaining'[g] /\ PlacedOf(g) # {}
    BY <1>2, <1>3, <2>1, ElementsCount DEF TypeOK
  <2>3. \A h \in Pages \ {g} : num_remaining'[h] = num_remaining[h]
    BY <1>2 DEF TypeOK
  <2>4. SUFFICES ASSUME NEW h \in mapped
                 PROVE  IF \E q \in Pools : h \in pages'[q] THEN PlacedOf(h) = ElementsOf(h)
                        ELSE Cardinality(PlacedOf(h)) = num_remaining'[h] /\ PlacedOf(h) # {}
    BY <1>1, <1>5 DEF CountsOK
  <2>5. CASE h = g
    BY <1>6, <2>2, <2>5
  <2>6. CASE h # g
    BY <1>7, <2>3, <2>6 DEF CountsOK, TypeOK
  <2> QED BY <2>5, <2>6
<1>9. PlacedMapped' /\ Exclusive'
  BY <1>1 DEF PlacedMapped, Placed, Exclusive
<1>10. OwnerOK'
  <2>1. ASSUME NEW q \in Pools, NEW h \in pages'[q]
        PROVE  h \in mapped' /\ \A e \in ElementsOf(h) : owner'[e] = q
    <3>1. h \in Pages \ {g} /\ h \in pages[q]
      BY <1>2, <1>6, <2>1 DEF TypeOK
    <3> QED BY <1>1, <1>2, <3>1 DEF OwnerOK
  <2>2. ASSUME NEW h \in mapped', \A q \in Pools : h \notin pages'[q]
        PROVE  \A e \in ElementsOf(h) : owner'[e] = Nobody
    BY <1>1, <1>2, <1>7, <2>2 DEF OwnerOK, TypeOK
  <2> QED BY <2>1, <2>2 DEF OwnerOK
<1>11. \A e \in Elements : owner'[e] = owner[e] \/ (owner'[e] = Nobody /\ owner[e] = p)
  BY <1>2, <1>3 DEF TypeOK
<1>12. ListsOK'
  <2>1. \A q \in Pools : free[q] \subseteq Elements /\ migrated[q] \subseteq Elements
    BY DEF TypeOK
  <2>2. \A q \in Pools : pages'[q] \subseteq pages[q]
    BY <1>2 DEF TypeOK
  <2>3. ASSUME NEW q \in Pools, NEW e \in free[q]
        PROVE  owner'[e] = q \/ (owner'[e] = Nobody /\ pc[q] \in {"pages", "free"})
    <3>1. owner[e] = q \/ (owner[e] = Nobody /\ pc[q] \in {"pages", "free"})
      BY DEF ListsOK
    <3> QED BY <1>1, <1>11, <2>1, <3>1
  <2>4. ASSUME NEW q \in Pools, NEW e \in migrated[q]
        PROVE  owner'[e] = q \/ (owner'[e] = Nobody /\ pc[q] = "pages")
    <3>1. owner[e] = q \/ (owner[e] = Nobody /\ pc[q] = "pages")
      BY DEF ListsOK
    <3> QED BY <1>1, <1>11, <2>1, <3>1
  <2> QED BY <1>1, <2>2, <2>3, <2>4 DEF ListsOK
<1>13. DeadOK'
  BY <1>1, <1>2 DEF DeadOK, TypeOK
<1>14. CallsOK'
  BY <1>1, <1>11 DEF CallsOK, TypeOK
<1> QED BY <1>4, <1>8, <1>9, <1>10, <1>12, <1>13, <1>14

(* A pool whose page list is empty has only elements of orphaned pages.    *)
LEMMA NoPagesOrphaned ==
  ASSUME IInv, NEW p \in Pools, pages[p] = {}, NEW e \in free[p] \cup migrated[p]
  PROVE  e \in Elements /\ Placed(e) /\ owner[e] = Nobody
<1>1. e \in Elements /\ Placed(e)
  BY DEF IInv, TypeOK, Placed
<1>2. owner[e] # p
  BY <1>1, OwnersPage, SlabAssumption DEF IInv, PlacedMapped
<1> QED BY <1>1, <1>2 DEF IInv, ListsOK

(* An element of the migrated list counts down its page.                   *)
LEMMA DropMigratedPreserves ==
  ASSUME IInv, NEW p \in Pools, DropMigrated(p)
  PROVE  IInv'
<1> USE SlabAssumption, ElementFacts DEF IInv
<1>1. /\ pc[p] = "pages" /\ pages[p] = {}
      /\ UNCHANGED <<alive, pages, free, mutex, held, pc, elt, creates>>
  BY DEF DropMigrated
<1>2. PICK e \in migrated[p] :
        migrated' = [migrated EXCEPT ![p] = @ \ {e}] /\ slab_free_orphaned(e)
  BY DEF DropMigrated
<1>3. e \in Elements /\ Placed(e) /\ owner[e] = Nobody /\ UNCHANGED owner
  BY <1>1, <1>2, NoPagesOrphaned DEF slab_free_orphaned
<1>4. \A f \in Elements : Placed(f)' <=> Placed(f) /\ f # e
  BY <1>1, <1>2 DEF Placed, TypeOK, Exclusive
<1>5. /\ CountsOK' /\ PlacedMapped' /\ OwnerOK'
      /\ mapped' \subseteq Pages /\ num_remaining' \in [Pages -> 0..NumElements]
  BY <1>1, <1>2, <1>3, <1>4, FreedCounts
<1>6. TypeOK'
  BY <1>1, <1>2, <1>3, <1>5 DEF TypeOK
<1>7. Exclusive'
  BY <1>1, <1>2 DEF Exclusive, TypeOK
<1>8. ListsOK' /\ DeadOK'
  BY <1>1, <1>2, <1>3 DEF ListsOK, DeadOK, TypeOK
<1>9. CallsOK'
  BY <1>1, <1>3 DEF CallsOK
<1> QED BY <1>5, <1>6, <1>7, <1>8, <1>9

(* An element of the free list counts down its page.                       *)
LEMMA DropFreePreserves ==
  ASSUME IInv, NEW p \in Pools, DropFree(p)
  PROVE  IInv'
<1> USE SlabAssumption, ElementFacts DEF IInv
<1>1. /\ pc[p] = "free" /\ pages[p] = {}
      /\ UNCHANGED <<alive, pages, migrated, mutex, held, pc, elt, creates>>
  BY DEF DropFree, ListsOK
<1>2. PICK e \in free[p] :
        free' = [free EXCEPT ![p] = @ \ {e}] /\ slab_free_orphaned(e)
  BY DEF DropFree
<1>3. e \in Elements /\ Placed(e) /\ owner[e] = Nobody /\ UNCHANGED owner
  BY <1>1, <1>2, NoPagesOrphaned DEF slab_free_orphaned
<1>4. \A f \in Elements : Placed(f)' <=> Placed(f) /\ f # e
  BY <1>1, <1>2 DEF Placed, TypeOK, Exclusive
<1>5. /\ CountsOK' /\ PlacedMapped' /\ OwnerOK'
      /\ mapped' \subseteq Pages /\ num_remaining' \in [Pages -> 0..NumElements]
  BY <1>1, <1>2, <1>3, <1>4, FreedCounts
<1>6. TypeOK'
  BY <1>1, <1>2, <1>3, <1>5 DEF TypeOK
<1>7. Exclusive'
  BY <1>1, <1>2 DEF Exclusive, TypeOK
<1>8. ListsOK' /\ DeadOK'
  BY <1>1, <1>2, <1>3 DEF ListsOK, DeadOK, TypeOK
<1>9. CallsOK'
  BY <1>1, <1>3 DEF CallsOK
<1> QED BY <1>5, <1>6, <1>7, <1>8, <1>9

-----------------------------------------------------------------------------
(* The theorems.                                                           *)

(* The invariant holds in the initial state.                               *)
LEMMA InitInvariant == Init => IInv
<1> SUFFICES ASSUME Init PROVE IInv
  OBVIOUS
<1> USE SlabAssumption, ElementFacts DEF Init
<1>1. TypeOK
  BY DEF TypeOK
<1>2. Exclusive /\ PlacedMapped /\ CountsOK
  BY DEF Exclusive, PlacedMapped, Placed, CountsOK
<1>3. OwnerOK /\ ListsOK /\ DeadOK /\ CallsOK
  BY DEF OwnerOK, ListsOK, DeadOK, CallsOK
<1> QED BY <1>1, <1>2, <1>3 DEF IInv

(* Every step keeps it.                                                    *)
LEMMA NextInvariant == IInv /\ [Next]_vars => IInv'
<1> SUFFICES ASSUME IInv, [Next]_vars PROVE IInv'
  OBVIOUS
<1>1. CASE UNCHANGED vars
  <2>1. TypeOK' /\ Exclusive' /\ OwnerOK' /\ ListsOK' /\ DeadOK' /\ CallsOK'
    BY <1>1 DEF vars, lists, memory, IInv, TypeOK, Exclusive, OwnerOK, ListsOK, DeadOK, CallsOK
  <2>2. CountsOK' /\ PlacedMapped'
    BY <1>1, MovedCounts DEF vars, lists, memory, IInv, Placed
  <2> QED BY <2>1, <2>2 DEF IInv
<1>2. ASSUME NEW p \in Pools,
             slab_create_child(p) \/ slab_alloc(p) \/ slab_destroy_child(p)
      PROVE  IInv'
  BY <1>2, slab_create_childPreserves, slab_allocPreserves, slab_destroy_childPreserves
<1>3. ASSUME NEW p \in Pools, NEW e \in held, slab_free(p, e)
      PROVE  IInv'
  BY <1>3, slab_freePreserves
<1>4. ASSUME NEW p \in Pools, Step(p)
      PROVE  IInv'
  BY <1>4, CollectMigratedPreserves, TakeCollectedPreserves, slab_add_new_pagePreserves,
     AllocFailsPreserves, MigratePreserves, FreeOrphanedPreserves, OrphanPagePreserves,
     DropMigratedPreserves, UnlockPreserves, DropFreePreserves, DestroyedPreserves DEF Step
<1> QED BY <1>1, <1>2, <1>3, <1>4 DEF Next

(* The invariant always holds.                                             *)
LEMMA Invariant == Spec => []IInv
  BY InitInvariant, NextInvariant, PTL DEF Spec

(* Every variable keeps its type; in particular num_remaining never goes   *)
(* below zero in slab_free_orphaned.                                       *)
THEOREM TypeCorrect == Spec => []TypeOK
<1>1. IInv => TypeOK
  BY DEF IInv
<1> QED BY <1>1, Invariant, PTL

(* slab_alloc never returns an object that the program has already, and    *)
(* neither a list nor a thread in slab_free refers to a freed page.        *)
THEOREM ElementsInOnePlace == Spec => []InOnePlace
<1>1. ASSUME IInv, NEW e \in Elements
      PROVE  Cardinality(Places(e)) <= (IF e[1] \in mapped THEN 1 ELSE 0)
  <2>1. \A x, y \in Places(e) : x = y
    BY <1>1 DEF IInv, Exclusive, Places
  <2>2. CASE Places(e) = {}
    BY <2>2, FS_EmptySet
  <2>3. CASE Places(e) # {}
    <3>1. PICK x : Places(e) = {x}
      BY <2>1, <2>3
    <3>2. Cardinality(Places(e)) = 1
      BY <3>1, FS_Singleton
    <3>3. Placed(e)
      BY <2>3 DEF Places, Placed
    <3> QED BY <1>1, <3>2, <3>3 DEF IInv, PlacedMapped
  <2> QED BY <2>2, <2>3
<1>2. IInv => InOnePlace
  BY <1>1 DEF InOnePlace
<1> QED BY <1>2, Invariant, PTL

(* All the elements of a page that is in a list are in some place, and an  *)
(* orphaned page counts exactly those that still are.                      *)
THEOREM PagesAreAccounted == Spec => []PagesAccounted
<1>1. ASSUME NEW e
      PROVE  Placed(e) <=> Places(e) # {}
  <2>1. ASSUME Placed(e)
        PROVE  Places(e) # {}
    <3>1. CASE e \in held
      BY <3>1, "held" \in Places(e) DEF Places
    <3>2. ASSUME NEW p \in Pools, e \in free[p] \/ e \in migrated[p] \/ elt[p] = e
          PROVE  Places(e) # {}
      BY <3>2, \/ <<"free", p>> \in Places(e)
               \/ <<"migrated", p>> \in Places(e)
               \/ <<"freeing", p>> \in Places(e) DEF Places
    <3> QED BY <2>1, <3>1, <3>2 DEF Placed
  <2>2. ASSUME NEW x \in Places(e)
        PROVE  Placed(e)
    BY <2>2 DEF Places, Placed
  <2> QED BY <2>1, <2>2
<1>2. \A g : PlacedOf(g) = {e \in ElementsOf(g) : Places(e) # {}}
  BY <1>1 DEF PlacedOf
<1>3. IInv => PagesAccounted
  BY <1>2 DEF IInv, CountsOK, PagesAccounted
<1> QED BY <1>3, Invariant, PTL

(* Once the pools are destroyed and the objects freed, in whatever order   *)
(* the threads did it, no page is left.                                    *)
THEOREM NoPageIsLeaked == Spec => []NoPageLeaks
<1>1. ASSUME IInv, alive = {}, held = {}, NEW g \in mapped
      PROVE  FALSE
  <2>1. \A p \in Pools : /\ pages[p] = {} /\ free[p] = {} /\ migrated[p] = {}
                         /\ elt[p] = NoElement
    BY <1>1 DEF IInv, DeadOK, CallsOK
  <2>2. PlacedOf(g) # {}
    BY <1>1, <2>1 DEF IInv, CountsOK
  <2>3. PICK e \in Elements : Placed(e)
    BY <1>1, <2>2, ElementFacts DEF PlacedOf, IInv, TypeOK
  <2> QED BY <1>1, <2>1, <2>3, ElementFacts DEF Placed
<1>2. IInv => NoPageLeaks
  BY <1>1 DEF NoPageLeaks
<1> QED BY <1>2, Invariant, PTL
=============================================================================
