------------------------- MODULE AnvBlockPoolProofs -------------------------
(***************************************************************************)
(* What AnvBlockPool keeps invariant, for every set of threads, block      *)
(* sizes, page size, word size and number of calls.                        *)
(***************************************************************************)
EXTENDS AnvBlockPool, FiniteSetTheorems, TLAPS

(***************************************************************************)
(* The inductive invariant                                                 *)
(***************************************************************************)
Record == [pc : PC, side : Sides, size : Nat, next : Nat, end : Nat,
           used : [Sides -> Nat], new_size : Nat, got : Nat, new_end : Nat]

UnpublishedPC == {"read", "readsize", "readcenter", "got"}
MutexPC == {"gather", "expand", "setsize"}
GrowPC == {"grow"} \cup MutexPC \cup UnpublishedPC

(* A call asks for at least one byte, and only the grower is in grow.      *)
CallsOK ==
  \A t \in Threads :
    /\ thread[t].pc # "idle" => thread[t].size > 0
    /\ thread[t].pc \in MutexPC <=> mutex = t

(* next passes end exactly while one thread of the side grows the pool.    *)
GrowersOK ==
  /\ \A t, u \in Threads : /\ thread[t].pc \in GrowPC /\ thread[u].pc \in GrowPC
                           /\ thread[t].side = thread[u].side
                           => t = u
  /\ \A t \in Threads : thread[t].pc \in GrowPC =>
       LET s == thread[t].side
       IN thread[t].next <= end[s] /\ end[s] < thread[t].next + thread[t].size
            /\ thread[t].next + thread[t].size <= next[s]
  /\ \A s \in Sides : (\A t \in Threads : thread[t].side = s => thread[t].pc \notin GrowPC)
                        => next[s] <= end[s]

(* The blocks of a side lie below its next, and all but the grower's below *)
(* the grower's.                                                           *)
BlocksOK ==
  \A b \in AllBlocks :
    /\ b.size > 0 /\ b.offset + b.size <= next[b.side]
    /\ \A t \in Threads :
         thread[t].pc \in GrowPC /\ thread[t].side = b.side
         => b = Block(thread[t]) \/ b.offset + b.size <= thread[t].next

(* The sizes are whole pages, and a new size holds what grow found used.   *)
SizesOK ==
  /\ boSize > 0 /\ boSize < WordSize /\ boSize % PageSize = 0
  /\ \A s \in Sides : next[s] = 0 => end[s] = 0
  /\ \A t \in Threads : thread[t].pc \in {"expand", "setsize"} =>
       /\ thread[t].new_size > boSize /\ thread[t].new_size < WordSize
       /\ thread[t].new_size % PageSize = 0
  /\ \A t \in Threads : thread[t].pc = "expand" =>
       /\ \A s \in Sides : thread[t].used[s] % PageSize = 0
       /\ thread[t].used["back"] = 0 =>
            /\ thread[t].side = "front" /\ end["back"] = 0
            /\ \A u \in Threads : thread[u].side = "back" => thread[u].pc \notin UnpublishedPC

(* Without the race: the centre is in the bo, and the size of each side    *)
(* is at least its end.                                                    *)
CenterOK ==
  /\ center % PageSize = 0
  /\ (\A t \in Threads : thread[t].pc # "setsize") =>
       center <= boSize /\ \A s \in Sides : end[s] <= SideSize(s)
  /\ \A t \in Threads : thread[t].pc = "setsize" =>
       /\ center <= thread[t].new_size
       /\ end["back"] <= center /\ end["front"] <= thread[t].new_size - center
       /\ \A u \in Threads : thread[u].pc \notin UnpublishedPC
  /\ \A s \in Sides : end[s] % PageSize = 0
  /\ \A t \in Threads : thread[t].pc = "expand" =>
       /\ thread[t].used["front"] + thread[t].used["back"] <= thread[t].new_size
       /\ thread[t].used["back"] + (boSize - center) <= thread[t].new_size

(* Without the race: what a thread has read is still so.                   *)
ReadOK(w) ==
  /\ w.pc = "readcenter" => w.got = boSize
  /\ w.pc = "readsize" => w.got = center
  /\ w.pc \in {"readcenter", "readsize"} => w.side = "front"
  /\ w.pc = "got" => w.new_end \in {0, SideSize(w.side)}

ReadsOK == \A t \in Threads : ReadOK(thread[t])

BlockPart == GrowersOK /\ BlocksOK /\ BlocksDisjoint /\ IsFiniteSet(AllBlocks)
SizePart == SizesOK /\ (~raced => CenterOK /\ ReadsOK)

(* The blocks handed out, and those of the threads about to wake the       *)
(* others, lie before the end of their side.                               *)
Before(b) == b.offset + b.size <= end[b.side]
HandedOK ==
  /\ \A b \in blocks : Before(b)
  /\ \A t \in Threads : thread[t].pc = "wake" => Before(Block(thread[t]))

IInv == TypeOK /\ CallsOK /\ BlockPart /\ SizePart

(***************************************************************************)
(* Arithmetic: multiples of a page, and what align and the words return    *)
(***************************************************************************)
LEMMA SmallMultiple ==
  ASSUME NEW k \in Int, NEW q \in Nat \ {0}, k * q > -q, k * q < q
  PROVE  k = 0
<1>1. CASE k >= 1
  <2>1. k * q >= q BY <1>1
  <2>. QED BY <2>1
<1>2. CASE k <= -1
  <2>1. k * q <= -q BY <1>2
  <2>. QED BY <2>1
<1>. QED BY <1>1, <1>2

LEMMA MultipleMod ==
  ASSUME NEW k \in Int, NEW q \in Nat \ {0}
  PROVE  (k * q) % q = 0
<1>1. PICK n \in Int : n = k * q OBVIOUS
<1>2. n = (n \div q) * q + (n % q) /\ n % q \in 0..(q - 1) OBVIOUS
<1>3. PICK d \in Int : d = n \div q OBVIOUS
<1>4. PICK r \in Int : r = n % q BY <1>2
<1>5. (k - d) * q = k * q - d * q OBVIOUS
<1>6. (k - d) * q = r BY <1>1, <1>2, <1>3, <1>4, <1>5
<1>7. k - d = 0 BY <1>6, <1>2, <1>4, SmallMultiple
<1>8. r = 0 BY <1>7, <1>6
<1>. QED BY <1>8, <1>4, <1>1

LEMMA IsMultiple ==
  ASSUME NEW n \in Int, NEW q \in Nat \ {0}, n % q = 0
  PROVE  n = (n \div q) * q /\ n \div q \in Int
OBVIOUS

LEMMA DifferenceMod ==
  ASSUME NEW m \in Int, NEW n \in Int, NEW q \in Nat \ {0}, n % q = 0, m % q = 0
  PROVE  (m - n) % q = 0
<1>1. PICK a \in Int, b \in Int : n = a * q /\ m = b * q BY IsMultiple
<1>2. m - n = (b - a) * q BY <1>1
<1>. QED BY <1>2, MultipleMod

LEMMA ProductMod ==
  ASSUME NEW m \in Int, NEW n \in Int, NEW q \in Nat \ {0}, n % q = 0
  PROVE  (n * m) % q = 0
<1>1. PICK a \in Int : n = a * q BY IsMultiple
<1>2. n * m = (a * m) * q /\ a * m \in Int BY <1>1
<1>. QED BY <1>2, MultipleMod

LEMMA MaxOfTwo ==
  ASSUME NEW a \in Nat, NEW b \in Nat
  PROVE  /\ Max({a, b}) \in {a, b} /\ Max({a, b}) \in Nat
         /\ Max({a, b}) >= a /\ Max({a, b}) >= b
BY DEF Max

LEMMA AlignUpOK ==
  ASSUME NEW n \in Nat
  PROVE  AlignUp(n) \in Nat /\ AlignUp(n) >= n /\ AlignUp(n) % PageSize = 0
<1>1. PageSize \in Nat \ {0} BY PoolAssumption
<1>2. PICK m \in Nat : m = n + PageSize - 1 BY <1>1
<1>3. PICK d \in Nat : d = m \div PageSize BY <1>1
<1>4. m = d * PageSize + (m % PageSize) /\ m % PageSize < PageSize /\ m % PageSize \in Nat
  BY <1>1, <1>3
<1>5. d * PageSize >= n /\ d * PageSize \in Nat BY <1>1, <1>2, <1>4
<1>6. AlignUp(n) = d * PageSize BY <1>2, <1>3 DEF AlignUp
<1>. QED BY <1>5, <1>6, <1>1, MultipleMod

LEMMA AlignDownOK ==
  ASSUME NEW n \in Nat
  PROVE  /\ AlignDown(n) \in Nat /\ AlignDown(n) <= n /\ AlignDown(n) % PageSize = 0
         /\ \A m \in Nat : m % PageSize = 0 /\ m <= n => m <= AlignDown(n)
<1>1. PageSize \in Nat \ {0} BY PoolAssumption
<1>2. PICK d \in Nat : d = n \div PageSize BY <1>1
<1>3. n = d * PageSize + (n % PageSize) /\ n % PageSize < PageSize /\ n % PageSize \in Nat
  BY <1>1, <1>2
<1>4. d * PageSize \in Nat /\ d * PageSize <= n BY <1>1, <1>3
<1>5. AlignDown(n) = d * PageSize BY <1>2 DEF AlignDown
<1>6. ASSUME NEW m \in Nat, m % PageSize = 0, m <= n PROVE m <= d * PageSize
  <2>1. PICK a \in Int : m = a * PageSize BY <1>6, <1>1, IsMultiple
  <2>2. CASE a > d
    <3>1. (a - d) * PageSize >= PageSize BY <2>2, <1>1
    <3>2. (a - d) * PageSize = a * PageSize - d * PageSize BY <1>1
    <3>. QED BY <3>1, <3>2, <2>1, <1>3, <1>6, <1>1
  <2>3. CASE a <= d
    <3>1. (d - a) * PageSize >= 0 BY <2>3, <1>1
    <3>2. (d - a) * PageSize = d * PageSize - a * PageSize BY <1>1
    <3>. QED BY <3>1, <3>2, <2>1, <1>1
  <2>. QED BY <2>2, <2>3
<1>. QED BY <1>4, <1>5, <1>6, <1>1, MultipleMod

LEMMA WordOK ==
  ASSUME NEW n \in Int
  PROVE  Word(n) \in Nat /\ Word(n) < WordSize /\ (n \in 0..(WordSize - 1) => Word(n) = n)
<1>1. WordSize \in Nat /\ WordSize > 0 BY PoolAssumption
<1>. QED BY <1>1 DEF Word

(* The centre that keeps the ratio: the back gets its share of the size.   *)
LEMMA ShareOK ==
  ASSUME NEW size \in Nat, NEW f \in Nat, NEW b \in Nat \ {0}
  PROVE  LET share == (size * b) \div (f + b)
         IN share \in Nat /\ share <= size /\ (f + b <= size => b <= share)
<1>1. PICK d \in Nat : d = f + b OBVIOUS
<1>2. d > 0 /\ b <= d BY <1>1
<1>3. (size * b) \div d \in Nat BY <1>2
<1>4. (size * b) \div d <= size BY <1>2
<1>5. d <= size => b <= (size * b) \div d BY <1>2
<1>. QED BY <1>1, <1>3, <1>4, <1>5


(***************************************************************************)
(* The new centre                                                          *)
(***************************************************************************)
LEMMA NewCenterType ==
  ASSUME end \in [Sides -> Nat], NEW size \in Nat, NEW used \in [Sides -> Nat]
  PROVE  NewCenter(size, used) \in Nat
<1>1. used["back"] \in Nat /\ used["front"] \in Nat /\ end["back"] \in Nat /\ end["front"] \in Nat
  BY DEF Sides
<1>2. CASE used["back"] = 0
  BY <1>2 DEF NewCenter
<1>3. CASE used["back"] # 0
  <2>1. PICK share \in Nat : share = (size * used["back"]) \div (used["front"] + used["back"])
    BY <1>1, <1>3, ShareOK
  <2>2. PICK keep \in Nat : keep = Max({AlignDown(share), end["back"]})
    BY <1>1, AlignDownOK, MaxOfTwo
  <2>3. NewCenter(size, used)
          = IF Word(size - keep) < end["front"] THEN Word(size - end["front"]) ELSE keep
    BY <2>1, <2>2, <1>3 DEF NewCenter
  <2>4. Word(size - end["front"]) \in Nat BY <1>1, WordOK
  <2>. QED BY <2>2, <2>3, <2>4
<1>. QED BY <1>2, <1>3

(* The assertions on the centre, from what holds of an old bo whose sides  *)
(* reach to their ends and a new size that holds what is used.             *)
LEMMA NewCenterOK ==
  ASSUME end \in [Sides -> Nat], boSize \in Nat, center \in Nat,
         NEW size \in Nat, NEW used \in [Sides -> Nat],
         size > boSize, size < WordSize, size % PageSize = 0,
         center <= boSize, end["back"] <= center, end["front"] <= boSize - center,
         \A s \in Sides : end[s] % PageSize = 0 /\ used[s] % PageSize = 0,
         used["back"] = 0 => end["back"] = 0,
         used["front"] + used["back"] <= size,
         used["back"] + (boSize - center) <= size
  PROVE  LET c == NewCenter(size, used)
         IN /\ c \in Nat /\ c % PageSize = 0 /\ c <= size
            /\ used["back"] <= c /\ end["back"] <= c
            /\ end["front"] <= size - c
<1>1. used["back"] \in Nat /\ used["front"] \in Nat /\ end["back"] \in Nat /\ end["front"] \in Nat
  BY DEF Sides
<1>2. PageSize \in Nat \ {0} BY PoolAssumption
<1>3. end["back"] % PageSize = 0 /\ end["front"] % PageSize = 0
      /\ used["back"] % PageSize = 0 BY DEF Sides
<1>4. CASE used["back"] = 0
  <2>1. NewCenter(size, used) = 0 BY <1>4 DEF NewCenter
  <2>2. 0 % PageSize = 0 BY <1>2
  <2>. QED BY <1>1, <1>4, <2>1, <2>2
<1>5. CASE used["back"] # 0
  <2>1. PICK share \in Nat : share = (size * used["back"]) \div (used["front"] + used["back"])
    BY <1>1, <1>5, ShareOK
  <2>2. share <= size /\ used["back"] <= share BY <2>1, <1>1, <1>5, ShareOK
  <2>3. PICK ratio \in Nat : ratio = AlignDown(share) BY AlignDownOK
  <2>4. ratio <= size /\ ratio % PageSize = 0 /\ used["back"] <= ratio
    BY <2>2, <2>3, <1>1, <1>3, AlignDownOK
  <2>5. PICK keep \in Nat : keep = Max({ratio, end["back"]}) BY <1>1, MaxOfTwo
  <2>6. keep \in {ratio, end["back"]} /\ keep >= ratio /\ keep >= end["back"]
    BY <1>1, <2>5, MaxOfTwo
  <2>7. keep % PageSize = 0 /\ keep <= size BY <1>1, <1>3, <2>4, <2>6
  <2>8. Word(size - keep) = size - keep BY <2>7, WordOK, PoolAssumption
  <2>9. size - end["front"] \in 0..(WordSize - 1) BY <1>1, PoolAssumption
  <2>10. Word(size - end["front"]) = size - end["front"] BY <2>9, <1>1, WordOK
  <2>11. (size - end["front"]) % PageSize = 0
    <3>1. size \in Int /\ end["front"] \in Int BY <1>1
    <3>. QED BY <3>1, <1>2, <1>3, DifferenceMod, Zenon
  <2>12. NewCenter(size, used)
          = IF size - keep < end["front"] THEN size - end["front"] ELSE keep
    BY <2>1, <2>3, <2>5, <2>8, <2>10, <1>5 DEF NewCenter
  <2>13. CASE size - keep < end["front"]
    <3>1. NewCenter(size, used) = size - end["front"] BY <2>12, <2>13
    <3>2. used["back"] <= size - end["front"] /\ end["back"] <= size - end["front"] BY <1>1
    <3>. QED BY <3>1, <3>2, <2>9, <2>11, <1>1
  <2>14. CASE ~(size - keep < end["front"])
    <3>1. NewCenter(size, used) = keep BY <2>12, <2>14
    <3>. QED BY <3>1, <2>14, <2>4, <2>6, <2>7, <1>1
  <2>. QED BY <2>13, <2>14
<1>. QED BY <1>4, <1>5

(* What grow requires, in the order the loop over size uses it.            *)
LEMMA RequiredOK ==
  ASSUME boSize \in Nat, center \in Nat, boSize < WordSize, center <= boSize,
         NEW used \in [Sides -> Nat],
         2 * (used["front"] + used["back"]) + boSize < WordSize
  PROVE  LET total == Word(Required(used)["front"] + Required(used)["back"])
         IN /\ total \in Nat /\ used["front"] + used["back"] <= total
            /\ used["back"] + (boSize - center) <= total
<1>1. used["back"] \in Nat /\ used["front"] \in Nat BY DEF Sides
<1>2. Word(boSize - center) = boSize - center /\ boSize - center \in Nat BY WordOK, PoolAssumption
<1>3. PICK f \in Nat : f = Max({used["front"], boSize - center}) BY <1>1, <1>2, MaxOfTwo
<1>4. f \in {used["front"], boSize - center} /\ f >= used["front"] /\ f >= boSize - center
  BY <1>1, <1>2, <1>3, MaxOfTwo
<1>5. PICK b \in Nat : b = Max({used["back"], center}) BY <1>1, MaxOfTwo
<1>6. b \in {used["back"], center} /\ b >= used["back"] /\ b >= center
  BY <1>1, <1>5, MaxOfTwo
<1>7. Required(used)["front"] = f BY <1>2, <1>3 DEF Required, Sides
<1>8. Required(used)["back"] = b BY <1>5 DEF Required, Sides
<1>9. f + b \in 0..(WordSize - 1) BY <1>1, <1>4, <1>6, PoolAssumption
<1>10. Word(f + b) = f + b BY <1>9, WordOK
<1>. QED BY <1>1, <1>4, <1>6, <1>7, <1>8, <1>10

LEMMA RequiredType ==
  ASSUME boSize \in Nat, center \in Nat, NEW used \in [Sides -> Nat]
  PROVE  Word(Required(used)["front"] + Required(used)["back"]) \in Nat
<1>1. used["back"] \in Nat /\ used["front"] \in Nat BY DEF Sides
<1>2. Word(boSize - center) \in Nat BY WordOK
<1>3. Max({used["front"], Word(boSize - center)}) \in Nat BY <1>1, <1>2, MaxOfTwo
<1>4. Max({used["back"], center}) \in Nat BY <1>1, MaxOfTwo
<1>5. Required(used)["front"] \in Nat BY <1>3 DEF Required, Sides
<1>6. Required(used)["back"] \in Nat BY <1>4 DEF Required, Sides
<1>. QED BY <1>5, <1>6, WordOK

LEMMA DoubledToOK ==
  ASSUME boSize \in Nat \ {0}, boSize % PageSize = 0, NEW total \in Nat, NEW size \in DoubledTo(total)
  PROVE  /\ size \in Nat /\ size >= total /\ size > boSize /\ size < WordSize
         /\ size % PageSize = 0
<1>1. PICK m \in 2..(2 * (total \div boSize) + 2) :
        size = boSize * m /\ boSize * m >= total /\ boSize * m < WordSize
  BY DEF DoubledTo
<1>2. m \in Nat /\ m >= 2 BY <1>1
<1>3. boSize * m >= 2 * boSize /\ boSize * m \in Nat BY <1>2
<1>4. (boSize * m) % PageSize = 0
  <2>1. boSize \in Int /\ m \in Int /\ PageSize \in Nat \ {0} BY <1>2, PoolAssumption
  <2>. QED BY <2>1, ProductMod, Zenon
<1>. QED BY <1>1, <1>3, <1>4


(***************************************************************************)
(* The blocks of a side                                                    *)
(***************************************************************************)
LEMMA RecordFields ==
  ASSUME TypeOK, NEW t \in Threads
  PROVE  /\ thread[t] \in Record /\ thread[t].pc \in PC /\ thread[t].side \in Sides
         /\ thread[t].size \in Nat /\ thread[t].next \in Nat /\ thread[t].end \in Nat
         /\ thread[t].used \in [Sides -> Nat] /\ thread[t].new_size \in Nat
         /\ thread[t].got \in Nat /\ thread[t].new_end \in Nat
BY DEF TypeOK, Record

LEMMA BlockFields ==
  ASSUME TypeOK, NEW b \in AllBlocks
  PROVE  b \in [side : Sides, offset : Nat, size : Nat]
<1>1. CASE b \in blocks BY <1>1 DEF TypeOK
<1>2. ASSUME NEW t \in Threads, b = Block(thread[t]) PROVE b \in [side : Sides, offset : Nat, size : Nat]
  BY <1>2, RecordFields DEF Block
<1>. QED BY <1>1, <1>2 DEF AllBlocks

(* A step that moves no next or end and gives no block to a call.          *)
LEMMA SameBlocks ==
  ASSUME TypeOK, GrowersOK, BlocksOK, BlocksDisjoint, IsFiniteSet(AllBlocks),
         next' = next, end' = end, allocs' = allocs, AllBlocks' = AllBlocks, Waiting' = Waiting,
         \A u \in Threads : /\ thread'[u].pc \in GrowPC <=> thread[u].pc \in GrowPC
                            /\ thread[u].pc \in GrowPC =>
                                 /\ thread'[u].side = thread[u].side
                                 /\ thread'[u].next = thread[u].next
                                 /\ thread'[u].size = thread[u].size
  PROVE  GrowersOK' /\ BlocksOK' /\ BlocksDisjoint' /\ IsFiniteSet(AllBlocks)'
<1>1. GrowersOK'
  <2>1. \A t, u \in Threads : /\ thread'[t].pc \in GrowPC /\ thread'[u].pc \in GrowPC
                              /\ thread'[t].side = thread'[u].side
                              => t = u
    BY DEF GrowersOK
  <2>2. ASSUME NEW t \in Threads, thread'[t].pc \in GrowPC
        PROVE  LET s == thread'[t].side
               IN thread'[t].next <= end'[s] /\ end'[s] < thread'[t].next + thread'[t].size
                    /\ thread'[t].next + thread'[t].size <= next'[s]
    BY <2>2 DEF GrowersOK
  <2>3. ASSUME NEW s \in Sides, \A t \in Threads : thread'[t].side = s => thread'[t].pc \notin GrowPC
        PROVE  next'[s] <= end'[s]
    <3>1. \A t \in Threads : thread[t].side = s => thread[t].pc \notin GrowPC BY <2>3
    <3>. QED BY <3>1 DEF GrowersOK
  <2>. QED BY <2>1, <2>2, <2>3 DEF GrowersOK
<1>2. BlocksOK'
  <2>1. SUFFICES ASSUME NEW b \in AllBlocks
                 PROVE  /\ b.size > 0 /\ b.offset + b.size <= next'[b.side]
                        /\ \A t \in Threads :
                             thread'[t].pc \in GrowPC /\ thread'[t].side = b.side
                             => b = Block(thread'[t]) \/ b.offset + b.size <= thread'[t].next
    BY DEF BlocksOK
  <2>2. b.size > 0 /\ b.offset + b.size <= next[b.side] BY DEF BlocksOK
  <2>3. ASSUME NEW t \in Threads, thread'[t].pc \in GrowPC, thread'[t].side = b.side
        PROVE  b = Block(thread'[t]) \/ b.offset + b.size <= thread'[t].next
    <3>1. thread[t].pc \in GrowPC /\ thread[t].side = b.side BY <2>3
    <3>2. Block(thread'[t]) = Block(thread[t]) BY <3>1 DEF Block
    <3>. QED BY <3>1, <3>2 DEF BlocksOK
  <2>. QED BY <2>2, <2>3
<1>3. BlocksDisjoint' BY DEF BlocksDisjoint
<1>. QED BY <1>1, <1>2, <1>3

(* A step of one thread inside its call.                                   *)
LEMMA LocalKeepsBlocks ==
  ASSUME TypeOK, GrowersOK, BlocksOK, BlocksDisjoint, IsFiniteSet(AllBlocks),
         NEW t \in Threads, NEW r \in Record, thread' = [thread EXCEPT ![t] = r],
         next' = next, end' = end, allocs' = allocs, blocks' = blocks,
         r.side = thread[t].side, r.next = thread[t].next, r.size = thread[t].size,
         \/ r.pc \in GrowPC /\ thread[t].pc \in GrowPC
         \/ r.pc \in {"again", "wait", "sleep"} /\ thread[t].pc \in {"again", "wait", "sleep"}
  PROVE  GrowersOK' /\ BlocksOK' /\ BlocksDisjoint' /\ IsFiniteSet(AllBlocks)'
<1>1. thread \in [Threads -> Record] BY DEF TypeOK, Record
<1>2. thread'[t] = r /\ \A u \in Threads \ {t} : thread'[u] = thread[u] BY <1>1
<1>3. Waiting' = Waiting
  <2>1. \A u \in Threads : thread'[u].pc \in {"again", "wait", "sleep"}
                             <=> thread[u].pc \in {"again", "wait", "sleep"}
    BY <1>2 DEF GrowPC, MutexPC, UnpublishedPC
  <2>. QED BY <2>1 DEF Waiting
<1>4. \A u \in Threads : Block(thread'[u]) = Block(thread[u]) BY <1>2 DEF Block
<1>5. \A u \in Threads : thread'[u].pc # "idle" <=> thread[u].pc # "idle"
  BY <1>2 DEF GrowPC, MutexPC, UnpublishedPC
<1>6. AllBlocks' = AllBlocks
  <2>1. {u \in Threads \ Waiting' : thread'[u].pc # "idle"} = {u \in Threads \ Waiting : thread[u].pc # "idle"}
    BY <1>3, <1>5
  <2>2. {Block(thread'[u]) : u \in {v \in Threads \ Waiting' : thread'[v].pc # "idle"}}
          = {Block(thread[u]) : u \in {v \in Threads \ Waiting : thread[v].pc # "idle"}}
    BY <2>1, <1>4
  <2>. QED BY <2>2 DEF AllBlocks
<1>7. \A u \in Threads : /\ thread'[u].pc \in GrowPC <=> thread[u].pc \in GrowPC
                         /\ thread'[u].side = thread[u].side
                         /\ thread'[u].next = thread[u].next
                         /\ thread'[u].size = thread[u].size
  BY <1>2 DEF GrowPC, MutexPC, UnpublishedPC
<1>. QED BY <1>3, <1>6, <1>7, SameBlocks


(* The fetch-and-add: the block at next goes to the caller, inside the end *)
(* or as the first one past it; or the caller waits.                       *)
LEMMA FetchAndAddKeepsBlocks ==
  ASSUME TypeOK, GrowersOK, BlocksOK, BlocksDisjoint, IsFiniteSet(AllBlocks),
         NEW t \in Threads, NEW s \in Sides, NEW size \in Nat \ {0},
         FetchAndAdd(t, s, size), end' = end,
         \/ thread[t].pc = "idle" /\ allocs' = allocs + 1
         \/ thread[t].pc = "again" /\ allocs' = allocs
  PROVE  GrowersOK' /\ BlocksOK' /\ BlocksDisjoint' /\ IsFiniteSet(AllBlocks)'
<1> DEFINE w == [Idle EXCEPT !.side = s, !.size = size, !.next = next[s], !.end = end[s]]
<1> DEFINE nb == [side |-> s, offset |-> next[s], size |-> size]
<1>1. thread \in [Threads -> Record] /\ next \in [Sides -> Nat] /\ end \in [Sides -> Nat] /\ allocs \in Nat
  BY DEF TypeOK, Record
<1>2. next' = [next EXCEPT ![s] = @ + size] /\ next[s] \in Nat /\ end[s] \in Nat
  BY <1>1 DEF FetchAndAdd
<1>3. w.pc = "idle" /\ w.side = s /\ w.size = size /\ w.next = next[s] /\ Block(w) = nb
  BY DEF Idle, Block
<1>4. \A x \in Sides : next'[x] \in Nat /\ next[x] \in Nat /\ end[x] \in Nat
                        /\ next[x] <= next'[x] /\ (x # s => next'[x] = next[x])
  BY <1>1, <1>2
<1>5. next'[s] = next[s] + size BY <1>1, <1>2
<1>6. IsFiniteSet(Waiting) /\ Cardinality(Waiting) \in Nat
  <2>1. IsFiniteSet(Waiting) BY FS_Subset, PoolAssumption DEF Waiting
  <2>. QED BY <2>1, FS_CardinalityType
<1>7. thread[t].pc \notin GrowPC BY DEF GrowPC, MutexPC, UnpublishedPC
<1>8. \A b \in AllBlocks : b.side \in Sides /\ b.offset \in Nat /\ b.size \in Nat BY BlockFields
<1>9. \A u \in Threads : thread[u].side \in Sides /\ thread[u].next \in Nat /\ thread[u].size \in Nat
  BY RecordFields
(* The block is given to the call.                                         *)
<1>10. ASSUME next[s] <= end[s], AllBlocks' = AllBlocks \cup {nb},
              Waiting' = Waiting \ {t}, t \in Waiting <=> thread[t].pc = "again",
              \A u \in Threads \ {t} : thread'[u] = thread[u],
              \/ thread'[t].pc = "idle" /\ next[s] + size <= end[s]
              \/ thread'[t] = [w EXCEPT !.pc = "grow"] /\ next[s] + size > end[s]
       PROVE  GrowersOK' /\ BlocksOK' /\ BlocksDisjoint' /\ IsFiniteSet(AllBlocks)'
  <2>1. \A u \in Threads : thread[u].pc \in GrowPC => thread[u].side # s
    BY <1>10, <1>4, <1>9 DEF GrowersOK
  <2>2. thread'[t].pc \in GrowPC => /\ thread'[t].side = s /\ thread'[t].next = next[s]
                                    /\ thread'[t].size = size /\ next[s] + size > end[s]
                                    /\ Block(thread'[t]) = nb
    BY <1>10, <1>3 DEF Idle, Block, GrowPC, MutexPC, UnpublishedPC
  <2>3. GrowersOK'
    <3>1. ASSUME NEW u \in Threads, NEW v \in Threads, thread'[u].pc \in GrowPC,
                 thread'[v].pc \in GrowPC, thread'[u].side = thread'[v].side
          PROVE  u = v
      <4>1. CASE u # t /\ v # t BY <4>1, <3>1, <1>10 DEF GrowersOK
      <4>2. CASE u = t /\ v # t BY <4>2, <3>1, <2>1, <2>2, <1>10
      <4>3. CASE u # t /\ v = t BY <4>3, <3>1, <2>1, <2>2, <1>10
      <4>. QED BY <4>1, <4>2, <4>3
    <3>2. ASSUME NEW u \in Threads, thread'[u].pc \in GrowPC
          PROVE  LET x == thread'[u].side
                 IN thread'[u].next <= end'[x] /\ end'[x] < thread'[u].next + thread'[u].size
                      /\ thread'[u].next + thread'[u].size <= next'[x]
      <4>1. CASE u = t BY <4>1, <3>2, <2>2, <1>10, <1>4, <1>5
      <4>2. CASE u # t
        <5>1. thread'[u] = thread[u] /\ thread[u].pc \in GrowPC BY <4>2, <3>2, <1>10
        <5>. QED BY <5>1, <1>4, <1>9 DEF GrowersOK
      <4>. QED BY <4>1, <4>2
    <3>3. ASSUME NEW x \in Sides, \A u \in Threads : thread'[u].side = x => thread'[u].pc \notin GrowPC
          PROVE  next'[x] <= end'[x]
      <4>1. CASE x = s
        <5>1. CASE thread'[t].pc = "idle" BY <5>1, <4>1, <1>10, <1>5 DEF Idle
        <5>2. CASE thread'[t] = [w EXCEPT !.pc = "grow"]
          BY <5>2, <4>1, <3>3, <1>3 DEF Idle, GrowPC
        <5>. QED BY <5>1, <5>2, <1>10
      <4>2. CASE x # s
        <5>1. \A u \in Threads : thread[u].side = x => thread[u].pc \notin GrowPC
          BY <3>3, <1>10, <1>7
        <5>. QED BY <5>1, <4>2, <1>4 DEF GrowersOK
      <4>. QED BY <4>1, <4>2
    <3>. QED BY <3>1, <3>2, <3>3 DEF GrowersOK
  <2>4. \A b \in AllBlocks : b.size > 0 /\ b.offset + b.size <= next[b.side] BY DEF BlocksOK
  <2>5. BlocksOK'
    <3>1. SUFFICES ASSUME NEW b \in AllBlocks \cup {nb}
                   PROVE  /\ b.size > 0 /\ b.offset + b.size <= next'[b.side]
                          /\ \A u \in Threads :
                               thread'[u].pc \in GrowPC /\ thread'[u].side = b.side
                               => b = Block(thread'[u]) \/ b.offset + b.size <= thread'[u].next
      BY <1>10 DEF BlocksOK
    <3>2. CASE b \in AllBlocks
      <4>1. b.size > 0 /\ b.offset + b.size <= next'[b.side] BY <3>2, <2>4, <1>4, <1>8
      <4>2. ASSUME NEW u \in Threads, thread'[u].pc \in GrowPC, thread'[u].side = b.side
            PROVE  b = Block(thread'[u]) \/ b.offset + b.size <= thread'[u].next
        <5>1. CASE u = t BY <5>1, <4>2, <2>2, <2>4, <3>2
        <5>2. CASE u # t
          <6>1. thread'[u] = thread[u] BY <5>2, <1>10
          <6>. QED BY <6>1, <4>2, <3>2 DEF BlocksOK
        <5>. QED BY <5>1, <5>2
      <4>. QED BY <4>1, <4>2
    <3>3. CASE b = nb
      <4>1. b.size > 0 /\ b.offset + b.size <= next'[b.side] BY <3>3, <1>5, <1>2
      <4>2. ASSUME NEW u \in Threads, thread'[u].pc \in GrowPC, thread'[u].side = b.side
            PROVE  b = Block(thread'[u])
        <5>1. u = t BY <4>2, <3>3, <2>1, <1>10
        <5>. QED BY <5>1, <4>2, <2>2, <3>3
      <4>. QED BY <4>1, <4>2
    <3>. QED BY <3>1, <3>2, <3>3
  <2>6. nb \notin AllBlocks BY <2>4, <1>2
  <2>7. IsFiniteSet(AllBlocks') /\ Cardinality(AllBlocks') = Cardinality(AllBlocks) + 1
    BY <2>6, <1>10, FS_AddElement
  <2>8. Cardinality(AllBlocks') = allocs' - Cardinality(Waiting')
    <3>1. Cardinality(AllBlocks) = allocs - Cardinality(Waiting) BY DEF BlocksDisjoint
    <3>2. CASE thread[t].pc = "idle"
      <4>1. Waiting' = Waiting BY <3>2, <1>10
      <4>2. allocs' = allocs + 1 BY <3>2
      <4>. QED BY <4>1, <4>2, <3>1, <2>7, <1>1, <1>6
    <3>3. CASE thread[t].pc = "again"
      <4>1. Cardinality(Waiting') = Cardinality(Waiting) - 1 BY <3>3, <1>10, <1>6, FS_RemoveElement
      <4>2. allocs' = allocs BY <3>3
      <4>. QED BY <4>1, <4>2, <3>1, <2>7, <1>1, <1>6
    <3>. QED BY <3>2, <3>3
  <2>9. ASSUME NEW b \in AllBlocks \cup {nb}, NEW c \in AllBlocks \cup {nb}, b # c, b.side = c.side
        PROVE  b.offset + b.size <= c.offset \/ c.offset + c.size <= b.offset
    <3>1. CASE b \in AllBlocks /\ c \in AllBlocks BY <3>1, <2>9 DEF BlocksDisjoint
    <3>2. CASE b = nb /\ c \in AllBlocks BY <3>2, <2>9, <2>4
    <3>3. CASE c = nb /\ b \in AllBlocks BY <3>3, <2>9, <2>4
    <3>. QED BY <3>1, <3>2, <3>3, <2>9
  <2>10. BlocksDisjoint' BY <2>8, <2>9, <1>10 DEF BlocksDisjoint
  <2>. QED BY <2>3, <2>5, <2>7, <2>10
<1>11. CASE next[s] + size <= end[s] /\ Return(t, w)
  <2>1. blocks' = blocks \cup {nb} /\ thread' = [thread EXCEPT ![t] = Idle]
    BY <1>11, <1>3 DEF Return
  <2>2. thread'[t] = Idle /\ \A u \in Threads \ {t} : thread'[u] = thread[u] BY <2>1, <1>1
  <2>3. Idle.pc = "idle" BY DEF Idle
  <2>4. Waiting' = Waiting \ {t} /\ (t \in Waiting <=> thread[t].pc = "again")
    BY <2>2, <2>3 DEF Waiting
  <2>5. {u \in Threads \ Waiting' : thread'[u].pc # "idle"} = {u \in Threads \ Waiting : thread[u].pc # "idle"}
    BY <2>2, <2>3 DEF Waiting
  <2>6. {Block(thread'[u]) : u \in {v \in Threads \ Waiting' : thread'[v].pc # "idle"}}
          = {Block(thread[u]) : u \in {v \in Threads \ Waiting : thread[v].pc # "idle"}}
    <3>1. t \notin {u \in Threads \ Waiting : thread[u].pc # "idle"} BY <2>4
    <3>2. \A u \in {v \in Threads \ Waiting : thread[v].pc # "idle"} : thread'[u] = thread[u]
      BY <3>1, <2>2
    <3>. QED BY <3>2, <2>5
  <2>7. AllBlocks' = AllBlocks \cup {nb} BY <2>1, <2>6 DEF AllBlocks
  <2>8. next[s] <= end[s] BY <1>11, <1>2
  <2>. QED BY <2>2, <2>3, <2>4, <2>7, <2>8, <1>11, <1>10
<1>12. CASE /\ next[s] + size > end[s] /\ next[s] <= end[s]
            /\ thread' = [thread EXCEPT ![t] = [w EXCEPT !.pc = "grow"]]
            /\ blocks' = blocks
  <2>1. PICK r : r = [w EXCEPT !.pc = "grow"] OBVIOUS
  <2>2. r.pc = "grow" /\ Block(r) = nb BY <2>1 DEF Idle, Block
  <2>3. thread'[t] = r /\ \A u \in Threads \ {t} : thread'[u] = thread[u] BY <2>1, <1>12, <1>1
  <2>4. Waiting' = Waiting \ {t} /\ (t \in Waiting <=> thread[t].pc = "again")
    BY <2>2, <2>3 DEF Waiting
  <2>5. {u \in Threads \ Waiting' : thread'[u].pc # "idle"}
          = {u \in Threads \ Waiting : thread[u].pc # "idle"} \cup {t}
    BY <2>2, <2>3 DEF Waiting
  <2>6. {Block(thread'[u]) : u \in {v \in Threads \ Waiting' : thread'[v].pc # "idle"}}
          = {Block(thread[u]) : u \in {v \in Threads \ Waiting : thread[v].pc # "idle"}} \cup {nb}
    <3>1. t \notin {u \in Threads \ Waiting : thread[u].pc # "idle"} BY <2>4
    <3>2. \A u \in {v \in Threads \ Waiting : thread[v].pc # "idle"} : thread'[u] = thread[u]
      BY <3>1, <2>3
    <3>3. Block(thread'[t]) = nb BY <2>2, <2>3
    <3>. QED BY <3>2, <3>3, <2>5
  <2>7. AllBlocks' = AllBlocks \cup {nb} BY <2>6, <1>12 DEF AllBlocks
  <2>. QED BY <2>1, <2>3, <2>4, <2>7, <1>12, <1>10
<1>13. CASE /\ next[s] > end[s]
            /\ thread' = [thread EXCEPT ![t] = [w EXCEPT !.pc = "wait"]]
            /\ blocks' = blocks
  <2>1. PICK r : r = [w EXCEPT !.pc = "wait"] OBVIOUS
  <2>2. r.pc = "wait" BY <2>1 DEF Idle
  <2>3. thread'[t] = r /\ \A u \in Threads \ {t} : thread'[u] = thread[u] BY <2>1, <1>13, <1>1
  <2>4. Waiting' = Waiting \cup {t} /\ (t \in Waiting <=> thread[t].pc = "again")
    BY <2>2, <2>3 DEF Waiting
  <2>5. {u \in Threads \ Waiting' : thread'[u].pc # "idle"} = {u \in Threads \ Waiting : thread[u].pc # "idle"}
    BY <2>2, <2>3 DEF Waiting
  <2>6. {Block(thread'[u]) : u \in {v \in Threads \ Waiting' : thread'[v].pc # "idle"}}
          = {Block(thread[u]) : u \in {v \in Threads \ Waiting : thread[v].pc # "idle"}}
    <3>1. t \notin {u \in Threads \ Waiting : thread[u].pc # "idle"} BY <2>4
    <3>2. \A u \in {v \in Threads \ Waiting : thread[v].pc # "idle"} : thread'[u] = thread[u]
      BY <3>1, <2>3
    <3>. QED BY <3>2, <2>5
  <2>7. AllBlocks' = AllBlocks BY <2>6, <1>13 DEF AllBlocks
  <2>8. thread'[t].pc \notin GrowPC BY <2>2, <2>3 DEF GrowPC, MutexPC, UnpublishedPC
  <2>9. \A u \in Threads : /\ thread'[u].pc \in GrowPC <=> thread[u].pc \in GrowPC
                           /\ thread[u].pc \in GrowPC => thread'[u] = thread[u]
    BY <2>3, <2>8, <1>7
  <2>10. GrowersOK'
    <3>1. \A u, v \in Threads : /\ thread'[u].pc \in GrowPC /\ thread'[v].pc \in GrowPC
                                /\ thread'[u].side = thread'[v].side
                                => u = v
      BY <2>9 DEF GrowersOK
    <3>2. ASSUME NEW u \in Threads, thread'[u].pc \in GrowPC
          PROVE  LET x == thread'[u].side
                 IN thread'[u].next <= end'[x] /\ end'[x] < thread'[u].next + thread'[u].size
                      /\ thread'[u].next + thread'[u].size <= next'[x]
      <4>1. thread'[u] = thread[u] /\ thread[u].pc \in GrowPC BY <3>2, <2>9
      <4>. QED BY <4>1, <1>4, <1>9 DEF GrowersOK
    <3>3. ASSUME NEW x \in Sides, \A u \in Threads : thread'[u].side = x => thread'[u].pc \notin GrowPC
          PROVE  next'[x] <= end'[x]
      <4>1. \A u \in Threads : thread[u].side = x => thread[u].pc \notin GrowPC BY <3>3, <2>9
      <4>2. next[x] <= end[x] BY <4>1 DEF GrowersOK
      <4>3. x # s BY <4>2, <1>13, <1>4
      <4>. QED BY <4>2, <4>3, <1>4
    <3>. QED BY <3>1, <3>2, <3>3 DEF GrowersOK
  <2>11. BlocksOK'
    <3>1. SUFFICES ASSUME NEW b \in AllBlocks
                   PROVE  /\ b.size > 0 /\ b.offset + b.size <= next'[b.side]
                          /\ \A u \in Threads :
                               thread'[u].pc \in GrowPC /\ thread'[u].side = b.side
                               => b = Block(thread'[u]) \/ b.offset + b.size <= thread'[u].next
      BY <2>7 DEF BlocksOK
    <3>2. b.size > 0 /\ b.offset + b.size <= next'[b.side] BY <1>4, <1>8 DEF BlocksOK
    <3>. QED BY <3>2, <2>9 DEF BlocksOK
  <2>12. Cardinality(Waiting') = allocs' - Cardinality(AllBlocks)
    <3>1. Cardinality(AllBlocks) = allocs - Cardinality(Waiting) BY DEF BlocksDisjoint
    <3>2. CASE thread[t].pc = "idle"
      <4>1. Cardinality(Waiting') = Cardinality(Waiting) + 1 BY <3>2, <2>4, <1>6, FS_AddElement
      <4>2. allocs' = allocs + 1 BY <3>2
      <4>. QED BY <4>1, <4>2, <3>1, <1>1, <1>6
    <3>3. CASE thread[t].pc = "again"
      <4>1. Waiting' = Waiting BY <3>3, <2>4
      <4>2. allocs' = allocs BY <3>3
      <4>. QED BY <4>1, <4>2, <3>1, <1>1, <1>6
    <3>. QED BY <3>2, <3>3
  <2>13. BlocksDisjoint'
    <3>1. Cardinality(AllBlocks) \in Nat BY FS_CardinalityType
    <3>2. allocs' \in Nat BY <1>1
    <3>3. Cardinality(AllBlocks') = allocs' - Cardinality(Waiting') BY <2>12, <2>7, <3>1, <3>2
    <3>. QED BY <3>3, <2>7 DEF BlocksDisjoint
  <2>. QED BY <2>7, <2>10, <2>11, <2>13
<1>. QED BY <1>11, <1>12, <1>13 DEF FetchAndAdd


(* The grower publishes: its block becomes the last of its side.           *)
LEMMA TestAndSetKeepsBlocks ==
  ASSUME TypeOK, CallsOK, GrowersOK, BlocksOK, BlocksDisjoint, IsFiniteSet(AllBlocks),
         NEW t \in Threads, TestAndSet(t)
  PROVE  GrowersOK' /\ BlocksOK' /\ BlocksDisjoint' /\ IsFiniteSet(AllBlocks)'
<1>1. thread \in [Threads -> Record] /\ next \in [Sides -> Nat] /\ end \in [Sides -> Nat]
  BY DEF TypeOK, Record
<1>2. PICK w \in Record : w = thread[t] BY <1>1
<1>3. w.side \in Sides /\ w.next \in Nat /\ w.size \in Nat /\ w.new_end \in Nat BY DEF Record
<1>4. /\ w.pc = "got" /\ w.new_end >= w.next + w.size
      /\ next' = [next EXCEPT ![w.side] = w.next + w.size]
      /\ end' = [end EXCEPT ![w.side] = w.new_end]
      /\ blocks' = blocks /\ allocs' = allocs
      /\ thread' = [thread EXCEPT ![t].pc = "wake"]
  BY <1>2 DEF TestAndSet, Goto
<1>5. PICK r : r = [w EXCEPT !.pc = "wake"] OBVIOUS
<1>6. r.pc = "wake" /\ r.side = w.side /\ r.size = w.size /\ r.next = w.next BY <1>5 DEF Record
<1>7. thread'[t] = r /\ \A u \in Threads \ {t} : thread'[u] = thread[u]
  BY <1>1, <1>2, <1>4, <1>5
<1>8. w.pc \in GrowPC /\ r.pc \notin GrowPC BY <1>4, <1>6 DEF GrowPC, MutexPC, UnpublishedPC
<1>9. \A u \in Threads \ {t} : thread[u].pc \in GrowPC => thread[u].side # w.side
  BY <1>2, <1>8 DEF GrowersOK
<1>10. /\ next'[w.side] = w.next + w.size /\ end'[w.side] = w.new_end
       /\ \A s \in Sides : s # w.side => next'[s] = next[s] /\ end'[s] = end[s]
  BY <1>1, <1>3, <1>4
<1>11. Waiting' = Waiting
  <2>1. \A u \in Threads : thread'[u].pc \in {"again", "wait", "sleep"}
                             <=> thread[u].pc \in {"again", "wait", "sleep"}
    BY <1>2, <1>4, <1>6, <1>7
  <2>. QED BY <2>1 DEF Waiting
<1>12. AllBlocks' = AllBlocks
  <2>1. \A u \in Threads : Block(thread'[u]) = Block(thread[u]) BY <1>2, <1>6, <1>7 DEF Block
  <2>2. \A u \in Threads : thread'[u].pc # "idle" <=> thread[u].pc # "idle"
    BY <1>2, <1>4, <1>6, <1>7
  <2>3. {u \in Threads \ Waiting' : thread'[u].pc # "idle"} = {u \in Threads \ Waiting : thread[u].pc # "idle"}
    BY <2>2, <1>11
  <2>4. {Block(thread'[u]) : u \in {v \in Threads \ Waiting' : thread'[v].pc # "idle"}}
          = {Block(thread[u]) : u \in {v \in Threads \ Waiting : thread[v].pc # "idle"}}
    BY <2>1, <2>3
  <2>. QED BY <2>4, <1>4 DEF AllBlocks
<1>13. \A u \in Threads : thread'[u].pc \in GrowPC =>
         thread'[u] = thread[u] /\ thread[u].side # w.side /\ u # t
  BY <1>7, <1>8, <1>9
<1>14. GrowersOK'
  <2>1. \A u, v \in Threads : /\ thread'[u].pc \in GrowPC /\ thread'[v].pc \in GrowPC
                              /\ thread'[u].side = thread'[v].side
                              => u = v
    BY <1>13 DEF GrowersOK
  <2>2. ASSUME NEW u \in Threads, thread'[u].pc \in GrowPC
        PROVE  LET x == thread'[u].side
               IN thread'[u].next <= end'[x] /\ end'[x] < thread'[u].next + thread'[u].size
                    /\ thread'[u].next + thread'[u].size <= next'[x]
    <3>1. thread'[u] = thread[u] /\ thread[u].pc \in GrowPC /\ thread[u].side # w.side
          /\ thread[u].side \in Sides
      BY <2>2, <1>13, RecordFields
    <3>. QED BY <3>1, <1>10 DEF GrowersOK
  <2>3. ASSUME NEW x \in Sides, \A u \in Threads : thread'[u].side = x => thread'[u].pc \notin GrowPC
        PROVE  next'[x] <= end'[x]
    <3>1. CASE x = w.side BY <3>1, <1>3, <1>4, <1>10
    <3>2. CASE x # w.side
      <4>1. \A u \in Threads : thread[u].side = x => thread[u].pc \notin GrowPC
        BY <2>3, <3>2, <1>2, <1>7
      <4>. QED BY <4>1, <3>2, <1>10 DEF GrowersOK
    <3>. QED BY <3>1, <3>2
  <2>. QED BY <2>1, <2>2, <2>3 DEF GrowersOK
<1>15. BlocksOK'
  <2>1. SUFFICES ASSUME NEW b \in AllBlocks
                 PROVE  /\ b.size > 0 /\ b.offset + b.size <= next'[b.side]
                        /\ \A u \in Threads :
                             thread'[u].pc \in GrowPC /\ thread'[u].side = b.side
                             => b = Block(thread'[u]) \/ b.offset + b.size <= thread'[u].next
    BY <1>12 DEF BlocksOK
  <2>2. b.side \in Sides /\ b.offset \in Nat /\ b.size \in Nat BY BlockFields
  <2>3. b.size > 0 BY DEF BlocksOK
  <2>4. CASE b.side = w.side
    <3>1. b = Block(thread[t]) \/ b.offset + b.size <= w.next BY <2>4, <1>2, <1>8 DEF BlocksOK
    <3>2. b.offset + b.size <= w.next + w.size BY <3>1, <1>2, <1>3, <2>2 DEF Block
    <3>. QED BY <3>2, <2>3, <2>4, <1>10, <1>13
  <2>5. CASE b.side # w.side
    <3>1. b.offset + b.size <= next'[b.side] BY <2>2, <2>5, <1>10 DEF BlocksOK
    <3>. QED BY <3>1, <2>3, <1>13 DEF BlocksOK
  <2>. QED BY <2>4, <2>5
<1>16. BlocksDisjoint' BY <1>4, <1>11, <1>12 DEF BlocksDisjoint
<1>. QED BY <1>12, <1>14, <1>15, <1>16

LEMMA FutexWakeKeepsBlocks ==
  ASSUME TypeOK, GrowersOK, BlocksOK, BlocksDisjoint, IsFiniteSet(AllBlocks),
         NEW t \in Threads, FutexWake(t)
  PROVE  GrowersOK' /\ BlocksOK' /\ BlocksDisjoint' /\ IsFiniteSet(AllBlocks)'
<1>1. thread \in [Threads -> Record] BY DEF TypeOK, Record
<1>2. /\ thread[t].pc = "wake"
      /\ blocks' = blocks \cup {Block(thread[t])}
      /\ next' = next /\ end' = end /\ allocs' = allocs
  BY DEF FutexWake
<1>3. thread'[t].pc = "idle"
  BY DEF FutexWake, Idle
<1>4. \A u \in Threads \ {t} :
        \/ thread[u].pc = "sleep" /\ thread'[u] = [thread[u] EXCEPT !.pc = "again"]
        \/ thread'[u] = thread[u]
  BY DEF FutexWake, Sleepers
<1>5. \A u \in Threads \ {t} :
        \/ thread[u].pc = "sleep" /\ thread'[u].pc = "again"
        \/ thread'[u] = thread[u]
  BY <1>1, <1>4 DEF Record
<1>6. Waiting' = Waiting
  <2>1. \A u \in Threads : thread'[u].pc \in {"again", "wait", "sleep"}
                             <=> thread[u].pc \in {"again", "wait", "sleep"}
    BY <1>2, <1>3, <1>5
  <2>. QED BY <2>1 DEF Waiting
<1>7. {u \in Threads \ Waiting : thread[u].pc # "idle"}
        = {u \in Threads \ Waiting' : thread'[u].pc # "idle"} \cup {t}
  BY <1>2, <1>3, <1>5, <1>6 DEF Waiting
<1>8. \A u \in {v \in Threads \ Waiting' : thread'[v].pc # "idle"} : thread'[u] = thread[u]
  BY <1>3, <1>5, <1>6 DEF Waiting
<1>9. {Block(thread[u]) : u \in {v \in Threads \ Waiting : thread[v].pc # "idle"}}
        = {Block(thread'[u]) : u \in {v \in Threads \ Waiting' : thread'[v].pc # "idle"}}
            \cup {Block(thread[t])}
  BY <1>7, <1>8
<1>10. AllBlocks' = AllBlocks BY <1>2, <1>9 DEF AllBlocks
<1>11. \A u \in Threads : /\ thread'[u].pc \in GrowPC <=> thread[u].pc \in GrowPC
                          /\ thread[u].pc \in GrowPC => thread'[u] = thread[u]
  BY <1>2, <1>3, <1>5 DEF GrowPC, MutexPC, UnpublishedPC
<1>. QED BY <1>2, <1>6, <1>10, <1>11, SameBlocks


(***************************************************************************)
(* Steps that leave the bo, the ends and the grower's reading alone        *)
(***************************************************************************)
LEMMA QuietKeepsSizes ==
  ASSUME TypeOK, SizePart,
         boSize' = boSize, center' = center, end' = end, raced' = raced,
         \A s \in Sides : next'[s] \in Nat /\ next[s] <= next'[s],
         \A u \in Threads :
           \/ thread'[u] = thread[u]
           \/ /\ thread[u].pc \notin {"expand", "setsize"}
              /\ thread'[u].pc \notin {"expand", "setsize"} \cup UnpublishedPC
  PROVE  SizePart'
<1>1. \A u \in Threads : thread'[u].pc \in {"expand", "setsize"} \cup UnpublishedPC => thread'[u] = thread[u]
  OBVIOUS
<1>2. \A u \in Threads : thread[u].pc \in {"expand", "setsize"} => thread'[u] = thread[u]
  OBVIOUS
<1>3. SizesOK'
  <2>1. \A s \in Sides : next'[s] = 0 => end'[s] = 0
    <3>1. \A s \in Sides : next[s] \in Nat BY DEF TypeOK
    <3>. QED BY <3>1 DEF SizePart, SizesOK
  <2>2. boSize' > 0 /\ boSize' < WordSize /\ boSize' % PageSize = 0 BY DEF SizePart, SizesOK
  <2>3. \A t \in Threads : thread'[t].pc \in {"expand", "setsize"} =>
          /\ thread'[t].new_size > boSize' /\ thread'[t].new_size < WordSize
          /\ thread'[t].new_size % PageSize = 0
    BY <1>1 DEF SizePart, SizesOK
  <2>4. ASSUME NEW t \in Threads, thread'[t].pc = "expand"
        PROVE  /\ \A s \in Sides : thread'[t].used[s] % PageSize = 0
               /\ thread'[t].used["back"] = 0 =>
                    /\ thread'[t].side = "front" /\ end'["back"] = 0
                    /\ \A u \in Threads : thread'[u].side = "back" => thread'[u].pc \notin UnpublishedPC
    <3>1. thread'[t] = thread[t] /\ thread[t].pc = "expand" BY <2>4, <1>1
    <3>2. \A s \in Sides : thread'[t].used[s] % PageSize = 0 BY <3>1 DEF SizePart, SizesOK
    <3>3. ASSUME thread'[t].used["back"] = 0
          PROVE  /\ thread'[t].side = "front" /\ end'["back"] = 0
                 /\ \A u \in Threads : thread[u].side = "back" => thread[u].pc \notin UnpublishedPC
      BY <3>1, <3>3 DEF SizePart, SizesOK
    <3>. QED BY <3>2, <3>3, <1>1
  <2>. QED BY <2>1, <2>2, <2>3, <2>4 DEF SizesOK
<1>4. ASSUME ~raced' PROVE CenterOK' /\ ReadsOK'
  <2>1. CenterOK /\ ReadsOK BY <1>4 DEF SizePart
  <2>2. \A s \in Sides : SideSize(s)' = SideSize(s) BY DEF SideSize
  <2>3. center' % PageSize = 0 /\ \A s \in Sides : end'[s] % PageSize = 0 BY <2>1 DEF CenterOK
  <2>4. ASSUME \A t \in Threads : thread'[t].pc # "setsize"
        PROVE  center' <= boSize' /\ \A s \in Sides : end'[s] <= SideSize(s)'
    <3>1. \A t \in Threads : thread[t].pc # "setsize" BY <2>4, <1>2
    <3>. QED BY <3>1, <2>1, <2>2 DEF CenterOK
  <2>5. ASSUME NEW t \in Threads, thread'[t].pc = "setsize"
        PROVE  /\ center' <= thread'[t].new_size
               /\ end'["back"] <= center' /\ end'["front"] <= thread'[t].new_size - center'
               /\ \A u \in Threads : thread'[u].pc \notin UnpublishedPC
    <3>1. thread'[t] = thread[t] /\ thread[t].pc = "setsize" BY <2>5, <1>1
    <3>2. \A u \in Threads : thread[u].pc \notin UnpublishedPC BY <3>1, <2>1 DEF CenterOK
    <3>. QED BY <3>1, <3>2, <1>1, <2>1 DEF CenterOK
  <2>6. ASSUME NEW t \in Threads, thread'[t].pc = "expand"
        PROVE  /\ thread'[t].used["front"] + thread'[t].used["back"] <= thread'[t].new_size
               /\ thread'[t].used["back"] + (boSize' - center') <= thread'[t].new_size
    <3>1. thread'[t] = thread[t] /\ thread[t].pc = "expand" BY <2>6, <1>1
    <3>. QED BY <3>1, <2>1 DEF CenterOK
  <2>7. CenterOK' BY <2>3, <2>4, <2>5, <2>6 DEF CenterOK
  <2>8. ASSUME NEW t \in Threads PROVE ReadOK(thread[t])'
    <3>1. CASE thread'[t].pc \in UnpublishedPC
      <4>1. thread'[t] = thread[t] BY <3>1, <1>1
      <4>2. ReadOK(thread[t]) BY <2>1 DEF ReadsOK
      <4>. QED BY <4>1, <4>2 DEF ReadOK, SideSize
    <3>2. CASE thread'[t].pc \notin UnpublishedPC BY <3>2 DEF UnpublishedPC, ReadOK
    <3>. QED BY <3>1, <3>2
  <2>9. ReadsOK' BY <2>8 DEF ReadsOK
  <2>. QED BY <2>7, <2>9
<1>. QED BY <1>3, <1>4 DEF SizePart

(* What one thread's record becomes.                                       *)
LEMMA RecordStep ==
  ASSUME TypeOK, NEW t \in Threads, NEW r \in Record, thread' = [thread EXCEPT ![t] = r]
  PROVE  /\ thread' \in [Threads -> Record] /\ thread'[t] = r
         /\ \A u \in Threads \ {t} : thread'[u] = thread[u]
BY DEF TypeOK, Record

LEMMA PcStep ==
  ASSUME TypeOK, NEW t \in Threads, NEW pc \in PC, thread' = [thread EXCEPT ![t].pc = pc]
  PROVE  \E r \in Record :
           /\ thread' = [thread EXCEPT ![t] = r] /\ r.pc = pc
           /\ r.side = thread[t].side /\ r.size = thread[t].size /\ r.next = thread[t].next
           /\ r.used = thread[t].used /\ r.new_size = thread[t].new_size
           /\ r.new_end = thread[t].new_end
<1>1. PICK w \in Record : w = thread[t] BY RecordFields
<1>2. PICK r : r = [w EXCEPT !.pc = pc] OBVIOUS
<1>3. r \in Record BY <1>2 DEF Record
<1>4. /\ r.pc = pc /\ r.side = w.side /\ r.size = w.size /\ r.next = w.next
      /\ r.used = w.used /\ r.new_size = w.new_size /\ r.new_end = w.new_end
  BY <1>2 DEF Record
<1>5. thread' = [thread EXCEPT ![t] = r] BY <1>1, <1>2
<1>. QED BY <1>1, <1>3, <1>4, <1>5

LEMMA OneOwner ==
  ASSUME CallsOK, NEW t \in Threads, thread[t].pc \in MutexPC
  PROVE  mutex = t /\ \A u \in Threads \ {t} : thread[u].pc \notin MutexPC
BY DEF CallsOK

(* The owner leaves the mutex, or keeps it; nobody else has it.            *)
LEMMA OwnerStep ==
  ASSUME TypeOK, CallsOK, NEW t \in Threads, NEW r \in Record, thread[t].pc \in MutexPC,
         thread' = [thread EXCEPT ![t] = r], r.size = thread[t].size, r.pc # "idle",
         \/ r.pc \in MutexPC /\ mutex' = mutex
         \/ r.pc \notin MutexPC /\ mutex' = NoThread
  PROVE  CallsOK' /\ mutex' \in Threads \cup {NoThread}
<1>1. thread'[t] = r /\ \A u \in Threads \ {t} : thread'[u] = thread[u] BY RecordStep
<1>2. mutex = t /\ \A u \in Threads \ {t} : thread[u].pc \notin MutexPC BY OneOwner
<1>3. thread[t].pc # "idle" BY DEF MutexPC
<1>4. ASSUME NEW u \in Threads
      PROVE  /\ thread'[u].pc # "idle" => thread'[u].size > 0
             /\ thread'[u].pc \in MutexPC <=> mutex' = u
  <2>1. thread'[u].pc # "idle" => thread'[u].size > 0 BY <1>1, <1>3 DEF CallsOK
  <2>2. thread'[u].pc \in MutexPC <=> mutex' = u
    <3>1. CASE u = t BY <3>1, <1>1, <1>2, PoolAssumption
    <3>2. CASE u # t BY <3>2, <1>1, <1>2, PoolAssumption
    <3>. QED BY <3>1, <3>2
  <2>. QED BY <2>1, <2>2
<1>. QED BY <1>2, <1>4 DEF CallsOK


(***************************************************************************)
(* The actions                                                             *)
(***************************************************************************)
LEMMA TypeFromRecord ==
  ASSUME thread' \in [Threads -> Record],
         next' \in [Sides -> Nat], end' \in [Sides -> Nat], boSize' \in Nat, center' \in Nat,
         mutex' \in Threads \cup {NoThread},
         \A b \in blocks' : b \in [side : Sides, offset : Nat, size : Nat],
         allocs' \in 0..MaxAllocs, fails' \in 0..MaxFails, raced' \in BOOLEAN
  PROVE  TypeOK'
BY DEF TypeOK, Record

LEMMA FetchAndAddKeeps ==
  ASSUME IInv, NEW t \in Threads, NEW s \in Sides, NEW size \in Nat \ {0},
         FetchAndAdd(t, s, size),
         end' = end, boSize' = boSize, center' = center, mutex' = mutex, fails' = fails, raced' = raced,
         \/ thread[t].pc = "idle" /\ allocs' = allocs + 1 /\ allocs < MaxAllocs
         \/ thread[t].pc = "again" /\ allocs' = allocs
  PROVE  IInv'
<1> DEFINE w == [Idle EXCEPT !.side = s, !.size = size, !.next = next[s], !.end = end[s]]
<1>1. TypeOK /\ CallsOK /\ BlockPart /\ SizePart BY DEF IInv
<1>2. next \in [Sides -> Nat] /\ end \in [Sides -> Nat] BY <1>1 DEF TypeOK
<1>3. next' = [next EXCEPT ![s] = @ + size] BY DEF FetchAndAdd
<1>4. next' \in [Sides -> Nat] /\ \A x \in Sides : next'[x] \in Nat /\ next[x] <= next'[x]
  BY <1>2, <1>3
<1>5. Idle \in Record /\ Idle.pc = "idle" BY DEF Idle, Record, PC, Sides
<1>6. w \in Record /\ Block(w) \in [side : Sides, offset : Nat, size : Nat] /\ w.size = size
  BY <1>2 DEF Idle, Record, PC, Sides, Block
<1>7. \E r \in Record :
        /\ thread' = [thread EXCEPT ![t] = r]
        /\ \/ r.pc = "idle"
           \/ r.pc \in {"grow", "wait"} /\ r.size = size
        /\ \A b \in blocks' : b \in blocks \/ b = Block(w)
  <2>1. CASE Return(t, w) BY <2>1, <1>5 DEF Return
  <2>2. CASE thread' = [thread EXCEPT ![t] = [w EXCEPT !.pc = "grow"]] /\ blocks' = blocks
    <3>1. PICK r : r = [w EXCEPT !.pc = "grow"] OBVIOUS
    <3>2. r \in Record /\ r.pc = "grow" /\ r.size = size BY <3>1, <1>6 DEF Record, PC
    <3>. QED BY <2>2, <3>1, <3>2
  <2>3. CASE thread' = [thread EXCEPT ![t] = [w EXCEPT !.pc = "wait"]] /\ blocks' = blocks
    <3>1. PICK r : r = [w EXCEPT !.pc = "wait"] OBVIOUS
    <3>2. r \in Record /\ r.pc = "wait" /\ r.size = size BY <3>1, <1>6 DEF Record, PC
    <3>. QED BY <2>3, <3>1, <3>2
  <2>. QED BY <2>1, <2>2, <2>3 DEF FetchAndAdd
<1>8. PICK r \in Record :
        /\ thread' = [thread EXCEPT ![t] = r]
        /\ \/ r.pc = "idle"
           \/ r.pc \in {"grow", "wait"} /\ r.size = size
        /\ \A b \in blocks' : b \in blocks \/ b = Block(w)
  BY <1>7
<1>9. /\ thread' \in [Threads -> Record] /\ thread'[t] = r
      /\ \A u \in Threads \ {t} : thread'[u] = thread[u]
  BY <1>1, <1>8, RecordStep
<1>10. TypeOK'
  <2>1. \A b \in blocks' : b \in [side : Sides, offset : Nat, size : Nat]
    BY <1>1, <1>6, <1>8 DEF TypeOK
  <2>2. allocs' \in 0..MaxAllocs BY <1>1, PoolAssumption DEF TypeOK
  <2>3. /\ boSize' \in Nat /\ center' \in Nat /\ mutex' \in Threads \cup {NoThread}
        /\ fails' \in 0..MaxFails /\ raced' \in BOOLEAN
    BY <1>1 DEF TypeOK
  <2>. QED BY <2>1, <2>2, <2>3, <1>2, <1>4, <1>9, TypeFromRecord
<1>11. CallsOK'
  <2>1. ASSUME NEW u \in Threads
        PROVE  /\ thread'[u].pc # "idle" => thread'[u].size > 0
               /\ thread'[u].pc \in MutexPC <=> mutex' = u
    <3>1. CASE u = t
      <4>1. mutex # t BY <1>1 DEF CallsOK, MutexPC
      <4>. QED BY <4>1, <3>1, <1>8, <1>9 DEF MutexPC
    <3>2. CASE u # t BY <3>2, <1>1, <1>9 DEF CallsOK
    <3>. QED BY <3>1, <3>2
  <2>. QED BY <2>1 DEF CallsOK
<1>12. BlockPart' BY <1>1, FetchAndAddKeepsBlocks DEF BlockPart
<1>13. SizePart'
  <2>1. \A u \in Threads :
           \/ thread'[u] = thread[u]
           \/ /\ thread[u].pc \notin {"expand", "setsize"}
              /\ thread'[u].pc \notin {"expand", "setsize"} \cup UnpublishedPC
    BY <1>8, <1>9 DEF UnpublishedPC
  <2>. QED BY <2>1, <1>1, <1>4, QuietKeepsSizes
<1>. QED BY <1>10, <1>11, <1>12, <1>13 DEF IInv

LEMMA AllocKeeps ==
  ASSUME IInv, NEW t \in Threads,
         \/ \E size \in FrontSizes : anv_block_pool_alloc(t, "front", size)
         \/ anv_block_pool_alloc(t, "back", BackSize)
         \/ Again(t)
  PROVE  IInv'
<1>1. ASSUME NEW s \in Sides, NEW size \in Nat \ {0}, anv_block_pool_alloc(t, s, size)
      PROVE  IInv'
  BY <1>1, FetchAndAddKeeps DEF anv_block_pool_alloc
<1>2. CASE Again(t)
  <2>1. thread[t].pc = "again" BY <1>2 DEF Again
  <2>2. thread[t].side \in Sides /\ thread[t].size \in Nat BY RecordFields DEF IInv
  <2>3. thread[t].size \in Nat \ {0} BY <2>1, <2>2 DEF IInv, CallsOK
  <2>. QED BY <1>2, <2>1, <2>2, <2>3, FetchAndAddKeeps DEF Again
<1>. QED BY <1>1, <1>2, PoolAssumption DEF Sides

(* The steps that only change pc, outside the mutex or into it.            *)
LEMMA PcKeeps ==
  ASSUME IInv, NEW t \in Threads, FutexWait(t) \/ GrowAgain(t) \/ Lock(t)
  PROVE  IInv'
<1>1. TypeOK /\ CallsOK /\ BlockPart /\ SizePart BY DEF IInv
<1>2. /\ next' = next /\ end' = end /\ boSize' = boSize /\ center' = center
      /\ blocks' = blocks /\ allocs' = allocs /\ fails' = fails /\ raced' = raced
  BY DEF FutexWait, GrowAgain, Lock
<1>3. \E pc \in PC :
        /\ thread' = [thread EXCEPT ![t].pc = pc]
        /\ \/ thread[t].pc = "wait" /\ pc \in {"sleep", "again"} /\ mutex' = mutex
           \/ thread[t].pc = "got" /\ pc = "grow" /\ mutex' = mutex
           \/ thread[t].pc = "grow" /\ pc = "gather" /\ mutex = NoThread /\ mutex' = t
  <2>1. CASE FutexWait(t) BY <2>1 DEF FutexWait, Goto, PC
  <2>2. CASE GrowAgain(t) BY <2>2 DEF GrowAgain, Goto, PC
  <2>3. CASE Lock(t) BY <2>3 DEF Lock, Goto, PC
  <2>. QED BY <2>1, <2>2, <2>3
<1>4. PICK pc \in PC :
        /\ thread' = [thread EXCEPT ![t].pc = pc]
        /\ \/ thread[t].pc = "wait" /\ pc \in {"sleep", "again"} /\ mutex' = mutex
           \/ thread[t].pc = "got" /\ pc = "grow" /\ mutex' = mutex
           \/ thread[t].pc = "grow" /\ pc = "gather" /\ mutex = NoThread /\ mutex' = t
  BY <1>3
<1>5. PICK r \in Record :
        /\ thread' = [thread EXCEPT ![t] = r] /\ r.pc = pc
        /\ r.side = thread[t].side /\ r.size = thread[t].size /\ r.next = thread[t].next
  <2>1. thread' = [thread EXCEPT ![t].pc = pc] BY <1>4
  <2>2. \E r \in Record :
           /\ thread' = [thread EXCEPT ![t] = r] /\ r.pc = pc
           /\ r.side = thread[t].side /\ r.size = thread[t].size /\ r.next = thread[t].next
           /\ r.used = thread[t].used /\ r.new_size = thread[t].new_size
           /\ r.new_end = thread[t].new_end
    BY <2>1, <1>1, PcStep
  <2>. QED BY <2>2
<1>6. /\ thread' \in [Threads -> Record] /\ thread'[t] = r
      /\ \A u \in Threads \ {t} : thread'[u] = thread[u]
  BY <1>1, <1>5, RecordStep
<1>7. TypeOK'
  <2>1. mutex' \in Threads \cup {NoThread} BY <1>1, <1>4 DEF TypeOK
  <2>2. /\ next' \in [Sides -> Nat] /\ end' \in [Sides -> Nat] /\ boSize' \in Nat /\ center' \in Nat
        /\ \A b \in blocks' : b \in [side : Sides, offset : Nat, size : Nat]
        /\ allocs' \in 0..MaxAllocs /\ fails' \in 0..MaxFails /\ raced' \in BOOLEAN
    BY <1>1, <1>2 DEF TypeOK
  <2>. QED BY <2>1, <2>2, <1>6, TypeFromRecord
<1>8. CallsOK'
  <2>1. ASSUME NEW u \in Threads
        PROVE  /\ thread'[u].pc # "idle" => thread'[u].size > 0
               /\ thread'[u].pc \in MutexPC <=> mutex' = u
    <3>1. thread'[u].pc # "idle" => thread'[u].size > 0
      <4>1. thread[t].size > 0 BY <1>1, <1>4 DEF CallsOK
      <4>. QED BY <4>1, <1>1, <1>5, <1>6 DEF CallsOK
    <3>2. CASE pc \in {"sleep", "again", "grow"} /\ mutex' = mutex
      <4>1. thread[t].pc \in {"wait", "got"} BY <3>2, <1>4
      <4>2. mutex # t BY <1>1, <4>1 DEF CallsOK, MutexPC
      <4>. QED BY <3>1, <3>2, <4>2, <1>1, <1>5, <1>6 DEF CallsOK, MutexPC
    <3>3. CASE pc = "gather" /\ mutex = NoThread /\ mutex' = t
      BY <3>1, <3>3, <1>1, <1>5, <1>6, PoolAssumption DEF CallsOK, MutexPC
    <3>. QED BY <3>2, <3>3, <1>4
  <2>. QED BY <2>1 DEF CallsOK
<1>9. BlockPart'
  <2>1. \/ r.pc \in GrowPC /\ thread[t].pc \in GrowPC
        \/ r.pc \in {"again", "wait", "sleep"} /\ thread[t].pc \in {"again", "wait", "sleep"}
    BY <1>4, <1>5 DEF GrowPC, MutexPC, UnpublishedPC
  <2>. QED BY <2>1, <1>1, <1>2, <1>5, LocalKeepsBlocks DEF BlockPart
<1>10. SizePart'
  <2>1. \A u \in Threads :
           \/ thread'[u] = thread[u]
           \/ /\ thread[u].pc \notin {"expand", "setsize"}
              /\ thread'[u].pc \notin {"expand", "setsize"} \cup UnpublishedPC
    BY <1>4, <1>5, <1>6 DEF UnpublishedPC
  <2>2. \A s \in Sides : next'[s] \in Nat /\ next[s] <= next'[s] BY <1>1, <1>2 DEF TypeOK
  <2>. QED BY <2>1, <2>2, <1>1, <1>2, QuietKeepsSizes
<1>. QED BY <1>7, <1>8, <1>9, <1>10 DEF IInv

LEMMA FutexWakeKeeps ==
  ASSUME IInv, NEW t \in Threads, FutexWake(t)
  PROVE  IInv'
<1>1. TypeOK /\ CallsOK /\ BlockPart /\ SizePart BY DEF IInv
<1>2. /\ next' = next /\ end' = end /\ boSize' = boSize /\ center' = center /\ mutex' = mutex
      /\ allocs' = allocs /\ fails' = fails /\ raced' = raced
      /\ thread[t].pc = "wake" /\ blocks' = blocks \cup {Block(thread[t])}
  BY DEF FutexWake
<1>3. thread \in [Threads -> Record] BY <1>1 DEF TypeOK, Record
<1>4. Idle \in Record /\ Idle.pc = "idle" BY DEF Idle, Record, PC, Sides
<1>5. thread'[t] = Idle BY DEF FutexWake
<1>6. \A u \in Threads \ {t} :
        \/ thread[u].pc = "sleep" /\ thread'[u] = [thread[u] EXCEPT !.pc = "again"]
        \/ thread'[u] = thread[u]
  BY DEF FutexWake, Sleepers
<1>7. \A u \in Threads \ {t} :
        /\ thread'[u] \in Record
        /\ \/ /\ thread[u].pc = "sleep" /\ thread'[u].pc = "again"
              /\ thread'[u].size = thread[u].size
           \/ thread'[u] = thread[u]
  BY <1>3, <1>6 DEF Record, PC
<1>8. thread' \in [Threads -> Record]
  <2>1. thread' = [u \in Threads |-> thread'[u]] BY DEF FutexWake
  <2>. QED BY <2>1, <1>4, <1>5, <1>7
<1>9. TypeOK'
  <2>1. Block(thread[t]) \in [side : Sides, offset : Nat, size : Nat] BY <1>3 DEF Block, Record
  <2>2. /\ next' \in [Sides -> Nat] /\ end' \in [Sides -> Nat] /\ boSize' \in Nat /\ center' \in Nat
        /\ mutex' \in Threads \cup {NoThread}
        /\ \A b \in blocks' : b \in [side : Sides, offset : Nat, size : Nat]
        /\ allocs' \in 0..MaxAllocs /\ fails' \in 0..MaxFails /\ raced' \in BOOLEAN
    BY <1>1, <1>2, <2>1 DEF TypeOK
  <2>. QED BY <2>2, <1>8, TypeFromRecord
<1>10. CallsOK'
  <2>1. ASSUME NEW u \in Threads
        PROVE  /\ thread'[u].pc # "idle" => thread'[u].size > 0
               /\ thread'[u].pc \in MutexPC <=> mutex' = u
    <3>1. CASE u = t BY <3>1, <1>1, <1>2, <1>4, <1>5 DEF CallsOK, MutexPC
    <3>2. CASE u # t BY <3>2, <1>1, <1>2, <1>7 DEF CallsOK, MutexPC
    <3>. QED BY <3>1, <3>2
  <2>. QED BY <2>1 DEF CallsOK
<1>11. BlockPart' BY <1>1, FutexWakeKeepsBlocks DEF BlockPart
<1>12. SizePart'
  <2>1. \A u \in Threads :
           \/ thread'[u] = thread[u]
           \/ /\ thread[u].pc \notin {"expand", "setsize"}
              /\ thread'[u].pc \notin {"expand", "setsize"} \cup UnpublishedPC
    BY <1>2, <1>4, <1>5, <1>7 DEF UnpublishedPC
  <2>2. \A s \in Sides : next'[s] \in Nat /\ next[s] <= next'[s] BY <1>1, <1>2 DEF TypeOK
  <2>. QED BY <2>1, <2>2, <1>1, <1>2, QuietKeepsSizes
<1>. QED BY <1>9, <1>10, <1>11, <1>12 DEF IInv


(* A step of a grower that moves no next and no end.                       *)
LEMMA GrowerStep ==
  ASSUME IInv, NEW t \in Threads, NEW r \in Record, thread' = [thread EXCEPT ![t] = r],
         thread[t].pc \in GrowPC, r.pc \in GrowPC,
         r.side = thread[t].side, r.next = thread[t].next, r.size = thread[t].size,
         next' = next, end' = end, blocks' = blocks, allocs' = allocs,
         boSize' \in Nat, center' \in Nat, mutex' \in Threads \cup {NoThread},
         fails' \in 0..MaxFails, raced' \in BOOLEAN, CallsOK', SizePart'
  PROVE  IInv'
<1>1. TypeOK /\ BlockPart BY DEF IInv
<1>2. thread' \in [Threads -> Record] BY <1>1, RecordStep
<1>3. /\ next' \in [Sides -> Nat] /\ end' \in [Sides -> Nat] /\ allocs' \in 0..MaxAllocs
      /\ \A b \in blocks' : b \in [side : Sides, offset : Nat, size : Nat]
  BY <1>1 DEF TypeOK
<1>4. TypeOK' BY <1>2, <1>3, TypeFromRecord
<1>5. BlockPart' BY <1>1, LocalKeepsBlocks DEF BlockPart
<1>. QED BY <1>4, <1>5 DEF IInv

LEMMA OutsideStep ==
  ASSUME TypeOK, CallsOK, NEW t \in Threads, NEW r \in Record, thread' = [thread EXCEPT ![t] = r],
         thread[t].pc \notin MutexPC \cup {"idle"}, r.pc \notin MutexPC,
         r.size = thread[t].size, mutex' = mutex
  PROVE  CallsOK'
<1>1. thread'[t] = r /\ \A u \in Threads \ {t} : thread'[u] = thread[u] BY RecordStep
<1>2. ASSUME NEW u \in Threads
      PROVE  /\ thread'[u].pc # "idle" => thread'[u].size > 0
             /\ thread'[u].pc \in MutexPC <=> mutex' = u
  <2>1. CASE u = t BY <2>1, <1>1 DEF CallsOK
  <2>2. CASE u # t BY <2>2, <1>1 DEF CallsOK
  <2>. QED BY <2>1, <2>2
<1>. QED BY <1>2 DEF CallsOK

(* A thread leaves the mutex with nothing changed, or reads without it.    *)
LEMMA ReaderKeepsSizes ==
  ASSUME TypeOK, CallsOK, SizePart, NEW t \in Threads, NEW r \in Record,
         thread' = [thread EXCEPT ![t] = r],
         next' = next, end' = end, boSize' = boSize, center' = center, raced' = raced,
         thread[t].pc \in UnpublishedPC \cup {"gather", "expand"}, r.pc \in UnpublishedPC,
         r.side = thread[t].side, ~raced => ReadOK(r)
  PROVE  SizePart'
<1>1. thread'[t] = r /\ \A u \in Threads \ {t} : thread'[u] = thread[u] BY RecordStep
<1>2. \A u \in Threads : thread'[u].pc \in {"expand", "setsize"} =>
        u # t /\ thread'[u] = thread[u] /\ thread[t].pc \in UnpublishedPC
  <2>1. ASSUME NEW u \in Threads, thread'[u].pc \in {"expand", "setsize"}
        PROVE  u # t /\ thread'[u] = thread[u] /\ thread[t].pc \in UnpublishedPC
    <3>1. u # t /\ thread'[u] = thread[u] BY <2>1, <1>1 DEF UnpublishedPC
    <3>2. thread[t].pc \notin {"gather", "expand"} BY <3>1, <2>1, OneOwner DEF MutexPC
    <3>. QED BY <3>1, <3>2
  <2>. QED BY <2>1
<1>3. SizesOK'
  <2>1. \A s \in Sides : next'[s] = 0 => end'[s] = 0 BY DEF SizePart, SizesOK
  <2>2. boSize' > 0 /\ boSize' < WordSize /\ boSize' % PageSize = 0 BY DEF SizePart, SizesOK
  <2>3. \A u \in Threads : thread'[u].pc \in {"expand", "setsize"} =>
          /\ thread'[u].new_size > boSize' /\ thread'[u].new_size < WordSize
          /\ thread'[u].new_size % PageSize = 0
    BY <1>2 DEF SizePart, SizesOK
  <2>4. ASSUME NEW v \in Threads, thread'[v].pc = "expand"
        PROVE  /\ \A s \in Sides : thread'[v].used[s] % PageSize = 0
               /\ thread'[v].used["back"] = 0 =>
                    /\ thread'[v].side = "front" /\ end'["back"] = 0
                    /\ \A u \in Threads : thread'[u].side = "back" => thread'[u].pc \notin UnpublishedPC
    <3>1. thread'[v] = thread[v] /\ thread[v].pc = "expand" /\ thread[t].pc \in UnpublishedPC
      BY <2>4, <1>2
    <3>2. \A s \in Sides : thread'[v].used[s] % PageSize = 0 BY <3>1 DEF SizePart, SizesOK
    <3>3. ASSUME thread'[v].used["back"] = 0
          PROVE  /\ thread'[v].side = "front" /\ end'["back"] = 0
                 /\ \A u \in Threads : thread[u].side = "back" => thread[u].pc \notin UnpublishedPC
      BY <3>1, <3>3 DEF SizePart, SizesOK
    <3>. QED BY <3>1, <3>2, <3>3, <1>1
  <2>. QED BY <2>1, <2>2, <2>3, <2>4 DEF SizesOK
<1>4. ASSUME ~raced' PROVE CenterOK' /\ ReadsOK'
  <2>1. CenterOK /\ ReadsOK BY <1>4 DEF SizePart
  <2>2. \A s \in Sides : SideSize(s)' = SideSize(s) BY DEF SideSize
  <2>3. center' % PageSize = 0 /\ \A s \in Sides : end'[s] % PageSize = 0 BY <2>1 DEF CenterOK
  <2>4. \A u \in Threads : thread'[u].pc # "setsize"
    <3>1. ASSUME NEW u \in Threads, thread'[u].pc = "setsize" PROVE FALSE
      <4>1. thread[u].pc = "setsize" /\ thread[t].pc \in UnpublishedPC BY <3>1, <1>2
      <4>. QED BY <4>1, <2>1 DEF CenterOK
    <3>. QED BY <3>1
  <2>5. \A u \in Threads : thread[u].pc # "setsize" BY <2>4, <1>1 DEF UnpublishedPC
  <2>6. center' <= boSize' /\ \A s \in Sides : end'[s] <= SideSize(s)'
    BY <2>1, <2>2, <2>5 DEF CenterOK
  <2>7. ASSUME NEW v \in Threads, thread'[v].pc = "expand"
        PROVE  /\ thread'[v].used["front"] + thread'[v].used["back"] <= thread'[v].new_size
               /\ thread'[v].used["back"] + (boSize' - center') <= thread'[v].new_size
    <3>1. thread'[v] = thread[v] /\ thread[v].pc = "expand" BY <2>7, <1>2
    <3>. QED BY <3>1, <2>1 DEF CenterOK
  <2>8. CenterOK' BY <2>3, <2>4, <2>6, <2>7 DEF CenterOK
  <2>9. ASSUME NEW u \in Threads PROVE ReadOK(thread[u])'
    <3>1. ReadOK(thread'[u]) BY <1>1, <1>4, <2>1 DEF ReadsOK
    <3>. QED BY <3>1 DEF ReadOK, SideSize
  <2>10. ReadsOK' BY <2>9 DEF ReadsOK
  <2>. QED BY <2>8, <2>10
<1>. QED BY <1>3, <1>4 DEF SizePart


LEMMA NobodySetsSize ==
  ASSUME TypeOK, CenterOK, NEW t \in Threads, thread[t].pc \in UnpublishedPC
  PROVE  /\ center <= boSize /\ \A s \in Sides : end[s] <= SideSize(s)
         /\ \A u \in Threads : thread[u].pc # "setsize"
BY DEF CenterOK

LEMMA ReadKeeps ==
  ASSUME IInv, NEW t \in Threads, ReadBack(t) \/ ReadFrontFirst(t) \/ ReadFrontSecond(t)
  PROVE  IInv'
<1>1. TypeOK /\ CallsOK /\ BlockPart /\ SizePart BY DEF IInv
<1>2. /\ next' = next /\ end' = end /\ boSize' = boSize /\ center' = center /\ mutex' = mutex
      /\ blocks' = blocks /\ allocs' = allocs /\ fails' = fails /\ raced' = raced
  BY DEF ReadBack, ReadFrontFirst, ReadFrontSecond
<1>3. PICK w \in Record : w = thread[t] BY <1>1, RecordFields
<1>4. boSize \in Nat /\ center \in Nat /\ w.got \in Nat /\ w.side \in Sides BY <1>1, <1>3 DEF TypeOK, Record
<1>5. w.pc \in UnpublishedPC BY <1>3 DEF ReadBack, ReadFrontFirst, ReadFrontSecond, UnpublishedPC
<1>6. ASSUME NEW r \in Record, thread' = [thread EXCEPT ![t] = r], r.pc \in UnpublishedPC,
             r.side = w.side, r.next = w.next, r.size = w.size, ~raced => ReadOK(r)
      PROVE  IInv'
  <2>1. SizePart' BY <1>1, <1>2, <1>3, <1>5, <1>6, ReaderKeepsSizes
  <2>2. CallsOK' BY <1>1, <1>2, <1>3, <1>5, <1>6, OutsideStep DEF UnpublishedPC, MutexPC
  <2>3. /\ boSize' \in Nat /\ center' \in Nat /\ mutex' \in Threads \cup {NoThread}
        /\ fails' \in 0..MaxFails /\ raced' \in BOOLEAN
    BY <1>1, <1>2 DEF TypeOK
  <2>. QED BY <2>1, <2>2, <2>3, <1>2, <1>3, <1>5, <1>6, GrowerStep DEF GrowPC
<1>7. CASE ReadBack(t)
  <2>1. w.side = "back" /\ thread' = [thread EXCEPT ![t].pc = "got", ![t].new_end = center]
    BY <1>3, <1>7 DEF ReadBack
  <2>2. PICK r : r = [w EXCEPT !.pc = "got", !.new_end = center] OBVIOUS
  <2>3. /\ r \in Record /\ r.pc = "got" /\ r.new_end = center
        /\ r.side = w.side /\ r.next = w.next /\ r.size = w.size
    BY <2>2, <1>4 DEF Record, PC
  <2>4. thread' = [thread EXCEPT ![t] = r] BY <2>1, <2>2, <1>3
  <2>5. ReadOK(r) BY <2>1, <2>3 DEF ReadOK, SideSize
  <2>. QED BY <2>3, <2>4, <2>5, <1>6 DEF UnpublishedPC
<1>8. CASE ReadFrontFirst(t)
  <2>1. w.side = "front" BY <1>3, <1>8 DEF ReadFrontFirst
  <2>2. CASE thread' = [thread EXCEPT ![t].pc = "readcenter", ![t].got = boSize]
    <3>1. PICK r : r = [w EXCEPT !.pc = "readcenter", !.got = boSize] OBVIOUS
    <3>2. /\ r \in Record /\ r.pc = "readcenter" /\ r.got = boSize
          /\ r.side = w.side /\ r.next = w.next /\ r.size = w.size
      BY <3>1, <1>4 DEF Record, PC
    <3>3. thread' = [thread EXCEPT ![t] = r] BY <2>2, <3>1, <1>3
    <3>4. ReadOK(r) BY <2>1, <3>2 DEF ReadOK
    <3>. QED BY <3>2, <3>3, <3>4, <1>6 DEF UnpublishedPC
  <2>3. CASE thread' = [thread EXCEPT ![t].pc = "readsize", ![t].got = center]
    <3>1. PICK r : r = [w EXCEPT !.pc = "readsize", !.got = center] OBVIOUS
    <3>2. /\ r \in Record /\ r.pc = "readsize" /\ r.got = center
          /\ r.side = w.side /\ r.next = w.next /\ r.size = w.size
      BY <3>1, <1>4 DEF Record, PC
    <3>3. thread' = [thread EXCEPT ![t] = r] BY <2>3, <3>1, <1>3
    <3>4. ReadOK(r) BY <2>1, <3>2 DEF ReadOK
    <3>. QED BY <3>2, <3>3, <3>4, <1>6 DEF UnpublishedPC
  <2>. QED BY <2>2, <2>3, <1>8 DEF ReadFrontFirst
<1>9. CASE ReadFrontSecond(t)
  <2>1. PICK size \in Nat : size = IF w.pc = "readcenter" THEN w.got ELSE boSize BY <1>4
  <2>2. PICK c \in Nat : c = IF w.pc = "readcenter" THEN center ELSE w.got BY <1>4
  <2>3. /\ w.pc \in {"readcenter", "readsize"}
        /\ thread' = [thread EXCEPT ![t].pc = "got", ![t].new_end = Word(size - c), ![t].got = 0]
    BY <1>3, <1>9, <2>1, <2>2 DEF ReadFrontSecond
  <2>4. PICK ne \in Nat : ne = Word(size - c) BY WordOK
  <2>5. PICK r : r = [w EXCEPT !.pc = "got", !.new_end = ne, !.got = 0] OBVIOUS
  <2>6. /\ r \in Record /\ r.pc = "got" /\ r.new_end = ne
        /\ r.side = w.side /\ r.next = w.next /\ r.size = w.size
    BY <2>5 DEF Record, PC
  <2>7. thread' = [thread EXCEPT ![t] = r] BY <2>3, <2>4, <2>5, <1>3
  <2>8. ASSUME ~raced PROVE ReadOK(r)
    <3>1. CenterOK /\ ReadsOK BY <2>8, <1>1 DEF SizePart
    <3>2. ReadOK(w) BY <3>1, <1>3 DEF ReadsOK
    <3>3. w.side = "front" /\ size = boSize /\ c = center BY <3>2, <2>1, <2>2, <2>3 DEF ReadOK
    <3>4. center <= boSize BY <3>1, <1>1, <1>3, <1>5, NobodySetsSize
    <3>5. boSize < WordSize BY <1>1 DEF SizePart, SizesOK
    <3>6. size - c \in 0..(WordSize - 1) BY <3>3, <3>4, <3>5, <1>4, PoolAssumption
    <3>7. ne = boSize - center BY <3>3, <3>6, <2>4, WordOK
    <3>. QED BY <3>3, <3>7, <2>6 DEF ReadOK, SideSize
  <2>. QED BY <2>6, <2>7, <2>8, <1>6 DEF UnpublishedPC
<1>. QED BY <1>7, <1>8, <1>9

LEMMA ExpandFailsKeeps ==
  ASSUME IInv, NEW t \in Threads, ExpandFails(t)
  PROVE  IInv'
<1>1. TypeOK /\ CallsOK /\ BlockPart /\ SizePart BY DEF IInv
<1>2. /\ next' = next /\ end' = end /\ boSize' = boSize /\ center' = center
      /\ blocks' = blocks /\ allocs' = allocs /\ raced' = raced /\ mutex' = NoThread
      /\ thread[t].pc = "expand" /\ fails < MaxFails /\ fails' = fails + 1
      /\ thread' = [thread EXCEPT ![t].pc = "got", ![t].new_end = 0,
                                  ![t].used = Idle.used, ![t].new_size = 0]
  BY DEF ExpandFails
<1>3. PICK w \in Record : w = thread[t] BY <1>1, RecordFields
<1>4. Idle.used \in [Sides -> Nat] BY DEF Idle
<1>5. PICK r : r = [w EXCEPT !.pc = "got", !.new_end = 0, !.used = Idle.used, !.new_size = 0] OBVIOUS
<1>6. /\ r \in Record /\ r.pc = "got" /\ r.new_end = 0
      /\ r.side = w.side /\ r.next = w.next /\ r.size = w.size
  BY <1>5, <1>4 DEF Record, PC
<1>7. thread' = [thread EXCEPT ![t] = r] BY <1>2, <1>3, <1>5
<1>8. ReadOK(r) BY <1>6 DEF ReadOK
<1>9. SizePart' BY <1>1, <1>2, <1>3, <1>6, <1>7, <1>8, ReaderKeepsSizes DEF UnpublishedPC
<1>10. CallsOK' /\ mutex' \in Threads \cup {NoThread}
  BY <1>1, <1>2, <1>3, <1>6, <1>7, OwnerStep DEF MutexPC
<1>11. fails' \in 0..MaxFails BY <1>1, <1>2, PoolAssumption DEF TypeOK
<1>12. boSize' \in Nat /\ center' \in Nat /\ raced' \in BOOLEAN BY <1>1, <1>2 DEF TypeOK
<1>. QED BY <1>2, <1>3, <1>6, <1>7, <1>9, <1>10, <1>11, <1>12, GrowerStep
     DEF GrowPC, MutexPC, UnpublishedPC


(* The owner finds how much it needs; nobody else is in the mutex, so the  *)
(* bo is whole.                                                            *)
LEMMA GatherKeeps ==
  ASSUME IInv, NEW t \in Threads, Gather(t)
  PROVE  IInv'
<1> DEFINE used == [s \in Sides |-> AlignUp(next[s])]
<1> DEFINE total == Word(Required(used)["front"] + Required(used)["back"])
<1>1. TypeOK /\ CallsOK /\ BlockPart /\ SizePart BY DEF IInv
<1>2. /\ next' = next /\ end' = end /\ boSize' = boSize /\ center' = center
      /\ blocks' = blocks /\ allocs' = allocs /\ fails' = fails /\ raced' = raced
      /\ thread[t].pc = "gather" /\ 2 * (used["front"] + used["back"]) + boSize < WordSize
  BY DEF Gather
<1>3. PICK w \in Record : w = thread[t] BY <1>1, RecordFields
<1>4. /\ next \in [Sides -> Nat] /\ end \in [Sides -> Nat] /\ boSize \in Nat /\ center \in Nat
      /\ boSize > 0 /\ boSize < WordSize /\ boSize % PageSize = 0
  BY <1>1 DEF TypeOK, SizePart, SizesOK
<1>5. \A s \in Sides : used[s] \in Nat /\ used[s] >= next[s] /\ used[s] % PageSize = 0
  BY <1>4, AlignUpOK
<1>6. used \in [Sides -> Nat] BY <1>5
<1>7. mutex = t /\ \A u \in Threads \ {t} : thread[u].pc \notin MutexPC
  BY <1>1, <1>2, OneOwner DEF MutexPC
<1>8. /\ fails' \in 0..MaxFails /\ boSize' \in Nat /\ center' \in Nat /\ raced' \in BOOLEAN
  BY <1>1, <1>2 DEF TypeOK
<1>9. CASE mutex' = NoThread /\ Goto(t, "read")
  <2>1. PICK r : r = [w EXCEPT !.pc = "read"] OBVIOUS
  <2>2. r \in Record /\ r.pc = "read" /\ r.side = w.side /\ r.next = w.next /\ r.size = w.size
    BY <2>1 DEF Record, PC
  <2>3. thread' = [thread EXCEPT ![t] = r] BY <1>3, <1>9, <2>1 DEF Goto
  <2>4. ReadOK(r) BY <2>2 DEF ReadOK
  <2>5. SizePart' BY <1>1, <1>2, <1>3, <2>2, <2>3, <2>4, ReaderKeepsSizes DEF UnpublishedPC
  <2>6. CallsOK' /\ mutex' \in Threads \cup {NoThread}
    BY <1>1, <1>2, <1>3, <1>9, <2>2, <2>3, OwnerStep DEF MutexPC
  <2>. QED BY <1>2, <1>3, <1>8, <2>2, <2>3, <2>5, <2>6, GrowerStep
       DEF GrowPC, MutexPC, UnpublishedPC
<1>10. ASSUME NEW size \in DoubledTo(total), mutex' = mutex,
              thread' = [thread EXCEPT ![t].pc = "expand", ![t].used = used, ![t].new_size = size]
       PROVE  IInv'
  <2>1. total \in Nat BY <1>4, <1>6, RequiredType
  <2>2. /\ size \in Nat /\ size >= total /\ size > boSize /\ size < WordSize /\ size % PageSize = 0
    <3>1. PICK tot \in Nat : tot = total BY <2>1
    <3>2. size \in DoubledTo(tot) BY <3>1, <1>10
    <3>3. boSize \in Nat \ {0} BY <1>4
    <3>4. /\ size \in Nat /\ size >= tot /\ size > boSize /\ size < WordSize /\ size % PageSize = 0
      BY <3>2, <3>3, <1>4, DoubledToOK
    <3>. QED BY <3>1, <3>4
  <2>3. PICK us \in [Sides -> Nat] : us = used BY <1>6
  <2>4. PICK r : r = [w EXCEPT !.pc = "expand", !.used = us, !.new_size = size] OBVIOUS
  <2>5. /\ r \in Record /\ r.pc = "expand" /\ r.side = w.side /\ r.next = w.next /\ r.size = w.size
        /\ r.used = us /\ r.new_size = size
    BY <2>2, <2>4 DEF Record, PC
  <2>6. thread' = [thread EXCEPT ![t] = r] BY <1>3, <1>10, <2>3, <2>4
  <2>7. thread'[t] = r /\ \A u \in Threads \ {t} : thread'[u] = thread[u] BY <1>1, <2>5, <2>6, RecordStep
  <2>8. CallsOK' /\ mutex' \in Threads \cup {NoThread}
    BY <1>1, <1>2, <1>3, <1>10, <2>5, <2>6, OwnerStep DEF MutexPC
  <2>9. SizesOK'
    <3>1. \A s \in Sides : next'[s] = 0 => end'[s] = 0 BY <1>1, <1>2 DEF SizePart, SizesOK
    <3>2. boSize' > 0 /\ boSize' < WordSize /\ boSize' % PageSize = 0 BY <1>2, <1>4
    <3>3. \A v \in Threads : thread'[v].pc \in {"expand", "setsize"} => v = t
      BY <1>7, <2>7 DEF MutexPC
    <3>4. /\ thread'[t].new_size > boSize' /\ thread'[t].new_size < WordSize
          /\ thread'[t].new_size % PageSize = 0
      BY <1>2, <2>2, <2>5, <2>7
    <3>5. \A s \in Sides : thread'[t].used[s] % PageSize = 0 BY <1>5, <2>3, <2>5, <2>7
    <3>6. ASSUME thread'[t].used["back"] = 0
          PROVE  /\ thread'[t].side = "front" /\ end'["back"] = 0
                 /\ \A u \in Threads : thread'[u].side = "back" => thread'[u].pc \notin UnpublishedPC
      <4>1. used["back"] = 0 BY <3>6, <2>3, <2>5, <2>7
      <4>2. next["back"] = 0 BY <4>1, <1>4, <1>5 DEF Sides
      <4>3. end["back"] = 0 BY <4>2, <1>1 DEF SizePart, SizesOK, Sides
      <4>4. \A u \in Threads : thread[u].pc \in GrowPC => thread[u].side # "back"
        <5>1. ASSUME NEW u \in Threads, thread[u].pc \in GrowPC, thread[u].side = "back" PROVE FALSE
          <6>1. thread[u].size > 0 BY <5>1, <1>1 DEF CallsOK, GrowPC, MutexPC, UnpublishedPC
          <6>2. thread[u].next + thread[u].size <= next["back"] BY <5>1, <1>1 DEF BlockPart, GrowersOK
          <6>3. thread[u].size \in Nat /\ thread[u].next \in Nat BY <1>1, RecordFields
          <6>. QED BY <6>1, <6>2, <6>3, <4>2
        <5>. QED BY <5>1
      <4>5. w.side = "front"
        <5>1. w.side # "back" BY <4>4, <1>2, <1>3 DEF GrowPC, MutexPC
        <5>2. w.side \in Sides BY DEF Record
        <5>. QED BY <5>1, <5>2 DEF Sides
      <4>6. ASSUME NEW u \in Threads, thread'[u].side = "back" PROVE thread'[u].pc \notin UnpublishedPC
        <5>1. CASE u = t BY <5>1, <2>5, <2>7 DEF UnpublishedPC
        <5>2. CASE u # t BY <5>2, <4>4, <4>6, <2>7 DEF GrowPC
        <5>. QED BY <5>1, <5>2
      <4>. QED BY <4>3, <4>5, <4>6, <1>2, <2>5, <2>7
    <3>. QED BY <3>1, <3>2, <3>3, <3>4, <3>5, <3>6 DEF SizesOK
  <2>10. ASSUME ~raced' PROVE CenterOK' /\ ReadsOK'
    <3>1. CenterOK /\ ReadsOK BY <2>10, <1>1, <1>2 DEF SizePart
    <3>2. \A u \in Threads : thread[u].pc # "setsize" BY <1>2, <1>7 DEF MutexPC
    <3>3. \A u \in Threads : thread'[u].pc # "setsize" BY <3>2, <2>5, <2>7
    <3>4. center <= boSize /\ \A s \in Sides : end[s] <= SideSize(s) BY <3>1, <3>2 DEF CenterOK
    <3>5. \A s \in Sides : end'[s] <= SideSize(s)' BY <3>4, <1>2 DEF SideSize
    <3>6. center' % PageSize = 0 /\ \A s \in Sides : end'[s] % PageSize = 0
      BY <3>1, <1>2 DEF CenterOK
    <3>7. /\ used["front"] + used["back"] <= total /\ used["back"] + (boSize - center) <= total
      BY <3>4, <1>2, <1>4, <1>6, RequiredOK
    <3>8. used["front"] \in Nat /\ used["back"] \in Nat BY <1>5 DEF Sides
    <3>9. used["front"] + used["back"] <= size /\ used["back"] + (boSize - center) <= size
      BY <3>7, <3>8, <3>4, <2>1, <2>2, <1>4
    <3>10. \A v \in Threads : thread'[v].pc = "expand" =>
            /\ thread'[v].used["front"] + thread'[v].used["back"] <= thread'[v].new_size
            /\ thread'[v].used["back"] + (boSize' - center') <= thread'[v].new_size
      <4>1. \A v \in Threads : thread'[v].pc = "expand" => v = t BY <1>7, <2>7 DEF MutexPC
      <4>. QED BY <4>1, <3>9, <2>3, <2>5, <2>7, <1>2
    <3>11. center' <= boSize' BY <3>4, <1>2
    <3>12. CenterOK' BY <3>3, <3>5, <3>6, <3>10, <3>11 DEF CenterOK
    <3>13. ASSUME NEW u \in Threads PROVE ReadOK(thread[u])'
      <4>1. CASE u = t BY <4>1, <2>5, <2>7 DEF ReadOK
      <4>2. CASE u # t
        <5>1. ReadOK(thread[u]) BY <3>1 DEF ReadsOK
        <5>. QED BY <4>2, <5>1, <2>7, <1>2 DEF ReadOK, SideSize
      <4>. QED BY <4>1, <4>2
    <3>. QED BY <3>12, <3>13 DEF ReadsOK
  <2>11. SizePart' BY <2>9, <2>10 DEF SizePart
  <2>. QED BY <1>2, <1>3, <1>8, <2>5, <2>6, <2>8, <2>11, GrowerStep DEF GrowPC, MutexPC
<1>. QED BY <1>9, <1>10 DEF Gather

(* The centre moves: the grower of the other side, if it has read, has     *)
(* raced; without it both sides keep what they end at.                     *)
LEMMA ExpandKeeps ==
  ASSUME IInv, NEW t \in Threads, Expand(t)
  PROVE  IInv'
<1>1. TypeOK /\ CallsOK /\ BlockPart /\ SizePart BY DEF IInv
<1>2. PICK w \in Record : w = thread[t] BY <1>1, RecordFields
<1>3. /\ next' = next /\ end' = end /\ boSize' = boSize /\ mutex' = mutex
      /\ blocks' = blocks /\ allocs' = allocs /\ fails' = fails
      /\ w.pc = "expand" /\ center' = NewCenter(w.new_size, w.used)
      /\ raced' = (raced \/ Unpublished(Other(w.side)))
  BY <1>2 DEF Expand
<1>4. /\ end \in [Sides -> Nat] /\ boSize \in Nat /\ center \in Nat
      /\ w.new_size \in Nat /\ w.used \in [Sides -> Nat] /\ w.side \in Sides
  BY <1>1 DEF TypeOK, Record
<1>5. PICK r : r = [w EXCEPT !.pc = "setsize"] OBVIOUS
<1>6. /\ r \in Record /\ r.pc = "setsize" /\ r.side = w.side /\ r.next = w.next /\ r.size = w.size
      /\ r.new_size = w.new_size
  BY <1>5 DEF Record, PC
<1>7. thread' = [thread EXCEPT ![t] = r] BY <1>2, <1>5 DEF Expand, Goto
<1>8. thread'[t] = r /\ \A u \in Threads \ {t} : thread'[u] = thread[u] BY <1>1, <1>6, <1>7, RecordStep
<1>9. mutex = t /\ \A u \in Threads \ {t} : thread[u].pc \notin MutexPC
  BY <1>1, <1>2, <1>3, OneOwner DEF MutexPC
<1>10. CallsOK' /\ mutex' \in Threads \cup {NoThread}
  BY <1>1, <1>2, <1>3, <1>6, <1>7, OwnerStep DEF MutexPC
<1>11. center' \in Nat BY <1>3, <1>4, NewCenterType
<1>12. boSize' \in Nat /\ fails' \in 0..MaxFails BY <1>1, <1>3 DEF TypeOK
<1>13. raced' \in BOOLEAN BY <1>1, <1>3 DEF TypeOK
<1>14. /\ w.new_size > boSize /\ w.new_size < WordSize /\ w.new_size % PageSize = 0
       /\ \A s \in Sides : w.used[s] % PageSize = 0
       /\ w.used["back"] = 0 => end["back"] = 0
  BY <1>1, <1>2, <1>3 DEF SizePart, SizesOK
<1>15. SizesOK'
  <2>1. \A s \in Sides : next'[s] = 0 => end'[s] = 0 BY <1>1, <1>3 DEF SizePart, SizesOK
  <2>2. boSize' > 0 /\ boSize' < WordSize /\ boSize' % PageSize = 0
    BY <1>1, <1>3 DEF SizePart, SizesOK
  <2>3. \A v \in Threads : thread'[v].pc \in MutexPC => v = t BY <1>8, <1>9
  <2>4. \A v \in Threads : thread'[v].pc \in {"expand", "setsize"} =>
          /\ thread'[v].new_size > boSize' /\ thread'[v].new_size < WordSize
          /\ thread'[v].new_size % PageSize = 0
    BY <2>3, <1>3, <1>6, <1>8, <1>14 DEF MutexPC
  <2>5. \A v \in Threads : thread'[v].pc # "expand" BY <2>3, <1>6, <1>8 DEF MutexPC
  <2>. QED BY <2>1, <2>2, <2>4, <2>5 DEF SizesOK
<1>16. ASSUME ~raced' PROVE CenterOK' /\ ReadsOK'
  <2>1. ~raced /\ ~Unpublished(Other(w.side)) BY <1>16, <1>3
  <2>2. CenterOK /\ ReadsOK BY <2>1, <1>1 DEF SizePart
  <2>3. \A u \in Threads : thread[u].pc # "setsize" BY <1>2, <1>3, <1>9 DEF MutexPC
  <2>4. center <= boSize /\ end["back"] <= center /\ end["front"] <= boSize - center
    <3>1. center <= boSize /\ \A s \in Sides : end[s] <= SideSize(s) BY <2>2, <2>3 DEF CenterOK
    <3>. QED BY <3>1 DEF SideSize, Sides
  <2>5. \A s \in Sides : end[s] % PageSize = 0 BY <2>2 DEF CenterOK
  <2>6. w.used["front"] + w.used["back"] <= w.new_size /\ w.used["back"] + (boSize - center) <= w.new_size
    BY <2>2, <1>2, <1>3 DEF CenterOK
  <2>7. /\ center' % PageSize = 0 /\ center' <= w.new_size
        /\ end["back"] <= center' /\ end["front"] <= w.new_size - center'
    BY <2>4, <2>5, <2>6, <1>3, <1>4, <1>14, NewCenterOK
  <2>8. \A u \in Threads : thread'[u].pc \notin UnpublishedPC
    <3>1. ASSUME NEW u \in Threads, u # t, thread[u].pc \in UnpublishedPC PROVE FALSE
      <4>1. thread[u].side # w.side BY <3>1, <1>1, <1>2, <1>3 DEF BlockPart, GrowersOK, GrowPC, MutexPC
      <4>2. thread[u].side \in Sides BY <1>1, RecordFields
      <4>3. thread[u].side = Other(w.side) BY <4>1, <4>2, <1>4 DEF Other, Sides
      <4>. QED BY <4>3, <3>1, <2>1 DEF Unpublished, UnpublishedPC
    <3>2. r.pc \notin UnpublishedPC BY <1>6 DEF UnpublishedPC
    <3>. QED BY <3>1, <3>2, <1>8
  <2>9. \A v \in Threads : thread'[v].pc \in MutexPC => v = t BY <1>8, <1>9
  <2>10. \A v \in Threads : thread'[v].pc # "expand" BY <2>9, <1>6, <1>8 DEF MutexPC
  <2>11. ~(\A v \in Threads : thread'[v].pc # "setsize") BY <1>6, <1>8
  <2>12. \A v \in Threads : thread'[v].pc = "setsize" =>
           /\ center' <= thread'[v].new_size
           /\ end'["back"] <= center' /\ end'["front"] <= thread'[v].new_size - center'
    BY <2>7, <2>9, <1>3, <1>6, <1>8 DEF MutexPC
  <2>13. CenterOK' BY <2>5, <2>7, <2>8, <2>10, <2>11, <2>12, <1>3 DEF CenterOK
  <2>14. ReadsOK' BY <2>8 DEF ReadsOK, ReadOK, UnpublishedPC
  <2>. QED BY <2>13, <2>14
<1>17. SizePart' BY <1>15, <1>16 DEF SizePart
<1>. QED BY <1>2, <1>3, <1>6, <1>7, <1>10, <1>11, <1>12, <1>13, <1>17, GrowerStep DEF GrowPC, MutexPC


(* The size follows the centre, and the mutex is released.                 *)
LEMMA SetSizeUnlockKeeps ==
  ASSUME IInv, NEW t \in Threads, SetSizeUnlock(t)
  PROVE  IInv'
<1>1. TypeOK /\ CallsOK /\ BlockPart /\ SizePart BY DEF IInv
<1>2. PICK w \in Record : w = thread[t] BY <1>1, RecordFields
<1>3. /\ next' = next /\ end' = end /\ center' = center /\ mutex' = NoThread
      /\ blocks' = blocks /\ allocs' = allocs /\ fails' = fails /\ raced' = raced
      /\ w.pc = "setsize" /\ boSize' = w.new_size
      /\ thread' = [thread EXCEPT ![t].pc = "read", ![t].used = Idle.used, ![t].new_size = 0]
  BY <1>2 DEF SetSizeUnlock
<1>4. Idle.used \in [Sides -> Nat] BY DEF Idle
<1>5. PICK r : r = [w EXCEPT !.pc = "read", !.used = Idle.used, !.new_size = 0] OBVIOUS
<1>6. r \in Record /\ r.pc = "read" /\ r.side = w.side /\ r.next = w.next /\ r.size = w.size
  BY <1>5, <1>4 DEF Record, PC
<1>7. thread' = [thread EXCEPT ![t] = r] BY <1>2, <1>3, <1>5
<1>8. thread'[t] = r /\ \A u \in Threads \ {t} : thread'[u] = thread[u] BY <1>1, <1>6, <1>7, RecordStep
<1>9. mutex = t /\ \A u \in Threads \ {t} : thread[u].pc \notin MutexPC
  BY <1>1, <1>2, <1>3, OneOwner DEF MutexPC
<1>10. CallsOK' /\ mutex' \in Threads \cup {NoThread}
  BY <1>1, <1>2, <1>3, <1>6, <1>7, OwnerStep DEF MutexPC
<1>11. \A u \in Threads : thread'[u].pc \notin MutexPC BY <1>6, <1>8, <1>9 DEF MutexPC
<1>12. /\ w.new_size \in Nat /\ boSize \in Nat /\ center \in Nat /\ end \in [Sides -> Nat]
       /\ w.new_size > boSize /\ boSize > 0 /\ w.new_size < WordSize /\ w.new_size % PageSize = 0
  BY <1>1, <1>2, <1>3 DEF TypeOK, Record, SizePart, SizesOK
<1>13. /\ boSize' \in Nat /\ center' \in Nat /\ fails' \in 0..MaxFails /\ raced' \in BOOLEAN
  BY <1>1, <1>3, <1>12 DEF TypeOK
<1>14. SizesOK'
  <2>1. \A s \in Sides : next'[s] = 0 => end'[s] = 0 BY <1>1, <1>3 DEF SizePart, SizesOK
  <2>2. boSize' > 0 /\ boSize' < WordSize /\ boSize' % PageSize = 0 BY <1>3, <1>12
  <2>. QED BY <2>1, <2>2, <1>11 DEF SizesOK, MutexPC
<1>15. ASSUME ~raced' PROVE CenterOK' /\ ReadsOK'
  <2>1. CenterOK BY <1>15, <1>1, <1>3 DEF SizePart
  <2>2. /\ center <= w.new_size /\ end["back"] <= center /\ end["front"] <= w.new_size - center
        /\ \A u \in Threads : thread[u].pc \notin UnpublishedPC
    BY <2>1, <1>2, <1>3 DEF CenterOK
  <2>3. \A s \in Sides : end'[s] <= SideSize(s)' BY <2>2, <1>3 DEF SideSize, Sides
  <2>4. center' <= boSize' BY <2>2, <1>3
  <2>5. center' % PageSize = 0 /\ \A s \in Sides : end'[s] % PageSize = 0
    BY <2>1, <1>3 DEF CenterOK
  <2>6. CenterOK' BY <2>3, <2>4, <2>5, <1>11 DEF CenterOK, MutexPC
  <2>7. ASSUME NEW u \in Threads PROVE ReadOK(thread[u])'
    <3>1. thread'[u].pc \notin UnpublishedPC \ {"read"} BY <2>2, <1>6, <1>8
    <3>. QED BY <3>1 DEF ReadOK, UnpublishedPC
  <2>. QED BY <2>6, <2>7 DEF ReadsOK
<1>16. SizePart' BY <1>14, <1>15 DEF SizePart
<1>. QED BY <1>2, <1>3, <1>6, <1>7, <1>10, <1>13, <1>16, GrowerStep DEF GrowPC, MutexPC, UnpublishedPC

(* The grower publishes an end that is still the size of its side.         *)
LEMMA TestAndSetKeeps ==
  ASSUME IInv, NEW t \in Threads, TestAndSet(t)
  PROVE  IInv'
<1>1. TypeOK /\ CallsOK /\ BlockPart /\ SizePart BY DEF IInv
<1>2. PICK w \in Record : w = thread[t] BY <1>1, RecordFields
<1>3. /\ w.pc = "got" /\ w.new_end >= w.next + w.size
      /\ next' = [next EXCEPT ![w.side] = w.next + w.size]
      /\ end' = [end EXCEPT ![w.side] = w.new_end]
      /\ boSize' = boSize /\ center' = center /\ mutex' = mutex
      /\ blocks' = blocks /\ allocs' = allocs /\ fails' = fails /\ raced' = raced
  BY <1>2 DEF TestAndSet
<1>4. /\ next \in [Sides -> Nat] /\ end \in [Sides -> Nat] /\ boSize \in Nat /\ center \in Nat
      /\ w.side \in Sides /\ w.next \in Nat /\ w.size \in Nat /\ w.new_end \in Nat
  BY <1>1 DEF TypeOK, Record
<1>5. w.size > 0 BY <1>1, <1>2, <1>3 DEF CallsOK
<1>6. PICK r : r = [w EXCEPT !.pc = "wake"] OBVIOUS
<1>7. /\ r \in Record /\ r.pc = "wake" /\ r.side = w.side /\ r.next = w.next /\ r.size = w.size
  BY <1>6 DEF Record, PC
<1>8. thread' = [thread EXCEPT ![t] = r] BY <1>2, <1>6 DEF TestAndSet, Goto
<1>9. /\ thread' \in [Threads -> Record] /\ thread'[t] = r
      /\ \A u \in Threads \ {t} : thread'[u] = thread[u]
  BY <1>1, <1>7, <1>8, RecordStep
<1>10. /\ next'[w.side] = w.next + w.size /\ end'[w.side] = w.new_end
       /\ \A s \in Sides : s # w.side => next'[s] = next[s] /\ end'[s] = end[s]
  BY <1>3, <1>4
<1>11. TypeOK'
  <2>1. next' \in [Sides -> Nat] /\ end' \in [Sides -> Nat] BY <1>3, <1>4
  <2>2. /\ boSize' \in Nat /\ center' \in Nat /\ mutex' \in Threads \cup {NoThread}
        /\ \A b \in blocks' : b \in [side : Sides, offset : Nat, size : Nat]
        /\ allocs' \in 0..MaxAllocs /\ fails' \in 0..MaxFails /\ raced' \in BOOLEAN
    BY <1>1, <1>3 DEF TypeOK
  <2>. QED BY <2>1, <2>2, <1>9, TypeFromRecord
<1>12. CallsOK' BY <1>1, <1>2, <1>3, <1>7, <1>8, OutsideStep DEF MutexPC
<1>13. BlockPart' BY <1>1, TestAndSetKeepsBlocks DEF BlockPart
<1>14. \A u \in Threads : thread'[u].pc \in {"expand", "setsize"} \cup UnpublishedPC =>
         u # t /\ thread'[u] = thread[u]
  BY <1>7, <1>9 DEF UnpublishedPC
<1>15. w.pc \in UnpublishedPC BY <1>3 DEF UnpublishedPC
<1>16. SizesOK'
  <2>1. ASSUME NEW s \in Sides, next'[s] = 0 PROVE end'[s] = 0
    <3>1. s # w.side BY <2>1, <1>4, <1>5, <1>10
    <3>. QED BY <3>1, <2>1, <1>1, <1>10 DEF SizePart, SizesOK
  <2>2. boSize' > 0 /\ boSize' < WordSize /\ boSize' % PageSize = 0
    BY <1>1, <1>3 DEF SizePart, SizesOK
  <2>3. \A v \in Threads : thread'[v].pc \in {"expand", "setsize"} =>
          /\ thread'[v].new_size > boSize' /\ thread'[v].new_size < WordSize
          /\ thread'[v].new_size % PageSize = 0
    BY <1>1, <1>3, <1>14 DEF SizePart, SizesOK
  <2>4. ASSUME NEW v \in Threads, thread'[v].pc = "expand"
        PROVE  /\ \A s \in Sides : thread'[v].used[s] % PageSize = 0
               /\ thread'[v].used["back"] = 0 =>
                    /\ thread'[v].side = "front" /\ end'["back"] = 0
                    /\ \A u \in Threads : thread'[u].side = "back" => thread'[u].pc \notin UnpublishedPC
    <3>1. thread'[v] = thread[v] /\ thread[v].pc = "expand" BY <2>4, <1>14
    <3>2. \A s \in Sides : thread'[v].used[s] % PageSize = 0 BY <3>1, <1>1 DEF SizePart, SizesOK
    <3>3. ASSUME thread'[v].used["back"] = 0
          PROVE  /\ thread'[v].side = "front" /\ end'["back"] = 0
                 /\ \A u \in Threads : thread[u].side = "back" => thread[u].pc \notin UnpublishedPC
      <4>1. /\ thread'[v].side = "front" /\ end["back"] = 0
            /\ \A u \in Threads : thread[u].side = "back" => thread[u].pc \notin UnpublishedPC
        BY <3>1, <3>3, <1>1 DEF SizePart, SizesOK
      <4>2. w.side # "back" BY <4>1, <1>2, <1>15
      <4>. QED BY <4>1, <4>2, <1>10 DEF Sides
    <3>. QED BY <3>2, <3>3, <1>14
  <2>. QED BY <2>1, <2>2, <2>3, <2>4 DEF SizesOK
<1>17. ASSUME ~raced' PROVE CenterOK' /\ ReadsOK'
  <2>1. CenterOK /\ ReadsOK BY <1>17, <1>1, <1>3 DEF SizePart
  <2>2. /\ center <= boSize /\ \A s \in Sides : end[s] <= SideSize(s)
        /\ \A u \in Threads : thread[u].pc # "setsize"
    BY <2>1, <1>1, <1>2, <1>15, NobodySetsSize
  <2>3. w.new_end = SideSize(w.side)
    <3>1. w.new_end \in {0, SideSize(w.side)} BY <2>1, <1>2, <1>3 DEF ReadsOK, ReadOK
    <3>2. w.new_end > 0 BY <1>3, <1>4, <1>5
    <3>. QED BY <3>1, <3>2
  <2>4. \A s \in Sides : SideSize(s)' = SideSize(s) BY <1>3 DEF SideSize
  <2>5. ASSUME NEW s \in Sides PROVE end'[s] <= SideSize(s)'
    <3>1. CASE s = w.side
      <4>1. end'[s] = w.new_end /\ SideSize(s)' = w.new_end BY <3>1, <2>3, <2>4, <1>4, <1>10
      <4>. QED BY <4>1, <1>4
    <3>2. CASE s # w.side BY <3>2, <2>2, <2>4, <1>10
    <3>. QED BY <3>1, <3>2
  <2>6. ASSUME NEW s \in Sides PROVE end'[s] % PageSize = 0
    <3>1. CASE s # w.side BY <3>1, <2>1, <1>10 DEF CenterOK
    <3>2. CASE s = w.side
      <4>1. PageSize \in Nat \ {0} /\ boSize \in Int /\ center \in Int BY <1>4, PoolAssumption
      <4>2. boSize % PageSize = 0 /\ center % PageSize = 0
        BY <2>1, <1>1 DEF CenterOK, SizePart, SizesOK
      <4>3. (boSize - center) % PageSize = 0 BY <4>1, <4>2, DifferenceMod, Zenon
      <4>4. SideSize(s) % PageSize = 0 BY <4>2, <4>3 DEF SideSize
      <4>. QED BY <4>4, <3>2, <2>3, <1>10
    <3>. QED BY <3>1, <3>2
  <2>7. \A u \in Threads : thread'[u].pc # "setsize" BY <2>2, <1>14
  <2>8. ASSUME NEW v \in Threads, thread'[v].pc = "expand"
        PROVE  /\ thread'[v].used["front"] + thread'[v].used["back"] <= thread'[v].new_size
               /\ thread'[v].used["back"] + (boSize' - center') <= thread'[v].new_size
    <3>1. thread'[v] = thread[v] /\ thread[v].pc = "expand" BY <2>8, <1>14
    <3>. QED BY <3>1, <2>1, <1>3 DEF CenterOK
  <2>9. center' % PageSize = 0 /\ center' <= boSize' BY <2>1, <2>2, <1>3 DEF CenterOK
  <2>10. CenterOK' BY <2>5, <2>6, <2>7, <2>8, <2>9 DEF CenterOK
  <2>11. ASSUME NEW u \in Threads PROVE ReadOK(thread[u])'
    <3>1. CASE u = t BY <3>1, <1>7, <1>9 DEF ReadOK
    <3>2. CASE u # t
      <4>1. ReadOK(thread[u]) BY <2>1 DEF ReadsOK
      <4>. QED BY <3>2, <4>1, <1>3, <1>9 DEF ReadOK, SideSize
    <3>. QED BY <3>1, <3>2
  <2>. QED BY <2>10, <2>11 DEF ReadsOK
<1>18. SizePart' BY <1>16, <1>17 DEF SizePart
<1>. QED BY <1>11, <1>12, <1>13, <1>18 DEF IInv


(* No end moves back, so a block stays before the end it was given under.  *)
LEMMA HandedKeeps ==
  ASSUME IInv, HandedOK, [Next]_vars
  PROVE  HandedOK'
<1>1. TypeOK /\ CallsOK /\ BlockPart BY DEF IInv
<1>2. thread \in [Threads -> Record] /\ next \in [Sides -> Nat] /\ end \in [Sides -> Nat]
  BY <1>1 DEF TypeOK, Record
(* The steps that hand out nothing and do not reach the wake.              *)
<1>3. ASSUME blocks' = blocks, end' = end,
             \A u \in Threads : thread'[u].pc = "wake" => thread'[u] = thread[u]
      PROVE  HandedOK'
  BY <1>3 DEF HandedOK, Before
<1>4. ASSUME NEW t \in Threads, NEW pc \in PC, pc # "wake",
             thread' = [thread EXCEPT ![t].pc = pc]
      PROVE  \A u \in Threads : thread'[u].pc = "wake" => thread'[u] = thread[u]
  BY <1>4, <1>2 DEF Record
<1>5. CASE UNCHANGED vars BY <1>5, <1>3 DEF vars
<1>6. ASSUME NEW t \in Threads, NEW s \in Sides, NEW size \in Nat \ {0}, FetchAndAdd(t, s, size), end' = end
      PROVE  HandedOK'
  <2> DEFINE w == [Idle EXCEPT !.side = s, !.size = size, !.next = next[s], !.end = end[s]]
  <2>1. w.side = s /\ w.next = next[s] /\ w.size = size BY DEF Idle
  <2>2. Idle.pc = "idle" BY DEF Idle
  <2>3. CASE next[s] + size <= end[s] /\ Return(t, w)
    <3>1. blocks' = blocks \cup {Block(w)} /\ thread' = [thread EXCEPT ![t] = Idle]
      BY <2>3 DEF Return
    <3>2. \A u \in Threads : thread'[u].pc = "wake" => thread'[u] = thread[u] BY <3>1, <2>2, <1>2
    <3>3. Before(Block(w)) BY <2>1, <2>3 DEF Before, Block
    <3>. QED BY <3>1, <3>2, <3>3, <1>6 DEF HandedOK, Before
  <2>4. CASE thread' = [thread EXCEPT ![t] = [w EXCEPT !.pc = "grow"]] /\ blocks' = blocks
    <3>1. PICK r : r = [w EXCEPT !.pc = "grow"] OBVIOUS
    <3>2. r.pc = "grow" BY <3>1 DEF Idle
    <3>3. \A u \in Threads : thread'[u].pc = "wake" => thread'[u] = thread[u] BY <3>1, <3>2, <2>4, <1>2
    <3>. QED BY <3>3, <2>4, <1>3, <1>6
  <2>5. CASE thread' = [thread EXCEPT ![t] = [w EXCEPT !.pc = "wait"]] /\ blocks' = blocks
    <3>1. PICK r : r = [w EXCEPT !.pc = "wait"] OBVIOUS
    <3>2. r.pc = "wait" BY <3>1 DEF Idle
    <3>3. \A u \in Threads : thread'[u].pc = "wake" => thread'[u] = thread[u] BY <3>1, <3>2, <2>5, <1>2
    <3>. QED BY <3>3, <2>5, <1>3, <1>6
  <2>. QED BY <2>3, <2>4, <2>5, <1>6 DEF FetchAndAdd
<1>7. ASSUME NEW t \in Threads,
             \/ \E size \in FrontSizes : anv_block_pool_alloc(t, "front", size)
             \/ anv_block_pool_alloc(t, "back", BackSize)
      PROVE  HandedOK'
  BY <1>7, <1>6, PoolAssumption DEF anv_block_pool_alloc, Sides
<1>8. ASSUME NEW t \in Threads, Again(t) PROVE HandedOK'
  <2>1. thread[t].pc = "again" BY <1>8 DEF Again
  <2>2. thread[t].side \in Sides /\ thread[t].size \in Nat BY <1>1, RecordFields
  <2>3. thread[t].size \in Nat \ {0} BY <2>1, <2>2, <1>1 DEF CallsOK
  <2>. QED BY <1>8, <2>2, <2>3, <1>6 DEF Again
<1>9. ASSUME NEW t \in Threads, TestAndSet(t) PROVE HandedOK'
  <2>1. PICK w \in Record : w = thread[t] BY <1>2
  <2>2. /\ w.pc = "got" /\ w.new_end >= w.next + w.size /\ blocks' = blocks
        /\ end' = [end EXCEPT ![w.side] = w.new_end]
        /\ thread' = [thread EXCEPT ![t].pc = "wake"]
    BY <2>1, <1>9 DEF TestAndSet, Goto
  <2>3. w.side \in Sides /\ w.next \in Nat /\ w.size \in Nat /\ w.new_end \in Nat BY DEF Record
  <2>4. end[w.side] < w.next + w.size
    BY <2>1, <2>2, <1>1 DEF BlockPart, GrowersOK, GrowPC, UnpublishedPC
  <2>5. end'[w.side] = w.new_end /\ \A s \in Sides : s # w.side => end'[s] = end[s] BY <2>2, <2>3, <1>2
  <2>6. \A s \in Sides : end[s] <= end'[s] /\ end[s] \in Nat /\ end'[s] \in Nat BY <2>2, <2>3, <2>4, <2>5, <1>2
  <2>7. PICK r : r = [w EXCEPT !.pc = "wake"] OBVIOUS
  <2>8. r.side = w.side /\ r.next = w.next /\ r.size = w.size BY <2>7 DEF Record
  <2>9. thread'[t] = r /\ \A u \in Threads \ {t} : thread'[u] = thread[u] BY <2>1, <2>2, <2>7, <1>2
  <2>10. ASSUME NEW b, b \in blocks \/ \E u \in Threads : thread[u].pc = "wake" /\ b = Block(thread[u])
         PROVE  b.offset + b.size <= end'[b.side]
    <3>1. b \in AllBlocks BY <2>10 DEF AllBlocks, Waiting
    <3>2. b.side \in Sides /\ b.offset \in Nat /\ b.size \in Nat BY <3>1, <1>1, BlockFields
    <3>3. b.offset + b.size <= end[b.side] BY <2>10 DEF HandedOK, Before
    <3>. QED BY <3>2, <3>3, <2>6
  <2>11. ASSUME NEW u \in Threads, thread'[u].pc = "wake" PROVE Before(Block(thread[u]))'
    <3>1. CASE u = t
      BY <3>1, <2>2, <2>5, <2>8, <2>9 DEF Before, Block
    <3>2. CASE u # t
      <4>1. thread'[u] = thread[u] /\ thread[u].pc = "wake" BY <3>2, <2>9, <2>11
      <4>2. PICK b : b = Block(thread[u]) OBVIOUS
      <4>3. b.offset + b.size <= end'[b.side] BY <4>1, <4>2, <2>10
      <4>4. Block(thread[u])' = b BY <4>1, <4>2 DEF Block
      <4>. QED BY <4>3, <4>4 DEF Before
    <3>. QED BY <3>1, <3>2
  <2>12. \A b \in blocks' : Before(b)' BY <2>2, <2>10 DEF Before
  <2>. QED BY <2>11, <2>12 DEF HandedOK
<1>10. ASSUME NEW t \in Threads, FutexWake(t) PROVE HandedOK'
  <2>1. thread[t].pc = "wake" /\ blocks' = blocks \cup {Block(thread[t])} /\ end' = end
    BY <1>10 DEF FutexWake
  <2>2. thread'[t].pc = "idle" BY <1>10 DEF FutexWake, Idle
  <2>3. \A u \in Threads \ {t} :
          thread'[u] = [thread[u] EXCEPT !.pc = "again"] \/ thread'[u] = thread[u]
    BY <1>10 DEF FutexWake
  <2>4. \A u \in Threads : thread'[u].pc = "wake" => thread'[u] = thread[u]
    BY <2>2, <2>3, <1>2 DEF Record
  <2>5. \A b \in blocks' : Before(b) BY <2>1 DEF HandedOK
  <2>. QED BY <2>1, <2>4, <2>5 DEF HandedOK, Before
<1>11. ASSUME NEW t \in Threads,
              \/ FutexWait(t) \/ GrowAgain(t) \/ Lock(t) \/ Gather(t) \/ Expand(t) \/ SetSizeUnlock(t)
              \/ ReadBack(t) \/ ReadFrontFirst(t) \/ ReadFrontSecond(t) \/ ExpandFails(t)
       PROVE  HandedOK'
  <2>1. blocks' = blocks /\ end' = end
    BY <1>11 DEF FutexWait, GrowAgain, Lock, Gather, Expand, SetSizeUnlock, ReadBack, ReadFrontFirst,
                 ReadFrontSecond, ExpandFails
  <2>2. thread'[t].pc # "wake"
    <3>1. thread[t] \in Record BY <1>2
    <3>2. CASE FutexWait(t) BY <3>2, <3>1, <1>2 DEF FutexWait, Goto, Record
    <3>3. CASE GrowAgain(t) BY <3>3, <3>1, <1>2 DEF GrowAgain, Goto, Record
    <3>4. CASE Lock(t) BY <3>4, <3>1, <1>2 DEF Lock, Goto, Record
    <3>5. CASE Gather(t) BY <3>5, <3>1, <1>2 DEF Gather, Goto, Record
    <3>6. CASE Expand(t) BY <3>6, <3>1, <1>2 DEF Expand, Goto, Record
    <3>7. CASE SetSizeUnlock(t) BY <3>7, <3>1, <1>2 DEF SetSizeUnlock, Goto, Record
    <3>8. CASE ReadBack(t) BY <3>8, <3>1, <1>2 DEF ReadBack, Goto, Record
    <3>9. CASE ReadFrontFirst(t) BY <3>9, <3>1, <1>2 DEF ReadFrontFirst, Goto, Record
    <3>10. CASE ReadFrontSecond(t) BY <3>10, <3>1, <1>2 DEF ReadFrontSecond, Goto, Record
    <3>11. CASE ExpandFails(t) BY <3>11, <3>1, <1>2 DEF ExpandFails, Goto, Record
    <3>. QED BY <3>2, <3>3, <3>4, <3>5, <3>6, <3>7, <3>8, <3>9, <3>10, <3>11, <1>11
  <2>3. \A u \in Threads \ {t} : thread'[u] = thread[u]
    BY <1>11, <1>2 DEF FutexWait, GrowAgain, Lock, Gather, Expand, SetSizeUnlock, ReadBack, ReadFrontFirst,
                 ReadFrontSecond, ExpandFails, Goto
  <2>. QED BY <2>1, <2>2, <2>3, <1>3
<1>. QED BY <1>5, <1>7, <1>8, <1>9, <1>10, <1>11 DEF Next, Step

(***************************************************************************)
(* The invariant holds, and what follows from it                           *)
(***************************************************************************)
LEMMA InitHolds == Init => IInv /\ HandedOK
<1> SUFFICES ASSUME Init PROVE IInv /\ HandedOK OBVIOUS
<1>1. Idle \in Record /\ Idle.pc = "idle" BY DEF Idle, Record, PC, Sides
<1>2. thread \in [Threads -> Record] /\ \A t \in Threads : thread[t] = Idle /\ thread[t].pc = "idle"
  BY <1>1 DEF Init
<1>3. blocks = {} /\ allocs = 0 /\ fails = 0 /\ raced = FALSE /\ mutex = NoThread
      /\ boSize = InitialSize /\ center = 0
      /\ next = [s \in Sides |-> 0] /\ end = [s \in Sides |-> 0]
  BY DEF Init
<1>4. TypeOK
  <2>1. allocs \in 0..MaxAllocs /\ fails \in 0..MaxFails BY <1>3, PoolAssumption
  <2>2. boSize \in Nat /\ center \in Nat BY <1>3, PoolAssumption
  <2>3. next \in [Sides -> Nat] /\ end \in [Sides -> Nat] BY <1>3
  <2>. QED BY <2>1, <2>2, <2>3, <1>2, <1>3 DEF TypeOK, Record
<1>5. CallsOK BY <1>2, <1>3, PoolAssumption DEF CallsOK, MutexPC
<1>6. \A t \in Threads : thread[t].pc \notin GrowPC BY <1>2 DEF GrowPC, MutexPC, UnpublishedPC
<1>7. GrowersOK BY <1>3, <1>6 DEF GrowersOK
<1>8. Waiting = {} BY <1>2 DEF Waiting
<1>9. AllBlocks = {} BY <1>2, <1>3 DEF AllBlocks
<1>10. BlockPart
  <2>1. Cardinality({}) = 0 /\ IsFiniteSet({}) BY FS_EmptySet
  <2>2. BlocksOK BY <1>9 DEF BlocksOK
  <2>3. BlocksDisjoint BY <2>1, <1>3, <1>8, <1>9 DEF BlocksDisjoint
  <2>. QED BY <2>1, <2>2, <2>3, <1>7, <1>9 DEF BlockPart
<1>11. 0 % PageSize = 0 BY PoolAssumption
<1>12. SizesOK BY <1>2, <1>3, PoolAssumption DEF SizesOK
<1>13. CenterOK
  <2>1. center <= boSize /\ \A s \in Sides : end[s] <= SideSize(s)
    BY <1>3, PoolAssumption DEF SideSize
  <2>2. \A s \in Sides : end[s] % PageSize = 0 BY <1>3, <1>11
  <2>. QED BY <2>1, <2>2, <1>2, <1>3, <1>11 DEF CenterOK
<1>14. ReadsOK BY <1>2 DEF ReadsOK, ReadOK
<1>15. HandedOK BY <1>2, <1>3 DEF HandedOK
<1>. QED BY <1>4, <1>5, <1>10, <1>12, <1>13, <1>14, <1>15 DEF IInv, SizePart

LEMMA NextKeeps == IInv /\ [Next]_vars => IInv'
<1> SUFFICES ASSUME IInv, [Next]_vars PROVE IInv' OBVIOUS
<1>1. CASE UNCHANGED vars
  BY <1>1 DEF vars, IInv, TypeOK, CallsOK, BlockPart, GrowersOK, BlocksOK, BlocksDisjoint, AllBlocks,
              Waiting, SizePart, SizesOK, CenterOK, ReadsOK, ReadOK, SideSize
<1>2. ASSUME NEW t \in Threads,
             \/ \E size \in FrontSizes : anv_block_pool_alloc(t, "front", size)
             \/ anv_block_pool_alloc(t, "back", BackSize)
             \/ Step(t) \/ ExpandFails(t)
      PROVE  IInv'
  BY <1>2, AllocKeeps, PcKeeps, FutexWakeKeeps, ReadKeeps, ExpandFailsKeeps, GatherKeeps, ExpandKeeps,
     SetSizeUnlockKeeps, TestAndSetKeeps DEF Step
<1>. QED BY <1>1, <1>2 DEF Next

(* The invariant holds in every state the block pool can reach.            *)
THEOREM Invariance == Spec => [](IInv /\ HandedOK)
<1>1. Init => IInv /\ HandedOK BY InitHolds
<1>2. (IInv /\ HandedOK) /\ [Next]_vars => (IInv /\ HandedOK)' BY NextKeeps, HandedKeeps
<1>. QED BY <1>1, <1>2, PTL DEF Spec

(* Every variable of the block pool keeps its type: no size, offset or     *)
(* centre that anv_block_pool_grow computes from words is negative.        *)
THEOREM TypeCorrect == Spec => []TypeOK
<1>1. IInv => TypeOK BY DEF IInv
<1>. QED BY <1>1, Invariance, PTL

(* anv_block_pool_alloc_new gives no two calls overlapping blocks and      *)
(* loses none, however many threads allocate from however many sides, and  *)
(* though the grower overwrites the increments of those that wait.         *)
THEOREM CallsGetDisjointBlocks == Spec => []BlocksDisjoint
<1>1. IInv => BlocksDisjoint BY DEF IInv, BlockPart
<1>. QED BY <1>1, Invariance, PTL

(* With the mutex free the bo holds every block handed out, unless it has  *)
(* grown for one side while a thread was about to publish the end of the   *)
(* other.                                                                  *)
THEOREM PoolHoldsItsBlocks == Spec => []PoolHoldsBlocks
<1>1. ASSUME IInv, HandedOK PROVE PoolHoldsBlocks
  <2>1. SUFFICES ASSUME ~raced, mutex = NoThread
                 PROVE  /\ \A s \in Sides : end[s] <= SideSize(s)
                        /\ \A b \in blocks : b.offset + b.size <= SideSize(b.side)
    BY DEF PoolHoldsBlocks
  <2>2. TypeOK /\ CallsOK /\ CenterOK BY <1>1, <2>1 DEF IInv, SizePart
  <2>3. \A t \in Threads : thread[t].pc # "setsize" BY <2>1, <2>2, PoolAssumption DEF CallsOK, MutexPC
  <2>4. \A s \in Sides : end[s] <= SideSize(s) BY <2>2, <2>3 DEF CenterOK
  <2>5. ASSUME NEW b \in blocks PROVE b.offset + b.size <= SideSize(b.side)
    <3>1. b.side \in Sides /\ b.offset \in Nat /\ b.size \in Nat BY <2>2 DEF TypeOK
    <3>2. b.offset + b.size <= end[b.side] BY <1>1 DEF HandedOK, Before
    <3>3. end[b.side] <= SideSize(b.side) BY <3>1, <2>4
    <3>4. end[b.side] \in Nat BY <3>1, <2>2 DEF TypeOK
    <3>5. SideSize(b.side) \in Int BY <2>2 DEF SideSize, TypeOK
    <3>. QED BY <3>1, <3>2, <3>3, <3>4, <3>5
  <2>. QED BY <2>4, <2>5
<1>2. IInv /\ HandedOK => PoolHoldsBlocks BY <1>1
<1>. QED BY <1>2, Invariance, PTL

(* The assertions of anv_block_pool_grow and anv_block_pool_expand_range   *)
(* do not fail, for every page size and block size, without that race.     *)
THEOREM GrowAssertionsHold == Spec => []GrowAssertions
<1>1. ASSUME IInv PROVE GrowAssertions
  <2>1. SUFFICES ASSUME NEW t \in Threads, ~raced, thread[t].pc = "expand"
                 PROVE  LET w == thread[t]
                            c == NewCenter(w.new_size, w.used)
                        IN /\ w.new_size > boSize
                           /\ w.side = "back" => w.used["back"] > 0
                           /\ c % PageSize = 0
                           /\ w.used["back"] <= c /\ end["back"] <= c
                           /\ end["front"] <= w.new_size - c
    BY DEF GrowAssertions
  <2>2. TypeOK /\ CallsOK /\ SizesOK /\ CenterOK BY <1>1, <2>1 DEF IInv, SizePart
  <2>3. PICK w \in Record : w = thread[t] BY <2>2, RecordFields
  <2>4. /\ end \in [Sides -> Nat] /\ boSize \in Nat /\ center \in Nat
        /\ w.new_size \in Nat /\ w.used \in [Sides -> Nat]
    BY <2>2 DEF TypeOK, Record
  <2>5. /\ w.new_size > boSize /\ w.new_size < WordSize /\ w.new_size % PageSize = 0
        /\ \A s \in Sides : w.used[s] % PageSize = 0
        /\ w.used["back"] = 0 => end["back"] = 0 /\ w.side = "front"
    BY <2>1, <2>2, <2>3 DEF SizesOK
  <2>6. \A u \in Threads : thread[u].pc # "setsize" BY <2>1, <2>2, OneOwner DEF MutexPC
  <2>7. center <= boSize /\ end["back"] <= center /\ end["front"] <= boSize - center
    <3>1. center <= boSize /\ \A s \in Sides : end[s] <= SideSize(s) BY <2>2, <2>6 DEF CenterOK
    <3>. QED BY <3>1 DEF SideSize, Sides
  <2>8. \A s \in Sides : end[s] % PageSize = 0 BY <2>2 DEF CenterOK
  <2>9. /\ w.used["front"] + w.used["back"] <= w.new_size
        /\ w.used["back"] + (boSize - center) <= w.new_size
    BY <2>1, <2>2, <2>3 DEF CenterOK
  <2>10. LET c == NewCenter(w.new_size, w.used)
         IN /\ c % PageSize = 0 /\ w.used["back"] <= c /\ end["back"] <= c
            /\ end["front"] <= w.new_size - c
    <3>1. PICK size \in Nat, used \in [Sides -> Nat] : size = w.new_size /\ used = w.used BY <2>4
    <3>2. \A s \in Sides : end[s] % PageSize = 0 /\ used[s] % PageSize = 0 BY <3>1, <2>5, <2>8
    <3>3. LET c == NewCenter(size, used)
          IN /\ c % PageSize = 0 /\ used["back"] <= c /\ end["back"] <= c
             /\ end["front"] <= size - c
      BY <3>1, <3>2, <2>4, <2>5, <2>7, <2>9, NewCenterOK
    <3>. QED BY <3>1, <3>3
  <2>11. w.used["back"] \in Nat BY <2>4 DEF Sides
  <2>12. w.side = "back" => w.used["back"] > 0 BY <2>5, <2>11
  <2>. QED BY <2>3, <2>5, <2>10, <2>12
<1>2. IInv => GrowAssertions BY <1>1
<1>. QED BY <1>2, Invariance, PTL
=============================================================================
