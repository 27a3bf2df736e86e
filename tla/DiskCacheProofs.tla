-------------------------- MODULE DiskCacheProofs ---------------------------
(***************************************************************************)
(* No reader of the shader cache sees a file that is partly written, for   *)
(* any number of processes, keys and inodes, and any number of kills and   *)
(* of failing calls: ReadersSeeWholeFiles.                                 *)
(*                                                                         *)
(* The property is not inductive.  That rename publishes a whole file      *)
(* needs that the file behind the .tmp name is the one this worker has     *)
(* locked and has written from its start, leftovers of a killed process    *)
(* included; that needs that nobody else can rename or remove the name     *)
(* meanwhile, which follows from the flock, from the test for the final    *)
(* file after it, and from the history, which says that no worker has      *)
(* acted on a .tmp name that is not the file it has open.  That a reader   *)
(* goes on seeing a whole file needs that an inode which was once a final  *)
(* file is never a .tmp file again.                                        *)
(*                                                                         *)
(* The second half is about the size in the shared index: SizeAccounted.   *)
(* A file that a stat has seen, or a rename published, takes the same      *)
(* until its name is gone (SeenOK: nobody can write to it any more), so    *)
(* each step moves what it takes from the directory to the process that    *)
(* has to book it, from there to the size, or to the drift.                *)
(***************************************************************************)
EXTENDS DiskCache, FiniteSetTheorems, SequenceTheorems, WellFoundedInduction, TLAPS

WorkerRec == [pc : WorkerPC, key : Keys \cup {Nobody},
              payload : Payloads \cup {Nobody}, fd : Inodes \cup {None},
              offset : 0..MaxLength, tries : 0..EvictTries,
              victim : Keys \cup {Nobody}, second : BOOLEAN,
              bytes : 0..MaxLength, seen : Inodes \cup {None}]
AppRec == [pc : AppPC, key : Keys \cup {Nobody}, fd : Inodes \cup {None},
           bytes : 0..MaxLength, header : Payloads \cup {Nobody},
           seen : Inodes \cup {None}]
Jobs == [key : Keys, payload : Payloads]

(* Where a worker has the flock of its descriptor.                         *)
Holding == {"final", "write", "rename", "unlinktmp", "stat", "unlinkfinal", "add"}

(* Where it remembers a file.                                              *)
Remembering == {"eunlink", "stat"}

(* What the place in cache_put says about the locals.                      *)
WorkerOK(w) ==
  /\ w \in WorkerRec
  /\ w.pc # "idle" => w.key \in Keys /\ w.payload \in Payloads
  /\ w.pc \in {"estat", "eunlink"} => w.victim \in Keys
  /\ w.pc \in {"choose", "estat", "eunlink", "esub"} => w.tries < EvictTries
  /\ w.pc \in Holding \cup {"flock"} => w.fd \in Inodes
  /\ w.pc \notin Holding \cup {"close"} \/ w.pc = "final" => w.offset = 0
  /\ w.pc = "write" => w.offset < Length[w.payload]
  /\ w.pc = "rename" => w.offset = Length[w.payload]
  /\ w.pc \in Remembering => w.seen \in Inodes

AppOK(a) ==
  /\ a \in AppRec
  /\ a.pc = "unlink" => a.key \in Keys /\ a.seen \in Inodes
  /\ a.pc \in {"header", "data"} => a.fd \in Inodes

LocalsOK == \A p \in Procs : WorkerOK(worker[p]) /\ AppOK(app[p])

(* The flock is held by the worker that has the file open, and only while  *)
(* it is in the part of cache_put between flock and close.                 *)
LocksOK ==
  /\ \A p \in Procs : worker[p].pc \in Holding => flocked[worker[p].fd] = p
  /\ \A i \in Inodes, p \in Procs : flocked[i] = p =>
       worker[p].fd = i /\ worker[p].pc \in Holding \cup {"close"}

(* An inode has one name.                                                  *)
NamesOK ==
  \A j, k \in Keys :
    /\ file[j] # None => file[j] # tmp[k] /\ (j # k => file[j] # file[k])
    /\ tmp[j] # None /\ j # k => tmp[j] # tmp[k]

(* A worker writes the .tmp file of its key.                               *)
WritersOK ==
  ~stray => \A p \in Procs :
    LET w == worker[p]
    IN w.pc \in {"write", "rename"} =>
         /\ tmp[w.key] = w.fd
         /\ w.offset <= Len(content[w.fd])
         /\ \A n \in 1..w.offset : content[w.fd][n] = w.payload

FilesOK == ~stray => \A k \in Keys : file[k] # None => Whole(content[file[k]])

(* What a reader has open is no .tmp file.                                 *)
ReadersOK ==
  ~stray => \A p \in Procs : app[p].pc \in {"header", "data"} =>
    /\ \A k \in Keys : tmp[k] # app[p].fd
    /\ Whole(content[app[p].fd])
    /\ app[p].pc = "data" => content[app[p].fd][1] = app[p].header

(* Nor is the file that a stat has seen, or a rename published, which      *)
(* still takes what it took then.                                          *)
Sees(x) == (\A k \in Keys : tmp[k] # x.seen) /\ Len(content[x.seen]) = x.bytes

SeenOK ==
  ~stray => \A p \in Procs :
    /\ worker[p].pc \in Remembering => Sees(worker[p])
    /\ app[p].pc = "unlink" => Sees(app[p])

(* The inductive invariant.                                                *)
IInv ==
  /\ TypeOK /\ queue \in [Procs -> Seq(Jobs)]
  /\ LocalsOK /\ LocksOK /\ NamesOK /\ WritersOK /\ FilesOK /\ ReadersOK /\ SeenOK


(***************************************************************************)
(* Lemmas about the contents of files                                      *)
(***************************************************************************)
LEMMA ContentsAreSeqs ==
  ASSUME NEW c \in Contents
  PROVE  c \in Seq(Payloads) /\ Len(c) \in 0..MaxLength
BY CacheAssumption DEF Contents

LEMMA LengthIs ==
  ASSUME NEW e \in Payloads
  PROVE  Length[e] \in 2..MaxLength /\ Length[e] \in Nat /\ MaxLength \in Nat
BY CacheAssumption

(* A file is whole when it begins with all the chunks of a payload.        *)
LEMMA WholeHasHeader ==
  ASSUME NEW c \in Contents, Whole(c)
  PROVE  c # << >> /\ c[1] \in Payloads /\ Len(c) >= 2
<1>1. PICK e \in Payloads : Len(c) >= Length[e] /\ \A n \in 1..Length[e] : c[n] = e
  BY DEF Whole
<1>2. Length[e] \in Nat /\ Length[e] >= 2
  BY LengthIs
<1> QED BY <1>1, <1>2, ContentsAreSeqs

(* One write: what was written before it stays.                            *)
Written(c, offset, e) ==
  IF offset < Len(c) THEN [c EXCEPT ![offset + 1] = e] ELSE Append(c, e)

LEMMA WriteChunk ==
  ASSUME NEW c \in Contents, NEW e \in Payloads, NEW o \in Nat, o < Length[e]
  PROVE  /\ Written(c, o, e) \in Contents
         /\ o <= Len(c) /\ (\A n \in 1..o : c[n] = e) =>
              /\ o + 1 <= Len(Written(c, o, e))
              /\ \A n \in 1..(o + 1) : Written(c, o, e)[n] = e
<1>1. c \in Seq(Payloads) /\ Len(c) \in 0..MaxLength /\ o < MaxLength /\ MaxLength \in Nat
  BY ContentsAreSeqs, LengthIs
<1>2. CASE o < Len(c)
  <2>1. PICK d : d = [c EXCEPT ![o + 1] = e]
    OBVIOUS
  <2>2. d \in Seq(Payloads) /\ Len(d) = Len(c)
    BY <1>1, <1>2, <2>1
  <2>3. \A n \in 1..Len(c) : d[n] = IF n = o + 1 THEN e ELSE c[n]
    BY <1>1, <2>1
  <2>4. d \in Contents
    BY <1>1, <2>2 DEF Contents
  <2>5. Written(c, o, e) = d
    BY <1>2, <2>1 DEF Written
  <2> QED BY <1>1, <1>2, <2>2, <2>3, <2>4, <2>5
<1>3. CASE o >= Len(c)
  <2>1. PICK d : d = Append(c, e)
    OBVIOUS
  <2>2. d \in Seq(Payloads) /\ Len(d) = Len(c) + 1
    BY <1>1, <2>1
  <2>3. (\A n \in 1..Len(c) : d[n] = c[n]) /\ d[Len(c) + 1] = e
    BY <1>1, <2>1
  <2>4. d \in Contents
    BY <1>1, <1>3, <2>2 DEF Contents
  <2>5. Written(c, o, e) = d
    BY <1>1, <1>3, <2>1 DEF Written
  <2> QED BY <1>1, <1>3, <2>2, <2>3, <2>4, <2>5
<1> QED BY <1>1, <1>2, <1>3

(* A set of numbers that is not empty has a smallest element, which Min    *)
(* returns.                                                                *)
LEMMA MinOfSet ==
  ASSUME NEW S, S \subseteq Nat, S # {}
  PROVE  Min(S) \in S
<1>1. IsWellFoundedOn({ss \in Nat \X Nat : ss[1] < ss[2]}, Nat)
  BY NatLessThanWellFounded DEF OpToRel
<1>2. PICK x \in S : \A y \in S : ~(<<y, x>> \in {ss \in Nat \X Nat : ss[1] < ss[2]})
  BY <1>1, WFMin
<1>3. ASSUME NEW y \in S  PROVE x <= y
  <2>1. <<y, x>> \in Nat \X Nat /\ <<y, x>>[1] = y /\ <<y, x>>[2] = x
    OBVIOUS
  <2>2. ~(y < x)
    BY <1>2, <2>1
  <2> QED BY <2>2
<1> QED BY <1>3 DEF Min

(* The parts of TypeOK.                                                    *)
FilesType ==
  /\ file \in [Keys -> Inodes \cup {None}] /\ tmp \in [Keys -> Inodes \cup {None}]
  /\ content \in [Inodes -> Contents]
  /\ flocked \in [Inodes -> Procs \cup {Nobody}]

CountsType ==
  /\ size \in 0..(SizeWord - 1)
  /\ puts \in 0..MaxPuts /\ removes \in 0..MaxRemoves
  /\ faults \in 0..MaxFaults
  /\ stray \in BOOLEAN /\ drift \in Int
  /\ queue \in [Procs -> Seq(Jobs)]

LocalsType == worker \in [Procs -> WorkerRec] /\ app \in [Procs -> AppRec]

LEMMA TypeParts ==
  FilesType /\ CountsType /\ LocalsType <=> TypeOK /\ queue \in [Procs -> Seq(Jobs)]
BY DEF TypeOK, FilesType, CountsType, LocalsType, WorkerRec, AppRec, Jobs

LEMMA TypePartsNext ==
  ASSUME FilesType', CountsType', LocalsType'
  PROVE  TypeOK' /\ queue' \in [Procs -> Seq(Jobs)]
BY DEF TypeOK, FilesType, CountsType, LocalsType, WorkerRec, AppRec, Jobs

LEMMA Constants ==
  /\ None \notin Inodes /\ Nobody \notin Procs /\ Nobody \notin Keys /\ Inodes \subseteq Nat
  /\ SizeWord \in Nat /\ SizeWord > 0 /\ EvictTries \in Nat
  /\ MaxPuts \in Nat /\ MaxRemoves \in Nat /\ MaxFaults \in Nat /\ MaxLength \in Nat
BY CacheAssumption DEF None, Inodes


(***************************************************************************)
(* The invariant holds initially.                                          *)
(***************************************************************************)
LEMMA IdleLocals == WorkerOK(IdleWorker) /\ AppOK(IdleApp)
<1>1. IdleWorker \in WorkerRec
  BY Constants DEF IdleWorker, WorkerRec, WorkerPC
<1>2. IdleApp \in AppRec
  BY Constants DEF IdleApp, AppRec, AppPC
<1> QED BY <1>1, <1>2 DEF WorkerOK, AppOK, IdleWorker, IdleApp, Holding, Remembering

LEMMA InitIInv ==
  ASSUME Init
  PROVE  IInv
<1> USE Constants DEF Init
<1>1. FilesType
  <2>1. << >> \in Contents
    BY DEF Contents
  <2> QED BY <2>1 DEF FilesType
<1>2. CountsType
  <2>1. size \in 0..(SizeWord - 1) /\ drift \in Int
    <3>1. 0 \in 0..(SizeWord - 1) /\ size = 0 /\ drift = 0
      OBVIOUS
    <3> QED BY <3>1
  <2>2. queue \in [Procs -> Seq(Jobs)]
    <3>1. << >> \in Seq(Jobs)
      OBVIOUS
    <3> QED BY <3>1
  <2>3. 0 \in 0..MaxPuts /\ 0 \in 0..MaxRemoves /\ 0 \in 0..MaxFaults
    OBVIOUS
  <2>4. puts = 0 /\ removes = 0 /\ faults = 0 /\ stray = FALSE
    OBVIOUS
  <2> QED BY <2>1, <2>2, <2>3, <2>4, Zenon DEF CountsType
<1>3. LocalsType /\ LocalsOK
  BY IdleLocals DEF LocalsType, LocalsOK, WorkerOK, AppOK
<1>4. LocksOK
  BY DEF LocksOK, IdleWorker, Holding
<1>5. NamesOK /\ FilesOK
  BY DEF NamesOK, FilesOK
<1>6. WritersOK /\ ReadersOK /\ SeenOK
  BY DEF WritersOK, ReadersOK, SeenOK, Remembering, IdleWorker, IdleApp
<1> QED BY <1>1, <1>2, <1>3, <1>4, <1>5, <1>6, TypeParts DEF IInv

(***************************************************************************)
(* Every step preserves it: first the steps that write no file and lock    *)
(* none, and at most remove final files.                                   *)
(***************************************************************************)
QuietWorker(w, v) ==
  /\ v.fd = w.fd
  /\ v.pc \in Holding => w.pc \in Holding
  /\ w.pc \in Holding \cup {"close"} => v.pc \in Holding \cup {"close"}
  /\ v.pc \in {"write", "rename"} => v = w
  /\ v.pc \in Remembering => v = w \/ (~stray => Sees(v))

QuietApp(a, b) ==
  /\ b.pc \in {"header", "data"} => b = a
  /\ b.pc = "unlink" => b = a \/ (~stray => Sees(b))

FilesRemoved ==
  /\ file' \in [Keys -> Inodes \cup {None}] /\ \A k \in Keys : file'[k] \in {file[k], None}
  /\ UNCHANGED <<tmp, content, flocked>>

LEMMA QuietIInv ==
  ASSUME IInv, CountsType', FilesRemoved, ~stray' => ~stray, LocalsType',
         \A p \in Procs : WorkerOK(worker'[p]) /\ QuietWorker(worker[p], worker'[p]),
         \A p \in Procs : AppOK(app'[p]) /\ QuietApp(app[p], app'[p])
  PROVE  IInv'
<1> USE Constants
<1>0. FilesType /\ LocalsOK /\ LocksOK /\ NamesOK /\ WritersOK /\ FilesOK /\ ReadersOK /\ SeenOK
  BY TypeParts DEF IInv
<1>1. FilesType'
  BY <1>0 DEF FilesType, FilesRemoved
<1>2. LocalsOK'
  BY DEF LocalsOK
<1>3. LocksOK'
  BY <1>0 DEF LocksOK, QuietWorker, FilesRemoved
<1>4. NamesOK'
  BY <1>0 DEF NamesOK, FilesRemoved, FilesType
<1>5. FilesOK'
  BY <1>0 DEF FilesOK, FilesRemoved
<1>6. WritersOK'
  <2>1. SUFFICES ASSUME ~stray', NEW p \in Procs, worker'[p].pc \in {"write", "rename"}
                 PROVE  LET w == worker'[p]
                        IN /\ tmp'[w.key] = w.fd
                           /\ w.offset <= Len(content'[w.fd])
                           /\ \A n \in 1..w.offset : content'[w.fd][n] = w.payload
    BY DEF WritersOK
  <2>2. worker'[p] = worker[p] /\ ~stray /\ worker[p].key \in Keys
    BY <1>0, <2>1 DEF QuietWorker, LocalsOK, WorkerOK
  <2> QED BY <1>0, <2>1, <2>2 DEF WritersOK, FilesRemoved
<1>7. ReadersOK'
  BY <1>0 DEF ReadersOK, FilesRemoved, QuietApp
<1>8. SeenOK'
  BY <1>0 DEF SeenOK, Sees, FilesRemoved, QuietWorker, QuietApp
<1> QED BY <1>1, <1>2, <1>3, <1>4, <1>5, <1>6, <1>7, <1>8, TypePartsNext DEF IInv

(* The same for a step of one worker, or of one application thread.        *)
LEMMA QuietWorkerIInv ==
  ASSUME IInv, NEW p \in Procs, NEW r, worker' = [worker EXCEPT ![p] = r], WorkerOK(r),
         QuietWorker(worker[p], r), CountsType', FilesRemoved, ~stray' => ~stray, UNCHANGED app
  PROVE  IInv'
<1>0. LocalsType /\ LocalsOK
  BY TypeParts DEF IInv
<1>1. LocalsType'
  BY <1>0 DEF LocalsType, WorkerOK
<1>2. ASSUME NEW q \in Procs
      PROVE  WorkerOK(worker'[q]) /\ QuietWorker(worker[q], worker'[q])
  <2>1. CASE q = p
    BY <1>0, <2>1 DEF LocalsType
  <2>2. CASE q # p
    BY <1>0, <2>2 DEF LocalsType, LocalsOK, QuietWorker
  <2> QED BY <2>1, <2>2
<1>3. \A q \in Procs : AppOK(app'[q]) /\ QuietApp(app[q], app'[q])
  BY <1>0 DEF LocalsOK, QuietApp
<1> QED BY <1>1, <1>2, <1>3, QuietIInv

LEMMA QuietAppIInv ==
  ASSUME IInv, NEW p \in Procs, NEW r, app' = [app EXCEPT ![p] = r], AppOK(r),
         QuietApp(app[p], r), CountsType', FilesRemoved, ~stray' => ~stray, UNCHANGED worker
  PROVE  IInv'
<1>0. LocalsType /\ LocalsOK
  BY TypeParts DEF IInv
<1>1. LocalsType'
  BY <1>0 DEF LocalsType, AppOK
<1>2. \A q \in Procs : WorkerOK(worker'[q]) /\ QuietWorker(worker[q], worker'[q])
  BY <1>0 DEF LocalsOK, QuietWorker
<1>3. ASSUME NEW q \in Procs
      PROVE  AppOK(app'[q]) /\ QuietApp(app[q], app'[q])
  <2>1. CASE q = p
    BY <1>0, <2>1 DEF LocalsType
  <2>2. CASE q # p
    BY <1>0, <2>2 DEF LocalsType, LocalsOK, QuietApp
  <2> QED BY <2>1, <2>2
<1> QED BY <1>1, <1>2, <1>3, QuietIInv

LEMMA SameFiles ==
  ASSUME IInv, UNCHANGED fs
  PROVE  FilesRemoved
BY DEF IInv, TypeOK, FilesRemoved, fs

LEMMA UnlinkRemoves ==
  ASSUME IInv, NEW k \in Keys, file' = [file EXCEPT ![k] = None], UNCHANGED <<tmp, content, flocked>>
  PROVE  FilesRemoved
BY DEF IInv, TypeOK, FilesRemoved

LEMMA OnDiskBounded ==
  ASSUME IInv, NEW k \in Keys
  PROVE  OnDisk(k) \in 0..MaxLength
<1>1. CASE file[k] = None
  BY <1>1, Constants DEF OnDisk
<1>2. CASE file[k] # None
  <2>1. content[file[k]] \in Contents
    BY <1>2, TypeParts DEF IInv, FilesType
  <2> QED BY <1>2, <2>1, ContentsAreSeqs DEF OnDisk
<1> QED BY <1>1, <1>2

(* What is known of a worker and of the counters before its step.          *)
LEMMA WorkerFacts ==
  ASSUME IInv, NEW p \in Procs
  PROVE  WorkerOK(worker[p]) /\ worker[p] \in WorkerRec /\ AppOK(app[p]) /\ app[p] \in AppRec
         /\ CountsType /\ LocalsType /\ FilesType
BY TypeParts DEF IInv, LocalsOK, LocalsType


(***************************************************************************)
(* The steps of the worker that touch no .tmp file.                        *)
(***************************************************************************)
LEMMA PutStartIInv ==
  ASSUME IInv, NEW p \in Procs, PutStart(p)
  PROVE  IInv'
<1> USE DEF PutStart
<1>0. WorkerOK(worker[p]) /\ worker[p] \in WorkerRec /\ CountsType
  BY WorkerFacts
<1>1. PICK r : r = [worker[p] EXCEPT !.pc = "evict", !.key = Head(queue[p]).key,
                                     !.payload = Head(queue[p]).payload]
  OBVIOUS
<1>2. /\ queue[p] \in Seq(Jobs) /\ Tail(queue[p]) \in Seq(Jobs)
      /\ Head(queue[p]).key \in Keys /\ Head(queue[p]).payload \in Payloads
  <2>1. queue[p] \in Seq(Jobs) /\ queue[p] # << >>
    BY <1>0 DEF CountsType
  <2>2. Head(queue[p]) \in Jobs /\ Tail(queue[p]) \in Seq(Jobs)
    BY <2>1
  <2> QED BY <2>1, <2>2 DEF Jobs
<1>3. WorkerOK(r)
  <2>1. /\ r \in WorkerRec /\ r.pc = "evict" /\ r.key \in Keys /\ r.payload \in Payloads
        /\ r.offset = worker[p].offset
    BY <1>0, <1>1, <1>2 DEF WorkerRec, WorkerPC
  <2> QED BY <1>0, <2>1 DEF WorkerOK, Holding, Remembering
<1>4. QuietWorker(worker[p], r)
  BY <1>0, <1>1 DEF QuietWorker, WorkerRec, Holding, Remembering
<1>5. worker' = [worker EXCEPT ![p] = r]
  BY <1>1
<1>6. CountsType'
  BY <1>0, <1>2 DEF CountsType, bounds, history
<1> QED BY <1>3, <1>4, <1>5, <1>6, SameFiles, QuietWorkerIInv DEF history

(* A step that only moves the worker, to a place with no new duties.       *)
LEMMA GotoIInv ==
  ASSUME IInv, NEW p \in Procs, NEW pc \in WorkerPC \ {"idle", "write", "rename", "eunlink", "stat"}, Goto(p, pc),
         worker[p].pc # "idle",
         pc = "estat" => worker[p].victim \in Keys,
         pc \in {"choose", "estat", "esub"} => worker[p].tries < EvictTries,
         pc \in Holding \cup {"flock"} => worker[p].pc \in Holding,
         pc \notin Holding \cup {"close"} \/ pc = "final" => worker[p].offset = 0,
         worker[p].pc \in Holding \cup {"close"} => pc \in Holding \cup {"close"},
         CountsType', FilesRemoved, ~stray' => ~stray, UNCHANGED app
  PROVE  IInv'
<1>0. WorkerOK(worker[p]) /\ worker[p] \in WorkerRec
  BY WorkerFacts
<1>1. PICK r : r = [worker[p] EXCEPT !.pc = pc]
  OBVIOUS
<1>2. /\ r \in WorkerRec /\ r.pc = pc /\ r.key = worker[p].key /\ r.victim = worker[p].victim
      /\ r.tries = worker[p].tries /\ r.fd = worker[p].fd /\ r.offset = worker[p].offset
      /\ r.payload = worker[p].payload
  BY <1>0, <1>1 DEF WorkerRec
<1>3. WorkerOK(r)
  BY <1>0, <1>2 DEF WorkerOK, Holding, Remembering
<1>4. QuietWorker(worker[p], r)
  BY <1>2 DEF QuietWorker, Holding, Remembering
<1>5. worker' = [worker EXCEPT ![p] = r]
  BY <1>1 DEF Goto
<1> QED BY <1>3, <1>4, <1>5, QuietWorkerIInv

LEMMA EvictLoopIInv ==
  ASSUME IInv, NEW p \in Procs, EvictLoop(p)
  PROVE  IInv'
<1>0. WorkerOK(worker[p]) /\ worker[p] \in WorkerRec /\ CountsType /\ worker[p].pc = "evict"
  BY WorkerFacts DEF EvictLoop
<1>1. CountsType' /\ FilesRemoved /\ UNCHANGED <<app, stray>>
  BY <1>0, SameFiles DEF EvictLoop, CountsType, bounds, history
<1>2. worker[p].offset = 0
  BY <1>0 DEF WorkerOK, Holding
<1>3. CASE TooLarge(p)
  BY <1>0, <1>1, <1>2, <1>3, GotoIInv DEF EvictLoop, TooLarge, Holding, WorkerPC
<1>4. CASE ~TooLarge(p)
  BY <1>0, <1>1, <1>2, <1>4, GotoIInv DEF EvictLoop, Holding, WorkerPC
<1> QED BY <1>3, <1>4

(* Giving up a victim, or the eviction, is a move of the worker.           *)
LEMMA NothingFoundOK ==
  ASSUME IInv, NEW p \in Procs, worker[p].pc \in {"choose", "estat", "eunlink", "esub"}
  PROVE  /\ WorkerOK(NothingFound(worker[p])) /\ QuietWorker(worker[p], NothingFound(worker[p]))
         /\ WorkerOK(NextTry(worker[p])) /\ QuietWorker(worker[p], NextTry(worker[p]))
<1>0. /\ WorkerOK(worker[p]) /\ worker[p] \in WorkerRec
      /\ worker[p].tries < EvictTries /\ worker[p].offset = 0 /\ worker[p].key \in Keys
      /\ worker[p].tries \in Nat /\ worker[p].tries + 1 \in 0..EvictTries
      /\ worker[p].payload \in Payloads
  <2>1. /\ WorkerOK(worker[p]) /\ worker[p] \in WorkerRec
        /\ worker[p].tries < EvictTries /\ worker[p].offset = 0 /\ worker[p].key \in Keys
        /\ worker[p].payload \in Payloads
    BY WorkerFacts DEF WorkerOK, Holding
  <2> QED BY <2>1, Constants DEF WorkerRec
<1>1. PICK r : r = [worker[p] EXCEPT !.pc = "choose", !.second = TRUE, !.victim = Nobody,
                                    !.seen = None]
  OBVIOUS
<1>2. /\ r \in WorkerRec /\ r.pc = "choose" /\ r.key = worker[p].key /\ r.tries = worker[p].tries
      /\ r.fd = worker[p].fd /\ r.offset = worker[p].offset /\ r.payload = worker[p].payload
  BY <1>0, <1>1 DEF WorkerRec, WorkerPC
<1>3. WorkerOK(r) /\ QuietWorker(worker[p], r)
  BY <1>0, <1>2 DEF WorkerOK, QuietWorker, Holding, Remembering
<1>4. PICK s : s = NextTry(worker[p])
  OBVIOUS
<1>5. /\ s \in WorkerRec /\ s.pc = "evict" /\ s.key = worker[p].key
      /\ s.fd = worker[p].fd /\ s.offset = worker[p].offset /\ s.payload = worker[p].payload
  BY <1>0, <1>4, Constants DEF WorkerRec, WorkerPC, NextTry
<1>6. WorkerOK(s) /\ QuietWorker(worker[p], s)
  BY <1>0, <1>5 DEF WorkerOK, QuietWorker, Holding, Remembering
<1>7. NothingFound(worker[p]) \in {r, s}
  BY <1>1, <1>4 DEF NothingFound
<1> QED BY <1>3, <1>4, <1>6, <1>7

LEMMA EvictChooseIInv ==
  ASSUME IInv, NEW p \in Procs, EvictChoose(p)
  PROVE  IInv'
<1>0. WorkerOK(worker[p]) /\ worker[p] \in WorkerRec /\ CountsType /\ worker[p].pc = "choose"
  BY WorkerFacts DEF EvictChoose
<1>1. CountsType' /\ FilesRemoved /\ UNCHANGED <<app, stray>>
  BY <1>0, SameFiles DEF EvictChoose, CountsType, bounds, history
<1>2. CASE \E k \in Keys : worker' = [worker EXCEPT ![p].pc = "estat", ![p].victim = k]
  <2>1. PICK k \in Keys : worker' = [worker EXCEPT ![p].pc = "estat", ![p].victim = k]
    BY <1>2
  <2>2. PICK r : r = [worker[p] EXCEPT !.pc = "estat", !.victim = k]
    OBVIOUS
  <2>3. /\ r \in WorkerRec /\ r.pc = "estat" /\ r.key = worker[p].key /\ r.tries = worker[p].tries
        /\ r.victim \in Keys /\ r.fd = worker[p].fd /\ r.offset = worker[p].offset
        /\ r.payload = worker[p].payload
    BY <1>0, <2>2 DEF WorkerRec, WorkerPC
  <2>4. WorkerOK(r) /\ QuietWorker(worker[p], r)
    BY <1>0, <2>3 DEF WorkerOK, QuietWorker, Holding, Remembering
  <2>5. worker' = [worker EXCEPT ![p] = r]
    BY <2>1, <2>2
  <2> QED BY <1>1, <2>4, <2>5, QuietWorkerIInv
<1>3. CASE worker' = [worker EXCEPT ![p] = NothingFound(@)]
  BY <1>0, <1>1, <1>3, NothingFoundOK, QuietWorkerIInv
<1> QED BY <1>2, <1>3 DEF EvictChoose

(* A file that a name stands for can be remembered.                        *)
LEMMA SeesFile ==
  ASSUME IInv, NEW k \in Keys, file[k] # None, NEW x, x.seen = file[k], x.bytes = OnDisk(k)
  PROVE  Sees(x)
BY DEF IInv, NamesOK, Sees, OnDisk

LEMMA EvictStatIInv ==
  ASSUME IInv, NEW p \in Procs, EvictStat(p)
  PROVE  IInv'
<1>0. /\ WorkerOK(worker[p]) /\ worker[p] \in WorkerRec /\ CountsType /\ worker[p].pc = "estat"
      /\ worker[p].victim \in Keys /\ FilesType
  BY WorkerFacts DEF EvictStat, WorkerOK
<1>1. CountsType' /\ FilesRemoved /\ UNCHANGED <<app, stray>>
  BY <1>0, SameFiles DEF EvictStat, CountsType, bounds, history
<1>2. CASE file[worker[p].victim] = None
  <2>1. worker' = [worker EXCEPT ![p] = NothingFound(worker[p])]
    BY <1>2 DEF EvictStat
  <2> QED BY <1>0, <1>1, <2>1, NothingFoundOK, QuietWorkerIInv
<1>3. CASE file[worker[p].victim] # None
  <2>1. PICK r : r = [worker[p] EXCEPT !.pc = "eunlink", !.bytes = OnDisk(worker[p].victim),
                                       !.seen = file[worker[p].victim]]
    OBVIOUS
  <2>2. file[worker[p].victim] \in Inodes
    BY <1>0, <1>3 DEF FilesType
  <2>3. /\ r \in WorkerRec /\ r.pc = "eunlink" /\ r.key = worker[p].key /\ r.tries = worker[p].tries
        /\ r.victim = worker[p].victim /\ r.fd = worker[p].fd /\ r.offset = worker[p].offset
        /\ r.payload = worker[p].payload
        /\ r.seen = file[worker[p].victim] /\ r.bytes = OnDisk(worker[p].victim)
    BY <1>0, <2>1, <2>2, OnDiskBounded DEF WorkerRec, WorkerPC
  <2>4. Sees(r)
    BY <1>0, <1>3, <2>3, SeesFile
  <2>5. WorkerOK(r) /\ QuietWorker(worker[p], r)
    BY <1>0, <2>2, <2>3, <2>4 DEF WorkerOK, QuietWorker, Holding, Remembering
  <2>6. worker' = [worker EXCEPT ![p] = r]
    BY <1>3, <2>1 DEF EvictStat
  <2> QED BY <1>1, <2>5, <2>6, QuietWorkerIInv
<1> QED BY <1>2, <1>3

(* A failing call is counted.                                              *)
LEMMA FaultCounted ==
  ASSUME CountsType, Fault, size' = size, queue' = queue, stray' \in BOOLEAN, drift' \in Int
  PROVE  CountsType'
BY Constants DEF CountsType, Fault

LEMMA EvictLookFailsIInv ==
  ASSUME IInv, NEW p \in Procs, EvictLookFails(p)
  PROVE  IInv'
<1>0. CountsType /\ worker[p].pc \in {"choose", "estat"}
  BY WorkerFacts DEF EvictLookFails
<1>1. CountsType' /\ FilesRemoved /\ UNCHANGED <<app, stray>>
  <2>1. stray' \in BOOLEAN /\ drift' \in Int /\ Fault /\ size' = size /\ queue' = queue
    BY <1>0 DEF EvictLookFails, CountsType, history
  <2>2. CountsType'
    BY <1>0, <2>1, FaultCounted
  <2> QED BY <2>2, SameFiles DEF EvictLookFails, history
<1>2. worker' = [worker EXCEPT ![p] = NothingFound(worker[p])]
  BY DEF EvictLookFails
<1> QED BY <1>0, <1>1, <1>2, NothingFoundOK, QuietWorkerIInv

LEMMA UnlinkedOK ==
  ASSUME IInv, NEW p \in Procs, worker[p].pc = "eunlink"
  PROVE  WorkerOK(Unlinked(worker[p])) /\ QuietWorker(worker[p], Unlinked(worker[p]))
<1>0. WorkerOK(worker[p]) /\ worker[p] \in WorkerRec
  BY WorkerFacts
<1>1. PICK r : r = [worker[p] EXCEPT !.pc = "esub", !.seen = None]
  OBVIOUS
<1>2. /\ r \in WorkerRec /\ r.pc = "esub" /\ r.key = worker[p].key /\ r.tries = worker[p].tries
      /\ r.victim = worker[p].victim /\ r.fd = worker[p].fd /\ r.offset = worker[p].offset
      /\ r.payload = worker[p].payload
  BY <1>0, <1>1 DEF WorkerRec, WorkerPC
<1>3. WorkerOK(r) /\ QuietWorker(worker[p], r)
  BY <1>0, <1>2 DEF WorkerOK, QuietWorker, Holding, Remembering
<1>4. Unlinked(worker[p]) \in {NothingFound(worker[p]), r}
  BY <1>1 DEF Unlinked
<1> QED BY <1>3, <1>4, NothingFoundOK

LEMMA MistakenIsInt ==
  ASSUME IInv, NEW k \in Keys, NEW x, x.bytes \in Int
  PROVE  Mistaken(k, x) \in Int
<1>1. OnDisk(k) \in Int
  BY OnDiskBounded, Constants
<1> QED BY <1>1 DEF Mistaken

LEMMA EvictUnlinkIInv ==
  ASSUME IInv, NEW p \in Procs, EvictUnlink(p)
  PROVE  IInv'
<1>0. /\ WorkerOK(worker[p]) /\ worker[p] \in WorkerRec /\ CountsType /\ worker[p].pc = "eunlink"
      /\ worker[p].victim \in Keys /\ worker[p].bytes \in Int
  BY WorkerFacts DEF EvictUnlink, WorkerOK, WorkerRec
<1>1. CountsType' /\ FilesRemoved /\ UNCHANGED <<app, stray>>
  <2>1. UnlinkFile(worker[p].victim, worker[p]) /\ UNCHANGED <<size, queue, app, bounds>>
    BY DEF EvictUnlink
  <2>2. FilesRemoved
    BY <1>0, <2>1, UnlinkRemoves DEF UnlinkFile
  <2>3. Mistaken(worker[p].victim, worker[p]) \in Int
    BY <1>0, MistakenIsInt
  <2>4. drift' \in Int
    BY <1>0, <2>1, <2>3 DEF UnlinkFile, CountsType
  <2> QED BY <1>0, <2>1, <2>2, <2>4 DEF UnlinkFile, CountsType, bounds
<1>2. worker' = [worker EXCEPT ![p] = Unlinked(worker[p])]
  BY DEF EvictUnlink
<1> QED BY <1>0, <1>1, <1>2, UnlinkedOK, QuietWorkerIInv

LEMMA EvictUnlinkFailsIInv ==
  ASSUME IInv, NEW p \in Procs, EvictUnlinkFails(p)
  PROVE  IInv'
<1>0. CountsType /\ worker[p].pc = "eunlink" /\ worker[p].bytes \in Int
  BY WorkerFacts DEF EvictUnlinkFails, WorkerRec
<1>1. CountsType' /\ FilesRemoved /\ UNCHANGED <<app, stray>>
  <2>1. /\ Fault /\ drift' = drift - worker[p].bytes /\ UNCHANGED <<fs, stray>>
        /\ size' = size /\ queue' = queue /\ app' = app
    BY DEF EvictUnlinkFails, UnlinkFileFails
  <2>2. stray' \in BOOLEAN /\ drift' \in Int
    BY <1>0, <2>1 DEF CountsType
  <2>3. CountsType'
    BY <1>0, <2>1, <2>2, FaultCounted
  <2> QED BY <2>1, <2>3, SameFiles
<1>2. worker' = [worker EXCEPT ![p] = Unlinked(worker[p])]
  BY DEF EvictUnlinkFails
<1> QED BY <1>0, <1>1, <1>2, UnlinkedOK, QuietWorkerIInv

(* The size stays a word.                                                  *)
LEMMA SizeIsWord ==
  ASSUME NEW n \in Int
  PROVE  n % SizeWord \in 0..(SizeWord - 1)
BY Constants

LEMMA EvictSubIInv ==
  ASSUME IInv, NEW p \in Procs, EvictSub(p)
  PROVE  IInv'
<1>0. /\ WorkerOK(worker[p]) /\ worker[p] \in WorkerRec /\ CountsType /\ worker[p].pc = "esub"
      /\ worker[p].bytes \in Int
  BY WorkerFacts DEF EvictSub, WorkerRec
<1>1. CountsType' /\ FilesRemoved /\ UNCHANGED <<app, stray>>
  <2>1. size - worker[p].bytes \in Int
    BY <1>0, Constants DEF CountsType
  <2>2. size' \in 0..(SizeWord - 1)
    BY <2>1, SizeIsWord DEF EvictSub
  <2> QED BY <1>0, <2>2, SameFiles DEF EvictSub, CountsType, bounds, history
<1>2. worker' = [worker EXCEPT ![p] = NextTry(worker[p])]
  BY DEF EvictSub
<1> QED BY <1>0, <1>1, <1>2, NothingFoundOK, QuietWorkerIInv

(* The failing calls after which cache_put only tidies up.                 *)
LEMMA FailuresIInv ==
  ASSUME IInv, NEW p \in Procs,
         OpenOrFlockFails(p) \/ WriteOrRenameFails(p) \/ LastUnlinkFails(p)
  PROVE  IInv'
<1>0. WorkerOK(worker[p]) /\ worker[p] \in WorkerRec /\ CountsType
  BY WorkerFacts
<1>1. CountsType' /\ FilesRemoved /\ UNCHANGED <<app, stray>>
  <2>1. stray' \in BOOLEAN /\ drift' \in Int /\ Fault /\ size' = size /\ queue' = queue
    BY <1>0 DEF OpenOrFlockFails, WriteOrRenameFails, LastUnlinkFails, CountsType, history
  <2>2. CountsType'
    BY <1>0, <2>1, FaultCounted
  <2>3. UNCHANGED <<fs, app, stray>>
    BY DEF OpenOrFlockFails, WriteOrRenameFails, LastUnlinkFails, history
  <2> QED BY <2>2, <2>3, SameFiles
<1>2. CASE OpenOrFlockFails(p)
  BY <1>0, <1>1, <1>2, GotoIInv DEF OpenOrFlockFails, WorkerPC, Holding
<1>3. CASE WriteOrRenameFails(p)
  BY <1>0, <1>1, <1>3, GotoIInv DEF WriteOrRenameFails, WorkerPC, Holding
<1>4. CASE LastUnlinkFails(p)
  BY <1>0, <1>1, <1>4, GotoIInv DEF LastUnlinkFails, WorkerPC, Holding
<1> QED BY <1>2, <1>3, <1>4

(* The end of a stat of the final file, whether it finds the file or not.  *)
LEMMA StatDone ==
  ASSUME IInv, NEW p \in Procs, worker[p].pc = "stat", NEW pc \in {"unlinkfinal", "add"},
         NEW n \in 0..MaxLength,
         worker' = [worker EXCEPT ![p].pc = pc, ![p].bytes = n, ![p].seen = None],
         CountsType', FilesRemoved, UNCHANGED <<app, stray>>
  PROVE  IInv'
<1>0. WorkerOK(worker[p]) /\ worker[p] \in WorkerRec
  BY WorkerFacts
<1>1. PICK r : r = [worker[p] EXCEPT !.pc = pc, !.bytes = n, !.seen = None]
  OBVIOUS
<1>2. /\ r \in WorkerRec /\ r.pc = pc /\ r.key = worker[p].key /\ r.payload = worker[p].payload
      /\ r.fd = worker[p].fd /\ r.offset = worker[p].offset
  BY <1>0, <1>1 DEF WorkerRec, WorkerPC
<1>3. WorkerOK(r) /\ QuietWorker(worker[p], r)
  BY <1>0, <1>2 DEF WorkerOK, QuietWorker, Holding, Remembering
<1>4. worker' = [worker EXCEPT ![p] = r]
  BY <1>1
<1> QED BY <1>3, <1>4, QuietWorkerIInv

LEMMA StatFinalIInv ==
  ASSUME IInv, NEW p \in Procs, StatFinal(p)
  PROVE  IInv'
<1>0. /\ WorkerOK(worker[p]) /\ CountsType /\ worker[p].pc = "stat"
      /\ worker[p].key \in Keys /\ worker[p].bytes \in Int
  BY WorkerFacts DEF StatFinal, WorkerOK, WorkerRec
<1>1. CountsType' /\ FilesRemoved /\ UNCHANGED <<app, stray>>
  <2>1. Mistaken(worker[p].key, worker[p]) \in Int
    BY <1>0, MistakenIsInt
  <2>2. drift' \in Int
    BY <1>0, <2>1 DEF StatFinal, CountsType
  <2> QED BY <1>0, <2>2, SameFiles DEF StatFinal, CountsType, bounds
<1>2. OnDisk(worker[p].key) \in 0..MaxLength
  BY <1>0, OnDiskBounded
<1>3. PICK pc \in {"unlinkfinal", "add"} :
        worker' = [worker EXCEPT ![p].pc = pc, ![p].bytes = OnDisk(worker[p].key), ![p].seen = None]
  BY DEF StatFinal
<1> QED BY <1>0, <1>1, <1>2, <1>3, StatDone

LEMMA StatFinalFailsIInv ==
  ASSUME IInv, NEW p \in Procs, StatFinalFails(p)
  PROVE  IInv'
<1>0. CountsType /\ worker[p].pc = "stat" /\ worker[p].bytes \in Int
  BY WorkerFacts DEF StatFinalFails, WorkerRec
<1>1. CountsType' /\ FilesRemoved /\ UNCHANGED <<app, stray>>
  <2>1. stray' \in BOOLEAN /\ drift' \in Int /\ Fault /\ size' = size /\ queue' = queue
    BY <1>0 DEF StatFinalFails, CountsType
  <2>2. CountsType'
    BY <1>0, <2>1, FaultCounted
  <2> QED BY <2>2, SameFiles DEF StatFinalFails
<1>2. 0 \in 0..MaxLength
  BY Constants
<1>3. worker' = [worker EXCEPT ![p].pc = "unlinkfinal", ![p].bytes = 0, ![p].seen = None]
  BY DEF StatFinalFails
<1> QED BY <1>0, <1>1, <1>2, <1>3, StatDone

LEMMA UnlinkFinalIInv ==
  ASSUME IInv, NEW p \in Procs, UnlinkFinal(p)
  PROVE  IInv'
<1>0. /\ WorkerOK(worker[p]) /\ CountsType /\ worker[p].pc = "unlinkfinal" /\ worker[p].key \in Keys
  BY WorkerFacts DEF UnlinkFinal, WorkerOK
<1>1. FilesRemoved
  BY <1>0, UnlinkRemoves DEF UnlinkFinal
<1>2. CountsType' /\ UNCHANGED <<app, stray>>
  <2>1. drift' \in Int
    BY <1>0, OnDiskBounded, Constants DEF UnlinkFinal, CountsType
  <2> QED BY <1>0, <2>1 DEF UnlinkFinal, CountsType, bounds
<1> QED BY <1>0, <1>1, <1>2, GotoIInv DEF UnlinkFinal, WorkerPC, Holding

LEMMA AddSizeIInv ==
  ASSUME IInv, NEW p \in Procs, AddSize(p)
  PROVE  IInv'
<1>0. /\ WorkerOK(worker[p]) /\ worker[p] \in WorkerRec /\ CountsType /\ worker[p].pc = "add"
      /\ worker[p].bytes \in Int
  BY WorkerFacts DEF AddSize, WorkerRec
<1>1. CountsType' /\ FilesRemoved /\ UNCHANGED <<app, stray>>
  <2>1. size + worker[p].bytes \in Int
    BY <1>0, Constants DEF CountsType
  <2>2. size' \in 0..(SizeWord - 1)
    BY <2>1, SizeIsWord DEF AddSize
  <2> QED BY <1>0, <2>2, SameFiles DEF AddSize, CountsType, bounds, history
<1> QED BY <1>0, <1>1, GotoIInv DEF AddSize, WorkerPC, Holding


(***************************************************************************)
(* The steps of the worker on the .tmp file.                               *)
(***************************************************************************)

(* What is known when one worker has changed, and no application thread.   *)
LEMMA OneWorker ==
  ASSUME IInv, NEW p \in Procs, NEW r, worker' = [worker EXCEPT ![p] = r], WorkerOK(r), UNCHANGED app
  PROVE  /\ worker'[p] = r /\ \A q \in Procs : q # p => worker'[q] = worker[q]
         /\ LocalsType' /\ LocalsOK'
<1>0. LocalsType /\ LocalsOK
  BY TypeParts DEF IInv
<1>1. worker'[p] = r /\ \A q \in Procs : q # p => worker'[q] = worker[q]
  BY <1>0 DEF LocalsType
<1>2. LocalsType'
  BY <1>0 DEF LocalsType, WorkerOK
<1>3. LocalsOK'
  BY <1>0, <1>1 DEF LocalsOK
<1> QED BY <1>1, <1>2, <1>3

(* The flock of an inode is held once.                                     *)
LEMMA FlockExcludes ==
  ASSUME IInv, NEW p \in Procs, NEW q \in Procs, worker[p].pc \in Holding, worker[q].pc \in Holding,
         worker[p].fd = worker[q].fd
  PROVE  p = q
BY DEF IInv, LocksOK

(* The files that are remembered stay what they are when one worker moves, *)
(* unless it makes a .tmp file of one.                                     *)
LEMMA SeenKept ==
  ASSUME IInv, NEW p \in Procs, ~stray' => ~stray, UNCHANGED app,
         \A q \in Procs : q # p => worker'[q] = worker[q],
         ~stray' /\ worker'[p].pc \in Remembering =>
           /\ \A k \in Keys : tmp'[k] # worker'[p].seen
           /\ Len(content'[worker'[p].seen]) = worker'[p].bytes,
         \A j \in Inodes :
           /\ \A k \in Keys : tmp[k] # j
           /\ \E q \in Procs : j \in {worker[q].seen, app[q].seen}
           /\ ~stray
           => (\A k \in Keys : tmp'[k] # j) /\ content'[j] = content[j]
  PROVE  SeenOK'
<1>0. SeenOK /\ LocalsOK
  BY DEF IInv
<1>1. SUFFICES ASSUME ~stray', NEW q \in Procs
               PROVE  /\ worker'[q].pc \in Remembering =>
                           /\ \A k \in Keys : tmp'[k] # worker'[q].seen
                           /\ Len(content'[worker'[q].seen]) = worker'[q].bytes
                      /\ app'[q].pc = "unlink" =>
                           /\ \A k \in Keys : tmp'[k] # app'[q].seen
                           /\ Len(content'[app'[q].seen]) = app'[q].bytes
  BY DEF SeenOK, Sees
<1>2. ~stray
  BY <1>1
<1>3. ASSUME app'[q].pc = "unlink"
      PROVE  /\ \A k \in Keys : tmp'[k] # app'[q].seen
             /\ Len(content'[app'[q].seen]) = app'[q].bytes
  <2>1. Sees(app[q]) /\ app[q].seen \in Inodes /\ app'[q] = app[q]
    BY <1>0, <1>2, <1>3 DEF SeenOK, LocalsOK, AppOK
  <2> QED BY <1>2, <2>1 DEF Sees
<1>4. ASSUME worker'[q].pc \in Remembering, q # p
      PROVE  /\ \A k \in Keys : tmp'[k] # worker'[q].seen
             /\ Len(content'[worker'[q].seen]) = worker'[q].bytes
  <2>1. Sees(worker[q]) /\ worker[q].seen \in Inodes /\ worker'[q] = worker[q]
    BY <1>0, <1>2, <1>4 DEF SeenOK, LocalsOK, WorkerOK
  <2> QED BY <1>2, <2>1 DEF Sees
<1> QED BY <1>1, <1>3, <1>4

LEMMA OpenTmpIInv ==
  ASSUME IInv, NEW p \in Procs, OpenTmp(p)
  PROVE  IInv'
<1> USE Constants
<1>0. /\ WorkerOK(worker[p]) /\ worker[p] \in WorkerRec /\ CountsType /\ FilesType
      /\ worker[p].pc = "open" /\ worker[p].key \in Keys /\ worker[p].offset = 0
      /\ LocksOK /\ NamesOK /\ WritersOK /\ FilesOK /\ ReadersOK /\ SeenOK /\ LocalsOK
  BY WorkerFacts DEF OpenTmp, WorkerOK, Holding, IInv
<1>1. /\ UNCHANGED <<file, flocked, size, queue, app, puts, removes, faults, stray, drift>>
      /\ CountsType'
  BY <1>0 DEF OpenTmp, CountsType, bounds, history
<1>2. PICK k : k = worker[p].key
  OBVIOUS
<1>3. PICK i \in Inodes : /\ worker' = [worker EXCEPT ![p].pc = "flock", ![p].fd = i]
                          /\ \/ tmp[k] = i /\ UNCHANGED <<tmp, content>>
                             \/ /\ i \notin InUse /\ tmp[k] = None
                                /\ tmp' = [tmp EXCEPT ![k] = i]
                                /\ content' = [content EXCEPT ![i] = << >>]
  <2>1. CASE tmp[k] # None
    BY <1>0, <1>2, <2>1 DEF OpenTmp, FilesType
  <2>2. CASE tmp[k] = None
    <3>1. Inodes \ InUse # {} /\ Inodes \ InUse \subseteq Nat
      BY <1>2, <2>2 DEF OpenTmp
    <3>2. Min(Inodes \ InUse) \in Inodes \ InUse
      BY <3>1, MinOfSet
    <3> QED BY <1>2, <2>2, <3>2 DEF OpenTmp
  <2> QED BY <2>1, <2>2
<1>4. PICK r : r = [worker[p] EXCEPT !.pc = "flock", !.fd = i]
  OBVIOUS
<1>5. r \in WorkerRec /\ r.pc = "flock" /\ r.key = k /\ r.fd = i /\ r.offset = 0
      /\ r.payload = worker[p].payload
  BY <1>0, <1>2, <1>4 DEF WorkerRec, WorkerPC
<1>6. WorkerOK(r)
  BY <1>0, <1>2, <1>5 DEF WorkerOK, Holding, Remembering
<1>7. worker' = [worker EXCEPT ![p] = r]
  BY <1>3, <1>4
<1>8. /\ worker'[p] = r /\ \A q \in Procs : q # p => worker'[q] = worker[q]
      /\ LocalsType' /\ LocalsOK'
  BY <1>1, <1>6, <1>7, OneWorker
<1>9. LocksOK'
  BY <1>0, <1>1, <1>5, <1>8 DEF LocksOK, Holding
<1>10. CASE UNCHANGED <<tmp, content>>
  <2>1. FilesType' /\ NamesOK' /\ FilesOK'
    BY <1>0, <1>1, <1>10 DEF FilesType, NamesOK, FilesOK
  <2>2. WritersOK' /\ ReadersOK'
    BY <1>0, <1>1, <1>5, <1>8, <1>10 DEF WritersOK, ReadersOK
  <2>3. SeenOK'
    BY <1>1, <1>5, <1>8, <1>10, SeenKept DEF Remembering
  <2> QED BY <1>1, <1>8, <1>9, <2>1, <2>2, <2>3, TypePartsNext DEF IInv
<1>11. CASE /\ i \notin InUse /\ tmp[k] = None
            /\ tmp' = [tmp EXCEPT ![k] = i]
            /\ content' = [content EXCEPT ![i] = << >>]
  <2>1. \A j \in Keys : file[j] # i /\ tmp[j] # i
    BY <1>11 DEF InUse
  <2>2. \A q \in Procs : /\ worker[q].fd # i /\ app[q].fd # i
                         /\ worker[q].seen # i /\ app[q].seen # i
    BY <1>11 DEF InUse
  <2>3. FilesType'
    <3>1. << >> \in Contents
      BY DEF Contents
    <3> QED BY <1>0, <1>1, <1>11, <3>1 DEF FilesType
  <2>4. /\ tmp'[k] = i /\ \A j \in Keys : j # k => tmp'[j] = tmp[j]
        /\ \A n \in Inodes : n # i => content'[n] = content[n]
    BY <1>0, <1>2, <1>11 DEF FilesType
  <2>5. NamesOK'
    BY <1>0, <1>1, <2>1, <2>4 DEF NamesOK
  <2>6. FilesOK'
    <3>1. SUFFICES ASSUME ~stray', NEW j \in Keys, file'[j] # None
                   PROVE  Whole(content'[file'[j]])
      BY DEF FilesOK
    <3>2. file'[j] = file[j] /\ file[j] \in Inodes /\ Whole(content[file[j]])
      BY <1>0, <1>1, <3>1 DEF FilesOK, FilesType
    <3>3. content'[file[j]] = content[file[j]]
      BY <2>1, <2>4, <3>2
    <3> QED BY <3>2, <3>3
  <2>7. ReadersOK'
    <3>1. SUFFICES ASSUME ~stray', NEW q \in Procs, app'[q].pc \in {"header", "data"}
                   PROVE  /\ \A j \in Keys : tmp'[j] # app'[q].fd
                          /\ Whole(content'[app'[q].fd])
                          /\ app'[q].pc = "data" => content'[app'[q].fd][1] = app'[q].header
      BY DEF ReadersOK
    <3>2. app[q].fd \in Inodes /\ app'[q] = app[q] /\ ~stray
      BY <1>0, <1>1, <3>1 DEF LocalsOK, AppOK
    <3>3. /\ \A j \in Keys : tmp[j] # app[q].fd
          /\ Whole(content[app[q].fd])
          /\ app[q].pc = "data" => content[app[q].fd][1] = app[q].header
      BY <1>0, <3>1, <3>2 DEF ReadersOK
    <3> QED BY <2>2, <2>4, <3>2, <3>3
  <2>8. WritersOK'
    <3>1. SUFFICES ASSUME ~stray', NEW q \in Procs, worker'[q].pc \in {"write", "rename"}
                   PROVE  LET w == worker'[q]
                          IN /\ tmp'[w.key] = w.fd
                             /\ w.offset <= Len(content'[w.fd])
                             /\ \A n \in 1..w.offset : content'[w.fd][n] = w.payload
      BY DEF WritersOK
    <3>2. q # p /\ worker'[q] = worker[q] /\ ~stray
      BY <1>1, <1>5, <1>8, <3>1
    <3>3. worker[q].key \in Keys /\ worker[q].fd \in Inodes /\ worker[q].fd # i
      BY <1>0, <2>2, <3>1, <3>2 DEF LocalsOK, WorkerOK, Holding
    <3>4. tmp[worker[q].key] = worker[q].fd
      BY <1>0, <3>1, <3>2 DEF WritersOK
    <3>5. worker[q].key # k
      BY <1>11, <3>3, <3>4
    <3>6. content'[worker[q].fd] = content[worker[q].fd] /\ tmp'[worker[q].key] = tmp[worker[q].key]
      BY <2>4, <3>3, <3>5
    <3> QED BY <1>0, <1>1, <3>1, <3>2, <3>6 DEF WritersOK
  <2>9. SeenOK'
    <3>1. worker'[p].pc \notin Remembering
      BY <1>5, <1>8 DEF Remembering
    <3>2. ASSUME NEW j \in Inodes, \A n \in Keys : tmp[n] # j,
                 \E q \in Procs : j \in {worker[q].seen, app[q].seen}
          PROVE  (\A n \in Keys : tmp'[n] # j) /\ content'[j] = content[j]
      <4>1. j # i
        BY <2>2, <3>2
      <4> QED BY <2>4, <3>2, <4>1
    <3> QED BY <1>1, <1>8, <3>1, <3>2, SeenKept
  <2> QED BY <1>1, <1>8, <1>9, <2>3, <2>5, <2>6, <2>7, <2>8, <2>9, TypePartsNext DEF IInv
<1> QED BY <1>3, <1>10, <1>11

LEMMA FlockIInv ==
  ASSUME IInv, NEW p \in Procs, Flock(p)
  PROVE  IInv'
<1> USE Constants
<1>0. /\ WorkerOK(worker[p]) /\ worker[p] \in WorkerRec /\ CountsType /\ FilesType
      /\ worker[p].pc = "flock" /\ worker[p].key \in Keys /\ worker[p].offset = 0
      /\ worker[p].fd \in Inodes
      /\ LocksOK /\ NamesOK /\ WritersOK /\ FilesOK /\ ReadersOK /\ SeenOK /\ LocalsOK
  BY WorkerFacts DEF Flock, WorkerOK, Holding, IInv
<1>1. /\ UNCHANGED <<file, tmp, content, size, queue, app, puts, removes, faults, stray, drift>>
      /\ CountsType'
  BY <1>0 DEF Flock, CountsType, bounds, history
<1>2. PICK i : i = worker[p].fd
  OBVIOUS
<1>3. CASE flocked[i] # Nobody
  <2>1. UNCHANGED flocked /\ Goto(p, "close")
    BY <1>2, <1>3 DEF Flock
  <2>2. FilesRemoved
    BY <1>1, <2>1, SameFiles DEF fs
  <2> QED BY <1>0, <1>1, <2>1, <2>2, GotoIInv DEF WorkerPC, Holding
<1>4. CASE flocked[i] = Nobody
  <2>1. flocked' = [flocked EXCEPT ![i] = p] /\ Goto(p, "final")
    BY <1>2, <1>4 DEF Flock
  <2>2. PICK r : r = [worker[p] EXCEPT !.pc = "final"]
    OBVIOUS
  <2>3. r \in WorkerRec /\ r.pc = "final" /\ r.key = worker[p].key /\ r.fd = i /\ r.offset = 0
        /\ r.payload = worker[p].payload
    BY <1>0, <1>2, <2>2 DEF WorkerRec, WorkerPC
  <2>4. WorkerOK(r)
    BY <1>0, <1>2, <2>3 DEF WorkerOK, Holding, Remembering
  <2>5. worker' = [worker EXCEPT ![p] = r]
    BY <2>1, <2>2 DEF Goto
  <2>6. /\ worker'[p] = r /\ \A q \in Procs : q # p => worker'[q] = worker[q]
        /\ LocalsType' /\ LocalsOK'
    BY <1>1, <2>4, <2>5, OneWorker
  <2>7. flocked'[i] = p /\ \A j \in Inodes : j # i => flocked'[j] = flocked[j]
    BY <1>0, <1>2, <2>1 DEF FilesType
  <2>8. FilesType'
    BY <1>0, <1>1, <2>1 DEF FilesType
  <2>9. LocksOK'
    <3>1. ASSUME NEW q \in Procs, worker'[q].pc \in Holding  PROVE flocked'[worker'[q].fd] = q
      <4>1. CASE q = p
        BY <2>3, <2>6, <2>7, <4>1
      <4>2. CASE q # p
        <5>1. worker[q].pc \in Holding /\ flocked[worker[q].fd] = q /\ worker[q].fd \in Inodes
          BY <1>0, <2>6, <3>1, <4>2 DEF LocksOK, LocalsOK, WorkerOK
        <5> QED BY <1>4, <2>6, <2>7, <4>2, <5>1
      <4> QED BY <4>1, <4>2
    <3>2. ASSUME NEW j \in Inodes, NEW q \in Procs, flocked'[j] = q
          PROVE  worker'[q].fd = j /\ worker'[q].pc \in Holding \cup {"close"}
      <4>1. CASE j = i
        BY <2>3, <2>6, <2>7, <3>2, <4>1 DEF Holding
      <4>2. CASE j # i
        BY <1>0, <1>2, <2>6, <2>7, <3>2, <4>2 DEF LocksOK, Holding
      <4> QED BY <4>1, <4>2
    <3> QED BY <3>1, <3>2 DEF LocksOK
  <2>10. NamesOK' /\ FilesOK'
    BY <1>0, <1>1 DEF NamesOK, FilesOK
  <2>11. WritersOK' /\ ReadersOK'
    BY <1>0, <1>1, <2>3, <2>6 DEF WritersOK, ReadersOK
  <2>12. SeenOK'
    BY <1>1, <2>3, <2>6, SeenKept DEF Remembering
  <2> QED BY <1>1, <2>6, <2>8, <2>9, <2>10, <2>11, <2>12, TypePartsNext DEF IInv
<1> QED BY <1>3, <1>4


(* A worker goes on to write: the history knows whether its file is still  *)
(* the .tmp file of its key.                                               *)
LEMMA StartWritingIInv ==
  ASSUME IInv, NEW p \in Procs, worker[p].pc = "final", StartWriting(p), CountsType'
  PROVE  IInv'
<1> USE Constants
<1>0. /\ WorkerOK(worker[p]) /\ worker[p] \in WorkerRec /\ FilesType
      /\ worker[p].key \in Keys /\ worker[p].payload \in Payloads /\ worker[p].offset = 0
      /\ worker[p].fd \in Inodes
      /\ LocksOK /\ NamesOK /\ WritersOK /\ FilesOK /\ ReadersOK /\ SeenOK /\ LocalsOK
  BY WorkerFacts DEF WorkerOK, Holding, IInv
<1>1. UNCHANGED <<file, tmp, content, flocked, size, queue, app, drift>>
  BY DEF StartWriting, fs
<1>2. PICK k : k = worker[p].key
  OBVIOUS
<1>3. stray' = (stray \/ tmp[k] # worker[p].fd) /\ Goto(p, "write")
  BY <1>2 DEF StartWriting
<1>4. ~stray' => ~stray
  BY <1>3
<1>5. PICK r : r = [worker[p] EXCEPT !.pc = "write"]
  OBVIOUS
<1>6. /\ r \in WorkerRec /\ r.pc = "write" /\ r.key = k /\ r.fd = worker[p].fd /\ r.offset = 0
      /\ r.payload = worker[p].payload
  BY <1>0, <1>2, <1>5 DEF WorkerRec, WorkerPC
<1>7. WorkerOK(r)
  <2>1. Length[r.payload] \in Nat /\ 0 < Length[r.payload]
    BY <1>0, <1>6, LengthIs
  <2> QED BY <1>0, <1>2, <1>6, <2>1 DEF WorkerOK, Holding, Remembering
<1>8. worker' = [worker EXCEPT ![p] = r]
  BY <1>3, <1>5 DEF Goto
<1>9. /\ worker'[p] = r /\ \A q \in Procs : q # p => worker'[q] = worker[q]
      /\ LocalsType' /\ LocalsOK'
  BY <1>1, <1>7, <1>8, OneWorker
<1>10. FilesType' /\ NamesOK' /\ FilesOK' /\ ReadersOK'
  BY <1>0, <1>1, <1>4 DEF FilesType, NamesOK, FilesOK, ReadersOK
<1>11. LocksOK'
  BY <1>0, <1>1, <1>6, <1>9 DEF LocksOK, Holding
<1>12. WritersOK'
  <2>1. SUFFICES ASSUME ~stray', NEW q \in Procs, worker'[q].pc \in {"write", "rename"}
                 PROVE  LET w == worker'[q]
                        IN /\ tmp'[w.key] = w.fd
                           /\ w.offset <= Len(content'[w.fd])
                           /\ \A n \in 1..w.offset : content'[w.fd][n] = w.payload
    BY DEF WritersOK
  <2>2. CASE q = p
    <3>1. tmp[k] = worker[p].fd
      BY <1>3, <2>1, Zenon
    <3>2. content[worker[p].fd] \in Contents
      BY <1>0 DEF FilesType
    <3>3. 0 <= Len(content[worker[p].fd])
      BY <3>2, ContentsAreSeqs
    <3> QED BY <1>1, <1>6, <1>9, <2>2, <3>1, <3>3
  <2>3. CASE q # p
    BY <1>0, <1>1, <1>4, <1>9, <2>1, <2>3 DEF WritersOK
  <2> QED BY <2>2, <2>3
<1>13. SeenOK'
  BY <1>1, <1>4, <1>6, <1>9, SeenKept DEF Remembering
<1> QED BY <1>9, <1>10, <1>11, <1>12, <1>13, TypePartsNext DEF IInv

LEMMA CheckFinalIInv ==
  ASSUME IInv, NEW p \in Procs, CheckFinal(p)
  PROVE  IInv'
<1>0. /\ WorkerOK(worker[p]) /\ CountsType /\ worker[p].pc = "final"
  BY WorkerFacts DEF CheckFinal
<1>1. CASE file[worker[p].key] # None
  <2>1. Goto(p, "unlinktmp") /\ UNCHANGED <<fs, size, queue, app, bounds, history>>
    BY <1>1 DEF CheckFinal
  <2>2. CountsType' /\ FilesRemoved /\ UNCHANGED <<app, stray>>
    BY <1>0, <2>1, SameFiles DEF CountsType, bounds, history
  <2> QED BY <1>0, <2>1, <2>2, GotoIInv DEF WorkerPC, Holding
<1>2. CASE file[worker[p].key] = None
  <2>1. StartWriting(p) /\ UNCHANGED bounds
    BY <1>2 DEF CheckFinal
  <2>2. CountsType'
    BY <1>0, <2>1 DEF StartWriting, CountsType, bounds
  <2> QED BY <1>0, <2>1, <2>2, StartWritingIInv
<1> QED BY <1>1, <1>2

LEMMA CheckFinalFailsIInv ==
  ASSUME IInv, NEW p \in Procs, CheckFinalFails(p)
  PROVE  IInv'
<1>0. CountsType /\ worker[p].pc = "final" /\ Fault /\ StartWriting(p)
  BY WorkerFacts DEF CheckFinalFails
<1>1. CountsType'
  <2>1. size' = size /\ queue' = queue /\ stray' \in BOOLEAN /\ drift' \in Int
    BY <1>0 DEF StartWriting, CountsType
  <2> QED BY <1>0, <2>1, FaultCounted
<1> QED BY <1>0, <1>1, StartWritingIInv

LEMMA WriteIInv ==
  ASSUME IInv, NEW p \in Procs, Write(p)
  PROVE  IInv'
<1> USE Constants
<1>0. /\ WorkerOK(worker[p]) /\ worker[p] \in WorkerRec /\ CountsType /\ FilesType
      /\ worker[p].pc = "write" /\ worker[p].key \in Keys /\ worker[p].offset < Length[worker[p].payload]
      /\ worker[p].fd \in Inodes /\ worker[p].offset \in Nat
      /\ worker[p].payload \in Payloads
      /\ LocksOK /\ NamesOK /\ WritersOK /\ FilesOK /\ ReadersOK /\ SeenOK /\ LocalsOK
  <2>1. /\ WorkerOK(worker[p]) /\ worker[p] \in WorkerRec /\ worker[p].pc = "write"
        /\ CountsType /\ FilesType
    BY WorkerFacts DEF Write
  <2>2. worker[p].offset \in Nat
    BY <2>1 DEF WorkerRec
  <2> QED BY <2>1, <2>2 DEF WorkerOK, Holding, IInv
<1>1. /\ UNCHANGED <<file, tmp, flocked, size, queue, app, puts, removes, faults, stray, drift>>
      /\ CountsType'
  BY <1>0 DEF Write, CountsType, bounds, history
<1>2. PICK k, i, o, c, e : /\ k = worker[p].key /\ i = worker[p].fd /\ o = worker[p].offset
                           /\ c = content[i] /\ e = worker[p].payload
  OBVIOUS
<1>3. PICK pc : pc = IF o + 1 = Length[e] THEN "rename" ELSE "write"
  OBVIOUS
<1>4. PICK d : d = Written(c, o, e)
  OBVIOUS
<1>5. content' = [content EXCEPT ![i] = d]
  BY <1>0, <1>2, <1>4 DEF Write, Written, FilesType
<1>6. c \in Contents /\ d \in Contents
  BY <1>0, <1>2, <1>4, WriteChunk DEF FilesType
<1>7. content'[i] = d /\ \A n \in Inodes : n # i => content'[n] = content[n]
  BY <1>0, <1>2, <1>5 DEF FilesType
<1>8. PICK r : r = [worker[p] EXCEPT !.offset = o + 1, !.pc = pc]
  OBVIOUS
<1>9. /\ r \in WorkerRec /\ r.pc = pc /\ r.key = k /\ r.fd = i /\ r.offset = o + 1
      /\ r.payload = e /\ pc \in {"write", "rename"}
      /\ (pc = "write" => o + 1 < Length[e]) /\ (pc = "rename" => o + 1 = Length[e])
  <2>0. Length[e] \in Nat /\ Length[e] <= MaxLength
    BY <1>0, <1>2, LengthIs
  <2>1. o + 1 \in 0..MaxLength /\ pc \in {"write", "rename"} /\ pc \in WorkerPC
        /\ (pc = "write" => o + 1 < Length[e]) /\ (pc = "rename" => o + 1 = Length[e])
    BY <1>0, <1>2, <1>3, <2>0 DEF WorkerPC
  <2> QED BY <1>0, <1>2, <1>8, <2>1 DEF WorkerRec
<1>10. WorkerOK(r)
  BY <1>0, <1>2, <1>9 DEF WorkerOK, Holding, Remembering
<1>11. worker' = [worker EXCEPT ![p] = r]
  BY <1>2, <1>3, <1>8 DEF Write
<1>12. /\ worker'[p] = r /\ \A q \in Procs : q # p => worker'[q] = worker[q]
       /\ LocalsType' /\ LocalsOK'
  BY <1>1, <1>10, <1>11, OneWorker
<1>13. FilesType'
  BY <1>0, <1>1, <1>5, <1>6 DEF FilesType
<1>14. NamesOK'
  BY <1>0, <1>1 DEF NamesOK
<1>15. LocksOK'
  BY <1>0, <1>1, <1>2, <1>9, <1>12 DEF LocksOK, Holding
<1>16. ~stray => tmp[k] = i
  BY <1>0, <1>2 DEF WritersOK
<1>17. FilesOK'
  <2>1. SUFFICES ASSUME ~stray, NEW j \in Keys, file[j] # None
                 PROVE  Whole(content'[file[j]])
    BY <1>1 DEF FilesOK
  <2>2. file[j] \in Inodes /\ file[j] # i /\ Whole(content[file[j]])
    BY <1>0, <1>2, <1>16, <2>1 DEF NamesOK, FilesOK, FilesType
  <2> QED BY <1>7, <2>2
<1>18. ReadersOK'
  <2>1. SUFFICES ASSUME ~stray, NEW q \in Procs, app[q].pc \in {"header", "data"}
                 PROVE  /\ \A j \in Keys : tmp[j] # app[q].fd
                        /\ Whole(content'[app[q].fd])
                        /\ app[q].pc = "data" => content'[app[q].fd][1] = app[q].header
    BY <1>1 DEF ReadersOK
  <2>2. app[q].fd \in Inodes /\ app[q].fd # i
    BY <1>0, <1>2, <1>16, <2>1 DEF ReadersOK, LocalsOK, AppOK
  <2>3. content'[app[q].fd] = content[app[q].fd]
    BY <1>7, <2>2
  <2> QED BY <1>0, <2>1, <2>3 DEF ReadersOK
<1>19. WritersOK'
  <2>1. SUFFICES ASSUME ~stray, NEW q \in Procs, worker'[q].pc \in {"write", "rename"}
                 PROVE  LET w == worker'[q]
                        IN /\ tmp'[w.key] = w.fd
                           /\ w.offset <= Len(content'[w.fd])
                           /\ \A n \in 1..w.offset : content'[w.fd][n] = w.payload
    BY <1>1 DEF WritersOK
  <2>2. CASE q = p
    <3>1. /\ tmp[k] = i /\ o <= Len(c) /\ \A n \in 1..o : c[n] = e
      BY <1>0, <1>2, <2>1 DEF WritersOK
    <3>2. o + 1 <= Len(d) /\ \A n \in 1..(o + 1) : d[n] = e
      <4>1. c \in Contents /\ o \in Nat /\ o < Length[e] /\ e \in Payloads
        BY <1>0, <1>2, <1>6
      <4>2. /\ o + 1 <= Len(Written(c, o, e))
            /\ \A n \in 1..(o + 1) : Written(c, o, e)[n] = e
        BY <3>1, <4>1, WriteChunk, Zenon
      <4> QED BY <1>4, <4>2, Zenon
    <3> QED BY <1>1, <1>7, <1>9, <1>12, <2>2, <3>1, <3>2
  <2>3. CASE q # p
    <3>1. worker'[q] = worker[q] /\ worker[q].pc \in Holding
      BY <1>12, <2>1, <2>3 DEF Holding
    <3>2. worker[q].fd \in Inodes /\ worker[q].fd # i
      BY <1>0, <1>2, <2>3, <3>1, FlockExcludes DEF LocalsOK, WorkerOK, Holding
    <3>3. content'[worker[q].fd] = content[worker[q].fd]
      BY <1>7, <3>2
    <3> QED BY <1>0, <1>1, <2>1, <3>1, <3>3 DEF WritersOK
  <2> QED BY <2>2, <2>3
<1>20. SeenOK'
  <2>1. worker'[p].pc \notin Remembering
    BY <1>9, <1>12 DEF Remembering
  <2>2. ASSUME NEW j \in Inodes, \A n \in Keys : tmp[n] # j, ~stray
        PROVE  (\A n \in Keys : tmp'[n] # j) /\ content'[j] = content[j]
    <3>1. j # i
      BY <1>0, <1>2, <1>16, <2>2
    <3> QED BY <1>1, <1>7, <2>2, <3>1
  <2> QED BY <1>1, <1>12, <2>1, <2>2, SeenKept
<1> QED BY <1>1, <1>12, <1>13, <1>14, <1>15, <1>17, <1>18, <1>19, <1>20, TypePartsNext DEF IInv

LEMMA RenameIInv ==
  ASSUME IInv, NEW p \in Procs, Rename(p)
  PROVE  IInv'
<1> USE Constants
<1>0. /\ WorkerOK(worker[p]) /\ worker[p] \in WorkerRec /\ CountsType /\ FilesType
      /\ worker[p].pc = "rename" /\ worker[p].key \in Keys /\ worker[p].offset = Length[worker[p].payload]
      /\ worker[p].payload \in Payloads
      /\ worker[p].fd \in Inodes
      /\ LocksOK /\ NamesOK /\ WritersOK /\ FilesOK /\ ReadersOK /\ SeenOK /\ LocalsOK
  BY WorkerFacts DEF Rename, WorkerOK, Holding, IInv
<1>1. /\ UNCHANGED <<content, flocked, size, queue, app, puts, removes, faults, stray>>
      /\ CountsType'
  <2>1. UNCHANGED <<content, flocked, size, queue, app, puts, removes, faults, stray>>
    BY DEF Rename, bounds
  <2>2. OnDisk(worker[p].key) \in Int
    BY <1>0, OnDiskBounded
  <2>3. drift' \in Int
    BY <1>0, <2>2 DEF Rename, CountsType
  <2> QED BY <1>0, <2>1, <2>3 DEF CountsType
<1>2. PICK k, i : k = worker[p].key /\ i = tmp[k]
  OBVIOUS
<1>3. CASE i = None
  <2>1. UNCHANGED <<file, tmp>> /\ Goto(p, "unlinktmp")
    BY <1>2, <1>3 DEF Rename
  <2>2. FilesRemoved
    BY <1>1, <2>1, SameFiles DEF fs
  <2> QED BY <1>0, <1>1, <2>1, <2>2, GotoIInv DEF WorkerPC, Holding
<1>4. CASE i # None
  <2>1. file' = [file EXCEPT ![k] = i] /\ tmp' = [tmp EXCEPT ![k] = None]
        /\ worker' = [worker EXCEPT ![p].pc = "stat", ![p].seen = i, ![p].bytes = Len(content[i])]
    BY <1>2, <1>4 DEF Rename
  <2>2. PICK r : r = [worker[p] EXCEPT !.pc = "stat", !.seen = i, !.bytes = Len(content[i])]
    OBVIOUS
  <2>3. /\ r \in WorkerRec /\ r.pc = "stat" /\ r.key = k /\ r.fd = worker[p].fd
        /\ r.payload = worker[p].payload /\ r.seen = i /\ i \in Inodes /\ r.bytes = Len(content[i])
    <3>1. i \in Inodes /\ content[i] \in Contents
      BY <1>0, <1>2, <1>4 DEF FilesType
    <3>2. Len(content[i]) \in 0..MaxLength
      BY <3>1, ContentsAreSeqs
    <3> QED BY <1>0, <1>2, <2>2, <3>1, <3>2 DEF WorkerRec, WorkerPC
  <2>4. WorkerOK(r)
    BY <1>0, <1>2, <2>3 DEF WorkerOK, Holding, Remembering
  <2>5. worker' = [worker EXCEPT ![p] = r]
    BY <2>1, <2>2
  <2>6. /\ worker'[p] = r /\ \A q \in Procs : q # p => worker'[q] = worker[q]
        /\ LocalsType' /\ LocalsOK'
    BY <1>1, <2>4, <2>5, OneWorker
  <2>7. /\ i \in Inodes /\ file'[k] = i /\ tmp'[k] = None
        /\ \A j \in Keys : j # k => file'[j] = file[j] /\ tmp'[j] = tmp[j]
    BY <1>0, <1>2, <1>4, <2>1 DEF FilesType
  <2>8. FilesType'
    BY <1>0, <1>1, <2>1, <2>7 DEF FilesType
  <2>9. NamesOK'
    BY <1>0, <1>2, <1>4, <2>7 DEF NamesOK
  <2>10. LocksOK'
    BY <1>0, <1>1, <2>3, <2>6 DEF LocksOK, Holding
  <2>11. ~stray => i = worker[p].fd /\ Whole(content[i])
    <3>1. SUFFICES ASSUME ~stray  PROVE i = worker[p].fd /\ Whole(content[i])
      OBVIOUS
    <3>2. PICK e \in Payloads : e = worker[p].payload
      BY <1>0
    <3>3. /\ i = worker[p].fd /\ Length[e] <= Len(content[i])
          /\ \A n \in 1..Length[e] : content[i][n] = e
      BY <1>0, <1>2, <3>1, <3>2 DEF WritersOK
    <3>4. Len(content[i]) \in Nat /\ Length[e] \in Nat
      <4>1. content[i] \in Contents
        BY <1>0, <2>7 DEF FilesType
      <4> QED BY <4>1, ContentsAreSeqs, LengthIs
    <3> QED BY <3>3, <3>4 DEF Whole
  <2>12. FilesOK'
    <3>1. SUFFICES ASSUME ~stray, NEW j \in Keys, file'[j] # None
                   PROVE  Whole(content[file'[j]])
      BY <1>1 DEF FilesOK
    <3>2. CASE j = k
      BY <2>7, <2>11, <3>1, <3>2
    <3>3. CASE j # k
      BY <1>0, <2>7, <3>1, <3>3 DEF FilesOK
    <3> QED BY <3>2, <3>3
  <2>13. ReadersOK'
    <3>1. SUFFICES ASSUME ~stray, NEW q \in Procs, app[q].pc \in {"header", "data"}
                   PROVE  /\ \A j \in Keys : tmp'[j] # app[q].fd
                          /\ Whole(content[app[q].fd])
                          /\ app[q].pc = "data" => content[app[q].fd][1] = app[q].header
      BY <1>1 DEF ReadersOK
    <3>2. app[q].fd \in Inodes /\ app[q].fd # None
      BY <1>0, <3>1 DEF LocalsOK, AppOK
    <3>3. /\ \A j \in Keys : tmp[j] # app[q].fd
          /\ Whole(content[app[q].fd])
          /\ app[q].pc = "data" => content[app[q].fd][1] = app[q].header
      BY <1>0, <3>1 DEF ReadersOK
    <3>4. \A j \in Keys : tmp'[j] # app[q].fd
      BY <2>7, <3>2, <3>3
    <3> QED BY <3>3, <3>4
  <2>14. WritersOK'
    <3>1. SUFFICES ASSUME ~stray, NEW q \in Procs, worker'[q].pc \in {"write", "rename"}
                   PROVE  LET w == worker'[q]
                          IN /\ tmp'[w.key] = w.fd
                             /\ w.offset <= Len(content'[w.fd])
                             /\ \A n \in 1..w.offset : content'[w.fd][n] = w.payload
      BY <1>1 DEF WritersOK
    <3>2. q # p /\ worker'[q] = worker[q] /\ worker[q].pc \in Holding /\ worker[q].key \in Keys
      BY <1>0, <2>3, <2>6, <3>1 DEF Holding, LocalsOK, WorkerOK
    <3>3. worker[q].fd # worker[p].fd
      BY <1>0, <3>2, FlockExcludes DEF Holding
    <3>4. tmp[worker[q].key] = worker[q].fd
      BY <1>0, <3>1, <3>2 DEF WritersOK
    <3>5. worker[q].key # k
      BY <1>2, <2>11, <3>1, <3>3, <3>4
    <3> QED BY <1>0, <1>1, <2>7, <3>1, <3>2, <3>5 DEF WritersOK
  <2>15. SeenOK'
    <3>1. \A j \in Keys : tmp'[j] # worker'[p].seen
      BY <1>0, <1>2, <1>4, <2>3, <2>6, <2>7 DEF NamesOK
    <3>2. Len(content'[worker'[p].seen]) = worker'[p].bytes
      BY <1>1, <2>3, <2>6
    <3>3. ASSUME NEW j \in Inodes, \A n \in Keys : tmp[n] # j
          PROVE  (\A n \in Keys : tmp'[n] # j) /\ content'[j] = content[j]
      BY <1>1, <2>7, <3>3
    <3> QED BY <1>1, <2>6, <3>1, <3>2, <3>3, SeenKept
  <2> QED BY <1>1, <2>6, <2>8, <2>9, <2>10, <2>12, <2>13, <2>14, <2>15, TypePartsNext DEF IInv
<1> QED BY <1>3, <1>4


LEMMA UnlinkTmpIInv ==
  ASSUME IInv, NEW p \in Procs, UnlinkTmp(p)
  PROVE  IInv'
<1> USE Constants
<1>0. /\ WorkerOK(worker[p]) /\ worker[p] \in WorkerRec /\ CountsType /\ FilesType
      /\ worker[p].pc = "unlinktmp" /\ worker[p].key \in Keys
      /\ LocksOK /\ NamesOK /\ WritersOK /\ FilesOK /\ ReadersOK /\ SeenOK /\ LocalsOK
  BY WorkerFacts DEF UnlinkTmp, WorkerOK, IInv
<1>1. UNCHANGED <<file, content, flocked, size, queue, app, puts, removes, faults, drift>>
  BY DEF UnlinkTmp, bounds
<1>2. PICK k : k = worker[p].key
  OBVIOUS
<1>3. /\ tmp' = [tmp EXCEPT ![k] = None] /\ Goto(p, "close")
      /\ stray' = (stray \/ \E q \in Procs \ {p} : /\ worker[q].pc \in {"write", "rename"}
                                                  /\ worker[q].fd = tmp[k])
  BY <1>2 DEF UnlinkTmp
<1>4. CountsType' /\ (~stray' => ~stray)
  BY <1>0, <1>1, <1>3 DEF CountsType
<1>5. PICK r : r = [worker[p] EXCEPT !.pc = "close"]
  OBVIOUS
<1>6. r \in WorkerRec /\ r.pc = "close" /\ r.key = k /\ r.fd = worker[p].fd
      /\ r.payload = worker[p].payload
  BY <1>0, <1>2, <1>5 DEF WorkerRec, WorkerPC
<1>7. WorkerOK(r)
  BY <1>0, <1>2, <1>6 DEF WorkerOK, Holding, Remembering
<1>8. worker' = [worker EXCEPT ![p] = r]
  BY <1>3, <1>5 DEF Goto
<1>9. /\ worker'[p] = r /\ \A q \in Procs : q # p => worker'[q] = worker[q]
      /\ LocalsType' /\ LocalsOK'
  BY <1>1, <1>7, <1>8, OneWorker
<1>10. tmp'[k] = None /\ \A j \in Keys : j # k => tmp'[j] = tmp[j]
  BY <1>0, <1>2, <1>3 DEF FilesType
<1>11. FilesType'
  BY <1>0, <1>1, <1>3 DEF FilesType
<1>12. NamesOK' /\ FilesOK'
  BY <1>0, <1>1, <1>4, <1>10 DEF NamesOK, FilesOK
<1>13. LocksOK'
  BY <1>0, <1>1, <1>6, <1>9 DEF LocksOK, Holding
<1>14. ReadersOK'
  <2>1. SUFFICES ASSUME ~stray', NEW q \in Procs, app[q].pc \in {"header", "data"}
                 PROVE  /\ \A j \in Keys : tmp'[j] # app[q].fd
                        /\ Whole(content[app[q].fd])
                        /\ app[q].pc = "data" => content[app[q].fd][1] = app[q].header
    BY <1>1 DEF ReadersOK
  <2>2. app[q].fd # None
    BY <1>0, <2>1 DEF LocalsOK, AppOK
  <2>3. /\ \A j \in Keys : tmp[j] # app[q].fd
        /\ Whole(content[app[q].fd])
        /\ app[q].pc = "data" => content[app[q].fd][1] = app[q].header
    BY <1>0, <1>4, <2>1 DEF ReadersOK
  <2> QED BY <1>10, <2>2, <2>3
<1>15. WritersOK'
  <2>1. SUFFICES ASSUME ~stray', NEW q \in Procs, worker'[q].pc \in {"write", "rename"}
                 PROVE  LET w == worker'[q]
                        IN /\ tmp'[w.key] = w.fd
                           /\ w.offset <= Len(content'[w.fd])
                           /\ \A n \in 1..w.offset : content'[w.fd][n] = w.payload
    BY DEF WritersOK
  <2>2. q # p /\ worker'[q] = worker[q] /\ worker[q].pc \in Holding
    BY <1>6, <1>9, <2>1 DEF Holding
  <2>3. worker[q].key \in Keys /\ worker[q].fd \in Inodes
    BY <1>0, <2>2 DEF LocalsOK, WorkerOK, Holding
  <2>5. /\ tmp[worker[q].key] = worker[q].fd
        /\ worker[q].offset <= Len(content[worker[q].fd])
        /\ \A n \in 1..worker[q].offset : content[worker[q].fd][n] = worker[q].payload
    BY <1>0, <1>4, <2>1, <2>2 DEF WritersOK
  <2>6. worker[q].key # k
    <3>1. ASSUME worker[q].key = k  PROVE FALSE
      <4>1. q \in Procs \ {p} /\ worker[q].pc \in {"write", "rename"} /\ worker[q].fd = tmp[k]
        BY <2>1, <2>2, <2>5, <3>1
      <4> QED BY <1>3, <2>1, <4>1, Zenon
    <3> QED BY <3>1
  <2> QED BY <1>1, <1>10, <2>2, <2>3, <2>5, <2>6
<1>16. SeenOK'
  <2>1. worker'[p].pc \notin Remembering
    BY <1>6, <1>9 DEF Remembering
  <2>2. ASSUME NEW j \in Inodes, \A n \in Keys : tmp[n] # j
        PROVE  (\A n \in Keys : tmp'[n] # j) /\ content'[j] = content[j]
    BY <1>1, <1>10, <2>2
  <2> QED BY <1>1, <1>4, <1>9, <2>1, <2>2, SeenKept
<1> QED BY <1>4, <1>9, <1>11, <1>12, <1>13, <1>14, <1>15, <1>16, TypePartsNext DEF IInv

(* The end of a worker's descriptor, by close or by a kill.                *)
LEMMA DescriptorGone ==
  ASSUME IInv, NEW p \in Procs, flocked' = Released(p),
         worker' = [worker EXCEPT ![p] = IdleWorker],
         app' \in [Procs -> AppRec], \A q \in Procs : app'[q] \in {app[q], IdleApp},
         CountsType', UNCHANGED <<file, tmp, content, stray>>
  PROVE  IInv'
<1> USE Constants
<1>0. /\ FilesType /\ LocalsType /\ LocalsOK
      /\ LocksOK /\ NamesOK /\ WritersOK /\ FilesOK /\ ReadersOK /\ SeenOK
  BY TypeParts DEF IInv
<1>1. worker'[p] = IdleWorker /\ \A q \in Procs : q # p => worker'[q] = worker[q]
  BY <1>0 DEF LocalsType
<1>2. LocalsType' /\ LocalsOK'
  BY <1>0, <1>1, IdleLocals DEF LocalsType, LocalsOK, WorkerOK
<1>3. \A i \in Inodes : flocked'[i] = IF flocked[i] = p THEN Nobody ELSE flocked[i]
  BY <1>0 DEF FilesType, Released
<1>4. FilesType'
  BY <1>0 DEF FilesType, Released
<1>5. NamesOK' /\ FilesOK'
  BY <1>0 DEF NamesOK, FilesOK
<1>6. LocksOK'
  <2>1. ASSUME NEW q \in Procs, worker'[q].pc \in Holding  PROVE flocked'[worker'[q].fd] = q
    <3>1. q # p /\ worker'[q] = worker[q]
      BY <1>1, <2>1 DEF IdleWorker, Holding
    <3>2. flocked[worker[q].fd] = q /\ worker[q].fd \in Inodes
      BY <1>0, <2>1, <3>1 DEF LocksOK, LocalsOK, WorkerOK
    <3> QED BY <1>3, <3>1, <3>2
  <2>2. ASSUME NEW i \in Inodes, NEW q \in Procs, flocked'[i] = q
        PROVE  worker'[q].fd = i /\ worker'[q].pc \in Holding \cup {"close"}
    <3>1. q # p /\ flocked[i] = q
      BY <1>3, <2>2
    <3> QED BY <1>0, <1>1, <3>1 DEF LocksOK
  <2> QED BY <2>1, <2>2 DEF LocksOK
<1>7. WritersOK'
  BY <1>0, <1>1 DEF WritersOK, IdleWorker
<1>8. ReadersOK'
  BY <1>0 DEF ReadersOK, IdleApp
<1>9. SeenOK'
  BY <1>0, <1>1 DEF SeenOK, Sees, Remembering, IdleWorker, IdleApp
<1> QED BY <1>2, <1>4, <1>5, <1>6, <1>7, <1>8, <1>9, TypePartsNext DEF IInv

LEMMA CloseIInv ==
  ASSUME IInv, NEW p \in Procs, Close(p)
  PROVE  IInv'
<1>1. CountsType /\ LocalsType
  BY WorkerFacts
<1>2. CountsType' /\ UNCHANGED <<file, tmp, content, stray, app>>
  BY <1>1 DEF Close, CountsType, bounds, history
<1> QED BY <1>1, <1>2, DescriptorGone DEF Close, LocalsType

LEMMA KillIInv ==
  ASSUME IInv, NEW p \in Procs, Kill(p)
  PROVE  IInv'
<1>1. CountsType /\ LocalsType /\ worker[p] \in WorkerRec /\ app[p] \in AppRec
  BY WorkerFacts
<1>2. PendingSub(p) \in Int /\ PendingAdd(p) \in Int
  <2>1. worker[p].bytes \in Int /\ app[p].bytes \in Int
    BY <1>1 DEF WorkerRec, AppRec
  <2> QED BY <2>1 DEF PendingSub, PendingAdd
<1>3. CountsType'
  <2>1. drift' \in Int
    BY <1>1, <1>2 DEF Kill, CountsType
  <2>2. faults' \in 0..MaxFaults /\ UNCHANGED <<puts, removes>>
    BY <1>1, Constants DEF Kill, Fault, CountsType
  <2>3. queue' \in [Procs -> Seq(Jobs)]
    <3>1. << >> \in Seq(Jobs)
      OBVIOUS
    <3> QED BY <1>1, <3>1 DEF Kill, CountsType
  <2> QED BY <1>1, <2>1, <2>2, <2>3 DEF Kill, CountsType
<1>4. app' \in [Procs -> AppRec] /\ \A q \in Procs : app'[q] \in {app[q], IdleApp}
  BY <1>1, IdleLocals DEF Kill, LocalsType, AppOK
<1> QED BY <1>3, <1>4, DescriptorGone DEF Kill

(***************************************************************************)
(* The application thread.                                                 *)
(***************************************************************************)
LEMMA PutIInv ==
  ASSUME IInv, NEW p \in Procs, NEW k \in Keys, NEW e \in Payloads, disk_cache_put(p, k, e)
  PROVE  IInv'
<1>0. CountsType /\ LocalsType /\ LocalsOK
  BY TypeParts DEF IInv
<1>1. CountsType' /\ FilesRemoved /\ UNCHANGED <<worker, app, stray>>
  <2>1. queue' \in [Procs -> Seq(Jobs)]
    <3>1. [key |-> k, payload |-> e] \in Jobs /\ queue[p] \in Seq(Jobs)
      BY <1>0 DEF Jobs, CountsType
    <3>2. Append(queue[p], [key |-> k, payload |-> e]) \in Seq(Jobs)
      BY <3>1
    <3> QED BY <1>0, <3>2 DEF disk_cache_put, CountsType
  <2>2. puts' \in 0..MaxPuts
    BY <1>0, Constants DEF disk_cache_put, CountsType
  <2> QED BY <1>0, <2>1, <2>2, SameFiles DEF disk_cache_put, CountsType, history
<1>2. LocalsType'
  BY <1>0, <1>1 DEF LocalsType
<1>3. \A q \in Procs : WorkerOK(worker'[q]) /\ QuietWorker(worker[q], worker'[q])
  BY <1>0, <1>1 DEF LocalsOK, QuietWorker
<1>4. \A q \in Procs : AppOK(app'[q]) /\ QuietApp(app[q], app'[q])
  BY <1>0, <1>1 DEF LocalsOK, QuietApp
<1> QED BY <1>1, <1>2, <1>3, <1>4, QuietIInv

LEMMA RemoveIInv ==
  ASSUME IInv, NEW p \in Procs, NEW k \in Keys, disk_cache_remove(p, k)
  PROVE  IInv'
<1>0. CountsType /\ app[p] \in AppRec /\ file[k] \in Inodes /\ file[k] # None
  <2>1. CountsType /\ app[p] \in AppRec /\ file[k] # None /\ FilesType
    BY WorkerFacts DEF disk_cache_remove
  <2> QED BY <2>1 DEF FilesType
<1>1. CountsType' /\ FilesRemoved /\ UNCHANGED <<worker, stray>>
  <2>1. removes' \in 0..MaxRemoves
    BY <1>0, Constants DEF disk_cache_remove, CountsType
  <2> QED BY <1>0, <2>1, SameFiles DEF disk_cache_remove, CountsType, history
<1>2. PICK r : r = [app[p] EXCEPT !.pc = "unlink", !.key = k, !.bytes = OnDisk(k), !.seen = file[k]]
  OBVIOUS
<1>3. r \in AppRec /\ r.pc = "unlink" /\ r.key = k /\ r.seen = file[k] /\ r.bytes = OnDisk(k)
  BY <1>0, <1>2, OnDiskBounded DEF AppRec, AppPC
<1>4. app' = [app EXCEPT ![p] = r]
  BY <1>2 DEF disk_cache_remove
<1>5. Sees(r)
  BY <1>0, <1>3, SeesFile
<1> QED BY <1>0, <1>1, <1>3, <1>4, <1>5, QuietAppIInv DEF AppOK, QuietApp

(* The end of an unlink, whether it removed the file or not.               *)
LEMMA RemovedOK ==
  ASSUME IInv, NEW p \in Procs, app' = [app EXCEPT ![p].pc = "sub", ![p].seen = None],
         CountsType', FilesRemoved, UNCHANGED <<worker, stray>>
  PROVE  IInv'
<1>0. app[p] \in AppRec
  BY WorkerFacts
<1>1. PICK r : r = [app[p] EXCEPT !.pc = "sub", !.seen = None]
  OBVIOUS
<1>2. r \in AppRec /\ r.pc = "sub"
  BY <1>0, <1>1 DEF AppRec, AppPC
<1>3. app' = [app EXCEPT ![p] = r]
  BY <1>1
<1> QED BY <1>2, <1>3, QuietAppIInv DEF AppOK, QuietApp

LEMMA RemoveUnlinkIInv ==
  ASSUME IInv, NEW p \in Procs, RemoveUnlink(p)
  PROVE  IInv'
<1>0. /\ CountsType /\ app[p] \in AppRec /\ app[p].key \in Keys /\ app[p].bytes \in Int
  <2>1. CountsType /\ app[p] \in AppRec /\ app[p].key \in Keys
    BY WorkerFacts DEF AppOK, RemoveUnlink
  <2> QED BY <2>1 DEF AppRec
<1>1. UnlinkFile(app[p].key, app[p]) /\ UNCHANGED <<size, queue, worker, bounds>>
  BY DEF RemoveUnlink
<1>2. FilesRemoved
  BY <1>0, <1>1, UnlinkRemoves DEF UnlinkFile
<1>3. CountsType' /\ UNCHANGED <<worker, stray>>
  <2>1. Mistaken(app[p].key, app[p]) \in Int
    BY <1>0, MistakenIsInt
  <2>2. drift' \in Int
    BY <1>0, <1>1, <2>1 DEF UnlinkFile, CountsType
  <2> QED BY <1>0, <1>1, <2>2 DEF UnlinkFile, CountsType, bounds
<1> QED BY <1>2, <1>3, RemovedOK DEF RemoveUnlink

LEMMA RemoveUnlinkFailsIInv ==
  ASSUME IInv, NEW p \in Procs, RemoveUnlinkFails(p)
  PROVE  IInv'
<1>0. CountsType /\ app[p].bytes \in Int
  BY WorkerFacts DEF AppRec
<1>1. /\ Fault /\ drift' = drift - app[p].bytes /\ UNCHANGED <<fs, stray>>
      /\ size' = size /\ queue' = queue /\ worker' = worker
  BY DEF RemoveUnlinkFails, UnlinkFileFails
<1>2. stray' \in BOOLEAN /\ drift' \in Int
  BY <1>0, <1>1 DEF CountsType
<1>3. CountsType'
  BY <1>0, <1>1, <1>2, FaultCounted
<1> QED BY <1>1, <1>3, SameFiles, RemovedOK DEF RemoveUnlinkFails

LEMMA RemoveSubIInv ==
  ASSUME IInv, NEW p \in Procs, RemoveSub(p)
  PROVE  IInv'
<1>0. CountsType /\ app[p] \in AppRec /\ app[p].bytes \in Int
  <2>1. CountsType /\ app[p] \in AppRec
    BY WorkerFacts
  <2> QED BY <2>1 DEF AppRec
<1>1. CountsType' /\ FilesRemoved /\ UNCHANGED <<worker, stray>>
  <2>1. size - app[p].bytes \in Int
    BY <1>0, Constants DEF CountsType
  <2>2. size' \in 0..(SizeWord - 1)
    BY <2>1, SizeIsWord DEF RemoveSub
  <2> QED BY <1>0, <2>2, SameFiles DEF RemoveSub, CountsType, bounds, history
<1>2. IdleApp.pc = "idle"
  BY DEF IdleApp
<1> QED BY <1>1, <1>2, IdleLocals, QuietAppIInv DEF RemoveSub, QuietApp

(* A reader that starts, goes on or ends.                                  *)
LEMMA ReaderIInv ==
  ASSUME IInv, NEW p \in Procs, NEW r, app' = [app EXCEPT ![p] = r], AppOK(r), r.pc # "unlink",
         ~stray /\ r.pc \in {"header", "data"} =>
           /\ \A k \in Keys : tmp[k] # r.fd
           /\ Whole(content[r.fd])
           /\ r.pc = "data" => content[r.fd][1] = r.header,
         UNCHANGED <<fs, size, queue, worker, bounds, history>>
  PROVE  IInv'
<1>0. /\ FilesType /\ CountsType /\ LocalsType /\ LocalsOK
      /\ LocksOK /\ NamesOK /\ WritersOK /\ FilesOK /\ ReadersOK /\ SeenOK
  BY TypeParts DEF IInv
<1>1. UNCHANGED <<file, tmp, content, flocked, size, queue, worker, puts, removes, faults, stray, drift>>
  BY DEF fs, bounds, history
<1>2. app'[p] = r /\ \A q \in Procs : q # p => app'[q] = app[q]
  BY <1>0 DEF LocalsType
<1>3. LocalsType'
  BY <1>0, <1>1 DEF LocalsType, AppOK
<1>4. LocalsOK'
  BY <1>0, <1>1, <1>2 DEF LocalsOK
<1>5. FilesType' /\ CountsType'
  BY <1>0, <1>1 DEF FilesType, CountsType
<1>6. LocksOK' /\ NamesOK' /\ FilesOK'
  BY <1>0, <1>1 DEF LocksOK, NamesOK, FilesOK
<1>7. WritersOK'
  BY <1>0, <1>1 DEF WritersOK
<1>8. ReadersOK'
  BY <1>0, <1>1, <1>2 DEF ReadersOK
<1>9. SeenOK'
  BY <1>0, <1>1, <1>2 DEF SeenOK, Sees
<1> QED BY <1>3, <1>4, <1>5, <1>6, <1>7, <1>8, <1>9, TypePartsNext DEF IInv

LEMMA GetIInv ==
  ASSUME IInv, NEW p \in Procs, NEW k \in Keys, disk_cache_get(p, k)
  PROVE  IInv'
<1>0. app[p] \in AppRec /\ FilesType /\ file[k] \in Inodes /\ file[k] # None
  <2>1. app[p] \in AppRec /\ FilesType /\ file[k] # None
    BY WorkerFacts DEF disk_cache_get
  <2> QED BY <2>1 DEF FilesType
<1>1. PICK r : r = [app[p] EXCEPT !.pc = "header", !.key = k, !.fd = file[k], !.bytes = OnDisk(k)]
  OBVIOUS
<1>2. r \in AppRec /\ r.pc = "header" /\ r.fd = file[k]
  BY <1>0, <1>1, OnDiskBounded DEF AppRec, AppPC
<1>3. app' = [app EXCEPT ![p] = r]
  BY <1>1 DEF disk_cache_get
<1>4. ~stray => (\A j \in Keys : tmp[j] # r.fd) /\ Whole(content[r.fd])
  BY <1>0, <1>2 DEF IInv, NamesOK, FilesOK
<1> QED BY <1>0, <1>2, <1>3, <1>4, ReaderIInv DEF AppOK, disk_cache_get

LEMMA GetHeaderIInv ==
  ASSUME IInv, NEW p \in Procs, GetHeader(p)
  PROVE  IInv'
<1>0. /\ app[p] \in AppRec /\ app[p].pc = "header" /\ app[p].fd \in Inodes
      /\ content[app[p].fd] \in Contents
  <2>1. app[p] \in AppRec /\ app[p].pc = "header" /\ app[p].fd \in Inodes /\ FilesType
    BY WorkerFacts DEF GetHeader, AppOK
  <2> QED BY <2>1 DEF FilesType
<1>1. PICK c : c = content[app[p].fd]
  OBVIOUS
<1>2. CASE c = << >>
  <2>1. app' = [app EXCEPT ![p] = IdleApp]
    BY <1>1, <1>2 DEF GetHeader
  <2>2. IdleApp.pc = "idle"
    BY DEF IdleApp
  <2> QED BY <2>1, <2>2, IdleLocals, ReaderIInv DEF GetHeader
<1>3. CASE c # << >>
  <2>1. PICK r : r = [app[p] EXCEPT !.pc = "data", !.header = c[1]]
    OBVIOUS
  <2>2. c[1] \in Payloads
    <3>1. c \in Seq(Payloads)
      BY <1>0, <1>1, ContentsAreSeqs
    <3> QED BY <1>3, <3>1
  <2>3. r \in AppRec /\ r.pc = "data" /\ r.fd = app[p].fd /\ r.header = c[1]
    BY <1>0, <2>1, <2>2 DEF AppRec, AppPC
  <2>4. app' = [app EXCEPT ![p] = r]
    BY <1>1, <1>3, <2>1 DEF GetHeader
  <2>5. ~stray => (\A j \in Keys : tmp[j] # r.fd) /\ Whole(content[r.fd]) /\ content[r.fd][1] = r.header
    BY <1>0, <1>1, <2>3 DEF IInv, ReadersOK
  <2> QED BY <1>0, <2>3, <2>4, <2>5, ReaderIInv DEF AppOK, GetHeader
<1> QED BY <1>2, <1>3

LEMMA GetDataIInv ==
  ASSUME IInv, NEW p \in Procs, GetData(p)
  PROVE  IInv'
<1>1. IdleApp.pc = "idle"
  BY DEF IdleApp
<1> QED BY <1>1, IdleLocals, ReaderIInv DEF GetData

LEMMA StutterIInv ==
  ASSUME IInv, UNCHANGED vars
  PROVE  IInv'
<1>0. CountsType /\ LocalsType /\ LocalsOK
  BY TypeParts DEF IInv
<1>1. CountsType' /\ FilesRemoved /\ UNCHANGED <<worker, app, stray>>
  BY <1>0, SameFiles DEF vars, CountsType, bounds, history
<1>2. LocalsType'
  BY <1>0, <1>1 DEF LocalsType
<1>3. \A q \in Procs : WorkerOK(worker'[q]) /\ QuietWorker(worker[q], worker'[q])
  BY <1>0, <1>1 DEF LocalsOK, QuietWorker
<1>4. \A q \in Procs : AppOK(app'[q]) /\ QuietApp(app[q], app'[q])
  BY <1>0, <1>1 DEF LocalsOK, QuietApp
<1> QED BY <1>1, <1>2, <1>3, <1>4, QuietIInv

(***************************************************************************)
(* The theorems                                                            *)
(***************************************************************************)

(* IInv is an invariant of the cache.                                      *)
THEOREM Invariance == Spec => []IInv
<1>1. Init => IInv
  BY InitIInv
<1>2. IInv /\ [Next]_vars => IInv'
  <2>1. SUFFICES ASSUME IInv, Next  PROVE IInv'
    BY StutterIInv
  <2>2. PICK p \in Procs : WorkerStep(p) \/ WorkerFails(p) \/ AppStep(p) \/ Kill(p)
    BY <2>1 DEF Next
  <2>3. CASE WorkerStep(p)
    <3>1. CASE PutStart(p) \/ EvictLoop(p) \/ EvictChoose(p) \/ EvictStat(p) \/ EvictUnlink(p) \/ EvictSub(p)
      BY <2>1, <3>1, PutStartIInv, EvictLoopIInv, EvictChooseIInv, EvictStatIInv, EvictUnlinkIInv,
         EvictSubIInv
    <3>2. CASE OpenTmp(p) \/ Flock(p) \/ CheckFinal(p) \/ Write(p) \/ Rename(p) \/ UnlinkTmp(p)
      BY <2>1, <3>2, OpenTmpIInv, FlockIInv, CheckFinalIInv, WriteIInv, RenameIInv, UnlinkTmpIInv
    <3>3. CASE StatFinal(p) \/ UnlinkFinal(p) \/ AddSize(p) \/ Close(p)
      BY <2>1, <3>3, StatFinalIInv, UnlinkFinalIInv, AddSizeIInv, CloseIInv
    <3> QED BY <2>3, <3>1, <3>2, <3>3 DEF WorkerStep
  <2>4. CASE AppStep(p)
    BY <2>1, <2>4, PutIInv, RemoveIInv, GetIInv, RemoveUnlinkIInv, RemoveUnlinkFailsIInv,
       RemoveSubIInv, GetHeaderIInv, GetDataIInv DEF AppStep
  <2>5. CASE WorkerFails(p)
    BY <2>1, <2>5, EvictLookFailsIInv, EvictUnlinkFailsIInv, CheckFinalFailsIInv, FailuresIInv,
       StatFinalFailsIInv DEF WorkerFails
  <2>6. CASE Kill(p)
    BY <2>1, <2>6, KillIInv
  <2> QED BY <2>2, <2>3, <2>4, <2>5, <2>6
<1> QED BY <1>1, <1>2, PTL DEF Spec

(* The types: the size stays a word however often it is taken off twice,   *)
(* a file never grows past the longest payload, and cache_put evicts at    *)
(* most EvictTries entries.                                                *)
THEOREM TypeCorrect == Spec => []TypeOK
<1>1. IInv => TypeOK
  BY DEF IInv
<1> QED BY <1>1, Invariance, PTL

(* "prevent any readers from seeing a partially written file": the rename  *)
(* of cache_put publishes whole files of one payload only, though what a   *)
(* longer one left behind may follow, and nobody writes to a file that has *)
(* been published.                                                         *)
THEOREM ReadersSeeWhole == Spec => []ReadersSeeWholeFiles
<1>1. IInv => ReadersSeeWholeFiles
  <2>1. SUFFICES ASSUME IInv, ~stray  PROVE ReadersSeeWholeFiles
    BY DEF ReadersSeeWholeFiles
  <2>2. \A k \in Keys : file[k] # None => Whole(content[file[k]])
    BY <2>1 DEF IInv, FilesOK
  <2>3. ASSUME NEW k \in Keys, file[k] # None, NEW p \in Procs, worker[p].pc = "write"
        PROVE  worker[p].fd # file[k]
    <3>1. tmp[worker[p].key] = worker[p].fd /\ worker[p].key \in Keys
      BY <2>1, <2>3 DEF IInv, WritersOK, LocalsOK, WorkerOK
    <3> QED BY <2>1, <2>3, <3>1 DEF IInv, NamesOK
  <2>4. \A p \in Procs : app[p].pc \in {"header", "data"} =>
          /\ Whole(content[app[p].fd])
          /\ app[p].pc = "data" => content[app[p].fd][1] = app[p].header
    BY <2>1 DEF IInv, ReadersOK
  <2> QED BY <2>2, <2>3, <2>4 DEF ReadersSeeWholeFiles
<1> QED BY <1>1, Invariance, PTL

(***************************************************************************)
(* The size in the index.                                                  *)
(*                                                                         *)
(* First the sums: a function that changes in one place changes its total  *)
(* by the difference there.                                                *)
(***************************************************************************)
Amounts == 0..(2 * MaxLength)

Counted(f, S) == {c \in S \X (1..(2 * MaxLength)) : c[2] <= f[c[1]]}

LEMMA CountedFinite ==
  ASSUME NEW f, NEW S, IsFiniteSet(S)
  PROVE  IsFiniteSet(Counted(f, S)) /\ Cardinality(Counted(f, S)) \in Nat
<1>1. IsFiniteSet(1..(2 * MaxLength))
  <2>1. 2 * MaxLength \in Int
    BY Constants
  <2> QED BY <2>1, FS_Interval
<1>2. IsFiniteSet(S \X (1..(2 * MaxLength)))
  BY <1>1, FS_Product
<1>3. Counted(f, S) \in SUBSET (S \X (1..(2 * MaxLength)))
  BY DEF Counted
<1>4. IsFiniteSet(Counted(f, S))
  BY <1>2, <1>3, FS_Subset
<1> QED BY <1>4, FS_CardinalityType

(* One argument counts for its value.                                      *)
LEMMA CountedOne ==
  ASSUME NEW f, NEW x, f[x] \in Amounts
  PROVE  Cardinality(Counted(f, {x})) = f[x]
<1>1. PICK m \in Amounts : m = f[x]
  OBVIOUS
<1>1a. m \in Nat /\ m <= 2 * MaxLength /\ MaxLength \in Nat
  BY Constants DEF Amounts
<1>2. PICK T : T = Counted(f, {x})
  OBVIOUS
<1>3. T = {<<x, n>> : n \in 1..m}
  BY <1>1, <1>1a, <1>2 DEF Counted
<1>4. PICK b : b = [n \in 1..m |-> <<x, n>>]
  OBVIOUS
<1>5. b \in Bijection(1..m, T)
  <2>1. b \in [1..m -> T] /\ \A n \in 1..m : b[n] = <<x, n>>
    BY <1>3, <1>4
  <2>2. b \in Injection(1..m, T)
    <3>1. ASSUME NEW i \in 1..m, NEW j \in 1..m, b[i] = b[j]  PROVE i = j
      BY <2>1, <3>1
    <3> QED BY <2>1, <3>1 DEF Injection, IsInjective
  <2>3. b \in Surjection(1..m, T)
    <3>1. \A t \in T : \E n \in 1..m : b[n] = t
      BY <1>3, <2>1
    <3> QED BY <2>1, <3>1 DEF Surjection
  <2> QED BY <2>2, <2>3 DEF Bijection
<1>6. ExistsBijection(1..m, T)
  BY <1>5 DEF ExistsBijection
<1>7. Cardinality(T) = m
  BY <1>1a, <1>6, FS_CountingElements
<1> QED BY <1>1, <1>2, <1>7

LEMMA CountedSplit ==
  ASSUME NEW f, NEW S, IsFiniteSet(S), NEW x \in S, f[x] \in Amounts
  PROVE  Cardinality(Counted(f, S)) = Cardinality(Counted(f, S \ {x})) + f[x]
<1>1. PICK A, B : A = Counted(f, S \ {x}) /\ B = Counted(f, {x})
  OBVIOUS
<1>2. IsFiniteSet(S \ {x}) /\ IsFiniteSet({x})
  BY FS_RemoveElement, FS_Singleton
<1>3. IsFiniteSet(A) /\ IsFiniteSet(B) /\ Cardinality(A) \in Nat
  BY <1>1, <1>2, CountedFinite
<1>4. Counted(f, S) = A \cup B /\ A \cap B = {}
  BY <1>1 DEF Counted
<1>5. Cardinality(A \cap B) = 0
  BY <1>4, FS_EmptySet
<1>6. Cardinality(B) = f[x]
  BY <1>1, CountedOne
<1>7. f[x] \in Nat
  BY DEF Amounts
<1>8. Cardinality(A \cup B) = Cardinality(A) + Cardinality(B) - Cardinality(A \cap B)
  BY <1>3, FS_Union
<1> QED BY <1>1, <1>3, <1>4, <1>5, <1>6, <1>7, <1>8

LEMMA TotalIsCounted ==
  ASSUME NEW f, NEW S, f \in [S -> Amounts]
  PROVE  Total(f) = Cardinality(Counted(f, S))
BY DEF Total, Counted

LEMMA TotalIsNat ==
  ASSUME NEW S, IsFiniteSet(S), NEW f \in [S -> Amounts]
  PROVE  Total(f) \in Nat
BY TotalIsCounted, CountedFinite

LEMMA TotalUpdate ==
  ASSUME NEW S, IsFiniteSet(S), NEW f \in [S -> Amounts], NEW g \in [S -> Amounts], NEW x \in S,
         \A y \in S \ {x} : g[y] = f[y]
  PROVE  Total(g) = Total(f) - f[x] + g[x]
<1>1. Counted(g, S \ {x}) = Counted(f, S \ {x})
  BY DEF Counted
<1>2. PICK r : r = Cardinality(Counted(f, S \ {x}))
  OBVIOUS
<1>3. r \in Nat
  BY <1>2, CountedFinite, FS_RemoveElement
<1>4. f[x] \in Amounts /\ g[x] \in Amounts /\ f[x] \in Nat /\ g[x] \in Nat
  BY DEF Amounts
<1>5. Total(f) = r + f[x]
  BY <1>2, <1>4, CountedSplit, TotalIsCounted
<1>6. Total(g) = r + g[x]
  BY <1>1, <1>2, <1>4, CountedSplit, TotalIsCounted
<1> QED BY <1>3, <1>4, <1>5, <1>6

LEMMA TotalOfZero ==
  ASSUME NEW S, NEW f \in [S -> Amounts], \A x \in S : f[x] = 0
  PROVE  Total(f) = 0
<1>1. Counted(f, S) = {}
  BY DEF Counted
<1> QED BY <1>1, TotalIsCounted, FS_EmptySet

(***************************************************************************)
(* Arithmetic modulo the word: a balance stays a balance when both sides   *)
(* move by the same amount, though one of them wraps.                      *)
(***************************************************************************)
LEMMA MultipleOfWord ==
  ASSUME NEW k \in Int
  PROVE  (k * SizeWord) % SizeWord = 0
<1>1. PICK q \in Nat : q = SizeWord /\ q > 0
  BY Constants
<1>2. PICK n \in Int : n = k * q
  OBVIOUS
<1>3. PICK d \in Int, r \in Int : d = n \div q /\ r = n % q /\ n = d * q + r /\ 0 <= r /\ r < q
  BY <1>1
<1>4. (k - d) * q = k * q - d * q
  OBVIOUS
<1>5. (k - d) * q = r
  BY <1>2, <1>3, <1>4
<1>6. ~(k - d >= 1)
  <2>1. k - d >= 1 => (k - d) * q >= q
    BY <1>1
  <2> QED BY <1>3, <1>5, <2>1
<1>7. ~(k - d <= -1)
  <2>1. k - d <= -1 => (k - d) * q <= -q
    BY <1>1
  <2> QED BY <1>1, <1>3, <1>5, <2>1
<1>8. k - d = 0
  BY <1>6, <1>7
<1> QED BY <1>1, <1>2, <1>3, <1>5, <1>8

LEMMA Balance ==
  ASSUME NEW s \in Int, NEW x \in Int, NEW b \in Int, (s - x) % SizeWord = 0
  PROVE  (((s + b) % SizeWord) - (x + b)) % SizeWord = 0
<1>1. PICK q \in Nat : q = SizeWord /\ q > 0
  BY Constants
<1>2. PICK k \in Int : s - x = k * q
  BY <1>1
<1>3. PICK d \in Int, r \in Int : r = (s + b) % q /\ s + b = d * q + r
  <2>1. PICK n \in Int : n = s + b
    OBVIOUS
  <2>2. n \div q \in Int /\ n % q \in Int /\ n = (n \div q) * q + (n % q)
    BY <1>1
  <2> QED BY <2>1, <2>2
<1>4. (k - d) * q = k * q - d * q
  OBVIOUS
<1>5. r - (x + b) = (k - d) * q
  BY <1>2, <1>3, <1>4
<1>6. ((k - d) * SizeWord) % SizeWord = 0
  BY MultipleOfWord
<1> QED BY <1>1, <1>3, <1>5, <1>6

(***************************************************************************)
(* The books: what the files take and what is still to be added or taken   *)
(* off.                                                                    *)
(***************************************************************************)
Disk == Total([k \in Keys |-> OnDisk(k)])
Subs == Total([p \in Procs |-> PendingSub(p)])
Adds == Total([p \in Procs |-> PendingAdd(p)])

(* What one process has still to take off and to add.                      *)
SubOf(w, a) == (IF w.pc = "esub" THEN w.bytes ELSE 0) + (IF a.pc = "sub" THEN a.bytes ELSE 0)
AddOf(w) == IF w.pc \in {"stat", "add"} THEN w.bytes ELSE 0

(* A step that writes to no final file.                                    *)
FilesKept == \A k \in Keys : file[k] # None => content'[file[k]] = content[file[k]]

LEMMA PendingIs ==
  ASSUME NEW p
  PROVE  /\ PendingSub(p) = SubOf(worker[p], app[p]) /\ PendingAdd(p) = AddOf(worker[p])
         /\ PendingSub(p)' = SubOf(worker'[p], app'[p]) /\ PendingAdd(p)' = AddOf(worker'[p])
BY DEF PendingSub, PendingAdd, SubOf, AddOf

LEMMA OnDiskAmount ==
  ASSUME IInv, NEW k \in Keys
  PROVE  OnDisk(k) \in Amounts
BY OnDiskBounded, Constants DEF Amounts

LEMMA OnDiskAmountNext ==
  ASSUME IInv', NEW k \in Keys
  PROVE  OnDisk(k)' \in Amounts
<1>1. CASE file'[k] = None
  BY <1>1, Constants DEF OnDisk, Amounts
<1>2. CASE file'[k] # None
  <2>1. PICK c \in Contents : c = content'[file'[k]]
    BY <1>2 DEF IInv, TypeOK
  <2>2. Len(c) \in 0..MaxLength
    BY ContentsAreSeqs
  <2> QED BY <1>2, <2>1, <2>2, Constants DEF OnDisk, Amounts
<1> QED BY <1>1, <1>2

LEMMA AmountsOf ==
  ASSUME NEW w \in WorkerRec, NEW a \in AppRec
  PROVE  SubOf(w, a) \in Amounts /\ AddOf(w) \in Amounts
<1>1. w.bytes \in 0..MaxLength /\ a.bytes \in 0..MaxLength /\ MaxLength \in Nat
  BY Constants DEF WorkerRec, AppRec
<1> QED BY <1>1 DEF SubOf, AddOf, Amounts

LEMMA Finiteness == IsFiniteSet(Procs) /\ IsFiniteSet(Keys)
BY CacheAssumption

(* A step that changes one name of a final file, and one that changes none.*)
LEMMA DiskChange ==
  ASSUME IInv, IInv', FilesKept, NEW k \in Keys, \A j \in Keys \ {k} : file'[j] = file[j]
  PROVE  /\ Disk \in Nat /\ Disk' \in Nat
         /\ Disk' = Disk + (OnDisk(k)' - OnDisk(k))
<1>1. PICK f : f = [j \in Keys |-> OnDisk(j)]
  OBVIOUS
<1>2. PICK g : g = [j \in Keys |-> OnDisk(j)']
  OBVIOUS
<1>3. f \in [Keys -> Amounts] /\ \A j \in Keys : f[j] = OnDisk(j)
  BY <1>1, OnDiskAmount
<1>4. g \in [Keys -> Amounts] /\ \A j \in Keys : g[j] = OnDisk(j)'
  BY <1>2, OnDiskAmountNext
<1>5. \A j \in Keys \ {k} : OnDisk(j)' = OnDisk(j)
  BY DEF OnDisk, FilesKept
<1>6. \A j \in Keys \ {k} : g[j] = f[j]
  BY <1>3, <1>4, <1>5
<1>7. Disk = Total(f)
  BY <1>1 DEF Disk
<1>8. Disk' = Total(g)
  BY <1>2 DEF Disk
<1>9. Total(f) \in Nat /\ Total(g) \in Nat
  BY <1>3, <1>4, Finiteness, TotalIsNat
<1>10. Total(g) = Total(f) - f[k] + g[k]
  BY <1>3, <1>4, <1>6, Finiteness, TotalUpdate
<1>11. f[k] \in Nat /\ g[k] \in Nat
  BY <1>3, <1>4 DEF Amounts
<1> QED BY <1>3, <1>4, <1>7, <1>8, <1>9, <1>10, <1>11

LEMMA DiskSame ==
  ASSUME IInv, FilesKept, file' = file
  PROVE  Disk \in Nat /\ Disk' = Disk
<1>1. PICK f : f = [j \in Keys |-> OnDisk(j)]
  OBVIOUS
<1>2. PICK g : g = [j \in Keys |-> OnDisk(j)']
  OBVIOUS
<1>3. f \in [Keys -> Amounts]
  BY <1>1, OnDiskAmount
<1>4. \A j \in Keys : OnDisk(j)' = OnDisk(j)
  BY DEF OnDisk, FilesKept
<1>5. g = f
  BY <1>1, <1>2, <1>4
<1>6. Disk = Total(f)
  BY <1>1 DEF Disk
<1>7. Disk' = Total(g)
  BY <1>2 DEF Disk
<1> QED BY <1>3, <1>5, <1>6, <1>7, Finiteness, TotalIsNat

(* Only OpenTmp and Write change a file, and neither a final one.          *)
LEMMA OpenTmpKeeps ==
  ASSUME IInv, NEW p \in Procs, OpenTmp(p)
  PROVE  FilesKept
<1>1. CASE content' = content
  BY <1>1 DEF FilesKept
<1>2. CASE content' # content
  <2>1. PICK i : i = Min(Inodes \ InUse)
    OBVIOUS
  <2>2. Inodes \ InUse # {} /\ content' = [content EXCEPT ![i] = << >>]
    BY <1>2, <2>1 DEF OpenTmp
  <2>3. i \in Inodes \ InUse
    BY <2>1, <2>2, Constants, MinOfSet
  <2>4. \A k \in Keys : file[k] # i
    BY <2>3 DEF InUse
  <2>5. \A k \in Keys : file[k] # None => file[k] \in Inodes
    BY DEF IInv, TypeOK
  <2> QED BY <2>2, <2>4, <2>5 DEF FilesKept, IInv, TypeOK
<1> QED BY <1>1, <1>2

LEMMA WriteKeeps ==
  ASSUME IInv, ~stray, NEW p \in Procs, Write(p)
  PROVE  FilesKept
<1>1. worker[p].pc = "write" /\ worker[p].key \in Keys
  BY WorkerFacts DEF Write, WorkerOK
<1>2. tmp[worker[p].key] = worker[p].fd
  BY <1>1 DEF IInv, WritersOK
<1>3. \A k \in Keys : file[k] # None => file[k] # worker[p].fd /\ file[k] \in Inodes
  BY <1>1, <1>2 DEF IInv, NamesOK, TypeOK
<1>4. \A i \in Inodes : i # worker[p].fd => content'[i] = content[i]
  BY DEF Write, IInv, TypeOK
<1> QED BY <1>3, <1>4 DEF FilesKept

(* A step of one process.                                                  *)
LEMMA PendingChange ==
  ASSUME IInv, IInv', NEW p \in Procs,
         \A q \in Procs \ {p} : worker'[q] = worker[q] /\ app'[q] = app[q]
  PROVE  /\ Subs \in Nat /\ Subs' \in Nat /\ Adds \in Nat /\ Adds' \in Nat
         /\ Subs' = Subs - SubOf(worker[p], app[p]) + SubOf(worker'[p], app'[p])
         /\ Adds' = Adds - AddOf(worker[p]) + AddOf(worker'[p])
<1>1. \A q \in Procs : worker[q] \in WorkerRec /\ app[q] \in AppRec
  BY WorkerFacts
<1>2. \A q \in Procs : worker'[q] \in WorkerRec /\ app'[q] \in AppRec
  BY DEF IInv, LocalsOK, WorkerOK, AppOK
<1>3. PICK f, h : f = [q \in Procs |-> SubOf(worker[q], app[q])] /\ h = [q \in Procs |-> AddOf(worker[q])]
  OBVIOUS
<1>4. PICK g, i : g = [q \in Procs |-> SubOf(worker'[q], app'[q])] /\ i = [q \in Procs |-> AddOf(worker'[q])]
  OBVIOUS
<1>5. f \in [Procs -> Amounts] /\ h \in [Procs -> Amounts]
  BY <1>1, <1>3, AmountsOf
<1>6. g \in [Procs -> Amounts] /\ i \in [Procs -> Amounts]
  BY <1>2, <1>4, AmountsOf
<1>7. \A q \in Procs \ {p} : g[q] = f[q] /\ i[q] = h[q]
  BY <1>3, <1>4
<1>8. Subs = Total(f) /\ Adds = Total(h)
  BY <1>3, PendingIs DEF Subs, Adds
<1>9. Subs' = Total(g) /\ Adds' = Total(i)
  <2>1. g = [q \in Procs |-> PendingSub(q)'] /\ i = [q \in Procs |-> PendingAdd(q)']
    BY <1>4, PendingIs
  <2> QED BY <2>1 DEF Subs, Adds
<1>10. Total(f) \in Nat /\ Total(g) \in Nat /\ Total(h) \in Nat /\ Total(i) \in Nat
  BY <1>5, <1>6, Finiteness, TotalIsNat
<1>11. Total(g) = Total(f) - f[p] + g[p]
  BY <1>5, <1>6, <1>7, Finiteness, TotalUpdate
<1>12. Total(i) = Total(h) - h[p] + i[p]
  BY <1>5, <1>6, <1>7, Finiteness, TotalUpdate
<1>13. /\ f[p] = SubOf(worker[p], app[p]) /\ g[p] = SubOf(worker'[p], app'[p])
       /\ h[p] = AddOf(worker[p]) /\ i[p] = AddOf(worker'[p])
  BY <1>3, <1>4
<1> QED BY <1>8, <1>9, <1>10, <1>11, <1>12, <1>13

(* What a step takes from the one side of the books it puts on the other,  *)
(* or on the size.                                                         *)
LEMMA StepBooks ==
  ASSUME IInv, IInv', SizeAccounted, ~stray, NEW p \in Procs,
         \A q \in Procs \ {p} : worker'[q] = worker[q] /\ app'[q] = app[q],
         NEW d \in Int, NEW b \in Int, Disk \in Nat, Disk' = Disk + d,
         d + SubOf(worker'[p], app'[p]) - AddOf(worker'[p]) + drift'
           = SubOf(worker[p], app[p]) - AddOf(worker[p]) + drift + b,
         size' = (size + b) % SizeWord \/ (b = 0 /\ size' = size)
  PROVE  SizeAccounted'
<1>1. PICK x \in Int : x = Disk + Subs - Adds + drift
  <2>1. Subs \in Nat /\ Adds \in Nat
    BY PendingChange
  <2>2. drift \in Int
    BY DEF IInv, TypeOK
  <2> QED BY <2>1, <2>2
<1>2. Disk' + Subs' - Adds' + drift' = x + b
  <2>1. /\ Subs \in Nat /\ Adds \in Nat /\ Subs' \in Nat /\ Adds' \in Nat
        /\ Subs' = Subs - SubOf(worker[p], app[p]) + SubOf(worker'[p], app'[p])
        /\ Adds' = Adds - AddOf(worker[p]) + AddOf(worker'[p])
    BY PendingChange
  <2>2. drift \in Int /\ drift' \in Int
    BY DEF IInv, TypeOK
  <2>3. /\ SubOf(worker[p], app[p]) \in Int /\ AddOf(worker[p]) \in Int
        /\ SubOf(worker'[p], app'[p]) \in Int /\ AddOf(worker'[p]) \in Int
    <3>1. worker[p] \in WorkerRec /\ app[p] \in AppRec /\ worker'[p] \in WorkerRec /\ app'[p] \in AppRec
      BY DEF IInv, LocalsOK, WorkerOK, AppOK
    <3>2. \A m \in Amounts : m \in Int
      BY DEF Amounts
    <3> QED BY <3>1, <3>2, AmountsOf
  <2> QED BY <1>1, <2>1, <2>2, <2>3
<1>3. (size - x) % SizeWord = 0
  BY <1>1 DEF SizeAccounted, Disk, Subs, Adds
<1>4. (size' - (x + b)) % SizeWord = 0
  <2>1. size \in Int
    BY Constants DEF IInv, TypeOK
  <2>2. CASE size' = (size + b) % SizeWord
    BY <1>3, <2>1, <2>2, Balance
  <2>3. CASE b = 0 /\ size' = size
    <3>1. x + b = x
      BY <2>3
    <3> QED BY <1>3, <2>3, <3>1
  <2> QED BY <2>2, <2>3
<1> QED BY <1>2, <1>4 DEF SizeAccounted, Disk, Subs, Adds

(* Nothing is said once a worker has gone astray.                          *)
LEMMA StrayBooks ==
  ASSUME stray'
  PROVE  SizeAccounted'
BY DEF SizeAccounted

LEMMA Figures ==
  ASSUME IInv, NEW p \in Procs
  PROVE  /\ drift \in Int /\ size \in Int /\ worker[p].bytes \in Int /\ app[p].bytes \in Int
         /\ SubOf(worker[p], app[p]) \in Int /\ AddOf(worker[p]) \in Int
         /\ (IF app[p].pc = "sub" THEN app[p].bytes ELSE 0) \in Int
         /\ (IF worker[p].pc = "esub" THEN worker[p].bytes ELSE 0) \in Int
<1>1. worker[p] \in WorkerRec /\ app[p] \in AppRec
  BY WorkerFacts
<1>2. worker[p].bytes \in Int /\ app[p].bytes \in Int
  BY <1>1, Constants DEF WorkerRec, AppRec
<1>3. drift \in Int /\ size \in Int
  BY Constants DEF IInv, TypeOK
<1> QED BY <1>2, <1>3 DEF SubOf, AddOf

(***************************************************************************)
(* The steps that leave the books alone.                                   *)
(***************************************************************************)
LEMMA QuietWorkerBooks ==
  ASSUME IInv, IInv', SizeAccounted, ~stray' => ~stray, NEW p \in Procs, NEW r,
         worker' = [worker EXCEPT ![p] = r],
         worker[p].pc \notin {"esub", "stat", "add"}, r.pc \notin {"esub", "stat", "add"},
         ~stray => FilesKept, UNCHANGED <<file, size, drift, app>>
  PROVE  SizeAccounted'
<1>1. SUFFICES ASSUME ~stray'  PROVE SizeAccounted'
  BY StrayBooks
<1>2. ~stray /\ Disk \in Nat /\ Disk' = Disk + 0
  BY <1>1, DiskSame
<1>3. worker'[p] = r /\ \A q \in Procs \ {p} : worker'[q] = worker[q] /\ app'[q] = app[q]
  BY DEF IInv, TypeOK
<1>4. SubOf(worker'[p], app'[p]) = SubOf(worker[p], app[p]) /\ AddOf(worker'[p]) = 0 /\ AddOf(worker[p]) = 0
  BY <1>3 DEF SubOf, AddOf
<1>5. /\ 0 + SubOf(worker'[p], app'[p]) - AddOf(worker'[p]) + drift'
           = SubOf(worker[p], app[p]) - AddOf(worker[p]) + drift + 0
      /\ size' = size /\ 0 \in Int
  BY <1>4, Figures
<1> QED BY <1>2, <1>3, <1>5, StepBooks

LEMMA QuietAppBooks ==
  ASSUME IInv, IInv', SizeAccounted, NEW p \in Procs, NEW r,
         app' = [app EXCEPT ![p] = r], app[p].pc # "sub", r.pc # "sub",
         UNCHANGED <<file, content, size, stray, drift, worker>>
  PROVE  SizeAccounted'
<1>1. SUFFICES ASSUME ~stray'  PROVE SizeAccounted'
  BY StrayBooks
<1>2. ~stray /\ Disk \in Nat /\ Disk' = Disk + 0
  BY <1>1, DiskSame DEF FilesKept
<1>3. app'[p] = r /\ \A q \in Procs \ {p} : worker'[q] = worker[q] /\ app'[q] = app[q]
  BY DEF IInv, TypeOK
<1>4. SubOf(worker'[p], app'[p]) = SubOf(worker[p], app[p]) /\ AddOf(worker'[p]) = AddOf(worker[p])
  BY <1>3 DEF SubOf, AddOf
<1>5. /\ 0 + SubOf(worker'[p], app'[p]) - AddOf(worker'[p]) + drift'
           = SubOf(worker[p], app[p]) - AddOf(worker[p]) + drift + 0
      /\ size' = size /\ 0 \in Int
  BY <1>4, Figures
<1> QED BY <1>2, <1>3, <1>5, StepBooks

(* A move to a place where nothing is pending.                             *)
LEMMA GotoBooks ==
  ASSUME IInv, IInv', SizeAccounted, ~stray' => ~stray, NEW p \in Procs, NEW pc, Goto(p, pc),
         worker[p].pc \notin {"esub", "stat", "add"}, pc \notin {"esub", "stat", "add"},
         UNCHANGED <<file, content, size, drift, app>>
  PROVE  SizeAccounted'
<1>1. PICK r : r = [worker[p] EXCEPT !.pc = pc]
  OBVIOUS
<1>2. worker[p] \in WorkerRec
  BY WorkerFacts
<1>3. r.pc = pc
  BY <1>1, <1>2 DEF WorkerRec
<1>4. worker' = [worker EXCEPT ![p] = r]
  BY <1>1 DEF Goto
<1>5. FilesKept
  BY DEF FilesKept
<1> QED BY <1>3, <1>4, <1>5, QuietWorkerBooks

LEMMA TriesFree ==
  ASSUME NEW w \in WorkerRec
  PROVE  NothingFound(w).pc \in {"choose", "evict"} /\ NextTry(w).pc = "evict"
BY DEF NothingFound, NextTry, WorkerRec

LEMMA NothingFoundBooks ==
  ASSUME IInv, IInv', SizeAccounted, NEW p \in Procs, worker' = [worker EXCEPT ![p] = NothingFound(@)],
         worker[p].pc \notin {"esub", "stat", "add"}, UNCHANGED <<file, content, size, stray, drift, app>>
  PROVE  SizeAccounted'
<1>1. PICK r : r = NothingFound(worker[p])
  OBVIOUS
<1>2. r.pc \in {"choose", "evict"}
  BY <1>1, WorkerFacts, TriesFree
<1>3. worker' = [worker EXCEPT ![p] = r]
  BY <1>1
<1>4. FilesKept
  BY DEF FilesKept
<1> QED BY <1>2, <1>3, <1>4, QuietWorkerBooks

(* The steps of the eviction that only look.                               *)
LEMMA LookBooks ==
  ASSUME IInv, IInv', SizeAccounted, NEW p \in Procs,
         PutStart(p) \/ EvictLoop(p) \/ EvictChoose(p) \/ EvictStat(p) \/ EvictLookFails(p)
  PROVE  SizeAccounted'
<1>0. worker[p] \in WorkerRec
  BY WorkerFacts
<1>1. CASE PutStart(p)
  <2>1. PICK r : r = [worker[p] EXCEPT !.pc = "evict", !.key = Head(queue[p]).key,
                                       !.payload = Head(queue[p]).payload]
    OBVIOUS
  <2>2. r.pc = "evict"
    BY <1>0, <2>1 DEF WorkerRec
  <2>3. worker' = [worker EXCEPT ![p] = r] /\ UNCHANGED <<file, size, drift, stray, app>> /\ FilesKept
    BY <1>1, <2>1 DEF PutStart, fs, history, FilesKept
  <2>4. worker[p].pc = "idle"
    BY <1>1 DEF PutStart
  <2> QED BY <2>2, <2>3, <2>4, QuietWorkerBooks
<1>2. CASE EvictLoop(p)
  <2>1. UNCHANGED <<file, content, size, drift, stray, app>>
    BY <1>2 DEF EvictLoop, fs, history
  <2> QED BY <1>2, <2>1, GotoBooks DEF EvictLoop
<1>3. CASE EvictChoose(p)
  <2>1. UNCHANGED <<file, content, size, drift, stray, app>> /\ worker[p].pc = "choose"
    BY <1>3 DEF EvictChoose, fs, history
  <2>2. CASE worker' = [worker EXCEPT ![p] = NothingFound(@)]
    BY <2>1, <2>2, NothingFoundBooks
  <2>3. ASSUME NEW k \in Keys, worker' = [worker EXCEPT ![p].pc = "estat", ![p].victim = k]
        PROVE  SizeAccounted'
    <3>1. PICK r : r = [worker[p] EXCEPT !.pc = "estat", !.victim = k]
      OBVIOUS
    <3>2. r.pc = "estat"
      BY <1>0, <3>1 DEF WorkerRec
    <3>3. worker' = [worker EXCEPT ![p] = r] /\ FilesKept
      BY <2>1, <2>3, <3>1 DEF FilesKept
    <3> QED BY <2>1, <3>2, <3>3, QuietWorkerBooks
  <2> QED BY <1>3, <2>2, <2>3 DEF EvictChoose
<1>4. CASE EvictStat(p)
  <2>0. PICK k : k = worker[p].victim
    OBVIOUS
  <2>1. UNCHANGED <<file, content, size, drift, stray, app>> /\ worker[p].pc = "estat"
    BY <1>4 DEF EvictStat, fs, history
  <2>2. CASE file[k] = None
    <3>1. worker' = [worker EXCEPT ![p] = NothingFound(@)]
      BY <1>4, <2>0, <2>2 DEF EvictStat
    <3> QED BY <2>1, <3>1, NothingFoundBooks
  <2>3. CASE file[k] # None
    <3>1. PICK r : r = [worker[p] EXCEPT !.pc = "eunlink", !.bytes = OnDisk(k), !.seen = file[k]]
      OBVIOUS
    <3>2. r.pc = "eunlink"
      BY <1>0, <3>1 DEF WorkerRec
    <3>3. worker' = [worker EXCEPT ![p] = r]
      BY <1>4, <2>0, <2>3, <3>1 DEF EvictStat
    <3>4. FilesKept
      BY <2>1 DEF FilesKept
    <3> QED BY <2>1, <3>2, <3>3, <3>4, QuietWorkerBooks
  <2> QED BY <2>2, <2>3
<1>5. CASE EvictLookFails(p)
  <2>1. UNCHANGED <<file, content, size, drift, stray, app>> /\ worker[p].pc \in {"choose", "estat"}
    BY <1>5 DEF EvictLookFails, fs, history
  <2> QED BY <1>5, <2>1, NothingFoundBooks DEF EvictLookFails
<1> QED BY <1>1, <1>2, <1>3, <1>4, <1>5

(* The steps on the .tmp file, and the end of cache_put.                   *)
LEMMA TmpBooks ==
  ASSUME IInv, IInv', SizeAccounted, NEW p \in Procs,
         OpenTmp(p) \/ Flock(p) \/ CheckFinal(p) \/ Write(p) \/ UnlinkTmp(p) \/ Close(p)
  PROVE  SizeAccounted'
<1>0. worker[p] \in WorkerRec
  BY WorkerFacts
<1>1. CASE OpenTmp(p)
  <2>1. UNCHANGED <<file, size, drift, stray, app>> /\ worker[p].pc = "open"
    BY <1>1 DEF OpenTmp, history
  <2>2. PICK i : worker' = [worker EXCEPT ![p].pc = "flock", ![p].fd = i]
    BY <1>1 DEF OpenTmp
  <2>3. PICK r : r = [worker[p] EXCEPT !.pc = "flock", !.fd = i]
    OBVIOUS
  <2>4. r.pc = "flock"
    BY <1>0, <2>3 DEF WorkerRec
  <2>5. worker' = [worker EXCEPT ![p] = r]
    BY <2>2, <2>3
  <2>6. FilesKept
    BY <1>1, OpenTmpKeeps
  <2> QED BY <2>1, <2>4, <2>5, <2>6, QuietWorkerBooks
<1>2. CASE Flock(p)
  <2>1. UNCHANGED <<file, content, size, drift, stray, app>>
    BY <1>2 DEF Flock, history
  <2> QED BY <1>2, <2>1, GotoBooks DEF Flock
<1>3. CASE CheckFinal(p)
  <2>1. UNCHANGED <<file, content, size, drift, app>> /\ (~stray' => ~stray)
    BY <1>3 DEF CheckFinal, StartWriting, fs, history
  <2>2. worker[p].pc = "final" /\ (Goto(p, "unlinktmp") \/ Goto(p, "write"))
    BY <1>3 DEF CheckFinal, StartWriting
  <2> QED BY <2>1, <2>2, GotoBooks
<1>4. CASE Write(p)
  <2>1. UNCHANGED <<file, size, drift, stray, app>> /\ worker[p].pc = "write"
    BY <1>4 DEF Write, history
  <2>2. PICK pc \in {"rename", "write"} : worker' = [worker EXCEPT ![p].offset = @ + 1, ![p].pc = pc]
    BY <1>4 DEF Write
  <2>3. PICK r : r = [worker[p] EXCEPT !.offset = @ + 1, !.pc = pc]
    OBVIOUS
  <2>4. r.pc = pc
    BY <1>0, <2>3 DEF WorkerRec
  <2>5. worker' = [worker EXCEPT ![p] = r]
    BY <2>2, <2>3
  <2>6. ~stray => FilesKept
    BY <1>4, WriteKeeps
  <2> QED BY <2>1, <2>2, <2>4, <2>5, <2>6, QuietWorkerBooks
<1>5. CASE UnlinkTmp(p)
  <2>1. UNCHANGED <<file, content, size, drift, app>> /\ (~stray' => ~stray)
    BY <1>5 DEF UnlinkTmp
  <2> QED BY <1>5, <2>1, GotoBooks DEF UnlinkTmp
<1>6. CASE Close(p)
  <2>1. /\ UNCHANGED <<file, size, drift, stray, app>> /\ worker[p].pc = "close" /\ IdleWorker.pc = "idle"
        /\ FilesKept
    BY <1>6 DEF Close, history, IdleWorker, FilesKept
  <2> QED BY <1>6, <2>1, QuietWorkerBooks DEF Close
<1> QED BY <1>1, <1>2, <1>3, <1>4, <1>5, <1>6

LEMMA FailureBooks ==
  ASSUME IInv, IInv', SizeAccounted, NEW p \in Procs,
         OpenOrFlockFails(p) \/ CheckFinalFails(p) \/ WriteOrRenameFails(p) \/ LastUnlinkFails(p)
  PROVE  SizeAccounted'
<1>1. CASE OpenOrFlockFails(p) \/ WriteOrRenameFails(p) \/ LastUnlinkFails(p)
  <2>1. UNCHANGED <<file, content, size, drift, stray, app>>
    BY <1>1 DEF OpenOrFlockFails, WriteOrRenameFails, LastUnlinkFails, fs, history
  <2> QED BY <1>1, <2>1, GotoBooks DEF OpenOrFlockFails, WriteOrRenameFails, LastUnlinkFails
<1>2. CASE CheckFinalFails(p)
  <2>1. UNCHANGED <<file, content, size, drift, app>> /\ (~stray' => ~stray) /\ Goto(p, "write")
    BY <1>2 DEF CheckFinalFails, StartWriting, fs
  <2> QED BY <1>2, <2>1, GotoBooks DEF CheckFinalFails
<1> QED BY <1>1, <1>2

LEMMA QuietAppStepBooks ==
  ASSUME IInv, IInv', SizeAccounted, NEW p \in Procs,
         \/ \E k \in Keys : \/ \E e \in Payloads : disk_cache_put(p, k, e)
                            \/ disk_cache_remove(p, k) \/ disk_cache_get(p, k)
         \/ GetHeader(p) \/ GetData(p)
  PROVE  SizeAccounted'
<1>0. app[p] \in AppRec /\ IdleApp.pc = "idle"
  BY WorkerFacts DEF IdleApp
<1>1. ASSUME NEW k \in Keys, NEW e \in Payloads, disk_cache_put(p, k, e)  PROVE SizeAccounted'
  <2>1. UNCHANGED <<file, content, size, drift, stray, worker>> /\ app[p].pc = "idle"
    BY <1>1 DEF disk_cache_put, fs, history
  <2>2. app' = [app EXCEPT ![p] = app[p]]
    BY <1>1 DEF disk_cache_put, IInv, TypeOK
  <2> QED BY <2>1, <2>2, QuietAppBooks
<1>2. ASSUME NEW k \in Keys, disk_cache_remove(p, k)  PROVE SizeAccounted'
  <2>1. UNCHANGED <<file, content, size, drift, stray, worker>> /\ app[p].pc = "idle"
    BY <1>2 DEF disk_cache_remove, fs, history
  <2>2. PICK r : r = [app[p] EXCEPT !.pc = "unlink", !.key = k, !.bytes = OnDisk(k), !.seen = file[k]]
    OBVIOUS
  <2>3. r.pc = "unlink"
    BY <1>0, <2>2 DEF AppRec
  <2>4. app' = [app EXCEPT ![p] = r]
    BY <1>2, <2>2 DEF disk_cache_remove
  <2> QED BY <2>1, <2>3, <2>4, QuietAppBooks
<1>3. ASSUME NEW k \in Keys, disk_cache_get(p, k)  PROVE SizeAccounted'
  <2>1. UNCHANGED <<file, content, size, drift, stray, worker>> /\ app[p].pc = "idle"
    BY <1>3 DEF disk_cache_get, fs, history
  <2>2. PICK r : r = [app[p] EXCEPT !.pc = "header", !.key = k, !.fd = file[k], !.bytes = OnDisk(k)]
    OBVIOUS
  <2>3. r.pc = "header"
    BY <1>0, <2>2 DEF AppRec
  <2>4. app' = [app EXCEPT ![p] = r]
    BY <1>3, <2>2 DEF disk_cache_get
  <2> QED BY <2>1, <2>3, <2>4, QuietAppBooks
<1>4. CASE GetHeader(p)
  <2>0. PICK c : c = content[app[p].fd]
    OBVIOUS
  <2>1. UNCHANGED <<file, content, size, drift, stray, worker>> /\ app[p].pc = "header"
    BY <1>4 DEF GetHeader, fs, history
  <2>2. PICK r : r = IF c = << >> THEN IdleApp ELSE [app[p] EXCEPT !.pc = "data", !.header = c[1]]
    OBVIOUS
  <2>3. r.pc \in {"idle", "data"}
    BY <1>0, <2>2 DEF AppRec
  <2>4. app' = [app EXCEPT ![p] = r]
    BY <1>4, <2>0, <2>2 DEF GetHeader
  <2> QED BY <2>1, <2>3, <2>4, QuietAppBooks
<1>5. CASE GetData(p)
  <2>1. UNCHANGED <<file, content, size, drift, stray, worker>> /\ app[p].pc = "data"
    BY <1>5 DEF GetData, fs, history
  <2> QED BY <1>0, <1>5, <2>1, QuietAppBooks DEF GetData
<1> QED BY <1>1, <1>2, <1>3, <1>4, <1>5

(***************************************************************************)
(* The steps that book: on the directory first, on the size later.         *)
(***************************************************************************)

(* What a stat or a rename remembers of a file is what the file takes, so  *)
(* the history takes down the difference to what is there now.             *)
LEMMA MistakenIs ==
  ASSUME IInv, NEW k \in Keys, NEW x, x.seen \in Inodes, Sees(x), x.bytes \in Int
  PROVE  OnDisk(k) \in Int /\ Mistaken(k, x) = OnDisk(k) - x.bytes
<1>1. OnDisk(k) \in Int
  BY OnDiskAmount, Constants DEF Amounts
<1>2. CASE file[k] = x.seen
  <2>1. file[k] # None
    BY <1>2, Constants
  <2>2. OnDisk(k) = x.bytes
    BY <1>2, <2>1 DEF OnDisk, Sees
  <2> QED BY <1>1, <1>2, <2>2 DEF Mistaken
<1>3. CASE file[k] # x.seen
  BY <1>1, <1>3 DEF Mistaken
<1> QED BY <1>2, <1>3

(* A final file is removed.                                                *)
LEMMA UnlinkDisk ==
  ASSUME IInv, IInv', NEW k \in Keys, file' = [file EXCEPT ![k] = None], content' = content
  PROVE  Disk \in Nat /\ OnDisk(k) \in Int /\ Disk' = Disk + (0 - OnDisk(k))
<1>1. file'[k] = None /\ \A j \in Keys \ {k} : file'[j] = file[j]
  BY DEF IInv, TypeOK
<1>2. Disk \in Nat /\ Disk' = Disk + (OnDisk(k)' - OnDisk(k))
  BY <1>1, DiskChange DEF FilesKept
<1>3. OnDisk(k)' = 0
  BY <1>1 DEF OnDisk
<1>4. OnDisk(k) \in Int
  BY OnDiskAmount, Constants DEF Amounts
<1> QED BY <1>2, <1>3, <1>4

LEMMA UnlinkedIs ==
  ASSUME NEW w \in WorkerRec, w.pc = "eunlink"
  PROVE  /\ Unlinked(w).pc \in {"esub", "choose", "evict"}
         /\ (IF Unlinked(w).pc = "esub" THEN Unlinked(w).bytes ELSE 0) = w.bytes
<1>1. CASE w.bytes = 0
  <2>1. Unlinked(w) = NothingFound(w)
    BY <1>1 DEF Unlinked
  <2>2. Unlinked(w).pc \in {"choose", "evict"}
    BY <2>1, TriesFree
  <2> QED BY <1>1, <2>2
<1>2. CASE w.bytes # 0
  <2>1. PICK r : r = [w EXCEPT !.pc = "esub", !.seen = None]
    OBVIOUS
  <2>2. r.pc = "esub" /\ r.bytes = w.bytes
    BY <2>1 DEF WorkerRec
  <2>3. Unlinked(w) = r
    BY <1>2, <2>1 DEF Unlinked
  <2> QED BY <2>2, <2>3
<1> QED BY <1>1, <1>2

(* The eviction has still to take off what stat said, whatever d the       *)
(* directory lost.                                                         *)
LEMMA EvictedBooks ==
  ASSUME IInv, IInv', SizeAccounted, ~stray, NEW p \in Procs, worker[p].pc = "eunlink",
         worker' = [worker EXCEPT ![p] = Unlinked(@)], UNCHANGED <<app, size>>,
         NEW d \in Int, Disk \in Nat, Disk' = Disk + d, drift' = drift + (0 - d - worker[p].bytes)
  PROVE  SizeAccounted'
<1>1. PICK r : r = Unlinked(worker[p])
  OBVIOUS
<1>2. worker'[p] = r /\ \A q \in Procs \ {p} : worker'[q] = worker[q] /\ app'[q] = app[q]
  BY <1>1 DEF IInv, TypeOK
<1>3. r.pc \in {"esub", "choose", "evict"} /\ (IF r.pc = "esub" THEN r.bytes ELSE 0) = worker[p].bytes
  <2>1. worker[p] \in WorkerRec
    BY WorkerFacts
  <2> QED BY <1>1, <2>1, UnlinkedIs
<1>4. AddOf(worker'[p]) = 0 /\ AddOf(worker[p]) = 0
  BY <1>2, <1>3 DEF AddOf
<1>5. PICK a \in Int : a = IF app[p].pc = "sub" THEN app[p].bytes ELSE 0
  BY Figures
<1>6. worker[p].bytes \in Int /\ drift \in Int
  BY Figures
<1>7. SubOf(worker'[p], app'[p]) = worker[p].bytes + a /\ SubOf(worker[p], app[p]) = a
  BY <1>2, <1>3, <1>5 DEF SubOf
<1>8. d + SubOf(worker'[p], app'[p]) - AddOf(worker'[p]) + drift'
         = SubOf(worker[p], app[p]) - AddOf(worker[p]) + drift + 0
  BY <1>4, <1>5, <1>6, <1>7
<1> QED BY <1>2, <1>8, StepBooks

LEMMA EvictUnlinkBooks ==
  ASSUME IInv, IInv', SizeAccounted, NEW p \in Procs, EvictUnlink(p)
  PROVE  SizeAccounted'
<1>1. SUFFICES ASSUME ~stray'  PROVE SizeAccounted'
  BY StrayBooks
<1>2. PICK k \in Keys : k = worker[p].victim
  BY WorkerFacts DEF EvictUnlink, WorkerOK
<1>3. /\ ~stray /\ worker[p].pc = "eunlink" /\ file' = [file EXCEPT ![k] = None] /\ content' = content
      /\ drift' = drift + Mistaken(k, worker[p])
      /\ worker' = [worker EXCEPT ![p] = Unlinked(@)] /\ UNCHANGED <<app, size>>
  BY <1>1, <1>2 DEF EvictUnlink, UnlinkFile
<1>4. worker[p].seen \in Inodes /\ Sees(worker[p]) /\ worker[p].bytes \in Int /\ drift \in Int
  <2>1. worker[p].pc \in Remembering
    BY <1>3 DEF Remembering
  <2>2. worker[p].seen \in Inodes
    BY <2>1, WorkerFacts DEF WorkerOK
  <2>3. Sees(worker[p])
    BY <1>3, <2>1 DEF IInv, SeenOK
  <2> QED BY <2>2, <2>3, Figures
<1>5. OnDisk(k) \in Int /\ Mistaken(k, worker[p]) = OnDisk(k) - worker[p].bytes
  BY <1>4, MistakenIs
<1>6. Disk \in Nat /\ Disk' = Disk + (0 - OnDisk(k))
  BY <1>3, UnlinkDisk
<1>7. PICK d \in Int : d = 0 - OnDisk(k)
  BY <1>5
<1>8. drift' = drift + (0 - d - worker[p].bytes) /\ Disk' = Disk + d
  BY <1>3, <1>4, <1>5, <1>6, <1>7
<1> QED BY <1>3, <1>6, <1>8, EvictedBooks

LEMMA EvictUnlinkFailsBooks ==
  ASSUME IInv, IInv', SizeAccounted, NEW p \in Procs, EvictUnlinkFails(p)
  PROVE  SizeAccounted'
<1>1. SUFFICES ASSUME ~stray'  PROVE SizeAccounted'
  BY StrayBooks
<1>2. /\ ~stray /\ worker[p].pc = "eunlink" /\ UNCHANGED <<file, content>>
      /\ drift' = drift - worker[p].bytes
      /\ worker' = [worker EXCEPT ![p] = Unlinked(@)] /\ UNCHANGED <<app, size>>
  BY <1>1 DEF EvictUnlinkFails, UnlinkFileFails, fs
<1>3. Disk \in Nat /\ Disk' = Disk
  BY <1>2, DiskSame DEF FilesKept
<1>4. PICK d \in Int : d = 0
  OBVIOUS
<1>5. Disk' = Disk + d /\ drift' = drift + (0 - d - worker[p].bytes)
  BY <1>2, <1>3, <1>4, Figures
<1> QED BY <1>2, <1>3, <1>5, EvictedBooks

(* The same for disk_cache_remove.                                         *)
LEMMA RemovedBooks ==
  ASSUME IInv, IInv', SizeAccounted, ~stray, NEW p \in Procs, app[p].pc = "unlink",
         app' = [app EXCEPT ![p].pc = "sub", ![p].seen = None], UNCHANGED <<worker, size>>,
         NEW d \in Int, Disk \in Nat, Disk' = Disk + d, drift' = drift + (0 - d - app[p].bytes)
  PROVE  SizeAccounted'
<1>1. PICK r : r = [app[p] EXCEPT !.pc = "sub", !.seen = None]
  OBVIOUS
<1>2. r.pc = "sub" /\ r.bytes = app[p].bytes
  <2>1. app[p] \in AppRec
    BY WorkerFacts
  <2> QED BY <1>1, <2>1 DEF AppRec
<1>3. app' = [app EXCEPT ![p] = r]
  BY <1>1
<1>4. app'[p] = r /\ \A q \in Procs \ {p} : worker'[q] = worker[q] /\ app'[q] = app[q]
  BY <1>3 DEF IInv, TypeOK
<1>5. PICK a \in Int : a = IF worker[p].pc = "esub" THEN worker[p].bytes ELSE 0
  BY Figures
<1>6. app[p].bytes \in Int /\ drift \in Int /\ AddOf(worker[p]) \in Int /\ AddOf(worker'[p]) = AddOf(worker[p])
  BY Figures
<1>7. SubOf(worker'[p], app'[p]) = a + app[p].bytes /\ SubOf(worker[p], app[p]) = a
  BY <1>2, <1>4, <1>5 DEF SubOf
<1>8. /\ d + SubOf(worker'[p], app'[p]) - AddOf(worker'[p]) + drift'
           = SubOf(worker[p], app[p]) - AddOf(worker[p]) + drift + 0
      /\ size' = size /\ 0 \in Int
  BY <1>5, <1>6, <1>7
<1> QED BY <1>4, <1>8, StepBooks

LEMMA RemoveUnlinkBooks ==
  ASSUME IInv, IInv', SizeAccounted, NEW p \in Procs, RemoveUnlink(p)
  PROVE  SizeAccounted'
<1>1. SUFFICES ASSUME ~stray'  PROVE SizeAccounted'
  BY StrayBooks
<1>2. PICK k \in Keys : k = app[p].key
  BY WorkerFacts DEF RemoveUnlink, AppOK
<1>3. /\ ~stray /\ app[p].pc = "unlink" /\ file' = [file EXCEPT ![k] = None] /\ content' = content
      /\ drift' = drift + Mistaken(k, app[p])
      /\ app' = [app EXCEPT ![p].pc = "sub", ![p].seen = None] /\ UNCHANGED <<worker, size>>
  BY <1>1, <1>2 DEF RemoveUnlink, UnlinkFile
<1>4. app[p].seen \in Inodes /\ Sees(app[p]) /\ app[p].bytes \in Int /\ drift \in Int
  <2>1. app[p].seen \in Inodes
    BY <1>3, WorkerFacts DEF AppOK
  <2>2. Sees(app[p])
    BY <1>3 DEF IInv, SeenOK
  <2> QED BY <2>1, <2>2, Figures
<1>5. OnDisk(k) \in Int /\ Mistaken(k, app[p]) = OnDisk(k) - app[p].bytes
  BY <1>4, MistakenIs
<1>6. Disk \in Nat /\ Disk' = Disk + (0 - OnDisk(k))
  BY <1>3, UnlinkDisk
<1>7. PICK d \in Int : d = 0 - OnDisk(k)
  BY <1>5
<1>8. drift' = drift + (0 - d - app[p].bytes) /\ Disk' = Disk + d
  BY <1>3, <1>4, <1>5, <1>6, <1>7
<1> QED BY <1>3, <1>6, <1>8, RemovedBooks

LEMMA RemoveUnlinkFailsBooks ==
  ASSUME IInv, IInv', SizeAccounted, NEW p \in Procs, RemoveUnlinkFails(p)
  PROVE  SizeAccounted'
<1>1. SUFFICES ASSUME ~stray'  PROVE SizeAccounted'
  BY StrayBooks
<1>2. /\ ~stray /\ app[p].pc = "unlink" /\ UNCHANGED <<file, content>>
      /\ drift' = drift - app[p].bytes
      /\ app' = [app EXCEPT ![p].pc = "sub", ![p].seen = None] /\ UNCHANGED <<worker, size>>
  BY <1>1 DEF RemoveUnlinkFails, UnlinkFileFails, fs
<1>3. Disk \in Nat /\ Disk' = Disk
  BY <1>2, DiskSame DEF FilesKept
<1>4. PICK d \in Int : d = 0
  OBVIOUS
<1>5. Disk' = Disk + d /\ drift' = drift + (0 - d - app[p].bytes)
  BY <1>2, <1>3, <1>4, Figures
<1> QED BY <1>2, <1>3, <1>5, RemovedBooks

LEMMA EvictSubBooks ==
  ASSUME IInv, IInv', SizeAccounted, NEW p \in Procs, EvictSub(p)
  PROVE  SizeAccounted'
<1>1. SUFFICES ASSUME ~stray'  PROVE SizeAccounted'
  BY StrayBooks
<1>2. /\ ~stray /\ worker[p].pc = "esub" /\ worker[p] \in WorkerRec /\ UNCHANGED <<file, content, app, drift>>
      /\ size' = (size - worker[p].bytes) % SizeWord
  BY <1>1, WorkerFacts DEF EvictSub, fs, history
<1>3. PICK r : r = NextTry(worker[p])
  OBVIOUS
<1>4. r.pc = "evict"
  BY <1>2, <1>3, TriesFree
<1>5. worker' = [worker EXCEPT ![p] = r]
  BY <1>3 DEF EvictSub
<1>6. worker'[p] = r /\ \A q \in Procs \ {p} : worker'[q] = worker[q] /\ app'[q] = app[q]
  BY <1>2, <1>5 DEF IInv, TypeOK
<1>7. Disk \in Nat /\ Disk' = Disk + 0
  BY <1>2, DiskSame DEF FilesKept
<1>8. PICK b \in Int : b = -worker[p].bytes
  BY Figures
<1>9. 0 + SubOf(worker'[p], app'[p]) - AddOf(worker'[p]) + drift'
         = SubOf(worker[p], app[p]) - AddOf(worker[p]) + drift + b
  <2>1. AddOf(worker'[p]) = 0 /\ AddOf(worker[p]) = 0
    BY <1>2, <1>4, <1>6 DEF AddOf
  <2>2. PICK a \in Int : a = IF app[p].pc = "sub" THEN app[p].bytes ELSE 0
    BY Figures
  <2>3. worker[p].bytes \in Int /\ drift \in Int
    BY Figures
  <2>4. SubOf(worker'[p], app'[p]) = a /\ SubOf(worker[p], app[p]) = worker[p].bytes + a
    BY <1>2, <1>4, <1>6, <2>2, <2>3 DEF SubOf
  <2> QED BY <1>2, <1>8, <2>1, <2>2, <2>3, <2>4
<1>10. size' = (size + b) % SizeWord
  <2>1. size + b = size - worker[p].bytes
    BY <1>8, Figures
  <2> QED BY <1>2, <2>1
<1> QED BY <1>1, <1>2, <1>6, <1>7, <1>9, <1>10, StepBooks

LEMMA RemoveSubBooks ==
  ASSUME IInv, IInv', SizeAccounted, NEW p \in Procs, RemoveSub(p)
  PROVE  SizeAccounted'
<1>1. SUFFICES ASSUME ~stray'  PROVE SizeAccounted'
  BY StrayBooks
<1>2. /\ ~stray /\ app[p].pc = "sub" /\ UNCHANGED <<file, content, worker, drift>>
      /\ size' = (size - app[p].bytes) % SizeWord
  BY <1>1 DEF RemoveSub, fs, history
<1>3. app'[p] = IdleApp /\ \A q \in Procs \ {p} : worker'[q] = worker[q] /\ app'[q] = app[q]
  BY <1>2 DEF RemoveSub, IInv, TypeOK
<1>4. app'[p].pc = "idle"
  BY <1>3 DEF IdleApp
<1>5. Disk \in Nat /\ Disk' = Disk + 0
  BY <1>2, DiskSame DEF FilesKept
<1>6. PICK b \in Int : b = -app[p].bytes
  BY Figures
<1>7. 0 + SubOf(worker'[p], app'[p]) - AddOf(worker'[p]) + drift'
        = SubOf(worker[p], app[p]) - AddOf(worker[p]) + drift + b
  <2>1. AddOf(worker'[p]) = AddOf(worker[p]) /\ AddOf(worker[p]) \in Int
    BY <1>2, Figures
  <2>2. PICK a \in Int : a = IF worker[p].pc = "esub" THEN worker[p].bytes ELSE 0
    BY Figures
  <2>3. app[p].bytes \in Int /\ drift \in Int
    BY Figures
  <2>4. SubOf(worker'[p], app'[p]) = a /\ SubOf(worker[p], app[p]) = a + app[p].bytes
    BY <1>2, <1>4, <2>2, <2>3 DEF SubOf
  <2> QED BY <1>2, <1>6, <2>1, <2>2, <2>3, <2>4
<1>8. size' = (size + b) % SizeWord
  <2>1. size + b = size - app[p].bytes
    BY <1>6, Figures
  <2> QED BY <1>2, <2>1
<1> QED BY <1>1, <1>2, <1>3, <1>5, <1>7, <1>8, StepBooks

(* A writer that changes the directory or what it has still to add.        *)
LEMMA WriterBooks ==
  ASSUME IInv, IInv', SizeAccounted, ~stray, NEW p \in Procs, NEW r,
         worker' = [worker EXCEPT ![p] = r], UNCHANGED <<app, size>>,
         worker[p].pc # "esub", r.pc # "esub", AddOf(r) \in Int, drift' \in Int,
         NEW d \in Int, Disk \in Nat, Disk' = Disk + d,
         d - AddOf(r) + drift' = drift - AddOf(worker[p])
  PROVE  SizeAccounted'
<1>1. worker'[p] = r /\ \A q \in Procs \ {p} : worker'[q] = worker[q] /\ app'[q] = app[q]
  BY DEF IInv, TypeOK
<1>2. SubOf(worker'[p], app'[p]) = SubOf(worker[p], app[p]) /\ AddOf(worker'[p]) = AddOf(r)
  BY <1>1 DEF SubOf
<1>3. d + SubOf(worker'[p], app'[p]) - AddOf(worker'[p]) + drift'
         = SubOf(worker[p], app[p]) - AddOf(worker[p]) + drift + 0
  BY <1>2, Figures
<1> QED BY <1>1, <1>3, StepBooks

(* The rename publishes what its writer has to add; what it overwrites     *)
(* stays on the size.                                                      *)
LEMMA RenameBooks ==
  ASSUME IInv, IInv', SizeAccounted, NEW p \in Procs, Rename(p)
  PROVE  SizeAccounted'
<1>1. SUFFICES ASSUME ~stray'  PROVE SizeAccounted'
  BY StrayBooks
<1>2. PICK k \in Keys : k = worker[p].key
  BY WorkerFacts DEF Rename, WorkerOK
<1>3. /\ ~stray /\ worker[p].pc = "rename" /\ worker[p] \in WorkerRec /\ worker[p].fd \in Inodes
      /\ UNCHANGED <<content, size, app>>
  BY <1>1, WorkerFacts DEF Rename, WorkerOK, Holding
<1>4. tmp[k] = worker[p].fd /\ tmp[k] \in Inodes /\ tmp[k] # None
  <2>1. tmp[k] = worker[p].fd
    BY <1>2, <1>3 DEF IInv, WritersOK
  <2> QED BY <1>3, <2>1, Constants
<1>5. PICK n : n = Len(content[tmp[k]])
  OBVIOUS
<1>6. n \in Int
  <2>1. content[tmp[k]] \in Contents
    BY <1>4 DEF IInv, TypeOK
  <2> QED BY <1>5, <2>1, ContentsAreSeqs, Constants
<1>7. PICK r : r = [worker[p] EXCEPT !.pc = "stat", !.seen = tmp[k], !.bytes = n]
  OBVIOUS
<1>8. r.pc = "stat" /\ r.bytes = n
  BY <1>3, <1>7 DEF WorkerRec
<1>9. /\ worker' = [worker EXCEPT ![p] = r] /\ file' = [file EXCEPT ![k] = tmp[k]]
      /\ drift' = drift + OnDisk(k)
  BY <1>2, <1>4, <1>5, <1>7 DEF Rename
<1>10. file'[k] = tmp[k] /\ \A j \in Keys \ {k} : file'[j] = file[j]
  BY <1>9 DEF IInv, TypeOK
<1>11. OnDisk(k)' = n
  BY <1>3, <1>4, <1>5, <1>10 DEF OnDisk
<1>12. OnDisk(k) \in Int /\ drift \in Int
  BY OnDiskAmount, Constants, Figures DEF Amounts
<1>13. Disk \in Nat /\ Disk' = Disk + (OnDisk(k)' - OnDisk(k))
  BY <1>3, <1>10, DiskChange DEF FilesKept
<1>14. PICK d \in Int : d = n - OnDisk(k)
  BY <1>6, <1>12
<1>15. AddOf(r) = n /\ AddOf(worker[p]) = 0
  BY <1>3, <1>8 DEF AddOf
<1>16. d - AddOf(r) + drift' = drift - AddOf(worker[p]) /\ Disk' = Disk + d /\ drift' \in Int
  BY <1>6, <1>9, <1>11, <1>12, <1>13, <1>14, <1>15
<1> QED BY <1>3, <1>6, <1>8, <1>9, <1>13, <1>15, <1>16, WriterBooks

(* The writer adds what stat finds, whatever it has renamed.               *)
LEMMA StatFinalBooks ==
  ASSUME IInv, IInv', SizeAccounted, NEW p \in Procs, StatFinal(p)
  PROVE  SizeAccounted'
<1>1. SUFFICES ASSUME ~stray'  PROVE SizeAccounted'
  BY StrayBooks
<1>2. PICK k \in Keys : k = worker[p].key
  BY WorkerFacts DEF StatFinal, WorkerOK
<1>3. /\ ~stray /\ worker[p].pc = "stat" /\ worker[p] \in WorkerRec
      /\ UNCHANGED <<file, content, size, app>> /\ drift' = drift + Mistaken(k, worker[p])
  BY <1>1, <1>2, WorkerFacts DEF StatFinal, fs
<1>4. worker[p].seen \in Inodes /\ Sees(worker[p]) /\ worker[p].bytes \in Int /\ drift \in Int
  <2>1. worker[p].pc \in Remembering
    BY <1>3 DEF Remembering
  <2>2. worker[p].seen \in Inodes
    BY <2>1, WorkerFacts DEF WorkerOK
  <2>3. Sees(worker[p])
    BY <1>3, <2>1 DEF IInv, SeenOK
  <2> QED BY <2>2, <2>3, Figures
<1>5. OnDisk(k) \in Int /\ Mistaken(k, worker[p]) = OnDisk(k) - worker[p].bytes
  BY <1>4, MistakenIs
<1>6. Disk \in Nat /\ Disk' = Disk + 0
  BY <1>3, DiskSame DEF FilesKept
<1>7. PICK r : r = [worker[p] EXCEPT !.pc = IF file[k] = None THEN "unlinkfinal" ELSE "add",
                                     !.bytes = OnDisk(k), !.seen = None]
  OBVIOUS
<1>8. r.pc = (IF file[k] = None THEN "unlinkfinal" ELSE "add") /\ r.bytes = OnDisk(k)
  BY <1>3, <1>7 DEF WorkerRec
<1>9. worker' = [worker EXCEPT ![p] = r]
  BY <1>2, <1>7 DEF StatFinal
<1>10. AddOf(r) = OnDisk(k) /\ r.pc # "esub" /\ AddOf(worker[p]) = worker[p].bytes
  BY <1>3, <1>8 DEF AddOf, OnDisk
<1>11. 0 - AddOf(r) + drift' = drift - AddOf(worker[p]) /\ drift' \in Int /\ AddOf(r) \in Int /\ 0 \in Int
  BY <1>3, <1>4, <1>5, <1>10
<1>12. worker[p].pc # "esub" /\ UNCHANGED <<app, size>>
  BY <1>3
<1> QED BY <1>3, <1>6, <1>9, <1>10, <1>11, <1>12, WriterBooks

LEMMA StatFinalFailsBooks ==
  ASSUME IInv, IInv', SizeAccounted, NEW p \in Procs, StatFinalFails(p)
  PROVE  SizeAccounted'
<1>1. SUFFICES ASSUME ~stray'  PROVE SizeAccounted'
  BY StrayBooks
<1>2. /\ ~stray /\ worker[p].pc = "stat" /\ worker[p] \in WorkerRec
      /\ UNCHANGED <<file, content, size, app>> /\ drift' = drift - worker[p].bytes
  BY <1>1, WorkerFacts DEF StatFinalFails, fs
<1>3. Disk \in Nat /\ Disk' = Disk + 0
  BY <1>2, DiskSame DEF FilesKept
<1>4. PICK r : r = [worker[p] EXCEPT !.pc = "unlinkfinal", !.bytes = 0, !.seen = None]
  OBVIOUS
<1>5. r.pc = "unlinkfinal"
  BY <1>2, <1>4 DEF WorkerRec
<1>6. worker' = [worker EXCEPT ![p] = r]
  BY <1>4 DEF StatFinalFails
<1>7. AddOf(r) = 0 /\ AddOf(worker[p]) = worker[p].bytes
  BY <1>2, <1>5 DEF AddOf
<1>8. 0 - AddOf(r) + drift' = drift - AddOf(worker[p]) /\ drift' \in Int /\ AddOf(r) \in Int /\ 0 \in Int
  BY <1>2, <1>7, Figures
<1>9. worker[p].pc # "esub" /\ r.pc # "esub" /\ UNCHANGED <<app, size>>
  BY <1>2, <1>5
<1> QED BY <1>2, <1>3, <1>6, <1>8, <1>9, WriterBooks

LEMMA UnlinkFinalBooks ==
  ASSUME IInv, IInv', SizeAccounted, NEW p \in Procs, UnlinkFinal(p)
  PROVE  SizeAccounted'
<1>1. SUFFICES ASSUME ~stray'  PROVE SizeAccounted'
  BY StrayBooks
<1>2. PICK k \in Keys : k = worker[p].key
  BY WorkerFacts DEF UnlinkFinal, WorkerOK
<1>3. /\ ~stray /\ worker[p].pc = "unlinkfinal" /\ worker[p] \in WorkerRec
      /\ UNCHANGED <<content, size, app>> /\ Goto(p, "close")
      /\ file' = [file EXCEPT ![k] = None] /\ drift' = drift + OnDisk(k)
  BY <1>1, <1>2, WorkerFacts DEF UnlinkFinal
<1>4. Disk \in Nat /\ OnDisk(k) \in Int /\ Disk' = Disk + (0 - OnDisk(k))
  BY <1>3, UnlinkDisk
<1>5. PICK d \in Int : d = 0 - OnDisk(k)
  BY <1>4
<1>6. PICK r : r = [worker[p] EXCEPT !.pc = "close"]
  OBVIOUS
<1>7. r.pc = "close"
  BY <1>3, <1>6 DEF WorkerRec
<1>8. worker' = [worker EXCEPT ![p] = r]
  BY <1>3, <1>6 DEF Goto
<1>9. AddOf(r) = 0 /\ AddOf(worker[p]) = 0
  BY <1>3, <1>7 DEF AddOf
<1>10. /\ d - AddOf(r) + drift' = drift - AddOf(worker[p]) /\ Disk' = Disk + d
       /\ drift' \in Int /\ AddOf(r) \in Int
  BY <1>3, <1>4, <1>5, <1>9, Figures
<1>11. worker[p].pc # "esub" /\ r.pc # "esub" /\ UNCHANGED <<app, size>>
  BY <1>3, <1>7
<1> QED BY <1>3, <1>4, <1>8, <1>10, <1>11, WriterBooks

LEMMA AddSizeBooks ==
  ASSUME IInv, IInv', SizeAccounted, NEW p \in Procs, AddSize(p)
  PROVE  SizeAccounted'
<1>1. SUFFICES ASSUME ~stray'  PROVE SizeAccounted'
  BY StrayBooks
<1>2. /\ ~stray /\ worker[p].pc = "add" /\ UNCHANGED <<file, content, app, drift>> /\ Goto(p, "close")
      /\ size' = (size + worker[p].bytes) % SizeWord
  BY <1>1 DEF AddSize, fs, history
<1>3. worker'[p].pc = "close" /\ \A q \in Procs \ {p} : worker'[q] = worker[q] /\ app'[q] = app[q]
  BY <1>2 DEF Goto, IInv, TypeOK
<1>4. Disk \in Nat /\ Disk' = Disk + 0
  BY <1>2, DiskSame DEF FilesKept
<1>5. PICK b \in Int : b = worker[p].bytes
  BY Figures
<1>6. 0 + SubOf(worker'[p], app'[p]) - AddOf(worker'[p]) + drift'
        = SubOf(worker[p], app[p]) - AddOf(worker[p]) + drift + b
  <2>1. AddOf(worker'[p]) = 0 /\ AddOf(worker[p]) = b
    BY <1>2, <1>3, <1>5 DEF AddOf
  <2>2. SubOf(worker'[p], app'[p]) = SubOf(worker[p], app[p])
    BY <1>2, <1>3 DEF SubOf
  <2> QED BY <1>2, <2>1, <2>2, Figures
<1> QED BY <1>2, <1>3, <1>4, <1>5, <1>6, StepBooks

(* What a killed process had still to book is lost for good.               *)
LEMMA KillBooks ==
  ASSUME IInv, IInv', SizeAccounted, NEW p \in Procs, Kill(p)
  PROVE  SizeAccounted'
<1>1. SUFFICES ASSUME ~stray'  PROVE SizeAccounted'
  BY StrayBooks
<1>2. ~stray /\ UNCHANGED <<file, content, size>>
  BY <1>1 DEF Kill
<1>3. drift' = drift + SubOf(worker[p], app[p]) - AddOf(worker[p])
  BY PendingIs DEF Kill
<1>4. /\ worker'[p] = IdleWorker /\ app'[p] = IdleApp
      /\ \A q \in Procs \ {p} : worker'[q] = worker[q] /\ app'[q] = app[q]
  BY DEF Kill, IInv, TypeOK
<1>5. worker'[p].pc = "idle" /\ app'[p].pc = "idle"
  BY <1>4 DEF IdleWorker, IdleApp
<1>6. SubOf(worker'[p], app'[p]) = 0 /\ AddOf(worker'[p]) = 0
  BY <1>5 DEF SubOf, AddOf
<1>7. Disk \in Nat /\ Disk' = Disk + 0
  BY <1>2, DiskSame DEF FilesKept
<1>8. 0 + SubOf(worker'[p], app'[p]) - AddOf(worker'[p]) + drift'
        = SubOf(worker[p], app[p]) - AddOf(worker[p]) + drift + 0
  BY <1>3, <1>6, Figures
<1> QED BY <1>2, <1>4, <1>7, <1>8, StepBooks

LEMMA StutterBooks ==
  ASSUME SizeAccounted, UNCHANGED vars
  PROVE  SizeAccounted'
<1>1. UNCHANGED <<file, content, size, worker, app, stray, drift>>
  BY DEF vars, fs, history
<1> QED BY <1>1 DEF SizeAccounted, OnDisk, PendingSub, PendingAdd

LEMMA InitBooks ==
  ASSUME Init
  PROVE  SizeAccounted
<1>1. \A p \in Procs : worker[p].pc = "idle" /\ app[p].pc = "idle"
  BY DEF Init, IdleWorker, IdleApp
<1>2. 0 \in Amounts
  BY Constants DEF Amounts
<1>3. Disk = 0
  <2>1. PICK f : f = [k \in Keys |-> OnDisk(k)]
    OBVIOUS
  <2>2. \A k \in Keys : OnDisk(k) = 0
    BY DEF Init, OnDisk
  <2>3. f \in [Keys -> Amounts] /\ \A k \in Keys : f[k] = 0
    BY <1>2, <2>1, <2>2
  <2> QED BY <2>1, <2>3, TotalOfZero DEF Disk
<1>4. Subs = 0
  <2>1. PICK f : f = [p \in Procs |-> PendingSub(p)]
    OBVIOUS
  <2>2. \A p \in Procs : PendingSub(p) = 0
    BY <1>1 DEF PendingSub
  <2>3. f \in [Procs -> Amounts] /\ \A p \in Procs : f[p] = 0
    BY <1>2, <2>1, <2>2
  <2> QED BY <2>1, <2>3, TotalOfZero DEF Subs
<1>5. Adds = 0
  <2>1. PICK f : f = [p \in Procs |-> PendingAdd(p)]
    OBVIOUS
  <2>2. \A p \in Procs : PendingAdd(p) = 0
    BY <1>1 DEF PendingAdd
  <2>3. f \in [Procs -> Amounts] /\ \A p \in Procs : f[p] = 0
    BY <1>2, <2>1, <2>2
  <2> QED BY <2>1, <2>3, TotalOfZero DEF Adds
<1>6. (size - (Disk + Subs - Adds + drift)) % SizeWord = 0
  <2>1. size = 0 /\ drift = 0
    BY DEF Init
  <2>2. 0 % SizeWord = 0
    BY Constants
  <2> QED BY <1>3, <1>4, <1>5, <2>1, <2>2
<1> QED BY <1>6 DEF SizeAccounted, Disk, Subs, Adds

(* The size in the index is what the files take, with what the processes   *)
(* have still to book and the drift, whatever the number of processes and  *)
(* keys and the lengths of their entries, whichever calls fail, and though *)
(* the size wraps below zero and above the word.  The drift comes from     *)
(* kills between the directory and the size, from unlinks that fail or     *)
(* meet another file than stat did, from renames over an entry and from    *)
(* writers that stat misses; an unlink of the file that stat saw, and the  *)
(* put of a writer that finds what it renamed, add nothing to it.          *)
THEOREM SizeIsAccounted == Spec => []SizeAccounted
<1>1. Init => SizeAccounted
  BY InitBooks
<1>2. IInv /\ IInv' /\ SizeAccounted /\ [Next]_vars => SizeAccounted'
  <2>1. SUFFICES ASSUME IInv, IInv', SizeAccounted, Next  PROVE SizeAccounted'
    BY StutterBooks
  <2>2. PICK p \in Procs : WorkerStep(p) \/ WorkerFails(p) \/ AppStep(p) \/ Kill(p)
    BY <2>1 DEF Next
  <2>3. CASE WorkerStep(p)
    <3>1. CASE PutStart(p) \/ EvictLoop(p) \/ EvictChoose(p) \/ EvictStat(p)
      BY <2>1, <3>1, LookBooks
    <3>2. CASE OpenTmp(p) \/ Flock(p) \/ CheckFinal(p) \/ Write(p) \/ UnlinkTmp(p) \/ Close(p)
      BY <2>1, <3>2, TmpBooks
    <3>3. CASE EvictUnlink(p) \/ EvictSub(p) \/ Rename(p) \/ StatFinal(p) \/ UnlinkFinal(p) \/ AddSize(p)
      BY <2>1, <3>3, EvictUnlinkBooks, EvictSubBooks, RenameBooks, StatFinalBooks, UnlinkFinalBooks,
         AddSizeBooks
    <3> QED BY <2>3, <3>1, <3>2, <3>3 DEF WorkerStep
  <2>4. CASE WorkerFails(p)
    <3>1. CASE EvictLookFails(p)
      BY <2>1, <3>1, LookBooks
    <3>2. CASE OpenOrFlockFails(p) \/ CheckFinalFails(p) \/ WriteOrRenameFails(p) \/ LastUnlinkFails(p)
      BY <2>1, <3>2, FailureBooks
    <3>3. CASE EvictUnlinkFails(p) \/ StatFinalFails(p)
      BY <2>1, <3>3, EvictUnlinkFailsBooks, StatFinalFailsBooks
    <3> QED BY <2>4, <3>1, <3>2, <3>3 DEF WorkerFails
  <2>5. CASE AppStep(p)
    <3>1. CASE RemoveUnlink(p) \/ RemoveUnlinkFails(p) \/ RemoveSub(p)
      BY <2>1, <3>1, RemoveUnlinkBooks, RemoveUnlinkFailsBooks, RemoveSubBooks
    <3>2. CASE \/ \E k \in Keys : \/ \E e \in Payloads : disk_cache_put(p, k, e)
                                  \/ disk_cache_remove(p, k) \/ disk_cache_get(p, k)
               \/ GetHeader(p) \/ GetData(p)
      BY <2>1, <3>2, QuietAppStepBooks
    <3> QED BY <2>5, <3>1, <3>2 DEF AppStep
  <2>6. CASE Kill(p)
    BY <2>1, <2>6, KillBooks
  <2> QED BY <2>2, <2>3, <2>4, <2>5, <2>6
<1> QED BY <1>1, <1>2, Invariance, PTL DEF Spec
=============================================================================
