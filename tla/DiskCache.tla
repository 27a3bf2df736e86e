----------------------------- MODULE DiskCache ------------------------------
(***************************************************************************)
(* util/disk_cache.c: the on-disk shader cache that several processes      *)
(* share.  A process hands its entries to the one worker of its util_queue *)
(* (see JobQueue), which evicts old entries, writes a temporary file and   *)
(* renames it; the application thread reads and removes entries            *)
(* meanwhile, in this process and in others.  A process may be killed      *)
(* between any two system calls, and started again.                        *)
(*                                                                         *)
(* A step is one system call, or one atomic access to the size in the      *)
(* shared index.  The file system and flock are external: a key has two    *)
(* names, its file and its .tmp file, each of which is an inode or nothing.*)
(* Any of the calls may fail.                                              *)
(*                                                                         *)
(* Nothing obliges two processes to store the same bytes for a key: a put  *)
(* has a payload, whose file is a header with the CRC and then one or more *)
(* chunks of compressed data.  A chunk is identified with its payload, and *)
(* what stat says a file takes with its chunks.                            *)
(***************************************************************************)
EXTENDS Integers, Sequences, FiniteSets, FiniteSetsExt

CONSTANTS
  Procs,        \* processes that use the cache directory
  Keys,         \* cache keys, each in a directory of its own
  Length,       \* of each payload: the chunks of its file
  MaxLength,    \* bound: chunks of a file
  Nobody,       \* no process, no key, no payload
  NumInodes,    \* bound: inodes in use at a time
  MaxSize,      \* max_size, in chunks
  SizeWord,     \* number of values of the 64-bit size
  EvictTries,   \* evictions per put (8 in the code)
  MaxPuts,      \* bound: calls of disk_cache_put
  MaxRemoves,   \* bound: calls of disk_cache_remove
  MaxFaults     \* bound: processes killed and system calls that fail

Inodes == 1..NumInodes
None == 0       \* no inode: a name that does not exist, or fd == -1
Payloads == DOMAIN Length
Contents == {c \in Seq(Payloads) : Len(c) <= MaxLength}

ASSUME CacheAssumption ==
  /\ IsFiniteSet(Procs) /\ IsFiniteSet(Keys) /\ Nobody \notin Procs \cup Keys \cup Payloads
  /\ MaxLength \in Nat /\ Length \in [Payloads -> 2..MaxLength]
  /\ SizeWord \in Nat \ {0} /\ MaxSize \in 0..(SizeWord - 1)
  /\ {NumInodes, EvictTries, MaxPuts, MaxRemoves, MaxFaults} \subseteq Nat

VARIABLES
  file, tmp,    \* what the two names of each key stand for
  content,      \* of each inode: the payloads of its chunks, in order
  flocked,      \* the process that holds the flock of each inode
  size,         \* *cache->size, in the mmapped index
  queue,        \* cache_queue of each process: keys and payloads to write
  worker,       \* the worker of each process, in cache_put
  app,          \* the application thread of each process
  puts, removes, faults,  \* counters for the bounds
  stray,        \* history: a .tmp name no longer stands for the file its writer locked
  drift         \* history: chunks that nobody will ever add to or take off size

fs == <<file, tmp, content, flocked>>
bounds == <<puts, removes, faults>>
history == <<stray, drift>>
vars == <<fs, size, queue, worker, app, bounds, history>>

WorkerPC == {"idle", "evict", "choose", "estat", "eunlink", "esub", "open", "flock",
             "final", "write", "rename", "unlinktmp", "stat", "unlinkfinal", "add", "close"}
AppPC == {"idle", "header", "data", "unlink", "sub"}

(* second: the eviction is in its second attempt, on a directory that is   *)
(* known to exist.  bytes: st_blocks of the last stat.  For the history,   *)
(* seen is the file that stat saw before an unlink, or that rename has     *)
(* published, when bytes is what that file takes.                          *)
IdleWorker == [pc |-> "idle", key |-> Nobody, payload |-> Nobody, fd |-> None, offset |-> 0,
               tries |-> 0, victim |-> Nobody, second |-> FALSE, bytes |-> 0, seen |-> None]
IdleApp == [pc |-> "idle", key |-> Nobody, fd |-> None, bytes |-> 0, header |-> Nobody,
            seen |-> None]

Init ==
  /\ file = [k \in Keys |-> None]
  /\ tmp = [k \in Keys |-> None]
  /\ content = [i \in Inodes |-> << >>]
  /\ flocked = [i \in Inodes |-> Nobody]
  /\ size = 0
  /\ queue = [p \in Procs |-> << >>]
  /\ worker = [p \in Procs |-> IdleWorker]
  /\ app = [p \in Procs |-> IdleApp]
  /\ puts = 0 /\ removes = 0 /\ faults = 0
  /\ stray = FALSE /\ drift = 0

(* An inode the history still speaks of is not used again.                 *)
InUse == {file[k] : k \in Keys} \cup {tmp[k] : k \in Keys}
           \cup {worker[p].fd : p \in Procs} \cup {app[p].fd : p \in Procs}
           \cup {worker[p].seen : p \in Procs} \cup {app[p].seen : p \in Procs}

OnDisk(k) == IF file[k] = None THEN 0 ELSE Len(content[file[k]])

Goto(p, pc) == worker' = [worker EXCEPT ![p].pc = pc]

(* A system call fails, or a process is killed.                            *)
Fault == faults < MaxFaults /\ faults' = faults + 1 /\ UNCHANGED <<puts, removes>>

(***************************************************************************)
(* The worker: cache_put                                                   *)
(***************************************************************************)
PutStart(p) ==
  /\ worker[p].pc = "idle" /\ queue[p] # << >>
  /\ worker' = [worker EXCEPT ![p].pc = "evict", ![p].key = Head(queue[p]).key,
                              ![p].payload = Head(queue[p]).payload]
  /\ queue' = [queue EXCEPT ![p] = Tail(@)]
  /\ UNCHANGED <<fs, size, app, bounds, history>>

(* The 64-bit sum of the loop's condition wraps.                           *)
TooLarge(p) ==
  /\ (size + Length[worker[p].payload]) % SizeWord > MaxSize
  /\ worker[p].tries < EvictTries

EvictLoop(p) ==
  /\ worker[p].pc = "evict"
  /\ Goto(p, IF TooLarge(p) THEN "choose" ELSE "open")
  /\ UNCHANGED <<fs, size, queue, app, bounds, history>>

(* Mutant: the evictions are not counted.                                  *)
NextTryUncounted(w) == [w EXCEPT !.pc = "evict", !.second = FALSE, !.victim = Nobody,
                                 !.bytes = 0, !.seen = None]

NextTry(w) == [w EXCEPT !.pc = "evict", !.tries = @ + 1, !.second = FALSE, !.victim = Nobody,
                        !.bytes = 0, !.seen = None]

(* unlink_lru_file_from_directory returned 0: evict_lru_item tries once    *)
(* more with a directory that is not empty, and then gives up.             *)
NothingFound(w) ==
  IF w.second THEN NextTry(w)
  ELSE [w EXCEPT !.pc = "choose", !.second = TRUE, !.victim = Nobody, !.seen = None]

(* The first attempt takes a directory at random, the second the least     *)
(* recently used one that is not empty, if only by a .tmp file.  The scan  *)
(* is one step; what it found may be gone when EvictStat looks.            *)
EvictChoose(p) ==
  /\ worker[p].pc = "choose"
  /\ \/ \E k \in Keys : /\ file[k] # None
                        /\ worker' = [worker EXCEPT ![p].pc = "estat", ![p].victim = k]
     \/ /\ \/ ~worker[p].second
           \/ \A k \in Keys : file[k] = None
           \/ \E k \in Keys : file[k] = None /\ tmp[k] # None
        /\ worker' = [worker EXCEPT ![p] = NothingFound(@)]
  /\ UNCHANGED <<fs, size, queue, app, bounds, history>>

EvictStat(p) ==
  LET k == worker[p].victim
  IN /\ worker[p].pc = "estat"
     /\ worker' = [worker EXCEPT ![p] = IF file[k] = None THEN NothingFound(@)
                                        ELSE [@ EXCEPT !.pc = "eunlink", !.bytes = OnDisk(k),
                                                       !.seen = file[k]]]
     /\ UNCHANGED <<fs, size, queue, app, bounds, history>>

(* opendir or stat fails.                                                  *)
EvictLookFails(p) ==
  /\ worker[p].pc \in {"choose", "estat"} /\ Fault
  /\ worker' = [worker EXCEPT ![p] = NothingFound(@)]
  /\ UNCHANGED <<fs, size, queue, app, history>>

(* What x took for the file of k, when that is another one by now.         *)
Mistaken(k, x) == IF file[k] = x.seen THEN 0 ELSE OnDisk(k) - x.bytes

(* What stat said comes off the size, whatever unlink did: the name may    *)
(* stand for nothing or for another file by now, and what unlink returns   *)
(* is ignored.                                                             *)
UnlinkFile(k, x) ==
  /\ file' = [file EXCEPT ![k] = None]
  /\ drift' = drift + Mistaken(k, x)
  /\ UNCHANGED <<tmp, content, flocked, stray>>

UnlinkFileFails(bytes) ==
  /\ Fault
  /\ drift' = drift - bytes
  /\ UNCHANGED <<fs, stray>>

Unlinked(w) == IF w.bytes = 0 THEN NothingFound(w) ELSE [w EXCEPT !.pc = "esub", !.seen = None]

EvictUnlink(p) ==
  LET w == worker[p]
  IN /\ w.pc = "eunlink"
     /\ UnlinkFile(w.victim, w)
     /\ worker' = [worker EXCEPT ![p] = Unlinked(@)]
     /\ UNCHANGED <<size, queue, app, bounds>>

EvictUnlinkFails(p) ==
  /\ worker[p].pc = "eunlink"
  /\ UnlinkFileFails(worker[p].bytes)
  /\ worker' = [worker EXCEPT ![p] = Unlinked(@)]
  /\ UNCHANGED <<size, queue, app>>

(* Mutant: the size is signed.                                             *)
EvictSubSigned(p) ==
  /\ worker[p].pc = "esub"
  /\ size' = size - worker[p].bytes
  /\ worker' = [worker EXCEPT ![p] = NextTry(@)]
  /\ UNCHANGED <<fs, queue, app, bounds, history>>

EvictSub(p) ==
  /\ worker[p].pc = "esub"
  /\ size' = (size - worker[p].bytes) % SizeWord
  /\ worker' = [worker EXCEPT ![p] = NextTry(@)]
  /\ UNCHANGED <<fs, queue, app, bounds, history>>

(* open without O_TRUNC: a .tmp file that is there keeps its bytes.        *)
OpenTmp(p) ==
  LET k == worker[p].key
  IN /\ worker[p].pc = "open"
     /\ IF tmp[k] # None
        THEN /\ worker' = [worker EXCEPT ![p].pc = "flock", ![p].fd = tmp[k]]
             /\ UNCHANGED <<tmp, content>>
        ELSE LET i == Min(Inodes \ InUse)
             IN /\ Inodes \ InUse # {}
                /\ tmp' = [tmp EXCEPT ![k] = i]
                /\ content' = [content EXCEPT ![i] = << >>]
                /\ worker' = [worker EXCEPT ![p].pc = "flock", ![p].fd = i]
     /\ UNCHANGED <<file, flocked, size, queue, app, bounds, history>>

OpenOrFlockFails(p) ==
  /\ worker[p].pc \in {"open", "flock"} /\ Fault
  /\ Goto(p, "close")
  /\ UNCHANGED <<fs, size, queue, app, history>>

(* Mutant: what flock returns is ignored.                                  *)
FlockIgnored(p) ==
  /\ worker[p].pc = "flock"
  /\ flocked' = [flocked EXCEPT ![worker[p].fd] = IF @ = Nobody THEN p ELSE @]
  /\ Goto(p, "final")
  /\ UNCHANGED <<file, tmp, content, size, queue, app, bounds, history>>

Flock(p) ==
  LET i == worker[p].fd
  IN /\ worker[p].pc = "flock"
     /\ IF flocked[i] = Nobody
        THEN flocked' = [flocked EXCEPT ![i] = p] /\ Goto(p, "final")
        ELSE UNCHANGED flocked /\ Goto(p, "close")
     /\ UNCHANGED <<file, tmp, content, size, queue, app, bounds, history>>

(* The history records a worker that goes on to write an inode which is    *)
(* no longer the .tmp file of its key.                                     *)
StartWriting(p) ==
  /\ Goto(p, "write")
  /\ stray' = (stray \/ tmp[worker[p].key] # worker[p].fd)
  /\ UNCHANGED <<fs, size, queue, app, drift>>

CheckFinal(p) ==
  /\ worker[p].pc = "final"
  /\ IF file[worker[p].key] # None
     THEN Goto(p, "unlinktmp") /\ UNCHANGED <<fs, size, queue, app, history>>
     ELSE StartWriting(p)
  /\ UNCHANGED bounds

(* The open fails for want of a descriptor, not of the file.               *)
CheckFinalFails(p) ==
  /\ worker[p].pc = "final" /\ Fault
  /\ StartWriting(p)

(* The next chunk, at the file position of this descriptor.                *)
Write(p) ==
  LET w == worker[p]
  IN /\ w.pc = "write"
     /\ content' = [content EXCEPT ![w.fd] =
          IF w.offset < Len(@) THEN [@ EXCEPT ![w.offset + 1] = w.payload]
          ELSE Append(@, w.payload)]
     /\ worker' = [worker EXCEPT ![p].offset = @ + 1,
                                 ![p].pc = IF w.offset + 1 = Length[w.payload] THEN "rename"
                                           ELSE "write"]
     /\ UNCHANGED <<file, tmp, flocked, size, queue, app, bounds, history>>

WriteOrRenameFails(p) ==
  /\ worker[p].pc \in {"write", "rename"} /\ Fault
  /\ Goto(p, "unlinktmp")
  /\ UNCHANGED <<fs, size, queue, app, history>>

(* A file that is there after all is lost with what it took.               *)
Rename(p) ==
  LET k == worker[p].key
  IN /\ worker[p].pc = "rename"
     /\ IF tmp[k] = None
        THEN UNCHANGED <<file, tmp, drift>> /\ Goto(p, "unlinktmp")
        ELSE /\ file' = [file EXCEPT ![k] = tmp[k]]
             /\ tmp' = [tmp EXCEPT ![k] = None]
             /\ drift' = drift + OnDisk(k)
             /\ worker' = [worker EXCEPT ![p].pc = "stat", ![p].seen = tmp[k],
                                         ![p].bytes = Len(content[tmp[k]])]
     /\ UNCHANGED <<content, flocked, size, queue, app, bounds, stray>>

(* The history records a worker that removes the .tmp file of another one  *)
(* that is writing it.                                                     *)
UnlinkTmp(p) ==
  LET k == worker[p].key
  IN /\ worker[p].pc = "unlinktmp"
     /\ tmp' = [tmp EXCEPT ![k] = None]
     /\ stray' = (stray \/ \E q \in Procs \ {p} : /\ worker[q].pc \in {"write", "rename"}
                                                 /\ worker[q].fd = tmp[k])
     /\ Goto(p, "close")
     /\ UNCHANGED <<file, content, flocked, size, queue, app, bounds, drift>>

(* What stat finds need not be the file that was renamed.                  *)
StatFinal(p) ==
  LET k == worker[p].key
  IN /\ worker[p].pc = "stat"
     /\ worker' = [worker EXCEPT ![p].pc = IF file[k] = None THEN "unlinkfinal" ELSE "add",
                                 ![p].bytes = OnDisk(k), ![p].seen = None]
     /\ drift' = drift + Mistaken(k, worker[p])
     /\ UNCHANGED <<fs, size, queue, app, bounds, stray>>

StatFinalFails(p) ==
  /\ worker[p].pc = "stat" /\ Fault
  /\ worker' = [worker EXCEPT ![p].pc = "unlinkfinal", ![p].bytes = 0, ![p].seen = None]
  /\ drift' = drift - worker[p].bytes
  /\ UNCHANGED <<fs, size, queue, app, stray>>

(* The file stat did not find may be there again.                          *)
UnlinkFinal(p) ==
  LET k == worker[p].key
  IN /\ worker[p].pc = "unlinkfinal"
     /\ file' = [file EXCEPT ![k] = None]
     /\ drift' = drift + OnDisk(k)
     /\ Goto(p, "close")
     /\ UNCHANGED <<tmp, content, flocked, size, queue, app, bounds, stray>>

(* unlink fails where cache_put is about to end.                           *)
LastUnlinkFails(p) ==
  /\ worker[p].pc \in {"unlinktmp", "unlinkfinal"} /\ Fault
  /\ Goto(p, "close")
  /\ UNCHANGED <<fs, size, queue, app, history>>

(* Mutant: what was written is added, not what the file takes.             *)
AddSizeWritten(p) ==
  /\ worker[p].pc = "add"
  /\ size' = (size + Length[worker[p].payload]) % SizeWord
  /\ Goto(p, "close")
  /\ UNCHANGED <<fs, queue, app, bounds, history>>

AddSize(p) ==
  /\ worker[p].pc = "add"
  /\ size' = (size + worker[p].bytes) % SizeWord
  /\ Goto(p, "close")
  /\ UNCHANGED <<fs, queue, app, bounds, history>>

(* The flock goes with the descriptor.                                     *)
Released(p) == [i \in Inodes |-> IF flocked[i] = p THEN Nobody ELSE flocked[i]]

Close(p) ==
  /\ worker[p].pc = "close"
  /\ flocked' = Released(p)
  /\ worker' = [worker EXCEPT ![p] = IdleWorker]
  /\ UNCHANGED <<file, tmp, content, size, queue, app, bounds, history>>

(***************************************************************************)
(* The application thread                                                  *)
(***************************************************************************)
disk_cache_put(p, k, e) ==
  /\ app[p].pc = "idle" /\ puts < MaxPuts
  /\ puts' = puts + 1
  /\ queue' = [queue EXCEPT ![p] = Append(@, [key |-> k, payload |-> e])]
  /\ UNCHANGED <<fs, size, worker, app, removes, faults, history>>

(* stat; a missing file ends the call.                                     *)
disk_cache_remove(p, k) ==
  /\ app[p].pc = "idle" /\ removes < MaxRemoves /\ file[k] # None
  /\ removes' = removes + 1
  /\ app' = [app EXCEPT ![p].pc = "unlink", ![p].key = k, ![p].bytes = OnDisk(k),
                        ![p].seen = file[k]]
  /\ UNCHANGED <<fs, size, queue, worker, puts, faults, history>>

RemoveUnlink(p) ==
  /\ app[p].pc = "unlink"
  /\ UnlinkFile(app[p].key, app[p])
  /\ app' = [app EXCEPT ![p].pc = "sub", ![p].seen = None]
  /\ UNCHANGED <<size, queue, worker, bounds>>

RemoveUnlinkFails(p) ==
  /\ app[p].pc = "unlink"
  /\ UnlinkFileFails(app[p].bytes)
  /\ app' = [app EXCEPT ![p].pc = "sub", ![p].seen = None]
  /\ UNCHANGED <<size, queue, worker>>

RemoveSub(p) ==
  /\ app[p].pc = "sub"
  /\ size' = (size - app[p].bytes) % SizeWord
  /\ app' = [app EXCEPT ![p] = IdleApp]
  /\ UNCHANGED <<fs, queue, worker, bounds, history>>

(* open and fstat; a missing file ends the call.                           *)
disk_cache_get(p, k) ==
  /\ app[p].pc = "idle" /\ file[k] # None
  /\ app' = [app EXCEPT ![p].pc = "header", ![p].key = k, ![p].fd = file[k],
                        ![p].bytes = OnDisk(k)]
  /\ UNCHANGED <<fs, size, queue, worker, bounds, history>>

(* read_all fails on a file without header.                                *)
GetHeader(p) ==
  LET c == content[app[p].fd]
  IN /\ app[p].pc = "header"
     /\ app' = [app EXCEPT ![p] = IF c = << >> THEN IdleApp
                                  ELSE [@ EXCEPT !.pc = "data", !.header = c[1]]]
     /\ UNCHANGED <<fs, size, queue, worker, bounds, history>>

(* The data, as many bytes as fstat saw: inflated, checked and returned.   *)
GetData(p) ==
  /\ app[p].pc = "data"
  /\ app' = [app EXCEPT ![p] = IdleApp]
  /\ UNCHANGED <<fs, size, queue, worker, bounds, history>>

(***************************************************************************)
(* A process killed and started again: its descriptors and its queue are   *)
(* gone, the files and the size in the index stay.                         *)
(***************************************************************************)
PendingAdd(p) == IF worker[p].pc \in {"stat", "add"} THEN worker[p].bytes ELSE 0
PendingSub(p) == (IF worker[p].pc = "esub" THEN worker[p].bytes ELSE 0)
                   + (IF app[p].pc = "sub" THEN app[p].bytes ELSE 0)

Kill(p) ==
  /\ Fault
  /\ flocked' = Released(p)
  /\ queue' = [queue EXCEPT ![p] = << >>]
  /\ worker' = [worker EXCEPT ![p] = IdleWorker]
  /\ app' = [app EXCEPT ![p] = IdleApp]
  /\ drift' = drift + PendingSub(p) - PendingAdd(p)
  /\ UNCHANGED <<file, tmp, content, size, stray>>

WorkerStep(p) ==
  \/ PutStart(p) \/ EvictLoop(p) \/ EvictChoose(p) \/ EvictStat(p) \/ EvictUnlink(p)
  \/ EvictSub(p) \/ OpenTmp(p) \/ Flock(p) \/ CheckFinal(p) \/ Write(p) \/ Rename(p)
  \/ UnlinkTmp(p) \/ StatFinal(p) \/ UnlinkFinal(p) \/ AddSize(p) \/ Close(p)

WorkerFails(p) ==
  \/ EvictLookFails(p) \/ EvictUnlinkFails(p) \/ OpenOrFlockFails(p) \/ CheckFinalFails(p)
  \/ WriteOrRenameFails(p) \/ StatFinalFails(p) \/ LastUnlinkFails(p)

AppStep(p) ==
  \/ \E k \in Keys : \/ \E e \in Payloads : disk_cache_put(p, k, e)
                     \/ disk_cache_remove(p, k) \/ disk_cache_get(p, k)
  \/ RemoveUnlink(p) \/ RemoveUnlinkFails(p) \/ RemoveSub(p) \/ GetHeader(p) \/ GetData(p)

Next == \E p \in Procs : WorkerStep(p) \/ WorkerFails(p) \/ AppStep(p) \/ Kill(p)

(* The worker is a thread that the system keeps scheduling.                *)
Spec == Init /\ [][Next]_vars /\ \A p \in Procs : WF_vars(WorkerStep(p))

(***************************************************************************)
(* Properties                                                              *)
(***************************************************************************)

TypeOK ==
  /\ file \in [Keys -> Inodes \cup {None}] /\ tmp \in [Keys -> Inodes \cup {None}]
  /\ content \in [Inodes -> Contents]
  /\ flocked \in [Inodes -> Procs \cup {Nobody}]
  /\ size \in 0..(SizeWord - 1)
  /\ worker \in [Procs -> [pc : WorkerPC, key : Keys \cup {Nobody},
                           payload : Payloads \cup {Nobody}, fd : Inodes \cup {None},
                           offset : 0..MaxLength, tries : 0..EvictTries,
                           victim : Keys \cup {Nobody}, second : BOOLEAN,
                           bytes : 0..MaxLength, seen : Inodes \cup {None}]]
  /\ app \in [Procs -> [pc : AppPC, key : Keys \cup {Nobody}, fd : Inodes \cup {None},
                        bytes : 0..MaxLength, header : Payloads \cup {Nobody},
                        seen : Inodes \cup {None}]]
  /\ \A p \in Procs : queue[p] \in Seq([key : Keys, payload : Payloads])
  /\ puts \in 0..MaxPuts /\ removes \in 0..MaxRemoves /\ faults \in 0..MaxFaults
  /\ stray \in BOOLEAN /\ drift \in Int

(* Inflating stops where the payload ends: what a longer file left behind  *)
(* may follow.                                                             *)
Whole(c) == \E e \in Payloads : Len(c) >= Length[e] /\ \A n \in 1..Length[e] : c[n] = e

(* "prevent any readers from seeing a partially written file": an entry    *)
(* and whatever a reader has open begins with the header and all the data  *)
(* of one payload, and nobody is writing to it, through kills, failing     *)
(* calls, leftover .tmp files of any length, evictions and several         *)
(* processes that put the same key, until a .tmp name is no longer the     *)
(* file its writer locked.                                                 *)
ReadersSeeWholeFiles ==
  ~stray =>
    /\ \A k \in Keys : file[k] # None =>
         /\ Whole(content[file[k]])
         /\ \A p \in Procs : worker[p].pc = "write" => worker[p].fd # file[k]
    /\ \A p \in Procs : app[p].pc \in {"header", "data"} =>
         /\ Whole(content[app[p].fd])
         /\ app[p].pc = "data" => content[app[p].fd][1] = app[p].header

(* The sum of a function, by counting: nobody accounts for more than two   *)
(* files at a time.                                                        *)
Total(f) == Cardinality({c \in (DOMAIN f) \X (1..(2 * MaxLength)) : c[2] <= f[c[1]]})

(* The size in the index is what the files take, plus what is still to be  *)
(* added or taken off, and what makes it drift for good is: a process      *)
(* killed between the change to the directory and the change to the size;  *)
(* an unlink that fails, or whose name no longer stands for the file that  *)
(* stat saw; a rename over an entry that could not be opened; a writer     *)
(* whose stat does not find the file it has renamed; and the unlink of an  *)
(* entry after that.  An unlink of the file that stat saw never does: the  *)
(* file has not grown in between.                                          *)
SizeAccounted ==
  ~stray =>
    LET adds == Total([p \in Procs |-> PendingAdd(p)])
        subs == Total([p \in Procs |-> PendingSub(p)])
        disk == Total([k \in Keys |-> OnDisk(k)])
    IN (size - (disk + subs - adds + drift)) % SizeWord = 0

(* cache_put ends, however wrong the size is, whatever others evict and    *)
(* whichever calls fail, so every entry that is queued has its turn while  *)
(* the process lives.                                                      *)
QueueDrains ==
  \A p \in Procs : (queue[p] # << >> \/ worker[p].pc # "idle")
                     ~> (queue[p] = << >> /\ worker[p].pc = "idle")
=============================================================================
