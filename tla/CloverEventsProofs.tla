------------------------- MODULE CloverEventsProofs -------------------------
(***************************************************************************)
(* Proofs about CloverEvents, for every number of threads, queues, events  *)
(* and dependencies.  The steps fall into three groups: the quiet ones     *)
(* (waiting, flushing, returning), the calls that construct an event, and  *)
(* the steps that move a trigger or an abort along the event graph.        *)
(***************************************************************************)
EXTENDS CloverEvents, TLAPS, SequenceTheorems, FiniteSetTheorems

(* What Continue does to the stacks: the operations of the callee come      *)
(* first, the rest of the caller follows, other threads keep theirs.        *)
LEMMA ContinueShape ==
  ASSUME stack \in [Threads -> Seq(Ops)],
         NEW t \in Threads, stack[t] # << >>,
         NEW a \in Seq(Ops),
         Continue(t, a)
  PROVE  /\ stack' \in [Threads -> Seq(Ops)]
         /\ \A u \in Threads : u # t => stack'[u] = stack[u]
         /\ Len(stack'[t]) = Len(a) + Len(stack[t]) - 1
         /\ \A k \in 1..Len(a) : stack'[t][k] = a[k]
         /\ \A k \in (Len(a) + 1)..Len(stack'[t]) :
              stack'[t][k] = stack[t][k - Len(a) + 1]
<1> DEFINE s == stack[t]
<1>1. s \in Seq(Ops) /\ Len(s) \in Nat /\ Len(s) > 0 /\ Len(a) \in Nat
  BY EmptySeq, LenProperties
<1>2. Tail(s) \in Seq(Ops) /\ Len(Tail(s)) = Len(s) - 1
      /\ \A k \in 1..Len(Tail(s)) : Tail(s)[k] = s[k + 1]
  BY <1>1
<1>3. a \o Tail(s) \in Seq(Ops) /\ Len(a \o Tail(s)) = Len(a) + Len(s) - 1
      /\ \A k \in 1..Len(a \o Tail(s)) :
           (a \o Tail(s))[k] = IF k <= Len(a) THEN a[k] ELSE Tail(s)[k - Len(a)]
  BY <1>1, <1>2, ConcatProperties
<1>4. stack' = [stack EXCEPT ![t] = a \o Tail(s)]
  BY DEF Continue
<1>5. stack'[t] = a \o Tail(s) /\ stack' \in [Threads -> Seq(Ops)]
  BY <1>3, <1>4
<1>6. ASSUME NEW k \in (Len(a) + 1)..Len(stack'[t])
      PROVE  stack'[t][k] = stack[t][k - Len(a) + 1]
  <2>1. k \in Nat /\ ~(k <= Len(a)) /\ k \in 1..Len(a \o Tail(s)) /\ k - Len(a) \in 1..Len(Tail(s))
    BY <1>1, <1>2, <1>3, <1>5
  <2> QED BY <2>1, <1>1, <1>2, <1>3, <1>5
<1> QED BY <1>1, <1>3, <1>4, <1>5, <1>6

(* The fields of an operation have the types its name says.                 *)
LEMMA OpTypes ==
  ASSUME NEW o \in Ops
  PROVE  /\ o.op = "chain" => o.ev \in Events /\ o.arg \in Events
         /\ o.op \in {"flush", "fpop"} => o.ev = 0 /\ o.arg \in Queues
         /\ o.op \in EventOps => o.ev \in Events /\ o.arg \in Nat
         /\ o.op \in EventOps \cup {"chain", "flush", "fpop"}
         /\ o.ev \in Nat /\ o.arg \in Nat
         /\ o = Op(o.op, o.ev, o.arg)
  BY EventsAssumption DEF Ops, EventOps, Events, Queues, Op

(* The operations the actions push are operations, and their fields are     *)
(* what was pushed.                                                         *)
LEMMA OpIsOp ==
  /\ \A e, d \in Events : Op("chain", e, d) \in Ops
  /\ \A q \in Queues : Op("flush", 0, q) \in Ops /\ Op("fpop", 0, q) \in Ops
  /\ \A n \in EventOps, e \in Events, i \in Nat : Op(n, e, i) \in Ops
  /\ \A n, e, i : /\ Op(n, e, i).op = n
                  /\ Op(n, e, i).ev = e
                  /\ Op(n, e, i).arg = i
  BY DEF Ops, Op

(* A function on 1..n is a sequence of length n.                            *)
LEMMA SeqOfFunction ==
  ASSUME NEW S, NEW n \in Nat, NEW f \in [1..n -> S]
  PROVE  f \in Seq(S) /\ Len(f) = n /\ DOMAIN f = 1..n
  BY SeqDef, LenProperties

(* The first operation of a running thread is an operation.                 *)
LEMMA HeadOp ==
  ASSUME stack \in [Threads -> Seq(Ops)], NEW t \in Threads, stack[t] # << >>
  PROVE  /\ stack[t] \in Seq(Ops)
         /\ 1 \in DOMAIN stack[t]
         /\ Head(stack[t]) = stack[t][1]
         /\ Head(stack[t]) \in Ops
  BY EmptySeq

(* The empty sequence and the one with a single operation.                  *)
LEMMA SingleOps ==
  ASSUME NEW o \in Ops
  PROVE  << >> \in Seq(Ops) /\ Len(<< >>) = 0 /\ <<o>> \in Seq(Ops) /\ Len(<<o>>) = 1 /\ <<o>>[1] = o
  OBVIOUS

(* What a constructor call leaves to run: chain the wait list, sequence the *)
(* event if it is a hard one, trigger it, and then only wait for it or, if  *)
(* it is a hard one, return it.                                             *)
CtorBody(body, e, k) ==
  \E l \in 1..Len(body) :
    /\ body[l] = Op("trig", e, 0)
    /\ k \in {"command", "copy", "marker"} => l > 1 /\ body[l - 1].op = "seq"
    /\ \A j \in 1..Len(body) :
         /\ body[j].ev = e
         /\ j < l => \/ body[j].op = "chain" /\ body[j].arg \in published
                     \/ body[j].op = "seq" /\ j = l - 1 /\ k \in {"command", "copy", "marker"}
         /\ j > l => \/ body[j].op \in {"wsig", "wait"}
                     \/ body[j].op = "ret" /\ k \in {"command", "copy", "marker"}

(* The loop of the constructor of event chains the new event to published   *)
(* events only.                                                             *)
LEMMA ChainOpsShape ==
  ASSUME TypeOK, NEW e \in Events, NEW ds \in WaitLists
  PROVE  /\ ChainOps(e, ds) \in Seq(Ops) /\ Len(ChainOps(e, ds)) \in Nat
         /\ \A j \in 1..Len(ChainOps(e, ds)) :
              /\ ChainOps(e, ds)[j].op = "chain"
              /\ ChainOps(e, ds)[j].ev = e
              /\ ChainOps(e, ds)[j].arg \in published
<1>1. PICK n \in 0..MaxDeps : ds \in [1..n -> published]
  BY DEF WaitLists
<1>2. n \in Nat /\ published \subseteq Events
  BY EventsAssumption DEF TypeOK
<1>3. Len(ds) = n
  BY <1>1, <1>2, SeqOfFunction
<1>4. ChainOps(e, ds) \in [1..n -> Ops]
  BY <1>1, <1>2, <1>3, OpIsOp DEF ChainOps
<1>5. ChainOps(e, ds) \in Seq(Ops) /\ Len(ChainOps(e, ds)) = n
  BY <1>2, <1>4, SeqOfFunction
<1>6. ASSUME NEW j \in 1..n
      PROVE  ChainOps(e, ds)[j] = Op("chain", e, ds[j]) /\ ds[j] \in published
  BY <1>1, <1>3 DEF ChainOps
<1> QED BY <1>2, <1>5, <1>6, OpIsOp

(* Length and elements of a concatenation.                                  *)
LEMMA Concat ==
  ASSUME NEW S, NEW a \in Seq(S), NEW b \in Seq(S)
  PROVE  /\ a \o b \in Seq(S) /\ Len(a \o b) = Len(a) + Len(b)
         /\ Len(a) \in Nat /\ Len(b) \in Nat
         /\ \A j \in 1..Len(a) : (a \o b)[j] = a[j]
         /\ \A j \in (Len(a) + 1)..(Len(a) + Len(b)) : (a \o b)[j] = b[j - Len(a)]
<1>1. Len(a) \in Nat /\ Len(b) \in Nat
  OBVIOUS
<1>2. a \o b \in Seq(S) /\ Len(a \o b) = Len(a) + Len(b)
      /\ \A k \in 1..Len(a \o b) : (a \o b)[k] = IF k <= Len(a) THEN a[k] ELSE b[k - Len(a)]
  BY ConcatProperties
<1> QED BY <1>1, <1>2

(* Chaining a wait list in front of a constructor body gives a constructor  *)
(* body.                                                                    *)
LEMMA CtorBodyExtend ==
  ASSUME NEW e, NEW k, NEW c \in Seq(Ops), NEW x \in Seq(Ops), CtorBody(x, e, k),
         \A j \in 1..Len(c) : c[j].op = "chain" /\ c[j].ev = e /\ c[j].arg \in published
  PROVE  c \o x \in Seq(Ops) /\ CtorBody(c \o x, e, k)
<1> DEFINE n == Len(c)
           b == c \o x
<1>1. /\ b \in Seq(Ops) /\ Len(b) = n + Len(x) /\ n \in Nat /\ Len(x) \in Nat
      /\ \A j \in 1..n : b[j] = c[j]
      /\ \A j \in (n + 1)..(n + Len(x)) : b[j] = x[j - n]
  BY Concat
<1>2. PICK l \in 1..Len(x) :
    /\ x[l] = Op("trig", e, 0)
    /\ k \in {"command", "copy", "marker"} => l > 1 /\ x[l - 1].op = "seq"
    /\ \A j \in 1..Len(x) :
         /\ x[j].ev = e
         /\ j < l => \/ x[j].op = "chain" /\ x[j].arg \in published
                     \/ x[j].op = "seq" /\ j = l - 1 /\ k \in {"command", "copy", "marker"}
         /\ j > l => \/ x[j].op \in {"wsig", "wait"}
                     \/ x[j].op = "ret" /\ k \in {"command", "copy", "marker"}
  BY DEF CtorBody
<1> HIDE DEF n, b
<1>3. n + l \in 1..Len(b) /\ b[n + l] = Op("trig", e, 0)
  <2>1. n + l \in (n + 1)..(n + Len(x)) /\ (n + l) - n = l
    BY <1>1
  <2> QED BY <1>1, <1>2, <2>1
<1>4. ASSUME NEW j \in 1..Len(b)
      PROVE
         /\ b[j].ev = e
         /\ j < n + l => \/ b[j].op = "chain" /\ b[j].arg \in published
                         \/ b[j].op = "seq" /\ j = (n + l) - 1 /\ k \in {"command", "copy", "marker"}
         /\ j > n + l => \/ b[j].op \in {"wsig", "wait"}
                         \/ b[j].op = "ret" /\ k \in {"command", "copy", "marker"}
  <2>1. CASE j <= n
    <3>1. j \in 1..n /\ ~(j > n + l)
      BY <1>1, <2>1
    <3>2. b[j].op = "chain" /\ b[j].ev = e /\ b[j].arg \in published
      BY <1>1, <3>1 DEF n
    <3> QED BY <3>1, <3>2
  <2>2. CASE j > n
    <3>1. PICK m \in 1..Len(x) : j = n + m /\ b[j] = x[m]
      <4>1. j - n \in 1..Len(x) /\ b[j] = x[j - n] /\ j = n + (j - n)
        BY <1>1, <2>2
      <4> QED BY <4>1
    <3>2. /\ m \in Nat /\ n \in Nat /\ l \in Nat
          /\ j < n + l => m < l
          /\ j > n + l => m > l
          /\ m = l - 1 => j = (n + l) - 1
      BY <1>1, <3>1
    <3> QED BY <1>2, <3>1, <3>2
  <2> QED BY <1>1, <2>1, <2>2
<1>5. ASSUME k \in {"command", "copy", "marker"}
      PROVE  n + l > 1 /\ b[(n + l) - 1].op = "seq"
  <2>1. l > 1 /\ x[l - 1].op = "seq" /\ l \in 1..Len(x)
    BY <1>2, <1>5
  <2>2. /\ (n + l) - 1 \in (n + 1)..(n + Len(x)) /\ ((n + l) - 1) - n = l - 1
        /\ n + l > 1
    BY <1>1, <2>1
  <2> QED BY <1>1, <2>1, <2>2
<1>6. CtorBody(b, e, k)
  BY <1>3, <1>4, <1>5 DEF CtorBody
<1> QED BY <1>1, <1>6 DEF b

(* The bodies of the constructors of hard events, as the enqueue calls and  *)
(* clFinish leave them, are constructor bodies.                             *)
LEMMA CtorSuffixes ==
  ASSUME NEW e \in Events, NEW k, k \in {"command", "copy", "marker"}
  PROVE  /\ LET x == <<Op("seq", e, 0), Op("trig", e, 0), Op("wsig", e, 0), Op("ret", e, 0)>>
            IN  x \in Seq(Ops) /\ CtorBody(x, e, k)
         /\ LET x == <<Op("seq", e, 0), Op("trig", e, 0), Op("ret", e, 0)>>
            IN  x \in Seq(Ops) /\ CtorBody(x, e, k)
         /\ LET x == <<Op("seq", e, 0), Op("trig", e, 0), Op("wait", e, 0)>>
            IN  x \in Seq(Ops) /\ CtorBody(x, e, k)
<1>1. \A n \in {"seq", "trig", "wsig", "wait", "ret"} : Op(n, e, 0) \in Ops
  BY OpIsOp DEF EventOps
<1>2. ASSUME NEW y, y \in {"wsig", "wait", "ret"}, NEW z, z \in {"wsig", "wait", "ret"}
      PROVE  LET x == <<Op("seq", e, 0), Op("trig", e, 0), Op(y, e, 0), Op(z, e, 0)>>
             IN  x \in Seq(Ops) /\ CtorBody(x, e, k)
  <2> DEFINE x == <<Op("seq", e, 0), Op("trig", e, 0), Op(y, e, 0), Op(z, e, 0)>>
  <2>1. x \in Seq(Ops) /\ Len(x) = 4
    BY <1>1, <1>2
  <2>2. x[1] = Op("seq", e, 0) /\ x[2] = Op("trig", e, 0) /\ x[3] = Op(y, e, 0) /\ x[4] = Op(z, e, 0)
    OBVIOUS
  <2> HIDE DEF x
  <2>3. CtorBody(x, e, k)
    BY <1>2, <2>1, <2>2, OpIsOp DEF CtorBody
  <2> QED BY <2>1, <2>3 DEF x
<1>3. ASSUME NEW y, y \in {"wsig", "wait", "ret"}
      PROVE  LET x == <<Op("seq", e, 0), Op("trig", e, 0), Op(y, e, 0)>>
             IN  x \in Seq(Ops) /\ CtorBody(x, e, k)
  <2> DEFINE x == <<Op("seq", e, 0), Op("trig", e, 0), Op(y, e, 0)>>
  <2>1. x \in Seq(Ops) /\ Len(x) = 3
    BY <1>1, <1>3
  <2>2. x[1] = Op("seq", e, 0) /\ x[2] = Op("trig", e, 0) /\ x[3] = Op(y, e, 0)
    OBVIOUS
  <2> HIDE DEF x
  <2>3. CtorBody(x, e, k)
    BY <1>3, <2>1, <2>2, OpIsOp DEF CtorBody
  <2> QED BY <2>1, <2>3 DEF x
<1> QED BY <1>2, <1>3

(* The same of the soft events of clWaitForEvents and clSetEventCallback.   *)
LEMMA SoftSuffixes ==
  ASSUME NEW e \in Events, NEW k, k \notin {"command", "copy", "marker"}
  PROVE  /\ LET x == <<Op("trig", e, 0), Op("wait", e, 0)>>
            IN  x \in Seq(Ops) /\ CtorBody(x, e, k)
         /\ \A w \in published \cap Events :
              LET x == <<Op("chain", e, w), Op("trig", e, 0)>>
              IN  x \in Seq(Ops) /\ CtorBody(x, e, k)
<1>1. Op("trig", e, 0) \in Ops /\ Op("wait", e, 0) \in Ops
  BY OpIsOp DEF EventOps
<1>2. LET x == <<Op("trig", e, 0), Op("wait", e, 0)>> IN x \in Seq(Ops) /\ CtorBody(x, e, k)
  <2> DEFINE x == <<Op("trig", e, 0), Op("wait", e, 0)>>
  <2>1. x \in Seq(Ops) /\ Len(x) = 2 /\ x[1] = Op("trig", e, 0) /\ x[2] = Op("wait", e, 0)
    BY <1>1
  <2> HIDE DEF x
  <2>2. CtorBody(x, e, k)
    BY <2>1, OpIsOp DEF CtorBody
  <2> QED BY <2>1, <2>2 DEF x
<1>3. ASSUME NEW w \in published \cap Events
      PROVE  LET x == <<Op("chain", e, w), Op("trig", e, 0)>>
             IN  x \in Seq(Ops) /\ CtorBody(x, e, k)
  <2> DEFINE x == <<Op("chain", e, w), Op("trig", e, 0)>>
  <2>1. x \in Seq(Ops) /\ Len(x) = 2 /\ x[1] = Op("chain", e, w) /\ x[2] = Op("trig", e, 0)
    BY <1>1, OpIsOp
  <2> HIDE DEF x
  <2>2. CtorBody(x, e, k)
    BY <2>1, OpIsOp DEF CtorBody
  <2> QED BY <2>1, <2>2 DEF x
<1> QED BY <1>2, <1>3

-----------------------------------------------------------------------------
(* Type correctness.                                                        *)

(* event::chain keeps the types of what it writes.                          *)
LEMMA ChainToType ==
  ASSUME TypeOK, NEW d \in Events, NEW e \in Events, ChainTo(d, e)
  PROVE  /\ waitCount' \in [Events -> Nat]
         /\ chain' \in [Events -> Seq(Events \X Nat)]
         /\ deps' \in [Events -> Seq(Events)]
         /\ owed' \in [Events -> SUBSET Nat]
<1>1. deps[e] \in Seq(Events) /\ Len(deps[e]) + 1 \in Nat
  BY DEF TypeOK
<1>2. deps' \in [Events -> Seq(Events)]
  <2>1. Append(deps[e], d) \in Seq(Events)
    BY <1>1, AppendProperties
  <2> QED BY <2>1 DEF TypeOK, ChainTo
<1>3. <<e, Len(deps[e]) + 1>> \in Events \X Nat
  BY <1>1
<1>4. Append(chain[d], <<e, Len(deps[e]) + 1>>) \in Seq(Events \X Nat)
  BY <1>3, AppendProperties DEF TypeOK
<1>5. CASE waitCount[d] # 0
  <2>1. /\ waitCount' = [waitCount EXCEPT ![e] = waitCount[e] + 1]
        /\ chain' = [chain EXCEPT ![d] = Append(chain[d], <<e, Len(deps[e]) + 1>>)]
        /\ owed' = [owed EXCEPT ![e] = owed[e] \cup {Len(deps[e]) + 1}]
    BY <1>5 DEF ChainTo
  <2>2. waitCount[e] + 1 \in Nat /\ owed[e] \cup {Len(deps[e]) + 1} \in SUBSET Nat
    <3>1. waitCount[e] \in Nat /\ owed[e] \in SUBSET Nat
      BY DEF TypeOK
    <3>2. waitCount[e] + 1 \in Nat
      BY <3>1
    <3> QED BY <1>1, <3>1, <3>2
  <2>3. waitCount' \in [Events -> Nat] /\ chain' \in [Events -> Seq(Events \X Nat)]
    BY <1>4, <2>1, <2>2 DEF TypeOK
  <2>4. owed' \in [Events -> SUBSET Nat]
    BY <2>1, <2>2 DEF TypeOK
  <2> QED BY <1>2, <2>3, <2>4
<1>6. CASE waitCount[d] = 0
  BY <1>2, <1>6 DEF TypeOK, ChainTo
<1> QED BY <1>5, <1>6

(* The loops of trigger() and abort() visit exactly the entries of the      *)
(* chain.                                                                   *)
LEMMA FireShape ==
  ASSUME TypeOK, NEW e \in Events, NEW name \in {"trig", "abort"}
  PROVE  /\ Fire(name, e) \in Seq(Ops) /\ Len(Fire(name, e)) = Len(chain[e])
         /\ Len(chain[e]) \in Nat /\ DOMAIN chain[e] = 1..Len(chain[e])
         /\ \A k \in 1..Len(chain[e]) :
              /\ chain[e][k][1] \in Events /\ chain[e][k][2] \in Nat
              /\ chain[e][k] = <<chain[e][k][1], chain[e][k][2]>>
              /\ Fire(name, e)[k] = Op(name, chain[e][k][1], chain[e][k][2])
<1> DEFINE c == chain[e]
<1>1. c \in Seq(Events \X Nat) /\ Len(c) \in Nat /\ DOMAIN c = 1..Len(c)
  BY DEF TypeOK
<1>2. ASSUME NEW k \in 1..Len(c)
      PROVE  /\ c[k][1] \in Events /\ c[k][2] \in Nat /\ c[k] = <<c[k][1], c[k][2]>>
             /\ Op(name, c[k][1], c[k][2]) \in Ops
  <2>1. c[k] \in Events \X Nat
    BY <1>1, ElementOfSeq
  <2> QED BY <2>1, OpIsOp DEF EventOps
<1>3. Fire(name, e) \in [1..Len(c) -> Ops]
  BY <1>2 DEF Fire
<1>4. Fire(name, e) \in Seq(Ops) /\ Len(Fire(name, e)) = Len(c)
  BY <1>1, <1>3, SeqOfFunction
<1> QED BY <1>1, <1>2, <1>4 DEF Fire

(* Operations that neither trigger, abort nor construct anything.           *)
QuietOps ==
  {o \in Ops : /\ o.op \in {"wait", "wsig", "wend", "wfence", "flush", "fpop", "notify", "ret"}
               /\ o.ev <= nev}

(* A quiet operation is a well formed one and carries no trigger.           *)
LEMMA QuietOpsOK ==
  /\ \A o \in QuietOps :
       o \in Ops /\ OpOK(o) /\ ~Holds(o)
       /\ o.op \notin {"chain", "seq", "trig", "act", "dec", "abort", "aself", "complete", "fail"}
  /\ \A a \in Seq(QuietOps) : a \in Seq(Ops) /\ \A j \in 1..Len(a) : a[j] \in QuietOps
<1>1. QuietOps \subseteq Ops
  BY DEF QuietOps
<1>2. ASSUME NEW a \in Seq(QuietOps)
      PROVE  a \in Seq(Ops) /\ \A j \in 1..Len(a) : a[j] \in QuietOps
  BY <1>1
<1> QED BY <1>2 DEF QuietOps, OpOK, Holds

(* What event::wait pushes is quiet.                                        *)
LEMMA WaitOpsQuiet ==
  ASSUME TypeOK, NamesOK, NEW e \in Events, e <= nev
  PROVE  [k \in 1..Len(deps[e]) |-> Op("wait", deps[e][k], 0)]
           \o <<Op("wsig", e, 0), Op("wend", e, 0)>> \in Seq(QuietOps)
<1> DEFINE w == [k \in 1..Len(deps[e]) |-> Op("wait", deps[e][k], 0)]
           x == <<Op("wsig", e, 0), Op("wend", e, 0)>>
<1>1. deps[e] \in Seq(Events) /\ Len(deps[e]) \in Nat /\ DOMAIN deps[e] = 1..Len(deps[e])
  BY DEF TypeOK
<1>2. \A k \in 1..Len(deps[e]) : deps[e][k] \in Events /\ deps[e][k] <= nev
  BY <1>1, ElementOfSeq DEF NamesOK
<1>3. \A d \in Events, n \in {"wait", "wsig", "wend"} : d <= nev => Op(n, d, 0) \in QuietOps
  BY OpIsOp DEF EventOps, QuietOps
<1>4. w \in [1..Len(deps[e]) -> QuietOps]
  BY <1>2, <1>3
<1>5. w \in Seq(QuietOps)
  BY <1>1, <1>4, SeqOfFunction
<1>6. x \in Seq(QuietOps)
  BY <1>3
<1> QED BY <1>5, <1>6, ConcatProperties

(* After Continue every operation on a stack is a pushed one or an old one. *)
LEMMA ContinueOps ==
  ASSUME stack \in [Threads -> Seq(Ops)],
         NEW t \in Threads, stack[t] # << >>,
         NEW a \in Seq(Ops),
         Continue(t, a),
         NEW u \in Threads, NEW k \in DOMAIN stack'[u]
  PROVE  \/ \E j \in 1..Len(a) : stack'[u][k] = a[j]
         \/ \E j \in DOMAIN stack[u] : stack'[u][k] = stack[u][j]
<1>1. /\ stack' \in [Threads -> Seq(Ops)]
      /\ u # t => stack'[u] = stack[u]
      /\ Len(stack'[t]) = Len(a) + Len(stack[t]) - 1
      /\ \A j \in 1..Len(a) : stack'[t][j] = a[j]
      /\ \A j \in (Len(a) + 1)..Len(stack'[t]) :
              stack'[t][j] = stack[t][j - Len(a) + 1]
  BY ContinueShape
<1>2. CASE u # t
  BY <1>1, <1>2
<1>3. CASE u = t
  <2>1. Len(a) \in Nat /\ Len(stack[t]) \in Nat /\ DOMAIN stack[t] = 1..Len(stack[t])
        /\ DOMAIN stack'[t] = 1..Len(stack'[t])
    BY <1>1
  <2>2. CASE k <= Len(a)
    BY <1>1, <1>3, <2>1, <2>2
  <2>3. CASE k > Len(a)
    <3>1. k - Len(a) + 1 \in 1..Len(stack[t]) /\ k \in (Len(a) + 1)..Len(stack'[t])
      BY <1>1, <1>3, <2>1, <2>3
    <3> QED BY <1>1, <1>3, <2>1, <3>1
  <2> QED BY <1>3, <2>1, <2>2, <2>3
<1> QED BY <1>2, <1>3

(* If what a step pushes names existing events, so does every stack.        *)
LEMMA ContinueNames ==
  ASSUME TypeOK, NamesOK, NEW t \in Threads, stack[t] # << >>,
         NEW a \in Seq(Ops), Continue(t, a),
         \A j \in 1..Len(a) : OpOK(a[j]),
         UNCHANGED <<nev, kind>>
  PROVE  /\ stack' \in [Threads -> Seq(Ops)]
         /\ \A u \in Threads : \A k \in DOMAIN stack'[u] : OpOK(stack[u][k])'
<1>1. stack \in [Threads -> Seq(Ops)]
  BY DEF TypeOK
<1>2. stack' \in [Threads -> Seq(Ops)]
  BY <1>1, ContinueShape
<1>3. ASSUME NEW u \in Threads, NEW k \in DOMAIN stack'[u]
      PROVE  OpOK(stack[u][k])'
  <2>1. \/ \E j \in 1..Len(a) : stack'[u][k] = a[j]
        \/ \E j \in DOMAIN stack[u] : stack'[u][k] = stack[u][j]
    BY <1>1, ContinueOps
  <2>2. OpOK(stack'[u][k])
    BY <2>1 DEF NamesOK
  <2> QED BY <2>2 DEF OpOK, Hard
<1> QED BY <1>2, <1>3

(* A step that at most replaces quiet operations by quiet ones, unwinds a   *)
(* quiet call, or takes the first event off a queue.                        *)
QuietStack ==
  \/ stack' = stack
  \/ \E t \in Threads :
       /\ stack[t] # << >> /\ Head(stack[t]) \in QuietOps
       /\ Throw(t) \/ \E a \in Seq(QuietOps) : Continue(t, a)
  \/ \E t \in Threads : \E o \in QuietOps :
       stack[t] = << >> /\ stack' = [stack EXCEPT ![t] = <<o>>]

QuietQueues ==
  \/ queued' = queued
  \/ \E q \in Queues : queued[q] # << >> /\ queued' = [queued EXCEPT ![q] = Tail(@)]

Quiet ==
  /\ UNCHANGED <<graphVars, nev, kind, queue, watch, status, started>>
  /\ QuietStack
  /\ QuietQueues

(* A thread at a quiet operation has it at the head of its stack.           *)
LEMMA QuietHead ==
  ASSUME TypeOK, NamesOK, NEW t \in Threads, NEW n,
         n \in {"wait", "wsig", "wend", "wfence", "flush", "fpop", "notify", "ret"},
         At(t, n)
  PROVE  /\ stack[t] # << >>
         /\ Head(stack[t]) \in QuietOps
         /\ Head(stack[t]).op = n
         /\ Head(stack[t]).ev <= nev
<1>1. stack[t] # << >> /\ Head(stack[t]).op = n
  BY DEF At
<1>2. Head(stack[t]) = stack[t][1] /\ 1 \in DOMAIN stack[t] /\ Head(stack[t]) \in Ops
  BY <1>1, HeadOp DEF TypeOK
<1>3. OpOK(stack[t][1])
  BY <1>2 DEF NamesOK
<1> QED BY <1>1, <1>2, <1>3 DEF QuietOps, OpOK

(* Removing an operation pushes nothing that is not quiet.                  *)
LEMMA EmptyQuiet == << >> \in Seq(QuietOps)
  OBVIOUS

(* The waiting, flushing and returning operations are quiet.                *)
LEMMA QuietOpsIn ==
  ASSUME TypeOK
  PROVE  /\ \A n \in {"wait", "wsig", "wend", "wfence", "notify", "ret"}, e \in Events :
              e <= nev => Op(n, e, 0) \in QuietOps
         /\ \A q \in Queues : Op("flush", 0, q) \in QuietOps /\ Op("fpop", 0, q) \in QuietOps
<1>1. 0 <= nev
  BY EventsAssumption DEF TypeOK
<1>2. ASSUME NEW n \in {"wait", "wsig", "wend", "wfence", "notify", "ret"},
             NEW e \in Events, e <= nev
      PROVE  Op(n, e, 0) \in QuietOps
  BY <1>2, OpIsOp DEF QuietOps, EventOps
<1>3. ASSUME NEW q \in Queues
      PROVE  Op("flush", 0, q) \in QuietOps /\ Op("fpop", 0, q) \in QuietOps
  BY <1>1, OpIsOp DEF QuietOps
<1> QED BY <1>2, <1>3

(* A quiet step keeps the type of the stacks.                               *)
LEMMA QuietStackType ==
  ASSUME TypeOK, QuietStack
  PROVE  stack' \in [Threads -> Seq(Ops)]
<1>1. stack \in [Threads -> Seq(Ops)]
  BY DEF TypeOK
<1>2. CASE stack' = stack
  BY <1>1, <1>2
<1>3. ASSUME NEW t \in Threads, stack[t] # << >>, Throw(t)
      PROVE  stack' \in [Threads -> Seq(Ops)]
  BY <1>1, <1>3 DEF Throw
<1>4. ASSUME NEW t \in Threads, stack[t] # << >>, NEW a \in Seq(QuietOps), Continue(t, a)
      PROVE  stack' \in [Threads -> Seq(Ops)]
  <2>1. a \in Seq(Ops)
    BY QuietOpsOK
  <2> QED BY <1>1, <1>4, <2>1, ContinueShape
<1>5. ASSUME NEW t \in Threads, NEW o \in QuietOps, stack' = [stack EXCEPT ![t] = <<o>>]
      PROVE  stack' \in [Threads -> Seq(Ops)]
  <2>1. <<o>> \in Seq(Ops)
    BY QuietOpsOK
  <2> QED BY <1>1, <1>5, <2>1
<1> QED BY <1>2, <1>3, <1>4, <1>5 DEF QuietStack

(* A quiet step keeps the type of the queues.                               *)
LEMMA QuietQueuesType ==
  ASSUME TypeOK, QuietQueues
  PROVE  queued' \in [Queues -> Seq(Events)]
<1>1. CASE queued' = queued
  BY <1>1 DEF TypeOK
<1>2. ASSUME NEW q \in Queues, queued[q] # << >>, queued' = [queued EXCEPT ![q] = Tail(@)]
      PROVE  queued' \in [Queues -> Seq(Events)]
  <2>1. Tail(queued[q]) \in Seq(Events)
    BY <1>2 DEF TypeOK
  <2> QED BY <1>2, <2>1 DEF TypeOK
<1> QED BY <1>1, <1>2 DEF QuietQueues

(* The steps of wait(), flush(), callbacks and returns, and the call of     *)
(* clFlush, are quiet.                                                      *)
LEMMA QuietSteps ==
  ASSUME TypeOK, NamesOK, NEW t \in Threads,
         \/ Wait(t) \/ WaitSignalled(t) \/ WaitEnd(t) \/ WaitFence(t)
         \/ Flush(t) \/ FlushPop(t) \/ Notify(t) \/ Return(t)
         \/ \E q \in Queues : ClFlush(t, q)
  PROVE  Quiet
<1> USE DEF Quiet, graphVars, deviceVars, identVars
<1>1. CASE Wait(t)
  <2> DEFINE e == Head(stack[t]).ev
  <2>1. stack[t] # << >> /\ Head(stack[t]) \in QuietOps /\ Head(stack[t]).op = "wait" /\ e <= nev
    BY <1>1, QuietHead DEF Wait
  <2>2. e \in Events
    BY <2>1, QuietOpsOK, OpTypes DEF EventOps
  <2>3. \E a \in Seq(QuietOps) : Continue(t, a)
    BY <1>1, <2>1, <2>2, WaitOpsQuiet DEF Wait
  <2>4. QuietStack
    BY <2>1, <2>3 DEF QuietStack
  <2> QED BY <1>1, <2>4 DEF Wait, QuietQueues
<1>2. CASE WaitSignalled(t)
  <2>1. stack[t] # << >> /\ Head(stack[t]) \in QuietOps
    BY <1>2, QuietHead DEF WaitSignalled
  <2>2. QuietStack
    BY <1>2, <2>1, EmptyQuiet DEF QuietStack, WaitSignalled
  <2> QED BY <1>2, <2>2 DEF WaitSignalled, QuietQueues
<1>3. CASE WaitEnd(t)
  <2> DEFINE e == Head(stack[t]).ev
  <2>1. stack[t] # << >> /\ Head(stack[t]) \in QuietOps /\ Head(stack[t]).op = "wend" /\ e <= nev
    BY <1>3, QuietHead DEF WaitEnd
  <2>2. e \in Events
    BY <2>1, QuietOpsOK, OpTypes DEF EventOps
  <2>3. ASSUME Hard(e)
        PROVE  (IF status[e] = 0 /\ fence[e] = NoFence
                THEN <<Op("flush", 0, queue[e])>> ELSE << >>)
               \o <<Op("wfence", e, 0)>> \in Seq(QuietOps)
    <3>1. Op("flush", 0, queue[e]) \in QuietOps /\ Op("wfence", e, 0) \in QuietOps
      BY <2>1, <2>2, <2>3, QuietOpsIn DEF NamesOK
    <3>2. /\ <<Op("flush", 0, queue[e])>> \in Seq(QuietOps)
          /\ <<Op("wfence", e, 0)>> \in Seq(QuietOps)
      BY <3>1
    <3> HIDE DEF e
    <3> QED BY <3>2, EmptyQuiet, ConcatProperties
  <2>4. QuietStack
    <3>1. CASE Hard(e)
      BY <1>3, <2>1, <2>3, <3>1 DEF WaitEnd, QuietStack
    <3>2. CASE ~Hard(e)
      BY <1>3, <2>1, <3>2, EmptyQuiet DEF WaitEnd, QuietStack
    <3> QED BY <3>1, <3>2
  <2> QED BY <1>3, <2>4 DEF WaitEnd, QuietQueues
<1>4. CASE WaitFence(t)
  <2>1. stack[t] # << >> /\ Head(stack[t]) \in QuietOps
    BY <1>4, QuietHead DEF WaitFence
  <2>2. QuietStack
    BY <1>4, <2>1, EmptyQuiet DEF QuietStack, WaitFence
  <2> QED BY <1>4, <2>2 DEF WaitFence, QuietQueues
<1>5. CASE Flush(t)
  <2> DEFINE q == Head(stack[t]).arg
  <2>1. stack[t] # << >> /\ Head(stack[t]) \in QuietOps /\ Head(stack[t]).op = "flush"
    BY <1>5, QuietHead DEF Flush
  <2>2. q \in Queues
    BY <2>1, QuietOpsOK, OpTypes
  <2>3. <<Op("fpop", 0, q)>> \in Seq(QuietOps)
    <3>1. Op("fpop", 0, q) \in QuietOps
      BY <2>2, QuietOpsIn
    <3> QED BY <3>1
  <2>4. QuietStack
    BY <1>5, <2>1, <2>3, EmptyQuiet DEF QuietStack, Flush
  <2> QED BY <1>5, <2>4 DEF Flush, QuietQueues
<1>6. CASE FlushPop(t)
  <2> DEFINE q == Head(stack[t]).arg
  <2>1. stack[t] # << >> /\ Head(stack[t]) \in QuietOps /\ Head(stack[t]).op = "fpop"
    BY <1>6, QuietHead DEF FlushPop
  <2>2. q \in Queues
    BY <2>1, QuietOpsOK, OpTypes
  <2>3. QuietStack /\ QuietQueues
    BY <1>6, <2>1, <2>2, EmptyQuiet DEF QuietStack, QuietQueues, FlushPop
  <2> QED BY <1>6, <2>3 DEF FlushPop
<1>7. CASE Notify(t)
  <2>1. stack[t] # << >> /\ Head(stack[t]) \in QuietOps
    BY <1>7, QuietHead DEF Notify
  <2>2. QuietStack
    BY <1>7, <2>1, EmptyQuiet DEF QuietStack, Notify
  <2> QED BY <1>7, <2>2 DEF Notify, QuietQueues
<1>8. CASE Return(t)
  <2>1. stack[t] # << >> /\ Head(stack[t]) \in QuietOps
    BY <1>8, QuietHead DEF Return
  <2>2. QuietStack
    BY <1>8, <2>1, EmptyQuiet DEF QuietStack, Return
  <2> QED BY <1>8, <2>2 DEF Return, QuietQueues
<1>9. ASSUME NEW q \in Queues, ClFlush(t, q)
      PROVE  Quiet
  <2>1. Op("flush", 0, q) \in QuietOps
    BY QuietOpsIn
  <2>2. QuietStack
    BY <1>9, <2>1 DEF QuietStack, ClFlush, Call
  <2> QED BY <1>9, <2>2 DEF ClFlush, QuietQueues
<1> QED BY <1>1, <1>2, <1>3, <1>4, <1>5, <1>6, <1>7, <1>8, <1>9

(* The calls that construct an event and leave a constructor body to run.   *)
Construct(t, k, q, w, body) ==
  /\ NewEvent(k, q, w)
  /\ stack[t] = << >> /\ stack' = [stack EXCEPT ![t] = body]
  /\ CtorBody(body, nev + 1, k)
  /\ k \in {"command", "copy", "marker", "cb", "tmp"}
  /\ q \in 0..NumQueues /\ w \in 0..MaxEvents
  /\ k \in {"command", "copy", "marker"} => q \in Queues
  /\ k = "cb" => w \in published
  /\ body \in Seq(Ops)
  /\ UNCHANGED <<chain, deps, deviceVars, published, status, started, notified>>

(* The calls that create hard events and temporary soft events have the     *)
(* common form of Construct.                                                *)
LEMMA ConstructCalls ==
  ASSUME TypeOK, NamesOK, NEW t \in Threads,
         \/ EnqueueCall(t)
         \/ \E q \in Queues : ClFinish(t, q)
         \/ \E ds \in WaitLists : ClWaitForEvents(t, ds)
         \/ \E w \in published : ClSetEventCallback(t, w)
  PROVE  \E k, q, w, body : Construct(t, k, q, w, body)
<1> DEFINE e == nev + 1
<1>0. published \subseteq Events /\ Queues \subseteq 0..NumQueues /\ Events \subseteq 0..MaxEvents
      /\ 0 \in 0..NumQueues /\ 0 \in 0..MaxEvents
  BY EventsAssumption DEF TypeOK, Queues, Events
<1>00. ASSUME nev < MaxEvents PROVE e \in Events
  BY <1>00, EventsAssumption DEF TypeOK, Events
<1>1. ASSUME NEW k \in {"command", "copy", "marker"}, NEW q \in Queues, NEW ds \in WaitLists,
             NEW b \in BOOLEAN, Enqueue(t, k, q, ds, b)
      PROVE  \E body : Construct(t, k, q, 0, body)
  <2> DEFINE x == IF b
               THEN <<Op("seq", e, 0), Op("trig", e, 0), Op("wsig", e, 0), Op("ret", e, 0)>>
               ELSE <<Op("seq", e, 0), Op("trig", e, 0), Op("ret", e, 0)>>
             c == ChainOps(e, ds)
  <2>1. e \in Events
    BY <1>1, <1>00 DEF Enqueue, NewEvent
  <2>2. x \in Seq(Ops) /\ CtorBody(x, e, k)
    <3>1. CASE b
      BY <2>1, <3>1, CtorSuffixes
    <3>2. CASE ~b
      BY <2>1, <3>2, CtorSuffixes
    <3> QED BY <3>1, <3>2
  <2>3. c \in Seq(Ops)
        /\ \A j \in 1..Len(c) : c[j].op = "chain" /\ c[j].ev = e /\ c[j].arg \in published
    BY <2>1, ChainOpsShape
  <2>4. stack[t] = << >> /\ stack' = [stack EXCEPT ![t] = c \o x]
    BY <1>1 DEF Enqueue, Call
  <2>5. NewEvent(k, q, 0)
        /\ UNCHANGED <<chain, deps, deviceVars, published, status, started, notified>>
    BY <1>1 DEF Enqueue
  <2> HIDE DEF x, c, e
  <2>6. c \o x \in Seq(Ops) /\ CtorBody(c \o x, e, k)
    BY <2>2, <2>3, CtorBodyExtend
  <2> QED BY <1>0, <2>4, <2>5, <2>6 DEF Construct, e
<1>2. ASSUME NEW q \in Queues, ClFinish(t, q)
      PROVE  \E body : Construct(t, "marker", q, 0, body)
  <2> DEFINE x == <<Op("seq", e, 0), Op("trig", e, 0), Op("wait", e, 0)>>
  <2>1. e \in Events
    BY <1>2, <1>00 DEF ClFinish, NewEvent
  <2>2. x \in Seq(Ops) /\ CtorBody(x, e, "marker")
    BY <2>1, CtorSuffixes
  <2> QED BY <1>0, <1>2, <2>2 DEF Construct, ClFinish, Call
<1>3. ASSUME NEW ds \in WaitLists, ClWaitForEvents(t, ds)
      PROVE  \E body : Construct(t, "tmp", 0, 0, body)
  <2> DEFINE x == <<Op("trig", e, 0), Op("wait", e, 0)>>
             c == ChainOps(e, ds)
  <2>1. e \in Events
    BY <1>3, <1>00 DEF ClWaitForEvents, NewEvent
  <2>2. x \in Seq(Ops) /\ CtorBody(x, e, "tmp")
    BY <2>1, SoftSuffixes
  <2>3. c \in Seq(Ops)
        /\ \A j \in 1..Len(c) : c[j].op = "chain" /\ c[j].ev = e /\ c[j].arg \in published
    BY <2>1, ChainOpsShape
  <2>4. stack[t] = << >> /\ stack' = [stack EXCEPT ![t] = c \o x]
    BY <1>3 DEF ClWaitForEvents, Call
  <2>5. NewEvent("tmp", 0, 0)
        /\ UNCHANGED <<chain, deps, deviceVars, published, status, started, notified>>
    BY <1>3 DEF ClWaitForEvents
  <2> HIDE DEF x, c, e
  <2>6. c \o x \in Seq(Ops) /\ CtorBody(c \o x, e, "tmp")
    BY <2>2, <2>3, CtorBodyExtend
  <2> QED BY <1>0, <2>4, <2>5, <2>6 DEF Construct, e
<1>4. ASSUME NEW w \in published, ClSetEventCallback(t, w)
      PROVE  \E body : Construct(t, "cb", 0, w, body)
  <2> DEFINE x == <<Op("chain", e, w), Op("trig", e, 0)>>
  <2>1. e \in Events
    BY <1>4, <1>00 DEF ClSetEventCallback, NewEvent
  <2>2. x \in Seq(Ops) /\ CtorBody(x, e, "cb")
    BY <1>0, <2>1, SoftSuffixes
  <2> QED BY <1>0, <1>4, <2>2 DEF Construct, ClSetEventCallback, Call
<1>5. EnqueueCall(t) => \E k, q, w, body : Construct(t, k, q, w, body)
  BY <1>1 DEF EnqueueCall, ClEnqueueKernel, ClEnqueueTransfer, ClEnqueueMarker, ClEnqueueMap
<1> QED BY <1>2, <1>3, <1>4, <1>5

(* What is known of the operation a thread is at.                           *)
LEMMA HeadFacts ==
  ASSUME TypeOK, NamesOK, NEW t \in Threads, NEW n, At(t, n)
  PROVE  /\ stack[t] # << >> /\ 1 \in DOMAIN stack[t]
         /\ Head(stack[t]) = stack[t][1] /\ Head(stack[t]) \in Ops
         /\ Head(stack[t]).op = n /\ OpOK(Head(stack[t]))
<1>1. stack[t] # << >> /\ Head(stack[t]).op = n
  BY DEF At
<1>2. Head(stack[t]) = stack[t][1] /\ 1 \in DOMAIN stack[t] /\ Head(stack[t]) \in Ops
  BY <1>1, HeadOp DEF TypeOK
<1> QED BY <1>1, <1>2 DEF NamesOK

(* An action pushes quiet operations and then the counting step of its      *)
(* caller.                                                                  *)
LEMMA CallbackShape ==
  ASSUME TypeOK, NamesOK, NEW e \in Events, e <= nev,
         NEW n \in {"dec", "aself"}, NEW i \in Nat, NEW a,
         a = ActionOps(e, Op(n, e, i))
  PROVE  /\ a \in Seq(Ops) /\ Len(a) \in Nat /\ Len(a) >= 1
         /\ a[Len(a)] = Op(n, e, i)
         /\ \A j \in 1..Len(a) : j # Len(a) => a[j] \in QuietOps
         /\ kind[e] # "cb" => Len(a) = 1
<1>1. Op(n, e, i) \in Ops
  BY OpIsOp DEF EventOps
<1>2. CASE kind[e] = "cb"
  <2>1. watch[e] \in Events /\ watch[e] <= nev
    BY <1>2, EventsAssumption DEF NamesOK, TypeOK, Events
  <2>2. Op("wait", watch[e], 0) \in QuietOps /\ Op("notify", e, 0) \in QuietOps
    BY <2>1, QuietOpsIn
  <2>3. Op("wait", watch[e], 0) \in Ops /\ Op("notify", e, 0) \in Ops
    BY <2>2, QuietOpsOK
  <2>4. a = <<Op("wait", watch[e], 0), Op("notify", e, 0), Op(n, e, i)>>
    BY <1>2 DEF ActionOps
  <2>5. /\ a \in Seq(Ops) /\ Len(a) = 3 /\ a[3] = Op(n, e, i)
        /\ a[1] = Op("wait", watch[e], 0) /\ a[2] = Op("notify", e, 0)
    BY <1>1, <2>3, <2>4
  <2> QED BY <1>2, <2>2, <2>5
<1>3. CASE kind[e] # "cb"
  <2>1. a = <<Op(n, e, i)>>
    BY <1>3 DEF ActionOps
  <2>2. a \in Seq(Ops) /\ Len(a) = 1 /\ a[1] = Op(n, e, i)
    BY <1>1, <2>1
  <2> QED BY <1>3, <2>2
<1> QED BY <1>2, <1>3

(* Continue keeps the type of the stacks.                                   *)
LEMMA ContinueType ==
  ASSUME TypeOK, NamesOK, NEW t \in Threads, NEW n, At(t, n),
         NEW a \in Seq(Ops), Continue(t, a)
  PROVE  stack' \in [Threads -> Seq(Ops)]
<1>1. stack[t] # << >> /\ stack \in [Threads -> Seq(Ops)]
  BY DEF At, TypeOK
<1> QED BY <1>1, ContinueShape

(* Every step of a running call keeps the types.                            *)
LEMMA TypeSteps ==
  ASSUME TypeOK, NamesOK, NEW t \in Threads, Step(t)
  PROVE  TypeOK'
<1> USE DEF graphVars, deviceVars, identVars
<1> DEFINE o == Head(stack[t])
<1>0. << >> \in Seq(Ops)
  OBVIOUS
<1>1. CASE Chain(t)
  <2>1. o.ev \in Events /\ o.arg \in Events
    BY <1>1, HeadFacts, OpTypes DEF Chain
  <2>2. stack' \in [Threads -> Seq(Ops)]
    BY <1>0, <1>1, ContinueType DEF Chain
  <2>3. /\ waitCount' \in [Events -> Nat]
        /\ chain' \in [Events -> Seq(Events \X Nat)]
        /\ deps' \in [Events -> Seq(Events)]
        /\ owed' \in [Events -> SUBSET Nat]
    BY <1>1, <2>1, ChainToType DEF Chain
  <2> QED BY <1>1, <2>2, <2>3 DEF Chain, TypeOK
<1>2. CASE Sequence(t)
  <2> DEFINE e == o.ev
             q == queue[e]
  <2>1. o \in Ops /\ o.op = "seq" /\ OpOK(o)
    BY <1>2, HeadFacts DEF Sequence
  <2>2. e \in Events /\ q \in Queues
    BY <2>1, OpTypes DEF EventOps, OpOK, NamesOK
  <2>3. stack' \in [Threads -> Seq(Ops)]
    BY <1>0, <1>2, ContinueType DEF Sequence
  <2>4. queued' \in [Queues -> Seq(Events)]
    <3>1. Append(queued[q], e) \in Seq(Events)
      BY <2>2, AppendProperties DEF TypeOK
    <3> QED BY <1>2, <2>2, <3>1 DEF Sequence, TypeOK
  <2>5. /\ waitCount' \in [Events -> Nat]
        /\ chain' \in [Events -> Seq(Events \X Nat)]
        /\ deps' \in [Events -> Seq(Events)]
        /\ owed' \in [Events -> SUBSET Nat]
    <3>1. CASE queued[q] = << >>
      BY <1>2, <3>1 DEF Sequence, TypeOK
    <3>2. CASE queued[q] # << >>
      <4>1. queued[q] \in Seq(Events)
        BY <2>2 DEF TypeOK
      <4>2. queued[q][Len(queued[q])] \in Events
        BY <3>2, <4>1
      <4> QED BY <1>2, <2>2, <3>2, <4>2, ChainToType DEF Sequence
    <3> QED BY <3>1, <3>2
  <2> QED BY <1>2, <2>3, <2>4, <2>5 DEF Sequence, TypeOK
<1>3. CASE SetStatus(t)
  <2>1. o \in Ops /\ o.op \in {"complete", "fail"}
    BY <1>3, HeadFacts DEF SetStatus
  <2>2. o.ev \in Events
    BY <2>1, OpTypes DEF EventOps
  <2>3. \A n \in {"trig", "abort"} : <<Op(n, o.ev, 0)>> \in Seq(Ops)
    BY <2>2, OpIsOp DEF EventOps
  <2>4. PICK a \in Seq(Ops) : Continue(t, a)
    BY <1>0, <1>3, <2>3 DEF SetStatus
  <2>5. stack' \in [Threads -> Seq(Ops)]
    BY <1>3, <2>4, ContinueType DEF SetStatus
  <2> QED BY <1>3, <2>5 DEF SetStatus, TypeOK
<1>4. CASE Trigger(t)
  <2>1. o \in Ops /\ o.op = "trig"
    BY <1>4, HeadFacts DEF Trigger
  <2>2. o.ev \in Events /\ o.arg \in Nat
    BY <2>1, OpTypes DEF EventOps
  <2>3. \A n \in {"act", "dec"} : <<Op(n, o.ev, o.arg)>> \in Seq(Ops)
    BY <2>2, OpIsOp DEF EventOps
  <2>4. PICK a \in Seq(Ops) : Continue(t, a)
    BY <1>4, <2>3 DEF Trigger
  <2>5. stack' \in [Threads -> Seq(Ops)]
    BY <1>4, <2>4, ContinueType DEF Trigger
  <2> QED BY <1>4, <2>5 DEF Trigger, TypeOK
<1>5. CASE Act(t)
  <2>1. o \in Ops /\ o.op = "act" /\ OpOK(o)
    BY <1>5, HeadFacts DEF Act
  <2>2. o.ev \in Events /\ o.arg \in Nat /\ o.ev <= nev
    BY <2>1, OpTypes DEF EventOps, OpOK
  <2>3. PICK a \in Seq(Ops) : Continue(t, a)
    BY <1>5, <2>2, CallbackShape DEF Act
  <2>4. stack' \in [Threads -> Seq(Ops)]
    BY <1>5, <2>3, ContinueType DEF Act
  <2>5. started' \in [Events -> Nat]
    <3>1. started[o.ev] + 1 \in Nat
      BY <2>2 DEF TypeOK
    <3>2. started' = [started EXCEPT ![o.ev] = started[o.ev] + 1]
      BY <1>5 DEF Act
    <3> QED BY <3>1, <3>2 DEF TypeOK
  <2>6. cmd' \in [Events -> {"none", "recorded", "submitted", "done"}]
    BY <1>5, <2>2 DEF Act, TypeOK
  <2> QED BY <1>5, <2>4, <2>5, <2>6 DEF Act, TypeOK
<1>6. CASE TriggerSelf(t)
  <2>1. o \in Ops /\ o.op = "dec"
    BY <1>6, HeadFacts DEF TriggerSelf
  <2>2. o.ev \in Events /\ o.arg \in Nat
    BY <2>1, OpTypes DEF EventOps
  <2>3. PICK a \in Seq(Ops) : Continue(t, a)
    BY <1>0, <1>6, <2>2, FireShape DEF TriggerSelf
  <2>4. stack' \in [Threads -> Seq(Ops)]
    BY <1>6, <2>3, ContinueType DEF TriggerSelf
  <2>5. waitCount' \in [Events -> Nat]
    <3>1. Dec(waitCount[o.ev]) \in Nat
      <4>1. waitCount[o.ev] \in Nat
        BY <2>2 DEF TypeOK
      <4> QED BY <4>1, EventsAssumption DEF Dec
    <3> QED BY <1>6, <2>2, <3>1 DEF TriggerSelf, TypeOK
  <2>6. owed' \in [Events -> SUBSET Nat] /\ chain' \in [Events -> Seq(Events \X Nat)]
    <3>1. << >> \in Seq(Events \X Nat)
      OBVIOUS
    <3>2. owed' \in [Events -> SUBSET Nat]
      BY <1>6, <2>2 DEF TriggerSelf, TypeOK
    <3>3. chain' \in [Events -> Seq(Events \X Nat)]
      BY <1>6, <2>2, <3>1 DEF TriggerSelf, TypeOK
    <3> QED BY <3>2, <3>3
  <2> QED BY <1>6, <2>4, <2>5, <2>6 DEF TriggerSelf, TypeOK
<1>7. CASE Abort(t)
  <2>1. o \in Ops /\ o.op = "abort" /\ OpOK(o)
    BY <1>7, HeadFacts DEF Abort
  <2>2. o.ev \in Events /\ o.arg \in Nat /\ o.ev <= nev
    BY <2>1, OpTypes DEF EventOps, OpOK
  <2>3. PICK a \in Seq(Ops) : Continue(t, a)
    BY <1>7, <2>2, CallbackShape DEF Abort
  <2>4. stack' \in [Threads -> Seq(Ops)]
    BY <1>7, <2>3, ContinueType DEF Abort
  <2> QED BY <1>7, <2>4 DEF Abort, TypeOK
<1>8. CASE AbortSelf(t)
  <2>1. o \in Ops /\ o.op = "aself"
    BY <1>8, HeadFacts DEF AbortSelf
  <2>2. o.ev \in Events
    BY <2>1, OpTypes DEF EventOps
  <2>3. PICK a \in Seq(Ops) : Continue(t, a)
    BY <1>8, <2>2, FireShape DEF AbortSelf
  <2>4. stack' \in [Threads -> Seq(Ops)]
    BY <1>8, <2>3, ContinueType DEF AbortSelf
  <2>5. status' \in [Events -> {0, -1}] /\ chain' \in [Events -> Seq(Events \X Nat)]
    <3>1. << >> \in Seq(Events \X Nat)
      OBVIOUS
    <3> QED BY <1>8, <2>2, <3>1 DEF AbortSelf, TypeOK
  <2> QED BY <1>8, <2>4, <2>5 DEF AbortSelf, TypeOK
<1>9. CASE \/ Wait(t) \/ WaitSignalled(t) \/ WaitEnd(t) \/ WaitFence(t)
           \/ Flush(t) \/ FlushPop(t) \/ Notify(t) \/ Return(t)
  <2>1. Quiet
    BY <1>9, QuietSteps
  <2>2. stack' \in [Threads -> Seq(Ops)] /\ queued' \in [Queues -> Seq(Events)]
    BY <2>1, QuietStackType, QuietQueuesType DEF Quiet
  <2>3. /\ notified' \in [Events -> Nat]
        /\ cmd' \in [Events -> {"none", "recorded", "submitted", "done"}]
        /\ fence' \in [Events -> SUBSET (0..MaxEvents)]
        /\ flushing' \in [Queues -> SUBSET (0..MaxEvents)]
        /\ published' \subseteq Events
    <3>1. CASE Wait(t) \/ WaitSignalled(t) \/ WaitEnd(t) \/ WaitFence(t)
      BY <3>1 DEF Wait, WaitSignalled, WaitEnd, WaitFence, TypeOK
    <3>2. CASE Flush(t)
      <4> DEFINE q == o.arg
      <4>1. InFlight(q) \in SUBSET (0..MaxEvents)
        BY EventsAssumption DEF InFlight, Events
      <4>2. flushing' \in [Queues -> SUBSET (0..MaxEvents)]
        BY <3>2, <4>1 DEF Flush, TypeOK
      <4>3. cmd' \in [Events -> {"none", "recorded", "submitted", "done"}]
        BY <3>2 DEF Flush, TypeOK
      <4> QED BY <3>2, <4>2, <4>3 DEF Flush, TypeOK
    <3>3. CASE FlushPop(t)
      <4> DEFINE q == o.arg
      <4>1. o \in Ops /\ o.op = "fpop"
        BY <3>3, HeadFacts DEF FlushPop
      <4>2. q \in Queues
        BY <4>1, OpTypes
      <4>3. {0} \in SUBSET (0..MaxEvents)
        BY EventsAssumption
      <4>4. fence' \in [Events -> SUBSET (0..MaxEvents)]
        BY <3>3, <4>2 DEF FlushPop, TypeOK
      <4>5. flushing' \in [Queues -> SUBSET (0..MaxEvents)]
        BY <3>3, <4>2, <4>3 DEF FlushPop, TypeOK, NoFence
      <4> QED BY <3>3, <4>4, <4>5 DEF FlushPop, TypeOK
    <3>4. CASE Notify(t)
      <4>1. o \in Ops /\ o.op = "notify"
        BY <3>4, HeadFacts DEF Notify
      <4>2. o.ev \in Events
        BY <4>1, OpTypes DEF EventOps
      <4>3. notified[o.ev] + 1 \in Nat
        BY <4>2 DEF TypeOK
      <4>4. notified' = [notified EXCEPT ![o.ev] = notified[o.ev] + 1]
        BY <3>4 DEF Notify
      <4>5. notified' \in [Events -> Nat]
        BY <4>3, <4>4 DEF TypeOK
      <4> QED BY <3>4, <4>5 DEF Notify, TypeOK
    <3>5. CASE Return(t)
      <4>1. o \in Ops /\ o.op = "ret"
        BY <3>5, HeadFacts DEF Return
      <4>2. o.ev \in Events
        BY <4>1, OpTypes DEF EventOps
      <4> QED BY <3>5, <4>2 DEF Return, TypeOK
    <3> QED BY <1>9, <3>1, <3>2, <3>3, <3>4, <3>5
  <2> QED BY <2>1, <2>2, <2>3 DEF TypeOK, Quiet
<1> QED BY <1>1, <1>2, <1>3, <1>4, <1>5, <1>6, <1>7, <1>8, <1>9 DEF Step

(* The constructor of event keeps the types of what it writes.              *)
LEMMA NewEventType ==
  ASSUME TypeOK, NEW k \in Kinds, NEW q \in 0..NumQueues, NEW w \in 0..MaxEvents,
         NewEvent(k, q, w)
  PROVE  /\ nev + 1 \in Events /\ nev' = nev + 1 /\ nev' \in 0..MaxEvents
         /\ kind' \in [Events -> Kinds] /\ queue' \in [Events -> 0..NumQueues]
         /\ watch' \in [Events -> 0..MaxEvents]
         /\ waitCount' \in [Events -> Nat] /\ owed' \in [Events -> SUBSET Nat]
<1>1. nev + 1 \in Events /\ nev' = nev + 1 /\ nev' \in 0..MaxEvents
  BY EventsAssumption DEF NewEvent, TypeOK, Events
<1>2. /\ kind' \in [Events -> Kinds] /\ queue' \in [Events -> 0..NumQueues]
      /\ watch' \in [Events -> 0..MaxEvents]
  <2>1. kind' = [kind EXCEPT ![nev + 1] = k] /\ kind \in [Events -> Kinds]
    BY DEF NewEvent, TypeOK
  <2>2. queue' = [queue EXCEPT ![nev + 1] = q] /\ queue \in [Events -> 0..NumQueues]
    BY DEF NewEvent, TypeOK
  <2>3. watch' = [watch EXCEPT ![nev + 1] = w] /\ watch \in [Events -> 0..MaxEvents]
    BY DEF NewEvent, TypeOK
  <2> QED BY <2>1, <2>2, <2>3
<1>3. waitCount' \in [Events -> Nat] /\ owed' \in [Events -> SUBSET Nat]
  <2>1. waitCount' = [waitCount EXCEPT ![nev + 1] = 1] /\ waitCount \in [Events -> Nat]
    BY DEF NewEvent, TypeOK
  <2>2. owed' = [owed EXCEPT ![nev + 1] = {0}] /\ owed \in [Events -> SUBSET Nat]
    BY DEF NewEvent, TypeOK
  <2>3. 1 \in Nat /\ {0} \in SUBSET Nat
    OBVIOUS
  <2>4. waitCount' \in [Events -> Nat]
    BY <2>1, <2>3
  <2>5. owed' \in [Events -> SUBSET Nat]
    BY <2>2, <2>3
  <2> QED BY <2>4, <2>5
<1> QED BY <1>1, <1>2, <1>3

(* Every API call keeps the types.                                          *)
LEMMA TypeCalls ==
  ASSUME TypeOK, NamesOK, NEW t \in Threads, ApiCall(t)
  PROVE  TypeOK'
<1> USE DEF graphVars, deviceVars, identVars
<1>1. CASE ClCreateUserEvent(t)
  <2>1. "user" \in Kinds /\ 0 \in 0..NumQueues /\ 0 \in 0..MaxEvents
    BY EventsAssumption DEF Kinds
  <2>2. /\ nev + 1 \in Events /\ nev' \in 0..MaxEvents
        /\ kind' \in [Events -> Kinds] /\ queue' \in [Events -> 0..NumQueues]
        /\ watch' \in [Events -> 0..MaxEvents]
        /\ waitCount' \in [Events -> Nat] /\ owed' \in [Events -> SUBSET Nat]
    BY <1>1, <2>1, NewEventType DEF ClCreateUserEvent
  <2> QED BY <1>1, <2>2 DEF ClCreateUserEvent, TypeOK
<1>2. ASSUME NEW e \in published, NEW how \in {"complete", "fail"},
             ClSetUserEventStatus(t, e, how)
      PROVE  TypeOK'
  <2>1. Op(how, e, 0) \in Ops
    BY OpIsOp DEF TypeOK, EventOps
  <2>2. <<Op(how, e, 0)>> \in Seq(Ops)
    BY <2>1
  <2>3. stack' \in [Threads -> Seq(Ops)]
    <3>1. stack' = [stack EXCEPT ![t] = <<Op(how, e, 0)>>]
      BY <1>2 DEF ClSetUserEventStatus, Call
    <3> QED BY <2>2, <3>1 DEF TypeOK
  <2> QED BY <1>2, <2>3 DEF ClSetUserEventStatus, TypeOK
<1>3. ASSUME NEW k, NEW q, NEW w, NEW body, Construct(t, k, q, w, body)
      PROVE  TypeOK'
  <2>1. k \in Kinds
    BY <1>3 DEF Construct, Kinds
  <2>2. /\ nev' \in 0..MaxEvents
        /\ kind' \in [Events -> Kinds] /\ queue' \in [Events -> 0..NumQueues]
        /\ watch' \in [Events -> 0..MaxEvents]
        /\ waitCount' \in [Events -> Nat] /\ owed' \in [Events -> SUBSET Nat]
    BY <1>3, <2>1, NewEventType DEF Construct
  <2>3. stack' \in [Threads -> Seq(Ops)]
    BY <1>3 DEF Construct, TypeOK
  <2> QED BY <1>3, <2>2, <2>3 DEF Construct, TypeOK
<1>4. ASSUME NEW q \in Queues, ClFlush(t, q)
      PROVE  TypeOK'
  <2>1. Quiet
    BY <1>4, QuietSteps
  <2>2. stack' \in [Threads -> Seq(Ops)]
    BY <2>1, QuietStackType DEF Quiet
  <2> QED BY <1>4, <2>2 DEF ClFlush, TypeOK
<1>5. CASE \/ EnqueueCall(t)
           \/ \E q \in Queues : ClFinish(t, q)
           \/ \E ds \in WaitLists : ClWaitForEvents(t, ds)
           \/ \E w \in published : ClSetEventCallback(t, w)
  <2>1. \E k, q, w, body : Construct(t, k, q, w, body)
    BY <1>5, ConstructCalls
  <2> QED BY <1>3, <2>1
<1> QED BY <1>1, <1>2, <1>4, <1>5 DEF ApiCall

(* Every step of the system keeps the types.                                *)
LEMMA TypeNext ==
  ASSUME TypeOK, NamesOK, [Next]_vars
  PROVE  TypeOK'
<1>1. ASSUME NEW e \in Events, DeviceFinish(e)
      PROVE  TypeOK'
  BY <1>1 DEF DeviceFinish, TypeOK, graphVars, identVars
<1>2. CASE UNCHANGED vars
  BY <1>2 DEF vars, TypeOK, graphVars, deviceVars, identVars
<1> QED BY <1>1, <1>2, TypeSteps, TypeCalls DEF Next

-----------------------------------------------------------------------------
(* How a step moves the operations of its thread: the first m of the new    *)
(* stack are new, the others are old ones n places further on.              *)
Shift(t, m, n) ==
  /\ m \in Nat /\ n \in Int
  /\ stack' \in [Threads -> Seq(Ops)]
  /\ \A u \in Threads : u # t => stack'[u] = stack[u]
  /\ Len(stack'[t]) = 0 \/ Len(stack'[t]) = Len(stack[t]) + n
  /\ \A k \in DOMAIN stack'[t] :
       k > m => k - n \in DOMAIN stack[t] /\ stack'[t][k] = stack[t][k - n]

(* Domain and elements of a stack.                                          *)
LEMMA SeqDomain ==
  ASSUME stack \in [Threads -> Seq(Ops)], NEW t \in Threads
  PROVE  /\ stack[t] \in Seq(Ops) /\ Len(stack[t]) \in Nat
         /\ DOMAIN stack[t] = 1..Len(stack[t])
         /\ \A k \in DOMAIN stack[t] : k \in Nat /\ k >= 1 /\ stack[t][k] \in Ops
  OBVIOUS

(* Continue moves the rest of the caller by the length of what it pushes.   *)
LEMMA ContinueIsShift ==
  ASSUME TypeOK, NEW t \in Threads, stack[t] # << >>, NEW a \in Seq(Ops), Continue(t, a)
  PROVE  /\ Len(a) \in Nat /\ Shift(t, Len(a), Len(a) - 1)
         /\ Len(stack'[t]) = Len(stack[t]) + (Len(a) - 1)
         /\ \A k \in 1..Len(a) : k \in DOMAIN stack'[t] /\ stack'[t][k] = a[k]
<1>1. stack \in [Threads -> Seq(Ops)] /\ Len(a) \in Nat
  BY DEF TypeOK
<1>2. /\ stack' \in [Threads -> Seq(Ops)]
      /\ \A u \in Threads : u # t => stack'[u] = stack[u]
      /\ Len(stack'[t]) = Len(a) + Len(stack[t]) - 1
      /\ \A k \in 1..Len(a) : stack'[t][k] = a[k]
      /\ \A k \in (Len(a) + 1)..Len(stack'[t]) :
              stack'[t][k] = stack[t][k - Len(a) + 1]
  BY <1>1, ContinueShape
<1>3. /\ DOMAIN stack'[t] = 1..Len(stack'[t]) /\ DOMAIN stack[t] = 1..Len(stack[t])
      /\ Len(stack[t]) \in Nat /\ Len(stack[t]) >= 1 /\ Len(stack'[t]) \in Nat
  BY <1>1, <1>2, EmptySeq
<1>4. Len(stack'[t]) = Len(stack[t]) + (Len(a) - 1) /\ Len(a) - 1 \in Int
  BY <1>1, <1>2, <1>3
<1>5. ASSUME NEW k \in DOMAIN stack'[t], k > Len(a)
      PROVE  k - (Len(a) - 1) \in DOMAIN stack[t]
             /\ stack'[t][k] = stack[t][k - (Len(a) - 1)]
  <2>1. k \in (Len(a) + 1)..Len(stack'[t]) /\ k - (Len(a) - 1) = k - Len(a) + 1
    BY <1>1, <1>3, <1>5
  <2>2. k - (Len(a) - 1) \in 1..Len(stack[t])
    BY <1>1, <1>3, <1>4, <1>5
  <2> QED BY <1>2, <1>3, <2>1, <2>2
<1>6. \A k \in 1..Len(a) : k \in DOMAIN stack'[t]
  BY <1>1, <1>2, <1>3
<1> QED BY <1>1, <1>2, <1>4, <1>5, <1>6 DEF Shift

(* A call puts its body on an empty stack.                                  *)
LEMMA CallIsShift ==
  ASSUME TypeOK, NEW t \in Threads, stack[t] = << >>, NEW a \in Seq(Ops),
         stack' = [stack EXCEPT ![t] = a]
  PROVE  /\ Len(a) \in Nat /\ Shift(t, Len(a), Len(a))
         /\ stack'[t] = a /\ DOMAIN stack'[t] = 1..Len(a)
<1>1. stack \in [Threads -> Seq(Ops)]
  BY DEF TypeOK
<1>2. stack'[t] = a /\ stack' \in [Threads -> Seq(Ops)] /\ Len(stack[t]) = 0
  BY <1>1
<1> QED BY <1>1, <1>2 DEF Shift

(* A quiet step pushes only quiet operations.                               *)
LEMMA QuietShift ==
  ASSUME TypeOK, QuietStack, stack' # stack
  PROVE  \E t \in Threads : \E m \in Nat, n \in Int :
           /\ Shift(t, m, n)
           /\ \A k \in DOMAIN stack'[t] : k <= m => stack'[t][k] \in QuietOps
           /\ stack[t] # << >> => Head(stack[t]) \in QuietOps
<1>1. stack \in [Threads -> Seq(Ops)]
  BY DEF TypeOK
<1>2. ASSUME NEW t \in Threads, stack[t] # << >>, Throw(t)
      PROVE  Shift(t, 0, 0) /\ \A k \in DOMAIN stack'[t] : k <= 0 => stack'[t][k] \in QuietOps
  <2>1. stack'[t] = << >> /\ stack' \in [Threads -> Seq(Ops)]
        /\ \A u \in Threads : u # t => stack'[u] = stack[u]
    BY <1>1, <1>2 DEF Throw
  <2>2. DOMAIN stack'[t] = {} /\ Len(stack'[t]) = 0
    BY <2>1
  <2> QED BY <2>1, <2>2 DEF Shift
<1>3. ASSUME NEW t \in Threads, stack[t] # << >>, NEW a \in Seq(QuietOps), Continue(t, a)
      PROVE  \E m \in Nat, n \in Int :
               /\ Shift(t, m, n)
               /\ \A k \in DOMAIN stack'[t] : k <= m => stack'[t][k] \in QuietOps
  <2>1. a \in Seq(Ops) /\ \A j \in 1..Len(a) : a[j] \in QuietOps
    BY QuietOpsOK
  <2>2. /\ Len(a) \in Nat /\ Shift(t, Len(a), Len(a) - 1)
        /\ \A k \in 1..Len(a) : stack'[t][k] = a[k]
    BY <1>3, <2>1, ContinueIsShift
  <2>3. \A k \in DOMAIN stack'[t] : k <= Len(a) => k \in 1..Len(a)
    BY <2>2, <1>1 DEF Shift
  <2>4. Len(a) - 1 \in Int
    BY <2>2
  <2> QED BY <2>1, <2>2, <2>3, <2>4
<1>4. ASSUME NEW t \in Threads, NEW o \in QuietOps, stack[t] = << >>,
             stack' = [stack EXCEPT ![t] = <<o>>]
      PROVE  Shift(t, 1, 1) /\ \A k \in DOMAIN stack'[t] : stack'[t][k] \in QuietOps
  <2>1. <<o>> \in Seq(Ops) /\ Len(<<o>>) = 1
    BY QuietOpsOK
  <2>2. Shift(t, 1, 1) /\ stack'[t] = <<o>>
    BY <1>4, <2>1, CallIsShift
  <2> QED BY <2>2
<1> QED BY <1>2, <1>3, <1>4 DEF QuietStack

(* An operation that a step did not push was there before.                  *)
LEMMA ShiftOrigin ==
  ASSUME TypeOK, NEW t \in Threads, NEW m, NEW n, Shift(t, m, n),
         NEW u \in Threads, NEW k \in DOMAIN stack'[u], ~(u = t /\ k <= m)
  PROVE  \E j \in DOMAIN stack[u] : stack'[u][k] = stack[u][j]
<1>1. k \in Nat /\ m \in Nat
  BY DEF Shift
<1> QED BY <1>1 DEF Shift

-----------------------------------------------------------------------------
(* What is named exists.                                                    *)

(* A quiet step names nothing new.                                          *)
LEMMA NamesQuiet ==
  ASSUME TypeOK, TypeOK', NamesOK, Quiet, published' \subseteq 1..nev
  PROVE  NamesOK'
<1>1. UNCHANGED <<nev, kind, queue, watch, deps, chain>>
  BY DEF Quiet, graphVars
<1>2. ASSUME NEW t \in Threads, NEW k \in DOMAIN stack'[t]
      PROVE  OpOK(stack[t][k])'
  <2>1. OpOK(stack'[t][k])
    <3>1. CASE stack' = stack
      BY <3>1 DEF NamesOK
    <3>2. CASE stack' # stack
      <4>1. PICK u \in Threads, m \in Nat, n \in Int :
              /\ Shift(u, m, n)
              /\ \A j \in DOMAIN stack'[u] : j <= m => stack'[u][j] \in QuietOps
        BY <3>2, QuietShift DEF Quiet
      <4>2. CASE t = u /\ k <= m
        BY <4>1, <4>2, QuietOpsOK
      <4>3. CASE ~(t = u /\ k <= m)
        <5>1. \E j \in DOMAIN stack[t] : stack'[t][k] = stack[t][j]
          BY <4>1, <4>3, ShiftOrigin
        <5> QED BY <5>1 DEF NamesOK
      <4> QED BY <4>2, <4>3
    <3> QED BY <3>1, <3>2
  <2> QED BY <1>1, <2>1 DEF OpOK, Hard
<1>3. \A q \in Queues : \A k \in DOMAIN queued'[q] : queued'[q][k] <= nev
  <2>1. CASE queued' = queued
    BY <2>1 DEF NamesOK
  <2>2. ASSUME NEW p \in Queues, queued[p] # << >>, queued' = [queued EXCEPT ![p] = Tail(@)]
        PROVE  \A q \in Queues : \A k \in DOMAIN queued'[q] : queued'[q][k] <= nev
    <3>1. queued[p] \in Seq(Events)
      BY DEF TypeOK
    <3>2. ASSUME NEW k \in DOMAIN Tail(queued[p])
          PROVE  k + 1 \in DOMAIN queued[p] /\ Tail(queued[p])[k] = queued[p][k + 1]
      BY <2>2, <3>1
    <3>3. queued'[p] = Tail(queued[p]) /\ \A q \in Queues : q # p => queued'[q] = queued[q]
      BY <2>2 DEF TypeOK
    <3>4. ASSUME NEW q \in Queues, NEW k \in DOMAIN queued'[q]
          PROVE  queued'[q][k] <= nev
      <4>1. CASE q = p
        <5>1. k + 1 \in DOMAIN queued[p] /\ queued'[q][k] = queued[p][k + 1]
          BY <3>2, <3>3, <4>1
        <5> QED BY <5>1 DEF NamesOK
      <4>2. CASE q # p
        BY <3>3, <4>2 DEF NamesOK
      <4> QED BY <4>1, <4>2
    <3> QED BY <3>4
  <2> QED BY <2>1, <2>2 DEF Quiet, QuietQueues
<1> QED BY <1>1, <1>2, <1>3 DEF NamesOK, Hard

(* A step of a running call names only events and queues that exist.        *)
LEMMA NamesSteps ==
  ASSUME TypeOK, TypeOK', NamesOK, NEW t \in Threads, Step(t)
  PROVE  NamesOK'
<1> USE DEF graphVars, deviceVars, identVars
<1> DEFINE o == Head(stack[t])
<1>0. << >> \in Seq(Ops) /\ \A j \in 1..Len(<< >>) : OpOK(<< >>[j])
  OBVIOUS
<1>a. ASSUME NEW n, At(t, n), NEW a \in Seq(Ops), Continue(t, a),
             \A j \in 1..Len(a) : OpOK(a[j]), UNCHANGED <<nev, kind>>
      PROVE  \A u \in Threads : \A k \in DOMAIN stack'[u] : OpOK(stack[u][k])'
  <2>1. stack[t] # << >>
    BY <1>a DEF At
  <2> QED BY <1>a, <2>1, ContinueNames
<1>b. ASSUME NEW d \in Events, NEW e \in Events, d <= nev, e <= nev, ChainTo(d, e),
             kind[e] # "user", UNCHANGED <<nev, kind>>
      PROVE  /\ \A x \in Events : \A k \in DOMAIN deps'[x] : deps'[x][k] <= nev
             /\ \A x \in Events : kind[x] = "user" => deps'[x] = << >>
             /\ \A x \in Events : \A k \in DOMAIN chain'[x] : chain'[x][k][1] <= nev
  <2>1. deps' = [deps EXCEPT ![e] = Append(deps[e], d)]
    BY <1>b DEF ChainTo
  <2>2. chain' = chain \/ chain' = [chain EXCEPT ![d] = Append(chain[d], <<e, Len(deps[e]) + 1>>)]
    BY <1>b DEF ChainTo
  <2>3. deps[e] \in Seq(Events) /\ chain[d] \in Seq(Events \X Nat)
    BY DEF TypeOK
  <2>4. ASSUME NEW x \in Events, NEW k \in DOMAIN deps'[x]
        PROVE  deps'[x][k] <= nev
    <3>1. CASE x # e
      BY <2>1, <3>1 DEF NamesOK, TypeOK
    <3>2. CASE x = e
      <4>1. deps'[x] = Append(deps[e], d)
        BY <2>1, <3>2 DEF TypeOK
      <4>2. (k \in DOMAIN deps[e] /\ deps'[x][k] = deps[e][k]) \/ deps'[x][k] = d
        BY <2>3, <4>1
      <4> QED BY <1>b, <4>2 DEF NamesOK
    <3> QED BY <3>1, <3>2
  <2>5. ASSUME NEW x \in Events, kind[x] = "user"
        PROVE  deps'[x] = << >>
    BY <1>b, <2>1, <2>5 DEF NamesOK, TypeOK
  <2>6. ASSUME NEW x \in Events, NEW k \in DOMAIN chain'[x]
        PROVE  chain'[x][k][1] <= nev
    <3>1. CASE chain' = chain \/ x # d
      BY <2>2, <3>1 DEF NamesOK, TypeOK
    <3>2. CASE chain' # chain /\ x = d
      <4>1. chain'[x] = Append(chain[d], <<e, Len(deps[e]) + 1>>)
        BY <2>2, <3>2 DEF TypeOK
      <4>2. \/ k \in DOMAIN chain[d] /\ chain'[x][k] = chain[d][k]
            \/ chain'[x][k] = <<e, Len(deps[e]) + 1>>
        BY <2>3, <4>1
      <4> QED BY <1>b, <4>2 DEF NamesOK
    <3> QED BY <3>1, <3>2
  <2> QED BY <2>4, <2>5, <2>6
<1>1. CASE Chain(t)
  <2>1. At(t, "chain") /\ o \in Ops /\ o.op = "chain" /\ OpOK(o)
    BY <1>1, HeadFacts DEF Chain
  <2>2. o.ev \in Events /\ o.arg \in Events /\ o.ev <= nev /\ o.arg <= nev /\ kind[o.ev] # "user"
    BY <2>1, OpTypes DEF OpOK
  <2>3. \A u \in Threads : \A k \in DOMAIN stack'[u] : OpOK(stack[u][k])'
    <3>1. Continue(t, << >>) /\ UNCHANGED <<nev, kind>>
      BY <1>1 DEF Chain
    <3> QED BY <1>0, <1>a, <2>1, <3>1
  <2>4. /\ \A x \in Events : \A k \in DOMAIN deps'[x] : deps'[x][k] <= nev
        /\ \A x \in Events : kind[x] = "user" => deps'[x] = << >>
        /\ \A x \in Events : \A k \in DOMAIN chain'[x] : chain'[x][k][1] <= nev
    BY <1>1, <1>b, <2>2 DEF Chain
  <2> QED BY <1>1, <2>3, <2>4 DEF Chain, NamesOK, Hard
<1>2. CASE Sequence(t)
  <2> DEFINE e == o.ev
             q == queue[e]
  <2>1. At(t, "seq") /\ o \in Ops /\ o.op = "seq" /\ OpOK(o)
    BY <1>2, HeadFacts DEF Sequence
  <2>2. e \in Events /\ q \in Queues /\ e <= nev /\ kind[e] # "user"
    BY <2>1, OpTypes DEF EventOps, OpOK, NamesOK, Hard
  <2>3. \A u \in Threads : \A k \in DOMAIN stack'[u] : OpOK(stack[u][k])'
    <3>1. Continue(t, << >>) /\ UNCHANGED <<nev, kind>>
      BY <1>2 DEF Sequence
    <3> QED BY <1>0, <1>a, <2>1, <3>1
  <2>4. queued[q] \in Seq(Events)
    BY <2>2 DEF TypeOK
  <2>5. /\ \A x \in Events : \A k \in DOMAIN deps'[x] : deps'[x][k] <= nev
        /\ \A x \in Events : kind[x] = "user" => deps'[x] = << >>
        /\ \A x \in Events : \A k \in DOMAIN chain'[x] : chain'[x][k][1] <= nev
    <3>1. CASE queued[q] = << >>
      BY <1>2, <3>1 DEF Sequence, NamesOK
    <3>2. CASE queued[q] # << >>
      <4>1. Len(queued[q]) \in DOMAIN queued[q] /\ queued[q][Len(queued[q])] \in Events
        BY <2>4, <3>2
      <4>2. queued[q][Len(queued[q])] <= nev
        BY <2>2, <4>1 DEF NamesOK
      <4> QED BY <1>2, <1>b, <2>2, <3>2, <4>1, <4>2 DEF Sequence
    <3> QED BY <3>1, <3>2
  <2>6. ASSUME NEW p \in Queues, NEW k \in DOMAIN queued'[p]
        PROVE  queued'[p][k] <= nev
    <3>1. queued' = [queued EXCEPT ![q] = Append(queued[q], e)]
      BY <1>2 DEF Sequence
    <3>2. CASE p # q
      BY <3>1, <3>2 DEF NamesOK, TypeOK
    <3>3. CASE p = q
      <4>1. queued'[p] = Append(queued[q], e)
        BY <2>2, <3>1, <3>3 DEF TypeOK
      <4>2. (k \in DOMAIN queued[q] /\ queued'[p][k] = queued[q][k]) \/ queued'[p][k] = e
        BY <2>4, <4>1
      <4> QED BY <2>2, <4>2 DEF NamesOK
    <3> QED BY <3>2, <3>3
  <2> QED BY <1>2, <2>3, <2>5, <2>6 DEF Sequence, NamesOK, Hard
<1>c. ASSUME NEW n \in {"trig", "act", "dec", "abort", "aself"}, NEW e \in Events, NEW i, e <= nev
      PROVE  OpOK(Op(n, e, i))
  BY <1>c, OpIsOp DEF OpOK
<1>3. CASE SetStatus(t)
  <2>1. PICK n : At(t, n) /\ n \in {"complete", "fail"}
    BY <1>3 DEF SetStatus
  <2>2. o \in Ops /\ o.op = n /\ OpOK(o)
    BY <2>1, HeadFacts
  <2>3. o.ev \in Events /\ o.ev <= nev
    BY <2>1, <2>2, OpTypes DEF EventOps, OpOK
  <2>4. ASSUME NEW x \in {"trig", "abort"}
        PROVE  <<Op(x, o.ev, 0)>> \in Seq(Ops)
               /\ \A j \in 1..Len(<<Op(x, o.ev, 0)>>) : OpOK(<<Op(x, o.ev, 0)>>[j])
    <3>1. OpOK(Op(x, o.ev, 0)) /\ Op(x, o.ev, 0) \in Ops
      BY <1>c, <2>3, OpIsOp DEF EventOps
    <3> QED BY <3>1
  <2>5. PICK a \in Seq(Ops) : Continue(t, a) /\ \A j \in 1..Len(a) : OpOK(a[j])
    <3>1. Continue(t, << >>) \/ \E x \in {"trig", "abort"} : Continue(t, <<Op(x, o.ev, 0)>>)
      BY <1>3 DEF SetStatus
    <3> QED BY <1>0, <2>4, <3>1
  <2>6. \A u \in Threads : \A k \in DOMAIN stack'[u] : OpOK(stack[u][k])'
    BY <1>3, <1>a, <2>1, <2>5 DEF SetStatus
  <2> QED BY <1>3, <2>6 DEF SetStatus, NamesOK, Hard
<1>4. CASE Trigger(t)
  <2>1. At(t, "trig") /\ o \in Ops /\ o.op = "trig" /\ OpOK(o)
    BY <1>4, HeadFacts DEF Trigger
  <2>2. o.ev \in Events /\ o.arg \in Nat /\ o.ev <= nev
    BY <2>1, OpTypes DEF EventOps, OpOK
  <2>3. ASSUME NEW x \in {"act", "dec"}
        PROVE  <<Op(x, o.ev, o.arg)>> \in Seq(Ops)
               /\ \A j \in 1..Len(<<Op(x, o.ev, o.arg)>>) : OpOK(<<Op(x, o.ev, o.arg)>>[j])
    <3>1. OpOK(Op(x, o.ev, o.arg)) /\ Op(x, o.ev, o.arg) \in Ops
      BY <1>c, <2>2, OpIsOp DEF EventOps
    <3> QED BY <3>1
  <2>4. PICK a \in Seq(Ops) : Continue(t, a) /\ \A j \in 1..Len(a) : OpOK(a[j])
    <3>1. \E x \in {"act", "dec"} : Continue(t, <<Op(x, o.ev, o.arg)>>)
      BY <1>4 DEF Trigger
    <3> QED BY <2>3, <3>1
  <2>5. \A u \in Threads : \A k \in DOMAIN stack'[u] : OpOK(stack[u][k])'
    BY <1>4, <1>a, <2>1, <2>4 DEF Trigger
  <2> QED BY <1>4, <2>5 DEF Trigger, NamesOK, Hard
<1>d. ASSUME NEW n \in {"dec", "aself"}, NEW e \in Events, e <= nev, NEW i \in Nat
      PROVE  ActionOps(e, Op(n, e, i)) \in Seq(Ops)
             /\ \A j \in 1..Len(ActionOps(e, Op(n, e, i))) : OpOK(ActionOps(e, Op(n, e, i))[j])
  <2> DEFINE a == ActionOps(e, Op(n, e, i))
  <2>1. /\ a \in Seq(Ops) /\ a[Len(a)] = Op(n, e, i)
        /\ \A j \in 1..Len(a) : j # Len(a) => a[j] \in QuietOps
    BY <1>d, CallbackShape
  <2> HIDE DEF a
  <2>2. \A j \in 1..Len(a) : OpOK(a[j])
    BY <1>c, <1>d, <2>1, QuietOpsOK
  <2> QED BY <2>1, <2>2 DEF a
<1>5. CASE Act(t)
  <2>1. At(t, "act") /\ o \in Ops /\ o.op = "act" /\ OpOK(o)
    BY <1>5, HeadFacts DEF Act
  <2>2. o.ev \in Events /\ o.arg \in Nat /\ o.ev <= nev
    BY <2>1, OpTypes DEF EventOps, OpOK
  <2>3. PICK a \in Seq(Ops) : Continue(t, a) /\ \A j \in 1..Len(a) : OpOK(a[j])
    BY <1>5, <1>d, <2>2 DEF Act
  <2>4. \A u \in Threads : \A k \in DOMAIN stack'[u] : OpOK(stack[u][k])'
    BY <1>5, <1>a, <2>1, <2>3 DEF Act
  <2> QED BY <1>5, <2>4 DEF Act, NamesOK, Hard
<1>e. ASSUME NEW n \in {"trig", "abort"}, NEW e \in Events
      PROVE  Fire(n, e) \in Seq(Ops) /\ \A j \in 1..Len(Fire(n, e)) : OpOK(Fire(n, e)[j])
  <2>1. /\ Fire(n, e) \in Seq(Ops) /\ Len(Fire(n, e)) = Len(chain[e])
        /\ DOMAIN chain[e] = 1..Len(chain[e])
        /\ \A k \in 1..Len(chain[e]) :
              /\ chain[e][k][1] \in Events
              /\ Fire(n, e)[k] = Op(n, chain[e][k][1], chain[e][k][2])
    BY FireShape
  <2> QED BY <1>c, <2>1 DEF NamesOK
<1>6. CASE TriggerSelf(t)
  <2>1. At(t, "dec") /\ o \in Ops /\ o.op = "dec" /\ OpOK(o)
    BY <1>6, HeadFacts DEF TriggerSelf
  <2>2. o.ev \in Events
    BY <2>1, OpTypes DEF EventOps
  <2>3. PICK a \in Seq(Ops) : Continue(t, a) /\ \A j \in 1..Len(a) : OpOK(a[j])
    <3>1. Continue(t, << >>) \/ Continue(t, Fire("trig", o.ev))
      BY <1>6 DEF TriggerSelf
    <3> QED BY <1>0, <1>e, <2>2, <3>1
  <2>4. \A u \in Threads : \A k \in DOMAIN stack'[u] : OpOK(stack[u][k])'
    BY <1>6, <1>a, <2>1, <2>3 DEF TriggerSelf
  <2>5. \A x \in Events : \A k \in DOMAIN chain'[x] : chain'[x][k][1] <= nev
    <3>1. \A x \in Events : chain'[x] = chain[x] \/ chain'[x] = << >>
      BY <1>6, <2>2 DEF TriggerSelf, TypeOK
    <3> QED BY <3>1 DEF NamesOK
  <2> QED BY <1>6, <2>4, <2>5 DEF TriggerSelf, NamesOK, Hard
<1>7. CASE Abort(t)
  <2>1. At(t, "abort") /\ o \in Ops /\ o.op = "abort" /\ OpOK(o)
    BY <1>7, HeadFacts DEF Abort
  <2>2. o.ev \in Events /\ o.arg \in Nat /\ o.ev <= nev
    BY <2>1, OpTypes DEF EventOps, OpOK
  <2>3. PICK a \in Seq(Ops) : Continue(t, a) /\ \A j \in 1..Len(a) : OpOK(a[j])
    BY <1>7, <1>d, <2>2 DEF Abort
  <2>4. \A u \in Threads : \A k \in DOMAIN stack'[u] : OpOK(stack[u][k])'
    BY <1>7, <1>a, <2>1, <2>3 DEF Abort
  <2> QED BY <1>7, <2>4 DEF Abort, NamesOK, Hard
<1>8. CASE AbortSelf(t)
  <2>1. At(t, "aself") /\ o \in Ops /\ o.op = "aself" /\ OpOK(o)
    BY <1>8, HeadFacts DEF AbortSelf
  <2>2. o.ev \in Events
    BY <2>1, OpTypes DEF EventOps
  <2>3. PICK a \in Seq(Ops) : Continue(t, a) /\ \A j \in 1..Len(a) : OpOK(a[j])
    BY <1>8, <1>e, <2>2 DEF AbortSelf
  <2>4. \A u \in Threads : \A k \in DOMAIN stack'[u] : OpOK(stack[u][k])'
    BY <1>8, <1>a, <2>1, <2>3 DEF AbortSelf
  <2>5. \A x \in Events : \A k \in DOMAIN chain'[x] : chain'[x][k][1] <= nev
    <3>1. \A x \in Events : chain'[x] = chain[x] \/ chain'[x] = << >>
      BY <1>8, <2>2 DEF AbortSelf, TypeOK
    <3> QED BY <3>1 DEF NamesOK
  <2> QED BY <1>8, <2>4, <2>5 DEF AbortSelf, NamesOK, Hard
<1>9. CASE \/ Wait(t) \/ WaitSignalled(t) \/ WaitEnd(t) \/ WaitFence(t)
           \/ Flush(t) \/ FlushPop(t) \/ Notify(t)
  <2>1. Quiet
    BY <1>9, QuietSteps
  <2>2. published' = published
    BY <1>9 DEF Wait, WaitSignalled, WaitEnd, WaitFence, Flush, FlushPop, Notify
  <2> QED BY <2>1, <2>2, NamesQuiet DEF NamesOK
<1>10. CASE Return(t)
  <2>1. o \in Ops /\ o.op = "ret" /\ OpOK(o)
    BY <1>10, HeadFacts DEF Return
  <2>2. o.ev \in 1..nev
    BY <2>1, OpTypes, EventsAssumption DEF EventOps, OpOK, Events, TypeOK
  <2>3. published' \subseteq 1..nev
    BY <1>10, <2>2 DEF Return, NamesOK
  <2> QED BY <1>10, <2>3, QuietSteps, NamesQuiet
<1> QED BY <1>1, <1>2, <1>3, <1>4, <1>5, <1>6, <1>7, <1>8, <1>9, <1>10 DEF Step


(* An API call names only events and queues that exist, its new event       *)
(* included.                                                                *)
LEMMA NamesCalls ==
  ASSUME TypeOK, TypeOK', NamesOK, FreshOK, NEW t \in Threads, ApiCall(t)
  PROVE  NamesOK'
<1> USE DEF graphVars, deviceVars, identVars
<1>0. stack \in [Threads -> Seq(Ops)] /\ nev \in Nat /\ published \subseteq 1..nev
  BY EventsAssumption DEF TypeOK, NamesOK
<1>a. ASSUME NEW k, NEW q, NEW w, NewEvent(k, q, w), UNCHANGED <<chain, deps, queued>>,
             k \in {"command", "copy", "marker"} => q \in Queues,
             k = "cb" => w \in 1..nev
      PROVE  /\ nev' = nev + 1
             /\ \A e \in Events : \A i \in DOMAIN deps'[e] : deps'[e][i] <= nev'
             /\ \A p \in Queues : \A i \in DOMAIN queued'[p] : queued'[p][i] <= nev'
             /\ \A e \in Events : Hard(e)' => queue'[e] \in Queues
             /\ \A e \in Events : kind'[e] = "cb" => watch'[e] \in 1..nev'
             /\ \A e \in Events : kind'[e] = "user" => deps'[e] = << >>
             /\ \A d \in Events : \A i \in DOMAIN chain'[d] : chain'[d][i][1] <= nev'
             /\ \A o \in Ops : OpOK(o) => OpOK(o)'
  <2>1. nev' = nev + 1 /\ nev + 1 \in Events
    BY <1>0, <1>a, EventsAssumption DEF NewEvent, Events
  <2>2. \A e \in Events : e # nev + 1 =>
          kind'[e] = kind[e] /\ queue'[e] = queue[e] /\ watch'[e] = watch[e]
    BY <1>a DEF NewEvent, TypeOK
  <2>3. kind'[nev + 1] = k /\ queue'[nev + 1] = q /\ watch'[nev + 1] = w
    BY <1>a, <2>1 DEF NewEvent, TypeOK
  <2>4. ASSUME NEW e \in Events, NEW i \in DOMAIN deps'[e]
        PROVE  deps'[e][i] <= nev'
    <3>1. deps[e] \in Seq(Events) /\ i \in DOMAIN deps[e]
      BY <1>a DEF TypeOK
    <3>2. deps[e][i] \in Events /\ deps[e][i] <= nev
      BY <3>1, ElementOfSeq DEF NamesOK
    <3>3. deps[e][i] \in Nat
      BY <3>2 DEF Events
    <3> QED BY <1>0, <1>a, <2>1, <3>2, <3>3
  <2>5. ASSUME NEW p \in Queues, NEW i \in DOMAIN queued'[p]
        PROVE  queued'[p][i] <= nev'
    <3>1. queued[p] \in Seq(Events) /\ i \in DOMAIN queued[p]
      BY <1>a DEF TypeOK
    <3>2. queued[p][i] \in Events /\ queued[p][i] <= nev
      BY <3>1, ElementOfSeq DEF NamesOK
    <3>3. queued[p][i] \in Nat
      BY <3>2 DEF Events
    <3> QED BY <1>0, <1>a, <2>1, <3>2, <3>3
  <2>6. ASSUME NEW d \in Events, NEW i \in DOMAIN chain'[d]
        PROVE  chain'[d][i][1] <= nev'
    <3>1. chain[d] \in Seq(Events \X Nat) /\ i \in DOMAIN chain[d]
      BY <1>a DEF TypeOK
    <3>2. chain[d][i] \in Events \X Nat /\ chain[d][i][1] <= nev
      BY <3>1, ElementOfSeq DEF NamesOK
    <3>3. chain[d][i][1] \in Nat
      BY <3>2 DEF Events
    <3> QED BY <1>0, <1>a, <2>1, <3>2, <3>3
  <2>7. \A e \in Events : Hard(e)' => queue'[e] \in Queues
    BY <1>a, <2>2, <2>3 DEF NamesOK, Hard
  <2>8. \A e \in Events : kind'[e] = "cb" => watch'[e] \in 1..nev'
    BY <1>0, <1>a, <2>1, <2>2, <2>3 DEF NamesOK
  <2>9. \A e \in Events : kind'[e] = "user" => deps'[e] = << >>
    <3>1. deps[nev + 1] = << >>
      BY <1>0, <2>1 DEF FreshOK
    <3> QED BY <1>a, <2>2, <3>1 DEF NamesOK
  <2>10. ASSUME NEW o \in Ops, OpOK(o)
         PROVE  OpOK(o)'
    <3>1. o.ev \in Nat /\ o.arg \in Nat /\ o.ev <= nev /\ o.ev <= nev' /\ o.ev # nev + 1
      BY <1>0, <2>1, <2>10, OpTypes DEF OpOK
    <3>2. o.arg <= nev => o.arg <= nev'
      BY <1>0, <2>1, <3>1
    <3>3. o.op \in {"chain", "seq", "complete", "fail"} => o.ev \in Events
      BY OpTypes DEF EventOps
    <3> QED BY <2>2, <2>10, <3>1, <3>2, <3>3 DEF OpOK, Hard
  <2> QED BY <2>1, <2>4, <2>5, <2>6, <2>7, <2>8, <2>9, <2>10
<1>b. ("user" \in {"command", "copy", "marker"} => 0 \in Queues) /\ ("user" = "cb" => 0 \in 1..nev)
  OBVIOUS
<1>1. CASE ClCreateUserEvent(t)
  <2>1. NewEvent("user", 0, 0) /\ UNCHANGED <<chain, deps, queued, stack>>
        /\ published' = published \cup {nev + 1}
    BY <1>1 DEF ClCreateUserEvent
  <2>2. nev' = nev + 1 /\ \A o \in Ops : OpOK(o) => OpOK(o)'
    BY <1>a, <1>b, <2>1
  <2>3. published' \subseteq 1..nev'
    BY <1>0, <2>1, <2>2
  <2>4. \A u \in Threads : \A k \in DOMAIN stack'[u] : OpOK(stack[u][k])'
    <3>1. \A u \in Threads : \A k \in DOMAIN stack[u] : stack[u][k] \in Ops /\ OpOK(stack[u][k])
      BY <1>0, SeqDomain DEF NamesOK
    <3>2. \A o \in Ops : OpOK(o) =>
            /\ o.ev <= nev'
            /\ o.op = "chain" => o.arg <= nev' /\ kind'[o.ev] # "user"
            /\ o.op = "seq" => kind'[o.ev] \in {"command", "copy", "marker"}
            /\ o.op \in {"complete", "fail"} => kind'[o.ev] = "user" /\ o.arg = 0
      BY <2>2 DEF OpOK, Hard
    <3> QED BY <2>1, <3>1, <3>2 DEF OpOK, Hard
  <2> QED BY <1>a, <1>b, <2>1, <2>3, <2>4 DEF NamesOK
<1>2. ASSUME NEW e \in published, NEW how \in {"complete", "fail"},
             ClSetUserEventStatus(t, e, how)
      PROVE  NamesOK'
  <2>1. e <= nev /\ kind[e] = "user" /\ UNCHANGED <<nev, kind>>
        /\ stack[t] = << >> /\ stack' = [stack EXCEPT ![t] = <<Op(how, e, 0)>>]
    BY <1>0, <1>2 DEF ClSetUserEventStatus, Call
  <2>2. OpOK(Op(how, e, 0))
    BY <2>1, OpIsOp DEF OpOK, Hard
  <2>3. \A u \in Threads : \A k \in DOMAIN stack'[u] : OpOK(stack'[u][k])
    BY <1>0, <2>1, <2>2 DEF NamesOK
  <2>4. \A u \in Threads : \A k \in DOMAIN stack'[u] : OpOK(stack[u][k])'
    BY <2>1, <2>3 DEF OpOK, Hard
  <2> QED BY <1>2, <2>4 DEF ClSetUserEventStatus, NamesOK, Hard
<1>3. ASSUME NEW k, NEW q, NEW w, NEW body, Construct(t, k, q, w, body)
      PROVE  NamesOK'
  <2>1. NewEvent(k, q, w) /\ UNCHANGED <<chain, deps, queued, published>> /\ k # "user"
        /\ stack[t] = << >> /\ stack' = [stack EXCEPT ![t] = body] /\ body \in Seq(Ops)
    BY <1>3 DEF Construct
  <2>2. (k \in {"command", "copy", "marker"} => q \in Queues) /\ (k = "cb" => w \in 1..nev)
    BY <1>0, <1>3 DEF Construct
  <2>3. nev' = nev + 1 /\ \A o \in Ops : OpOK(o) => OpOK(o)'
    BY <1>a, <1>b, <2>1, <2>2
  <2>4. published' \subseteq 1..nev'
    BY <1>0, <2>1, <2>3
  <2>5. nev + 1 \in Events /\ kind'[nev + 1] = k
    BY <1>0, <2>1, EventsAssumption DEF NewEvent, Events, TypeOK
  <2>6. ASSUME NEW j \in 1..Len(body)
        PROVE  OpOK(body[j])'
    <3>1. body[j].ev = nev + 1
          /\ (\/ body[j] = Op("trig", nev + 1, 0)
              \/ body[j].op = "chain" /\ body[j].arg \in published
              \/ body[j].op = "seq" /\ k \in {"command", "copy", "marker"}
              \/ body[j].op \in {"wsig", "wait", "ret"})
      BY <1>3 DEF Construct, CtorBody
    <3>2. body[j].op = "chain" => body[j].arg <= nev' /\ kind'[body[j].ev] # "user"
      <4>1. body[j].op = "chain" => body[j].arg \in published
        BY <3>1, OpIsOp
      <4>2. \A d \in published : d <= nev'
        BY <1>0, <2>3
      <4> QED BY <2>1, <2>5, <3>1, <4>1, <4>2
    <3>3. body[j].op = "seq" => kind'[body[j].ev] \in {"command", "copy", "marker"}
      BY <2>5, <3>1, OpIsOp
    <3>4. body[j].op \notin {"complete", "fail"}
      BY <3>1, OpIsOp
    <3>5. body[j].ev <= nev'
      BY <1>0, <2>3, <3>1
    <3> QED BY <2>1, <3>2, <3>3, <3>4, <3>5 DEF OpOK, Hard
  <2>7. \A u \in Threads : \A j \in DOMAIN stack'[u] : OpOK(stack[u][j])'
    <3>1. stack'[t] = body /\ \A u \in Threads : u # t => stack'[u] = stack[u]
      BY <1>0, <2>1
    <3>2. \A u \in Threads : \A j \in DOMAIN stack[u] : stack[u][j] \in Ops /\ OpOK(stack[u][j])
      BY <1>0, SeqDomain DEF NamesOK
    <3>3. ASSUME NEW u \in Threads, NEW j \in DOMAIN stack'[u]
          PROVE  OpOK(stack[u][j])'
      <4>1. CASE u = t
        <5>1. j \in 1..Len(body) /\ stack'[u][j] = body[j]
          BY <2>1, <3>1, <4>1
        <5> QED BY <2>6, <5>1 DEF OpOK, Hard
      <4>2. CASE u # t
        <5>1. stack'[u][j] \in Ops /\ OpOK(stack'[u][j])
          BY <3>1, <3>2, <4>2
        <5>2. \A o \in Ops : OpOK(o) =>
                /\ o.ev <= nev'
                /\ o.op = "chain" => o.arg <= nev' /\ kind'[o.ev] # "user"
                /\ o.op = "seq" => kind'[o.ev] \in {"command", "copy", "marker"}
                /\ o.op \in {"complete", "fail"} => kind'[o.ev] = "user" /\ o.arg = 0
          BY <2>3 DEF OpOK, Hard
        <5> QED BY <5>1, <5>2 DEF OpOK, Hard
      <4> QED BY <4>1, <4>2
    <3> QED BY <3>3
  <2> QED BY <1>a, <1>b, <2>1, <2>2, <2>4, <2>7 DEF NamesOK
<1>4. ASSUME NEW q \in Queues, ClFlush(t, q)
      PROVE  NamesOK'
  <2>1. Quiet /\ published' = published
    BY <1>4, QuietSteps DEF ClFlush
  <2> QED BY <1>0, <2>1, NamesQuiet
<1>5. CASE \/ EnqueueCall(t)
           \/ \E q \in Queues : ClFinish(t, q)
           \/ \E ds \in WaitLists : ClWaitForEvents(t, ds)
           \/ \E w \in published : ClSetEventCallback(t, w)
  <2>1. \E k, q, w, body : Construct(t, k, q, w, body)
    BY <1>5, ConstructCalls
  <2> QED BY <1>3, <2>1
<1> QED BY <1>1, <1>2, <1>4, <1>5 DEF ApiCall


(* A step of a running call touches the wait state of one event only, the   *)
(* one its first operation names.                                           *)
LEMMA StepIsLocal ==
  ASSUME TypeOK, NamesOK, NEW t \in Threads, Step(t), NEW e \in Events, e # Head(stack[t]).ev
  PROVE  /\ waitCount'[e] = waitCount[e] /\ owed'[e] = owed[e] /\ deps'[e] = deps[e]
         /\ status'[e] = status[e] /\ started'[e] = started[e]
<1> USE DEF graphVars, deviceVars, identVars
<1>1. ASSUME NEW d, ChainTo(d, Head(stack[t]).ev)
      PROVE  waitCount'[e] = waitCount[e] /\ owed'[e] = owed[e] /\ deps'[e] = deps[e]
  BY <1>1 DEF ChainTo, TypeOK
<1>2. CASE Chain(t)
  BY <1>1, <1>2 DEF Chain
<1>3. CASE Sequence(t)
  BY <1>1, <1>3 DEF Sequence
<1>4. CASE Act(t)
  BY <1>4 DEF Act, TypeOK
<1>5. CASE TriggerSelf(t)
  BY <1>5 DEF TriggerSelf, TypeOK
<1>6. CASE AbortSelf(t)
  BY <1>6 DEF AbortSelf, TypeOK
<1>7. CASE SetStatus(t) \/ Trigger(t) \/ Abort(t)
  BY <1>7 DEF SetStatus, Trigger, Abort
<1>8. CASE \/ Wait(t) \/ WaitSignalled(t) \/ WaitEnd(t) \/ WaitFence(t)
           \/ Flush(t) \/ FlushPop(t) \/ Notify(t) \/ Return(t)
  BY <1>8, QuietSteps DEF Quiet
<1> QED BY <1>2, <1>3, <1>4, <1>5, <1>6, <1>7, <1>8 DEF Step

(* A step of a running call constructs no event.                            *)
LEMMA StepConstructsNone ==
  ASSUME NEW t \in Threads, Step(t)
  PROVE  /\ UNCHANGED <<nev, kind, queue, watch>>
         /\ stack[t] # << >> /\ \E n : At(t, n)
  BY DEF Step, Chain, Sequence, SetStatus, Trigger, Act, TriggerSelf, Abort, AbortSelf, Wait,
         WaitSignalled, WaitEnd, WaitFence, Flush, FlushPop, Notify, Return, At, identVars

(* An event that has not been constructed stays as its constructor expects  *)
(* it.                                                                      *)
LEMMA FreshNext ==
  ASSUME TypeOK, NamesOK, FreshOK, [Next]_vars
  PROVE  FreshOK'
<1> USE DEF graphVars, deviceVars, identVars
<1>1. ASSUME NEW t \in Threads, Step(t)
      PROVE  FreshOK'
  <2>1. UNCHANGED nev /\ Head(stack[t]).ev <= nev /\ Head(stack[t]).ev \in Nat /\ nev \in Nat
    <3>1. UNCHANGED nev /\ \E n : At(t, n)
      BY <1>1, StepConstructsNone
    <3>2. Head(stack[t]) \in Ops /\ OpOK(Head(stack[t]))
      BY <3>1, HeadFacts
    <3>3. Head(stack[t]).ev <= nev /\ Head(stack[t]).ev \in Nat
      BY <3>2, OpTypes DEF OpOK
    <3>4. nev \in Nat
      BY EventsAssumption DEF TypeOK
    <3> QED BY <3>1, <3>3, <3>4
  <2>2. ASSUME NEW e \in Events, e > nev
        PROVE  e # Head(stack[t]).ev
    <3>1. ~(e <= nev)
      BY <2>1, <2>2 DEF Events
    <3> QED BY <2>1, <3>1
  <2> QED BY <1>1, <2>1, <2>2, StepIsLocal DEF FreshOK
<1>2. ASSUME NEW k, NEW q, NEW w, NewEvent(k, q, w), UNCHANGED <<deps, status, started>>
      PROVE  FreshOK'
  <2>1. nev \in Nat /\ nev' = nev + 1
    BY <1>2, EventsAssumption DEF NewEvent, TypeOK
  <2>2. ASSUME NEW e \in Events, e > nev'
        PROVE  e > nev /\ waitCount'[e] = waitCount[e] /\ owed'[e] = owed[e]
    <3>1. e > nev /\ e # nev + 1
      BY <2>1, <2>2 DEF Events
    <3> QED BY <1>2, <3>1 DEF NewEvent, TypeOK
  <2> QED BY <1>2, <2>2 DEF FreshOK
<1>3. ASSUME NEW t \in Threads, ApiCall(t)
      PROVE  FreshOK'
  <2>1. CASE ClCreateUserEvent(t)
    BY <1>2, <2>1 DEF ClCreateUserEvent
  <2>2. CASE \/ EnqueueCall(t)
             \/ \E q \in Queues : ClFinish(t, q)
             \/ \E ds \in WaitLists : ClWaitForEvents(t, ds)
             \/ \E w \in published : ClSetEventCallback(t, w)
    <3>1. \E k, q, w, body : Construct(t, k, q, w, body)
      BY <2>2, ConstructCalls
    <3> QED BY <1>2, <3>1 DEF Construct
  <2>3. CASE \/ \E e \in published, how \in {"complete", "fail"} : ClSetUserEventStatus(t, e, how)
             \/ \E q \in Queues : ClFlush(t, q)
    BY <2>3 DEF ClSetUserEventStatus, ClFlush, FreshOK
  <2> QED BY <1>3, <2>1, <2>2, <2>3 DEF ApiCall
<1>4. ASSUME NEW e \in Events, DeviceFinish(e)
      PROVE  FreshOK'
  BY <1>4 DEF DeviceFinish, FreshOK
<1>5. CASE UNCHANGED vars
  BY <1>5 DEF vars, FreshOK
<1> QED BY <1>1, <1>3, <1>4, <1>5 DEF Next

(* No step makes anything name an event or a queue that does not exist.     *)
LEMMA NamesNext ==
  ASSUME TypeOK, TypeOK', NamesOK, FreshOK, [Next]_vars
  PROVE  NamesOK'
<1>1. ASSUME NEW e \in Events, DeviceFinish(e)
      PROVE  NamesOK'
  <2>1. Quiet /\ published' = published
    BY <1>1 DEF DeviceFinish, Quiet, QuietStack, QuietQueues, graphVars, identVars
  <2> QED BY <2>1, NamesQuiet DEF NamesOK
<1>2. CASE UNCHANGED vars
  <2>1. Quiet /\ published' = published
    BY <1>2 DEF vars, Quiet, QuietStack, QuietQueues, graphVars, identVars, deviceVars
  <2> QED BY <2>1, NamesQuiet DEF NamesOK
<1> QED BY <1>1, <1>2, NamesSteps, NamesCalls DEF Next

(* The initial states are typed and name nothing.                           *)
LEMMA InitNames ==
  ASSUME Init
  PROVE  TypeOK /\ NamesOK /\ FreshOK
<1>1. TypeOK
  <2>1. 0 \in 0..MaxEvents /\ {0} \in SUBSET (0..MaxEvents) /\ 0 \in 0..NumQueues
        /\ "none" \in Kinds
    BY EventsAssumption DEF Kinds
  <2> QED BY <2>1 DEF Init, TypeOK, NoFence
<1>2. NamesOK
  BY DEF Init, NamesOK, Hard
<1>3. FreshOK
  BY DEF Init, FreshOK
<1> QED BY <1>1, <1>2, <1>3

(* Type correctness: every variable keeps its type, whatever the            *)
(* application calls, however many threads call and even when it completes  *)
(* one user event twice.                                                    *)
THEOREM TypeCorrect == Spec => []TypeOK
<1>1. Init => TypeOK /\ NamesOK /\ FreshOK
  BY InitNames
<1>2. TypeOK /\ NamesOK /\ FreshOK /\ [Next]_vars => TypeOK' /\ NamesOK' /\ FreshOK'
  BY TypeNext, NamesNext, FreshNext
<1> QED BY <1>1, <1>2, PTL DEF Spec
=============================================================================
