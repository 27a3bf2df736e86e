------------------------ MODULE CloverProgramsProofs ------------------------
(***************************************************************************)
(* What clEnqueueNDRangeKernel has checked still holds when the command    *)
(* launches, what clBuildProgram reports as built is there, and a failure  *)
(* forgets the executable: LaunchStillValid, BuildCoversDevices and        *)
(* FailureForgetsExecutable hold for any number of threads, devices,       *)
(* options and kernels.                                                    *)
(*                                                                         *)
(* None of the three is inductive.  The first needs that no build or       *)
(* compile call is under way while a kernel is alive, which is what the    *)
(* test of kernel_ref_count and the absence of a race give together; the   *)
(* second needs to know, in each loop and for each device, what the loops  *)
(* before it have left in the table; and both histories need that the call *)
(* under way does not name the devices they talk about.                    *)
(***************************************************************************)
EXTENDS CloverPrograms, FiniteSetTheorems, WellFoundedInduction, TLAPS

KernelType == kernel \in [Kernels -> [live : BOOLEAN, args : Nat, set : SUBSET Nat]]

(* A call is in a loop over devices that it was given.                     *)
CallsOK ==
  \A t \in Threads :
    LET c == call[t]
    IN /\ c.pc # "idle" => c.opts \in Opts
       /\ c.todo \subseteq c.devs
       /\ c.pc \in {"link", "bridge"} => c.link

(* One call at a time, and none while a kernel is alive.                   *)
OneCall ==
  ~raced =>
    /\ \A t, u \in Threads : call[t].pc # "idle" /\ call[u].pc # "idle" => t = u
    /\ \A t \in Threads, k \in Kernels : call[t].pc # "idle" => ~kernel[k].live

(* The kernels agree with the executables on the number of arguments.      *)
ArgsAgree ==
  ~raced /\ ~mixed =>
    \A k \in Kernels, d \in Devices :
      kernel[k].live /\ Executable(d) => builds[d].args = kernel[k].args

(* A command's kernel is alive and has its arguments, its device a build.  *)
LaunchesOK ==
  ~raced /\ ~dropped =>
    \A l \in launches :
      /\ kernel[l.kern].live /\ kernel[l.kern].set = 1..kernel[l.kern].args
      /\ Executable(l.dev)

(* What the loops have made of a device so far.                            *)
Made(t, d, bin) ==
  HasBuild(d) /\ builds[d].bin = bin /\ builds[d].args = NumArgs[d][call[t].opts]

(* What compile makes for a device.                                        *)
Object(d) == IF d \in Tgsi THEN "exec" ELSE "object"

ProgressAt(t, d) ==
  LET c == call[t]
  IN /\ c.pc = "compile" /\ d \notin Bridge /\ d \notin c.todo => Made(t, d, Object(d))
     /\ c.pc = "link" /\ d \notin Bridge /\ d \in c.todo => Made(t, d, Object(d))
     /\ c.pc = "link" /\ d \notin Bridge /\ d \notin c.todo => Made(t, d, "exec")
     /\ c.pc = "bridge" /\ (d \notin Bridge \/ d \notin c.todo) => Made(t, d, "exec")

Progress == ~raced => \A t \in Threads : \A d \in call[t].devs : ProgressAt(t, d)

(* The call under way names the device.                                    *)
Named(d) == \E t \in Threads : call[t].pc # "idle" /\ d \in call[t].devs

FinishedOK ==
  ~raced => \A d \in Devices : finished[d] # NoOpts =>
    Executable(d) /\ builds[d].args = NumArgs[d][finished[d]] /\ ~Named(d)

FailedOK ==
  ~raced => \A d \in failed : ~Named(d) /\ (Executable(d) => d \in Bridge /\ builds[d].log)

(* The inductive invariant.                                                *)
IInv ==
  /\ TypeOK /\ KernelType /\ CallsOK /\ OneCall /\ ArgsAgree
  /\ LaunchesOK /\ Progress /\ FinishedOK /\ FailedOK


(***************************************************************************)
(* Lemmas                                                                  *)
(***************************************************************************)

(* A set of numbers that is not empty has a smallest element, which Min    *)
(* returns.                                                                *)
LEMMA MinOfSet ==
  ASSUME NEW S, S \subseteq Nat, S # {}
  PROVE  Min(S) \in S
<1>1. IsWellFoundedOn({ss \in Nat \X Nat : ss[1] < ss[2]}, Nat)
  BY NatLessThanWellFounded DEF OpToRel
<1>2. PICK x \in S : \A y \in S : ~(<<y, x>> \in {ss \in Nat \X Nat : ss[1] < ss[2]})
  BY <1>1, WFMin
<1>3. ASSUME NEW y \in S  PROVE x <= y
  <2>1. <<y, x>> \in Nat \X Nat /\ <<y, x>>[1] = y /\ <<y, x>>[2] = x
    OBVIOUS
  <2>2. ~(y < x)
    BY <1>2, <2>1
  <2> QED BY <2>2
<1> QED BY <1>3 DEF Min

(* The number of arguments of a kernel.                                    *)
LEMMA ArgsAreNat ==
  ASSUME NEW d \in Devices, NEW o \in Opts
  PROVE  NumArgs[d][o] \in Nat
BY ProgramAssumption

(* kernel_ref_count is 0 when no kernel is alive, and only then.           *)
LEMMA NoKernelAlive ==
  ASSUME kernel_ref_count = 0, NEW k \in Kernels
  PROVE  ~kernel[k].live
<1>1. IsFiniteSet({j \in Kernels : kernel[j].live})
  BY ProgramAssumption, FS_Subset
<1> QED BY <1>1, FS_EmptySet DEF kernel_ref_count

(***************************************************************************)
(* The invariant holds initially.                                          *)
(***************************************************************************)
LEMMA InitIInv ==
  ASSUME Init
  PROVE  IInv
<1> USE ProgramAssumption DEF Init, IdleCall, Deleted
<1>1. TypeOK
  <2>1. DOMAIN builds = {}
    OBVIOUS
  <2>2. call \in [Threads -> [pc : {"idle", "compile", "link", "bridge"}, link : BOOLEAN,
                           devs : SUBSET Devices, todo : SUBSET Devices, opts : Opts \cup {NoOpts}]]
    OBVIOUS
  <2>3. \A k \in Kernels : kernel[k] \in [live : BOOLEAN, args : Nat, set : SUBSET (1..kernel[k].args)]
    OBVIOUS
  <2>4. finished \in [Devices -> Opts \cup {NoOpts}] /\ calls \in 0..MaxBuilds
    OBVIOUS
  <2> QED BY <2>1, <2>2, <2>3, <2>4 DEF TypeOK
<1>2. KernelType /\ CallsOK /\ OneCall
  BY DEF KernelType, CallsOK, OneCall
<1>3. ArgsAgree /\ LaunchesOK /\ Progress
  BY DEF ArgsAgree, LaunchesOK, Progress
<1>4. FinishedOK /\ FailedOK
  BY DEF FinishedOK, FailedOK
<1> QED BY <1>1, <1>2, <1>3, <1>4 DEF IInv

(***************************************************************************)
(* Every step preserves it: the calls that build.                          *)
(***************************************************************************)
LEMMA BeginCallIInv ==
  ASSUME IInv, NEW t \in Threads, NEW devs \in SUBSET Devices, NEW opts \in Opts,
         NEW link \in BOOLEAN, BeginCall(t, devs, opts, link)
  PROVE  IInv'
<1> USE ProgramAssumption DEF IInv, BeginCall
<1>0. /\ call \in [Threads -> [pc : {"idle", "compile", "link", "bridge"}, link : BOOLEAN,
                           devs : SUBSET Devices, todo : SUBSET Devices, opts : Opts \cup {NoOpts}]]
      /\ raced \in BOOLEAN /\ (~raced' => ~raced)
  BY DEF TypeOK
<1>1. \A k \in Kernels : ~kernel[k].live
  BY NoKernelAlive
<1>2. /\ call'[t] = [pc |-> "compile", link |-> link, devs |-> devs, todo |-> devs, opts |-> opts]
      /\ \A u \in Threads : u # t => call'[u] = call[u]
  BY <1>0
<1>3. ~raced' => \A u \in Threads : call[u].pc = "idle"
  BY <1>0 DEF Building
<1>4. TypeOK'
  BY <1>0 DEF TypeOK
<1>5. KernelType' /\ CallsOK'
  BY <1>0, <1>2 DEF KernelType, CallsOK
<1>6. OneCall'
  BY <1>1, <1>2, <1>3 DEF OneCall
<1>7. ArgsAgree' /\ LaunchesOK'
  BY <1>0, <1>1 DEF ArgsAgree, LaunchesOK, Executable, HasBuild
<1>8. Progress'
  BY <1>2, <1>3 DEF Progress, ProgressAt
<1>9. \A d \in Devices : ~raced' => (Named(d)' <=> d \in devs)
  BY <1>2, <1>3 DEF Named
<1>10. FinishedOK'
  BY <1>0, <1>9 DEF FinishedOK, Executable, HasBuild
<1>11. FailedOK'
  <2>1. failed \subseteq Devices
    BY DEF TypeOK
  <2> QED BY <1>0, <1>9, <2>1 DEF FailedOK, Executable, HasBuild
<1> QED BY <1>4, <1>5, <1>6, <1>7, <1>8, <1>10, <1>11

(* What a step of a build leaves alone.                                    *)
BuildFrame == UNCHANGED <<kernel, launches, calls, finished, raced, mixed, dropped>>

(* The build of another device stays as it is.                             *)
OnlyBuild(d) ==
  /\ DOMAIN builds' \subseteq DOMAIN builds \cup {d}
  /\ \A e \in Devices :
       e # d => (HasBuild(e)' <=> HasBuild(e)) /\ (HasBuild(e) => builds'[e] = builds[e])
  /\ \A e \in DOMAIN builds' : builds'[e] \in Build

LEMMA BuildKept ==
  ASSUME NEW d, NEW e \in Devices, e # d, OnlyBuild(d)
  PROVE  /\ Executable(e)' <=> Executable(e)
         /\ HasBuild(e)' <=> HasBuild(e)
         /\ HasBuild(e) => builds'[e] = builds[e]
<1>1. /\ HasBuild(e)' <=> HasBuild(e)
      /\ HasBuild(e) => builds'[e] = builds[e]
  BY DEF OnlyBuild
<1> QED BY <1>1 DEF Executable

(* What holds of a build call because no kernel is alive.                  *)
LEMMA NothingToLaunch ==
  ASSUME IInv, NEW t \in Threads, call[t].pc # "idle", BuildFrame
  PROVE  ArgsAgree' /\ LaunchesOK'
<1>1. ~raced => \A k \in Kernels : ~kernel[k].live
  BY DEF IInv, OneCall
<1>2. ~raced /\ ~dropped => launches = {}
  BY <1>1 DEF IInv, LaunchesOK, TypeOK
<1> QED BY <1>1, <1>2 DEF BuildFrame, ArgsAgree, LaunchesOK

(* A device is done, and the loop goes on.                                 *)
LEMMA AdvanceIInv ==
  ASSUME IInv, NEW t \in Threads, call[t].pc # "idle", NEW d \in call[t].todo,
         Advance(t, d), BuildFrame, OnlyBuild(d),
         ~raced => ProgressAt(t, d)'
  PROVE  IInv'
<1> USE ProgramAssumption DEF IInv, Advance, BuildFrame
<1>0. /\ call \in [Threads -> [pc : {"idle", "compile", "link", "bridge"}, link : BOOLEAN,
                           devs : SUBSET Devices, todo : SUBSET Devices, opts : Opts \cup {NoOpts}]]
      /\ d \in call[t].todo /\ d \in Devices
  BY DEF TypeOK
<1>1. /\ call'[t] = [call[t] EXCEPT !.todo = @ \ {d}]
      /\ \A u \in Threads : u # t => call'[u] = call[u]
  BY <1>0
<1>2. /\ \A u \in Threads : /\ call'[u].pc = call[u].pc /\ call'[u].devs = call[u].devs
                            /\ call'[u].opts = call[u].opts /\ call'[u].link = call[u].link
      /\ call'[t].todo = call[t].todo \ {d}
      /\ d \in call[t].devs
  BY <1>0, <1>1 DEF CallsOK
<1>3. TypeOK'
  <2>1. call' \in [Threads -> [pc : {"idle", "compile", "link", "bridge"}, link : BOOLEAN,
                           devs : SUBSET Devices, todo : SUBSET Devices, opts : Opts \cup {NoOpts}]]
    BY <1>0
  <2> QED BY <1>0, <2>1 DEF TypeOK, OnlyBuild
<1>4. KernelType' /\ CallsOK' /\ OneCall'
  BY <1>0, <1>1, <1>2 DEF KernelType, CallsOK, OneCall
<1>5. ArgsAgree' /\ LaunchesOK'
  BY NothingToLaunch
<1>6. Progress'
  <2>1. SUFFICES ASSUME ~raced, NEW u \in Threads, NEW e \in call'[u].devs
                 PROVE  ProgressAt(u, e)'
    BY DEF Progress
  <2>2. CASE u # t
    BY <1>2, <2>1, <2>2 DEF OneCall, ProgressAt
  <2>3. CASE u = t /\ e = d
    BY <2>1, <2>3
  <2>4. CASE u = t /\ e # d
    <3>1. e \in call[t].devs /\ ProgressAt(t, e) /\ e \in Devices
      BY <1>0, <1>2, <2>1, <2>4 DEF Progress
    <3>2. e \in call'[t].todo <=> e \in call[t].todo
      BY <1>2, <2>4
    <3>3. \A bin : Made(t, e, bin) => Made(t, e, bin)'
      BY <1>2, <2>4, <3>1, BuildKept DEF Made
    <3> QED BY <1>2, <2>4, <3>1, <3>2, <3>3 DEF ProgressAt
  <2> QED BY <2>2, <2>3, <2>4
<1>7. \A e : Named(e)' <=> Named(e)
  BY <1>2 DEF Named
<1>8. Named(d)
  BY <1>2 DEF Named
<1>9. FinishedOK'
  <2>1. \A e \in Devices : Executable(e) => HasBuild(e)
    BY DEF Executable
  <2>2. ~raced => finished[d] = NoOpts
    BY <1>0, <1>8 DEF FinishedOK
  <2> QED BY <1>0, <1>7, <1>8, <2>1, <2>2, BuildKept DEF FinishedOK
<1>10. FailedOK'
  <2>1. failed \subseteq Devices
    BY DEF TypeOK
  <2> QED BY <1>7, <1>8, <2>1 DEF FailedOK, OnlyBuild, Executable, HasBuild
<1> QED BY <1>3, <1>4, <1>5, <1>6, <1>9, <1>10

(* A device fails, and the call returns.                                   *)
LEMMA ThrowIInv ==
  ASSUME IInv, NEW t \in Threads, call[t].pc # "idle", NEW d \in call[t].todo,
         Throw(t, d), BuildFrame, OnlyBuild(d),
         Executable(d)' => d \in Bridge /\ builds'[d].log
  PROVE  IInv'
<1> USE ProgramAssumption DEF IInv, Throw, BuildFrame
<1>0. /\ call \in [Threads -> [pc : {"idle", "compile", "link", "bridge"}, link : BOOLEAN,
                           devs : SUBSET Devices, todo : SUBSET Devices, opts : Opts \cup {NoOpts}]]
      /\ d \in call[t].todo /\ d \in Devices /\ d \in call[t].devs
  BY DEF TypeOK, CallsOK
<1>1. /\ call'[t] = IdleCall
      /\ \A u \in Threads : u # t => call'[u] = call[u]
  BY <1>0
<1>2. TypeOK'
  <2>1. call' \in [Threads -> [pc : {"idle", "compile", "link", "bridge"}, link : BOOLEAN,
                           devs : SUBSET Devices, todo : SUBSET Devices, opts : Opts \cup {NoOpts}]]
    BY <1>0 DEF IdleCall
  <2> QED BY <1>0, <2>1 DEF TypeOK, OnlyBuild
<1>3. KernelType' /\ CallsOK' /\ OneCall'
  BY <1>0, <1>1 DEF KernelType, CallsOK, OneCall, IdleCall
<1>4. ArgsAgree' /\ LaunchesOK'
  BY NothingToLaunch
<1>5. ~raced => \A u \in Threads : call'[u].pc = "idle"
  BY <1>1 DEF OneCall, IdleCall
<1>6. Progress'
  BY <1>5 DEF Progress, ProgressAt
<1>7. ~raced => \A e : ~Named(e)'
  BY <1>5 DEF Named
<1>8. Named(d)
  BY <1>0 DEF Named
<1>9. FinishedOK'
  <2>1. \A e \in Devices : Executable(e) => HasBuild(e)
    BY DEF Executable
  <2>2. ~raced => finished[d] = NoOpts
    BY <1>0, <1>8 DEF FinishedOK
  <2> QED BY <1>0, <1>7, <1>8, <2>1, <2>2, BuildKept DEF FinishedOK
<1>10. FailedOK'
  <2>1. failed \subseteq Devices
    BY DEF TypeOK
  <2> QED BY <1>7, <2>1 DEF FailedOK, OnlyBuild, Executable, HasBuild
<1> QED BY <1>2, <1>3, <1>4, <1>6, <1>9, <1>10


(* A new build for a device is the only change to the table.               *)
LEMMA SetBuildOnly ==
  ASSUME TypeOK, NEW d \in Devices, NEW b \in Build, SetBuild(d, b)
  PROVE  OnlyBuild(d) /\ HasBuild(d)' /\ builds'[d] = b
BY DEF TypeOK, SetBuild, OnlyBuild, HasBuild

LEMMA SameBuildsOnly ==
  ASSUME TypeOK, NEW d \in Devices, UNCHANGED builds
  PROVE  OnlyBuild(d)
BY DEF TypeOK, OnlyBuild, HasBuild

(* What a record of call has when its loop is at device d.                 *)
LEMMA InLoopFacts ==
  ASSUME IInv, NEW t \in Threads, NEW d, NEW pc, pc \in {"compile", "link", "bridge"}, InLoop(t, d, pc)
  PROVE  /\ call[t].pc = pc /\ call[t].pc # "idle"
         /\ d \in Devices /\ d \in call[t].todo /\ d \in call[t].devs
         /\ call[t].opts \in Opts /\ NumArgs[d][call[t].opts] \in Nat
<1>1. call[t].pc = pc /\ call[t].pc # "idle" /\ d \in call[t].todo
  BY DEF InLoop
<1>2. d \in Devices
  BY <1>1 DEF IInv, TypeOK
<1>3. d \in call[t].devs /\ call[t].opts \in Opts
  BY <1>1 DEF IInv, CallsOK
<1> QED BY <1>1, <1>2, <1>3, ArgsAreNat

(* What Advance does to the call.                                          *)
LEMMA AdvanceFacts ==
  ASSUME TypeOK, NEW t \in Threads, NEW d, Advance(t, d)
  PROVE  /\ call'[t].pc = call[t].pc /\ call'[t].opts = call[t].opts
         /\ call'[t].todo = call[t].todo \ {d}
BY DEF TypeOK, Advance

LEMMA SkipIInv ==
  ASSUME IInv, NEW t \in Threads, NEW d, NEW pc, NEW devs, Skip(t, d, pc, devs),
         \/ pc \in {"compile", "link"} /\ devs = Bridge
         \/ pc = "bridge" /\ devs = Devices \ Bridge
  PROVE  IInv'
<1>1. /\ InLoop(t, d, pc) /\ d \in devs /\ Advance(t, d) /\ BuildFrame /\ UNCHANGED builds /\ TypeOK
      /\ pc \in {"compile", "link", "bridge"}
  BY DEF Skip, BuildFrame, IInv
<1>2. /\ call[t].pc = pc /\ call[t].pc # "idle"
      /\ d \in Devices /\ d \in call[t].todo /\ d \in call[t].devs
  BY <1>1, InLoopFacts
<1>3. OnlyBuild(d)
  BY <1>1, <1>2, SameBuildsOnly
<1>4. call'[t].pc = call[t].pc /\ call'[t].opts = call[t].opts
  BY <1>1, AdvanceFacts
<1>5. ~raced => ProgressAt(t, d)'
  <2>1. ~raced => ProgressAt(t, d)
    BY <1>2 DEF IInv, Progress
  <2> QED BY <1>1, <1>2, <1>4, <2>1 DEF ProgressAt, Made, HasBuild
<1> QED BY <1>1, <1>2, <1>3, <1>5, AdvanceIInv

(* A build that failed.                                                    *)
LEMMA FailIInv ==
  ASSUME IInv, NEW t \in Threads, NEW d \in Devices, call[t].pc # "idle", d \in call[t].todo,
         NEW log \in BOOLEAN, SetBuild(d, Failed(log)), Throw(t, d), BuildFrame
  PROVE  IInv'
<1>1. Failed(log) \in Build /\ Failed(log).bin # "exec" /\ TypeOK
  BY DEF Build, Failed, IInv
<1>2. OnlyBuild(d) /\ builds'[d] = Failed(log)
  BY <1>1, SetBuildOnly
<1>3. ~Executable(d)'
  BY <1>1, <1>2 DEF Executable
<1> QED BY <1>2, <1>3, ThrowIInv

LEMMA CompileIInv ==
  ASSUME IInv, NEW t \in Threads, NEW d, CompileDevice(t, d)
  PROVE  IInv'
<1>1. InLoop(t, d, "compile") /\ d \notin Bridge /\ BuildFrame /\ TypeOK
  BY DEF CompileDevice, BuildFrame, IInv
<1>2. /\ call[t].pc = "compile" /\ d \in Devices /\ d \in call[t].todo
      /\ NumArgs[d][call[t].opts] \in Nat
  BY <1>1, InLoopFacts
<1>3. PICK log \in BOOLEAN :
        \/ SetBuild(d, Compiled(d, call[t].opts, log)) /\ Advance(t, d)
        \/ SetBuild(d, Failed(log)) /\ Throw(t, d)
  BY DEF CompileDevice
<1>4. CASE SetBuild(d, Compiled(d, call[t].opts, log)) /\ Advance(t, d)
  <2>1. PICK b : b = Compiled(d, call[t].opts, log)
    OBVIOUS
  <2>2. b \in Build /\ b.bin = Object(d) /\ b.args = NumArgs[d][call[t].opts]
    BY <1>2, <2>1 DEF Build, Compiled, Object
  <2>3. OnlyBuild(d) /\ HasBuild(d)' /\ builds'[d] = b
    BY <1>1, <1>2, <1>4, <2>1, <2>2, SetBuildOnly
  <2>4. call'[t].pc = call[t].pc /\ call'[t].opts = call[t].opts
    BY <1>1, <1>4, AdvanceFacts
  <2>5. ProgressAt(t, d)'
    BY <1>2, <2>2, <2>3, <2>4 DEF ProgressAt, Made
  <2> QED BY <1>1, <1>2, <1>4, <2>3, <2>5, AdvanceIInv
<1>5. CASE SetBuild(d, Failed(log)) /\ Throw(t, d)
  BY <1>1, <1>2, <1>5, FailIInv
<1> QED BY <1>3, <1>4, <1>5

LEMMA LinkIInv ==
  ASSUME IInv, NEW t \in Threads, NEW d, LinkDevice(t, d)
  PROVE  IInv'
<1>1. InLoop(t, d, "link") /\ d \notin Bridge /\ BuildFrame /\ TypeOK
  BY DEF LinkDevice, BuildFrame, IInv
<1>2. /\ call[t].pc = "link" /\ d \in Devices /\ d \in call[t].todo /\ d \in call[t].devs
      /\ NumArgs[d][call[t].opts] \in Nat
  BY <1>1, InLoopFacts
<1>3. PICK b : b = IF HasBuild(d) THEN builds[d] ELSE Failed(FALSE)
  OBVIOUS
<1>4. b \in Build
  BY <1>1, <1>3 DEF TypeOK, HasBuild, Build, Failed
<1>5. ~raced => b.bin = Object(d) /\ b.args = NumArgs[d][call[t].opts]
  BY <1>1, <1>2, <1>3 DEF IInv, Progress, ProgressAt, Made
<1>6. ASSUME NEW c \in Build, SetBuild(d, c), Advance(t, d),
             ~raced => c.bin = "exec" /\ c.args = NumArgs[d][call[t].opts]
      PROVE  IInv'
  <2>1. OnlyBuild(d) /\ HasBuild(d)' /\ builds'[d] = c
    BY <1>1, <1>2, <1>6, SetBuildOnly
  <2>2. /\ call'[t].pc = call[t].pc /\ call'[t].opts = call[t].opts
        /\ call'[t].todo = call[t].todo \ {d}
    BY <1>1, <1>6, AdvanceFacts
  <2>3. ~raced => ProgressAt(t, d)'
    BY <1>2, <1>6, <2>1, <2>2 DEF ProgressAt, Made
  <2> QED BY <1>1, <1>2, <1>6, <2>1, <2>3, AdvanceIInv
<1>7. CASE d \in Tgsi
  <2>1. SetBuild(d, b) /\ Advance(t, d)
    BY <1>3, <1>7 DEF LinkDevice
  <2>2. ~raced => b.bin = "exec" /\ b.args = NumArgs[d][call[t].opts]
    BY <1>5, <1>7 DEF Object
  <2> QED BY <1>4, <1>6, <2>1, <2>2
<1>8. CASE d \notin Tgsi
  <2>1. PICK log \in {b.log, TRUE} :
          \/ /\ SetBuild(d, [bin |-> "exec", args |-> b.args, log |-> log])
             /\ Advance(t, d)
          \/ SetBuild(d, Failed(log)) /\ Throw(t, d)
    BY <1>3, <1>8 DEF LinkDevice
  <2>2. log \in BOOLEAN /\ b.args \in Nat
    BY <1>4 DEF Build
  <2>3. CASE /\ SetBuild(d, [bin |-> "exec", args |-> b.args, log |-> log])
             /\ Advance(t, d)
    <3>1. PICK c : c = [bin |-> "exec", args |-> b.args, log |-> log]
      OBVIOUS
    <3>2. c \in Build /\ c.bin = "exec" /\ c.args = b.args
      BY <2>2, <3>1 DEF Build
    <3> QED BY <1>5, <1>6, <2>3, <3>1, <3>2
  <2>4. CASE SetBuild(d, Failed(log)) /\ Throw(t, d)
    BY <1>1, <1>2, <2>2, <2>4, FailIInv
  <2> QED BY <2>1, <2>3, <2>4
<1> QED BY <1>7, <1>8

LEMMA BridgeIInv ==
  ASSUME IInv, NEW t \in Threads, NEW d, BridgeDevice(t, d)
  PROVE  IInv'
<1>1. InLoop(t, d, "bridge") /\ d \in Bridge /\ BuildFrame /\ TypeOK
  BY DEF BridgeDevice, BuildFrame, IInv
<1>2. /\ call[t].pc = "bridge" /\ d \in Devices /\ d \in call[t].todo
      /\ NumArgs[d][call[t].opts] \in Nat
  BY <1>1, InLoopFacts
<1>3. CASE /\ \E log \in BOOLEAN :
                SetBuild(d, [bin |-> "exec", args |-> NumArgs[d][call[t].opts], log |-> log])
           /\ Advance(t, d)
  <2>1. PICK log \in BOOLEAN :
          SetBuild(d, [bin |-> "exec", args |-> NumArgs[d][call[t].opts], log |-> log])
    BY <1>3
  <2>2. [bin |-> "exec", args |-> NumArgs[d][call[t].opts], log |-> log] \in Build
    BY <1>2 DEF Build
  <2>3. /\ OnlyBuild(d) /\ HasBuild(d)'
        /\ builds'[d] = [bin |-> "exec", args |-> NumArgs[d][call[t].opts], log |-> log]
    BY <1>1, <1>2, <2>1, <2>2, SetBuildOnly
  <2>4. call'[t].pc = call[t].pc /\ call'[t].opts = call[t].opts
    BY <1>1, <1>3, AdvanceFacts
  <2>5. ProgressAt(t, d)'
    BY <1>2, <2>3, <2>4 DEF ProgressAt, Made
  <2> QED BY <1>1, <1>2, <1>3, <2>3, <2>5, AdvanceIInv
<1>4. CASE SetBuild(d, Failed(TRUE)) /\ Throw(t, d)
  BY <1>1, <1>2, <1>4, FailIInv
<1>5. CASE HasBuild(d) /\ builds[d].log /\ UNCHANGED builds /\ Throw(t, d)
  <2>1. OnlyBuild(d)
    BY <1>1, <1>2, <1>5, SameBuildsOnly
  <2> QED BY <1>1, <1>2, <1>5, <2>1, ThrowIInv
<1> QED BY <1>3, <1>4, <1>5 DEF BridgeDevice


LEMMA NextLoopIInv ==
  ASSUME IInv, NEW t \in Threads, NextLoop(t)
  PROVE  IInv'
<1> USE ProgramAssumption DEF IInv
<1>0. /\ call \in [Threads -> [pc : {"idle", "compile", "link", "bridge"}, link : BOOLEAN,
                           devs : SUBSET Devices, todo : SUBSET Devices, opts : Opts \cup {NoOpts}]]
      /\ finished \in [Devices -> Opts \cup {NoOpts}] /\ failed \subseteq Devices
      /\ call[t].pc # "idle" /\ call[t].todo = {}
      /\ UNCHANGED <<builds, kernel, launches, calls, failed, raced, mixed, dropped>>
  BY DEF NextLoop, TypeOK
<1>1. /\ call[t].opts \in Opts
      /\ ~raced => \A u \in Threads : u # t => call[u].pc = "idle"
      /\ ~raced => \A k \in Kernels : ~kernel[k].live
  BY <1>0 DEF CallsOK, OneCall
<1>2. KernelType'
  BY <1>0 DEF KernelType
<1>3. ArgsAgree' /\ LaunchesOK'
  BY <1>0 DEF ArgsAgree, LaunchesOK, Executable, HasBuild
<1>4. CASE /\ call[t].link /\ call[t].pc # "bridge"
           /\ call' = [call EXCEPT ![t].pc = IF call[t].pc = "compile" THEN "link" ELSE "bridge",
                                   ![t].todo = call[t].devs]
           /\ UNCHANGED finished
  <2>1. /\ call'[t].pc = IF call[t].pc = "compile" THEN "link" ELSE "bridge"
        /\ call'[t].devs = call[t].devs /\ call'[t].todo = call[t].devs
        /\ call'[t].opts = call[t].opts /\ call'[t].link = call[t].link
        /\ \A u \in Threads : u # t => call'[u] = call[u]
    BY <1>0, <1>4
  <2>2. TypeOK'
    <3>1. call' \in [Threads -> [pc : {"idle", "compile", "link", "bridge"}, link : BOOLEAN,
                           devs : SUBSET Devices, todo : SUBSET Devices, opts : Opts \cup {NoOpts}]]
      <4>1. call[t].devs \subseteq Devices
        BY <1>0
      <4>2. PICK pc : pc = IF call[t].pc = "compile" THEN "link" ELSE "bridge"
        OBVIOUS
      <4>3. call' = [call EXCEPT ![t].pc = pc, ![t].todo = call[t].devs] /\ pc \in {"link", "bridge"}
        BY <1>4, <4>2
      <4>4. PICK r : r = [call[t] EXCEPT !.pc = pc, !.todo = call[t].devs]
        OBVIOUS
      <4>0. call[t] \in [pc : {"idle", "compile", "link", "bridge"}, link : BOOLEAN,
                         devs : SUBSET Devices, todo : SUBSET Devices, opts : Opts \cup {NoOpts}]
        BY <1>0
      <4>5. r \in [pc : {"idle", "compile", "link", "bridge"}, link : BOOLEAN,
                   devs : SUBSET Devices, todo : SUBSET Devices, opts : Opts \cup {NoOpts}]
        BY <4>0, <4>1, <4>3, <4>4
      <4>6. call' = [call EXCEPT ![t] = r]
        BY <4>3, <4>4
      <4> QED BY <1>0, <4>5, <4>6
    <3> QED BY <1>0, <1>4, <3>1 DEF TypeOK
  <2>3. CallsOK'
    <3>1. ASSUME NEW u \in Threads
          PROVE  /\ call'[u].pc # "idle" => call'[u].opts \in Opts
                 /\ call'[u].todo \subseteq call'[u].devs
                 /\ call'[u].pc \in {"link", "bridge"} => call'[u].link
      BY <1>0, <1>1, <1>4, <2>1 DEF CallsOK
    <3> QED BY <3>1 DEF CallsOK
  <2>4. OneCall'
    BY <1>0, <1>1, <2>1 DEF OneCall
  <2>5. Progress'
    <3>1. SUFFICES ASSUME ~raced, NEW u \in Threads, NEW e \in call'[u].devs
                   PROVE  ProgressAt(u, e)'
      BY <1>0 DEF Progress
    <3>2. CASE u # t
      BY <1>1, <2>1, <3>1, <3>2 DEF ProgressAt
    <3>3. CASE u = t
      <4>1. e \in call[t].devs /\ ProgressAt(t, e)
        BY <2>1, <3>1, <3>3 DEF Progress
      <4>2. CASE call[t].pc = "compile"
        BY <1>0, <2>1, <3>3, <4>1, <4>2 DEF ProgressAt, Made, HasBuild
      <4>3. CASE call[t].pc = "link"
        BY <1>0, <2>1, <3>3, <4>1, <4>3 DEF ProgressAt, Made, HasBuild
      <4> QED BY <1>0, <1>4, <4>2, <4>3
    <3> QED BY <3>2, <3>3
  <2>6. \A e : Named(e)' <=> Named(e)
    BY <1>0, <2>1 DEF Named
  <2>7. FinishedOK' /\ FailedOK'
    BY <1>0, <1>4, <2>6 DEF FinishedOK, FailedOK, Executable, HasBuild
  <2> QED BY <1>2, <1>3, <2>2, <2>3, <2>4, <2>5, <2>7
<1>5. CASE /\ ~(call[t].link /\ call[t].pc # "bridge")
           /\ call' = [call EXCEPT ![t] = IdleCall]
           /\ finished' = [d \in Devices |-> IF d \in call[t].devs /\ call[t].link THEN call[t].opts
                                             ELSE finished[d]]
  <2>1. call'[t] = IdleCall /\ \A u \in Threads : u # t => call'[u] = call[u]
    BY <1>0, <1>5
  <2>2. TypeOK'
    <3>1. call' \in [Threads -> [pc : {"idle", "compile", "link", "bridge"}, link : BOOLEAN,
                           devs : SUBSET Devices, todo : SUBSET Devices, opts : Opts \cup {NoOpts}]]
      BY <1>0, <1>5 DEF IdleCall
    <3>2. finished' \in [Devices -> Opts \cup {NoOpts}]
      BY <1>0, <1>1, <1>5
    <3> QED BY <1>0, <3>1, <3>2 DEF TypeOK
  <2>3. CallsOK' /\ OneCall'
    BY <1>0, <1>1, <2>1 DEF CallsOK, OneCall, IdleCall
  <2>4. ~raced => \A u \in Threads : call'[u].pc = "idle"
    BY <1>1, <2>1 DEF IdleCall
  <2>5. Progress'
    BY <1>0, <2>4 DEF Progress, ProgressAt
  <2>6. ~raced => \A e : ~Named(e)'
    BY <2>4 DEF Named
  <2>7. FailedOK'
    BY <1>0, <2>6 DEF FailedOK, Executable, HasBuild
  <2>8. FinishedOK'
    <3>1. SUFFICES ASSUME ~raced, NEW d \in Devices, finished'[d] # NoOpts
                   PROVE  Executable(d)' /\ builds'[d].args = NumArgs[d][finished'[d]] /\ ~Named(d)'
      BY <1>0 DEF FinishedOK
    <3>2. CASE d \in call[t].devs /\ call[t].link
      <4>1. call[t].pc = "bridge" /\ ProgressAt(t, d) /\ finished'[d] = call[t].opts
        BY <1>5, <3>1, <3>2 DEF Progress
      <4>2. Made(t, d, "exec")
        BY <1>0, <4>1 DEF ProgressAt
      <4> QED BY <1>0, <2>6, <3>1, <4>1, <4>2 DEF Made, Executable, HasBuild
    <3>3. CASE ~(d \in call[t].devs /\ call[t].link)
      BY <1>0, <1>5, <2>6, <3>1, <3>3 DEF FinishedOK, Executable, HasBuild
    <3> QED BY <3>2, <3>3
  <2> QED BY <1>2, <1>3, <2>2, <2>3, <2>5, <2>7, <2>8
<1> QED BY <1>4, <1>5 DEF NextLoop

LEMMA BuildStepIInv ==
  ASSUME IInv, NEW t \in Threads, BuildStep(t)
  PROVE  IInv'
<1>1. ASSUME NEW d, Skip(t, d, "compile", Bridge) \/ Skip(t, d, "link", Bridge)  PROVE IInv'
  BY <1>1, SkipIInv
<1>2. ASSUME NEW d, Skip(t, d, "bridge", Devices \ Bridge)  PROVE IInv'
  BY <1>2, SkipIInv
<1> QED BY <1>1, <1>2, CompileIInv, LinkIInv, BridgeIInv, NextLoopIInv DEF BuildStep

(***************************************************************************)
(* The calls about kernels, and the commands.                              *)
(***************************************************************************)

(* The parts of the invariant that do not speak of kernels.                *)
LEMMA SameCallsIInv ==
  ASSUME IInv, ~raced' => ~raced, UNCHANGED <<builds, call, finished, failed>>
  PROVE  CallsOK' /\ Progress' /\ FinishedOK' /\ FailedOK'
<1>1. CallsOK'
  BY DEF IInv, CallsOK
<1>2. Progress'
  BY DEF IInv, Progress, ProgressAt, Made, HasBuild
<1>3. FinishedOK' /\ FailedOK'
  BY DEF IInv, FinishedOK, FailedOK, Named, Executable, HasBuild
<1> QED BY <1>1, <1>2, <1>3

LEMMA CreateKernelIInv ==
  ASSUME IInv, NEW k \in Kernels, clCreateKernel(k)
  PROVE  IInv'
<1> USE ProgramAssumption DEF IInv
<1>0. /\ KernelType /\ DOMAIN builds \subseteq Devices /\ ~kernel[k].live
      /\ \A d \in DOMAIN builds : builds[d] \in Build
      /\ raced \in BOOLEAN /\ mixed \in BOOLEAN /\ raced' = (raced \/ Building # {})
      /\ UNCHANGED <<builds, call, launches, calls, finished, failed, dropped>>
  BY DEF TypeOK, clCreateKernel
<1>1. PICK m : m = Min(DOMAIN builds)
  OBVIOUS
<1>2. m \in DOMAIN builds /\ builds[m].args \in Nat
  <2>1. DOMAIN builds \subseteq Nat /\ DOMAIN builds # {}
    BY <1>0 DEF Devices, clCreateKernel
  <2> QED BY <1>0, <1>1, <2>1, MinOfSet DEF Build
<1>3. /\ kernel' = [kernel EXCEPT ![k] = [live |-> TRUE, args |-> builds[m].args, set |-> {}]]
      /\ mixed' = (mixed \/ \E d \in Devices : Executable(d) /\ builds[d].args # builds[m].args)
  BY <1>1 DEF clCreateKernel
<1>4. /\ kernel'[k] = [live |-> TRUE, args |-> builds[m].args, set |-> {}]
      /\ \A j \in Kernels : j # k => kernel'[j] = kernel[j]
  BY <1>0, <1>3 DEF KernelType
<1>5. KernelType'
  BY <1>0, <1>2, <1>3 DEF KernelType
<1>6. TypeOK'
  <2>0. \A j \in Kernels : kernel'[j].set \subseteq 1..kernel'[j].args
    BY <1>4 DEF TypeOK
  <2>1. \A j \in Kernels : kernel'[j] \in [live : BOOLEAN, args : Nat, set : SUBSET (1..kernel'[j].args)]
    BY <1>5, <2>0 DEF KernelType
  <2> QED BY <1>0, <1>3, <2>1 DEF TypeOK
<1>7. OneCall'
  BY <1>0 DEF OneCall, Building
<1>8. ArgsAgree'
  <2>1. SUFFICES ASSUME ~raced', ~mixed', NEW j \in Kernels, NEW d \in Devices,
                        kernel'[j].live, Executable(d)'
                 PROVE  builds'[d].args = kernel'[j].args
    BY DEF ArgsAgree
  <2>2. ~raced /\ ~mixed /\ Executable(d) /\ builds'[d].args = builds[d].args
    BY <1>0, <1>3, <2>1 DEF Executable, HasBuild
  <2>3. CASE j = k
    <3>1. builds[d].args = builds[m].args
      BY <1>3, <2>1, <2>2, Zenon
    <3> QED BY <1>4, <2>2, <2>3, <3>1
  <2>4. CASE j # k
    BY <1>4, <2>1, <2>2, <2>4 DEF ArgsAgree
  <2> QED BY <2>3, <2>4
<1>9. LaunchesOK'
  <2>1. \A l \in launches : l.kern \in Kernels
    BY DEF TypeOK
  <2> QED BY <1>0, <1>4, <2>1 DEF LaunchesOK, Executable, HasBuild
<1> QED BY <1>0, <1>5, <1>6, <1>7, <1>8, <1>9, SameCallsIInv

LEMMA SetKernelArgIInv ==
  ASSUME IInv, NEW k \in Kernels, NEW i \in Nat, clSetKernelArg(k, i)
  PROVE  IInv'
<1> USE DEF IInv
<1>0. /\ KernelType /\ kernel[k].live /\ i \in 1..kernel[k].args
      /\ kernel[k].set \subseteq 1..kernel[k].args
      /\ kernel' = [kernel EXCEPT ![k].set = @ \cup {i}]
      /\ UNCHANGED <<builds, call, launches, calls, finished, failed, raced, mixed, dropped>>
  BY DEF TypeOK, clSetKernelArg, history
<1>1. /\ kernel'[k].live = kernel[k].live /\ kernel'[k].args = kernel[k].args
      /\ kernel'[k].set = kernel[k].set \cup {i}
      /\ \A j \in Kernels : j # k => kernel'[j] = kernel[j]
  BY <1>0 DEF KernelType
<1>2. KernelType'
  BY <1>0 DEF KernelType
<1>3. TypeOK'
  <2>1. \A j \in Kernels : kernel'[j].set \subseteq 1..kernel'[j].args
    BY <1>0, <1>1 DEF TypeOK
  <2>2. \A j \in Kernels : kernel'[j] \in [live : BOOLEAN, args : Nat, set : SUBSET (1..kernel'[j].args)]
    BY <1>2, <2>1 DEF KernelType
  <2> QED BY <1>0, <2>2 DEF TypeOK
<1>4. \A j \in Kernels : kernel'[j].live = kernel[j].live /\ kernel'[j].args = kernel[j].args
  BY <1>1
<1>5. OneCall' /\ ArgsAgree'
  BY <1>0, <1>4 DEF OneCall, ArgsAgree, Executable, HasBuild
<1>6. LaunchesOK'
  <2>1. \A l \in launches : l.kern \in Kernels
    BY DEF TypeOK
  <2>2. \A j \in Kernels : kernel[j].set = 1..kernel[j].args => kernel'[j].set = 1..kernel'[j].args
    BY <1>0, <1>1
  <2> QED BY <1>0, <1>4, <2>1, <2>2 DEF LaunchesOK, Executable, HasBuild
<1> QED BY <1>0, <1>2, <1>3, <1>5, <1>6, SameCallsIInv

LEMMA ReleaseKernelIInv ==
  ASSUME IInv, NEW k \in Kernels, clReleaseKernel(k)
  PROVE  IInv'
<1> USE DEF IInv
<1>0. /\ KernelType /\ dropped \in BOOLEAN
      /\ kernel' = [kernel EXCEPT ![k] = Deleted]
      /\ dropped' = (dropped \/ \E l \in launches : l.kern = k)
      /\ UNCHANGED <<builds, call, launches, calls, finished, failed, raced, mixed>>
  BY DEF TypeOK, clReleaseKernel
<1>1. kernel'[k] = Deleted /\ \A j \in Kernels : j # k => kernel'[j] = kernel[j]
  BY <1>0 DEF KernelType
<1>2. KernelType'
  BY <1>0 DEF KernelType, Deleted
<1>3. TypeOK'
  <2>0. \A j \in Kernels : kernel'[j].set \subseteq 1..kernel'[j].args
    BY <1>1 DEF TypeOK, Deleted
  <2>1. \A j \in Kernels : kernel'[j] \in [live : BOOLEAN, args : Nat, set : SUBSET (1..kernel'[j].args)]
    BY <1>2, <2>0 DEF KernelType
  <2> QED BY <1>0, <2>1 DEF TypeOK
<1>4. OneCall' /\ ArgsAgree'
  BY <1>0, <1>1 DEF OneCall, ArgsAgree, Executable, HasBuild, Deleted
<1>5. LaunchesOK'
  <2>1. \A l \in launches : l.kern \in Kernels
    BY DEF TypeOK
  <2> QED BY <1>0, <1>1, <2>1 DEF LaunchesOK, Executable, HasBuild
<1> QED BY <1>0, <1>2, <1>3, <1>4, <1>5, SameCallsIInv

LEMMA EnqueueIInv ==
  ASSUME IInv, NEW k \in Kernels, NEW d \in Devices, clEnqueueNDRangeKernel(k, d)
  PROVE  IInv'
<1> USE DEF IInv, clEnqueueNDRangeKernel, history
<1>1. TypeOK'
  BY DEF TypeOK
<1>2. KernelType' /\ OneCall' /\ ArgsAgree'
  BY DEF KernelType, OneCall, ArgsAgree, Executable, HasBuild
<1>3. LaunchesOK'
  BY DEF LaunchesOK, Executable, HasBuild
<1> QED BY <1>1, <1>2, <1>3, SameCallsIInv

LEMMA LaunchIInv ==
  ASSUME IInv, NEW l \in launches, Launch(l)
  PROVE  IInv'
<1> USE DEF IInv, Launch, history
<1>1. TypeOK'
  BY DEF TypeOK
<1>2. KernelType' /\ OneCall' /\ ArgsAgree'
  BY DEF KernelType, OneCall, ArgsAgree, Executable, HasBuild
<1>3. LaunchesOK'
  BY DEF LaunchesOK, Executable, HasBuild
<1> QED BY <1>1, <1>2, <1>3, SameCallsIInv

LEMMA StutterIInv ==
  ASSUME IInv, UNCHANGED vars
  PROVE  IInv'
<1> USE DEF IInv, vars, history
<1>1. TypeOK'
  BY DEF TypeOK
<1>2. KernelType' /\ OneCall' /\ ArgsAgree' /\ LaunchesOK'
  BY DEF KernelType, OneCall, ArgsAgree, LaunchesOK, Executable, HasBuild
<1> QED BY <1>1, <1>2, SameCallsIInv

(***************************************************************************)
(* The theorems                                                            *)
(***************************************************************************)

(* IInv is an invariant of the program object.                             *)
THEOREM Invariance == Spec => []IInv
<1>1. Init => IInv
  BY InitIInv
<1>2. IInv /\ [Next]_vars => IInv'
  <2>1. SUFFICES ASSUME IInv, Next  PROVE IInv'
    BY StutterIInv
  <2>2. CASE \E t \in Threads, devs \in SUBSET Devices \ {{}}, o \in Opts :
               clBuildProgram(t, devs, o) \/ clCompileProgram(t, devs, o)
    BY <2>1, <2>2, BeginCallIInv DEF clBuildProgram, clCompileProgram
  <2>3. CASE \E t \in Threads : BuildStep(t)
    BY <2>1, <2>3, BuildStepIInv
  <2>4. CASE \E k \in Kernels : clCreateKernel(k) \/ clReleaseKernel(k)
    BY <2>1, <2>4, CreateKernelIInv, ReleaseKernelIInv
  <2>5. CASE \E k \in Kernels : \E i \in ArgIndices : clSetKernelArg(k, i)
    <3>1. PICK k \in Kernels : \E i \in ArgIndices : clSetKernelArg(k, i)
      BY <2>5
    <3>2. PICK i : clSetKernelArg(k, i)
      BY <3>1
    <3>3. i \in Nat
      BY <2>1, <3>2 DEF clSetKernelArg, IInv, KernelType
    <3> QED BY <2>1, <3>2, <3>3, SetKernelArgIInv
  <2>6. CASE \E k \in Kernels, d \in Devices : clEnqueueNDRangeKernel(k, d)
    BY <2>1, <2>6, EnqueueIInv
  <2>7. CASE \E l \in launches : Launch(l)
    BY <2>1, <2>7, LaunchIInv
  <2> QED BY <2>1, <2>2, <2>3, <2>4, <2>5, <2>6, <2>7 DEF Next
<1> QED BY <1>1, <1>2, PTL DEF Spec

(* The state of a program and of its kernels keeps its types; in           *)
(* particular clSetKernelArg sets no argument that the kernel does not     *)
(* have.                                                                   *)
THEOREM TypeCorrect == Spec => []TypeOK
<1>1. IInv => TypeOK
  BY DEF IInv
<1> QED BY <1>1, Invariance, PTL

(* What clEnqueueNDRangeKernel checked holds at kernel::launch: no build   *)
(* or compile call, failed ones included, comes between a kernel's         *)
(* creation and the launch of its commands.                                *)
THEOREM LaunchesStayValid == Spec => []LaunchStillValid
<1>1. IInv => LaunchStillValid
  <2>1. SUFFICES ASSUME IInv, ~raced, ~mixed, ~dropped, NEW l \in launches
                 PROVE  /\ kernel[l.kern].live /\ kernel[l.kern].set = 1..kernel[l.kern].args
                        /\ Executable(l.dev) /\ builds[l.dev].args = kernel[l.kern].args
    BY DEF LaunchStillValid
  <2>2. l.kern \in Kernels /\ l.dev \in Devices
    BY <2>1 DEF IInv, TypeOK
  <2>3. /\ kernel[l.kern].live /\ kernel[l.kern].set = 1..kernel[l.kern].args
        /\ Executable(l.dev)
    BY <2>1 DEF IInv, LaunchesOK
  <2> QED BY <2>1, <2>2, <2>3 DEF IInv, ArgsAgree
<1> QED BY <1>1, Invariance, PTL

(* A device that clBuildProgram has built has an executable of its         *)
(* options: compile, link and build_amdocl2 leave no device out.           *)
THEOREM BuildsCoverDevices == Spec => []BuildCoversDevices
<1>1. IInv => BuildCoversDevices
  BY DEF IInv, FinishedOK, BuildCoversDevices
<1> QED BY <1>1, Invariance, PTL

(* The exception paths of compile, link and build_amdocl2 leave no stale   *)
(* executable, except behind the bridge.                                   *)
THEOREM FailuresForgetExecutables == Spec => []FailureForgetsExecutable
<1>1. IInv => FailureForgetsExecutable
  BY DEF IInv, FailedOK, FailureForgetsExecutable
<1> QED BY <1>1, Invariance, PTL
=============================================================================
