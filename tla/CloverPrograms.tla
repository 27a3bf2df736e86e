--------------------------- MODULE CloverPrograms ---------------------------
(***************************************************************************)
(* Clover programs and kernels: core/program.cpp, core/kernel.cpp,         *)
(* api/program.cpp and api/kernel.cpp, for one program with source.        *)
(* clBuildProgram compiles and links the source for the native devices and *)
(* has the AMDOCL2 library build it for the devices behind the compiler    *)
(* bridge, one device after the other and without a lock; a kernel takes   *)
(* its arguments from the first build in the table; clEnqueueNDRangeKernel *)
(* checks the kernel and the build of the device, which the command uses   *)
(* when it is launched, later (see CloverEvents).                          *)
(*                                                                         *)
(* The compilers are external: each may succeed or fail.  What the         *)
(* properties tell apart of a binary is its kind and how many arguments    *)
(* the kernel has in it, which depends on the compiler and on the options  *)
(* (-D).  TGSI text names the arguments itself and needs no linking.       *)
(***************************************************************************)
EXTENDS Integers, FiniteSets, FiniteSetsExt

CONSTANTS
  Threads,
  NumDevices,   \* devices of the context, in the order of their addresses
  Bridge,       \* devices with get_comp_bridge() != none
  Tgsi,         \* devices with ir_format() == PIPE_SHADER_IR_TGSI
  Opts,         \* build options
  NumArgs,      \* the kernel's arguments for each device and options
  NoOpts,
  Kernels,      \* kernel objects
  MaxBuilds,    \* bound: calls of clBuildProgram and clCompileProgram
  MaxLaunches   \* bound: commands in the queues

Devices == 1..NumDevices

ASSUME ProgramAssumption ==
  /\ NumDevices \in Nat /\ Bridge \subseteq Devices /\ Tgsi \subseteq Devices \ Bridge
  /\ NumArgs \in [Devices -> [Opts -> Nat]] /\ NoOpts \notin Opts
  /\ \A d \in Tgsi, o1, o2 \in Opts : NumArgs[d][o1] = NumArgs[d][o2]
  /\ IsFiniteSet(Kernels)
  /\ MaxBuilds \in Nat /\ MaxLaunches \in Nat

VARIABLES
  builds,       \* _builds: a record for each device that has one
  call,         \* the build or compile call each thread is in
  kernel,       \* the kernel objects
  launches,     \* commands that will launch a kernel on a device
  calls,        \* counter for the bound
  finished,     \* history: the options of the last call that built each device
                \* and returned CL_SUCCESS, while no later call names the device
  failed,       \* history: the devices for which the last call that names them failed
  raced,        \* history: a call overlapped another one, or a new kernel
  mixed,        \* history: a kernel was made of executables that disagree
  dropped       \* history: a kernel was deleted while a command needed it

history == <<finished, failed, raced, mixed, dropped>>
vars == <<builds, call, kernel, launches, calls, history>>

(* bin: no section, text_intermediate or text_executable.  args: of the    *)
(* kernel in it.  log: the log is not empty.                               *)
Build == [bin : {"none", "object", "exec"}, args : Nat, log : BOOLEAN]
Failed(log) == [bin |-> "none", args |-> 0, log |-> log]
IdleCall == [pc |-> "idle", link |-> FALSE, devs |-> {}, todo |-> {}, opts |-> NoOpts]
Deleted == [live |-> FALSE, args |-> 0, set |-> {}]

Init ==
  /\ builds = << >>
  /\ call = [t \in Threads |-> IdleCall]
  /\ kernel = [k \in Kernels |-> Deleted]
  /\ launches = {}
  /\ calls = 0
  /\ finished = [d \in Devices |-> NoOpts]
  /\ failed = {}
  /\ raced = FALSE /\ mixed = FALSE /\ dropped = FALSE

HasBuild(d) == d \in DOMAIN builds
SetBuild(d, b) == builds' = [e \in DOMAIN builds \cup {d} |-> IF e = d THEN b ELSE builds[e]]
Executable(d) == HasBuild(d) /\ builds[d].bin = "exec"
kernel_ref_count == Cardinality({k \in Kernels : kernel[k].live})
Building == {t \in Threads : call[t].pc # "idle"}

(***************************************************************************)
(* clBuildProgram and clCompileProgram                                     *)
(***************************************************************************)

(* Mutant: kernel_ref_count is not tested.                                 *)
BeginCallAnyway(t, devs, opts, link) ==
  /\ call[t].pc = "idle" /\ calls < MaxBuilds
  /\ calls' = calls + 1
  /\ call' = [call EXCEPT ![t] = [pc |-> "compile", link |-> link, devs |-> devs,
                                  todo |-> devs, opts |-> opts]]
  /\ finished' = [d \in Devices |-> IF d \in devs THEN NoOpts ELSE finished[d]]
  /\ failed' = failed \ devs
  /\ raced' = (raced \/ Building # {})
  /\ UNCHANGED <<builds, kernel, launches, mixed, dropped>>

(* validate_build_common: not while a kernel refers to the program.        *)
BeginCall(t, devs, opts, link) ==
  /\ call[t].pc = "idle" /\ calls < MaxBuilds
  /\ kernel_ref_count = 0
  /\ calls' = calls + 1
  /\ call' = [call EXCEPT ![t] = [pc |-> "compile", link |-> link, devs |-> devs,
                                  todo |-> devs, opts |-> opts]]
  /\ finished' = [d \in Devices |-> IF d \in devs THEN NoOpts ELSE finished[d]]
  /\ failed' = failed \ devs
  /\ raced' = (raced \/ Building # {})
  /\ UNCHANGED <<builds, kernel, launches, mixed, dropped>>

clBuildProgram(t, devs, opts) == BeginCall(t, devs, opts, TRUE)
clCompileProgram(t, devs, opts) == BeginCall(t, devs, opts, FALSE)

(* The loops of compile, link and build_amdocl2 follow the application's   *)
(* list of devices: here, each of them in any order.                       *)
InLoop(t, d, pc) == call[t].pc = pc /\ d \in call[t].todo
Advance(t, d) ==
  /\ call' = [call EXCEPT ![t].todo = @ \ {d}]
  /\ UNCHANGED failed

(* The exception leaves the loops, and the call returns its error.         *)
Throw(t, d) ==
  /\ call' = [call EXCEPT ![t] = IdleCall]
  /\ failed' = failed \cup {d}

Skip(t, d, pc, devs) ==
  /\ InLoop(t, d, pc) /\ d \in devs
  /\ Advance(t, d)
  /\ UNCHANGED <<builds, kernel, launches, calls, finished, raced, mixed, dropped>>

Compiled(d, opts, log) ==
  [bin |-> IF d \in Tgsi THEN "exec" ELSE "object", args |-> NumArgs[d][opts], log |-> log]

(* Mutant: the exception leaves the build that was there.                  *)
CompileDeviceKeeps(t, d) ==
  /\ InLoop(t, d, "compile") /\ d \notin Bridge
  /\ \E log \in BOOLEAN :
       \/ SetBuild(d, Compiled(d, call[t].opts, log)) /\ Advance(t, d)
       \/ UNCHANGED builds /\ Throw(t, d)
  /\ UNCHANGED <<kernel, launches, calls, finished, raced, mixed, dropped>>

(* program::compile, for one device.                                       *)
CompileDevice(t, d) ==
  /\ InLoop(t, d, "compile") /\ d \notin Bridge
  /\ \E log \in BOOLEAN :
       \/ SetBuild(d, Compiled(d, call[t].opts, log)) /\ Advance(t, d)
       \/ SetBuild(d, Failed(log)) /\ Throw(t, d)
  /\ UNCHANGED <<kernel, launches, calls, finished, raced, mixed, dropped>>

(* program::link, for one device: what it links is the binary it finds.    *)
(* TGSI takes it as it is; a binary without sections cannot be linked.     *)
LinkDevice(t, d) ==
  LET b == IF HasBuild(d) THEN builds[d] ELSE Failed(FALSE)
  IN /\ InLoop(t, d, "link") /\ d \notin Bridge
     /\ \/ d \in Tgsi /\ SetBuild(d, b) /\ Advance(t, d)
        \/ d \notin Tgsi /\ \E log \in {b.log, TRUE} :
             \/ /\ b.bin # "none"
                /\ SetBuild(d, [bin |-> "exec", args |-> b.args, log |-> log])
                /\ Advance(t, d)
             \/ SetBuild(d, Failed(log)) /\ Throw(t, d)
     /\ UNCHANGED <<kernel, launches, calls, finished, raced, mixed, dropped>>

(* program::build_amdocl2, for one device: it succeeds; or AMDOCL2 reports *)
(* a failure, and the log is not empty; or another exception is thrown     *)
(* once AMDOCL2 has succeeded, when the binary is parsed, and the build    *)
(* that was there stays if its log is not empty.                           *)
BridgeDevice(t, d) ==
  /\ InLoop(t, d, "bridge") /\ d \in Bridge
  /\ \/ /\ \E log \in BOOLEAN :
             SetBuild(d, [bin |-> "exec", args |-> NumArgs[d][call[t].opts], log |-> log])
        /\ Advance(t, d)
     \/ SetBuild(d, Failed(TRUE)) /\ Throw(t, d)
     \/ /\ IF HasBuild(d) /\ builds[d].log THEN UNCHANGED builds
           ELSE SetBuild(d, Failed(TRUE))
        /\ Throw(t, d)
  /\ UNCHANGED <<kernel, launches, calls, finished, raced, mixed, dropped>>

(* The end of a loop: compile, then link and build_amdocl2 if the call is  *)
(* clBuildProgram.                                                         *)
NextLoop(t) ==
  LET c == call[t]
  IN /\ c.pc # "idle" /\ c.todo = {}
     /\ IF c.link /\ c.pc # "bridge"
        THEN /\ call' = [call EXCEPT ![t].pc = IF c.pc = "compile" THEN "link" ELSE "bridge",
                                     ![t].todo = c.devs]
             /\ UNCHANGED finished
        ELSE /\ call' = [call EXCEPT ![t] = IdleCall]
             /\ finished' = [d \in Devices |-> IF d \in c.devs /\ c.link THEN c.opts
                                               ELSE finished[d]]
     /\ UNCHANGED <<builds, kernel, launches, calls, failed, raced, mixed, dropped>>

(* Mutant: build_amdocl2 leaves its own devices out as well.               *)
BuildStepSkipsBridge(t) ==
  \/ \E d \in call[t].todo :
       \/ Skip(t, d, "compile", Bridge) \/ Skip(t, d, "link", Bridge)
       \/ Skip(t, d, "bridge", Devices)
       \/ CompileDevice(t, d) \/ LinkDevice(t, d)
  \/ NextLoop(t)

BuildStep(t) ==
  \/ \E d \in call[t].todo :
       \/ Skip(t, d, "compile", Bridge) \/ Skip(t, d, "link", Bridge)
       \/ Skip(t, d, "bridge", Devices \ Bridge)
       \/ CompileDevice(t, d) \/ LinkDevice(t, d) \/ BridgeDevice(t, d)
  \/ NextLoop(t)

(***************************************************************************)
(* Kernels                                                                 *)
(***************************************************************************)

(* program::symbols: of the first build; only an executable has symbols.   *)
clCreateKernel(k) ==
  /\ ~kernel[k].live
  /\ DOMAIN builds # {} /\ Executable(Min(DOMAIN builds))
  /\ LET args == builds[Min(DOMAIN builds)].args
     IN /\ kernel' = [kernel EXCEPT ![k] = [live |-> TRUE, args |-> args, set |-> {}]]
        /\ mixed' = (mixed \/ \E d \in Devices : Executable(d) /\ builds[d].args # args)
  /\ raced' = (raced \/ Building # {})
  /\ UNCHANGED <<builds, call, launches, calls, finished, failed, dropped>>

(* Mutant: args()[idx] in place of args().at(idx).                         *)
SetKernelArgUnchecked(k, i) ==
  /\ kernel[k].live
  /\ kernel' = [kernel EXCEPT ![k].set = @ \cup {i}]
  /\ UNCHANGED <<builds, call, launches, calls, history>>

clSetKernelArg(k, i) ==
  /\ kernel[k].live /\ i \in 1..kernel[k].args
  /\ kernel' = [kernel EXCEPT ![k].set = @ \cup {i}]
  /\ UNCHANGED <<builds, call, launches, calls, history>>

(* The command has no reference to the kernel.                             *)
clReleaseKernel(k) ==
  /\ kernel[k].live
  /\ kernel' = [kernel EXCEPT ![k] = Deleted]
  /\ dropped' = (dropped \/ \E l \in launches : l.kern = k)
  /\ UNCHANGED <<builds, call, launches, calls, finished, failed, raced, mixed>>

(* validate_common.                                                        *)
clEnqueueNDRangeKernel(k, d) ==
  /\ kernel[k].live /\ kernel[k].set = 1..kernel[k].args
  /\ Executable(d)
  /\ Cardinality(launches) < MaxLaunches
  /\ launches' = launches \cup {[kern |-> k, dev |-> d]}
  /\ UNCHANGED <<builds, call, kernel, calls, history>>

(* kernel::launch, when the event is triggered.  It reads the kernel, its  *)
(* arguments and the build, which is what LaunchStillValid is about, and   *)
(* changes none of them; what it hands to the driver, and an exception on  *)
(* the way, are left out.                                                  *)
Launch(l) ==
  /\ launches' = launches \ {l}
  /\ UNCHANGED <<builds, call, kernel, calls, history>>

(* The indices an application passes: those of any build of the kernel.    *)
ArgIndices == 1..Max({NumArgs[d][o] : d \in Devices, o \in Opts})

Next ==
  \/ \E t \in Threads :
       \/ \E devs \in SUBSET Devices \ {{}}, o \in Opts :
            clBuildProgram(t, devs, o) \/ clCompileProgram(t, devs, o)
       \/ BuildStep(t)
  \/ \E k \in Kernels :
       \/ clCreateKernel(k) \/ clReleaseKernel(k)
       \/ \E i \in ArgIndices : clSetKernelArg(k, i)
       \/ \E d \in Devices : clEnqueueNDRangeKernel(k, d)
  \/ \E l \in launches : Launch(l)

Spec == Init /\ [][Next]_vars

(***************************************************************************)
(* Properties                                                              *)
(***************************************************************************)
TypeOK ==
  /\ DOMAIN builds \subseteq Devices /\ \A d \in DOMAIN builds : builds[d] \in Build
  /\ call \in [Threads -> [pc : {"idle", "compile", "link", "bridge"}, link : BOOLEAN,
                           devs : SUBSET Devices, todo : SUBSET Devices, opts : Opts \cup {NoOpts}]]
  /\ \A k \in Kernels : kernel[k] \in [live : BOOLEAN, args : Nat, set : SUBSET (1..kernel[k].args)]
  /\ launches \subseteq [kern : Kernels, dev : Devices]
  /\ calls \in 0..MaxBuilds
  /\ finished \in [Devices -> Opts \cup {NoOpts}]
  /\ failed \subseteq Devices /\ {raced, mixed, dropped} \subseteq BOOLEAN

(* What clEnqueueNDRangeKernel has checked still holds when the command    *)
(* launches: the kernel is there, its arguments are set, the device has an *)
(* executable, and exec_context::bind, which walks the arguments of that   *)
(* executable, finds one argument of the kernel for each.  kernel_ref_count *)
(* ensures it through builds and compiles, failed ones too, except where a *)
(* kernel is created during a build, from executables that disagree on its *)
(* arguments, or is released before its commands have run.                 *)
LaunchStillValid ==
  ~raced /\ ~mixed /\ ~dropped =>
    \A l \in launches :
      /\ kernel[l.kern].live /\ kernel[l.kern].set = 1..kernel[l.kern].args
      /\ Executable(l.dev) /\ builds[l.dev].args = kernel[l.kern].args

(* clBuildProgram returns CL_SUCCESS only when every device it named has   *)
(* an executable of its options, from the compiler for that device: each   *)
(* device is left out by just one of the loops over native devices and     *)
(* the loop over the bridge.                                               *)
BuildCoversDevices ==
  ~raced => \A d \in Devices : finished[d] # NoOpts =>
    Executable(d) /\ builds[d].args = NumArgs[d][finished[d]]

(* CL_PROGRAM_BUILD_STATUS after a failure: a device for which a call has  *)
(* failed keeps no executable of an earlier one, at whichever device and   *)
(* in whichever loop it failed, unless the device is behind the bridge and *)
(* the earlier build had something in its log.                             *)
FailureForgetsExecutable ==
  ~raced => \A d \in failed : Executable(d) => d \in Bridge /\ builds[d].log
=============================================================================
