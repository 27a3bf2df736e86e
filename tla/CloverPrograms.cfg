\* Two threads build for an LLVM device, one behind the compiler bridge and one
\* that takes TGSI.
CONSTANTS
  Threads = {t1, t2}
  NumDevices = 3
  Bridge = {2}
  Tgsi = {3}
  Opts = {o1, o2}
  NumArgs <- MCNumArgs
  NoOpts = NoOpts
  Kernels = {k1}
  MaxBuilds = 2
  MaxLaunches = 2
SPECIFICATION Spec
SYMMETRY ProgramSymmetry
INVARIANTS TypeOK LaunchStillValid BuildCoversDevices FailureForgetsExecutable
\* The application may stop calling.
CHECK_DEADLOCK FALSE
