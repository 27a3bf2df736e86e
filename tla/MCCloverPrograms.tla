-------------------------- MODULE MCCloverPrograms --------------------------
(* CloverPrograms on a small context.                                       *)
EXTENDS CloverPrograms, TLC

(* Options that change the arguments of the kernel, except in TGSI text.   *)
MCNumArgs ==
  [d \in Devices |-> [o \in Opts |->
     IF d \in Tgsi \/ o = (CHOOSE x \in Opts : TRUE) THEN 1 ELSE 2]]

(* No definition tells two threads, or two kernels, apart.                  *)
ProgramSymmetry == Permutations(Threads) \cup Permutations(Kernels)
=============================================================================
