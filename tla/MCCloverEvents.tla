-------------------------- MODULE MCCloverEvents --------------------------
(* Instances of CloverEvents for TLC: only what a .cfg cannot express.      *)
EXTENDS CloverEvents, TLC

ThreadSymmetry == Permutations(Threads)
=============================================================================
