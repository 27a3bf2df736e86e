---------------------------- MODULE MCUtilQueue -----------------------------
(* UtilQueue on small sets of model values.                                 *)
EXTENDS UtilQueue, TLC

(* No definition tells workers, clients, or jobs of one kind, apart.         *)
QueueSymmetry ==
  Permutations(Workers) \cup Permutations(Clients) \cup Permutations(Jobs \ Cleanup)
=============================================================================
