------------------------------- MODULE MCSlab -------------------------------
(* Slab on a small set of pools.                                            *)
EXTENDS Slab, TLC

(* No definition tells two pools apart.                                     *)
PoolSymmetry == Permutations(Pools)
=============================================================================
