---------------------------- MODULE MCDiskCache -----------------------------
(* DiskCache with a short and a long payload.                              *)
EXTENDS DiskCache

MCLength == [short |-> 2, long |-> 3]
=============================================================================
