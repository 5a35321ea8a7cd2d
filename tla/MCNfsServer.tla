----------------------------- MODULE MCNfsServer -----------------------------
(* Instances of NfsServer for TLC.                                         *)
EXTENDS NfsServer, TLC

Symmetry == Permutations(Nfsds) \cup Permutations(Slots) \cup Permutations(Reqs)
=============================================================================
