------------------------------ MODULE MCVnode ------------------------------
(* Instances of Vnode for TLC.                                             *)
EXTENDS Vnode, TLC

Perms == Permutations(Procs) \cup Permutations(Vnodes) \cup Permutations(Names)
=============================================================================
