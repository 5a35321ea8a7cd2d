----------------------------- MODULE MCBufCache -----------------------------
(* Instances of BufCache for TLC.                                          *)
EXTENDS BufCache, TLC

Perms == Permutations(Procs) \cup Permutations(Bufs)
=============================================================================
