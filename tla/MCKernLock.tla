----------------------------- MODULE MCKernLock -----------------------------
(* The instance of KernLock for TLC: its constants are in MCKernLock.cfg.   *)
(* No symmetry, since the run checks liveness.                             *)
EXTENDS KernLock
=============================================================================
