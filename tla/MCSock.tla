------------------------------- MODULE MCSock -------------------------------
(* Instances of Sock for TLC.                                              *)
EXTENDS Sock
=============================================================================
