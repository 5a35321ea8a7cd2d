-------------------------------- MODULE MCNfs --------------------------------
(* Instances of Nfs for TLC.                                               *)
EXTENDS Nfs

HardOrBoth == {{}, {"soft", "int"}}
Interrupts == {{"int"}}
=============================================================================
