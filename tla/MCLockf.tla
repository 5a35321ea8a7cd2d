------------------------------- MODULE MCLockf -------------------------------
(* Instances of Lockf for TLC.                                             *)
EXTENDS Lockf, TLC

CONSTANTS p1, p2, p3, f1, f2, f3, i1

Symmetry == Permutations(Procs)

(* One file: opened once for all, by a parent and another, or twice by one. *)
OneInode == [f \in Files |-> i1]
Shared   == Procs \X {f1}
Inherited == {<<p1, f1>>, <<p2, f1>>, <<p3, f3>>}
Twice    == {<<p1, f1>>, <<p2, f2>>, <<p2, f3>>}

(* Every way in which two ranges can lie to one another.                   *)
Nested  == {<<0, 1>>, <<1, 1>>, <<1, EOF>>, <<0, EOF>>}
Middle  == {<<0, 2>>, <<1, 1>>}
Records == {<<0, 0>>, <<1, 1>>}
Pair    == {<<0, 0>>, <<0, 1>>}
=============================================================================
