----------------------------- MODULE LockfProofs -----------------------------
(***************************************************************************)
(* Proofs about Lockf.                                                     *)
(*                                                                         *)
(* A pass over a list is a recursive function of the number of locks it    *)
(* has behind it.  That there is such a function, and what is true of each *)
(* of its values, is proved by way of the least number for which it would  *)
(* fail.                                                                   *)
(***************************************************************************)
EXTENDS Lockf, TLAPS, NaturalsInduction, WellFoundedInduction, FiniteSetTheorems,
        SequenceTheorems

(* A set of numbers that is not empty has a least element.                 *)
LEMMA Least ==
    ASSUME NEW T, T \subseteq Nat, T # {}
    PROVE  \E n \in T : \A m \in T : n <= m
  <1>1. \E n \in T : \A m \in T : ~(<<m, n>> \in OpToRel(<, Nat))
    BY WFMin, NatLessThanWellFounded, Zenon
  <1>2. PICK n \in T : \A m \in T : ~(<<m, n>> \in OpToRel(<, Nat))
    BY <1>1
  <1>3. ASSUME NEW m \in T, m < n PROVE FALSE
    <2>1. <<m, n>> \in OpToRel(<, Nat)
      BY <1>2, <1>3, Zenon DEF OpToRel
    <2> QED
      BY <1>2, <2>1
  <1> QED
    BY <1>3

-----------------------------------------------------------------------------
(* Locks, and lists of them.                                               *)

LockRecs == {l \in [id : Ids, ino : Inodes, type : {"F_RDLCK", "F_WRLCK"},
                    start : Nat, end : Int, sleepers : SUBSET Procs] :
                l.end = EOF \/ l.start <= l.end}
Lists == Seq(LockRecs)
(* What a pass may be asked for.                                           *)
Asked == {l \in [id : Ids, ino : Inodes, type : {"F_RDLCK", "F_WRLCK", "F_UNLCK"},
                 start : Nat, end : Int, sleepers : SUBSET Procs] :
                l.end = EOF \/ l.start <= l.end}

Precedes(x, y) == x.end # EOF /\ x.end < y.start
Sorted(s) == \A i, j \in DOMAIN s : i < j /\ s[i].id = s[j].id => Precedes(s[i], s[j])
Follows(s, t) == \A x \in Locks(s), y \in Locks(t) : x.id = y.id => Precedes(x, y)

LEMMA CatLocks ==
    ASSUME NEW s \in Lists, NEW t \in Lists
    PROVE  s \o t \in Lists /\ Locks(s \o t) = Locks(s) \cup Locks(t)
  <1>1. s \o t \in Lists /\ Len(s \o t) = Len(s) + Len(t)
    BY DEF Lists
  <1>2. ASSUME NEW x \in Locks(s \o t) PROVE x \in Locks(s) \cup Locks(t)
    <2>1. PICK i \in 1..(Len(s) + Len(t)) : x = (s \o t)[i]
      BY <1>1 DEF Locks, Lists
    <2>2. CASE i <= Len(s)
      BY <2>1, <2>2 DEF Locks, Lists
    <2>3. CASE i > Len(s)
      <3>1. i - Len(s) \in 1..Len(t) /\ x = t[i - Len(s)]
        BY <2>1, <2>3 DEF Lists
      <3> QED
        BY <3>1 DEF Locks, Lists
    <2> QED
      BY <2>2, <2>3 DEF Lists
  <1>3. ASSUME NEW x \in Locks(s) PROVE x \in Locks(s \o t)
    <2>1. PICK i \in 1..Len(s) : x = s[i]
      BY DEF Locks, Lists
    <2>2. i \in DOMAIN (s \o t) /\ (s \o t)[i] = x
      BY <1>1, <2>1 DEF Lists
    <2> QED
      BY <2>2 DEF Locks
  <1>4. ASSUME NEW x \in Locks(t) PROVE x \in Locks(s \o t)
    <2>1. PICK i \in 1..Len(t) : x = t[i]
      BY DEF Locks, Lists
    <2>2. Len(s) + i \in DOMAIN (s \o t) /\ (s \o t)[Len(s) + i] = x
      BY <1>1, <2>1 DEF Lists
    <2> QED
      BY <2>2 DEF Locks
  <1> QED
    BY <1>1, <1>2, <1>3, <1>4

LEMMA CatAssoc ==
    ASSUME NEW s \in Lists, NEW t \in Lists, NEW u \in Lists
    PROVE  s \o t \o u = s \o (t \o u)
  <1>0. s \o t \in Lists /\ t \o u \in Lists
    BY CatLocks
  <1>1. PICK x : x = s \o t \o u /\ x \in Seq(LockRecs)
    BY <1>0, CatLocks DEF Lists
  <1>2. PICK y : y = s \o (t \o u) /\ y \in Seq(LockRecs)
    BY <1>0, CatLocks DEF Lists
  <1>3. Len(x) = Len(y)
    BY <1>1, <1>2 DEF Lists
  <1>4. ASSUME NEW i \in 1..Len(x) PROVE x[i] = y[i]
    <2>1. CASE i <= Len(s)
      BY <1>1, <1>2, <1>4, <2>1 DEF Lists
    <2>2. CASE i > Len(s) /\ i <= Len(s) + Len(t)
      BY <1>1, <1>2, <1>4, <2>2 DEF Lists
    <2>3. CASE i > Len(s) + Len(t)
      BY <1>1, <1>2, <1>4, <2>3 DEF Lists
    <2> QED
      BY <2>1, <2>2, <2>3 DEF Lists
  <1>5. x = y
    BY <1>1, <1>2, <1>3, <1>4, SeqEqual
  <1> QED
    BY <1>1, <1>2, <1>5

LEMMA CatSorted ==
    ASSUME NEW s \in Lists, NEW t \in Lists, Sorted(s), Sorted(t), Follows(s, t)
    PROVE  Sorted(s \o t)
  <1> SUFFICES ASSUME NEW i \in DOMAIN (s \o t), NEW j \in DOMAIN (s \o t), i < j,
                      (s \o t)[i].id = (s \o t)[j].id
               PROVE  Precedes((s \o t)[i], (s \o t)[j])
    BY DEF Sorted
  <1>0. i \in 1..(Len(s) + Len(t)) /\ j \in 1..(Len(s) + Len(t)) /\ Len(s) \in Nat /\ Len(t) \in Nat
    BY DEF Lists
  <1>1. CASE j <= Len(s)
    <2>1. i \in DOMAIN s /\ j \in DOMAIN s /\ (s \o t)[i] = s[i] /\ (s \o t)[j] = s[j]
      BY <1>0, <1>1 DEF Lists
    <2> QED
      BY <2>1 DEF Sorted
  <1>2. CASE i <= Len(s) /\ j > Len(s)
    <2>1. i \in DOMAIN s /\ j - Len(s) \in DOMAIN t /\ (s \o t)[i] = s[i] /\ (s \o t)[j] = t[j - Len(s)]
      BY <1>0, <1>2 DEF Lists
    <2> QED
      BY <2>1 DEF Follows, Locks
  <1>3. CASE i > Len(s)
    <2>1. /\ i - Len(s) \in DOMAIN t /\ j - Len(s) \in DOMAIN t /\ i - Len(s) < j - Len(s)
          /\ (s \o t)[i] = t[i - Len(s)] /\ (s \o t)[j] = t[j - Len(s)]
      BY <1>0, <1>3 DEF Lists
    <2> QED
      BY <2>1 DEF Sorted
  <1> QED
    BY <1>0, <1>1, <1>2, <1>3

(* The empty list and a list of one lock.                                  *)
LEMMA FewLocks ==
    /\ <<>> \in Lists /\ Locks(<<>>) = {} /\ Sorted(<<>>)
    /\ \A x \in LockRecs : <<x>> \in Lists /\ Locks(<<x>>) = {x} /\ Sorted(<<x>>)
  <1>1. <<>> \in Lists /\ Locks(<<>>) = {} /\ Sorted(<<>>)
    BY DEF Lists, Locks, Sorted
  <1>2. ASSUME NEW x \in LockRecs PROVE <<x>> \in Lists /\ Locks(<<x>>) = {x} /\ Sorted(<<x>>)
    <2>1. <<x>> \in Lists /\ DOMAIN <<x>> = {1} /\ <<x>>[1] = x
      BY DEF Lists
    <2> QED
      BY <2>1 DEF Locks, Sorted
  <1> QED
    BY <1>1, <1>2

(* What lf_split leaves of lf, if anything, before and after k.            *)
LEMMA BeforeOK ==
    ASSUME NEW lf \in LockRecs, NEW k \in Asked
    PROVE  /\ lf.start < k.start =>
                 \E x \in LockRecs :
                     /\ Before(lf, k) = <<x>>
                     /\ x.id = lf.id /\ x.ino = lf.ino /\ x.type = lf.type
                     /\ x.start = lf.start /\ x.end = k.start - 1 /\ x.sleepers = lf.sleepers
           /\ ~(lf.start < k.start) => Before(lf, k) = <<>>
  <1>1. CASE lf.start < k.start
    <2>1. PICK x : x = [lf EXCEPT !.end = k.start - 1]
      OBVIOUS
    <2>2. /\ x \in LockRecs /\ x.id = lf.id /\ x.ino = lf.ino /\ x.type = lf.type
          /\ x.start = lf.start /\ x.end = k.start - 1 /\ x.sleepers = lf.sleepers
      BY <1>1, <2>1 DEF LockRecs, Asked
    <2> QED
      BY <1>1, <2>1, <2>2 DEF Before
  <1> QED
    BY <1>1 DEF Before

LEMMA AfterOK ==
    ASSUME NEW lf \in LockRecs, NEW k \in Asked
    PROVE  /\ k.end # EOF /\ (lf.end = EOF \/ lf.end > k.end) =>
                 \E x \in LockRecs :
                     /\ After(lf, k) = <<x>>
                     /\ x.id = lf.id /\ x.ino = lf.ino /\ x.type = lf.type
                     /\ x.start = k.end + 1 /\ x.end = lf.end /\ x.sleepers = {}
           /\ ~(k.end # EOF /\ (lf.end = EOF \/ lf.end > k.end)) => After(lf, k) = <<>>
  <1>1. CASE k.end # EOF /\ (lf.end = EOF \/ lf.end > k.end)
    <2>1. PICK x : x = [lf EXCEPT !.start = k.end + 1, !.sleepers = {}]
      OBVIOUS
    <2>2. PICK m \in Nat : m = k.end + 1 /\ (lf.end = EOF \/ m <= lf.end)
      BY <1>1 DEF LockRecs, Asked, EOF
    <2>3. x = [lf EXCEPT !.start = m, !.sleepers = {}]
      BY <2>1, <2>2
    <2>4. /\ x \in LockRecs /\ x.id = lf.id /\ x.ino = lf.ino /\ x.type = lf.type
          /\ x.start = m /\ x.end = lf.end /\ x.sleepers = {}
      BY <2>2, <2>3 DEF LockRecs
    <2> QED
      BY <1>1, <2>1, <2>2, <2>4 DEF After
  <1> QED
    BY <1>1 DEF After

LEMMA WokenOK ==
    /\ Woken(<<>>) = <<>>
    /\ \A x \in LockRecs : \E y \in LockRecs :
          /\ Woken(<<x>>) = <<y>>
          /\ y.id = x.id /\ y.ino = x.ino /\ y.type = x.type
          /\ y.start = x.start /\ y.end = x.end /\ y.sleepers = {}
  <1>1. Woken(<<>>) = <<>>
    BY DEF Woken
  <1>2. ASSUME NEW x \in LockRecs
        PROVE  \E y \in LockRecs :
                  /\ Woken(<<x>>) = <<y>>
                  /\ y.id = x.id /\ y.ino = x.ino /\ y.type = x.type
                  /\ y.start = x.start /\ y.end = x.end /\ y.sleepers = {}
    <2>1. PICK y : y = [x EXCEPT !.sleepers = {}]
      OBVIOUS
    <2>2. /\ y \in LockRecs /\ y.id = x.id /\ y.ino = x.ino /\ y.type = x.type
          /\ y.start = x.start /\ y.end = x.end /\ y.sleepers = {}
      BY <2>1 DEF LockRecs
    <2>3. Woken(<<x>>) = [i \in {1} |-> [x EXCEPT !.sleepers = {}]]
      BY DEF Woken
    <2>4. Woken(<<x>>) = <<y>>
      BY <2>1, <2>3
    <2> QED
      BY <2>2, <2>4
  <1> QED
    BY <1>1, <1>2

(* The two pieces, with nobody asleep for them.                            *)
LEMMA PiecesOK ==
    ASSUME NEW lf \in LockRecs, NEW k \in Asked
    PROVE  /\ lf.start < k.start =>
                 \E x \in LockRecs :
                     /\ Woken(Before(lf, k)) = <<x>>
                     /\ x.id = lf.id /\ x.ino = lf.ino /\ x.type = lf.type
                     /\ x.start = lf.start /\ x.end = k.start - 1 /\ x.sleepers = {}
           /\ ~(lf.start < k.start) => Woken(Before(lf, k)) = <<>>
           /\ k.end # EOF /\ (lf.end = EOF \/ lf.end > k.end) =>
                 \E x \in LockRecs :
                     /\ Woken(After(lf, k)) = <<x>>
                     /\ x.id = lf.id /\ x.ino = lf.ino /\ x.type = lf.type
                     /\ x.start = k.end + 1 /\ x.end = lf.end /\ x.sleepers = {}
           /\ ~(k.end # EOF /\ (lf.end = EOF \/ lf.end > k.end)) => Woken(After(lf, k)) = <<>>
  <1>1. CASE lf.start < k.start
    <2>1. PICK x \in LockRecs :
              /\ Before(lf, k) = <<x>>
              /\ x.id = lf.id /\ x.ino = lf.ino /\ x.type = lf.type
              /\ x.start = lf.start /\ x.end = k.start - 1
      BY <1>1, BeforeOK
    <2> QED
      BY <1>1, <2>1, WokenOK, AfterOK
  <1>2. CASE ~(lf.start < k.start)
    BY <1>2, BeforeOK, WokenOK, AfterOK
  <1> QED
    BY <1>1, <1>2

(* How two locks lie to one another.                                       *)
LEMMA DisjointOK ==
    ASSUME NEW lf \in LockRecs, NEW k \in Asked
    PROVE  /\ Disjoint(lf, k) <=> Precedes(lf, k) \/ Precedes(k, lf)
           /\ Beyond(lf, k) <=> Precedes(k, lf)
           /\ ovcase(lf, k) \in {0, 1, 2, 3, 4, 5}
           /\ ovcase(lf, k) = 0 <=> Disjoint(lf, k)
           /\ ovcase(lf, k) = 1 <=> lf.start = k.start /\ lf.end = k.end
           /\ ovcase(lf, k) = 2 => /\ lf.start <= k.start /\ k.end # EOF
                                   /\ lf.end = EOF \/ lf.end >= k.end
                                   /\ lf.end # EOF => k.start <= lf.end
           /\ ovcase(lf, k) = 3 => /\ k.start <= lf.start
                                   /\ k.end = EOF \/ (lf.end # EOF /\ lf.end <= k.end)
           /\ ovcase(lf, k) = 4 => /\ lf.start < k.start
                                   /\ ~(k.end # EOF /\ (lf.end = EOF \/ lf.end > k.end))
                                   /\ lf.end = EOF \/ lf.end >= k.start
           /\ ovcase(lf, k) = 5 => /\ k.start <= lf.start /\ k.end # EOF /\ lf.start <= k.end
                                   /\ lf.end = EOF \/ lf.end > k.end
  <1>1. /\ lf.start \in Nat /\ lf.end \in Int /\ (lf.end = EOF \/ lf.start <= lf.end)
        /\ k.start \in Nat /\ k.end \in Int /\ (k.end = EOF \/ k.start <= k.end) /\ EOF = -1
    BY DEF LockRecs, Asked, EOF
  <1>2. PICK ls, le, ks, ke : ls = lf.start /\ le = lf.end /\ ks = k.start /\ ke = k.end
    OBVIOUS
  <1> QED
    BY <1>1, <1>2 DEF Disjoint, Beyond, Precedes, ovcase

-----------------------------------------------------------------------------
(* A pass is a function of the number of locks it has behind it.           *)

PassStates == [pre : Lists, post : Lists, lock : Asked, linked : BOOLEAN, freed : BOOLEAN,
               done : BOOLEAN, woken : SUBSET Procs, taken : SUBSET Procs]

IsClearPass(f, list, k, m) == f = [n \in 0..m |->
    IF n = 0 THEN Pass(k) ELSE lf_clearlock_case(f[n - 1], list[n])]
IsSetPass(f, list, k, m) == f = [n \in 0..m |->
    IF n = 0 THEN Pass(k) ELSE lf_setlock_case(f[n - 1], list[n])]

LEMMA ClearPassExists ==
    ASSUME NEW list \in Lists, NEW k
    PROVE  \E f : /\ IsClearPass(f, list, k, Len(list))
                  /\ lf_clearlock(list, k) = [list |-> f[Len(list)].pre,
                                              woken |-> f[Len(list)].woken, taken |-> {}]
  <1> DEFINE Bad == {m \in 0..Len(list) : ~\E f : IsClearPass(f, list, k, m)}
  <1>1. Bad = {}
    <2> SUFFICES ASSUME Bad # {} PROVE FALSE
      OBVIOUS
    <2>1. PICK m \in Bad : \A i \in Bad : m <= i
      <3>1. Bad \subseteq Nat
        OBVIOUS
      <3> HIDE DEF Bad
      <3> QED
        BY <3>1, Least
    <2>2. m # 0
      <3>1. IsClearPass([n \in 0..0 |-> Pass(k)], list, k, 0)
        BY DEF IsClearPass
      <3> QED
        BY <3>1
    <2>3. m - 1 \in 0..Len(list) /\ m \in 1..Len(list) /\ m - 1 \notin Bad
      BY <2>1, <2>2 DEF Lists
    <2>4. PICK f : IsClearPass(f, list, k, m - 1)
      BY <2>3
    <2>5. PICK g : g = [n \in 0..m |-> IF n = m THEN lf_clearlock_case(f[m - 1], list[m]) ELSE f[n]]
      OBVIOUS
    <2>6. IsClearPass(g, list, k, m)
      <3>1. ASSUME NEW n \in 0..m
            PROVE  g[n] = IF n = 0 THEN Pass(k) ELSE lf_clearlock_case(g[n - 1], list[n])
        BY <2>3, <2>4, <2>5 DEF IsClearPass
      <3> QED
        BY <3>1, <2>5, <2>3 DEF IsClearPass
    <2> QED
      BY <2>6
  <1>2. \E f : IsClearPass(f, list, k, Len(list))
    <2>1. Len(list) \in 0..Len(list)
      BY DEF Lists
    <2> QED
      BY <1>1, <2>1, Zenon
  <1>3. PICK f : f = CHOOSE a : IsClearPass(a, list, k, Len(list))
    OBVIOUS
  <1>4. IsClearPass(f, list, k, Len(list))
    BY <1>2, <1>3, Zenon
  <1>5. lf_clearlock(list, k) = [list |-> f[Len(list)].pre,
                                 woken |-> f[Len(list)].woken, taken |-> {}]
    BY <1>3, Zenon DEF lf_clearlock, IsClearPass
  <1> QED
    BY <1>4, <1>5

LEMMA SetPassExists ==
    ASSUME NEW list \in Lists, NEW k
    PROVE  \E f : /\ IsSetPass(f, list, k, Len(list))
                  /\ lf_setlock(list, k) =
                        [list |-> f[Len(list)].pre
                                  \o Linked(f[Len(list)])
                                  \o f[Len(list)].post,
                         woken |-> f[Len(list)].woken, taken |-> f[Len(list)].taken]
  <1> DEFINE Bad == {m \in 0..Len(list) : ~\E f : IsSetPass(f, list, k, m)}
  <1>1. Bad = {}
    <2> SUFFICES ASSUME Bad # {} PROVE FALSE
      OBVIOUS
    <2>1. PICK m \in Bad : \A i \in Bad : m <= i
      <3>1. Bad \subseteq Nat
        OBVIOUS
      <3> HIDE DEF Bad
      <3> QED
        BY <3>1, Least
    <2>2. m # 0
      <3>1. IsSetPass([n \in 0..0 |-> Pass(k)], list, k, 0)
        BY DEF IsSetPass
      <3> QED
        BY <3>1
    <2>3. m - 1 \in 0..Len(list) /\ m \in 1..Len(list) /\ m - 1 \notin Bad
      BY <2>1, <2>2 DEF Lists
    <2>4. PICK f : IsSetPass(f, list, k, m - 1)
      BY <2>3
    <2>5. PICK g : g = [n \in 0..m |-> IF n = m THEN lf_setlock_case(f[m - 1], list[m]) ELSE f[n]]
      OBVIOUS
    <2>6. IsSetPass(g, list, k, m)
      <3>1. ASSUME NEW n \in 0..m
            PROVE  g[n] = IF n = 0 THEN Pass(k) ELSE lf_setlock_case(g[n - 1], list[n])
        BY <2>3, <2>4, <2>5 DEF IsSetPass
      <3> QED
        BY <3>1, <2>5, <2>3 DEF IsSetPass
    <2> QED
      BY <2>6
  <1>2. \E f : IsSetPass(f, list, k, Len(list))
    <2>1. Len(list) \in 0..Len(list)
      BY DEF Lists
    <2> QED
      BY <1>1, <2>1, Zenon
  <1>3. PICK f : f = CHOOSE a : IsSetPass(a, list, k, Len(list))
    OBVIOUS
  <1>4. IsSetPass(f, list, k, Len(list))
    BY <1>2, <1>3, Zenon
  <1>5. lf_setlock(list, k) =
            [list |-> f[Len(list)].pre
                      \o Linked(f[Len(list)])
                      \o f[Len(list)].post,
             woken |-> f[Len(list)].woken, taken |-> f[Len(list)].taken]
    BY <1>3, Zenon DEF lf_setlock, IsSetPass
  <1> QED
    BY <1>4, <1>5

-----------------------------------------------------------------------------
(* What a pass does with the locks it has behind it, whatever the order it *)
(* leaves them in: n is how many they are, out is what became of them, T   *)
(* are the sleepers that went over to the lock itself, woken those who     *)
(* were woken.                                                             *)

Seen(list, n) == {list[i] : i \in 1..n}
Rest(list, n) == {list[i] : i \in (n + 1)..Len(list)}

Within(x, y) == y.start <= x.start /\ (y.end = EOF \/ (x.end # EOF /\ x.end <= y.end))
From(x, y) == x.id = y.id /\ x.ino = y.ino /\ Within(x, y) /\ x.sleepers \subseteq y.sleepers
(* z is in the way of all that x is in the way of.                         *)
Wider(z, x) == z.id = x.id /\ Within(x, z) /\ (z.type = x.type \/ z.type = "F_WRLCK")
Has(S, id, b, t) == \E x \in S : x.id = id /\ Covers(x, b) /\ x.type = t

(* What may become of one lock: the locks N, the sleepers T and W.         *)
Yield(lf, k, N, T, W) ==
    /\ N \subseteq LockRecs
    /\ lf.id # k.id => N = {lf} /\ T = {} /\ W = {}
    /\ \A x \in N : From(x, lf)
    /\ T \cup W \subseteq lf.sleepers
    /\ \A q \in lf.sleepers : \/ q \in W
                              \/ \E x \in N : q \in x.sleepers /\ Wider(x, lf)
                              \/ q \in T /\ Wider(k, lf)
    /\ \A b \in Nat : ~Covers(k, b) =>
          \A t : (\E x \in N : Covers(x, b) /\ x.type = t) <=> Covers(lf, b) /\ lf.type = t

InOrder(list, n, out) == \A x \in out, y \in Rest(list, n) : x.id = y.id => Precedes(x, y)
SameOthers(list, n, k, out) == \A x \in LockRecs :
    x.id # k.id => (x \in out <=> x \in Seen(list, n))
SameBytes(list, n, k, out) == \A b \in Nat : ~Covers(k, b) =>
    \A t : Has(out, k.id, b, t) <=> Has(Seen(list, n), k.id, b, t)
Sources(list, n, k, out, T, woken) ==
    /\ \A x \in out : \E y \in Seen(list, n) : From(x, y)
    /\ \A q \in T \cup woken : \E y \in Seen(list, n) : y.id = k.id /\ q \in y.sleepers
Sleepers(list, n, k, out, T, woken) == \A y \in Seen(list, n) : \A q \in y.sleepers :
    \/ q \in woken
    \/ \E x \in out : q \in x.sleepers /\ Wider(x, y)
    \/ q \in T /\ Wider(k, y)
Account(list, n, k, out, T, woken) ==
    /\ out \subseteq LockRecs
    /\ InOrder(list, n, out) /\ SameOthers(list, n, k, out) /\ SameBytes(list, n, k, out)
    /\ Sources(list, n, k, out, T, woken) /\ Sleepers(list, n, k, out, T, woken)

LEMMA SeenRest ==
    ASSUME NEW list \in Lists
    PROVE  /\ Seen(list, 0) = {} /\ Seen(list, Len(list)) = Locks(list)
           /\ Rest(list, Len(list)) = {} /\ Rest(list, 0) = Locks(list)
           /\ \A n \in 1..Len(list) : /\ list[n] \in LockRecs
                                      /\ Seen(list, n) = Seen(list, n - 1) \cup {list[n]}
                                      /\ Rest(list, n - 1) = Rest(list, n) \cup {list[n]}
           /\ \A n \in 0..Len(list) : Seen(list, n) \subseteq LockRecs /\ Rest(list, n) \subseteq LockRecs
  <1>1. Len(list) \in Nat /\ DOMAIN list = 1..Len(list) /\ \A n \in 1..Len(list) : list[n] \in LockRecs
    BY DEF Lists
  <1>2. Seen(list, 0) = {} /\ Rest(list, Len(list)) = {}
    BY <1>1 DEF Seen, Rest
  <1>3. Seen(list, Len(list)) = Locks(list) /\ Rest(list, 0) = Locks(list)
    BY <1>1 DEF Seen, Rest, Locks
  <1>4. ASSUME NEW n \in 1..Len(list)
        PROVE  /\ Seen(list, n) = Seen(list, n - 1) \cup {list[n]}
               /\ Rest(list, n - 1) = Rest(list, n) \cup {list[n]}
    <2>1. 1..n = (1..(n - 1)) \cup {n} /\ ((n - 1) + 1)..Len(list) = ((n + 1)..Len(list)) \cup {n}
      BY <1>1
    <2> QED
      BY <2>1 DEF Seen, Rest
  <1>5. ASSUME NEW n \in 0..Len(list)
        PROVE  Seen(list, n) \subseteq LockRecs /\ Rest(list, n) \subseteq LockRecs
    BY <1>1 DEF Seen, Rest
  <1> QED
    BY <1>1, <1>2, <1>3, <1>4, <1>5

LEMMA NextLock ==
    ASSUME NEW list \in Lists, NEW n \in 1..Len(list)
    PROVE  /\ list[n] \in LockRecs /\ list[n] \in Rest(list, n - 1)
           /\ Rest(list, n) \subseteq Rest(list, n - 1)
  <1>1. Rest(list, n - 1) = Rest(list, n) \cup {list[n]} /\ list[n] \in LockRecs
    BY SeenRest
  <1> QED
    BY <1>1

LEMMA SortedRest ==
    ASSUME NEW list \in Lists, Sorted(list), NEW n \in 1..Len(list)
    PROVE  /\ \A y \in Rest(list, n) : list[n].id = y.id => Precedes(list[n], y)
           /\ \A x \in Seen(list, n - 1) : x.id = list[n].id => Precedes(x, list[n])
  <1>1. Len(list) \in Nat /\ DOMAIN list = 1..Len(list)
    BY DEF Lists
  <1> QED
    BY <1>1 DEF Seen, Rest, Sorted

LEMMA WithinOK ==
    ASSUME NEW x \in LockRecs, NEW y \in LockRecs, Within(x, y)
    PROVE  /\ \A z \in LockRecs \cup Asked : Precedes(z, y) => Precedes(z, x)
           /\ \A z \in LockRecs \cup Asked : Precedes(y, z) => Precedes(x, z)
           /\ \A b \in Nat : Covers(x, b) => Covers(y, b)
           /\ \A z \in LockRecs \cup Asked : Within(z, x) => Within(z, y)
  BY DEF LockRecs, Asked, Within, Precedes, Covers, EOF

LEMMA AccountInit ==
    ASSUME NEW list \in Lists, NEW k
    PROVE  Account(list, 0, k, {}, {}, {})
  BY SeenRest DEF Account, InOrder, SameOthers, SameBytes, Sources, Sleepers, Has

LEMMA AccountStep ==
    ASSUME NEW list \in Lists, Sorted(list), NEW n \in 1..Len(list), NEW k \in Asked,
           NEW out, NEW T, NEW woken, NEW N, NEW T2, NEW W2,
           Account(list, n - 1, k, out, T, woken), Yield(list[n], k, N, T2, W2)
    PROVE  Account(list, n, k, out \cup N, T \cup T2, woken \cup W2)
  <1>1. PICK lf \in LockRecs : lf = list[n] /\ Yield(lf, k, N, T2, W2)
    BY SeenRest
  <1>2. PICK S, R, S0, R0 : /\ S = Seen(list, n) /\ R = Rest(list, n)
                            /\ S0 = Seen(list, n - 1) /\ R0 = Rest(list, n - 1)
    OBVIOUS
  <1>3. S = S0 \cup {lf} /\ R0 = R \cup {lf} /\ S \subseteq LockRecs /\ R \subseteq LockRecs
    <2>1. n \in 0..Len(list)
      BY DEF Lists
    <2> QED
      BY <1>1, <1>2, <2>1, SeenRest
  <1>4. out \subseteq LockRecs /\ N \subseteq LockRecs
    BY <1>1 DEF Account, Yield
  <1>5. InOrder(list, n, out \cup N)
    <2>1. ASSUME NEW x \in out, NEW y \in R, x.id = y.id PROVE Precedes(x, y)
      BY <1>2, <1>3, <2>1 DEF Account, InOrder
    <2>2. ASSUME NEW x \in N, NEW y \in R, x.id = y.id PROVE Precedes(x, y)
      <3>1. x \in LockRecs /\ y \in LockRecs /\ x.id = lf.id /\ Within(x, lf)
        BY <1>1, <1>3, <2>2 DEF Yield, From
      <3>2. Precedes(lf, y)
        BY <1>1, <1>2, <2>2, <3>1, SortedRest
      <3> QED
        BY <3>1, <3>2, WithinOK
    <2> QED
      BY <1>2, <2>1, <2>2 DEF InOrder
  <1>6. SameOthers(list, n, k, out \cup N)
    <2>1. ASSUME NEW x \in LockRecs, x.id # k.id PROVE x \in out \cup N <=> x \in S
      <3>1. x \in out <=> x \in S0
        BY <1>2, <2>1 DEF Account, SameOthers
      <3>2. x \in N <=> x = lf
        BY <1>1, <2>1 DEF Yield, From
      <3> QED
        BY <1>3, <3>1, <3>2
    <2> QED
      BY <1>2, <2>1 DEF SameOthers
  <1>7. SameBytes(list, n, k, out \cup N)
    <2>1. ASSUME NEW b \in Nat, ~Covers(k, b), NEW t
          PROVE  Has(out \cup N, k.id, b, t) <=> Has(S, k.id, b, t)
      <3>1. Has(out, k.id, b, t) <=> Has(S0, k.id, b, t)
        BY <1>2, <2>1 DEF Account, SameBytes
      <3>2. Has(N, k.id, b, t) <=> Has({lf}, k.id, b, t)
        <4>1. (\E x \in N : Covers(x, b) /\ x.type = t) <=> Covers(lf, b) /\ lf.type = t
          BY <1>1, <2>1 DEF Yield
        <4>2. \A x \in N : x.id = lf.id
          BY <1>1 DEF Yield, From
        <4> QED
          BY <4>1, <4>2 DEF Has
      <3> QED
        BY <1>3, <3>1, <3>2 DEF Has
    <2> QED
      BY <1>2, <2>1 DEF SameBytes
  <1>8. Sources(list, n, k, out \cup N, T \cup T2, woken \cup W2)
    <2>1. \A x \in out : \E y \in S : From(x, y)
      BY <1>2, <1>3 DEF Account, Sources
    <2>2. \A x \in N : From(x, lf)
      BY <1>1 DEF Yield
    <2>3. \A q \in T \cup woken : \E y \in S : y.id = k.id /\ q \in y.sleepers
      BY <1>2, <1>3 DEF Account, Sources
    <2>4. \A q \in T2 \cup W2 : lf.id = k.id /\ q \in lf.sleepers
      BY <1>1 DEF Yield
    <2> QED
      BY <1>2, <1>3, <2>1, <2>2, <2>3, <2>4 DEF Sources
  <1>9. Sleepers(list, n, k, out \cup N, T \cup T2, woken \cup W2)
    <2>1. ASSUME NEW y \in S0, NEW q \in y.sleepers
          PROVE  \/ q \in woken
                 \/ \E x \in out : q \in x.sleepers /\ Wider(x, y)
                 \/ q \in T /\ Wider(k, y)
      BY <1>2 DEF Account, Sleepers
    <2>2. ASSUME NEW q \in lf.sleepers
          PROVE  \/ q \in W2
                 \/ \E x \in N : q \in x.sleepers /\ Wider(x, lf)
                 \/ q \in T2 /\ Wider(k, lf)
      BY <1>1 DEF Yield
    <2> QED
      BY <1>2, <1>3, <2>1, <2>2 DEF Sleepers
  <1> QED
    BY <1>4, <1>5, <1>6, <1>7, <1>8, <1>9 DEF Account

(* A lock that stays as it is.                                             *)
LEMMA KeepYield ==
    ASSUME NEW lf \in LockRecs, NEW k
    PROVE  Yield(lf, k, {lf}, {}, {})
  <1>1. From(lf, lf) /\ Wider(lf, lf)
    BY DEF From, Wider, Within, LockRecs
  <1> QED
    BY <1>1 DEF Yield

(* A lock that k overlaps, cut to what lies outside k.                     *)
LEMMA CutYield ==
    ASSUME NEW lf \in LockRecs, NEW k \in Asked, ~Disjoint(lf, k), lf.id = k.id,
           NEW P, NEW Q, P = Woken(Before(lf, k)), Q = Woken(After(lf, k))
    PROVE  /\ P \in Lists /\ Q \in Lists /\ Sorted(P) /\ Sorted(Q) /\ Follows(P, Q)
           /\ \A x \in Locks(P) : x.id = lf.id /\ Precedes(x, k) /\ Within(x, lf)
           /\ \A x \in Locks(Q) : x.id = lf.id /\ Precedes(k, x) /\ Within(x, lf)
           /\ Yield(lf, k, Locks(P) \cup Locks(Q), {}, lf.sleepers)
  <1>0. /\ lf.start \in Nat /\ lf.end \in Int /\ (lf.end = EOF \/ lf.start <= lf.end)
        /\ k.start \in Nat /\ k.end \in Int /\ (k.end = EOF \/ k.start <= k.end) /\ EOF = -1
    BY DEF LockRecs, Asked, EOF
  <1>1. /\ P \in Lists /\ Sorted(P) /\ Locks(P) \subseteq LockRecs
        /\ \A x \in Locks(P) : /\ x.id = lf.id /\ x.ino = lf.ino /\ x.type = lf.type
                               /\ x.start = lf.start /\ x.end = k.start - 1 /\ x.sleepers = {}
        /\ lf.start < k.start <=> Locks(P) # {}
    <2>1. CASE lf.start < k.start
      <3>1. PICK x \in LockRecs :
                     /\ P = <<x>>
                     /\ x.id = lf.id /\ x.ino = lf.ino /\ x.type = lf.type
                     /\ x.start = lf.start /\ x.end = k.start - 1 /\ x.sleepers = {}
        BY <2>1, PiecesOK
      <3> QED
        BY <2>1, <3>1, FewLocks
    <2>2. CASE ~(lf.start < k.start)
      BY <2>2, PiecesOK, FewLocks
    <2> QED
      BY <2>1, <2>2
  <1>2. /\ Q \in Lists /\ Sorted(Q) /\ Locks(Q) \subseteq LockRecs
        /\ \A x \in Locks(Q) : /\ x.id = lf.id /\ x.ino = lf.ino /\ x.type = lf.type
                               /\ x.start = k.end + 1 /\ x.end = lf.end /\ x.sleepers = {}
        /\ k.end # EOF /\ (lf.end = EOF \/ lf.end > k.end) <=> Locks(Q) # {}
    <2>1. CASE k.end # EOF /\ (lf.end = EOF \/ lf.end > k.end)
      <3>1. PICK x \in LockRecs :
                     /\ Q = <<x>>
                     /\ x.id = lf.id /\ x.ino = lf.ino /\ x.type = lf.type
                     /\ x.start = k.end + 1 /\ x.end = lf.end /\ x.sleepers = {}
        BY <2>1, PiecesOK
      <3> QED
        BY <2>1, <3>1, FewLocks
    <2>2. CASE ~(k.end # EOF /\ (lf.end = EOF \/ lf.end > k.end))
      BY <2>2, PiecesOK, FewLocks
    <2> QED
      BY <2>1, <2>2
  <1>3. ASSUME NEW x \in Locks(P) PROVE x.id = lf.id /\ Precedes(x, k) /\ Within(x, lf) /\ From(x, lf)
    <2>1. lf.start < k.start /\ (lf.end = EOF \/ k.start <= lf.end)
      BY <1>0, <1>1 DEF Disjoint
    <2>2. Precedes(x, k) /\ Within(x, lf)
      BY <1>0, <1>1, <2>1 DEF Precedes, Within
    <2> QED
      BY <1>1, <2>2 DEF From
  <1>4. ASSUME NEW x \in Locks(Q) PROVE x.id = lf.id /\ Precedes(k, x) /\ Within(x, lf) /\ From(x, lf)
    <2>1. k.end # EOF /\ (lf.end = EOF \/ lf.end > k.end) /\ lf.start <= k.end
      BY <1>0, <1>2 DEF Disjoint
    <2>2. Precedes(k, x) /\ Within(x, lf)
      BY <1>0, <1>2, <2>1 DEF Precedes, Within
    <2> QED
      BY <1>2, <2>2 DEF From
  <1>5. Follows(P, Q)
    <2>1. ASSUME NEW x \in Locks(P), NEW y \in Locks(Q) PROVE Precedes(x, y)
      BY <1>0, <1>1, <1>2, <1>3, <1>4 DEF Precedes
    <2> QED
      BY <2>1 DEF Follows
  <1>6. ASSUME NEW b \in Nat, ~Covers(k, b), NEW t
        PROVE  (\E x \in Locks(P) \cup Locks(Q) : Covers(x, b) /\ x.type = t)
                  <=> Covers(lf, b) /\ lf.type = t
    <2>1. ASSUME NEW x \in Locks(P) \cup Locks(Q), Covers(x, b) PROVE Covers(lf, b)
      <3>1. x \in LockRecs /\ Within(x, lf)
        BY <1>1, <1>2, <1>3, <1>4
      <3> QED
        BY <2>1, <3>1, WithinOK
    <2>2. ASSUME Covers(lf, b), b < k.start PROVE \E x \in Locks(P) : Covers(x, b)
      <3>1. PICK x \in Locks(P) : TRUE
        BY <1>0, <1>1, <2>2 DEF Covers
      <3> QED
        BY <1>0, <1>1, <2>2, <3>1 DEF Covers
    <2>3. ASSUME Covers(lf, b), ~(b < k.start) PROVE \E x \in Locks(Q) : Covers(x, b)
      <3>1. k.end # EOF /\ b > k.end
        BY <1>0, <1>6, <2>3 DEF Covers
      <3>2. PICK x \in Locks(Q) : TRUE
        BY <1>0, <1>2, <2>3, <3>1 DEF Covers
      <3> QED
        BY <1>0, <1>2, <2>3, <3>1, <3>2 DEF Covers
    <2>4. \A x \in Locks(P) \cup Locks(Q) : x.type = lf.type
      BY <1>1, <1>2
    <2> QED
      BY <2>1, <2>2, <2>3, <2>4
  <1>7. Yield(lf, k, Locks(P) \cup Locks(Q), {}, lf.sleepers)
    BY <1>1, <1>2, <1>3, <1>4, <1>6 DEF Yield
  <1> QED
    BY <1>1, <1>2, <1>3, <1>4, <1>5, <1>7

-----------------------------------------------------------------------------
(* lf_clearlock.                                                           *)

ClearKeep(a, b, lf) ==
    /\ a.done \/ lf.id # a.lock.id \/ Precedes(lf, a.lock)
    /\ b.pre = a.pre \o <<lf>> /\ b.woken = a.woken /\ b.done = a.done
ClearBeyond(a, b, lf) ==
    /\ lf.id = a.lock.id /\ Precedes(a.lock, lf)
    /\ b.pre = a.pre \o <<lf>> /\ b.woken = a.woken /\ b.done = TRUE
ClearCut(a, b, lf) ==
    /\ ~a.done /\ lf.id = a.lock.id /\ ~Disjoint(lf, a.lock)
    /\ b.pre = a.pre \o Woken(Before(lf, a.lock)) \o Woken(After(lf, a.lock))
    /\ b.woken = a.woken \cup lf.sleepers /\ b.done = (ovcase(lf, a.lock) \in {1, 2, 5})

LEMMA ClearStep ==
    ASSUME NEW a \in PassStates, NEW lf \in LockRecs, NEW b, b = lf_clearlock_case(a, lf)
    PROVE  /\ b \in PassStates /\ b.lock = a.lock
           /\ ClearKeep(a, b, lf) \/ ClearBeyond(a, b, lf) \/ ClearCut(a, b, lf)
  <1> DEFINE keep == [a EXCEPT !.pre = Append(@, lf)]
             P == Woken(Before(lf, a.lock))
             Q == Woken(After(lf, a.lock))
             cut == [a EXCEPT !.pre = @ \o P \o Q, !.woken = @ \cup lf.sleepers]
  <1>1. a.lock \in Asked /\ a.pre \in Lists /\ a.woken \subseteq Procs /\ lf.sleepers \subseteq Procs
    BY DEF PassStates, LockRecs
  <1>2. Append(a.pre, lf) = a.pre \o <<lf>> /\ a.pre \o <<lf>> \in Lists
    BY <1>1 DEF Lists
  <1>3. P \in Lists /\ Q \in Lists
    BY <1>1, PiecesOK, FewLocks
  <1>4. a.pre \o P \o Q \in Lists
    BY <1>1, <1>3 DEF Lists
  <1>5. CASE a.done \/ lf.id # a.lock.id
    <2>1. b = [a EXCEPT !.pre = a.pre \o <<lf>>]
      BY <1>2, <1>5 DEF lf_clearlock_case
    <2> QED
      BY <1>2, <1>5, <2>1 DEF ClearKeep, PassStates
  <1>6. CASE ~(a.done \/ lf.id # a.lock.id) /\ Disjoint(lf, a.lock)
    <2>1. b = [a EXCEPT !.pre = a.pre \o <<lf>>, !.done = Beyond(lf, a.lock)]
      <3>1. b = [keep EXCEPT !.done = Beyond(lf, a.lock)]
        BY <1>1, <1>6, DisjointOK DEF lf_clearlock_case
      <3> QED
        BY <1>2, <3>1
    <2>2. Beyond(lf, a.lock) \in BOOLEAN
      BY DEF Beyond
    <2>3. b \in PassStates /\ b.lock = a.lock /\ b.pre = a.pre \o <<lf>> /\ b.woken = a.woken
      BY <1>2, <2>1, <2>2 DEF PassStates
    <2>4. b.done = Beyond(lf, a.lock)
      BY <2>1 DEF PassStates
    <2>5. CASE Beyond(lf, a.lock)
      BY <1>1, <1>6, <2>3, <2>4, <2>5, DisjointOK DEF ClearBeyond
    <2>6. CASE ~Beyond(lf, a.lock)
      <3>1. Precedes(lf, a.lock)
        BY <1>1, <1>6, <2>6, DisjointOK
      <3>2. a.done = FALSE /\ b.done = FALSE
        BY <1>6, <2>4, <2>6 DEF PassStates
      <3> QED
        BY <2>3, <3>1, <3>2 DEF ClearKeep
    <2> QED
      BY <2>5, <2>6
  <1>7. CASE ~(a.done \/ lf.id # a.lock.id) /\ ~Disjoint(lf, a.lock)
    <2>1. b = [cut EXCEPT !.done = ovcase(lf, a.lock) \in {1, 2, 5}]
      BY <1>1, <1>7, DisjointOK DEF lf_clearlock_case
    <2>2. PICK d : d = (ovcase(lf, a.lock) \in {1, 2, 5}) /\ d \in BOOLEAN
      <3>1. (ovcase(lf, a.lock) \in {1, 2, 5}) \in BOOLEAN
        OBVIOUS
      <3> QED
        BY <3>1, Zenon
    <2>3. b = [a EXCEPT !.pre = a.pre \o P \o Q, !.woken = a.woken \cup lf.sleepers, !.done = d]
      BY <2>1, <2>2
    <2>4. /\ b \in PassStates /\ b.lock = a.lock /\ b.pre = a.pre \o P \o Q
          /\ b.woken = a.woken \cup lf.sleepers /\ b.done = d
      <3>1. d \in BOOLEAN
        BY <2>2, Zenon
      <3> HIDE DEF P, Q
      <3> QED
        BY <1>1, <1>4, <2>3, <3>1 DEF PassStates
    <2> QED
      BY <1>7, <2>2, <2>4 DEF ClearCut
  <1> QED
    BY <1>5, <1>6, <1>7

(* Nobody sleeps for two locks.                                            *)
OneEach(S) == \A x, y \in S : \A q : q \in x.sleepers /\ q \in y.sleepers => x = y
Apart(S, woken) == \A x \in S : \A q \in x.sleepers : q \notin woken

LEMMA ApartStep ==
    ASSUME NEW list \in Lists, Sorted(list), NEW n \in 1..Len(list), NEW k \in Asked,
           NEW out, NEW T, NEW woken, NEW N, NEW T2, NEW W2, OneEach(Locks(list)),
           Account(list, n - 1, k, out, T, woken), Yield(list[n], k, N, T2, W2),
           Apart(out, woken), Apart(N, W2)
    PROVE  Apart(out \cup N, woken \cup W2)
  <1>1. PICK lf \in LockRecs : lf = list[n] /\ Yield(lf, k, N, T2, W2)
    BY SeenRest
  <1>2. ASSUME NEW y \in Seen(list, n - 1), NEW q, q \in y.sleepers, q \in lf.sleepers PROVE FALSE
    <2>1. n \in 1..Len(list) /\ n - 1 \in 0..Len(list)
      BY DEF Lists
    <2>2. y \in Locks(list) /\ lf \in Locks(list)
      BY <1>1, <2>1 DEF Seen, Locks, Lists
    <2>3. y = lf
      BY <1>2, <2>2 DEF OneEach
    <2>4. Precedes(lf, lf)
      BY <1>1, <2>3, SortedRest
    <2> QED
      BY <2>4 DEF Precedes, LockRecs
  <1>3. ASSUME NEW x \in out, NEW q \in x.sleepers, q \in W2 PROVE FALSE
    <2>1. PICK y \in Seen(list, n - 1) : From(x, y)
      BY DEF Account, Sources
    <2> QED
      BY <1>1, <1>2, <1>3, <2>1 DEF From, Yield
  <1>4. ASSUME NEW x \in N, NEW q \in x.sleepers, q \in woken PROVE FALSE
    <2>1. PICK y \in Seen(list, n - 1) : q \in y.sleepers
      BY <1>4 DEF Account, Sources
    <2> QED
      BY <1>1, <1>2, <2>1 DEF From, Yield
  <1> QED
    BY <1>3, <1>4 DEF Apart

(* k cuts none of its owner's locks in two.                                *)
Whole(list, k) == \A x \in Locks(list) : x.id = k.id => ovcase(x, k) \in {0, 1, 3}

ClearOK(a, list, n, k) ==
    /\ a \in PassStates /\ a.lock = k /\ Sorted(a.pre)
    /\ Account(list, n, k, Locks(a.pre), {}, a.woken)
    /\ a.done => \A y \in Rest(list, n) : y.id = k.id => Precedes(k, y)
    /\ \A x \in Locks(a.pre) : x.id = k.id => Precedes(x, k) \/ Precedes(k, x)
    /\ OneEach(Locks(list)) => Apart(Locks(a.pre), a.woken)
    /\ Whole(list, k) => Locks(a.pre) \subseteq Seen(list, n)

LEMMA ClearOKInit ==
    ASSUME NEW list \in Lists, NEW k \in Asked
    PROVE  ClearOK(Pass(k), list, 0, k)
  <1>1. PICK a : a = Pass(k)
    OBVIOUS
  <1>2. /\ a \in PassStates /\ a.lock = k /\ a.pre = <<>> /\ a.woken = {} /\ a.done = FALSE
    BY <1>1, FewLocks DEF Pass, PassStates
  <1>3. Locks(a.pre) = {} /\ Sorted(a.pre)
    BY <1>2, FewLocks
  <1>4. Account(list, 0, k, {}, {}, {})
    BY AccountInit
  <1> QED
    BY <1>1, <1>2, <1>3, <1>4 DEF ClearOK, Apart

(* Once the pass is done, the rest of the owner's locks lie beyond.        *)
LEMMA DoneBeyond ==
    ASSUME NEW lf \in LockRecs, NEW k \in Asked, ovcase(lf, k) \in {1, 2, 5},
           NEW y \in LockRecs, Precedes(lf, y)
    PROVE  Precedes(k, y)
  <1>1. /\ lf.start \in Nat /\ lf.end \in Int /\ k.start \in Nat /\ k.end \in Int /\ EOF = -1
        /\ y.start \in Nat
    BY DEF LockRecs, Asked, EOF
  <1> QED
    BY <1>1, DisjointOK DEF Precedes

LEMMA AppendSorted ==
    ASSUME NEW list \in Lists, NEW n \in 1..Len(list), NEW s \in Lists, NEW P \in Lists,
           NEW out, Locks(s) \subseteq out, out \subseteq LockRecs, InOrder(list, n - 1, out),
           Sorted(s), Sorted(P), \A x \in Locks(P) : x.id = list[n].id /\ Within(x, list[n])
    PROVE  Sorted(s \o P)
  <1>1. Follows(s, P)
    <2>1. ASSUME NEW x \in Locks(s), NEW y \in Locks(P), x.id = y.id PROVE Precedes(x, y)
      <3>1. list[n] \in LockRecs /\ x \in LockRecs /\ list[n] \in Rest(list, n - 1)
        BY NextLock
      <3>2. Precedes(x, list[n])
        BY <2>1, <3>1 DEF InOrder
      <3>3. y \in LockRecs
        BY DEF Lists, Locks
      <3> QED
        BY <3>1, <3>2, <3>3, WithinOK
    <2> QED
      BY <2>1 DEF Follows
  <1> QED
    BY <1>1, CatSorted

LEMMA ClearOKStep ==
    ASSUME NEW list \in Lists, Sorted(list), NEW n \in 1..Len(list), NEW k \in Asked,
           NEW a, ClearOK(a, list, n - 1, k), NEW b, b = lf_clearlock_case(a, list[n])
    PROVE  ClearOK(b, list, n, k)
  <1>1. PICK lf \in LockRecs : lf = list[n]
    BY SeenRest
  <1>2. /\ a \in PassStates /\ a.lock = k /\ Sorted(a.pre) /\ a.pre \in Lists
        /\ Account(list, n - 1, k, Locks(a.pre), {}, a.woken)
    BY DEF ClearOK, PassStates
  <1>3. /\ b \in PassStates /\ b.lock = k
        /\ ClearKeep(a, b, lf) \/ ClearBeyond(a, b, lf) \/ ClearCut(a, b, lf)
    BY <1>1, <1>2, ClearStep
  <1>4. lf \in Rest(list, n - 1) /\ Rest(list, n) \subseteq Rest(list, n - 1)
    BY <1>1, NextLock
  <1>5. /\ \A y \in Rest(list, n) : y.id = lf.id => Precedes(lf, y)
        /\ Rest(list, n) \subseteq LockRecs /\ Seen(list, n) = Seen(list, n - 1) \cup {lf}
        /\ lf \in Locks(list)
    <2>1. n \in 0..Len(list) /\ n \in DOMAIN list
      BY DEF Lists
    <2> QED
      BY <1>1, <2>1, SortedRest, SeenRest DEF Locks
  <1>6. ASSUME NEW P \in Lists, NEW W, b.pre = a.pre \o P, b.woken = a.woken \cup W,
               Yield(lf, k, Locks(P), {}, W), Sorted(P), Apart(Locks(P), W),
               \A x \in Locks(P) : x.id = k.id => Precedes(x, k) \/ Precedes(k, x),
               b.done => \A y \in Rest(list, n) : y.id = k.id => Precedes(k, y),
               Whole(list, k) => Locks(P) \subseteq {lf}
        PROVE  ClearOK(b, list, n, k)
    <2>1. Locks(b.pre) = Locks(a.pre) \cup Locks(P)
      BY <1>2, <1>6, CatLocks
    <2>2. Account(list, n, k, Locks(b.pre), {}, b.woken)
      <3>1. Account(list, n, k, Locks(a.pre) \cup Locks(P), {} \cup {}, a.woken \cup W)
        BY <1>1, <1>2, <1>6, AccountStep
      <3>2. {} \cup {} = {}
        OBVIOUS
      <3> QED
        BY <1>6, <2>1, <3>1, <3>2
    <2>3. Sorted(b.pre)
      <3>1. /\ \A x \in Locks(P) : x.id = list[n].id /\ Within(x, list[n])
            /\ Locks(a.pre) \subseteq LockRecs /\ InOrder(list, n - 1, Locks(a.pre))
        BY <1>1, <1>2, <1>6 DEF Yield, From, Account
      <3>2. Sorted(a.pre \o P)
        BY <1>2, <1>6, <3>1, AppendSorted
      <3> QED
        BY <1>6, <3>2
    <2>4. OneEach(Locks(list)) => Apart(Locks(b.pre), b.woken)
      <3> SUFFICES ASSUME OneEach(Locks(list)) PROVE Apart(Locks(b.pre), b.woken)
        OBVIOUS
      <3>1. Apart(Locks(a.pre), a.woken)
        BY DEF ClearOK
      <3>2. Apart(Locks(a.pre) \cup Locks(P), a.woken \cup W)
        BY <1>1, <1>2, <1>6, <3>1, ApartStep
      <3> QED
        BY <1>6, <2>1, <3>2
    <2>5. Whole(list, k) => Locks(b.pre) \subseteq Seen(list, n)
      BY <1>5, <1>6, <2>1 DEF ClearOK
    <2>6. \A x \in Locks(b.pre) : x.id = k.id => Precedes(x, k) \/ Precedes(k, x)
      BY <1>6, <2>1 DEF ClearOK
    <2> QED
      BY <1>3, <1>6, <2>2, <2>3, <2>4, <2>5, <2>6 DEF ClearOK
  <1>7. <<lf>> \in Lists /\ Locks(<<lf>>) = {lf} /\ Sorted(<<lf>>) /\ Yield(lf, k, Locks(<<lf>>), {}, {})
    BY FewLocks, KeepYield
  <1>8. CASE ClearKeep(a, b, lf)
    <2>1. b.pre = a.pre \o <<lf>> /\ b.woken = a.woken \cup {}
      BY <1>8 DEF ClearKeep
    <2>2. lf.id = k.id => Precedes(lf, k) \/ Precedes(k, lf)
      BY <1>2, <1>4, <1>8 DEF ClearKeep, ClearOK
    <2>3. b.done => \A y \in Rest(list, n) : y.id = k.id => Precedes(k, y)
      BY <1>4, <1>8 DEF ClearKeep, ClearOK
    <2>4. Apart(Locks(<<lf>>), {})
      BY DEF Apart
    <2> QED
      BY <1>6, <1>7, <2>1, <2>2, <2>3, <2>4
  <1>9. CASE ClearBeyond(a, b, lf)
    <2>1. b.pre = a.pre \o <<lf>> /\ b.woken = a.woken \cup {}
      BY <1>9 DEF ClearBeyond
    <2>2. lf.id = k.id /\ Precedes(k, lf)
      BY <1>2, <1>9 DEF ClearBeyond
    <2>3. \A y \in Rest(list, n) : y.id = k.id => Precedes(k, y)
      <3>1. ASSUME NEW y \in Rest(list, n), y.id = k.id PROVE Precedes(k, y)
        <4>1. Precedes(lf, y) /\ y \in LockRecs
          BY <1>5, <2>2, <3>1
        <4> QED
          BY <2>2, <4>1 DEF Precedes, LockRecs, Asked
      <3> QED
        BY <3>1
    <2>4. Apart(Locks(<<lf>>), {})
      BY DEF Apart
    <2> QED
      BY <1>6, <1>7, <2>1, <2>2, <2>3, <2>4
  <1>10. CASE ClearCut(a, b, lf)
    <2>1. PICK P, Q : P = Woken(Before(lf, k)) /\ Q = Woken(After(lf, k))
      OBVIOUS
    <2>2. lf.id = k.id /\ ~Disjoint(lf, k)
      BY <1>2, <1>10 DEF ClearCut
    <2>3. /\ P \in Lists /\ Q \in Lists /\ Sorted(P) /\ Sorted(Q) /\ Follows(P, Q)
          /\ \A x \in Locks(P) : x.id = lf.id /\ Precedes(x, k) /\ Within(x, lf)
          /\ \A x \in Locks(Q) : x.id = lf.id /\ Precedes(k, x) /\ Within(x, lf)
          /\ Yield(lf, k, Locks(P) \cup Locks(Q), {}, lf.sleepers)
      BY <2>1, <2>2, CutYield
    <2>4. P \o Q \in Lists /\ Locks(P \o Q) = Locks(P) \cup Locks(Q) /\ Sorted(P \o Q)
      BY <2>3, CatLocks, CatSorted
    <2>5. b.pre = a.pre \o (P \o Q) /\ b.woken = a.woken \cup lf.sleepers
      <3>1. b.pre = a.pre \o P \o Q /\ b.woken = a.woken \cup lf.sleepers
        BY <1>2, <1>10, <2>1 DEF ClearCut
      <3>2. a.pre \o P \o Q = a.pre \o (P \o Q)
        BY <1>2, <2>3, CatAssoc
      <3> QED
        BY <3>1, <3>2
    <2>6. b.done => \A y \in Rest(list, n) : y.id = k.id => Precedes(k, y)
      <3> SUFFICES ASSUME b.done PROVE \A y \in Rest(list, n) : y.id = k.id => Precedes(k, y)
        OBVIOUS
      <3>1. ovcase(lf, k) \in {1, 2, 5}
        BY <1>2, <1>10, Zenon DEF ClearCut
      <3> QED
        BY <1>5, <2>2, <3>1, DoneBeyond
    <2>7. \A x \in Locks(P \o Q) : x.id = k.id => Precedes(x, k) \/ Precedes(k, x)
      BY <2>3, <2>4
    <2>8. Whole(list, k) => Locks(P \o Q) \subseteq {lf}
      <3> SUFFICES ASSUME Whole(list, k) PROVE Locks(P) = {} /\ Locks(Q) = {}
        BY <2>4
      <3>1. ovcase(lf, k) \in {1, 3}
        BY <1>5, <2>2, DisjointOK DEF Whole
      <3>2. ~(lf.start < k.start) /\ ~(k.end # EOF /\ (lf.end = EOF \/ lf.end > k.end))
        <4>1. /\ lf.start \in Nat /\ lf.end \in Int /\ k.start \in Nat /\ k.end \in Int /\ EOF = -1
              /\ k.end = EOF \/ k.end \in Nat
          BY DEF LockRecs, Asked, EOF
        <4> QED
          BY <3>1, <4>1, DisjointOK
      <3> QED
        BY <2>1, <3>2, PiecesOK, FewLocks
    <2>9. Apart(Locks(P \o Q), lf.sleepers)
      <3>1. \A x \in Locks(P \o Q) : x.sleepers = {}
        BY <2>1, <2>4, PiecesOK, FewLocks
      <3> QED
        BY <3>1 DEF Apart
    <2> QED
      BY <1>6, <2>3, <2>4, <2>5, <2>6, <2>7, <2>8, <2>9
  <1> QED
    BY <1>3, <1>8, <1>9, <1>10

(* What lf_clearlock does to a list.                                       *)
LEMMA ClearResult ==
    ASSUME NEW list \in Lists, Sorted(list), NEW k \in Asked, NEW r, r = lf_clearlock(list, k)
    PROVE  /\ r.list \in Lists /\ r.woken \subseteq Procs /\ r.taken = {} /\ Sorted(r.list)
           /\ r = [list |-> r.list, woken |-> r.woken, taken |-> r.taken]
           /\ Account(list, Len(list), k, Locks(r.list), {}, r.woken)
           /\ \A x \in Locks(r.list) : x.id = k.id => Precedes(x, k) \/ Precedes(k, x)
           /\ OneEach(Locks(list)) => Apart(Locks(r.list), r.woken)
           /\ Whole(list, k) => Locks(r.list) \subseteq Locks(list)
  <1>1. PICK f : /\ IsClearPass(f, list, k, Len(list))
                 /\ r = [list |-> f[Len(list)].pre, woken |-> f[Len(list)].woken, taken |-> {}]
    BY ClearPassExists
  <1>2. /\ Len(list) \in Nat /\ f[0] = Pass(k)
        /\ \A n \in 1..Len(list) : f[n] = lf_clearlock_case(f[n - 1], list[n])
    <2>1. Len(list) \in Nat
      BY DEF Lists
    <2>2. f[0] = Pass(k)
      BY <1>1, <2>1 DEF IsClearPass
    <2>3. ASSUME NEW n \in 1..Len(list) PROVE f[n] = lf_clearlock_case(f[n - 1], list[n])
      BY <1>1, <2>1 DEF IsClearPass
    <2> QED
      BY <2>1, <2>2, <2>3
  <1> DEFINE Bad == {n \in 0..Len(list) : ~ClearOK(f[n], list, n, k)}
  <1>3. Bad = {}
    <2> SUFFICES ASSUME Bad # {} PROVE FALSE
      OBVIOUS
    <2>1. PICK m \in Bad : \A i \in Bad : m <= i
      <3>1. Bad \subseteq Nat
        OBVIOUS
      <3> HIDE DEF Bad
      <3> QED
        BY <3>1, Least
    <2>2. m # 0
      BY <1>2, ClearOKInit
    <2>3. m \in 1..Len(list) /\ m - 1 \in 0..Len(list) /\ m - 1 \notin Bad
      BY <1>2, <2>1, <2>2
    <2>4. ClearOK(f[m - 1], list, m - 1, k)
      BY <2>3
    <2>5. ClearOK(f[m], list, m, k)
      BY <1>2, <2>3, <2>4, ClearOKStep
    <2> QED
      BY <2>1, <2>5
  <1>4. ClearOK(f[Len(list)], list, Len(list), k)
    <2>1. Len(list) \in 0..Len(list)
      BY <1>2
    <2> QED
      BY <1>3, <2>1
  <1>5. PICK e : e = f[Len(list)]
    OBVIOUS
  <1>6. r = [list |-> e.pre, woken |-> e.woken, taken |-> {}] /\ ClearOK(e, list, Len(list), k)
    BY <1>1, <1>4, <1>5
  <1>7. r.list = e.pre /\ r.woken = e.woken /\ r.taken = {}
    BY <1>6
  <1>8. e.pre \in Lists /\ e.woken \subseteq Procs
    BY <1>6 DEF ClearOK, PassStates
  <1>9. r = [list |-> r.list, woken |-> r.woken, taken |-> r.taken]
    BY <1>6, <1>7
  <1> QED
    BY <1>6, <1>7, <1>8, <1>9, SeenRest DEF ClearOK

-----------------------------------------------------------------------------
(* lf_setlock.                                                             *)

SameLock(x, y) == /\ x.id = y.id /\ x.ino = y.ino /\ x.type = y.type
                  /\ x.start = y.start /\ x.end = y.end
Downgrade(lf, k) == k.type = "F_RDLCK" /\ lf.type = "F_WRLCK"

SetKeep(a, b, lf) ==
    /\ a.done \/ lf.id # a.lock.id \/ Precedes(lf, a.lock)
    /\ a.linked => b.pre = a.pre /\ b.post = a.post \o <<lf>>
    /\ ~a.linked => b.pre = a.pre \o <<lf>> /\ b.post = a.post
    /\ b.lock = a.lock /\ b.woken = a.woken /\ b.taken = a.taken
    /\ b.linked = a.linked /\ b.freed = a.freed /\ b.done = a.done
SetBeyond(a, b, lf) ==
    /\ ~a.done /\ lf.id = a.lock.id /\ Precedes(a.lock, lf)
    /\ b.pre = a.pre /\ b.post = a.post \o <<lf>>
    /\ b.lock = a.lock /\ b.woken = a.woken /\ b.taken = a.taken
    /\ b.linked = TRUE /\ b.freed = a.freed /\ b.done = TRUE
SetStand(a, b, lf, x) ==
    /\ ~a.done /\ lf.id = a.lock.id
    /\ \/ lf.start = a.lock.start /\ lf.end = a.lock.end
       \/ ovcase(lf, a.lock) = 2 /\ lf.type = a.lock.type
    /\ x \in LockRecs /\ x.id = lf.id /\ x.ino = lf.ino /\ x.type = a.lock.type
    /\ x.start = lf.start /\ x.end = lf.end
    /\ Downgrade(lf, a.lock) => x.sleepers = {} /\ b.woken = a.woken \cup lf.sleepers
    /\ ~Downgrade(lf, a.lock) => x.sleepers = lf.sleepers /\ b.woken = a.woken
    /\ a.linked => b.pre = a.pre /\ b.post = a.post \o <<x>>
    /\ ~a.linked => b.pre = a.pre \o <<x>> /\ b.post = a.post
    /\ b.lock = a.lock /\ b.taken = a.taken
    /\ b.linked = TRUE /\ b.freed = TRUE /\ b.done = TRUE
SetTake(a, b, lf) ==
    /\ ~a.done /\ lf.id = a.lock.id /\ ovcase(lf, a.lock) = 3
    /\ b.pre = a.pre /\ b.post = a.post
    /\ b.linked = TRUE /\ b.freed = a.freed /\ b.done = a.done
    /\ SameLock(b.lock, a.lock)
    /\ Downgrade(lf, a.lock) =>
          b.lock = a.lock /\ b.taken = a.taken /\ b.woken = a.woken \cup lf.sleepers
    /\ ~Downgrade(lf, a.lock) =>
          /\ b.lock.sleepers = a.lock.sleepers \cup lf.sleepers
          /\ b.taken = a.taken \cup lf.sleepers /\ b.woken = a.woken
SetSplit(a, b, lf) ==
    /\ ~a.done /\ lf.id = a.lock.id /\ ovcase(lf, a.lock) \in {2, 4, 5}
    /\ b.pre = a.pre \o Woken(Before(lf, a.lock)) /\ b.post = a.post \o Woken(After(lf, a.lock))
    /\ b.lock = a.lock /\ b.woken = a.woken \cup lf.sleepers /\ b.taken = a.taken
    /\ b.linked = TRUE /\ b.freed = a.freed /\ b.done = (ovcase(lf, a.lock) \in {2, 5})

LEMMA SetStep ==
    ASSUME NEW a \in PassStates, a.lock \in LockRecs, NEW lf \in LockRecs,
           NEW b, b = lf_setlock_case(a, lf)
    PROVE  /\ b \in PassStates /\ b.lock \in LockRecs
           /\ \/ SetKeep(a, b, lf) \/ SetBeyond(a, b, lf) \/ \E x : SetStand(a, b, lf, x)
              \/ SetTake(a, b, lf) \/ SetSplit(a, b, lf)
  <1> DEFINE k == a.lock
             c == ovcase(lf, k)
             put(s) == IF a.linked THEN [a EXCEPT !.post = @ \o s] ELSE [a EXCEPT !.pre = @ \o s]
             P == Woken(Before(lf, k))
             Q == Woken(After(lf, k))
  <1>1. /\ a.lock \in Asked /\ a.pre \in Lists /\ a.post \in Lists /\ a.woken \subseteq Procs
        /\ a.taken \subseteq Procs /\ lf.sleepers \subseteq Procs /\ k.sleepers \subseteq Procs
        /\ a.linked \in BOOLEAN /\ a.done \in BOOLEAN /\ a.freed \in BOOLEAN
    BY DEF PassStates, LockRecs
  <1>2. Append(a.post, lf) = a.post \o <<lf>> /\ a.pre \o <<lf>> \in Lists /\ a.post \o <<lf>> \in Lists
    BY <1>1 DEF Lists
  <1>3. a.pre \o P \in Lists /\ a.post \o Q \in Lists
    <2>1. P \in Lists /\ Q \in Lists
      BY <1>1, PiecesOK, FewLocks
    <2> QED
      BY <1>1, <2>1, CatLocks
  <1>4. CASE a.done \/ lf.id # k.id \/ (c = 0 /\ ~Beyond(lf, k))
    <2>1. b = put(<<lf>>)
      BY <1>4 DEF lf_setlock_case
    <2>2. a.done \/ lf.id # a.lock.id \/ Precedes(lf, a.lock)
      BY <1>1, <1>4, DisjointOK
    <2>3. CASE a.linked
      <3>1. b = [a EXCEPT !.post = a.post \o <<lf>>]
        BY <2>1, <2>3
      <3>2. b \in PassStates /\ b.pre = a.pre /\ b.post = a.post \o <<lf>> /\ b.lock = a.lock
            /\ b.woken = a.woken /\ b.taken = a.taken
            /\ b.linked = a.linked /\ b.freed = a.freed /\ b.done = a.done
        BY <1>2, <3>1 DEF PassStates
      <3> QED
        BY <2>2, <2>3, <3>2 DEF SetKeep
    <2>4. CASE ~a.linked
      <3>1. b = [a EXCEPT !.pre = a.pre \o <<lf>>]
        BY <2>1, <2>4
      <3>2. b \in PassStates /\ b.post = a.post /\ b.pre = a.pre \o <<lf>> /\ b.lock = a.lock
            /\ b.woken = a.woken /\ b.taken = a.taken
            /\ b.linked = a.linked /\ b.freed = a.freed /\ b.done = a.done
        BY <1>2, <3>1 DEF PassStates
      <3> QED
        BY <2>2, <2>4, <3>2 DEF SetKeep
    <2> QED
      BY <2>3, <2>4
  <1>5. CASE ~(a.done \/ lf.id # k.id) /\ c = 0 /\ Beyond(lf, k)
    <2>1. b = [a EXCEPT !.post = a.post \o <<lf>>, !.linked = TRUE, !.done = TRUE]
      BY <1>2, <1>5 DEF lf_setlock_case
    <2>2. b \in PassStates /\ b.post = a.post \o <<lf>> /\ b.pre = a.pre /\ b.lock = a.lock
          /\ b.woken = a.woken /\ b.taken = a.taken
          /\ b.linked = TRUE /\ b.freed = a.freed /\ b.done = TRUE
      BY <1>2, <2>1 DEF PassStates
    <2> QED
      BY <1>1, <1>5, <2>2, DisjointOK DEF SetBeyond
  <1>6. CASE ~(a.done \/ lf.id # k.id) /\ (c = 1 \/ (c = 2 /\ lf.type = k.type))
    <2>1. PICK d : d \in BOOLEAN /\ (d <=> Downgrade(lf, k))
      <3>1. Downgrade(lf, k) \in BOOLEAN
        BY DEF Downgrade
      <3> QED
        BY <3>1, Zenon
    <2>2. PICK x : x = [lf EXCEPT !.type = k.type, !.sleepers = IF d THEN {} ELSE @]
      OBVIOUS
    <2>3. PICK w : w = IF d THEN a.woken \cup lf.sleepers ELSE a.woken
      OBVIOUS
    <2>4. b = [put(<<x>>) EXCEPT !.freed = TRUE, !.linked = TRUE, !.done = TRUE, !.woken = w]
      <3>1. b = [put(<<[lf EXCEPT !.type = k.type,
                                  !.sleepers = IF Downgrade(lf, k) THEN {} ELSE @]>>)
                    EXCEPT !.freed = TRUE, !.linked = TRUE, !.done = TRUE,
                           !.woken = IF Downgrade(lf, k) THEN @ \cup lf.sleepers ELSE @]
        BY <1>6 DEF lf_setlock_case, Downgrade
      <3>2. CASE a.linked
        BY <2>1, <2>2, <2>3, <3>1, <3>2 DEF PassStates
      <3>3. CASE ~a.linked
        BY <2>1, <2>2, <2>3, <3>1, <3>3 DEF PassStates
      <3> QED
        BY <3>2, <3>3
    <2>5. /\ x \in LockRecs /\ x.id = lf.id /\ x.ino = lf.ino /\ x.type = k.type
          /\ x.start = lf.start /\ x.end = lf.end
          /\ x.sleepers = IF d THEN {} ELSE lf.sleepers
      BY <2>2 DEF LockRecs
    <2>6. a.pre \o <<x>> \in Lists /\ a.post \o <<x>> \in Lists /\ w \subseteq Procs
      BY <1>1, <2>3, <2>5 DEF Lists
    <2>7. b \in PassStates /\ b.lock = a.lock /\ b.woken = w /\ b.taken = a.taken
          /\ b.linked = TRUE /\ b.freed = TRUE /\ b.done = TRUE
          /\ (a.linked => b.pre = a.pre /\ b.post = a.post \o <<x>>)
          /\ (~a.linked => b.pre = a.pre \o <<x>> /\ b.post = a.post)
      <3>1. CASE a.linked
        <4>1. b = [a EXCEPT !.post = a.post \o <<x>>, !.freed = TRUE, !.linked = TRUE, !.done = TRUE,
                            !.woken = w]
          BY <2>4, <3>1
        <4> QED
          BY <2>6, <3>1, <4>1 DEF PassStates
      <3>2. CASE ~a.linked
        <4>1. b = [a EXCEPT !.pre = a.pre \o <<x>>, !.freed = TRUE, !.linked = TRUE, !.done = TRUE,
                            !.woken = w]
          BY <2>4, <3>2
        <4> QED
          BY <2>6, <3>2, <4>1 DEF PassStates
      <3> QED
        BY <3>1, <3>2
    <2>8. \/ lf.start = k.start /\ lf.end = k.end
          \/ c = 2 /\ lf.type = k.type
      BY <1>1, <1>6, DisjointOK
    <2>9. SetStand(a, b, lf, x)
      BY <1>6, <2>1, <2>3, <2>5, <2>7, <2>8 DEF SetStand
    <2> QED
      BY <2>7, <2>9
  <1>7. CASE ~(a.done \/ lf.id # k.id) /\ c = 3
    <2>1. CASE Downgrade(lf, k)
      <3>1. b = [a EXCEPT !.linked = TRUE, !.woken = a.woken \cup lf.sleepers]
        BY <1>7, <2>1 DEF lf_setlock_case, Downgrade
      <3>2. b \in PassStates /\ b.pre = a.pre /\ b.post = a.post /\ b.lock = a.lock
            /\ b.woken = a.woken \cup lf.sleepers /\ b.taken = a.taken
            /\ b.linked = TRUE /\ b.freed = a.freed /\ b.done = a.done
        BY <1>1, <3>1 DEF PassStates
      <3> QED
        BY <1>7, <2>1, <3>2 DEF SetTake, SameLock
    <2>2. CASE ~Downgrade(lf, k)
      <3>1. PICK l : l = [k EXCEPT !.sleepers = k.sleepers \cup lf.sleepers]
        OBVIOUS
      <3>2. l \in LockRecs /\ SameLock(l, k) /\ l.sleepers = k.sleepers \cup lf.sleepers /\ l \in Asked
        BY <1>1, <3>1 DEF LockRecs, SameLock, Asked
      <3>3. b = [a EXCEPT !.linked = TRUE, !.lock = l, !.taken = a.taken \cup lf.sleepers]
        <4>1. b = [a EXCEPT !.linked = TRUE, !.lock.sleepers = @ \cup lf.sleepers,
                            !.taken = @ \cup lf.sleepers]
          BY <1>7, <2>2 DEF lf_setlock_case, Downgrade
        <4> QED
          BY <3>1, <4>1 DEF PassStates
      <3>4. b \in PassStates /\ b.pre = a.pre /\ b.post = a.post /\ b.lock = l
            /\ b.woken = a.woken /\ b.taken = a.taken \cup lf.sleepers
            /\ b.linked = TRUE /\ b.freed = a.freed /\ b.done = a.done
        BY <1>1, <3>2, <3>3 DEF PassStates
      <3> QED
        BY <1>7, <2>2, <3>2, <3>4 DEF SetTake
    <2> QED
      BY <2>1, <2>2
  <1>8. CASE ~(a.done \/ lf.id # k.id) /\ (c \in {4, 5} \/ (c = 2 /\ lf.type # k.type))
    <2>1. PICK d : d = (c \in {2, 5}) /\ d \in BOOLEAN
      <3>1. (c \in {2, 5}) \in BOOLEAN
        OBVIOUS
      <3> QED
        BY <3>1, Zenon
    <2>2. d \in BOOLEAN
      BY <2>1, Zenon
    <2>3. b = [a EXCEPT !.pre = a.pre \o P, !.post = a.post \o Q, !.linked = TRUE, !.done = d,
                        !.woken = a.woken \cup lf.sleepers]
      <3>1. b = [a EXCEPT !.pre = a.pre \o P, !.post = a.post \o Q, !.linked = TRUE,
                          !.done = (c \in {2, 5}), !.woken = a.woken \cup lf.sleepers]
        BY <1>8 DEF lf_setlock_case
      <3> QED
        BY <2>1, <3>1
    <2>4. /\ b \in PassStates /\ b.pre = a.pre \o P /\ b.post = a.post \o Q /\ b.lock = a.lock
          /\ b.woken = a.woken \cup lf.sleepers /\ b.taken = a.taken
          /\ b.linked = TRUE /\ b.freed = a.freed /\ b.done = d
      <3> HIDE DEF P, Q, k
      <3> QED
        BY <1>1, <1>3, <2>2, <2>3 DEF PassStates
    <2> QED
      BY <1>8, <2>1, <2>4 DEF SetSplit
  <1> QED
    BY <1>1, <1>4, <1>5, <1>6, <1>7, <1>8, DisjointOK

Out(a) == Locks(a.pre) \cup Locks(a.post)

(* k meets its owner's locks only where they have its own range.           *)
Exact(list, k) == \A x \in Locks(list) : x.id = k.id => ovcase(x, k) \in {0, 1}
SameRange(x, y) == /\ x.id = y.id /\ x.ino = y.ino /\ x.start = y.start /\ x.end = y.end
                   /\ x.sleepers \subseteq y.sleepers

(* The order of the locks, and where the lock is among them.               *)
SetOrder(a, list, n, k) ==
    /\ Sorted(a.pre) /\ Sorted(a.post) /\ Follows(a.pre, a.post)
    /\ ~a.freed => /\ \A x \in Locks(a.pre) : x.id = k.id => Precedes(x, k)
                   /\ \A x \in Locks(a.post) : x.id = k.id => Precedes(k, x)
(* What is known about the locks to come.                                  *)
SetAhead(a, list, n, k) ==
    /\ a.done /\ ~a.freed => \A y \in Rest(list, n) : y.id = k.id => Precedes(k, y)
    /\ a.linked /\ ~a.done => \A y \in Rest(list, n) : y.id = k.id => k.start < y.start
SetFlags(a, list, n, k) ==
    /\ ~a.linked => a.post = <<>> /\ ~a.done /\ a.lock.sleepers = {}
    /\ a.freed => /\ a.done /\ a.lock.sleepers = {}
                  /\ \E x \in Out(a) : x.id = k.id /\ x.type = k.type /\ Within(k, x)
    /\ a.taken = a.lock.sleepers
SetExact(a, list, n, k) ==
    /\ Exact(list, k) => a.taken = {} /\ \A x \in Out(a) : \E y \in Seen(list, n) : SameRange(x, y)
    /\ Exact(list, k) /\ OneEach(Locks(list)) => Apart(Out(a), a.woken)

SetOK(a, list, n, k) ==
    /\ a \in PassStates /\ a.lock \in LockRecs /\ SameLock(a.lock, k)
    /\ Account(list, n, k, Out(a), a.lock.sleepers, a.woken)
    /\ SetOrder(a, list, n, k) /\ SetAhead(a, list, n, k)
    /\ SetFlags(a, list, n, k) /\ SetExact(a, list, n, k)

(* Any step: P and Q go to the ends of the two lists.                      *)
LEMMA SetFrame ==
    ASSUME NEW list \in Lists, Sorted(list), NEW n \in 1..Len(list), NEW k \in Asked,
           NEW a \in PassStates, NEW b \in PassStates, SetOK(a, list, n - 1, k),
           NEW P \in Lists, NEW Q \in Lists, NEW T, NEW W,
           b.pre = a.pre \o P, b.post = a.post \o Q,
           b.lock.sleepers = a.lock.sleepers \cup T, b.woken = a.woken \cup W,
           Yield(list[n], k, Locks(P) \cup Locks(Q), T, W),
           Sorted(P), Sorted(Q), Follows(P, Q), P = <<>> \/ a.post = <<>>
    PROVE  /\ Out(b) = Out(a) \cup Locks(P) \cup Locks(Q)
           /\ Locks(b.pre) = Locks(a.pre) \cup Locks(P) /\ Locks(b.post) = Locks(a.post) \cup Locks(Q)
           /\ Account(list, n, k, Out(b), b.lock.sleepers, b.woken)
           /\ Sorted(b.pre) /\ Sorted(b.post) /\ Follows(b.pre, b.post)
           /\ Apart(Locks(P) \cup Locks(Q), W) /\ OneEach(Locks(list)) /\ Apart(Out(a), a.woken)
                 => Apart(Out(b), b.woken)
  <1>1. a.pre \in Lists /\ a.post \in Lists
    BY DEF PassStates
  <1>2. Locks(b.pre) = Locks(a.pre) \cup Locks(P) /\ Locks(b.post) = Locks(a.post) \cup Locks(Q)
    BY <1>1, CatLocks
  <1>3. Out(b) = Out(a) \cup (Locks(P) \cup Locks(Q))
    BY <1>2 DEF Out
  <1>4. Account(list, n - 1, k, Out(a), a.lock.sleepers, a.woken)
    BY DEF SetOK
  <1>5. Account(list, n, k, Out(b), b.lock.sleepers, b.woken)
    <2>1. Account(list, n, k, Out(a) \cup (Locks(P) \cup Locks(Q)), a.lock.sleepers \cup T, a.woken \cup W)
      BY <1>4, AccountStep
    <2> QED
      BY <1>3, <2>1
  <1>6. /\ \A x \in Locks(P) : x.id = list[n].id /\ Within(x, list[n])
        /\ \A x \in Locks(Q) : x.id = list[n].id /\ Within(x, list[n])
        /\ Out(a) \subseteq LockRecs /\ InOrder(list, n - 1, Out(a))
        /\ Locks(a.pre) \subseteq Out(a) /\ Locks(a.post) \subseteq Out(a)
    BY <1>4 DEF Yield, From, Account, Out
  <1>7. Sorted(a.pre \o P)
    BY <1>1, <1>6, AppendSorted DEF SetOK, SetOrder
  <1>8. Sorted(a.post \o Q)
    BY <1>1, <1>6, AppendSorted DEF SetOK, SetOrder
  <1>9. Follows(b.pre, b.post)
    <2>1. ASSUME NEW x \in Locks(b.pre), NEW y \in Locks(b.post), x.id = y.id PROVE Precedes(x, y)
      <3>1. CASE x \in Locks(a.pre) /\ y \in Locks(a.post)
        BY <2>1, <3>1 DEF SetOK, SetOrder, Follows
      <3>2. CASE x \in Locks(a.pre) /\ y \in Locks(Q)
        <4>1. list[n] \in LockRecs /\ list[n] \in Rest(list, n - 1)
          BY NextLock
        <4>2. Precedes(x, list[n]) /\ x \in LockRecs
          BY <1>6, <2>1, <3>2, <4>1 DEF InOrder
        <4>3. y \in LockRecs /\ Within(y, list[n])
          BY <1>6, <3>2 DEF Lists, Locks
        <4> QED
          BY <4>1, <4>2, <4>3, WithinOK
      <3>3. CASE x \in Locks(P) /\ y \in Locks(Q)
        BY <2>1, <3>3 DEF Follows
      <3>4. CASE x \in Locks(P) /\ y \in Locks(a.post)
        BY <3>4, FewLocks
      <3> QED
        BY <1>2, <3>1, <3>2, <3>3, <3>4
    <2> QED
      BY <2>1 DEF Follows
  <1>10. ASSUME Apart(Locks(P) \cup Locks(Q), W), OneEach(Locks(list)), Apart(Out(a), a.woken)
         PROVE  Apart(Out(b), b.woken)
    <2>1. Apart(Out(a) \cup (Locks(P) \cup Locks(Q)), a.woken \cup W)
      BY <1>4, <1>10, ApartStep
    <2> QED
      BY <1>3, <2>1
  <1> QED
    BY <1>2, <1>3, <1>5, <1>7, <1>8, <1>9, <1>10

LEMMA CatEmpty ==
    ASSUME NEW s \in Lists
    PROVE  s \o <<>> = s
  BY DEF Lists

(* A lock that stands for k.                                               *)
LEMMA StandYield ==
    ASSUME NEW lf \in LockRecs, NEW k \in LockRecs, lf.id = k.id, NEW x \in LockRecs,
           \/ lf.start = k.start /\ lf.end = k.end
           \/ lf.type = k.type,
           x.id = lf.id, x.ino = lf.ino, x.type = k.type, x.start = lf.start, x.end = lf.end,
           NEW W, Downgrade(lf, k) => x.sleepers = {} /\ W = lf.sleepers,
           ~Downgrade(lf, k) => x.sleepers = lf.sleepers /\ W = {}
    PROVE  Yield(lf, k, {x}, {}, W) /\ Apart({x}, W)
  <1>1. Within(x, lf) /\ Within(lf, x)
    BY DEF Within, LockRecs
  <1>2. From(x, lf)
    BY <1>1 DEF From
  <1>3. ~Downgrade(lf, k) => Wider(x, lf)
    BY <1>1 DEF Wider, Downgrade, LockRecs
  <1>4. ASSUME NEW b \in Nat, ~Covers(k, b), NEW t
        PROVE  (\E y \in {x} : Covers(y, b) /\ y.type = t) <=> Covers(lf, b) /\ lf.type = t
    BY <1>4 DEF Covers
  <1> QED
    BY <1>2, <1>3, <1>4 DEF Yield, Apart

(* A lock that goes, because it lies within k.                             *)
LEMMA TakeYield ==
    ASSUME NEW lf \in LockRecs, NEW k \in LockRecs, lf.id = k.id, ovcase(lf, k) = 3,
           NEW T, NEW W, Downgrade(lf, k) => T = {} /\ W = lf.sleepers,
           ~Downgrade(lf, k) => T = lf.sleepers /\ W = {}
    PROVE  Yield(lf, k, {}, T, W)
  <1>0. k \in Asked
    BY DEF LockRecs, Asked
  <1>1. Within(lf, k)
    <2>1. k.start <= lf.start /\ (k.end = EOF \/ (lf.end # EOF /\ lf.end <= k.end))
      BY <1>0, DisjointOK
    <2> QED
      BY <2>1 DEF Within
  <1>2. ~Downgrade(lf, k) => Wider(k, lf)
    BY <1>1 DEF Wider, Downgrade, LockRecs
  <1>3. \A b \in Nat : Covers(lf, b) => Covers(k, b)
    BY <1>1, WithinOK
  <1> QED
    BY <1>2, <1>3 DEF Yield

LEMMA SetOKInit ==
    ASSUME NEW list \in Lists, NEW k \in LockRecs, k.sleepers = {}
    PROVE  SetOK(Pass(k), list, 0, k)
  <1>1. PICK a : a = Pass(k)
    OBVIOUS
  <1>2. /\ a \in PassStates /\ a.lock = k /\ a.pre = <<>> /\ a.post = <<>> /\ a.woken = {}
        /\ a.done = FALSE /\ a.linked = FALSE /\ a.freed = FALSE /\ a.taken = {}
    <2>1. k \in Asked
      BY DEF LockRecs, Asked
    <2> QED
      BY <1>1, <2>1, FewLocks DEF Pass, PassStates
  <1>3. Locks(a.pre) = {} /\ Sorted(a.pre) /\ Locks(a.post) = {} /\ Sorted(a.post) /\ Out(a) = {}
    BY <1>2, FewLocks DEF Out
  <1>4. Account(list, 0, k, {}, {}, {})
    BY AccountInit
  <1>5. SetOrder(a, list, 0, k) /\ SetAhead(a, list, 0, k) /\ SetFlags(a, list, 0, k)
    BY <1>2, <1>3 DEF SetOrder, SetAhead, SetFlags, Follows
  <1>6. SetExact(a, list, 0, k)
    BY <1>2, <1>3 DEF SetExact, Apart
  <1> QED
    BY <1>1, <1>2, <1>3, <1>4, <1>5, <1>6 DEF SetOK, SameLock

LEMMA SameLockOK ==
    ASSUME NEW l \in LockRecs, NEW k \in LockRecs, SameLock(l, k), NEW x \in LockRecs
    PROVE  /\ Precedes(x, l) = Precedes(x, k) /\ Precedes(l, x) = Precedes(k, x)
           /\ ovcase(x, l) = ovcase(x, k) /\ Before(x, l) = Before(x, k) /\ After(x, l) = After(x, k)
           /\ Downgrade(x, l) = Downgrade(x, k)
  BY DEF SameLock, Precedes, ovcase, Disjoint, Before, After, Downgrade

(* What is known before any step.                                          *)
LEMMA SetBefore ==
    ASSUME NEW list \in Lists, Sorted(list), NEW n \in 1..Len(list), NEW k \in LockRecs,
           NEW a, SetOK(a, list, n - 1, k), NEW lf, lf = list[n]
    PROVE  /\ lf \in LockRecs /\ k \in Asked /\ a \in PassStates /\ a.lock \in LockRecs
           /\ a.pre \in Lists /\ a.post \in Lists /\ SameLock(a.lock, k)
           /\ lf \in Rest(list, n - 1) /\ Rest(list, n) \subseteq Rest(list, n - 1)
           /\ Rest(list, n) \subseteq LockRecs /\ Seen(list, n) = Seen(list, n - 1) \cup {lf}
           /\ \A y \in Rest(list, n) : y.id = lf.id => Precedes(lf, y)
           /\ lf \in Locks(list)
  <1>1. n \in 0..Len(list) /\ n \in DOMAIN list
    BY DEF Lists
  <1>2. k \in Asked
    BY DEF LockRecs, Asked
  <1>3. a \in PassStates /\ a.lock \in LockRecs /\ a.pre \in Lists /\ a.post \in Lists /\ SameLock(a.lock, k)
    BY DEF SetOK, PassStates
  <1>4. lf \in LockRecs /\ lf \in Rest(list, n - 1) /\ Rest(list, n) \subseteq Rest(list, n - 1)
    BY NextLock
  <1>5. Rest(list, n) \subseteq LockRecs /\ Seen(list, n) = Seen(list, n - 1) \cup {lf}
    BY <1>1, SeenRest
  <1>6. \A y \in Rest(list, n) : y.id = lf.id => Precedes(lf, y)
    BY SortedRest
  <1>7. lf \in Locks(list)
    BY <1>1 DEF Locks
  <1> QED
    BY <1>2, <1>3, <1>4, <1>5, <1>6, <1>7

LEMMA SetKeepOK ==
    ASSUME NEW list \in Lists, Sorted(list), NEW n \in 1..Len(list), NEW k \in LockRecs,
           NEW a, SetOK(a, list, n - 1, k), NEW b \in PassStates,
           NEW lf, lf = list[n], SetKeep(a, b, lf)
    PROVE  SetOK(b, list, n, k)
  <1>1. /\ lf \in LockRecs /\ k \in Asked /\ a \in PassStates /\ a.lock \in LockRecs
        /\ a.pre \in Lists /\ a.post \in Lists /\ SameLock(a.lock, k)
        /\ lf \in Rest(list, n - 1) /\ Rest(list, n) \subseteq Rest(list, n - 1)
        /\ Rest(list, n) \subseteq LockRecs /\ Seen(list, n) = Seen(list, n - 1) \cup {lf}
        /\ \A y \in Rest(list, n) : y.id = lf.id => Precedes(lf, y)
    <2>1. /\ lf \in LockRecs /\ k \in Asked /\ a \in PassStates /\ a.lock \in LockRecs
          /\ a.pre \in Lists /\ a.post \in Lists /\ SameLock(a.lock, k)
      BY SetBefore
    <2>2. /\ lf \in Rest(list, n - 1) /\ Rest(list, n) \subseteq Rest(list, n - 1)
          /\ Rest(list, n) \subseteq LockRecs /\ Seen(list, n) = Seen(list, n - 1) \cup {lf}
      <3>1. n \in 0..Len(list)
        OBVIOUS
      <3>2. lf \in Rest(list, n - 1) /\ Rest(list, n) \subseteq Rest(list, n - 1)
        BY NextLock
      <3>3. Rest(list, n) \subseteq LockRecs /\ Seen(list, n) = Seen(list, n - 1) \cup {lf}
        BY <3>1, SeenRest
      <3> QED
        BY <3>2, <3>3
    <2>3. \A y \in Rest(list, n) : y.id = lf.id => Precedes(lf, y)
      BY SetBefore
    <2> QED
      BY <2>1, <2>2, <2>3
  <1>2. /\ a.done \/ lf.id # k.id \/ Precedes(lf, k)
        /\ b.lock = a.lock /\ b.woken = a.woken /\ b.taken = a.taken
        /\ b.linked = a.linked /\ b.freed = a.freed /\ b.done = a.done
    BY <1>1, SameLockOK DEF SetKeep, SameLock
  <1>3. PICK P, Q : /\ b.pre = a.pre \o P /\ b.post = a.post \o Q
                    /\ a.linked => P = <<>> /\ Q = <<lf>>
                    /\ ~a.linked => P = <<lf>> /\ Q = <<>>
    BY <1>1, CatEmpty, ZenonT(30) DEF SetKeep
  <1>4. /\ P \in Lists /\ Q \in Lists /\ Sorted(P) /\ Sorted(Q) /\ Follows(P, Q)
        /\ Locks(P) \cup Locks(Q) = {lf}
        /\ (a.linked => Locks(P) = {} /\ Locks(Q) = {lf}) /\ (~a.linked => Locks(P) = {lf} /\ Locks(Q) = {})
    BY <1>1, <1>3, FewLocks DEF Follows
  <1>5. P = <<>> \/ a.post = <<>>
    BY <1>3 DEF SetOK, SetFlags
  <1>6. /\ Out(b) = Out(a) \cup {lf}
        /\ Locks(b.pre) = Locks(a.pre) \cup Locks(P) /\ Locks(b.post) = Locks(a.post) \cup Locks(Q)
        /\ Account(list, n, k, Out(b), b.lock.sleepers, b.woken)
        /\ Sorted(b.pre) /\ Sorted(b.post) /\ Follows(b.pre, b.post)
        /\ OneEach(Locks(list)) /\ Apart(Out(a), a.woken) => Apart(Out(b), b.woken)
    <2>1. Yield(list[n], k, Locks(P) \cup Locks(Q), {}, {})
      BY <1>1, <1>4, KeepYield
    <2>2. b.lock.sleepers = a.lock.sleepers \cup {} /\ b.woken = a.woken \cup {}
      BY <1>2
    <2>3. Apart(Locks(P) \cup Locks(Q), {})
      BY DEF Apart
    <2>4. /\ Out(b) = Out(a) \cup Locks(P) \cup Locks(Q)
          /\ Locks(b.pre) = Locks(a.pre) \cup Locks(P) /\ Locks(b.post) = Locks(a.post) \cup Locks(Q)
          /\ Account(list, n, k, Out(b), b.lock.sleepers, b.woken)
          /\ Sorted(b.pre) /\ Sorted(b.post) /\ Follows(b.pre, b.post)
          /\ Apart(Locks(P) \cup Locks(Q), {}) /\ OneEach(Locks(list)) /\ Apart(Out(a), a.woken)
                 => Apart(Out(b), b.woken)
      BY <1>1, <1>3, <1>4, <1>5, <2>1, <2>2, SetFrame
    <2> QED
      BY <1>4, <2>3, <2>4
  <1>7. SetOrder(b, list, n, k)
    <2>1. ASSUME ~a.freed, lf.id = k.id, a.linked PROVE Precedes(k, lf)
      <3>1. CASE a.done
        BY <1>1, <2>1, <3>1 DEF SetOK, SetAhead
      <3>2. CASE ~a.done
        <4>1. k.start < lf.start /\ Precedes(lf, k)
          BY <1>1, <1>2, <2>1, <3>2 DEF SetOK, SetAhead
        <4> QED
          BY <1>1, <4>1 DEF Precedes, LockRecs
      <3> QED
        BY <3>1, <3>2
    <2>2. ASSUME lf.id = k.id, ~a.linked PROVE Precedes(lf, k)
      BY <1>2, <2>2 DEF SetOK, SetFlags
    <2>3. ASSUME ~b.freed
          PROVE  /\ \A x \in Locks(b.pre) : x.id = k.id => Precedes(x, k)
                 /\ \A x \in Locks(b.post) : x.id = k.id => Precedes(k, x)
      <3>1. ~a.freed
        BY <1>2, <2>3
      <3>2. /\ \A x \in Locks(a.pre) : x.id = k.id => Precedes(x, k)
            /\ \A x \in Locks(a.post) : x.id = k.id => Precedes(k, x)
        BY <3>1 DEF SetOK, SetOrder
      <3> QED
        BY <1>4, <1>6, <2>1, <2>2, <3>1, <3>2
    <2> QED
      BY <1>6, <2>3 DEF SetOrder
  <1>8. SetAhead(b, list, n, k)
    BY <1>1, <1>2 DEF SetOK, SetAhead
  <1>9. SetFlags(b, list, n, k)
    <2>1. ~b.linked => b.post = <<>> /\ ~b.done /\ b.lock.sleepers = {}
      BY <1>1, <1>2 DEF SetOK, SetFlags, SetKeep
    <2>2. b.taken = b.lock.sleepers
      BY <1>2 DEF SetOK, SetFlags
    <2>3. b.freed => /\ b.done /\ b.lock.sleepers = {}
                     /\ \E x \in Out(b) : x.id = k.id /\ x.type = k.type /\ Within(k, x)
      BY <1>2, <1>6 DEF SetOK, SetFlags
    <2> QED
      BY <2>1, <2>2, <2>3 DEF SetFlags
  <1>10. SetExact(b, list, n, k)
    <2>1. SameRange(lf, lf)
      BY DEF SameRange
    <2>2. Exact(list, k) => b.taken = {} /\ \A x \in Out(b) : \E y \in Seen(list, n) : SameRange(x, y)
      BY <1>1, <1>2, <1>6, <2>1 DEF SetOK, SetExact
    <2>3. Exact(list, k) /\ OneEach(Locks(list)) => Apart(Out(b), b.woken)
      BY <1>6 DEF SetOK, SetExact
    <2> QED
      BY <2>2, <2>3 DEF SetExact
  <1> QED
    BY <1>1, <1>2, <1>6, <1>7, <1>8, <1>9, <1>10 DEF SetOK

LEMMA SetBeyondOK ==
    ASSUME NEW list \in Lists, Sorted(list), NEW n \in 1..Len(list), NEW k \in LockRecs,
           NEW a, SetOK(a, list, n - 1, k), NEW b \in PassStates,
           NEW lf, lf = list[n], SetBeyond(a, b, lf)
    PROVE  SetOK(b, list, n, k)
  <1>1. /\ lf \in LockRecs /\ k \in Asked /\ a \in PassStates /\ a.lock \in LockRecs
        /\ a.pre \in Lists /\ a.post \in Lists /\ SameLock(a.lock, k)
        /\ Rest(list, n) \subseteq LockRecs /\ Seen(list, n) = Seen(list, n - 1) \cup {lf}
        /\ \A y \in Rest(list, n) : y.id = lf.id => Precedes(lf, y)
    BY SetBefore
  <1>2. /\ ~a.done /\ lf.id = k.id /\ Precedes(k, lf)
        /\ b.lock = a.lock /\ b.woken = a.woken /\ b.taken = a.taken
        /\ b.linked = TRUE /\ b.freed = a.freed /\ b.done = TRUE
    BY <1>1, SameLockOK DEF SetBeyond, SameLock
  <1>3. PICK P, Q : b.pre = a.pre \o P /\ b.post = a.post \o Q /\ P = <<>> /\ Q = <<lf>>
    BY <1>1, CatEmpty DEF SetBeyond
  <1>4. /\ P \in Lists /\ Q \in Lists /\ Sorted(P) /\ Sorted(Q) /\ Follows(P, Q)
        /\ Locks(P) \cup Locks(Q) = {lf} /\ Locks(P) = {} /\ Locks(Q) = {lf}
    BY <1>1, <1>3, FewLocks DEF Follows
  <1>5. P = <<>> \/ a.post = <<>>
    BY <1>3
  <1>6. /\ Out(b) = Out(a) \cup {lf}
        /\ Locks(b.pre) = Locks(a.pre) \cup Locks(P) /\ Locks(b.post) = Locks(a.post) \cup Locks(Q)
        /\ Account(list, n, k, Out(b), b.lock.sleepers, b.woken)
        /\ Sorted(b.pre) /\ Sorted(b.post) /\ Follows(b.pre, b.post)
        /\ OneEach(Locks(list)) /\ Apart(Out(a), a.woken) => Apart(Out(b), b.woken)
    <2>1. Yield(list[n], k, Locks(P) \cup Locks(Q), {}, {})
      BY <1>1, <1>4, KeepYield
    <2>2. b.lock.sleepers = a.lock.sleepers \cup {} /\ b.woken = a.woken \cup {}
      BY <1>2
    <2>3. Apart(Locks(P) \cup Locks(Q), {})
      BY DEF Apart
    <2>4. /\ Out(b) = Out(a) \cup Locks(P) \cup Locks(Q)
          /\ Locks(b.pre) = Locks(a.pre) \cup Locks(P) /\ Locks(b.post) = Locks(a.post) \cup Locks(Q)
          /\ Account(list, n, k, Out(b), b.lock.sleepers, b.woken)
          /\ Sorted(b.pre) /\ Sorted(b.post) /\ Follows(b.pre, b.post)
          /\ Apart(Locks(P) \cup Locks(Q), {}) /\ OneEach(Locks(list)) /\ Apart(Out(a), a.woken)
                 => Apart(Out(b), b.woken)
      <3>1. b.pre = a.pre \o P /\ b.post = a.post \o Q
        BY <1>3
      <3> QED
        BY <1>1, <3>1, <1>4, <1>5, <2>1, <2>2, SetFrame
    <2> QED
      BY <1>4, <2>3, <2>4
  <1>7. ~a.freed
    BY <1>2 DEF SetOK, SetFlags
  <1>8. SetOrder(b, list, n, k)
    <2>1. /\ \A x \in Locks(a.pre) : x.id = k.id => Precedes(x, k)
          /\ \A x \in Locks(a.post) : x.id = k.id => Precedes(k, x)
      BY <1>7 DEF SetOK, SetOrder
    <2> QED
      BY <1>2, <1>4, <1>6, <2>1 DEF SetOrder
  <1>9. SetAhead(b, list, n, k)
    <2>1. ASSUME NEW y \in Rest(list, n), y.id = k.id PROVE Precedes(k, y)
      <3>1. Precedes(lf, y) /\ y \in LockRecs
        BY <1>1, <1>2, <2>1
      <3> QED
        BY <1>1, <1>2, <3>1 DEF Precedes, LockRecs
    <2> QED
      BY <1>2, <2>1 DEF SetAhead
  <1>10. SetFlags(b, list, n, k)
    <2>1. b.taken = b.lock.sleepers
      BY <1>2 DEF SetOK, SetFlags
    <2> QED
      BY <1>2, <1>7, <2>1 DEF SetFlags
  <1>11. SetExact(b, list, n, k)
    <2>1. SameRange(lf, lf)
      BY DEF SameRange
    <2>2. Exact(list, k) => b.taken = {} /\ \A x \in Out(b) : \E y \in Seen(list, n) : SameRange(x, y)
      BY <1>1, <1>2, <1>6, <2>1 DEF SetOK, SetExact
    <2>3. Exact(list, k) /\ OneEach(Locks(list)) => Apart(Out(b), b.woken)
      BY <1>6 DEF SetOK, SetExact
    <2> QED
      BY <2>2, <2>3 DEF SetExact
  <1> QED
    BY <1>1, <1>2, <1>6, <1>8, <1>9, <1>10, <1>11 DEF SetOK

LEMMA SetStandOK ==
    ASSUME NEW list \in Lists, Sorted(list), NEW n \in 1..Len(list), NEW k \in LockRecs,
           NEW a, SetOK(a, list, n - 1, k), NEW b \in PassStates, NEW x,
           NEW lf, lf = list[n], SetStand(a, b, lf, x)
    PROVE  SetOK(b, list, n, k)
  <1>1. /\ lf \in LockRecs /\ k \in Asked /\ a \in PassStates /\ a.lock \in LockRecs
        /\ a.pre \in Lists /\ a.post \in Lists /\ SameLock(a.lock, k)
        /\ lf \in Rest(list, n - 1) /\ Rest(list, n) \subseteq Rest(list, n - 1)
        /\ Rest(list, n) \subseteq LockRecs /\ Seen(list, n) = Seen(list, n - 1) \cup {lf}
        /\ \A y \in Rest(list, n) : y.id = lf.id => Precedes(lf, y)
        /\ lf \in Locks(list)
    BY SetBefore, SMTT(60)
  <1>2. /\ ~a.done /\ lf.id = k.id
        /\ \/ lf.start = k.start /\ lf.end = k.end
           \/ ovcase(lf, k) = 2 /\ lf.type = k.type
        /\ x \in LockRecs /\ x.id = lf.id /\ x.ino = lf.ino /\ x.type = k.type
        /\ x.start = lf.start /\ x.end = lf.end
        /\ b.lock = a.lock /\ b.taken = a.taken
        /\ b.linked = TRUE /\ b.freed = TRUE /\ b.done = TRUE
    BY <1>1, SameLockOK DEF SetStand, SameLock
  <1>21. /\ Downgrade(lf, k) => x.sleepers = {} /\ b.woken = a.woken \cup lf.sleepers
         /\ ~Downgrade(lf, k) => x.sleepers = lf.sleepers /\ b.woken = a.woken
    BY <1>1, SameLockOK DEF SetStand
  <1>22. /\ k.start \in Nat /\ k.end \in Int /\ lf.start \in Nat /\ lf.end \in Int /\ EOF = -1
         /\ lf.start <= k.start
    <2>1. k.start \in Nat /\ k.end \in Int /\ lf.start \in Nat /\ lf.end \in Int /\ EOF = -1
      BY <1>1 DEF LockRecs, EOF
    <2> QED
      BY <1>1, <1>2, <2>1, DisjointOK
  <1>23. ~a.linked
    <2>1. a.linked => k.start < lf.start
      BY <1>1, <1>2 DEF SetOK, SetAhead
    <2> QED
      BY <1>22, <2>1
  <1>24. a.post = <<>> /\ a.lock.sleepers = {}
    BY <1>23 DEF SetOK, SetFlags
  <1>25. PICK P, Q : b.pre = a.pre \o P /\ b.post = a.post \o Q /\ P = <<x>> /\ Q = <<>>
    BY <1>1, <1>23, CatEmpty DEF SetStand
  <1>3. b.pre = a.pre \o P /\ b.post = a.post \o Q
    BY <1>25
  <1>4. /\ P \in Lists /\ Q \in Lists /\ Sorted(P) /\ Sorted(Q) /\ Follows(P, Q)
        /\ Locks(P) \cup Locks(Q) = {x} /\ Locks(P) = {x} /\ Locks(Q) = {}
    BY <1>2, <1>25, FewLocks DEF Follows
  <1>5. P = <<>> \/ a.post = <<>>
    BY <1>24
  <1>6. PICK W : /\ Downgrade(lf, k) => x.sleepers = {} /\ W = lf.sleepers
                 /\ ~Downgrade(lf, k) => x.sleepers = lf.sleepers /\ W = {}
                 /\ b.woken = a.woken \cup W
    <2>1. CASE Downgrade(lf, k)
      BY <1>21, <2>1
    <2>2. CASE ~Downgrade(lf, k)
      <3>1. b.woken = a.woken \cup {}
        BY <1>21, <2>2
      <3> QED
        BY <1>21, <2>2, <3>1
    <2> QED
      BY <2>1, <2>2
  <1>7. Yield(lf, k, {x}, {}, W) /\ Apart({x}, W)
    BY <1>1, <1>2, <1>6, StandYield
  <1>8. /\ Out(b) = Out(a) \cup {x}
        /\ Account(list, n, k, Out(b), b.lock.sleepers, b.woken)
        /\ Sorted(b.pre) /\ Sorted(b.post) /\ Follows(b.pre, b.post)
        /\ OneEach(Locks(list)) /\ Apart(Out(a), a.woken) => Apart(Out(b), b.woken)
    <2>1. Yield(list[n], k, Locks(P) \cup Locks(Q), {}, W)
      BY <1>4, <1>7
    <2>2. b.lock.sleepers = a.lock.sleepers \cup {} /\ b.woken = a.woken \cup W
      BY <1>2, <1>6
    <2>4. /\ Out(b) = Out(a) \cup Locks(P) \cup Locks(Q)
          /\ Locks(b.pre) = Locks(a.pre) \cup Locks(P) /\ Locks(b.post) = Locks(a.post) \cup Locks(Q)
          /\ Account(list, n, k, Out(b), b.lock.sleepers, b.woken)
          /\ Sorted(b.pre) /\ Sorted(b.post) /\ Follows(b.pre, b.post)
          /\ Apart(Locks(P) \cup Locks(Q), W) /\ OneEach(Locks(list)) /\ Apart(Out(a), a.woken)
                 => Apart(Out(b), b.woken)
      BY <1>1, <1>3, <1>4, <1>5, <2>1, <2>2, SetFrame
    <2> QED
      BY <1>4, <1>7, <2>4
  <1>9. SetOrder(b, list, n, k) /\ SetAhead(b, list, n, k)
    BY <1>2, <1>8 DEF SetOrder, SetAhead
  <1>10. SetFlags(b, list, n, k)
    <2>1. Within(k, x)
      <3>1. lf.end = EOF \/ (k.end # EOF /\ k.end <= lf.end)
        BY <1>1, <1>2, <1>22, DisjointOK
      <3> QED
        BY <1>2, <1>22, <3>1 DEF Within
    <2>2. \E y \in Out(b) : y.id = k.id /\ y.type = k.type /\ Within(k, y)
      BY <1>2, <1>8, <2>1
    <2>3. b.taken = b.lock.sleepers /\ b.lock.sleepers = {}
      BY <1>2, <1>24 DEF SetOK, SetFlags
    <2> QED
      BY <1>2, <2>2, <2>3 DEF SetFlags
  <1>11. SetExact(b, list, n, k)
    <2>1. SameRange(x, lf)
      BY <1>2, <1>21 DEF SameRange
    <2>2. Exact(list, k) => b.taken = {} /\ \A y \in Out(b) : \E z \in Seen(list, n) : SameRange(y, z)
      BY <1>1, <1>2, <1>8, <2>1 DEF SetOK, SetExact
    <2>3. Exact(list, k) /\ OneEach(Locks(list)) => Apart(Out(b), b.woken)
      BY <1>8 DEF SetOK, SetExact
    <2> QED
      BY <2>2, <2>3 DEF SetExact
  <1> QED
    BY <1>1, <1>2, <1>8, <1>9, <1>10, <1>11 DEF SetOK

LEMMA SetTakeOK ==
    ASSUME NEW list \in Lists, Sorted(list), NEW n \in 1..Len(list), NEW k \in LockRecs,
           NEW a, SetOK(a, list, n - 1, k), NEW b \in PassStates,
           NEW lf, lf = list[n], b.lock \in LockRecs, SetTake(a, b, lf)
    PROVE  SetOK(b, list, n, k)
  <1>1. /\ lf \in LockRecs /\ k \in Asked /\ a \in PassStates /\ a.lock \in LockRecs
        /\ a.pre \in Lists /\ a.post \in Lists /\ SameLock(a.lock, k)
        /\ lf \in Rest(list, n - 1) /\ Rest(list, n) \subseteq Rest(list, n - 1)
        /\ Rest(list, n) \subseteq LockRecs /\ Seen(list, n) = Seen(list, n - 1) \cup {lf}
        /\ \A y \in Rest(list, n) : y.id = lf.id => Precedes(lf, y)
        /\ lf \in Locks(list)
    BY SetBefore
  <1>2. /\ ~a.done /\ lf.id = k.id /\ ovcase(lf, k) = 3
        /\ b.pre = a.pre /\ b.post = a.post
        /\ b.linked = TRUE /\ b.freed = a.freed /\ b.done = a.done
    BY <1>1, SameLockOK DEF SetTake, SameLock
  <1>21. SameLock(b.lock, k)
    BY <1>1 DEF SetTake, SameLock
  <1>22. /\ Downgrade(lf, k) =>
               b.lock = a.lock /\ b.taken = a.taken /\ b.woken = a.woken \cup lf.sleepers
         /\ ~Downgrade(lf, k) => /\ b.lock.sleepers = a.lock.sleepers \cup lf.sleepers
                                 /\ b.taken = a.taken \cup lf.sleepers /\ b.woken = a.woken
    BY <1>1, SameLockOK DEF SetTake
  <1>23. ~a.freed
    BY <1>2 DEF SetOK, SetFlags
  <1>25. PICK P, Q : b.pre = a.pre \o P /\ b.post = a.post \o Q /\ P = <<>> /\ Q = <<>>
    BY <1>1, <1>2, CatEmpty
  <1>3. b.pre = a.pre \o P /\ b.post = a.post \o Q
    BY <1>25
  <1>4. /\ P \in Lists /\ Q \in Lists /\ Sorted(P) /\ Sorted(Q) /\ Follows(P, Q)
        /\ Locks(P) \cup Locks(Q) = {} /\ Locks(P) = {} /\ Locks(Q) = {}
    BY <1>25, FewLocks DEF Follows
  <1>5. P = <<>> \/ a.post = <<>>
    BY <1>25
  <1>6. PICK T, W : /\ Downgrade(lf, k) => T = {} /\ W = lf.sleepers
                    /\ ~Downgrade(lf, k) => T = lf.sleepers /\ W = {}
                    /\ b.woken = a.woken \cup W /\ b.lock.sleepers = a.lock.sleepers \cup T
                    /\ b.taken = a.taken \cup T
    <2>1. CASE Downgrade(lf, k)
      <3>1. b.woken = a.woken \cup lf.sleepers /\ b.lock.sleepers = a.lock.sleepers \cup {} /\ b.taken = a.taken \cup {}
        BY <1>22, <2>1
      <3> QED
        BY <2>1, <3>1
    <2>2. CASE ~Downgrade(lf, k)
      <3>1. /\ b.woken = a.woken \cup {} /\ b.lock.sleepers = a.lock.sleepers \cup lf.sleepers
            /\ b.taken = a.taken \cup lf.sleepers
        BY <1>22, <2>2
      <3> QED
        BY <2>2, <3>1
    <2> QED
      BY <2>1, <2>2
  <1>8. /\ Out(b) = Out(a)
        /\ Account(list, n, k, Out(b), b.lock.sleepers, b.woken)
        /\ Sorted(b.pre) /\ Sorted(b.post) /\ Follows(b.pre, b.post)
    <2>1. Yield(list[n], k, Locks(P) \cup Locks(Q), T, W)
      <3>1. Yield(lf, k, {}, T, W)
        BY <1>1, <1>2, <1>6, TakeYield
      <3> QED
        BY <1>4, <3>1
    <2>2. b.lock.sleepers = a.lock.sleepers \cup T /\ b.woken = a.woken \cup W
      BY <1>6
    <2>4. /\ Out(b) = Out(a) \cup Locks(P) \cup Locks(Q)
          /\ Locks(b.pre) = Locks(a.pre) \cup Locks(P) /\ Locks(b.post) = Locks(a.post) \cup Locks(Q)
          /\ Account(list, n, k, Out(b), b.lock.sleepers, b.woken)
          /\ Sorted(b.pre) /\ Sorted(b.post) /\ Follows(b.pre, b.post)
          /\ Apart(Locks(P) \cup Locks(Q), W) /\ OneEach(Locks(list)) /\ Apart(Out(a), a.woken)
                 => Apart(Out(b), b.woken)
      BY <1>1, <1>3, <1>4, <1>5, <2>1, <2>2, SetFrame
    <2> QED
      BY <1>4, <2>4
  <1>9. SetOrder(b, list, n, k)
    BY <1>2, <1>8, <1>23 DEF SetOK, SetOrder
  <1>10. SetAhead(b, list, n, k)
    <2>1. ASSUME NEW y \in Rest(list, n), y.id = k.id PROVE k.start < y.start
      <3>1. Precedes(lf, y) /\ y \in LockRecs
        BY <1>1, <1>2, <2>1
      <3>2. k.start <= lf.start
        BY <1>1, <1>2, DisjointOK
      <3> QED
        BY <1>1, <3>1, <3>2 DEF Precedes, LockRecs
    <2> QED
      BY <1>2, <2>1 DEF SetAhead
  <1>11. SetFlags(b, list, n, k)
    <2>1. b.taken = b.lock.sleepers
      BY <1>6 DEF SetOK, SetFlags
    <2> QED
      BY <1>2, <1>23, <2>1 DEF SetFlags
  <1>12. SetExact(b, list, n, k)
    BY <1>1, <1>2 DEF SetExact, Exact
  <1> QED
    BY <1>1, <1>21, <1>8, <1>9, <1>10, <1>11, <1>12 DEF SetOK

LEMMA SetSplitOK ==
    ASSUME NEW list \in Lists, Sorted(list), NEW n \in 1..Len(list), NEW k \in LockRecs,
           NEW a, SetOK(a, list, n - 1, k), NEW b \in PassStates,
           NEW lf, lf = list[n], SetSplit(a, b, lf)
    PROVE  SetOK(b, list, n, k)
  <1>1. /\ lf \in LockRecs /\ k \in Asked /\ a \in PassStates /\ a.lock \in LockRecs
        /\ a.pre \in Lists /\ a.post \in Lists /\ SameLock(a.lock, k)
        /\ lf \in Rest(list, n - 1) /\ Rest(list, n) \subseteq Rest(list, n - 1)
        /\ Rest(list, n) \subseteq LockRecs /\ Seen(list, n) = Seen(list, n - 1) \cup {lf}
        /\ \A y \in Rest(list, n) : y.id = lf.id => Precedes(lf, y)
        /\ lf \in Locks(list)
    BY SetBefore
  <1>2. /\ ~a.done /\ lf.id = k.id /\ ovcase(lf, k) \in {2, 4, 5}
        /\ b.lock = a.lock /\ b.woken = a.woken \cup lf.sleepers /\ b.taken = a.taken
        /\ b.linked = TRUE /\ b.freed = a.freed
    BY <1>1, SameLockOK DEF SetSplit, SameLock
  <1>21. b.done = (ovcase(lf, k) \in {2, 5})
    <2>1. b.done = (ovcase(lf, a.lock) \in {2, 5})
      BY DEF SetSplit
    <2>2. ovcase(lf, a.lock) = ovcase(lf, k)
      BY <1>1, SameLockOK
    <2> QED
      BY <2>1, <2>2, Zenon
  <1>23. ~a.freed
    BY <1>2 DEF SetOK, SetFlags
  <1>24. ~Disjoint(lf, k)
    BY <1>1, <1>2, DisjointOK
  <1>25. PICK P, Q : b.pre = a.pre \o P /\ b.post = a.post \o Q
                     /\ P = Woken(Before(lf, k)) /\ Q = Woken(After(lf, k))
    <2>1. Before(lf, a.lock) = Before(lf, k) /\ After(lf, a.lock) = After(lf, k)
      BY <1>1, SameLockOK
    <2> QED
      BY <2>1 DEF SetSplit
  <1>3. b.pre = a.pre \o P /\ b.post = a.post \o Q
    BY <1>25
  <1>4. /\ P \in Lists /\ Q \in Lists /\ Sorted(P) /\ Sorted(Q) /\ Follows(P, Q)
        /\ \A x \in Locks(P) : x.id = lf.id /\ Precedes(x, k) /\ Within(x, lf)
        /\ \A x \in Locks(Q) : x.id = lf.id /\ Precedes(k, x) /\ Within(x, lf)
        /\ Yield(lf, k, Locks(P) \cup Locks(Q), {}, lf.sleepers)
    BY <1>1, <1>2, <1>24, <1>25, CutYield
  <1>5. P = <<>> \/ a.post = <<>>
    <2>1. CASE a.linked
      <3>1. k.start < lf.start
        BY <1>1, <1>2, <2>1 DEF SetOK, SetAhead
      <3>2. ~(lf.start < k.start)
        BY <1>1, <3>1 DEF LockRecs
      <3> QED
        BY <1>1, <1>25, <3>2, PiecesOK
    <2>2. CASE ~a.linked
      BY <2>2 DEF SetOK, SetFlags
    <2> QED
      BY <2>1, <2>2
  <1>8. /\ Out(b) = Out(a) \cup Locks(P) \cup Locks(Q)
        /\ Locks(b.pre) = Locks(a.pre) \cup Locks(P) /\ Locks(b.post) = Locks(a.post) \cup Locks(Q)
        /\ Account(list, n, k, Out(b), b.lock.sleepers, b.woken)
        /\ Sorted(b.pre) /\ Sorted(b.post) /\ Follows(b.pre, b.post)
    <2>1. Yield(list[n], k, Locks(P) \cup Locks(Q), {}, lf.sleepers)
      BY <1>4
    <2>2. b.lock.sleepers = a.lock.sleepers \cup {} /\ b.woken = a.woken \cup lf.sleepers
      BY <1>2
    <2>4. /\ Out(b) = Out(a) \cup Locks(P) \cup Locks(Q)
          /\ Locks(b.pre) = Locks(a.pre) \cup Locks(P) /\ Locks(b.post) = Locks(a.post) \cup Locks(Q)
          /\ Account(list, n, k, Out(b), b.lock.sleepers, b.woken)
          /\ Sorted(b.pre) /\ Sorted(b.post) /\ Follows(b.pre, b.post)
          /\ Apart(Locks(P) \cup Locks(Q), lf.sleepers) /\ OneEach(Locks(list)) /\ Apart(Out(a), a.woken)
                 => Apart(Out(b), b.woken)
      BY <1>1, <1>3, <1>4, <1>5, <2>1, <2>2, SetFrame
    <2> QED
      BY <2>4
  <1>9. SetOrder(b, list, n, k)
    <2>1. /\ \A x \in Locks(a.pre) : x.id = k.id => Precedes(x, k)
          /\ \A x \in Locks(a.post) : x.id = k.id => Precedes(k, x)
      BY <1>23 DEF SetOK, SetOrder
    <2> QED
      BY <1>4, <1>8, <2>1 DEF SetOrder
  <1>10. SetAhead(b, list, n, k)
    <2>1. CASE ovcase(lf, k) \in {2, 5}
      <3>1. b.done
        BY <1>21, <2>1
      <3>2. \A y \in Rest(list, n) : y.id = k.id => Precedes(k, y)
        BY <1>1, <1>2, <2>1, DoneBeyond
      <3> QED
        BY <3>1, <3>2 DEF SetAhead
    <2>2. CASE ovcase(lf, k) = 4
      <3>1. ~b.done
        <4>1. ~(ovcase(lf, k) \in {2, 5})
          BY <2>2
        <4> QED
          BY <1>21, <4>1, Zenon
      <3>2. ASSUME NEW y \in Rest(list, n), y.id = k.id PROVE k.start < y.start
        <4>1. Precedes(lf, y) /\ y \in LockRecs
          BY <1>1, <1>2, <3>2
        <4>2. lf.end = EOF \/ lf.end >= k.start
          BY <1>1, <2>2, DisjointOK
        <4> QED
          BY <1>1, <4>1, <4>2 DEF Precedes, LockRecs
      <3> QED
        BY <3>1, <3>2 DEF SetAhead
    <2> QED
      BY <1>2, <2>1, <2>2
  <1>11. SetFlags(b, list, n, k)
    <2>1. b.taken = b.lock.sleepers
      BY <1>2 DEF SetOK, SetFlags
    <2> QED
      BY <1>2, <1>23, <2>1 DEF SetFlags
  <1>12. SetExact(b, list, n, k)
    BY <1>1, <1>2 DEF SetExact, Exact
  <1> QED
    BY <1>1, <1>2, <1>8, <1>9, <1>10, <1>11, <1>12 DEF SetOK

LEMMA SetOKStep ==
    ASSUME NEW list \in Lists, Sorted(list), NEW n \in 1..Len(list), NEW k \in LockRecs,
           NEW a, SetOK(a, list, n - 1, k), NEW b, b = lf_setlock_case(a, list[n])
    PROVE  SetOK(b, list, n, k)
  <1>1. PICK lf \in LockRecs : lf = list[n]
    BY SeenRest
  <1>2. a \in PassStates /\ a.lock \in LockRecs
    BY DEF SetOK
  <1>3. /\ b \in PassStates /\ b.lock \in LockRecs
        /\ \/ SetKeep(a, b, lf) \/ SetBeyond(a, b, lf) \/ \E x : SetStand(a, b, lf, x)
           \/ SetTake(a, b, lf) \/ SetSplit(a, b, lf)
    BY <1>1, <1>2, SetStep
  <1>4. CASE SetKeep(a, b, lf)
    BY <1>1, <1>3, <1>4, SetKeepOK
  <1>5. CASE SetBeyond(a, b, lf)
    BY <1>1, <1>3, <1>5, SetBeyondOK
  <1>6. CASE \E x : SetStand(a, b, lf, x)
    BY <1>1, <1>3, <1>6, SetStandOK
  <1>7. CASE SetTake(a, b, lf)
    BY <1>1, <1>3, <1>7, SetTakeOK
  <1>8. CASE SetSplit(a, b, lf)
    BY <1>1, <1>3, <1>8, SetSplitOK
  <1> QED
    BY <1>3, <1>4, <1>5, <1>6, <1>7, <1>8

(* What became of the locks of the list is out; the lock itself is in the  *)
(* new list, or one of out stands for it.                                  *)
SetOutcome(list, k, r, out) ==
    /\ Account(list, Len(list), k, out, r.taken, r.woken)
    /\ \/ /\ Locks(r.list) = out /\ r.taken = {}
          /\ \E x \in out : x.id = k.id /\ x.type = k.type /\ Within(k, x)
       \/ \E l \in LockRecs : /\ Locks(r.list) = out \cup {l}
                              /\ SameLock(l, k) /\ l.sleepers = r.taken
    /\ Exact(list, k) => /\ r.taken = {}
                         /\ \A x \in out : \E y \in Locks(list) : SameRange(x, y)
    /\ Exact(list, k) /\ OneEach(Locks(list)) => Apart(out, r.woken)

(* What lf_setlock does to a list.                                         *)
LEMMA SetResult ==
    ASSUME NEW list \in Lists, Sorted(list), NEW k \in LockRecs, k.sleepers = {},
           NEW r, r = lf_setlock(list, k)
    PROVE  /\ r.list \in Lists /\ r.woken \subseteq Procs /\ r.taken \subseteq Procs /\ Sorted(r.list)
           /\ r = [list |-> r.list, woken |-> r.woken, taken |-> r.taken]
           /\ \E out : SetOutcome(list, k, r, out)
  <1>1. PICK f : /\ IsSetPass(f, list, k, Len(list))
                 /\ r = [list |-> f[Len(list)].pre \o Linked(f[Len(list)]) \o f[Len(list)].post,
                         woken |-> f[Len(list)].woken, taken |-> f[Len(list)].taken]
    BY SetPassExists
  <1>2. /\ Len(list) \in Nat /\ f[0] = Pass(k)
        /\ \A n \in 1..Len(list) : f[n] = lf_setlock_case(f[n - 1], list[n])
    <2>1. Len(list) \in Nat
      BY DEF Lists
    <2>2. f[0] = Pass(k)
      BY <1>1, <2>1, SMTT(30) DEF IsSetPass
    <2>3. ASSUME NEW n \in 1..Len(list) PROVE f[n] = lf_setlock_case(f[n - 1], list[n])
      BY <1>1, <2>1, SMTT(30) DEF IsSetPass
    <2> QED
      BY <2>1, <2>2, <2>3
  <1> DEFINE Bad == {n \in 0..Len(list) : ~SetOK(f[n], list, n, k)}
  <1>3. Bad = {}
    <2> SUFFICES ASSUME Bad # {} PROVE FALSE
      OBVIOUS
    <2>1. PICK m \in Bad : \A i \in Bad : m <= i
      <3>1. Bad \subseteq Nat
        OBVIOUS
      <3> HIDE DEF Bad
      <3> QED
        BY <3>1, Least
    <2>2. m # 0
      BY <1>2, SetOKInit
    <2>3. m \in 1..Len(list) /\ m - 1 \in 0..Len(list) /\ m - 1 \notin Bad
      BY <1>2, <2>1, <2>2
    <2>4. SetOK(f[m - 1], list, m - 1, k)
      BY <2>3
    <2>5. SetOK(f[m], list, m, k)
      BY <1>2, <2>3, <2>4, SetOKStep
    <2> QED
      BY <2>1, <2>5
  <1>4. SetOK(f[Len(list)], list, Len(list), k)
    <2>1. Len(list) \in 0..Len(list)
      BY <1>2
    <2> QED
      BY <1>3, <2>1
  <1>5. PICK e : e = f[Len(list)]
    OBVIOUS
  <1>6. r = [list |-> e.pre \o Linked(e) \o e.post, woken |-> e.woken, taken |-> e.taken]
        /\ SetOK(e, list, Len(list), k)
    BY <1>1, <1>4, <1>5
  <1>7. r.list = e.pre \o Linked(e) \o e.post /\ r.woken = e.woken /\ r.taken = e.taken
    <2>1. PICK s : s = e.pre \o Linked(e) \o e.post
      OBVIOUS
    <2>2. r = [list |-> s, woken |-> e.woken, taken |-> e.taken]
      BY <1>6, <2>1, Zenon
    <2>3. r.list = s /\ r.woken = e.woken /\ r.taken = e.taken
      BY <2>2
    <2> QED
      BY <2>1, <2>3
  <1>8. /\ e.pre \in Lists /\ e.post \in Lists /\ e.woken \subseteq Procs /\ e.taken \subseteq Procs
        /\ e.lock \in LockRecs
    BY <1>6 DEF SetOK, PassStates
  <1>9. r = [list |-> r.list, woken |-> r.woken, taken |-> r.taken]
    BY <1>6, <1>7
  <1>10. /\ Account(list, Len(list), k, Out(e), r.taken, r.woken)
         /\ Exact(list, k) => r.taken = {} /\ \A x \in Out(e) : \E y \in Locks(list) : SameRange(x, y)
         /\ Exact(list, k) /\ OneEach(Locks(list)) => Apart(Out(e), r.woken)
    BY <1>6, <1>7, SeenRest DEF SetOK, SetExact, SetFlags
  <1>11. Sorted(e.pre) /\ Sorted(e.post) /\ Follows(e.pre, e.post)
    BY <1>6 DEF SetOK, SetOrder
  <1>12. CASE e.freed
    <2>1. Linked(e) = <<>>
      BY <1>12 DEF Linked
    <2>2. r.list = e.pre \o e.post
      BY <1>7, <1>8, <2>1, CatEmpty
    <2>3. r.list \in Lists /\ Locks(r.list) = Out(e) /\ Sorted(r.list)
      BY <1>8, <1>11, <2>2, CatLocks, CatSorted DEF Out
    <2>4. r.taken = {} /\ \E x \in Out(e) : x.id = k.id /\ x.type = k.type /\ Within(k, x)
      BY <1>6, <1>7, <1>12 DEF SetOK, SetFlags
    <2> QED
      BY <1>7, <1>8, <1>9, <1>10, <2>3, <2>4 DEF SetOutcome
  <1>13. CASE ~e.freed
    <2>1. PICK s : s = <<e.lock>>
      OBVIOUS
    <2>2. s \in Lists /\ Locks(s) = {e.lock} /\ Sorted(s)
      BY <1>8, <2>1, FewLocks
    <2>3. r.list = e.pre \o s \o e.post
      BY <1>7, <1>13, <2>1 DEF Linked
    <2>4. SameLock(e.lock, k) /\ e.lock.sleepers = r.taken
      BY <1>6, <1>7 DEF SetOK, SetFlags
    <2>5. /\ \A x \in Locks(e.pre) : x.id = k.id => Precedes(x, k)
          /\ \A x \in Locks(e.post) : x.id = k.id => Precedes(k, x)
      BY <1>6, <1>13 DEF SetOK, SetOrder
    <2>6. Follows(e.pre, s) /\ Follows(s, e.post)
      BY <2>2, <2>4, <2>5 DEF Follows, SameLock, Precedes
    <2>7. e.pre \o s \in Lists /\ Sorted(e.pre \o s) /\ Locks(e.pre \o s) = Locks(e.pre) \cup {e.lock}
      BY <1>8, <1>11, <2>2, <2>6, CatLocks, CatSorted
    <2>8. Follows(e.pre \o s, e.post)
      BY <1>11, <2>2, <2>6, <2>7 DEF Follows
    <2>9. r.list \in Lists /\ Sorted(r.list) /\ Locks(r.list) = Out(e) \cup {e.lock}
      BY <1>8, <1>11, <2>3, <2>7, <2>8, CatLocks, CatSorted DEF Out
    <2> QED
      BY <1>7, <1>8, <1>9, <1>10, <2>4, <2>9, <1>8 DEF SetOutcome
  <1> QED
    BY <1>12, <1>13

-----------------------------------------------------------------------------
(* The other ways in which a list changes.                                 *)

(* The locks of other owners stay, but for those who sleep for them.       *)
Keeps(list, new, id) == \A x \in Locks(list) : x.id # id =>
    \E y \in Locks(new) : SameLock(y, x)
(* All that every change of the list of an inode has in common.            *)
Changed(list, new, id, ino) ==
    /\ new \in Lists /\ Sorted(new) /\ Keeps(list, new, id)
    /\ \A x \in Locks(new) : x.ino = ino

LEMMA AccountKeeps ==
    ASSUME NEW list \in Lists, NEW k, NEW out, NEW T, NEW W,
           \A x \in Locks(list) : x.ino = k.ino,
           Account(list, Len(list), k, out, T, W)
    PROVE  /\ \A x \in Locks(list) : x.id # k.id => x \in out
           /\ \A x \in out : x.ino = k.ino
  <1>1. Seen(list, Len(list)) = Locks(list) /\ Locks(list) \subseteq LockRecs
    BY SeenRest DEF Lists, Locks
  <1>2. \A x \in Locks(list) : x.id # k.id => x \in out
    BY <1>1 DEF Account, SameOthers
  <1>3. ASSUME NEW x \in out PROVE x.ino = k.ino
    <2>1. PICK y \in Locks(list) : From(x, y)
      BY <1>1 DEF Account, Sources
    <2> QED
      BY <2>1 DEF From
  <1> QED
    BY <1>2, <1>3

LEMMA SetChanged ==
    ASSUME NEW list \in Lists, Sorted(list), NEW k \in LockRecs, k.sleepers = {},
           \A x \in Locks(list) : x.ino = k.ino
    PROVE  /\ Changed(list, lf_setlock(list, k).list, k.id, k.ino)
           /\ lf_setlock(list, k).woken \subseteq Procs /\ lf_setlock(list, k).taken \subseteq Procs
  <1>1. PICK r : r = lf_setlock(list, k)
    OBVIOUS
  <1>2. r.list \in Lists /\ r.woken \subseteq Procs /\ r.taken \subseteq Procs /\ Sorted(r.list)
    BY <1>1, SetResult
  <1>3. PICK out : /\ Account(list, Len(list), k, out, r.taken, r.woken)
                   /\ \/ Locks(r.list) = out
                      \/ \E l \in LockRecs : Locks(r.list) = out \cup {l} /\ SameLock(l, k)
    <2>1. PICK out : SetOutcome(list, k, r, out)
      BY <1>1, SetResult
    <2> QED
      BY <2>1 DEF SetOutcome
  <1>4. /\ \A x \in Locks(list) : x.id # k.id => x \in out
        /\ \A x \in out : x.ino = k.ino
    BY <1>3, AccountKeeps
  <1>5. Keeps(list, r.list, k.id)
    BY <1>3, <1>4 DEF Keeps, SameLock
  <1>6. \A x \in Locks(r.list) : x.ino = k.ino
    BY <1>3, <1>4 DEF SameLock
  <1> QED
    BY <1>1, <1>2, <1>5, <1>6 DEF Changed

LEMMA ClearChanged ==
    ASSUME NEW list \in Lists, Sorted(list), NEW k \in Asked,
           \A x \in Locks(list) : x.ino = k.ino
    PROVE  /\ Changed(list, lf_clearlock(list, k).list, k.id, k.ino)
           /\ lf_clearlock(list, k).woken \subseteq Procs /\ lf_clearlock(list, k).taken = {}
  <1>1. PICK r : r = lf_clearlock(list, k)
    OBVIOUS
  <1>2. /\ r.list \in Lists /\ r.woken \subseteq Procs /\ r.taken = {} /\ Sorted(r.list)
        /\ Account(list, Len(list), k, Locks(r.list), {}, r.woken)
    BY <1>1, ClearResult
  <1>3. /\ \A x \in Locks(list) : x.id # k.id => x \in Locks(r.list)
        /\ \A x \in Locks(r.list) : x.ino = k.ino
    BY <1>2, AccountKeeps
  <1>4. Keeps(list, r.list, k.id)
    BY <1>3 DEF Keeps, SameLock
  <1> QED
    BY <1>1, <1>2, <1>3, <1>4 DEF Changed

(* Only the sleepers change.                                               *)
Resleep(list, new) == /\ new \in Lists /\ Len(new) = Len(list)
                      /\ \A i \in 1..Len(list) : SameLock(new[i], list[i])

LEMMA ResleepChanged ==
    ASSUME NEW list \in Lists, Sorted(list), NEW new, Resleep(list, new), NEW ino,
           \A x \in Locks(list) : x.ino = ino
    PROVE  /\ \A id : Changed(list, new, id, ino)
           /\ \A x \in Locks(list) : \E y \in Locks(new) : SameLock(y, x)
           /\ \A y \in Locks(new) : \E x \in Locks(list) : SameLock(y, x)
  <1>1. /\ new \in Lists /\ DOMAIN new = 1..Len(list) /\ DOMAIN list = 1..Len(list)
        /\ \A i \in 1..Len(list) : SameLock(new[i], list[i])
    BY DEF Resleep, Lists
  <1>2. \A x \in Locks(list) : \E y \in Locks(new) : SameLock(y, x)
    BY <1>1 DEF Locks
  <1>3. \A y \in Locks(new) : \E x \in Locks(list) : SameLock(y, x)
    BY <1>1 DEF Locks
  <1>4. Sorted(new)
    <2>1. ASSUME NEW i \in DOMAIN new, NEW j \in DOMAIN new, i < j, new[i].id = new[j].id
          PROVE  Precedes(new[i], new[j])
      <3>1. SameLock(new[i], list[i]) /\ SameLock(new[j], list[j])
        BY <1>1
      <3>2. Precedes(list[i], list[j])
        BY <1>1, <2>1, <3>1 DEF Sorted, SameLock
      <3> QED
        BY <3>1, <3>2 DEF SameLock, Precedes
    <2> QED
      BY <2>1 DEF Sorted
  <1>5. \A x \in Locks(new) : x.ino = ino
    BY <1>3 DEF SameLock
  <1> QED
    BY <1>1, <1>2, <1>3, <1>4, <1>5 DEF Changed, Keeps

(* One lock of a list gets other sleepers.                                 *)
Asleep(list, i, S) == [list EXCEPT ![i].sleepers = S]

LEMMA PutSleepers ==
    ASSUME NEW list \in Lists, NEW i \in DOMAIN list, NEW S \in SUBSET Procs,
           NEW new, new = Asleep(list, i, S)
    PROVE  /\ Resleep(list, new) /\ new[i].sleepers = S
           /\ \A j \in DOMAIN list : j # i => new[j] = list[j]
  <1>1. list \in Seq(LockRecs) /\ DOMAIN list = 1..Len(list) /\ list[i] \in LockRecs
    BY DEF Lists
  <1>2. PICK x : x = [list[i] EXCEPT !.sleepers = S]
    OBVIOUS
  <1>3. x \in LockRecs /\ x.sleepers = S /\ SameLock(x, list[i])
    BY <1>1, <1>2 DEF LockRecs, SameLock
  <1>4. new = [list EXCEPT ![i] = x]
    BY <1>2 DEF Asleep
  <1>6. new \in Seq(LockRecs) /\ Len(new) = Len(list) /\ new[i] = x
    BY <1>1, <1>3, <1>4
  <1>7. \A j \in DOMAIN list : j # i => new[j] = list[j]
    BY <1>1, <1>4
  <1>8. \A j \in 1..Len(list) : SameLock(new[j], list[j])
    BY <1>1, <1>3, <1>6, <1>7 DEF SameLock
  <1> QED
    BY <1>3, <1>6, <1>7, <1>8 DEF Resleep, Lists

LEMMA SubLists ==
    ASSUME NEW list \in Lists, Sorted(list), NEW i \in 1..Len(list)
    PROVE  /\ SubSeq(list, 1, i - 1) \in Lists /\ Sorted(SubSeq(list, 1, i - 1))
           /\ Locks(SubSeq(list, 1, i - 1)) = Seen(list, i - 1)
           /\ SubSeq(list, i + 1, Len(list)) \in Lists /\ Sorted(SubSeq(list, i + 1, Len(list)))
           /\ Locks(SubSeq(list, i + 1, Len(list))) = Rest(list, i)
  <1>0. list \in Seq(LockRecs) /\ Len(list) \in Nat /\ DOMAIN list = 1..Len(list)
    BY DEF Lists
  <1>1. PICK s : s = SubSeq(list, 1, i - 1)
    OBVIOUS
  <1>2. s \in Seq(LockRecs) /\ DOMAIN s = 1..(i - 1) /\ \A j \in 1..(i - 1) : s[j] = list[j]
    BY <1>0, <1>1
  <1>3. PICK t : t = SubSeq(list, i + 1, Len(list))
    OBVIOUS
  <1>4. t \in Seq(LockRecs) /\ DOMAIN t = 1..(Len(list) - i) /\ \A j \in 1..(Len(list) - i) : t[j] = list[j + i]
    BY <1>0, <1>3
  <1>5. Sorted(s) /\ Locks(s) = Seen(list, i - 1)
    BY <1>0, <1>2 DEF Sorted, Locks, Seen
  <1>6. Sorted(t)
    <2>1. ASSUME NEW a \in DOMAIN t, NEW b \in DOMAIN t, a < b, t[a].id = t[b].id
          PROVE  Precedes(t[a], t[b])
      <3>1. a + i \in DOMAIN list /\ b + i \in DOMAIN list /\ a + i < b + i
        BY <1>0, <1>4, <2>1
      <3> QED
        BY <1>4, <2>1, <3>1 DEF Sorted
    <2> QED
      BY <2>1 DEF Sorted
  <1>7. Locks(t) = Rest(list, i)
    <2>1. ASSUME NEW x \in Locks(t) PROVE x \in Rest(list, i)
      <3>1. PICK j \in 1..(Len(list) - i) : x = list[j + i]
        BY <1>4 DEF Locks
      <3>2. j + i \in (i + 1)..Len(list)
        BY <1>0
      <3> QED
        BY <3>1, <3>2 DEF Rest
    <2>2. ASSUME NEW x \in Rest(list, i) PROVE x \in Locks(t)
      <3>1. PICK j \in (i + 1)..Len(list) : x = list[j]
        BY DEF Rest
      <3>2. j - i \in 1..(Len(list) - i) /\ (j - i) + i = j
        BY <1>0
      <3> QED
        BY <1>4, <3>1, <3>2 DEF Locks
    <2> QED
      BY <2>1, <2>2
  <1> QED
    BY <1>1, <1>2, <1>3, <1>4, <1>5, <1>6, <1>7 DEF Lists

(* lf_split after lf_clearlock: the pieces take the place of the lock.     *)
CutList(list, i, k) == SubSeq(list, 1, i - 1) \o Before(list[i], k)
                       \o After(list[i], k) \o SubSeq(list, i + 1, Len(list))

LEMMA CutPieces ==
    ASSUME NEW lf \in LockRecs, NEW k \in Asked, ~Disjoint(lf, k)
    PROVE  /\ Before(lf, k) \o After(lf, k) \in Lists
           /\ Sorted(Before(lf, k) \o After(lf, k))
           /\ \A x \in Locks(Before(lf, k) \o After(lf, k)) :
                 /\ x.id = lf.id /\ x.ino = lf.ino /\ x.type = lf.type
                 /\ Within(x, lf) /\ (Precedes(x, k) \/ Precedes(k, x))
           /\ Before(lf, k) \in Lists /\ After(lf, k) \in Lists
  <1>0. /\ lf.start \in Nat /\ lf.end \in Int /\ (lf.end = EOF \/ lf.start <= lf.end)
        /\ k.start \in Nat /\ k.end \in Int /\ (k.end = EOF \/ k.start <= k.end) /\ EOF = -1
    BY DEF LockRecs, Asked, EOF
  <1>1. PICK P, Q : P = Before(lf, k) /\ Q = After(lf, k)
    OBVIOUS
  <1>2. /\ P \in Lists /\ Sorted(P)
        /\ \A x \in Locks(P) : /\ lf.start < k.start
                               /\ x.id = lf.id /\ x.ino = lf.ino /\ x.type = lf.type
                               /\ x.start = lf.start /\ x.end = k.start - 1
    <2>1. CASE lf.start < k.start
      BY <1>1, <2>1, BeforeOK, FewLocks
    <2>2. CASE ~(lf.start < k.start)
      BY <1>1, <2>2, BeforeOK, FewLocks
    <2> QED
      BY <2>1, <2>2
  <1>3. /\ Q \in Lists /\ Sorted(Q)
        /\ \A x \in Locks(Q) : /\ k.end # EOF /\ (lf.end = EOF \/ lf.end > k.end)
                               /\ x.id = lf.id /\ x.ino = lf.ino /\ x.type = lf.type
                               /\ x.start = k.end + 1 /\ x.end = lf.end
    <2>1. CASE k.end # EOF /\ (lf.end = EOF \/ lf.end > k.end)
      BY <1>1, <2>1, AfterOK, FewLocks
    <2>2. CASE ~(k.end # EOF /\ (lf.end = EOF \/ lf.end > k.end))
      BY <1>1, <2>2, AfterOK, FewLocks
    <2> QED
      BY <2>1, <2>2
  <1>4. ASSUME NEW x \in Locks(P) PROVE Within(x, lf) /\ Precedes(x, k)
    BY <1>0, <1>2 DEF Disjoint, Within, Precedes
  <1>5. ASSUME NEW x \in Locks(Q) PROVE Within(x, lf) /\ Precedes(k, x)
    BY <1>0, <1>3 DEF Disjoint, Within, Precedes
  <1>6. Follows(P, Q)
    <2>1. ASSUME NEW x \in Locks(P), NEW y \in Locks(Q) PROVE Precedes(x, y)
      BY <1>0, <1>2, <1>3 DEF Precedes
    <2> QED
      BY <2>1 DEF Follows
  <1>7. P \o Q \in Lists /\ Sorted(P \o Q) /\ Locks(P \o Q) = Locks(P) \cup Locks(Q)
    BY <1>2, <1>3, <1>6, CatLocks, CatSorted
  <1> QED
    BY <1>1, <1>2, <1>3, <1>4, <1>5, <1>7

LEMMA CutChanged ==
    ASSUME NEW list \in Lists, Sorted(list), NEW k \in Asked, NEW i \in DOMAIN list,
           Splits(list[i], k), NEW ino, \A x \in Locks(list) : x.ino = ino
    PROVE  Changed(list, CutList(list, i, k), k.id, ino)
  <1>1. i \in 1..Len(list) /\ list[i] \in LockRecs /\ list[i] \in Locks(list)
    BY DEF Lists, Locks
  <1>2. PICK A, B, C, lf : /\ A = SubSeq(list, 1, i - 1) /\ C = SubSeq(list, i + 1, Len(list))
                           /\ lf = list[i] /\ B = Before(lf, k) \o After(lf, k)
    OBVIOUS
  <1>3. lf.id = k.id /\ ~Disjoint(lf, k)
    BY <1>1, <1>2, DisjointOK DEF Splits
  <1>4. /\ B \in Lists /\ Sorted(B) /\ Before(lf, k) \in Lists /\ After(lf, k) \in Lists
        /\ \A x \in Locks(B) : x.id = lf.id /\ x.ino = lf.ino /\ Within(x, lf)
    BY <1>1, <1>2, <1>3, CutPieces
  <1>5. /\ A \in Lists /\ Sorted(A) /\ Locks(A) = Seen(list, i - 1)
        /\ C \in Lists /\ Sorted(C) /\ Locks(C) = Rest(list, i)
    BY <1>1, <1>2, SubLists
  <1>6. /\ \A y \in Locks(C) : lf.id = y.id => Precedes(lf, y)
        /\ \A x \in Locks(A) : x.id = lf.id => Precedes(x, lf)
    BY <1>1, <1>2, <1>5, SortedRest
  <1>7. Locks(A) \subseteq LockRecs /\ Locks(B) \subseteq LockRecs /\ Locks(C) \subseteq LockRecs
    BY <1>4, <1>5 DEF Lists, Locks
  <1>8. Follows(A, B)
    <2>1. ASSUME NEW x \in Locks(A), NEW y \in Locks(B), x.id = y.id PROVE Precedes(x, y)
      BY <1>1, <1>2, <1>4, <1>6, <1>7, <2>1, WithinOK
    <2> QED
      BY <2>1 DEF Follows
  <1>9. Follows(B, C)
    <2>1. ASSUME NEW x \in Locks(B), NEW y \in Locks(C), x.id = y.id PROVE Precedes(x, y)
      BY <1>1, <1>2, <1>4, <1>6, <1>7, <2>1, WithinOK
    <2> QED
      BY <2>1 DEF Follows
  <1>10. Follows(A, C)
    <2>1. ASSUME NEW x \in Seen(list, i - 1), NEW y \in Rest(list, i), x.id = y.id PROVE Precedes(x, y)
      BY <1>1, <2>1 DEF Seen, Rest, Sorted, Lists
    <2> QED
      BY <1>5, <2>1 DEF Follows
  <1>11. A \o B \in Lists /\ Sorted(A \o B) /\ Locks(A \o B) = Locks(A) \cup Locks(B)
    BY <1>4, <1>5, <1>8, CatLocks, CatSorted
  <1>12. Follows(A \o B, C)
    BY <1>9, <1>10, <1>11 DEF Follows
  <1>13. /\ (A \o B) \o C \in Lists /\ Sorted((A \o B) \o C)
         /\ Locks((A \o B) \o C) = Locks(A) \cup Locks(B) \cup Locks(C)
    BY <1>5, <1>11, <1>12, CatLocks, CatSorted
  <1>14. CutList(list, i, k) = (A \o B) \o C
    <2>1. A \o Before(lf, k) \o After(lf, k) = A \o B
      <3>1. PICK P, Q : P = Before(lf, k) /\ Q = After(lf, k)
        OBVIOUS
      <3>2. P \in Lists /\ Q \in Lists
        BY <1>4, <3>1
      <3>3. A \o P \o Q = A \o (P \o Q)
        BY <1>5, <3>2, CatAssoc, ZenonT(30)
      <3> QED
        BY <1>2, <3>1, <3>3, Zenon
    <2> QED
      BY <1>2, <2>1 DEF CutList
  <1>15. Locks(list) = Seen(list, i - 1) \cup {lf} \cup Rest(list, i)
    <2>1. 1..Len(list) = (1..(i - 1)) \cup {i} \cup ((i + 1)..Len(list)) /\ DOMAIN list = 1..Len(list)
      BY <1>1 DEF Lists
    <2> QED
      BY <1>2, <2>1 DEF Locks, Seen, Rest
  <1>16. Keeps(list, (A \o B) \o C, k.id)
    BY <1>3, <1>5, <1>13, <1>15 DEF Keeps, SameLock
  <1>17. \A x \in Locks((A \o B) \o C) : x.ino = ino
    BY <1>1, <1>2, <1>4, <1>5, <1>13, <1>15
  <1> QED
    BY <1>13, <1>14, <1>16, <1>17 DEF Changed

-----------------------------------------------------------------------------
(* What is true of every state, whatever the constants.                    *)

PCs == {"user", "asleep", "woken", "signalled", "set", "clear"}

TypeOK ==
    /\ i_lockf \in [Inodes -> Lists]
    /\ \A ino \in Inodes : \A x \in Locks(i_lockf[ino]) : x.ino = ino
    /\ pc \in [Procs -> PCs] /\ req \in [Procs -> Asked \cup {None}]
    /\ dangling \in [Procs -> BOOLEAN]
    /\ fds \subseteq Fds /\ SADVLCK \subseteq Procs /\ FHASLOCK \subseteq Files

(* k is a request that process p can make.                                 *)
IsReq(p, k) ==
    /\ k \in Asked /\ k.sleepers = {}
    /\ \E f \in Files :
          /\ <<p, f>> \in fds /\ k.ino = InodeOf[f]
          /\ \/ k.id = p /\ \E r \in Ranges : k.start = r[1] /\ k.end = r[2]
             \/ Flock /\ k.id = f /\ k.start = 0 /\ k.end = EOF
Pending == \A p \in Procs : pc[p] # "user" =>
    IsReq(p, req[p]) /\ (pc[p] # "clear" => req[p] \in LockRecs)

SortedLists == \A ino \in Inodes : Sorted(i_lockf[ino])

(* Nobody takes away the lock that lf_split is about to cut.               *)
Cuttable == \A p \in Procs : pc[p] = "clear" =>
    \E x \in Locks(i_lockf[req[p].ino]) : Splits(x, req[p])

Base == TypeOK /\ Pending /\ SortedLists /\ Cuttable

(* The steps.  p asks for k, for the first time or again.                  *)
Asks(p, k) ==
    /\ IsReq(p, k) /\ k \in LockRecs /\ UNCHANGED fds
    /\ \/ pc[p] \in {"woken", "set"} /\ k = req[p] /\ UNCHANGED <<SADVLCK, FHASLOCK>>
       \/ pc[p] = "user" /\ k.id = p /\ SADVLCK' = SADVLCK \cup {p} /\ UNCHANGED FHASLOCK
       \/ pc[p] = "user" /\ k.id \in Files /\ FHASLOCK' = FHASLOCK \cup {k.id} /\ UNCHANGED SADVLCK
Placing(p, k) ==
    /\ Asks(p, k) /\ (lf_getblock(k) = {} \/ pc[p] = "set")
    /\ Update(p, k.ino, lf_setlock(i_lockf[k.ino], k), "user")
    /\ req' = [req EXCEPT ![p] = None]
Deferring(p, k) ==
    /\ Asks(p, k) /\ pc[p] # "set" /\ MallocSleeps /\ NeedsMalloc(k)
    /\ Stay(p, "set") /\ req' = [req EXCEPT ![p] = k]
Failing(p, k) ==
    /\ Asks(p, k) /\ pc[p] # "set"
    /\ Stay(p, "user") /\ req' = [req EXCEPT ![p] = None]
Queue(list, i, p) == [list EXCEPT ![i].sleepers = @ \cup {p}]
SleepList(p, k, i) ==
    IF k.id \in Files /\ k.type = "F_WRLCK"
    THEN lf_clearlock(Queue(i_lockf[k.ino], i, p), k)
    ELSE [list |-> Queue(i_lockf[k.ino], i, p), woken |-> {}, taken |-> {}]
Sleeping(p, k, i) ==
    /\ Asks(p, k) /\ pc[p] # "set" /\ i \in lf_getblock(k)
    /\ \E garbage \in Procs \cup {None} : ~EDEADLK(k, i_lockf[k.ino][i], garbage)
    /\ Update(p, k.ino, SleepList(p, k, i), "asleep")
    /\ req' = [req EXCEPT ![p] = k]

(* p gives up what it has in k.                                            *)
Frees(p, k) ==
    /\ IsReq(p, k) /\ k.type = "F_UNLCK" /\ pc[p] = "user" /\ UNCHANGED <<fds, SADVLCK>>
    /\ \/ k.id = p /\ UNCHANGED FHASLOCK
       \/ k.id \in Files /\ FHASLOCK' = FHASLOCK \ {k.id}
Clearing(p, k) ==
    /\ Frees(p, k)
    /\ Update(p, k.ino, lf_clearlock(i_lockf[k.ino], k), "user")
    /\ req' = [req EXCEPT ![p] = None]
Cut(list, k) == CHOOSE i \in DOMAIN list : Splits(list[i], k)
Waking(p, k, i) ==
    /\ Frees(p, k) /\ MallocSleeps /\ NeedsMalloc(k) /\ i = Cut(i_lockf[k.ino], k)
    /\ Update(p, k.ino, [list  |-> [i_lockf[k.ino] EXCEPT ![i].sleepers = {}],
                         woken |-> i_lockf[k.ino][i].sleepers, taken |-> {}], "clear")
    /\ req' = [req EXCEPT ![p] = k]
Cutting(p, k, i) ==
    /\ pc[p] = "clear" /\ k = req[p] /\ i = Cut(i_lockf[k.ino], k)
    /\ Update(p, k.ino, [list |-> CutList(i_lockf[k.ino], i, k), woken |-> {}, taken |-> {}], "user")
    /\ req' = [req EXCEPT ![p] = None]
    /\ UNCHANGED <<fds, SADVLCK, FHASLOCK>>

LEMMA SetlockSteps ==
    ASSUME NEW p \in Procs, NEW k, NEW wait \in BOOLEAN, Asks(p, k), pc[p] # "set", setlock(p, k, wait)
    PROVE  Placing(p, k) \/ Deferring(p, k) \/ Failing(p, k) \/ \E i : Sleeping(p, k, i)
  <1>1. CASE /\ lf_getblock(k) = {}
             /\ Update(p, k.ino, lf_setlock(i_lockf[k.ino], k), "user")
             /\ req' = [req EXCEPT ![p] = None]
    BY <1>1 DEF Placing
  <1>2. CASE /\ lf_getblock(k) = {}
             /\ MallocSleeps /\ NeedsMalloc(k)
             /\ Stay(p, "set") /\ req' = [req EXCEPT ![p] = k]
    BY <1>2 DEF Deferring
  <1>3. CASE /\ lf_getblock(k) # {} /\ ~wait
             /\ Stay(p, "user") /\ req' = [req EXCEPT ![p] = None]
    BY <1>3 DEF Failing
  <1>4. ASSUME NEW i \in lf_getblock(k), NEW garbage \in Procs \cup {None},
               IF EDEADLK(k, i_lockf[k.ino][i], garbage)
               THEN Stay(p, "user") /\ req' = [req EXCEPT ![p] = None]
               ELSE /\ Update(p, k.ino, SleepList(p, k, i), "asleep")
                    /\ req' = [req EXCEPT ![p] = k]
        PROVE  Failing(p, k) \/ Sleeping(p, k, i)
    <2>1. CASE EDEADLK(k, i_lockf[k.ino][i], garbage)
      BY <1>4, <2>1 DEF Failing
    <2>2. CASE ~EDEADLK(k, i_lockf[k.ino][i], garbage)
      BY <1>4, <2>2 DEF Sleeping
    <2> QED
      BY <2>1, <2>2
  <1>5. \/ /\ lf_getblock(k) = {}
           /\ Update(p, k.ino, lf_setlock(i_lockf[k.ino], k), "user")
           /\ req' = [req EXCEPT ![p] = None]
        \/ /\ lf_getblock(k) = {}
           /\ MallocSleeps /\ NeedsMalloc(k)
           /\ Stay(p, "set") /\ req' = [req EXCEPT ![p] = k]
        \/ /\ lf_getblock(k) # {} /\ ~wait
           /\ Stay(p, "user") /\ req' = [req EXCEPT ![p] = None]
        \/ \E i \in lf_getblock(k), garbage \in Procs \cup {None} :
               IF EDEADLK(k, i_lockf[k.ino][i], garbage)
               THEN Stay(p, "user") /\ req' = [req EXCEPT ![p] = None]
               ELSE /\ Update(p, k.ino, SleepList(p, k, i), "asleep")
                    /\ req' = [req EXCEPT ![p] = k]
    BY Zenon DEF setlock, SleepList, Queue
  <1> QED
    BY <1>1, <1>2, <1>3, <1>4, <1>5

LEMMA ClearlockSteps ==
    ASSUME NEW p \in Procs, NEW k, Frees(p, k), clearlock(p, k)
    PROVE  Clearing(p, k) \/ \E i : Waking(p, k, i)
  <1>1. CASE /\ Update(p, k.ino, lf_clearlock(i_lockf[k.ino], k), "user")
             /\ req' = [req EXCEPT ![p] = None]
    BY <1>1 DEF Clearing
  <1>2. CASE /\ MallocSleeps /\ NeedsMalloc(k)
             /\ Update(p, k.ino, [list  |-> [i_lockf[k.ino] EXCEPT ![Cut(i_lockf[k.ino], k)].sleepers = {}],
                                  woken |-> i_lockf[k.ino][Cut(i_lockf[k.ino], k)].sleepers,
                                  taken |-> {}], "clear")
             /\ req' = [req EXCEPT ![p] = k]
    BY <1>2 DEF Waking
  <1> QED
    BY <1>1, <1>2, Zenon DEF clearlock, Cut

(* A request of fcntl or flock.                                            *)
LEMMA Requests ==
    ASSUME NEW p \in Procs, NEW f \in Files, <<p, f>> \in fds,
           NEW type \in {"F_RDLCK", "F_WRLCK", "F_UNLCK"}
    PROVE  /\ \A r \in Ranges :
                 LET k == Lock(p, InodeOf[f], type, r)
                 IN  /\ IsReq(p, k) /\ k.id = p /\ k.type = type /\ k.ino = InodeOf[f]
                     /\ type # "F_UNLCK" => k \in LockRecs
           /\ LET k == Lock(f, InodeOf[f], type, WholeFile)
              IN  /\ Flock => IsReq(p, k)
                  /\ k.id = f /\ k.type = type /\ k.ino = InodeOf[f] /\ k.start = 0 /\ k.end = EOF
                  /\ k \in Asked /\ k.sleepers = {}
                  /\ type # "F_UNLCK" => k \in LockRecs
  <1>1. p \in Ids /\ f \in Ids /\ InodeOf[f] \in Inodes /\ EOF = -1 /\ EOF \in Int
    BY LockfAssumption DEF Ids, EOF
  <1>2. ASSUME NEW r \in Ranges
        PROVE  LET k == Lock(p, InodeOf[f], type, r)
               IN  /\ IsReq(p, k) /\ k.id = p /\ k.type = type /\ k.ino = InodeOf[f]
                   /\ type # "F_UNLCK" => k \in LockRecs
    <2>1. PICK k : k = Lock(p, InodeOf[f], type, r)
      OBVIOUS
    <2>2. r[1] \in Nat /\ r[2] \in Int /\ (r[2] = EOF \/ r[1] <= r[2])
      BY <1>1, LockfAssumption
    <2>3. /\ k \in Asked /\ k.sleepers = {} /\ k.id = p /\ k.type = type /\ k.ino = InodeOf[f]
          /\ k.start = r[1] /\ k.end = r[2] /\ (type # "F_UNLCK" => k \in LockRecs)
      BY <1>1, <2>1, <2>2 DEF Lock, Asked, LockRecs
    <2>4. IsReq(p, k)
      BY <2>3 DEF IsReq
    <2> QED
      BY <2>1, <2>3, <2>4
  <1>3. PICK k : k = Lock(f, InodeOf[f], type, WholeFile)
    OBVIOUS
  <1>4. /\ k \in Asked /\ k.sleepers = {} /\ k.id = f /\ k.type = type /\ k.ino = InodeOf[f]
        /\ k.start = 0 /\ k.end = EOF /\ (type # "F_UNLCK" => k \in LockRecs)
    BY <1>1, <1>3 DEF Lock, Asked, LockRecs, WholeFile
  <1>5. Flock => IsReq(p, k)
    BY <1>4 DEF IsReq
  <1> QED
    BY <1>2, <1>3, <1>4, <1>5

LEMMA StepCases ==
    ASSUME Base, Next
    PROVE  \E p \in Procs :
              \/ \E k : \/ Placing(p, k) \/ Deferring(p, k) \/ Failing(p, k)
                        \/ \E i : Sleeping(p, k, i)
                        \/ Clearing(p, k) \/ \E i : Waking(p, k, i) \/ Cutting(p, k, i)
              \/ signal(p) \/ interrupted(p)
              \/ \E f \in Files : closef(p, f) \/ open(p, f)
  <1>1. PICK p \in Procs :
            \/ retry(p) \/ signal(p) \/ interrupted(p) \/ split(p)
            \/ \E f \in Files : fcntl(p, f) \/ flock(p, f) \/ closef(p, f) \/ open(p, f)
    BY DEF Next
  <1>2. CASE retry(p)
    <2>1. pc[p] = "woken" /\ setlock(p, req[p], TRUE) /\ UNCHANGED <<fds, SADVLCK, FHASLOCK>>
      BY <1>2 DEF retry
    <2>2. Asks(p, req[p])
      BY <2>1 DEF Base, Pending, Asks
    <2> QED
      BY <2>1, <2>2, SetlockSteps
  <1>3. CASE split(p)
    <2>1. PICK k, list : k = req[p] /\ list = i_lockf[k.ino]
      OBVIOUS
    <2>2. CASE pc[p] = "set"
      <3>1. /\ Update(p, k.ino, lf_setlock(list, k), "user")
            /\ req' = [req EXCEPT ![p] = None] /\ UNCHANGED <<fds, SADVLCK, FHASLOCK>>
        BY <1>3, <2>1, <2>2 DEF split
      <3>2. Asks(p, k)
        BY <2>1, <2>2, <3>1 DEF Base, Pending, Asks
      <3> QED
        BY <2>1, <2>2, <3>1, <3>2 DEF Placing
    <2>3. CASE pc[p] = "clear"
      <3>1. /\ Update(p, k.ino, [list |-> CutList(list, Cut(list, k), k), woken |-> {}, taken |-> {}], "user")
            /\ req' = [req EXCEPT ![p] = None] /\ UNCHANGED <<fds, SADVLCK, FHASLOCK>>
        BY <1>3, <2>1, <2>3 DEF split, CutList, Cut
      <3>2. PICK i : i = Cut(list, k)
        OBVIOUS
      <3> QED
        BY <2>1, <2>3, <3>1, <3>2 DEF Cutting
    <2> QED
      BY <1>3, <2>2, <2>3 DEF split
  <1>4. ASSUME NEW f \in Files, fcntl(p, f)
        PROVE  \E k : \/ Placing(p, k) \/ Deferring(p, k) \/ Failing(p, k)
                      \/ \E i : Sleeping(p, k, i)
                      \/ Clearing(p, k) \/ \E i : Waking(p, k, i)
    <2>1. pc[p] = "user" /\ <<p, f>> \in fds /\ UNCHANGED <<fds, FHASLOCK>>
      BY <1>4 DEF fcntl
    <2>2. PICK r \in Ranges :
            \/ /\ \E type \in Types, wait \in BOOLEAN : setlock(p, Lock(p, InodeOf[f], type, r), wait)
               /\ SADVLCK' = SADVLCK \cup {p}
            \/ /\ clearlock(p, Lock(p, InodeOf[f], "F_UNLCK", r))
               /\ UNCHANGED SADVLCK
      BY <1>4 DEF fcntl
    <2>3. ASSUME NEW type \in Types, NEW wait \in BOOLEAN, NEW k, k = Lock(p, InodeOf[f], type, r),
                 setlock(p, k, wait), SADVLCK' = SADVLCK \cup {p}
          PROVE  Placing(p, k) \/ Deferring(p, k) \/ Failing(p, k) \/ \E i : Sleeping(p, k, i)
      <3>1. type \in {"F_RDLCK", "F_WRLCK", "F_UNLCK"} /\ type # "F_UNLCK"
        BY LockfAssumption
      <3>2. IsReq(p, k) /\ k.id = p /\ k \in LockRecs
        BY <2>1, <2>3, <3>1, Requests
      <3>3. Asks(p, k)
        BY <2>1, <2>3, <3>2 DEF Asks
      <3> QED
        BY <2>1, <2>3, <3>3, SetlockSteps
    <2>4. ASSUME NEW k, k = Lock(p, InodeOf[f], "F_UNLCK", r), clearlock(p, k), UNCHANGED SADVLCK
          PROVE  Clearing(p, k) \/ \E i : Waking(p, k, i)
      <3>1. IsReq(p, k) /\ k.id = p /\ k.type = "F_UNLCK"
        BY <2>1, <2>4, Requests
      <3>2. Frees(p, k)
        BY <2>1, <2>4, <3>1 DEF Frees
      <3> QED
        BY <2>4, <3>2, ClearlockSteps
    <2> QED
      BY <2>2, <2>3, <2>4
  <1>5. ASSUME NEW f \in Files, flock(p, f)
        PROVE  \E k : \/ Placing(p, k) \/ Deferring(p, k) \/ Failing(p, k)
                      \/ \E i : Sleeping(p, k, i)
                      \/ Clearing(p, k) \/ \E i : Waking(p, k, i)
    <2>1. Flock /\ pc[p] = "user" /\ <<p, f>> \in fds /\ UNCHANGED <<fds, SADVLCK>>
      BY <1>5 DEF flock
    <2>2. \/ /\ \E type \in Types, wait \in BOOLEAN : setlock(p, Lock(f, InodeOf[f], type, WholeFile), wait)
             /\ FHASLOCK' = FHASLOCK \cup {f}
          \/ /\ clearlock(p, Lock(f, InodeOf[f], "F_UNLCK", WholeFile))
             /\ FHASLOCK' = FHASLOCK \ {f}
      BY <1>5 DEF flock
    <2>3. ASSUME NEW type \in Types, NEW wait \in BOOLEAN, NEW k, k = Lock(f, InodeOf[f], type, WholeFile),
                 setlock(p, k, wait), FHASLOCK' = FHASLOCK \cup {f}
          PROVE  Placing(p, k) \/ Deferring(p, k) \/ Failing(p, k) \/ \E i : Sleeping(p, k, i)
      <3>1. type \in {"F_RDLCK", "F_WRLCK", "F_UNLCK"} /\ type # "F_UNLCK"
        BY LockfAssumption
      <3>2. IsReq(p, k) /\ k.id = f /\ k \in LockRecs
        BY <2>1, <2>3, <3>1, Requests
      <3>3. Asks(p, k)
        BY <2>1, <2>3, <3>2 DEF Asks
      <3> QED
        BY <2>1, <2>3, <3>3, SetlockSteps
    <2>4. ASSUME NEW k, k = Lock(f, InodeOf[f], "F_UNLCK", WholeFile), clearlock(p, k),
                 FHASLOCK' = FHASLOCK \ {f}
          PROVE  Clearing(p, k) \/ \E i : Waking(p, k, i)
      <3>1. IsReq(p, k) /\ k.id = f /\ k.type = "F_UNLCK"
        BY <2>1, <2>4, Requests
      <3>2. Frees(p, k)
        BY <2>1, <2>4, <3>1 DEF Frees
      <3> QED
        BY <2>4, <3>2, ClearlockSteps
    <2> QED
      BY <2>2, <2>3, <2>4
  <1> QED
    BY <1>1, <1>2, <1>3, <1>4, <1>5

LEMMA SplitsSame ==
    ASSUME NEW x, NEW y, NEW k, SameLock(y, x), Splits(x, k)
    PROVE  Splits(y, k)
  BY DEF SameLock, Splits, ovcase, Disjoint

(* Only a lock of fcntl is cut in three.                                   *)
LEMMA SplitsProc ==
    ASSUME NEW p \in Procs, NEW k, IsReq(p, k), NEW x \in LockRecs, Splits(x, k)
    PROVE  x.id = p /\ k.id = p
  <1>1. k.id = x.id /\ x.start < k.start /\ x.start \in Nat
    BY DEF Splits, LockRecs
  <1>2. k.start # 0
    BY <1>1
  <1> QED
    BY <1>1, <1>2 DEF IsReq

(* Every change of a list that p makes.                                    *)
Altered(list, new, p, ino) ==
    /\ new \in Lists /\ Sorted(new) /\ \A x \in Locks(new) : x.ino = ino
    /\ \A x \in Locks(list) : x.id \in Procs \ {p} => \E y \in Locks(new) : SameLock(y, x)

LEMMA ChangedAltered ==
    ASSUME NEW list, NEW new, NEW id, NEW ino, Changed(list, new, id, ino),
           NEW p \in Procs, id = p \/ id \in Files
    PROVE  Altered(list, new, p, ino)
  BY LockfAssumption DEF Changed, Altered, Keeps

LEMMA UpdateBase ==
    ASSUME Base, NEW p \in Procs, NEW ino \in Inodes, NEW r,
           Altered(i_lockf[ino], r.list, p, ino),
           NEW where \in PCs, Update(p, ino, r, where),
           NEW v \in Asked \cup {None}, req' = [req EXCEPT ![p] = v],
           where # "user" => IsReq(p, v)' /\ (where # "clear" => v \in LockRecs),
           where = "clear" => v.ino = ino /\ \E x \in Locks(r.list) : Splits(x, v),
           fds' \subseteq Fds, SADVLCK' \subseteq Procs, FHASLOCK' \subseteq Files,
           \A q \in Procs \ {p} : \A f \in Files : <<q, f>> \in fds => <<q, f>> \in fds'
    PROVE  Base'
  <1>1. /\ i_lockf \in [Inodes -> Lists] /\ pc \in [Procs -> PCs] /\ req \in [Procs -> Asked \cup {None}]
        /\ dangling \in [Procs -> BOOLEAN]
        /\ \A i \in Inodes : \A x \in Locks(i_lockf[i]) : x.ino = i
    BY DEF Base, TypeOK
  <1>2. i_lockf' = [i_lockf EXCEPT ![ino] = r.list]
    BY DEF Update
  <1>3. /\ i_lockf' \in [Inodes -> Lists] /\ i_lockf'[ino] = r.list
        /\ \A i \in Inodes \ {ino} : i_lockf'[i] = i_lockf[i]
    BY <1>1, <1>2 DEF Altered
  <1>4. \A i \in Inodes : \A x \in Locks(i_lockf'[i]) : x.ino = i
    BY <1>1, <1>3 DEF Altered
  <1>5. /\ pc' \in [Procs -> PCs] /\ pc'[p] = where
        /\ \A q \in Procs \ {p} : pc'[q] = pc[q] \/ (pc[q] = "asleep" /\ pc'[q] = "woken")
    <2>1. pc' = [q \in Procs |-> IF q = p THEN where
                                 ELSE IF q \in r.woken /\ pc[q] = "asleep" THEN "woken" ELSE pc[q]]
      BY DEF Update
    <2>2. \A q \in Procs : pc'[q] = IF q = p THEN where
                                    ELSE IF q \in r.woken /\ pc[q] = "asleep" THEN "woken" ELSE pc[q]
      BY <2>1
    <2>3. "woken" \in PCs
      BY DEF PCs
    <2> QED
      BY <1>1, <2>1, <2>2, <2>3
  <1>6. req' \in [Procs -> Asked \cup {None}] /\ req'[p] = v /\ \A q \in Procs \ {p} : req'[q] = req[q]
    BY <1>1
  <1>7. dangling' \in [Procs -> BOOLEAN]
    BY DEF Update
  <1>8. TypeOK'
    BY <1>3, <1>4, <1>5, <1>6, <1>7 DEF TypeOK
  <1>9. Pending'
    <2>1. ASSUME NEW q \in Procs \ {p}, pc'[q] # "user"
          PROVE  IsReq(q, req[q])' /\ (pc'[q] # "clear" => req[q] \in LockRecs)
      <3>1. pc[q] # "user" /\ (pc'[q] # "clear" => pc[q] # "clear")
        BY <1>5, <2>1
      <3>2. IsReq(q, req[q]) /\ (pc'[q] # "clear" => req[q] \in LockRecs)
        BY <3>1 DEF Base, Pending
      <3>3. IsReq(q, req[q])'
        <4>1. req'[q] = req[q]
          BY <1>6
        <4> QED
          BY <3>2, <4>1 DEF IsReq
      <3> QED
        BY <1>6, <3>2, <3>3 DEF IsReq
    <2>2. ASSUME NEW q \in Procs, pc'[q] # "user"
          PROVE  IsReq(q, req[q])' /\ (pc'[q] # "clear" => req'[q] \in LockRecs)
      <3>1. CASE q = p
        BY <1>5, <1>6, <2>2, <3>1 DEF IsReq
      <3>2. CASE q # p
        <4>1. q \in Procs \ {p} /\ req'[q] = req[q]
          BY <1>6, <3>2
        <4> QED
          BY <2>1, <2>2, <4>1
      <3> QED
        BY <3>1, <3>2
    <2> QED
      BY <2>2 DEF Pending
  <1>10. SortedLists'
    BY <1>3 DEF Base, SortedLists, Altered
  <1>11. Cuttable'
    <2>1. ASSUME NEW q \in Procs, pc'[q] = "clear", q # p
          PROVE  \E x \in Locks(i_lockf'[req'[q].ino]) : Splits(x, req'[q])
      <3>1. pc[q] = "clear" /\ req'[q] = req[q]
        BY <1>5, <1>6, <2>1
      <3>2. PICK x \in Locks(i_lockf[req[q].ino]) : Splits(x, req[q])
        BY <3>1 DEF Base, Cuttable
      <3>3. IsReq(q, req[q])
        BY <3>1 DEF Base, Pending
      <3>4. req[q].ino \in Inodes
        BY <3>3, LockfAssumption DEF IsReq
      <3>5. x \in LockRecs
        BY <1>1, <3>4, <3>2 DEF Lists, Locks
      <3>6. x.id = q
        BY <3>2, <3>3, <3>5, SplitsProc
      <3>7. CASE req[q].ino = ino
        <4>1. x.id \in Procs \ {p}
          BY <2>1, <3>6
        <4>2. PICK y \in Locks(r.list) : SameLock(y, x)
          BY <3>2, <3>7, <4>1 DEF Altered
        <4>3. Splits(y, req[q])
          BY <3>2, <4>2, SplitsSame
        <4> QED
          BY <1>3, <3>1, <3>7, <4>3
      <3>8. CASE req[q].ino # ino
        BY <1>3, <3>1, <3>2, <3>4, <3>8
      <3> QED
        BY <3>7, <3>8
    <2>2. ASSUME pc'[p] = "clear" PROVE \E x \in Locks(i_lockf'[req'[p].ino]) : Splits(x, req'[p])
      BY <1>3, <1>5, <1>6, <2>2
    <2> QED
      BY <2>1, <2>2 DEF Cuttable
  <1> QED
    BY <1>8, <1>9, <1>10, <1>11 DEF Base

(* Nothing but sleepers of lists changes.                                  *)
LEMMA StayBase ==
    ASSUME Base, NEW p \in Procs, NEW where \in PCs \ {"clear"},
           pc' = [pc EXCEPT ![p] = where], i_lockf' \in [Inodes -> Lists],
           \A ino \in Inodes : Resleep(i_lockf[ino], i_lockf'[ino]),
           dangling' \in [Procs -> BOOLEAN],
           NEW v \in Asked \cup {None}, req' = [req EXCEPT ![p] = v],
           where # "user" => IsReq(p, v)' /\ v \in LockRecs,
           fds' \subseteq Fds, SADVLCK' \subseteq Procs, FHASLOCK' \subseteq Files, fds \subseteq fds'
    PROVE  Base'
  <1>1. /\ i_lockf \in [Inodes -> Lists] /\ pc \in [Procs -> PCs] /\ req \in [Procs -> Asked \cup {None}]
        /\ dangling \in [Procs -> BOOLEAN]
        /\ \A i \in Inodes : \A x \in Locks(i_lockf[i]) : x.ino = i
    BY DEF Base, TypeOK
  <1>2. /\ pc' \in [Procs -> PCs] /\ pc'[p] = where /\ \A q \in Procs \ {p} : pc'[q] = pc[q]
        /\ req' \in [Procs -> Asked \cup {None}] /\ req'[p] = v /\ \A q \in Procs \ {p} : req'[q] = req[q]
    BY <1>1
  <1>21. ASSUME NEW ino \in Inodes
         PROVE  /\ \A x \in Locks(i_lockf'[ino]) : x.ino = ino
                /\ Sorted(i_lockf'[ino])
                /\ \A x \in Locks(i_lockf[ino]) : \E y \in Locks(i_lockf'[ino]) : SameLock(y, x)
    <2>1. PICK list, new : list \in Lists /\ list = i_lockf[ino] /\ new = i_lockf'[ino]
      BY <1>1
    <2>2. Sorted(list) /\ Resleep(list, new) /\ \A x \in Locks(list) : x.ino = ino
      BY <1>1, <2>1 DEF Base, SortedLists
    <2>3. /\ \A id : Changed(list, new, id, ino)
          /\ \A x \in Locks(list) : \E y \in Locks(new) : SameLock(y, x)
      BY <2>1, <2>2, ResleepChanged
    <2> QED
      BY <2>1, <2>3 DEF Changed
  <1>3. TypeOK'
    BY <1>1, <1>2, <1>21 DEF TypeOK
  <1>4. Pending'
    <2>1. ASSUME NEW q \in Procs, pc'[q] # "user"
          PROVE  IsReq(q, req[q])' /\ (pc'[q] # "clear" => req'[q] \in LockRecs)
      <3>1. CASE q = p
        BY <1>2, <2>1, <3>1 DEF IsReq
      <3>2. CASE q # p
        <4>1. pc'[q] = pc[q] /\ req'[q] = req[q]
          BY <1>2, <3>2
        <4>2. IsReq(q, req[q]) /\ (pc[q] # "clear" => req[q] \in LockRecs)
          BY <2>1, <4>1 DEF Base, Pending
        <4> QED
          BY <4>1, <4>2 DEF IsReq
      <3> QED
        BY <3>1, <3>2
    <2> QED
      BY <2>1 DEF Pending
  <1>5. SortedLists'
    BY <1>21 DEF SortedLists
  <1>6. Cuttable'
    <2>1. ASSUME NEW q \in Procs, pc'[q] = "clear"
          PROVE  \E x \in Locks(i_lockf'[req'[q].ino]) : Splits(x, req'[q])
      <3>1. q # p /\ pc[q] = "clear" /\ req'[q] = req[q]
        BY <1>2, <2>1
      <3>2. PICK x \in Locks(i_lockf[req[q].ino]) : Splits(x, req[q])
        BY <3>1 DEF Base, Cuttable
      <3>3. IsReq(q, req[q])
        BY <3>1 DEF Base, Pending
      <3>4. req[q].ino \in Inodes
        BY <3>3, LockfAssumption DEF IsReq
      <3>5. PICK y \in Locks(i_lockf'[req[q].ino]) : SameLock(y, x)
        BY <1>21, <3>2, <3>4
      <3> QED
        BY <3>1, <3>2, <3>5, SplitsSame
    <2> QED
      BY <2>1 DEF Cuttable
  <1> QED
    BY <1>3, <1>4, <1>5, <1>6 DEF Base

(* The list on which p goes to sleep, and p is on it.                      *)
LEMMA QueueOK ==
    ASSUME NEW list \in Lists, NEW i \in DOMAIN list, NEW p \in Procs
    PROVE  /\ Resleep(list, Queue(list, i, p)) /\ Queue(list, i, p) \in Lists
           /\ Queue(list, i, p)[i].sleepers = list[i].sleepers \cup {p}
           /\ \A j \in DOMAIN list : j # i => Queue(list, i, p)[j] = list[j]
  <1>1. list[i].sleepers \cup {p} \in SUBSET Procs
    BY DEF Lists, LockRecs
  <1>2. PICK S \in SUBSET Procs : S = list[i].sleepers \cup {p}
    BY <1>1
  <1>3. PICK new : new = Asleep(list, i, S)
    OBVIOUS
  <1>4. Queue(list, i, p) = new
    BY <1>2, <1>3 DEF Queue, Asleep
  <1>5. /\ Resleep(list, new) /\ new[i].sleepers = S
        /\ \A j \in DOMAIN list : j # i => new[j] = list[j]
    BY <1>3, PutSleepers
  <1> QED
    BY <1>2, <1>4, <1>5 DEF Resleep

LEMMA ReqTyped ==
    ASSUME Base, NEW p \in Procs, NEW k, IsReq(p, k)
    PROVE  /\ k \in Asked /\ k.ino \in Inodes /\ i_lockf[k.ino] \in Lists /\ Sorted(i_lockf[k.ino])
           /\ \A x \in Locks(i_lockf[k.ino]) : x.ino = k.ino
           /\ k.id = p \/ k.id \in Files
  <1>1. k \in Asked /\ k.ino \in Inodes /\ (k.id = p \/ k.id \in Files)
    BY LockfAssumption DEF IsReq
  <1> QED
    BY <1>1 DEF Base, TypeOK, SortedLists

LEMMA SleepChanged ==
    ASSUME Base, NEW p \in Procs, NEW k, IsReq(p, k), k \in LockRecs, NEW i \in lf_getblock(k)
    PROVE  /\ i \in DOMAIN i_lockf[k.ino]
           /\ Changed(i_lockf[k.ino], SleepList(p, k, i).list, k.id, k.ino)
           /\ SleepList(p, k, i).taken = {}
  <1>1. PICK list : list = i_lockf[k.ino]
    OBVIOUS
  <1>2. /\ k \in Asked /\ list \in Lists /\ Sorted(list) /\ \A x \in Locks(list) : x.ino = k.ino
    BY <1>1, ReqTyped
  <1>3. i \in DOMAIN list
    BY <1>1 DEF lf_getblock
  <1>4. PICK queue : queue = Queue(list, i, p)
    OBVIOUS
  <1>5. Resleep(list, queue) /\ queue \in Lists
    BY <1>2, <1>3, <1>4, QueueOK
  <1>6. PICK ino : ino = k.ino
    OBVIOUS
  <1>7. \A x \in Locks(list) : x.ino = ino
    BY <1>2, <1>6
  <1>8. /\ \A id : Changed(list, queue, id, ino)
        /\ \A x \in Locks(list) : \E y \in Locks(queue) : SameLock(y, x)
    BY <1>2, <1>5, <1>7, ResleepChanged
  <1>9. CASE k.id \in Files /\ k.type = "F_WRLCK"
    <2>1. SleepList(p, k, i) = lf_clearlock(queue, k)
      BY <1>1, <1>4, <1>9 DEF SleepList
    <2>2. Changed(queue, lf_clearlock(queue, k).list, k.id, k.ino) /\ lf_clearlock(queue, k).taken = {}
      <3>1. Sorted(queue) /\ \A x \in Locks(queue) : x.ino = k.ino
        BY <1>6, <1>8 DEF Changed
      <3> QED
        BY <1>2, <1>5, <3>1, ClearChanged
    <2>3. Keeps(list, lf_clearlock(queue, k).list, k.id)
      <3>1. ASSUME NEW x \in Locks(list), x.id # k.id
            PROVE  \E y \in Locks(lf_clearlock(queue, k).list) : SameLock(y, x)
        <4>1. PICK y \in Locks(queue) : SameLock(y, x)
          BY <1>8
        <4>2. y.id # k.id
          BY <3>1, <4>1 DEF SameLock
        <4>3. PICK z \in Locks(lf_clearlock(queue, k).list) : SameLock(z, y)
          BY <2>2, <4>2 DEF Changed, Keeps
        <4> QED
          BY <4>1, <4>3 DEF SameLock
      <3> QED
        BY <3>1 DEF Keeps
    <2> QED
      BY <1>1, <1>3, <2>1, <2>2, <2>3 DEF Changed
  <1>10. CASE ~(k.id \in Files /\ k.type = "F_WRLCK")
    <2>1. SleepList(p, k, i) = [list |-> queue, woken |-> {}, taken |-> {}]
      BY <1>1, <1>4, <1>10 DEF SleepList
    <2>2. SleepList(p, k, i).list = queue /\ SleepList(p, k, i).taken = {}
      BY <2>1
    <2> QED
      BY <1>1, <1>3, <1>6, <1>8, <2>2
  <1> QED
    BY <1>9, <1>10

(* lf_split finds the lock to cut.                                         *)
LEMMA CutOK ==
    ASSUME NEW list \in Lists, NEW k, \E x \in Locks(list) : Splits(x, k), NEW i, i = Cut(list, k)
    PROVE  i \in DOMAIN list /\ Splits(list[i], k)
  <1>1. \E j \in DOMAIN list : Splits(list[j], k)
    BY DEF Locks
  <1> QED
    BY <1>1, Zenon DEF Cut

(* lf_clearlock where there is a reason for it.                            *)
MaybeClear(list, k, c) ==
    IF c THEN lf_clearlock(list, k) ELSE [list |-> list, woken |-> {}, taken |-> {}]

LEMMA AccountSame ==
    ASSUME NEW list \in Lists, Sorted(list), NEW k
    PROVE  Account(list, Len(list), k, Locks(list), {}, {})
  <1>1. /\ Seen(list, Len(list)) = Locks(list) /\ Rest(list, Len(list)) = {}
        /\ Locks(list) \subseteq LockRecs
    BY SeenRest DEF Lists, Locks
  <1>2. \A x \in LockRecs : From(x, x) /\ Wider(x, x)
    BY DEF From, Wider, Within, LockRecs
  <1> QED
    BY <1>1, <1>2 DEF Account, InOrder, SameOthers, SameBytes, Sources, Sleepers

LEMMA MaybeClearOK ==
    ASSUME NEW list \in Lists, Sorted(list), NEW k \in Asked, NEW c, NEW r, r = MaybeClear(list, k, c)
    PROVE  /\ r.list \in Lists /\ r.woken \subseteq Procs /\ r.taken = {} /\ Sorted(r.list)
           /\ r = [list |-> r.list, woken |-> r.woken, taken |-> r.taken]
           /\ Account(list, Len(list), k, Locks(r.list), {}, r.woken)
           /\ c => \A x \in Locks(r.list) : x.id = k.id => Precedes(x, k) \/ Precedes(k, x)
           /\ OneEach(Locks(list)) => Apart(Locks(r.list), r.woken)
           /\ Whole(list, k) => Locks(r.list) \subseteq Locks(list)
           /\ ~c => r.list = list /\ r.woken = {}
  <1>1. CASE c
    BY <1>1, ClearResult DEF MaybeClear
  <1>2. CASE ~c
    <2>1. r = [list |-> list, woken |-> {}, taken |-> {}]
      BY <1>2 DEF MaybeClear
    <2>2. r.list = list /\ r.woken = {} /\ r.taken = {}
      BY <2>1
    <2>3. Account(list, Len(list), k, Locks(list), {}, {})
      BY AccountSame
    <2> QED
      BY <1>2, <2>1, <2>2, <2>3 DEF Apart
  <1> QED
    BY <1>1, <1>2

LEMMA MaybeClearChanged ==
    ASSUME NEW list \in Lists, Sorted(list), NEW k \in Asked, NEW c, NEW r, r = MaybeClear(list, k, c),
           \A x \in Locks(list) : x.ino = k.ino
    PROVE  Changed(list, r.list, k.id, k.ino)
  <1>1. /\ r.list \in Lists /\ Sorted(r.list)
        /\ Account(list, Len(list), k, Locks(r.list), {}, r.woken)
    BY MaybeClearOK
  <1>2. /\ \A x \in Locks(list) : x.id # k.id => x \in Locks(r.list)
        /\ \A x \in Locks(r.list) : x.ino = k.ino
    BY <1>1, AccountKeeps
  <1> QED
    BY <1>1, <1>2 DEF Changed, Keeps, SameLock

(* A close: the locks of the process, then those of the file.              *)
OfProc(p, f) == Lock(p, InodeOf[f], "F_UNLCK", WholeFile)
OfFile(f)    == Lock(f, InodeOf[f], "F_UNLCK", WholeFile)
Last(p, f)   == ~\E q \in Procs \ {p} : <<q, f>> \in fds
Closing(p, f, r, s) ==
    /\ pc[p] = "user" /\ <<p, f>> \in fds
    /\ r = MaybeClear(i_lockf[InodeOf[f]], OfProc(p, f), p \in SADVLCK)
    /\ s = MaybeClear(r.list, OfFile(f), Last(p, f) /\ f \in FHASLOCK)
    /\ Update(p, InodeOf[f], [list |-> s.list, woken |-> s.woken \cup r.woken, taken |-> {}], "user")
    /\ FHASLOCK' = IF Last(p, f) THEN FHASLOCK \ {f} ELSE FHASLOCK
    /\ fds' = fds \ {<<p, f>>} /\ UNCHANGED <<req, SADVLCK>>

LEMMA CloseTyped ==
    ASSUME NEW p \in Procs, NEW f \in Files
    PROVE  /\ OfProc(p, f) \in Asked /\ OfProc(p, f).id = p /\ OfProc(p, f).ino = InodeOf[f]
           /\ OfProc(p, f).start = 0 /\ OfProc(p, f).end = EOF
           /\ OfFile(f) \in Asked /\ OfFile(f).id = f /\ OfFile(f).ino = InodeOf[f]
           /\ OfFile(f).start = 0 /\ OfFile(f).end = EOF
           /\ InodeOf[f] \in Inodes
  <1>1. p \in Ids /\ f \in Ids /\ InodeOf[f] \in Inodes /\ EOF \in Int
    BY LockfAssumption DEF Ids, EOF
  <1> QED
    BY <1>1 DEF OfProc, OfFile, Lock, WholeFile, Asked

LEMMA CloseStep ==
    ASSUME Base, NEW p \in Procs, NEW f \in Files, closef(p, f)
    PROVE  \E r, s : Closing(p, f, r, s)
  <1>1. PICK list : list = i_lockf[InodeOf[f]]
    OBVIOUS
  <1>2. PICK r : r = MaybeClear(list, OfProc(p, f), p \in SADVLCK)
    OBVIOUS
  <1>3. PICK s : s = MaybeClear(r.list, OfFile(f), Last(p, f) /\ f \in FHASLOCK)
    OBVIOUS
  <1>4. list \in Lists /\ Sorted(list)
    BY <1>1, CloseTyped DEF Base, TypeOK, SortedLists
  <1>5. r.list \in Lists /\ Sorted(r.list) /\ r = [list |-> r.list, woken |-> r.woken, taken |-> r.taken]
        /\ r.taken = {}
    <2>1. PICK k, c : k = OfProc(p, f) /\ r = MaybeClear(list, k, c)
      BY <1>2
    <2>2. k \in Asked
      BY <2>1, CloseTyped
    <2>3. r.list \in Lists /\ Sorted(r.list)
      BY <1>4, <2>1, <2>2, MaybeClearOK
    <2>4. r = [list |-> r.list, woken |-> r.woken, taken |-> r.taken]
      BY <1>4, <2>1, <2>2, MaybeClearOK
    <2>5. r.taken = {}
      BY <1>4, <2>1, <2>2, MaybeClearOK
    <2> QED
      BY <2>3, <2>4, <2>5
  <1>6. s.list \in Lists /\ Sorted(s.list) /\ s = [list |-> s.list, woken |-> s.woken, taken |-> s.taken]
        /\ s.taken = {}
    <2>1. PICK k, c : k = OfFile(f) /\ s = MaybeClear(r.list, k, c)
      BY <1>3
    <2>2. k \in Asked
      BY <2>1, CloseTyped
    <2>3. s.list \in Lists /\ Sorted(s.list)
      BY <1>5, <2>1, <2>2, MaybeClearOK
    <2>4. s = [list |-> s.list, woken |-> s.woken, taken |-> s.taken]
      BY <1>5, <2>1, <2>2, MaybeClearOK
    <2>5. s.taken = {}
      BY <1>5, <2>1, <2>2, MaybeClearOK
    <2> QED
      BY <2>3, <2>4, <2>5
  <1>7. r = IF p \in SADVLCK THEN lf_clearlock(list, OfProc(p, f))
            ELSE [list |-> list, woken |-> {}, taken |-> {}]
    BY <1>2 DEF MaybeClear
  <1>8. s = IF Last(p, f) /\ f \in FHASLOCK THEN lf_clearlock(r.list, OfFile(f))
            ELSE [[list |-> list, woken |-> {}, taken |-> {}] EXCEPT !.list = r.list]
    <2>1. [[list |-> list, woken |-> {}, taken |-> {}] EXCEPT !.list = r.list]
            = [list |-> r.list, woken |-> {}, taken |-> {}]
      OBVIOUS
    <2> QED
      BY <1>3, <2>1 DEF MaybeClear
  <1>9. /\ Update(p, InodeOf[f], [s EXCEPT !.woken = @ \cup r.woken], "user")
        /\ FHASLOCK' = IF Last(p, f) THEN FHASLOCK \ {f} ELSE FHASLOCK
        /\ fds' = fds \ {<<p, f>>} /\ UNCHANGED <<req, SADVLCK>>
        /\ pc[p] = "user" /\ <<p, f>> \in fds
    BY <1>1, <1>7, <1>8, Zenon DEF closef, OfProc, OfFile, Last
  <1>10. [s EXCEPT !.woken = @ \cup r.woken] = [list |-> s.list, woken |-> s.woken \cup r.woken, taken |-> {}]
    BY <1>6
  <1>11. Update(p, InodeOf[f], [list |-> s.list, woken |-> s.woken \cup r.woken, taken |-> {}], "user")
    BY <1>9, <1>10, Zenon
  <1>12. r = MaybeClear(i_lockf[InodeOf[f]], OfProc(p, f), p \in SADVLCK)
    BY <1>1, <1>2, Zenon
  <1> QED
    BY <1>3, <1>9, <1>11, <1>12, Zenon DEF Closing

LEMMA CloseAltered ==
    ASSUME Base, NEW p \in Procs, NEW f \in Files, NEW r, NEW s, Closing(p, f, r, s)
    PROVE  Altered(i_lockf[InodeOf[f]], s.list, p, InodeOf[f])
  <1>1. PICK list, ino, kp, kf : /\ ino = InodeOf[f] /\ list = i_lockf[ino]
                                 /\ kp = OfProc(p, f) /\ kf = OfFile(f)
    OBVIOUS
  <1>2. /\ list \in Lists /\ Sorted(list) /\ \A x \in Locks(list) : x.ino = ino
        /\ kp \in Asked /\ kf \in Asked /\ kp.id = p /\ kf.id = f /\ kp.ino = ino /\ kf.ino = ino
    BY <1>1, CloseTyped DEF Base, TypeOK, SortedLists
  <1>3. PICK c, d : r = MaybeClear(list, kp, c) /\ s = MaybeClear(r.list, kf, d)
    BY <1>1 DEF Closing
  <1>4. Changed(list, r.list, kp.id, kp.ino)
    BY <1>2, <1>3, MaybeClearChanged
  <1>5. r.list \in Lists /\ Sorted(r.list) /\ \A x \in Locks(r.list) : x.ino = kf.ino
    BY <1>2, <1>4 DEF Changed
  <1>6. Changed(r.list, s.list, kf.id, kf.ino)
    BY <1>2, <1>3, <1>5, MaybeClearChanged
  <1>7. ASSUME NEW x \in Locks(list), x.id \in Procs \ {p} PROVE \E y \in Locks(s.list) : SameLock(y, x)
    <2>1. PICK y \in Locks(r.list) : SameLock(y, x)
      BY <1>2, <1>4, <1>7 DEF Changed, Keeps
    <2>2. y.id # f
      BY <1>7, <2>1, LockfAssumption DEF SameLock
    <2>3. PICK z \in Locks(s.list) : SameLock(z, y)
      BY <1>2, <1>6, <2>2 DEF Changed, Keeps
    <2> QED
      BY <2>1, <2>3 DEF SameLock
  <1> QED
    BY <1>1, <1>2, <1>6, <1>7 DEF Changed, Altered

(* p waits for nothing, or waits for k again.                              *)
LEMMA SameLists ==
    ASSUME Base
    PROVE  /\ i_lockf \in [Inodes -> Lists]
           /\ \A ino \in Inodes : Resleep(i_lockf[ino], i_lockf[ino])
  <1>1. i_lockf \in [Inodes -> Lists]
    BY DEF Base, TypeOK
  <1> QED
    BY <1>1 DEF Resleep, SameLock

LEMMA UnlinkedOK ==
    ASSUME Base, NEW p \in Procs
    PROVE  /\ Unlinked(p) \in [Inodes -> Lists]
           /\ \A ino \in Inodes :
                 /\ Resleep(i_lockf[ino], Unlinked(p)[ino])
                 /\ \A i \in DOMAIN i_lockf[ino] :
                       Unlinked(p)[ino][i].sleepers = i_lockf[ino][i].sleepers \ {p}
  <1>1. i_lockf \in [Inodes -> Lists]
    BY DEF Base, TypeOK
  <1>2. ASSUME NEW ino \in Inodes
        PROVE  /\ Unlinked(p)[ino] \in Lists
               /\ Resleep(i_lockf[ino], Unlinked(p)[ino])
               /\ \A i \in DOMAIN i_lockf[ino] :
                     Unlinked(p)[ino][i].sleepers = i_lockf[ino][i].sleepers \ {p}
    <2>1. PICK list \in Lists : list = i_lockf[ino]
      BY <1>1
    <2>2. PICK new : new = [i \in DOMAIN list |-> [list[i] EXCEPT !.sleepers = @ \ {p}]]
      OBVIOUS
    <2>3. Unlinked(p)[ino] = new
      BY <2>1, <2>2 DEF Unlinked
    <2>4. DOMAIN list = 1..Len(list) /\ Len(list) \in Nat
      BY DEF Lists
    <2>5. ASSUME NEW i \in 1..Len(list)
          PROVE  new[i] \in LockRecs /\ SameLock(new[i], list[i]) /\ new[i].sleepers = list[i].sleepers \ {p}
      <3>1. PICK x \in LockRecs : x = list[i]
        BY <2>5 DEF Lists
      <3>2. new[i] = [x EXCEPT !.sleepers = @ \ {p}]
        BY <2>2, <2>4, <2>5, <3>1
      <3> QED
        BY <3>1, <3>2 DEF LockRecs, SameLock
    <2>6. new \in [1..Len(list) -> LockRecs]
      BY <2>2, <2>4, <2>5
    <2>7. new \in Lists /\ Len(new) = Len(list)
      BY <2>4, <2>6 DEF Lists
    <2> QED
      BY <2>1, <2>3, <2>4, <2>5, <2>7 DEF Resleep
  <1> QED
    BY <1>2 DEF Unlinked

LEMMA StepBase ==
    ASSUME Base, [Next]_vars
    PROVE  Base'
  <1>1. CASE UNCHANGED vars
    <2>1. /\ i_lockf' = i_lockf /\ pc' = pc /\ req' = req /\ dangling' = dangling
          /\ fds' = fds /\ SADVLCK' = SADVLCK /\ FHASLOCK' = FHASLOCK
      BY <1>1 DEF vars
    <2>2. TypeOK'
      BY <2>1 DEF Base, TypeOK
    <2>3. Pending'
      BY <2>1 DEF Base, Pending, IsReq
    <2>4. SortedLists' /\ Cuttable'
      BY <2>1 DEF Base, SortedLists, Cuttable
    <2> QED
      BY <2>2, <2>3, <2>4 DEF Base
  <1>2. CASE Next
    <2>1. PICK p \in Procs :
              \/ \E k : \/ Placing(p, k) \/ Deferring(p, k) \/ Failing(p, k)
                        \/ \E i : Sleeping(p, k, i)
                        \/ Clearing(p, k) \/ \E i : Waking(p, k, i) \/ Cutting(p, k, i)
              \/ signal(p) \/ interrupted(p)
              \/ \E f \in Files : closef(p, f) \/ open(p, f)
      BY <1>2, StepCases
    <2>2. /\ fds \subseteq Fds /\ SADVLCK \subseteq Procs /\ FHASLOCK \subseteq Files
          /\ {"user", "asleep", "signalled", "set"} \subseteq PCs \ {"clear"} /\ "clear" \in PCs
          /\ None \in Asked \cup {None}
      BY DEF Base, TypeOK, PCs
    <2>3. ASSUME NEW k, Asks(p, k)
          PROVE  /\ IsReq(p, k) /\ IsReq(p, k)' /\ k \in LockRecs /\ k \in Asked \cup {None}
                 /\ fds' = fds /\ SADVLCK' \subseteq Procs /\ FHASLOCK' \subseteq Files
                 /\ k.ino \in Inodes /\ (k.id = p \/ k.id \in Files) /\ k.sleepers = {}
      <3>1. IsReq(p, k) /\ k \in LockRecs /\ fds' = fds
        BY <2>3 DEF Asks
      <3>2. IsReq(p, k)' /\ k.sleepers = {}
        BY <3>1 DEF IsReq
      <3>3. k \in Asked /\ k.ino \in Inodes /\ (k.id = p \/ k.id \in Files)
        BY <3>1, ReqTyped
      <3> QED
        BY <2>2, <2>3, <3>1, <3>2, <3>3 DEF Asks
    <2>4. ASSUME NEW k, Frees(p, k)
          PROVE  /\ IsReq(p, k) /\ IsReq(p, k)' /\ k \in Asked /\ k \in Asked \cup {None}
                 /\ fds' = fds /\ SADVLCK' \subseteq Procs /\ FHASLOCK' \subseteq Files
                 /\ k.ino \in Inodes /\ (k.id = p \/ k.id \in Files)
      <3>1. IsReq(p, k) /\ fds' = fds
        BY <2>4 DEF Frees
      <3>2. IsReq(p, k)'
        BY <3>1 DEF IsReq
      <3>3. k \in Asked /\ k.ino \in Inodes /\ (k.id = p \/ k.id \in Files)
        BY <3>1, ReqTyped
      <3> QED
        BY <2>2, <2>4, <3>1, <3>2, <3>3 DEF Frees
    <2>5. ASSUME NEW k, Placing(p, k) PROVE Base'
      <3>1. /\ Asks(p, k) /\ req' = [req EXCEPT ![p] = None]
            /\ Update(p, k.ino, lf_setlock(i_lockf[k.ino], k), "user")
        BY <2>5 DEF Placing
      <3>2. Changed(i_lockf[k.ino], lf_setlock(i_lockf[k.ino], k).list, k.id, k.ino)
        <4>1. PICK list : list = i_lockf[k.ino]
          OBVIOUS
        <4>2. /\ list \in Lists /\ Sorted(list) /\ \A x \in Locks(list) : x.ino = k.ino
              /\ k \in LockRecs /\ k.sleepers = {}
          BY <2>3, <3>1, <4>1, ReqTyped
        <4> QED
          BY <4>1, <4>2, SetChanged
      <3>3. Altered(i_lockf[k.ino], lf_setlock(i_lockf[k.ino], k).list, p, k.ino)
        BY <2>3, <3>1, <3>2, ChangedAltered
      <3>4. PICK ino, r : ino \in Inodes /\ ino = k.ino /\ r = lf_setlock(i_lockf[k.ino], k)
        BY <2>3, <3>1
      <3> QED
        BY <2>2, <2>3, <3>1, <3>3, <3>4, UpdateBase
    <2>6. ASSUME NEW k, Deferring(p, k) PROVE Base'
      <3>1. /\ Asks(p, k) /\ req' = [req EXCEPT ![p] = k]
            /\ pc' = [pc EXCEPT ![p] = "set"] /\ i_lockf' = i_lockf /\ dangling' = dangling
        BY <2>6 DEF Deferring, Stay
      <3> QED
        BY <2>2, <2>3, <3>1, SameLists, StayBase DEF Base, TypeOK
    <2>7. ASSUME NEW k, Failing(p, k) PROVE Base'
      <3>1. /\ Asks(p, k) /\ req' = [req EXCEPT ![p] = None]
            /\ pc' = [pc EXCEPT ![p] = "user"] /\ i_lockf' = i_lockf /\ dangling' = dangling
        BY <2>7 DEF Failing, Stay
      <3> QED
        BY <2>2, <2>3, <3>1, SameLists, StayBase DEF Base, TypeOK
    <2>8. ASSUME NEW k, NEW i, Sleeping(p, k, i) PROVE Base'
      <3>1. /\ Asks(p, k) /\ req' = [req EXCEPT ![p] = k] /\ i \in lf_getblock(k)
            /\ Update(p, k.ino, SleepList(p, k, i), "asleep")
        BY <2>8 DEF Sleeping
      <3>2. Changed(i_lockf[k.ino], SleepList(p, k, i).list, k.id, k.ino)
        BY <2>3, <3>1, SleepChanged
      <3>3. Altered(i_lockf[k.ino], SleepList(p, k, i).list, p, k.ino)
        BY <2>3, <3>1, <3>2, ChangedAltered
      <3>4. PICK ino, r : ino \in Inodes /\ ino = k.ino /\ r = SleepList(p, k, i)
        BY <2>3, <3>1
      <3> QED
        BY <2>2, <2>3, <3>1, <3>3, <3>4, UpdateBase
    <2>9. ASSUME NEW k, Clearing(p, k) PROVE Base'
      <3>1. /\ Frees(p, k) /\ req' = [req EXCEPT ![p] = None]
            /\ Update(p, k.ino, lf_clearlock(i_lockf[k.ino], k), "user")
        BY <2>9 DEF Clearing
      <3>2. Changed(i_lockf[k.ino], lf_clearlock(i_lockf[k.ino], k).list, k.id, k.ino)
        <4>1. PICK list : list = i_lockf[k.ino]
          OBVIOUS
        <4>2. /\ list \in Lists /\ Sorted(list) /\ \A x \in Locks(list) : x.ino = k.ino
              /\ k \in Asked
          BY <2>4, <3>1, <4>1, ReqTyped
        <4> QED
          BY <4>1, <4>2, ClearChanged
      <3>3. Altered(i_lockf[k.ino], lf_clearlock(i_lockf[k.ino], k).list, p, k.ino)
        BY <2>4, <3>1, <3>2, ChangedAltered
      <3>4. PICK ino, r : ino \in Inodes /\ ino = k.ino /\ r = lf_clearlock(i_lockf[k.ino], k)
        BY <2>4, <3>1
      <3> QED
        BY <2>2, <2>4, <3>1, <3>3, <3>4, UpdateBase
    <2>10. ASSUME NEW k, NEW i, Waking(p, k, i) PROVE Base'
      <3>1. PICK list, r : /\ list = i_lockf[k.ino]
                           /\ r = [list |-> Asleep(list, i, {}), woken |-> list[i].sleepers, taken |-> {}]
        OBVIOUS
      <3>2. /\ Frees(p, k) /\ req' = [req EXCEPT ![p] = k] /\ Update(p, k.ino, r, "clear")
            /\ NeedsMalloc(k) /\ i = Cut(list, k)
        BY <2>10, <3>1, Zenon DEF Waking, Asleep
      <3>3. list \in Lists /\ Sorted(list) /\ \A x \in Locks(list) : x.ino = k.ino
        BY <2>4, <3>1, <3>2, ReqTyped
      <3>4. i \in DOMAIN list /\ Splits(list[i], k)
        <4>1. \E x \in Locks(list) : Splits(x, k)
          BY <3>1, <3>2 DEF NeedsMalloc
        <4> QED
          BY <3>2, <3>3, <4>1, CutOK
      <3>5. Resleep(list, r.list)
        <4>0. {} \in SUBSET Procs
          OBVIOUS
        <4>1. PICK S, new : S \in SUBSET Procs /\ S = {} /\ new = Asleep(list, i, S)
          BY <4>0
        <4>2. Resleep(list, new)
          BY <3>3, <3>4, <4>1, PutSleepers
        <4> QED
          BY <3>1, <4>1, <4>2
      <3>6. PICK ino \in Inodes : ino = k.ino
        BY <2>4, <3>2
      <3>7. Changed(list, r.list, p, ino)
        <4>1. \A x \in Locks(list) : x.ino = ino
          BY <3>3, <3>6
        <4>2. \A id : Changed(list, r.list, id, ino)
          BY <3>3, <3>5, <4>1, ResleepChanged
        <4> QED
          BY <4>2
      <3>8. Altered(i_lockf[ino], r.list, p, ino)
        BY <3>1, <3>6, <3>7, ChangedAltered
      <3>9. \E x \in Locks(r.list) : Splits(x, k)
        <4>1. i \in DOMAIN r.list /\ SameLock(r.list[i], list[i])
          BY <3>3, <3>4, <3>5 DEF Resleep, Lists
        <4> QED
          BY <3>4, <4>1, SplitsSame DEF Locks
      <3> QED
        BY <2>2, <2>4, <3>2, <3>6, <3>8, <3>9, UpdateBase
    <2>11. ASSUME NEW k, NEW i, Cutting(p, k, i) PROVE Base'
      <3>1. PICK list, r : /\ list = i_lockf[k.ino]
                           /\ r = [list |-> CutList(list, i, k), woken |-> {}, taken |-> {}]
        OBVIOUS
      <3>2. /\ pc[p] = "clear" /\ k = req[p] /\ req' = [req EXCEPT ![p] = None]
            /\ Update(p, k.ino, r, "user")
            /\ i = Cut(list, k) /\ UNCHANGED <<fds, SADVLCK, FHASLOCK>>
        BY <2>11, <3>1, Zenon DEF Cutting
      <3>3. IsReq(p, k)
        BY <3>2 DEF Base, Pending
      <3>4. /\ list \in Lists /\ Sorted(list) /\ \A x \in Locks(list) : x.ino = k.ino
            /\ k \in Asked /\ k.ino \in Inodes /\ (k.id = p \/ k.id \in Files)
        BY <3>1, <3>3, ReqTyped
      <3>5. i \in DOMAIN list /\ Splits(list[i], k)
        <4>1. \E x \in Locks(list) : Splits(x, k)
          BY <3>1, <3>2 DEF Base, Cuttable
        <4> QED
          BY <3>2, <3>4, <4>1, CutOK
      <3>6. PICK ino \in Inodes : ino = k.ino
        BY <3>4
      <3>7. Changed(list, CutList(list, i, k), k.id, ino)
        <4>1. \A x \in Locks(list) : x.ino = ino
          BY <3>4, <3>6
        <4> QED
          BY <3>4, <3>5, <4>1, CutChanged
      <3>8. Altered(i_lockf[ino], r.list, p, ino)
        BY <3>1, <3>4, <3>6, <3>7, ChangedAltered
      <3> QED
        BY <2>2, <3>2, <3>6, <3>8, UpdateBase
    <2>12. CASE signal(p)
      <3>1. /\ pc[p] = "asleep" /\ req' = req /\ UNCHANGED <<fds, SADVLCK, FHASLOCK>>
            /\ pc' = [pc EXCEPT ![p] = "signalled"] /\ i_lockf' = i_lockf /\ dangling' = dangling
        BY <2>12 DEF signal, Stay
      <3>2. PICK v \in Asked \cup {None} : v = req[p]
        BY DEF Base, TypeOK
      <3>3. req' = [req EXCEPT ![p] = v]
        BY <3>1, <3>2 DEF Base, TypeOK
      <3>4. IsReq(p, v) /\ v \in LockRecs
        BY <3>1, <3>2 DEF Base, Pending
      <3>5. IsReq(p, v)'
        BY <3>1, <3>4 DEF IsReq
      <3>6. dangling' \in [Procs -> BOOLEAN]
        BY <3>1 DEF Base, TypeOK
      <3> QED
        BY <2>2, <3>1, <3>3, <3>4, <3>5, <3>6, SameLists, StayBase
    <2>13. CASE interrupted(p)
      <3>1. /\ pc' = [pc EXCEPT ![p] = "user"] /\ req' = [req EXCEPT ![p] = None]
            /\ dangling' = [dangling EXCEPT ![p] = FALSE]
            /\ UNCHANGED <<fds, SADVLCK, FHASLOCK>>
            /\ i_lockf' = Unlinked(p) \/ i_lockf' = i_lockf
        BY <2>13 DEF interrupted
      <3>2. i_lockf' \in [Inodes -> Lists] /\ \A ino \in Inodes : Resleep(i_lockf[ino], i_lockf'[ino])
        BY <3>1, SameLists, UnlinkedOK
      <3>3. dangling' \in [Procs -> BOOLEAN]
        BY <3>1 DEF Base, TypeOK
      <3> QED
        BY <2>2, <3>1, <3>2, <3>3, StayBase
    <2>14. ASSUME NEW f \in Files, closef(p, f) PROVE Base'
      <3>1. PICK s0, t0 : Closing(p, f, s0, t0)
        BY <2>14, CloseStep
      <3>2. PICK ino, r : /\ ino \in Inodes /\ ino = InodeOf[f]
                          /\ r = [list |-> t0.list, woken |-> t0.woken \cup s0.woken, taken |-> {}]
        <4>1. InodeOf[f] \in Inodes
          BY CloseTyped
        <4> QED
          BY <4>1
      <3>3. Altered(i_lockf[ino], r.list, p, ino)
        BY <3>1, <3>2, CloseAltered
      <3>4. /\ pc[p] = "user" /\ Update(p, ino, r, "user") /\ fds' = fds \ {<<p, f>>} /\ req' = req
            /\ SADVLCK' = SADVLCK /\ FHASLOCK' \subseteq FHASLOCK
        BY <3>1, <3>2 DEF Closing
      <3>5. PICK v \in Asked \cup {None} : v = req[p]
        BY DEF Base, TypeOK
      <3>6. req' = [req EXCEPT ![p] = v]
        BY <3>4, <3>5 DEF Base, TypeOK
      <3>7. fds' \subseteq Fds /\ FHASLOCK' \subseteq Files /\ SADVLCK' \subseteq Procs /\ ino \in Inodes
        BY <2>2, <3>2, <3>4
      <3>8. \A q \in Procs \ {p} : \A g \in Files : <<q, g>> \in fds => <<q, g>> \in fds'
        BY <3>4
      <3> QED
        BY <2>2, <3>3, <3>4, <3>6, <3>7, <3>8, UpdateBase
    <2>15. ASSUME NEW f \in Files, open(p, f) PROVE Base'
      <3>1. /\ <<p, f>> \in Fds \ fds /\ fds' = fds \cup {<<p, f>>} /\ pc[p] = "user"
            /\ UNCHANGED <<i_lockf, pc, req, dangling, SADVLCK, FHASLOCK>>
        BY <2>15 DEF open
      <3>2. PICK v \in Asked \cup {None} : v = req[p]
        BY DEF Base, TypeOK
      <3>3. req' = [req EXCEPT ![p] = v] /\ pc' = [pc EXCEPT ![p] = "user"]
        BY <3>1, <3>2 DEF Base, TypeOK
      <3>4. dangling' \in [Procs -> BOOLEAN]
        BY <3>1 DEF Base, TypeOK
      <3>5. fds' \subseteq Fds /\ fds \subseteq fds'
        BY <2>2, <3>1
      <3> QED
        BY <2>2, <3>1, <3>3, <3>4, <3>5, SameLists, StayBase
    <2> QED
      BY <2>1, <2>5, <2>6, <2>7, <2>8, <2>9, <2>10, <2>11, <2>12, <2>13, <2>14, <2>15
  <1> QED
    BY <1>1, <1>2

LEMMA InitBase ==
    ASSUME Init
    PROVE  Base
  <1>1. /\ i_lockf = [ino \in Inodes |-> <<>>] /\ pc = [p \in Procs |-> "user"]
        /\ req = [p \in Procs |-> None] /\ dangling = [p \in Procs |-> FALSE]
        /\ fds = Fds /\ SADVLCK = {} /\ FHASLOCK = {}
    BY DEF Init
  <1>2. \A ino \in Inodes : i_lockf[ino] \in Lists /\ Locks(i_lockf[ino]) = {} /\ Sorted(i_lockf[ino])
    BY <1>1, FewLocks
  <1>3. TypeOK
    BY <1>1, <1>2 DEF TypeOK, PCs
  <1>4. \A p \in Procs : pc[p] = "user"
    BY <1>1
  <1> QED
    BY <1>2, <1>3, <1>4 DEF Base, Pending, SortedLists, Cuttable

LEMMA AlwaysBase == Spec => []Base
  <1>1. Init => Base
    BY InitBase
  <1>2. Base /\ [Next]_vars => Base'
    BY StepBase
  <1> QED
    BY <1>1, <1>2, PTL DEF Spec

(* Every list of locks holds the locks of one owner in the order of their  *)
(* bytes, and none of them overlap: lf_findoverlap(SELF) may stop at the   *)
(* first that lies beyond, for all ranges and however calls, splits in     *)
(* lf_setlock and lf_clearlock, sleeps in MALLOC and signals interleave.   *)
THEOREM LocksSorted == Spec => []OwnSorted
  <1>1. Base => OwnSorted
    BY DEF Base, SortedLists, Sorted, Precedes, OwnSorted
  <1> QED
    BY <1>1, AlwaysBase, PTL

-----------------------------------------------------------------------------
(* What the lists amount to, byte by byte.                                 *)

(* Of the bytes of k, and of no others, its owner has the mode m, and what *)
(* other owners have is as before.                                         *)
Rewrites(list, new, k, m) == \A id : Mode(new, id) =
    [b \in 0..MaxByte |-> IF id # k.id \/ ~Covers(k, b) THEN Mode(list, id)[b] ELSE m]

LEMMA ModeHas ==
    ASSUME NEW list, NEW id, NEW b \in 0..MaxByte, NEW t
    PROVE  t \in Mode(list, id)[b] <=> Has(Locks(list), id, b, t)
  <1>1. Mode(list, id)[b] = {lf.type : lf \in {l \in Locks(list) : l.id = id /\ Covers(l, b)}}
    BY DEF Mode
  <1> QED
    BY <1>1 DEF Has

LEMMA ModeIs ==
    ASSUME NEW list, NEW id, NEW g, g = [b \in 0..MaxByte |-> g[b]],
           \A b \in 0..MaxByte : \A t : t \in g[b] <=> Has(Locks(list), id, b, t)
    PROVE  Mode(list, id) = g
  <1>1. ASSUME NEW b \in 0..MaxByte PROVE Mode(list, id)[b] = g[b]
    <2>1. \A t : t \in Mode(list, id)[b] <=> t \in g[b]
      BY ModeHas
    <2> QED
      BY <2>1
  <1>2. Mode(list, id) = [b \in 0..MaxByte |-> Mode(list, id)[b]]
    BY DEF Mode
  <1> QED
    BY <1>1, <1>2

LEMMA RewritesBytes ==
    ASSUME NEW list, NEW new, NEW k, NEW m,
           \A id : \A b \in 0..MaxByte : \A t : Has(Locks(new), id, b, t) <=>
               IF id # k.id \/ ~Covers(k, b) THEN Has(Locks(list), id, b, t) ELSE t \in m
    PROVE  Rewrites(list, new, k, m)
  <1>1. ASSUME NEW id
        PROVE  Mode(new, id) =
            [b \in 0..MaxByte |-> IF id # k.id \/ ~Covers(k, b) THEN Mode(list, id)[b] ELSE m]
    <2>1. PICK g : g = [b \in 0..MaxByte |-> IF id # k.id \/ ~Covers(k, b) THEN Mode(list, id)[b] ELSE m]
      OBVIOUS
    <2>2. g = [b \in 0..MaxByte |-> g[b]]
      BY <2>1
    <2>3. ASSUME NEW b \in 0..MaxByte, NEW t PROVE t \in g[b] <=> Has(Locks(new), id, b, t)
      <3>1. g[b] = IF id # k.id \/ ~Covers(k, b) THEN Mode(list, id)[b] ELSE m
        BY <2>1
      <3>2. t \in Mode(list, id)[b] <=> Has(Locks(list), id, b, t)
        BY ModeHas
      <3> QED
        BY <3>1, <3>2
    <2>4. Mode(new, id) = g
      BY <2>2, <2>3, ModeIs
    <2> QED
      BY <2>1, <2>4
  <1> QED
    BY <1>1 DEF Rewrites

(* Two locks of one owner have no byte in common.                          *)
LEMMA SortedUnique ==
    ASSUME NEW list \in Lists, Sorted(list), NEW x \in Locks(list), NEW y \in Locks(list),
           x.id = y.id, NEW b \in Nat, Covers(x, b), Covers(y, b)
    PROVE  x = y
  <1>1. PICK i, j \in DOMAIN list : x = list[i] /\ y = list[j]
    BY DEF Locks
  <1>2. i \in Nat /\ j \in Nat /\ x \in LockRecs /\ y \in LockRecs
    BY <1>1 DEF Lists
  <1>3. ~Precedes(x, y) /\ ~Precedes(y, x)
    BY <1>2 DEF Precedes, Covers, LockRecs
  <1>4. ~(i < j) /\ ~(j < i)
    BY <1>1, <1>3 DEF Sorted
  <1> QED
    BY <1>1, <1>2, <1>4

LEMMA SetRewrites ==
    ASSUME NEW list \in Lists, Sorted(list), NEW k \in LockRecs, k.sleepers = {}
    PROVE  Rewrites(list, lf_setlock(list, k).list, k, {k.type})
  <1>1. PICK r : r = lf_setlock(list, k)
    OBVIOUS
  <1>2. r.list \in Lists /\ Sorted(r.list) /\ \E out : SetOutcome(list, k, r, out)
    BY <1>1, SetResult
  <1>3. PICK out : SetOutcome(list, k, r, out)
    BY <1>2
  <1>4. /\ SameOthers(list, Len(list), k, out) /\ SameBytes(list, Len(list), k, out)
        /\ out \subseteq LockRecs /\ Seen(list, Len(list)) = Locks(list) /\ Locks(list) \subseteq LockRecs
    BY <1>3, SeenRest DEF SetOutcome, Account, Lists, Locks
  <1>5. /\ \A x \in Locks(r.list) : x \in out \/ (x \in LockRecs /\ SameLock(x, k))
        /\ out \subseteq Locks(r.list)
        /\ \E z \in Locks(r.list) : z \in LockRecs /\ z.id = k.id /\ z.type = k.type /\ Within(k, z)
    <2>1. CASE Locks(r.list) = out /\ \E x \in out : x.id = k.id /\ x.type = k.type /\ Within(k, x)
      BY <1>4, <2>1
    <2>2. CASE \E l \in LockRecs : Locks(r.list) = out \cup {l} /\ SameLock(l, k)
      <3>1. PICK l \in LockRecs : Locks(r.list) = out \cup {l} /\ SameLock(l, k)
        BY <2>2
      <3>2. l.id = k.id /\ l.type = k.type /\ Within(k, l)
        BY <3>1 DEF SameLock, Within, LockRecs
      <3> QED
        BY <3>1, <3>2
    <2> QED
      BY <1>3, <2>1, <2>2 DEF SetOutcome
  <1>6. ASSUME NEW id, NEW b \in 0..MaxByte, NEW t
        PROVE  Has(Locks(r.list), id, b, t) <=>
                 IF id # k.id \/ ~Covers(k, b) THEN Has(Locks(list), id, b, t) ELSE t \in {k.type}
    <2>0. b \in Nat
      OBVIOUS
    <2>1. CASE id # k.id
      <3>1. Has(Locks(r.list), id, b, t) <=> Has(out, id, b, t)
        BY <1>5, <2>1 DEF Has, SameLock
      <3>2. Has(out, id, b, t) <=> Has(Locks(list), id, b, t)
        BY <1>4, <2>1 DEF Has, SameOthers
      <3> QED
        BY <2>1, <3>1, <3>2
    <2>2. CASE id = k.id /\ ~Covers(k, b)
      <3>1. \A x \in Locks(r.list) : SameLock(x, k) => ~Covers(x, b)
        BY <2>2 DEF SameLock, Covers
      <3>2. Has(Locks(r.list), id, b, t) <=> Has(out, id, b, t)
        BY <1>5, <3>1 DEF Has
      <3>3. Has(out, id, b, t) <=> Has(Locks(list), id, b, t)
        BY <1>4, <2>0, <2>2 DEF SameBytes
      <3> QED
        BY <2>2, <3>2, <3>3
    <2>3. CASE id = k.id /\ Covers(k, b)
      <3>1. PICK z \in Locks(r.list) : z \in LockRecs /\ z.id = k.id /\ z.type = k.type /\ Within(k, z)
        BY <1>5
      <3>2. Covers(z, b)
        BY <2>0, <2>3, <3>1 DEF Covers, Within, LockRecs
      <3>3. \A x \in Locks(r.list) : x.id = id /\ Covers(x, b) => x = z
        BY <1>2, <2>0, <2>3, <3>1, <3>2, SortedUnique
      <3> QED
        BY <2>3, <3>1, <3>2, <3>3 DEF Has
    <2> QED
      BY <2>1, <2>2, <2>3
  <1>7. Rewrites(list, r.list, k, {k.type})
    BY <1>6, RewritesBytes
  <1> QED
    BY <1>1, <1>7

LEMMA ClearRewrites ==
    ASSUME NEW list \in Lists, Sorted(list), NEW k \in Asked
    PROVE  Rewrites(list, lf_clearlock(list, k).list, k, {})
  <1>1. PICK r : r = lf_clearlock(list, k)
    OBVIOUS
  <1>2. /\ r.list \in Lists /\ Account(list, Len(list), k, Locks(r.list), {}, r.woken)
        /\ \A x \in Locks(r.list) : x.id = k.id => Precedes(x, k) \/ Precedes(k, x)
    BY <1>1, ClearResult
  <1>3. PICK out : out = Locks(r.list)
    OBVIOUS
  <1>4. /\ SameOthers(list, Len(list), k, out) /\ SameBytes(list, Len(list), k, out)
        /\ out \subseteq LockRecs /\ Seen(list, Len(list)) = Locks(list) /\ Locks(list) \subseteq LockRecs
    BY <1>2, <1>3, SeenRest DEF Account, Lists, Locks
  <1>5. ASSUME NEW id, NEW b \in 0..MaxByte, NEW t
        PROVE  Has(out, id, b, t) <=>
                 IF id # k.id \/ ~Covers(k, b) THEN Has(Locks(list), id, b, t) ELSE t \in {}
    <2>0. b \in Nat
      OBVIOUS
    <2>1. CASE id # k.id
      BY <1>4, <2>1 DEF Has, SameOthers
    <2>2. CASE id = k.id /\ ~Covers(k, b)
      BY <1>4, <2>0, <2>2 DEF SameBytes
    <2>3. CASE id = k.id /\ Covers(k, b)
      <3>1. \A x \in out : x.id = k.id => ~Covers(x, b)
        BY <1>2, <1>3, <1>4, <2>0, <2>3 DEF Covers, Precedes, LockRecs, Asked
      <3> QED
        BY <2>3, <3>1 DEF Has
    <2> QED
      BY <2>1, <2>2, <2>3
  <1>6. Rewrites(list, r.list, k, {})
    BY <1>3, <1>5, RewritesBytes
  <1> QED
    BY <1>1, <1>6

LEMMA RegionCovers ==
    ASSUME NEW k, NEW r, k.start = r[1], k.end = r[2], NEW b \in 0..MaxByte
    PROVE  b \in Region(r) <=> Covers(k, b)
  BY DEF Region, Covers

(* For all ranges, and on every list that can come about, one pass of      *)
(* lf_setlock or lf_clearlock changes exactly the bytes that are named to  *)
(* the mode that is asked for, whichever of its six cases it meets and in  *)
(* whatever order.                                                         *)
THEOREM PassesExact == Spec => []ExactBytes
  <1>1. ASSUME Base PROVE ExactBytes
    <2>1. ASSUME NEW ino \in Inodes, NEW id \in Ids, NEW r \in Ranges, NEW type \in Types \cup {"F_UNLCK"},
                 NEW other \in Ids
          PROVE  LET lock == Lock(id, ino, type, r)
                     list == i_lockf[ino]
                     new  == IF type = "F_UNLCK" THEN lf_clearlock(list, lock).list
                             ELSE lf_setlock(list, lock).list
                 IN  Mode(new, other) =
                       [b \in 0..MaxByte |-> IF other # id \/ b \notin Region(r) THEN Mode(list, other)[b]
                                             ELSE {type} \ {"F_UNLCK"}]
      <3>1. PICK lock, list : lock = Lock(id, ino, type, r) /\ list = i_lockf[ino]
        OBVIOUS
      <3>2. PICK new : new = IF type = "F_UNLCK" THEN lf_clearlock(list, lock).list
                             ELSE lf_setlock(list, lock).list
        OBVIOUS
      <3>3. r[1] \in Nat /\ r[2] \in Int /\ (r[2] = EOF \/ r[1] <= r[2])
        BY LockfAssumption DEF EOF
      <3>4. lock.id = id /\ lock.start = r[1] /\ lock.end = r[2] /\ lock.type = type /\ lock.sleepers = {}
        BY <3>1, <3>2 DEF Lock
      <3>5. /\ lock \in Asked /\ (type # "F_UNLCK" => lock \in LockRecs)
        BY <3>1, <3>2, <3>3, LockfAssumption DEF Lock, Asked, LockRecs
      <3>6. list \in Lists /\ Sorted(list)
        BY <1>1, <3>1, <3>2 DEF Base, TypeOK, SortedLists
      <3>7. Rewrites(list, new, lock, {type} \ {"F_UNLCK"})
        <4>1. CASE type = "F_UNLCK"
          <5>1. {type} \ {"F_UNLCK"} = {}
            BY <4>1
          <5> QED
            BY <3>1, <3>2, <3>5, <3>6, <4>1, <5>1, ClearRewrites
        <4>2. CASE type # "F_UNLCK"
          <5>1. {type} \ {"F_UNLCK"} = {lock.type}
            BY <3>4, <4>2
          <5> QED
            BY <3>1, <3>2, <3>4, <3>5, <3>6, <4>2, <5>1, SetRewrites
        <4> QED
          BY <4>1, <4>2
      <3>8. \A b \in 0..MaxByte : b \in Region(r) <=> Covers(lock, b)
        BY <3>4, RegionCovers
      <3>9. Mode(new, other) =
              [b \in 0..MaxByte |-> IF other # lock.id \/ ~Covers(lock, b) THEN Mode(list, other)[b]
                                    ELSE {type} \ {"F_UNLCK"}]
        BY <3>7 DEF Rewrites
      <3>10. Mode(new, other) =
              [b \in 0..MaxByte |-> IF other # id \/ b \notin Region(r) THEN Mode(list, other)[b]
                                    ELSE {type} \ {"F_UNLCK"}]
        BY <3>4, <3>8, <3>9
      <3> QED
        BY <3>1, <3>2, <3>10, Zenon
    <2> QED
      BY <2>1, Zenon DEF ExactBytes
  <1> QED
    BY <1>1, AlwaysBase, PTL

-----------------------------------------------------------------------------
(* Who sleeps for which lock.                                              *)

(* Nobody who sleeps for a lock of the list is lost: he is woken, or       *)
(* sleeps for one that is in the way of as much.                           *)
HandsOver(list, new, woken) == \A y \in Locks(list) : \A q \in y.sleepers :
    q \in woken \/ \E x \in Locks(new) : q \in x.sleepers /\ Wider(x, y)

LEMMA WiderBlocks ==
    ASSUME NEW x \in LockRecs, NEW y \in LockRecs, NEW k \in Asked, Wider(x, y), Blocking(y, k)
    PROVE  Blocking(x, k)
  BY DEF Wider, Blocking, Disjoint, Within, LockRecs, Asked

LEMMA HandsOverTwice ==
    ASSUME NEW a \in Lists, NEW b \in Lists, NEW c \in Lists, NEW V, NEW W,
           HandsOver(a, b, V), HandsOver(b, c, W)
    PROVE  HandsOver(a, c, V \cup W)
  <1>1. ASSUME NEW y \in Locks(a), NEW q \in y.sleepers, q \notin V \cup W
        PROVE  \E x \in Locks(c) : q \in x.sleepers /\ Wider(x, y)
    <2>1. PICK z \in Locks(b) : q \in z.sleepers /\ Wider(z, y)
      BY <1>1 DEF HandsOver
    <2>2. PICK x \in Locks(c) : q \in x.sleepers /\ Wider(x, z)
      BY <1>1, <2>1 DEF HandsOver
    <2>3. x \in LockRecs /\ y \in LockRecs /\ z \in LockRecs
      BY DEF Lists, Locks
    <2>4. Wider(x, y)
      BY <2>1, <2>2, <2>3 DEF Wider, Within, LockRecs
    <2> QED
      BY <2>2, <2>4
  <1> QED
    BY <1>1 DEF HandsOver

LEMMA HandsOverSame ==
    ASSUME NEW list \in Lists
    PROVE  HandsOver(list, list, {})
  <1>1. \A x \in Locks(list) : x \in LockRecs
    BY DEF Lists, Locks
  <1> QED
    BY <1>1 DEF HandsOver, Wider, Within, LockRecs

LEMMA SetHandsOver ==
    ASSUME NEW list \in Lists, Sorted(list), NEW k \in LockRecs, k.sleepers = {},
           NEW r, r = lf_setlock(list, k)
    PROVE  HandsOver(list, r.list, r.woken)
  <1>1. PICK out : SetOutcome(list, k, r, out)
    BY SetResult
  <1>2. Sleepers(list, Len(list), k, out, r.taken, r.woken) /\ Seen(list, Len(list)) = Locks(list)
    BY <1>1, SeenRest DEF SetOutcome, Account
  <1>3. ASSUME NEW y \in Locks(list), NEW q \in y.sleepers, q \notin r.woken
        PROVE  \E x \in Locks(r.list) : q \in x.sleepers /\ Wider(x, y)
    <2>1. CASE \E x \in out : q \in x.sleepers /\ Wider(x, y)
      BY <1>1, <2>1 DEF SetOutcome
    <2>2. CASE q \in r.taken /\ Wider(k, y)
      <3>1. PICK l \in LockRecs : Locks(r.list) = out \cup {l} /\ SameLock(l, k) /\ l.sleepers = r.taken
        BY <1>1, <2>2 DEF SetOutcome
      <3>2. Wider(l, y)
        BY <2>2, <3>1 DEF SameLock, Wider, Within
      <3> QED
        BY <2>2, <3>1, <3>2
    <2> QED
      BY <1>2, <1>3, <2>1, <2>2 DEF Sleepers
  <1> QED
    BY <1>3 DEF HandsOver

LEMMA ClearHandsOver ==
    ASSUME NEW list \in Lists, Sorted(list), NEW k \in Asked, NEW c, NEW r, r = MaybeClear(list, k, c)
    PROVE  HandsOver(list, r.list, r.woken)
  <1>1. Account(list, Len(list), k, Locks(r.list), {}, r.woken)
    BY MaybeClearOK
  <1>2. Sleepers(list, Len(list), k, Locks(r.list), {}, r.woken) /\ Seen(list, Len(list)) = Locks(list)
    BY <1>1, SeenRest DEF Account
  <1> QED
    BY <1>2 DEF HandsOver, Sleepers

LEMMA QueueHandsOver ==
    ASSUME NEW list \in Lists, NEW i \in DOMAIN list, NEW p \in Procs
    PROVE  HandsOver(list, Queue(list, i, p), {})
  <1>1. PICK new : new = Queue(list, i, p)
    OBVIOUS
  <1>2. /\ Resleep(list, new) /\ new[i].sleepers = list[i].sleepers \cup {p}
        /\ \A j \in DOMAIN list : j # i => new[j] = list[j]
    BY <1>1, QueueOK
  <1>3. ASSUME NEW j \in DOMAIN list
        PROVE  new[j] \in Locks(new) /\ list[j].sleepers \subseteq new[j].sleepers /\ Wider(new[j], list[j])
    <2>1. j \in 1..Len(list) /\ list[j] \in LockRecs /\ j \in DOMAIN new
      BY <1>2, <1>3 DEF Resleep, Lists
    <2>2. SameLock(new[j], list[j])
      BY <1>2, <2>1 DEF Resleep
    <2>3. list[j].sleepers \subseteq new[j].sleepers
      BY <1>2
    <2> QED
      BY <2>1, <2>2, <2>3 DEF Locks, Wider, Within, SameLock, LockRecs
  <1>4. HandsOver(list, new, {})
    BY <1>3 DEF HandsOver, Locks
  <1> QED
    BY <1>1, <1>4

(* A process that goes to sleep is on the list of a lock in its way.       *)
LEMMA SleepHandsOver ==
    ASSUME Base, NEW p \in Procs, NEW k, IsReq(p, k), k \in LockRecs, NEW i \in lf_getblock(k),
           NEW r, r = SleepList(p, k, i)
    PROVE  /\ HandsOver(i_lockf[k.ino], r.list, r.woken)
           /\ \E x \in Locks(r.list) : p \in x.sleepers /\ Blocking(x, k)
  <1>1. PICK list, queue : list = i_lockf[k.ino] /\ queue = Queue(list, i, p)
    OBVIOUS
  <1>2. /\ k \in Asked /\ list \in Lists /\ Sorted(list) /\ \A x \in Locks(list) : x.ino = k.ino
    BY <1>1, ReqTyped
  <1>3. i \in DOMAIN list /\ Blocking(list[i], k)
    BY <1>1 DEF lf_getblock
  <1>4. /\ Resleep(list, queue) /\ queue \in Lists /\ queue[i].sleepers = list[i].sleepers \cup {p}
    BY <1>1, <1>2, <1>3, QueueOK
  <1>5. HandsOver(list, queue, {})
    BY <1>1, <1>2, <1>3, QueueHandsOver
  <1>6. i \in DOMAIN queue /\ SameLock(queue[i], list[i])
    BY <1>2, <1>3, <1>4 DEF Resleep, Lists
  <1>7. queue[i] \in Locks(queue) /\ p \in queue[i].sleepers /\ Blocking(queue[i], k)
    BY <1>3, <1>4, <1>6 DEF Locks, Blocking, Disjoint, SameLock
  <1>8. CASE k.id \in Files /\ k.type = "F_WRLCK"
    <2>1. r = MaybeClear(queue, k, TRUE)
      BY <1>1, <1>8 DEF SleepList, MaybeClear
    <2>2. Sorted(queue)
      <3>1. PICK ino : ino = k.ino
        OBVIOUS
      <3>2. \A x \in Locks(list) : x.ino = ino
        BY <1>2, <3>1
      <3>3. \A id : Changed(list, queue, id, ino)
        BY <1>2, <1>4, <3>2, ResleepChanged
      <3> QED
        BY <3>3 DEF Changed
    <2>3. HandsOver(queue, r.list, r.woken)
      BY <1>2, <1>4, <2>1, <2>2, ClearHandsOver
    <2>4. Account(queue, Len(queue), k, Locks(r.list), {}, r.woken) /\ r.list \in Lists
      <3>1. Account(queue, Len(queue), k, Locks(r.list), {}, r.woken)
        BY <1>2, <1>4, <2>1, <2>2, MaybeClearOK
      <3>2. r.list \in Lists
        BY <1>2, <1>3, <2>1, SleepChanged DEF Changed
      <3> QED
        BY <3>1, <3>2
    <2>5. HandsOver(list, r.list, {} \cup r.woken)
      BY <1>2, <1>4, <1>5, <2>3, <2>4, HandsOverTwice
    <2>6. {} \cup r.woken = r.woken
      OBVIOUS
    <2>7. queue[i] \in Locks(r.list)
      <3>1. queue[i] \in Seen(queue, Len(queue)) /\ queue[i] \in LockRecs
        BY <1>4, <1>6, <1>7, SeenRest DEF Lists
      <3>2. queue[i].id # k.id
        BY <1>7 DEF Blocking
      <3> QED
        BY <2>4, <3>1, <3>2 DEF Account, SameOthers
    <2> QED
      BY <1>1, <1>7, <2>5, <2>6, <2>7
  <1>9. CASE ~(k.id \in Files /\ k.type = "F_WRLCK")
    <2>1. r = [list |-> queue, woken |-> {}, taken |-> {}]
      BY <1>1, <1>9 DEF SleepList
    <2>2. r.list = queue /\ r.woken = {}
      BY <2>1
    <2> QED
      BY <1>1, <1>5, <1>7, <2>2
  <1> QED
    BY <1>8, <1>9

LEMMA ClosingLists ==
    ASSUME Base, NEW p \in Procs, NEW f \in Files, NEW r, NEW s, Closing(p, f, r, s)
    PROVE  /\ i_lockf[InodeOf[f]] \in Lists /\ Sorted(i_lockf[InodeOf[f]])
           /\ r.list \in Lists /\ Sorted(r.list) /\ s.list \in Lists /\ Sorted(s.list)
           /\ r = MaybeClear(i_lockf[InodeOf[f]], OfProc(p, f), p \in SADVLCK)
           /\ s = MaybeClear(r.list, OfFile(f), Last(p, f) /\ f \in FHASLOCK)
           /\ OfProc(p, f) \in Asked /\ OfFile(f) \in Asked
  <1>1. PICK list : list = i_lockf[InodeOf[f]]
    OBVIOUS
  <1>2. list \in Lists /\ Sorted(list) /\ OfProc(p, f) \in Asked /\ OfFile(f) \in Asked
    BY <1>1, CloseTyped DEF Base, TypeOK, SortedLists
  <1>3. /\ r = MaybeClear(list, OfProc(p, f), p \in SADVLCK)
        /\ s = MaybeClear(r.list, OfFile(f), Last(p, f) /\ f \in FHASLOCK)
    BY <1>1, Zenon DEF Closing
  <1>4. r.list \in Lists /\ Sorted(r.list)
    <2>1. PICK k, c : k \in Asked /\ r = MaybeClear(list, k, c)
      BY <1>2, <1>3
    <2> QED
      BY <1>2, <2>1, MaybeClearOK
  <1>5. s.list \in Lists /\ Sorted(s.list)
    <2>1. PICK k, c : k \in Asked /\ s = MaybeClear(r.list, k, c)
      BY <1>2, <1>3
    <2> QED
      BY <1>4, <2>1, MaybeClearOK
  <1> QED
    BY <1>1, <1>2, <1>3, <1>4, <1>5

LEMMA CloseHandsOver ==
    ASSUME Base, NEW p \in Procs, NEW f \in Files, NEW r, NEW s, Closing(p, f, r, s)
    PROVE  HandsOver(i_lockf[InodeOf[f]], s.list, s.woken \cup r.woken)
  <1>1. PICK list : list = i_lockf[InodeOf[f]]
    OBVIOUS
  <1>2. /\ list \in Lists /\ Sorted(list) /\ r.list \in Lists /\ Sorted(r.list) /\ s.list \in Lists
        /\ \E k \in Asked : \E c : r = MaybeClear(list, k, c)
        /\ \E k \in Asked : \E c : s = MaybeClear(r.list, k, c)
    BY <1>1, ClosingLists
  <1>3. HandsOver(list, r.list, r.woken)
    BY <1>2, ClearHandsOver
  <1>4. HandsOver(r.list, s.list, s.woken)
    BY <1>2, ClearHandsOver
  <1>5. HandsOver(list, s.list, r.woken \cup s.woken)
    BY <1>2, <1>3, <1>4, HandsOverTwice
  <1>6. r.woken \cup s.woken = s.woken \cup r.woken
    OBVIOUS
  <1> QED
    BY <1>1, <1>5, <1>6

(* A process that sleeps is on the list of a lock that is in its way.      *)
Awaited == \A p \in Procs : pc[p] = "asleep" =>
    \E x \in Locks(i_lockf[req[p].ino]) : p \in x.sleepers /\ Blocking(x, req[p])
(* Nobody sleeps in MALLOC on behalf of lf_clearlock.                      *)
NoneClears == \A p \in Procs : pc[p] # "clear"

LEMMA UpdateAwaited ==
    ASSUME Base, Base', Awaited, NEW p \in Procs, NEW ino \in Inodes, NEW r, NEW where \in PCs,
           Update(p, ino, r, where), NEW v, req' = [req EXCEPT ![p] = v],
           HandsOver(i_lockf[ino], r.list, r.woken),
           where = "asleep" => v.ino = ino /\ \E x \in Locks(r.list) : p \in x.sleepers /\ Blocking(x, v)
    PROVE  Awaited'
  <1>1. /\ i_lockf \in [Inodes -> Lists] /\ i_lockf' \in [Inodes -> Lists]
        /\ pc \in [Procs -> PCs] /\ req \in [Procs -> Asked \cup {None}]
    BY DEF Base, TypeOK
  <1>2. /\ i_lockf'[ino] = r.list /\ \A j \in Inodes \ {ino} : i_lockf'[j] = i_lockf[j]
    BY <1>1 DEF Update
  <1>3. pc'[p] = where /\ \A q \in Procs \ {p} : pc'[q] = "asleep" => pc[q] = "asleep" /\ q \notin r.woken
    BY <1>1 DEF Update
  <1>4. req'[p] = v /\ \A q \in Procs \ {p} : req'[q] = req[q]
    BY <1>1
  <1>5. ASSUME NEW q \in Procs \ {p}, pc'[q] = "asleep"
        PROVE  \E x \in Locks(i_lockf'[req'[q].ino]) : q \in x.sleepers /\ Blocking(x, req'[q])
    <2>1. pc[q] = "asleep" /\ q \notin r.woken /\ req'[q] = req[q]
      BY <1>3, <1>4, <1>5
    <2>2. PICK y \in Locks(i_lockf[req[q].ino]) : q \in y.sleepers /\ Blocking(y, req[q])
      BY <2>1 DEF Awaited
    <2>3. req[q] \in Asked /\ req[q].ino \in Inodes
      BY <2>1, ReqTyped DEF Base, Pending
    <2>4. CASE req[q].ino # ino
      BY <1>2, <2>1, <2>2, <2>3, <2>4
    <2>5. CASE req[q].ino = ino
      <3>1. PICK x \in Locks(r.list) : q \in x.sleepers /\ Wider(x, y)
        BY <2>1, <2>2, <2>5 DEF HandsOver
      <3>2. x \in LockRecs /\ y \in LockRecs
        BY <1>1, <1>2, <2>2, <2>5 DEF Lists, Locks
      <3>3. Blocking(x, req[q])
        BY <2>2, <2>3, <3>1, <3>2, WiderBlocks
      <3> QED
        BY <1>2, <2>1, <2>5, <3>1, <3>3
    <2> QED
      BY <2>4, <2>5
  <1>6. ASSUME pc'[p] = "asleep"
        PROVE  \E x \in Locks(i_lockf'[req'[p].ino]) : p \in x.sleepers /\ Blocking(x, req'[p])
    BY <1>2, <1>3, <1>4, <1>6
  <1> QED
    BY <1>5, <1>6 DEF Awaited

LEMMA StayAwaited ==
    ASSUME Base, Awaited, NEW p \in Procs, NEW where \in PCs \ {"asleep"},
           pc' = [pc EXCEPT ![p] = where], NEW v, req' = [req EXCEPT ![p] = v],
           \A ino \in Inodes : \A y \in Locks(i_lockf[ino]) : \E x \in Locks(i_lockf'[ino]) :
               SameLock(x, y) /\ y.sleepers \ {p} \subseteq x.sleepers
    PROVE  Awaited'
  <1>1. pc \in [Procs -> PCs] /\ req \in [Procs -> Asked \cup {None}]
    BY DEF Base, TypeOK
  <1>2. ASSUME NEW q \in Procs, pc'[q] = "asleep"
        PROVE  \E x \in Locks(i_lockf'[req'[q].ino]) : q \in x.sleepers /\ Blocking(x, req'[q])
    <2>1. q # p /\ pc[q] = "asleep" /\ req'[q] = req[q]
      BY <1>1, <1>2
    <2>2. PICK y \in Locks(i_lockf[req[q].ino]) : q \in y.sleepers /\ Blocking(y, req[q])
      BY <2>1 DEF Awaited
    <2>3. req[q].ino \in Inodes
      BY <2>1, ReqTyped DEF Base, Pending
    <2>4. PICK x \in Locks(i_lockf'[req[q].ino]) : SameLock(x, y) /\ y.sleepers \ {p} \subseteq x.sleepers
      BY <2>2, <2>3
    <2>5. Blocking(x, req[q])
      BY <2>2, <2>4 DEF Blocking, Disjoint, SameLock
    <2> QED
      BY <2>1, <2>2, <2>4, <2>5
  <1> QED
    BY <1>2 DEF Awaited

LEMMA StepAwaited ==
    ASSUME Base, Base', NoneClears, NoneClears', Awaited, [Next]_vars
    PROVE  Awaited'
  <1>1. CASE UNCHANGED vars
    BY <1>1 DEF vars, Awaited
  <1>2. CASE Next
    <2>1. PICK p \in Procs :
              \/ \E k : \/ Placing(p, k) \/ Deferring(p, k) \/ Failing(p, k)
                        \/ \E i : Sleeping(p, k, i)
                        \/ Clearing(p, k) \/ \E i : Waking(p, k, i) \/ Cutting(p, k, i)
              \/ signal(p) \/ interrupted(p)
              \/ \E f \in Files : closef(p, f) \/ open(p, f)
      BY <1>2, StepCases
    <2>2. /\ {"user", "signalled", "set"} \subseteq PCs \ {"asleep"} /\ {"asleep", "clear", "user"} \subseteq PCs
          /\ pc \in [Procs -> PCs] /\ req \in [Procs -> Asked \cup {None}]
          /\ i_lockf \in [Inodes -> Lists] /\ i_lockf' \in [Inodes -> Lists]
      BY DEF PCs, Base, TypeOK
    <2>3. ASSUME i_lockf' = i_lockf
          PROVE  \A ino \in Inodes : \A y \in Locks(i_lockf[ino]) : \E x \in Locks(i_lockf'[ino]) :
                     SameLock(x, y) /\ y.sleepers \ {p} \subseteq x.sleepers
      BY <2>3 DEF SameLock
    <2>4. ASSUME NEW k, Asks(p, k)
          PROVE  /\ IsReq(p, k) /\ k \in LockRecs /\ k.sleepers = {} /\ k.ino \in Inodes
                 /\ i_lockf[k.ino] \in Lists /\ Sorted(i_lockf[k.ino])
      <3>1. IsReq(p, k) /\ k \in LockRecs
        BY <2>4 DEF Asks
      <3> QED
        BY <3>1, ReqTyped DEF IsReq
    <2>5. ASSUME NEW k, Placing(p, k) PROVE Awaited'
      <3>1. PICK ino, r : ino = k.ino /\ r = lf_setlock(i_lockf[ino], k)
        OBVIOUS
      <3>2. Asks(p, k) /\ req' = [req EXCEPT ![p] = None] /\ Update(p, ino, r, "user")
        BY <2>5, <3>1 DEF Placing
      <3>3. HandsOver(i_lockf[ino], r.list, r.woken) /\ ino \in Inodes
        BY <2>4, <3>1, <3>2, SetHandsOver
      <3> QED
        BY <2>2, <3>2, <3>3, UpdateAwaited
    <2>6. ASSUME NEW k, Deferring(p, k) \/ Failing(p, k) PROVE Awaited'
      <3>1. PICK where, v : /\ pc' = [pc EXCEPT ![p] = where] /\ req' = [req EXCEPT ![p] = v]
                            /\ where \in {"user", "set"} /\ i_lockf' = i_lockf
        BY <2>6 DEF Deferring, Failing, Stay
      <3> QED
        BY <2>2, <2>3, <3>1, StayAwaited
    <2>7. ASSUME NEW k, NEW i, Sleeping(p, k, i) PROVE Awaited'
      <3>1. PICK ino, r : ino = k.ino /\ r = SleepList(p, k, i)
        OBVIOUS
      <3>2. /\ Asks(p, k) /\ req' = [req EXCEPT ![p] = k] /\ Update(p, ino, r, "asleep")
            /\ i \in lf_getblock(k)
        BY <2>7, <3>1 DEF Sleeping
      <3>3. /\ HandsOver(i_lockf[ino], r.list, r.woken) /\ ino \in Inodes
            /\ \E x \in Locks(r.list) : p \in x.sleepers /\ Blocking(x, k)
        BY <2>4, <3>1, <3>2, SleepHandsOver
      <3> QED
        BY <2>2, <3>1, <3>2, <3>3, UpdateAwaited
    <2>8. ASSUME NEW k, Clearing(p, k) PROVE Awaited'
      <3>1. PICK ino, r : ino = k.ino /\ r = lf_clearlock(i_lockf[ino], k)
        OBVIOUS
      <3>2. Frees(p, k) /\ req' = [req EXCEPT ![p] = None] /\ Update(p, ino, r, "user")
        BY <2>8, <3>1 DEF Clearing
      <3>3. PICK list : list = i_lockf[ino]
        OBVIOUS
      <3>4. k \in Asked /\ ino \in Inodes /\ list \in Lists /\ Sorted(list)
        BY <3>1, <3>2, <3>3, ReqTyped DEF Frees
      <3>5. r = MaybeClear(list, k, TRUE)
        BY <3>1, <3>3 DEF MaybeClear
      <3>6. HandsOver(list, r.list, r.woken)
        BY <3>4, <3>5, ClearHandsOver
      <3> QED
        BY <2>2, <3>2, <3>3, <3>4, <3>6, UpdateAwaited
    <2>9. ASSUME NEW k, NEW i, Waking(p, k, i) PROVE FALSE
      BY <2>2, <2>9 DEF Waking, Update, NoneClears
    <2>10. ASSUME NEW k, NEW i, Cutting(p, k, i) PROVE FALSE
      BY <2>10 DEF Cutting, NoneClears
    <2>11. CASE signal(p)
      <3>1. req' = req /\ pc' = [pc EXCEPT ![p] = "signalled"] /\ i_lockf' = i_lockf
        BY <2>11 DEF signal, Stay
      <3>2. req' = [req EXCEPT ![p] = req[p]]
        BY <2>2, <3>1
      <3> QED
        BY <2>2, <2>3, <3>1, <3>2, StayAwaited
    <2>12. CASE interrupted(p)
      <3>1. /\ pc' = [pc EXCEPT ![p] = "user"] /\ req' = [req EXCEPT ![p] = None]
            /\ i_lockf' = Unlinked(p) \/ i_lockf' = i_lockf
        BY <2>12 DEF interrupted
      <3>2. ASSUME i_lockf' = Unlinked(p), NEW ino \in Inodes, NEW y \in Locks(i_lockf[ino])
            PROVE  \E x \in Locks(i_lockf'[ino]) : SameLock(x, y) /\ y.sleepers \ {p} \subseteq x.sleepers
        <4>1. PICK list, new : list = i_lockf[ino] /\ new = i_lockf'[ino]
          OBVIOUS
        <4>2. Resleep(list, new) /\ \A i \in DOMAIN list : new[i].sleepers = list[i].sleepers \ {p}
          BY <3>2, <4>1, UnlinkedOK
        <4>3. PICK i \in DOMAIN list : y = list[i]
          BY <4>1 DEF Locks
        <4>4. i \in DOMAIN new /\ SameLock(new[i], list[i])
          BY <2>2, <4>1, <4>2, <4>3 DEF Resleep, Lists
        <4> QED
          BY <4>1, <4>2, <4>3, <4>4 DEF Locks
      <3> QED
        BY <2>2, <2>3, <3>1, <3>2, StayAwaited
    <2>13. ASSUME NEW f \in Files, closef(p, f) PROVE Awaited'
      <3>1. PICK s0, t0 : Closing(p, f, s0, t0)
        BY <2>13, CloseStep
      <3>2. PICK ino, r : /\ ino = InodeOf[f]
                          /\ r = [list |-> t0.list, woken |-> t0.woken \cup s0.woken, taken |-> {}]
        OBVIOUS
      <3>3. Update(p, ino, r, "user") /\ req' = req /\ ino \in Inodes
        BY <3>1, <3>2, CloseTyped DEF Closing
      <3>4. HandsOver(i_lockf[ino], r.list, r.woken)
        BY <3>1, <3>2, CloseHandsOver
      <3>5. req' = [req EXCEPT ![p] = req[p]]
        BY <2>2, <3>3
      <3> QED
        BY <2>2, <3>3, <3>4, <3>5, UpdateAwaited
    <2>14. ASSUME NEW f \in Files, open(p, f) PROVE Awaited'
      BY <2>14 DEF open, Awaited
    <2> QED
      BY <2>1, <2>5, <2>6, <2>7, <2>8, <2>9, <2>10, <2>11, <2>12, <2>13, <2>14
  <1> QED
    BY <1>1, <1>2

(* Where memory is at hand nobody sleeps in MALLOC.                        *)
NoneSplits == \A p \in Procs : pc[p] \notin {"set", "clear"}

LEMMA AwakeInMalloc ==
    ASSUME ~MallocSleeps, Base, NoneSplits, [Next]_vars
    PROVE  NoneSplits'
  <1>1. CASE UNCHANGED vars
    BY <1>1 DEF vars, NoneSplits
  <1>2. CASE Next
    <2>0. pc \in [Procs -> PCs]
      BY DEF Base, TypeOK
    <2>1. PICK p \in Procs :
              \/ \E k : \/ Placing(p, k) \/ Deferring(p, k) \/ Failing(p, k)
                        \/ \E i : Sleeping(p, k, i)
                        \/ Clearing(p, k) \/ \E i : Waking(p, k, i) \/ Cutting(p, k, i)
              \/ signal(p) \/ interrupted(p)
              \/ \E f \in Files : closef(p, f) \/ open(p, f)
      BY <1>2, StepCases
    <2>2. ASSUME NEW ino, NEW r, NEW where \in {"user", "asleep"}, Update(p, ino, r, where)
          PROVE  NoneSplits'
      BY <2>0, <2>2 DEF Update, NoneSplits
    <2>3. ASSUME NEW where \in {"user", "signalled"}, pc' = [pc EXCEPT ![p] = where]
          PROVE  NoneSplits'
      BY <2>0, <2>3 DEF NoneSplits
    <2>4. ASSUME NEW k, Placing(p, k) \/ Clearing(p, k) PROVE NoneSplits'
      BY <2>2, <2>4 DEF Placing, Clearing
    <2>5. ASSUME NEW k, NEW i, Sleeping(p, k, i) \/ Cutting(p, k, i) PROVE NoneSplits'
      BY <2>2, <2>5 DEF Sleeping, Cutting
    <2>6. ASSUME NEW k, Failing(p, k) PROVE NoneSplits'
      BY <2>3, <2>6 DEF Failing, Stay
    <2>7. ASSUME NEW k, NEW i, Deferring(p, k) \/ Waking(p, k, i) PROVE FALSE
      BY <2>7 DEF Deferring, Waking
    <2>8. CASE signal(p) \/ interrupted(p)
      BY <2>3, <2>8 DEF signal, interrupted, Stay
    <2>9. ASSUME NEW f \in Files, closef(p, f) PROVE NoneSplits'
      <3>1. PICK r, s : Closing(p, f, r, s)
        BY <2>9, CloseStep
      <3> QED
        BY <2>2, <3>1 DEF Closing
    <2>10. ASSUME NEW f \in Files, open(p, f) PROVE NoneSplits'
      BY <2>10 DEF open, NoneSplits
    <2> QED
      BY <2>1, <2>4, <2>5, <2>6, <2>7, <2>8, <2>9, <2>10
  <1> QED
    BY <1>1, <1>2

LEMMA AlwaysAwake == ~MallocSleeps /\ Spec => []NoneSplits
  <1> SUFFICES ASSUME ~MallocSleeps PROVE Spec => []NoneSplits
    OBVIOUS
  <1>1. Init => NoneSplits
    BY DEF Init, NoneSplits
  <1>2. Base /\ NoneSplits /\ [Next]_vars => NoneSplits'
    BY AwakeInMalloc
  <1> QED
    BY <1>1, <1>2, AlwaysBase, PTL DEF Spec

LEMMA AwaitedHeld ==
    ASSUME Base, Awaited
    PROVE  NoMissedWakeup
  <1>1. ASSUME NEW p \in Procs, pc[p] = "asleep"
        PROVE  \E lf \in Holders(p) : lf.ino = req[p].ino /\ Blocking(lf, req[p])
    <2>1. PICK x \in Locks(i_lockf[req[p].ino]) : p \in x.sleepers /\ Blocking(x, req[p])
      BY <1>1 DEF Awaited
    <2>2. req[p].ino \in Inodes /\ x.ino = req[p].ino
      BY <1>1, ReqTyped DEF Base, Pending
    <2> QED
      BY <2>1, <2>2 DEF Holders
  <1> QED
    BY <1>1 DEF NoMissedWakeup

(* Where MALLOC does not sleep, no wakeup is missed, for all ranges and    *)
(* any number of processes: a process sleeps in lf_setlock only on the     *)
(* list of a lock that is in its way, although that lock may since have    *)
(* been split, shrunk, swallowed by another lock or changed to the other   *)
(* type.                                                                   *)
THEOREM WakeupsKept == ~MallocSleeps /\ Spec => []NoMissedWakeup
  <1>1. Init => Awaited
    BY DEF Init, Awaited
  <1>2. NoneSplits => NoneClears
    BY DEF NoneSplits, NoneClears
  <1>3. Base /\ Base' /\ NoneClears /\ NoneClears' /\ Awaited /\ [Next]_vars => Awaited'
    BY StepAwaited
  <1>4. Base /\ Awaited => NoMissedWakeup
    BY AwaitedHeld
  <1> QED
    BY <1>1, <1>2, <1>3, <1>4, AlwaysBase, AlwaysAwake, PTL DEF Spec

-----------------------------------------------------------------------------
(* Whose locks there are.                                                  *)

(* flock is not used, or no open file is shared between processes.         *)
Unshared == ~Flock \/ \A p, q \in Procs, f \in Files :
                          <<p, f>> \in Fds /\ <<q, f>> \in Fds => p = q

(* id has a descriptor of inode ino, and is marked so that the last close  *)
(* will look for its locks.                                                *)
Holder(id, ino) ==
    /\ id \in Procs => id \in SADVLCK /\ \E f \in Files : <<id, f>> \in fds /\ InodeOf[f] = ino
    /\ id \in Files => id \in FHASLOCK /\ InodeOf[id] = ino /\ \E p \in Procs : <<p, id>> \in fds
Owned == \A ino \in Inodes : \A x \in Locks(i_lockf[ino]) : Holder(x.id, ino)
Claims == \A p \in Procs : pc[p] \notin {"user", "clear"} => Holder(req[p].id, req[p].ino)

IdsFrom(list, new) == \A x \in Locks(new) : \E y \in Locks(list) : x.id = y.id

LEMMA SetIds ==
    ASSUME NEW list \in Lists, Sorted(list), NEW k \in LockRecs, k.sleepers = {},
           NEW r, r = lf_setlock(list, k)
    PROVE  \A x \in Locks(r.list) : x.id = k.id \/ \E y \in Locks(list) : x.id = y.id
  <1>1. PICK out : SetOutcome(list, k, r, out)
    BY SetResult
  <1>2. Sources(list, Len(list), k, out, r.taken, r.woken) /\ Seen(list, Len(list)) = Locks(list)
    BY <1>1, SeenRest DEF SetOutcome, Account
  <1>3. \A x \in out : \E y \in Locks(list) : x.id = y.id
    BY <1>2 DEF Sources, From
  <1>4. \A x \in Locks(r.list) : x \in out \/ x.id = k.id
    BY <1>1 DEF SetOutcome, SameLock
  <1> QED
    BY <1>3, <1>4

LEMMA ClearIds ==
    ASSUME NEW list \in Lists, Sorted(list), NEW k \in Asked, NEW c, NEW r, r = MaybeClear(list, k, c)
    PROVE  /\ IdsFrom(list, r.list)
           /\ c /\ k.start = 0 /\ k.end = EOF => \A x \in Locks(r.list) : x.id # k.id
  <1>1. Account(list, Len(list), k, Locks(r.list), {}, r.woken)
    BY MaybeClearOK
  <1>2. Sources(list, Len(list), k, Locks(r.list), {}, r.woken) /\ Seen(list, Len(list)) = Locks(list)
    BY <1>1, SeenRest DEF Account
  <1>3. IdsFrom(list, r.list)
    BY <1>2 DEF Sources, From, IdsFrom
  <1>4. ASSUME c, k.start = 0, k.end = EOF, NEW x \in Locks(r.list), x.id = k.id PROVE FALSE
    <2>1. Precedes(x, k) \/ Precedes(k, x)
      BY <1>4, MaybeClearOK
    <2>2. x \in LockRecs
      BY <1>1 DEF Account
    <2> QED
      BY <1>4, <2>1, <2>2 DEF Precedes, LockRecs, EOF
  <1> QED
    BY <1>3, <1>4

LEMMA ResleepIds ==
    ASSUME NEW list \in Lists, NEW new, Resleep(list, new)
    PROVE  IdsFrom(list, new)
  <1>1. ASSUME NEW x \in Locks(new) PROVE \E y \in Locks(list) : x.id = y.id
    <2>1. PICK i \in DOMAIN new : x = new[i]
      BY DEF Locks
    <2>2. i \in 1..Len(list) /\ i \in DOMAIN list
      BY <2>1 DEF Resleep, Lists
    <2> QED
      BY <2>1, <2>2 DEF Resleep, SameLock, Locks
  <1> QED
    BY <1>1 DEF IdsFrom

LEMMA SleepIds ==
    ASSUME Base, NEW p \in Procs, NEW k, IsReq(p, k), k \in LockRecs, NEW i \in lf_getblock(k),
           NEW r, r = SleepList(p, k, i)
    PROVE  IdsFrom(i_lockf[k.ino], r.list)
  <1>1. PICK list, queue : list = i_lockf[k.ino] /\ queue = Queue(list, i, p)
    OBVIOUS
  <1>2. /\ k \in Asked /\ list \in Lists /\ Sorted(list) /\ \A x \in Locks(list) : x.ino = k.ino
    BY <1>1, ReqTyped
  <1>3. i \in DOMAIN list
    BY <1>1 DEF lf_getblock
  <1>4. Resleep(list, queue) /\ queue \in Lists
    BY <1>1, <1>2, <1>3, QueueOK
  <1>5. IdsFrom(list, queue)
    BY <1>2, <1>4, ResleepIds
  <1>6. CASE k.id \in Files /\ k.type = "F_WRLCK"
    <2>1. r = MaybeClear(queue, k, TRUE)
      BY <1>1, <1>6 DEF SleepList, MaybeClear
    <2>2. Sorted(queue)
      <3>1. PICK ino : ino = k.ino
        OBVIOUS
      <3>2. \A x \in Locks(list) : x.ino = ino
        BY <1>2, <3>1
      <3>3. \A id : Changed(list, queue, id, ino)
        BY <1>2, <1>4, <3>2, ResleepChanged
      <3> QED
        BY <3>3 DEF Changed
    <2>3. IdsFrom(queue, r.list)
      BY <1>2, <1>4, <2>1, <2>2, ClearIds
    <2> QED
      BY <1>1, <1>5, <2>3 DEF IdsFrom
  <1>7. CASE ~(k.id \in Files /\ k.type = "F_WRLCK")
    <2>1. r = [list |-> queue, woken |-> {}, taken |-> {}]
      BY <1>1, <1>7 DEF SleepList
    <2>2. r.list = queue
      BY <2>1
    <2> QED
      BY <1>1, <1>5, <2>2
  <1> QED
    BY <1>6, <1>7

LEMMA CutIds ==
    ASSUME NEW list \in Lists, Sorted(list), NEW k \in Asked, NEW i \in DOMAIN list, Splits(list[i], k)
    PROVE  IdsFrom(list, CutList(list, i, k))
  <1>1. PICK A, P, Q, C : /\ A = SubSeq(list, 1, i - 1) /\ C = SubSeq(list, i + 1, Len(list))
                          /\ P = Before(list[i], k) /\ Q = After(list[i], k)
    OBVIOUS
  <1>2. i \in 1..Len(list) /\ list[i] \in LockRecs /\ ~Disjoint(list[i], k)
    BY DEF Lists, Splits, ovcase
  <1>3. /\ A \in Lists /\ Locks(A) = Seen(list, i - 1) /\ C \in Lists /\ Locks(C) = Rest(list, i)
    BY <1>1, <1>2, SubLists
  <1>4. P \in Lists /\ Q \in Lists /\ \A x \in Locks(P \o Q) : x.id = list[i].id
    BY <1>1, <1>2, CutPieces
  <1>5. \A x \in Locks(P) \cup Locks(Q) : x.id = list[i].id
    BY <1>4, CatLocks
  <1>6. Locks(A \o P) = Locks(A) \cup Locks(P) /\ A \o P \in Lists
    BY <1>3, <1>4, CatLocks
  <1>7. Locks((A \o P) \o Q) = Locks(A \o P) \cup Locks(Q) /\ (A \o P) \o Q \in Lists
    BY <1>4, <1>6, CatLocks
  <1>8. Locks(((A \o P) \o Q) \o C) = Locks((A \o P) \o Q) \cup Locks(C)
    BY <1>3, <1>7, CatLocks
  <1>9. CutList(list, i, k) = ((A \o P) \o Q) \o C
    BY <1>1 DEF CutList
  <1>10. list[i] \in Locks(list) /\ Seen(list, i - 1) \subseteq Locks(list) /\ Rest(list, i) \subseteq Locks(list)
    BY <1>2 DEF Seen, Rest, Locks, Lists
  <1> QED
    BY <1>3, <1>5, <1>6, <1>7, <1>8, <1>9, <1>10 DEF IdsFrom

LEMMA GrowOwned ==
    ASSUME Owned, Claims, NEW p \in Procs,
           fds \subseteq fds', SADVLCK \subseteq SADVLCK', FHASLOCK \subseteq FHASLOCK',
           \A ino \in Inodes : \A x \in Locks(i_lockf'[ino]) :
               Holder(x.id, ino)' \/ \E y \in Locks(i_lockf[ino]) : x.id = y.id,
           \A q \in Procs \ {p} : pc'[q] \notin {"user", "clear"} =>
               pc[q] \notin {"user", "clear"} /\ req'[q] = req[q],
           pc'[p] \notin {"user", "clear"} => Holder(req[p].id, req[p].ino)'
    PROVE  Owned' /\ Claims'
  <1>1. ASSUME NEW id, NEW ino, Holder(id, ino) PROVE Holder(id, ino)'
    BY <1>1 DEF Holder
  <1>2. ASSUME NEW ino \in Inodes, NEW x \in Locks(i_lockf'[ino]) PROVE Holder(x.id, ino)'
    <2>1. CASE \E y \in Locks(i_lockf[ino]) : x.id = y.id
      <3>1. PICK y \in Locks(i_lockf[ino]) : x.id = y.id
        BY <2>1
      <3>2. Holder(y.id, ino)
        BY DEF Owned
      <3>3. Holder(y.id, ino)'
        BY <1>1, <3>2
      <3> QED
        BY <3>1, <3>3
    <2> QED
      BY <1>2, <2>1
  <1>3. Owned'
    BY <1>2 DEF Owned
  <1>4. ASSUME NEW q \in Procs, pc'[q] \notin {"user", "clear"} PROVE Holder(req[q].id, req[q].ino)'
    <2>1. CASE q # p
      <3>1. pc[q] \notin {"user", "clear"} /\ req'[q] = req[q]
        BY <1>4, <2>1
      <3>2. Holder(req[q].id, req[q].ino)
        BY <3>1 DEF Claims
      <3>3. PICK id, ino : id = req[q].id /\ ino = req[q].ino
        OBVIOUS
      <3>4. Holder(id, ino)'
        BY <1>1, <3>2, <3>3
      <3> QED
        BY <3>1, <3>3, <3>4
    <2> QED
      BY <1>4, <2>1
  <1> QED
    BY <1>3, <1>4 DEF Claims

(* One list changes.                                                       *)
LEMMA UpdateOwned ==
    ASSUME Base, Owned, Claims, NEW p \in Procs,
           fds \subseteq fds', SADVLCK \subseteq SADVLCK', FHASLOCK \subseteq FHASLOCK',
           NEW ino \in Inodes, NEW r, NEW where \in PCs, Update(p, ino, r, where),
           \A x \in Locks(r.list) : Holder(x.id, ino)' \/ \E y \in Locks(i_lockf[ino]) : x.id = y.id,
           NEW v, req' = [req EXCEPT ![p] = v],
           where \notin {"user", "clear"} => Holder(v.id, v.ino)'
    PROVE  Owned' /\ Claims'
  <1>1. /\ i_lockf \in [Inodes -> Lists] /\ pc \in [Procs -> PCs] /\ req \in [Procs -> Asked \cup {None}]
    BY DEF Base, TypeOK
  <1>2. i_lockf'[ino] = r.list /\ \A j \in Inodes \ {ino} : i_lockf'[j] = i_lockf[j]
    BY <1>1 DEF Update
  <1>3. pc'[p] = where /\ \A q \in Procs \ {p} : pc'[q] \notin {"user", "clear"} => pc[q] \notin {"user", "clear"}
    BY <1>1 DEF Update
  <1>4. req'[p] = v /\ \A q \in Procs \ {p} : req'[q] = req[q]
    BY <1>1
  <1>5. \A j \in Inodes : \A x \in Locks(i_lockf'[j]) :
            Holder(x.id, j)' \/ \E y \in Locks(i_lockf[j]) : x.id = y.id
    BY <1>2
  <1>6. pc'[p] \notin {"user", "clear"} => Holder(req[p].id, req[p].ino)'
    BY <1>3, <1>4
  <1> QED
    BY <1>3, <1>4, <1>5, <1>6, GrowOwned

(* flock(LOCK_UN): nothing is left of the file's lock.                     *)
LEMMA FreeOwned ==
    ASSUME Unshared, Base, Owned, Claims, NEW p \in Procs, NEW k, Clearing(p, k), k.id \in Files
    PROVE  Owned' /\ Claims'
  <1>1. PICK ino, r, list : ino = k.ino /\ list = i_lockf[ino] /\ r = lf_clearlock(list, k)
    OBVIOUS
  <1>2. /\ IsReq(p, k) /\ UNCHANGED <<fds, SADVLCK>> /\ FHASLOCK' = FHASLOCK \ {k.id}
        /\ Update(p, ino, r, "user") /\ req' = [req EXCEPT ![p] = None]
    BY <1>1, LockfAssumption DEF Clearing, Frees
  <1>3. /\ Flock /\ <<p, k.id>> \in fds /\ ino = InodeOf[k.id] /\ k.start = 0 /\ k.end = EOF
        /\ k \in Asked /\ ino \in Inodes /\ list \in Lists /\ Sorted(list)
    <2>1. Flock /\ <<p, k.id>> \in fds /\ ino = InodeOf[k.id] /\ k.start = 0 /\ k.end = EOF
      BY <1>1, <1>2, LockfAssumption DEF IsReq
    <2> QED
      BY <1>1, <1>2, <2>1, ReqTyped
  <1>4. r = MaybeClear(list, k, TRUE)
    BY <1>1 DEF MaybeClear
  <1>5. IdsFrom(list, r.list) /\ \A x \in Locks(r.list) : x.id # k.id
    BY <1>3, <1>4, ClearIds
  <1>6. /\ i_lockf \in [Inodes -> Lists] /\ pc \in [Procs -> PCs] /\ req \in [Procs -> Asked \cup {None}]
        /\ fds \subseteq Fds
    BY DEF Base, TypeOK
  <1>7. i_lockf'[ino] = r.list /\ \A j \in Inodes \ {ino} : i_lockf'[j] = i_lockf[j]
    BY <1>2, <1>3, <1>6 DEF Update
  <1>8. pc'[p] = "user" /\ \A q \in Procs \ {p} : /\ pc'[q] \notin {"user", "clear"} => pc[q] \notin {"user", "clear"}
                                                 /\ req'[q] = req[q]
    BY <1>2, <1>6 DEF Update
  <1>9. ASSUME NEW id, NEW j, Holder(id, j), id # k.id PROVE Holder(id, j)'
    BY <1>2, <1>9 DEF Holder
  <1>10. ASSUME NEW j \in Inodes, NEW x \in Locks(i_lockf'[j]) PROVE Holder(x.id, j)'
    <2>1. PICK y \in Locks(i_lockf[j]) : x.id = y.id
      BY <1>1, <1>5, <1>7 DEF IdsFrom
    <2>2. PICK id : id = x.id
      OBVIOUS
    <2>3. Holder(id, j)
      BY <2>1, <2>2 DEF Owned
    <2>4. id # k.id
      <3>1. CASE j = ino
        BY <1>5, <1>7, <2>2, <3>1
      <3>2. CASE j # ino
        BY <1>3, <2>3, <3>2 DEF Holder
      <3> QED
        BY <3>1, <3>2
    <2>5. Holder(id, j)'
      BY <1>9, <2>3, <2>4
    <2> QED
      BY <2>2, <2>5
  <1>11. ASSUME NEW q \in Procs, pc'[q] \notin {"user", "clear"} PROVE Holder(req[q].id, req[q].ino)'
    <2>1. q # p /\ pc[q] \notin {"user", "clear"} /\ req'[q] = req[q]
      BY <1>8, <1>11
    <2>2. PICK id, j : id = req[q].id /\ j = req[q].ino
      OBVIOUS
    <2>3. Holder(id, j)
      BY <2>1, <2>2 DEF Claims
    <2>4. id # k.id
      <3>1. IsReq(q, req[q])
        BY <2>1 DEF Base, Pending
      <3>2. CASE id = q
        BY <3>2, LockfAssumption
      <3>3. CASE \E f \in Files : <<q, f>> \in fds /\ id = f
        BY <1>3, <1>6, <2>1, <3>3 DEF Unshared
      <3> QED
        BY <2>2, <3>1, <3>2, <3>3 DEF IsReq
    <2>5. Holder(id, j)'
      BY <1>9, <2>3, <2>4
    <2> QED
      BY <2>1, <2>2, <2>5
  <1> QED
    BY <1>10, <1>11 DEF Owned, Claims

(* A close: nothing is left of what only this descriptor kept.             *)
LEMMA CloseOwned ==
    ASSUME Base, Owned, Claims, NEW p \in Procs, NEW f \in Files, NEW r, NEW s, Closing(p, f, r, s)
    PROVE  Owned' /\ Claims'
  <1>1. PICK ino, list, kp, kf : /\ ino = InodeOf[f] /\ list = i_lockf[ino]
                                 /\ kp = OfProc(p, f) /\ kf = OfFile(f)
    OBVIOUS
  <1>2. /\ fds' = fds \ {<<p, f>>} /\ UNCHANGED <<req, SADVLCK>>
        /\ FHASLOCK' = IF Last(p, f) THEN FHASLOCK \ {f} ELSE FHASLOCK
        /\ Update(p, ino, [list |-> s.list, woken |-> s.woken \cup r.woken, taken |-> {}], "user")
    BY <1>1 DEF Closing
  <1>3. /\ kp \in Asked /\ kp.id = p /\ kp.start = 0 /\ kp.end = EOF
        /\ kf \in Asked /\ kf.id = f /\ kf.start = 0 /\ kf.end = EOF /\ ino \in Inodes
    BY <1>1, CloseTyped
  <1>4. /\ list \in Lists /\ Sorted(list) /\ r.list \in Lists /\ Sorted(r.list)
        /\ r = MaybeClear(list, kp, p \in SADVLCK)
        /\ s = MaybeClear(r.list, kf, Last(p, f) /\ f \in FHASLOCK)
    BY <1>1, ClosingLists
  <1>5. IdsFrom(list, r.list) /\ (p \in SADVLCK => \A x \in Locks(r.list) : x.id # p)
    <2>1. PICK c : c = (p \in SADVLCK)
      OBVIOUS
    <2>2. r = MaybeClear(list, kp, c)
      BY <1>4, <2>1, Zenon
    <2>3. IdsFrom(list, r.list) /\ (c => \A x \in Locks(r.list) : x.id # kp.id)
      BY <1>3, <1>4, <2>2, ClearIds
    <2> QED
      BY <1>3, <2>1, <2>3
  <1>6. IdsFrom(r.list, s.list) /\ (Last(p, f) /\ f \in FHASLOCK => \A x \in Locks(s.list) : x.id # f)
    <2>1. PICK c : c = (Last(p, f) /\ f \in FHASLOCK)
      OBVIOUS
    <2>2. s = MaybeClear(r.list, kf, c)
      BY <1>4, <2>1, Zenon
    <2>3. IdsFrom(r.list, s.list) /\ (c => \A x \in Locks(s.list) : x.id # kf.id)
      BY <1>3, <1>4, <2>2, ClearIds
    <2> QED
      BY <1>3, <2>1, <2>3
  <1>7. /\ i_lockf \in [Inodes -> Lists] /\ pc \in [Procs -> PCs] /\ req \in [Procs -> Asked \cup {None}]
    BY DEF Base, TypeOK
  <1>8. i_lockf'[ino] = s.list /\ \A j \in Inodes \ {ino} : i_lockf'[j] = i_lockf[j]
    BY <1>2, <1>3, <1>7 DEF Update
  <1>9. pc'[p] = "user" /\ \A q \in Procs \ {p} : pc'[q] \notin {"user", "clear"} => pc[q] \notin {"user", "clear"}
    BY <1>2, <1>7 DEF Update
  <1>10. ASSUME NEW id, NEW j, Holder(id, j), id = p => j # ino, id = f => ~Last(p, f)
         PROVE  Holder(id, j)'
    <2>1. ASSUME id \in Procs
          PROVE  id \in SADVLCK' /\ \E g \in Files : <<id, g>> \in fds' /\ InodeOf[g] = j
      <3>1. PICK g \in Files : id \in SADVLCK /\ <<id, g>> \in fds /\ InodeOf[g] = j
        BY <1>10, <2>1 DEF Holder
      <3>2. <<id, g>> # <<p, f>>
        BY <1>1, <1>10, <3>1
      <3> QED
        BY <1>2, <3>1, <3>2
    <2>2. ASSUME id \in Files
          PROVE  id \in FHASLOCK' /\ InodeOf[id] = j /\ \E q \in Procs : <<q, id>> \in fds'
      <3>1. id \in FHASLOCK /\ InodeOf[id] = j
        BY <1>10, <2>2 DEF Holder
      <3>2. CASE id = f
        <4>1. PICK q \in Procs \ {p} : <<q, f>> \in fds
          BY <1>10, <3>2 DEF Last
        <4>2. <<q, f>> \in fds'
          BY <1>2, <4>1
        <4> QED
          BY <1>2, <1>10, <3>1, <3>2, <4>2
      <3>3. CASE id # f
        <4>1. PICK q \in Procs : <<q, id>> \in fds
          BY <1>10, <2>2 DEF Holder
        <4>2. <<q, id>> \in fds'
          BY <1>2, <3>3, <4>1
        <4> QED
          BY <1>2, <3>1, <3>3, <4>2
      <3> QED
        BY <3>2, <3>3
    <2> QED
      BY <2>1, <2>2 DEF Holder
  <1>11. ASSUME NEW j \in Inodes, NEW x \in Locks(i_lockf'[j]) PROVE Holder(x.id, j)'
    <2>1. PICK id : id = x.id
      OBVIOUS
    <2>2. CASE j # ino
      <3>1. Holder(id, j)
        BY <1>8, <2>1, <2>2 DEF Owned
      <3>2. id # f
        BY <1>1, <2>2, <3>1 DEF Holder
      <3>3. Holder(id, j)'
        BY <1>10, <2>2, <3>1, <3>2
      <3> QED
        BY <2>1, <3>3
    <2>3. CASE j = ino
      <3>1. PICK z \in Locks(r.list) : z.id = id
        BY <1>6, <1>8, <2>1, <2>3 DEF IdsFrom
      <3>2. PICK y \in Locks(list) : y.id = id
        BY <1>5, <3>1 DEF IdsFrom
      <3>3. Holder(id, ino)
        BY <1>1, <1>3, <3>2 DEF Owned
      <3>4. id # p
        BY <1>5, <3>1, <3>3 DEF Holder
      <3>5. id = f => ~Last(p, f)
        BY <1>6, <1>8, <2>1, <2>3, <3>3 DEF Holder
      <3>6. Holder(id, ino)'
        BY <1>10, <3>3, <3>4, <3>5
      <3> QED
        BY <2>1, <2>3, <3>6
    <2> QED
      BY <2>2, <2>3
  <1>12. ASSUME NEW q \in Procs, pc'[q] \notin {"user", "clear"} PROVE Holder(req[q].id, req[q].ino)'
    <2>1. q # p /\ pc[q] \notin {"user", "clear"} /\ req'[q] = req[q]
      BY <1>2, <1>9, <1>12
    <2>2. PICK id, j : id = req[q].id /\ j = req[q].ino
      OBVIOUS
    <2>3. Holder(id, j)
      BY <2>1, <2>2 DEF Claims
    <2>4. IsReq(q, req[q])
      BY <2>1 DEF Base, Pending
    <2>5. id # p
      BY <2>1, <2>2, <2>4, LockfAssumption DEF IsReq
    <2>6. id = f => ~Last(p, f)
      BY <2>1, <2>2, <2>4, LockfAssumption DEF IsReq, Last
    <2>7. Holder(id, j)'
      BY <1>10, <2>3, <2>5, <2>6
    <2> QED
      BY <2>1, <2>2, <2>7
  <1> QED
    BY <1>11, <1>12 DEF Owned, Claims

LEMMA StepOwned ==
    ASSUME Unshared, Base, Base', Owned, Claims, [Next]_vars
    PROVE  Owned' /\ Claims'
  <1>1. CASE UNCHANGED vars
    <2>1. /\ i_lockf' = i_lockf /\ pc' = pc /\ req' = req /\ fds' = fds
          /\ SADVLCK' = SADVLCK /\ FHASLOCK' = FHASLOCK
      BY <1>1 DEF vars
    <2> QED
      BY <2>1 DEF Owned, Claims, Holder
  <1>2. CASE Next
    <2>1. PICK p \in Procs :
              \/ \E k : \/ Placing(p, k) \/ Deferring(p, k) \/ Failing(p, k)
                        \/ \E i : Sleeping(p, k, i)
                        \/ Clearing(p, k) \/ \E i : Waking(p, k, i) \/ Cutting(p, k, i)
              \/ signal(p) \/ interrupted(p)
              \/ \E f \in Files : closef(p, f) \/ open(p, f)
      BY <1>2, StepCases
    <2>2. /\ pc \in [Procs -> PCs] /\ req \in [Procs -> Asked \cup {None}]
          /\ i_lockf \in [Inodes -> Lists] /\ {"user", "asleep", "clear"} \subseteq PCs
      BY DEF PCs, Base, TypeOK
    <2>3. ASSUME NEW k, Asks(p, k)
          PROVE  /\ IsReq(p, k) /\ k \in LockRecs /\ k.sleepers = {} /\ k.ino \in Inodes
                 /\ i_lockf[k.ino] \in Lists /\ Sorted(i_lockf[k.ino]) /\ Holder(k.id, k.ino)'
                 /\ fds \subseteq fds' /\ SADVLCK \subseteq SADVLCK' /\ FHASLOCK \subseteq FHASLOCK'
      <3>1. IsReq(p, k) /\ k \in LockRecs /\ fds' = fds
        BY <2>3 DEF Asks
      <3>2. /\ k.sleepers = {} /\ k.ino \in Inodes /\ i_lockf[k.ino] \in Lists /\ Sorted(i_lockf[k.ino])
        BY <3>1, ReqTyped DEF IsReq
      <3>3. SADVLCK \subseteq SADVLCK' /\ FHASLOCK \subseteq FHASLOCK'
        BY <2>3 DEF Asks
      <3>4. (k.id \in Procs => k.id \in SADVLCK') /\ (k.id \in Files => k.id \in FHASLOCK')
        <4>1. CASE pc[p] \in {"woken", "set"} /\ k = req[p] /\ UNCHANGED <<SADVLCK, FHASLOCK>>
          BY <4>1 DEF Claims, Holder
        <4>2. CASE k.id = p /\ SADVLCK' = SADVLCK \cup {p}
          BY <4>2, LockfAssumption
        <4>3. CASE k.id \in Files /\ FHASLOCK' = FHASLOCK \cup {k.id}
          BY <4>3, LockfAssumption
        <4> QED
          BY <2>3, <4>1, <4>2, <4>3 DEF Asks
      <3>5. PICK f \in Files : /\ <<p, f>> \in fds /\ k.ino = InodeOf[f] /\ (k.id = p \/ k.id = f)
        BY <3>1 DEF IsReq
      <3>6. Holder(k.id, k.ino)'
        BY <3>1, <3>4, <3>5, LockfAssumption DEF Holder
      <3> QED
        BY <3>1, <3>2, <3>3, <3>6
    <2>4. ASSUME NEW k, Placing(p, k) PROVE Owned' /\ Claims'
      <3>1. PICK ino, r : ino = k.ino /\ r = lf_setlock(i_lockf[ino], k)
        OBVIOUS
      <3>2. Asks(p, k) /\ req' = [req EXCEPT ![p] = None] /\ Update(p, ino, r, "user")
        BY <2>4, <3>1 DEF Placing
      <3>3. ino \in Inodes /\ \A x \in Locks(r.list) : x.id = k.id \/ \E y \in Locks(i_lockf[ino]) : x.id = y.id
        BY <2>3, <3>1, <3>2, SetIds
      <3>4. \A x \in Locks(r.list) : Holder(x.id, ino)' \/ \E y \in Locks(i_lockf[ino]) : x.id = y.id
        BY <2>3, <3>1, <3>2, <3>3
      <3> QED
        BY <2>2, <2>3, <3>2, <3>3, <3>4, UpdateOwned
    <2>5. ASSUME NEW k, Deferring(p, k) \/ Failing(p, k) PROVE Owned' /\ Claims'
      <3>1. /\ Asks(p, k) /\ i_lockf' = i_lockf
            /\ \/ pc' = [pc EXCEPT ![p] = "set"] /\ req' = [req EXCEPT ![p] = k]
               \/ pc' = [pc EXCEPT ![p] = "user"] /\ req' = [req EXCEPT ![p] = None]
        BY <2>5 DEF Deferring, Failing, Stay
      <3>2. pc'[p] \notin {"user", "clear"} => Holder(req[p].id, req[p].ino)'
        BY <2>2, <2>3, <3>1
      <3>3. \A q \in Procs \ {p} : pc'[q] = pc[q] /\ req'[q] = req[q]
        BY <2>2, <3>1
      <3> QED
        BY <2>3, <3>1, <3>2, <3>3, GrowOwned
    <2>6. ASSUME NEW k, NEW i, Sleeping(p, k, i) PROVE Owned' /\ Claims'
      <3>1. PICK ino, r : ino = k.ino /\ r = SleepList(p, k, i)
        OBVIOUS
      <3>2. /\ Asks(p, k) /\ req' = [req EXCEPT ![p] = k] /\ Update(p, ino, r, "asleep")
            /\ i \in lf_getblock(k)
        BY <2>6, <3>1 DEF Sleeping
      <3>3. IdsFrom(i_lockf[ino], r.list) /\ ino \in Inodes
        BY <2>3, <3>1, <3>2, SleepIds
      <3>4. \A x \in Locks(r.list) : Holder(x.id, ino)' \/ \E y \in Locks(i_lockf[ino]) : x.id = y.id
        BY <3>3 DEF IdsFrom
      <3> QED
        BY <2>2, <2>3, <3>2, <3>3, <3>4, UpdateOwned
    <2>7. ASSUME NEW k, Clearing(p, k) PROVE Owned' /\ Claims'
      <3>1. PICK ino, r, list : ino = k.ino /\ list = i_lockf[ino] /\ r = lf_clearlock(list, k)
        OBVIOUS
      <3>2. Frees(p, k) /\ req' = [req EXCEPT ![p] = None] /\ Update(p, ino, r, "user")
        BY <2>7, <3>1 DEF Clearing
      <3>3. CASE k.id \in Files
        BY <2>7, <3>3, FreeOwned
      <3>4. CASE k.id \notin Files
        <4>1. UNCHANGED <<fds, SADVLCK, FHASLOCK>>
          BY <3>2, <3>4 DEF Frees
        <4>2. k \in Asked /\ ino \in Inodes /\ list \in Lists /\ Sorted(list)
          BY <3>1, <3>2, ReqTyped DEF Frees
        <4>3. r = MaybeClear(list, k, TRUE)
          BY <3>1 DEF MaybeClear
        <4>4. IdsFrom(list, r.list)
          BY <4>2, <4>3, ClearIds
        <4>5. \A x \in Locks(r.list) : Holder(x.id, ino)' \/ \E y \in Locks(i_lockf[ino]) : x.id = y.id
          BY <3>1, <4>4 DEF IdsFrom
        <4> QED
          BY <2>2, <3>2, <4>1, <4>2, <4>5, UpdateOwned
      <3> QED
        BY <3>3, <3>4
    <2>8. ASSUME NEW k, NEW i, Waking(p, k, i) PROVE Owned' /\ Claims'
      <3>1. PICK list, ino, r : /\ ino = k.ino /\ list = i_lockf[ino]
                                /\ r = [list |-> Asleep(list, i, {}), woken |-> list[i].sleepers, taken |-> {}]
        OBVIOUS
      <3>2. /\ Frees(p, k) /\ req' = [req EXCEPT ![p] = k] /\ Update(p, ino, r, "clear")
            /\ NeedsMalloc(k) /\ i = Cut(list, k)
        BY <2>8, <3>1, Zenon DEF Waking, Asleep
      <3>3. IsReq(p, k) /\ list \in Lists /\ ino \in Inodes
        BY <3>1, <3>2, ReqTyped DEF Frees
      <3>4. i \in DOMAIN list /\ Splits(list[i], k) /\ list[i] \in LockRecs
        <4>1. \E x \in Locks(list) : Splits(x, k)
          BY <3>1, <3>2 DEF NeedsMalloc
        <4> QED
          BY <3>2, <3>3, <4>1, CutOK DEF Lists
      <3>5. k.id = p
        BY <3>3, <3>4, SplitsProc
      <3>6. UNCHANGED <<fds, SADVLCK, FHASLOCK>>
        BY <3>2, <3>5, LockfAssumption DEF Frees
      <3>7. Resleep(list, r.list)
        <4>0. {} \in SUBSET Procs
          OBVIOUS
        <4>1. PICK S, new : S \in SUBSET Procs /\ S = {} /\ new = Asleep(list, i, S)
          BY <4>0
        <4>2. Resleep(list, new)
          BY <3>3, <3>4, <4>1, PutSleepers
        <4> QED
          BY <3>1, <4>1, <4>2
      <3>8. IdsFrom(list, r.list)
        BY <3>3, <3>7, ResleepIds
      <3>9. \A x \in Locks(r.list) : Holder(x.id, ino)' \/ \E y \in Locks(i_lockf[ino]) : x.id = y.id
        BY <3>1, <3>8 DEF IdsFrom
      <3> QED
        BY <2>2, <3>2, <3>3, <3>6, <3>9, UpdateOwned
    <2>9. ASSUME NEW k, NEW i, Cutting(p, k, i) PROVE Owned' /\ Claims'
      <3>1. PICK list, ino, r : /\ ino = k.ino /\ list = i_lockf[ino]
                                /\ r = [list |-> CutList(list, i, k), woken |-> {}, taken |-> {}]
        OBVIOUS
      <3>2. /\ pc[p] = "clear" /\ k = req[p] /\ req' = [req EXCEPT ![p] = None]
            /\ Update(p, ino, r, "user")
            /\ i = Cut(list, k) /\ UNCHANGED <<fds, SADVLCK, FHASLOCK>>
        BY <2>9, <3>1, Zenon DEF Cutting
      <3>3. k \in Asked /\ ino \in Inodes /\ list \in Lists /\ Sorted(list)
        BY <3>1, <3>2, ReqTyped DEF Base, Pending
      <3>4. i \in DOMAIN list /\ Splits(list[i], k)
        <4>1. \E x \in Locks(list) : Splits(x, k)
          BY <3>1, <3>2 DEF Base, Cuttable
        <4> QED
          BY <3>2, <3>3, <4>1, CutOK
      <3>5. IdsFrom(list, r.list)
        BY <3>1, <3>3, <3>4, CutIds
      <3>6. \A x \in Locks(r.list) : Holder(x.id, ino)' \/ \E y \in Locks(i_lockf[ino]) : x.id = y.id
        BY <3>1, <3>5 DEF IdsFrom
      <3> QED
        BY <2>2, <3>2, <3>3, <3>6, UpdateOwned
    <2>10. CASE signal(p)
      <3>1. /\ pc[p] = "asleep" /\ req' = req /\ pc' = [pc EXCEPT ![p] = "signalled"] /\ i_lockf' = i_lockf
            /\ UNCHANGED <<fds, SADVLCK, FHASLOCK>>
        BY <2>10 DEF signal, Stay
      <3>2. Holder(req[p].id, req[p].ino)
        BY <3>1 DEF Claims
      <3>3. Holder(req[p].id, req[p].ino)'
        BY <3>1, <3>2 DEF Holder
      <3>4. \A q \in Procs \ {p} : pc'[q] = pc[q] /\ req'[q] = req[q]
        BY <2>2, <3>1
      <3> QED
        BY <3>1, <3>3, <3>4, GrowOwned
    <2>11. CASE interrupted(p)
      <3>1. /\ pc' = [pc EXCEPT ![p] = "user"] /\ req' = [req EXCEPT ![p] = None]
            /\ i_lockf' = Unlinked(p) \/ i_lockf' = i_lockf
            /\ UNCHANGED <<fds, SADVLCK, FHASLOCK>>
        BY <2>11 DEF interrupted
      <3>2. ASSUME NEW ino \in Inodes PROVE IdsFrom(i_lockf[ino], i_lockf'[ino])
        <4>1. Resleep(i_lockf[ino], i_lockf'[ino]) /\ i_lockf[ino] \in Lists
          BY <2>2, <3>1, SameLists, UnlinkedOK
        <4> QED
          BY <4>1, ResleepIds
      <3>3. pc'[p] = "user" /\ \A q \in Procs \ {p} : pc'[q] = pc[q] /\ req'[q] = req[q]
        BY <2>2, <3>1
      <3>4. \A ino \in Inodes : \A x \in Locks(i_lockf'[ino]) : \E y \in Locks(i_lockf[ino]) : x.id = y.id
        BY <3>2 DEF IdsFrom
      <3> QED
        BY <3>1, <3>3, <3>4, GrowOwned
    <2>12. ASSUME NEW f \in Files, closef(p, f) PROVE Owned' /\ Claims'
      <3>1. PICK r, s : Closing(p, f, r, s)
        BY <2>12, CloseStep
      <3> QED
        BY <3>1, CloseOwned
    <2>13. ASSUME NEW f \in Files, open(p, f) PROVE Owned' /\ Claims'
      <3>1. /\ fds \subseteq fds' /\ pc[p] = "user"
            /\ UNCHANGED <<i_lockf, pc, req, dangling, SADVLCK, FHASLOCK>>
        BY <2>13 DEF open
      <3> QED
        BY <3>1, GrowOwned
    <2> QED
      BY <2>1, <2>4, <2>5, <2>6, <2>7, <2>8, <2>9, <2>10, <2>11, <2>12, <2>13
  <1> QED
    BY <1>1, <1>2

(* Where flock is not used, or no open file is shared, no lock outlives    *)
(* the last descriptor through which its owner could give it up: for all   *)
(* ranges, also when MALLOC sleeps in lf_split and while requests wait to  *)
(* be granted, the marks SADVLCK and FHASLOCK make every close find what   *)
(* it has to clear.                                                        *)
THEOREM LocksEndWithOwner == Unshared /\ Spec => []LocksEnd
  <1> SUFFICES ASSUME Unshared PROVE Spec => []LocksEnd
    OBVIOUS
  <1>1. Init => Owned /\ Claims
    <2>1. ASSUME Init PROVE \A ino \in Inodes : Locks(i_lockf[ino]) = {}
      BY <2>1, FewLocks DEF Init
    <2>2. ASSUME Init PROVE \A p \in Procs : pc[p] = "user"
      BY <2>2 DEF Init
    <2> QED
      BY <2>1, <2>2 DEF Owned, Claims
  <1>2. Base /\ Base' /\ Owned /\ Claims /\ [Next]_vars => Owned' /\ Claims'
    BY StepOwned
  <1>3. Base /\ Owned => LocksEnd
    <2>1. ASSUME Base, Owned, NEW ino \in Inodes, NEW x \in Locks(i_lockf[ino])
          PROVE  \E p \in Procs, f \in Files : <<p, f>> \in fds /\ InodeOf[f] = ino /\ x.id \in {p, f}
      <3>1. Holder(x.id, ino)
        BY <2>1 DEF Owned
      <3>2. x.id \in Procs \/ x.id \in Files
        <4>1. i_lockf[ino] \in Seq(LockRecs)
          BY <2>1 DEF Base, TypeOK, Lists
        <4>2. x \in LockRecs
          BY <4>1 DEF Locks
        <4> QED
          BY <4>2 DEF LockRecs, Ids
      <3> QED
        BY <3>1, <3>2 DEF Holder
    <2> QED
      BY <2>1 DEF LocksEnd
  <1> QED
    BY <1>1, <1>2, <1>3, AlwaysBase, PTL DEF Spec

-----------------------------------------------------------------------------
(* The lists implement RangeLock, as long as MALLOC does not sleep.        *)

LEMMA HeldAt ==
    /\ \A id \in Ids, ino \in Inodes : Held[id][ino] = Mode(i_lockf[ino], id)
    /\ Held = [id \in Ids |-> [ino \in Inodes |-> Held[id][ino]]]
  BY DEF Held

LEMMA HeldAtNext ==
    /\ \A id \in Ids, ino \in Inodes : Held'[id][ino] = Mode(i_lockf'[ino], id)
    /\ Held' = [id \in Ids |-> [ino \in Inodes |-> Held'[id][ino]]]
  BY DEF Held

LEMMA HeldSame ==
    ASSUME \A ino \in Inodes, id \in Ids : Mode(i_lockf'[ino], id) = Mode(i_lockf[ino], id)
    PROVE  Held' = Held
  <1>1. \A id \in Ids, ino \in Inodes : Held'[id][ino] = Held[id][ino]
    BY HeldAt, HeldAtNext
  <1> QED
    BY <1>1, HeldAt, HeldAtNext

(* Who sleeps does not matter.                                             *)
LEMMA ResleepMode ==
    ASSUME NEW list \in Lists, NEW new, Resleep(list, new), NEW id
    PROVE  Mode(new, id) = Mode(list, id)
  <1>1. ASSUME NEW b, NEW t PROVE Has(Locks(list), id, b, t) <=> Has(Locks(new), id, b, t)
    <2>1. \A i \in 1..Len(list) : SameLock(new[i], list[i])
      BY DEF Resleep
    <2>2. DOMAIN list = 1..Len(list) /\ DOMAIN new = 1..Len(list)
      BY DEF Resleep, Lists
    <2>3. \A i \in 1..Len(list) : /\ new[i].id = list[i].id /\ new[i].type = list[i].type
                                  /\ Covers(new[i], b) <=> Covers(list[i], b)
      BY <2>1 DEF SameLock, Covers
    <2>4. Has(Locks(list), id, b, t) <=>
            \E i \in 1..Len(list) : list[i].id = id /\ Covers(list[i], b) /\ list[i].type = t
      BY <2>2 DEF Has, Locks
    <2>5. Has(Locks(new), id, b, t) <=>
            \E i \in 1..Len(list) : new[i].id = id /\ Covers(new[i], b) /\ new[i].type = t
      BY <2>2 DEF Has, Locks
    <2> QED
      BY <2>3, <2>4, <2>5
  <1>2. PICK g : g = Mode(list, id)
    OBVIOUS
  <1>3. g = [b \in 0..MaxByte |-> g[b]]
    BY <1>2 DEF Mode
  <1>4. \A b \in 0..MaxByte : \A t : t \in g[b] <=> Has(Locks(new), id, b, t)
    BY <1>1, <1>2, ModeHas
  <1>5. Mode(new, id) = g
    BY <1>3, <1>4, ModeIs
  <1> QED
    BY <1>2, <1>5

(* The list of an inode is replaced; the bytes S of an owner's change.     *)
Replaced(ino, new) == i_lockf' = [i_lockf EXCEPT ![ino] = new]
Retyped(id, ino, S, m) ==
    Held' = [Held EXCEPT ![id][ino] = [b \in 0..MaxByte |-> IF b \in S THEN m ELSE @[b]]]

LEMMA RewritesHeld ==
    ASSUME Base, NEW ino \in Inodes, NEW new, Replaced(ino, new),
           NEW k, k.id \in Ids, NEW m, Rewrites(i_lockf[ino], new, k, m),
           NEW S, S = {b \in 0..MaxByte : Covers(k, b)}
    PROVE  Retyped(k.id, ino, S, m)
  <1>1. i_lockf \in [Inodes -> Lists]
    BY DEF Base, TypeOK
  <1>2. i_lockf'[ino] = new /\ \A j \in Inodes \ {ino} : i_lockf'[j] = i_lockf[j]
    BY <1>1 DEF Replaced
  <1>3. PICK f : f = [b \in 0..MaxByte |-> IF b \in S THEN m ELSE Held[k.id][ino][b]]
    OBVIOUS
  <1>4. PICK g : g = [Held EXCEPT ![k.id][ino] = f]
    OBVIOUS
  <1>5. /\ g = [id \in Ids |-> [j \in Inodes |-> g[id][j]]]
        /\ g[k.id][ino] = f
        /\ \A id \in Ids, j \in Inodes : id # k.id \/ j # ino => g[id][j] = Held[id][j]
    BY <1>4, HeldAt
  <1>6. Mode(new, k.id) = f
    <2>1. Mode(new, k.id) = [b \in 0..MaxByte |-> IF ~Covers(k, b) THEN Mode(i_lockf[ino], k.id)[b] ELSE m]
      BY DEF Rewrites
    <2>2. Held[k.id][ino] = Mode(i_lockf[ino], k.id)
      BY HeldAt
    <2> QED
      BY <1>3, <2>1, <2>2
  <1>7. ASSUME NEW id \in Ids, id # k.id PROVE Mode(new, id) = Mode(i_lockf[ino], id)
    <2>1. Mode(new, id) = [b \in 0..MaxByte |-> Mode(i_lockf[ino], id)[b]]
      BY <1>7 DEF Rewrites
    <2> QED
      BY <2>1 DEF Mode
  <1>8. ASSUME NEW id \in Ids, NEW j \in Inodes PROVE Held'[id][j] = g[id][j]
    <2>1. Held'[id][j] = Mode(i_lockf'[j], id) /\ Held[id][j] = Mode(i_lockf[j], id)
      BY HeldAt, HeldAtNext
    <2>2. CASE j # ino
      BY <1>2, <1>5, <2>1, <2>2
    <2>3. CASE j = ino /\ id # k.id
      BY <1>2, <1>5, <1>7, <2>1, <2>3
    <2>4. CASE j = ino /\ id = k.id
      BY <1>2, <1>5, <1>6, <2>1, <2>4
    <2> QED
      BY <2>2, <2>3, <2>4
  <1>9. Held' = g
    BY <1>5, <1>8, HeldAtNext
  <1> QED
    BY <1>3, <1>4, <1>9 DEF Retyped

(* The bytes that a request names.                                         *)
LEMMA ReqRegion ==
    ASSUME NEW p \in Procs, NEW k, IsReq(p, k)
    PROVE  {b \in 0..MaxByte : Covers(k, b)} \in {Region(r) : r \in Ranges \cup {WholeFile}}
  <1>1. PICK r \in Ranges \cup {WholeFile} : k.start = r[1] /\ k.end = r[2]
    <2>1. WholeFile[1] = 0 /\ WholeFile[2] = EOF
      BY DEF WholeFile
    <2> QED
      BY <2>1 DEF IsReq
  <1>2. Region(r) = {b \in 0..MaxByte : Covers(k, b)}
    BY <1>1 DEF Region, Covers
  <1> QED
    BY <1>2

(* Nothing is in the way of k.                                             *)
LEMMA NoBlock ==
    ASSUME NEW k, i_lockf[k.ino] \in Lists, lf_getblock(k) = {}
    PROVE  \A x \in Locks(i_lockf[k.ino]) : ~Blocking(x, k)
  <1>1. PICK list : list = i_lockf[k.ino]
    OBVIOUS
  <1>2. PICK T : T = {i \in DOMAIN list : Blocking(list[i], k)}
    OBVIOUS
  <1>3. DOMAIN list \subseteq Nat /\ DOMAIN list = 1..Len(list) /\ Len(list) \in Nat
    BY <1>1 DEF Lists
  <1>4. ASSUME T # {} PROVE FALSE
    <2>1. T \subseteq Nat
      BY <1>2, <1>3
    <2>2. PICK n \in T : \A m \in T : n <= m
      BY <1>4, <2>1, Least
    <2>3. n \in DOMAIN list /\ Blocking(list[n], k)
      BY <1>2
    <2>4. ASSUME NEW j \in 1..(n - 1), Blocking(list[j], k) PROVE FALSE
      <3>1. j \in DOMAIN list /\ j < n
        BY <1>3, <2>3
      <3>2. j \in T
        BY <1>2, <2>4, <3>1
      <3> QED
        BY <1>3, <2>2, <2>3, <3>1, <3>2
    <2>5. n \in lf_getblock(k)
      BY <1>1, <2>3, <2>4 DEF lf_getblock
    <2> QED
      BY <2>5
  <1> QED
    BY <1>1, <1>2, <1>4 DEF Locks

LEMMA FreeToGrant ==
    ASSUME Base, NEW p \in Procs, NEW k, IsReq(p, k), k \in LockRecs, lf_getblock(k) = {},
           NEW S, S = {b \in 0..MaxByte : Covers(k, b)}
    PROVE  Advisory!Compatible(k.id, k.ino, S, k.type)
  <1>1. k.ino \in Inodes /\ i_lockf[k.ino] \in Lists
    BY ReqTyped
  <1>2. ASSUME NEW other \in Ids \ {k.id}, NEW b \in S, NEW t \in Held[other][k.ino][b]
        PROVE  k.type # "F_WRLCK" /\ t # "F_WRLCK"
    <2>1. t \in Mode(i_lockf[k.ino], other)[b] /\ b \in 0..MaxByte /\ Covers(k, b)
      BY <1>1, <1>2, HeldAt
    <2>2. PICK x \in Locks(i_lockf[k.ino]) : x.id = other /\ Covers(x, b) /\ x.type = t
      BY <2>1, ModeHas DEF Has
    <2>3. x \in LockRecs
      BY <1>1 DEF Lists, Locks
    <2>4. ~Disjoint(x, k)
      BY <2>1, <2>2, <2>3 DEF Disjoint, Covers, LockRecs
    <2>5. ~Blocking(x, k)
      BY <1>1, NoBlock
    <2> QED
      BY <2>2, <2>4, <2>5 DEF Blocking
  <1> QED
    BY <1>2 DEF Advisory!Compatible

(* The steps of RangeLock, as they read here.                              *)
Regions == {Region(r) : r \in Ranges \cup {WholeFile}}

LEMMA MapsToRelease ==
    ASSUME NEW id \in Ids, NEW ino \in Inodes, NEW S \in Regions,
           Retyped(id, ino, S, {})
    PROVE  Advisory!Next
  <1>1. Advisory!Release(id, ino, S)
    BY DEF Retyped, Advisory!Release, Advisory!SetTo
  <1> QED
    BY <1>1, Zenon DEF Advisory!Next, Regions

LEMMA MapsToGrant ==
    ASSUME NEW id \in Ids, NEW ino \in Inodes, NEW S \in Regions, NEW type \in {"F_RDLCK", "F_WRLCK"},
           Advisory!Compatible(id, ino, S, type), Retyped(id, ino, S, {type})
    PROVE  Advisory!Next
  <1>1. Advisory!Grant(id, ino, S, type)
    BY DEF Retyped, Advisory!Grant, Advisory!SetTo
  <1> QED
    BY <1>1, Zenon DEF Advisory!Next, Regions

LEMMA MapsToClose ==
    ASSUME NEW id \in Ids, NEW other \in Ids, NEW ino \in Inodes,
           NEW empty, empty = [b \in 0..MaxByte |-> {}],
           Held' = [Held EXCEPT ![id][ino] = empty, ![other][ino] = empty]
    PROVE  Advisory!Next
  <1>1. Advisory!Unheld[id][ino] = empty /\ Advisory!Unheld[other][ino] = empty
    BY DEF Advisory!Unheld
  <1>2. Advisory!Close(id, other, ino)
    BY <1>1 DEF Advisory!Close
  <1>3. Region(WholeFile) \in Regions
    BY DEF Regions
  <1>4. PICK S \in Regions : TRUE
    BY <1>3
  <1> QED
    BY <1>2, <1>4, Zenon DEF Advisory!Next, Regions

(* What a close leaves of the modes.                                       *)
Blank == [b \in 0..MaxByte |-> {}]

LEMMA WholeRewrites ==
    ASSUME NEW list \in Lists, Sorted(list), NEW k \in Asked, k.start = 0, k.end = EOF,
           NEW c, NEW r, r = MaybeClear(list, k, c), NEW id
    PROVE  /\ c /\ id = k.id => Mode(r.list, id) = Blank
           /\ ~(c /\ id = k.id) => Mode(r.list, id) = Mode(list, id)
  <1>1. CASE ~c
    <2>1. r.list = list
      BY <1>1 DEF MaybeClear
    <2> QED
      BY <1>1, <2>1
  <1>2. CASE c
    <2>1. r = lf_clearlock(list, k)
      BY <1>2 DEF MaybeClear
    <2>2. Rewrites(list, r.list, k, {})
      BY <2>1, ClearRewrites
    <2>3. Mode(r.list, id) =
            [b \in 0..MaxByte |-> IF id # k.id \/ ~Covers(k, b) THEN Mode(list, id)[b] ELSE {}]
      BY <2>2 DEF Rewrites
    <2>4. \A b \in 0..MaxByte : Covers(k, b)
      BY DEF Covers
    <2>5. Mode(list, id) = [b \in 0..MaxByte |-> Mode(list, id)[b]]
      BY DEF Mode
    <2>6. CASE id = k.id
      BY <1>2, <2>3, <2>4, <2>6 DEF Blank
    <2>7. CASE id # k.id
      BY <2>3, <2>5, <2>7
    <2> QED
      BY <2>6, <2>7
  <1> QED
    BY <1>1, <1>2

LEMMA CloseMaps ==
    ASSUME Base, NEW p \in Procs, NEW f \in Files, NEW r, NEW s, Closing(p, f, r, s)
    PROVE  [Advisory!Next]_Held
  <1>1. PICK ino, list, kp, kf : /\ ino = InodeOf[f] /\ list = i_lockf[ino]
                                 /\ kp = OfProc(p, f) /\ kf = OfFile(f)
    OBVIOUS
  <1>2. /\ kp \in Asked /\ kp.id = p /\ kp.start = 0 /\ kp.end = EOF
        /\ kf \in Asked /\ kf.id = f /\ kf.start = 0 /\ kf.end = EOF /\ ino \in Inodes
    BY <1>1, CloseTyped
  <1>3. /\ list \in Lists /\ Sorted(list) /\ r.list \in Lists /\ Sorted(r.list)
        /\ \E c : r = MaybeClear(list, kp, c)
        /\ \E d : s = MaybeClear(r.list, kf, d)
    BY <1>1, ClosingLists
  <1>4. PICK c, d : r = MaybeClear(list, kp, c) /\ s = MaybeClear(r.list, kf, d)
    BY <1>3
  <1>5. PICK empty : empty = [b \in 0..MaxByte |-> {}]
    OBVIOUS
  <1>6. \A id : /\ Mode(r.list, id) = IF c /\ id = p THEN empty ELSE Mode(list, id)
                /\ Mode(s.list, id) = IF d /\ id = f THEN empty ELSE Mode(r.list, id)
    <2>1. \A id : /\ c /\ id = kp.id => Mode(r.list, id) = Blank
                  /\ ~(c /\ id = kp.id) => Mode(r.list, id) = Mode(list, id)
      BY <1>2, <1>3, <1>4, WholeRewrites
    <2>2. \A id : /\ d /\ id = kf.id => Mode(s.list, id) = Blank
                  /\ ~(d /\ id = kf.id) => Mode(s.list, id) = Mode(r.list, id)
      BY <1>2, <1>3, <1>4, WholeRewrites
    <2> QED
      BY <1>2, <1>5, <2>1, <2>2 DEF Blank
  <1>7. i_lockf \in [Inodes -> Lists]
    BY DEF Base, TypeOK
  <1>8. i_lockf'[ino] = s.list /\ \A j \in Inodes \ {ino} : i_lockf'[j] = i_lockf[j]
    BY <1>1, <1>2, <1>7 DEF Closing, Update
  <1>9. p \in Ids /\ f \in Ids
    BY DEF Ids
  <1>10. ASSUME NEW id \in Ids, NEW j \in Inodes
         PROVE  Held'[id][j] = IF j = ino /\ ((c /\ id = p) \/ (d /\ id = f)) THEN empty ELSE Held[id][j]
    <2>1. Held'[id][j] = Mode(i_lockf'[j], id) /\ Held[id][j] = Mode(i_lockf[j], id)
      BY HeldAt, HeldAtNext
    <2>2. CASE j # ino
      BY <1>8, <2>1, <2>2
    <2>3. CASE j = ino
      BY <1>1, <1>6, <1>8, <2>1, <2>3
    <2> QED
      BY <2>2, <2>3
  <1>11. ASSUME NEW a \in Ids, NEW e \in Ids,
                \A id \in Ids, j \in Inodes :
                    Held'[id][j] = IF j = ino /\ id \in {a, e} THEN empty ELSE Held[id][j]
         PROVE  Advisory!Next
    <2>1. PICK g : g = [Held EXCEPT ![a][ino] = empty, ![e][ino] = empty]
      OBVIOUS
    <2>2. PICK h : h = [Held EXCEPT ![a][ino] = empty]
      OBVIOUS
    <2>3. /\ h = [id \in Ids |-> [j \in Inodes |-> h[id][j]]]
          /\ \A id \in Ids, j \in Inodes : h[id][j] = IF j = ino /\ id = a THEN empty ELSE Held[id][j]
      BY <1>2, <2>2, HeldAt
    <2>4. g = [h EXCEPT ![e][ino] = empty]
      BY <2>1, <2>2
    <2>5. /\ g = [id \in Ids |-> [j \in Inodes |-> g[id][j]]]
          /\ \A id \in Ids, j \in Inodes : g[id][j] = IF j = ino /\ id = e THEN empty ELSE h[id][j]
      BY <1>2, <2>3, <2>4, ZenonT(30)
    <2>6. \A id \in Ids, j \in Inodes : Held'[id][j] = g[id][j]
      BY <1>11, <2>3, <2>5
    <2>7. Held' = g
      BY <2>5, <2>6, HeldAtNext
    <2> QED
      BY <1>2, <1>5, <2>1, <2>7, MapsToClose
  <1>12. CASE c /\ d
    BY <1>9, <1>10, <1>11, <1>12
  <1>13. CASE c /\ ~d
    BY <1>9, <1>10, <1>11, <1>13
  <1>14. CASE ~c /\ d
    BY <1>9, <1>10, <1>11, <1>14
  <1>15. CASE ~c /\ ~d
    <2>1. \A id \in Ids, j \in Inodes : Held'[id][j] = Held[id][j]
      BY <1>10, <1>15
    <2>2. Held' = Held
      BY <2>1, HeldAt, HeldAtNext
    <2> QED
      BY <2>2
  <1> QED
    BY <1>12, <1>13, <1>14, <1>15

(* lf_clearlock, on the list as it is or with one sleeper more.            *)
LEMMA ClearMaps ==
    ASSUME Base, NEW p \in Procs, NEW k, NEW list \in Lists, Sorted(list), NEW ino, ino = k.ino, IsReq(p, k),
           \A id : Mode(list, id) = Mode(i_lockf[ino], id),
           Replaced(ino, lf_clearlock(list, k).list)
    PROVE  Advisory!Next
  <1>1. PICK r : r = lf_clearlock(list, k)
    OBVIOUS
  <1>2. k \in Asked /\ ino \in Inodes /\ k.id \in Ids
    BY ReqTyped DEF Asked
  <1>3. PICK S, id, m : S = {b \in 0..MaxByte : Covers(k, b)} /\ id = k.id /\ m = {}
    OBVIOUS
  <1>4. S \in Regions
    BY <1>3, ReqRegion DEF Regions
  <1>5. Rewrites(list, r.list, k, m)
    BY <1>1, <1>2, <1>3, ClearRewrites
  <1>6. Rewrites(i_lockf[ino], r.list, k, m)
    BY <1>5 DEF Rewrites
  <1>7. Retyped(k.id, ino, S, m)
    <2>1. Replaced(ino, r.list)
      BY <1>1
    <2> QED
      BY <1>2, <1>3, <1>6, <2>1, RewritesHeld
  <1> QED
    BY <1>2, <1>3, <1>4, <1>7, MapsToRelease

LEMMA StepMaps ==
    ASSUME Base, NoneSplits, NoneSplits', [Next]_vars
    PROVE  [Advisory!Next]_Held
  <1>1. CASE UNCHANGED vars
    BY <1>1 DEF vars, Held
  <1>2. CASE Next
    <2>1. PICK p \in Procs :
              \/ \E k : \/ Placing(p, k) \/ Deferring(p, k) \/ Failing(p, k)
                        \/ \E i : Sleeping(p, k, i)
                        \/ Clearing(p, k) \/ \E i : Waking(p, k, i) \/ Cutting(p, k, i)
              \/ signal(p) \/ interrupted(p)
              \/ \E f \in Files : closef(p, f) \/ open(p, f)
      BY <1>2, StepCases
    <2>2. pc \in [Procs -> PCs] /\ i_lockf \in [Inodes -> Lists]
      BY DEF Base, TypeOK
    <2>3. ASSUME NEW k, IsReq(p, k)
          PROVE  /\ k \in Asked /\ k.sleepers = {} /\ k.ino \in Inodes /\ k.id \in Ids
                 /\ i_lockf[k.ino] \in Lists /\ Sorted(i_lockf[k.ino])
                 /\ {b \in 0..MaxByte : Covers(k, b)} \in Regions
      <3>1. k \in Asked /\ k.ino \in Inodes /\ i_lockf[k.ino] \in Lists /\ Sorted(i_lockf[k.ino])
        BY <2>3, ReqTyped
      <3>2. k.sleepers = {} /\ k.id \in Ids
        BY <2>3, <3>1 DEF IsReq, Asked
      <3> QED
        BY <2>3, <3>1, <3>2, ReqRegion DEF Regions
    <2>4. ASSUME i_lockf' = i_lockf PROVE Held' = Held
      BY <2>4 DEF Held
    <2>5. ASSUME NEW k, Placing(p, k) PROVE Advisory!Next
      <3>1. PICK ino, list, r : ino = k.ino /\ list = i_lockf[ino] /\ r = lf_setlock(list, k)
        OBVIOUS
      <3>2. /\ IsReq(p, k) /\ k \in LockRecs /\ lf_getblock(k) = {}
            /\ Replaced(ino, r.list)
        BY <2>5, <3>1 DEF Placing, Asks, Update, NoneSplits, Replaced
      <3>3. /\ k.sleepers = {} /\ ino \in Inodes /\ k.id \in Ids /\ list \in Lists /\ Sorted(list)
            /\ {b \in 0..MaxByte : Covers(k, b)} \in Regions
        BY <2>3, <3>1, <3>2
      <3>4. PICK S, id, type : /\ S = {b \in 0..MaxByte : Covers(k, b)}
                               /\ id = k.id /\ type = k.type
        OBVIOUS
      <3>5. Rewrites(list, r.list, k, {type})
        BY <3>1, <3>2, <3>3, <3>4, SetRewrites
      <3>6. Retyped(id, ino, S, {type})
        BY <3>1, <3>2, <3>3, <3>4, <3>5, RewritesHeld
      <3>7. Advisory!Compatible(id, ino, S, type)
        BY <3>1, <3>2, <3>4, FreeToGrant
      <3>8. id \in Ids /\ S \in Regions /\ type \in {"F_RDLCK", "F_WRLCK"}
        BY <3>2, <3>3, <3>4 DEF LockRecs
      <3> QED
        BY <3>3, <3>6, <3>7, <3>8, MapsToGrant
    <2>6. ASSUME NEW k, NEW i, Deferring(p, k) \/ Waking(p, k, i) \/ Cutting(p, k, i) PROVE FALSE
      BY <2>2, <2>6 DEF Deferring, Waking, Cutting, Stay, Update, NoneSplits
    <2>7. ASSUME NEW k, Failing(p, k) PROVE Held' = Held
      BY <2>4, <2>7 DEF Failing, Stay
    <2>9. ASSUME NEW k, NEW i, Sleeping(p, k, i) PROVE [Advisory!Next]_Held
      <3>1. PICK ino, list, queue : ino = k.ino /\ list = i_lockf[ino] /\ queue = Queue(list, i, p)
        OBVIOUS
      <3>2. /\ IsReq(p, k) /\ k \in LockRecs /\ i \in lf_getblock(k)
            /\ Replaced(ino, SleepList(p, k, i).list)
        BY <2>9, <3>1 DEF Sleeping, Asks, Update, Replaced
      <3>3. ino \in Inodes /\ list \in Lists /\ Sorted(list) /\ i \in DOMAIN list
        BY <2>3, <3>1, <3>2 DEF lf_getblock
      <3>4. Resleep(list, queue) /\ queue \in Lists
        BY <3>1, <3>3, QueueOK
      <3>5. \A id : Mode(queue, id) = Mode(list, id)
        BY <3>3, <3>4, ResleepMode
      <3>6. CASE k.id \in Files /\ k.type = "F_WRLCK"
        <4>1. SleepList(p, k, i) = lf_clearlock(queue, k)
          BY <3>1, <3>6 DEF SleepList
        <4>2. Sorted(queue)
          <5>1. \A x \in Locks(list) : x.ino = ino
            BY <3>1, <3>2, ReqTyped
          <5>2. \A id : Changed(list, queue, id, ino)
            BY <3>3, <3>4, <5>1, ResleepChanged
          <5> QED
            BY <5>2 DEF Changed
        <4> QED
          BY <3>1, <3>2, <3>4, <3>5, <4>1, <4>2, ClearMaps
      <3>7. CASE ~(k.id \in Files /\ k.type = "F_WRLCK")
        <4>1. SleepList(p, k, i) = [list |-> queue, woken |-> {}, taken |-> {}]
          BY <3>1, <3>7 DEF SleepList
        <4>2. i_lockf' = [i_lockf EXCEPT ![ino] = queue]
          BY <3>2, <4>1 DEF Replaced
        <4>3. \A j \in Inodes, id \in Ids : Mode(i_lockf'[j], id) = Mode(i_lockf[j], id)
          BY <2>2, <3>1, <3>5, <4>2
        <4> QED
          BY <4>3, HeldSame
      <3> QED
        BY <3>6, <3>7
    <2>10. ASSUME NEW k, Clearing(p, k) PROVE Advisory!Next
      <3>1. PICK ino, list : ino = k.ino /\ list = i_lockf[ino]
        OBVIOUS
      <3>2. IsReq(p, k) /\ Replaced(ino, lf_clearlock(list, k).list)
        BY <2>10, <3>1 DEF Clearing, Frees, Update, Replaced
      <3>3. list \in Lists /\ Sorted(list)
        BY <2>3, <3>1, <3>2
      <3> QED
        BY <3>1, <3>2, <3>3, ClearMaps
    <2>11. CASE signal(p)
      BY <2>4, <2>11 DEF signal, Stay
    <2>12. CASE interrupted(p)
      <3>1. i_lockf' = Unlinked(p) \/ i_lockf' = i_lockf
        BY <2>12 DEF interrupted
      <3>2. \A ino \in Inodes : i_lockf[ino] \in Lists /\ Resleep(i_lockf[ino], i_lockf'[ino])
        BY <2>2, <3>1, SameLists, UnlinkedOK
      <3>3. \A ino \in Inodes, id \in Ids : Mode(i_lockf'[ino], id) = Mode(i_lockf[ino], id)
        BY <3>2, ResleepMode
      <3> QED
        BY <3>3, HeldSame
    <2>13. ASSUME NEW f \in Files, closef(p, f) PROVE [Advisory!Next]_Held
      <3>1. PICK r, s : Closing(p, f, r, s)
        BY <2>13, CloseStep
      <3> QED
        BY <3>1, CloseMaps
    <2>14. ASSUME NEW f \in Files, open(p, f) PROVE Held' = Held
      BY <2>4, <2>14 DEF open
    <2> QED
      BY <2>1, <2>5, <2>6, <2>7, <2>9, <2>10, <2>11, <2>12, <2>13, <2>14
  <1> QED
    BY <1>1, <1>2

LEMMA InitMaps ==
    ASSUME Init
    PROVE  Advisory!Init
  <1>1. \A ino \in Inodes : i_lockf[ino] = <<>> /\ Locks(i_lockf[ino]) = {}
    BY FewLocks DEF Init
  <1>2. \A id \in Ids, ino \in Inodes : Held[id][ino] = [b \in 0..MaxByte |-> {}]
    <2>1. ASSUME NEW id \in Ids, NEW ino \in Inodes PROVE Mode(i_lockf[ino], id) = [b \in 0..MaxByte |-> {}]
      BY <1>1 DEF Mode
    <2>2. \A id \in Ids, ino \in Inodes : Held[id][ino] = Mode(i_lockf[ino], id)
      BY HeldAt
    <2> QED
      BY <2>1, <2>2, ZenonT(30)
  <1>3. Held = [id \in Ids |-> [ino \in Inodes |-> [b \in 0..MaxByte |-> {}]]]
    BY <1>2, HeldAt
  <1> QED
    BY <1>3 DEF Advisory!Init, Advisory!Unheld

(* Where MALLOC does not sleep, the lists of locks implement RangeLock,    *)
(* for all ranges and any number of processes, files and inodes: each pass *)
(* of lf_setlock is the grant of exactly the bytes it names, when nobody   *)
(* is in the way, each pass of lf_clearlock their release, and a close     *)
(* ends what the process and, the last time, the file have.                *)
THEOREM AdvisoryLocks == ~MallocSleeps /\ Spec => AdvisorySpec
  <1>1. Init => Advisory!Init
    BY InitMaps
  <1>2. Base /\ NoneSplits /\ NoneSplits' /\ [Next]_vars => [Advisory!Next]_Held
    BY StepMaps
  <1> QED
    BY <1>1, <1>2, AlwaysBase, AlwaysAwake, PTL DEF Spec, AdvisorySpec, Advisory!Spec

LEMMA ExclusiveStep ==
    ASSUME WriteExclusive, [Advisory!Next]_Held
    PROVE  WriteExclusive'
  <1>1. /\ Held = [id \in Ids |-> [ino \in Inodes |-> Held[id][ino]]]
        /\ \A id, other \in Ids, ino \in Inodes, b \in 0..MaxByte :
              id # other /\ "F_WRLCK" \in Held[id][ino][b] => Held[other][ino][b] = {}
    BY HeldAt DEF WriteExclusive, Advisory!Exclusive
  <1>2. ASSUME \A id, other \in Ids, ino \in Inodes, b \in 0..MaxByte :
                   id # other /\ "F_WRLCK" \in Held'[id][ino][b] => Held'[other][ino][b] = {}
        PROVE  WriteExclusive'
    BY <1>2 DEF WriteExclusive, Advisory!Exclusive
  <1>3. CASE Held' = Held
    BY <1>1, <1>2, <1>3
  <1>4. ASSUME NEW id \in Ids, NEW ino \in Inodes, NEW S, NEW m, Advisory!SetTo(id, ino, S, m),
               \A other \in Ids \ {id}, b \in S \cap 0..MaxByte :
                   /\ "F_WRLCK" \in m => Held[other][ino][b] = {}
                   /\ m # {} => "F_WRLCK" \notin Held[other][ino][b]
        PROVE  WriteExclusive'
    <2>1. PICK f : f = [b \in 0..MaxByte |-> IF b \in S THEN m ELSE Held[id][ino][b]]
      OBVIOUS
    <2>2. Held' = [Held EXCEPT ![id][ino] = f]
      BY <1>4, <2>1 DEF Advisory!SetTo
    <2>3. /\ Held'[id][ino] = f
          /\ \A x \in Ids, j \in Inodes : x # id \/ j # ino => Held'[x][j] = Held[x][j]
      BY <1>1, <2>2
    <2>4. \A b \in 0..MaxByte : f[b] = IF b \in S THEN m ELSE Held[id][ino][b]
      BY <2>1
    <2>5. ASSUME NEW x \in Ids, NEW y \in Ids, NEW j \in Inodes, NEW b \in 0..MaxByte, x # y,
                 "F_WRLCK" \in Held'[x][j][b]
          PROVE  Held'[y][j][b] = {}
      <3>1. CASE j # ino
        BY <1>1, <2>3, <2>5, <3>1
      <3>2. CASE j = ino /\ x = id
        BY <1>1, <1>4, <2>3, <2>4, <2>5, <3>2
      <3>3. CASE j = ino /\ y = id
        BY <1>1, <1>4, <2>3, <2>4, <2>5, <3>3
      <3>4. CASE j = ino /\ x # id /\ y # id
        BY <1>1, <2>3, <2>5, <3>4
      <3> QED
        BY <3>1, <3>2, <3>3, <3>4
    <2> QED
      BY <1>2, <2>5
  <1>5. ASSUME NEW id \in Ids, NEW ino \in Inodes, NEW S, Advisory!Release(id, ino, S)
        PROVE  WriteExclusive'
    BY <1>4, <1>5 DEF Advisory!Release
  <1>6. ASSUME NEW id \in Ids, NEW ino \in Inodes, NEW S, NEW type, Advisory!Grant(id, ino, S, type)
        PROVE  WriteExclusive'
    <2>1. Advisory!SetTo(id, ino, S, {type}) /\ Advisory!Compatible(id, ino, S, type)
      BY <1>6 DEF Advisory!Grant
    <2>2. \A other \in Ids \ {id}, b \in S \cap 0..MaxByte :
              /\ "F_WRLCK" \in {type} => Held[other][ino][b] = {}
              /\ {type} # {} => "F_WRLCK" \notin Held[other][ino][b]
      BY <2>1 DEF Advisory!Compatible
    <2> QED
      BY <1>4, <2>1, <2>2
  <1>7. ASSUME NEW id \in Ids, NEW other \in Ids, NEW ino \in Inodes, Advisory!Close(id, other, ino)
        PROVE  WriteExclusive'
    <2>1. Held' = [Held EXCEPT ![id][ino] = Blank, ![other][ino] = Blank]
      <3>1. Advisory!Unheld[id][ino] = Blank /\ Advisory!Unheld[other][ino] = Blank
        BY DEF Advisory!Unheld, Blank
      <3> QED
        BY <1>7, <3>1 DEF Advisory!Close
    <2>2. PICK h : h = [Held EXCEPT ![id][ino] = Blank]
      OBVIOUS
    <2>3. /\ h = [x \in Ids |-> [j \in Inodes |-> h[x][j]]]
          /\ \A x \in Ids, j \in Inodes : h[x][j] \in {Held[x][j], Blank}
      BY <1>1, <2>2
    <2>4. Held' = [h EXCEPT ![other][ino] = Blank]
      BY <2>1, <2>2
    <2>5. \A x \in Ids, j \in Inodes : Held'[x][j] \in {h[x][j], Blank}
      BY <2>3, <2>4
    <2>6. \A x \in Ids, j \in Inodes : Held'[x][j] = Held[x][j] \/ Held'[x][j] = Blank
      BY <2>3, <2>5
    <2>7. \A b \in 0..MaxByte : Blank[b] = {}
      BY DEF Blank
    <2>8. ASSUME NEW x \in Ids, NEW y \in Ids, NEW j \in Inodes, NEW b \in 0..MaxByte, x # y,
                 "F_WRLCK" \in Held'[x][j][b]
          PROVE  Held'[y][j][b] = {}
      <3>1. "F_WRLCK" \in Held[x][j][b]
        BY <2>6, <2>7, <2>8
      <3>2. Held[y][j][b] = {}
        BY <1>1, <2>8, <3>1
      <3> QED
        BY <2>6, <2>7, <3>2
    <2> QED
      BY <1>2, <2>8
  <1>8. CASE Advisory!Next
    <2>1. PICK id \in Ids, ino \in Inodes, S \in Regions :
              \/ Advisory!Release(id, ino, S)
              \/ \E other \in Ids : Advisory!Close(id, other, ino)
              \/ \E type \in {"F_RDLCK", "F_WRLCK"} : Advisory!Grant(id, ino, S, type)
      BY <1>8, Zenon DEF Advisory!Next, Regions
    <2> QED
      BY <1>5, <1>6, <1>7, <2>1
  <1> QED
    BY <1>3, <1>8

(* Where MALLOC does not sleep, a byte that is locked for writing is       *)
(* locked by nobody else: what fcntl(2) says of a write lock, for all      *)
(* ranges and any number of owners.                                        *)
THEOREM WritersAlone == ~MallocSleeps /\ Spec => []WriteExclusive
  <1>1. Init => WriteExclusive
    <2>1. ASSUME Init PROVE WriteExclusive
      <3>1. Held = Advisory!Unheld
        BY <2>1, InitMaps DEF Advisory!Init
      <3>2. \A id \in Ids, ino \in Inodes, b \in 0..MaxByte : Held[id][ino][b] = {}
        BY <3>1 DEF Advisory!Unheld
      <3> QED
        BY <3>2 DEF WriteExclusive, Advisory!Exclusive
    <2> QED
      BY <2>1
  <1>2. Base /\ NoneSplits /\ NoneSplits' /\ [Next]_vars => [Advisory!Next]_Held
    BY StepMaps
  <1>3. WriteExclusive /\ [Advisory!Next]_Held => WriteExclusive'
    BY ExclusiveStep
  <1> QED
    BY <1>1, <1>2, <1>3, AlwaysBase, AlwaysAwake, PTL DEF Spec

-----------------------------------------------------------------------------
(* Files that are locked record by record: no range cuts another.  No lock *)
(* is split or swallowed then, and everybody who sleeps is on one list.    *)

RecordRanges == \A r, s \in Ranges :
    \/ r[1] = s[1] /\ r[2] = s[2]
    \/ r[2] # EOF /\ r[2] < s[1]
    \/ s[2] # EOF /\ s[2] < r[1]

OneRecord(x) == \/ x.id \in Procs /\ \E r \in Ranges : x.start = r[1] /\ x.end = r[2]
                \/ Flock /\ x.id \in Files /\ x.start = 0 /\ x.end = EOF

LEMMA RecordExact ==
    ASSUME RecordRanges, NEW p \in Procs, NEW k, IsReq(p, k), NEW list \in Lists,
           \A x \in Locks(list) : OneRecord(x)
    PROVE  Exact(list, k) /\ Whole(list, k)
  <1>1. ASSUME NEW x \in Locks(list), x.id = k.id PROVE ovcase(x, k) \in {0, 1}
    <2>1. x \in LockRecs /\ k \in Asked /\ OneRecord(x)
      BY DEF IsReq, Lists, Locks
    <2>2. CASE k.id = p /\ \E s \in Ranges : k.start = s[1] /\ k.end = s[2]
      <3>1. PICK s \in Ranges : k.start = s[1] /\ k.end = s[2]
        BY <2>2
      <3>2. PICK r \in Ranges : x.start = r[1] /\ x.end = r[2]
        BY <1>1, <2>1, <2>2, LockfAssumption DEF OneRecord
      <3>3. \/ x.start = k.start /\ x.end = k.end
            \/ Precedes(x, k) \/ Precedes(k, x)
        BY <3>1, <3>2 DEF RecordRanges, Precedes
      <3> QED
        BY <2>1, <3>3, DisjointOK
    <2>3. CASE k.id \in Files /\ k.start = 0 /\ k.end = EOF
      <3>1. x.start = k.start /\ x.end = k.end
        BY <1>1, <2>1, <2>3, LockfAssumption DEF OneRecord
      <3> QED
        BY <2>1, <3>1, DisjointOK
    <2> QED
      BY <2>2, <2>3 DEF IsReq
  <1> QED
    BY <1>1 DEF Exact, Whole

LEMMA WholeFileWhole ==
    ASSUME NEW list \in Lists, NEW k \in Asked, k.start = 0, k.end = EOF
    PROVE  Whole(list, k)
  <1>1. ASSUME NEW x \in Locks(list) PROVE ovcase(x, k) \in {0, 1, 3}
    <2>1. x \in LockRecs
      BY DEF Lists, Locks
    <2> QED
      BY <2>1 DEF ovcase, Disjoint, LockRecs, EOF
  <1> QED
    BY <1>1 DEF Whole

(* A list changes without a sleeper who is on two lists, or is woken and   *)
(* on a list.  The processes P are new on it.                              *)
Moves(list, new, woken, P) ==
    /\ \A x \in Locks(new) : OneRecord(x)
    /\ \A x \in Locks(new) : \A q \in x.sleepers :
          q \notin woken /\ (q \in P \/ \E y \in Locks(list) : q \in y.sleepers)
    /\ \A q \in woken : q \in P \/ \E y \in Locks(list) : q \in y.sleepers
    /\ OneEach(Locks(new))

LEMMA SameBounds ==
    ASSUME NEW list \in Lists, Sorted(list), NEW x \in Locks(list), NEW y \in Locks(list),
           x.id = y.id, x.start = y.start, x.end = y.end
    PROVE  x = y
  <1>1. x \in LockRecs /\ y \in LockRecs
    BY DEF Lists, Locks
  <1>2. PICK b \in Nat : b = x.start
    BY <1>1 DEF LockRecs
  <1>3. Covers(x, b) /\ Covers(y, b)
    BY <1>1, <1>2 DEF Covers, LockRecs
  <1> QED
    BY <1>3, SortedUnique

LEMMA SortedPlace ==
    ASSUME NEW list \in Lists, Sorted(list), NEW i \in DOMAIN list, NEW j \in DOMAIN list,
           list[i] = list[j]
    PROVE  i = j
  <1>1. i \in Nat /\ j \in Nat /\ list[i] \in LockRecs
    BY DEF Lists
  <1>2. ~Precedes(list[i], list[j]) /\ ~Precedes(list[j], list[i])
    BY <1>1 DEF Precedes, LockRecs
  <1> QED
    BY <1>1, <1>2 DEF Sorted

LEMMA SetMoves ==
    ASSUME NEW list \in Lists, Sorted(list), NEW k \in LockRecs, k.sleepers = {}, OneRecord(k),
           \A x \in Locks(list) : OneRecord(x), OneEach(Locks(list)), Exact(list, k),
           NEW r, r = lf_setlock(list, k)
    PROVE  Moves(list, r.list, r.woken, {}) /\ r.taken = {}
  <1>1. r.list \in Lists /\ Sorted(r.list) /\ \E out : SetOutcome(list, k, r, out)
    BY SetResult
  <1>2. PICK out : SetOutcome(list, k, r, out)
    BY <1>1
  <1>3. /\ r.taken = {} /\ Apart(out, r.woken)
        /\ \A x \in out : \E y \in Locks(list) : SameRange(x, y)
    BY <1>2 DEF SetOutcome
  <1>4. Sources(list, Len(list), k, out, r.taken, r.woken) /\ Seen(list, Len(list)) = Locks(list)
    BY <1>2, SeenRest DEF SetOutcome, Account
  <1>5. \A x \in Locks(r.list) : x \in out \/ (SameLock(x, k) /\ x.sleepers = {})
    BY <1>2, <1>3 DEF SetOutcome
  <1>6. ASSUME NEW x \in Locks(r.list) PROVE OneRecord(x)
    <2>1. CASE x \in out
      <3>1. PICK y \in Locks(list) : SameRange(x, y)
        BY <1>3, <2>1
      <3> QED
        BY <3>1 DEF SameRange, OneRecord
    <2>2. CASE SameLock(x, k)
      BY <2>2 DEF SameLock, OneRecord
    <2> QED
      BY <1>5, <2>1, <2>2
  <1>7. ASSUME NEW x \in Locks(r.list), NEW q \in x.sleepers
        PROVE  x \in out /\ q \notin r.woken /\ \E y \in Locks(list) : SameRange(x, y) /\ q \in y.sleepers
    BY <1>3, <1>5, <1>7 DEF Apart, SameRange
  <1>8. OneEach(Locks(r.list))
    <2>1. ASSUME NEW x \in Locks(r.list), NEW y \in Locks(r.list), NEW q, q \in x.sleepers, q \in y.sleepers
          PROVE  x = y
      <3>1. PICK v \in Locks(list) : SameRange(x, v) /\ q \in v.sleepers
        BY <1>7, <2>1
      <3>2. PICK w \in Locks(list) : SameRange(y, w) /\ q \in w.sleepers
        BY <1>7, <2>1
      <3>3. v = w
        BY <3>1, <3>2 DEF OneEach
      <3>4. x.id = y.id /\ x.start = y.start /\ x.end = y.end
        BY <3>1, <3>2, <3>3 DEF SameRange
      <3> QED
        BY <1>1, <3>4, SameBounds
    <2> QED
      BY <2>1 DEF OneEach
  <1>9. \A q \in r.woken : \E y \in Locks(list) : q \in y.sleepers
    BY <1>4 DEF Sources
  <1> QED
    BY <1>3, <1>6, <1>7, <1>8, <1>9 DEF Moves

LEMMA ClearMoves ==
    ASSUME NEW list \in Lists, Sorted(list), NEW k \in Asked, \A x \in Locks(list) : OneRecord(x),
           OneEach(Locks(list)), Whole(list, k), NEW c, NEW r, r = MaybeClear(list, k, c)
    PROVE  Moves(list, r.list, r.woken, {})
  <1>1. Locks(r.list) \subseteq Locks(list)
    BY MaybeClearOK
  <1>2. Apart(Locks(r.list), r.woken)
    BY MaybeClearOK
  <1>3. Account(list, Len(list), k, Locks(r.list), {}, r.woken)
    BY MaybeClearOK
  <1>4. \A q \in r.woken : \E y \in Locks(list) : q \in y.sleepers
    BY <1>3, SeenRest DEF Account, Sources
  <1> QED
    BY <1>1, <1>2, <1>4 DEF Moves, Apart, OneEach

LEMMA MovesTwice ==
    ASSUME NEW a, NEW b, NEW c, NEW V, NEW W, NEW P, Moves(a, b, V, P), Moves(b, c, W, {})
    PROVE  Moves(a, c, W \cup V, P)
  <1>1. ASSUME NEW x \in Locks(c), NEW q \in x.sleepers
        PROVE  q \notin W \cup V /\ (q \in P \/ \E y \in Locks(a) : q \in y.sleepers)
    <2>1. q \notin W /\ \E y \in Locks(b) : q \in y.sleepers
      BY <1>1 DEF Moves
    <2> QED
      BY <2>1 DEF Moves
  <1>2. ASSUME NEW q \in W \cup V PROVE q \in P \/ \E y \in Locks(a) : q \in y.sleepers
    <2>1. CASE q \in W
      <3>1. PICK y \in Locks(b) : q \in y.sleepers
        BY <2>1 DEF Moves
      <3> QED
        BY <3>1 DEF Moves
    <2>2. CASE q \in V
      BY <2>2 DEF Moves
    <2> QED
      BY <2>1, <2>2
  <1> QED
    BY <1>1, <1>2 DEF Moves

LEMMA QueueMoves ==
    ASSUME NEW list \in Lists, Sorted(list), NEW i \in DOMAIN list, NEW p \in Procs,
           \A x \in Locks(list) : OneRecord(x) /\ p \notin x.sleepers, OneEach(Locks(list))
    PROVE  Moves(list, Queue(list, i, p), {}, {p})
  <1>1. PICK new : new = Queue(list, i, p)
    OBVIOUS
  <1>2. /\ Resleep(list, new) /\ new[i].sleepers = list[i].sleepers \cup {p}
        /\ \A j \in DOMAIN list : j # i => new[j] = list[j]
    BY <1>1, QueueOK
  <1>3. DOMAIN new = DOMAIN list /\ DOMAIN list = 1..Len(list)
    BY <1>2 DEF Resleep, Lists
  <1>4. \A j \in DOMAIN list : list[j] \in Locks(list) /\ SameLock(new[j], list[j])
    BY <1>2, <1>3 DEF Resleep, Locks
  <1>5. \A j \in DOMAIN list : OneRecord(new[j])
    BY <1>4 DEF SameLock, OneRecord
  <1>6. ASSUME NEW j \in DOMAIN list, NEW q \in new[j].sleepers
        PROVE  (q = p /\ j = i) \/ (q # p /\ q \in list[j].sleepers)
    BY <1>2, <1>4, <1>6
  <1>7. ASSUME NEW x \in Locks(new), NEW y \in Locks(new), NEW q, q \in x.sleepers, q \in y.sleepers
        PROVE  x = y
    <2>1. PICK j, l \in DOMAIN list : x = new[j] /\ y = new[l]
      BY <1>3 DEF Locks
    <2>2. CASE q = p
      BY <1>6, <1>7, <2>1, <2>2
    <2>3. CASE q # p
      <3>1. q \in list[j].sleepers /\ q \in list[l].sleepers
        BY <1>6, <1>7, <2>1, <2>3
      <3>2. list[j] = list[l]
        BY <1>4, <3>1 DEF OneEach
      <3>3. j = l
        BY <3>2, SortedPlace
      <3> QED
        BY <2>1, <3>3
    <2> QED
      BY <2>2, <2>3
  <1>8. \A x \in Locks(new) : \A q \in x.sleepers : q \in {p} \/ \E y \in Locks(list) : q \in y.sleepers
    BY <1>3, <1>4, <1>6 DEF Locks
  <1>9. Moves(list, new, {}, {p})
    BY <1>3, <1>5, <1>7, <1>8 DEF Moves, OneEach, Locks
  <1> QED
    BY <1>1, <1>9

(* Everybody who is on a list waits, and is on no other.                   *)
OneRecords == \A ino \in Inodes : \A x \in Locks(i_lockf[ino]) : OneRecord(x)
OneHost == \A i, j \in Inodes : \A x \in Locks(i_lockf[i]), y \in Locks(i_lockf[j]) :
    \A q : q \in x.sleepers /\ q \in y.sleepers => x = y
Waiting == \A ino \in Inodes : \A x \in Locks(i_lockf[ino]) : \A q \in x.sleepers :
    pc[q] \in {"asleep", "signalled"}
NoneDangles == \A q \in Procs : ~dangling[q]
RecInv == OneRecords /\ OneHost /\ Waiting /\ NoneDangles /\ NoneSplits

LEMMA SleeperProc ==
    ASSUME NEW list \in Lists, NEW x \in Locks(list), NEW q \in x.sleepers
    PROVE  q \in Procs
  <1>1. x \in LockRecs
    BY DEF Lists, Locks
  <1>2. x.sleepers \in SUBSET Procs
    BY <1>1 DEF LockRecs
  <1> QED
    BY <1>2

LEMMA UpdateRec ==
    ASSUME Base, Base', RecInv, NEW p \in Procs, NEW ino \in Inodes, NEW r,
           NEW where \in {"user", "asleep"}, Update(p, ino, r, where),
           pc[p] \in {"user", "woken"}, r.taken = {},
           NEW P \in SUBSET {p}, P # {} => where = "asleep",
           Moves(i_lockf[ino], r.list, r.woken, P)
    PROVE  RecInv'
  <1>1. /\ i_lockf \in [Inodes -> Lists] /\ i_lockf' \in [Inodes -> Lists]
        /\ pc \in [Procs -> PCs] /\ dangling \in [Procs -> BOOLEAN]
        /\ \A i \in Inodes : \A x \in Locks(i_lockf[i]) : x.ino = i
    BY DEF Base, TypeOK
  <1>2. /\ i_lockf'[ino] = r.list /\ \A j \in Inodes \ {ino} : i_lockf'[j] = i_lockf[j]
    BY <1>1 DEF Update
  <1>3. /\ pc'[p] = where
        /\ \A q \in Procs \ {p} : q \notin r.woken => pc'[q] = pc[q]
    BY <1>1 DEF Update
  <1>4. NoneDangles'
    BY <1>1 DEF Update, RecInv, NoneDangles
  <1>5. NoneSplits'
    BY <1>1 DEF Update, RecInv, NoneSplits
  <1>6. OneRecords'
    BY <1>2 DEF Moves, RecInv, OneRecords
  <1>7. \A i \in Inodes : \A x \in Locks(i_lockf[i]) : p \notin x.sleepers
    BY DEF RecInv, Waiting
  <1>8. \A i \in Inodes : \A x \in Locks(i_lockf[i]) : \A q \in x.sleepers : q \in Procs
    BY <1>1, SleeperProc
  <1>9. \A i \in Inodes \ {ino} : \A x \in Locks(i_lockf[i]), y \in Locks(i_lockf[ino]) :
            \A q : ~(q \in x.sleepers /\ q \in y.sleepers)
    BY <1>1 DEF RecInv, OneHost
  <1>10. ASSUME NEW q, q \in P \/ \E y \in Locks(i_lockf[ino]) : q \in y.sleepers,
                NEW i \in Inodes \ {ino}, NEW x \in Locks(i_lockf[i]), q \in x.sleepers
         PROVE  FALSE
    BY <1>7, <1>9, <1>10
  <1>11. Waiting'
    <2>1. ASSUME NEW i \in Inodes, NEW x \in Locks(i_lockf'[i]), NEW q \in x.sleepers
          PROVE  pc'[q] \in {"asleep", "signalled"}
      <3>1. CASE i = ino
        <4>1. q \notin r.woken /\ (q \in P \/ \E y \in Locks(i_lockf[ino]) : q \in y.sleepers)
          BY <1>2, <2>1, <3>1 DEF Moves
        <4>2. CASE q \in P
          BY <1>3, <4>2
        <4>3. CASE \E y \in Locks(i_lockf[ino]) : q \in y.sleepers
          <5>1. q \in Procs /\ q # p /\ pc[q] \in {"asleep", "signalled"}
            BY <1>7, <1>8, <4>3 DEF RecInv, Waiting
          <5> QED
            BY <1>3, <4>1, <5>1
        <4> QED
          BY <4>1, <4>2, <4>3
      <3>2. CASE i # ino
        <4>1. x \in Locks(i_lockf[i]) /\ i \in Inodes \ {ino}
          BY <1>2, <2>1, <3>2
        <4>2. q \in Procs /\ q # p /\ pc[q] \in {"asleep", "signalled"}
          BY <1>7, <1>8, <2>1, <4>1 DEF RecInv, Waiting
        <4>3. q \notin r.woken
          BY <1>10, <2>1, <4>1 DEF Moves
        <4> QED
          BY <1>3, <4>2, <4>3
      <3> QED
        BY <3>1, <3>2
    <2> QED
      BY <2>1 DEF Waiting
  <1>12. OneHost'
    <2>1. ASSUME NEW i \in Inodes, NEW j \in Inodes, NEW x \in Locks(i_lockf'[i]),
                 NEW y \in Locks(i_lockf'[j]), NEW q, q \in x.sleepers, q \in y.sleepers
          PROVE  x = y
      <3>1. ASSUME NEW v \in Locks(r.list), q \in v.sleepers,
                   NEW h \in Inodes \ {ino}, NEW w \in Locks(i_lockf[h]), q \in w.sleepers
            PROVE  FALSE
        <4>1. q \in P \/ \E z \in Locks(i_lockf[ino]) : q \in z.sleepers
          BY <3>1 DEF Moves
        <4> QED
          BY <1>10, <3>1, <4>1
      <3>2. CASE i = ino /\ j = ino
        BY <1>2, <2>1, <3>2 DEF Moves, OneEach
      <3>3. CASE i # ino /\ j # ino
        BY <1>2, <2>1, <3>3 DEF RecInv, OneHost
      <3>4. CASE i = ino /\ j # ino
        BY <1>2, <2>1, <3>1, <3>4
      <3>5. CASE i # ino /\ j = ino
        BY <1>2, <2>1, <3>1, <3>5
      <3> QED
        BY <3>2, <3>3, <3>4, <3>5
    <2> QED
      BY <2>1 DEF OneHost
  <1> QED
    BY <1>4, <1>5, <1>6, <1>11, <1>12 DEF RecInv

(* A process that goes to sleep, on a list of which it was not.            *)
LEMMA SleepMoves ==
    ASSUME RecordRanges, Base, RecInv, NEW p \in Procs, pc[p] \in {"user", "woken"}, NEW k, IsReq(p, k),
           k \in LockRecs, NEW i \in lf_getblock(k), NEW r, r = SleepList(p, k, i)
    PROVE  Moves(i_lockf[k.ino], r.list, r.woken, {p}) /\ r.taken = {}
  <1>1. PICK list, queue : list = i_lockf[k.ino] /\ queue = Queue(list, i, p)
    OBVIOUS
  <1>2. /\ k \in Asked /\ k.ino \in Inodes /\ list \in Lists /\ Sorted(list)
        /\ \A x \in Locks(list) : x.ino = k.ino
    BY <1>1, ReqTyped
  <1>3. i \in DOMAIN list /\ r.taken = {}
    BY <1>1, SleepChanged
  <1>4. \A x \in Locks(list) : OneRecord(x) /\ p \notin x.sleepers
    BY <1>1, <1>2 DEF RecInv, OneRecords, Waiting
  <1>5. OneEach(Locks(list))
    BY <1>1, <1>2 DEF RecInv, OneHost, OneEach
  <1>6. Moves(list, queue, {}, {p})
    BY <1>1, <1>2, <1>3, <1>4, <1>5, QueueMoves
  <1>7. CASE k.id \in Files /\ k.type = "F_WRLCK"
    <2>1. r = MaybeClear(queue, k, TRUE)
      BY <1>1, <1>7 DEF SleepList, MaybeClear
    <2>2. Resleep(list, queue) /\ queue \in Lists
      BY <1>1, <1>2, <1>3, QueueOK
    <2>3. Sorted(queue)
      <3>1. PICK ino : ino = k.ino
        OBVIOUS
      <3>2. \A x \in Locks(list) : x.ino = ino
        BY <1>2, <3>1
      <3>3. \A id : Changed(list, queue, id, ino)
        BY <1>2, <2>2, <3>2, ResleepChanged
      <3> QED
        BY <3>3 DEF Changed
    <2>4. (\A x \in Locks(queue) : OneRecord(x)) /\ OneEach(Locks(queue))
      BY <1>6 DEF Moves
    <2>5. Whole(queue, k)
      BY <2>2, <2>4, RecordExact
    <2>6. Moves(queue, r.list, r.woken, {})
      BY <1>2, <2>1, <2>2, <2>3, <2>4, <2>5, ClearMoves
    <2>7. Moves(list, r.list, r.woken \cup {}, {p})
      BY <1>6, <2>6, MovesTwice
    <2>8. r.woken \cup {} = r.woken
      OBVIOUS
    <2> QED
      BY <1>1, <1>3, <2>7, <2>8
  <1>8. CASE ~(k.id \in Files /\ k.type = "F_WRLCK")
    <2>1. r = [list |-> queue, woken |-> {}, taken |-> {}]
      BY <1>1, <1>8 DEF SleepList
    <2>2. r.list = queue /\ r.woken = {}
      BY <2>1
    <2> QED
      BY <1>1, <1>3, <1>6, <2>2
  <1> QED
    BY <1>7, <1>8

LEMMA CloseMoves ==
    ASSUME Base, RecInv, NEW p \in Procs, NEW f \in Files, NEW r, NEW s, Closing(p, f, r, s)
    PROVE  Moves(i_lockf[InodeOf[f]], s.list, s.woken \cup r.woken, {})
  <1>1. PICK ino, list, kp, kf : /\ ino = InodeOf[f] /\ list = i_lockf[ino]
                                 /\ kp = OfProc(p, f) /\ kf = OfFile(f)
    OBVIOUS
  <1>2. /\ ino \in Inodes /\ kp \in Asked /\ kf \in Asked /\ kp.start = 0 /\ kp.end = EOF
        /\ kf.start = 0 /\ kf.end = EOF
    BY <1>1, CloseTyped
  <1>3. /\ list \in Lists /\ Sorted(list) /\ r.list \in Lists /\ Sorted(r.list)
        /\ \E c : r = MaybeClear(list, kp, c)
        /\ \E c : s = MaybeClear(r.list, kf, c)
    BY <1>1, ClosingLists
  <1>4. (\A x \in Locks(list) : OneRecord(x)) /\ OneEach(Locks(list))
    BY <1>1, <1>2 DEF RecInv, OneRecords, OneHost, OneEach
  <1>5. Whole(list, kp) /\ Whole(r.list, kf)
    BY <1>2, <1>3, WholeFileWhole
  <1>6. Moves(list, r.list, r.woken, {})
    BY <1>2, <1>3, <1>4, <1>5, ClearMoves
  <1>7. (\A x \in Locks(r.list) : OneRecord(x)) /\ OneEach(Locks(r.list))
    BY <1>6 DEF Moves
  <1>8. Moves(r.list, s.list, s.woken, {})
    BY <1>2, <1>3, <1>5, <1>7, ClearMoves
  <1>9. Moves(list, s.list, s.woken \cup r.woken, {})
    BY <1>6, <1>8, MovesTwice
  <1> QED
    BY <1>1, <1>9

LEMMA InterruptedRec ==
    ASSUME Base, RecInv, NEW p \in Procs, interrupted(p)
    PROVE  RecInv'
  <1>1. /\ i_lockf \in [Inodes -> Lists]
        /\ pc \in [Procs -> PCs] /\ dangling \in [Procs -> BOOLEAN]
        /\ \A i \in Inodes : \A x \in Locks(i_lockf[i]) : x.ino = i
    BY DEF Base, TypeOK
  <1>2. i_lockf' = Unlinked(p)
    BY DEF interrupted, RecInv, NoneDangles
  <1>3. /\ pc' = [pc EXCEPT ![p] = "user"] /\ dangling' = [dangling EXCEPT ![p] = FALSE]
    BY DEF interrupted
  <1>4. ASSUME NEW ino \in Inodes, NEW x \in Locks(i_lockf'[ino])
        PROVE  \E a \in DOMAIN i_lockf[ino] :
                  /\ x = i_lockf'[ino][a] /\ i_lockf[ino][a] \in Locks(i_lockf[ino])
                  /\ SameLock(x, i_lockf[ino][a]) /\ x.sleepers = i_lockf[ino][a].sleepers \ {p}
    <2>1. PICK list, new : list = i_lockf[ino] /\ new = i_lockf'[ino]
      OBVIOUS
    <2>2. Resleep(list, new) /\ \A i \in DOMAIN list : new[i].sleepers = list[i].sleepers \ {p}
      BY <1>2, <2>1, UnlinkedOK
    <2>3. list \in Lists
      BY <1>1, <2>1
    <2>4. DOMAIN new = DOMAIN list /\ DOMAIN list = 1..Len(list)
      BY <2>2, <2>3 DEF Resleep, Lists
    <2>5. PICK a \in DOMAIN list : x = new[a]
      BY <1>4, <2>1, <2>4 DEF Locks
    <2>6. SameLock(x, list[a])
      BY <2>2, <2>4, <2>5 DEF Resleep
    <2>7. list[a] \in Locks(list)
      BY <2>5 DEF Locks
    <2> QED
      BY <2>1, <2>2, <2>5, <2>6, <2>7
  <1>5. OneRecords'
    <2>1. ASSUME NEW ino \in Inodes, NEW x \in Locks(i_lockf'[ino]) PROVE OneRecord(x)
      <3>1. PICK y \in Locks(i_lockf[ino]) : SameLock(x, y)
        BY <1>4, <2>1
      <3> QED
        BY <3>1 DEF SameLock, OneRecord, RecInv, OneRecords
    <2> QED
      BY <2>1 DEF OneRecords
  <1>6. Waiting'
    <2>1. ASSUME NEW ino \in Inodes, NEW x \in Locks(i_lockf'[ino]), NEW q \in x.sleepers
          PROVE  pc'[q] \in {"asleep", "signalled"}
      <3>1. PICK y \in Locks(i_lockf[ino]) : x.sleepers = y.sleepers \ {p}
        BY <1>4, <2>1
      <3>2. q # p /\ q \in y.sleepers /\ i_lockf[ino] \in Lists
        BY <1>1, <2>1, <3>1
      <3>3. q \in Procs /\ pc[q] \in {"asleep", "signalled"}
        BY <3>2, SleeperProc DEF RecInv, Waiting
      <3> QED
        BY <1>1, <1>3, <3>2, <3>3
    <2> QED
      BY <2>1 DEF Waiting
  <1>7. NoneDangles' /\ NoneSplits'
    BY <1>1, <1>3 DEF RecInv, NoneDangles, NoneSplits
  <1>8. OneHost'
    <2>1. ASSUME NEW i \in Inodes, NEW j \in Inodes, NEW x \in Locks(i_lockf'[i]),
                 NEW y \in Locks(i_lockf'[j]), NEW q, q \in x.sleepers, q \in y.sleepers
          PROVE  x = y
      <3>1. PICK a \in DOMAIN i_lockf[i] :
                  /\ x = i_lockf'[i][a] /\ i_lockf[i][a] \in Locks(i_lockf[i])
                  /\ x.sleepers = i_lockf[i][a].sleepers \ {p}
        BY <1>4, <2>1
      <3>2. PICK b \in DOMAIN i_lockf[j] :
                  /\ y = i_lockf'[j][b] /\ i_lockf[j][b] \in Locks(i_lockf[j])
                  /\ y.sleepers = i_lockf[j][b].sleepers \ {p}
        BY <1>4, <2>1
      <3>3. i_lockf[i][a] = i_lockf[j][b]
        BY <2>1, <3>1, <3>2 DEF RecInv, OneHost
      <3>4. i = j
        BY <1>1, <3>1, <3>2, <3>3
      <3>5. PICK list : list = i_lockf[i]
        OBVIOUS
      <3>6. list \in Lists /\ Sorted(list)
        BY <1>1, <3>5 DEF Base, SortedLists
      <3>7. a = b
        BY <3>1, <3>2, <3>3, <3>4, <3>5, <3>6, SortedPlace
      <3> QED
        BY <3>1, <3>2, <3>4, <3>7
    <2> QED
      BY <2>1 DEF OneHost
  <1> QED
    BY <1>5, <1>6, <1>7, <1>8 DEF RecInv

LEMMA StepRec ==
    ASSUME RecordRanges, Base, Base', RecInv, [Next]_vars
    PROVE  RecInv'
  <1>1. CASE UNCHANGED vars
    BY <1>1 DEF vars, RecInv, OneRecords, OneHost, Waiting, NoneDangles, NoneSplits
  <1>2. CASE Next
    <2>1. PICK p \in Procs :
              \/ \E k : \/ Placing(p, k) \/ Deferring(p, k) \/ Failing(p, k)
                        \/ \E i : Sleeping(p, k, i)
                        \/ Clearing(p, k) \/ \E i : Waking(p, k, i) \/ Cutting(p, k, i)
              \/ signal(p) \/ interrupted(p)
              \/ \E f \in Files : closef(p, f) \/ open(p, f)
      BY <1>2, StepCases
    <2>2. /\ pc \in [Procs -> PCs] /\ i_lockf \in [Inodes -> Lists]
          /\ dangling \in [Procs -> BOOLEAN] /\ pc[p] \notin {"set", "clear"}
          /\ {} \in SUBSET {p} /\ {p} \in SUBSET {p}
      BY DEF Base, TypeOK, RecInv, NoneSplits
    <2>3. ASSUME NEW k, IsReq(p, k)
          PROVE  /\ k \in Asked /\ k.sleepers = {} /\ k.ino \in Inodes /\ i_lockf[k.ino] \in Lists
                 /\ Sorted(i_lockf[k.ino]) /\ OneEach(Locks(i_lockf[k.ino]))
                 /\ \A x \in Locks(i_lockf[k.ino]) : OneRecord(x)
                 /\ Exact(i_lockf[k.ino], k) /\ Whole(i_lockf[k.ino], k)
                 /\ ~NeedsMalloc(k)
      <3>1. /\ k \in Asked /\ k.sleepers = {} /\ k.ino \in Inodes /\ i_lockf[k.ino] \in Lists
            /\ Sorted(i_lockf[k.ino])
        BY <2>3, ReqTyped DEF IsReq
      <3>2. /\ OneEach(Locks(i_lockf[k.ino])) /\ \A x \in Locks(i_lockf[k.ino]) : OneRecord(x)
        BY <3>1 DEF RecInv, OneRecords, OneHost, OneEach
      <3>3. Exact(i_lockf[k.ino], k) /\ Whole(i_lockf[k.ino], k)
        <4>1. PICK list \in Lists : list = i_lockf[k.ino]
          BY <3>1
        <4>2. \A x \in Locks(list) : OneRecord(x)
          BY <3>2, <4>1
        <4>3. Exact(list, k) /\ Whole(list, k)
          BY <2>3, <4>2, RecordExact
        <4> QED
          BY <4>1, <4>3
      <3>4. ~NeedsMalloc(k)
        BY <3>3 DEF NeedsMalloc, Splits, Exact
      <3> QED
        BY <3>1, <3>2, <3>3, <3>4
    <2>4. ASSUME NEW k, Placing(p, k) PROVE RecInv'
      <3>1. PICK ino, list, r : ino = k.ino /\ list = i_lockf[ino] /\ r = lf_setlock(list, k)
        OBVIOUS
      <3>2. IsReq(p, k) /\ k \in LockRecs /\ pc[p] \in {"user", "woken"} /\ Update(p, ino, r, "user")
        BY <2>2, <2>4, <3>1 DEF Placing, Asks
      <3>3. /\ k.sleepers = {} /\ ino \in Inodes /\ list \in Lists /\ Sorted(list)
            /\ OneEach(Locks(list)) /\ Exact(list, k)
            /\ \A x \in Locks(list) : OneRecord(x)
        BY <2>3, <3>1, <3>2
      <3>4. OneRecord(k)
        BY <3>2 DEF IsReq, OneRecord
      <3>5. Moves(list, r.list, r.woken, {}) /\ r.taken = {}
        BY <3>1, <3>2, <3>3, <3>4, SetMoves
      <3> QED
        BY <2>2, <3>1, <3>2, <3>3, <3>5, UpdateRec
    <2>5. ASSUME NEW k, NEW i, Deferring(p, k) \/ Waking(p, k, i) \/ Cutting(p, k, i) PROVE FALSE
      BY <2>2, <2>3, <2>5 DEF Deferring, Waking, Cutting, Asks, Frees
    <2>6. ASSUME NEW where \in {"user", "signalled"}, pc' = [pc EXCEPT ![p] = where],
                 pc[p] \in {"user", "woken"} \/ where = "signalled", UNCHANGED <<i_lockf, dangling>>
          PROVE  RecInv'
      <3>1. Waiting'
        <4>1. ASSUME NEW ino \in Inodes, NEW x \in Locks(i_lockf[ino]), NEW q \in x.sleepers
              PROVE  pc'[q] \in {"asleep", "signalled"}
          <5>1. q \in Procs /\ pc[q] \in {"asleep", "signalled"}
            BY <2>2, <4>1, SleeperProc DEF RecInv, Waiting
          <5> QED
            BY <2>2, <2>6, <5>1
        <4> QED
          BY <2>6, <4>1 DEF Waiting
      <3>2. NoneSplits'
        BY <2>2, <2>6 DEF RecInv, NoneSplits
      <3> QED
        BY <2>6, <3>1, <3>2 DEF RecInv, OneRecords, OneHost, NoneDangles
    <2>7. ASSUME NEW k, Failing(p, k) PROVE RecInv'
      BY <2>2, <2>6, <2>7 DEF Failing, Asks, Stay
    <2>8. ASSUME NEW k, NEW i, Sleeping(p, k, i) PROVE RecInv'
      <3>1. PICK ino, r : ino = k.ino /\ r = SleepList(p, k, i)
        OBVIOUS
      <3>2. /\ IsReq(p, k) /\ k \in LockRecs /\ pc[p] \in {"user", "woken"} /\ i \in lf_getblock(k)
            /\ Update(p, ino, r, "asleep")
        BY <2>2, <2>8, <3>1 DEF Sleeping, Asks
      <3>3. Moves(i_lockf[ino], r.list, r.woken, {p}) /\ r.taken = {} /\ ino \in Inodes
        BY <2>3, <3>1, <3>2, SleepMoves
      <3> QED
        BY <2>2, <3>2, <3>3, UpdateRec
    <2>9. ASSUME NEW k, Clearing(p, k) PROVE RecInv'
      <3>1. PICK ino, list, r : ino = k.ino /\ list = i_lockf[ino] /\ r = lf_clearlock(list, k)
        OBVIOUS
      <3>2. IsReq(p, k) /\ pc[p] = "user" /\ Update(p, ino, r, "user")
        BY <2>9, <3>1 DEF Clearing, Frees
      <3>3. /\ k \in Asked /\ ino \in Inodes /\ list \in Lists /\ Sorted(list)
            /\ OneEach(Locks(list)) /\ Whole(list, k)
            /\ \A x \in Locks(list) : OneRecord(x)
        BY <2>3, <3>1, <3>2
      <3>4. r = MaybeClear(list, k, TRUE)
        BY <3>1 DEF MaybeClear
      <3>5. Moves(list, r.list, r.woken, {})
        BY <3>3, <3>4, ClearMoves
      <3>6. r.taken = {}
        BY <3>3, <3>4, MaybeClearOK
      <3> QED
        BY <2>2, <3>1, <3>2, <3>3, <3>5, <3>6, UpdateRec
    <2>10. CASE signal(p)
      BY <2>6, <2>10 DEF signal, Stay
    <2>11. CASE interrupted(p)
      BY <2>11, InterruptedRec
    <2>12. ASSUME NEW f \in Files, closef(p, f) PROVE RecInv'
      <3>1. PICK s, t : Closing(p, f, s, t)
        BY <2>12, CloseStep
      <3>2. PICK ino, r : /\ ino = InodeOf[f]
                          /\ r = [list |-> t.list, woken |-> t.woken \cup s.woken, taken |-> {}]
        OBVIOUS
      <3>3. Update(p, ino, r, "user") /\ ino \in Inodes /\ pc[p] = "user" /\ r.taken = {}
        BY <3>1, <3>2, CloseTyped DEF Closing
      <3>4. Moves(i_lockf[ino], r.list, r.woken, {})
        BY <3>1, <3>2, CloseMoves
      <3> QED
        BY <2>2, <3>3, <3>4, UpdateRec
    <2>13. ASSUME NEW f \in Files, open(p, f) PROVE RecInv'
      BY <2>13 DEF open, RecInv, OneRecords, OneHost, Waiting, NoneDangles, NoneSplits
    <2> QED
      BY <2>1, <2>4, <2>5, <2>7, <2>8, <2>9, <2>10, <2>11, <2>12, <2>13
  <1> QED
    BY <1>1, <1>2

LEMMA InitRec == Init => RecInv
  BY DEF Init, RecInv, OneRecords, OneHost, Waiting, NoneDangles, NoneSplits, Locks

LEMMA AlwaysRec == RecordRanges /\ Spec => []RecInv
  <1> SUFFICES ASSUME RecordRanges PROVE Spec => []RecInv
    OBVIOUS
  <1>1. Init => RecInv
    BY InitRec
  <1>2. Base /\ Base' /\ RecInv /\ [Next]_vars => RecInv'
    BY StepRec
  <1> QED
    BY <1>1, <1>2, AlwaysBase, PTL DEF Spec

(* Where files are locked record by record no lock is lost, MALLOC asleep  *)
(* or not: a process whose sleep in lf_setlock is over, because it was     *)
(* woken or because of a signal, is on no list of waiting locks.  Each     *)
(* waiting lock is on one list, and lf_setlock takes it off that list.     *)
THEOREM NoLockLost == RecordRanges /\ Spec => []NoLostLock
  <1>1. Base /\ RecInv => NoLostLock
    <2> SUFFICES ASSUME Base, RecInv PROVE NoLostLock
      OBVIOUS
    <2>1. ASSUME NEW p \in Procs, pc[p] \notin {"asleep", "signalled"} PROVE Holders(p) = {}
      BY <2>1 DEF Holders, RecInv, Waiting
    <2> QED
      BY <2>1 DEF NoLostLock
  <1> QED
    BY <1>1, AlwaysBase, AlwaysRec, PTL

-----------------------------------------------------------------------------
(* Deadlock.                                                               *)

(* Where no range cuts another nobody splits a lock, and the wakeups are   *)
(* safe although MALLOC may sleep.                                         *)
LEMMA AlwaysAwaited == RecordRanges /\ Spec => []Awaited
  <1>1. Init => Awaited
    BY DEF Init, Awaited
  <1>2. RecInv => NoneClears
    BY DEF RecInv, NoneSplits, NoneClears
  <1>3. Base /\ Base' /\ NoneClears /\ NoneClears' /\ Awaited /\ [Next]_vars => Awaited'
    BY StepAwaited
  <1> QED
    BY <1>1, <1>2, <1>3, AlwaysBase, AlwaysRec, PTL DEF Spec

(* Where files are locked record by record no wakeup is missed, even if    *)
(* MALLOC sleeps: lf_split is never called.                                *)
THEOREM RecordWakeupsKept == RecordRanges /\ Spec => []NoMissedWakeup
  <1>1. Base /\ Awaited => NoMissedWakeup
    BY AwaitedHeld
  <1> QED
    BY <1>1, AlwaysBase, AlwaysAwaited, PTL

(* q sleeps for a lock of h.                                               *)
WaitsFor(q, h) == \E ino \in Inodes : \E x \in Locks(i_lockf[ino]) : q \in x.sleepers /\ x.id = h
Ring(S) == /\ S # {} /\ S \subseteq Procs
           /\ \A q \in S : pc[q] = "asleep" /\ \E h \in S : WaitsFor(q, h)
NoRing == \A S : ~Ring(S)

(* The check looks as far as there are processes that may wait.            *)
DeepEnough == IsFiniteSet(Procs) /\ Cardinality(Procs) <= maxlockdepth + 1

LEMMA HostIs ==
    ASSUME ~Flock, Base, RecInv, Awaited, NEW q \in Procs, pc[q] = "asleep"
    PROVE  /\ WaitsFor(q, Host(q).id) /\ Host(q).id \in Procs
           /\ \A h : WaitsFor(q, h) => h = Host(q).id
  <1>1. Holders(q) # {}
    <2>1. req[q].ino \in Inodes
      BY ReqTyped DEF Base, Pending
    <2> QED
      BY <2>1 DEF Awaited, Holders
  <1>2. Host(q) \in Holders(q)
    BY <1>1, Zenon DEF Host
  <1>3. PICK ino \in Inodes : Host(q) \in Locks(i_lockf[ino]) /\ q \in Host(q).sleepers
    BY <1>2 DEF Holders
  <1>4. WaitsFor(q, Host(q).id)
    BY <1>3 DEF WaitsFor
  <1>5. Host(q).id \in Procs
    BY <1>3 DEF RecInv, OneRecords, OneRecord
  <1>6. ASSUME NEW h, WaitsFor(q, h) PROVE h = Host(q).id
    <2>1. PICK j \in Inodes : \E x \in Locks(i_lockf[j]) : q \in x.sleepers /\ x.id = h
      BY <1>6 DEF WaitsFor
    <2>2. PICK x \in Locks(i_lockf[j]) : q \in x.sleepers /\ x.id = h
      BY <2>1
    <2>3. x = Host(q)
      BY <1>3, <2>2 DEF RecInv, OneHost
    <2> QED
      BY <2>2, <2>3
  <1> QED
    BY <1>4, <1>5, <1>6

LEMMA NoRingNoDeadlock ==
    ASSUME ~Flock, Base, RecInv, Awaited, NoRing
    PROVE  NoDeadlock
  <1>1. ASSUME NEW S \in (SUBSET Procs) \ {{}},
               \A p \in S : pc[p] = "asleep" /\ OwnersOf(Host(p).id) \subseteq S
        PROVE  FALSE
    <2>1. ASSUME NEW q \in S PROVE pc[q] = "asleep" /\ \E h \in S : WaitsFor(q, h)
      <3>1. q \in Procs /\ pc[q] = "asleep" /\ OwnersOf(Host(q).id) \subseteq S
        BY <1>1
      <3>2. WaitsFor(q, Host(q).id) /\ Host(q).id \in Procs
        BY <3>1, HostIs
      <3>3. OwnersOf(Host(q).id) = {Host(q).id}
        BY <3>2 DEF OwnersOf
      <3> QED
        BY <3>1, <3>2, <3>3
    <2>2. Ring(S)
      BY <2>1 DEF Ring
    <2> QED
      BY <2>2 DEF NoRing
  <1> QED
    BY <1>1 DEF NoDeadlock

-----------------------------------------------------------------------------
(* Nobody but a process that goes to sleep begins to wait for another.     *)

NothingNew(p) == \A q \in Procs \ {p} : \A h : pc'[q] = "asleep" /\ WaitsFor(q, h)' =>
    pc[q] = "asleep" /\ WaitsFor(q, h)

LEMMA HeirWaits ==
    ASSUME Base, RecInv', Awaited, NEW p \in Procs, NEW q \in Procs \ {p}, pc[q] = "asleep",
           \A y \in Locks(i_lockf[req[q].ino]) : q \in y.sleepers =>
               \E ino \in Inodes : \E x \in Locks(i_lockf'[ino]) : q \in x.sleepers /\ x.id = y.id,
           NEW h, WaitsFor(q, h)'
    PROVE  WaitsFor(q, h)
  <1>1. req[q].ino \in Inodes
    BY ReqTyped DEF Base, Pending
  <1>2. PICK y \in Locks(i_lockf[req[q].ino]) : q \in y.sleepers
    BY DEF Awaited
  <1>3. PICK i \in Inodes : \E x \in Locks(i_lockf'[i]) : q \in x.sleepers /\ x.id = y.id
    BY <1>2
  <1>4. PICK x \in Locks(i_lockf'[i]) : q \in x.sleepers /\ x.id = y.id
    BY <1>3
  <1>5. PICK j \in Inodes : \E z \in Locks(i_lockf'[j]) : q \in z.sleepers /\ z.id = h
    BY DEF WaitsFor
  <1>6. PICK z \in Locks(i_lockf'[j]) : q \in z.sleepers /\ z.id = h
    BY <1>5
  <1>7. x = z
    BY <1>4, <1>6 DEF RecInv, OneHost
  <1> QED
    BY <1>1, <1>2, <1>4, <1>6, <1>7 DEF WaitsFor

LEMMA UpdateWaits ==
    ASSUME Base, Base', RecInv', Awaited, NEW p \in Procs, NEW ino \in Inodes, NEW r, NEW where,
           Update(p, ino, r, where), HandsOver(i_lockf[ino], r.list, r.woken)
    PROVE  NothingNew(p)
  <1>1. /\ i_lockf \in [Inodes -> Lists] /\ pc \in [Procs -> PCs]
    BY DEF Base, TypeOK
  <1>2. /\ i_lockf'[ino] = r.list /\ \A j \in Inodes \ {ino} : i_lockf'[j] = i_lockf[j]
    BY <1>1 DEF Update
  <1>3. \A q \in Procs \ {p} : pc'[q] = "asleep" => pc[q] = "asleep" /\ q \notin r.woken
    BY <1>1 DEF Update
  <1>4. ASSUME NEW q \in Procs \ {p}, NEW h, pc'[q] = "asleep", WaitsFor(q, h)'
        PROVE  pc[q] = "asleep" /\ WaitsFor(q, h)
    <2>1. pc[q] = "asleep" /\ q \notin r.woken
      BY <1>3, <1>4
    <2>2. req[q].ino \in Inodes
      BY <2>1, ReqTyped DEF Base, Pending
    <2>3. ASSUME NEW y \in Locks(i_lockf[req[q].ino]), q \in y.sleepers
          PROVE  \E i \in Inodes : \E x \in Locks(i_lockf'[i]) : q \in x.sleepers /\ x.id = y.id
      <3>1. CASE req[q].ino # ino
        BY <1>2, <2>2, <2>3, <3>1
      <3>2. CASE req[q].ino = ino
        <4>1. PICK x \in Locks(r.list) : q \in x.sleepers /\ Wider(x, y)
          BY <2>1, <2>3, <3>2 DEF HandsOver
        <4> QED
          BY <1>2, <4>1 DEF Wider
      <3> QED
        BY <3>1, <3>2
    <2> QED
      BY <1>4, <2>1, <2>3, HeirWaits
  <1> QED
    BY <1>4 DEF NothingNew

LEMMA StayWaits ==
    ASSUME Base, Base', RecInv', Awaited, NEW p \in Procs, NEW where,
           pc' = [pc EXCEPT ![p] = where],
           \A ino \in Inodes : \A y \in Locks(i_lockf[ino]) : \E x \in Locks(i_lockf'[ino]) :
               SameLock(x, y) /\ y.sleepers \ {p} \subseteq x.sleepers
    PROVE  NothingNew(p)
  <1>1. pc \in [Procs -> PCs]
    BY DEF Base, TypeOK
  <1>2. ASSUME NEW q \in Procs \ {p}, NEW h, pc'[q] = "asleep", WaitsFor(q, h)'
        PROVE  pc[q] = "asleep" /\ WaitsFor(q, h)
    <2>1. pc[q] = "asleep"
      BY <1>1, <1>2
    <2>2. req[q].ino \in Inodes
      BY <2>1, ReqTyped DEF Base, Pending
    <2>3. \A y \in Locks(i_lockf[req[q].ino]) : q \in y.sleepers =>
              \E ino \in Inodes : \E x \in Locks(i_lockf'[ino]) : q \in x.sleepers /\ x.id = y.id
      BY <2>2 DEF SameLock
    <2> QED
      BY <1>2, <2>1, <2>3, HeirWaits
  <1> QED
    BY <1>2 DEF NothingNew

LEMMA StepWaits ==
    ASSUME Base, Base', RecInv, RecInv', Awaited, Next
    PROVE  \E p \in Procs : /\ NothingNew(p)
                            /\ pc'[p] # "asleep" \/ \E k, i : Sleeping(p, k, i)
  <1>1. PICK p \in Procs :
            \/ \E k : \/ Placing(p, k) \/ Deferring(p, k) \/ Failing(p, k)
                      \/ \E i : Sleeping(p, k, i)
                      \/ Clearing(p, k) \/ \E i : Waking(p, k, i) \/ Cutting(p, k, i)
            \/ signal(p) \/ interrupted(p)
            \/ \E f \in Files : closef(p, f) \/ open(p, f)
    BY StepCases
  <1>2. /\ pc \in [Procs -> PCs] /\ i_lockf \in [Inodes -> Lists] /\ i_lockf' \in [Inodes -> Lists]
        /\ pc[p] \notin {"set", "clear"} /\ pc'[p] \notin {"set", "clear"}
    BY DEF Base, TypeOK, RecInv, NoneSplits
  <1>3. ASSUME i_lockf' = i_lockf
        PROVE  \A ino \in Inodes : \A y \in Locks(i_lockf[ino]) : \E x \in Locks(i_lockf'[ino]) :
                   SameLock(x, y) /\ y.sleepers \ {p} \subseteq x.sleepers
    BY <1>3 DEF SameLock
  <1>4. ASSUME NEW k, Asks(p, k)
        PROVE  /\ IsReq(p, k) /\ k \in LockRecs /\ k.sleepers = {} /\ k.ino \in Inodes
               /\ i_lockf[k.ino] \in Lists /\ Sorted(i_lockf[k.ino])
    <2>1. IsReq(p, k) /\ k \in LockRecs
      BY <1>4 DEF Asks
    <2> QED
      BY <2>1, ReqTyped DEF IsReq
  <1>5. ASSUME NEW k, Placing(p, k) PROVE NothingNew(p) /\ pc'[p] # "asleep"
    <2>1. PICK ino, r : ino = k.ino /\ r = lf_setlock(i_lockf[ino], k)
      OBVIOUS
    <2>2. Asks(p, k) /\ Update(p, ino, r, "user")
      BY <1>5, <2>1 DEF Placing
    <2>3. HandsOver(i_lockf[ino], r.list, r.woken) /\ ino \in Inodes
      BY <1>4, <2>1, <2>2, SetHandsOver
    <2>4. NothingNew(p)
      BY <2>2, <2>3, UpdateWaits
    <2> QED
      BY <1>2, <2>2, <2>4 DEF Update
  <1>6. ASSUME NEW where \in {"user", "signalled", "set"}, pc' = [pc EXCEPT ![p] = where], i_lockf' = i_lockf
        PROVE  NothingNew(p) /\ pc'[p] # "asleep"
    <2>1. NothingNew(p)
      BY <1>3, <1>6, StayWaits
    <2> QED
      BY <1>2, <1>6, <2>1
  <1>7. ASSUME NEW k, Deferring(p, k) \/ Failing(p, k) PROVE NothingNew(p) /\ pc'[p] # "asleep"
    BY <1>6, <1>7 DEF Deferring, Failing, Stay
  <1>8. ASSUME NEW k, NEW i, Sleeping(p, k, i) PROVE NothingNew(p)
    <2>1. PICK ino, r : ino = k.ino /\ r = SleepList(p, k, i)
      OBVIOUS
    <2>2. Asks(p, k) /\ Update(p, ino, r, "asleep") /\ i \in lf_getblock(k)
      BY <1>8, <2>1 DEF Sleeping
    <2>3. HandsOver(i_lockf[ino], r.list, r.woken) /\ ino \in Inodes
      BY <1>4, <2>1, <2>2, SleepHandsOver
    <2> QED
      BY <2>2, <2>3, UpdateWaits
  <1>9. ASSUME NEW k, Clearing(p, k) PROVE NothingNew(p) /\ pc'[p] # "asleep"
    <2>1. PICK ino, list, r : ino = k.ino /\ list = i_lockf[ino] /\ r = lf_clearlock(list, k)
      OBVIOUS
    <2>2. Frees(p, k) /\ Update(p, ino, r, "user")
      BY <1>9, <2>1 DEF Clearing
    <2>3. k \in Asked /\ ino \in Inodes /\ list \in Lists /\ Sorted(list)
      BY <2>1, <2>2, ReqTyped DEF Frees
    <2>4. r = MaybeClear(list, k, TRUE)
      BY <2>1 DEF MaybeClear
    <2>5. HandsOver(list, r.list, r.woken)
      BY <2>3, <2>4, ClearHandsOver
    <2>6. NothingNew(p)
      BY <2>1, <2>2, <2>3, <2>5, UpdateWaits
    <2> QED
      BY <1>2, <2>2, <2>6 DEF Update
  <1>10. ASSUME NEW k, NEW i, Waking(p, k, i) \/ Cutting(p, k, i) PROVE FALSE
    BY <1>2, <1>10 DEF Waking, Cutting, Update
  <1>11. CASE signal(p)
    BY <1>6, <1>11 DEF signal, Stay
  <1>12. CASE interrupted(p)
    <2>1. pc' = [pc EXCEPT ![p] = "user"] /\ (i_lockf' = Unlinked(p) \/ i_lockf' = i_lockf)
      BY <1>12 DEF interrupted
    <2>2. ASSUME i_lockf' = Unlinked(p), NEW ino \in Inodes, NEW y \in Locks(i_lockf[ino])
          PROVE  \E x \in Locks(i_lockf'[ino]) : SameLock(x, y) /\ y.sleepers \ {p} \subseteq x.sleepers
      <3>1. PICK list, new : list = i_lockf[ino] /\ new = i_lockf'[ino]
        OBVIOUS
      <3>2. Resleep(list, new) /\ \A i \in DOMAIN list : new[i].sleepers = list[i].sleepers \ {p}
        BY <2>2, <3>1, UnlinkedOK
      <3>3. PICK i \in DOMAIN list : y = list[i]
        BY <3>1 DEF Locks
      <3>4. i \in DOMAIN new /\ SameLock(new[i], list[i])
        BY <1>2, <3>1, <3>2, <3>3 DEF Resleep, Lists
      <3> QED
        BY <3>1, <3>2, <3>3, <3>4 DEF Locks
    <2>3. NothingNew(p)
      BY <1>3, <2>1, <2>2, StayWaits
    <2> QED
      BY <1>2, <2>1, <2>3
  <1>13. ASSUME NEW f \in Files, closef(p, f) PROVE NothingNew(p) /\ pc'[p] # "asleep"
    <2>1. PICK s, t : Closing(p, f, s, t)
      BY <1>13, CloseStep
    <2>2. PICK ino, r : /\ ino = InodeOf[f]
                        /\ r = [list |-> t.list, woken |-> t.woken \cup s.woken, taken |-> {}]
      OBVIOUS
    <2>3. Update(p, ino, r, "user") /\ ino \in Inodes
      BY <2>1, <2>2, CloseTyped DEF Closing
    <2>4. HandsOver(i_lockf[ino], r.list, r.woken)
      BY <2>1, <2>2, CloseHandsOver
    <2>5. NothingNew(p)
      BY <2>3, <2>4, UpdateWaits
    <2> QED
      BY <1>2, <2>3, <2>5 DEF Update
  <1>14. ASSUME NEW f \in Files, open(p, f) PROVE NothingNew(p) /\ pc'[p] # "asleep"
    BY <1>14 DEF open, NothingNew, WaitsFor
  <1> QED
    BY <1>1, <1>5, <1>7, <1>8, <1>9, <1>10, <1>11, <1>12, <1>13, <1>14

-----------------------------------------------------------------------------
(* The chain that lf_setlock follows.                                      *)

IsChain(f, b, g, m) == f = [n \in 0..m |->
    IF n = 0 THEN b
    ELSE IF f[n - 1] = None \/ pc[f[n - 1]] # "asleep" THEN None ELSE wproc(f[n - 1], g)]

LEMMA ChainExists ==
    ASSUME NEW k, NEW x, NEW g
    PROVE  \E f : /\ IsChain(f, x.id, g, maxlockdepth)
                  /\ EDEADLK(k, x, g) <=> /\ {k.id, x.id} \subseteq Procs
                                          /\ \E n \in 1..maxlockdepth : f[n] = k.id
  <1>0. maxlockdepth \in Nat
    BY LockfAssumption
  <1> DEFINE Bad == {m \in 0..maxlockdepth : ~\E f : IsChain(f, x.id, g, m)}
  <1>1. Bad = {}
    <2> SUFFICES ASSUME Bad # {} PROVE FALSE
      OBVIOUS
    <2>1. PICK m \in Bad : \A i \in Bad : m <= i
      <3>1. Bad \subseteq Nat
        OBVIOUS
      <3> HIDE DEF Bad
      <3> QED
        BY <3>1, Least
    <2>2. m # 0
      <3>1. IsChain([n \in 0..0 |-> x.id], x.id, g, 0)
        BY DEF IsChain
      <3> QED
        BY <3>1
    <2>3. m - 1 \in 0..maxlockdepth /\ m \in 1..maxlockdepth /\ m - 1 \notin Bad
      BY <1>0, <2>1, <2>2
    <2>4. PICK f : IsChain(f, x.id, g, m - 1)
      BY <2>3
    <2>5. PICK e : e = [n \in 0..m |->
              IF n = m
              THEN IF f[m - 1] = None \/ pc[f[m - 1]] # "asleep" THEN None ELSE wproc(f[m - 1], g)
              ELSE f[n]]
      OBVIOUS
    <2>6. IsChain(e, x.id, g, m)
      <3>1. ASSUME NEW n \in 0..m
            PROVE  e[n] = IF n = 0 THEN x.id
                          ELSE IF e[n - 1] = None \/ pc[e[n - 1]] # "asleep" THEN None
                          ELSE wproc(e[n - 1], g)
        BY <2>3, <2>4, <2>5, SMTT(30) DEF IsChain
      <3> QED
        BY <3>1, <2>5, <2>3 DEF IsChain
    <2> QED
      BY <2>6
  <1>2. \E f : IsChain(f, x.id, g, maxlockdepth)
    <2>1. maxlockdepth \in 0..maxlockdepth
      BY <1>0
    <2> QED
      BY <1>1, <2>1, Zenon
  <1>3. PICK f : f = CHOOSE c : IsChain(c, x.id, g, maxlockdepth)
    OBVIOUS
  <1>4. IsChain(f, x.id, g, maxlockdepth)
    BY <1>2, <1>3, Zenon
  <1>5. EDEADLK(k, x, g) <=> /\ {k.id, x.id} \subseteq Procs
                             /\ \E n \in 1..maxlockdepth : f[n] = k.id
    BY <1>3, Zenon DEF EDEADLK, IsChain
  <1> QED
    BY <1>4, <1>5

(* If p would close a ring of S, the chain comes to p.                     *)
LEMMA ChainCloses ==
    ASSUME ~Flock, DeepEnough, Base, RecInv, Awaited, NoRing, NEW p \in Procs, NEW S \in SUBSET Procs,
           \A q \in S \ {p} : pc[q] = "asleep" /\ \E h \in S : WaitsFor(q, h),
           NEW b \in S \ {p}, NEW g, NEW f, IsChain(f, b, g, maxlockdepth)
    PROVE  \E n \in 1..maxlockdepth : f[n] = p
  <1> SUFFICES ASSUME \A n \in 1..maxlockdepth : f[n] # p PROVE FALSE
    OBVIOUS
  <1>0. maxlockdepth \in Nat
    BY LockfAssumption
  <1>1. ASSUME NEW q \in S \ {p} PROVE wproc(q, g) \in S /\ WaitsFor(q, wproc(q, g))
    <2>1. PICK h \in S : WaitsFor(q, h)
      BY <1>1
    <2>2. h = Host(q).id /\ Host(q).id \in Procs
      BY <1>1, <2>1, HostIs
    <2>3. wproc(q, g) = Host(q).id
      BY <1>1, <2>2 DEF wproc, RecInv, NoneDangles
    <2> QED
      BY <2>1, <2>2, <2>3
  <1>2. f[0] = b
    BY <1>0 DEF IsChain
  <1>3. ASSUME NEW n \in 1..maxlockdepth, f[n - 1] \in S \ {p} PROVE f[n] = wproc(f[n - 1], g)
    <2>1. f[n - 1] # None /\ pc[f[n - 1]] = "asleep"
      BY <1>3, LockfAssumption
    <2> QED
      BY <1>0, <2>1 DEF IsChain
  <1> DEFINE Bad == {n \in 0..maxlockdepth : f[n] \notin S \ {p}}
  <1>4. Bad = {}
    <2> SUFFICES ASSUME Bad # {} PROVE FALSE
      OBVIOUS
    <2>1. PICK m \in Bad : \A i \in Bad : m <= i
      <3>1. Bad \subseteq Nat
        OBVIOUS
      <3> HIDE DEF Bad
      <3> QED
        BY <3>1, Least
    <2>2. m # 0
      BY <1>2, <2>1
    <2>3. m \in 1..maxlockdepth /\ m - 1 \in 0..maxlockdepth /\ m - 1 \notin Bad
      BY <1>0, <2>1, <2>2
    <2>4. f[m - 1] \in S \ {p}
      BY <2>3
    <2>5. f[m] \in S \ {p}
      BY <1>1, <1>3, <2>3, <2>4
    <2> QED
      BY <2>1, <2>5
  <1>5. \A n \in 0..maxlockdepth : f[n] \in S \ {p}
    BY <1>4
  <1>6. ASSUME NEW n \in 0..(maxlockdepth - 1) PROVE WaitsFor(f[n], f[n + 1])
    <2>1. n + 1 \in 1..maxlockdepth /\ (n + 1) - 1 = n /\ n \in 0..maxlockdepth
      BY <1>0
    <2>2. f[n + 1] = wproc(f[n], g)
      BY <1>3, <1>5, <2>1
    <2> QED
      BY <1>1, <1>5, <2>1, <2>2
  <1>7. \E i, j \in 0..maxlockdepth : i < j /\ f[i] = f[j]
    <2>1. f \in [0..maxlockdepth -> Procs \ {p}]
      <3>1. f = [n \in 0..maxlockdepth |-> f[n]]
        BY DEF IsChain
      <3> QED
        BY <1>5, <3>1
    <2>2. IsFiniteSet(0..maxlockdepth) /\ Cardinality(0..maxlockdepth) = maxlockdepth + 1
      BY <1>0, FS_Interval
    <2>3. IsFiniteSet(Procs \ {p}) /\ Cardinality(Procs \ {p}) = Cardinality(Procs) - 1
      BY FS_RemoveElement DEF DeepEnough
    <2>4. Cardinality(Procs) \in Nat
      BY FS_CardinalityType DEF DeepEnough
    <2>5. Cardinality(Procs \ {p}) < Cardinality(0..maxlockdepth)
      BY <1>0, <2>2, <2>3, <2>4 DEF DeepEnough
    <2>6. PICK i, j \in 0..maxlockdepth : i # j /\ f[i] = f[j]
      <3>1. PICK D, T : D = 0..maxlockdepth /\ T = Procs \ {p}
        OBVIOUS
      <3>2. /\ IsFiniteSet(D) /\ IsFiniteSet(T) /\ Cardinality(T) < Cardinality(D)
            /\ f \in [D -> T]
        BY <2>1, <2>2, <2>3, <2>5, <3>1
      <3>3. \E i, j \in D : i # j /\ f[i] = f[j]
        BY <3>2, FS_PigeonHole
      <3> QED
        BY <3>1, <3>3
    <2>7. i < j \/ j < i
      BY <1>0, <2>6
    <2> QED
      BY <2>6, <2>7
  <1>8. PICK i, j \in 0..maxlockdepth : i < j /\ f[i] = f[j]
    BY <1>7
  <1>9. PICK C : C = {f[n] : n \in i..(j - 1)}
    OBVIOUS
  <1>10. ASSUME NEW q \in C PROVE q \in Procs /\ pc[q] = "asleep" /\ \E h \in C : WaitsFor(q, h)
    <2>1. PICK n \in i..(j - 1) : q = f[n]
      BY <1>9, <1>10
    <2>2. n \in 0..(maxlockdepth - 1) /\ n \in 0..maxlockdepth
      BY <1>0, <1>8, <2>1
    <2>3. q \in S \ {p} /\ WaitsFor(q, f[n + 1])
      BY <1>5, <1>6, <2>1, <2>2
    <2>4. f[n + 1] \in C
      <3>1. CASE n = j - 1
        <4>1. f[n + 1] = f[i] /\ i \in i..(j - 1)
          BY <1>0, <1>8, <3>1
        <4> QED
          BY <1>9, <4>1
      <3>2. CASE n # j - 1
        <4>1. n + 1 \in i..(j - 1)
          BY <1>0, <1>8, <2>1, <3>2
        <4> QED
          BY <1>9, <4>1
      <3> QED
        BY <3>1, <3>2
    <2> QED
      BY <2>3, <2>4
  <1>11. C # {}
    <2>1. i \in i..(j - 1)
      BY <1>0, <1>8
    <2> QED
      BY <1>9, <2>1
  <1>12. Ring(C)
    BY <1>10, <1>11 DEF Ring
  <1> QED
    BY <1>12 DEF NoRing

(* Whom a process waits for that has just gone to sleep.                   *)
LEMMA SleeperWaits ==
    ASSUME ~Flock, Base, RecInv, RecInv', NEW p \in Procs, NEW k, NEW i, Sleeping(p, k, i)
    PROVE  /\ k.id = p /\ i_lockf[k.ino][i].id \in Procs \ {p}
           /\ \A h : WaitsFor(p, h)' => h = i_lockf[k.ino][i].id
  <1>1. PICK ino, list, queue : ino = k.ino /\ list = i_lockf[ino] /\ queue = Queue(list, i, p)
    OBVIOUS
  <1>2. IsReq(p, k) /\ i \in lf_getblock(k) /\ Update(p, ino, SleepList(p, k, i), "asleep")
    BY <1>1 DEF Sleeping, Asks
  <1>3. k.id = p /\ k.id \notin Files
    BY <1>2, LockfAssumption DEF IsReq
  <1>4. ino \in Inodes /\ list \in Lists
    BY <1>1, <1>2, ReqTyped
  <1>5. i \in DOMAIN list /\ Blocking(list[i], k)
    BY <1>1, <1>2 DEF lf_getblock
  <1>6. list[i].id \in Procs \ {p}
    <2>1. list[i] \in Locks(list)
      BY <1>5 DEF Locks
    <2>2. OneRecord(list[i])
      BY <1>1, <1>4, <2>1 DEF RecInv, OneRecords
    <2> QED
      BY <1>3, <1>5, <2>2 DEF Blocking, OneRecord
  <1>7. SleepList(p, k, i) = [list |-> queue, woken |-> {}, taken |-> {}]
    BY <1>1, <1>3 DEF SleepList
  <1>8. i_lockf'[ino] = queue
    <2>1. i_lockf' = [i_lockf EXCEPT ![ino] = SleepList(p, k, i).list] /\ i_lockf \in [Inodes -> Lists]
      BY <1>2 DEF Update, Base, TypeOK
    <2> QED
      BY <1>4, <1>7, <2>1
  <1>9. /\ Resleep(list, queue) /\ queue[i].sleepers = list[i].sleepers \cup {p}
    BY <1>1, <1>4, <1>5, QueueOK
  <1>10. i \in DOMAIN queue /\ SameLock(queue[i], list[i])
    BY <1>4, <1>5, <1>9 DEF Resleep, Lists
  <1>11. queue[i] \in Locks(i_lockf'[ino]) /\ p \in queue[i].sleepers /\ queue[i].id = list[i].id
    BY <1>8, <1>9, <1>10 DEF Locks, SameLock
  <1>12. ASSUME NEW h, WaitsFor(p, h)' PROVE h = list[i].id
    <2>1. PICK j \in Inodes : \E z \in Locks(i_lockf'[j]) : p \in z.sleepers /\ z.id = h
      BY <1>12 DEF WaitsFor
    <2>2. PICK z \in Locks(i_lockf'[j]) : p \in z.sleepers /\ z.id = h
      BY <2>1
    <2>3. z = queue[i]
      BY <1>4, <1>11, <2>2 DEF RecInv, OneHost
    <2> QED
      BY <1>11, <2>2, <2>3
  <1> QED
    BY <1>1, <1>3, <1>6, <1>12

LEMMA StepRing ==
    ASSUME ~Flock, DeepEnough, Base, Base', RecInv, RecInv', Awaited, NoRing, [Next]_vars
    PROVE  NoRing'
  <1>1. CASE UNCHANGED vars
    BY <1>1 DEF vars, NoRing, Ring, WaitsFor
  <1>2. CASE Next
    <2>1. PICK p \in Procs : NothingNew(p) /\ (pc'[p] # "asleep" \/ \E k, i : Sleeping(p, k, i))
      BY <1>2, StepWaits
    <2>2. ASSUME NEW S, Ring(S)' PROVE FALSE
      <3>1. /\ S # {} /\ S \subseteq Procs
            /\ \A q \in S : pc'[q] = "asleep" /\ \E h \in S : WaitsFor(q, h)'
        BY <2>2 DEF Ring
      <3>2. \A q \in S \ {p} : pc[q] = "asleep" /\ \E h \in S : WaitsFor(q, h)
        BY <2>1, <3>1 DEF NothingNew
      <3>3. CASE p \notin S
        <4>1. Ring(S)
          BY <3>1, <3>2, <3>3 DEF Ring
        <4> QED
          BY <4>1 DEF NoRing
      <3>4. CASE p \in S
        <4>1. PICK k, i : Sleeping(p, k, i)
          BY <2>1, <3>1, <3>4
        <4>2. PICK h \in S : WaitsFor(p, h)'
          BY <3>1, <3>4
        <4>3. PICK x : x = i_lockf[k.ino][i]
          OBVIOUS
        <4>4. k.id = p /\ x.id \in Procs \ {p} /\ h = x.id
          BY <4>1, <4>2, <4>3, SleeperWaits
        <4>5. PICK g : ~EDEADLK(k, x, g)
          BY <4>1, <4>3 DEF Sleeping
        <4>6. PICK f : /\ IsChain(f, x.id, g, maxlockdepth)
                       /\ EDEADLK(k, x, g) <=> /\ {k.id, x.id} \subseteq Procs
                                               /\ \E n \in 1..maxlockdepth : f[n] = k.id
          BY ChainExists
        <4>7. PICK b : b = x.id
          OBVIOUS
        <4>8. b \in S \ {p} /\ IsChain(f, b, g, maxlockdepth) /\ S \in SUBSET Procs
          BY <3>1, <4>2, <4>4, <4>6, <4>7
        <4>9. \E n \in 1..maxlockdepth : f[n] = p
          BY <3>2, <4>8, ChainCloses
        <4> QED
          BY <4>4, <4>5, <4>6, <4>9
      <3> QED
        BY <3>3, <3>4
    <2> QED
      BY <2>2 DEF NoRing
  <1> QED
    BY <1>1, <1>2

(* Locks on records alone, set by fcntl, never end in a deadlock, however  *)
(* many processes, files and records there are, as long as lf_setlock      *)
(* looks as far as there are processes: no set of processes waits only for *)
(* one another.                                                            *)
THEOREM DeadlocksRefused ==
    RecordRanges /\ ~Flock /\ DeepEnough /\ Spec => []NoDeadlock
  <1> SUFFICES ASSUME RecordRanges, ~Flock, DeepEnough PROVE Spec => []NoDeadlock
    OBVIOUS
  <1>1. Init => NoRing
    BY DEF Init, NoRing, Ring
  <1>2. Base /\ Base' /\ RecInv /\ RecInv' /\ Awaited /\ NoRing /\ [Next]_vars => NoRing'
    BY StepRing
  <1>3. Base /\ RecInv /\ Awaited /\ NoRing => NoDeadlock
    BY NoRingNoDeadlock
  <1> QED
    BY <1>1, <1>2, <1>3, AlwaysBase, AlwaysRec, AlwaysAwaited, PTL DEF Spec
=============================================================================
