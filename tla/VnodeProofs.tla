---------------------------- MODULE VnodeProofs ----------------------------
(***************************************************************************)
(* Proofs about vnodes, the name cache and the MS-DOS file system (Vnode), *)
(* for any numbers of processes, vnodes, names, slots and cache entries,   *)
(* as long as nobody unmounts; what they say of names, as long as malloc   *)
(* does not sleep.                                                         *)
(***************************************************************************)
EXTENDS Vnode, TLAPS, NaturalsInduction, WellFoundedInduction, FiniteSetTheorems,
        SequenceTheorems

(* Nobody unmounts.  An unmount that goes on to a vnode which was cleaned  *)
(* out meanwhile (vfs_subr.c:785) leaves VXLOCK on it and sleeps for ever. *)
NoUnmount == \A m \in Mixes : "unmount" \notin m

-----------------------------------------------------------------------------
(* What the variables are.                                                 *)
PCs == {"idle", "cross", "deget", "vgone", "vclean", "vinvalbuf", "newvnode",
        "cache", "cfail", "clock", "enter", "malloc", "search", "scan", "createde",
        "bwrite", "markdel", "removede", "found", "enoent",
        "rele", "inactive", "detrunc", "deupdat", "updated"}
SomeVnode == Vnodes \cup {None}
Places    == Slots \cup {RootSlot, None}
Chans     == {DeChan(v) : v \in Vnodes} \cup {VxChan(v) : v \in Vnodes}

VnRec == [use : Nat, xlock : BOOLEAN, xwant : BOOLEAN, bad : BOOLEAN,
          lock : Procs \cup {None}, want : BOOLEAN, upd : BOOLEAN,
          slot : Places, name : Names \cup {None}, ref : {0, 1}, del : BOOLEAN]
StRec == [pc : PCs, call : {"open", "create", "unlink", None}, name : Names \cup {None},
          slot : Places, dvp : SomeVnode, vp : SomeVnode, ret : {"root", "leaf", "new", None},
          gvp : SomeVnode, gret : {"newvnode", "rele", None}, rel : Seq(Vnodes),
          keep : BOOLEAN, nvp : {None}, busy : {FALSE}]
Entry == [dvp : Vnodes, dvpid : BOOLEAN, name : Names, vp : SomeVnode, vpid : BOOLEAN]

Types ==
    /\ vn \in [Vnodes -> VnRec] /\ vfree \in Seq(Vnodes) /\ mntlist \in Seq(Vnodes)
    /\ nc \in Seq(Entry) /\ numcache \in Nat /\ Len(nc) <= numcache
    /\ dir \in [Slots -> Names \cup {None}]
    /\ bp \in Procs \cup {None} /\ cov \in Procs \cup {None} /\ cpu \in Procs \cup {None}
    /\ st \in [Procs -> StRec] /\ held \in [Procs -> SomeVnode]
    /\ wchan \in [Procs -> Chans \cup {None}]
    /\ "unmount" \notin calls

(* What a process is about, by its record: to take a vnode for a new file, *)
(* in deget, giving up what it has.                                        *)
Making(r)  == r.pc = "newvnode" \/ r.gret = "newvnode"
Getting(r) == r.pc = "deget" \/ Making(r)
Letting(r) == \/ r.pc \in {"rele", "inactive", "detrunc", "deupdat", "updated"}
              \/ r.gret = "rele"
(* It works on a vnode that has no reference.                              *)
Cleaning   == {"vclean", "vinvalbuf"}
Inactive   == {"detrunc", "deupdat", "updated"}
Working    == {"inactive", "vgone", "newvnode"} \cup Cleaning \cup Inactive

(* It has the directory locked, the file locked, the buffer, the mount     *)
(* point.                                                                  *)
InDir(r)   == \/ r.pc \in {"cache", "cfail", "clock", "search", "scan", "createde",
                           "bwrite", "markdel", "removede", "enoent"}
              \/ Getting(r) /\ r.ret # "root"
              \/ r.pc \in {"enter", "malloc"} /\ (r.vp = None \/ r.call # "open")
              \/ r.pc = "found" /\ r.call # "open"
HasLeaf(r) == \/ r.pc \in {"bwrite", "markdel", "removede", "found", "enter", "malloc"}
              \/ r.keep
HasBuf(r)  == \/ r.pc \in {"scan", "bwrite", "removede", "updated"}
              \/ Getting(r) /\ r.ret # "root"
HasRoot(r) == Getting(r) /\ r.ret = "root"
Unlinks(r) == \/ r.pc \in {"markdel", "removede"}
              \/ r.pc = "found" /\ r.call = "unlink"

(* What is still to be released is what the process has, but for a file    *)
(* that it keeps.                                                          *)
Leaves(r) ==
    \/ r.rel = <<>> /\ r.dvp = None /\ (r.vp # None <=> r.keep)
    \/ r.dvp # None /\ r.rel = <<r.dvp>> /\ (r.vp # None <=> r.keep)
    \/ r.vp # None /\ r.dvp = None /\ r.rel = <<r.vp>> /\ ~r.keep
    \/ r.vp # None /\ r.dvp # None /\ r.rel = <<r.vp, r.dvp>> /\ ~r.keep

Shape(r) ==
    /\ r.gret # None <=> r.pc \in {"vgone"} \cup Cleaning
    /\ r.gvp # None <=> r.pc \in Working
    /\ Getting(r) =>
          /\ r.vp = None
          /\ \/ r.ret = "root" /\ r.slot = RootSlot /\ r.dvp = None
             \/ r.ret \in {"leaf", "new"} /\ r.slot \in Slots /\ r.dvp # None
    /\ r.pc \in {"idle", "cross"} => r.dvp = None /\ r.vp = None
    /\ r.pc \in {"cache", "cfail", "search", "scan", "createde", "enoent"} =>
          r.dvp # None /\ r.vp = None
    /\ r.pc \in {"clock", "bwrite", "markdel", "removede", "found"} =>
          r.dvp # None /\ r.vp # None
    /\ r.pc \in {"enter", "malloc"} => r.dvp # None
    /\ r.pc \in {"clock", "enter", "malloc"} => r.call # "unlink"
    /\ r.pc \in {"createde", "bwrite"} \/ (Getting(r) /\ r.ret = "new") => r.call = "create"
    /\ r.pc = "createde" => r.slot \in Slots
    /\ Letting(r) => Leaves(r)
    /\ ~Letting(r) => ~r.keep
    /\ ~Letting(r) /\ r.pc # "idle" =>
          r.call \in {"open", "create", "unlink"} /\ r.name \in Names

Own(p) ==
    /\ Shape(st[p])
    /\ st[p].call \in {"open", "create"} \/ st[p].keep => held[p] = None
    /\ HasBuf(st[p]) => bp = p
    /\ HasRoot(st[p]) => cov = p
    /\ cpu = p => wchan[p] = None
    /\ st[p].pc \in {"inactive", "vgone"} => cpu = p
(* The slot it makes a denode for still has none.                          *)
ProcOK(p) == Own(p) /\ (Making(st[p]) => InHash(st[p].slot) = {})

VnodeOK(v) ==
    /\ vn[v].bad => vn[v] = NoFile
    /\ vn[v].xlock => vn[v].use = 0
    /\ ~vn[v].bad => vn[v].slot \in Slots \cup {RootSlot}
    /\ ~vn[v].bad /\ vn[v].slot = RootSlot => vn[v].ref = 1 /\ ~vn[v].upd

MayLock(r, v) == r.dvp = v \/ r.vp = v \/ (r.gvp = v /\ r.pc \in Inactive \cup {"vinvalbuf"})

(* What process p has to do with vnode v.                                  *)
Refers(p, v) ==
    /\ st[p].dvp = v => vn[v].slot = RootSlot /\ (InDir(st[p]) => vn[v].lock = p)
    /\ st[p].vp = v  => /\ vn[v].slot \in Slots
                        /\ HasLeaf(st[p]) => vn[v].lock = p
                        /\ Unlinks(st[p]) => vn[v].ref = 1
    /\ held[p] = v => vn[v].slot \in Slots
    /\ vn[v].lock = p => MayLock(st[p], v)
Works(p, v) == st[p].gvp = v =>
    /\ st[p].pc = "inactive" =>
          vn[v].use = 0 /\ ~vn[v].bad /\ ~vn[v].xlock /\ vn[v].lock = None
    /\ st[p].pc = "vgone" => vn[v].use = 0 /\ ~vn[v].bad
    /\ st[p].pc \in Inactive =>
          /\ vn[v].lock = p /\ vn[v].slot \in Slots
          /\ st[p].vp # v /\ held[p] # v
    /\ st[p].pc \in Cleaning => vn[v].xlock
    /\ st[p].pc = "vinvalbuf" => vn[v].lock = p
    /\ st[p].pc = "newvnode" =>
          vn[v] = NoFile \/ (vn[v].xlock /\ wchan[p] = VxChan(v))
Sleeps(p, v) ==
    /\ wchan[p] = DeChan(v) => vn[v].lock # None /\ vn[v].want
    /\ wchan[p] = VxChan(v) => vn[v].xlock /\ vn[v].xwant
Pair(p, v) == Refers(p, v) /\ Works(p, v) /\ Sleeps(p, v)

(* Two processes do not clean out or take the same vnode, and nobody gets  *)
(* further than VOP_LOCK with one that another works on.                   *)
Apart(p, q, v) ==
    /\ st[p].gvp = v /\ st[q].gvp = v =>
          /\ ~(st[p].pc \in Cleaning /\ st[q].pc \in Cleaning)
          /\ ~(Making(st[p]) /\ Making(st[q]))
    /\ st[q].gvp = v /\ st[q].pc \in Inactive =>
          held[p] # v /\ (st[p].vp = v => st[p].pc = "clock")

Once(s) == \A i, j \in DOMAIN s : s[i] = s[j] => i = j
FreeOK  == Once(vfree) /\ \A v \in Vnodes : InSeq(v, vfree) <=> vn[v].use = 0 /\ ~Taken(v)

Refs(v) == Cardinality({p \in Procs : st[p].dvp = v}) + Cardinality({p \in Procs : st[p].vp = v})
           + Cardinality({p \in Procs : held[p] = v})
Counts  == \A v \in Vnodes : vn[v].use = Refs(v)

(* A cache entry with the number of a vnode names a file that is there.    *)
Valid(e) == e.vp # None /\ e.vpid
CacheOK == \A i \in DOMAIN nc : Valid(nc[i]) => ~vn[nc[i].vp].bad /\ vn[nc[i].vp].slot \in Slots
CacheBound == numcache + Cardinality({p \in Procs : st[p].pc = "malloc"})
                 <= MaxCache + Cardinality(Procs)

Core ==
    /\ Types
    /\ \A p \in Procs : ProcOK(p)
    /\ \A v \in Vnodes : VnodeOK(v)
    /\ \A p \in Procs, v \in Vnodes : Pair(p, v)
    /\ \A p, q \in Procs, v \in Vnodes : p # q => Apart(p, q, v)
    /\ FreeOK /\ Counts /\ OneDenode /\ CacheOK /\ CacheBound

-----------------------------------------------------------------------------
(* Constants.                                                              *)
LEMMA NoneApart ==
    /\ None \notin Procs /\ None \notin Vnodes /\ None \notin Names
    /\ None \notin {"open", "create", "unlink", "unmount", "newvnode", "rele"}
    /\ \A v \in Vnodes : None # DeChan(v) /\ None # VxChan(v)
    /\ IsFiniteSet(Procs) /\ IsFiniteSet(Vnodes) /\ NSlots \in Nat /\ MaxCache \in Nat
  BY VnodeAssumption DEF DeChan, VxChan

LEMMA ChansApart ==
    ASSUME NEW v, NEW w
    PROVE  /\ DeChan(v) # VxChan(w) /\ (DeChan(v) = DeChan(w) => v = w)
           /\ (VxChan(v) = VxChan(w) => v = w)
  BY DEF DeChan, VxChan

-----------------------------------------------------------------------------
(* Lists.                                                                  *)
LEMMA UnlinkPlaces ==
    ASSUME NEW S, NEW s \in Seq(S), NEW i \in DOMAIN s
    PROVE  /\ Unlink(s, i) \in Seq(S) /\ Len(Unlink(s, i)) = Len(s) - 1
           /\ \A j \in DOMAIN Unlink(s, i) :
                 Unlink(s, i)[j] = IF j < i THEN s[j] ELSE s[j + 1]
  <1>1. i \in 1..Len(s) /\ Len(s) \in Nat
    OBVIOUS
  <1> DEFINE a == SubSeq(s, 1, i - 1)
             b == SubSeq(s, i + 1, Len(s))
  <1>2. /\ a \in Seq(S) /\ Len(a) = i - 1
        /\ \A j \in 1..(i - 1) : a[j] = s[j]
    BY <1>1, SubSeqProperties
  <1>3. /\ b \in Seq(S) /\ Len(b) = Len(s) - i
        /\ \A j \in 1..(Len(s) - i) : b[j] = s[i + j]
    BY <1>1, SubSeqProperties
  <1>4. Unlink(s, i) = a \o b
    BY DEF Unlink
  <1> HIDE DEF a, b
  <1>5. /\ a \o b \in Seq(S) /\ Len(a \o b) = Len(a) + Len(b)
        /\ \A j \in 1..(Len(a) + Len(b)) : (a \o b)[j] = IF j <= Len(a) THEN a[j] ELSE b[j - Len(a)]
    BY <1>2, <1>3, ConcatProperties
  <1>6. Len(a) + Len(b) = Len(s) - 1
    BY <1>1, <1>2, <1>3
  <1>7. ASSUME NEW j \in 1..(Len(s) - 1)
        PROVE  (a \o b)[j] = IF j < i THEN s[j] ELSE s[j + 1]
    <2>1. CASE j < i
      BY <2>1, <1>1, <1>2, <1>5, <1>6
    <2>2. CASE ~(j < i)
      <3>1. j - Len(a) \in 1..(Len(s) - i) /\ i + (j - Len(a)) = j + 1 /\ ~(j <= Len(a))
        BY <2>2, <1>1, <1>2
      <3> QED
        BY <2>2, <3>1, <1>3, <1>5, <1>6
    <2> QED
      BY <2>1, <2>2
  <1>8. DOMAIN (a \o b) = 1..(Len(s) - 1)
    BY <1>5, <1>6
  <1> QED
    BY <1>4, <1>5, <1>6, <1>7, <1>8

(* Unlinking x takes x away and leaves the rest.                           *)
LEMMA WithoutType ==
    ASSUME NEW S, NEW s \in Seq(S), NEW x
    PROVE  Without(s, x) \in Seq(S)
  <1>1. CASE InSeq(x, s)
    <2>1. (CHOOSE i \in DOMAIN s : s[i] = x) \in DOMAIN s
      BY <1>1 DEF InSeq
    <2> QED
      BY <1>1, <2>1, UnlinkPlaces DEF Without
  <1>2. CASE ~InSeq(x, s)
    BY <1>2 DEF Without
  <1> QED
    BY <1>1, <1>2

LEMMA WithoutOnce ==
    ASSUME NEW S, NEW s \in Seq(S), NEW x, Once(s)
    PROVE  /\ Once(Without(s, x))
           /\ \A y : InSeq(y, Without(s, x)) <=> InSeq(y, s) /\ y # x
  <1>1. CASE ~InSeq(x, s)
    BY <1>1 DEF Without, InSeq
  <1>2. CASE InSeq(x, s)
    <2>1. PICK k \in DOMAIN s : s[k] = x /\ Without(s, x) = Unlink(s, k)
      BY <1>2 DEF InSeq, Without
    <2>2. PICK t : t = Without(s, x)
      OBVIOUS
    <2>3. /\ t \in Seq(S) /\ Len(t) = Len(s) - 1
          /\ \A j \in DOMAIN t : t[j] = IF j < k THEN s[j] ELSE s[j + 1]
      BY <2>1, <2>2, UnlinkPlaces
    <2>4. /\ DOMAIN s = 1..Len(s) /\ DOMAIN t = 1..(Len(s) - 1) /\ Len(s) \in Nat
          /\ k \in 1..Len(s)
      BY <2>3
    <2>5. \A j \in DOMAIN t : /\ t[j] # x
                              /\ j < k => t[j] = s[j] /\ j \in DOMAIN s
                              /\ ~(j < k) => t[j] = s[j + 1] /\ j + 1 \in DOMAIN s
      <3> SUFFICES ASSUME NEW j \in DOMAIN t
                   PROVE  /\ t[j] # x
                          /\ j < k => t[j] = s[j] /\ j \in DOMAIN s
                          /\ ~(j < k) => t[j] = s[j + 1] /\ j + 1 \in DOMAIN s
        OBVIOUS
      <3>1. j \in DOMAIN s /\ j + 1 \in DOMAIN s /\ j \in Int
        BY <2>4
      <3>2. CASE j < k
        BY <3>1, <3>2, <2>1, <2>3, <2>4 DEF Once
      <3>3. CASE ~(j < k)
        BY <3>1, <3>3, <2>1, <2>3, <2>4 DEF Once
      <3> QED
        BY <3>2, <3>3
    <2>6. Once(t)
      <3> SUFFICES ASSUME NEW i \in DOMAIN t, NEW j \in DOMAIN t, t[i] = t[j]
                   PROVE  i = j
        BY DEF Once
      <3>1. PICK m \in DOMAIN s : t[i] = s[m] /\ m = IF i < k THEN i ELSE i + 1
        BY <2>5
      <3>2. PICK n \in DOMAIN s : t[j] = s[n] /\ n = IF j < k THEN j ELSE j + 1
        BY <2>5
      <3>3. m = n
        BY <3>1, <3>2 DEF Once
      <3> QED
        BY <3>1, <3>2, <3>3, <2>4
    <2>7. \A y : InSeq(y, t) => InSeq(y, s) /\ y # x
      BY <2>5 DEF InSeq
    <2>8. ASSUME NEW y, InSeq(y, s), y # x
          PROVE  InSeq(y, t)
      <3>1. PICK m \in DOMAIN s : s[m] = y
        BY <2>8 DEF InSeq
      <3>2. m # k
        BY <3>1, <2>1, <2>8
      <3>3. CASE m < k
        <4>1. m \in DOMAIN t /\ t[m] = s[m]
          BY <3>3, <2>3, <2>4
        <4> QED
          BY <3>1, <4>1 DEF InSeq
      <3>4. CASE ~(m < k)
        <4>1. m - 1 \in DOMAIN t /\ ~(m - 1 < k) /\ (m - 1) + 1 = m
          BY <3>2, <3>4, <2>4
        <4>2. t[m - 1] = s[m]
          BY <4>1, <2>3
        <4> QED
          BY <3>1, <4>1, <4>2 DEF InSeq
      <3> QED
        BY <3>3, <3>4
    <2> QED
      BY <2>2, <2>6, <2>7, <2>8
  <1> QED
    BY <1>1, <1>2

LEMMA TailOnce ==
    ASSUME NEW S, NEW s \in Seq(S), s # <<>>, Once(s)
    PROVE  /\ Tail(s) \in Seq(S) /\ Head(s) \in S /\ InSeq(Head(s), s) /\ Once(Tail(s))
           /\ \A y : InSeq(y, Tail(s)) <=> InSeq(y, s) /\ y # Head(s)
  <1>1. PICK t : t = Tail(s)
    OBVIOUS
  <1>2. /\ t \in Seq(S) /\ Len(t) = Len(s) - 1 /\ Head(s) = s[1] /\ Len(s) \in Nat \ {0}
        /\ \A j \in 1..Len(t) : t[j] = s[j + 1]
    BY <1>1, HeadTailProperties
  <1>3. DOMAIN s = 1..Len(s) /\ DOMAIN t = 1..(Len(s) - 1) /\ 1 \in DOMAIN s
    BY <1>2
  <1>4. \A j \in DOMAIN t : t[j] = s[j + 1] /\ j + 1 \in DOMAIN s /\ j + 1 # 1
    BY <1>2, <1>3
  <1>5. \A j \in DOMAIN t : t[j] # s[1]
    BY <1>3, <1>4 DEF Once
  <1>6. Once(t)
    <2> SUFFICES ASSUME NEW i \in DOMAIN t, NEW j \in DOMAIN t, t[i] = t[j]
                 PROVE  i = j
      BY DEF Once
    <2>1. i + 1 = j + 1
      BY <1>4 DEF Once
    <2> QED
      BY <2>1, <1>3
  <1>7. \A y : InSeq(y, t) => InSeq(y, s) /\ y # Head(s)
    BY <1>2, <1>4, <1>5 DEF InSeq
  <1>8. ASSUME NEW y, InSeq(y, s), y # Head(s)
        PROVE  InSeq(y, t)
    <2>1. PICK m \in DOMAIN s : s[m] = y
      BY <1>8 DEF InSeq
    <2>2. m - 1 \in DOMAIN t /\ (m - 1) + 1 = m
      BY <2>1, <1>2, <1>3, <1>8
    <2> QED
      BY <2>1, <2>2, <1>4 DEF InSeq
  <1>9. Head(s) \in S /\ InSeq(Head(s), s)
    BY <1>2, <1>3 DEF InSeq
  <1> QED
    BY <1>1, <1>2, <1>6, <1>7, <1>8, <1>9

LEMMA AppendOnce ==
    ASSUME NEW S, NEW s \in Seq(S), NEW x \in S, Once(s), ~InSeq(x, s)
    PROVE  /\ Append(s, x) \in Seq(S) /\ Once(Append(s, x))
           /\ \A y : InSeq(y, Append(s, x)) <=> InSeq(y, s) \/ y = x
  <1>1. PICK t : t = Append(s, x)
    OBVIOUS
  <1>2. /\ t \in Seq(S) /\ DOMAIN t = 1..(Len(s) + 1) /\ DOMAIN s = 1..Len(s) /\ Len(s) \in Nat
        /\ \A j \in 1..Len(s) : t[j] = s[j]
        /\ t[Len(s) + 1] = x
    BY <1>1, AppendProperties
  <1>3. \A j \in DOMAIN t : j = Len(s) + 1 \/ (j \in DOMAIN s /\ t[j] = s[j] /\ t[j] # x)
    BY <1>2 DEF InSeq
  <1>4. Once(t)
    BY <1>2, <1>3 DEF Once
  <1>5. \A y : InSeq(y, t) => InSeq(y, s) \/ y = x
    BY <1>2, <1>3 DEF InSeq
  <1>6. \A y : InSeq(y, s) => InSeq(y, t)
    BY <1>2 DEF InSeq
  <1>7. InSeq(x, t)
    BY <1>2 DEF InSeq
  <1> QED
    BY <1>1, <1>2, <1>4, <1>5, <1>6, <1>7

LEMMA ConsPlaces ==
    ASSUME NEW S, NEW s \in Seq(S), NEW x \in S
    PROVE  /\ <<x>> \o s \in Seq(S) /\ Len(<<x>> \o s) = Len(s) + 1
           /\ \A j \in DOMAIN (<<x>> \o s) :
                 (<<x>> \o s)[j] = IF j = 1 THEN x ELSE s[j - 1]
  <1>1. <<x>> \in Seq(S) /\ Len(<<x>>) = 1 /\ <<x>>[1] = x
    OBVIOUS
  <1>2. PICK u : u = <<x>>
    OBVIOUS
  <1>3. /\ u \o s \in Seq(S) /\ Len(u \o s) = Len(u) + Len(s)
        /\ \A j \in 1..(Len(u) + Len(s)) : (u \o s)[j] = IF j <= Len(u) THEN u[j] ELSE s[j - Len(u)]
    BY <1>1, <1>2, ConcatProperties
  <1>4. Len(s) \in Nat /\ DOMAIN (u \o s) = 1..(Len(s) + 1)
    BY <1>1, <1>2, <1>3
  <1>5. \A j \in DOMAIN (u \o s) : (u \o s)[j] = IF j = 1 THEN x ELSE s[j - 1]
    BY <1>1, <1>2, <1>3, <1>4
  <1> QED
    BY <1>1, <1>2, <1>3, <1>4, <1>5

LEMMA ConsOnce ==
    ASSUME NEW S, NEW s \in Seq(S), NEW x \in S, Once(s), ~InSeq(x, s)
    PROVE  /\ Once(<<x>> \o s)
           /\ \A y : InSeq(y, <<x>> \o s) <=> InSeq(y, s) \/ y = x
  <1>1. PICK t : t = <<x>> \o s
    OBVIOUS
  <1>2. /\ t \in Seq(S) /\ Len(t) = Len(s) + 1
        /\ \A j \in DOMAIN t : t[j] = IF j = 1 THEN x ELSE s[j - 1]
    BY <1>1, ConsPlaces
  <1>3. DOMAIN t = 1..(Len(s) + 1) /\ DOMAIN s = 1..Len(s) /\ Len(s) \in Nat
    BY <1>2
  <1>4. \A j \in DOMAIN t : \/ j = 1 /\ t[j] = x
                            \/ j - 1 \in DOMAIN s /\ t[j] = s[j - 1] /\ t[j] # x
    BY <1>2, <1>3 DEF InSeq
  <1>5. Once(t)
    <2> SUFFICES ASSUME NEW i \in DOMAIN t, NEW j \in DOMAIN t, t[i] = t[j]
                 PROVE  i = j
      BY DEF Once
    <2>1. CASE t[i] = x
      BY <2>1, <1>4
    <2>2. CASE t[i] # x
      <3>1. i - 1 = j - 1
        BY <2>2, <1>4 DEF Once
      <3> QED
        BY <3>1, <1>3
    <2> QED
      BY <2>1, <2>2
  <1>6. \A y : InSeq(y, t) => InSeq(y, s) \/ y = x
    BY <1>4 DEF InSeq
  <1>7. ASSUME NEW y, InSeq(y, s)
        PROVE  InSeq(y, t)
    <2>1. PICK m \in DOMAIN s : s[m] = y
      BY <1>7 DEF InSeq
    <2>2. m + 1 \in DOMAIN t /\ (m + 1) - 1 = m /\ m + 1 # 1
      BY <2>1, <1>3
    <2> QED
      BY <2>1, <2>2, <1>2 DEF InSeq
  <1>8. InSeq(x, t)
    BY <1>2, <1>3 DEF InSeq
  <1> QED
    BY <1>1, <1>5, <1>6, <1>7, <1>8

-----------------------------------------------------------------------------
(* References.                                                             *)
One(c) == IF c THEN 1 ELSE 0

LEMMA CardMoves ==
    ASSUME NEW p \in Procs, NEW S, NEW T, S \subseteq Procs, T \subseteq Procs,
           \A q \in Procs : q # p => (q \in S <=> q \in T)
    PROVE  /\ Cardinality(S) \in Nat /\ Cardinality(T) \in Nat
           /\ Cardinality(T) = Cardinality(S) + One(p \in T) - One(p \in S)
  <1> DEFINE Rest == S \ {p}
  <1>1. IsFiniteSet(Rest) /\ p \notin Rest
    <2>1. Rest \in SUBSET Procs
      OBVIOUS
    <2> QED
      BY <2>1, NoneApart, FS_Subset
  <1>2. /\ S = IF p \in S THEN Rest \cup {p} ELSE Rest
        /\ T = IF p \in T THEN Rest \cup {p} ELSE Rest
    OBVIOUS
  <1>3. Cardinality(Rest) \in Nat /\ Cardinality(Rest \cup {p}) = Cardinality(Rest) + 1
    BY <1>1, FS_AddElement, FS_CardinalityType
  <1> HIDE DEF Rest
  <1>4. ASSUME NEW X, X = IF p \in X THEN Rest \cup {p} ELSE Rest
        PROVE  Cardinality(X) = Cardinality(Rest) + One(p \in X)
    <2>1. CASE p \in X
      <3>1. X = Rest \cup {p} /\ One(p \in X) = 1
        BY <1>4, <2>1 DEF One
      <3> QED
        BY <1>3, <3>1
    <2>2. CASE p \notin X
      <3>1. X = Rest /\ One(p \in X) = 0
        BY <1>4, <2>2 DEF One
      <3> QED
        BY <1>3, <3>1
    <2> QED
      BY <2>1, <2>2
  <1>5. /\ Cardinality(S) = Cardinality(Rest) + One(p \in S)
        /\ Cardinality(T) = Cardinality(Rest) + One(p \in T)
    BY <1>2, <1>4
  <1>6. One(p \in S) \in {0, 1} /\ One(p \in T) \in {0, 1}
    BY DEF One
  <1> QED
    BY <1>3, <1>5, <1>6

LEMMA Recount ==
    ASSUME NEW p \in Procs, NEW v,
           \A q \in Procs : q # p => st'[q] = st[q] /\ held'[q] = held[q]
    PROVE  /\ Refs(v) \in Nat /\ Refs(v)' \in Nat
           /\ Refs(v)' = Refs(v) + One(st'[p].dvp = v) - One(st[p].dvp = v)
                         + One(st'[p].vp = v) - One(st[p].vp = v)
                         + One(held'[p] = v) - One(held[p] = v)
  <1>1. PICK D, DD : D = {q \in Procs : st[q].dvp = v} /\ DD = {q \in Procs : st'[q].dvp = v}
    OBVIOUS
  <1>2. PICK L, LL : L = {q \in Procs : st[q].vp = v} /\ LL = {q \in Procs : st'[q].vp = v}
    OBVIOUS
  <1>3. PICK H, HH : H = {q \in Procs : held[q] = v} /\ HH = {q \in Procs : held'[q] = v}
    OBVIOUS
  <1>4. /\ Cardinality(D) \in Nat /\ Cardinality(DD) \in Nat
        /\ Cardinality(DD) = Cardinality(D) + One(p \in DD) - One(p \in D)
    <2>1. D \subseteq Procs /\ DD \subseteq Procs /\ \A q \in Procs : q # p => (q \in D <=> q \in DD)
      BY <1>1
    <2> QED
      BY <2>1, CardMoves
  <1>5. /\ Cardinality(L) \in Nat /\ Cardinality(LL) \in Nat
        /\ Cardinality(LL) = Cardinality(L) + One(p \in LL) - One(p \in L)
    <2>1. L \subseteq Procs /\ LL \subseteq Procs /\ \A q \in Procs : q # p => (q \in L <=> q \in LL)
      BY <1>2
    <2> QED
      BY <2>1, CardMoves
  <1>6. /\ Cardinality(H) \in Nat /\ Cardinality(HH) \in Nat
        /\ Cardinality(HH) = Cardinality(H) + One(p \in HH) - One(p \in H)
    <2>1. H \subseteq Procs /\ HH \subseteq Procs /\ \A q \in Procs : q # p => (q \in H <=> q \in HH)
      BY <1>3
    <2> QED
      BY <2>1, CardMoves
  <1>7. /\ Refs(v) = Cardinality(D) + Cardinality(L) + Cardinality(H)
        /\ Refs(v)' = Cardinality(DD) + Cardinality(LL) + Cardinality(HH)
    BY <1>1, <1>2, <1>3 DEF Refs
  <1>8. /\ One(p \in D) = One(st[p].dvp = v) /\ One(p \in DD) = One(st'[p].dvp = v)
        /\ One(p \in L) = One(st[p].vp = v) /\ One(p \in LL) = One(st'[p].vp = v)
        /\ One(p \in H) = One(held[p] = v) /\ One(p \in HH) = One(held'[p] = v)
    BY <1>1, <1>2, <1>3 DEF One
  <1>9. /\ One(p \in D) \in {0, 1} /\ One(p \in DD) \in {0, 1} /\ One(p \in L) \in {0, 1}
        /\ One(p \in LL) \in {0, 1} /\ One(p \in H) \in {0, 1} /\ One(p \in HH) \in {0, 1}
    BY DEF One
  <1> QED
    BY <1>4, <1>5, <1>6, <1>7, <1>8, <1>9

LEMMA RefsNat ==
    ASSUME NEW v
    PROVE  /\ Cardinality({p \in Procs : st[p].dvp = v}) \in Nat
           /\ Cardinality({p \in Procs : st[p].vp = v}) \in Nat
           /\ Cardinality({p \in Procs : held[p] = v}) \in Nat
           /\ \A p \in Procs : st[p].dvp = v \/ st[p].vp = v \/ held[p] = v => Refs(v) > 0
  <1>1. PICK D, L, H : /\ D = {q \in Procs : st[q].dvp = v} /\ L = {q \in Procs : st[q].vp = v}
                       /\ H = {q \in Procs : held[q] = v}
    OBVIOUS
  <1>2. D \in SUBSET Procs /\ L \in SUBSET Procs /\ H \in SUBSET Procs
    BY <1>1
  <1>3. IsFiniteSet(D) /\ IsFiniteSet(L) /\ IsFiniteSet(H)
    BY <1>2, NoneApart, FS_Subset
  <1>4. Cardinality(D) \in Nat /\ Cardinality(L) \in Nat /\ Cardinality(H) \in Nat
    BY <1>3, FS_CardinalityType
  <1>5. (D # {} => Cardinality(D) # 0) /\ (L # {} => Cardinality(L) # 0) /\ (H # {} => Cardinality(H) # 0)
    BY <1>3, FS_EmptySet
  <1>6. Refs(v) = Cardinality(D) + Cardinality(L) + Cardinality(H)
    BY <1>1 DEF Refs
  <1>7. ASSUME NEW p \in Procs, st[p].dvp = v \/ st[p].vp = v \/ held[p] = v
        PROVE  Refs(v) > 0
    <2>1. p \in D \/ p \in L \/ p \in H
      BY <1>1, <1>7
    <2>2. Cardinality(D) # 0 \/ Cardinality(L) # 0 \/ Cardinality(H) # 0
      BY <2>1, <1>5
    <2> QED
      BY <2>2, <1>4, <1>6
  <1> QED
    BY <1>1, <1>4, <1>7

(* A vnode that somebody refers to is in use, so nobody cleans it out.     *)
LEMMA InUse ==
    ASSUME Core, NEW p \in Procs, NEW v \in Vnodes, st[p].dvp = v \/ st[p].vp = v \/ held[p] = v
    PROVE  vn[v].use > 0 /\ ~vn[v].bad /\ ~vn[v].xlock /\ vn[v] # NoFile
  <1>1. vn[v].use > 0
    <2>1. vn[v].use = Refs(v)
      BY DEF Core, Counts
    <2> QED
      BY <2>1, RefsNat
  <1>2. VnodeOK(v)
    BY DEF Core
  <1>3. NoFile.use = 0
    BY DEF NoFile
  <1> QED
    BY <1>1, <1>2, <1>3 DEF VnodeOK

-----------------------------------------------------------------------------
(* What a step of p does to others.                                        *)
Others(p) == \A q \in Procs : q # p =>
    /\ st'[q] = st[q] /\ held'[q] = held[q]
    /\ wchan'[q] = wchan[q] \/ wchan'[q] = None

(* What it may do to a vnode: it may lock and unlock it, count it, forbid  *)
(* or end its use; it may clean it out, or make a file of it.              *)
Mild(p, v) ==
    /\ vn'[v].bad = vn[v].bad /\ vn'[v].slot = vn[v].slot
    /\ vn[v].xlock => vn'[v].xlock
    /\ vn[v].xwant => vn'[v].xwant
    /\ vn'[v].lock = vn[v].lock \/ (vn[v].lock \in {p, None} /\ vn'[v].lock \in {p, None})
    /\ vn'[v].ref = vn[v].ref \/ (vn'[v].ref < vn[v].ref /\ vn[v].lock = p)
    /\ vn[v] = NoFile => vn'[v] = vn[v]
    /\ \A q \in Procs : wchan[q] = VxChan(v) => wchan'[q] = wchan[q]
    /\ \/ vn[v].lock # None /\ vn[v].want => vn'[v].lock # None /\ vn'[v].want
       \/ \A q \in Procs : wchan'[q] # DeChan(v)
Reclaimed(p, v) ==
    /\ st[p].gvp = v /\ st[p].pc = "vinvalbuf" /\ vn'[v] = NoFile
    /\ \A q \in Procs : wchan'[q] # DeChan(v) /\ wchan'[q] # VxChan(v)
Made(p, v) ==
    /\ st[p].gvp = v /\ st[p].pc = "newvnode" /\ vn[v] = NoFile
    /\ vn'[v].lock = p /\ vn'[v].slot = st[p].slot
Changed(p, v) == Mild(p, v) \/ Reclaimed(p, v) \/ Made(p, v)

(* When it may begin to work on a vnode or to use one.                     *)
Begins(p, v) ==
    /\ st'[p].gvp = v /\ st'[p].pc \in Cleaning =>
          (st[p].gvp = v /\ st[p].pc \in Cleaning) \/ ~vn[v].xlock
    /\ st'[p].gvp = v /\ Making(st'[p]) => (st[p].gvp = v /\ Making(st[p])) \/ InSeq(v, vfree)
    /\ st'[p].gvp = v /\ st'[p].pc \in Inactive =>
          (st[p].gvp = v /\ st[p].pc \in Inactive) \/ vn[v].use = 0
    /\ held'[p] = v \/ (st'[p].vp = v /\ st'[p].pc # "clock") =>
          \/ held[p] = v \/ (st[p].vp = v /\ st[p].pc # "clock")
          \/ vn[v].lock \in {p, None}

Legal(p) ==
    /\ Others(p)
    /\ cpu \in {p, None} /\ cpu' \in {p, None}
    /\ bp' = bp \/ (bp \in {p, None} /\ bp' \in {p, None})
    /\ cov' = cov \/ (cov \in {p, None} /\ cov' \in {p, None})
    /\ \A v \in Vnodes : Changed(p, v) /\ Begins(p, v)
    /\ Making(st'[p]) => /\ st[p].pc # "newvnode"
                         /\ \/ Making(st[p]) /\ st'[p].slot = st[p].slot
                            \/ InHash(st'[p].slot) = {}

LEMMA NoneRefers ==
    ASSUME Core, NEW v \in Vnodes, vn[v].use = 0, NEW q \in Procs
    PROVE  st[q].dvp # v /\ st[q].vp # v /\ held[q] # v
  BY InUse

LEMMA OthersPair ==
    ASSUME Core, NEW p \in Procs, Legal(p), Types', NEW q \in Procs, q # p, NEW v \in Vnodes
    PROVE  Pair(q, v)'
  <1>1. /\ Pair(q, v) /\ Own(q) /\ Apart(p, q, v) /\ Apart(q, p, v) /\ VnodeOK(v) /\ Pair(p, v)
        /\ vn[v] \in VnRec /\ vn'[v] \in VnRec /\ cpu # q
    BY NoneApart DEF Core, ProcOK, Types, Legal
  <1>2. /\ st'[q] = st[q] /\ held'[q] = held[q] /\ (wchan'[q] = wchan[q] \/ wchan'[q] = None)
        /\ Changed(p, v) /\ q # None
        /\ wchan'[q] = None => wchan'[q] # DeChan(v) /\ wchan'[q] # VxChan(v)
    BY NoneApart DEF Legal, Others
  <1>3. st[q].pc \notin {"inactive", "vgone"}
    BY <1>1 DEF Own
  <1>4. CASE Mild(p, v)
    <2>1. Refers(q, v)'
      BY <1>1, <1>2, <1>4 DEF Pair, Refers, Mild, Unlinks, HasLeaf, VnRec
    <2>2. Works(q, v)'
      BY <1>1, <1>2, <1>3, <1>4 DEF Pair, Works, Mild, VnRec
    <2>3. Sleeps(q, v)'
      BY <1>1, <1>2, <1>4 DEF Pair, Sleeps, Mild
    <2> QED
      BY <2>1, <2>2, <2>3 DEF Pair
  <1>5. CASE Reclaimed(p, v)
    <2>1. vn[v].xlock /\ vn[v].lock = p
      BY <1>1, <1>5 DEF Pair, Works, Reclaimed, Cleaning
    <2>2. st[q].dvp # v /\ st[q].vp # v /\ held[q] # v
      BY <2>1, <1>1, NoneRefers DEF VnodeOK
    <2>3. vn'[v].lock = None /\ vn'[v] = NoFile
      BY <1>5 DEF Reclaimed, NoFile
    <2>4. Refers(q, v)'
      BY <1>2, <2>2, <2>3 DEF Refers
    <2>5. st[q].gvp = v => st[q].pc \notin Inactive /\ st[q].pc \notin Cleaning
      BY <1>1, <1>5, <2>1 DEF Pair, Works, Apart, Reclaimed, Cleaning
    <2>6. Works(q, v)'
      BY <1>2, <1>3, <2>3, <2>5 DEF Works, Cleaning
    <2>7. Sleeps(q, v)'
      BY <1>5 DEF Sleeps, Reclaimed
    <2> QED
      BY <2>4, <2>6, <2>7 DEF Pair
  <1>6. CASE Made(p, v)
    <2>1. vn[v].use = 0 /\ vn[v].lock = None /\ ~vn[v].xlock
      BY <1>6 DEF Made, NoFile
    <2>2. st[q].dvp # v /\ st[q].vp # v /\ held[q] # v
      BY <2>1, NoneRefers
    <2>3. vn'[v].lock = p
      BY <1>6 DEF Made
    <2>4. Refers(q, v)'
      BY <1>2, <2>2, <2>3 DEF Refers
    <2>5. st[q].gvp = v => st[q].pc \notin Inactive /\ st[q].pc \notin Cleaning /\ st[q].pc # "newvnode"
      BY <1>1, <1>2, <1>6, <2>1 DEF Pair, Works, Apart, Made, Cleaning, Making
    <2>6. Works(q, v)'
      BY <1>2, <1>3, <2>5 DEF Works, Cleaning
    <2>7. wchan[q] # DeChan(v) /\ wchan[q] # VxChan(v)
      BY <1>1, <2>1 DEF Pair, Sleeps
    <2>8. Sleeps(q, v)'
      BY <1>2, <2>7 DEF Sleeps
    <2> QED
      BY <2>4, <2>6, <2>8 DEF Pair
  <1> QED
    BY <1>2, <1>4, <1>5, <1>6 DEF Changed

LEMMA StayApart ==
    ASSUME Core, NEW p \in Procs, Legal(p), NEW q \in Procs, q # p, NEW v \in Vnodes
    PROVE  Apart(p, q, v)' /\ Apart(q, p, v)'
  <1>1. /\ Apart(p, q, v) /\ Apart(q, p, v) /\ Pair(q, v) /\ Begins(p, v)
        /\ st'[q] = st[q] /\ held'[q] = held[q] /\ q # None
    BY NoneApart DEF Core, Legal, Others
  <1>2. /\ st[q].gvp = v /\ st[q].pc \in Cleaning => vn[v].xlock
        /\ st[q].gvp = v /\ st[q].pc \in Inactive => vn[v].lock = q
    BY <1>1 DEF Pair, Works
  <1>3. st[q].gvp = v /\ Making(st[q]) => ~InSeq(v, vfree)
    BY DEF Core, FreeOK, Taken, Making
  <1>4. vn[v].use = 0 => st[q].vp # v /\ held[q] # v
    BY NoneRefers
  <1>5. Apart(p, q, v)'
    BY <1>1, <1>2, <1>3, <1>4 DEF Apart, Begins
  <1>6. Apart(q, p, v)'
    BY <1>1, <1>2, <1>3, <1>4 DEF Apart, Begins
  <1> QED
    BY <1>5, <1>6

(* A slot gets a denode only from a process that makes one for it.         *)
LEMMA HashShrinks ==
    ASSUME Core, NEW p \in Procs, Legal(p), Types', NEW s, NEW v \in Vnodes,
           ~vn'[v].bad, vn'[v].slot = s, vn'[v].ref > 0, v \notin InHash(s)
    PROVE  Made(p, v)
  <1>1. Changed(p, v) /\ vn[v] \in VnRec /\ vn'[v] \in VnRec
    BY DEF Legal, Core, Types
  <1>2. vn'[v] # NoFile
    BY DEF NoFile
  <1>3. ~Reclaimed(p, v)
    BY <1>2 DEF Reclaimed
  <1>4. ~Mild(p, v)
    BY <1>1 DEF Mild, InHash, VnRec
  <1> QED
    BY <1>1, <1>3, <1>4 DEF Changed

LEMMA HashStep ==
    ASSUME Core, NEW p \in Procs, Legal(p), Types'
    PROVE  OneDenode' /\ \A q \in Procs : Making(st'[q]) => InHash(st[q].slot)' = {}
  <1>1. \A q \in Procs : Own(q) /\ (Making(st[q]) => InHash(st[q].slot) = {})
    BY DEF Core, ProcOK
  <1>2. \A v, w \in Vnodes : Made(p, v) /\ Made(p, w) => v = w
    BY DEF Made
  <1>3. \A v \in Vnodes : Made(p, v) =>
            /\ vn'[v].slot = st[p].slot /\ Making(st[p]) /\ InHash(st[p].slot) = {}
            /\ st[p].pc = "newvnode"
    BY <1>1 DEF Made, Making
  <1>4. \A v, w \in Vnodes : v # w /\ vn[v].slot = vn[w].slot =>
            ~(v \in InHash(vn[v].slot) /\ w \in InHash(vn[v].slot))
    BY DEF Core, OneDenode, InHash
  <1>5. OneDenode'
    <2> SUFFICES ASSUME NEW v \in Vnodes, NEW w \in Vnodes, v # w, ~vn'[v].bad, ~vn'[w].bad,
                        vn'[v].ref > 0, vn'[w].ref > 0, vn'[v].slot = vn'[w].slot
                 PROVE  FALSE
      BY DEF OneDenode
    <2>1. PICK s : s = vn'[v].slot
      OBVIOUS
    <2>2. v \in InHash(s) \/ Made(p, v)
      BY <2>1, HashShrinks
    <2>3. w \in InHash(s) \/ Made(p, w)
      BY <2>1, HashShrinks
    <2>4. v \notin InHash(s) \/ w \notin InHash(s)
      BY DEF Core, OneDenode, InHash
    <2>5. Made(p, v) => InHash(s) = {}
      BY <1>3, <2>1
    <2>6. Made(p, w) => InHash(s) = {}
      BY <1>3, <2>1
    <2> QED
      BY <1>2, <2>2, <2>3, <2>4, <2>5, <2>6
  <1>6. ASSUME NEW q \in Procs, Making(st'[q]), NEW v \in InHash(st[q].slot)'
        PROVE  FALSE
    <2>1. PICK s : s = st'[q].slot
      OBVIOUS
    <2>2. v \in Vnodes /\ ~vn'[v].bad /\ vn'[v].slot = s /\ vn'[v].ref > 0
      BY <1>6, <2>1 DEF InHash
    <2>3. v \in InHash(s) \/ Made(p, v)
      BY <2>2, HashShrinks
    <2>4. CASE q = p
      <3>1. InHash(s) = {}
        BY <1>1, <1>6, <2>1, <2>4 DEF Legal
      <3>2. st[p].pc # "newvnode"
        BY <1>6, <2>4 DEF Legal
      <3> QED
        BY <2>2, <2>3, <3>1, <3>2, <1>3
    <2>5. CASE q # p
      <3>1. st'[q] = st[q] /\ Making(st[q]) /\ InHash(s) = {}
        BY <1>1, <1>6, <2>1, <2>5 DEF Legal, Others
      <3>2. Made(p, v) /\ st[p].slot = s /\ Making(st[p])
        BY <3>1, <2>2, <2>3, <1>3
      <3>3. Shape(st[p]) /\ Shape(st[q]) /\ Getting(st[p]) /\ Getting(st[q]) /\ st[q].slot = st[p].slot
        BY <3>1, <3>2, <2>1, <1>1 DEF Own, Getting
      <3>4. RootSlot \notin Slots
        BY NoneApart DEF RootSlot, Slots
      <3>5. st[p].ret = "root" <=> st[q].ret = "root"
        BY <3>3, <3>4 DEF Shape
      <3>6. (HasBuf(st[p]) /\ HasBuf(st[q])) \/ (HasRoot(st[p]) /\ HasRoot(st[q]))
        BY <3>3, <3>5 DEF HasBuf, HasRoot
      <3> QED
        BY <3>6, <1>1, <2>5 DEF Own
    <2> QED
      BY <2>4, <2>5
  <1> QED
    BY <1>5, <1>6

(* References, free list and cache from step to step.                      *)
Counted(p, v) == vn'[v].use = vn[v].use + One(st'[p].dvp = v) - One(st[p].dvp = v)
                              + One(st'[p].vp = v) - One(st[p].vp = v)
                              + One(held'[p] = v) - One(held[p] = v)

LEMMA CountsStep ==
    ASSUME Core, NEW p \in Procs, Others(p), \A v \in Vnodes : Counted(p, v)
    PROVE  Counts'
  <1> SUFFICES ASSUME NEW v \in Vnodes
               PROVE  vn'[v].use = Refs(v)'
    BY DEF Counts
  <1>1. \A q \in Procs : q # p => st'[q] = st[q] /\ held'[q] = held[q]
    BY DEF Others
  <1>2. vn[v].use = Refs(v)
    BY DEF Core, Counts
  <1> QED
    BY <1>1, <1>2, Recount DEF Counted

LEMMA TakenStep ==
    ASSUME NEW p \in Procs, Others(p), NEW v \in Vnodes
    PROVE  /\ Taken(v) <=> \/ \E q \in Procs : q # p /\ st[q].gvp = v /\ Making(st[q])
                           \/ st[p].gvp = v /\ Making(st[p])
           /\ Taken(v)' <=> \/ \E q \in Procs : q # p /\ st[q].gvp = v /\ Making(st[q])
                            \/ st'[p].gvp = v /\ Making(st'[p])
  BY DEF Taken, Making, Others

LEMMA FreeKept ==
    ASSUME Core, NEW p \in Procs, Others(p), vfree' = vfree,
           \A v \in Vnodes : /\ vn'[v].use = 0 <=> vn[v].use = 0
                             /\ st'[p].gvp = v /\ Making(st'[p]) <=> st[p].gvp = v /\ Making(st[p])
    PROVE  FreeOK'
  <1>1. Once(vfree')
    BY DEF Core, FreeOK
  <1>2. \A v \in Vnodes : Taken(v)' <=> Taken(v)
    BY TakenStep
  <1>3. \A v \in Vnodes : InSeq(v, vfree') <=> vn'[v].use = 0 /\ ~Taken(v)'
    BY <1>2 DEF Core, FreeOK
  <1> QED
    BY <1>1, <1>3 DEF FreeOK

LEMMA CacheKept ==
    ASSUME Core, NEW p \in Procs, nc' \in Seq(Entry),
           \A i \in DOMAIN nc' : Valid(nc'[i]) =>
              \/ \E j \in DOMAIN nc : /\ Valid(nc[j]) /\ nc[j].vp = nc'[i].vp
                                      /\ Mild(p, nc[j].vp)
              \/ ~vn'[nc'[i].vp].bad /\ vn'[nc'[i].vp].slot \in Slots
    PROVE  CacheOK'
  BY DEF Core, CacheOK, Mild

LEMMA MallocMoves ==
    ASSUME NEW p \in Procs, Others(p)
    PROVE  /\ Cardinality({q \in Procs : st[q].pc = "malloc"}) \in Nat
           /\ Cardinality({q \in Procs : st'[q].pc = "malloc"}) \in Nat
           /\ Cardinality({q \in Procs : st'[q].pc = "malloc"})
                 = Cardinality({q \in Procs : st[q].pc = "malloc"})
                   + One(st'[p].pc = "malloc") - One(st[p].pc = "malloc")
           /\ Cardinality({q \in Procs : st'[q].pc = "malloc"}) <= Cardinality(Procs)
           /\ Cardinality(Procs) \in Nat
  <1>1. PICK S, T : S = {q \in Procs : st[q].pc = "malloc"} /\ T = {q \in Procs : st'[q].pc = "malloc"}
    OBVIOUS
  <1>2. /\ S \subseteq Procs /\ T \subseteq Procs /\ \A q \in Procs : q # p => (q \in S <=> q \in T)
    BY <1>1 DEF Others
  <1>3. /\ Cardinality(S) \in Nat /\ Cardinality(T) \in Nat
        /\ Cardinality(T) = Cardinality(S) + One(p \in T) - One(p \in S)
    BY <1>2, CardMoves
  <1>4. One(p \in T) = One(st'[p].pc = "malloc") /\ One(p \in S) = One(st[p].pc = "malloc")
    BY <1>1 DEF One
  <1>5. Cardinality(T) <= Cardinality(Procs) /\ Cardinality(Procs) \in Nat
    BY <1>2, NoneApart, FS_Subset, FS_CardinalityType
  <1> QED
    BY <1>1, <1>3, <1>4, <1>5

LEMMA BoundKept ==
    ASSUME Core, NEW p \in Procs, Others(p), numcache' = numcache, st'[p].pc # "malloc"
    PROVE  CacheBound'
  <1>1. PICK m, n, c : /\ m = Cardinality({q \in Procs : st[q].pc = "malloc"})
                       /\ n = Cardinality({q \in Procs : st'[q].pc = "malloc"})
                       /\ c = Cardinality(Procs)
    OBVIOUS
  <1>2. /\ m \in Nat /\ n \in Nat /\ c \in Nat
        /\ n = m + One(st'[p].pc = "malloc") - One(st[p].pc = "malloc")
    BY <1>1, MallocMoves
  <1>3. One(st'[p].pc = "malloc") = 0 /\ One(st[p].pc = "malloc") \in {0, 1}
    BY DEF One
  <1>4. numcache + m <= MaxCache + c /\ numcache \in Nat
    BY <1>1 DEF Core, CacheBound, Types
  <1>5. numcache + n <= MaxCache + c
    BY <1>2, <1>3, <1>4, NoneApart
  <1> QED
    BY <1>1, <1>5 DEF CacheBound

LEMMA CoreStep ==
    ASSUME Core, NEW p \in Procs, Legal(p), Types', Own(p)',
           \A v \in Vnodes : VnodeOK(v)' /\ Pair(p, v)' /\ Counted(p, v),
           FreeOK', CacheOK', CacheBound'
    PROVE  Core'
  <1>1. Others(p)
    BY DEF Legal
  <1>2. Counts'
    BY <1>1, CountsStep
  <1>3. OneDenode' /\ \A q \in Procs : Making(st'[q]) => InHash(st[q].slot)' = {}
    BY HashStep
  <1>4. ASSUME NEW q \in Procs, q # p
        PROVE  Own(q)'
    <2>1. st'[q] = st[q] /\ held'[q] = held[q] /\ Own(q) /\ q # None
      BY <1>4, <1>1, NoneApart DEF Others, Core, ProcOK
    <2>2. cpu # q /\ cpu' # q
      BY <1>4, <2>1 DEF Legal
    <2>3. (bp = q => bp' = q) /\ (cov = q => cov' = q)
      BY <1>4, <2>1 DEF Legal
    <2> QED
      BY <2>1, <2>2, <2>3 DEF Own
  <1>5. \A q \in Procs : ProcOK(q)'
    BY <1>3, <1>4 DEF ProcOK
  <1>6. \A q \in Procs, v \in Vnodes : Pair(q, v)'
    BY OthersPair
  <1>7. ASSUME NEW q1 \in Procs, NEW q2 \in Procs, NEW v \in Vnodes, q1 # q2
        PROVE  Apart(q1, q2, v)'
    <2>1. CASE q1 = p \/ q2 = p
      BY <2>1, <1>7, StayApart
    <2>2. CASE q1 # p /\ q2 # p
      <3>1. /\ st'[q1] = st[q1] /\ held'[q1] = held[q1] /\ st'[q2] = st[q2] /\ held'[q2] = held[q2]
            /\ Apart(q1, q2, v)
        BY <2>2, <1>1, <1>7 DEF Others, Core
      <3> QED
        BY <3>1 DEF Apart
    <2> QED
      BY <2>1, <2>2
  <1> QED
    BY <1>2, <1>3, <1>5, <1>6, <1>7 DEF Core

-----------------------------------------------------------------------------
(* Steps after which p is elsewhere in its call and has the same vnodes.   *)
Quiet(p, r) ==
    /\ wchan[p] = None /\ cpu \in {p, None} /\ cpu' \in {p, None}
    /\ vn' = vn /\ wchan' = wchan /\ vfree' = vfree /\ mntlist' = mntlist
    /\ held' = held /\ calls' = calls
    /\ bp' = bp \/ (bp \in {p, None} /\ bp' \in {p, None})
    /\ cov' = cov \/ (cov \in {p, None} /\ cov' \in {p, None})
    /\ dir' \in [Slots -> Names \cup {None}]
    /\ r \in StRec /\ st' = [st EXCEPT ![p] = r]
    /\ r.dvp = st[p].dvp /\ r.vp = st[p].vp /\ r.gvp = st[p].gvp
    /\ Shape(r) /\ ~Making(r) /\ ~Making(st[p])
    /\ r.pc \in Working => r.pc \in Inactive /\ st[p].pc \in Inactive
    /\ r.call \in {"open", "create"} \/ r.keep => held[p] = None
    /\ HasBuf(r) => bp' = p
    /\ HasRoot(r) => cov' = p
    /\ InDir(r) => InDir(st[p])
    /\ r.vp # None => /\ HasLeaf(r) => HasLeaf(st[p])
                      /\ Unlinks(r) => Unlinks(st[p])
                      /\ st[p].pc # "clock"

LEMMA QuietStep ==
    ASSUME Core, NEW p \in Procs, NEW r, Quiet(p, r),
           nc' \in Seq(Entry), numcache' \in Nat, Len(nc') <= numcache', CacheOK', CacheBound'
    PROVE  Core'
  <1> USE DEF Quiet
  <1>0. Types /\ Own(p) /\ \A v \in Vnodes : VnodeOK(v) /\ Pair(p, v)
    BY DEF Core, ProcOK
  <1>1. /\ st'[p] = r /\ st' \in [Procs -> StRec]
        /\ \A q \in Procs : q # p => st'[q] = st[q]
    BY <1>0 DEF Types
  <1>2. Types'
    BY <1>0, <1>1, NoneApart DEF Types
  <1>3. Others(p)
    BY <1>1 DEF Others
  <1>4. \A v \in Vnodes : v # None
    BY NoneApart
  <1>5. ASSUME NEW v \in Vnodes
        PROVE  Changed(p, v) /\ Begins(p, v)
    <2>1. Mild(p, v)
      BY <1>0 DEF Mild, Types
    <2>2. Begins(p, v)
      BY <1>1, <1>4 DEF Begins, Working, Cleaning, Inactive
    <2> QED
      BY <2>1, <2>2 DEF Changed
  <1>6. Legal(p)
    BY <1>1, <1>3, <1>5 DEF Legal
  <1>7. Own(p)'
    BY <1>0, <1>1 DEF Own, Working, Inactive
  <1>8. ASSUME NEW v \in Vnodes
        PROVE  VnodeOK(v)' /\ Pair(p, v)' /\ Counted(p, v)
    <2>1. VnodeOK(v)'
      BY <1>0 DEF VnodeOK
    <2>2. Refers(p, v)'
      <3>1. Refers(p, v) /\ v # None /\ held' = held /\ vn' = vn
        BY <1>0, <1>4 DEF Pair
      <3>2. MayLock(st[p], v) => MayLock(r, v)
        <4>1. st[p].gvp = v => r.pc \in Working /\ r.gvp = v
          BY <1>4 DEF Shape
        <4> QED
          BY <4>1 DEF MayLock
      <3> QED
        BY <1>1, <3>1, <3>2 DEF Refers
    <2>3. Works(p, v)'
      <3>1. Works(p, v) /\ v # None /\ held' = held /\ vn' = vn
        BY <1>0, <1>4 DEF Pair
      <3>2. st'[p].gvp = v => r.pc \in Inactive /\ st[p].pc \in Inactive
        BY <1>1, <1>4 DEF Shape
      <3> QED
        BY <1>1, <3>1, <3>2 DEF Works, Inactive, Cleaning
    <2>4. Sleeps(p, v)'
      BY <1>0 DEF Pair, Sleeps
    <2>5. Counted(p, v)
      <3>1. vn[v].use \in Nat
        BY <1>0 DEF Types, VnRec
      <3>2. One(st[p].dvp = v) \in {0, 1} /\ One(st[p].vp = v) \in {0, 1} /\ One(held[p] = v) \in {0, 1}
        BY DEF One
      <3> QED
        BY <1>1, <3>1, <3>2 DEF Counted
    <2> QED
      BY <2>1, <2>2, <2>3, <2>4, <2>5 DEF Pair
  <1>9. FreeOK'
    BY <1>1, <1>3, FreeKept
  <1> QED
    BY <1>2, <1>6, <1>7, <1>8, <1>9, CoreStep

LEMMA QuietGoto ==
    ASSUME Core, NEW p \in Procs, NEW r, Quiet(p, r), nc' = nc, numcache' = numcache,
           r.pc # "malloc"
    PROVE  Core'
  <1>1. Types /\ st'[p] = r /\ Others(p)
    BY DEF Core, Types, Others, Quiet
  <1>2. CacheOK'
    BY DEF Core, CacheOK, Quiet
  <1>3. CacheBound'
    BY <1>1, BoundKept
  <1>4. nc' \in Seq(Entry) /\ numcache' \in Nat /\ Len(nc') <= numcache'
    BY <1>1 DEF Types
  <1> QED
    BY <1>2, <1>3, <1>4, QuietStep

LEMMA NoCallType ==
    /\ NoCall \in StRec
    /\ NoCall.pc = "idle" /\ NoCall.call = None /\ NoCall.name = None /\ NoCall.slot = None
    /\ NoCall.dvp = None /\ NoCall.vp = None /\ NoCall.ret = None
    /\ NoCall.gvp = None /\ NoCall.gret = None /\ NoCall.rel = <<>> /\ NoCall.keep = FALSE
    /\ NoCall.nvp = None /\ NoCall.busy = FALSE
  <1>1. <<>> \in Seq(Vnodes)
    OBVIOUS
  <1>2. NoCall \in StRec
    BY <1>1, ZenonT(60) DEF NoCall, StRec, PCs, SomeVnode, Places
  <1> QED
    BY <1>2 DEF NoCall

LEMMA ReleasingType ==
    ASSUME NEW r \in StRec, NEW vs \in Seq(Vnodes), NEW keep \in BOOLEAN
    PROVE  LET R == Releasing(r, vs, keep) IN
           /\ R \in StRec
           /\ R.pc = "rele" /\ R.call = None /\ R.name = None /\ R.slot = None
           /\ R.dvp = r.dvp /\ R.vp = r.vp /\ R.ret = None
           /\ R.gvp = None /\ R.gret = None /\ R.rel = vs /\ R.keep = keep
           /\ R.nvp = None /\ R.busy = FALSE
  <1>1. r.dvp \in SomeVnode /\ r.vp \in SomeVnode
    BY DEF StRec
  <1>2. Releasing(r, vs, keep) \in StRec
    BY <1>1, NoCallType, ZenonT(60) DEF Releasing, StRec, PCs
  <1> QED
    BY <1>2 DEF Releasing, NoCall

(* A set of numbers that is not empty has a least element.                 *)
LEMMA Least ==
    ASSUME NEW T, T \subseteq Nat, T # {}
    PROVE  \E n \in T : \A m \in T : n <= m
  <1>1. \E n \in T : \A m \in T : ~(<<m, n>> \in OpToRel(<, Nat))
    BY WFMin, NatLessThanWellFounded, ZenonT(60)
  <1>2. PICK n \in T : \A m \in T : ~(<<m, n>> \in OpToRel(<, Nat))
    BY <1>1
  <1>3. ASSUME NEW m \in T, m < n PROVE FALSE
    <2>1. <<m, n>> \in OpToRel(<, Nat)
      BY <1>2, <1>3, ZenonT(60) DEF OpToRel
    <2> QED
      BY <1>2, <2>1
  <1> QED
    BY <1>3

LEMMA FirstSlotIn ==
    ASSUME NEW S, S \subseteq Slots, S # {}
    PROVE  FirstSlot(S) \in S
  <1>1. S \subseteq Nat
    BY NoneApart DEF Slots
  <1>2. \E s \in S : \A t \in S : s <= t
    BY <1>1, Least
  <1> QED
    BY <1>2 DEF FirstSlot

LEMMA CallCore ==
    ASSUME Core, NEW p \in Procs, NEW c, NEW n \in Names, Call(p, c, n), UNCHANGED calls
    PROVE  Core'
  <1>0. Types /\ Own(p) /\ Shape(st[p]) /\ st[p] \in StRec
    BY DEF Core, ProcOK, Types, Own
  <1>1. /\ st[p].pc = "idle" /\ st' = [st EXCEPT ![p].pc = "cross", ![p].call = c, ![p].name = n]
        /\ vn' = vn /\ wchan' = wchan /\ vfree' = vfree /\ mntlist' = mntlist /\ held' = held
        /\ calls' = calls /\ nc' = nc /\ numcache' = numcache /\ wchan[p] = None
        /\ cpu \in {p, None} /\ cpu' \in {p, None}
        /\ bp' = bp
        /\ cov' = cov
        /\ dir' \in [Slots -> Names \cup {None}]
        /\ c \in {"open", "create", "unlink"} /\ (c # "unlink" => held[p] = None)
    BY <1>0, NoneApart DEF Call, At, Goto, Run, Yield, Types, fs
  <1>3. Core'
    <2>1. PICK r : r = [st[p] EXCEPT !.pc = "cross", !.call = c, !.name = n]
      OBVIOUS
    <2>2. /\ r.pc = "cross" /\ r.call = c /\ r.name = n /\ r.slot = st[p].slot
          /\ r.dvp = st[p].dvp /\ r.vp = st[p].vp /\ r.ret = st[p].ret /\ r.gvp = st[p].gvp
          /\ r.gret = st[p].gret /\ r.rel = st[p].rel /\ r.keep = st[p].keep
          /\ r.nvp = st[p].nvp /\ r.busy = st[p].busy
      BY <1>0, <2>1 DEF StRec
    <2>3. r \in StRec
      BY <1>0, <1>1, <2>1, ZenonT(60) DEF StRec, PCs
    <2>4. Shape(r) /\ ~Making(r) /\ ~Making(st[p])
      BY <1>0, <1>1, <2>2, NoneApart DEF Shape, Making, Getting, Letting, Leaves, Working, Cleaning, Inactive
    <2>5. /\ r.dvp = st[p].dvp /\ r.vp = st[p].vp /\ r.gvp = st[p].gvp
          /\ r.pc \in Working => r.pc \in Inactive /\ st[p].pc \in Inactive
      BY <1>0, <1>1, <2>2, NoneApart DEF Shape, Making, Getting, Working, Inactive, Cleaning
    <2>6. /\ r.call \in {"open", "create"} \/ r.keep => held[p] = None
          /\ HasBuf(r) => bp' = p
          /\ HasRoot(r) => cov' = p
      BY <1>0, <1>1, <2>2, <2>4, NoneApart DEF Own, Shape, HasBuf, HasRoot, Getting, Making, Letting, Cleaning
    <2>7. /\ InDir(r) => InDir(st[p])
          /\ r.vp # None => /\ HasLeaf(r) => HasLeaf(st[p])
                            /\ Unlinks(r) => Unlinks(st[p])
                            /\ st[p].pc # "clock"
      BY <1>0, <1>1, <2>2, <2>4 DEF Shape, InDir, HasLeaf, Unlinks, Getting, Making
    <2>8. st' = [st EXCEPT ![p] = r]
      BY <1>0, <1>1, <2>1 DEF Types
    <2>9. Quiet(p, r)
      BY <1>0, <1>1, <2>3, <2>4, <2>5, <2>6, <2>7, <2>8 DEF Quiet
    <2> QED
      BY <1>1, <2>2, <2>9, QuietGoto
  <1> QED
    BY <1>3

LEMMA CrossCore ==
    ASSUME Core, NEW p \in Procs, Cross(p), UNCHANGED calls
    PROVE  Core'
  <1>0. Types /\ Own(p) /\ Shape(st[p]) /\ st[p] \in StRec
    BY DEF Core, ProcOK, Types, Own
  <1>1. /\ st[p].pc = "cross"
        /\ vn' = vn /\ wchan' = wchan /\ vfree' = vfree /\ mntlist' = mntlist /\ held' = held
        /\ calls' = calls /\ nc' = nc /\ numcache' = numcache /\ wchan[p] = None
        /\ cpu \in {p, None} /\ cpu' \in {p, None}
        /\ bp' = bp
        /\ cov \in {p, None} /\ cov' \in {p, None}
        /\ dir' \in [Slots -> Names \cup {None}]
        /\ mounted => cov' = p /\ st' = [st EXCEPT ![p].pc = "deget", ![p].slot = RootSlot, ![p].ret = "root"]
        /\ ~mounted => st' = [st EXCEPT ![p] = NoCall]
    BY <1>0, NoneApart DEF Cross, At, Goto, Run, Yield, Types, fs
  <1>3. CASE mounted
    <2>1. PICK r : r = [st[p] EXCEPT !.pc = "deget", !.slot = RootSlot, !.ret = "root"]
      OBVIOUS
    <2>2. /\ r.pc = "deget" /\ r.call = st[p].call /\ r.name = st[p].name /\ r.slot = RootSlot
          /\ r.dvp = st[p].dvp /\ r.vp = st[p].vp /\ r.ret = "root" /\ r.gvp = st[p].gvp
          /\ r.gret = st[p].gret /\ r.rel = st[p].rel /\ r.keep = st[p].keep
          /\ r.nvp = st[p].nvp /\ r.busy = st[p].busy
      BY <1>0, <2>1 DEF StRec
    <2>a. RootSlot \in Places
      BY <1>0, <1>1, <1>3, NoneApart DEF Places
    <2>3. r \in StRec
      BY <1>0, <1>1, <1>3, <2>1, <2>a, ZenonT(60) DEF StRec, PCs
    <2>4. Shape(r) /\ ~Making(r) /\ ~Making(st[p])
      BY <1>0, <1>1, <1>3, <2>2, NoneApart DEF Shape, Making, Getting, Letting, Leaves, Working, Cleaning, Inactive
    <2>5. /\ r.dvp = st[p].dvp /\ r.vp = st[p].vp /\ r.gvp = st[p].gvp
          /\ r.pc \in Working => r.pc \in Inactive /\ st[p].pc \in Inactive
      BY <1>0, <1>1, <1>3, <2>2, NoneApart DEF Shape, Making, Getting, Working, Inactive, Cleaning
    <2>6. /\ r.call \in {"open", "create"} \/ r.keep => held[p] = None
          /\ HasBuf(r) => bp' = p
          /\ HasRoot(r) => cov' = p
      BY <1>0, <1>1, <1>3, <2>2, <2>4, NoneApart DEF Own, Shape, HasBuf, HasRoot, Getting, Making, Letting, Cleaning
    <2>7. /\ InDir(r) => InDir(st[p])
          /\ r.vp # None => /\ HasLeaf(r) => HasLeaf(st[p])
                            /\ Unlinks(r) => Unlinks(st[p])
                            /\ st[p].pc # "clock"
      BY <1>0, <1>1, <1>3, <2>2, <2>4 DEF Shape, InDir, HasLeaf, Unlinks, Getting, Making
    <2>8. st' = [st EXCEPT ![p] = r]
      BY <1>0, <1>1, <1>3, <2>1 DEF Types
    <2>9. Quiet(p, r)
      BY <1>0, <1>1, <1>3, <2>3, <2>4, <2>5, <2>6, <2>7, <2>8 DEF Quiet
    <2> QED
      BY <1>1, <2>2, <2>9, QuietGoto
  <1>4. CASE ~mounted
    <2>1. PICK r : r = NoCall
      OBVIOUS
    <2>2. /\ r.pc = "idle" /\ r.call = None /\ r.name = None /\ r.slot = None /\ r.dvp = None
          /\ r.vp = None /\ r.ret = None /\ r.gvp = None /\ r.gret = None /\ r.rel = <<>>
          /\ r.keep = FALSE /\ r.nvp = None /\ r.busy = FALSE
      BY <1>0, <2>1, NoCallType
    <2>3. r \in StRec
      BY <1>0, <2>1, NoCallType
    <2>4. Shape(r) /\ ~Making(r) /\ ~Making(st[p])
      BY <1>0, <1>1, <1>4, <2>2, NoneApart DEF Shape, Making, Getting, Letting, Leaves, Working, Cleaning, Inactive
    <2>5. /\ r.dvp = st[p].dvp /\ r.vp = st[p].vp /\ r.gvp = st[p].gvp
          /\ r.pc \in Working => r.pc \in Inactive /\ st[p].pc \in Inactive
      BY <1>0, <1>1, <1>4, <2>2, NoneApart DEF Shape, Making, Getting, Working, Inactive, Cleaning
    <2>6. /\ r.call \in {"open", "create"} \/ r.keep => held[p] = None
          /\ HasBuf(r) => bp' = p
          /\ HasRoot(r) => cov' = p
      BY <1>0, <1>1, <1>4, <2>2, <2>4, NoneApart DEF Own, Shape, HasBuf, HasRoot, Getting, Making, Letting, Cleaning
    <2>7. /\ InDir(r) => InDir(st[p])
          /\ r.vp # None => /\ HasLeaf(r) => HasLeaf(st[p])
                            /\ Unlinks(r) => Unlinks(st[p])
                            /\ st[p].pc # "clock"
      BY <1>0, <1>1, <1>4, <2>2, <2>4 DEF Shape, InDir, HasLeaf, Unlinks, Getting, Making
    <2>8. st' = [st EXCEPT ![p] = r]
      BY <1>0, <1>1, <1>4, <2>1 DEF Types
    <2>9. Quiet(p, r)
      BY <1>0, <1>1, <1>4, <2>3, <2>4, <2>5, <2>6, <2>7, <2>8 DEF Quiet
    <2> QED
      BY <1>1, <2>2, <2>9, QuietGoto
  <1> QED
    BY <1>0, <1>1, <1>3, <1>4 DEF Shape, Letting, Getting, Making, Cleaning

LEMMA NoVnodeCore ==
    ASSUME Core, NEW p \in Procs, NoVnode(p), UNCHANGED calls
    PROVE  Core'
  <1>0. Types /\ Own(p) /\ Shape(st[p]) /\ st[p] \in StRec
    BY DEF Core, ProcOK, Types, Own
  <1>1. /\ st[p].pc = "deget"
        /\ vn' = vn /\ wchan' = wchan /\ vfree' = vfree /\ mntlist' = mntlist /\ held' = held
        /\ calls' = calls /\ nc' = nc /\ numcache' = numcache /\ wchan[p] = None
        /\ cpu \in {p, None} /\ cpu' \in {p, None}
        /\ bp' = bp \/ (bp \in {p, None} /\ bp' \in {p, None})
        /\ cov' = cov \/ (cov \in {p, None} /\ cov' \in {p, None})
        /\ dir' \in [Slots -> Names \cup {None}]
        /\ st[p].ret = "root" => st' = [st EXCEPT ![p] = NoCall]
        /\ st[p].ret # "root" => st' = [st EXCEPT ![p] = Releasing(st[p], <<st[p].dvp>>, FALSE)]
    BY <1>0, NoneApart DEF NoVnode, Own, HasBuf, HasRoot, Getting, At, Goto, Run, Yield, Types, fs
  <1>3. CASE st[p].ret = "root"
    <2>1. PICK r : r = NoCall
      OBVIOUS
    <2>2. /\ r.pc = "idle" /\ r.call = None /\ r.name = None /\ r.slot = None /\ r.dvp = None
          /\ r.vp = None /\ r.ret = None /\ r.gvp = None /\ r.gret = None /\ r.rel = <<>>
          /\ r.keep = FALSE /\ r.nvp = None /\ r.busy = FALSE
      BY <1>0, <2>1, NoCallType
    <2>3. r \in StRec
      BY <1>0, <2>1, NoCallType
    <2>4. Shape(r) /\ ~Making(r) /\ ~Making(st[p])
      BY <1>0, <1>1, <1>3, <2>2, NoneApart DEF Shape, Making, Getting, Letting, Leaves, Working, Cleaning, Inactive
    <2>5. /\ r.dvp = st[p].dvp /\ r.vp = st[p].vp /\ r.gvp = st[p].gvp
          /\ r.pc \in Working => r.pc \in Inactive /\ st[p].pc \in Inactive
      BY <1>0, <1>1, <1>3, <2>2, NoneApart DEF Shape, Making, Getting, Working, Inactive, Cleaning
    <2>6. /\ r.call \in {"open", "create"} \/ r.keep => held[p] = None
          /\ HasBuf(r) => bp' = p
          /\ HasRoot(r) => cov' = p
      BY <1>0, <1>1, <1>3, <2>2, <2>4, NoneApart DEF Own, Shape, HasBuf, HasRoot, Getting, Making, Letting, Cleaning
    <2>7. /\ InDir(r) => InDir(st[p])
          /\ r.vp # None => /\ HasLeaf(r) => HasLeaf(st[p])
                            /\ Unlinks(r) => Unlinks(st[p])
                            /\ st[p].pc # "clock"
      BY <1>0, <1>1, <1>3, <2>2, <2>4 DEF Shape, InDir, HasLeaf, Unlinks, Getting, Making
    <2>8. st' = [st EXCEPT ![p] = r]
      BY <1>0, <1>1, <1>3, <2>1 DEF Types
    <2>9. Quiet(p, r)
      BY <1>0, <1>1, <1>3, <2>3, <2>4, <2>5, <2>6, <2>7, <2>8 DEF Quiet
    <2> QED
      BY <1>1, <2>2, <2>9, QuietGoto
  <1>4. CASE st[p].ret # "root"
    <2>1. PICK r : r = Releasing(st[p], <<st[p].dvp>>, FALSE)
      OBVIOUS
    <2>b. st[p].dvp \in Vnodes
      BY <1>0, <1>1, <1>4, NoneApart DEF StRec, SomeVnode, Shape, Getting
    <2>a. <<st[p].dvp>> \in Seq(Vnodes) /\ FALSE \in BOOLEAN
      BY <2>b
    <2>2. /\ r.pc = "rele" /\ r.call = None /\ r.name = None /\ r.slot = None
          /\ r.dvp = st[p].dvp /\ r.vp = st[p].vp /\ r.ret = None /\ r.gvp = None
          /\ r.gret = None /\ r.rel = <<st[p].dvp>> /\ r.keep = FALSE /\ r.nvp = None
          /\ r.busy = FALSE
      BY <1>0, <2>1, <2>a, ReleasingType
    <2>3. r \in StRec
      BY <1>0, <2>1, <2>a, ReleasingType
    <2>4. Shape(r) /\ ~Making(r) /\ ~Making(st[p])
      BY <1>0, <1>1, <1>4, <2>2, NoneApart DEF Shape, Making, Getting, Letting, Leaves, Working, Cleaning, Inactive
    <2>5. /\ r.dvp = st[p].dvp /\ r.vp = st[p].vp /\ r.gvp = st[p].gvp
          /\ r.pc \in Working => r.pc \in Inactive /\ st[p].pc \in Inactive
      BY <1>0, <1>1, <1>4, <2>2, NoneApart DEF Shape, Making, Getting, Working, Inactive, Cleaning
    <2>6. /\ r.call \in {"open", "create"} \/ r.keep => held[p] = None
          /\ HasBuf(r) => bp' = p
          /\ HasRoot(r) => cov' = p
      BY <1>0, <1>1, <1>4, <2>2, <2>4, NoneApart DEF Own, Shape, HasBuf, HasRoot, Getting, Making, Letting, Cleaning
    <2>7. /\ InDir(r) => InDir(st[p])
          /\ r.vp # None => /\ HasLeaf(r) => HasLeaf(st[p])
                            /\ Unlinks(r) => Unlinks(st[p])
                            /\ st[p].pc # "clock"
      BY <1>0, <1>1, <1>4, <2>2, <2>4 DEF Shape, InDir, HasLeaf, Unlinks, Getting, Making
    <2>8. st' = [st EXCEPT ![p] = r]
      BY <1>0, <1>1, <1>4, <2>1 DEF Types
    <2>9. Quiet(p, r)
      BY <1>0, <1>1, <1>4, <2>3, <2>4, <2>5, <2>6, <2>7, <2>8 DEF Quiet
    <2> QED
      BY <1>1, <2>2, <2>9, QuietGoto
  <1> QED
    BY <1>0, <1>1, <1>3, <1>4 DEF Shape, Letting, Getting, Making, Cleaning

LEMMA CacheNegativeCore ==
    ASSUME Core, NEW p \in Procs, CacheNegative(p), UNCHANGED calls
    PROVE  Core'
  <1>0. Types /\ Own(p) /\ Shape(st[p]) /\ st[p] \in StRec
    BY DEF Core, ProcOK, Types, Own
  <1>1. /\ st[p].pc = "cache" /\ st' = [st EXCEPT ![p].pc = "enoent"]
        /\ vn' = vn /\ wchan' = wchan /\ vfree' = vfree /\ mntlist' = mntlist /\ held' = held
        /\ calls' = calls /\ nc' = nc /\ numcache' = numcache /\ wchan[p] = None
        /\ cpu \in {p, None} /\ cpu' \in {p, None}
        /\ bp' = bp
        /\ cov' = cov
        /\ dir' \in [Slots -> Names \cup {None}]
    BY <1>0, NoneApart DEF CacheNegative, At, Goto, Run, Yield, Types, fs
  <1>3. Core'
    <2>1. PICK r : r = [st[p] EXCEPT !.pc = "enoent"]
      OBVIOUS
    <2>2. /\ r.pc = "enoent" /\ r.call = st[p].call /\ r.name = st[p].name
          /\ r.slot = st[p].slot /\ r.dvp = st[p].dvp /\ r.vp = st[p].vp /\ r.ret = st[p].ret
          /\ r.gvp = st[p].gvp /\ r.gret = st[p].gret /\ r.rel = st[p].rel
          /\ r.keep = st[p].keep /\ r.nvp = st[p].nvp /\ r.busy = st[p].busy
      BY <1>0, <2>1 DEF StRec
    <2>3. r \in StRec
      BY <1>0, <1>1, <2>1, ZenonT(60) DEF StRec, PCs
    <2>4. Shape(r) /\ ~Making(r) /\ ~Making(st[p])
      BY <1>0, <1>1, <2>2, NoneApart DEF Shape, Making, Getting, Letting, Leaves, Working, Cleaning, Inactive
    <2>5. /\ r.dvp = st[p].dvp /\ r.vp = st[p].vp /\ r.gvp = st[p].gvp
          /\ r.pc \in Working => r.pc \in Inactive /\ st[p].pc \in Inactive
      BY <1>0, <1>1, <2>2, NoneApart DEF Shape, Making, Getting, Working, Inactive, Cleaning
    <2>6. /\ r.call \in {"open", "create"} \/ r.keep => held[p] = None
          /\ HasBuf(r) => bp' = p
          /\ HasRoot(r) => cov' = p
      BY <1>0, <1>1, <2>2, <2>4, NoneApart DEF Own, Shape, HasBuf, HasRoot, Getting, Making, Letting, Cleaning
    <2>7. /\ InDir(r) => InDir(st[p])
          /\ r.vp # None => /\ HasLeaf(r) => HasLeaf(st[p])
                            /\ Unlinks(r) => Unlinks(st[p])
                            /\ st[p].pc # "clock"
      BY <1>0, <1>1, <2>2, <2>4 DEF Shape, InDir, HasLeaf, Unlinks, Getting, Making
    <2>8. st' = [st EXCEPT ![p] = r]
      BY <1>0, <1>1, <2>1 DEF Types
    <2>9. Quiet(p, r)
      BY <1>0, <1>1, <2>3, <2>4, <2>5, <2>6, <2>7, <2>8 DEF Quiet
    <2> QED
      BY <1>1, <2>2, <2>9, QuietGoto
  <1> QED
    BY <1>3

LEMMA SearchCore ==
    ASSUME Core, NEW p \in Procs, Search(p), UNCHANGED calls
    PROVE  Core'
  <1>0. Types /\ Own(p) /\ Shape(st[p]) /\ st[p] \in StRec
    BY DEF Core, ProcOK, Types, Own
  <1>1. /\ st[p].pc = "search" /\ st' = [st EXCEPT ![p].pc = "scan"]
        /\ vn' = vn /\ wchan' = wchan /\ vfree' = vfree /\ mntlist' = mntlist /\ held' = held
        /\ calls' = calls /\ nc' = nc /\ numcache' = numcache /\ wchan[p] = None
        /\ cpu \in {p, None} /\ cpu' \in {p, None}
        /\ bp = None /\ bp' = p
        /\ cov' = cov
        /\ dir' \in [Slots -> Names \cup {None}]
    BY <1>0, NoneApart DEF Search, At, Goto, Run, Yield, Types, fs
  <1>3. Core'
    <2>1. PICK r : r = [st[p] EXCEPT !.pc = "scan"]
      OBVIOUS
    <2>2. /\ r.pc = "scan" /\ r.call = st[p].call /\ r.name = st[p].name
          /\ r.slot = st[p].slot /\ r.dvp = st[p].dvp /\ r.vp = st[p].vp /\ r.ret = st[p].ret
          /\ r.gvp = st[p].gvp /\ r.gret = st[p].gret /\ r.rel = st[p].rel
          /\ r.keep = st[p].keep /\ r.nvp = st[p].nvp /\ r.busy = st[p].busy
      BY <1>0, <2>1 DEF StRec
    <2>3. r \in StRec
      BY <1>0, <1>1, <2>1, ZenonT(60) DEF StRec, PCs
    <2>4. Shape(r) /\ ~Making(r) /\ ~Making(st[p])
      BY <1>0, <1>1, <2>2, NoneApart DEF Shape, Making, Getting, Letting, Leaves, Working, Cleaning, Inactive
    <2>5. /\ r.dvp = st[p].dvp /\ r.vp = st[p].vp /\ r.gvp = st[p].gvp
          /\ r.pc \in Working => r.pc \in Inactive /\ st[p].pc \in Inactive
      BY <1>0, <1>1, <2>2, NoneApart DEF Shape, Making, Getting, Working, Inactive, Cleaning
    <2>6. /\ r.call \in {"open", "create"} \/ r.keep => held[p] = None
          /\ HasBuf(r) => bp' = p
          /\ HasRoot(r) => cov' = p
      BY <1>0, <1>1, <2>2, <2>4, NoneApart DEF Own, Shape, HasBuf, HasRoot, Getting, Making, Letting, Cleaning
    <2>7. /\ InDir(r) => InDir(st[p])
          /\ r.vp # None => /\ HasLeaf(r) => HasLeaf(st[p])
                            /\ Unlinks(r) => Unlinks(st[p])
                            /\ st[p].pc # "clock"
      BY <1>0, <1>1, <2>2, <2>4 DEF Shape, InDir, HasLeaf, Unlinks, Getting, Making
    <2>8. st' = [st EXCEPT ![p] = r]
      BY <1>0, <1>1, <2>1 DEF Types
    <2>9. Quiet(p, r)
      BY <1>0, <1>1, <2>3, <2>4, <2>5, <2>6, <2>7, <2>8 DEF Quiet
    <2> QED
      BY <1>1, <2>2, <2>9, QuietGoto
  <1> QED
    BY <1>3

LEMMA deupdatCore ==
    ASSUME Core, NEW p \in Procs, deupdat(p), UNCHANGED calls
    PROVE  Core'
  <1>0. Types /\ Own(p) /\ Shape(st[p]) /\ st[p] \in StRec
    BY DEF Core, ProcOK, Types, Own
  <1>1. /\ st[p].pc = "deupdat" /\ st' = [st EXCEPT ![p].pc = "updated"]
        /\ vn' = vn /\ wchan' = wchan /\ vfree' = vfree /\ mntlist' = mntlist /\ held' = held
        /\ calls' = calls /\ nc' = nc /\ numcache' = numcache /\ wchan[p] = None
        /\ cpu \in {p, None} /\ cpu' \in {p, None}
        /\ bp = None /\ bp' = p
        /\ cov' = cov
        /\ dir' \in [Slots -> Names \cup {None}]
    BY <1>0, NoneApart DEF deupdat, At, Goto, Run, Yield, Types, fs
  <1>3. Core'
    <2>1. PICK r : r = [st[p] EXCEPT !.pc = "updated"]
      OBVIOUS
    <2>2. /\ r.pc = "updated" /\ r.call = st[p].call /\ r.name = st[p].name
          /\ r.slot = st[p].slot /\ r.dvp = st[p].dvp /\ r.vp = st[p].vp /\ r.ret = st[p].ret
          /\ r.gvp = st[p].gvp /\ r.gret = st[p].gret /\ r.rel = st[p].rel
          /\ r.keep = st[p].keep /\ r.nvp = st[p].nvp /\ r.busy = st[p].busy
      BY <1>0, <2>1 DEF StRec
    <2>3. r \in StRec
      BY <1>0, <1>1, <2>1, ZenonT(60) DEF StRec, PCs
    <2>4. Shape(r) /\ ~Making(r) /\ ~Making(st[p])
      BY <1>0, <1>1, <2>2, NoneApart DEF Shape, Making, Getting, Letting, Leaves, Working, Cleaning, Inactive
    <2>5. /\ r.dvp = st[p].dvp /\ r.vp = st[p].vp /\ r.gvp = st[p].gvp
          /\ r.pc \in Working => r.pc \in Inactive /\ st[p].pc \in Inactive
      BY <1>0, <1>1, <2>2, NoneApart DEF Shape, Making, Getting, Working, Inactive, Cleaning
    <2>6. /\ r.call \in {"open", "create"} \/ r.keep => held[p] = None
          /\ HasBuf(r) => bp' = p
          /\ HasRoot(r) => cov' = p
      BY <1>0, <1>1, <2>2, <2>4, NoneApart DEF Own, Shape, HasBuf, HasRoot, Getting, Making, Letting, Cleaning
    <2>7. /\ InDir(r) => InDir(st[p])
          /\ r.vp # None => /\ HasLeaf(r) => HasLeaf(st[p])
                            /\ Unlinks(r) => Unlinks(st[p])
                            /\ st[p].pc # "clock"
      BY <1>0, <1>1, <2>2, <2>4 DEF Shape, InDir, HasLeaf, Unlinks, Getting, Making
    <2>8. st' = [st EXCEPT ![p] = r]
      BY <1>0, <1>1, <2>1 DEF Types
    <2>9. Quiet(p, r)
      BY <1>0, <1>1, <2>3, <2>4, <2>5, <2>6, <2>7, <2>8 DEF Quiet
    <2> QED
      BY <1>1, <2>2, <2>9, QuietGoto
  <1> QED
    BY <1>3

LEMMA markdeletedCore ==
    ASSUME Core, NEW p \in Procs, markdeleted(p), UNCHANGED calls
    PROVE  Core'
  <1>0. Types /\ Own(p) /\ Shape(st[p]) /\ st[p] \in StRec
    BY DEF Core, ProcOK, Types, Own
  <1>1. /\ st[p].pc = "markdel" /\ st' = [st EXCEPT ![p].pc = "removede"]
        /\ vn' = vn /\ wchan' = wchan /\ vfree' = vfree /\ mntlist' = mntlist /\ held' = held
        /\ calls' = calls /\ nc' = nc /\ numcache' = numcache /\ wchan[p] = None
        /\ cpu \in {p, None} /\ cpu' \in {p, None}
        /\ bp = None /\ bp' = p
        /\ cov' = cov
        /\ dir' \in [Slots -> Names \cup {None}]
    BY <1>0, NoneApart DEF markdeleted, At, Goto, Run, Yield, Types, fs
  <1>3. Core'
    <2>1. PICK r : r = [st[p] EXCEPT !.pc = "removede"]
      OBVIOUS
    <2>2. /\ r.pc = "removede" /\ r.call = st[p].call /\ r.name = st[p].name
          /\ r.slot = st[p].slot /\ r.dvp = st[p].dvp /\ r.vp = st[p].vp /\ r.ret = st[p].ret
          /\ r.gvp = st[p].gvp /\ r.gret = st[p].gret /\ r.rel = st[p].rel
          /\ r.keep = st[p].keep /\ r.nvp = st[p].nvp /\ r.busy = st[p].busy
      BY <1>0, <2>1 DEF StRec
    <2>3. r \in StRec
      BY <1>0, <1>1, <2>1, ZenonT(60) DEF StRec, PCs
    <2>4. Shape(r) /\ ~Making(r) /\ ~Making(st[p])
      BY <1>0, <1>1, <2>2, NoneApart DEF Shape, Making, Getting, Letting, Leaves, Working, Cleaning, Inactive
    <2>5. /\ r.dvp = st[p].dvp /\ r.vp = st[p].vp /\ r.gvp = st[p].gvp
          /\ r.pc \in Working => r.pc \in Inactive /\ st[p].pc \in Inactive
      BY <1>0, <1>1, <2>2, NoneApart DEF Shape, Making, Getting, Working, Inactive, Cleaning
    <2>6. /\ r.call \in {"open", "create"} \/ r.keep => held[p] = None
          /\ HasBuf(r) => bp' = p
          /\ HasRoot(r) => cov' = p
      BY <1>0, <1>1, <2>2, <2>4, NoneApart DEF Own, Shape, HasBuf, HasRoot, Getting, Making, Letting, Cleaning
    <2>7. /\ InDir(r) => InDir(st[p])
          /\ r.vp # None => /\ HasLeaf(r) => HasLeaf(st[p])
                            /\ Unlinks(r) => Unlinks(st[p])
                            /\ st[p].pc # "clock"
      BY <1>0, <1>1, <2>2, <2>4 DEF Shape, InDir, HasLeaf, Unlinks, Getting, Making
    <2>8. st' = [st EXCEPT ![p] = r]
      BY <1>0, <1>1, <2>1 DEF Types
    <2>9. Quiet(p, r)
      BY <1>0, <1>1, <2>3, <2>4, <2>5, <2>6, <2>7, <2>8 DEF Quiet
    <2> QED
      BY <1>1, <2>2, <2>9, QuietGoto
  <1> QED
    BY <1>3

LEMMA ScanFoundCore ==
    ASSUME Core, NEW p \in Procs, ScanFound(p), UNCHANGED calls
    PROVE  Core'
  <1>0. Types /\ Own(p) /\ Shape(st[p]) /\ st[p] \in StRec
    BY DEF Core, ProcOK, Types, Own
  <1>p. FirstSlot(Found(p)) \in Slots
    <2>1. Found(p) \subseteq Slots /\ Found(p) # {}
      BY DEF ScanFound, Found
    <2> QED
      BY <2>1, FirstSlotIn
  <1>1. /\ st[p].pc = "scan" /\ st' = [st EXCEPT ![p].pc = "deget", ![p].slot = FirstSlot(Found(p)), ![p].ret = "leaf"]
        /\ vn' = vn /\ wchan' = wchan /\ vfree' = vfree /\ mntlist' = mntlist /\ held' = held
        /\ calls' = calls /\ nc' = nc /\ numcache' = numcache /\ wchan[p] = None
        /\ cpu \in {p, None} /\ cpu' \in {p, None}
        /\ bp' = bp
        /\ cov' = cov
        /\ dir' \in [Slots -> Names \cup {None}]
        /\ FirstSlot(Found(p)) \in Slots
    BY <1>0, <1>p, NoneApart DEF ScanFound, At, Goto, Run, Yield, Types, fs
  <1>3. Core'
    <2>1. PICK r : r = [st[p] EXCEPT !.pc = "deget", !.slot = FirstSlot(Found(p)), !.ret = "leaf"]
      OBVIOUS
    <2>2. /\ r.pc = "deget" /\ r.call = st[p].call /\ r.name = st[p].name
          /\ r.slot = FirstSlot(Found(p)) /\ r.dvp = st[p].dvp /\ r.vp = st[p].vp
          /\ r.ret = "leaf" /\ r.gvp = st[p].gvp /\ r.gret = st[p].gret /\ r.rel = st[p].rel
          /\ r.keep = st[p].keep /\ r.nvp = st[p].nvp /\ r.busy = st[p].busy
      BY <1>0, <2>1 DEF StRec
    <2>a. FirstSlot(Found(p)) \in Places
      BY <1>0, <1>1, NoneApart DEF Places
    <2>3. r \in StRec
      BY <1>0, <1>1, <2>1, <2>a, ZenonT(60) DEF StRec, PCs
    <2>4. Shape(r) /\ ~Making(r) /\ ~Making(st[p])
      BY <1>0, <1>1, <2>2, NoneApart DEF Shape, Making, Getting, Letting, Leaves, Working, Cleaning, Inactive
    <2>5. /\ r.dvp = st[p].dvp /\ r.vp = st[p].vp /\ r.gvp = st[p].gvp
          /\ r.pc \in Working => r.pc \in Inactive /\ st[p].pc \in Inactive
      BY <1>0, <1>1, <2>2, NoneApart DEF Shape, Making, Getting, Working, Inactive, Cleaning
    <2>6. /\ r.call \in {"open", "create"} \/ r.keep => held[p] = None
          /\ HasBuf(r) => bp' = p
          /\ HasRoot(r) => cov' = p
      BY <1>0, <1>1, <2>2, <2>4, NoneApart DEF Own, Shape, HasBuf, HasRoot, Getting, Making, Letting, Cleaning
    <2>7. /\ InDir(r) => InDir(st[p])
          /\ r.vp # None => /\ HasLeaf(r) => HasLeaf(st[p])
                            /\ Unlinks(r) => Unlinks(st[p])
                            /\ st[p].pc # "clock"
      BY <1>0, <1>1, <2>2, <2>4 DEF Shape, InDir, HasLeaf, Unlinks, Getting, Making
    <2>8. st' = [st EXCEPT ![p] = r]
      BY <1>0, <1>1, <2>1 DEF Types
    <2>9. Quiet(p, r)
      BY <1>0, <1>1, <2>3, <2>4, <2>5, <2>6, <2>7, <2>8 DEF Quiet
    <2> QED
      BY <1>1, <2>2, <2>9, QuietGoto
  <1> QED
    BY <1>3

LEMMA ScanMissingCore ==
    ASSUME Core, NEW p \in Procs, ScanMissing(p), UNCHANGED calls
    PROVE  Core'
  <1>0. Types /\ Own(p) /\ Shape(st[p]) /\ st[p] \in StRec
    BY DEF Core, ProcOK, Types, Own
  <1>p. FreeSlots # {} => FirstSlot(FreeSlots) \in Slots
    <2>1. FreeSlots \subseteq Slots
      BY DEF FreeSlots
    <2> QED
      BY <2>1, FirstSlotIn
  <1>1. /\ st[p].pc = "scan" /\ st[p].call \in {"open", "unlink", "create"}
        /\ vn' = vn /\ wchan' = wchan /\ vfree' = vfree /\ mntlist' = mntlist /\ held' = held
        /\ calls' = calls /\ nc' = nc /\ numcache' = numcache /\ wchan[p] = None
        /\ cpu \in {p, None} /\ cpu' \in {p, None}
        /\ bp = p /\ bp' = None
        /\ cov' = cov
        /\ dir' \in [Slots -> Names \cup {None}]
        /\ st[p].call = "open" => st' = [st EXCEPT ![p].pc = "enter"]
        /\ st[p].call = "unlink" => st' = [st EXCEPT ![p].pc = "enoent"]
        /\ st[p].call = "create" /\ FreeSlots = {} => st' = [st EXCEPT ![p] = Releasing(st[p], <<st[p].dvp>>, FALSE)]
        /\ st[p].call = "create" /\ FreeSlots # {} => st' = [st EXCEPT ![p].pc = "createde", ![p].slot = FirstSlot(FreeSlots)] /\ FirstSlot(FreeSlots) \in Slots
    BY <1>0, <1>p, NoneApart DEF ScanMissing, Own, HasBuf, Shape, Letting, Cleaning, At, Goto, Run, Yield, Types, fs
  <1>3. CASE st[p].call = "open"
    <2>1. PICK r : r = [st[p] EXCEPT !.pc = "enter"]
      OBVIOUS
    <2>2. /\ r.pc = "enter" /\ r.call = st[p].call /\ r.name = st[p].name
          /\ r.slot = st[p].slot /\ r.dvp = st[p].dvp /\ r.vp = st[p].vp /\ r.ret = st[p].ret
          /\ r.gvp = st[p].gvp /\ r.gret = st[p].gret /\ r.rel = st[p].rel
          /\ r.keep = st[p].keep /\ r.nvp = st[p].nvp /\ r.busy = st[p].busy
      BY <1>0, <2>1 DEF StRec
    <2>3. r \in StRec
      BY <1>0, <1>1, <1>3, <2>1, ZenonT(60) DEF StRec, PCs
    <2>4. Shape(r) /\ ~Making(r) /\ ~Making(st[p])
      BY <1>0, <1>1, <1>3, <2>2, NoneApart DEF Shape, Making, Getting, Letting, Leaves, Working, Cleaning, Inactive
    <2>5. /\ r.dvp = st[p].dvp /\ r.vp = st[p].vp /\ r.gvp = st[p].gvp
          /\ r.pc \in Working => r.pc \in Inactive /\ st[p].pc \in Inactive
      BY <1>0, <1>1, <1>3, <2>2, NoneApart DEF Shape, Making, Getting, Working, Inactive, Cleaning
    <2>6. /\ r.call \in {"open", "create"} \/ r.keep => held[p] = None
          /\ HasBuf(r) => bp' = p
          /\ HasRoot(r) => cov' = p
      BY <1>0, <1>1, <1>3, <2>2, <2>4, NoneApart DEF Own, Shape, HasBuf, HasRoot, Getting, Making, Letting, Cleaning
    <2>7. /\ InDir(r) => InDir(st[p])
          /\ r.vp # None => /\ HasLeaf(r) => HasLeaf(st[p])
                            /\ Unlinks(r) => Unlinks(st[p])
                            /\ st[p].pc # "clock"
      BY <1>0, <1>1, <1>3, <2>2, <2>4 DEF Shape, InDir, HasLeaf, Unlinks, Getting, Making
    <2>8. st' = [st EXCEPT ![p] = r]
      BY <1>0, <1>1, <1>3, <2>1 DEF Types
    <2>9. Quiet(p, r)
      BY <1>0, <1>1, <1>3, <2>3, <2>4, <2>5, <2>6, <2>7, <2>8 DEF Quiet
    <2> QED
      BY <1>1, <2>2, <2>9, QuietGoto
  <1>4. CASE st[p].call = "unlink"
    <2>1. PICK r : r = [st[p] EXCEPT !.pc = "enoent"]
      OBVIOUS
    <2>2. /\ r.pc = "enoent" /\ r.call = st[p].call /\ r.name = st[p].name
          /\ r.slot = st[p].slot /\ r.dvp = st[p].dvp /\ r.vp = st[p].vp /\ r.ret = st[p].ret
          /\ r.gvp = st[p].gvp /\ r.gret = st[p].gret /\ r.rel = st[p].rel
          /\ r.keep = st[p].keep /\ r.nvp = st[p].nvp /\ r.busy = st[p].busy
      BY <1>0, <2>1 DEF StRec
    <2>3. r \in StRec
      BY <1>0, <1>1, <1>4, <2>1, ZenonT(60) DEF StRec, PCs
    <2>4. Shape(r) /\ ~Making(r) /\ ~Making(st[p])
      BY <1>0, <1>1, <1>4, <2>2, NoneApart DEF Shape, Making, Getting, Letting, Leaves, Working, Cleaning, Inactive
    <2>5. /\ r.dvp = st[p].dvp /\ r.vp = st[p].vp /\ r.gvp = st[p].gvp
          /\ r.pc \in Working => r.pc \in Inactive /\ st[p].pc \in Inactive
      BY <1>0, <1>1, <1>4, <2>2, NoneApart DEF Shape, Making, Getting, Working, Inactive, Cleaning
    <2>6. /\ r.call \in {"open", "create"} \/ r.keep => held[p] = None
          /\ HasBuf(r) => bp' = p
          /\ HasRoot(r) => cov' = p
      BY <1>0, <1>1, <1>4, <2>2, <2>4, NoneApart DEF Own, Shape, HasBuf, HasRoot, Getting, Making, Letting, Cleaning
    <2>7. /\ InDir(r) => InDir(st[p])
          /\ r.vp # None => /\ HasLeaf(r) => HasLeaf(st[p])
                            /\ Unlinks(r) => Unlinks(st[p])
                            /\ st[p].pc # "clock"
      BY <1>0, <1>1, <1>4, <2>2, <2>4 DEF Shape, InDir, HasLeaf, Unlinks, Getting, Making
    <2>8. st' = [st EXCEPT ![p] = r]
      BY <1>0, <1>1, <1>4, <2>1 DEF Types
    <2>9. Quiet(p, r)
      BY <1>0, <1>1, <1>4, <2>3, <2>4, <2>5, <2>6, <2>7, <2>8 DEF Quiet
    <2> QED
      BY <1>1, <2>2, <2>9, QuietGoto
  <1>5. CASE st[p].call = "create" /\ FreeSlots = {}
    <2>1. PICK r : r = Releasing(st[p], <<st[p].dvp>>, FALSE)
      OBVIOUS
    <2>b. st[p].dvp \in Vnodes
      BY <1>0, <1>1, <1>5, NoneApart DEF StRec, SomeVnode, Shape, Getting
    <2>a. <<st[p].dvp>> \in Seq(Vnodes) /\ FALSE \in BOOLEAN
      BY <2>b
    <2>2. /\ r.pc = "rele" /\ r.call = None /\ r.name = None /\ r.slot = None
          /\ r.dvp = st[p].dvp /\ r.vp = st[p].vp /\ r.ret = None /\ r.gvp = None
          /\ r.gret = None /\ r.rel = <<st[p].dvp>> /\ r.keep = FALSE /\ r.nvp = None
          /\ r.busy = FALSE
      BY <1>0, <2>1, <2>a, ReleasingType
    <2>3. r \in StRec
      BY <1>0, <2>1, <2>a, ReleasingType
    <2>4. Shape(r) /\ ~Making(r) /\ ~Making(st[p])
      BY <1>0, <1>1, <1>5, <2>2, NoneApart DEF Shape, Making, Getting, Letting, Leaves, Working, Cleaning, Inactive
    <2>5. /\ r.dvp = st[p].dvp /\ r.vp = st[p].vp /\ r.gvp = st[p].gvp
          /\ r.pc \in Working => r.pc \in Inactive /\ st[p].pc \in Inactive
      BY <1>0, <1>1, <1>5, <2>2, NoneApart DEF Shape, Making, Getting, Working, Inactive, Cleaning
    <2>6. /\ r.call \in {"open", "create"} \/ r.keep => held[p] = None
          /\ HasBuf(r) => bp' = p
          /\ HasRoot(r) => cov' = p
      BY <1>0, <1>1, <1>5, <2>2, <2>4, NoneApart DEF Own, Shape, HasBuf, HasRoot, Getting, Making, Letting, Cleaning
    <2>7. /\ InDir(r) => InDir(st[p])
          /\ r.vp # None => /\ HasLeaf(r) => HasLeaf(st[p])
                            /\ Unlinks(r) => Unlinks(st[p])
                            /\ st[p].pc # "clock"
      BY <1>0, <1>1, <1>5, <2>2, <2>4 DEF Shape, InDir, HasLeaf, Unlinks, Getting, Making
    <2>8. st' = [st EXCEPT ![p] = r]
      BY <1>0, <1>1, <1>5, <2>1 DEF Types
    <2>9. Quiet(p, r)
      BY <1>0, <1>1, <1>5, <2>3, <2>4, <2>5, <2>6, <2>7, <2>8 DEF Quiet
    <2> QED
      BY <1>1, <2>2, <2>9, QuietGoto
  <1>6. CASE st[p].call = "create" /\ FreeSlots # {}
    <2>1. PICK r : r = [st[p] EXCEPT !.pc = "createde", !.slot = FirstSlot(FreeSlots)]
      OBVIOUS
    <2>2. /\ r.pc = "createde" /\ r.call = st[p].call /\ r.name = st[p].name
          /\ r.slot = FirstSlot(FreeSlots) /\ r.dvp = st[p].dvp /\ r.vp = st[p].vp
          /\ r.ret = st[p].ret /\ r.gvp = st[p].gvp /\ r.gret = st[p].gret
          /\ r.rel = st[p].rel /\ r.keep = st[p].keep /\ r.nvp = st[p].nvp
          /\ r.busy = st[p].busy
      BY <1>0, <2>1 DEF StRec
    <2>a. FirstSlot(FreeSlots) \in Places
      BY <1>0, <1>1, <1>6, NoneApart DEF Places
    <2>3. r \in StRec
      BY <1>0, <1>1, <1>6, <2>1, <2>a, ZenonT(60) DEF StRec, PCs
    <2>4. Shape(r) /\ ~Making(r) /\ ~Making(st[p])
      BY <1>0, <1>1, <1>6, <2>2, NoneApart DEF Shape, Making, Getting, Letting, Leaves, Working, Cleaning, Inactive
    <2>5. /\ r.dvp = st[p].dvp /\ r.vp = st[p].vp /\ r.gvp = st[p].gvp
          /\ r.pc \in Working => r.pc \in Inactive /\ st[p].pc \in Inactive
      BY <1>0, <1>1, <1>6, <2>2, NoneApart DEF Shape, Making, Getting, Working, Inactive, Cleaning
    <2>6. /\ r.call \in {"open", "create"} \/ r.keep => held[p] = None
          /\ HasBuf(r) => bp' = p
          /\ HasRoot(r) => cov' = p
      BY <1>0, <1>1, <1>6, <2>2, <2>4, NoneApart DEF Own, Shape, HasBuf, HasRoot, Getting, Making, Letting, Cleaning
    <2>7. /\ InDir(r) => InDir(st[p])
          /\ r.vp # None => /\ HasLeaf(r) => HasLeaf(st[p])
                            /\ Unlinks(r) => Unlinks(st[p])
                            /\ st[p].pc # "clock"
      BY <1>0, <1>1, <1>6, <2>2, <2>4 DEF Shape, InDir, HasLeaf, Unlinks, Getting, Making
    <2>8. st' = [st EXCEPT ![p] = r]
      BY <1>0, <1>1, <1>6, <2>1 DEF Types
    <2>9. Quiet(p, r)
      BY <1>0, <1>1, <1>6, <2>3, <2>4, <2>5, <2>6, <2>7, <2>8 DEF Quiet
    <2> QED
      BY <1>1, <2>2, <2>9, QuietGoto
  <1> QED
    BY <1>0, <1>1, <1>3, <1>4, <1>5, <1>6 DEF Shape, Letting, Getting, Making, Cleaning

LEMMA createdeCore ==
    ASSUME Core, NEW p \in Procs, createde(p), UNCHANGED calls
    PROVE  Core'
  <1>0. Types /\ Own(p) /\ Shape(st[p]) /\ st[p] \in StRec
    BY DEF Core, ProcOK, Types, Own
  <1>1. /\ st[p].pc = "createde" /\ st' = [st EXCEPT ![p].pc = "deget", ![p].ret = "new"]
        /\ vn' = vn /\ wchan' = wchan /\ vfree' = vfree /\ mntlist' = mntlist /\ held' = held
        /\ calls' = calls /\ nc' = nc /\ numcache' = numcache /\ wchan[p] = None
        /\ cpu \in {p, None} /\ cpu' \in {p, None}
        /\ bp = None /\ bp' = p
        /\ cov' = cov
        /\ dir' \in [Slots -> Names \cup {None}]
    BY <1>0, NoneApart DEF createde, At, Goto, Run, Yield, Types, fs, StRec, Shape, Letting, Cleaning
  <1>3. Core'
    <2>1. PICK r : r = [st[p] EXCEPT !.pc = "deget", !.ret = "new"]
      OBVIOUS
    <2>2. /\ r.pc = "deget" /\ r.call = st[p].call /\ r.name = st[p].name
          /\ r.slot = st[p].slot /\ r.dvp = st[p].dvp /\ r.vp = st[p].vp /\ r.ret = "new"
          /\ r.gvp = st[p].gvp /\ r.gret = st[p].gret /\ r.rel = st[p].rel
          /\ r.keep = st[p].keep /\ r.nvp = st[p].nvp /\ r.busy = st[p].busy
      BY <1>0, <2>1 DEF StRec
    <2>3. r \in StRec
      BY <1>0, <1>1, <2>1, ZenonT(60) DEF StRec, PCs
    <2>4. Shape(r) /\ ~Making(r) /\ ~Making(st[p])
      BY <1>0, <1>1, <2>2, NoneApart DEF Shape, Making, Getting, Letting, Leaves, Working, Cleaning, Inactive
    <2>5. /\ r.dvp = st[p].dvp /\ r.vp = st[p].vp /\ r.gvp = st[p].gvp
          /\ r.pc \in Working => r.pc \in Inactive /\ st[p].pc \in Inactive
      BY <1>0, <1>1, <2>2, NoneApart DEF Shape, Making, Getting, Working, Inactive, Cleaning
    <2>6. /\ r.call \in {"open", "create"} \/ r.keep => held[p] = None
          /\ HasBuf(r) => bp' = p
          /\ HasRoot(r) => cov' = p
      BY <1>0, <1>1, <2>2, <2>4, NoneApart DEF Own, Shape, HasBuf, HasRoot, Getting, Making, Letting, Cleaning
    <2>7. /\ InDir(r) => InDir(st[p])
          /\ r.vp # None => /\ HasLeaf(r) => HasLeaf(st[p])
                            /\ Unlinks(r) => Unlinks(st[p])
                            /\ st[p].pc # "clock"
      BY <1>0, <1>1, <2>2, <2>4 DEF Shape, InDir, HasLeaf, Unlinks, Getting, Making
    <2>8. st' = [st EXCEPT ![p] = r]
      BY <1>0, <1>1, <2>1 DEF Types
    <2>9. Quiet(p, r)
      BY <1>0, <1>1, <2>3, <2>4, <2>5, <2>6, <2>7, <2>8 DEF Quiet
    <2> QED
      BY <1>1, <2>2, <2>9, QuietGoto
  <1> QED
    BY <1>3

LEMMA CreatedCore ==
    ASSUME Core, NEW p \in Procs, Created(p), UNCHANGED calls
    PROVE  Core'
  <1>0. Types /\ Own(p) /\ Shape(st[p]) /\ st[p] \in StRec
    BY DEF Core, ProcOK, Types, Own
  <1>1. /\ st[p].pc = "bwrite" /\ st' = [st EXCEPT ![p] = Releasing(st[p], <<st[p].dvp>>, TRUE)]
        /\ vn' = vn /\ wchan' = wchan /\ vfree' = vfree /\ mntlist' = mntlist /\ held' = held
        /\ calls' = calls /\ nc' = nc /\ numcache' = numcache /\ wchan[p] = None
        /\ cpu \in {p, None} /\ cpu' \in {p, None}
        /\ bp = p /\ bp' = None
        /\ cov' = cov
        /\ dir' \in [Slots -> Names \cup {None}]
    BY <1>0, NoneApart DEF Created, At, Goto, Run, Yield, Types, fs, Own, HasBuf
  <1>3. Core'
    <2>1. PICK r : r = Releasing(st[p], <<st[p].dvp>>, TRUE)
      OBVIOUS
    <2>b. st[p].dvp \in Vnodes
      BY <1>0, <1>1, NoneApart DEF StRec, SomeVnode, Shape, Getting
    <2>a. <<st[p].dvp>> \in Seq(Vnodes) /\ TRUE \in BOOLEAN
      BY <2>b
    <2>2. /\ r.pc = "rele" /\ r.call = None /\ r.name = None /\ r.slot = None
          /\ r.dvp = st[p].dvp /\ r.vp = st[p].vp /\ r.ret = None /\ r.gvp = None
          /\ r.gret = None /\ r.rel = <<st[p].dvp>> /\ r.keep = TRUE /\ r.nvp = None
          /\ r.busy = FALSE
      BY <1>0, <2>1, <2>a, ReleasingType
    <2>3. r \in StRec
      BY <1>0, <2>1, <2>a, ReleasingType
    <2>4. Shape(r) /\ ~Making(r) /\ ~Making(st[p])
      BY <1>0, <1>1, <2>2, NoneApart DEF Shape, Making, Getting, Letting, Leaves, Working, Cleaning, Inactive
    <2>5. /\ r.dvp = st[p].dvp /\ r.vp = st[p].vp /\ r.gvp = st[p].gvp
          /\ r.pc \in Working => r.pc \in Inactive /\ st[p].pc \in Inactive
      BY <1>0, <1>1, <2>2, NoneApart DEF Shape, Making, Getting, Working, Inactive, Cleaning
    <2>6. /\ r.call \in {"open", "create"} \/ r.keep => held[p] = None
          /\ HasBuf(r) => bp' = p
          /\ HasRoot(r) => cov' = p
      BY <1>0, <1>1, <2>2, <2>4, NoneApart DEF Own, Shape, HasBuf, HasRoot, Getting, Making, Letting, Cleaning
    <2>7. /\ InDir(r) => InDir(st[p])
          /\ r.vp # None => /\ HasLeaf(r) => HasLeaf(st[p])
                            /\ Unlinks(r) => Unlinks(st[p])
                            /\ st[p].pc # "clock"
      BY <1>0, <1>1, <2>2, <2>4 DEF Shape, InDir, HasLeaf, Unlinks, Getting, Making
    <2>8. st' = [st EXCEPT ![p] = r]
      BY <1>0, <1>1, <2>1 DEF Types
    <2>9. Quiet(p, r)
      BY <1>0, <1>1, <2>3, <2>4, <2>5, <2>6, <2>7, <2>8 DEF Quiet
    <2> QED
      BY <1>1, <2>2, <2>9, QuietGoto
  <1> QED
    BY <1>3

LEMMA LookupFailsCore ==
    ASSUME Core, NEW p \in Procs, LookupFails(p), UNCHANGED calls
    PROVE  Core'
  <1>0. Types /\ Own(p) /\ Shape(st[p]) /\ st[p] \in StRec
    BY DEF Core, ProcOK, Types, Own
  <1>1. /\ st[p].pc = "enoent" /\ st' = [st EXCEPT ![p] = Releasing(st[p], <<st[p].dvp>>, FALSE)]
        /\ vn' = vn /\ wchan' = wchan /\ vfree' = vfree /\ mntlist' = mntlist /\ held' = held
        /\ calls' = calls /\ nc' = nc /\ numcache' = numcache /\ wchan[p] = None
        /\ cpu \in {p, None} /\ cpu' \in {p, None}
        /\ bp' = bp
        /\ cov' = cov
        /\ dir' \in [Slots -> Names \cup {None}]
    BY <1>0, NoneApart DEF LookupFails, At, Goto, Run, Yield, Types, fs
  <1>3. Core'
    <2>1. PICK r : r = Releasing(st[p], <<st[p].dvp>>, FALSE)
      OBVIOUS
    <2>b. st[p].dvp \in Vnodes
      BY <1>0, <1>1, NoneApart DEF StRec, SomeVnode, Shape, Getting
    <2>a. <<st[p].dvp>> \in Seq(Vnodes) /\ FALSE \in BOOLEAN
      BY <2>b
    <2>2. /\ r.pc = "rele" /\ r.call = None /\ r.name = None /\ r.slot = None
          /\ r.dvp = st[p].dvp /\ r.vp = st[p].vp /\ r.ret = None /\ r.gvp = None
          /\ r.gret = None /\ r.rel = <<st[p].dvp>> /\ r.keep = FALSE /\ r.nvp = None
          /\ r.busy = FALSE
      BY <1>0, <2>1, <2>a, ReleasingType
    <2>3. r \in StRec
      BY <1>0, <2>1, <2>a, ReleasingType
    <2>4. Shape(r) /\ ~Making(r) /\ ~Making(st[p])
      BY <1>0, <1>1, <2>2, NoneApart DEF Shape, Making, Getting, Letting, Leaves, Working, Cleaning, Inactive
    <2>5. /\ r.dvp = st[p].dvp /\ r.vp = st[p].vp /\ r.gvp = st[p].gvp
          /\ r.pc \in Working => r.pc \in Inactive /\ st[p].pc \in Inactive
      BY <1>0, <1>1, <2>2, NoneApart DEF Shape, Making, Getting, Working, Inactive, Cleaning
    <2>6. /\ r.call \in {"open", "create"} \/ r.keep => held[p] = None
          /\ HasBuf(r) => bp' = p
          /\ HasRoot(r) => cov' = p
      BY <1>0, <1>1, <2>2, <2>4, NoneApart DEF Own, Shape, HasBuf, HasRoot, Getting, Making, Letting, Cleaning
    <2>7. /\ InDir(r) => InDir(st[p])
          /\ r.vp # None => /\ HasLeaf(r) => HasLeaf(st[p])
                            /\ Unlinks(r) => Unlinks(st[p])
                            /\ st[p].pc # "clock"
      BY <1>0, <1>1, <2>2, <2>4 DEF Shape, InDir, HasLeaf, Unlinks, Getting, Making
    <2>8. st' = [st EXCEPT ![p] = r]
      BY <1>0, <1>1, <2>1 DEF Types
    <2>9. Quiet(p, r)
      BY <1>0, <1>1, <2>3, <2>4, <2>5, <2>6, <2>7, <2>8 DEF Quiet
    <2> QED
      BY <1>1, <2>2, <2>9, QuietGoto
  <1> QED
    BY <1>3

LEMMA LookupFoundCore ==
    ASSUME Core, NEW p \in Procs, LookupFound(p), UNCHANGED calls
    PROVE  Core'
  <1>0. Types /\ Own(p) /\ Shape(st[p]) /\ st[p] \in StRec
    BY DEF Core, ProcOK, Types, Own
  <1>1. /\ st[p].pc = "found"
        /\ vn' = vn /\ wchan' = wchan /\ vfree' = vfree /\ mntlist' = mntlist /\ held' = held
        /\ calls' = calls /\ nc' = nc /\ numcache' = numcache /\ wchan[p] = None
        /\ cpu \in {p, None} /\ cpu' \in {p, None}
        /\ bp' = bp
        /\ cov' = cov
        /\ dir' \in [Slots -> Names \cup {None}]
        /\ st[p].call = "unlink" => st' = [st EXCEPT ![p].pc = "markdel"]
        /\ st[p].call # "unlink" => st' = [st EXCEPT ![p] = Releasing(st[p], <<st[p].dvp>>, TRUE)]
    BY <1>0, NoneApart DEF LookupFound, At, Goto, Run, Yield, Types, fs
  <1>3. CASE st[p].call = "unlink"
    <2>1. PICK r : r = [st[p] EXCEPT !.pc = "markdel"]
      OBVIOUS
    <2>2. /\ r.pc = "markdel" /\ r.call = st[p].call /\ r.name = st[p].name
          /\ r.slot = st[p].slot /\ r.dvp = st[p].dvp /\ r.vp = st[p].vp /\ r.ret = st[p].ret
          /\ r.gvp = st[p].gvp /\ r.gret = st[p].gret /\ r.rel = st[p].rel
          /\ r.keep = st[p].keep /\ r.nvp = st[p].nvp /\ r.busy = st[p].busy
      BY <1>0, <2>1 DEF StRec
    <2>3. r \in StRec
      BY <1>0, <1>1, <1>3, <2>1, ZenonT(60) DEF StRec, PCs
    <2>4. Shape(r) /\ ~Making(r) /\ ~Making(st[p])
      BY <1>0, <1>1, <1>3, <2>2, NoneApart DEF Shape, Making, Getting, Letting, Leaves, Working, Cleaning, Inactive
    <2>5. /\ r.dvp = st[p].dvp /\ r.vp = st[p].vp /\ r.gvp = st[p].gvp
          /\ r.pc \in Working => r.pc \in Inactive /\ st[p].pc \in Inactive
      BY <1>0, <1>1, <1>3, <2>2, NoneApart DEF Shape, Making, Getting, Working, Inactive, Cleaning
    <2>6. /\ r.call \in {"open", "create"} \/ r.keep => held[p] = None
          /\ HasBuf(r) => bp' = p
          /\ HasRoot(r) => cov' = p
      BY <1>0, <1>1, <1>3, <2>2, <2>4, NoneApart DEF Own, Shape, HasBuf, HasRoot, Getting, Making, Letting, Cleaning
    <2>7. /\ InDir(r) => InDir(st[p])
          /\ r.vp # None => /\ HasLeaf(r) => HasLeaf(st[p])
                            /\ Unlinks(r) => Unlinks(st[p])
                            /\ st[p].pc # "clock"
      BY <1>0, <1>1, <1>3, <2>2, <2>4 DEF Shape, InDir, HasLeaf, Unlinks, Getting, Making
    <2>8. st' = [st EXCEPT ![p] = r]
      BY <1>0, <1>1, <1>3, <2>1 DEF Types
    <2>9. Quiet(p, r)
      BY <1>0, <1>1, <1>3, <2>3, <2>4, <2>5, <2>6, <2>7, <2>8 DEF Quiet
    <2> QED
      BY <1>1, <2>2, <2>9, QuietGoto
  <1>4. CASE st[p].call # "unlink"
    <2>1. PICK r : r = Releasing(st[p], <<st[p].dvp>>, TRUE)
      OBVIOUS
    <2>b. st[p].dvp \in Vnodes
      BY <1>0, <1>1, <1>4, NoneApart DEF StRec, SomeVnode, Shape, Getting
    <2>a. <<st[p].dvp>> \in Seq(Vnodes) /\ TRUE \in BOOLEAN
      BY <2>b
    <2>2. /\ r.pc = "rele" /\ r.call = None /\ r.name = None /\ r.slot = None
          /\ r.dvp = st[p].dvp /\ r.vp = st[p].vp /\ r.ret = None /\ r.gvp = None
          /\ r.gret = None /\ r.rel = <<st[p].dvp>> /\ r.keep = TRUE /\ r.nvp = None
          /\ r.busy = FALSE
      BY <1>0, <2>1, <2>a, ReleasingType
    <2>3. r \in StRec
      BY <1>0, <2>1, <2>a, ReleasingType
    <2>4. Shape(r) /\ ~Making(r) /\ ~Making(st[p])
      BY <1>0, <1>1, <1>4, <2>2, NoneApart DEF Shape, Making, Getting, Letting, Leaves, Working, Cleaning, Inactive
    <2>5. /\ r.dvp = st[p].dvp /\ r.vp = st[p].vp /\ r.gvp = st[p].gvp
          /\ r.pc \in Working => r.pc \in Inactive /\ st[p].pc \in Inactive
      BY <1>0, <1>1, <1>4, <2>2, NoneApart DEF Shape, Making, Getting, Working, Inactive, Cleaning
    <2>6. /\ r.call \in {"open", "create"} \/ r.keep => held[p] = None
          /\ HasBuf(r) => bp' = p
          /\ HasRoot(r) => cov' = p
      BY <1>0, <1>1, <1>4, <2>2, <2>4, NoneApart DEF Own, Shape, HasBuf, HasRoot, Getting, Making, Letting, Cleaning
    <2>7. /\ InDir(r) => InDir(st[p])
          /\ r.vp # None => /\ HasLeaf(r) => HasLeaf(st[p])
                            /\ Unlinks(r) => Unlinks(st[p])
                            /\ st[p].pc # "clock"
      BY <1>0, <1>1, <1>4, <2>2, <2>4 DEF Shape, InDir, HasLeaf, Unlinks, Getting, Making
    <2>8. st' = [st EXCEPT ![p] = r]
      BY <1>0, <1>1, <1>4, <2>1 DEF Types
    <2>9. Quiet(p, r)
      BY <1>0, <1>1, <1>4, <2>3, <2>4, <2>5, <2>6, <2>7, <2>8 DEF Quiet
    <2> QED
      BY <1>1, <2>2, <2>9, QuietGoto
  <1> QED
    BY <1>0, <1>1, <1>3, <1>4 DEF Shape, Letting, Getting, Making, Cleaning
-----------------------------------------------------------------------------
(* The name cache loses an entry, or gets one.                             *)
LEMMA EntryDropped ==
    ASSUME Core, NEW i \in DOMAIN nc, vn' = vn, nc' = DropEntry(i)
    PROVE  nc' \in Seq(Entry) /\ Len(nc') = Len(nc) - 1 /\ CacheOK'
  <1>1. nc \in Seq(Entry) /\ CacheOK
    BY DEF Core, Types
  <1>2. /\ nc' \in Seq(Entry) /\ Len(nc') = Len(nc) - 1
        /\ \A j \in DOMAIN nc' : nc'[j] = IF j < i THEN nc[j] ELSE nc[j + 1]
    BY <1>1, UnlinkPlaces DEF DropEntry
  <1>3. i \in 1..Len(nc) /\ Len(nc) \in Nat /\ DOMAIN nc' = 1..(Len(nc) - 1) /\ DOMAIN nc = 1..Len(nc)
    BY <1>1, <1>2
  <1>4. \A j \in DOMAIN nc' : \E k \in DOMAIN nc : nc'[j] = nc[k]
    BY <1>2, <1>3
  <1> QED
    BY <1>1, <1>2, <1>4 DEF CacheOK

LEMMA EntryAdded ==
    ASSUME NEW s \in Seq(Entry), NEW e \in Entry, nc' = <<e>> \o s,
           Valid(e) => ~vn'[e.vp].bad /\ vn'[e.vp].slot \in Slots,
           \A i \in DOMAIN s : Valid(s[i]) => ~vn'[s[i].vp].bad /\ vn'[s[i].vp].slot \in Slots
    PROVE  nc' \in Seq(Entry) /\ Len(nc') = Len(s) + 1 /\ CacheOK'
  <1>1. /\ nc' \in Seq(Entry) /\ Len(nc') = Len(s) + 1
        /\ \A j \in DOMAIN nc' : nc'[j] = IF j = 1 THEN e ELSE s[j - 1]
    BY ConsPlaces
  <1>2. Len(s) \in Nat /\ DOMAIN nc' = 1..(Len(s) + 1) /\ DOMAIN s = 1..Len(s)
    BY <1>1
  <1>3. \A j \in DOMAIN nc' : nc'[j] = e \/ \E k \in DOMAIN s : nc'[j] = s[k]
    BY <1>1, <1>2
  <1> QED
    BY <1>1, <1>3 DEF CacheOK

LEMMA FirstMatchIn ==
    ASSUME Types, NEW p \in Procs, Matches(p) # {}
    PROVE  FirstMatch(p) \in DOMAIN nc /\ FirstMatch(p) \in Matches(p)
  <1>1. DOMAIN nc \subseteq Nat /\ Matches(p) \subseteq DOMAIN nc
    BY DEF Types, Matches
  <1>2. \E i \in Matches(p) : \A j \in Matches(p) : i <= j
    BY <1>1, Least
  <1> QED
    BY <1>1, <1>2 DEF FirstMatch

LEMMA CacheMissCore ==
    ASSUME Core, NEW p \in Procs, CacheMiss(p), UNCHANGED calls
    PROVE  Core'
  <1>0. Types /\ Own(p) /\ Shape(st[p]) /\ st[p] \in StRec
    BY DEF Core, ProcOK, Types, Own
  <1>1. /\ st[p].pc = "cache" /\ st' = [st EXCEPT ![p].pc = "search"]
        /\ vn' = vn /\ wchan' = wchan /\ vfree' = vfree /\ mntlist' = mntlist /\ held' = held
        /\ calls' = calls /\ wchan[p] = None
        /\ cpu \in {p, None} /\ cpu' \in {p, None}
        /\ bp' = bp
        /\ cov' = cov
        /\ dir' \in [Slots -> Names \cup {None}]
        /\ numcache' = numcache
        /\ nc' = nc \/ (Matches(p) # {} /\ nc' = DropEntry(FirstMatch(p)))
    BY <1>0, NoneApart DEF CacheMiss, At, Goto, Run, Yield, Types, fs
  <1>3. PICK r : Quiet(p, r) /\ r.pc = "search"
    <2>1. PICK r : r = [st[p] EXCEPT !.pc = "search"]
      OBVIOUS
    <2>2. /\ r.pc = "search" /\ r.call = st[p].call /\ r.name = st[p].name
          /\ r.slot = st[p].slot /\ r.dvp = st[p].dvp /\ r.vp = st[p].vp /\ r.ret = st[p].ret
          /\ r.gvp = st[p].gvp /\ r.gret = st[p].gret /\ r.rel = st[p].rel
          /\ r.keep = st[p].keep /\ r.nvp = st[p].nvp /\ r.busy = st[p].busy
      BY <1>0, <2>1 DEF StRec
    <2>3. r \in StRec
      BY <1>0, <1>1, <2>1, ZenonT(60) DEF StRec, PCs
    <2>4. Shape(r) /\ ~Making(r) /\ ~Making(st[p])
      BY <1>0, <1>1, <2>2, NoneApart DEF Shape, Making, Getting, Letting, Leaves, Working, Cleaning, Inactive
    <2>5. /\ r.dvp = st[p].dvp /\ r.vp = st[p].vp /\ r.gvp = st[p].gvp
          /\ r.pc \in Working => r.pc \in Inactive /\ st[p].pc \in Inactive
      BY <1>0, <1>1, <2>2, NoneApart DEF Shape, Making, Getting, Working, Inactive, Cleaning
    <2>6. /\ r.call \in {"open", "create"} \/ r.keep => held[p] = None
          /\ HasBuf(r) => bp' = p
          /\ HasRoot(r) => cov' = p
      BY <1>0, <1>1, <2>2, <2>4, NoneApart DEF Own, Shape, HasBuf, HasRoot, Getting, Making, Letting, Cleaning
    <2>7. /\ InDir(r) => InDir(st[p])
          /\ r.vp # None => /\ HasLeaf(r) => HasLeaf(st[p])
                            /\ Unlinks(r) => Unlinks(st[p])
                            /\ st[p].pc # "clock"
      BY <1>0, <1>1, <2>2, <2>4 DEF Shape, InDir, HasLeaf, Unlinks, Getting, Making
    <2>8. st' = [st EXCEPT ![p] = r]
      BY <1>0, <1>1, <2>1 DEF Types
    <2>9. Quiet(p, r)
      BY <1>0, <1>1, <2>3, <2>4, <2>5, <2>6, <2>7, <2>8 DEF Quiet
    <2> QED
      BY <2>9, <2>2
  <1>4. CASE nc' = nc
    BY <1>1, <1>3, <1>4, QuietGoto
  <1>5. CASE Matches(p) # {} /\ nc' = DropEntry(FirstMatch(p))
    <2>1. nc' \in Seq(Entry) /\ Len(nc') = Len(nc) - 1 /\ CacheOK'
      BY <1>0, <1>1, <1>5, FirstMatchIn, EntryDropped
    <2>2. Others(p) /\ st'[p] = r
      BY <1>0, <1>3 DEF Quiet, Others, Types
    <2>3. CacheBound'
      BY <1>1, <1>3, <2>2, BoundKept
    <2>4. numcache' \in Nat /\ Len(nc') <= numcache'
      <3>1. Len(nc) \in Nat /\ numcache \in Nat /\ Len(nc) <= numcache
        BY <1>0 DEF Types
      <3> QED
        BY <3>1, <2>1, <1>1
    <2> QED
      BY <1>3, <2>1, <2>3, <2>4, QuietStep
  <1> QED
    BY <1>1, <1>4, <1>5

LEMMA CacheMallocCore ==
    ASSUME Core, NEW p \in Procs, CacheMalloc(p), UNCHANGED calls
    PROVE  Core'
  <1>0. Types /\ Own(p) /\ Shape(st[p]) /\ st[p] \in StRec
    BY DEF Core, ProcOK, Types, Own
  <1>1. /\ st[p].pc = "enter" /\ st' = [st EXCEPT ![p].pc = "malloc"]
        /\ vn' = vn /\ wchan' = wchan /\ vfree' = vfree /\ mntlist' = mntlist /\ held' = held
        /\ calls' = calls /\ wchan[p] = None
        /\ cpu \in {p, None} /\ cpu' \in {p, None}
        /\ bp' = bp
        /\ cov' = cov
        /\ dir' \in [Slots -> Names \cup {None}]
        /\ nc' = nc /\ numcache' = numcache /\ numcache < MaxCache
    BY <1>0, NoneApart DEF CacheMalloc, At, Goto, Run, Yield, Types, fs
  <1>3. PICK r : Quiet(p, r) /\ r.pc = "malloc"
    <2>1. PICK r : r = [st[p] EXCEPT !.pc = "malloc"]
      OBVIOUS
    <2>2. /\ r.pc = "malloc" /\ r.call = st[p].call /\ r.name = st[p].name
          /\ r.slot = st[p].slot /\ r.dvp = st[p].dvp /\ r.vp = st[p].vp /\ r.ret = st[p].ret
          /\ r.gvp = st[p].gvp /\ r.gret = st[p].gret /\ r.rel = st[p].rel
          /\ r.keep = st[p].keep /\ r.nvp = st[p].nvp /\ r.busy = st[p].busy
      BY <1>0, <2>1 DEF StRec
    <2>3. r \in StRec
      BY <1>0, <1>1, <2>1, ZenonT(60) DEF StRec, PCs
    <2>4. Shape(r) /\ ~Making(r) /\ ~Making(st[p])
      BY <1>0, <1>1, <2>2, NoneApart DEF Shape, Making, Getting, Letting, Leaves, Working, Cleaning, Inactive
    <2>5. /\ r.dvp = st[p].dvp /\ r.vp = st[p].vp /\ r.gvp = st[p].gvp
          /\ r.pc \in Working => r.pc \in Inactive /\ st[p].pc \in Inactive
      BY <1>0, <1>1, <2>2, NoneApart DEF Shape, Making, Getting, Working, Inactive, Cleaning
    <2>6. /\ r.call \in {"open", "create"} \/ r.keep => held[p] = None
          /\ HasBuf(r) => bp' = p
          /\ HasRoot(r) => cov' = p
      BY <1>0, <1>1, <2>2, <2>4, NoneApart DEF Own, Shape, HasBuf, HasRoot, Getting, Making, Letting, Cleaning
    <2>7. /\ InDir(r) => InDir(st[p])
          /\ r.vp # None => /\ HasLeaf(r) => HasLeaf(st[p])
                            /\ Unlinks(r) => Unlinks(st[p])
                            /\ st[p].pc # "clock"
      BY <1>0, <1>1, <2>2, <2>4 DEF Shape, InDir, HasLeaf, Unlinks, Getting, Making
    <2>8. st' = [st EXCEPT ![p] = r]
      BY <1>0, <1>1, <2>1 DEF Types
    <2>9. Quiet(p, r)
      BY <1>0, <1>1, <2>3, <2>4, <2>5, <2>6, <2>7, <2>8 DEF Quiet
    <2> QED
      BY <2>9, <2>2
  <1>4. Others(p) /\ st'[p] = r
    BY <1>0, <1>3 DEF Quiet, Others, Types
  <1>5. CacheBound'
    <2>1. PICK n, c : /\ n = Cardinality({q \in Procs : st'[q].pc = "malloc"})
                      /\ c = Cardinality(Procs)
      OBVIOUS
    <2>2. n \in Nat /\ c \in Nat /\ n <= c /\ numcache \in Nat /\ MaxCache \in Nat
      BY <1>0, <1>4, <2>1, MallocMoves, NoneApart DEF Types
    <2>3. numcache + n <= MaxCache + c
      BY <1>1, <2>2
    <2> QED
      BY <1>1, <2>1, <2>3 DEF CacheBound
  <1>6. CacheOK'
    BY <1>1 DEF Core, CacheOK
  <1>7. nc' \in Seq(Entry) /\ numcache' \in Nat /\ Len(nc') <= numcache'
    BY <1>0, <1>1 DEF Types
  <1> QED
    BY <1>3, <1>5, <1>6, <1>7, QuietStep

LEMMA CacheEnterCore ==
    ASSUME Core, NEW p \in Procs, CacheEnter(p), UNCHANGED calls
    PROVE  Core'
  <1>0. Types /\ Own(p) /\ Shape(st[p]) /\ st[p] \in StRec
    BY DEF Core, ProcOK, Types, Own
  <1>2. PICK l : l = IF st[p].vp = None THEN "enoent" ELSE "found"
    OBVIOUS
  <1>1. /\ st[p].pc \in {"enter", "malloc"} /\ st' = [st EXCEPT ![p].pc = l]
        /\ vn' = vn /\ wchan' = wchan /\ vfree' = vfree /\ mntlist' = mntlist /\ held' = held
        /\ calls' = calls /\ wchan[p] = None
        /\ cpu \in {p, None} /\ cpu' \in {p, None}
        /\ bp' = bp
        /\ cov' = cov
        /\ dir' \in [Slots -> Names \cup {None}]
        /\ cache_enter(p)
        /\ l = IF st[p].vp = None THEN "enoent" ELSE "found"
    BY <1>0, <1>2, NoneApart DEF CacheEnter, At, Goto, Run, Yield, Types, fs
  <1>3. PICK r : Quiet(p, r) /\ r.pc = l
    <2>a. l \in PCs
      BY <1>1 DEF PCs
    <2>1. PICK r : r = [st[p] EXCEPT !.pc = l]
      OBVIOUS
    <2>2. /\ r.pc = l /\ r.call = st[p].call /\ r.name = st[p].name /\ r.slot = st[p].slot
          /\ r.dvp = st[p].dvp /\ r.vp = st[p].vp /\ r.ret = st[p].ret /\ r.gvp = st[p].gvp
          /\ r.gret = st[p].gret /\ r.rel = st[p].rel /\ r.keep = st[p].keep
          /\ r.nvp = st[p].nvp /\ r.busy = st[p].busy
      BY <1>0, <2>1 DEF StRec
    <2>3. r \in StRec
      BY <1>0, <2>a, <2>1, ZenonT(60) DEF StRec
    <2>4. Shape(r) /\ ~Making(r) /\ ~Making(st[p])
      BY <1>0, <1>1, <2>2, NoneApart DEF Shape, Making, Getting, Letting, Leaves, Working, Cleaning, Inactive
    <2>5. /\ r.dvp = st[p].dvp /\ r.vp = st[p].vp /\ r.gvp = st[p].gvp
          /\ r.pc \in Working => r.pc \in Inactive /\ st[p].pc \in Inactive
      BY <1>0, <1>1, <2>2, NoneApart DEF Shape, Making, Getting, Working, Inactive, Cleaning
    <2>6. /\ r.call \in {"open", "create"} \/ r.keep => held[p] = None
          /\ HasBuf(r) => bp' = p
          /\ HasRoot(r) => cov' = p
      BY <1>0, <1>1, <2>2, <2>4, NoneApart DEF Own, Shape, HasBuf, HasRoot, Getting, Making, Letting, Cleaning
    <2>7. /\ InDir(r) => InDir(st[p])
          /\ r.vp # None => /\ HasLeaf(r) => HasLeaf(st[p])
                            /\ Unlinks(r) => Unlinks(st[p])
                            /\ st[p].pc # "clock"
      BY <1>0, <1>1, <2>2, <2>4 DEF Shape, InDir, HasLeaf, Unlinks, Getting, Making
    <2>8. st' = [st EXCEPT ![p] = r]
      BY <1>0, <1>1, <2>1 DEF Types
    <2>9. Quiet(p, r)
      BY <1>0, <1>1, <2>3, <2>4, <2>5, <2>6, <2>7, <2>8 DEF Quiet
    <2> QED
      BY <2>9, <2>2
  <1>4. Others(p) /\ st'[p] = r
    BY <1>0, <1>3 DEF Quiet, Others, Types
  <1>5. PICK e : e = [dvp |-> st[p].dvp, dvpid |-> TRUE, name |-> st[p].name,
                      vp |-> st[p].vp, vpid |-> st[p].vp # None]
    OBVIOUS
  <1>6. e \in Entry /\ e.vp = st[p].vp
    <2>1. st[p].dvp \in Vnodes /\ st[p].name \in Names /\ st[p].vp \in SomeVnode
      BY <1>0, <1>1, NoneApart DEF StRec, SomeVnode, Shape, Letting, Cleaning
    <2> QED
      BY <1>5, <2>1 DEF Entry
  <1>7. Valid(e) => ~vn'[e.vp].bad /\ vn'[e.vp].slot \in Slots
    <2> SUFFICES ASSUME Valid(e) PROVE ~vn'[e.vp].bad /\ vn'[e.vp].slot \in Slots
      OBVIOUS
    <2>1. e.vp \in Vnodes /\ st[p].vp = e.vp
      BY <1>6 DEF Entry, SomeVnode, Valid
    <2>2. ~vn[e.vp].bad
      BY <2>1, InUse
    <2>3. vn[e.vp].slot \in Slots
      BY <2>1 DEF Core, Pair, Refers
    <2> QED
      BY <1>1, <2>2, <2>3
  <1>8. \A i \in DOMAIN nc : Valid(nc[i]) => ~vn'[nc[i].vp].bad /\ vn'[nc[i].vp].slot \in Slots
    BY <1>1 DEF Core, CacheOK
  <1>9. nc \in Seq(Entry) /\ Len(nc) \in Nat /\ numcache \in Nat /\ Len(nc) <= numcache
    BY <1>0 DEF Types
  <1>10. PICK m, n, c : /\ m = Cardinality({q \in Procs : st[q].pc = "malloc"})
                        /\ n = Cardinality({q \in Procs : st'[q].pc = "malloc"})
                        /\ c = Cardinality(Procs)
    OBVIOUS
  <1>11. /\ m \in Nat /\ n \in Nat /\ c \in Nat /\ n <= c /\ MaxCache \in Nat
         /\ n = m + One(st'[p].pc = "malloc") - One(st[p].pc = "malloc")
    BY <1>4, <1>10, MallocMoves, NoneApart
  <1>12. st'[p].pc # "malloc" /\ One(st'[p].pc = "malloc") = 0
    BY <1>1, <1>3, <1>4 DEF One
  <1>13. CASE (numcache < MaxCache \/ st[p].pc = "malloc") /\ nc' = <<e>> \o nc /\ numcache' = numcache + 1
    <2>1. nc' \in Seq(Entry) /\ Len(nc') = Len(nc) + 1 /\ CacheOK'
      BY <1>6, <1>7, <1>8, <1>9, <1>13, EntryAdded
    <2>2. numcache' \in Nat /\ Len(nc') <= numcache'
      BY <1>9, <1>13, <2>1
    <2>3. numcache + m <= MaxCache + c
      BY <1>10 DEF Core, CacheBound
    <2>4. numcache' + n <= MaxCache + c
      <3>1. CASE st[p].pc = "malloc"
        <4>1. One(st[p].pc = "malloc") = 1
          BY <3>1 DEF One
        <4> QED
          BY <4>1, <1>9, <1>11, <1>12, <1>13, <2>3
      <3>2. CASE numcache < MaxCache
        BY <3>2, <1>9, <1>11, <1>13
      <3> QED
        BY <3>1, <3>2, <1>13
    <2>5. CacheBound'
      BY <1>10, <2>4 DEF CacheBound
    <2> QED
      BY <1>3, <2>1, <2>2, <2>5, QuietStep
  <1>14. CASE numcache' = numcache /\ Len(nc) < numcache /\ nc' = <<e>> \o nc
    <2>1. nc' \in Seq(Entry) /\ Len(nc') = Len(nc) + 1 /\ CacheOK'
      BY <1>6, <1>7, <1>8, <1>9, <1>14, EntryAdded
    <2>2. numcache' \in Nat /\ Len(nc') <= numcache'
      BY <1>9, <1>14, <2>1
    <2>3. CacheBound'
      BY <1>4, <1>12, <1>14, BoundKept
    <2> QED
      BY <1>3, <2>1, <2>2, <2>3, QuietStep
  <1>15. CASE numcache' = numcache /\ \E i \in DOMAIN nc : nc' = <<e>> \o DropEntry(i)
    <2>1. PICK i \in DOMAIN nc : nc' = <<e>> \o DropEntry(i)
      BY <1>15
    <2>2. /\ DropEntry(i) \in Seq(Entry) /\ Len(DropEntry(i)) = Len(nc) - 1
          /\ \A j \in DOMAIN DropEntry(i) : DropEntry(i)[j] = IF j < i THEN nc[j] ELSE nc[j + 1]
      BY <1>9, UnlinkPlaces DEF DropEntry
    <2>3. PICK s : s = DropEntry(i)
      OBVIOUS
    <2>4. DOMAIN s = 1..(Len(nc) - 1) /\ DOMAIN nc = 1..Len(nc)
      BY <1>9, <2>2, <2>3
    <2>5. \A j \in DOMAIN s : \E k \in DOMAIN nc : s[j] = nc[k]
      BY <1>9, <2>2, <2>3, <2>4
    <2>6. nc' \in Seq(Entry) /\ Len(nc') = Len(s) + 1 /\ CacheOK'
      BY <1>6, <1>7, <1>8, <2>1, <2>2, <2>3, <2>5, EntryAdded
    <2>7. numcache' \in Nat /\ Len(nc') <= numcache'
      BY <1>9, <1>15, <2>2, <2>3, <2>6
    <2>8. CacheBound'
      BY <1>4, <1>12, <1>15, BoundKept
    <2> QED
      BY <1>3, <2>6, <2>7, <2>8, QuietStep
  <1> QED
    BY <1>1, <1>5, <1>13, <1>14, <1>15 DEF cache_enter

LEMMA BufWaitCore ==
    ASSUME Core, NEW p \in Procs, BufWait(p), UNCHANGED calls
    PROVE  Core'
  <1>0. Types /\ Own(p) /\ Shape(st[p]) /\ st[p] \in StRec
    BY DEF Core, ProcOK, Types, Own
  <1>1. /\ st[p].pc \in {"search", "createde", "markdel", "deupdat"} /\ wchan[p] = None
        /\ cpu = p /\ cpu' = None /\ st' = st /\ calls' = calls
        /\ vn' = vn /\ wchan' = wchan /\ vfree' = vfree /\ mntlist' = mntlist /\ held' = held
        /\ nc' = nc /\ numcache' = numcache /\ dir' = dir /\ bp' = bp /\ cov' = cov
    BY DEF BufWait, At, fs
  <1>2. st' = [st EXCEPT ![p] = st[p]]
    BY <1>0, <1>1 DEF Types
  <1>3. ~Making(st[p]) /\ ~Getting(st[p])
    BY <1>0, <1>1, NoneApart DEF Making, Getting, Shape, Cleaning
  <1>4. Quiet(p, st[p])
    BY <1>0, <1>1, <1>2, <1>3 DEF Quiet, Own, Types, Working, Cleaning, Inactive
  <1> QED
    BY <1>1, <1>4, QuietGoto

-----------------------------------------------------------------------------
(* Steps that change vnodes.  p goes on as r; it has the processor, and    *)
(* what it leaves is well formed.                                          *)
Ran(p) ==
    /\ wchan[p] = None /\ cpu \in {p, None} /\ cpu' \in {p, None}
    /\ bp' = bp \/ (bp \in {p, None} /\ bp' \in {p, None})
    /\ cov' = cov \/ (cov \in {p, None} /\ cov' \in {p, None})
    /\ calls' = calls /\ numcache' = numcache
    /\ dir' \in [Slots -> Names \cup {None}]
    /\ vn' \in [Vnodes -> VnRec] /\ vfree' \in Seq(Vnodes) /\ mntlist' \in Seq(Vnodes)
    /\ held' \in [Procs -> SomeVnode] /\ \A q \in Procs : q # p => held'[q] = held[q]
    /\ wchan' \in [Procs -> Chans \cup {None}]
    /\ \A q \in Procs : q # p => wchan'[q] \in {wchan[q], None}
    /\ cpu' = p => wchan'[p] = None
GoesOn(p, r) ==
    /\ r \in StRec /\ st' = [st EXCEPT ![p] = r] /\ r.pc # "malloc" /\ Shape(r)
    /\ r.call \in {"open", "create"} \/ r.keep => held'[p] = None
    /\ HasBuf(r) => bp' = p
    /\ HasRoot(r) => cov' = p
    /\ r.pc \in {"inactive", "vgone"} => cpu' = p
    /\ Making(r) => /\ st[p].pc # "newvnode"
                    /\ \/ Making(st[p]) /\ r.slot = st[p].slot
                       \/ InHash(r.slot) = {}

(* A vnode that the step leaves alone.                                     *)
Same(p, r, v) ==
    /\ vn'[v] = vn[v]
    /\ held'[p] = v <=> held[p] = v
    /\ r.dvp = v <=> st[p].dvp = v
    /\ r.dvp = v /\ InDir(r) => InDir(st[p])
    /\ r.vp = v <=> st[p].vp = v
    /\ r.vp = v => /\ HasLeaf(r) => HasLeaf(st[p])
                   /\ Unlinks(r) => Unlinks(st[p])
                   /\ st[p].pc = "clock" => r.pc = "clock"
    /\ r.gvp # v /\ st[p].gvp # v
    /\ wchan'[p] # DeChan(v) /\ wchan'[p] # VxChan(v)
    /\ \A q \in Procs : wchan[q] = VxChan(v) => wchan'[q] = wchan[q]
Fine(p, v) == Begins(p, v) /\ VnodeOK(v)' /\ Pair(p, v)' /\ Counted(p, v)

LEMMA SameFine ==
    ASSUME Core, NEW p \in Procs, NEW r, Ran(p), GoesOn(p, r), NEW v \in Vnodes, Same(p, r, v)
    PROVE  Mild(p, v) /\ Fine(p, v)
  <1>0. Types /\ Own(p) /\ VnodeOK(v) /\ Pair(p, v) /\ v # None
    BY NoneApart DEF Core, ProcOK
  <1>1. st'[p] = r
    BY <1>0 DEF Types, GoesOn
  <1>2. Mild(p, v)
    BY <1>0 DEF Mild, Same, Types
  <1>3. Begins(p, v)
    BY <1>1 DEF Begins, Same
  <1>4. VnodeOK(v)'
    BY <1>0 DEF VnodeOK, Same
  <1>5. Refers(p, v)'
    BY <1>0, <1>1 DEF Pair, Refers, MayLock, Same
  <1>6. Works(p, v)' /\ Sleeps(p, v)'
    BY <1>1 DEF Works, Sleeps, Same
  <1>7. Counted(p, v)
    <2>1. vn[v].use \in Nat
      BY <1>0 DEF Types, VnRec
    <2>2. /\ One(st'[p].dvp = v) = One(st[p].dvp = v) /\ One(st'[p].vp = v) = One(st[p].vp = v)
          /\ One(held'[p] = v) = One(held[p] = v) /\ vn'[v].use = vn[v].use
      BY <1>1 DEF Same, One
    <2>3. One(st[p].dvp = v) \in {0, 1} /\ One(st[p].vp = v) \in {0, 1} /\ One(held[p] = v) \in {0, 1}
      BY DEF One
    <2> QED
      BY <2>1, <2>2, <2>3 DEF Counted
  <1> QED
    BY <1>2, <1>3, <1>4, <1>5, <1>6, <1>7 DEF Fine, Pair

LEMMA StepCore ==
    ASSUME Core, NEW p \in Procs, NEW r, Ran(p), GoesOn(p, r),
           \A v \in Vnodes : Same(p, r, v) \/ (Changed(p, v) /\ Fine(p, v)),
           nc' \in Seq(Entry), Len(nc') = Len(nc), FreeOK', CacheOK'
    PROVE  Core'
  <1>0. Types
    BY DEF Core
  <1>1. /\ st'[p] = r /\ st' \in [Procs -> StRec]
        /\ \A q \in Procs : q # p => st'[q] = st[q]
    BY <1>0 DEF Types, GoesOn
  <1>2. Types'
    BY <1>0, <1>1, NoneApart DEF Types, Ran
  <1>3. Others(p)
    BY <1>1 DEF Others, Ran
  <1>4. \A v \in Vnodes : Changed(p, v) /\ Fine(p, v)
    BY SameFine DEF Changed
  <1>5. Legal(p)
    BY <1>1, <1>3, <1>4 DEF Legal, Ran, GoesOn, Fine
  <1>6. Own(p)'
    BY <1>1 DEF Own, Ran, GoesOn
  <1>7. CacheBound'
    BY <1>1, <1>3, BoundKept DEF Ran, GoesOn
  <1>8. \A v \in Vnodes : VnodeOK(v)' /\ Pair(p, v)' /\ Counted(p, v)
    BY <1>4 DEF Fine
  <1> QED
    BY <1>2, <1>5, <1>6, <1>7, <1>8, CoreStep

LEMMA MildStep ==
    ASSUME Core, NEW p \in Procs, NEW r, Ran(p), GoesOn(p, r),
           \A v \in Vnodes : Same(p, r, v) \/ (Mild(p, v) /\ Fine(p, v)),
           nc' = nc, FreeOK'
    PROVE  Core'
  <1>1. \A v \in Vnodes : Mild(p, v)
    BY SameFine
  <1>2. nc \in Seq(Entry) /\ \A i \in DOMAIN nc : nc[i] \in Entry
    BY DEF Core, Types
  <1>3. CacheOK'
    <2>1. \A i \in DOMAIN nc : Valid(nc[i]) => nc[i].vp \in Vnodes
      BY <1>2 DEF Entry, Valid, SomeVnode
    <2> QED
      BY <1>1, <1>2, <2>1, CacheKept
  <1>4. \A v \in Vnodes : Same(p, r, v) \/ (Changed(p, v) /\ Fine(p, v))
    BY DEF Changed
  <1> QED
    BY <1>2, <1>3, <1>4, StepCore

(* Sleeping and waking.                                                    *)
LEMMA Slept ==
    ASSUME Core, NEW p \in Procs, NEW c \in Chans, wchan[p] = None,
           wchan' = [wchan EXCEPT ![p] = c]
    PROVE  /\ wchan' \in [Procs -> Chans \cup {None}] /\ wchan'[p] = c
           /\ \A q \in Procs : q # p => wchan'[q] \in {wchan[q], None}
           /\ \A q \in Procs, v \in Vnodes : wchan[q] = VxChan(v) => wchan'[q] = wchan[q]
  <1>1. wchan \in [Procs -> Chans \cup {None}]
    BY DEF Core, Types
  <1> QED
    BY <1>1, NoneApart

LEMMA Woken ==
    ASSUME Core, NEW p \in Procs, NEW C, wchan[p] = None,
           wchan' = [q \in Procs |-> IF wchan[q] \in C THEN None ELSE wchan[q]]
    PROVE  /\ wchan' \in [Procs -> Chans \cup {None}] /\ wchan'[p] = None
           /\ \A q \in Procs : wchan'[q] \in {wchan[q], None}
           /\ \A q \in Procs, c \in Chans : /\ c \in C => wchan'[q] # c
                                            /\ c \notin C /\ wchan[q] = c => wchan'[q] = c
  <1>1. wchan \in [Procs -> Chans \cup {None}]
    BY DEF Core, Types
  <1>2. \A c \in Chans : c # None
    BY NoneApart DEF Chans
  <1> QED
    BY <1>1, <1>2

LEMMA ChansOf ==
    ASSUME NEW v \in Vnodes
    PROVE  DeChan(v) \in Chans /\ VxChan(v) \in Chans
  BY DEF Chans

(* When the lock is given up, who waits for it is woken.                   *)
LEMMA UnlockWakes ==
    ASSUME Core, NEW p \in Procs, NEW C, NEW v \in Vnodes, wchan[p] = None,
           wchan' = [q \in Procs |-> IF wchan[q] \in C THEN None ELSE wchan[q]],
           Waiters(vn[v], v) \subseteq C
    PROVE  \A q \in Procs : wchan'[q] # DeChan(v)
  <1> SUFFICES ASSUME NEW q \in Procs, wchan'[q] = DeChan(v) PROVE FALSE
    OBVIOUS
  <1>1. wchan'[q] \in {wchan[q], None} /\ (DeChan(v) \in C => wchan'[q] # DeChan(v))
    BY Woken, ChansOf
  <1>2. wchan[q] = DeChan(v)
    BY <1>1, NoneApart
  <1>3. vn[v].want
    BY <1>2 DEF Core, Pair, Sleeps
  <1> QED
    BY <1>1, <1>3 DEF Waiters

LEMMA VnTypes ==
    ASSUME NEW x \in VnRec, NEW q \in Procs \cup {None}, NEW b \in BOOLEAN, NEW n \in Nat
    PROVE  /\ [x EXCEPT !.want = b] \in VnRec /\ [x EXCEPT !.xwant = b] \in VnRec
           /\ [x EXCEPT !.xlock = b] \in VnRec /\ [x EXCEPT !.upd = b] \in VnRec
           /\ [x EXCEPT !.del = b] \in VnRec
           /\ [x EXCEPT !.lock = q] \in VnRec /\ [x EXCEPT !.use = n] \in VnRec
           /\ Unlocked(x) \in VnRec
  BY ZenonT(60) DEF VnRec, Unlocked

(* p sleeps until v is unlocked, or cleaned out.                           *)
WaitsOn(p, v) ==
    /\ ~vn[v].bad /\ wchan[p] = None /\ cpu \in {p, None} /\ cpu' = None
    /\ \/ /\ vn[v].lock # None /\ vn' = [vn EXCEPT ![v].want = TRUE]
          /\ wchan' = [wchan EXCEPT ![p] = DeChan(v)]
       \/ /\ vn[v].xlock /\ vn' = [vn EXCEPT ![v].xwant = TRUE]
          /\ wchan' = [wchan EXCEPT ![p] = VxChan(v)]
    /\ vfree' = vfree /\ mntlist' = mntlist /\ nc' = nc /\ numcache' = numcache
    /\ dir' = dir /\ bp' = bp /\ cov' = cov /\ held' = held /\ calls' = calls
WaitsAs(p, r, v) ==
    /\ r.dvp = st[p].dvp /\ r.vp = st[p].vp
    /\ r.gvp \in {v, None} /\ st[p].gvp \in {v, None}
    /\ st[p].pc \notin Inactive \cup {"vinvalbuf"}
    /\ InDir(r) => InDir(st[p])
    /\ r.vp # None => /\ HasLeaf(r) => HasLeaf(st[p])
                      /\ Unlinks(r) => Unlinks(st[p])
                      /\ st[p].pc = "clock" => r.pc = "clock"
    /\ r.gvp = v /\ Making(r) <=> st[p].gvp = v /\ Making(st[p])

LEMMA Waiting ==
    ASSUME Core, NEW p \in Procs, NEW v \in Vnodes, WaitsOn(p, v)
    PROVE  /\ Ran(p) /\ Mild(p, v) /\ VnodeOK(v)' /\ Sleeps(p, v)'
           /\ vn'[v].use = vn[v].use /\ vn'[v].bad = vn[v].bad /\ vn'[v].lock = vn[v].lock
           /\ vn'[v].slot = vn[v].slot /\ vn'[v].ref = vn[v].ref /\ vn'[v].xlock = vn[v].xlock
           /\ wchan'[p] = DeChan(v) \/ wchan'[p] = VxChan(v)
           /\ \A w \in Vnodes : w # v =>
                 /\ vn'[w] = vn[w] /\ wchan'[p] # DeChan(w) /\ wchan'[p] # VxChan(w)
                 /\ \A q \in Procs : wchan[q] = VxChan(w) => wchan'[q] = wchan[q]
  <1> USE DEF WaitsOn
  <1>0. Types /\ VnodeOK(v) /\ vn[v] \in VnRec
    BY DEF Core, Types
  <1>1. /\ wchan' \in [Procs -> Chans \cup {None}]
        /\ wchan'[p] = DeChan(v) \/ wchan'[p] = VxChan(v)
        /\ \A q \in Procs : q # p => wchan'[q] \in {wchan[q], None}
        /\ \A q \in Procs, w \in Vnodes : wchan[q] = VxChan(w) => wchan'[q] = wchan[q]
    BY Slept, ChansOf
  <1>a. DeChan(v) # VxChan(v) /\ p # None
    BY ChansApart, NoneApart
  <1>2. /\ vn'[v].use = vn[v].use /\ vn'[v].bad = vn[v].bad /\ vn'[v].lock = vn[v].lock
        /\ vn'[v].slot = vn[v].slot /\ vn'[v].ref = vn[v].ref /\ vn'[v].xlock = vn[v].xlock
        /\ vn'[v].upd = vn[v].upd
        /\ vn[v].want => vn'[v].want
        /\ vn[v].xwant => vn'[v].xwant
        /\ wchan'[p] = DeChan(v) => vn[v].lock # None /\ vn'[v].want
        /\ wchan'[p] = VxChan(v) => vn[v].xlock /\ vn'[v].xwant
    <2>1. CASE /\ vn[v].lock # None /\ vn' = [vn EXCEPT ![v].want = TRUE]
               /\ wchan' = [wchan EXCEPT ![p] = DeChan(v)]
      <3>1. vn'[v] = [vn[v] EXCEPT !.want = TRUE] /\ wchan'[p] = DeChan(v)
        BY <1>0, <2>1 DEF Types
      <3> QED
        BY <1>0, <2>1, <3>1, <1>a DEF VnRec
    <2>2. CASE /\ vn[v].xlock /\ vn' = [vn EXCEPT ![v].xwant = TRUE]
               /\ wchan' = [wchan EXCEPT ![p] = VxChan(v)]
      <3>1. vn'[v] = [vn[v] EXCEPT !.xwant = TRUE] /\ wchan'[p] = VxChan(v)
        BY <1>0, <2>2 DEF Types
      <3>2. wchan'[p] # DeChan(v) /\ vn[v].xlock
        BY <2>2, <3>1, <1>a
      <3>3. /\ vn'[v].use = vn[v].use /\ vn'[v].bad = vn[v].bad /\ vn'[v].lock = vn[v].lock
            /\ vn'[v].slot = vn[v].slot /\ vn'[v].ref = vn[v].ref /\ vn'[v].xlock = vn[v].xlock
            /\ vn'[v].upd = vn[v].upd /\ vn'[v].want = vn[v].want /\ vn'[v].xwant
        BY <1>0, <3>1 DEF VnRec
      <3> QED
        BY <3>2, <3>3
    <2> QED
      BY <2>1, <2>2
  <1>3. vn' \in [Vnodes -> VnRec] /\ \A w \in Vnodes : w # v => vn'[w] = vn[w]
    <2>1. [vn[v] EXCEPT !.want = TRUE] \in VnRec /\ [vn[v] EXCEPT !.xwant = TRUE] \in VnRec
      BY <1>0, VnTypes
    <2> QED
      BY <1>0, <2>1 DEF Types
  <1>4. Ran(p)
    BY <1>0, <1>1, <1>3, <1>a DEF Ran, Types
  <1>5. VnodeOK(v)'
    BY <1>0, <1>2 DEF VnodeOK
  <1>6. Mild(p, v)
    <2>1. vn[v] # NoFile
      BY DEF NoFile
    <2> QED
      BY <1>0, <1>1, <1>2, <2>1 DEF Mild, Types
  <1>7. Sleeps(p, v)'
    BY <1>2 DEF Sleeps
  <1>8. \A w \in Vnodes : w # v => wchan'[p] # DeChan(w) /\ wchan'[p] # VxChan(w)
    BY <1>1, ChansApart
  <1> QED
    BY <1>1, <1>2, <1>3, <1>4, <1>5, <1>6, <1>7, <1>8

LEMMA WaitCore ==
    ASSUME Core, NEW p \in Procs, NEW r, NEW v \in Vnodes, WaitsOn(p, v), WaitsAs(p, r, v),
           GoesOn(p, r), Begins(p, v), Works(p, v)'
    PROVE  Core'
  <1>0. Types /\ Own(p) /\ Pair(p, v) /\ vn[v] \in VnRec
    BY DEF Core, Types, ProcOK
  <1>1. st'[p] = r /\ held' = held /\ \A q \in Procs : q # p => st'[q] = st[q]
    BY <1>0 DEF Types, GoesOn, WaitsOn
  <1>2. Ran(p)
    BY Waiting
  <1>3. ASSUME NEW w \in Vnodes, w # v
        PROVE  Same(p, r, w)
    <2>1. w # None
      BY NoneApart
    <2>2. /\ vn'[w] = vn[w] /\ wchan'[p] # DeChan(w) /\ wchan'[p] # VxChan(w)
          /\ \A q \in Procs : wchan[q] = VxChan(w) => wchan'[q] = wchan[q]
      BY <1>3, Waiting
    <2> QED
      BY <1>1, <1>3, <2>1, <2>2 DEF Same, WaitsAs
  <1>4. Fine(p, v)
    <2>1. /\ VnodeOK(v)' /\ Sleeps(p, v)' /\ vn'[v].lock = vn[v].lock /\ vn'[v].use = vn[v].use
          /\ vn'[v].slot = vn[v].slot /\ vn'[v].ref = vn[v].ref
      BY Waiting
    <2>2. Refers(p, v)'
      <3>1. v # None
        BY NoneApart
      <3> QED
        BY <1>0, <1>1, <2>1, <3>1 DEF Pair, Refers, WaitsAs, MayLock
    <2>3. Counted(p, v)
      <3>1. vn[v].use \in Nat
        BY <1>0 DEF VnRec
      <3>2. One(st[p].dvp = v) \in {0, 1} /\ One(st[p].vp = v) \in {0, 1} /\ One(held[p] = v) \in {0, 1}
        BY DEF One
      <3> QED
        BY <1>1, <2>1, <3>1, <3>2 DEF Counted, WaitsAs
    <2> QED
      BY <2>1, <2>2, <2>3 DEF Fine, Pair
  <1>5. FreeOK'
    <2>1. Others(p)
      BY <1>1, <1>2 DEF Others, Ran
    <2>2. \A w \in Vnodes : vn'[w].use = vn[w].use
      BY Waiting
    <2>3. \A w \in Vnodes : st'[p].gvp = w /\ Making(st'[p]) <=> st[p].gvp = w /\ Making(st[p])
      <3>1. \A w \in Vnodes : w # None
        BY NoneApart
      <3> QED
        BY <1>1, <3>1 DEF WaitsAs
    <2> QED
      BY <2>1, <2>2, <2>3, FreeKept DEF WaitsOn
  <1>6. Mild(p, v) /\ nc' = nc
    BY Waiting DEF WaitsOn
  <1>7. \A w \in Vnodes : Same(p, r, w) \/ (Mild(p, w) /\ Fine(p, w))
    BY <1>3, <1>4, <1>6
  <1> QED
    BY <1>2, <1>5, <1>6, <1>7, MildStep

LEMMA DegetWaitCore ==
    ASSUME Core, NEW p \in Procs, DegetWait(p), UNCHANGED calls
    PROVE  Core'
  <1>0. Types /\ Own(p) /\ Shape(st[p]) /\ st[p] \in StRec
    BY DEF Core, ProcOK, Types, Own
  <1>1. st[p].pc = "deget" /\ st' = st /\ held' = held /\ bp' = bp /\ cov' = cov
    BY DEF DegetWait, At, fs
  <1>2. PICK v \in InHash(st[p].slot) :
           \/ vn[v].lock # None /\ WaitDe(p, v)
           \/ vn[v].lock = None /\ vn[v].xlock /\ WaitVx(p, v)
    BY DEF DegetWait
  <1>3. v \in Vnodes /\ ~vn[v].bad
    BY DEF InHash
  <1>4. WaitsOn(p, v)
    BY <1>2, <1>3 DEF WaitsOn, WaitDe, WaitVx, Sleep, DegetWait, At, fs
  <1>5. ~Making(st[p]) /\ st[p].gvp = None
    BY <1>0, <1>1, NoneApart DEF Shape, Making, Working, Cleaning, Inactive
  <1>6. GoesOn(p, st[p])
    BY <1>0, <1>1, <1>5 DEF GoesOn, Own, Types
  <1>7. WaitsAs(p, st[p], v)
    BY <1>1, <1>5 DEF WaitsAs, Inactive
  <1>8. Begins(p, v) /\ Works(p, v)'
    <2>1. v # None
      BY <1>3, NoneApart
    <2> QED
      BY <1>1, <1>5, <2>1 DEF Begins, Works
  <1> QED
    BY <1>3, <1>4, <1>6, <1>7, <1>8, WaitCore

-----------------------------------------------------------------------------
(* References and the free list, vnode by vnode.                           *)
LEMMA CountedSame ==
    ASSUME Core, NEW p \in Procs, NEW v \in Vnodes, vn'[v].use = vn[v].use,
           st'[p].dvp = v <=> st[p].dvp = v, st'[p].vp = v <=> st[p].vp = v,
           held'[p] = v <=> held[p] = v
    PROVE  Counted(p, v)
  <1>1. vn[v].use \in Nat
    BY DEF Core, Types, VnRec
  <1>2. /\ One(st'[p].dvp = v) = One(st[p].dvp = v) /\ One(st'[p].vp = v) = One(st[p].vp = v)
        /\ One(held'[p] = v) = One(held[p] = v)
    BY DEF One
  <1>3. One(st[p].dvp = v) \in {0, 1} /\ One(st[p].vp = v) \in {0, 1} /\ One(held[p] = v) \in {0, 1}
    BY DEF One
  <1> QED
    BY <1>1, <1>2, <1>3 DEF Counted

LEMMA CountedMore ==
    ASSUME Core, NEW p \in Procs, NEW v \in Vnodes, vn'[v].use = vn[v].use + 1,
           \/ /\ st'[p].dvp = v /\ st[p].dvp # v /\ (st'[p].vp = v <=> st[p].vp = v)
           \/ /\ st'[p].vp = v /\ st[p].vp # v /\ (st'[p].dvp = v <=> st[p].dvp = v),
           held'[p] = v <=> held[p] = v
    PROVE  Counted(p, v)
  <1>1. vn[v].use \in Nat
    BY DEF Core, Types, VnRec
  <1>2. /\ One(held'[p] = v) = One(held[p] = v)
        /\ \/ /\ One(st'[p].dvp = v) = 1 /\ One(st[p].dvp = v) = 0
              /\ One(st'[p].vp = v) = One(st[p].vp = v)
           \/ /\ One(st'[p].vp = v) = 1 /\ One(st[p].vp = v) = 0
              /\ One(st'[p].dvp = v) = One(st[p].dvp = v)
    BY DEF One
  <1>3. One(st[p].dvp = v) \in {0, 1} /\ One(st[p].vp = v) \in {0, 1} /\ One(held[p] = v) \in {0, 1}
    BY DEF One
  <1> QED
    BY <1>1, <1>2, <1>3 DEF Counted

LEMMA FreeLeft ==
    ASSUME Core, NEW p \in Procs, Others(p), NEW v \in Vnodes, vfree' = Without(vfree, v),
           vn'[v].use # 0, \A w \in Vnodes : w # v => vn'[w].use = vn[w].use,
           ~Making(st[p]), ~Making(st'[p])
    PROVE  FreeOK' /\ vfree' \in Seq(Vnodes)
  <1>1. vfree \in Seq(Vnodes) /\ Once(vfree)
    BY DEF Core, Types, FreeOK
  <1>2. /\ vfree' \in Seq(Vnodes) /\ Once(vfree')
        /\ \A w : InSeq(w, vfree') <=> InSeq(w, vfree) /\ w # v
    BY <1>1, WithoutType, WithoutOnce
  <1>3. \A w \in Vnodes : Taken(w)' <=> Taken(w)
    BY TakenStep
  <1>4. \A w \in Vnodes : InSeq(w, vfree') <=> vn'[w].use = 0 /\ ~Taken(w)'
    BY <1>2, <1>3 DEF Core, FreeOK
  <1> QED
    BY <1>2, <1>4 DEF FreeOK

LEMMA RootApart == RootSlot \notin Slots /\ RootSlot = 0
  BY NoneApart DEF RootSlot, Slots

LEMMA CacheHitCore ==
    ASSUME Core, NEW p \in Procs, CacheHit(p), UNCHANGED calls
    PROVE  Core'
  <1>0. Types /\ Own(p) /\ Shape(st[p]) /\ st[p] \in StRec
    BY DEF Core, ProcOK, Types, Own
  <1>1. PICK v : v = nc[FirstMatch(p)].vp
    OBVIOUS
  <1>2. /\ st[p].pc = "cache" /\ st[p].call # "unlink" /\ wchan[p] = None /\ cpu \in {p, None}
        /\ v # None /\ nc[FirstMatch(p)].vpid
        /\ mntlist' = mntlist /\ nc' = nc /\ numcache' = numcache /\ dir' = dir /\ bp' = bp
        /\ cov' = cov /\ held' = held /\ calls' = calls
    BY <1>1, ZenonT(60) DEF CacheHit, At, makeentry, fs
  <1>3. v \in Vnodes /\ ~vn[v].bad /\ vn[v].slot \in Slots
    <2>1. FirstMatch(p) \in DOMAIN nc
      BY <1>0, FirstMatchIn DEF CacheHit
    <2>2. nc[FirstMatch(p)] \in Entry
      BY <1>0, <2>1 DEF Types
    <2>3. v \in Vnodes /\ Valid(nc[FirstMatch(p)])
      BY <1>1, <1>2, <2>2 DEF Entry, SomeVnode, Valid
    <2> QED
      BY <1>1, <2>1, <2>3 DEF Core, CacheOK
  <1>4. /\ st[p].gvp = None /\ st[p].vp = None /\ st[p].dvp # None /\ ~st[p].keep
        /\ ~Making(st[p]) /\ ~Getting(st[p]) /\ st[p].gret = None /\ ~Letting(st[p])
        /\ st[p].call \in {"open", "create", "unlink"} /\ st[p].name \in Names
    BY <1>0, <1>2, NoneApart DEF Shape, Making, Getting, Letting, Working, Cleaning, Inactive
  <1>5. CASE vn[v].xlock
    <2>1. st' = [st EXCEPT ![p].pc = "cfail"] /\ WaitVx(p, v) /\ vfree' = vfree
      BY <1>1, <1>5 DEF CacheHit, Goto
    <2>2. WaitsOn(p, v)
      BY <1>2, <1>3, <1>5, <2>1 DEF WaitsOn, WaitVx, Sleep
    <2>3. PICK r : r = [st[p] EXCEPT !.pc = "cfail"]
      OBVIOUS
    <2>4. /\ r.pc = "cfail" /\ r.call = st[p].call /\ r.name = st[p].name /\ r.slot = st[p].slot
          /\ r.dvp = st[p].dvp /\ r.vp = st[p].vp /\ r.ret = st[p].ret /\ r.gvp = st[p].gvp
          /\ r.gret = st[p].gret /\ r.rel = st[p].rel /\ r.keep = st[p].keep
      BY <1>0, <2>3 DEF StRec
    <2>5. r \in StRec
      BY <1>0, <2>3, ZenonT(60) DEF StRec, PCs
    <2>6. ~Making(r) /\ ~Getting(r) /\ ~Letting(r) /\ Shape(r)
      BY <1>0, <1>2, <1>4, <2>4, NoneApart DEF Making, Getting, Letting, Shape, Working, Cleaning, Inactive
    <2>7. GoesOn(p, r)
      <3>1. st' = [st EXCEPT ![p] = r]
        BY <1>0, <2>1, <2>3 DEF Types
      <3> QED
        BY <1>0, <1>2, <2>4, <2>5, <2>6, <3>1 DEF GoesOn, Own, HasBuf, HasRoot
    <2>8. WaitsAs(p, r, v)
      BY <1>2, <1>4, <2>4, <2>6 DEF WaitsAs, Inactive, InDir
    <2>9. Begins(p, v) /\ Works(p, v)'
      <3>1. st'[p] = r
        BY <1>0, <2>7 DEF Types, GoesOn
      <3> QED
        BY <1>2, <1>4, <2>4, <3>1 DEF Begins, Works
    <2> QED
      BY <1>3, <2>2, <2>7, <2>8, <2>9, WaitCore
  <1>6. CASE ~vn[v].xlock
    <2>1. /\ st' = [st EXCEPT ![p].pc = "clock", ![p].vp = v] /\ vfree' = Without(vfree, v)
          /\ vn' = [vn EXCEPT ![v].use = @ + 1] /\ cpu' = p /\ wchan' = wchan
      BY <1>1, <1>6 DEF CacheHit, Run
    <2>2. PICK r : r = [st[p] EXCEPT !.pc = "clock", !.vp = v]
      OBVIOUS
    <2>3. /\ r.pc = "clock" /\ r.call = st[p].call /\ r.name = st[p].name /\ r.slot = st[p].slot
          /\ r.dvp = st[p].dvp /\ r.vp = v /\ r.ret = st[p].ret /\ r.gvp = st[p].gvp
          /\ r.gret = st[p].gret /\ r.rel = st[p].rel /\ r.keep = st[p].keep
      BY <1>0, <2>2 DEF StRec
    <2>4. r \in StRec
      BY <1>0, <1>3, <2>2, ZenonT(60) DEF StRec, PCs, SomeVnode
    <2>5. ~Making(r) /\ ~Getting(r) /\ ~Letting(r) /\ Shape(r)
      BY <1>0, <1>2, <1>4, <2>3, NoneApart DEF Making, Getting, Letting, Shape, Working, Cleaning, Inactive
    <2>6. st' = [st EXCEPT ![p] = r] /\ st'[p] = r
      BY <1>0, <2>1, <2>2 DEF Types
    <2>7. GoesOn(p, r)
      BY <1>0, <1>2, <2>3, <2>4, <2>5, <2>6 DEF GoesOn, Own, HasBuf, HasRoot
    <2>8. /\ vn' \in [Vnodes -> VnRec] /\ vn'[v] = [vn[v] EXCEPT !.use = @ + 1]
          /\ \A w \in Vnodes : w # v => vn'[w] = vn[w]
      <3>1. vn[v] \in VnRec /\ vn[v].use + 1 \in Nat
        BY <1>0, <1>3 DEF Types, VnRec
      <3>2. [vn[v] EXCEPT !.use = @ + 1] \in VnRec
        BY <3>1, VnTypes
      <3> QED
        BY <1>0, <1>3, <2>1, <3>2 DEF Types
    <2>9. /\ vn'[v].use = vn[v].use + 1 /\ vn[v].use \in Nat
          /\ vn'[v].bad = vn[v].bad /\ vn'[v].lock = vn[v].lock
          /\ vn'[v].slot = vn[v].slot /\ vn'[v].ref = vn[v].ref /\ vn'[v].xlock = vn[v].xlock
          /\ vn'[v].upd = vn[v].upd /\ vn'[v].want = vn[v].want /\ vn'[v].xwant = vn[v].xwant
      BY <1>0, <1>3, <2>8 DEF Types, VnRec
    <2>10. Others(p)
      BY <1>0, <1>2, <2>1, <2>6 DEF Others, Types
    <2>11. FreeOK' /\ vfree' \in Seq(Vnodes)
      <3>1. vn'[v].use # 0 /\ \A w \in Vnodes : w # v => vn'[w].use = vn[w].use
        BY <2>8, <2>9
      <3> QED
        BY <1>3, <1>4, <2>1, <2>5, <2>6, <2>10, <3>1, FreeLeft
    <2>12. Ran(p)
      BY <1>0, <1>2, <2>1, <2>8, <2>11, NoneApart DEF Ran, Types
    <2>13. VnodeOK(v) /\ Pair(p, v) /\ st[p].dvp # v
      <3>1. VnodeOK(v) /\ Pair(p, v)
        BY <1>3 DEF Core
      <3> QED
        BY <1>3, <3>1, RootApart DEF Pair, Refers
    <2>14. Mild(p, v)
      <3>1. vn[v] # NoFile
        BY <1>3 DEF NoFile
      <3> QED
        BY <1>0, <2>1, <2>9, <3>1 DEF Mild, Types
    <2>15. Fine(p, v)
      <3>1. Begins(p, v)
        BY <1>2, <1>4, <2>3, <2>6, <1>3, NoneApart DEF Begins
      <3>2. VnodeOK(v)'
        BY <1>3, <1>6, <2>9, <2>13 DEF VnodeOK
      <3>3. Refers(p, v)'
        BY <1>2, <1>3, <1>4, <2>3, <2>6, <2>9, <2>13 DEF Pair, Refers, HasLeaf, Unlinks, MayLock
      <3>4. Works(p, v)' /\ Sleeps(p, v)'
        BY <1>2, <1>3, <1>4, <2>1, <2>3, <2>6, NoneApart DEF Works, Sleeps
      <3>5. Counted(p, v)
        BY <1>2, <1>3, <1>4, <2>3, <2>6, <2>9, <2>13, CountedMore
      <3> QED
        BY <3>1, <3>2, <3>3, <3>4, <3>5 DEF Fine, Pair
    <2>16. ASSUME NEW w \in Vnodes, w # v
           PROVE  Same(p, r, w)
      <3>1. w # None /\ wchan'[p] # DeChan(w) /\ wchan'[p] # VxChan(w)
        BY <1>2, <2>1, NoneApart
      <3> QED
        BY <1>2, <1>4, <2>1, <2>3, <2>8, <2>16, <3>1 DEF Same, InDir
    <2> QED
      BY <1>2, <2>7, <2>11, <2>12, <2>14, <2>15, <2>16, MildStep
  <1> QED
    BY <1>5, <1>6

(* A process that has the directory, or the file, has it for itself.       *)
LEMMA HasDir ==
    ASSUME Core, NEW p \in Procs, st[p].dvp # None
    PROVE  /\ st[p].dvp \in Vnodes /\ ~vn[st[p].dvp].bad /\ ~vn[st[p].dvp].xlock
           /\ vn[st[p].dvp].slot = RootSlot /\ vn[st[p].dvp].use > 0
           /\ vn[st[p].dvp] \in VnRec /\ vn[st[p].dvp] # NoFile
           /\ InDir(st[p]) => vn[st[p].dvp].lock = p
           /\ st[p].dvp # st[p].vp /\ st[p].dvp # held[p]
  <1>1. st[p].dvp \in Vnodes
    BY DEF Core, Types, StRec, SomeVnode
  <1>2. Pair(p, st[p].dvp) /\ vn[st[p].dvp] \in VnRec
    BY <1>1 DEF Core, Types
  <1> QED
    BY <1>1, <1>2, InUse, RootApart DEF Pair, Refers

LEMMA HasFileLeaf ==
    ASSUME Core, NEW p \in Procs, st[p].vp # None
    PROVE  /\ st[p].vp \in Vnodes /\ ~vn[st[p].vp].bad /\ ~vn[st[p].vp].xlock
           /\ vn[st[p].vp].slot \in Slots /\ vn[st[p].vp].use > 0
           /\ vn[st[p].vp] \in VnRec /\ vn[st[p].vp] # NoFile
           /\ HasLeaf(st[p]) => vn[st[p].vp].lock = p
           /\ Unlinks(st[p]) => vn[st[p].vp].ref = 1
  <1>1. st[p].vp \in Vnodes
    BY DEF Core, Types, StRec, SomeVnode
  <1>2. Pair(p, st[p].vp) /\ vn[st[p].vp] \in VnRec
    BY <1>1 DEF Core, Types
  <1> QED
    BY <1>1, <1>2, InUse DEF Pair, Refers

LEMMA CacheFailCore ==
    ASSUME Core, NEW p \in Procs, CacheFail(p), UNCHANGED calls
    PROVE  Core'
  <1>0. Types /\ Own(p) /\ Shape(st[p]) /\ st[p] \in StRec
    BY DEF Core, ProcOK, Types, Own
  <1>1. PICK d : d = st[p].dvp
    OBVIOUS
  <1>2. /\ st[p].pc = "cfail" /\ wchan[p] = None /\ cpu \in {p, None} /\ cpu' = p
        /\ st' = [st EXCEPT ![p].pc = "search"] /\ vn' = [vn EXCEPT ![d].want = FALSE]
        /\ wchan' = [q \in Procs |-> IF wchan[q] \in Waiters(vn[d], d) THEN None ELSE wchan[q]]
        /\ vfree' = vfree /\ mntlist' = mntlist /\ nc' = nc /\ numcache' = numcache /\ dir' = dir
        /\ bp' = bp /\ cov' = cov /\ held' = held /\ calls' = calls
    BY <1>1, ZenonT(60) DEF CacheFail, At, Goto, Wakeup, fs
  <1>3. /\ st[p].gvp = None /\ st[p].vp = None /\ st[p].dvp # None /\ ~st[p].keep
        /\ ~Making(st[p]) /\ ~Getting(st[p]) /\ st[p].gret = None /\ ~Letting(st[p])
        /\ st[p].call \in {"open", "create", "unlink"} /\ st[p].name \in Names /\ InDir(st[p])
    BY <1>0, <1>2, NoneApart DEF Shape, Making, Getting, Letting, Working, Cleaning, Inactive, InDir
  <1>4. /\ d \in Vnodes /\ ~vn[d].bad /\ ~vn[d].xlock /\ vn[d].slot = RootSlot /\ vn[d].lock = p
        /\ vn[d] \in VnRec /\ vn[d] # NoFile /\ held[p] # d
    BY <1>1, <1>3, HasDir
  <1>5. PICK r : r = [st[p] EXCEPT !.pc = "search"]
    OBVIOUS
  <1>6. /\ r.pc = "search" /\ r.call = st[p].call /\ r.name = st[p].name /\ r.slot = st[p].slot
        /\ r.dvp = st[p].dvp /\ r.vp = st[p].vp /\ r.ret = st[p].ret /\ r.gvp = st[p].gvp
        /\ r.gret = st[p].gret /\ r.rel = st[p].rel /\ r.keep = st[p].keep
    BY <1>0, <1>5 DEF StRec
  <1>7. r \in StRec
    BY <1>0, <1>5, ZenonT(60) DEF StRec, PCs
  <1>8. ~Making(r) /\ ~Getting(r) /\ ~Letting(r) /\ Shape(r)
    BY <1>0, <1>2, <1>3, <1>6, NoneApart DEF Making, Getting, Letting, Shape, Working, Cleaning, Inactive
  <1>9. st' = [st EXCEPT ![p] = r] /\ st'[p] = r
    BY <1>0, <1>2, <1>5 DEF Types
  <1>10. GoesOn(p, r)
    BY <1>0, <1>2, <1>6, <1>7, <1>8, <1>9 DEF GoesOn, Own, HasBuf, HasRoot
  <1>11. /\ vn' \in [Vnodes -> VnRec] /\ vn'[d] = [vn[d] EXCEPT !.want = FALSE]
         /\ \A w \in Vnodes : w # d => vn'[w] = vn[w]
    <2>1. [vn[d] EXCEPT !.want = FALSE] \in VnRec
      BY <1>4, VnTypes
    <2> QED
      BY <1>0, <1>2, <1>4, <2>1 DEF Types
  <1>12. /\ vn'[d].use = vn[d].use /\ vn'[d].bad = vn[d].bad /\ vn'[d].lock = vn[d].lock
         /\ vn'[d].slot = vn[d].slot /\ vn'[d].ref = vn[d].ref /\ vn'[d].xlock = vn[d].xlock
         /\ vn'[d].upd = vn[d].upd /\ vn'[d].xwant = vn[d].xwant
    BY <1>4, <1>11 DEF VnRec
  <1>13. /\ wchan' \in [Procs -> Chans \cup {None}] /\ wchan'[p] = None
         /\ \A q \in Procs : wchan'[q] \in {wchan[q], None}
         /\ \A q \in Procs, w \in Vnodes : wchan[q] = VxChan(w) => wchan'[q] = wchan[q]
    <2>1. \A w \in Vnodes : VxChan(w) \in Chans /\ VxChan(w) \notin Waiters(vn[d], d)
      BY ChansOf, ChansApart DEF Waiters
    <2> QED
      BY <1>2, <2>1, Woken
  <1>14. \A q \in Procs : wchan'[q] # DeChan(d)
    BY <1>2, <1>4, UnlockWakes
  <1>15. Ran(p)
    BY <1>0, <1>2, <1>11, <1>13, NoneApart DEF Ran, Types
  <1>16. Others(p)
    BY <1>9, <1>15 DEF Others, Ran
  <1>17. FreeOK'
    <2>1. \A w \in Vnodes : vn'[w].use = vn[w].use
      BY <1>11, <1>12
    <2> QED
      BY <1>2, <1>3, <1>8, <1>9, <1>16, <2>1, FreeKept
  <1>18. VnodeOK(d) /\ Pair(p, d)
    BY <1>4 DEF Core
  <1>19. Mild(p, d)
    BY <1>4, <1>12, <1>13, <1>14 DEF Mild
  <1>20. Fine(p, d)
    <2>1. Begins(p, d)
      BY <1>2, <1>3, <1>6, <1>9, <1>4, NoneApart DEF Begins
    <2>2. VnodeOK(d)'
      BY <1>4, <1>12, <1>18 DEF VnodeOK
    <2>3. Refers(p, d)'
      BY <1>1, <1>2, <1>3, <1>4, <1>6, <1>9, <1>12, <1>18, NoneApart DEF Pair, Refers, MayLock
    <2>4. Works(p, d)' /\ Sleeps(p, d)'
      BY <1>3, <1>4, <1>6, <1>9, <1>13, NoneApart DEF Works, Sleeps
    <2>5. Counted(p, d)
      BY <1>2, <1>4, <1>6, <1>9, <1>12, CountedSame
    <2> QED
      BY <2>1, <2>2, <2>3, <2>4, <2>5 DEF Fine, Pair
  <1>21. ASSUME NEW w \in Vnodes, w # d
         PROVE  Same(p, r, w)
    <2>1. w # None /\ wchan'[p] # DeChan(w) /\ wchan'[p] # VxChan(w)
      BY <1>13, NoneApart
    <2> QED
      BY <1>2, <1>3, <1>6, <1>11, <1>13, <1>21, <2>1 DEF Same
  <1> QED
    BY <1>2, <1>10, <1>15, <1>17, <1>19, <1>20, <1>21, MildStep

LEMMA CacheLockCore ==
    ASSUME Core, NEW p \in Procs, CacheLock(p), UNCHANGED calls
    PROVE  Core'
  <1>0. Types /\ Own(p) /\ Shape(st[p]) /\ st[p] \in StRec
    BY DEF Core, ProcOK, Types, Own
  <1>1. PICK d, v : d = st[p].dvp /\ v = st[p].vp
    OBVIOUS
  <1>2. /\ st[p].pc = "clock" /\ wchan[p] = None /\ cpu \in {p, None}
        /\ vfree' = vfree /\ mntlist' = mntlist /\ nc' = nc /\ numcache' = numcache /\ dir' = dir
        /\ bp' = bp /\ cov' = cov /\ held' = held /\ calls' = calls
    BY ZenonT(60) DEF CacheLock, At, fs
  <1>3. /\ st[p].gvp = None /\ st[p].vp # None /\ st[p].dvp # None /\ ~st[p].keep
        /\ ~Making(st[p]) /\ ~Getting(st[p]) /\ st[p].gret = None /\ ~Letting(st[p])
        /\ st[p].call \in {"open", "create"} /\ st[p].name \in Names /\ InDir(st[p])
    BY <1>0, <1>2, NoneApart DEF Shape, Making, Getting, Letting, Working, Cleaning, Inactive, InDir
  <1>4. /\ d \in Vnodes /\ ~vn[d].bad /\ ~vn[d].xlock /\ vn[d].slot = RootSlot /\ vn[d].lock = p
        /\ vn[d] \in VnRec /\ vn[d] # NoFile /\ held[p] # d /\ d # v
    BY <1>1, <1>3, HasDir
  <1>5. /\ v \in Vnodes /\ ~vn[v].bad /\ ~vn[v].xlock /\ vn[v].slot \in Slots
        /\ vn[v] \in VnRec /\ vn[v] # NoFile
    BY <1>1, <1>3, HasFileLeaf
  <1>6. CASE vn[v].lock # None
    <2>1. st' = st /\ WaitDe(p, v)
      BY <1>1, <1>6 DEF CacheLock
    <2>2. WaitsOn(p, v)
      BY <1>2, <1>5, <1>6, <2>1 DEF WaitsOn, WaitDe, Sleep
    <2>3. GoesOn(p, st[p])
      BY <1>0, <1>2, <1>3, <2>1 DEF GoesOn, Own, Types
    <2>4. WaitsAs(p, st[p], v)
      BY <1>2, <1>3 DEF WaitsAs, Inactive
    <2>5. Begins(p, v) /\ Works(p, v)'
      BY <1>2, <1>3, <1>5, <2>1, NoneApart DEF Begins, Works
    <2> QED
      BY <1>5, <2>2, <2>3, <2>4, <2>5, WaitCore
  <1>7. CASE vn[v].lock = None
    <2>1. PICK C : C = IF st[p].call = "open" THEN Waiters(vn[d], d) ELSE {}
      OBVIOUS
    <2>2. /\ st' = [st EXCEPT ![p].pc = "found"] /\ cpu' = p
          /\ vn' = [vn EXCEPT ![v].lock = p,
                              ![d] = IF st[p].call = "open" THEN Unlocked(@) ELSE @]
          /\ wchan' = [q \in Procs |-> IF wchan[q] \in C THEN None ELSE wchan[q]]
      BY <1>1, <1>7, <2>1 DEF CacheLock, Goto, Wakeup
    <2>3. PICK r : r = [st[p] EXCEPT !.pc = "found"]
      OBVIOUS
    <2>4. /\ r.pc = "found" /\ r.call = st[p].call /\ r.name = st[p].name /\ r.slot = st[p].slot
          /\ r.dvp = st[p].dvp /\ r.vp = st[p].vp /\ r.ret = st[p].ret /\ r.gvp = st[p].gvp
          /\ r.gret = st[p].gret /\ r.rel = st[p].rel /\ r.keep = st[p].keep
      BY <1>0, <2>3 DEF StRec
    <2>5. r \in StRec
      BY <1>0, <2>3, ZenonT(60) DEF StRec, PCs
    <2>6. ~Making(r) /\ ~Getting(r) /\ ~Letting(r) /\ Shape(r)
      BY <1>0, <1>2, <1>3, <2>4, NoneApart DEF Making, Getting, Letting, Shape, Working, Cleaning, Inactive
    <2>7. st' = [st EXCEPT ![p] = r] /\ st'[p] = r
      BY <1>0, <2>2, <2>3 DEF Types
    <2>8. GoesOn(p, r)
      BY <1>0, <1>2, <2>4, <2>5, <2>6, <2>7 DEF GoesOn, Own, HasBuf, HasRoot
    <2>9. /\ vn' \in [Vnodes -> VnRec] /\ vn'[v] = [vn[v] EXCEPT !.lock = p]
          /\ vn'[d] = IF st[p].call = "open" THEN Unlocked(vn[d]) ELSE vn[d]
          /\ \A w \in Vnodes : w # d /\ w # v => vn'[w] = vn[w]
      <3>1. [vn[v] EXCEPT !.lock = p] \in VnRec /\ Unlocked(vn[d]) \in VnRec
        BY <1>4, <1>5, VnTypes
      <3> QED
        BY <1>0, <2>2, <1>4, <1>5, <3>1 DEF Types
    <2>10. /\ vn'[v].use = vn[v].use /\ vn'[v].bad = vn[v].bad /\ vn'[v].lock = p
           /\ vn'[v].slot = vn[v].slot /\ vn'[v].ref = vn[v].ref /\ vn'[v].xlock = vn[v].xlock
           /\ vn'[v].upd = vn[v].upd /\ vn'[v].xwant = vn[v].xwant
      BY <1>5, <2>9 DEF VnRec
    <2>11. /\ vn'[d].use = vn[d].use /\ vn'[d].bad = vn[d].bad
           /\ vn'[d].lock = IF st[p].call = "open" THEN None ELSE p
           /\ vn'[d].slot = vn[d].slot /\ vn'[d].ref = vn[d].ref /\ vn'[d].xlock = vn[d].xlock
           /\ vn'[d].upd = vn[d].upd /\ vn'[d].xwant = vn[d].xwant
      BY <1>4, <2>9 DEF VnRec, Unlocked
    <2>12. /\ wchan' \in [Procs -> Chans \cup {None}] /\ wchan'[p] = None
           /\ \A q \in Procs : wchan'[q] \in {wchan[q], None}
           /\ \A q \in Procs, w \in Vnodes : wchan[q] = VxChan(w) => wchan'[q] = wchan[q]
      <3>1. \A w \in Vnodes : VxChan(w) \in Chans /\ VxChan(w) \notin C
        BY <2>1, ChansOf, ChansApart DEF Waiters
      <3> QED
        BY <1>2, <2>2, <3>1, Woken
    <2>13. Ran(p)
      BY <1>0, <1>2, <2>2, <2>9, <2>12, NoneApart DEF Ran, Types
    <2>14. Others(p)
      BY <2>7, <2>13 DEF Others, Ran
    <2>15. FreeOK'
      <3>1. \A w \in Vnodes : vn'[w].use = vn[w].use
        BY <2>9, <2>10, <2>11
      <3> QED
        BY <1>2, <1>3, <2>6, <2>7, <2>14, <3>1, FreeKept
    <2>16. VnodeOK(d) /\ Pair(p, d) /\ VnodeOK(v) /\ Pair(p, v)
      BY <1>4, <1>5 DEF Core
    <2>17. Mild(p, v) /\ Fine(p, v)
      <3>1. Mild(p, v)
        BY <1>5, <1>7, <2>10, <2>12 DEF Mild
      <3>2. Begins(p, v)
        BY <1>2, <1>3, <1>5, <1>7, <2>4, <2>7, NoneApart DEF Begins
      <3>3. VnodeOK(v)'
        BY <1>5, <2>10, <2>16 DEF VnodeOK
      <3>4. Refers(p, v)'
        BY <1>1, <1>2, <1>3, <1>5, <2>4, <2>7, <2>10, <2>16, NoneApart DEF Pair, Refers, MayLock, HasLeaf, Unlinks
      <3>5. Works(p, v)' /\ Sleeps(p, v)'
        BY <1>3, <1>5, <2>4, <2>7, <2>12, NoneApart DEF Works, Sleeps
      <3>6. Counted(p, v)
        BY <1>2, <1>5, <2>4, <2>7, <2>10, CountedSame
      <3> QED
        BY <3>1, <3>2, <3>3, <3>4, <3>5, <3>6 DEF Fine, Pair
    <2>18. CASE st[p].call = "open"
      <3>1. Mild(p, d)
        <4>1. \A q \in Procs : wchan'[q] # DeChan(d)
          BY <1>2, <1>4, <2>1, <2>2, <2>18, UnlockWakes
        <4> QED
          BY <1>4, <2>11, <2>12, <4>1 DEF Mild
      <3>2. Begins(p, d)
        BY <1>1, <1>2, <1>3, <1>4, <2>4, <2>7, NoneApart DEF Begins
      <3>3. VnodeOK(d)'
        BY <1>4, <2>11, <2>16 DEF VnodeOK
      <3>4. Refers(p, d)'
        BY <1>1, <1>2, <1>3, <1>4, <2>4, <2>6, <2>7, <2>11, <2>16, <2>18, NoneApart
           DEF Pair, Refers, MayLock, InDir
      <3>5. Works(p, d)' /\ Sleeps(p, d)'
        BY <1>3, <1>4, <2>4, <2>7, <2>12, NoneApart DEF Works, Sleeps
      <3>6. Counted(p, d)
        BY <1>2, <1>4, <2>4, <2>7, <2>11, CountedSame
      <3>7. Fine(p, d)
        BY <3>2, <3>3, <3>4, <3>5, <3>6 DEF Fine, Pair
      <3>8. ASSUME NEW w \in Vnodes, w # d, w # v
            PROVE  Same(p, r, w)
        <4>1. w # None /\ wchan'[p] # DeChan(w) /\ wchan'[p] # VxChan(w)
          BY <2>12, NoneApart
        <4> QED
          BY <1>1, <1>2, <1>3, <2>4, <2>9, <2>12, <3>8, <4>1 DEF Same
      <3> QED
        BY <1>2, <2>8, <2>13, <2>15, <2>17, <3>1, <3>7, <3>8, MildStep
    <2>19. CASE st[p].call # "open"
      <3>1. ASSUME NEW w \in Vnodes, w # v
            PROVE  Same(p, r, w)
        <4>1. w # None /\ wchan'[p] # DeChan(w) /\ wchan'[p] # VxChan(w)
          BY <2>12, NoneApart
        <4>2. vn'[w] = vn[w]
          BY <2>9, <2>19, <3>1
        <4> QED
          BY <1>1, <1>2, <1>3, <2>4, <2>12, <3>1, <4>1, <4>2 DEF Same
      <3> QED
        BY <1>2, <2>8, <2>13, <2>15, <2>17, <3>1, MildStep
    <2> QED
      BY <2>18, <2>19
  <1> QED
    BY <1>6, <1>7

-----------------------------------------------------------------------------
(* A vnode is cleaned out.                                                 *)

(* p works on vnode v, which has no references.                            *)
LEMMA WorksOn ==
    ASSUME Core, NEW p \in Procs, st[p].gvp # None
    PROVE  /\ st[p].gvp \in Vnodes /\ vn[st[p].gvp] \in VnRec
           /\ Works(p, st[p].gvp) /\ Refers(p, st[p].gvp) /\ VnodeOK(st[p].gvp)
           /\ vn[st[p].gvp].use = 0 =>
                 st[p].dvp # st[p].gvp /\ st[p].vp # st[p].gvp /\ held[p] # st[p].gvp
  <1>1. st[p].gvp \in Vnodes
    BY DEF Core, Types, StRec, SomeVnode
  <1> QED
    BY <1>1, NoneRefers DEF Core, Types, Pair

(* vgone goes back to who called it.                                       *)
BackTo(r) == [r EXCEPT !.pc = r.gret, !.gret = None,
                       !.gvp = IF r.gret = "newvnode" THEN @ ELSE None]

LEMMA BackShape ==
    ASSUME Core, NEW p \in Procs, st[p].pc \in {"vgone"} \cup Cleaning, Back(p), held' = held,
           bp' = bp, cov' = cov
    PROVE  LET r == BackTo(st[p]) IN
           /\ GoesOn(p, r) /\ r.dvp = st[p].dvp /\ r.vp = st[p].vp
           /\ r.pc = st[p].gret /\ r.pc \in {"newvnode", "rele"} /\ r.gret = None
           /\ r.gvp = IF st[p].gret = "newvnode" THEN st[p].gvp ELSE None
           /\ InDir(r) => InDir(st[p])
           /\ HasLeaf(r) => HasLeaf(st[p])
           /\ ~Unlinks(r)
           /\ Making(r) <=> Making(st[p])
           /\ Making(r) => r.gvp = st[p].gvp
  <1>0. Types /\ Own(p) /\ Shape(st[p]) /\ st[p] \in StRec
    BY DEF Core, ProcOK, Types, Own
  <1>1. st[p].gret \in {"newvnode", "rele"} /\ st[p].pc # "newvnode"
    BY <1>0 DEF Shape, StRec, Cleaning
  <1>2. PICK r : r = BackTo(st[p])
    OBVIOUS
  <1>3. /\ r.pc = st[p].gret /\ r.call = st[p].call /\ r.name = st[p].name /\ r.slot = st[p].slot
        /\ r.dvp = st[p].dvp /\ r.vp = st[p].vp /\ r.ret = st[p].ret
        /\ r.gvp = IF st[p].gret = "newvnode" THEN st[p].gvp ELSE None
        /\ r.gret = None /\ r.rel = st[p].rel /\ r.keep = st[p].keep
    BY <1>0, <1>2 DEF StRec, BackTo
  <1>4. r \in StRec
    <2>1. st[p].gret \in PCs /\ (IF st[p].gret = "newvnode" THEN st[p].gvp ELSE None) \in SomeVnode
      BY <1>0, <1>1 DEF PCs, SomeVnode, StRec
    <2> QED
      BY <1>0, <1>2, <2>1, ZenonT(60) DEF StRec, BackTo
  <1>5. st' = [st EXCEPT ![p] = r]
    BY <1>0, <1>2 DEF Types, Back, BackTo
  <1>6. /\ Making(r) <=> Making(st[p])
        /\ Making(r) <=> r.pc = "newvnode"
        /\ Getting(r) <=> Getting(st[p])
        /\ Letting(r) <=> Letting(st[p])
        /\ Letting(r) <=> r.pc = "rele"
        /\ st[p].gvp # None
    BY <1>0, <1>1, <1>3, NoneApart DEF Making, Getting, Letting, Cleaning, Shape, Working
  <1>7. Shape(r)
    <2>1. CASE r.pc = "newvnode"
      BY <1>0, <1>1, <1>3, <1>6, <2>1, NoneApart DEF Shape, Working, Cleaning, Inactive
    <2>2. CASE r.pc = "rele"
      <3>1. Leaves(r)
        BY <1>0, <1>3, <1>6, <2>2 DEF Shape, Leaves
      <3> QED
        BY <1>0, <1>1, <1>3, <1>6, <2>2, <3>1, NoneApart DEF Shape, Working, Cleaning, Inactive
    <2> QED
      BY <1>1, <1>3, <2>1, <2>2
  <1>8. HasBuf(r) => HasBuf(st[p])
    BY <1>1, <1>3, <1>6 DEF HasBuf
  <1>9. GoesOn(p, r)
    BY <1>0, <1>1, <1>3, <1>4, <1>5, <1>6, <1>7, <1>8 DEF GoesOn, Own, HasRoot
  <1>10. /\ InDir(r) => InDir(st[p])
         /\ HasLeaf(r) => HasLeaf(st[p])
         /\ ~Unlinks(r)
    BY <1>1, <1>3, <1>6 DEF InDir, HasLeaf, Unlinks
  <1> QED
    BY <1>1, <1>2, <1>3, <1>6, <1>9, <1>10

LEMMA vgoneCore ==
    ASSUME Core, NEW p \in Procs, vgone(p), UNCHANGED calls
    PROVE  Core'
  <1>0. Types /\ Own(p) /\ Shape(st[p]) /\ st[p] \in StRec
    BY DEF Core, ProcOK, Types, Own
  <1>1. PICK v : v = st[p].gvp
    OBVIOUS
  <1>2. /\ st[p].pc = "vgone" /\ wchan[p] = None /\ cpu \in {p, None}
        /\ vfree' = vfree /\ mntlist' = mntlist /\ nc' = nc /\ numcache' = numcache /\ dir' = dir
        /\ bp' = bp /\ cov' = cov /\ held' = held /\ calls' = calls
    BY ZenonT(60) DEF vgone, At, fs
  <1>3. st[p].gvp # None /\ st[p].gret \in {"newvnode", "rele"} /\ st[p].pc \notin Inactive
    BY <1>0, <1>2 DEF Shape, StRec, Working, Inactive
  <1>4. /\ v \in Vnodes /\ vn[v] \in VnRec /\ Works(p, v) /\ Refers(p, v) /\ VnodeOK(v)
        /\ vn[v].use = 0 /\ ~vn[v].bad /\ vn[v] # NoFile
        /\ st[p].dvp # v /\ st[p].vp # v /\ held[p] # v
    <2>1. /\ v \in Vnodes /\ vn[v] \in VnRec /\ Works(p, v) /\ Refers(p, v) /\ VnodeOK(v)
          /\ vn[v].use = 0 => st[p].dvp # v /\ st[p].vp # v /\ held[p] # v
      BY <1>1, <1>3, WorksOn
    <2>2. vn[v].use = 0 /\ ~vn[v].bad
      BY <1>1, <1>2, <2>1 DEF Works
    <2> QED
      BY <2>1, <2>2 DEF NoFile
  <1>5. vn[v].lock # p
    BY <1>2, <1>4 DEF Refers, MayLock, Inactive
  <1>6. CASE vn[v].xlock
    <2>1. WaitVx(p, v) /\ Back(p)
      BY <1>1, <1>6 DEF vgone
    <2>2. WaitsOn(p, v)
      BY <1>2, <1>4, <1>6, <2>1 DEF WaitsOn, WaitVx, Sleep
    <2>3. PICK r : r = BackTo(st[p])
      OBVIOUS
    <2>4. /\ GoesOn(p, r) /\ r.dvp = st[p].dvp /\ r.vp = st[p].vp
          /\ r.pc = st[p].gret /\ r.pc \in {"newvnode", "rele"} /\ r.gret = None
          /\ r.gvp = IF st[p].gret = "newvnode" THEN st[p].gvp ELSE None
          /\ InDir(r) => InDir(st[p])
          /\ HasLeaf(r) => HasLeaf(st[p])
          /\ ~Unlinks(r)
          /\ Making(r) <=> Making(st[p])
          /\ Making(r) => r.gvp = st[p].gvp
      BY <1>2, <2>1, <2>3, BackShape
    <2>5. WaitsAs(p, r, v)
      BY <1>1, <1>2, <1>3, <2>4 DEF WaitsAs
    <2>6. st'[p] = r /\ wchan'[p] = VxChan(v)
      BY <1>0, <2>1, <2>4 DEF Types, GoesOn, WaitVx, Sleep
    <2>7. Begins(p, v)
      BY <1>1, <1>2, <1>4, <2>4, <2>6 DEF Begins, Cleaning, Inactive
    <2>8. Works(p, v)'
      <3>1. vn'[v].xlock = vn[v].xlock
        BY <1>4, <2>2, Waiting
      <3> QED
        BY <1>6, <2>4, <2>6, <3>1 DEF Works, Cleaning, Inactive
    <2> QED
      BY <1>4, <2>2, <2>4, <2>5, <2>7, <2>8, WaitCore
  <1>7. CASE ~vn[v].xlock
    <2>1. /\ st' = [st EXCEPT ![p].pc = "vclean"] /\ vn' = [vn EXCEPT ![v].xlock = TRUE]
          /\ cpu' = p /\ wchan' = wchan
      BY <1>1, <1>7 DEF vgone, Goto, Run
    <2>2. PICK r : r = [st[p] EXCEPT !.pc = "vclean"]
      OBVIOUS
    <2>3. /\ r.pc = "vclean" /\ r.call = st[p].call /\ r.name = st[p].name /\ r.slot = st[p].slot
          /\ r.dvp = st[p].dvp /\ r.vp = st[p].vp /\ r.ret = st[p].ret /\ r.gvp = st[p].gvp
          /\ r.gret = st[p].gret /\ r.rel = st[p].rel /\ r.keep = st[p].keep
      BY <1>0, <2>2 DEF StRec
    <2>4. r \in StRec
      BY <1>0, <2>2, ZenonT(60) DEF StRec, PCs
    <2>5. /\ Making(r) <=> Making(st[p])
          /\ Getting(r) <=> Getting(st[p])
          /\ Letting(r) <=> Letting(st[p])
      BY <1>2, <2>3 DEF Making, Getting, Letting
    <2>6. Shape(r)
      BY <1>0, <1>2, <2>3, <2>5, NoneApart DEF Shape, Working, Cleaning, Inactive, Leaves
    <2>7. st' = [st EXCEPT ![p] = r] /\ st'[p] = r
      BY <1>0, <2>1, <2>2 DEF Types
    <2>8. GoesOn(p, r)
      BY <1>0, <1>2, <2>3, <2>4, <2>5, <2>6, <2>7 DEF GoesOn, Own, HasBuf, HasRoot
    <2>9. /\ vn' \in [Vnodes -> VnRec] /\ vn'[v] = [vn[v] EXCEPT !.xlock = TRUE]
          /\ \A w \in Vnodes : w # v => vn'[w] = vn[w]
      <3>1. [vn[v] EXCEPT !.xlock = TRUE] \in VnRec
        BY <1>4, VnTypes
      <3> QED
        BY <1>0, <2>1, <1>4, <3>1 DEF Types
    <2>10. /\ vn'[v].use = vn[v].use /\ vn'[v].bad = vn[v].bad /\ vn'[v].lock = vn[v].lock
           /\ vn'[v].slot = vn[v].slot /\ vn'[v].ref = vn[v].ref /\ vn'[v].xlock
           /\ vn'[v].upd = vn[v].upd /\ vn'[v].xwant = vn[v].xwant /\ vn'[v].want = vn[v].want
      BY <1>4, <2>9 DEF VnRec
    <2>11. Ran(p)
      BY <1>0, <1>2, <2>1, <2>9, NoneApart DEF Ran, Types
    <2>12. Others(p)
      BY <2>7, <2>11 DEF Others, Ran
    <2>13. FreeOK'
      <3>1. \A w \in Vnodes : vn'[w].use = vn[w].use
        BY <2>9, <2>10
      <3> QED
        BY <1>2, <2>3, <2>5, <2>7, <2>12, <3>1, FreeKept
    <2>14. Mild(p, v)
      BY <1>4, <2>1, <2>10 DEF Mild
    <2>15. Fine(p, v)
      <3>1. Begins(p, v)
        BY <1>2, <1>4, <1>7, <2>3, <2>5, <2>7 DEF Begins, Inactive
      <3>2. VnodeOK(v)'
        BY <1>4, <2>10 DEF VnodeOK
      <3>3. Refers(p, v)'
        BY <1>2, <1>4, <1>5, <2>3, <2>7, <2>10 DEF Refers
      <3>4. Works(p, v)' /\ Sleeps(p, v)'
        BY <1>2, <1>4, <2>1, <2>3, <2>7, <2>10, NoneApart DEF Works, Sleeps, Cleaning, Inactive
      <3>5. Counted(p, v)
        BY <1>2, <1>4, <2>3, <2>7, <2>10, CountedSame
      <3> QED
        BY <3>1, <3>2, <3>3, <3>4, <3>5 DEF Fine, Pair
    <2>16. ASSUME NEW w \in Vnodes, w # v
           PROVE  Same(p, r, w)
      <3>1. w # None /\ wchan'[p] # DeChan(w) /\ wchan'[p] # VxChan(w)
        BY <1>2, <2>1, NoneApart
      <3> QED
        BY <1>1, <1>2, <2>1, <2>3, <2>5, <2>9, <2>16, <3>1 DEF Same, InDir, HasLeaf, Unlinks
    <2> QED
      BY <1>2, <2>8, <2>11, <2>13, <2>14, <2>15, <2>16, MildStep
  <1> QED
    BY <1>6, <1>7

LEMMA vcleanCore ==
    ASSUME Core, NEW p \in Procs, vclean(p), UNCHANGED calls
    PROVE  Core'
  <1>0. Types /\ Own(p) /\ Shape(st[p]) /\ st[p] \in StRec
    BY DEF Core, ProcOK, Types, Own
  <1>1. PICK v : v = st[p].gvp
    OBVIOUS
  <1>2. /\ st[p].pc = "vclean" /\ wchan[p] = None /\ cpu \in {p, None}
        /\ vfree' = vfree /\ mntlist' = mntlist /\ nc' = nc /\ numcache' = numcache /\ dir' = dir
        /\ bp' = bp /\ cov' = cov /\ held' = held /\ calls' = calls
    BY ZenonT(60) DEF vclean, At, fs
  <1>3. st[p].gvp # None /\ st[p].gret \in {"newvnode", "rele"} /\ st[p].pc \notin Inactive
    BY <1>0, <1>2 DEF Shape, StRec, Working, Inactive, Cleaning
  <1>4. /\ v \in Vnodes /\ vn[v] \in VnRec /\ Works(p, v) /\ Refers(p, v) /\ VnodeOK(v)
        /\ vn[v].xlock /\ vn[v].use = 0 /\ ~vn[v].bad /\ vn[v] # NoFile
        /\ st[p].dvp # v /\ st[p].vp # v /\ held[p] # v
    <2>1. /\ v \in Vnodes /\ vn[v] \in VnRec /\ Works(p, v) /\ Refers(p, v) /\ VnodeOK(v)
          /\ vn[v].use = 0 => st[p].dvp # v /\ st[p].vp # v /\ held[p] # v
      BY <1>1, <1>3, WorksOn
    <2>2. vn[v].xlock
      BY <1>1, <1>2, <2>1 DEF Works, Cleaning
    <2> QED
      BY <2>1, <2>2 DEF NoFile, VnodeOK
  <1>5. CASE vn[v].lock # None
    <2>1. WaitDe(p, v) /\ st' = st
      BY <1>1, <1>4, <1>5 DEF vclean
    <2>2. WaitsOn(p, v)
      BY <1>2, <1>4, <1>5, <2>1 DEF WaitsOn, WaitDe, Sleep
    <2>3. GoesOn(p, st[p])
      BY <1>0, <1>2, <2>1 DEF GoesOn, Own, Types
    <2>4. WaitsAs(p, st[p], v)
      BY <1>1, <1>2, <1>3 DEF WaitsAs
    <2>5. Begins(p, v) /\ Works(p, v)'
      <3>1. vn'[v].xlock = vn[v].xlock
        BY <1>4, <2>2, Waiting
      <3> QED
        BY <1>2, <1>3, <1>4, <2>1, <3>1 DEF Begins, Works
    <2> QED
      BY <1>4, <2>2, <2>3, <2>4, <2>5, WaitCore
  <1>6. CASE vn[v].lock = None
    <2>1. /\ st' = [st EXCEPT ![p].pc = "vinvalbuf"] /\ vn' = [vn EXCEPT ![v].lock = p]
          /\ cpu' = None /\ wchan' = wchan
      BY <1>1, <1>4, <1>6 DEF vclean, Goto, Yield
    <2>2. PICK r : r = [st[p] EXCEPT !.pc = "vinvalbuf"]
      OBVIOUS
    <2>3. /\ r.pc = "vinvalbuf" /\ r.call = st[p].call /\ r.name = st[p].name /\ r.slot = st[p].slot
          /\ r.dvp = st[p].dvp /\ r.vp = st[p].vp /\ r.ret = st[p].ret /\ r.gvp = st[p].gvp
          /\ r.gret = st[p].gret /\ r.rel = st[p].rel /\ r.keep = st[p].keep
      BY <1>0, <2>2 DEF StRec
    <2>4. r \in StRec
      BY <1>0, <2>2, ZenonT(60) DEF StRec, PCs
    <2>5. /\ Making(r) <=> Making(st[p])
          /\ Getting(r) <=> Getting(st[p])
          /\ Letting(r) <=> Letting(st[p])
      BY <1>2, <2>3 DEF Making, Getting, Letting
    <2>6. Shape(r)
      BY <1>0, <1>2, <2>3, <2>5, NoneApart DEF Shape, Working, Cleaning, Inactive, Leaves
    <2>7. st' = [st EXCEPT ![p] = r] /\ st'[p] = r
      BY <1>0, <2>1, <2>2 DEF Types
    <2>8. GoesOn(p, r)
      BY <1>0, <1>2, <2>3, <2>4, <2>5, <2>6, <2>7 DEF GoesOn, Own, HasBuf, HasRoot
    <2>9. /\ vn' \in [Vnodes -> VnRec] /\ vn'[v] = [vn[v] EXCEPT !.lock = p]
          /\ \A w \in Vnodes : w # v => vn'[w] = vn[w]
      <3>1. [vn[v] EXCEPT !.lock = p] \in VnRec
        BY <1>4, VnTypes
      <3> QED
        BY <1>0, <2>1, <1>4, <3>1 DEF Types
    <2>10. /\ vn'[v].use = vn[v].use /\ vn'[v].bad = vn[v].bad /\ vn'[v].lock = p
           /\ vn'[v].slot = vn[v].slot /\ vn'[v].ref = vn[v].ref /\ vn'[v].xlock = vn[v].xlock
           /\ vn'[v].upd = vn[v].upd /\ vn'[v].xwant = vn[v].xwant /\ vn'[v].want = vn[v].want
      BY <1>4, <2>9 DEF VnRec
    <2>11. Ran(p)
      BY <1>0, <1>2, <2>1, <2>9, NoneApart DEF Ran, Types
    <2>12. Others(p)
      BY <2>7, <2>11 DEF Others, Ran
    <2>13. FreeOK'
      <3>1. \A w \in Vnodes : vn'[w].use = vn[w].use
        BY <2>9, <2>10
      <3> QED
        BY <1>2, <2>3, <2>5, <2>7, <2>12, <3>1, FreeKept
    <2>14. Mild(p, v)
      BY <1>4, <1>6, <2>1, <2>10 DEF Mild
    <2>15. Fine(p, v)
      <3>1. Begins(p, v)
        BY <1>1, <1>2, <1>4, <2>3, <2>5, <2>7 DEF Begins, Inactive, Cleaning
      <3>2. VnodeOK(v)'
        BY <1>4, <2>10 DEF VnodeOK
      <3>3. Refers(p, v)'
        BY <1>1, <1>2, <1>4, <2>3, <2>7, <2>10 DEF Refers, MayLock
      <3>4. Works(p, v)' /\ Sleeps(p, v)'
        BY <1>2, <1>4, <2>1, <2>3, <2>7, <2>10, NoneApart DEF Works, Sleeps, Cleaning, Inactive
      <3>5. Counted(p, v)
        BY <1>2, <1>4, <2>3, <2>7, <2>10, CountedSame
      <3> QED
        BY <3>1, <3>2, <3>3, <3>4, <3>5 DEF Fine, Pair
    <2>16. ASSUME NEW w \in Vnodes, w # v
           PROVE  Same(p, r, w)
      <3>1. w # None /\ wchan'[p] # DeChan(w) /\ wchan'[p] # VxChan(w)
        BY <1>2, <2>1, NoneApart
      <3> QED
        BY <1>1, <1>2, <2>1, <2>3, <2>5, <2>9, <2>16, <3>1 DEF Same, InDir, HasLeaf, Unlinks
    <2> QED
      BY <1>2, <2>8, <2>11, <2>13, <2>14, <2>15, <2>16, MildStep
  <1> QED
    BY <1>5, <1>6

(* cache_purge leaves no entry that names v.                               *)
LEMMA Purged ==
    ASSUME Core, NEW v \in Vnodes, NEW wrap \in IdWraps, nc' = cache_purge(v, wrap)
    PROVE  /\ nc' \in Seq(Entry) /\ Len(nc') = Len(nc) /\ DOMAIN nc' = DOMAIN nc
           /\ \A i \in DOMAIN nc : /\ nc'[i].dvp = nc[i].dvp /\ nc'[i].name = nc[i].name
                                   /\ nc'[i].vp = nc[i].vp
                                   /\ nc'[i].dvpid => nc[i].dvpid /\ nc[i].dvp # v /\ ~wrap
                                   /\ nc'[i].vpid => nc[i].vpid /\ nc[i].vp # v /\ ~wrap
                                   /\ ~wrap /\ nc[i].vp # v => nc'[i].vpid = nc[i].vpid
                                   /\ Valid(nc'[i]) => Valid(nc[i]) /\ nc[i].vp # v
  <1>1. nc \in Seq(Entry) /\ DOMAIN nc = 1..Len(nc) /\ Len(nc) \in Nat /\ wrap \in BOOLEAN
    BY VnodeAssumption DEF Core, Types
  <1>2. DOMAIN nc' = 1..Len(nc)
    BY <1>1 DEF cache_purge
  <1>3. ASSUME NEW i \in DOMAIN nc
        PROVE  /\ nc'[i] \in Entry
               /\ nc'[i].dvp = nc[i].dvp /\ nc'[i].name = nc[i].name /\ nc'[i].vp = nc[i].vp
               /\ nc'[i].dvpid = (nc[i].dvpid /\ nc[i].dvp # v /\ ~wrap)
               /\ nc'[i].vpid = (nc[i].vpid /\ nc[i].vp # v /\ ~wrap)
    <2>1. PICK a, b : a = (nc[i].dvpid /\ nc[i].dvp # v /\ ~wrap) /\ b = (nc[i].vpid /\ nc[i].vp # v /\ ~wrap)
      OBVIOUS
    <2>2. nc[i] \in Entry /\ a \in BOOLEAN /\ b \in BOOLEAN
      BY <1>1, <2>1
    <2>3. nc'[i] = [nc[i] EXCEPT !.dvpid = @ /\ nc[i].dvp # v /\ ~wrap, !.vpid = @ /\ nc[i].vp # v /\ ~wrap]
      BY <1>1 DEF cache_purge
    <2>4. nc'[i] = [nc[i] EXCEPT !.dvpid = a, !.vpid = b]
      BY <2>1, <2>2, <2>3 DEF Entry
    <2>5. nc'[i] \in Entry
      BY <2>2, <2>4, ZenonT(60) DEF Entry
    <2> QED
      BY <2>1, <2>2, <2>4, <2>5 DEF Entry
  <1>4. nc' = [i \in 1..Len(nc) |-> nc'[i]]
    BY <1>1 DEF cache_purge
  <1>5. nc' \in Seq(Entry)
    BY <1>1, <1>2, <1>3, <1>4
  <1>6. Len(nc') = Len(nc)
    BY <1>1, <1>2, <1>5
  <1>7. \A i \in DOMAIN nc : nc[i] \in Entry
    BY <1>1
  <1> QED
    BY <1>1, <1>2, <1>3, <1>5, <1>6, <1>7 DEF Valid, Entry

LEMMA NoFileUnused ==
    ASSUME NEW n, n = 0
    PROVE  [NoFile EXCEPT !.use = n] = NoFile
  <1>1. [NoFile EXCEPT !.use = n] = [NoFile EXCEPT !.use = NoFile.use]
    BY DEF NoFile
  <1>2. \A f : f = [x \in DOMAIN f |-> f[x]] => [f EXCEPT !["use"] = f["use"]] = f
    BY ZenonT(60)
  <1>3. NoFile = [x \in DOMAIN NoFile |-> NoFile[x]]
    BY ZenonT(60) DEF NoFile
  <1> QED
    BY <1>1, <1>2, <1>3

LEMMA ReclaimCore ==
    ASSUME Core, NEW p \in Procs, Reclaim(p), UNCHANGED calls
    PROVE  Core'
  <1>0. Types /\ Own(p) /\ Shape(st[p]) /\ st[p] \in StRec
    BY DEF Core, ProcOK, Types, Own
  <1>1. PICK v : v = st[p].gvp
    OBVIOUS
  <1>2. PICK C : C = Waiters(vn[v], v) \cup IF vn[v].xwant THEN {VxChan(v)} ELSE {}
    OBVIOUS
  <1>3. /\ st[p].pc = "vinvalbuf" /\ wchan[p] = None /\ cpu \in {p, None} /\ cpu' = p /\ Back(p)
        /\ vn' = [vn EXCEPT ![v] = [NoFile EXCEPT !.use = vn[v].use]]
        /\ wchan' = [q \in Procs |-> IF wchan[q] \in C THEN None ELSE wchan[q]]
        /\ mntlist' = Without(mntlist, v) /\ Recycle(v) /\ numcache' = numcache /\ dir' = dir
        /\ bp' = bp /\ cov' = cov /\ held' = held /\ calls' = calls
    BY <1>1, <1>2, ZenonT(60) DEF Reclaim, At, fs, Wakeup
  <1>4. PICK wrap \in IdWraps : nc' = cache_purge(v, wrap)
    BY <1>1 DEF Reclaim
  <1>5. st[p].gvp # None /\ st[p].gret \in {"newvnode", "rele"} /\ st[p].pc \notin Inactive
    BY <1>0, <1>3 DEF Shape, StRec, Working, Inactive, Cleaning
  <1>6. /\ v \in Vnodes /\ vn[v] \in VnRec /\ Works(p, v) /\ Refers(p, v) /\ VnodeOK(v)
        /\ vn[v].xlock /\ vn[v].use = 0 /\ ~vn[v].bad /\ vn[v] # NoFile
        /\ st[p].dvp # v /\ st[p].vp # v /\ held[p] # v
    <2>1. /\ v \in Vnodes /\ vn[v] \in VnRec /\ Works(p, v) /\ Refers(p, v) /\ VnodeOK(v)
          /\ vn[v].use = 0 => st[p].dvp # v /\ st[p].vp # v /\ held[p] # v
      BY <1>1, <1>5, WorksOn
    <2>2. vn[v].xlock
      BY <1>1, <1>3, <2>1 DEF Works, Cleaning
    <2> QED
      BY <2>1, <2>2 DEF NoFile, VnodeOK
  <1>7. PICK r : r = BackTo(st[p])
    OBVIOUS
  <1>8. /\ GoesOn(p, r) /\ r.dvp = st[p].dvp /\ r.vp = st[p].vp
        /\ r.pc = st[p].gret /\ r.pc \in {"newvnode", "rele"} /\ r.gret = None
        /\ r.gvp = IF st[p].gret = "newvnode" THEN st[p].gvp ELSE None
        /\ InDir(r) => InDir(st[p])
        /\ HasLeaf(r) => HasLeaf(st[p])
        /\ ~Unlinks(r)
        /\ Making(r) <=> Making(st[p])
        /\ Making(r) => r.gvp = st[p].gvp
    BY <1>3, <1>7, BackShape DEF Cleaning
  <1>9. st'[p] = r /\ \A q \in Procs : q # p => st'[q] = st[q]
    BY <1>0, <1>8 DEF Types, GoesOn
  <1>10. /\ vn' \in [Vnodes -> VnRec] /\ vn'[v] = NoFile
         /\ \A w \in Vnodes : w # v => vn'[w] = vn[w]
    <2>1. [NoFile EXCEPT !.use = vn[v].use] = NoFile
      BY <1>6, NoFileUnused
    <2>2. NoFile \in VnRec
      BY ZenonT(60) DEF NoFile, VnRec, Places
    <2> QED
      BY <1>0, <1>3, <1>6, <2>1, <2>2 DEF Types
  <1>11. /\ wchan' \in [Procs -> Chans \cup {None}] /\ wchan'[p] = None
         /\ \A q \in Procs : wchan'[q] \in {wchan[q], None}
         /\ \A q \in Procs, w \in Vnodes : w # v /\ wchan[q] = VxChan(w) => wchan'[q] = wchan[q]
    <2>1. \A w \in Vnodes : VxChan(w) \in Chans /\ (w # v => VxChan(w) \notin C)
      BY <1>2, ChansOf, ChansApart DEF Waiters
    <2> QED
      BY <1>3, <2>1, Woken
  <1>12. \A q \in Procs : wchan'[q] # DeChan(v) /\ wchan'[q] # VxChan(v)
    <2>1. \A q \in Procs : wchan'[q] # DeChan(v)
      BY <1>2, <1>3, <1>6, UnlockWakes
    <2>2. ASSUME NEW q \in Procs, wchan'[q] = VxChan(v)
          PROVE  FALSE
      <3>1. wchan[q] = VxChan(v)
        BY <1>6, <1>11, <2>2, NoneApart
      <3>2. vn[v].xwant
        BY <1>6, <3>1 DEF Core, Pair, Sleeps
      <3>3. VxChan(v) \in C
        BY <1>2, <3>2
      <3> QED
        BY <1>3, <1>6, <2>2, <3>3, Woken, ChansOf
    <2> QED
      BY <2>1, <2>2
  <1>13. Others(p)
    BY <1>3, <1>9, <1>11 DEF Others
  <1>14. vfree' \in Seq(Vnodes) /\ Once(vfree') /\ \A w : InSeq(w, vfree') <=> InSeq(w, vfree)
    <2>1. vfree \in Seq(Vnodes) /\ Once(vfree)
      BY <1>0 DEF Core, FreeOK, Types
    <2>2. CASE ~InSeq(v, vfree)
      BY <1>3, <2>1, <2>2 DEF Recycle
    <2>3. CASE InSeq(v, vfree)
      <3>1. PICK s : s = Without(vfree, v)
        OBVIOUS
      <3>2. s \in Seq(Vnodes) /\ Once(s) /\ \A w : InSeq(w, s) <=> InSeq(w, vfree) /\ w # v
        BY <2>1, <3>1, WithoutType, WithoutOnce
      <3>3. vfree' = <<v>> \o s
        BY <1>3, <2>3, <3>1 DEF Recycle
      <3>4. <<v>> \o s \in Seq(Vnodes) /\ Once(<<v>> \o s) /\ \A w : InSeq(w, <<v>> \o s) <=> InSeq(w, s) \/ w = v
        BY <1>6, <3>2, ConsPlaces, ConsOnce
      <3> QED
        BY <2>3, <3>2, <3>3, <3>4
    <2> QED
      BY <2>2, <2>3
  <1>15. FreeOK'
    <2>1. \A w \in Vnodes : w # None
      BY NoneApart
    <2>2. \A w \in Vnodes : Taken(w)' <=> Taken(w)
      BY <1>8, <1>9, <1>13, <2>1, TakenStep
    <2>3. \A w \in Vnodes : vn'[w].use = 0 <=> vn[w].use = 0
      BY <1>6, <1>10 DEF NoFile
    <2>4. \A w \in Vnodes : InSeq(w, vfree') <=> vn'[w].use = 0 /\ ~Taken(w)'
      BY <1>14, <2>2, <2>3 DEF Core, FreeOK
    <2> QED
      BY <1>14, <2>4 DEF FreeOK
  <1>16. mntlist' \in Seq(Vnodes)
    BY <1>0, <1>3, WithoutType DEF Types
  <1>17. Ran(p)
    BY <1>0, <1>3, <1>10, <1>11, <1>14, <1>16, NoneApart DEF Ran, Types
  <1>18. Changed(p, v) /\ Fine(p, v)
    <2>1. Reclaimed(p, v)
      BY <1>1, <1>3, <1>10, <1>12 DEF Reclaimed
    <2>2. Begins(p, v)
      BY <1>1, <1>3, <1>6, <1>8, <1>9 DEF Begins, Cleaning, Inactive
    <2>3. VnodeOK(v)'
      BY <1>10 DEF VnodeOK, NoFile
    <2>4. Refers(p, v)'
      BY <1>3, <1>6, <1>8, <1>9, <1>10, NoneApart DEF Refers, NoFile
    <2>5. Works(p, v)' /\ Sleeps(p, v)'
      BY <1>8, <1>9, <1>10, <1>12 DEF Works, Sleeps, Cleaning, Inactive
    <2>6. Counted(p, v)
      <3>1. vn'[v].use = vn[v].use
        BY <1>6, <1>10 DEF NoFile
      <3> QED
        BY <1>3, <1>6, <1>8, <1>9, <3>1, CountedSame
    <2> QED
      BY <2>1, <2>2, <2>3, <2>4, <2>5, <2>6 DEF Fine, Pair, Changed
  <1>19. ASSUME NEW w \in Vnodes, w # v
         PROVE  Same(p, r, w)
    <2>1. w # None /\ wchan'[p] # DeChan(w) /\ wchan'[p] # VxChan(w)
      BY <1>11, NoneApart
    <2> QED
      BY <1>1, <1>3, <1>8, <1>10, <1>11, <1>19, <2>1 DEF Same
  <1>20. nc' \in Seq(Entry) /\ Len(nc') = Len(nc) /\ CacheOK'
    <2>1. /\ nc' \in Seq(Entry) /\ Len(nc') = Len(nc) /\ DOMAIN nc' = DOMAIN nc
          /\ \A i \in DOMAIN nc : nc'[i].vp = nc[i].vp /\ (Valid(nc'[i]) => Valid(nc[i]) /\ nc[i].vp # v)
      BY <1>4, <1>6, Purged
    <2>2. ASSUME NEW i \in DOMAIN nc', Valid(nc'[i])
          PROVE  ~vn'[nc'[i].vp].bad /\ vn'[nc'[i].vp].slot \in Slots
      <3>1. Valid(nc[i]) /\ nc[i].vp # v /\ nc[i] \in Entry /\ i \in DOMAIN nc /\ nc'[i].vp = nc[i].vp
        BY <1>0, <2>1, <2>2 DEF Types
      <3>2. nc[i].vp \in Vnodes /\ ~vn[nc[i].vp].bad /\ vn[nc[i].vp].slot \in Slots
        BY <3>1 DEF Core, CacheOK, Entry, Valid, SomeVnode
      <3> QED
        BY <1>10, <3>1, <3>2
    <2> QED
      BY <2>1, <2>2 DEF CacheOK
  <1> QED
    BY <1>8, <1>15, <1>17, <1>18, <1>19, <1>20, StepCore

LEMMA getnewvnodeCore ==
    ASSUME Core, NEW p \in Procs, getnewvnode(p), UNCHANGED calls
    PROVE  Core'
  <1>0. Types /\ Own(p) /\ Shape(st[p]) /\ st[p] \in StRec
    BY DEF Core, ProcOK, Types, Own
  <1>1. PICK v, l, g : /\ v = Head(vfree)
                       /\ l = IF vn[v].bad THEN "newvnode" ELSE "vgone"
                       /\ g = IF vn[v].bad THEN None ELSE "newvnode"
    OBVIOUS
  <1>2. /\ st[p].pc = "deget" /\ wchan[p] = None /\ cpu \in {p, None} /\ cpu' = p
        /\ InHash(st[p].slot) = {} /\ vfree # <<>> /\ vfree' = Tail(vfree)
        /\ st' = [st EXCEPT ![p].pc = l, ![p].gvp = v, ![p].gret = g]
        /\ vn' = vn /\ wchan' = wchan
        /\ mntlist' = mntlist /\ nc' = nc /\ numcache' = numcache /\ dir' = dir
        /\ bp' = bp /\ cov' = cov /\ held' = held /\ calls' = calls
    BY <1>1, ZenonT(60) DEF getnewvnode, At, fs, Run
  <1>3. vfree \in Seq(Vnodes) /\ Once(vfree)
    BY <1>0 DEF Core, FreeOK, Types
  <1>4. /\ vfree' \in Seq(Vnodes) /\ v \in Vnodes /\ InSeq(v, vfree) /\ Once(vfree')
        /\ \A y : InSeq(y, vfree') <=> InSeq(y, vfree) /\ y # v
    BY <1>1, <1>2, <1>3, TailOnce
  <1>5. vn[v].use = 0 /\ VnodeOK(v) /\ Pair(p, v) /\ vn[v] \in VnRec
    BY <1>0, <1>4 DEF Core, FreeOK, Types
  <1>6. st[p].dvp # v /\ st[p].vp # v /\ held[p] # v
    BY <1>4, <1>5, NoneRefers
  <1>7. /\ st[p].gvp = None /\ st[p].gret = None /\ ~Making(st[p]) /\ Getting(st[p])
        /\ ~Letting(st[p]) /\ vn[v].lock # p
    <2>1. st[p].gvp = None /\ st[p].gret = None
      BY <1>0, <1>2 DEF Shape, Working, Cleaning, Inactive
    <2>2. vn[v].lock # p
      BY <1>2, <1>5, <1>6 DEF Pair, Refers, MayLock, Inactive
    <2> QED
      BY <1>2, <2>1, <2>2, NoneApart DEF Making, Getting, Letting
  <1>8. PICK r : r = [st[p] EXCEPT !.pc = l, !.gvp = v, !.gret = g]
    OBVIOUS
  <1>9. /\ r.pc = l /\ r.call = st[p].call /\ r.name = st[p].name /\ r.slot = st[p].slot
        /\ r.dvp = st[p].dvp /\ r.vp = st[p].vp /\ r.ret = st[p].ret /\ r.gvp = v
        /\ r.gret = g /\ r.rel = st[p].rel /\ r.keep = st[p].keep
    BY <1>0, <1>8 DEF StRec
  <1>10. r \in StRec
    <2>1. l \in PCs /\ g \in {"newvnode", "rele", None} /\ v \in SomeVnode
      BY <1>1, <1>4 DEF PCs, SomeVnode
    <2> QED
      BY <1>0, <1>8, <2>1, ZenonT(60) DEF StRec
  <1>11. Making(r) /\ Getting(r) /\ ~Letting(r)
    BY <1>1, <1>9, NoneApart DEF Making, Getting, Letting
  <1>12. Shape(r)
    BY <1>0, <1>1, <1>2, <1>4, <1>7, <1>9, <1>11, NoneApart DEF Shape, Working, Cleaning, Inactive
  <1>13. st' = [st EXCEPT ![p] = r] /\ st'[p] = r
    BY <1>0, <1>2, <1>8 DEF Types
  <1>14. GoesOn(p, r)
    BY <1>0, <1>1, <1>2, <1>7, <1>9, <1>10, <1>11, <1>12, <1>13 DEF GoesOn, Own, HasBuf, HasRoot
  <1>15. Ran(p)
    BY <1>0, <1>2, <1>4, NoneApart DEF Ran, Types
  <1>16. Others(p)
    BY <1>13, <1>15 DEF Others, Ran
  <1>17. FreeOK'
    <2>1. \A w \in Vnodes : w # None
      BY NoneApart
    <2>2. \A w \in Vnodes : Taken(w)' <=> Taken(w) \/ w = v
      BY <1>7, <1>9, <1>11, <1>13, <1>16, <2>1, TakenStep
    <2>3. \A w \in Vnodes : InSeq(w, vfree') <=> vn'[w].use = 0 /\ ~Taken(w)'
      BY <1>2, <1>4, <2>2 DEF Core, FreeOK
    <2> QED
      BY <1>4, <2>3 DEF FreeOK
  <1>18. Mild(p, v)
    BY <1>0, <1>2, <1>4 DEF Mild, Types
  <1>19. Fine(p, v)
    <2>1. Begins(p, v)
      BY <1>1, <1>2, <1>4, <1>6, <1>9, <1>13 DEF Begins, Cleaning, Inactive
    <2>2. VnodeOK(v)'
      BY <1>2, <1>5 DEF VnodeOK
    <2>3. Refers(p, v)'
      BY <1>2, <1>6, <1>7, <1>9, <1>13 DEF Refers
    <2>4. Works(p, v)'
      BY <1>1, <1>2, <1>5, <1>9, <1>13 DEF Works, VnodeOK, Cleaning, Inactive
    <2>5. Sleeps(p, v)'
      BY <1>2, <1>4, NoneApart DEF Sleeps
    <2>6. Counted(p, v)
      BY <1>2, <1>4, <1>9, <1>13, CountedSame
    <2> QED
      BY <2>1, <2>2, <2>3, <2>4, <2>5, <2>6 DEF Fine, Pair
  <1>20. ASSUME NEW w \in Vnodes, w # v
         PROVE  Same(p, r, w)
    <2>1. w # None /\ wchan'[p] # DeChan(w) /\ wchan'[p] # VxChan(w)
      BY <1>2, NoneApart
    <2> QED
      BY <1>1, <1>2, <1>7, <1>9, <1>11, <1>20, <2>1 DEF Same, InDir, HasLeaf, Unlinks
  <1> QED
    BY <1>2, <1>14, <1>15, <1>17, <1>18, <1>19, <1>20, MildStep


-----------------------------------------------------------------------------
(* deget returns vnode v, which becomes x: one that it found, or a new one.*)
Gets(p, v, x) ==
    /\ st[p].pc \in {"deget", "newvnode"} /\ wchan[p] = None /\ cpu \in {p, None}
    /\ v \in Vnodes /\ vn[v].lock = None /\ st[p].gvp \in {v, None}
    /\ vn[v].slot = st[p].slot \/ vn[v].use = 0
    /\ x \in VnRec /\ x.use = vn[v].use + 1 /\ x.lock = p /\ x.slot = st[p].slot /\ x.ref = 1
    /\ ~x.bad /\ ~x.xlock /\ (x.slot = RootSlot => ~x.upd)
    /\ numcache' = numcache /\ dir' = dir /\ held' = held /\ calls' = calls
    /\ mntlist' \in Seq(Vnodes) /\ vfree' \in Seq(Vnodes)
    /\ DegetReturns(p, v, [vn EXCEPT ![v] = x], {})
Got(p, v, x) == \E r :
    /\ Ran(p) /\ GoesOn(p, r) /\ ~Making(r) /\ st'[p] = r /\ vn'[v] = x /\ Fine(p, v)
    /\ \A q \in Procs : wchan[q] = VxChan(v) => wchan'[q] = wchan[q]
    /\ \A w \in Vnodes : w # v => /\ Same(p, r, w) \/ (Mild(p, w) /\ Fine(p, w))
                                  /\ vn'[w].use = vn[w].use

(* Who is in deget has the directory, or the mount point, and no file.     *)
LEMMA InDeget ==
    ASSUME Core, NEW p \in Procs, NEW v, NEW x, Gets(p, v, x)
    PROVE  /\ Getting(st[p]) /\ ~Letting(st[p]) /\ st[p].gret = None /\ ~st[p].keep
           /\ st[p].vp = None /\ st[p].dvp # v /\ st[p].call \in {"open", "create", "unlink"}
           /\ st[p].name \in Names
           /\ \/ /\ st[p].ret = "root" /\ st[p].slot = RootSlot /\ st[p].dvp = None
                 /\ cov = p /\ held[p] # v
              \/ /\ st[p].ret \in {"leaf", "new"} /\ st[p].slot \in Slots /\ st[p].dvp \in Vnodes
                 /\ bp = p /\ InDir(st[p]) /\ vn[st[p].dvp].lock = p
  <1>0. Types /\ Own(p) /\ Shape(st[p]) /\ st[p] \in StRec /\ v \in Vnodes
    BY DEF Core, ProcOK, Types, Own, Gets
  <1>1. st[p].pc \in {"deget", "newvnode"}
    BY DEF Gets
  <1>2. /\ Getting(st[p]) /\ ~Letting(st[p]) /\ st[p].gret = None /\ ~st[p].keep
        /\ st[p].vp = None /\ st[p].call \in {"open", "create", "unlink"} /\ st[p].name \in Names
    BY <1>0, <1>1, NoneApart DEF Shape, Getting, Making, Letting, Cleaning
  <1>3. CASE st[p].ret = "root" /\ st[p].slot = RootSlot /\ st[p].dvp = None
    <2>1. cov = p
      BY <1>0, <1>2, <1>3 DEF Own, HasRoot
    <2>2. held[p] # v
      <3>1. CASE vn[v].slot = RootSlot
        BY <1>0, <3>1, RootApart DEF Core, Pair, Refers
      <3>2. CASE vn[v].use = 0
        BY <1>0, <3>2, NoneRefers
      <3> QED
        BY <1>3, <3>1, <3>2 DEF Gets
    <2> QED
      BY <1>0, <1>2, <1>3, <2>1, <2>2, NoneApart
  <1>4. CASE st[p].ret \in {"leaf", "new"} /\ st[p].slot \in Slots /\ st[p].dvp # None
    <2>1. bp = p /\ InDir(st[p])
      BY <1>0, <1>2, <1>4 DEF Own, HasBuf, InDir
    <2>2. st[p].dvp \in Vnodes /\ vn[st[p].dvp].lock = p
      BY <1>4, <2>1, HasDir
    <2>3. st[p].dvp # v
      BY <2>2, NoneApart DEF Gets
    <2> QED
      BY <1>2, <1>4, <2>1, <2>2, <2>3
  <1> QED
    BY <1>0, <1>2, <1>3, <1>4 DEF Shape

LEMMA RootGot ==
    ASSUME Core, NEW p \in Procs, NEW v, NEW x, Gets(p, v, x), st[p].ret = "root"
    PROVE  Got(p, v, x)
  <1>0. Types /\ Own(p) /\ Shape(st[p]) /\ st[p] \in StRec
    BY DEF Core, ProcOK, Types, Own
  <1>1. /\ Getting(st[p]) /\ ~Letting(st[p]) /\ st[p].gret = None /\ ~st[p].keep
        /\ st[p].vp = None /\ st[p].dvp # v /\ st[p].call \in {"open", "create", "unlink"}
        /\ st[p].name \in Names
        /\ st[p].ret = "root" /\ st[p].slot = RootSlot /\ st[p].dvp = None /\ cov = p /\ held[p] # v
    BY InDeget
  <1>2. /\ st[p].pc \in {"deget", "newvnode"} /\ wchan[p] = None /\ cpu \in {p, None}
        /\ v \in Vnodes /\ vn[v].lock = None /\ st[p].gvp \in {v, None}
        /\ x \in VnRec /\ x.use = vn[v].use + 1 /\ x.lock = p /\ x.slot = st[p].slot /\ x.ref = 1
        /\ ~x.bad /\ ~x.xlock /\ (x.slot = RootSlot => ~x.upd)
        /\ numcache' = numcache /\ dir' = dir /\ held' = held /\ calls' = calls
        /\ mntlist' \in Seq(Vnodes) /\ vfree' \in Seq(Vnodes)
    BY DEF Gets
  <1>3. /\ st' = [st EXCEPT ![p].pc = "cache", ![p].dvp = v, ![p].gvp = None,
                            ![p].slot = None, ![p].ret = None]
        /\ cov' = None /\ vn' = [vn EXCEPT ![v] = x] /\ bp' = bp /\ cpu' = p
        /\ wchan' = [q \in Procs |-> IF wchan[q] \in {} THEN None ELSE wchan[q]]
    BY DEF Gets, DegetReturns, Wakeup
  <1>4. wchan' = wchan
    BY <1>0, <1>3 DEF Types
  <1>5. PICK r : r = [st[p] EXCEPT !.pc = "cache", !.dvp = v, !.gvp = None, !.slot = None, !.ret = None]
    OBVIOUS
  <1>6. /\ r.pc = "cache" /\ r.call = st[p].call /\ r.name = st[p].name /\ r.slot = None
        /\ r.dvp = v /\ r.vp = st[p].vp /\ r.ret = None /\ r.gvp = None
        /\ r.gret = st[p].gret /\ r.rel = st[p].rel /\ r.keep = st[p].keep
    BY <1>0, <1>5 DEF StRec
  <1>7. r \in StRec
    <2>1. "cache" \in PCs /\ v \in SomeVnode /\ None \in SomeVnode /\ None \in Places
      BY <1>2 DEF PCs, SomeVnode, Places
    <2> QED
      BY <1>0, <1>5, <2>1, ZenonT(60) DEF StRec
  <1>8. ~Making(r) /\ ~Getting(r) /\ ~Letting(r)
    BY <1>1, <1>6, NoneApart DEF Making, Getting, Letting
  <1>9. Shape(r)
    BY <1>1, <1>2, <1>6, <1>8, NoneApart DEF Shape, Working, Cleaning, Inactive
  <1>10. st' = [st EXCEPT ![p] = r] /\ st'[p] = r
    BY <1>0, <1>3, <1>5 DEF Types
  <1>11. GoesOn(p, r)
    BY <1>0, <1>2, <1>6, <1>7, <1>8, <1>9, <1>10 DEF GoesOn, Own, HasBuf, HasRoot
  <1>12. vn' \in [Vnodes -> VnRec] /\ vn'[v] = x /\ \A w \in Vnodes : w # v => vn'[w] = vn[w]
    BY <1>0, <1>2, <1>3 DEF Types
  <1>13. Ran(p)
    BY <1>0, <1>1, <1>2, <1>3, <1>4, <1>12, NoneApart DEF Ran, Types
  <1>14. Fine(p, v)
    <2>1. Begins(p, v)
      BY <1>1, <1>2, <1>4, <1>6, <1>8, <1>10, <1>12, NoneApart DEF Begins
    <2>2. VnodeOK(v)'
      BY <1>1, <1>2, <1>4, <1>6, <1>8, <1>10, <1>12 DEF VnodeOK
    <2>3. Refers(p, v)'
      BY <1>1, <1>2, <1>4, <1>6, <1>8, <1>10, <1>12, RootApart, NoneApart DEF Refers, MayLock, HasLeaf, Unlinks
    <2>4. Works(p, v)' /\ Sleeps(p, v)'
      BY <1>1, <1>2, <1>4, <1>6, <1>8, <1>10, <1>12, NoneApart DEF Works, Sleeps
    <2>5. Counted(p, v)
      BY <1>1, <1>2, <1>4, <1>6, <1>8, <1>10, <1>12, CountedMore, NoneApart
    <2> QED
      BY <2>1, <2>2, <2>3, <2>4, <2>5 DEF Fine, Pair
  <1>15. ASSUME NEW w \in Vnodes, w # v
         PROVE  Same(p, r, w)
    <2>1. w # None /\ wchan'[p] # DeChan(w) /\ wchan'[p] # VxChan(w)
      BY <1>2, <1>4, NoneApart
    <2> QED
      BY <1>1, <1>2, <1>4, <1>6, <1>12, <1>15, <2>1 DEF Same
  <1> QED
    BY <1>4, <1>8, <1>10, <1>11, <1>12, <1>13, <1>14, <1>15 DEF Got

LEMMA NewGot ==
    ASSUME Core, NEW p \in Procs, NEW v, NEW x, Gets(p, v, x), st[p].ret = "new"
    PROVE  Got(p, v, x)
  <1>0. Types /\ Own(p) /\ Shape(st[p]) /\ st[p] \in StRec
    BY DEF Core, ProcOK, Types, Own
  <1>1. /\ Getting(st[p]) /\ ~Letting(st[p]) /\ st[p].gret = None /\ ~st[p].keep
        /\ st[p].vp = None /\ st[p].dvp # v /\ st[p].call \in {"open", "create", "unlink"}
        /\ st[p].name \in Names
        /\ st[p].slot \in Slots /\ st[p].dvp \in Vnodes /\ bp = p /\ InDir(st[p]) /\ vn[st[p].dvp].lock = p
    BY InDeget
  <1>2. /\ st[p].pc \in {"deget", "newvnode"} /\ wchan[p] = None /\ cpu \in {p, None}
        /\ v \in Vnodes /\ vn[v].lock = None /\ st[p].gvp \in {v, None}
        /\ x \in VnRec /\ x.use = vn[v].use + 1 /\ x.lock = p /\ x.slot = st[p].slot /\ x.ref = 1
        /\ ~x.bad /\ ~x.xlock /\ (x.slot = RootSlot => ~x.upd)
        /\ numcache' = numcache /\ dir' = dir /\ held' = held /\ calls' = calls
        /\ mntlist' \in Seq(Vnodes) /\ vfree' \in Seq(Vnodes)
    BY DEF Gets
  <1>3. /\ st' = [st EXCEPT ![p].pc = "bwrite", ![p].vp = v, ![p].gvp = None,
                            ![p].slot = None, ![p].ret = None]
        /\ cov' = cov /\ vn' = [vn EXCEPT ![v] = x] /\ bp' = bp /\ cpu' = None
    BY DEF Gets, DegetReturns, Yield
  <1>4. wchan' = wchan /\ st[p].call = "create"
    BY <1>0, <1>1 DEF Gets, DegetReturns, Yield, Shape
  <1>5. PICK r : r = [st[p] EXCEPT !.pc = "bwrite", !.vp = v, !.gvp = None, !.slot = None, !.ret = None]
    OBVIOUS
  <1>6. /\ r.pc = "bwrite" /\ r.call = st[p].call /\ r.name = st[p].name /\ r.slot = None
        /\ r.dvp = st[p].dvp /\ r.vp = v /\ r.ret = None /\ r.gvp = None
        /\ r.gret = st[p].gret /\ r.rel = st[p].rel /\ r.keep = st[p].keep
    BY <1>0, <1>5 DEF StRec
  <1>7. r \in StRec
    <2>1. "bwrite" \in PCs /\ v \in SomeVnode /\ None \in SomeVnode /\ None \in Places
      BY <1>2 DEF PCs, SomeVnode, Places
    <2> QED
      BY <1>0, <1>5, <2>1, ZenonT(60) DEF StRec
  <1>8. ~Making(r) /\ ~Getting(r) /\ ~Letting(r)
    BY <1>1, <1>6, NoneApart DEF Making, Getting, Letting
  <1>9. Shape(r)
    BY <1>1, <1>2, <1>4, <1>6, <1>8, NoneApart DEF Shape, Working, Cleaning, Inactive
  <1>10. st' = [st EXCEPT ![p] = r] /\ st'[p] = r
    BY <1>0, <1>3, <1>5 DEF Types
  <1>11. GoesOn(p, r)
    BY <1>0, <1>1, <1>2, <1>3, <1>6, <1>7, <1>8, <1>9, <1>10 DEF GoesOn, Own, HasBuf, HasRoot
  <1>12. vn' \in [Vnodes -> VnRec] /\ vn'[v] = x /\ \A w \in Vnodes : w # v => vn'[w] = vn[w]
    BY <1>0, <1>2, <1>3 DEF Types
  <1>13. Ran(p)
    BY <1>0, <1>1, <1>2, <1>3, <1>4, <1>12, NoneApart DEF Ran, Types
  <1>14. Fine(p, v)
    <2>1. Begins(p, v)
      BY <1>1, <1>2, <1>4, <1>6, <1>8, <1>10, <1>12, NoneApart DEF Begins
    <2>2. VnodeOK(v)'
      BY <1>1, <1>2, <1>4, <1>6, <1>8, <1>10, <1>12 DEF VnodeOK
    <2>3. Refers(p, v)'
      BY <1>1, <1>2, <1>4, <1>6, <1>8, <1>10, <1>12, RootApart, NoneApart DEF Refers, MayLock, HasLeaf, Unlinks
    <2>4. Works(p, v)' /\ Sleeps(p, v)'
      BY <1>1, <1>2, <1>4, <1>6, <1>8, <1>10, <1>12, NoneApart DEF Works, Sleeps
    <2>5. Counted(p, v)
      BY <1>1, <1>2, <1>4, <1>6, <1>8, <1>10, <1>12, CountedMore, NoneApart
    <2> QED
      BY <2>1, <2>2, <2>3, <2>4, <2>5 DEF Fine, Pair
  <1>15. ASSUME NEW w \in Vnodes, w # v
         PROVE  Same(p, r, w)
    <2>1. w # None /\ wchan'[p] # DeChan(w) /\ wchan'[p] # VxChan(w)
      BY <1>2, <1>4, NoneApart
    <2> QED
      BY <1>1, <1>2, <1>4, <1>6, <1>12, <1>15, <2>1 DEF Same
  <1> QED
    BY <1>4, <1>8, <1>10, <1>11, <1>12, <1>13, <1>14, <1>15 DEF Got

LEMMA LeafGot ==
    ASSUME Core, NEW p \in Procs, NEW v, NEW x, Gets(p, v, x), st[p].ret = "leaf"
    PROVE  Got(p, v, x)
  <1>0. Types /\ Own(p) /\ Shape(st[p]) /\ st[p] \in StRec
    BY DEF Core, ProcOK, Types, Own
  <1>1. /\ Getting(st[p]) /\ ~Letting(st[p]) /\ st[p].gret = None /\ ~st[p].keep
        /\ st[p].vp = None /\ st[p].dvp # v /\ st[p].call \in {"open", "create", "unlink"}
        /\ st[p].name \in Names
        /\ st[p].slot \in Slots /\ st[p].dvp \in Vnodes /\ bp = p /\ InDir(st[p]) /\ vn[st[p].dvp].lock = p
    BY InDeget
  <1>2. /\ st[p].pc \in {"deget", "newvnode"} /\ wchan[p] = None /\ cpu \in {p, None}
        /\ v \in Vnodes /\ vn[v].lock = None /\ st[p].gvp \in {v, None}
        /\ x \in VnRec /\ x.use = vn[v].use + 1 /\ x.lock = p /\ x.slot = st[p].slot /\ x.ref = 1
        /\ ~x.bad /\ ~x.xlock /\ (x.slot = RootSlot => ~x.upd)
        /\ numcache' = numcache /\ dir' = dir /\ held' = held /\ calls' = calls
        /\ mntlist' \in Seq(Vnodes) /\ vfree' \in Seq(Vnodes)
    BY DEF Gets
  <1>3. PICK d, l, C : /\ d = st[p].dvp
                       /\ l = IF st[p].call # "unlink" THEN "enter" ELSE "found"
                       /\ C = IF st[p].call = "open" THEN Waiters(vn[d], d) ELSE {}
    OBVIOUS
  <1>4. /\ d \in Vnodes /\ ~vn[d].bad /\ ~vn[d].xlock /\ vn[d].slot = RootSlot /\ vn[d].lock = p
        /\ vn[d] \in VnRec /\ vn[d] # NoFile /\ held[p] # d /\ d # v /\ d # None
    BY <1>1, <1>3, HasDir, NoneApart
  <1>5. [vn EXCEPT ![v] = x][d] = vn[d]
    BY <1>0, <1>4 DEF Types
  <1>6. /\ st' = [st EXCEPT ![p].pc = l, ![p].vp = v, ![p].gvp = None,
                            ![p].slot = None, ![p].ret = None]
        /\ vn' = [[vn EXCEPT ![v] = x] EXCEPT
                     ![d] = IF st[p].call = "open" THEN Unlocked(vn[d]) ELSE vn[d]]
        /\ wchan' = [q \in Procs |-> IF wchan[q] \in C THEN None ELSE wchan[q]]
        /\ cov' = cov /\ bp' = None /\ cpu' = p
    <2>1. DegetReturns(p, v, [vn EXCEPT ![v] = x], {})
      BY DEF Gets
    <2>2. /\ st' = [st EXCEPT ![p].pc = l, ![p].vp = v, ![p].gvp = None,
                              ![p].slot = None, ![p].ret = None]
          /\ cov' = cov /\ bp' = None /\ cpu' = p
      BY <1>3, <2>1 DEF DegetReturns, makeentry, Wakeup
    <2>3. vn' = [[vn EXCEPT ![v] = x] EXCEPT ![d] = IF st[p].call = "open" THEN Unlocked(@) ELSE @]
      BY <1>3, <2>1 DEF DegetReturns
    <2>4. wchan' = [q \in Procs |-> IF wchan[q] \in {} \cup (IF st[p].call = "open"
                              THEN Waiters([vn EXCEPT ![v] = x][d], d) ELSE {}) THEN None ELSE wchan[q]]
      BY <1>3, <2>1 DEF DegetReturns, Wakeup
    <2>5. {} \cup (IF st[p].call = "open" THEN Waiters([vn EXCEPT ![v] = x][d], d) ELSE {}) = C
      BY <1>3, <1>5
    <2>6. wchan' = [q \in Procs |-> IF wchan[q] \in C THEN None ELSE wchan[q]]
      BY <2>4, <2>5
    <2>7. vn' = [[vn EXCEPT ![v] = x] EXCEPT ![d] = IF st[p].call = "open" THEN Unlocked(vn[d]) ELSE vn[d]]
      BY <1>5, <2>3
    <2> QED
      BY <2>2, <2>6, <2>7
  <1>7. PICK r : r = [st[p] EXCEPT !.pc = l, !.vp = v, !.gvp = None, !.slot = None, !.ret = None]
    OBVIOUS
  <1>8. /\ r.pc = l /\ r.call = st[p].call /\ r.name = st[p].name /\ r.slot = None
        /\ r.dvp = st[p].dvp /\ r.vp = v /\ r.ret = None /\ r.gvp = None
        /\ r.gret = st[p].gret /\ r.rel = st[p].rel /\ r.keep = st[p].keep
    BY <1>0, <1>7 DEF StRec
  <1>9. r \in StRec
    <2>1. l \in PCs /\ v \in SomeVnode /\ None \in Places
      BY <1>2, <1>3 DEF PCs, SomeVnode, Places
    <2> QED
      BY <1>0, <1>7, <2>1, ZenonT(60) DEF StRec, SomeVnode
  <1>10. ~Making(r) /\ ~Getting(r) /\ ~Letting(r)
    BY <1>1, <1>3, <1>8, NoneApart DEF Making, Getting, Letting
  <1>11. Shape(r)
    BY <1>1, <1>2, <1>3, <1>4, <1>8, <1>10, NoneApart DEF Shape, Working, Cleaning, Inactive
  <1>12. st' = [st EXCEPT ![p] = r] /\ st'[p] = r
    BY <1>0, <1>6, <1>7 DEF Types
  <1>13. GoesOn(p, r)
    BY <1>0, <1>1, <1>2, <1>3, <1>6, <1>8, <1>9, <1>10, <1>11, <1>12 DEF GoesOn, Own, HasBuf, HasRoot
  <1>14. /\ vn' \in [Vnodes -> VnRec] /\ vn'[v] = x
         /\ vn'[d] = IF st[p].call = "open" THEN Unlocked(vn[d]) ELSE vn[d]
         /\ \A w \in Vnodes : w # d /\ w # v => vn'[w] = vn[w]
    <2>1. Unlocked(vn[d]) \in VnRec
      BY <1>4, VnTypes, NoneApart
    <2> QED
      BY <1>0, <1>2, <1>4, <1>6, <2>1 DEF Types
  <1>15. /\ vn'[d].use = vn[d].use /\ vn'[d].bad = vn[d].bad
         /\ vn'[d].lock = IF st[p].call = "open" THEN None ELSE p
         /\ vn'[d].slot = vn[d].slot /\ vn'[d].ref = vn[d].ref /\ vn'[d].xlock = vn[d].xlock
         /\ vn'[d].upd = vn[d].upd /\ vn'[d].xwant = vn[d].xwant
    BY <1>4, <1>14 DEF VnRec, Unlocked
  <1>16. /\ wchan' \in [Procs -> Chans \cup {None}] /\ wchan'[p] = None
         /\ \A q \in Procs : wchan'[q] \in {wchan[q], None}
         /\ \A q \in Procs, w \in Vnodes : wchan[q] = VxChan(w) => wchan'[q] = wchan[q]
    <2>1. \A w \in Vnodes : VxChan(w) \in Chans /\ VxChan(w) \notin C
      BY <1>3, ChansOf, ChansApart DEF Waiters
    <2> QED
      BY <1>2, <1>6, <2>1, Woken
  <1>17. Ran(p)
    BY <1>0, <1>1, <1>2, <1>6, <1>14, <1>16, NoneApart DEF Ran, Types
  <1>18. Fine(p, v)
    <2>1. Begins(p, v)
      BY <1>1, <1>2, <1>8, <1>10, <1>12, <1>14, <1>16, NoneApart DEF Begins
    <2>2. VnodeOK(v)'
      BY <1>1, <1>2, <1>8, <1>10, <1>12, <1>14, <1>16 DEF VnodeOK
    <2>3. Refers(p, v)'
      BY <1>1, <1>2, <1>8, <1>10, <1>12, <1>14, <1>16, RootApart, NoneApart DEF Refers, MayLock, HasLeaf, Unlinks
    <2>4. Works(p, v)' /\ Sleeps(p, v)'
      BY <1>1, <1>2, <1>8, <1>10, <1>12, <1>14, <1>16, NoneApart DEF Works, Sleeps
    <2>5. Counted(p, v)
      BY <1>1, <1>2, <1>8, <1>10, <1>12, <1>14, <1>16, CountedMore, NoneApart
    <2> QED
      BY <2>1, <2>2, <2>3, <2>4, <2>5 DEF Fine, Pair
  <1>19. ASSUME NEW w \in Vnodes, w # v, w # d
         PROVE  Same(p, r, w)
    <2>1. w # None /\ wchan'[p] # DeChan(w) /\ wchan'[p] # VxChan(w)
      BY <1>16, NoneApart
    <2> QED
      BY <1>1, <1>2, <1>3, <1>8, <1>14, <1>16, <1>19, <2>1 DEF Same
  <1>20. Same(p, r, d) \/ (Mild(p, d) /\ Fine(p, d))
    <2>1. CASE st[p].call = "open"
      <3>1. Mild(p, d)
        <4>1. \A q \in Procs : wchan'[q] # DeChan(d)
          BY <1>2, <1>3, <1>4, <1>6, <2>1, UnlockWakes
        <4> QED
          BY <1>4, <1>15, <1>16, <4>1 DEF Mild
      <3>2. Begins(p, d)
        BY <1>2, <1>4, <1>8, <1>12 DEF Begins
      <3>3. VnodeOK(d)'
        BY <1>4, <1>15 DEF Core, VnodeOK
      <3>4. Refers(p, d)'
        BY <1>1, <1>2, <1>3, <1>4, <1>8, <1>10, <1>12, <1>15, <2>1, NoneApart DEF Refers, MayLock, InDir
      <3>5. Works(p, d)' /\ Sleeps(p, d)'
        BY <1>4, <1>8, <1>12, <1>16, NoneApart DEF Works, Sleeps
      <3>6. Counted(p, d)
        BY <1>1, <1>2, <1>4, <1>8, <1>12, <1>15, CountedSame
      <3> QED
        BY <3>1, <3>2, <3>3, <3>4, <3>5, <3>6 DEF Fine, Pair
    <2>2. CASE st[p].call # "open"
      <3>1. vn'[d] = vn[d] /\ wchan'[p] # DeChan(d) /\ wchan'[p] # VxChan(d) /\ st[p].vp # d
        BY <1>1, <1>4, <1>14, <1>16, <2>2, NoneApart
      <3>2. Same(p, r, d)
        BY <1>1, <1>2, <1>3, <1>4, <1>8, <1>16, <3>1 DEF Same
      <3> QED
        BY <3>2
    <2> QED
      BY <2>1, <2>2
  <1>21. \A w \in Vnodes : w # v => vn'[w].use = vn[w].use
    BY <1>14, <1>15
  <1> QED
    BY <1>2, <1>10, <1>12, <1>13, <1>14, <1>16, <1>17, <1>18, <1>19, <1>20, <1>21 DEF Got

LEMMA AllGot ==
    ASSUME Core, NEW p \in Procs, NEW v, NEW x, Gets(p, v, x)
    PROVE  Got(p, v, x)
  <1>1. st[p].ret \in {"root", "leaf", "new"}
    BY InDeget
  <1> QED
    BY <1>1, RootGot, LeafGot, NewGot

LEMMA DegetHitCore ==
    ASSUME Core, NEW p \in Procs, DegetHit(p), UNCHANGED calls
    PROVE  Core'
  <1>0. Types /\ Own(p) /\ Shape(st[p]) /\ st[p] \in StRec
    BY DEF Core, ProcOK, Types, Own
  <1>1. PICK v \in InHash(st[p].slot) :
           /\ vn[v].lock = None /\ ~vn[v].xlock
           /\ DegetReturns(p, v, [vn EXCEPT ![v].use = @ + 1, ![v].lock = p], {})
           /\ vfree' = Without(vfree, v)
    BY DEF DegetHit
  <1>2. v \in Vnodes /\ ~vn[v].bad /\ vn[v].slot = st[p].slot /\ vn[v].ref > 0
    BY DEF InHash
  <1>3. /\ st[p].pc = "deget" /\ wchan[p] = None /\ cpu \in {p, None}
        /\ mntlist' = mntlist /\ nc' = nc /\ numcache' = numcache /\ dir' = dir /\ held' = held
        /\ calls' = calls
    BY DEF DegetHit, At
  <1>4. vn[v] \in VnRec /\ VnodeOK(v) /\ vn[v].use \in Nat /\ vn[v].use + 1 \in Nat /\ vn[v].ref = 1
    BY <1>0, <1>2 DEF Core, Types, VnRec
  <1>5. PICK x : x = [vn[v] EXCEPT !.use = vn[v].use + 1, !.lock = p]
    OBVIOUS
  <1>6. /\ x \in VnRec /\ x.use = vn[v].use + 1 /\ x.lock = p /\ x.slot = vn[v].slot
        /\ x.ref = vn[v].ref /\ x.bad = vn[v].bad /\ x.xlock = vn[v].xlock /\ x.upd = vn[v].upd
        /\ x.want = vn[v].want /\ x.xwant = vn[v].xwant
    <2>1. x \in VnRec
      BY <1>4, <1>5, ZenonT(60) DEF VnRec
    <2> QED
      BY <1>4, <1>5, <2>1 DEF VnRec
  <1>7. [vn EXCEPT ![v].use = @ + 1, ![v].lock = p] = [vn EXCEPT ![v] = x]
    BY <1>0, <1>2, <1>5 DEF Types
  <1>8. st[p].gvp = None /\ ~Making(st[p])
    BY <1>0, <1>3, NoneApart DEF Shape, Making, Working, Cleaning, Inactive
  <1>9. vfree' \in Seq(Vnodes)
    BY <1>0, <1>1, WithoutType DEF Types
  <1>10. Gets(p, v, x)
    <2>1. DegetReturns(p, v, [vn EXCEPT ![v] = x], {})
      BY <1>1, <1>7
    <2>2. x.slot = RootSlot => ~x.upd
      BY <1>2, <1>4, <1>6 DEF VnodeOK
    <2> QED
      BY <1>0, <1>1, <1>2, <1>3, <1>4, <1>6, <1>8, <1>9, <2>1, <2>2 DEF Gets, Types
  <1>11. Got(p, v, x)
    BY <1>10, AllGot
  <1>12. PICK r :
    /\ Ran(p) /\ GoesOn(p, r) /\ ~Making(r) /\ st'[p] = r /\ vn'[v] = x /\ Fine(p, v)
    /\ \A q \in Procs : wchan[q] = VxChan(v) => wchan'[q] = wchan[q]
    /\ \A w \in Vnodes : w # v => /\ Same(p, r, w) \/ (Mild(p, w) /\ Fine(p, w))
                                  /\ vn'[w].use = vn[w].use
    BY <1>11 DEF Got
  <1>13. Mild(p, v)
    <2>1. vn[v] # NoFile
      BY <1>2 DEF NoFile
    <2> QED
      BY <1>1, <1>6, <1>12, <2>1 DEF Mild
  <1>14. Others(p)
    BY <1>0, <1>12 DEF Others, Ran, GoesOn, Types
  <1>15. FreeOK'
    <2>1. vn'[v].use # 0
      BY <1>4, <1>6, <1>12
    <2> QED
      BY <1>1, <1>2, <1>8, <1>12, <1>14, <2>1, FreeLeft
  <1>16. \A w \in Vnodes : Same(p, r, w) \/ (Mild(p, w) /\ Fine(p, w))
    BY <1>12, <1>13
  <1> QED
    BY <1>3, <1>12, <1>15, <1>16, MildStep

LEMMA NewVnodeCore ==
    ASSUME Core, NEW p \in Procs, NewVnode(p), UNCHANGED calls
    PROVE  Core'
  <1>0. Types /\ Own(p) /\ Shape(st[p]) /\ st[p] \in StRec
    BY DEF Core, ProcOK, Types, Own
  <1>1. PICK v, s, n : v = st[p].gvp /\ s = st[p].slot /\ n = IF s = RootSlot THEN None ELSE dir[s]
    OBVIOUS
  <1>2. PICK x : x = [NoFile EXCEPT !.use = vn[v].use + 1, !.bad = FALSE,
                                    !.lock = p, !.slot = s, !.ref = 1, !.name = n]
    OBVIOUS
  <1>3. /\ st[p].pc = "newvnode" /\ wchan[p] = None /\ cpu \in {p, None}
        /\ DegetReturns(p, v, [vn EXCEPT ![v] = x], {})
        /\ mntlist' = <<v>> \o Without(mntlist, v)
        /\ vfree' = vfree /\ numcache' = numcache /\ dir' = dir /\ held' = held /\ calls' = calls
    BY <1>1, <1>2 DEF NewVnode, At
  <1>4. PICK wrap \in IdWraps : nc' = cache_purge(v, wrap)
    BY <1>1 DEF NewVnode
  <1>5. st[p].gvp # None /\ Making(st[p]) /\ Getting(st[p])
    BY <1>0, <1>3 DEF Shape, Making, Getting, Working
  <1>6. /\ v \in Vnodes /\ vn[v] \in VnRec /\ Works(p, v)
    BY <1>1, <1>5, WorksOn
  <1>7. vn[v] = NoFile /\ vn[v].use = 0 /\ vn[v].lock = None
    <2>1. wchan[p] # VxChan(v)
      BY <1>3, <1>6, NoneApart
    <2> QED
      BY <1>1, <1>3, <1>6, <2>1 DEF Works, NoFile
  <1>8. /\ x \in VnRec /\ x.use = 1 /\ x.lock = p /\ x.slot = st[p].slot /\ x.ref = 1
        /\ ~x.bad /\ ~x.xlock /\ ~x.upd
    <2>1. s \in Places /\ n \in Names \cup {None} /\ vn[v].use + 1 \in Nat
      <3>1. s = RootSlot \/ s \in Slots
        BY <1>0, <1>1, <1>5 DEF Shape
      <3> QED
        BY <1>0, <1>1, <1>7, <3>1 DEF Places, Types
    <2>2. NoFile \in VnRec
      BY <1>6, <1>7
    <2>3. x \in VnRec
      BY <1>2, <2>1, <2>2, ZenonT(60) DEF VnRec
    <2> QED
      BY <1>1, <1>2, <1>7, <2>3 DEF NoFile
  <1>9. mntlist' \in Seq(Vnodes)
    BY <1>0, <1>3, <1>6, WithoutType, ConsPlaces DEF Types
  <1>10. Gets(p, v, x)
    BY <1>0, <1>1, <1>3, <1>6, <1>7, <1>8, <1>9 DEF Gets, Types
  <1>11. Got(p, v, x)
    BY <1>10, AllGot
  <1>12. PICK r :
    /\ Ran(p) /\ GoesOn(p, r) /\ ~Making(r) /\ st'[p] = r /\ vn'[v] = x /\ Fine(p, v)
    /\ \A q \in Procs : wchan[q] = VxChan(v) => wchan'[q] = wchan[q]
    /\ \A w \in Vnodes : w # v => /\ Same(p, r, w) \/ (Mild(p, w) /\ Fine(p, w))
                                  /\ vn'[w].use = vn[w].use
    BY <1>11 DEF Got
  <1>13. Changed(p, v)
    BY <1>1, <1>3, <1>7, <1>8, <1>12 DEF Changed, Made
  <1>14. Others(p)
    BY <1>0, <1>12 DEF Others, Ran, GoesOn, Types
  <1>15. FreeOK'
    <2>1. Once(vfree') /\ ~InSeq(v, vfree')
      BY <1>1, <1>3, <1>5, <1>6 DEF Core, FreeOK, Taken, Making
    <2>2. \A w \in Vnodes : w # v => (Taken(w)' <=> Taken(w))
      BY <1>1, <1>12, <1>14, TakenStep
    <2>3. vn'[v].use # 0
      BY <1>8, <1>12
    <2>4. \A w \in Vnodes : InSeq(w, vfree') <=> vn'[w].use = 0 /\ ~Taken(w)'
      BY <1>3, <1>12, <2>1, <2>2, <2>3 DEF Core, FreeOK
    <2> QED
      BY <2>1, <2>4 DEF FreeOK
  <1>16. \A w \in Vnodes : Same(p, r, w) \/ (Changed(p, w) /\ Fine(p, w))
    BY <1>12, <1>13 DEF Changed
  <1>17. \A w \in Vnodes : w # v => Mild(p, w)
    BY <1>12, SameFine
  <1>18. nc' \in Seq(Entry) /\ Len(nc') = Len(nc) /\ CacheOK'
    <2>1. /\ nc' \in Seq(Entry) /\ Len(nc') = Len(nc) /\ DOMAIN nc' = DOMAIN nc
          /\ \A i \in DOMAIN nc : nc'[i].vp = nc[i].vp /\ (Valid(nc'[i]) => Valid(nc[i]) /\ nc[i].vp # v)
      BY <1>4, <1>6, Purged
    <2>2. ASSUME NEW i \in DOMAIN nc', Valid(nc'[i])
          PROVE  ~vn'[nc'[i].vp].bad /\ vn'[nc'[i].vp].slot \in Slots
      <3>1. Valid(nc[i]) /\ nc[i].vp # v /\ nc[i] \in Entry /\ i \in DOMAIN nc /\ nc'[i].vp = nc[i].vp
        BY <1>0, <2>1, <2>2 DEF Types
      <3>2. nc[i].vp \in Vnodes /\ ~vn[nc[i].vp].bad /\ vn[nc[i].vp].slot \in Slots
        BY <3>1 DEF Core, CacheOK, Entry, Valid, SomeVnode
      <3> QED
        BY <1>17, <3>1, <3>2 DEF Mild
    <2> QED
      BY <2>1, <2>2 DEF CacheOK
  <1> QED
    BY <1>12, <1>15, <1>16, <1>18, StepCore

-----------------------------------------------------------------------------
(* VOP_INACTIVE.                                                           *)
GoneTo(r, clean) == [r EXCEPT !.pc = IF clean THEN "vgone" ELSE "rele",
                              !.gret = IF clean THEN "rele" ELSE None,
                              !.gvp = IF clean THEN @ ELSE None]

LEMMA GoneShape ==
    ASSUME Core, NEW p \in Procs, NEW clean \in BOOLEAN, Gone(p, clean), held' = held, cpu' = p,
           st[p].pc \in {"inactive"} \cup Inactive
    PROVE  LET r == GoneTo(st[p], clean) IN
           /\ GoesOn(p, r) /\ r.dvp = st[p].dvp /\ r.vp = st[p].vp
           /\ r.pc = (IF clean THEN "vgone" ELSE "rele")
           /\ r.gvp = IF clean THEN st[p].gvp ELSE None
           /\ ~InDir(r) /\ ~Unlinks(r) /\ ~Making(r) /\ ~Making(st[p])
           /\ HasLeaf(r) => HasLeaf(st[p])
  <1>0. Types /\ Own(p) /\ Shape(st[p]) /\ st[p] \in StRec
    BY DEF Core, ProcOK, Types, Own
  <1>1. PICK l, g, w : /\ l = IF clean THEN "vgone" ELSE "rele"
                       /\ g = IF clean THEN "rele" ELSE None
                       /\ w = IF clean THEN st[p].gvp ELSE None
    OBVIOUS
  <1>2. PICK r : r = [st[p] EXCEPT !.pc = l, !.gret = g, !.gvp = w]
    OBVIOUS
  <1>3. r = GoneTo(st[p], clean)
    BY <1>0, <1>1, <1>2 DEF GoneTo, StRec
  <1>4. /\ r.pc = l /\ r.call = st[p].call /\ r.name = st[p].name /\ r.slot = st[p].slot
        /\ r.dvp = st[p].dvp /\ r.vp = st[p].vp /\ r.ret = st[p].ret /\ r.gvp = w
        /\ r.gret = g /\ r.rel = st[p].rel /\ r.keep = st[p].keep
    BY <1>0, <1>2 DEF StRec
  <1>5. r \in StRec
    <2>1. l \in PCs /\ g \in {"newvnode", "rele", None} /\ w \in SomeVnode
      BY <1>0, <1>1 DEF PCs, SomeVnode, StRec
    <2> QED
      BY <1>0, <1>2, <2>1, ZenonT(60) DEF StRec
  <1>6. /\ st[p].gret = None /\ st[p].gvp # None /\ Letting(st[p]) /\ ~Making(st[p])
        /\ Letting(r) /\ ~Making(r) /\ ~Getting(r) /\ Leaves(st[p])
    BY <1>0, <1>1, <1>4, NoneApart DEF Shape, Letting, Making, Getting, Working, Cleaning, Inactive
  <1>7. Leaves(r)
    BY <1>4, <1>6 DEF Leaves
  <1>8. Shape(r)
    BY <1>0, <1>1, <1>4, <1>6, <1>7, NoneApart DEF Shape, Working, Cleaning, Inactive
  <1>9. st' = [st EXCEPT ![p] = r]
    BY <1>0, <1>1, <1>2 DEF Types, Gone
  <1>10. ~HasBuf(r) /\ ~HasRoot(r) /\ ~InDir(r) /\ ~Unlinks(r) /\ (HasLeaf(r) => HasLeaf(st[p]))
    BY <1>1, <1>4, <1>6 DEF HasBuf, HasRoot, InDir, Unlinks, HasLeaf
  <1>11. GoesOn(p, r)
    BY <1>0, <1>1, <1>4, <1>5, <1>6, <1>8, <1>9, <1>10 DEF GoesOn, Own
  <1> QED
    BY <1>1, <1>3, <1>4, <1>6, <1>10, <1>11

LEMMA msdosfs_inactiveCore ==
    ASSUME Core, NEW p \in Procs, msdosfs_inactive(p), UNCHANGED calls
    PROVE  Core'
  <1>0. Types /\ Own(p) /\ Shape(st[p]) /\ st[p] \in StRec
    BY DEF Core, ProcOK, Types, Own
  <1>1. PICK v : v = st[p].gvp
    OBVIOUS
  <1>2. /\ st[p].pc = "inactive" /\ wchan[p] = None /\ cpu \in {p, None}
        /\ vfree' = vfree /\ mntlist' = mntlist /\ nc' = nc /\ numcache' = numcache /\ dir' = dir
        /\ bp' = bp /\ cov' = cov /\ held' = held /\ calls' = calls
    BY ZenonT(60) DEF msdosfs_inactive, At, fs
  <1>3. /\ st[p].gvp # None /\ st[p].gret = None /\ Letting(st[p]) /\ ~Making(st[p])
        /\ ~Getting(st[p]) /\ Leaves(st[p])
    BY <1>0, <1>2, NoneApart DEF Shape, Letting, Making, Getting, Working, Cleaning, Inactive
  <1>4. /\ v \in Vnodes /\ vn[v] \in VnRec /\ Works(p, v) /\ Refers(p, v) /\ VnodeOK(v)
        /\ vn[v].use = 0 /\ ~vn[v].bad /\ ~vn[v].xlock /\ vn[v].lock = None /\ vn[v] # NoFile
        /\ st[p].dvp # v /\ st[p].vp # v /\ held[p] # v
    <2>1. /\ v \in Vnodes /\ vn[v] \in VnRec /\ Works(p, v) /\ Refers(p, v) /\ VnodeOK(v)
          /\ vn[v].use = 0 => st[p].dvp # v /\ st[p].vp # v /\ held[p] # v
      BY <1>1, <1>3, WorksOn
    <2>2. vn[v].use = 0 /\ ~vn[v].bad /\ ~vn[v].xlock /\ vn[v].lock = None
      BY <1>1, <1>2, <2>1 DEF Works
    <2> QED
      BY <2>1, <2>2 DEF NoFile
  <1>5. ASSUME NEW clean \in BOOLEAN, Gone(p, clean), vn' = vn, cpu' = p, wchan' = wchan
        PROVE  Core'
    <2>1. PICK r : r = GoneTo(st[p], clean)
      OBVIOUS
    <2>2. /\ GoesOn(p, r) /\ r.dvp = st[p].dvp /\ r.vp = st[p].vp
          /\ r.pc = (IF clean THEN "vgone" ELSE "rele")
          /\ r.gvp = IF clean THEN st[p].gvp ELSE None
          /\ ~InDir(r) /\ ~Unlinks(r) /\ ~Making(r) /\ ~Making(st[p])
          /\ HasLeaf(r) => HasLeaf(st[p])
      BY <1>2, <1>5, <2>1, GoneShape
    <2>3. Ran(p)
      BY <1>0, <1>2, <1>5, NoneApart DEF Ran, Types
    <2>4. st'[p] = r /\ Others(p)
      BY <1>0, <2>2, <2>3 DEF Others, Ran, GoesOn, Types
    <2>5. FreeOK'
      BY <1>2, <1>5, <2>2, <2>4, FreeKept
    <2>6. Mild(p, v)
      BY <1>4, <1>5 DEF Mild
    <2>7. Fine(p, v)
      <3>1. Begins(p, v)
        BY <1>2, <1>4, <2>2, <2>4 DEF Begins, Cleaning, Inactive
      <3>2. VnodeOK(v)' /\ Sleeps(p, v)'
        BY <1>2, <1>4, <1>5, NoneApart DEF VnodeOK, Sleeps
      <3>3. Refers(p, v)'
        BY <1>2, <1>4, <1>5, <2>2, <2>4, NoneApart DEF Refers
      <3>4. Works(p, v)'
        BY <1>4, <1>5, <2>2, <2>4 DEF Works, Cleaning, Inactive
      <3>5. Counted(p, v)
        BY <1>2, <1>4, <1>5, <2>2, <2>4, CountedSame
      <3> QED
        BY <3>1, <3>2, <3>3, <3>4, <3>5 DEF Fine, Pair
    <2>8. ASSUME NEW w \in Vnodes, w # v
          PROVE  Same(p, r, w)
      <3>1. w # None /\ wchan'[p] # DeChan(w) /\ wchan'[p] # VxChan(w)
        BY <1>2, <1>5, NoneApart
      <3> QED
        BY <1>1, <1>2, <1>5, <2>2, <2>8, <3>1 DEF Same
    <2> QED
      BY <1>2, <2>2, <2>3, <2>5, <2>6, <2>7, <2>8, MildStep
  <1>6. ASSUME NEW l \in {"detrunc", "deupdat"}, st' = [st EXCEPT ![p].pc = l], vn[v].slot \in Slots,
               vn' = [vn EXCEPT ![v].lock = p], cpu' \in {p, None}, wchan' = wchan
        PROVE  Core'
    <2>1. PICK r : r = [st[p] EXCEPT !.pc = l]
      OBVIOUS
    <2>2. /\ r.pc = l /\ r.call = st[p].call /\ r.name = st[p].name /\ r.slot = st[p].slot
          /\ r.dvp = st[p].dvp /\ r.vp = st[p].vp /\ r.ret = st[p].ret /\ r.gvp = st[p].gvp
          /\ r.gret = st[p].gret /\ r.rel = st[p].rel /\ r.keep = st[p].keep
      BY <1>0, <2>1 DEF StRec
    <2>3. r \in StRec
      <3>1. l \in PCs
        BY <1>6 DEF PCs
      <3> QED
        BY <1>0, <2>1, <3>1, ZenonT(60) DEF StRec
    <2>4. ~Making(r) /\ ~Getting(r) /\ Letting(r) /\ Leaves(r)
      BY <1>3, <1>6, <2>2, NoneApart DEF Making, Getting, Letting, Leaves
    <2>5. Shape(r)
      BY <1>0, <1>3, <1>6, <2>2, <2>4, NoneApart DEF Shape, Working, Cleaning, Inactive
    <2>6. st' = [st EXCEPT ![p] = r] /\ st'[p] = r
      BY <1>0, <1>6, <2>1 DEF Types
    <2>7. GoesOn(p, r)
      BY <1>0, <1>2, <1>6, <2>2, <2>3, <2>4, <2>5, <2>6 DEF GoesOn, Own, HasBuf, HasRoot
    <2>8. /\ vn' \in [Vnodes -> VnRec] /\ vn'[v] = [vn[v] EXCEPT !.lock = p]
          /\ \A w \in Vnodes : w # v => vn'[w] = vn[w]
      <3>1. [vn[v] EXCEPT !.lock = p] \in VnRec
        BY <1>4, VnTypes
      <3> QED
        BY <1>0, <1>4, <1>6, <3>1 DEF Types
    <2>9. /\ vn'[v].use = vn[v].use /\ vn'[v].bad = vn[v].bad /\ vn'[v].lock = p
          /\ vn'[v].slot = vn[v].slot /\ vn'[v].ref = vn[v].ref /\ vn'[v].xlock = vn[v].xlock
          /\ vn'[v].upd = vn[v].upd /\ vn'[v].xwant = vn[v].xwant /\ vn'[v].want = vn[v].want
      BY <1>4, <2>8 DEF VnRec
    <2>10. Ran(p)
      BY <1>0, <1>2, <1>6, <2>8, NoneApart DEF Ran, Types
    <2>11. Others(p)
      BY <2>6, <2>10 DEF Others, Ran
    <2>12. FreeOK'
      <3>1. \A w \in Vnodes : vn'[w].use = vn[w].use
        BY <2>8, <2>9
      <3> QED
        BY <1>2, <1>3, <2>4, <2>6, <2>11, <3>1, FreeKept
    <2>13. Mild(p, v)
      BY <1>4, <1>6, <2>9 DEF Mild
    <2>14. Fine(p, v)
      <3>1. Begins(p, v)
        BY <1>2, <1>4, <1>6, <2>2, <2>4, <2>6 DEF Begins, Cleaning
      <3>2. VnodeOK(v)' /\ Sleeps(p, v)'
        BY <1>2, <1>4, <1>6, <2>9, NoneApart DEF VnodeOK, Sleeps
      <3>3. Refers(p, v)'
        BY <1>1, <1>2, <1>4, <1>6, <2>2, <2>6, <2>9 DEF Refers, MayLock, Inactive
      <3>4. Works(p, v)'
        BY <1>2, <1>4, <1>6, <2>2, <2>6, <2>9 DEF Works, Cleaning, Inactive
      <3>5. Counted(p, v)
        BY <1>2, <1>4, <2>2, <2>6, <2>9, CountedSame
      <3> QED
        BY <3>1, <3>2, <3>3, <3>4, <3>5 DEF Fine, Pair
    <2>15. ASSUME NEW w \in Vnodes, w # v
           PROVE  Same(p, r, w)
      <3>1. w # None /\ wchan'[p] # DeChan(w) /\ wchan'[p] # VxChan(w)
        BY <1>2, <1>6, NoneApart
      <3>2. ~InDir(r) /\ ~Unlinks(r) /\ (HasLeaf(r) => HasLeaf(st[p]))
        BY <1>6, <2>2, <2>4 DEF InDir, Unlinks, HasLeaf
      <3> QED
        BY <1>1, <1>2, <1>6, <2>2, <2>8, <2>15, <3>1, <3>2 DEF Same
    <2> QED
      BY <1>2, <2>7, <2>10, <2>12, <2>13, <2>14, <2>15, MildStep
  <1>7. vn[v].ref = 0 \/ vn[v].upd => vn[v].slot \in Slots
    BY <1>4 DEF VnodeOK
  <1>8. \/ /\ Gone(p, ~vn[v].xlock) /\ Run(p) /\ vn' = vn
        \/ /\ vn[v].ref = 0 /\ vn' = [vn EXCEPT ![v].lock = p] /\ Goto(p, "detrunc") /\ Yield(p)
        \/ /\ vn[v].upd /\ vn' = [vn EXCEPT ![v].lock = p] /\ Goto(p, "deupdat") /\ Run(p)
        \/ /\ Gone(p, FALSE) /\ Run(p) /\ vn' = vn
    BY <1>1, <1>4 DEF msdosfs_inactive
  <1>9. CASE Gone(p, ~vn[v].xlock) /\ Run(p) /\ vn' = vn
    BY <1>4, <1>5, <1>9 DEF Run
  <1>10. CASE vn[v].ref = 0 /\ vn' = [vn EXCEPT ![v].lock = p] /\ Goto(p, "detrunc") /\ Yield(p)
    BY <1>6, <1>7, <1>10 DEF Goto, Yield
  <1>11. CASE vn[v].upd /\ vn' = [vn EXCEPT ![v].lock = p] /\ Goto(p, "deupdat") /\ Run(p)
    BY <1>6, <1>7, <1>11 DEF Goto, Run
  <1>12. CASE Gone(p, FALSE) /\ Run(p) /\ vn' = vn
    BY <1>5, <1>12 DEF Run
  <1> QED
    BY <1>8, <1>9, <1>10, <1>11, <1>12

(* The denode is unlocked and p goes on, to clean the vnode out or not.    *)
Ends(p, v, x, clean) ==
    /\ v = st[p].gvp /\ st[p].pc \in Inactive /\ wchan[p] = None /\ cpu \in {p, None} /\ cpu' = p
    /\ x \in VnRec /\ x.use = vn[v].use /\ x.xlock = vn[v].xlock /\ x.xwant = vn[v].xwant
    /\ x.bad = vn[v].bad /\ x.lock = None /\ x.slot = vn[v].slot /\ x.ref = vn[v].ref
    /\ vn' = [vn EXCEPT ![v] = x]
    /\ wchan' = [q \in Procs |-> IF wchan[q] \in Waiters(vn[v], v) THEN None ELSE wchan[q]]
    /\ Gone(p, clean) /\ (clean => vn[v].use = 0)
    /\ vfree' = vfree /\ mntlist' = mntlist /\ nc' = nc /\ numcache' = numcache
    /\ dir' \in [Slots -> Names \cup {None}] /\ (bp' = bp \/ (bp = p /\ bp' = None))
    /\ cov' = cov /\ held' = held /\ calls' = calls

LEMMA InactiveEnds ==
    ASSUME Core, NEW p \in Procs, NEW v, NEW x, NEW clean \in BOOLEAN, Ends(p, v, x, clean)
    PROVE  Core'
  <1> USE DEF Ends
  <1>0. Types /\ Own(p) /\ Shape(st[p]) /\ st[p] \in StRec
    BY DEF Core, ProcOK, Types, Own
  <1>1. /\ v \in Vnodes /\ vn[v] \in VnRec /\ Works(p, v) /\ Refers(p, v) /\ VnodeOK(v)
        /\ vn[v].lock = p /\ vn[v].slot \in Slots /\ st[p].vp # v /\ held[p] # v
        /\ ~vn[v].bad /\ vn[v] # NoFile /\ st[p].dvp # v
    <2>1. st[p].gvp # None
      BY <1>0 DEF Shape, Working
    <2>2. v \in Vnodes /\ vn[v] \in VnRec /\ Works(p, v) /\ Refers(p, v) /\ VnodeOK(v)
      BY <2>1, WorksOn
    <2>3. vn[v].lock = p /\ vn[v].slot \in Slots /\ st[p].vp # v /\ held[p] # v
      BY <2>2 DEF Works
    <2>4. ~vn[v].bad /\ vn[v] # NoFile
      BY <2>2, <2>3, NoneApart DEF VnodeOK, NoFile
    <2>5. st[p].dvp # v
      BY <2>2, <2>3, RootApart DEF Refers
    <2> QED
      BY <2>2, <2>3, <2>4, <2>5
  <1>2. PICK r : r = GoneTo(st[p], clean)
    OBVIOUS
  <1>3. /\ GoesOn(p, r) /\ r.dvp = st[p].dvp /\ r.vp = st[p].vp
        /\ r.pc = (IF clean THEN "vgone" ELSE "rele")
        /\ r.gvp = IF clean THEN st[p].gvp ELSE None
        /\ ~InDir(r) /\ ~Unlinks(r) /\ ~Making(r) /\ ~Making(st[p])
        /\ HasLeaf(r) => HasLeaf(st[p])
    BY <1>2, GoneShape
  <1>4. /\ vn' \in [Vnodes -> VnRec] /\ vn'[v] = x
        /\ \A w \in Vnodes : w # v => vn'[w] = vn[w]
    BY <1>0, <1>1 DEF Types
  <1>5. /\ wchan' \in [Procs -> Chans \cup {None}] /\ wchan'[p] = None
        /\ \A q \in Procs : wchan'[q] \in {wchan[q], None}
        /\ \A q \in Procs, w \in Vnodes : wchan[q] = VxChan(w) => wchan'[q] = wchan[q]
    <2>1. PICK C : C = Waiters(vn[v], v)
      OBVIOUS
    <2>2. \A w \in Vnodes : VxChan(w) \in Chans /\ VxChan(w) \notin C
      BY <2>1, ChansOf, ChansApart DEF Waiters
    <2>3. /\ wchan' = [q \in Procs |-> IF wchan[q] \in C THEN None ELSE wchan[q]]
          /\ wchan[p] = None
      BY <2>1
    <2> HIDE DEF Ends
    <2> QED
      BY <2>2, <2>3, Woken
  <1>6. \A q \in Procs : wchan'[q] # DeChan(v)
    BY <1>1, UnlockWakes
  <1>7. Ran(p)
    BY <1>0, <1>4, <1>5, NoneApart DEF Ran, Types
  <1>8. st'[p] = r /\ Others(p)
    BY <1>0, <1>3, <1>7 DEF Others, Ran, GoesOn, Types
  <1>9. FreeOK'
    <2>1. \A w \in Vnodes : vn'[w].use = vn[w].use
      BY <1>4
    <2> QED
      BY <1>3, <1>8, <2>1, FreeKept
  <1>10. Mild(p, v)
    BY <1>1, <1>4, <1>5, <1>6 DEF Mild
  <1>11. Fine(p, v)
    <2>1. Begins(p, v)
      BY <1>1, <1>3, <1>8 DEF Begins, Cleaning, Inactive
    <2>2. VnodeOK(v)' /\ Sleeps(p, v)'
      BY <1>1, <1>4, <1>5, NoneApart, RootApart DEF VnodeOK, Sleeps
    <2>3. Refers(p, v)'
      BY <1>1, <1>3, <1>4, <1>8, NoneApart DEF Refers
    <2>4. Works(p, v)'
      BY <1>1, <1>3, <1>4, <1>8 DEF Works, Cleaning, Inactive
    <2>5. Counted(p, v)
      BY <1>1, <1>3, <1>4, <1>8, CountedSame
    <2> QED
      BY <2>1, <2>2, <2>3, <2>4, <2>5 DEF Fine, Pair
  <1>12. ASSUME NEW w \in Vnodes, w # v
         PROVE  Same(p, r, w)
    <2>1. w # None /\ wchan'[p] # DeChan(w) /\ wchan'[p] # VxChan(w)
      BY <1>5, NoneApart
    <2>2. st[p].pc # "clock"
      BY DEF Inactive
    <2> QED
      BY <1>3, <1>4, <1>5, <1>12, <2>1, <2>2 DEF Same
  <1> QED
    BY <1>3, <1>7, <1>9, <1>10, <1>11, <1>12, MildStep

LEMMA TruncatedCore ==
    ASSUME Core, NEW p \in Procs, Truncated(p), UNCHANGED calls
    PROVE  Core'
  <1>0. Types /\ Shape(st[p]) /\ st[p] \in StRec
    BY DEF Core, ProcOK, Types, Own
  <1>1. PICK v : v = st[p].gvp
    OBVIOUS
  <1>2. PICK x : x = [Unlocked(vn[v]) EXCEPT !.del = TRUE, !.upd = FALSE]
    OBVIOUS
  <1>3. /\ st[p].pc = "detrunc" /\ wchan[p] = None /\ cpu \in {p, None} /\ cpu' = p
        /\ vn' = [vn EXCEPT ![v] = [Unlocked(@) EXCEPT !.del = TRUE, !.upd = FALSE]]
        /\ wchan' = [q \in Procs |-> IF wchan[q] \in Waiters(vn[v], v) THEN None ELSE wchan[q]]
        /\ Gone(p, vn[v].use = 0)
        /\ vfree' = vfree /\ mntlist' = mntlist /\ nc' = nc /\ numcache' = numcache /\ dir' = dir
        /\ bp' = bp /\ cov' = cov /\ held' = held /\ calls' = calls
    BY <1>1, ZenonT(60) DEF Truncated, At, Wakeup, fs
  <1>4. v \in Vnodes /\ vn[v] \in VnRec /\ st[p].pc \in Inactive
    BY <1>0, <1>1, <1>3, WorksOn DEF Shape, Working, Inactive
  <1>5. x \in VnRec
    <2>1. Unlocked(vn[v]) \in VnRec
      BY <1>4, VnTypes, NoneApart
    <2> QED
      BY <1>2, <2>1, ZenonT(60) DEF VnRec
  <1>6. /\ x.use = vn[v].use /\ x.xlock = vn[v].xlock /\ x.xwant = vn[v].xwant /\ x.bad = vn[v].bad
        /\ x.lock = None /\ x.slot = vn[v].slot /\ x.ref = vn[v].ref
    BY <1>2, <1>4 DEF VnRec, Unlocked
  <1>7. vn' = [vn EXCEPT ![v] = x]
    BY <1>0, <1>2, <1>3, <1>4 DEF Types
  <1>8. dir' \in [Slots -> Names \cup {None}]
    BY <1>0, <1>3 DEF Types
  <1>9. (vn[v].use = 0) \in BOOLEAN
    OBVIOUS
  <1>10. Ends(p, v, x, vn[v].use = 0)
    BY <1>1, <1>3, <1>4, <1>5, <1>6, <1>7, <1>8 DEF Ends
  <1> QED
    BY <1>9, <1>10, InactiveEnds

LEMMA UpdatedCore ==
    ASSUME Core, NEW p \in Procs, Updated(p), UNCHANGED calls
    PROVE  Core'
  <1>0. Types /\ Own(p) /\ Shape(st[p]) /\ st[p] \in StRec
    BY DEF Core, ProcOK, Types, Own
  <1>1. PICK v : v = st[p].gvp
    OBVIOUS
  <1>2. PICK x : x = [Unlocked(vn[v]) EXCEPT !.upd = FALSE]
    OBVIOUS
  <1>3. /\ st[p].pc = "updated" /\ wchan[p] = None /\ cpu \in {p, None} /\ cpu' = p
        /\ vn' = [vn EXCEPT ![v] = [Unlocked(@) EXCEPT !.upd = FALSE]]
        /\ dir' = [dir EXCEPT ![vn[v].slot] = vn[v].name]
        /\ wchan' = [q \in Procs |-> IF wchan[q] \in Waiters(vn[v], v) THEN None ELSE wchan[q]]
        /\ Gone(p, FALSE) /\ bp' = None
        /\ vfree' = vfree /\ mntlist' = mntlist /\ nc' = nc /\ numcache' = numcache
        /\ cov' = cov /\ held' = held /\ calls' = calls
    BY <1>1, ZenonT(60) DEF Updated, At, Wakeup, fs
  <1>4. v \in Vnodes /\ vn[v] \in VnRec /\ st[p].pc \in Inactive /\ bp = p
    BY <1>0, <1>1, <1>3, WorksOn DEF Shape, Working, Inactive, Own, HasBuf
  <1>5. x \in VnRec
    <2>1. Unlocked(vn[v]) \in VnRec
      BY <1>4, VnTypes, NoneApart
    <2> QED
      BY <1>2, <2>1, VnTypes
  <1>6. /\ x.use = vn[v].use /\ x.xlock = vn[v].xlock /\ x.xwant = vn[v].xwant /\ x.bad = vn[v].bad
        /\ x.lock = None /\ x.slot = vn[v].slot /\ x.ref = vn[v].ref
    BY <1>2, <1>4 DEF VnRec, Unlocked
  <1>7. vn' = [vn EXCEPT ![v] = x]
    BY <1>0, <1>2, <1>3, <1>4 DEF Types
  <1>8. dir' \in [Slots -> Names \cup {None}]
    <2>1. vn[v].name \in Names \cup {None}
      BY <1>4 DEF VnRec
    <2> QED
      BY <1>0, <1>3, <2>1 DEF Types
  <1>9. Ends(p, v, x, FALSE)
    BY <1>1, <1>3, <1>4, <1>5, <1>6, <1>7, <1>8 DEF Ends
  <1> QED
    BY <1>9, InactiveEnds

LEMMA removedeCore ==
    ASSUME Core, NEW p \in Procs, removede(p), UNCHANGED calls
    PROVE  Core'
  <1>0. Types /\ Own(p) /\ Shape(st[p]) /\ st[p] \in StRec
    BY DEF Core, ProcOK, Types, Own
  <1>1. PICK d, v : d = st[p].dvp /\ v = st[p].vp
    OBVIOUS
  <1>2. /\ st[p].pc = "removede" /\ wchan[p] = None /\ cpu \in {p, None} /\ cpu' = p
        /\ vn' = [vn EXCEPT ![v].ref = @ - 1] /\ wchan' = wchan /\ bp' = None
        /\ st' = [st EXCEPT ![p] = Releasing(@, <<@.vp, @.dvp>>, FALSE)]
        /\ vfree' = vfree /\ mntlist' = mntlist /\ nc' = nc /\ numcache' = numcache /\ dir' = dir
        /\ cov' = cov /\ held' = held /\ calls' = calls
    BY <1>1, ZenonT(60) DEF removede, At, Run, fs
  <1>3. /\ st[p].gvp = None /\ st[p].vp # None /\ st[p].dvp # None /\ ~Making(st[p])
        /\ HasLeaf(st[p]) /\ Unlinks(st[p]) /\ bp = p
    BY <1>0, <1>2, NoneApart DEF Shape, Making, Working, Cleaning, Inactive, HasLeaf, Unlinks, Own, HasBuf
  <1>4. /\ v \in Vnodes /\ ~vn[v].bad /\ ~vn[v].xlock /\ vn[v].slot \in Slots /\ vn[v].use > 0
        /\ vn[v] \in VnRec /\ vn[v] # NoFile /\ vn[v].lock = p /\ vn[v].ref = 1
        /\ d \in Vnodes /\ d # v /\ VnodeOK(v)
    BY <1>1, <1>3, HasFileLeaf, HasDir DEF Core
  <1>5. PICK r : r = Releasing(st[p], <<v, d>>, FALSE)
    OBVIOUS
  <1>6. /\ r \in StRec /\ r.pc = "rele" /\ r.call = None /\ r.dvp = st[p].dvp /\ r.vp = st[p].vp
        /\ r.gvp = None /\ r.gret = None /\ r.rel = <<v, d>> /\ r.keep = FALSE
    <2>1. <<v, d>> \in Seq(Vnodes)
      BY <1>4
    <2> QED
      BY <1>0, <1>5, <2>1, ReleasingType
  <1>7. ~Making(r) /\ ~Getting(r) /\ Letting(r) /\ Leaves(r)
    BY <1>1, <1>3, <1>6, NoneApart DEF Making, Getting, Letting, Leaves
  <1>8. Shape(r)
    BY <1>3, <1>6, <1>7, NoneApart DEF Shape, Working, Cleaning, Inactive
  <1>9. st' = [st EXCEPT ![p] = r] /\ st'[p] = r
    BY <1>0, <1>1, <1>2, <1>5 DEF Types
  <1>10. /\ ~HasBuf(r) /\ ~HasRoot(r) /\ ~InDir(r) /\ ~Unlinks(r) /\ ~HasLeaf(r)
    BY <1>6, <1>7 DEF HasBuf, HasRoot, InDir, Unlinks, HasLeaf
  <1>11. GoesOn(p, r)
    BY <1>6, <1>7, <1>8, <1>9, <1>10, NoneApart DEF GoesOn
  <1>12. /\ vn' \in [Vnodes -> VnRec] /\ vn'[v] = [vn[v] EXCEPT !.ref = 0]
         /\ \A w \in Vnodes : w # v => vn'[w] = vn[w]
    <2>1. [vn[v] EXCEPT !.ref = 0] \in VnRec
      BY <1>4, ZenonT(60) DEF VnRec
    <2>2. vn' = [vn EXCEPT ![v] = [vn[v] EXCEPT !.ref = vn[v].ref - 1]] /\ vn[v].ref - 1 = 0
      BY <1>0, <1>2, <1>4 DEF Types
    <2> QED
      BY <1>0, <1>4, <2>1, <2>2 DEF Types
  <1>13. /\ vn'[v].use = vn[v].use /\ vn'[v].bad = vn[v].bad /\ vn'[v].lock = p
         /\ vn'[v].slot = vn[v].slot /\ vn'[v].ref = 0 /\ vn'[v].xlock = vn[v].xlock
         /\ vn'[v].upd = vn[v].upd /\ vn'[v].xwant = vn[v].xwant /\ vn'[v].want = vn[v].want
    BY <1>4, <1>12 DEF VnRec
  <1>14. Ran(p)
    BY <1>0, <1>2, <1>3, <1>12, NoneApart DEF Ran, Types
  <1>15. Others(p)
    BY <1>9, <1>14 DEF Others, Ran
  <1>16. FreeOK'
    <2>1. \A w \in Vnodes : vn'[w].use = vn[w].use
      BY <1>12, <1>13
    <2> QED
      BY <1>2, <1>3, <1>7, <1>9, <1>15, <2>1, FreeKept
  <1>17. Mild(p, v)
    BY <1>2, <1>4, <1>13 DEF Mild
  <1>18. Fine(p, v)
    <2>1. Begins(p, v)
      BY <1>1, <1>2, <1>4, <1>6, <1>7, <1>9, NoneApart DEF Begins
    <2>2. VnodeOK(v)' /\ Sleeps(p, v)'
      BY <1>2, <1>4, <1>13, NoneApart, RootApart DEF VnodeOK, Sleeps
    <2>3. Refers(p, v)'
      BY <1>1, <1>2, <1>4, <1>6, <1>9, <1>10, <1>13 DEF Refers, MayLock
    <2>4. Works(p, v)'
      BY <1>4, <1>6, <1>9, NoneApart DEF Works
    <2>5. Counted(p, v)
      <3>1. /\ vn'[v].use = vn[v].use /\ st'[p].dvp = st[p].dvp /\ st'[p].vp = st[p].vp
            /\ held'[p] = held[p]
        BY <1>2, <1>6, <1>9, <1>13
      <3> QED
        BY <1>4, <3>1, CountedSame
    <2> QED
      BY <2>1, <2>2, <2>3, <2>4, <2>5 DEF Fine, Pair
  <1>19. ASSUME NEW w \in Vnodes, w # v
         PROVE  Same(p, r, w)
    <2>1. w # None /\ wchan'[p] # DeChan(w) /\ wchan'[p] # VxChan(w)
      BY <1>2, NoneApart
    <2> QED
      BY <1>1, <1>2, <1>3, <1>6, <1>10, <1>12, <1>19, <2>1 DEF Same
  <1> QED
    BY <1>2, <1>11, <1>14, <1>16, <1>17, <1>18, <1>19, MildStep

-----------------------------------------------------------------------------
(* References are given up, and change hands within a process.             *)
LEMMA CountedLess ==
    ASSUME Core, NEW p \in Procs, NEW v \in Vnodes, vn'[v].use = vn[v].use - 1,
           \/ /\ st[p].dvp = v /\ st'[p].dvp # v /\ (st'[p].vp = v <=> st[p].vp = v)
           \/ /\ st[p].vp = v /\ st'[p].vp # v /\ (st'[p].dvp = v <=> st[p].dvp = v),
           held'[p] = v <=> held[p] = v
    PROVE  Counted(p, v)
  <1>1. vn[v].use \in Nat
    BY DEF Core, Types, VnRec
  <1>2. /\ One(held'[p] = v) = One(held[p] = v)
        /\ \/ /\ One(st'[p].dvp = v) = 0 /\ One(st[p].dvp = v) = 1
              /\ One(st'[p].vp = v) = One(st[p].vp = v)
           \/ /\ One(st'[p].vp = v) = 0 /\ One(st[p].vp = v) = 1
              /\ One(st'[p].dvp = v) = One(st[p].dvp = v)
    BY DEF One
  <1>3. One(st[p].dvp = v) \in {0, 1} /\ One(st[p].vp = v) \in {0, 1} /\ One(held[p] = v) \in {0, 1}
    BY DEF One
  <1> QED
    BY <1>1, <1>2, <1>3 DEF Counted

LEMMA CountedMoved ==
    ASSUME Core, NEW p \in Procs, NEW v \in Vnodes, vn'[v].use = vn[v].use,
           \/ st[p].vp = v /\ st'[p].vp # v /\ held[p] # v /\ held'[p] = v
           \/ st[p].vp # v /\ st'[p].vp = v /\ held[p] = v /\ held'[p] # v,
           st'[p].dvp = v <=> st[p].dvp = v
    PROVE  Counted(p, v)
  <1>1. vn[v].use \in Nat
    BY DEF Core, Types, VnRec
  <1>2. /\ One(st'[p].dvp = v) = One(st[p].dvp = v)
        /\ \/ /\ One(st'[p].vp = v) = 0 /\ One(st[p].vp = v) = 1
              /\ One(held'[p] = v) = 1 /\ One(held[p] = v) = 0
           \/ /\ One(st'[p].vp = v) = 1 /\ One(st[p].vp = v) = 0
              /\ One(held'[p] = v) = 0 /\ One(held[p] = v) = 1
    BY DEF One
  <1>3. One(st[p].dvp = v) \in {0, 1}
    BY DEF One
  <1> QED
    BY <1>1, <1>2, <1>3 DEF Counted

(* Two processes that refer to a vnode are two references.                 *)
LEMMA TwoMembers ==
    ASSUME NEW X, X \subseteq Procs, NEW p \in Procs, NEW q \in Procs, p # q
    PROVE  /\ Cardinality(X) \in Nat
           /\ p \in X \/ q \in X => Cardinality(X) >= 1
           /\ p \in X /\ q \in X => Cardinality(X) >= 2
  <1>1. IsFiniteSet(X) /\ Cardinality(X) \in Nat
    BY NoneApart, FS_Subset, FS_CardinalityType
  <1>2. ASSUME p \in X \/ q \in X PROVE Cardinality(X) >= 1
    <2>1. Cardinality(X) # 0
      BY <1>1, <1>2, FS_EmptySet
    <2> QED
      BY <1>1, <2>1
  <1>3. ASSUME p \in X, q \in X PROVE Cardinality(X) >= 2
    <2>1. IsFiniteSet({p}) /\ Cardinality({p}) = 1
      BY FS_Singleton
    <2>2. IsFiniteSet({p} \cup {q}) /\ Cardinality({p} \cup {q}) = 2
      BY <2>1, FS_AddElement
    <2>3. Cardinality({p} \cup {q}) <= Cardinality(X)
      <3>1. ({p} \cup {q}) \in SUBSET X
        BY <1>3
      <3> QED
        BY <1>1, <3>1, FS_Subset
    <2> QED
      BY <1>1, <2>2, <2>3
  <1> QED
    BY <1>1, <1>2, <1>3

LEMMA SoleRef ==
    ASSUME Core, NEW p \in Procs, NEW v \in Vnodes, st[p].dvp = v \/ st[p].vp = v \/ held[p] = v,
           vn[v].use = 1, NEW q \in Procs, q # p
    PROVE  st[q].dvp # v /\ st[q].vp # v /\ held[q] # v
  <1> SUFFICES ASSUME st[q].dvp = v \/ st[q].vp = v \/ held[q] = v PROVE FALSE
    OBVIOUS
  <1>1. PICK D, L, H : /\ D = {x \in Procs : st[x].dvp = v} /\ L = {x \in Procs : st[x].vp = v}
                       /\ H = {x \in Procs : held[x] = v}
    OBVIOUS
  <1>2. D \subseteq Procs /\ L \subseteq Procs /\ H \subseteq Procs
    BY <1>1
  <1>3. Cardinality(D) + Cardinality(L) + Cardinality(H) = 1
    <2>1. vn[v].use = Refs(v)
      BY DEF Core, Counts
    <2> QED
      BY <1>1, <2>1 DEF Refs
  <1>4. (p \in D \/ p \in L \/ p \in H) /\ (q \in D \/ q \in L \/ q \in H)
    BY <1>1
  <1>5. /\ Cardinality(D) \in Nat
        /\ p \in D \/ q \in D => Cardinality(D) >= 1
        /\ p \in D /\ q \in D => Cardinality(D) >= 2
    BY <1>2, TwoMembers
  <1>6. /\ Cardinality(L) \in Nat
        /\ p \in L \/ q \in L => Cardinality(L) >= 1
        /\ p \in L /\ q \in L => Cardinality(L) >= 2
    BY <1>2, TwoMembers
  <1>7. /\ Cardinality(H) \in Nat
        /\ p \in H \/ q \in H => Cardinality(H) >= 1
        /\ p \in H /\ q \in H => Cardinality(H) >= 2
    BY <1>2, TwoMembers
  <1> HIDE DEF Core
  <1> QED
    BY <1>3, <1>4, <1>5, <1>6, <1>7

(* A vnode that getnewvnode has taken has no references.                   *)
LEMMA TakenUnused ==
    ASSUME Core, NEW v \in Vnodes, Taken(v)
    PROVE  vn[v].use = 0
  <1>1. PICK q \in Procs : st[q].gvp = v /\ Making(st[q])
    BY DEF Taken, Making
  <1>2. Shape(st[q]) /\ Works(q, v) /\ VnodeOK(v)
    BY DEF Core, ProcOK, Own, Pair
  <1>3. st[q].pc \in {"newvnode", "vgone"} \cup Cleaning
    BY <1>1, <1>2, NoneApart DEF Making, Shape
  <1> QED
    BY <1>1, <1>2, <1>3 DEF Works, VnodeOK, NoFile

(* Nobody else has the lock of a vnode when its last reference is given up *)
(* by a process that is done with it.                                      *)
LEMMA LastUnlocked ==
    ASSUME Core, NEW p \in Procs, st[p].pc = "rele", NEW v \in Vnodes,
           st[p].dvp = v \/ st[p].vp = v, vn[v].use = 1
    PROVE  vn[v].lock \in {p, None}
  <1> SUFFICES ASSUME vn[v].lock \notin {p, None} PROVE FALSE
    OBVIOUS
  <1>1. PICK q \in Procs : vn[v].lock = q /\ q # p
    <2>1. vn[v].lock \in Procs \cup {None}
      BY DEF Core, Types, VnRec
    <2> QED
      BY <2>1
  <1>2. st[q].dvp # v /\ st[q].vp # v
    BY <1>1, SoleRef
  <1>3. Refers(q, v) /\ Works(q, v) /\ Apart(p, q, v) /\ Refers(p, v) /\ ~vn[v].xlock
    BY <1>1, InUse DEF Core, Pair
  <1>4. st[q].gvp = v /\ st[q].pc \in Inactive \cup {"vinvalbuf"}
    BY <1>1, <1>2, <1>3 DEF Refers, MayLock
  <1>5. st[q].pc \in Inactive
    BY <1>3, <1>4 DEF Works, Cleaning
  <1> QED
    BY <1>3, <1>4, <1>5, RootApart DEF Apart, Works, Refers

LEMMA vreleCore ==
    ASSUME Core, NEW p \in Procs, vrele(p), UNCHANGED calls
    PROVE  Core'
  <1>0. Types /\ Own(p) /\ Shape(st[p]) /\ st[p] \in StRec
    BY DEF Core, ProcOK, Types, Own
  <1>1. PICK v : v = Head(st[p].rel)
    OBVIOUS
  <1> DEFINE mine == vn[v].lock = p
             last == vn[v].use = 1
  <1>2. PICK C : C = IF mine THEN Waiters(vn[v], v) ELSE {}
    OBVIOUS
  <1>3. /\ st[p].pc = "rele" /\ wchan[p] = None /\ cpu \in {p, None} /\ cpu' = p
        /\ st[p].rel # <<>>
        /\ vn' = [vn EXCEPT ![v] = Uncounted(IF mine THEN Unlocked(@) ELSE @)]
        /\ vfree' = IF last THEN Append(vfree, v) ELSE vfree
        /\ st' = [st EXCEPT ![p] = Drop(@, v, last)]
        /\ wchan' = [q \in Procs |-> IF wchan[q] \in C THEN None ELSE wchan[q]]
        /\ mntlist' = mntlist /\ nc' = nc /\ numcache' = numcache /\ dir' = dir
        /\ bp' = bp /\ cov' = cov /\ held' = held /\ calls' = calls
    BY <1>1, <1>2, ZenonT(60) DEF vrele, At, Wakeup, fs
  <1>4. /\ st[p].gvp = None /\ st[p].gret = None /\ Letting(st[p]) /\ ~Making(st[p])
        /\ Leaves(st[p])
    BY <1>0, <1>1, <1>3, NoneApart DEF Shape, Letting, Making, Working, Cleaning, Inactive
  <1>5. /\ st[p].rel \in Seq(Vnodes) /\ Tail(st[p].rel) \in Seq(Vnodes) /\ v \in Vnodes
        /\ v = st[p].dvp \/ v = st[p].vp
    <2>1. st[p].rel \in Seq(Vnodes)
      BY <1>0 DEF StRec
    <2>2. v \in Vnodes /\ Tail(st[p].rel) \in Seq(Vnodes)
      BY <2>1, <1>1, <1>3, HeadTailProperties
    <2> QED
      BY <1>1, <1>3, <1>4, <2>1, <2>2 DEF Leaves
  <1>6. /\ vn[v].use > 0 /\ ~vn[v].bad /\ ~vn[v].xlock /\ vn[v] # NoFile /\ vn[v] \in VnRec
        /\ VnodeOK(v) /\ Pair(p, v) /\ v # None
        /\ ~(st[p].dvp = v /\ st[p].vp = v)
    BY <1>0, <1>5, InUse, HasDir, NoneApart DEF Core, Types
  <1>7. last => vn[v].lock \in {p, None}
    BY <1>1, <1>3, <1>5, LastUnlocked
  <1>8. PICK l, g, d, f, t : /\ l = IF last THEN "inactive" ELSE "rele"
                             /\ g = IF last THEN v ELSE None
                             /\ d = IF st[p].dvp = v THEN None ELSE st[p].dvp
                             /\ f = IF st[p].vp = v THEN None ELSE st[p].vp
                             /\ t = Tail(st[p].rel)
    OBVIOUS
  <1>9. PICK r : r = [st[p] EXCEPT !.dvp = d, !.vp = f, !.pc = l, !.gvp = g, !.rel = t]
    OBVIOUS
  <1>10. /\ r.pc = l /\ r.call = st[p].call /\ r.name = st[p].name /\ r.slot = st[p].slot
         /\ r.dvp = d /\ r.vp = f /\ r.ret = st[p].ret /\ r.gvp = g
         /\ r.gret = st[p].gret /\ r.rel = t /\ r.keep = st[p].keep
    BY <1>0, <1>9 DEF StRec
  <1>11. r \in StRec
    <2>1. l \in PCs /\ g \in SomeVnode /\ d \in SomeVnode /\ f \in SomeVnode /\ t \in Seq(Vnodes)
      BY <1>0, <1>4, <1>5, <1>8 DEF PCs, SomeVnode, StRec
    <2> QED
      BY <1>0, <1>9, <2>1, ZenonT(60) DEF StRec
  <1>12. st' = [st EXCEPT ![p] = r] /\ st'[p] = r
    <2>1. Drop(st[p], v, last) = r
      BY <1>0, <1>8, <1>9 DEF Drop, StRec
    <2> QED
      BY <1>0, <1>3, <2>1 DEF Types
  <1>13. ~Making(r) /\ ~Getting(r) /\ Letting(r)
    BY <1>4, <1>8, <1>10, NoneApart DEF Making, Getting, Letting
  <1>14. Leaves(r)
    <2>1. CASE st[p].dvp # None /\ st[p].rel = <<st[p].dvp>> /\ (st[p].vp # None <=> st[p].keep)
      <3>1. v = st[p].dvp /\ t = <<>>
        BY <1>1, <1>8, <2>1
      <3> QED
        BY <1>6, <1>8, <1>10, <2>1, <3>1 DEF Leaves
    <2>2. CASE st[p].vp # None /\ st[p].dvp = None /\ st[p].rel = <<st[p].vp>> /\ ~st[p].keep
      <3>1. v = st[p].vp /\ t = <<>>
        BY <1>1, <1>8, <2>2
      <3> QED
        BY <1>6, <1>8, <1>10, <2>2, <3>1 DEF Leaves
    <2>3. CASE st[p].vp # None /\ st[p].dvp # None /\ st[p].rel = <<st[p].vp, st[p].dvp>> /\ ~st[p].keep
      <3>1. v = st[p].vp /\ t = <<st[p].dvp>>
        BY <1>1, <1>8, <2>3
      <3> QED
        BY <1>6, <1>8, <1>10, <2>3, <3>1 DEF Leaves
    <2> QED
      BY <1>3, <1>4, <2>1, <2>2, <2>3 DEF Leaves
  <1>15. Shape(r)
    BY <1>4, <1>6, <1>8, <1>10, <1>13, <1>14, NoneApart DEF Shape, Working, Cleaning, Inactive
  <1>16. /\ ~HasBuf(r) /\ ~HasRoot(r) /\ ~InDir(r) /\ ~Unlinks(r)
         /\ HasLeaf(r) => HasLeaf(st[p])
    BY <1>8, <1>10, <1>13 DEF HasBuf, HasRoot, InDir, Unlinks, HasLeaf
  <1>17. GoesOn(p, r)
    BY <1>0, <1>3, <1>8, <1>10, <1>11, <1>12, <1>13, <1>15, <1>16 DEF GoesOn, Own
  <1>18. PICK x : x = Uncounted(IF mine THEN Unlocked(vn[v]) ELSE vn[v])
    OBVIOUS
  <1>19. /\ x \in VnRec /\ x.use = vn[v].use - 1 /\ x.bad = vn[v].bad
         /\ x.lock = (IF mine THEN None ELSE vn[v].lock) /\ x.want = (IF mine THEN FALSE ELSE vn[v].want)
         /\ x.slot = vn[v].slot /\ x.ref = vn[v].ref /\ x.xlock = vn[v].xlock
         /\ x.upd = vn[v].upd /\ x.xwant = vn[v].xwant
    <2>1. PICK y : y = IF mine THEN Unlocked(vn[v]) ELSE vn[v]
      OBVIOUS
    <2>2. y \in VnRec
      BY <1>4, <1>6, <2>1, VnTypes, NoneApart
    <2>3. /\ y.use = vn[v].use /\ y.bad = vn[v].bad
          /\ y.lock = (IF mine THEN None ELSE vn[v].lock) /\ y.want = (IF mine THEN FALSE ELSE vn[v].want)
          /\ y.slot = vn[v].slot /\ y.ref = vn[v].ref /\ y.xlock = vn[v].xlock
          /\ y.upd = vn[v].upd /\ y.xwant = vn[v].xwant
      BY <1>4, <1>6, <2>1 DEF VnRec, Unlocked
    <2>4. y.use - 1 \in Nat
      BY <1>6, <2>3 DEF VnRec
    <2>5. x = [y EXCEPT !.use = y.use - 1] /\ x \in VnRec
      BY <1>18, <2>1, <2>2, <2>4, VnTypes DEF Uncounted
    <2> QED
      BY <2>2, <2>3, <2>5 DEF VnRec
  <1>20. vn' \in [Vnodes -> VnRec] /\ vn'[v] = x /\ \A w \in Vnodes : w # v => vn'[w] = vn[w]
    <2>1. vn' = [vn EXCEPT ![v] = x]
      BY <1>0, <1>3, <1>5, <1>18 DEF Types
    <2> QED
      BY <1>0, <1>5, <1>19, <2>1 DEF Types
  <1>21. /\ wchan' \in [Procs -> Chans \cup {None}] /\ wchan'[p] = None
         /\ \A q \in Procs : wchan'[q] \in {wchan[q], None}
         /\ \A q \in Procs, w \in Vnodes : wchan[q] = VxChan(w) => wchan'[q] = wchan[q]
    <2>1. \A w \in Vnodes : VxChan(w) \in Chans /\ VxChan(w) \notin C
      BY <1>2, <1>4, ChansOf, ChansApart DEF Waiters
    <2> QED
      BY <1>3, <2>1, Woken
  <1>22. mine => \A q \in Procs : wchan'[q] # DeChan(v)
    BY <1>2, <1>3, <1>5, UnlockWakes
  <1>23. Mild(p, v)
    <2>1. CASE mine
      BY <1>5, <1>6, <1>19, <1>20, <1>21, <1>22, <2>1 DEF Mild
    <2>2. CASE ~mine
      <3>1. vn'[v].lock = vn[v].lock /\ vn'[v].want = vn[v].want
        BY <1>19, <1>20, <2>2
      <3>2. /\ vn'[v].bad = vn[v].bad /\ vn'[v].slot = vn[v].slot /\ vn'[v].ref = vn[v].ref
            /\ vn'[v].xlock = vn[v].xlock /\ vn'[v].xwant = vn[v].xwant
        BY <1>19, <1>20
      <3> QED
        BY <1>5, <1>6, <1>21, <3>1, <3>2 DEF Mild
    <2> QED
      BY <2>1, <2>2
  <1>24. Fine(p, v)
    <2>1. Begins(p, v)
      BY <1>3, <1>5, <1>6, <1>8, <1>10, <1>12, <1>13 DEF Begins, Cleaning, Inactive
    <2>2. VnodeOK(v)' /\ Sleeps(p, v)'
      BY <1>5, <1>6, <1>19, <1>20, <1>21, NoneApart DEF VnodeOK, Sleeps
    <2>3. Refers(p, v)'
      <3>1. r.dvp # v /\ r.vp # v /\ vn'[v].lock # p
        BY <1>1, <1>6, <1>8, <1>10, <1>19, <1>20, NoneApart
      <3>2. held'[p] = v => vn'[v].slot \in Slots
        BY <1>3, <1>6, <1>19, <1>20 DEF Pair, Refers
      <3> QED
        BY <3>1, <3>2, <1>12 DEF Refers
    <2>4. Works(p, v)'
      <3>1. last => vn'[v].use = 0 /\ ~vn'[v].bad /\ ~vn'[v].xlock /\ vn'[v].lock = None
        BY <1>1, <1>6, <1>7, <1>19, <1>20
      <3>2. st'[p].gvp = v => last /\ st'[p].pc = "inactive"
        BY <1>6, <1>8, <1>10, <1>12
      <3> QED
        BY <3>1, <3>2 DEF Works, Cleaning, Inactive
    <2>5. Counted(p, v)
      <3>1. r.dvp # v /\ r.vp # v
        BY <1>6, <1>8, <1>10
      <3>2. \/ st[p].dvp = v /\ st'[p].dvp # v /\ (st'[p].vp = v <=> st[p].vp = v)
            \/ st[p].vp = v /\ st'[p].vp # v /\ (st'[p].dvp = v <=> st[p].dvp = v)
        BY <1>5, <1>6, <1>12, <3>1
      <3>3. vn'[v].use = vn[v].use - 1 /\ held'[p] = held[p]
        BY <1>3, <1>19, <1>20
      <3> QED
        BY <1>5, <3>2, <3>3, CountedLess
    <2> QED
      BY <2>1, <2>2, <2>3, <2>4, <2>5 DEF Fine, Pair
  <1>25. ASSUME NEW w \in Vnodes, w # v
         PROVE  Same(p, r, w)
    <2>1. w # None /\ wchan'[p] # DeChan(w) /\ wchan'[p] # VxChan(w)
      BY <1>21, NoneApart
    <2>2. /\ r.dvp = w <=> st[p].dvp = w
          /\ r.vp = w <=> st[p].vp = w
          /\ r.gvp # w /\ st[p].gvp # w
      BY <1>4, <1>8, <1>10, <1>25, <2>1
    <2> QED
      BY <1>3, <1>16, <1>20, <1>21, <1>25, <2>1, <2>2 DEF Same
  <1>26. FreeOK' /\ vfree' \in Seq(Vnodes)
    <2>1. \A q \in Procs : q # p => /\ st'[q] = st[q] /\ held'[q] = held[q]
                                    /\ wchan'[q] = wchan[q] \/ wchan'[q] = None
      BY <1>0, <1>3, <1>12, <1>21 DEF Types
    <2>2. Others(p)
      BY <2>1 DEF Others
    <2>3. vfree \in Seq(Vnodes) /\ Once(vfree)
      BY <1>0 DEF Core, Types, FreeOK
    <2>4. CASE ~last
      <3>1. vfree' = vfree /\ vn[v].use # 0 /\ vn'[v].use # 0
        <4>1. vn[v].use \in Nat /\ vn[v].use > 0 /\ vn[v].use # 1 /\ vn'[v].use = vn[v].use - 1
          BY <1>6, <1>19, <1>20, <2>4 DEF VnRec
        <4> QED
          BY <1>3, <2>4, <4>1
      <3>2. \A w \in Vnodes : vn'[w].use = 0 <=> vn[w].use = 0
        BY <3>1, <1>20
      <3> QED
        BY <1>4, <1>12, <1>13, <2>2, <2>3, <3>1, <3>2, FreeKept
    <2>5. CASE last
      <3>1. ~InSeq(v, vfree) /\ vn[v].use = 1 /\ vn'[v].use = 0
        BY <1>1, <1>5, <1>19, <1>20, <2>5 DEF Core, FreeOK
      <3>2. /\ vfree' \in Seq(Vnodes) /\ Once(vfree')
            /\ \A w : InSeq(w, vfree') <=> InSeq(w, vfree) \/ w = v
        BY <1>3, <1>5, <2>3, <2>5, <3>1, AppendOnce
      <3>3. \A w \in Vnodes : Taken(w)' <=> Taken(w)
        BY <1>4, <1>12, <1>13, <2>2, TakenStep
      <3>4. ~Taken(v)
        BY <1>5, <3>1, TakenUnused
      <3>5. \A w \in Vnodes : InSeq(w, vfree') <=> vn'[w].use = 0 /\ ~Taken(w)'
        BY <1>20, <3>1, <3>2, <3>3, <3>4 DEF Core, FreeOK
      <3> QED
        BY <3>2, <3>5 DEF FreeOK
    <2> QED
      BY <1>4, <2>4, <2>5
  <1>27. Ran(p)
    BY <1>0, <1>3, <1>20, <1>21, <1>26, NoneApart DEF Ran, Types
  <1> QED
    BY <1>3, <1>17, <1>23, <1>24, <1>25, <1>26, <1>27, MildStep

-----------------------------------------------------------------------------
(* A call returns; a file is closed or written.                            *)
LEMMA ReturnCore ==
    ASSUME Core, NEW p \in Procs, Return(p), UNCHANGED calls
    PROVE  Core'
  <1>0. Types /\ Own(p) /\ Shape(st[p]) /\ st[p] \in StRec
    BY DEF Core, ProcOK, Types, Own
  <1>1. /\ st[p].pc = "rele" /\ wchan[p] = None /\ cpu \in {p, None} /\ cpu' = None
        /\ st[p].rel = <<>> /\ st' = [st EXCEPT ![p] = NoCall]
        /\ vfree' = vfree /\ mntlist' = mntlist /\ nc' = nc /\ numcache' = numcache /\ dir' = dir
        /\ bp' = bp /\ cov' = cov /\ calls' = calls
    BY ZenonT(60) DEF Return, At, fs
  <1>2. /\ st[p].gvp = None /\ st[p].gret = None /\ Letting(st[p]) /\ ~Making(st[p])
        /\ Leaves(st[p])
    BY <1>0, <1>1, NoneApart DEF Shape, Letting, Making, Working, Cleaning, Inactive
  <1>3. st[p].dvp = None /\ (st[p].vp # None <=> st[p].keep)
    BY <1>1, <1>2 DEF Leaves
  <1>4. PICK r : r = NoCall
    OBVIOUS
  <1>5. /\ r \in StRec /\ r.pc = "idle" /\ r.call = None /\ r.dvp = None /\ r.vp = None
        /\ r.gvp = None /\ r.gret = None /\ r.rel = <<>> /\ r.keep = FALSE
    BY <1>4, NoCallType
  <1>6. ~Making(r) /\ ~Getting(r) /\ ~Letting(r)
    BY <1>5, NoneApart DEF Making, Getting, Letting
  <1>7. Shape(r)
    BY <1>5, <1>6, NoneApart DEF Shape, Working, Cleaning, Inactive
  <1>8. ~HasBuf(r) /\ ~HasRoot(r) /\ ~InDir(r) /\ ~Unlinks(r) /\ ~HasLeaf(r)
    BY <1>5, <1>6 DEF HasBuf, HasRoot, InDir, Unlinks, HasLeaf
  <1>9. st' = [st EXCEPT ![p] = r] /\ st'[p] = r
    BY <1>0, <1>1, <1>4 DEF Types
  <1>10. CASE ~st[p].keep
    <2>1. held' = held /\ vn' = vn /\ wchan' = wchan
      BY <1>10 DEF Return
    <2>2. Quiet(p, r)
      <3>1. dir' \in [Slots -> Names \cup {None}]
        BY <1>0, <1>1 DEF Types
      <3>2. r.pc \notin Working
        BY <1>5 DEF Working, Cleaning, Inactive
      <3> QED
        BY <1>1, <1>2, <1>3, <1>5, <1>6, <1>7, <1>8, <1>9, <1>10, <2>1, <3>1, <3>2, NoneApart DEF Quiet
    <2> QED
      BY <1>1, <1>5, <2>2, QuietGoto
  <1>11. CASE st[p].keep
    <2>1. PICK v : v = st[p].vp
      OBVIOUS
    <2>2. PICK C : C = Waiters(vn[v], v)
      OBVIOUS
    <2>3. /\ held' = [held EXCEPT ![p] = v] /\ vn' = [vn EXCEPT ![v] = Unlocked(vn[v])]
          /\ wchan' = [q \in Procs |-> IF wchan[q] \in C THEN None ELSE wchan[q]]
      BY <1>11, <2>1, <2>2 DEF Return
    <2>4. /\ v \in Vnodes /\ ~vn[v].bad /\ ~vn[v].xlock /\ vn[v].slot \in Slots /\ vn[v].use > 0
          /\ vn[v] \in VnRec /\ vn[v] # NoFile /\ vn[v].lock = p /\ VnodeOK(v)
      BY <1>3, <1>11, <2>1, HasFileLeaf DEF HasLeaf, Core
    <2>5. held[p] = None /\ held'[p] = v /\ held' \in [Procs -> SomeVnode]
          /\ \A q \in Procs : q # p => held'[q] = held[q]
      BY <1>0, <1>11, <2>3, <2>4 DEF Own, Types, SomeVnode
    <2>6. GoesOn(p, r)
      BY <1>5, <1>6, <1>7, <1>8, <1>9, NoneApart DEF GoesOn
    <2>7. /\ vn' \in [Vnodes -> VnRec] /\ vn'[v] = Unlocked(vn[v])
          /\ \A w \in Vnodes : w # v => vn'[w] = vn[w]
      <3>1. Unlocked(vn[v]) \in VnRec
        BY <2>4, VnTypes, NoneApart
      <3> QED
        BY <1>0, <2>3, <2>4, <3>1 DEF Types
    <2>8. /\ vn'[v].use = vn[v].use /\ vn'[v].bad = vn[v].bad /\ vn'[v].lock = None
          /\ vn'[v].slot = vn[v].slot /\ vn'[v].ref = vn[v].ref /\ vn'[v].xlock = vn[v].xlock
          /\ vn'[v].upd = vn[v].upd /\ vn'[v].xwant = vn[v].xwant
      BY <2>4, <2>7 DEF VnRec, Unlocked
    <2>9. /\ wchan' \in [Procs -> Chans \cup {None}] /\ wchan'[p] = None
          /\ \A q \in Procs : wchan'[q] \in {wchan[q], None}
          /\ \A q \in Procs, w \in Vnodes : wchan[q] = VxChan(w) => wchan'[q] = wchan[q]
      <3>1. \A w \in Vnodes : VxChan(w) \in Chans /\ VxChan(w) \notin C
        BY <2>2, ChansOf, ChansApart DEF Waiters
      <3> QED
        BY <1>1, <2>3, <3>1, Woken
    <2>10. \A q \in Procs : wchan'[q] # DeChan(v)
      BY <1>1, <2>2, <2>3, <2>4, UnlockWakes
    <2>11. Ran(p)
      BY <1>0, <1>1, <2>5, <2>7, <2>9, NoneApart DEF Ran, Types
    <2>12. Others(p)
      BY <1>0, <1>9, <2>11 DEF Others, Ran, Types
    <2>13. FreeOK'
      <3>1. \A w \in Vnodes : vn'[w].use = vn[w].use
        BY <2>7, <2>8
      <3> QED
        BY <1>1, <1>2, <1>6, <1>9, <2>12, <3>1, FreeKept
    <2>14. Mild(p, v)
      BY <2>4, <2>8, <2>9, <2>10 DEF Mild
    <2>15. Fine(p, v)
      <3>1. Begins(p, v)
        BY <1>1, <1>5, <1>6, <1>9, <2>1, <2>4, NoneApart DEF Begins
      <3>2. VnodeOK(v)' /\ Sleeps(p, v)'
        BY <2>4, <2>8, <2>9, NoneApart DEF VnodeOK, Sleeps
      <3>3. Refers(p, v)'
        BY <1>5, <1>9, <2>4, <2>8, NoneApart DEF Refers
      <3>4. Works(p, v)'
        BY <1>5, <1>9, <2>4, NoneApart DEF Works
      <3>5. Counted(p, v)
        <4>1. /\ st[p].vp = v /\ st'[p].vp # v /\ held[p] # v /\ held'[p] = v
              /\ st'[p].dvp = st[p].dvp /\ vn'[v].use = vn[v].use
          BY <1>3, <1>5, <1>9, <2>1, <2>4, <2>5, <2>8, NoneApart
        <4> QED
          BY <2>4, <4>1, CountedMoved
      <3> QED
        BY <3>1, <3>2, <3>3, <3>4, <3>5 DEF Fine, Pair
    <2>16. ASSUME NEW w \in Vnodes, w # v
           PROVE  Same(p, r, w)
      <3>1. w # None /\ wchan'[p] # DeChan(w) /\ wchan'[p] # VxChan(w)
        BY <2>9, NoneApart
      <3>2. held'[p] # w /\ held[p] # w
        BY <2>5, <2>16, <3>1
      <3> QED
        BY <1>2, <1>3, <1>5, <2>1, <2>7, <2>9, <2>16, <3>1, <3>2 DEF Same
    <2> QED
      BY <1>1, <2>6, <2>11, <2>13, <2>14, <2>15, <2>16, MildStep
  <1> QED
    BY <1>10, <1>11

LEMMA HasOpen ==
    ASSUME Core, NEW p \in Procs, held[p] # None
    PROVE  /\ held[p] \in Vnodes /\ ~vn[held[p]].bad /\ ~vn[held[p]].xlock
           /\ vn[held[p]].slot \in Slots /\ vn[held[p]].use > 0
           /\ vn[held[p]] \in VnRec /\ vn[held[p]] # NoFile /\ VnodeOK(held[p]) /\ Pair(p, held[p])
  <1>1. held[p] \in Vnodes
    BY DEF Core, Types, SomeVnode
  <1>2. Pair(p, held[p]) /\ vn[held[p]] \in VnRec /\ VnodeOK(held[p])
    BY <1>1 DEF Core, Types
  <1> QED
    BY <1>1, <1>2, InUse DEF Pair, Refers

LEMMA CloseCore ==
    ASSUME Core, NEW p \in Procs, Close(p), UNCHANGED calls
    PROVE  Core'
  <1>0. Types /\ Own(p) /\ Shape(st[p]) /\ st[p] \in StRec
    BY DEF Core, ProcOK, Types, Own
  <1>1. PICK v : v = held[p]
    OBVIOUS
  <1>2. /\ st[p].pc = "idle" /\ wchan[p] = None /\ cpu \in {p, None} /\ cpu' = p /\ v # None
        /\ st' = [st EXCEPT ![p] = Releasing([@ EXCEPT !.vp = v], <<v>>, FALSE)]
        /\ held' = [held EXCEPT ![p] = None] /\ vn' = vn /\ wchan' = wchan
        /\ vfree' = vfree /\ mntlist' = mntlist /\ nc' = nc /\ numcache' = numcache /\ dir' = dir
        /\ bp' = bp /\ cov' = cov /\ calls' = calls
    BY <1>1, ZenonT(60) DEF Close, At, Run, fs
  <1>3. /\ st[p].gvp = None /\ st[p].gret = None /\ ~Making(st[p])
        /\ st[p].vp = None /\ st[p].dvp = None
    BY <1>0, <1>2, NoneApart DEF Shape, Making, Working, Cleaning, Inactive
  <1>4. /\ v \in Vnodes /\ ~vn[v].bad /\ ~vn[v].xlock /\ vn[v].slot \in Slots /\ vn[v].use > 0
        /\ vn[v] \in VnRec /\ vn[v] # NoFile /\ VnodeOK(v) /\ Pair(p, v)
    BY <1>1, <1>2, HasOpen
  <1>5. PICK s : s = [st[p] EXCEPT !.vp = v]
    OBVIOUS
  <1>6. s \in StRec /\ s.dvp = None /\ s.vp = v
    <2>1. v \in SomeVnode
      BY <1>4 DEF SomeVnode
    <2>2. s \in StRec
      BY <1>0, <1>5, <2>1, ZenonT(60) DEF StRec
    <2> QED
      BY <1>0, <1>3, <1>5, <2>2 DEF StRec
  <1>7. PICK r : r = Releasing(s, <<v>>, FALSE)
    OBVIOUS
  <1>8. /\ r \in StRec /\ r.pc = "rele" /\ r.call = None /\ r.dvp = None /\ r.vp = v
        /\ r.gvp = None /\ r.gret = None /\ r.rel = <<v>> /\ r.keep = FALSE
    <2>1. <<v>> \in Seq(Vnodes)
      BY <1>4
    <2> QED
      BY <1>6, <1>7, <2>1, ReleasingType
  <1>9. ~Making(r) /\ ~Getting(r) /\ Letting(r) /\ Leaves(r)
    BY <1>2, <1>8, NoneApart DEF Making, Getting, Letting, Leaves
  <1>10. Shape(r)
    BY <1>8, <1>9, NoneApart DEF Shape, Working, Cleaning, Inactive
  <1>11. st' = [st EXCEPT ![p] = r] /\ st'[p] = r
    BY <1>0, <1>2, <1>5, <1>7 DEF Types
  <1>12. ~HasBuf(r) /\ ~HasRoot(r) /\ ~InDir(r) /\ ~Unlinks(r) /\ ~HasLeaf(r)
    BY <1>8, <1>9 DEF HasBuf, HasRoot, InDir, Unlinks, HasLeaf
  <1>13. GoesOn(p, r)
    BY <1>8, <1>9, <1>10, <1>11, <1>12, NoneApart DEF GoesOn
  <1>14. /\ held'[p] = None /\ held' \in [Procs -> SomeVnode]
         /\ \A q \in Procs : q # p => held'[q] = held[q]
    BY <1>0, <1>2 DEF Types, SomeVnode
  <1>15. Ran(p)
    BY <1>0, <1>2, <1>14, NoneApart DEF Ran, Types
  <1>16. Others(p)
    BY <1>0, <1>11, <1>15 DEF Others, Ran, Types
  <1>17. FreeOK'
    BY <1>2, <1>3, <1>9, <1>11, <1>16, FreeKept
  <1>18. Mild(p, v)
    BY <1>2, <1>4 DEF Mild
  <1>19. Fine(p, v)
    <2>1. Begins(p, v)
      BY <1>1, <1>4, <1>8, <1>9, <1>11, NoneApart DEF Begins
    <2>2. VnodeOK(v)' /\ Sleeps(p, v)'
      BY <1>2, <1>4, NoneApart DEF VnodeOK, Sleeps
    <2>3. Refers(p, v)'
      BY <1>2, <1>4, <1>8, <1>11, <1>12, <1>14, NoneApart DEF Refers, MayLock
    <2>4. Works(p, v)'
      BY <1>4, <1>8, <1>11, NoneApart DEF Works
    <2>5. Counted(p, v)
      <3>1. /\ st[p].vp # v /\ st'[p].vp = v /\ held[p] = v /\ held'[p] # v
            /\ st'[p].dvp = st[p].dvp /\ vn'[v].use = vn[v].use
        BY <1>1, <1>2, <1>3, <1>8, <1>11, <1>14
      <3> QED
        BY <1>4, <3>1, CountedMoved
    <2> QED
      BY <2>1, <2>2, <2>3, <2>4, <2>5 DEF Fine, Pair
  <1>20. ASSUME NEW w \in Vnodes, w # v
         PROVE  Same(p, r, w)
    <2>1. w # None /\ wchan'[p] # DeChan(w) /\ wchan'[p] # VxChan(w)
      BY <1>2, NoneApart
    <2> QED
      BY <1>1, <1>2, <1>3, <1>8, <1>14, <1>20, <2>1 DEF Same
  <1> QED
    BY <1>2, <1>13, <1>15, <1>17, <1>18, <1>19, <1>20, MildStep

LEMMA WriteCore ==
    ASSUME Core, NEW p \in Procs, Write(p), UNCHANGED calls
    PROVE  Core'
  <1>0. Types /\ Own(p) /\ Shape(st[p]) /\ st[p] \in StRec
    BY DEF Core, ProcOK, Types, Own
  <1>1. PICK v : v = held[p]
    OBVIOUS
  <1>2. /\ st[p].pc = "idle" /\ wchan[p] = None /\ cpu \in {p, None} /\ cpu' = cpu /\ v # None
        /\ st' = st /\ held' = held /\ vn' = [vn EXCEPT ![v].upd = TRUE] /\ wchan' = wchan
        /\ vfree' = vfree /\ mntlist' = mntlist /\ nc' = nc /\ numcache' = numcache /\ dir' = dir
        /\ bp' = bp /\ cov' = cov /\ calls' = calls
    BY <1>1, ZenonT(60) DEF Write, At, fs
  <1>3. st[p].gvp = None /\ st[p].gret = None /\ ~Making(st[p])
    BY <1>0, <1>2, NoneApart DEF Shape, Making, Working, Cleaning, Inactive
  <1>4. /\ v \in Vnodes /\ ~vn[v].bad /\ ~vn[v].xlock /\ vn[v].slot \in Slots /\ vn[v].use > 0
        /\ vn[v] \in VnRec /\ vn[v] # NoFile /\ VnodeOK(v) /\ Pair(p, v)
    BY <1>1, <1>2, HasOpen
  <1>5. GoesOn(p, st[p])
    BY <1>0, <1>2, <1>3 DEF GoesOn, Own, Types
  <1>6. /\ vn' \in [Vnodes -> VnRec] /\ vn'[v] = [vn[v] EXCEPT !.upd = TRUE]
        /\ \A w \in Vnodes : w # v => vn'[w] = vn[w]
    <2>1. [vn[v] EXCEPT !.upd = TRUE] \in VnRec
      BY <1>4, VnTypes
    <2> QED
      BY <1>0, <1>2, <1>4, <2>1 DEF Types
  <1>7. /\ vn'[v].use = vn[v].use /\ vn'[v].bad = vn[v].bad /\ vn'[v].lock = vn[v].lock
        /\ vn'[v].slot = vn[v].slot /\ vn'[v].ref = vn[v].ref /\ vn'[v].xlock = vn[v].xlock
        /\ vn'[v].want = vn[v].want /\ vn'[v].xwant = vn[v].xwant
    BY <1>4, <1>6 DEF VnRec
  <1>8. Ran(p)
    BY <1>0, <1>2, <1>6, NoneApart DEF Ran, Types
  <1>9. Others(p)
    BY <1>2, <1>8 DEF Others, Ran
  <1>10. FreeOK'
    <2>1. \A w \in Vnodes : vn'[w].use = vn[w].use
      BY <1>6, <1>7
    <2> QED
      BY <1>2, <1>9, <2>1, FreeKept
  <1>11. Mild(p, v)
    BY <1>2, <1>4, <1>7 DEF Mild
  <1>12. Fine(p, v)
    <2>1. Begins(p, v)
      BY <1>2, <1>3, <1>4, NoneApart DEF Begins
    <2>2. VnodeOK(v)' /\ Sleeps(p, v)'
      BY <1>2, <1>4, <1>7, NoneApart, RootApart DEF VnodeOK, Sleeps
    <2>3. Refers(p, v)'
      BY <1>2, <1>4, <1>7 DEF Pair, Refers
    <2>4. Works(p, v)'
      BY <1>2, <1>3, <1>4, NoneApart DEF Works
    <2>5. Counted(p, v)
      BY <1>2, <1>4, <1>7, CountedSame
    <2> QED
      BY <2>1, <2>2, <2>3, <2>4, <2>5 DEF Fine, Pair
  <1>13. ASSUME NEW w \in Vnodes, w # v
         PROVE  Same(p, st[p], w)
    <2>1. w # None /\ wchan'[p] # DeChan(w) /\ wchan'[p] # VxChan(w)
      BY <1>2, NoneApart
    <2> QED
      BY <1>2, <1>3, <1>6, <1>13, <2>1 DEF Same
  <1> QED
    BY <1>2, <1>5, <1>8, <1>10, <1>11, <1>12, <1>13, MildStep

-----------------------------------------------------------------------------
(* The invariant.                                                          *)
LEMMA CoreStutters ==
    ASSUME Core, UNCHANGED vars
    PROVE  Core'
  <1>1. /\ vn' = vn /\ vfree' = vfree /\ mntlist' = mntlist /\ nc' = nc /\ numcache' = numcache
        /\ dir' = dir /\ bp' = bp /\ cov' = cov /\ st' = st /\ held' = held /\ wchan' = wchan
        /\ calls' = calls /\ cpu' = cpu
    BY DEF vars, fs
  <1>2. Types'
    BY <1>1 DEF Core, Types
  <1>3. \A p \in Procs : ProcOK(p)'
    BY <1>1 DEF Core, ProcOK, Own, InHash
  <1>4. \A v \in Vnodes : VnodeOK(v)'
    BY <1>1 DEF Core, VnodeOK
  <1>5. \A p \in Procs, v \in Vnodes : Pair(p, v)'
    BY <1>1 DEF Core, Pair, Refers, Works, Sleeps
  <1>6. \A p, q \in Procs, v \in Vnodes : p # q => Apart(p, q, v)'
    BY <1>1 DEF Core, Apart
  <1>7. FreeOK' /\ Counts'
    BY <1>1 DEF Core, FreeOK, Taken, Counts, Refs
  <1>8. OneDenode' /\ CacheOK' /\ CacheBound'
    BY <1>1 DEF Core, OneDenode, CacheOK, CacheBound
  <1> QED
    BY <1>2, <1>3, <1>4, <1>5, <1>6, <1>7, <1>8 DEF Core

(* The steps of an unmount, which nobody makes.                            *)
Unmounts(p) ==
    \/ MntLoop(p) \/ MntGet(p) \/ MntLock(p) \/ MntPut(p) \/ MntNext(p) \/ MntEnd(p)
    \/ VflushStep(p) \/ VflushEnd(p)

LEMMA NobodyUnmounts ==
    ASSUME Core, NEW p \in Procs
    PROVE  ~Unmounts(p)
  <1>1. st[p].pc \in PCs /\ st[p].call \in {"open", "create", "unlink", None}
    BY DEF Core, Types, StRec
  <1>2. /\ st[p].pc # "vflush" /\ st[p].pc # "mntloop" /\ st[p].pc # "mnt"
        /\ st[p].pc # "mntlock" /\ st[p].pc # "mntbuf"
    BY <1>1 DEF PCs
  <1>3. st[p].call # "unmount"
    BY <1>1, NoneApart
  <1>4. /\ ~MntLoop(p) /\ ~MntGet(p) /\ ~MntLock(p) /\ ~MntPut(p) /\ ~MntEnd(p)
        /\ ~VflushStep(p) /\ ~VflushEnd(p)
    BY <1>2 DEF MntLoop, MntGet, MntLock, MntPut, MntEnd, VflushStep, VflushEnd, At
  <1>5. ~MntNext(p)
    BY <1>3 DEF MntNext
  <1> QED
    BY <1>4, <1>5 DEF Unmounts

LEMMA StepKeepsCore ==
    ASSUME Core, NEW p \in Procs, Step(p)
    PROVE  Core'
  <1>1. UNCHANGED calls
    BY DEF Step
  <1>2. ~Unmounts(p)
    BY NobodyUnmounts
  <1>3. CASE Cross(p)
    BY <1>1, <1>3, CrossCore
  <1>4. CASE DegetWait(p) \/ DegetHit(p) \/ getnewvnode(p) \/ NoVnode(p)
    BY <1>1, <1>4, DegetWaitCore, DegetHitCore, getnewvnodeCore, NoVnodeCore
  <1>5. CASE NewVnode(p) \/ vgone(p) \/ vclean(p) \/ Reclaim(p)
    BY <1>1, <1>5, NewVnodeCore, vgoneCore, vcleanCore, ReclaimCore
  <1>6. CASE CacheMiss(p) \/ CacheNegative(p) \/ CacheHit(p) \/ CacheFail(p) \/ CacheLock(p)
    BY <1>1, <1>6, CacheMissCore, CacheNegativeCore, CacheHitCore, CacheFailCore, CacheLockCore
  <1>7. CASE CacheMalloc(p) \/ CacheEnter(p)
    BY <1>1, <1>7, CacheMallocCore, CacheEnterCore
  <1>8. CASE BufWait(p) \/ Search(p) \/ ScanFound(p) \/ ScanMissing(p)
    BY <1>1, <1>8, BufWaitCore, SearchCore, ScanFoundCore, ScanMissingCore
  <1>9. CASE createde(p) \/ Created(p) \/ markdeleted(p) \/ removede(p)
    BY <1>1, <1>9, createdeCore, CreatedCore, markdeletedCore, removedeCore
  <1>10. CASE LookupFound(p) \/ LookupFails(p)
    BY <1>1, <1>10, LookupFoundCore, LookupFailsCore
  <1>11. CASE vrele(p) \/ Return(p) \/ msdosfs_inactive(p) \/ Truncated(p)
    BY <1>1, <1>11, vreleCore, ReturnCore, msdosfs_inactiveCore, TruncatedCore
  <1>12. CASE deupdat(p) \/ Updated(p)
    BY <1>1, <1>12, deupdatCore, UpdatedCore
  <1> QED
    BY <1>2, <1>3, <1>4, <1>5, <1>6, <1>7, <1>8, <1>9, <1>10, <1>11, <1>12 DEF Step, Unmounts

LEMMA BeginKeepsCore ==
    ASSUME Core, NEW p \in Procs, Begin(p), UNCHANGED calls
    PROVE  Core'
  <1>1. CASE \E c \in calls, n \in Names : Call(p, c, n)
    BY <1>1, CallCore
  <1>2. CASE Close(p)
    BY <1>2, CloseCore
  <1>3. CASE Write(p)
    BY <1>3, WriteCore
  <1>4. ~Unmount(p)
    BY DEF Core, Types, Unmount
  <1> QED
    BY <1>1, <1>2, <1>3, <1>4 DEF Begin

LEMMA CoreNext ==
    ASSUME Core, [Next]_vars
    PROVE  Core'
  <1>1. CASE Next
    <2>1. PICK p \in Procs : Step(p) \/ (Begin(p) /\ UNCHANGED calls)
      BY <1>1 DEF Next
    <2> QED
      BY <2>1, StepKeepsCore, BeginKeepsCore
  <1>2. CASE UNCHANGED vars
    BY <1>2, CoreStutters
  <1> QED
    BY <1>1, <1>2

(* In the beginning every vnode is on the free list, without a file.       *)
LEMMA AllFree ==
    ASSUME NEW f \in [1..Cardinality(Vnodes) -> Vnodes], Once(f)
    PROVE  f \in Seq(Vnodes) /\ \A v \in Vnodes : InSeq(v, f)
  <1>1. Cardinality(Vnodes) \in Nat /\ IsFiniteSet(Vnodes)
    BY NoneApart, FS_CardinalityType
  <1>2. PICK n : n = Cardinality(Vnodes)
    OBVIOUS
  <1>3. n \in Nat /\ f \in [1..n -> Vnodes] /\ DOMAIN f = 1..n
    BY <1>1, <1>2
  <1>4. Cardinality(1..n) = Cardinality(Vnodes)
    <2>1. Cardinality(1..n) = IF 1 > n THEN 0 ELSE n - 1 + 1
      BY <1>3, FS_Interval
    <2> QED
      BY <2>1, <1>2, <1>3
  <1>5. f \in Injection(1..n, Vnodes)
    BY <1>3 DEF Injection, IsInjective, Once
  <1>6. f \in Surjection(1..n, Vnodes)
    BY <1>1, <1>4, <1>5, FS_Injection
  <1>7. \A v \in Vnodes : \E i \in 1..n : f[i] = v
    BY <1>6 DEF Surjection
  <1>8. f \in Seq(Vnodes)
    BY <1>3
  <1> QED
    BY <1>3, <1>7, <1>8 DEF InSeq

LEMMA CoreInit ==
    ASSUME NoUnmount, Init
    PROVE  Core
  <1>1. /\ vn = [v \in Vnodes |-> NoFile] /\ mntlist = <<>> /\ nc = <<>> /\ numcache = 0
        /\ dir \in [Slots -> Names \cup {None}] /\ bp = None /\ cov = None /\ cpu = None
        /\ st = [p \in Procs |-> NoCall] /\ held = [p \in Procs |-> None]
        /\ wchan = [p \in Procs |-> None] /\ "unmount" \notin calls
        /\ vfree \in [1..Cardinality(Vnodes) -> Vnodes] /\ Once(vfree)
    BY DEF Init, NoUnmount, Once
  <1>2. /\ NoFile \in VnRec /\ NoFile.use = 0 /\ NoFile.xlock = FALSE /\ NoFile.bad = TRUE
        /\ NoFile.lock = None
    BY DEF NoFile, VnRec, Places
  <1>3. vfree \in Seq(Vnodes) /\ \A v \in Vnodes : InSeq(v, vfree)
    BY <1>1, AllFree
  <1>4. Types
    <2>1. <<>> \in Seq(Vnodes) /\ <<>> \in Seq(Entry) /\ Len(<<>>) = 0
      OBVIOUS
    <2> QED
      BY <1>1, <1>2, <1>3, <2>1, NoCallType DEF Types, SomeVnode
  <1>5. \A p \in Procs : st[p] = NoCall /\ held[p] = None /\ wchan[p] = None /\ p # None
    BY <1>1, NoneApart
  <1>6. \A v \in Vnodes : vn[v] = NoFile /\ v # None
    BY <1>1, NoneApart
  <1>7. ~Making(NoCall) /\ ~Getting(NoCall) /\ ~Letting(NoCall)
    BY NoCallType, NoneApart DEF Making, Getting, Letting
  <1>8. Shape(NoCall) /\ ~HasBuf(NoCall) /\ ~HasRoot(NoCall)
    BY <1>7, NoCallType, NoneApart DEF Shape, Working, Cleaning, Inactive, HasBuf, HasRoot
  <1>9. \A p \in Procs : ProcOK(p)
    BY <1>1, <1>5, <1>7, <1>8, NoCallType, NoneApart DEF ProcOK, Own
  <1>10. \A v \in Vnodes : VnodeOK(v)
    BY <1>2, <1>6 DEF VnodeOK
  <1>11. \A p \in Procs, v \in Vnodes : Pair(p, v)
    BY <1>2, <1>5, <1>6, NoCallType, NoneApart DEF Pair, Refers, Works, Sleeps
  <1>12. \A p, q \in Procs, v \in Vnodes : p # q => Apart(p, q, v)
    BY <1>5, <1>6, NoCallType DEF Apart
  <1>13. FreeOK
    <2>1. \A v \in Vnodes : ~Taken(v)
      BY <1>5, <1>6, NoCallType DEF Taken
    <2> QED
      BY <1>1, <1>2, <1>3, <1>6, <2>1 DEF FreeOK
  <1>14. Counts
    <2> SUFFICES ASSUME NEW v \in Vnodes PROVE vn[v].use = Refs(v)
      BY DEF Counts
    <2>1. PICK D, L, H : /\ D = {p \in Procs : st[p].dvp = v} /\ L = {p \in Procs : st[p].vp = v}
                         /\ H = {p \in Procs : held[p] = v}
      OBVIOUS
    <2>2. D = {} /\ L = {} /\ H = {}
      BY <1>5, <1>6, <2>1, NoCallType
    <2>3. Cardinality(D) = 0 /\ Cardinality(L) = 0 /\ Cardinality(H) = 0
      BY <2>2, FS_EmptySet
    <2>4. Refs(v) = Cardinality(D) + Cardinality(L) + Cardinality(H)
      BY <2>1 DEF Refs
    <2> QED
      BY <1>2, <1>6, <2>3, <2>4
  <1>15. OneDenode /\ CacheOK
    BY <1>1, <1>2, <1>6 DEF OneDenode, CacheOK
  <1>16. CacheBound
    <2>1. PICK M : M = {p \in Procs : st[p].pc = "malloc"}
      OBVIOUS
    <2>2. M = {}
      BY <1>5, <2>1, NoCallType
    <2>3. Cardinality(M) = 0 /\ Cardinality(Procs) \in Nat
      BY <2>2, FS_EmptySet, FS_CardinalityType, NoneApart
    <2>4. numcache + Cardinality(M) <= MaxCache + Cardinality(Procs)
      BY <1>1, <2>3, NoneApart
    <2> QED
      BY <2>1, <2>4 DEF CacheBound
  <1> QED
    BY <1>4, <1>9, <1>10, <1>11, <1>12, <1>13, <1>14, <1>15, <1>16 DEF Core

LEMMA CoreAlways ==
    ASSUME NoUnmount
    PROVE  Spec => []Core
  <1>1. Init => Core
    BY CoreInit
  <1>2. Core /\ [Next]_vars => Core'
    BY CoreNext
  <1> QED
    BY <1>1, <1>2, PTL DEF Spec

-----------------------------------------------------------------------------
(* The uses of a vnode are at most two for each process: a directory is    *)
(* nobody's open file.                                                     *)
LEMMA UseBound ==
    ASSUME Core, NEW v \in Vnodes
    PROVE  vn[v].use \in 0..(2 * Cardinality(Procs))
  <1>1. PICK D, L, H : /\ D = {x \in Procs : st[x].dvp = v} /\ L = {x \in Procs : st[x].vp = v}
                       /\ H = {x \in Procs : held[x] = v}
    OBVIOUS
  <1>2. D \in SUBSET Procs /\ L \in SUBSET Procs /\ H \in SUBSET Procs
    BY <1>1
  <1>3. /\ IsFiniteSet(D) /\ IsFiniteSet(L) /\ IsFiniteSet(H)
        /\ Cardinality(D) <= Cardinality(Procs) /\ Cardinality(L) <= Cardinality(Procs)
        /\ Cardinality(H) <= Cardinality(Procs)
    BY <1>2, NoneApart, FS_Subset
  <1>4. /\ Cardinality(D) \in Nat /\ Cardinality(L) \in Nat /\ Cardinality(H) \in Nat
        /\ Cardinality(Procs) \in Nat
    BY <1>3, NoneApart, FS_CardinalityType
  <1>5. vn[v].use = Cardinality(D) + Cardinality(L) + Cardinality(H)
    <2>1. vn[v].use = Refs(v)
      BY DEF Core, Counts
    <2> QED
      BY <1>1, <2>1 DEF Refs
  <1>6. CASE D = {}
    <2>1. Cardinality(D) = 0
      BY <1>6, FS_EmptySet
    <2> QED
      BY <1>3, <1>4, <1>5, <2>1
  <1>7. CASE D # {}
    <2>1. vn[v].slot = RootSlot
      BY <1>1, <1>7 DEF Core, Pair, Refers
    <2>2. L = {} /\ H = {}
      BY <1>1, <2>1, RootApart DEF Core, Pair, Refers
    <2>3. Cardinality(L) = 0 /\ Cardinality(H) = 0
      BY <2>2, FS_EmptySet
    <2> QED
      BY <1>3, <1>4, <1>5, <2>3
  <1> QED
    BY <1>6, <1>7

LEMMA CoreTypeOK ==
    ASSUME Core
    PROVE  TypeOK
  <1>1. Types
    BY DEF Core
  <1>2. \A v \in Vnodes :
          /\ vn[v].use \in 0..(2 * Cardinality(Procs))
          /\ vn[v].lock \in Procs \cup {None}
          /\ vn[v].slot \in Slots \cup {RootSlot, None}
          /\ vn[v].ref \in {0, 1}
    BY <1>1, UseBound DEF Types, VnRec, Places
  <1>3. numcache \in 0..(MaxCache + Cardinality(Procs)) /\ Len(nc) <= numcache
    <2>1. PICK m, c : /\ m = Cardinality({p \in Procs : st[p].pc = "malloc"})
                      /\ c = Cardinality(Procs)
      OBVIOUS
    <2>2. m \in Nat /\ c \in Nat
      <3>1. {p \in Procs : st[p].pc = "malloc"} \in SUBSET Procs
        OBVIOUS
      <3>2. IsFiniteSet({p \in Procs : st[p].pc = "malloc"})
        BY <3>1, NoneApart, FS_Subset
      <3> QED
        BY <2>1, <3>2, NoneApart, FS_CardinalityType
    <2>3. numcache + m <= MaxCache + c
      BY <2>1 DEF Core, CacheBound
    <2>4. numcache \in 0..(MaxCache + c)
      BY <1>1, <2>2, <2>3, NoneApart DEF Types
    <2> QED
      BY <1>1, <2>1, <2>4 DEF Types
  <1>4. /\ \A i \in DOMAIN vfree : vfree[i] \in Vnodes
        /\ \A i \in DOMAIN mntlist : mntlist[i] \in Vnodes
    BY <1>1 DEF Types
  <1>5. /\ dir \in [Slots -> Names \cup {None}] /\ held \in [Procs -> Vnodes \cup {None}]
        /\ bp \in Procs \cup {None}
    BY <1>1 DEF Types, SomeVnode
  <1> QED
    BY <1>2, <1>3, <1>4, <1>5 DEF TypeOK

LEMMA CoreUseCounts ==
    ASSUME Core
    PROVE  UseCounts
  <1>1. TypeOK
    BY CoreTypeOK
  <1> SUFFICES ASSUME NEW v \in Vnodes
               PROVE  /\ vn[v].use = Cardinality({p \in Procs : st[p].dvp = v})
                                     + Cardinality({p \in Procs : st[p].vp = v})
                                     + Cardinality({p \in Procs : held[p] = v})
                      /\ Cardinality({i \in DOMAIN vfree : vfree[i] = v})
                            = IF vn[v].use = 0 /\ ~Taken(v) THEN 1 ELSE 0
    BY <1>1 DEF UseCounts
  <1>2. vn[v].use = Cardinality({p \in Procs : st[p].dvp = v})
                    + Cardinality({p \in Procs : st[p].vp = v})
                    + Cardinality({p \in Procs : held[p] = v})
    BY DEF Core, Counts, Refs
  <1>3. Once(vfree) /\ (InSeq(v, vfree) <=> vn[v].use = 0 /\ ~Taken(v))
    BY DEF Core, FreeOK
  <1>4. PICK S : S = {i \in DOMAIN vfree : vfree[i] = v}
    OBVIOUS
  <1>5. CASE InSeq(v, vfree)
    <2>1. PICK i \in DOMAIN vfree : vfree[i] = v
      BY <1>5 DEF InSeq
    <2>2. S = {i}
      BY <1>3, <1>4, <2>1 DEF Once
    <2>3. Cardinality(S) = 1
      BY <2>2, FS_Singleton
    <2> QED
      BY <1>2, <1>3, <1>4, <1>5, <2>3
  <1>6. CASE ~InSeq(v, vfree)
    <2>1. S = {}
      BY <1>4, <1>6 DEF InSeq
    <2>2. Cardinality(S) = 0
      BY <2>1, FS_EmptySet
    <2> QED
      BY <1>2, <1>3, <1>4, <1>6, <2>2
  <1> QED
    BY <1>5, <1>6

(* v_usecount is the number of references to a vnode, and the free list    *)
(* holds, each once, the vnodes that have none and that getnewvnode has    *)
(* not taken: whoever recycles, removes, writes back or looks up a file    *)
(* beside it (vget, vrele, getnewvnode, vgone; vfs_subr.c).                *)
THEOREM UseCountsAlways ==
    ASSUME NoUnmount
    PROVE  Spec => []UseCounts
  <1>1. Spec => []Core
    BY CoreAlways
  <1>2. Core => UseCounts
    BY CoreUseCounts
  <1> QED
    BY <1>1, <1>2, PTL

(* deget never makes a second denode for a directory entry, although it    *)
(* sleeps, for a lock or in vclean, between its search of the hash chain   *)
(* and the new denode (msdosfs_denode.c).                                  *)
THEOREM OneDenodeAlways ==
    ASSUME NoUnmount
    PROVE  Spec => []OneDenode
  <1>1. Spec => []Core
    BY CoreAlways
  <1>2. Core => OneDenode
    BY DEF Core
  <1> QED
    BY <1>1, <1>2, PTL

(* Who sleeps on a denode or a vnode will be woken: the lock is held and   *)
(* DEWANT set, or the vnode is being cleaned out and VXWANT set; getnewvnode *)
(* never clears the flags of a vnode that somebody sleeps on.              *)
THEOREM NoMissedWakeupAlways ==
    ASSUME NoUnmount
    PROVE  Spec => []NoMissedWakeup
  <1>1. Spec => []Core
    BY CoreAlways
  <1>2. Core => NoMissedWakeup
    BY DEF Core, Pair, Sleeps, SleepersWoken, NoMissedWakeup
  <1> QED
    BY <1>1, <1>2, PTL

-----------------------------------------------------------------------------
(* What the directory, the denodes and the cache say of names, if malloc   *)
(* does not sleep.  When it does, cache_enter (vfs_cache.c:204) enters a   *)
(* file that was unlinked while it slept.                                  *)

(* The cache answers for name n in directory d.                            *)
Answers(e, d, n) == e.dvp = d /\ e.dvpid /\ e.name = n /\ (e.vp = None \/ e.vpid)
NoAnswer(r) == \A i \in DOMAIN nc : ~Answers(nc[i], r.dvp, r.name)

(* The lookup has been to the cache and found nothing.                     *)
Searched(r) == \/ r.pc \in {"search", "scan", "createde", "bwrite", "markdel", "removede", "enter"}
               \/ Getting(r) /\ r.ret # "root"
               \/ r.pc = "found" /\ r.call = "unlink"

HasFile(r) == r.pc \in {"clock", "found", "markdel", "removede", "enter"} /\ r.vp # None
NamesProc(p) ==
    LET r == st[p] IN
    /\ Getting(r) /\ r.ret # "root" => dir[r.slot] = r.name
    /\ HasFile(r) => vn[r.vp].ref = 1 /\ vn[r.vp].name = r.name
    /\ r.pc = "enoent" \/ r.pc = "createde" \/ (r.pc = "enter" /\ r.vp = None) => Found(p) = {}
    /\ r.pc = "createde" => dir[r.slot] = None
    /\ r.pc = "enter" => cpu = p /\ vn[r.dvp].lock \in {p, None}
    /\ r.pc # "malloc"
    /\ Searched(r) => NoAnswer(r)
    /\ r.pc = "cfail" =>
          \/ NoAnswer(r)
          \/ \E v \in Vnodes : /\ wchan[p] = VxChan(v)
                               /\ \A i \in DOMAIN nc : Answers(nc[i], r.dvp, r.name) => nc[i].vp = v
    /\ r.pc = "detrunc" => vn[r.gvp].ref = 0
    /\ r.pc \in {"deupdat", "updated"} => vn[r.gvp].ref = 1

NamesVnode(v) ==
    /\ ~vn[v].bad /\ vn[v].slot \in Slots /\ vn[v].ref = 1 =>
          /\ vn[v].name \in Names
          /\ \/ dir[vn[v].slot] = vn[v].name
             \/ \E p \in Procs : st[p].pc = "removede" /\ st[p].vp = v
    /\ vn[v].del => vn[v].ref = 0 /\ vn[v].use = 0

NamesDir == \A s, t \in Slots : dir[s] = dir[t] /\ dir[s] # None => s = t

NamesEntry(e) == e.dvpid =>
    /\ ~vn[e.dvp].bad /\ vn[e.dvp].slot = RootSlot
    /\ Valid(e) => vn[e.vp].ref = 1 /\ vn[e.vp].name = e.name
    /\ e.vp = None => \A s \in Slots : dir[s] # e.name

NamesCache ==
    /\ \A i \in DOMAIN nc : NamesEntry(nc[i])
    /\ \A i, j \in DOMAIN nc : i < j /\ nc[i].dvpid => ~Answers(nc[j], nc[i].dvp, nc[i].name)

NamesInv ==
    /\ \A p \in Procs : NamesProc(p)
    /\ \A v \in Vnodes : NamesVnode(v)
    /\ NamesDir /\ NamesCache

(* There is one root directory, and one process has it locked.             *)
LEMMA OneRoot ==
    ASSUME Core, NEW v \in Vnodes, NEW w \in Vnodes, ~vn[v].bad, ~vn[w].bad,
           vn[v].slot = RootSlot, vn[w].slot = RootSlot
    PROVE  v = w
  <1>1. vn[v].ref = 1 /\ vn[w].ref = 1
    BY DEF Core, VnodeOK
  <1> QED
    BY <1>1 DEF Core, OneDenode

LEMMA DirIn ==
    ASSUME Core, NEW p \in Procs, InDir(st[p])
    PROVE  /\ st[p].dvp \in Vnodes /\ vn[st[p].dvp].lock = p /\ ~vn[st[p].dvp].bad
           /\ vn[st[p].dvp].slot = RootSlot
  <1>1. Shape(st[p])
    BY DEF Core, ProcOK, Own
  <1>2. st[p].dvp # None
    BY <1>1 DEF Shape, InDir
  <1> QED
    BY <1>2, HasDir

LEMMA DirAlone ==
    ASSUME Core, NEW p \in Procs, NEW q \in Procs, InDir(st[p]), InDir(st[q])
    PROVE  p = q
  <1>1. st[p].dvp = st[q].dvp
    BY DirIn, OneRoot
  <1> QED
    BY <1>1, DirIn

LEMMA EntryIs ==
    ASSUME Core, NEW i \in DOMAIN nc
    PROVE  /\ nc[i] \in Entry /\ nc[i].dvp \in Vnodes /\ nc[i].name \in Names
           /\ nc[i].vp \in SomeVnode /\ (Valid(nc[i]) => nc[i].vp \in Vnodes)
  <1>1. nc[i] \in Entry
    BY DEF Core, Types
  <1> QED
    BY <1>1 DEF Entry, Valid, SomeVnode

(* What has been searched for in the cache, is searched for in the         *)
(* directory, or is about to be entered, with the directory locked.        *)
LEMMA SearchedIn ==
    ASSUME Core, NamesInv, NEW q \in Procs, cpu # q
    PROVE  /\ st[q].pc # "enter" /\ st[q].pc # "malloc"
           /\ Searched(st[q]) => InDir(st[q])
           /\ Getting(st[q]) /\ st[q].ret # "root" => InDir(st[q])
           /\ st[q].pc \in {"enoent", "createde", "cfail"} => InDir(st[q])
  <1>1. NamesProc(q)
    BY DEF NamesInv
  <1>2. st[q].pc # "enter" /\ st[q].pc # "malloc"
    BY <1>1 DEF NamesProc
  <1> QED
    BY <1>2 DEF Searched, InDir

(* The processes that do not move.                                         *)
LEMMA NamesOther ==
    ASSUME Core, NamesInv, NEW p \in Procs, NEW q \in Procs, q # p, Others(p), cpu \in {p, None},
           InDir(st[q]) =>
              /\ dir' = dir
              /\ \A i \in DOMAIN nc' : \A d, n : Answers(nc'[i], d, n) =>
                    \E j \in DOMAIN nc : Answers(nc[j], d, n) /\ nc[j].vp = nc'[i].vp,
           HasFile(st[q]) => /\ vn'[st[q].vp].ref = vn[st[q].vp].ref
                             /\ vn'[st[q].vp].name = vn[st[q].vp].name,
           st[q].pc \in Inactive => vn'[st[q].gvp].ref = vn[st[q].gvp].ref,
           \A v \in Vnodes : wchan[q] = VxChan(v) =>
              wchan'[q] = wchan[q] \/ \A i \in DOMAIN nc' : Valid(nc'[i]) => nc'[i].vp # v
    PROVE  NamesProc(q)'
  <1>1. NamesProc(q) /\ st'[q] = st[q] /\ cpu # q
    BY NoneApart DEF NamesInv, Others
  <1>2. /\ st[q].pc # "enter" /\ st[q].pc # "malloc"
        /\ Searched(st[q]) => InDir(st[q])
        /\ Getting(st[q]) /\ st[q].ret # "root" => InDir(st[q])
        /\ st[q].pc \in {"enoent", "createde", "cfail"} => InDir(st[q])
    BY <1>1, SearchedIn
  <1>3. InDir(st[q]) => (NoAnswer(st[q]) => NoAnswer(st[q])')
    BY <1>1 DEF NoAnswer
  <1>4. /\ Getting(st[q]) /\ st[q].ret # "root" => dir'[st[q].slot] = st[q].name
        /\ HasFile(st[q]) => vn'[st[q].vp].ref = 1 /\ vn'[st[q].vp].name = st[q].name
        /\ st[q].pc = "createde" => dir'[st[q].slot] = None
        /\ st[q].pc = "detrunc" => vn'[st[q].gvp].ref = 0
        /\ st[q].pc \in {"deupdat", "updated"} => vn'[st[q].gvp].ref = 1
    BY <1>1, <1>2 DEF NamesProc, Inactive
  <1>5. st[q].pc \in {"enoent", "createde"} => Found(q)' = {}
    <2>1. InDir(st[q]) => Found(q)' = Found(q)
      BY <1>1 DEF Found
    <2> QED
      BY <1>1, <1>2, <2>1 DEF NamesProc
  <1>6. ASSUME st[q].pc = "cfail"
        PROVE  \/ NoAnswer(st[q])'
               \/ \E v \in Vnodes : /\ wchan'[q] = VxChan(v)
                                    /\ \A i \in DOMAIN nc' : Answers(nc'[i], st[q].dvp, st[q].name) => nc'[i].vp = v
    <2>1. CASE NoAnswer(st[q])
      BY <1>2, <1>3, <1>6, <2>1
    <2>2. CASE \E v \in Vnodes : /\ wchan[q] = VxChan(v)
                                 /\ \A i \in DOMAIN nc : Answers(nc[i], st[q].dvp, st[q].name) => nc[i].vp = v
      <3>1. PICK v \in Vnodes : /\ wchan[q] = VxChan(v)
                                /\ \A i \in DOMAIN nc : Answers(nc[i], st[q].dvp, st[q].name) => nc[i].vp = v
        BY <2>2
      <3>2. \A i \in DOMAIN nc' : Answers(nc'[i], st[q].dvp, st[q].name) => nc'[i].vp = v
        BY <1>2, <1>6, <3>1
      <3>3. CASE wchan'[q] = wchan[q]
        BY <3>1, <3>2, <3>3
      <3>4. CASE \A i \in DOMAIN nc' : Valid(nc'[i]) => nc'[i].vp # v
        <4>1. \A i \in DOMAIN nc' : ~Answers(nc'[i], st[q].dvp, st[q].name)
          BY <3>2, <3>4, NoneApart DEF Answers, Valid
        <4> QED
          BY <1>1, <4>1 DEF NoAnswer
      <3> QED
        BY <3>1, <3>3, <3>4
    <2> QED
      BY <1>1, <1>6, <2>1, <2>2 DEF NamesProc
  <1> QED
    BY <1>1, <1>2, <1>3, <1>4, <1>5, <1>6 DEF NamesProc

(* A step that changes neither the directory, nor the cache, nor which     *)
(* file a vnode has.                                                       *)
Stays(v) ==
    /\ vn'[v].bad = vn[v].bad /\ vn'[v].slot = vn[v].slot /\ vn'[v].name = vn[v].name
    /\ vn'[v].ref = vn[v].ref /\ vn'[v].del = vn[v].del
    /\ vn[v].del => vn'[v].use = vn[v].use
Still(p) ==
    /\ Others(p) /\ cpu \in {p, None} /\ dir' = dir /\ nc' = nc
    /\ \A v \in Vnodes : Stays(v)
    /\ \A q \in Procs, v \in Vnodes : wchan[q] = VxChan(v) => wchan'[q] = wchan[q]

LEMMA StillOther ==
    ASSUME Core, NamesInv, NEW p \in Procs, Still(p), NEW q \in Procs, q # p
    PROVE  NamesProc(q)'
  <1>1. Others(p) /\ cpu \in {p, None} /\ dir' = dir /\ nc' = nc /\ \A v \in Vnodes : Stays(v)
    BY DEF Still
  <1>2. HasFile(st[q]) => /\ vn'[st[q].vp].ref = vn[st[q].vp].ref
                          /\ vn'[st[q].vp].name = vn[st[q].vp].name
    BY <1>1, HasFileLeaf DEF HasFile, Stays
  <1>3. st[q].pc \in Inactive => vn'[st[q].gvp].ref = vn[st[q].gvp].ref
    <2>1. st[q].pc \in Inactive => st[q].gvp # None
      BY DEF Core, ProcOK, Own, Shape, Working
    <2> QED
      BY <1>1, <2>1, WorksOn DEF Stays
  <1>4. \A v \in Vnodes : wchan[q] = VxChan(v) => wchan'[q] = wchan[q]
    BY DEF Still
  <1>5. \A i \in DOMAIN nc' : \A d, n : Answers(nc'[i], d, n) =>
           \E j \in DOMAIN nc : Answers(nc[j], d, n) /\ nc[j].vp = nc'[i].vp
    BY <1>1
  <1> QED
    BY <1>1, <1>2, <1>3, <1>4, <1>5, NamesOther

LEMMA NamesStill ==
    ASSUME Core, NamesInv, NEW p \in Procs, Still(p), st[p].pc # "removede", NamesProc(p)'
    PROVE  NamesInv'
  <1>1. Others(p) /\ dir' = dir /\ nc' = nc /\ \A v \in Vnodes : Stays(v)
    BY DEF Still
  <1>2. \A q \in Procs : NamesProc(q)'
    BY StillOther
  <1>3. ASSUME NEW v \in Vnodes
        PROVE  NamesVnode(v)'
    <2>1. NamesVnode(v) /\ Stays(v)
      BY <1>1 DEF NamesInv
    <2>2. \A q \in Procs : st[q].pc = "removede" /\ st[q].vp = v =>
             st'[q].pc = "removede" /\ st'[q].vp = v
      BY <1>1 DEF Others
    <2> QED
      BY <1>1, <2>1, <2>2 DEF NamesVnode, Stays
  <1>4. NamesDir'
    BY <1>1 DEF NamesInv, NamesDir
  <1>5. NamesCache'
    <2>1. \A i \in DOMAIN nc : NamesEntry(nc[i]) /\ nc[i].dvp \in Vnodes /\ (Valid(nc[i]) => nc[i].vp \in Vnodes)
      BY EntryIs DEF NamesInv, NamesCache
    <2>2. \A i \in DOMAIN nc' : NamesEntry(nc[i])'
      BY <1>1, <2>1 DEF NamesEntry, Stays
    <2>3. \A i, j \in DOMAIN nc' : i < j /\ nc'[i].dvpid => ~Answers(nc'[j], nc'[i].dvp, nc'[i].name)
      BY <1>1 DEF NamesInv, NamesCache
    <2> QED
      BY <2>2, <2>3 DEF NamesCache
  <1> QED
    BY <1>2, <1>3, <1>4, <1>5 DEF NamesInv

(* Where the names say nothing of a process.                               *)
LEMMA NamesPlain ==
    ASSUME NEW p \in Procs, st'[p].gret # "newvnode",
           st'[p].pc \in {"idle", "cross", "cache", "rele", "inactive", "vgone", "vclean", "vinvalbuf"}
    PROVE  NamesProc(p)'
  <1>1. ~Getting(st'[p]) /\ ~HasFile(st'[p]) /\ ~Searched(st'[p])
    BY DEF Getting, Making, HasFile, Searched
  <1> QED
    BY <1>1 DEF NamesProc

(* deget, with the name in its slot and not in the cache.                  *)
LEMMA NamesGetting ==
    ASSUME NEW p \in Procs, Shape(st'[p]), Getting(st'[p]),
           st'[p].ret # "root" => dir'[st'[p].slot] = st'[p].name /\ NoAnswer(st[p])'
    PROVE  NamesProc(p)'
  <1>1. /\ ~HasFile(st'[p])
        /\ st'[p].pc \notin {"enter", "enoent", "createde", "malloc", "cfail", "detrunc", "deupdat", "updated"}
        /\ Searched(st'[p]) => st'[p].ret # "root"
    BY NoneApart DEF Shape, Getting, Making, HasFile, Searched, Cleaning
  <1> QED
    BY <1>1 DEF NamesProc

LEMMA StillQuiet ==
    ASSUME Core, NEW p \in Procs, NEW r, st' = [st EXCEPT ![p] = r], cpu \in {p, None},
           vn' = vn, dir' = dir, nc' = nc, wchan' = wchan,
           \A q \in Procs : q # p => held'[q] = held[q]
    PROVE  Still(p) /\ st'[p] = r
  <1>1. st \in [Procs -> StRec]
    BY DEF Core, Types
  <1>2. st'[p] = r /\ Others(p)
    BY <1>1 DEF Others
  <1>3. \A v \in Vnodes : Stays(v)
    BY DEF Stays
  <1> QED
    BY <1>2, <1>3 DEF Still

LEMMA ShapeNext ==
    ASSUME Core', NEW p \in Procs
    PROVE  Shape(st'[p])
  BY DEF Core, ProcOK, Own

(* What is known of the process that moves.                                *)
LEMMA NamesNow ==
    ASSUME Core, NamesInv, NEW p \in Procs
    PROVE  st[p] \in StRec /\ Shape(st[p]) /\ NamesProc(p) /\ st \in [Procs -> StRec]
  BY DEF Core, Types, ProcOK, Own, NamesInv

(* A call begins or ends, or goes on to what it gives up.                  *)
LEMMA CallNames ==
    ASSUME Core, NamesInv, NEW p \in Procs, NEW c, NEW n, Call(p, c, n)
    PROVE  NamesInv'
  <1>0. st[p] \in StRec /\ Shape(st[p])
    BY NamesNow
  <1>1. PICK r : r = [st[p] EXCEPT !.pc = "cross", !.call = c, !.name = n]
    OBVIOUS
  <1>2. /\ st[p].pc = "idle" /\ cpu \in {p, None} /\ st' = [st EXCEPT ![p] = r]
        /\ vn' = vn /\ dir' = dir /\ nc' = nc /\ wchan' = wchan /\ held' = held
    BY <1>1 DEF Call, At, fs
  <1>3. Still(p) /\ st'[p] = r
    BY <1>2, StillQuiet
  <1>4. r.pc = "cross" /\ r.gret = st[p].gret /\ st[p].gret # "newvnode"
    BY <1>0, <1>1, <1>2, NoneApart DEF StRec, Shape, Cleaning
  <1> QED
    BY <1>2, <1>3, <1>4, NamesPlain, NamesStill

LEMMA CrossNames ==
    ASSUME Core, Core', NamesInv, NEW p \in Procs, Cross(p)
    PROVE  NamesInv'
  <1>0. st[p] \in StRec /\ Shape(st[p])
    BY NamesNow
  <1>1. PICK r : r = IF mounted THEN [st[p] EXCEPT !.pc = "deget", !.slot = RootSlot, !.ret = "root"]
                     ELSE NoCall
    OBVIOUS
  <1>2. /\ st[p].pc = "cross" /\ cpu \in {p, None} /\ st' = [st EXCEPT ![p] = r]
        /\ vn' = vn /\ dir' = dir /\ nc' = nc /\ wchan' = wchan /\ held' = held
    BY <1>1 DEF Cross, At, Run, Yield
  <1>3. Still(p) /\ st'[p] = r
    BY <1>2, StillQuiet
  <1>4. CASE r = NoCall
    BY <1>2, <1>3, <1>4, NamesPlain, NamesStill, NoCallType, NoneApart
  <1>5. CASE r = [st[p] EXCEPT !.pc = "deget", !.slot = RootSlot, !.ret = "root"]
    <2>1. r.pc = "deget" /\ r.ret = "root"
      BY <1>0, <1>5 DEF StRec
    <2>2. Getting(r)
      BY <2>1 DEF Getting
    <2> QED
      BY <1>2, <1>3, <2>1, <2>2, ShapeNext, NamesGetting, NamesStill
  <1> QED
    BY <1>1, <1>4, <1>5

LEMMA CreatedNames ==
    ASSUME Core, NamesInv, NEW p \in Procs, Created(p) \/ LookupFails(p)
    PROVE  NamesInv'
  <1>0. st[p] \in StRec /\ Shape(st[p])
    BY NamesNow
  <1>1. PICK r : \E keep \in BOOLEAN : r = Releasing(st[p], <<st[p].dvp>>, keep) /\ st' = [st EXCEPT ![p] = r]
    BY DEF Created, LookupFails
  <1>2. /\ st[p].pc \in {"bwrite", "enoent"} /\ cpu \in {p, None}
        /\ vn' = vn /\ dir' = dir /\ nc' = nc /\ wchan' = wchan /\ held' = held
    BY DEF Created, LookupFails, At, Run, fs
  <1>3. Still(p) /\ st'[p] = r
    BY <1>1, <1>2, StillQuiet
  <1>4. r.pc = "rele" /\ r.gret = None
    BY <1>1 DEF Releasing, NoCall
  <1> QED
    BY <1>2, <1>3, <1>4, NoneApart, NamesPlain, NamesStill

LEMMA CloseNames ==
    ASSUME Core, NamesInv, NEW p \in Procs, Close(p)
    PROVE  NamesInv'
  <1>0. held \in [Procs -> SomeVnode]
    BY DEF Core, Types
  <1>1. PICK r : r = Releasing([st[p] EXCEPT !.vp = held[p]], <<held[p]>>, FALSE)
    OBVIOUS
  <1>2. /\ st[p].pc = "idle" /\ cpu \in {p, None} /\ st' = [st EXCEPT ![p] = r]
        /\ vn' = vn /\ dir' = dir /\ nc' = nc /\ wchan' = wchan /\ held' = [held EXCEPT ![p] = None]
    BY <1>1 DEF Close, At, Run, fs
  <1>3. Still(p) /\ st'[p] = r
    BY <1>0, <1>2, StillQuiet
  <1>4. r.pc = "rele" /\ r.gret = None
    BY <1>1 DEF Releasing, NoCall
  <1> QED
    BY <1>2, <1>3, <1>4, NoneApart, NamesPlain, NamesStill

LEMMA LookupFoundNames ==
    ASSUME Core, NamesInv, NEW p \in Procs, LookupFound(p)
    PROVE  NamesInv'
  <1>0. st[p] \in StRec /\ Shape(st[p]) /\ NamesProc(p)
    BY NamesNow
  <1>1. PICK r : r = IF st[p].call = "unlink" THEN [st[p] EXCEPT !.pc = "markdel"]
                     ELSE Releasing(st[p], <<st[p].dvp>>, TRUE)
    OBVIOUS
  <1>2. /\ st[p].pc = "found" /\ cpu \in {p, None} /\ st' = [st EXCEPT ![p] = r]
        /\ vn' = vn /\ dir' = dir /\ nc' = nc /\ wchan' = wchan /\ held' = held
    BY <1>1 DEF LookupFound, At, Run, fs
  <1>3. Still(p) /\ st'[p] = r
    BY <1>2, StillQuiet
  <1>4. CASE st[p].call = "unlink"
    <2>1. /\ r.pc = "markdel" /\ r.vp = st[p].vp /\ r.name = st[p].name /\ r.dvp = st[p].dvp
          /\ r.gret = st[p].gret /\ st[p].gret # "newvnode" /\ st[p].vp # None
      BY <1>0, <1>1, <1>2, <1>4, NoneApart DEF StRec, Shape, Cleaning
    <2>2. /\ vn[st[p].vp].ref = 1 /\ vn[st[p].vp].name = st[p].name /\ NoAnswer(st[p])
      BY <1>0, <1>2, <1>4, <2>1 DEF NamesProc, HasFile, Searched
    <2>3. NoAnswer(st[p])'
      BY <1>2, <1>3, <2>1, <2>2 DEF NoAnswer
    <2>4. ~Getting(r)
      BY <2>1 DEF Getting, Making
    <2>5. NamesProc(p)'
      BY <1>2, <1>3, <2>1, <2>2, <2>3, <2>4 DEF NamesProc
    <2> QED
      BY <1>2, <1>3, <2>5, NamesStill
  <1>5. CASE st[p].call # "unlink"
    <2>1. r.pc = "rele" /\ r.gret = None
      BY <1>1, <1>5 DEF Releasing, NoCall
    <2> QED
      BY <1>2, <1>3, <2>1, NoneApart, NamesPlain, NamesStill
  <1> QED
    BY <1>4, <1>5

(* deget begins to take a vnode, or finds none.                            *)
LEMMA getnewvnodeNames ==
    ASSUME Core, Core', NamesInv, NEW p \in Procs, getnewvnode(p)
    PROVE  NamesInv'
  <1>0. st[p] \in StRec /\ Shape(st[p]) /\ NamesProc(p)
    BY NamesNow
  <1>1. PICK pc, v, g : /\ pc = (IF vn[Head(vfree)].bad THEN "newvnode" ELSE "vgone") /\ v = Head(vfree)
                        /\ g = IF vn[Head(vfree)].bad THEN None ELSE "newvnode"
    OBVIOUS
  <1>2. PICK r : r = [st[p] EXCEPT !.pc = pc, !.gvp = v, !.gret = g]
    OBVIOUS
  <1>3. /\ st[p].pc = "deget" /\ cpu \in {p, None} /\ st' = [st EXCEPT ![p] = r]
        /\ vn' = vn /\ dir' = dir /\ nc' = nc /\ wchan' = wchan /\ held' = held
    BY <1>1, <1>2 DEF getnewvnode, At, Run, fs
  <1>4. Still(p) /\ st'[p] = r
    BY <1>3, StillQuiet
  <1>5. /\ r.pc = pc /\ r.gret = g /\ r.name = st[p].name /\ r.slot = st[p].slot
        /\ r.ret = st[p].ret /\ r.dvp = st[p].dvp
    BY <1>0, <1>2 DEF StRec
  <1>6. Getting(st[p]) /\ Getting(r)
    BY <1>1, <1>3, <1>5 DEF Getting, Making
  <1>7. st[p].ret # "root" => dir[st[p].slot] = st[p].name /\ NoAnswer(st[p])
    BY <1>0, <1>6 DEF NamesProc, Searched
  <1>8. st'[p].ret # "root" => dir'[st'[p].slot] = st'[p].name /\ NoAnswer(st[p])'
    BY <1>3, <1>4, <1>5, <1>7 DEF NoAnswer
  <1> QED
    BY <1>3, <1>4, <1>6, <1>8, ShapeNext, NamesGetting, NamesStill

LEMMA NoVnodeNames ==
    ASSUME Core, NamesInv, NEW p \in Procs, NoVnode(p)
    PROVE  NamesInv'
  <1>1. PICK r : r = IF st[p].ret = "root" THEN NoCall ELSE Releasing(st[p], <<st[p].dvp>>, FALSE)
    OBVIOUS
  <1>2. /\ st[p].pc = "deget" /\ cpu \in {p, None} /\ st' = [st EXCEPT ![p] = r]
        /\ vn' = vn /\ dir' = dir /\ nc' = nc /\ wchan' = wchan /\ held' = held
    BY <1>1 DEF NoVnode, At, Run, Yield
  <1>3. Still(p) /\ st'[p] = r
    BY <1>2, StillQuiet
  <1>4. r.pc \in {"idle", "rele"} /\ r.gret = None
    BY <1>1, NoCallType DEF Releasing, NoCall
  <1> QED
    BY <1>2, <1>3, <1>4, NoneApart, NamesPlain, NamesStill

(* The cache says that there is no such file.                              *)
LEMMA CacheNegativeNames ==
    ASSUME Core, NamesInv, NEW p \in Procs, CacheNegative(p)
    PROVE  NamesInv'
  <1>0. st[p] \in StRec /\ Shape(st[p]) /\ Types
    BY NamesNow DEF Core
  <1>1. PICK r : r = [st[p] EXCEPT !.pc = "enoent"]
    OBVIOUS
  <1>2. /\ st[p].pc = "cache" /\ cpu \in {p, None} /\ st' = [st EXCEPT ![p] = r]
        /\ vn' = vn /\ dir' = dir /\ nc' = nc /\ wchan' = wchan /\ held' = held
    BY <1>1 DEF CacheNegative, At, Goto, Run, fs
  <1>3. Still(p) /\ st'[p] = r
    BY <1>2, StillQuiet
  <1>4. r.pc = "enoent" /\ r.name = st[p].name /\ r.gret = st[p].gret /\ st[p].gret # "newvnode"
    BY <1>0, <1>1, <1>2, NoneApart DEF StRec, Shape, Cleaning
  <1>5. PICK i \in DOMAIN nc : i \in Matches(p) /\ nc[i].vp = None
    BY <1>0, FirstMatchIn DEF CacheNegative
  <1>6. nc[i].dvpid /\ nc[i].name = st[p].name
    BY <1>5 DEF Matches
  <1>7. \A s \in Slots : dir[s] # st[p].name
    BY <1>5, <1>6 DEF NamesInv, NamesCache, NamesEntry
  <1>8. Found(p)' = {}
    BY <1>2, <1>3, <1>4, <1>7 DEF Found
  <1>9. ~Getting(r) /\ ~HasFile(r) /\ ~Searched(r)
    BY <1>4 DEF Getting, Making, HasFile, Searched
  <1>10. NamesProc(p)'
    BY <1>3, <1>4, <1>8, <1>9 DEF NamesProc
  <1> QED
    BY <1>2, <1>3, <1>10, NamesStill

(* The search of the directory.                                            *)
LEMMA BufWaitNames ==
    ASSUME Core, NamesInv, NEW p \in Procs, BufWait(p)
    PROVE  NamesInv'
  <1>0. st[p] \in StRec /\ NamesProc(p) /\ st \in [Procs -> StRec]
    BY NamesNow
  <1>1. /\ st[p].pc \in {"search", "createde", "markdel", "deupdat"} /\ cpu \in {p, None} /\ st' = st
        /\ vn' = vn /\ dir' = dir /\ nc' = nc /\ wchan' = wchan /\ held' = held
    BY DEF BufWait, At, fs
  <1>2. Still(p)
    BY <1>0, <1>1, StillQuiet
  <1>3. NoAnswer(st[p])' <=> NoAnswer(st[p])
    BY <1>1 DEF NoAnswer
  <1>4. Found(p)' = Found(p)
    BY <1>1 DEF Found
  <1>5. NamesProc(p)'
    BY <1>0, <1>1, <1>3, <1>4 DEF NamesProc
  <1> QED
    BY <1>1, <1>2, <1>5, NamesStill

LEMMA SearchNames ==
    ASSUME Core, NamesInv, NEW p \in Procs, Search(p)
    PROVE  NamesInv'
  <1>0. st[p] \in StRec /\ Shape(st[p]) /\ NamesProc(p)
    BY NamesNow
  <1>1. PICK r : r = [st[p] EXCEPT !.pc = "scan"]
    OBVIOUS
  <1>2. /\ st[p].pc = "search" /\ cpu \in {p, None} /\ st' = [st EXCEPT ![p] = r]
        /\ vn' = vn /\ dir' = dir /\ nc' = nc /\ wchan' = wchan /\ held' = held
    BY <1>1 DEF Search, At, Goto, Yield
  <1>3. Still(p) /\ st'[p] = r
    BY <1>2, StillQuiet
  <1>4. /\ r.pc = "scan" /\ r.name = st[p].name /\ r.dvp = st[p].dvp
        /\ r.gret = st[p].gret /\ st[p].gret # "newvnode"
    BY <1>0, <1>1, <1>2, NoneApart DEF StRec, Shape, Cleaning
  <1>5. NoAnswer(st[p])
    BY <1>0, <1>2 DEF NamesProc, Searched
  <1>6. NoAnswer(st[p])'
    BY <1>2, <1>3, <1>4, <1>5 DEF NoAnswer
  <1>7. ~Getting(r) /\ ~HasFile(r)
    BY <1>4 DEF Getting, Making, HasFile
  <1>8. NamesProc(p)'
    BY <1>3, <1>4, <1>6, <1>7 DEF NamesProc
  <1> QED
    BY <1>2, <1>3, <1>8, NamesStill

LEMMA ScanFoundNames ==
    ASSUME Core, Core', NamesInv, NEW p \in Procs, ScanFound(p)
    PROVE  NamesInv'
  <1>0. st[p] \in StRec /\ Shape(st[p]) /\ NamesProc(p)
    BY NamesNow
  <1>1. PICK s : s = FirstSlot(Found(p))
    OBVIOUS
  <1>2. PICK r : r = [st[p] EXCEPT !.pc = "deget", !.slot = s, !.ret = "leaf"]
    OBVIOUS
  <1>3. /\ st[p].pc = "scan" /\ cpu \in {p, None} /\ st' = [st EXCEPT ![p] = r]
        /\ vn' = vn /\ dir' = dir /\ nc' = nc /\ wchan' = wchan /\ held' = held
    BY <1>1, <1>2 DEF ScanFound, At, Run, fs
  <1>4. Still(p) /\ st'[p] = r
    BY <1>3, StillQuiet
  <1>5. r.pc = "deget" /\ r.slot = s /\ r.name = st[p].name /\ r.dvp = st[p].dvp
    BY <1>0, <1>2 DEF StRec
  <1>6. dir[s] = st[p].name
    <2>1. Found(p) # {} /\ Found(p) \subseteq Slots
      BY DEF ScanFound, Found
    <2>2. s \in Found(p)
      BY <1>1, <2>1, FirstSlotIn
    <2> QED
      BY <2>2 DEF Found
  <1>7. NoAnswer(st[p])
    BY <1>0, <1>3 DEF NamesProc, Searched
  <1>8. dir'[r.slot] = r.name /\ NoAnswer(st[p])'
    BY <1>3, <1>4, <1>5, <1>6, <1>7 DEF NoAnswer
  <1>9. Getting(r)
    BY <1>5 DEF Getting
  <1> QED
    BY <1>3, <1>4, <1>8, <1>9, ShapeNext, NamesGetting, NamesStill

LEMMA ScanMissingNames ==
    ASSUME Core, NamesInv, NEW p \in Procs, ScanMissing(p)
    PROVE  NamesInv'
  <1>0. st[p] \in StRec /\ Shape(st[p]) /\ NamesProc(p)
    BY NamesNow
  <1>1. /\ st[p].pc = "scan" /\ cpu \in {p, None} /\ Found(p) = {} /\ cpu' = p
        /\ vn' = vn /\ dir' = dir /\ nc' = nc /\ wchan' = wchan /\ held' = held
    BY DEF ScanMissing, At, Run
  <1>2. PICK s : s = FirstSlot(FreeSlots)
    OBVIOUS
  <1>3. PICK r : /\ st' = [st EXCEPT ![p] = r]
                 /\ \/ st[p].call = "open" /\ r = [st[p] EXCEPT !.pc = "enter"]
                    \/ r = [st[p] EXCEPT !.pc = "enoent"]
                    \/ r = Releasing(st[p], <<st[p].dvp>>, FALSE)
                    \/ FreeSlots # {} /\ r = [st[p] EXCEPT !.pc = "createde", !.slot = s]
    <2>1. st[p].call \in {"open", "unlink", "create"}
      BY <1>0, <1>1, NoneApart DEF Shape, Letting, Cleaning
    <2>2. CASE st[p].call = "open"
      BY <2>2 DEF ScanMissing, Goto
    <2>3. CASE st[p].call = "unlink"
      BY <2>3 DEF ScanMissing, Goto
    <2>4. CASE st[p].call = "create" /\ FreeSlots = {}
      BY <2>4 DEF ScanMissing
    <2>5. CASE st[p].call = "create" /\ FreeSlots # {}
      BY <1>2, <2>5 DEF ScanMissing
    <2> QED
      BY <2>1, <2>2, <2>3, <2>4, <2>5
  <1>4. Still(p) /\ st'[p] = r
    BY <1>1, <1>3, StillQuiet
  <1>5. st[p].gret # "newvnode" /\ st[p].vp = None /\ InDir(st[p]) /\ vn[st[p].dvp].lock = p
    <2>1. st[p].gret # "newvnode" /\ st[p].vp = None /\ InDir(st[p])
      BY <1>0, <1>1, NoneApart DEF Shape, Cleaning, InDir
    <2> QED
      BY <2>1, DirIn
  <1>6. NoAnswer(st[p])
    BY <1>0, <1>1 DEF NamesProc, Searched
  <1>7. ASSUME r.name = st[p].name, r.dvp = st[p].dvp
        PROVE  NoAnswer(st[p])' /\ Found(p)' = {}
    BY <1>1, <1>4, <1>6, <1>7 DEF NoAnswer, Found
  <1>8. CASE r = [st[p] EXCEPT !.pc = "enter"]
    <2>1. /\ r.pc = "enter" /\ r.vp = None /\ r.gret = st[p].gret /\ r.name = st[p].name
          /\ r.dvp = st[p].dvp
      BY <1>0, <1>5, <1>8 DEF StRec
    <2>2. ~Getting(r) /\ ~HasFile(r)
      BY <1>5, <2>1 DEF Getting, Making, HasFile
    <2>3. NamesProc(p)'
      BY <1>1, <1>4, <1>5, <1>7, <2>1, <2>2 DEF NamesProc
    <2> QED
      BY <1>1, <1>4, <2>3, NamesStill
  <1>9. CASE r = [st[p] EXCEPT !.pc = "enoent"]
    <2>1. r.pc = "enoent" /\ r.gret = st[p].gret /\ r.name = st[p].name /\ r.dvp = st[p].dvp
      BY <1>0, <1>9 DEF StRec
    <2>2. ~Getting(r) /\ ~HasFile(r) /\ ~Searched(r)
      BY <1>5, <2>1 DEF Getting, Making, HasFile, Searched
    <2>3. NamesProc(p)'
      BY <1>1, <1>4, <1>7, <2>1, <2>2 DEF NamesProc
    <2> QED
      BY <1>1, <1>4, <2>3, NamesStill
  <1>10. CASE r = Releasing(st[p], <<st[p].dvp>>, FALSE)
    <2>1. r.pc = "rele" /\ r.gret = None
      BY <1>10 DEF Releasing, NoCall
    <2> QED
      BY <1>1, <1>4, <2>1, NoneApart, NamesPlain, NamesStill
  <1>11. CASE FreeSlots # {} /\ r = [st[p] EXCEPT !.pc = "createde", !.slot = s]
    <2>1. /\ r.pc = "createde" /\ r.gret = st[p].gret /\ r.name = st[p].name /\ r.dvp = st[p].dvp
          /\ r.slot = s
      BY <1>0, <1>11 DEF StRec
    <2>2. ~Getting(r) /\ ~HasFile(r)
      BY <1>5, <2>1 DEF Getting, Making, HasFile
    <2>3. FreeSlots \subseteq Slots
      BY DEF FreeSlots
    <2>4. dir[s] = None
      BY <1>2, <1>11, <2>3, FirstSlotIn DEF FreeSlots
    <2>5. NamesProc(p)'
      BY <1>1, <1>4, <1>7, <2>1, <2>2, <2>4 DEF NamesProc
    <2> QED
      BY <1>1, <1>4, <2>5, NamesStill
  <1> QED
    BY <1>3, <1>8, <1>9, <1>10, <1>11

LEMMA deupdatNames ==
    ASSUME Core, NamesInv, NEW p \in Procs, deupdat(p)
    PROVE  NamesInv'
  <1>0. st[p] \in StRec /\ Shape(st[p]) /\ NamesProc(p)
    BY NamesNow
  <1>1. PICK r : r = [st[p] EXCEPT !.pc = "updated"]
    OBVIOUS
  <1>2. /\ st[p].pc = "deupdat" /\ cpu \in {p, None} /\ st' = [st EXCEPT ![p] = r]
        /\ vn' = vn /\ dir' = dir /\ nc' = nc /\ wchan' = wchan /\ held' = held
    BY <1>1 DEF deupdat, At, Goto, Yield
  <1>3. Still(p) /\ st'[p] = r
    BY <1>2, StillQuiet
  <1>4. /\ r.pc = "updated" /\ r.gvp = st[p].gvp
        /\ r.gret = st[p].gret /\ st[p].gret # "newvnode"
    BY <1>0, <1>1, <1>2, NoneApart DEF StRec, Shape, Cleaning
  <1>5. ~Getting(r) /\ ~HasFile(r) /\ ~Searched(r)
    BY <1>4 DEF Getting, Making, HasFile, Searched
  <1>6. NamesProc(p)'
    BY <1>0, <1>2, <1>3, <1>4, <1>5 DEF NamesProc
  <1> QED
    BY <1>2, <1>3, <1>6, NamesStill

-----------------------------------------------------------------------------
(* Steps that lock, unlock and count vnodes, and wake processes.           *)
LEMMA StaysAt ==
    ASSUME Core, NEW v \in Vnodes, NEW x, vn' = [vn EXCEPT ![v] = x],
           x.bad = vn[v].bad, x.slot = vn[v].slot, x.name = vn[v].name, x.ref = vn[v].ref,
           x.del = vn[v].del, vn[v].del => x.use = vn[v].use
    PROVE  \A w \in Vnodes : Stays(w)
  <1>1. vn \in [Vnodes -> VnRec]
    BY DEF Core, Types
  <1> QED
    BY <1>1 DEF Stays

LEMMA VxSleep ==
    ASSUME Core, NEW p \in Procs, wchan[p] = None, NEW c, wchan' = [wchan EXCEPT ![p] = c]
    PROVE  /\ \A q \in Procs : q # p => wchan'[q] = wchan[q]
           /\ \A q \in Procs, v \in Vnodes : wchan[q] = VxChan(v) => wchan'[q] = wchan[q]
           /\ wchan'[p] = c
  <1>1. wchan \in [Procs -> Chans \cup {None}]
    BY DEF Core, Types
  <1> QED
    BY <1>1, NoneApart

LEMMA VxKept ==
    ASSUME Core, NEW p \in Procs, wchan[p] = None, NEW C, NEW V, C \subseteq {DeChan(v) : v \in V},
           wchan' = [q \in Procs |-> IF wchan[q] \in C THEN None ELSE wchan[q]]
    PROVE  /\ \A q \in Procs : q # p => wchan'[q] = wchan[q] \/ wchan'[q] = None
           /\ \A q \in Procs, v \in Vnodes : wchan[q] = VxChan(v) => wchan'[q] = wchan[q]
           /\ wchan'[p] = None
  <1>1. \A v \in Vnodes : VxChan(v) \notin C
    BY ChansApart
  <1> QED
    BY <1>1

LEMMA WaitersDe ==
    ASSUME NEW r, NEW v
    PROVE  Waiters(r, v) \subseteq {DeChan(w) : w \in {v}}
  BY DEF Waiters

LEMMA StillStep ==
    ASSUME Core, NEW p \in Procs, NEW r, st' = [st EXCEPT ![p] = r], cpu \in {p, None},
           dir' = dir, nc' = nc, \A v \in Vnodes : Stays(v),
           \A q \in Procs : q # p => held'[q] = held[q] /\ (wchan'[q] = wchan[q] \/ wchan'[q] = None),
           \A q \in Procs, v \in Vnodes : wchan[q] = VxChan(v) => wchan'[q] = wchan[q]
    PROVE  Still(p) /\ st'[p] = r
  <1>1. st \in [Procs -> StRec]
    BY DEF Core, Types
  <1>2. st'[p] = r /\ Others(p)
    BY <1>1 DEF Others
  <1> QED
    BY <1>2 DEF Still

(* A process that is in deget and stays there, or that is about something  *)
(* the names say nothing of.                                               *)
LEMMA NamesWorking ==
    ASSUME Core, Core', NamesInv, NEW p \in Procs, dir' = dir,
           st'[p].name = st[p].name, st'[p].slot = st[p].slot, st'[p].ret = st[p].ret,
           st'[p].dvp = st[p].dvp,
           Getting(st'[p]) => Getting(st[p]) /\ (NoAnswer(st[p]) => NoAnswer(st[p])'),
           ~Getting(st'[p]) => st'[p].pc \in {"rele", "inactive", "vgone", "vclean", "vinvalbuf"}
    PROVE  NamesProc(p)'
  <1>0. NamesProc(p) /\ Shape(st'[p])
    BY NamesNow, ShapeNext
  <1>1. CASE ~Getting(st'[p])
    BY <1>1, NamesPlain DEF Getting, Making
  <1>2. CASE Getting(st'[p])
    <2>1. st[p].ret # "root" => dir[st[p].slot] = st[p].name /\ NoAnswer(st[p])
      BY <1>0, <1>2 DEF NamesProc, Searched
    <2> QED
      BY <1>0, <1>2, <2>1, NamesGetting
  <1> QED
    BY <1>1, <1>2

LEMMA WaitStays ==
    ASSUME Core, NEW p \in Procs, NEW v \in Vnodes, wchan[p] = None, WaitDe(p, v) \/ WaitVx(p, v)
    PROVE  /\ \A w \in Vnodes : Stays(w)
           /\ \A q \in Procs : q # p => wchan'[q] = wchan[q]
           /\ \A q \in Procs, w \in Vnodes : wchan[q] = VxChan(w) => wchan'[q] = wchan[q]
           /\ WaitVx(p, v) => wchan'[p] = VxChan(v)
  <1>0. vn \in [Vnodes -> VnRec] /\ vn[v] \in VnRec
    BY DEF Core, Types
  <1>1. PICK x, c : /\ vn' = [vn EXCEPT ![v] = x] /\ wchan' = [wchan EXCEPT ![p] = c]
                    /\ x = [vn[v] EXCEPT !.want = TRUE] \/ x = [vn[v] EXCEPT !.xwant = TRUE]
                    /\ WaitVx(p, v) => c = VxChan(v)
    <2>1. CASE WaitDe(p, v) /\ ~WaitVx(p, v)
      BY <2>1 DEF WaitDe, Sleep
    <2>2. CASE WaitVx(p, v)
      BY <2>2 DEF WaitVx, Sleep
    <2> QED
      BY <2>1, <2>2
  <1>2. /\ x.bad = vn[v].bad /\ x.slot = vn[v].slot /\ x.name = vn[v].name /\ x.ref = vn[v].ref
        /\ x.del = vn[v].del /\ x.use = vn[v].use
    BY <1>0, <1>1 DEF VnRec
  <1>3. \A w \in Vnodes : Stays(w)
    BY <1>1, <1>2, StaysAt
  <1> QED
    BY <1>1, <1>3, VxSleep

LEMMA DegetWaitNames ==
    ASSUME Core, Core', NamesInv, NEW p \in Procs, DegetWait(p)
    PROVE  NamesInv'
  <1>0. st[p] \in StRec /\ Shape(st[p]) /\ st \in [Procs -> StRec]
    BY NamesNow
  <1>1. PICK v \in InHash(st[p].slot) : WaitDe(p, v) \/ WaitVx(p, v)
    BY DEF DegetWait
  <1>2. /\ st[p].pc = "deget" /\ wchan[p] = None /\ cpu \in {p, None} /\ st' = st
        /\ dir' = dir /\ nc' = nc /\ held' = held /\ v \in Vnodes
    BY DEF DegetWait, At, fs, InHash
  <1>3. Still(p)
    BY <1>0, <1>1, <1>2, WaitStays, StillStep
  <1>4. NamesProc(p)'
    BY <1>2, NamesWorking DEF Getting, NoAnswer
  <1> QED
    BY <1>2, <1>3, <1>4, NamesStill

LEMMA WriteNames ==
    ASSUME Core, NamesInv, NEW p \in Procs, Write(p)
    PROVE  NamesInv'
  <1>0. st[p] \in StRec /\ Shape(st[p]) /\ st \in [Procs -> StRec]
    BY NamesNow
  <1>1. PICK v : v = held[p]
    OBVIOUS
  <1>2. /\ st[p].pc = "idle" /\ cpu \in {p, None} /\ st' = st /\ wchan' = wchan
        /\ vn' = [vn EXCEPT ![v].upd = TRUE] /\ v # None
        /\ dir' = dir /\ nc' = nc /\ held' = held
    BY <1>1, ZenonT(60) DEF Write, At, fs
  <1>3. v \in Vnodes /\ vn[v] \in VnRec
    BY <1>1, <1>2, HasOpen
  <1>4. PICK x : x = [vn[v] EXCEPT !.upd = TRUE]
    OBVIOUS
  <1>5. /\ x.bad = vn[v].bad /\ x.slot = vn[v].slot /\ x.name = vn[v].name /\ x.ref = vn[v].ref
        /\ x.del = vn[v].del /\ x.use = vn[v].use
    BY <1>3, <1>4 DEF VnRec
  <1>6. \A w \in Vnodes : Stays(w)
    BY <1>2, <1>3, <1>4, <1>5, StaysAt
  <1>7. Still(p)
    BY <1>0, <1>2, <1>6, StillStep
  <1>8. st[p].gret # "newvnode"
    BY <1>0, <1>2, NoneApart DEF Shape, Cleaning
  <1> QED
    BY <1>2, <1>7, <1>8, NamesPlain, NamesStill

LEMMA vgoneNames ==
    ASSUME Core, Core', NamesInv, NEW p \in Procs, vgone(p)
    PROVE  NamesInv'
  <1>0. st[p] \in StRec /\ Shape(st[p]) /\ st \in [Procs -> StRec]
    BY NamesNow
  <1>1. PICK v : v = st[p].gvp
    OBVIOUS
  <1>2. /\ st[p].pc = "vgone" /\ wchan[p] = None /\ cpu \in {p, None}
        /\ dir' = dir /\ nc' = nc /\ held' = held
        /\ \/ WaitVx(p, v) /\ Back(p)
           \/ vn' = [vn EXCEPT ![v].xlock = TRUE] /\ Goto(p, "vclean") /\ wchan' = wchan
    BY <1>1, ZenonT(60) DEF vgone, At, fs, Run
  <1>3. st[p].gvp # None /\ st[p].gret \in {"newvnode", "rele"}
    BY <1>0, <1>2 DEF Shape, StRec, Working
  <1>4. v \in Vnodes /\ vn[v] \in VnRec
    BY <1>1, <1>3, WorksOn
  <1>5. CASE WaitVx(p, v) /\ Back(p)
    <2>1. PICK r : r = [st[p] EXCEPT !.pc = st[p].gret, !.gret = None,
                                     !.gvp = IF st[p].gret = "newvnode" THEN @ ELSE None]
      OBVIOUS
    <2>2. st' = [st EXCEPT ![p] = r]
      BY <1>0, <1>5, <2>1 DEF Back
    <2>3. Still(p) /\ st'[p] = r
      BY <1>2, <1>4, <1>5, <2>2, WaitStays, StillStep
    <2>4. /\ r.pc = st[p].gret /\ r.gret = None /\ r.name = st[p].name /\ r.slot = st[p].slot
          /\ r.ret = st[p].ret /\ r.dvp = st[p].dvp
      BY <1>0, <2>1 DEF StRec
    <2>5. NoAnswer(st[p]) => NoAnswer(st[p])'
      BY <1>2, <2>3, <2>4 DEF NoAnswer
    <2>6. /\ Getting(r) => Getting(st[p])
          /\ ~Getting(r) => r.pc = "rele"
      BY <1>3, <2>4, NoneApart DEF Getting, Making
    <2>7. NamesProc(p)'
      BY <1>2, <2>3, <2>4, <2>5, <2>6, NamesWorking
    <2> QED
      BY <1>2, <2>3, <2>7, NamesStill
  <1>6. CASE vn' = [vn EXCEPT ![v].xlock = TRUE] /\ Goto(p, "vclean") /\ wchan' = wchan
    <2>1. PICK r : r = [st[p] EXCEPT !.pc = "vclean"]
      OBVIOUS
    <2>2. PICK x : x = [vn[v] EXCEPT !.xlock = TRUE]
      OBVIOUS
    <2>3. /\ x.bad = vn[v].bad /\ x.slot = vn[v].slot /\ x.name = vn[v].name /\ x.ref = vn[v].ref
          /\ x.del = vn[v].del /\ x.use = vn[v].use
      BY <1>4, <2>2 DEF VnRec
    <2>4. \A w \in Vnodes : Stays(w)
      BY <1>4, <1>6, <2>2, <2>3, StaysAt
    <2>5. st' = [st EXCEPT ![p] = r]
      BY <1>6, <2>1 DEF Goto
    <2>6. Still(p) /\ st'[p] = r
      BY <1>2, <1>6, <2>4, <2>5, StillStep
    <2>7. /\ r.pc = "vclean" /\ r.gret = st[p].gret /\ r.name = st[p].name /\ r.slot = st[p].slot
          /\ r.ret = st[p].ret /\ r.dvp = st[p].dvp
      BY <1>0, <2>1 DEF StRec
    <2>8. NoAnswer(st[p]) => NoAnswer(st[p])'
      BY <1>2, <2>6, <2>7 DEF NoAnswer
    <2>9. Getting(r) => Getting(st[p])
      BY <2>7 DEF Getting, Making
    <2>10. NamesProc(p)'
      BY <1>2, <2>6, <2>7, <2>8, <2>9, NamesWorking
    <2> QED
      BY <1>2, <2>6, <2>10, NamesStill
  <1> QED
    BY <1>2, <1>5, <1>6

LEMMA vcleanNames ==
    ASSUME Core, Core', NamesInv, NEW p \in Procs, vclean(p)
    PROVE  NamesInv'
  <1>0. st[p] \in StRec /\ Shape(st[p]) /\ st \in [Procs -> StRec]
    BY NamesNow
  <1>1. PICK v : v = st[p].gvp
    OBVIOUS
  <1>2. /\ st[p].pc = "vclean" /\ wchan[p] = None /\ cpu \in {p, None}
        /\ dir' = dir /\ nc' = nc /\ held' = held
        /\ \/ (WaitVx(p, v) \/ WaitDe(p, v)) /\ st' = st
           \/ vn' = [vn EXCEPT ![v].lock = p] /\ Goto(p, "vinvalbuf") /\ wchan' = wchan
    BY <1>1, ZenonT(60) DEF vclean, At, fs, Yield
  <1>3. st[p].gvp # None
    BY <1>0, <1>2 DEF Shape, Working, Cleaning
  <1>4. v \in Vnodes /\ vn[v] \in VnRec
    BY <1>1, <1>3, WorksOn
  <1>5. CASE (WaitVx(p, v) \/ WaitDe(p, v)) /\ st' = st
    <2>1. Still(p)
      BY <1>0, <1>2, <1>4, <1>5, WaitStays, StillStep
    <2>2. NamesProc(p)'
      BY <1>2, <1>5, NamesWorking DEF NoAnswer
    <2> QED
      BY <1>2, <2>1, <2>2, NamesStill
  <1>6. CASE vn' = [vn EXCEPT ![v].lock = p] /\ Goto(p, "vinvalbuf") /\ wchan' = wchan
    <2>1. PICK r : r = [st[p] EXCEPT !.pc = "vinvalbuf"]
      OBVIOUS
    <2>2. PICK x : x = [vn[v] EXCEPT !.lock = p]
      OBVIOUS
    <2>3. /\ x.bad = vn[v].bad /\ x.slot = vn[v].slot /\ x.name = vn[v].name /\ x.ref = vn[v].ref
          /\ x.del = vn[v].del /\ x.use = vn[v].use
      BY <1>4, <2>2 DEF VnRec
    <2>4. \A w \in Vnodes : Stays(w)
      BY <1>4, <1>6, <2>2, <2>3, StaysAt
    <2>5. st' = [st EXCEPT ![p] = r]
      BY <1>6, <2>1 DEF Goto
    <2>6. Still(p) /\ st'[p] = r
      BY <1>2, <1>6, <2>4, <2>5, StillStep
    <2>7. /\ r.pc = "vinvalbuf" /\ r.gret = st[p].gret /\ r.name = st[p].name /\ r.slot = st[p].slot
          /\ r.ret = st[p].ret /\ r.dvp = st[p].dvp
      BY <1>0, <2>1 DEF StRec
    <2>8. NoAnswer(st[p]) => NoAnswer(st[p])'
      BY <1>2, <2>6, <2>7 DEF NoAnswer
    <2>9. Getting(r) => Getting(st[p])
      BY <2>7 DEF Getting, Making
    <2>10. NamesProc(p)'
      BY <1>2, <2>6, <2>7, <2>8, <2>9, NamesWorking
    <2> QED
      BY <1>2, <2>6, <2>10, NamesStill
  <1> QED
    BY <1>2, <1>5, <1>6

(* Of the entries that match, only the first can answer.                   *)
LEMMA FirstAnswers ==
    ASSUME Core, NamesInv, NEW p \in Procs, NEW j \in DOMAIN nc,
           Answers(nc[j], st[p].dvp, st[p].name)
    PROVE  Matches(p) # {} /\ j = FirstMatch(p)
  <1>0. Types /\ DOMAIN nc \subseteq Nat
    BY DEF Core, Types
  <1>1. j \in Matches(p)
    BY DEF Matches, Answers
  <1>2. Matches(p) \subseteq Nat
    BY <1>0 DEF Matches
  <1>3. \E i \in Matches(p) : \A k \in Matches(p) : i <= k
    BY <1>1, <1>2, Least
  <1>4. PICK i : i = FirstMatch(p)
    OBVIOUS
  <1>5. i \in Matches(p) /\ i <= j
    BY <1>1, <1>3, <1>4 DEF FirstMatch
  <1>6. i \in DOMAIN nc /\ nc[i].dvpid /\ nc[i].dvp = st[p].dvp /\ nc[i].name = st[p].name
    BY <1>5 DEF Matches
  <1>7. ~(i < j)
    BY <1>6 DEF NamesInv, NamesCache
  <1> QED
    BY <1>0, <1>1, <1>4, <1>5, <1>6, <1>7

LEMMA CacheHitNames ==
    ASSUME Core, NamesInv, NEW p \in Procs, CacheHit(p)
    PROVE  NamesInv'
  <1>0. st[p] \in StRec /\ Shape(st[p]) /\ st \in [Procs -> StRec] /\ Types
    BY NamesNow DEF Core
  <1>1. PICK i : i = FirstMatch(p)
    OBVIOUS
  <1>2. PICK v : v = nc[i].vp
    OBVIOUS
  <1>3. /\ st[p].pc = "cache" /\ wchan[p] = None /\ cpu \in {p, None} /\ Matches(p) # {}
        /\ v # None /\ nc[i].vpid
        /\ dir' = dir /\ nc' = nc /\ held' = held
        /\ \/ WaitVx(p, v) /\ Goto(p, "cfail")
           \/ /\ vn' = [vn EXCEPT ![v].use = @ + 1]
              /\ st' = [st EXCEPT ![p].pc = "clock", ![p].vp = v] /\ wchan' = wchan
    BY <1>1, <1>2, ZenonT(60) DEF CacheHit, At, fs, Run
  <1>4. i \in DOMAIN nc /\ nc[i].dvpid /\ nc[i].dvp = st[p].dvp /\ nc[i].name = st[p].name /\ Valid(nc[i])
    BY <1>0, <1>1, <1>2, <1>3, FirstMatchIn DEF Matches, Valid
  <1>5. v \in Vnodes /\ vn[v] \in VnRec
    BY <1>0, <1>2, <1>4, EntryIs DEF Types
  <1>6. vn[v].ref = 1 /\ vn[v].name = st[p].name
    BY <1>2, <1>4 DEF NamesInv, NamesCache, NamesEntry
  <1>7. ~vn[v].del
    BY <1>5, <1>6 DEF NamesInv, NamesVnode
  <1>8. st[p].gret # "newvnode"
    BY <1>0, <1>3, NoneApart DEF Shape, Cleaning
  <1>9. CASE WaitVx(p, v) /\ Goto(p, "cfail")
    <2>1. PICK r : r = [st[p] EXCEPT !.pc = "cfail"]
      OBVIOUS
    <2>2. st' = [st EXCEPT ![p] = r]
      BY <1>9, <2>1 DEF Goto
    <2>3. Still(p) /\ st'[p] = r /\ wchan'[p] = VxChan(v)
      BY <1>3, <1>5, <1>9, <2>2, WaitStays, StillStep
    <2>4. r.pc = "cfail" /\ r.gret = st[p].gret /\ r.name = st[p].name /\ r.dvp = st[p].dvp
      BY <1>0, <2>1 DEF StRec
    <2>5. ~Getting(r) /\ ~HasFile(r) /\ ~Searched(r)
      BY <1>8, <2>4 DEF Getting, Making, HasFile, Searched
    <2>6. \A j \in DOMAIN nc' : Answers(nc'[j], r.dvp, r.name) => nc'[j].vp = v
      BY <1>1, <1>2, <1>3, <2>4, FirstAnswers
    <2>7. NamesProc(p)'
      BY <1>5, <2>3, <2>4, <2>5, <2>6 DEF NamesProc
    <2> QED
      BY <1>3, <2>3, <2>7, NamesStill
  <1>10. CASE /\ vn' = [vn EXCEPT ![v].use = @ + 1]
              /\ st' = [st EXCEPT ![p].pc = "clock", ![p].vp = v] /\ wchan' = wchan
    <2>1. PICK r : r = [st[p] EXCEPT !.pc = "clock", !.vp = v]
      OBVIOUS
    <2>2. PICK x : x = [vn[v] EXCEPT !.use = vn[v].use + 1]
      OBVIOUS
    <2>3. /\ x.bad = vn[v].bad /\ x.slot = vn[v].slot /\ x.name = vn[v].name /\ x.ref = vn[v].ref
          /\ x.del = vn[v].del
      BY <1>5, <2>2 DEF VnRec
    <2>4. vn' = [vn EXCEPT ![v] = x] /\ st' = [st EXCEPT ![p] = r]
      <3>1. vn' = [vn EXCEPT ![v] = x]
        BY <1>0, <1>5, <1>10, <2>2 DEF Types
      <3>2. st' = [st EXCEPT ![p] = r]
        BY <1>0, <1>10, <2>1
      <3> QED
        BY <3>1, <3>2
    <2>5. \A w \in Vnodes : Stays(w)
      BY <1>5, <1>7, <2>3, <2>4, StaysAt
    <2>a. cpu \in {p, None} /\ dir' = dir /\ nc' = nc /\ held' = held /\ wchan' = wchan
      BY <1>3, <1>10
    <2>6. Still(p) /\ st'[p] = r
      BY <2>a, <2>4, <2>5, StillStep
    <2>7. r.pc = "clock" /\ r.gret = st[p].gret /\ r.name = st[p].name /\ r.vp = v
      BY <1>0, <2>1 DEF StRec
    <2>8. ~Getting(r) /\ ~Searched(r)
      BY <1>8, <2>7 DEF Getting, Making, Searched
    <2>9. vn'[v].ref = 1 /\ vn'[v].name = r.name
      BY <1>5, <1>6, <2>5, <2>7 DEF Stays
    <2>10. NamesProc(p)'
      BY <2>6, <2>7, <2>8, <2>9 DEF NamesProc
    <2> QED
      BY <1>3, <2>6, <2>10, NamesStill
  <1> QED
    BY <1>3, <1>9, <1>10

LEMMA CacheFailNames ==
    ASSUME Core, NamesInv, NEW p \in Procs, CacheFail(p)
    PROVE  NamesInv'
  <1>0. st[p] \in StRec /\ Shape(st[p]) /\ st \in [Procs -> StRec] /\ NamesProc(p)
    BY NamesNow
  <1>1. PICK d, C : d = st[p].dvp /\ C = Waiters(vn[d], d)
    OBVIOUS
  <1>2. /\ st[p].pc = "cfail" /\ wchan[p] = None /\ cpu \in {p, None}
        /\ dir' = dir /\ nc' = nc /\ held' = held /\ Goto(p, "search")
        /\ vn' = [vn EXCEPT ![d].want = FALSE]
        /\ wchan' = [q \in Procs |-> IF wchan[q] \in C THEN None ELSE wchan[q]]
    BY <1>1, ZenonT(60) DEF CacheFail, At, fs, Wakeup
  <1>3. st[p].dvp # None /\ st[p].gret # "newvnode"
    BY <1>0, <1>2, NoneApart DEF Shape, Cleaning
  <1>4. d \in Vnodes /\ vn[d] \in VnRec
    BY <1>1, <1>3, HasDir
  <1>5. PICK x : x = [vn[d] EXCEPT !.want = FALSE]
    OBVIOUS
  <1>6. /\ x.bad = vn[d].bad /\ x.slot = vn[d].slot /\ x.name = vn[d].name /\ x.ref = vn[d].ref
        /\ x.del = vn[d].del /\ x.use = vn[d].use
    BY <1>4, <1>5 DEF VnRec
  <1>7. \A w \in Vnodes : Stays(w)
    BY <1>2, <1>4, <1>5, <1>6, StaysAt
  <1>8. PICK r : r = [st[p] EXCEPT !.pc = "search"]
    OBVIOUS
  <1>9. st' = [st EXCEPT ![p] = r]
    BY <1>2, <1>8 DEF Goto
  <1>10. /\ \A q \in Procs : q # p => wchan'[q] = wchan[q] \/ wchan'[q] = None
         /\ \A q \in Procs, v \in Vnodes : wchan[q] = VxChan(v) => wchan'[q] = wchan[q]
    BY <1>1, <1>2, WaitersDe, VxKept
  <1>11. Still(p) /\ st'[p] = r
    BY <1>2, <1>7, <1>9, <1>10, StillStep
  <1>12. r.pc = "search" /\ r.gret = st[p].gret /\ r.name = st[p].name /\ r.dvp = st[p].dvp
    BY <1>0, <1>8 DEF StRec
  <1>13. ~Getting(r) /\ ~HasFile(r)
    BY <1>3, <1>12 DEF Getting, Making, HasFile
  <1>14. NoAnswer(st[p])
    BY <1>0, <1>2, NoneApart DEF NamesProc
  <1>15. NoAnswer(st[p])'
    BY <1>2, <1>11, <1>12, <1>14 DEF NoAnswer
  <1>16. NamesProc(p)'
    BY <1>11, <1>12, <1>13, <1>15 DEF NamesProc
  <1> QED
    BY <1>2, <1>11, <1>16, NamesStill

LEMMA CacheLockNames ==
    ASSUME Core, NamesInv, NEW p \in Procs, CacheLock(p)
    PROVE  NamesInv'
  <1>0. st[p] \in StRec /\ Shape(st[p]) /\ st \in [Procs -> StRec] /\ NamesProc(p) /\ Types
    BY NamesNow DEF Core
  <1>1. PICK v, d : v = st[p].vp /\ d = st[p].dvp
    OBVIOUS
  <1>2. PICK y, C : /\ y = (IF st[p].call = "open" THEN Unlocked(vn[d]) ELSE vn[d])
                    /\ C = IF st[p].call = "open" THEN Waiters(vn[d], d) ELSE {}
    OBVIOUS
  <1>3. st[p].pc = "clock" /\ wchan[p] = None /\ cpu \in {p, None} /\ dir' = dir /\ nc' = nc /\ held' = held
    BY DEF CacheLock, At, fs
  <1>4. st[p].vp # None /\ st[p].dvp # None /\ st[p].gret # "newvnode" /\ st[p].call # "unlink"
    BY <1>0, <1>3, NoneApart DEF Shape, Cleaning
  <1>5. v \in Vnodes /\ vn[v] \in VnRec /\ d \in Vnodes /\ vn[d] \in VnRec /\ d # v
    BY <1>1, <1>4, HasDir, HasFileLeaf
  <1>6. vn[v].ref = 1 /\ vn[v].name = st[p].name
    BY <1>0, <1>1, <1>3, <1>4 DEF NamesProc, HasFile
  <1>7. CASE vn[v].lock # None
    <2>1. WaitDe(p, v) /\ st' = st
      BY <1>1, <1>7 DEF CacheLock
    <2>2. Still(p)
      BY <1>0, <1>3, <1>5, <2>1, WaitStays, StillStep
    <2>3. vn'[v].ref = 1 /\ vn'[v].name = st[p].name
      BY <1>5, <1>6, <2>2 DEF Still, Stays
    <2>4. ~Getting(st[p]) /\ ~Searched(st[p])
      BY <1>3, <1>4 DEF Getting, Making, Searched
    <2>5. NamesProc(p)'
      BY <1>1, <1>3, <2>1, <2>3, <2>4 DEF NamesProc
    <2> QED
      BY <1>3, <2>2, <2>5, NamesStill
  <1>8. CASE vn[v].lock = None
    <2>1. PICK r : r = [st[p] EXCEPT !.pc = "found"]
      OBVIOUS
    <2>2. /\ vn' = [vn EXCEPT ![v].lock = p, ![d] = IF st[p].call = "open" THEN Unlocked(@) ELSE @]
          /\ wchan' = [q \in Procs |-> IF wchan[q] \in C THEN None ELSE wchan[q]]
          /\ st' = [st EXCEPT ![p] = r]
      BY <1>1, <1>2, <1>8, <2>1 DEF CacheLock, Wakeup, Goto
    <2>3. /\ y.bad = vn[d].bad /\ y.slot = vn[d].slot /\ y.name = vn[d].name /\ y.ref = vn[d].ref
          /\ y.del = vn[d].del /\ y.use = vn[d].use
      BY <1>2, <1>5 DEF VnRec, Unlocked
    <2>4. PICK x : x = [vn[v] EXCEPT !.lock = p]
      OBVIOUS
    <2>5. /\ x.bad = vn[v].bad /\ x.slot = vn[v].slot /\ x.name = vn[v].name /\ x.ref = vn[v].ref
          /\ x.del = vn[v].del /\ x.use = vn[v].use
      BY <1>5, <2>4 DEF VnRec
    <2>6. vn'[v] = x /\ vn'[d] = y /\ \A w \in Vnodes : w # v /\ w # d => vn'[w] = vn[w]
      BY <1>0, <1>2, <1>5, <2>2, <2>4 DEF Types
    <2>7. \A w \in Vnodes : Stays(w)
      BY <2>3, <2>5, <2>6 DEF Stays
    <2>8. C \subseteq {DeChan(w) : w \in {d}}
      BY <1>2, WaitersDe
    <2>9. /\ \A q \in Procs : q # p => wchan'[q] = wchan[q] \/ wchan'[q] = None
          /\ \A q \in Procs, w \in Vnodes : wchan[q] = VxChan(w) => wchan'[q] = wchan[q]
      BY <1>3, <2>2, <2>8, VxKept
    <2>10. Still(p) /\ st'[p] = r
      BY <1>3, <2>2, <2>7, <2>9, StillStep
    <2>11. /\ r.pc = "found" /\ r.gret = st[p].gret /\ r.name = st[p].name /\ r.vp = v
           /\ r.call = st[p].call
      BY <1>0, <1>1, <2>1 DEF StRec
    <2>12. ~Getting(r) /\ ~Searched(r)
      BY <1>4, <2>11 DEF Getting, Making, Searched
    <2>13. vn'[v].ref = 1 /\ vn'[v].name = r.name
      BY <1>6, <2>5, <2>6, <2>11
    <2>14. NamesProc(p)'
      BY <2>10, <2>11, <2>12, <2>13 DEF NamesProc
    <2> QED
      BY <1>3, <2>10, <2>14, NamesStill
  <1> QED
    BY <1>7, <1>8

(* A vnode is given up, unlocked or kept; a file is flushed.               *)
LEMMA vreleNames ==
    ASSUME Core, NamesInv, NEW p \in Procs, vrele(p)
    PROVE  NamesInv'
  <1>0. st[p] \in StRec /\ Shape(st[p]) /\ st \in [Procs -> StRec] /\ Types
    BY NamesNow DEF Core
  <1>1. PICK v : v = Head(st[p].rel)
    OBVIOUS
  <1> DEFINE mine == vn[v].lock = p
             last == vn[v].use = 1
  <1>2. PICK C, x, r : /\ C = IF mine THEN Waiters(vn[v], v) ELSE {}
                       /\ x = Uncounted(IF mine THEN Unlocked(vn[v]) ELSE vn[v])
                       /\ r = Drop(st[p], v, last)
    OBVIOUS
  <1>3. /\ st[p].pc = "rele" /\ wchan[p] = None /\ cpu \in {p, None} /\ st[p].rel # <<>>
        /\ vn' = [vn EXCEPT ![v] = Uncounted(IF mine THEN Unlocked(@) ELSE @)]
        /\ st' = [st EXCEPT ![p] = Drop(@, v, last)]
        /\ wchan' = [q \in Procs |-> IF wchan[q] \in C THEN None ELSE wchan[q]]
        /\ nc' = nc /\ dir' = dir /\ held' = held
    BY <1>1, <1>2, ZenonT(60) DEF vrele, At, Wakeup, fs
  <1>4. vn' = [vn EXCEPT ![v] = x] /\ st' = [st EXCEPT ![p] = r]
    BY <1>2, <1>3
  <1>5. st[p].gret = None /\ Leaves(st[p])
    BY <1>0, <1>3, NoneApart DEF Shape, Letting, Cleaning
  <1>6. v \in Vnodes /\ (v = st[p].dvp \/ v = st[p].vp)
    <2>1. st[p].rel \in Seq(Vnodes)
      BY <1>0 DEF StRec
    <2>2. v \in Vnodes
      BY <2>1, <1>1, <1>3, HeadTailProperties
    <2> QED
      BY <1>1, <1>3, <1>5, <2>1, <2>2 DEF Leaves
  <1>7. vn[v] \in VnRec /\ vn[v].use > 0 /\ ~vn[v].del
    <2>1. vn[v] \in VnRec /\ vn[v].use > 0
      BY <1>0, <1>6, InUse DEF Types
    <2> QED
      BY <1>6, <2>1 DEF NamesInv, NamesVnode
  <1>8. /\ x.bad = vn[v].bad /\ x.slot = vn[v].slot /\ x.name = vn[v].name /\ x.ref = vn[v].ref
        /\ x.del = vn[v].del
    BY <1>2, <1>7 DEF VnRec, Uncounted, Unlocked
  <1>9. \A w \in Vnodes : Stays(w)
    BY <1>4, <1>6, <1>7, <1>8, StaysAt
  <1>10. C \subseteq {DeChan(w) : w \in {v}}
    BY <1>2, WaitersDe
  <1>11. /\ \A q \in Procs : q # p => wchan'[q] = wchan[q] \/ wchan'[q] = None
         /\ \A q \in Procs, w \in Vnodes : wchan[q] = VxChan(w) => wchan'[q] = wchan[q]
    BY <1>3, <1>10, VxKept
  <1>12. Still(p) /\ st'[p] = r
    BY <1>3, <1>4, <1>9, <1>11, StillStep
  <1>13. r.pc \in {"inactive", "rele"} /\ r.gret = None
    BY <1>0, <1>2, <1>5 DEF Drop, StRec
  <1> QED
    BY <1>3, <1>12, <1>13, NoneApart, NamesPlain, NamesStill

LEMMA ReturnNames ==
    ASSUME Core, NamesInv, NEW p \in Procs, Return(p)
    PROVE  NamesInv'
  <1>0. st[p] \in StRec /\ Shape(st[p]) /\ st \in [Procs -> StRec] /\ Types
    BY NamesNow DEF Core
  <1>1. /\ st[p].pc = "rele" /\ wchan[p] = None /\ cpu \in {p, None}
        /\ st' = [st EXCEPT ![p] = NoCall] /\ nc' = nc /\ dir' = dir /\ st[p].rel = <<>>
    BY ZenonT(60) DEF Return, At, fs
  <1>2. Still(p) /\ st'[p] = NoCall
    <2>1. CASE ~st[p].keep
      <3>1. held' = held /\ vn' = vn /\ wchan' = wchan
        BY <2>1 DEF Return
      <3> QED
        BY <1>1, <3>1, StillQuiet
    <2>2. CASE st[p].keep
      <3>1. PICK v : v = st[p].vp
        OBVIOUS
      <3>2. PICK C, x : C = Waiters(vn[v], v) /\ x = Unlocked(vn[v])
        OBVIOUS
      <3>3. /\ held' = [held EXCEPT ![p] = v] /\ vn' = [vn EXCEPT ![v] = x]
            /\ wchan' = [q \in Procs |-> IF wchan[q] \in C THEN None ELSE wchan[q]]
        BY <2>2, <3>1, <3>2 DEF Return
      <3>4. Leaves(st[p])
        BY <1>0, <1>1 DEF Shape, Letting
      <3>5. st[p].vp # None
        BY <1>1, <2>2, <3>4 DEF Leaves
      <3>6. v \in Vnodes /\ vn[v] \in VnRec
        BY <3>1, <3>5, HasFileLeaf
      <3>7. /\ x.bad = vn[v].bad /\ x.slot = vn[v].slot /\ x.name = vn[v].name /\ x.ref = vn[v].ref
            /\ x.del = vn[v].del /\ x.use = vn[v].use
        BY <3>2, <3>6 DEF VnRec, Unlocked
      <3>8. \A w \in Vnodes : Stays(w)
        BY <3>3, <3>6, <3>7, StaysAt
      <3>9. /\ \A q \in Procs : q # p => wchan'[q] = wchan[q] \/ wchan'[q] = None
            /\ \A q \in Procs, w \in Vnodes : wchan[q] = VxChan(w) => wchan'[q] = wchan[q]
        BY <1>1, <3>2, <3>3, WaitersDe, VxKept
      <3>10. \A q \in Procs : q # p => held'[q] = held[q]
        BY <1>0, <3>3 DEF Types
      <3> QED
        BY <1>1, <3>8, <3>9, <3>10, StillStep
    <2> QED
      BY <2>1, <2>2
  <1> QED
    BY <1>1, <1>2, NoCallType, NoneApart, NamesPlain, NamesStill

LEMMA GonePlain ==
    ASSUME Core, NEW p \in Procs, NEW clean \in BOOLEAN, Gone(p, clean), st[p].gret = None
    PROVE  \E r : st' = [st EXCEPT ![p] = r] /\ r.pc \in {"vgone", "rele"} /\ r.gret # "newvnode"
  <1>0. st[p] \in StRec /\ st \in [Procs -> StRec]
    BY DEF Core, Types
  <1>1. st' = [st EXCEPT ![p] = GoneTo(st[p], clean)]
    BY <1>0 DEF Gone, GoneTo
  <1>2. GoneTo(st[p], clean).pc \in {"vgone", "rele"} /\ GoneTo(st[p], clean).gret # "newvnode"
    BY <1>0, NoneApart DEF GoneTo, StRec
  <1> QED
    BY <1>1, <1>2

LEMMA msdosfs_inactiveNames ==
    ASSUME Core, NamesInv, NEW p \in Procs, msdosfs_inactive(p)
    PROVE  NamesInv'
  <1>0. st[p] \in StRec /\ Shape(st[p]) /\ st \in [Procs -> StRec] /\ Types
    BY NamesNow DEF Core
  <1>1. PICK v : v = st[p].gvp
    OBVIOUS
  <1>2. /\ st[p].pc = "inactive" /\ wchan[p] = None /\ cpu \in {p, None}
        /\ nc' = nc /\ dir' = dir /\ held' = held
    BY ZenonT(60) DEF msdosfs_inactive, At, fs
  <1>3. st[p].gvp # None /\ st[p].gret = None
    BY <1>0, <1>2 DEF Shape, Working, Cleaning
  <1>4. v \in Vnodes /\ vn[v] \in VnRec
    BY <1>1, <1>3, WorksOn
  <1>5. ASSUME NEW clean \in BOOLEAN, Gone(p, clean), vn' = vn, wchan' = wchan
        PROVE  NamesInv'
    <2>1. PICK r : st' = [st EXCEPT ![p] = r] /\ r.pc \in {"vgone", "rele"} /\ r.gret # "newvnode"
      BY <1>3, <1>5, GonePlain
    <2>2. Still(p) /\ st'[p] = r
      BY <1>2, <1>5, <2>1, StillQuiet
    <2> QED
      BY <1>2, <2>1, <2>2, NamesPlain, NamesStill
  <1>6. ASSUME NEW l, vn' = [vn EXCEPT ![v].lock = p], Goto(p, l), wchan' = wchan,
               (l = "detrunc" /\ vn[v].ref = 0) \/ (l = "deupdat" /\ vn[v].ref = 1)
        PROVE  NamesInv'
    <2>1. PICK r, x : r = [st[p] EXCEPT !.pc = l] /\ x = [vn[v] EXCEPT !.lock = p]
      OBVIOUS
    <2>2. /\ x.bad = vn[v].bad /\ x.slot = vn[v].slot /\ x.name = vn[v].name /\ x.ref = vn[v].ref
          /\ x.del = vn[v].del /\ x.use = vn[v].use
      BY <1>4, <2>1 DEF VnRec
    <2>3. \A w \in Vnodes : Stays(w)
      BY <1>4, <1>6, <2>1, <2>2, StaysAt
    <2>4. st' = [st EXCEPT ![p] = r]
      BY <1>6, <2>1 DEF Goto
    <2>5. Still(p) /\ st'[p] = r
      BY <1>2, <1>6, <2>3, <2>4, StillStep
    <2>6. r.pc = l /\ r.gvp = v /\ r.gret = None
      BY <1>0, <1>1, <1>3, <2>1 DEF StRec
    <2>7. ~Getting(r) /\ ~HasFile(r) /\ ~Searched(r)
      BY <1>6, <2>6, NoneApart DEF Getting, Making, HasFile, Searched
    <2>8. vn'[v].ref = vn[v].ref
      BY <1>4, <2>3 DEF Stays
    <2>9. NamesProc(p)'
      BY <1>6, <2>5, <2>6, <2>7, <2>8 DEF NamesProc
    <2> QED
      BY <1>2, <2>5, <2>9, NamesStill
  <1>7. ASSUME WaitDe(p, v), st' = st
        PROVE  NamesInv'
    <2>1. Still(p)
      BY <1>0, <1>2, <1>4, <1>7, WaitStays, StillStep
    <2> QED
      BY <1>2, <1>3, <1>7, <2>1, NoneApart, NamesPlain, NamesStill
  <1>8. vn[v].del \in BOOLEAN /\ vn[v].xlock \in BOOLEAN /\ vn[v].ref \in {0, 1} /\ vn[v].upd \in BOOLEAN
    BY <1>4 DEF VnRec
  <1>9. CASE vn[v].del
    <2>1. Gone(p, ~vn[v].xlock) /\ vn' = vn /\ wchan' = wchan
      BY <1>1, <1>9 DEF msdosfs_inactive, Run
    <2> QED
      BY <1>5, <1>8, <2>1
  <1>10. CASE ~vn[v].del /\ vn[v].lock # None
    <2>1. WaitDe(p, v) /\ st' = st
      BY <1>1, <1>10 DEF msdosfs_inactive
    <2> QED
      BY <1>7, <2>1
  <1>11. CASE ~vn[v].del /\ vn[v].lock = None /\ vn[v].ref = 0
    <2>1. vn' = [vn EXCEPT ![v].lock = p] /\ Goto(p, "detrunc") /\ wchan' = wchan
      BY <1>1, <1>11 DEF msdosfs_inactive, Yield
    <2> QED
      BY <1>6, <1>11, <2>1
  <1>12. CASE ~vn[v].del /\ vn[v].lock = None /\ vn[v].ref # 0 /\ vn[v].upd
    <2>1. vn' = [vn EXCEPT ![v].lock = p] /\ Goto(p, "deupdat") /\ wchan' = wchan
      BY <1>1, <1>12 DEF msdosfs_inactive, Run
    <2> QED
      BY <1>6, <1>8, <1>12, <2>1
  <1>13. CASE ~vn[v].del /\ vn[v].lock = None /\ vn[v].ref # 0 /\ ~vn[v].upd
    <2>1. Gone(p, FALSE) /\ vn' = vn /\ wchan' = wchan
      BY <1>1, <1>13 DEF msdosfs_inactive, Run
    <2> QED
      BY <1>5, <2>1
  <1> QED
    BY <1>9, <1>10, <1>11, <1>12, <1>13

(* deupdat writes the name that is there.                                  *)
LEMMA UpdatedNames ==
    ASSUME Core, NamesInv, NEW p \in Procs, Updated(p)
    PROVE  NamesInv'
  <1>0. st[p] \in StRec /\ Shape(st[p]) /\ st \in [Procs -> StRec] /\ Types /\ NamesProc(p)
    BY NamesNow DEF Core
  <1>1. PICK v : v = st[p].gvp
    OBVIOUS
  <1>2. PICK C, x : C = Waiters(vn[v], v) /\ x = [Unlocked(vn[v]) EXCEPT !.upd = FALSE]
    OBVIOUS
  <1>3. /\ st[p].pc = "updated" /\ wchan[p] = None /\ cpu \in {p, None} /\ nc' = nc /\ held' = held
        /\ dir' = [dir EXCEPT ![vn[v].slot] = vn[v].name]
        /\ vn' = [vn EXCEPT ![v] = [Unlocked(@) EXCEPT !.upd = FALSE]]
        /\ wchan' = [q \in Procs |-> IF wchan[q] \in C THEN None ELSE wchan[q]]
        /\ Gone(p, FALSE)
    BY <1>1, <1>2, ZenonT(60) DEF Updated, At, Wakeup
  <1>4. st[p].gvp # None /\ st[p].gret = None
    BY <1>0, <1>3 DEF Shape, Working, Cleaning, Inactive
  <1>5. v \in Vnodes /\ vn[v] \in VnRec /\ vn[v].lock = p /\ vn[v].slot \in Slots /\ ~vn[v].bad
    <2>1. v \in Vnodes /\ vn[v] \in VnRec /\ Works(p, v) /\ VnodeOK(v)
      BY <1>1, <1>4, WorksOn
    <2>2. vn[v].lock = p /\ vn[v].slot \in Slots
      BY <1>1, <1>3, <2>1 DEF Works, Inactive
    <2> QED
      BY <2>1, <2>2, NoneApart DEF VnodeOK, NoFile
  <1>6. vn[v].ref = 1
    BY <1>0, <1>1, <1>3 DEF NamesProc
  <1>7. dir[vn[v].slot] = vn[v].name
    <2>1. ASSUME NEW q \in Procs, st[q].pc = "removede", st[q].vp = v
          PROVE  FALSE
      <3>1. vn[v].lock = q
        BY <1>5, <2>1 DEF Core, Pair, Refers, HasLeaf
      <3> QED
        BY <1>3, <1>5, <2>1, <3>1
    <2> QED
      BY <1>5, <1>6, <2>1 DEF NamesInv, NamesVnode
  <1>8. dir' = dir
    BY <1>0, <1>3, <1>5, <1>7 DEF Types
  <1>9. vn' = [vn EXCEPT ![v] = x]
    BY <1>0, <1>2, <1>3, <1>5 DEF Types
  <1>10. /\ x.bad = vn[v].bad /\ x.slot = vn[v].slot /\ x.name = vn[v].name /\ x.ref = vn[v].ref
         /\ x.del = vn[v].del /\ x.use = vn[v].use
    BY <1>2, <1>5 DEF VnRec, Unlocked
  <1>11. \A w \in Vnodes : Stays(w)
    BY <1>5, <1>9, <1>10, StaysAt
  <1>12. /\ \A q \in Procs : q # p => wchan'[q] = wchan[q] \/ wchan'[q] = None
         /\ \A q \in Procs, w \in Vnodes : wchan[q] = VxChan(w) => wchan'[q] = wchan[q]
    BY <1>2, <1>3, WaitersDe, VxKept
  <1>13. PICK r : st' = [st EXCEPT ![p] = r] /\ r.pc \in {"vgone", "rele"} /\ r.gret # "newvnode"
    BY <1>3, <1>4, GonePlain
  <1>14. Still(p) /\ st'[p] = r
    BY <1>3, <1>8, <1>11, <1>12, <1>13, StillStep
  <1> QED
    BY <1>3, <1>13, <1>14, NamesPlain, NamesStill

-----------------------------------------------------------------------------
(* deget returns a vnode: the one that it found, or a new one.             *)
SameFile(x, y) == /\ x.bad = y.bad /\ x.slot = y.slot /\ x.name = y.name
                  /\ x.ref = y.ref /\ x.del = y.del /\ x.use = y.use

LEMMA UnlockedSame ==
    ASSUME NEW x \in VnRec
    PROVE  SameFile(Unlocked(x), x) /\ SameFile(x, x) /\ Unlocked(x).lock = None
  BY DEF VnRec, Unlocked, SameFile

LEMMA GotNames ==
    ASSUME Core, NamesInv, NEW p \in Procs, NEW v \in Vnodes, NEW x \in VnRec,
           st[p].pc \in {"deget", "newvnode"}, wchan[p] = None, vn[v].lock = None, x.ref = 1,
           st[p].ret # "root" => x.name = st[p].name,
           NoAnswer(st[p]) => \A i \in DOMAIN nc' : ~Answers(nc'[i], st[p].dvp, st[p].name),
           DegetReturns(p, v, [vn EXCEPT ![v] = x], {}), held' = held
    PROVE  /\ NamesProc(p)' /\ Others(p)
           /\ \A q \in Procs, w \in Vnodes : wchan[q] = VxChan(w) => wchan'[q] = wchan[q]
           /\ SameFile(vn'[v], x) /\ \A w \in Vnodes : w # v => SameFile(vn'[w], vn[w])
  <1>0. st[p] \in StRec /\ Shape(st[p]) /\ st \in [Procs -> StRec] /\ Types /\ NamesProc(p)
    BY NamesNow DEF Core
  <1>1. Getting(st[p]) /\ st[p].gret = None
    BY <1>0 DEF Getting, Making, Shape, Cleaning
  <1>2. \A w \in Vnodes : SameFile(vn[w], vn[w]) /\ vn[w] \in VnRec
    BY <1>0 DEF Types, SameFile
  <1>3. SameFile(x, x)
    BY DEF SameFile
  <1>4. PICK y : y = [vn EXCEPT ![v] = x]
    OBVIOUS
  <1>5. y[v] = x /\ \A w \in Vnodes : w # v => y[w] = vn[w]
    BY <1>0, <1>4 DEF Types
  <1>6. DegetReturns(p, v, y, {})
    BY <1>4
  <1>7. CASE st[p].ret = "root"
    <2>1. PICK r : r = [st[p] EXCEPT !.pc = "cache", !.dvp = v, !.gvp = None, !.slot = None, !.ret = None]
      OBVIOUS
    <2>2. /\ st' = [st EXCEPT ![p] = r] /\ vn' = y
          /\ wchan' = [q \in Procs |-> IF wchan[q] \in {} THEN None ELSE wchan[q]]
      BY <1>6, <1>7, <2>1 DEF DegetReturns, Wakeup
    <2>3. r.pc = "cache" /\ r.gret = None
      BY <1>0, <1>1, <2>1 DEF StRec
    <2>4. st'[p] = r /\ \A q \in Procs : q # p => st'[q] = st[q]
      BY <1>0, <2>2
    <2>5. \A q \in Procs : wchan'[q] = wchan[q]
      BY <2>2
    <2>6. NamesProc(p)'
      BY <2>3, <2>4, NoneApart, NamesPlain
    <2> QED
      BY <1>2, <1>3, <1>5, <2>2, <2>4, <2>5, <2>6 DEF Others
  <1>8. CASE st[p].ret = "new"
    <2>1. PICK r : r = [st[p] EXCEPT !.pc = "bwrite", !.vp = v, !.gvp = None, !.slot = None, !.ret = None]
      OBVIOUS
    <2>2. st' = [st EXCEPT ![p] = r] /\ vn' = y /\ wchan' = wchan
      BY <1>6, <1>8, <2>1 DEF DegetReturns, Yield
    <2>3. r.pc = "bwrite" /\ r.gret = None /\ r.dvp = st[p].dvp /\ r.name = st[p].name
      BY <1>0, <1>1, <2>1 DEF StRec
    <2>4. st'[p] = r /\ \A q \in Procs : q # p => st'[q] = st[q]
      BY <1>0, <2>2
    <2>5. ~Getting(r) /\ ~HasFile(r)
      BY <2>3, NoneApart DEF Getting, Making, HasFile
    <2>6. NoAnswer(st[p])
      BY <1>0, <1>1, <1>8 DEF NamesProc, Searched
    <2>7. NoAnswer(st[p])'
      BY <2>3, <2>4, <2>6 DEF NoAnswer
    <2>8. NamesProc(p)'
      BY <2>3, <2>4, <2>5, <2>7 DEF NamesProc
    <2> QED
      BY <1>2, <1>3, <1>5, <2>2, <2>4, <2>8 DEF Others
  <1>9. CASE st[p].ret = "leaf"
    <2>1. PICK d, l, z, C : /\ d = st[p].dvp /\ l = (IF makeentry(p) THEN "enter" ELSE "found")
                            /\ z = (IF st[p].call = "open" THEN Unlocked(y[d]) ELSE y[d])
                            /\ C = {} \cup IF st[p].call = "open" THEN Waiters(y[d], d) ELSE {}
      OBVIOUS
    <2>2. PICK r : r = [st[p] EXCEPT !.pc = l, !.vp = v, !.gvp = None, !.slot = None, !.ret = None]
      OBVIOUS
    <2>3. /\ st' = [st EXCEPT ![p] = r] /\ cpu' = p
          /\ vn' = [y EXCEPT ![d] = IF st[p].call = "open" THEN Unlocked(@) ELSE @]
          /\ wchan' = [q \in Procs |-> IF wchan[q] \in C THEN None ELSE wchan[q]]
      BY <1>6, <1>9, <2>1, <2>2 DEF DegetReturns, Wakeup
    <2>4. /\ r.pc = l /\ r.gret = None /\ r.dvp = d /\ r.name = st[p].name /\ r.vp = v
          /\ r.call = st[p].call
      BY <1>0, <1>1, <2>1, <2>2 DEF StRec
    <2>5. st'[p] = r /\ \A q \in Procs : q # p => st'[q] = st[q]
      BY <1>0, <2>3
    <2>6. InDir(st[p])
      BY <1>1, <1>9 DEF InDir
    <2>7. d \in Vnodes /\ vn[d].lock = p /\ d # v /\ y[d] = vn[d]
      BY <1>5, <2>1, <2>6, DirIn, NoneApart
    <2>8. SameFile(z, vn[d]) /\ z.lock \in {p, None}
      BY <1>2, <2>1, <2>7, UnlockedSame
    <2>9. DOMAIN y = Vnodes
      BY <1>0, <1>4 DEF Types
    <2>10. vn'[d] = z /\ vn'[v] = x /\ \A w \in Vnodes : w # v /\ w # d => vn'[w] = vn[w]
      BY <1>5, <2>1, <2>3, <2>7, <2>9
    <2>11. C \subseteq {DeChan(w) : w \in {d}}
      BY <2>1, WaitersDe
    <2>12. /\ \A q \in Procs : q # p => wchan'[q] = wchan[q] \/ wchan'[q] = None
           /\ \A q \in Procs, w \in Vnodes : wchan[q] = VxChan(w) => wchan'[q] = wchan[q]
      BY <2>3, <2>11, VxKept
    <2>13. NoAnswer(st[p])
      BY <1>0, <1>1, <1>9 DEF NamesProc, Searched
    <2>14. NoAnswer(st[p])'
      BY <2>1, <2>4, <2>5, <2>13 DEF NoAnswer
    <2>15. ~Getting(r) /\ r.pc \in {"enter", "found"} /\ r.vp # None
      BY <2>1, <2>4, NoneApart DEF Getting, Making
    <2>16. NamesProc(p)'
      BY <1>9, <2>3, <2>4, <2>5, <2>8, <2>10, <2>14, <2>15 DEF NamesProc
    <2> QED
      BY <1>2, <1>3, <2>5, <2>8, <2>10, <2>12, <2>16 DEF Others
  <1> QED
    BY <1>0, <1>1, <1>7, <1>8, <1>9 DEF Shape

(* What a process in deget knows of the slot.                              *)
LEMMA SlotNamed ==
    ASSUME Core, NamesInv, NEW p \in Procs, Getting(st[p]), st[p].ret # "root"
    PROVE  /\ st[p].slot \in Slots /\ dir[st[p].slot] = st[p].name /\ st[p].name \in Names
           /\ InDir(st[p]) /\ NoAnswer(st[p])
           /\ \A q \in Procs : st[q].pc # "removede"
  <1>1. Shape(st[p]) /\ NamesProc(p)
    BY NamesNow
  <1>2. InDir(st[p]) /\ ~Letting(st[p]) /\ st[p].pc # "idle"
    BY <1>1, NoneApart DEF InDir, Letting, Getting, Making, Shape, Cleaning
  <1>3. st[p].slot \in Slots /\ st[p].name \in Names
    BY <1>1, <1>2 DEF Shape
  <1>4. ASSUME NEW q \in Procs, st[q].pc = "removede"
        PROVE  FALSE
    <2>1. InDir(st[q])
      BY <1>4 DEF InDir
    <2>2. p = q
      BY <1>2, <2>1, DirAlone
    <2> QED
      BY <1>1, <1>4, <2>2, NoneApart DEF Getting, Making, Shape, Cleaning
  <1> QED
    BY <1>1, <1>2, <1>3, <1>4 DEF NamesProc, Searched

LEMMA DegetHitNames ==
    ASSUME Core, NamesInv, NEW p \in Procs, DegetHit(p)
    PROVE  NamesInv'
  <1>0. st[p] \in StRec /\ Shape(st[p]) /\ st \in [Procs -> StRec] /\ Types
    BY NamesNow DEF Core
  <1>1. PICK v \in InHash(st[p].slot) :
           /\ vn[v].lock = None /\ ~vn[v].xlock
           /\ DegetReturns(p, v, [vn EXCEPT ![v].use = @ + 1, ![v].lock = p], {})
    BY DEF DegetHit
  <1>2. v \in Vnodes /\ ~vn[v].bad /\ vn[v].slot = st[p].slot /\ vn[v].ref > 0
    BY DEF InHash
  <1>3. /\ st[p].pc = "deget" /\ wchan[p] = None /\ cpu \in {p, None}
        /\ nc' = nc /\ dir' = dir /\ held' = held
    BY DEF DegetHit, At
  <1>4. vn[v] \in VnRec /\ vn[v].use + 1 \in Nat /\ vn[v].ref = 1
    BY <1>0, <1>2 DEF Types, VnRec
  <1>5. PICK x : x = [vn[v] EXCEPT !.use = vn[v].use + 1, !.lock = p]
    OBVIOUS
  <1>6. /\ x \in VnRec /\ x.slot = vn[v].slot /\ x.ref = vn[v].ref /\ x.bad = vn[v].bad
        /\ x.name = vn[v].name /\ x.del = vn[v].del
    <2>1. x \in VnRec
      BY <1>4, <1>5, ZenonT(60) DEF VnRec
    <2> QED
      BY <1>4, <1>5, <2>1 DEF VnRec
  <1>7. [vn EXCEPT ![v].use = @ + 1, ![v].lock = p] = [vn EXCEPT ![v] = x]
    BY <1>0, <1>2, <1>5 DEF Types
  <1>8. NamesVnode(v) /\ ~vn[v].del
    BY <1>2, <1>4 DEF NamesInv, NamesVnode
  <1>9. st[p].ret # "root" => x.name = st[p].name
    <2>1. Getting(st[p])
      BY <1>3 DEF Getting
    <2> QED
      BY <1>2, <1>4, <1>6, <1>8, <2>1, SlotNamed DEF NamesVnode
  <1>10. DegetReturns(p, v, [vn EXCEPT ![v] = x], {})
    BY <1>1, <1>7
  <1>11. NoAnswer(st[p]) => \A i \in DOMAIN nc' : ~Answers(nc'[i], st[p].dvp, st[p].name)
    BY <1>3 DEF NoAnswer
  <1>12. /\ NamesProc(p)' /\ Others(p)
         /\ \A q \in Procs, w \in Vnodes : wchan[q] = VxChan(w) => wchan'[q] = wchan[q]
         /\ SameFile(vn'[v], x) /\ \A w \in Vnodes : w # v => SameFile(vn'[w], vn[w])
    BY <1>1, <1>2, <1>3, <1>4, <1>6, <1>9, <1>10, <1>11, GotNames
  <1>13. \A w \in Vnodes : Stays(w)
    BY <1>6, <1>8, <1>12 DEF SameFile, Stays
  <1>14. Still(p)
    BY <1>3, <1>12, <1>13 DEF Still
  <1> QED
    BY <1>3, <1>12, <1>14, NamesStill

(* A vnode gets a new number: no entry names it.                           *)
LEMMA NamesPurged ==
    ASSUME Core, NamesInv, NEW v \in Vnodes, NEW wrap \in IdWraps, nc' = cache_purge(v, wrap),
           dir' = dir, \A w \in Vnodes : w # v => SameFile(vn'[w], vn[w])
    PROVE  /\ NamesCache'
           /\ \A i \in DOMAIN nc' : \A d, n : Answers(nc'[i], d, n) =>
                 \E j \in DOMAIN nc : Answers(nc[j], d, n) /\ nc[j].vp = nc'[i].vp
           /\ \A i \in DOMAIN nc' : Valid(nc'[i]) => nc'[i].vp # v
  <1>1. /\ DOMAIN nc' = DOMAIN nc
        /\ \A i \in DOMAIN nc : /\ nc'[i].dvp = nc[i].dvp /\ nc'[i].name = nc[i].name
                                /\ nc'[i].vp = nc[i].vp
                                /\ nc'[i].dvpid => nc[i].dvpid /\ nc[i].dvp # v
                                /\ nc'[i].vpid => nc[i].vpid
                                /\ Valid(nc'[i]) => Valid(nc[i]) /\ nc[i].vp # v
    BY Purged
  <1>2. \A i \in DOMAIN nc : NamesEntry(nc[i]) /\ nc[i].dvp \in Vnodes /\ (Valid(nc[i]) => nc[i].vp \in Vnodes)
    BY EntryIs DEF NamesInv, NamesCache
  <1>3. \A i \in DOMAIN nc' : NamesEntry(nc[i])'
    BY <1>1, <1>2 DEF NamesEntry, SameFile
  <1>4. \A i \in DOMAIN nc : \A d, n : Answers(nc'[i], d, n) => Answers(nc[i], d, n)
    BY <1>1 DEF Answers
  <1>5. \A i, j \in DOMAIN nc' : i < j /\ nc'[i].dvpid => ~Answers(nc'[j], nc'[i].dvp, nc'[i].name)
    BY <1>1, <1>4 DEF NamesInv, NamesCache
  <1>6. NamesCache'
    BY <1>3, <1>5 DEF NamesCache
  <1> QED
    BY <1>1, <1>4, <1>6

LEMMA NewVnodeNames ==
    ASSUME Core, NamesInv, NEW p \in Procs, NewVnode(p)
    PROVE  NamesInv'
  <1>0. st[p] \in StRec /\ Shape(st[p]) /\ st \in [Procs -> StRec] /\ Types
    BY NamesNow DEF Core
  <1>1. PICK v, s, n : v = st[p].gvp /\ s = st[p].slot /\ n = IF s = RootSlot THEN None ELSE dir[s]
    OBVIOUS
  <1>2. PICK x : x = [NoFile EXCEPT !.use = vn[v].use + 1, !.bad = FALSE,
                                    !.lock = p, !.slot = s, !.ref = 1, !.name = n]
    OBVIOUS
  <1>3. /\ st[p].pc = "newvnode" /\ wchan[p] = None /\ cpu \in {p, None}
        /\ DegetReturns(p, v, [vn EXCEPT ![v] = x], {}) /\ dir' = dir /\ held' = held
    BY <1>1, <1>2 DEF NewVnode, At
  <1>4. PICK wrap \in IdWraps : nc' = cache_purge(v, wrap)
    BY <1>1 DEF NewVnode
  <1>5. st[p].gvp # None /\ Making(st[p]) /\ Getting(st[p])
    BY <1>0, <1>3 DEF Shape, Making, Getting, Working
  <1>6. v \in Vnodes /\ vn[v] \in VnRec /\ Works(p, v)
    BY <1>1, <1>5, WorksOn
  <1>7. vn[v] = NoFile /\ vn[v].use = 0 /\ vn[v].lock = None
    <2>1. wchan[p] # VxChan(v)
      BY <1>3, <1>6, NoneApart
    <2> QED
      BY <1>1, <1>3, <1>6, <2>1 DEF Works, NoFile
  <1>8. /\ x \in VnRec /\ x.slot = st[p].slot /\ x.ref = 1 /\ ~x.bad /\ ~x.del /\ x.name = n
    <2>1. s \in Places /\ n \in Names \cup {None} /\ vn[v].use + 1 \in Nat
      <3>1. s = RootSlot \/ s \in Slots
        BY <1>0, <1>1, <1>5 DEF Shape
      <3> QED
        BY <1>0, <1>1, <1>7, <3>1 DEF Places, Types
    <2>2. NoFile \in VnRec
      BY <1>6, <1>7
    <2>3. x \in VnRec
      BY <1>2, <2>1, <2>2, ZenonT(60) DEF VnRec
    <2> QED
      BY <1>1, <1>2, <1>7, <2>3 DEF NoFile
  <1>9. st[p].ret # "root" => x.name = st[p].name /\ s \in Slots /\ dir[s] = x.name /\ x.name \in Names
    BY <1>1, <1>5, <1>8, SlotNamed, RootApart
  <1>10. st[p].ret = "root" => s \notin Slots
    BY <1>0, <1>1, <1>5, RootApart DEF Shape
  <1>11. /\ \A i \in DOMAIN nc' : \A d, m : Answers(nc'[i], d, m) =>
               \E j \in DOMAIN nc : Answers(nc[j], d, m) /\ nc[j].vp = nc'[i].vp
    BY <1>4, <1>6, Purged DEF Answers
  <1>12. NoAnswer(st[p]) => \A i \in DOMAIN nc' : ~Answers(nc'[i], st[p].dvp, st[p].name)
    BY <1>11 DEF NoAnswer
  <1>13. /\ NamesProc(p)' /\ Others(p)
         /\ \A q \in Procs, w \in Vnodes : wchan[q] = VxChan(w) => wchan'[q] = wchan[q]
         /\ SameFile(vn'[v], x) /\ \A w \in Vnodes : w # v => SameFile(vn'[w], vn[w])
    BY <1>3, <1>6, <1>7, <1>8, <1>9, <1>12, GotNames
  <1>14. NamesCache'
    BY <1>3, <1>4, <1>6, <1>13, NamesPurged
  <1>15. ASSUME NEW q \in Procs, q # p
         PROVE  NamesProc(q)'
    <2>1. HasFile(st[q]) => /\ vn'[st[q].vp].ref = vn[st[q].vp].ref
                            /\ vn'[st[q].vp].name = vn[st[q].vp].name
      <3>1. HasFile(st[q]) => st[q].vp \in Vnodes /\ st[q].vp # v
        BY <1>6, <1>7, HasFileLeaf, NoneRefers DEF HasFile
      <3> QED
        BY <1>13, <3>1 DEF SameFile
    <2>2. st[q].pc \in Inactive => vn'[st[q].gvp].ref = vn[st[q].gvp].ref
      <3>1. st[q].pc \in Inactive => st[q].gvp # None
        BY DEF Core, ProcOK, Own, Shape, Working
      <3>2. st[q].pc \in Inactive => st[q].gvp \in Vnodes /\ vn[st[q].gvp].lock = q
        BY <3>1, WorksOn DEF Works
      <3>3. st[q].pc \in Inactive => st[q].gvp # v
        BY <1>7, <3>2, NoneApart
      <3> QED
        BY <1>13, <3>2, <3>3 DEF SameFile
    <2> QED
      BY <1>3, <1>11, <1>13, <1>15, <2>1, <2>2, NamesOther
  <1>16. ASSUME NEW w \in Vnodes
         PROVE  NamesVnode(w)'
    <2>1. CASE w = v
      BY <1>1, <1>3, <1>8, <1>9, <1>10, <1>13, <2>1 DEF NamesVnode, SameFile
    <2>2. CASE w # v
      <3>1. NamesVnode(w) /\ SameFile(vn'[w], vn[w])
        BY <1>13, <2>2 DEF NamesInv
      <3>2. \A q \in Procs : st[q].pc = "removede" /\ st[q].vp = w =>
               st'[q].pc = "removede" /\ st'[q].vp = w
        BY <1>3, <1>13 DEF Others
      <3> QED
        BY <1>3, <3>1, <3>2 DEF NamesVnode, SameFile
    <2> QED
      BY <2>1, <2>2
  <1>17. NamesDir'
    BY <1>3 DEF NamesInv, NamesDir
  <1> QED
    BY <1>13, <1>14, <1>15, <1>16, <1>17 DEF NamesInv

(* A vnode is cleaned out.                                                 *)
LEMMA ReclaimNames ==
    ASSUME Core, Core', NamesInv, NEW p \in Procs, Reclaim(p)
    PROVE  NamesInv'
  <1>0. st[p] \in StRec /\ Shape(st[p]) /\ st \in [Procs -> StRec] /\ Types
    BY NamesNow DEF Core
  <1>1. PICK v : v = st[p].gvp
    OBVIOUS
  <1>2. PICK C : C = Waiters(vn[v], v) \cup IF vn[v].xwant THEN {VxChan(v)} ELSE {}
    OBVIOUS
  <1>3. /\ st[p].pc = "vinvalbuf" /\ wchan[p] = None /\ cpu \in {p, None} /\ Back(p)
        /\ vn' = [vn EXCEPT ![v] = [NoFile EXCEPT !.use = vn[v].use]]
        /\ wchan' = [q \in Procs |-> IF wchan[q] \in C THEN None ELSE wchan[q]]
        /\ dir' = dir /\ held' = held
    BY <1>1, <1>2, ZenonT(60) DEF Reclaim, At, fs, Wakeup
  <1>4. PICK wrap \in IdWraps : nc' = cache_purge(v, wrap)
    BY <1>1 DEF Reclaim
  <1>5. st[p].gvp # None /\ st[p].gret \in {"newvnode", "rele"}
    BY <1>0, <1>3 DEF Shape, StRec, Working, Cleaning
  <1>6. v \in Vnodes /\ vn[v] \in VnRec /\ vn[v].xlock /\ vn[v].use = 0 /\ vn[v].lock = p
    <2>1. v \in Vnodes /\ vn[v] \in VnRec /\ Works(p, v) /\ VnodeOK(v)
      BY <1>1, <1>5, WorksOn
    <2>2. vn[v].xlock /\ vn[v].lock = p
      BY <1>1, <1>3, <2>1 DEF Works, Cleaning
    <2> QED
      BY <2>1, <2>2 DEF VnodeOK
  <1>7. vn'[v] = NoFile /\ \A w \in Vnodes : w # v => vn'[w] = vn[w]
    <2>1. [NoFile EXCEPT !.use = vn[v].use] = NoFile
      BY <1>6, NoFileUnused
    <2> QED
      BY <1>0, <1>3, <1>6, <2>1 DEF Types
  <1>8. \A w \in Vnodes : w # v => SameFile(vn'[w], vn[w])
    BY <1>7 DEF SameFile
  <1>9. /\ NamesCache'
        /\ \A i \in DOMAIN nc' : \A d, n : Answers(nc'[i], d, n) =>
              \E j \in DOMAIN nc : Answers(nc[j], d, n) /\ nc[j].vp = nc'[i].vp
        /\ \A i \in DOMAIN nc' : Valid(nc'[i]) => nc'[i].vp # v
    BY <1>3, <1>4, <1>6, <1>8, NamesPurged
  <1>10. PICK r : r = BackTo(st[p])
    OBVIOUS
  <1>11. st'[p] = r /\ \A q \in Procs : q # p => st'[q] = st[q]
    BY <1>0, <1>3, <1>10 DEF Back, BackTo
  <1>12. /\ r.pc = st[p].gret /\ r.gret = None /\ r.name = st[p].name /\ r.slot = st[p].slot
         /\ r.ret = st[p].ret /\ r.dvp = st[p].dvp
    BY <1>0, <1>10 DEF StRec, BackTo
  <1>13. NamesProc(p)'
    <2>1. NoAnswer(st[p]) => NoAnswer(st[p])'
      BY <1>9, <1>11, <1>12 DEF NoAnswer
    <2>2. /\ Getting(r) => Getting(st[p])
          /\ ~Getting(r) => r.pc = "rele"
      BY <1>5, <1>12, NoneApart DEF Getting, Making
    <2> QED
      BY <1>3, <1>11, <1>12, <2>1, <2>2, NamesWorking
  <1>14. /\ \A q \in Procs : wchan'[q] = wchan[q] \/ wchan'[q] = None
         /\ \A q \in Procs, w \in Vnodes : w # v /\ wchan[q] = VxChan(w) => wchan'[q] = wchan[q]
    <2>1. \A w \in Vnodes : w # v => VxChan(w) \notin C
      BY <1>2, ChansApart DEF Waiters
    <2> QED
      BY <1>3, <2>1
  <1>15. Others(p)
    BY <1>3, <1>11, <1>14 DEF Others
  <1>16. ASSUME NEW q \in Procs, q # p
         PROVE  NamesProc(q)'
    <2>1. HasFile(st[q]) => /\ vn'[st[q].vp].ref = vn[st[q].vp].ref
                            /\ vn'[st[q].vp].name = vn[st[q].vp].name
      <3>1. HasFile(st[q]) => st[q].vp \in Vnodes /\ st[q].vp # v
        BY <1>6, HasFileLeaf, NoneRefers DEF HasFile
      <3> QED
        BY <1>7, <3>1
    <2>2. st[q].pc \in Inactive => vn'[st[q].gvp].ref = vn[st[q].gvp].ref
      <3>1. st[q].pc \in Inactive => st[q].gvp # None
        BY DEF Core, ProcOK, Own, Shape, Working
      <3>2. st[q].pc \in Inactive => st[q].gvp \in Vnodes /\ vn[st[q].gvp].lock = q
        BY <3>1, WorksOn DEF Works
      <3>3. st[q].pc \in Inactive => st[q].gvp # v
        BY <1>6, <1>16, <3>2
      <3> QED
        BY <1>7, <3>2, <3>3
    <2>3. \A w \in Vnodes : wchan[q] = VxChan(w) =>
             wchan'[q] = wchan[q] \/ \A i \in DOMAIN nc' : Valid(nc'[i]) => nc'[i].vp # w
      BY <1>9, <1>14
    <2> QED
      BY <1>3, <1>9, <1>15, <1>16, <2>1, <2>2, <2>3, NamesOther
  <1>17. ASSUME NEW w \in Vnodes
         PROVE  NamesVnode(w)'
    <2>1. CASE w = v
      <3>1. vn'[w].bad = TRUE /\ vn'[w].del = FALSE
        BY <1>7, <2>1 DEF NoFile
      <3> QED
        BY <3>1 DEF NamesVnode
    <2>2. CASE w # v
      <3>1. NamesVnode(w) /\ vn'[w] = vn[w]
        BY <1>7, <2>2 DEF NamesInv
      <3>2. \A q \in Procs : st[q].pc = "removede" /\ st[q].vp = w =>
               st'[q].pc = "removede" /\ st'[q].vp = w
        BY <1>3, <1>11
      <3> QED
        BY <1>3, <3>1, <3>2 DEF NamesVnode
    <2> QED
      BY <2>1, <2>2
  <1>18. NamesDir'
    BY <1>3 DEF NamesInv, NamesDir
  <1> QED
    BY <1>9, <1>13, <1>16, <1>17, <1>18 DEF NamesInv

(* Nobody uses a file that is being truncated.                             *)
LEMMA TruncatedUnused ==
    ASSUME Core, NamesInv, NEW p \in Procs, st[p].pc = "detrunc"
    PROVE  vn[st[p].gvp].use = 0 /\ vn[st[p].gvp].ref = 0
  <1>0. Shape(st[p]) /\ NamesProc(p)
    BY NamesNow
  <1>1. PICK v : v = st[p].gvp
    OBVIOUS
  <1>2. v \in Vnodes /\ Works(p, v) /\ st[p].gvp # None /\ vn[v] \in VnRec
    BY <1>0, <1>1, WorksOn DEF Shape, Working, Inactive
  <1>3. vn[v].ref = 0
    BY <1>0, <1>1 DEF NamesProc
  <1>4. vn[v].slot \in Slots /\ st[p].vp # v /\ held[p] # v
    BY <1>1, <1>2 DEF Works, Inactive
  <1>5. ASSUME NEW q \in Procs
        PROVE  st[q].dvp # v /\ st[q].vp # v /\ held[q] # v
    <2>1. st[q].dvp # v
      BY <1>2, <1>4, RootApart DEF Core, Pair, Refers
    <2>2. CASE q = p
      BY <1>4, <2>1, <2>2
    <2>3. CASE q # p
      <3>1. held[q] # v /\ (st[q].vp = v => st[q].pc = "clock")
        BY <1>1, <1>2, <2>3 DEF Core, Apart, Inactive
      <3>2. st[q].vp = v => HasFile(st[q])
        BY <1>2, <3>1, NoneApart DEF HasFile
      <3>3. st[q].vp # v
        BY <1>3, <3>2 DEF NamesInv, NamesProc
      <3> QED
        BY <2>1, <3>1, <3>3
    <2> QED
      BY <2>2, <2>3
  <1>6. vn[v].use = 0
    <2>1. PICK D, L, H : /\ D = {x \in Procs : st[x].dvp = v} /\ L = {x \in Procs : st[x].vp = v}
                         /\ H = {x \in Procs : held[x] = v}
      OBVIOUS
    <2>2. D = {} /\ L = {} /\ H = {}
      BY <1>5, <2>1
    <2>3. Cardinality(D) = 0 /\ Cardinality(L) = 0 /\ Cardinality(H) = 0
      BY <2>2, FS_EmptySet
    <2>4. Refs(v) = Cardinality(D) + Cardinality(L) + Cardinality(H)
      BY <2>1 DEF Refs
    <2> QED
      BY <1>2, <2>3, <2>4 DEF Core, Counts
  <1> QED
    BY <1>1, <1>3, <1>6

LEMMA TruncatedNames ==
    ASSUME Core, NamesInv, NEW p \in Procs, Truncated(p)
    PROVE  NamesInv'
  <1>0. st[p] \in StRec /\ Shape(st[p]) /\ st \in [Procs -> StRec] /\ Types
    BY NamesNow DEF Core
  <1>1. PICK v : v = st[p].gvp
    OBVIOUS
  <1>2. PICK C, x : C = Waiters(vn[v], v) /\ x = [Unlocked(vn[v]) EXCEPT !.del = TRUE, !.upd = FALSE]
    OBVIOUS
  <1>3. /\ st[p].pc = "detrunc" /\ wchan[p] = None /\ cpu \in {p, None} /\ nc' = nc /\ held' = held
        /\ dir' = dir
        /\ vn' = [vn EXCEPT ![v] = [Unlocked(@) EXCEPT !.del = TRUE, !.upd = FALSE]]
        /\ wchan' = [q \in Procs |-> IF wchan[q] \in C THEN None ELSE wchan[q]]
        /\ Gone(p, vn[v].use = 0)
    BY <1>1, <1>2, ZenonT(60) DEF Truncated, At, Wakeup, fs
  <1>4. st[p].gvp # None /\ st[p].gret = None
    BY <1>0, <1>3 DEF Shape, Working, Cleaning, Inactive
  <1>5. v \in Vnodes /\ vn[v] \in VnRec /\ vn[v].use = 0 /\ vn[v].ref = 0
    BY <1>1, <1>3, <1>4, WorksOn, TruncatedUnused
  <1>6. vn' = [vn EXCEPT ![v] = x]
    BY <1>0, <1>2, <1>3, <1>5 DEF Types
  <1>7. /\ x.name = vn[v].name /\ x.ref = 0 /\ x.use = 0 /\ x.slot = vn[v].slot /\ x.bad = vn[v].bad
    BY <1>2, <1>5 DEF VnRec, Unlocked
  <1>8. vn'[v] = x /\ \A w \in Vnodes : w # v => vn'[w] = vn[w]
    BY <1>0, <1>5, <1>6 DEF Types
  <1>9. \A w \in Vnodes : vn'[w].ref = vn[w].ref /\ vn'[w].name = vn[w].name
    BY <1>5, <1>7, <1>8
  <1>10. /\ \A q \in Procs : q # p => wchan'[q] = wchan[q] \/ wchan'[q] = None
         /\ \A q \in Procs, w \in Vnodes : wchan[q] = VxChan(w) => wchan'[q] = wchan[q]
    BY <1>2, <1>3, WaitersDe, VxKept
  <1>11. PICK r : st' = [st EXCEPT ![p] = r] /\ r.pc \in {"vgone", "rele"} /\ r.gret # "newvnode"
    BY <1>3, <1>4, GonePlain
  <1>12. st'[p] = r /\ \A q \in Procs : q # p => st'[q] = st[q]
    BY <1>0, <1>11
  <1>13. Others(p)
    BY <1>3, <1>10, <1>12 DEF Others
  <1>14. NamesProc(p)'
    BY <1>11, <1>12, NamesPlain
  <1>15. ASSUME NEW q \in Procs, q # p
         PROVE  NamesProc(q)'
    <2>1. HasFile(st[q]) => /\ vn'[st[q].vp].ref = vn[st[q].vp].ref
                            /\ vn'[st[q].vp].name = vn[st[q].vp].name
      BY <1>9, HasFileLeaf DEF HasFile
    <2>2. st[q].pc \in Inactive => vn'[st[q].gvp].ref = vn[st[q].gvp].ref
      <3>1. st[q].pc \in Inactive => st[q].gvp # None
        BY DEF Core, ProcOK, Own, Shape, Working
      <3> QED
        BY <1>9, <3>1, WorksOn
    <2> QED
      BY <1>3, <1>10, <1>13, <1>15, <2>1, <2>2, NamesOther
  <1>16. ASSUME NEW w \in Vnodes
         PROVE  NamesVnode(w)'
    <2>1. NamesVnode(w)
      BY DEF NamesInv
    <2>2. \A q \in Procs : st[q].pc = "removede" /\ st[q].vp = w =>
             st'[q].pc = "removede" /\ st'[q].vp = w
      BY <1>3, <1>12
    <2>3. CASE w = v
      BY <1>7, <1>8, <2>3 DEF NamesVnode
    <2>4. CASE w # v
      BY <1>3, <1>8, <2>1, <2>2, <2>4 DEF NamesVnode
    <2> QED
      BY <2>3, <2>4
  <1>17. NamesDir'
    BY <1>3 DEF NamesInv, NamesDir
  <1>18. NamesCache'
    <2>1. \A i \in DOMAIN nc : NamesEntry(nc[i]) /\ nc[i].dvp \in Vnodes /\ (Valid(nc[i]) => nc[i].vp \in Vnodes)
      BY EntryIs DEF NamesInv, NamesCache
    <2>2. \A w \in Vnodes : vn'[w].bad = vn[w].bad /\ vn'[w].slot = vn[w].slot
      BY <1>7, <1>8
    <2>3. \A i \in DOMAIN nc' : NamesEntry(nc[i])'
      BY <1>3, <1>9, <2>1, <2>2 DEF NamesEntry
    <2>4. \A i, j \in DOMAIN nc' : i < j /\ nc'[i].dvpid => ~Answers(nc'[j], nc'[i].dvp, nc'[i].name)
      BY <1>3 DEF NamesInv, NamesCache
    <2> QED
      BY <2>3, <2>4 DEF NamesCache
  <1> QED
    BY <1>14, <1>15, <1>16, <1>17, <1>18 DEF NamesInv

-----------------------------------------------------------------------------
(* The directory changes: nobody else is in it.                            *)
LEMMA DirMine ==
    ASSUME Core, NamesInv, NEW p \in Procs, NEW q \in Procs, q # p, InDir(st[p]), Others(p),
           cpu \in {p, None}, vn' = vn, wchan' = wchan
    PROVE  NamesProc(q)' /\ st[q].pc # "removede"
  <1>1. ~InDir(st[q])
    BY DirAlone
  <1>2. st[q].pc # "removede"
    BY <1>1 DEF InDir
  <1> QED
    BY <1>1, <1>2, NamesOther

LEMMA createdeNames ==
    ASSUME Core, Core', NamesInv, NEW p \in Procs, createde(p)
    PROVE  NamesInv'
  <1>0. st[p] \in StRec /\ Shape(st[p]) /\ st \in [Procs -> StRec] /\ NamesProc(p) /\ Types
    BY NamesNow DEF Core
  <1>1. PICK s, n, r : s = st[p].slot /\ n = st[p].name /\ r = [st[p] EXCEPT !.pc = "deget", !.ret = "new"]
    OBVIOUS
  <1>2. /\ st[p].pc = "createde" /\ cpu \in {p, None} /\ vn' = vn /\ nc' = nc /\ wchan' = wchan /\ held' = held
        /\ dir' = [dir EXCEPT ![s] = n] /\ st' = [st EXCEPT ![p].pc = "deget", ![p].ret = "new"]
    BY <1>1 DEF createde, At, Yield
  <1>3. s \in Slots /\ n \in Names /\ InDir(st[p]) /\ st[p].dvp # None
    BY <1>0, <1>1, <1>2, NoneApart DEF Shape, InDir, Letting, Cleaning
  <1>4. Found(p) = {} /\ dir[s] = None /\ NoAnswer(st[p])
    BY <1>0, <1>1, <1>2 DEF NamesProc, Searched
  <1>5. \A t \in Slots : dir[t] # n
    BY <1>1, <1>4 DEF Found
  <1>6. dir'[s] = n /\ \A t \in Slots : t # s => dir'[t] = dir[t]
    BY <1>0, <1>2, <1>3 DEF Types
  <1>7. st'[p] = r /\ \A q \in Procs : q # p => st'[q] = st[q]
    BY <1>0, <1>1, <1>2
  <1>8. /\ r.pc = "deget" /\ r.ret = "new" /\ r.slot = s /\ r.name = n /\ r.dvp = st[p].dvp
    BY <1>0, <1>1 DEF StRec
  <1>9. Others(p)
    BY <1>2, <1>7 DEF Others
  <1>10. NamesProc(p)'
    <2>1. NoAnswer(st[p])'
      BY <1>1, <1>2, <1>4, <1>7, <1>8 DEF NoAnswer
    <2>2. Getting(r)
      BY <1>8 DEF Getting
    <2> QED
      BY <1>6, <1>7, <1>8, <2>1, <2>2, ShapeNext, NamesGetting
  <1>11. \A q \in Procs : q # p => NamesProc(q)' /\ st[q].pc # "removede"
    BY <1>2, <1>3, <1>9, DirMine
  <1>12. ASSUME NEW w \in Vnodes
         PROVE  NamesVnode(w)'
    <2>1. NamesVnode(w) /\ \A q \in Procs : st[q].pc # "removede"
      BY <1>2, <1>11 DEF NamesInv
    <2>2. ~vn[w].bad /\ vn[w].slot \in Slots /\ vn[w].ref = 1 => vn[w].slot # s
      BY <1>4, <2>1, NoneApart DEF NamesVnode
    <2> QED
      BY <1>2, <1>6, <2>1, <2>2 DEF NamesVnode
  <1>13. NamesDir'
    <2>1. NamesDir
      BY DEF NamesInv
    <2> QED
      BY <1>3, <1>5, <1>6, <2>1 DEF NamesDir
  <1>14. NamesCache'
    <2>1. ASSUME NEW i \in DOMAIN nc
          PROVE  NamesEntry(nc[i])'
      <3>1. NamesEntry(nc[i]) /\ nc[i].dvp \in Vnodes
        BY EntryIs DEF NamesInv, NamesCache
      <3>2. nc[i].dvpid => nc[i].dvp = st[p].dvp
        BY <1>3, <3>1, OneRoot, DirIn DEF NamesEntry
      <3>3. nc[i].dvpid /\ nc[i].vp = None => nc[i].name # n
        BY <1>1, <1>4, <3>2 DEF NoAnswer, Answers
      <3> QED
        BY <1>2, <1>6, <3>1, <3>3 DEF NamesEntry
    <2>2. \A i, j \in DOMAIN nc' : i < j /\ nc'[i].dvpid => ~Answers(nc'[j], nc'[i].dvp, nc'[i].name)
      BY <1>2 DEF NamesInv, NamesCache
    <2> QED
      BY <1>2, <2>1, <2>2 DEF NamesCache
  <1> QED
    BY <1>10, <1>11, <1>12, <1>13, <1>14 DEF NamesInv

LEMMA markdeletedNames ==
    ASSUME Core, NamesInv, NEW p \in Procs, markdeleted(p)
    PROVE  NamesInv'
  <1>0. st[p] \in StRec /\ Shape(st[p]) /\ st \in [Procs -> StRec] /\ NamesProc(p) /\ Types
    BY NamesNow DEF Core
  <1>1. PICK v, r : v = st[p].vp /\ r = [st[p] EXCEPT !.pc = "removede"]
    OBVIOUS
  <1>2. PICK s : s = vn[v].slot
    OBVIOUS
  <1>3. /\ st[p].pc = "markdel" /\ cpu \in {p, None} /\ vn' = vn /\ nc' = nc /\ wchan' = wchan /\ held' = held
        /\ dir' = [dir EXCEPT ![s] = None] /\ st' = [st EXCEPT ![p] = r]
    BY <1>1, <1>2 DEF markdeleted, At, Yield, Goto
  <1>4. InDir(st[p]) /\ st[p].vp # None /\ st[p].gret # "newvnode"
    BY <1>0, <1>3, NoneApart DEF Shape, InDir, Cleaning
  <1>5. v \in Vnodes /\ ~vn[v].bad /\ s \in Slots
    BY <1>1, <1>2, <1>4, HasFileLeaf
  <1>6. HasFile(st[p]) /\ Searched(st[p])
    BY <1>3, <1>4 DEF HasFile, Searched
  <1>7. vn[v].ref = 1 /\ vn[v].name = st[p].name /\ NoAnswer(st[p])
    BY <1>0, <1>1, <1>6 DEF NamesProc
  <1>8. dir'[s] = None /\ \A t \in Slots : t # s => dir'[t] = dir[t]
    BY <1>0, <1>3, <1>5 DEF Types
  <1>9. st'[p] = r /\ \A q \in Procs : q # p => st'[q] = st[q]
    BY <1>0, <1>3
  <1>10. /\ r.pc = "removede" /\ r.vp = v /\ r.name = st[p].name /\ r.dvp = st[p].dvp /\ r.gret = st[p].gret
    BY <1>0, <1>1 DEF StRec
  <1>11. Others(p)
    BY <1>3, <1>9 DEF Others
  <1>12. NamesProc(p)'
    <2>1. NoAnswer(st[p])'
      BY <1>3, <1>7, <1>9, <1>10 DEF NoAnswer
    <2>2. ~Getting(r)
      BY <1>4, <1>10 DEF Getting, Making
    <2> QED
      BY <1>3, <1>7, <1>9, <1>10, <2>1, <2>2 DEF NamesProc
  <1>13. \A q \in Procs : q # p => NamesProc(q)' /\ st[q].pc # "removede"
    BY <1>3, <1>4, <1>11, DirMine
  <1>14. ASSUME NEW w \in Vnodes
         PROVE  NamesVnode(w)'
    <2>1. NamesVnode(w) /\ \A q \in Procs : st[q].pc # "removede"
      BY <1>3, <1>13 DEF NamesInv
    <2>2. CASE w = v
      BY <1>3, <1>9, <1>10, <2>1, <2>2 DEF NamesVnode
    <2>3. CASE w # v
      <3>1. ~vn[w].bad /\ vn[w].ref = 1 => vn[w].slot # s
        BY <1>2, <1>5, <1>7, <2>3 DEF Core, OneDenode
      <3> QED
        BY <1>3, <1>8, <2>1, <3>1 DEF NamesVnode
    <2> QED
      BY <2>2, <2>3
  <1>15. NamesDir'
    <2>1. NamesDir
      BY DEF NamesInv
    <2> QED
      BY <1>5, <1>8, <2>1 DEF NamesDir
  <1>16. NamesCache'
    <2>1. \A i \in DOMAIN nc : NamesEntry(nc[i]) /\ nc[i].name # None
      BY EntryIs, NoneApart DEF NamesInv, NamesCache
    <2>2. \A i \in DOMAIN nc' : NamesEntry(nc[i])'
      BY <1>3, <1>8, <2>1 DEF NamesEntry
    <2>3. \A i, j \in DOMAIN nc' : i < j /\ nc'[i].dvpid => ~Answers(nc'[j], nc'[i].dvp, nc'[i].name)
      BY <1>3 DEF NamesInv, NamesCache
    <2> QED
      BY <2>2, <2>3 DEF NamesCache
  <1> QED
    BY <1>12, <1>13, <1>14, <1>15, <1>16 DEF NamesInv

(* The file loses its reference; no entry of the cache answers for it.     *)
LEMMA removedeNames ==
    ASSUME Core, NamesInv, NEW p \in Procs, removede(p)
    PROVE  NamesInv'
  <1>0. st[p] \in StRec /\ Shape(st[p]) /\ st \in [Procs -> StRec] /\ NamesProc(p) /\ Types
    BY NamesNow DEF Core
  <1>1. PICK v, d : v = st[p].vp /\ d = st[p].dvp
    OBVIOUS
  <1>2. PICK x : x = [vn[v] EXCEPT !.ref = vn[v].ref - 1]
    OBVIOUS
  <1>3. /\ st[p].pc = "removede" /\ cpu \in {p, None} /\ nc' = nc /\ wchan' = wchan /\ held' = held
        /\ dir' = dir /\ vn' = [vn EXCEPT ![v].ref = @ - 1]
        /\ st' = [st EXCEPT ![p] = Releasing(@, <<@.vp, @.dvp>>, FALSE)]
    BY <1>1, ZenonT(60) DEF removede, At, Run
  <1>4. InDir(st[p]) /\ st[p].vp # None /\ HasLeaf(st[p])
    BY <1>0, <1>3 DEF Shape, InDir, HasLeaf
  <1>5. v \in Vnodes /\ vn[v] \in VnRec /\ vn[v].lock = p /\ d \in Vnodes
    BY <1>1, <1>4, HasFileLeaf, DirIn
  <1>6. HasFile(st[p]) /\ Searched(st[p])
    BY <1>3, <1>4 DEF HasFile, Searched
  <1>7. vn[v].ref = 1 /\ vn[v].name = st[p].name /\ NoAnswer(st[p])
    BY <1>0, <1>1, <1>6 DEF NamesProc
  <1>8. vn'[v] = x /\ \A w \in Vnodes : w # v => vn'[w] = vn[w]
    BY <1>0, <1>2, <1>3, <1>5 DEF Types
  <1>9. /\ x.ref = 0 /\ x.del = vn[v].del /\ x.bad = vn[v].bad /\ x.slot = vn[v].slot
    BY <1>2, <1>5, <1>7 DEF VnRec
  <1>10. ~vn[v].del
    BY <1>5, <1>7 DEF NamesInv, NamesVnode
  <1>11. PICK r : r = Releasing(st[p], <<v, d>>, FALSE)
    OBVIOUS
  <1>12. r.pc = "rele" /\ r.gret = None
    <2>1. <<v, d>> \in Seq(Vnodes)
      BY <1>5
    <2> QED
      BY <1>0, <1>11, <2>1, ReleasingType
  <1>13. st'[p] = r /\ \A q \in Procs : q # p => st'[q] = st[q]
    BY <1>0, <1>1, <1>3, <1>11
  <1>14. Others(p)
    BY <1>3, <1>13 DEF Others
  <1>15. NamesProc(p)'
    BY <1>12, <1>13, NoneApart, NamesPlain
  <1>16. ASSUME NEW q \in Procs, q # p
         PROVE  NamesProc(q)' /\ st[q].pc # "removede"
    <2>1. ~InDir(st[q]) /\ cpu # q
      BY <1>3, <1>4, <1>16, DirAlone, NoneApart
    <2>2. HasFile(st[q]) => st[q].vp \in Vnodes /\ st[q].vp # v
      <3>1. HasFile(st[q]) => HasLeaf(st[q]) /\ st[q].vp # None
        BY <2>1 DEF HasFile, HasLeaf, InDir
      <3> QED
        BY <1>5, <1>16, <3>1, HasFileLeaf
    <2>3. st[q].pc \in Inactive => vn'[st[q].gvp].ref = vn[st[q].gvp].ref
      <3>1. st[q].pc \in Inactive => st[q].gvp # None
        BY DEF Core, ProcOK, Own, Shape, Working
      <3>2. st[q].pc \in Inactive => st[q].gvp \in Vnodes /\ vn[st[q].gvp].lock = q
        BY <3>1, WorksOn DEF Works
      <3> QED
        BY <1>5, <1>8, <1>16, <3>2
    <2>4. st[q].pc # "removede"
      BY <2>1 DEF InDir
    <2> QED
      BY <1>3, <1>8, <1>14, <1>16, <2>1, <2>2, <2>3, <2>4, NamesOther
  <1>17. ASSUME NEW w \in Vnodes
         PROVE  NamesVnode(w)'
    <2>1. NamesVnode(w)
      BY DEF NamesInv
    <2>2. CASE w = v
      BY <1>8, <1>9, <1>10, <2>2 DEF NamesVnode
    <2>3. CASE w # v
      <3>1. \A q \in Procs : ~(st[q].pc = "removede" /\ st[q].vp = w)
        BY <1>1, <1>16, <2>3
      <3> QED
        BY <1>3, <1>8, <2>1, <2>3, <3>1 DEF NamesVnode
    <2> QED
      BY <2>2, <2>3
  <1>18. NamesDir'
    BY <1>3 DEF NamesInv, NamesDir
  <1>19. NamesCache'
    <2>1. ASSUME NEW i \in DOMAIN nc
          PROVE  NamesEntry(nc[i])'
      <3>1. NamesEntry(nc[i]) /\ nc[i].dvp \in Vnodes /\ (Valid(nc[i]) => nc[i].vp \in Vnodes)
        BY EntryIs DEF NamesInv, NamesCache
      <3>2. nc[i].dvpid => nc[i].dvp = d
        BY <1>1, <1>4, <3>1, OneRoot, DirIn DEF NamesEntry
      <3>3. nc[i].dvpid /\ Valid(nc[i]) => nc[i].vp # v
        <4>1. nc[i].dvpid /\ Valid(nc[i]) /\ nc[i].vp = v => Answers(nc[i], st[p].dvp, st[p].name)
          BY <1>1, <1>7, <3>1, <3>2 DEF NamesEntry, Answers, Valid
        <4> QED
          BY <1>7, <4>1 DEF NoAnswer
      <3>4. \A w \in Vnodes : vn'[w].bad = vn[w].bad /\ vn'[w].slot = vn[w].slot
        BY <1>8, <1>9
      <3> QED
        BY <1>3, <1>8, <3>1, <3>3, <3>4 DEF NamesEntry
    <2>2. \A i, j \in DOMAIN nc' : i < j /\ nc'[i].dvpid => ~Answers(nc'[j], nc'[i].dvp, nc'[i].name)
      BY <1>3 DEF NamesInv, NamesCache
    <2> QED
      BY <1>3, <2>1, <2>2 DEF NamesCache
  <1> QED
    BY <1>15, <1>16, <1>17, <1>18, <1>19 DEF NamesInv

-----------------------------------------------------------------------------
(* The name cache loses an entry, or gets one.                             *)
NamesList(s) ==
    /\ \A i \in DOMAIN s : NamesEntry(s[i])
    /\ \A i, j \in DOMAIN s : i < j /\ s[i].dvpid => ~Answers(s[j], s[i].dvp, s[i].name)

LEMMA ListDropped ==
    ASSUME Core, NamesInv, NEW i \in DOMAIN nc
    PROVE  /\ DropEntry(i) \in Seq(Entry) /\ NamesList(DropEntry(i))
           /\ \A j \in DOMAIN DropEntry(i) : \E k \in DOMAIN nc : k # i /\ DropEntry(i)[j] = nc[k]
  <1>1. nc \in Seq(Entry)
    BY DEF Core, Types
  <1>2. PICK s : s = DropEntry(i)
    OBVIOUS
  <1>3. /\ s \in Seq(Entry) /\ Len(s) = Len(nc) - 1
        /\ \A j \in DOMAIN s : s[j] = IF j < i THEN nc[j] ELSE nc[j + 1]
    BY <1>1, <1>2, UnlinkPlaces DEF DropEntry
  <1>4. i \in 1..Len(nc) /\ Len(nc) \in Nat /\ DOMAIN s = 1..(Len(nc) - 1) /\ DOMAIN nc = 1..Len(nc)
    BY <1>1, <1>3
  <1>5. \A j \in DOMAIN s : \E k \in DOMAIN nc : k # i /\ s[j] = nc[k]
    BY <1>3, <1>4
  <1>6. \A j, l \in DOMAIN s : j < l => \E k, m \in DOMAIN nc : k < m /\ s[j] = nc[k] /\ s[l] = nc[m]
    <2> SUFFICES ASSUME NEW j \in DOMAIN s, NEW l \in DOMAIN s, j < l
                 PROVE  \E k, m \in DOMAIN nc : k < m /\ s[j] = nc[k] /\ s[l] = nc[m]
      OBVIOUS
    <2>1. PICK k, m : k = (IF j < i THEN j ELSE j + 1) /\ m = (IF l < i THEN l ELSE l + 1)
      OBVIOUS
    <2>2. k \in DOMAIN nc /\ m \in DOMAIN nc /\ k < m
      BY <1>4, <2>1
    <2>3. s[j] = nc[k] /\ s[l] = nc[m]
      BY <1>3, <2>1
    <2> QED
      BY <2>2, <2>3
  <1>7. NamesList(s)
    <2>1. \A j \in DOMAIN nc : NamesEntry(nc[j])
      BY DEF NamesInv, NamesCache
    <2>2. \A k, m \in DOMAIN nc : k < m /\ nc[k].dvpid => ~Answers(nc[m], nc[k].dvp, nc[k].name)
      BY DEF NamesInv, NamesCache
    <2>3. \A j \in DOMAIN s : NamesEntry(s[j])
      BY <1>5, <2>1
    <2>4. \A j, l \in DOMAIN s : j < l /\ s[j].dvpid => ~Answers(s[l], s[j].dvp, s[j].name)
      BY <1>6, <2>2
    <2> QED
      BY <2>3, <2>4 DEF NamesList
  <1> QED
    BY <1>2, <1>3, <1>5, <1>7

LEMMA ListAdded ==
    ASSUME NEW s \in Seq(Entry), NamesList(s), NEW e \in Entry, NamesEntry(e), nc' = <<e>> \o s,
           vn' = vn, dir' = dir, \A j \in DOMAIN s : ~Answers(s[j], e.dvp, e.name)
    PROVE  NamesCache'
  <1>1. /\ nc' \in Seq(Entry) /\ Len(nc') = Len(s) + 1
        /\ \A j \in DOMAIN nc' : nc'[j] = IF j = 1 THEN e ELSE s[j - 1]
    BY ConsPlaces
  <1>2. Len(s) \in Nat /\ DOMAIN nc' = 1..(Len(s) + 1) /\ DOMAIN s = 1..Len(s)
    BY <1>1
  <1>3. \A j \in DOMAIN nc' : \/ j = 1 /\ nc'[j] = e
                              \/ j - 1 \in DOMAIN s /\ nc'[j] = s[j - 1]
    BY <1>1, <1>2
  <1>4. \A j \in DOMAIN nc' : NamesEntry(nc'[j])
    BY <1>3 DEF NamesList
  <1>5. \A j \in DOMAIN nc' : NamesEntry(nc[j])'
    BY <1>4 DEF NamesEntry
  <1>6. ASSUME NEW i \in DOMAIN nc', NEW j \in DOMAIN nc', i < j, nc'[i].dvpid
        PROVE  ~Answers(nc'[j], nc'[i].dvp, nc'[i].name)
    <2>1. j - 1 \in DOMAIN s /\ nc'[j] = s[j - 1]
      BY <1>2, <1>3, <1>6
    <2>2. CASE i = 1 /\ nc'[i] = e
      BY <2>1, <2>2
    <2>3. CASE i - 1 \in DOMAIN s /\ nc'[i] = s[i - 1]
      <3>1. i - 1 < j - 1
        BY <1>2, <1>6
      <3> QED
        BY <1>6, <2>1, <2>3, <3>1 DEF NamesList
    <2> QED
      BY <1>3, <2>2, <2>3
  <1> QED
    BY <1>5, <1>6 DEF NamesCache

(* The vnodes and the directory stay as they are.                          *)
LEMMA NamesRest ==
    ASSUME Core, NamesInv, NEW p \in Procs, Others(p), st[p].pc # "removede", vn' = vn, dir' = dir
    PROVE  NamesDir' /\ \A v \in Vnodes : NamesVnode(v)'
  <1>1. NamesDir'
    BY DEF NamesInv, NamesDir
  <1>2. ASSUME NEW v \in Vnodes
        PROVE  NamesVnode(v)'
    <2>1. NamesVnode(v)
      BY DEF NamesInv
    <2>2. \A q \in Procs : st[q].pc = "removede" /\ st[q].vp = v =>
             st'[q].pc = "removede" /\ st'[q].vp = v
      BY DEF Others
    <2> QED
      BY <2>1, <2>2 DEF NamesVnode
  <1> QED
    BY <1>1, <1>2

LEMMA CacheMissNames ==
    ASSUME Core, NamesInv, NEW p \in Procs, CacheMiss(p)
    PROVE  NamesInv'
  <1>0. st[p] \in StRec /\ Shape(st[p]) /\ st \in [Procs -> StRec] /\ NamesProc(p) /\ Types
    BY NamesNow DEF Core
  <1>1. PICK r : r = [st[p] EXCEPT !.pc = "search"]
    OBVIOUS
  <1>2. /\ st[p].pc = "cache" /\ cpu \in {p, None} /\ vn' = vn /\ wchan' = wchan /\ held' = held
        /\ dir' = dir /\ st' = [st EXCEPT ![p] = r]
        /\ \/ Matches(p) = {} /\ nc' = nc
           \/ Matches(p) # {} /\ nc' = DropEntry(FirstMatch(p))
    BY <1>1 DEF CacheMiss, At, Run, Goto, fs
  <1>3. InDir(st[p]) /\ st[p].gret # "newvnode"
    BY <1>0, <1>2, NoneApart DEF Shape, InDir, Cleaning
  <1>4. st'[p] = r /\ \A q \in Procs : q # p => st'[q] = st[q]
    BY <1>0, <1>2
  <1>5. r.pc = "search" /\ r.name = st[p].name /\ r.dvp = st[p].dvp /\ r.gret = st[p].gret
    BY <1>0, <1>1 DEF StRec
  <1>6. Others(p)
    BY <1>2, <1>4 DEF Others
  <1>7. /\ NamesCache'
        /\ \A j \in DOMAIN nc' : ~Answers(nc'[j], st[p].dvp, st[p].name)
    <2>1. CASE Matches(p) = {} /\ nc' = nc
      <3>1. \A j \in DOMAIN nc : ~Answers(nc[j], st[p].dvp, st[p].name)
        BY <2>1, FirstAnswers
      <3>2. \A j \in DOMAIN nc : NamesEntry(nc[j])'
        BY <1>2, <2>1 DEF NamesInv, NamesCache, NamesEntry
      <3>3. \A i, j \in DOMAIN nc : i < j /\ nc[i].dvpid => ~Answers(nc[j], nc[i].dvp, nc[i].name)
        BY DEF NamesInv, NamesCache
      <3> QED
        BY <2>1, <3>1, <3>2, <3>3 DEF NamesCache
    <2>2. CASE Matches(p) # {} /\ nc' = DropEntry(FirstMatch(p))
      <3>1. FirstMatch(p) \in DOMAIN nc
        BY <1>0, <2>2, FirstMatchIn
      <3>2. /\ NamesList(nc')
            /\ \A j \in DOMAIN nc' : \E k \in DOMAIN nc : k # FirstMatch(p) /\ nc'[j] = nc[k]
        BY <2>2, <3>1, ListDropped
      <3>3. \A j \in DOMAIN nc' : ~Answers(nc'[j], st[p].dvp, st[p].name)
        BY <3>2, FirstAnswers
      <3>4. \A j \in DOMAIN nc' : NamesEntry(nc[j])'
        BY <1>2, <3>2 DEF NamesList, NamesEntry
      <3>5. \A i, j \in DOMAIN nc' : i < j /\ nc'[i].dvpid => ~Answers(nc'[j], nc'[i].dvp, nc'[i].name)
        BY <3>2 DEF NamesList
      <3> QED
        BY <3>3, <3>4, <3>5 DEF NamesCache
    <2> QED
      BY <1>2, <2>1, <2>2
  <1>8. NamesProc(p)'
    <2>1. NoAnswer(st[p])'
      BY <1>4, <1>5, <1>7 DEF NoAnswer
    <2>2. ~Getting(r) /\ ~HasFile(r)
      BY <1>3, <1>5 DEF Getting, Making, HasFile
    <2> QED
      BY <1>4, <1>5, <2>1, <2>2 DEF NamesProc
  <1>9. \A q \in Procs : q # p => NamesProc(q)'
    BY <1>2, <1>3, <1>6, DirMine
  <1>10. NamesDir' /\ \A v \in Vnodes : NamesVnode(v)'
    BY <1>2, <1>6, NamesRest
  <1> QED
    BY <1>7, <1>8, <1>9, <1>10 DEF NamesInv

LEMMA CacheEnterNames ==
    ASSUME Core, NamesInv, NEW p \in Procs, CacheEnter(p)
    PROVE  NamesInv'
  <1>0. st[p] \in StRec /\ Shape(st[p]) /\ st \in [Procs -> StRec] /\ NamesProc(p) /\ Types
    BY NamesNow DEF Core
  <1>1. PICK r, e : /\ r = [st[p] EXCEPT !.pc = IF st[p].vp = None THEN "enoent" ELSE "found"]
                    /\ e = [dvp |-> st[p].dvp, dvpid |-> TRUE, name |-> st[p].name,
                            vp |-> st[p].vp, vpid |-> st[p].vp # None]
    OBVIOUS
  <1>2. /\ st[p].pc \in {"enter", "malloc"} /\ cpu \in {p, None} /\ vn' = vn /\ wchan' = wchan /\ held' = held
        /\ dir' = dir /\ st' = [st EXCEPT ![p] = r] /\ cache_enter(p)
    BY <1>1 DEF CacheEnter, At, Run, Goto, fs
  <1>3. st[p].pc = "enter"
    BY <1>0, <1>2 DEF NamesProc
  <1>4. PICK s : nc' = <<e>> \o s /\ (s = nc \/ \E i \in DOMAIN nc : s = DropEntry(i))
    BY <1>1, <1>2 DEF cache_enter
  <1>5. /\ s \in Seq(Entry) /\ NamesList(s)
        /\ \A j \in DOMAIN s : \E k \in DOMAIN nc : s[j] = nc[k]
    <2>1. CASE s = nc
      BY <1>0, <2>1 DEF NamesInv, NamesCache, NamesList, Types
    <2>2. CASE \E i \in DOMAIN nc : s = DropEntry(i)
      BY <2>2, ListDropped
    <2> QED
      BY <1>4, <2>1, <2>2
  <1>6. /\ st[p].dvp # None /\ st[p].gret # "newvnode" /\ st[p].name \in Names /\ st[p].vp \in SomeVnode
        /\ st[p].call # "unlink"
    BY <1>0, <1>3, NoneApart DEF Shape, Letting, Cleaning, StRec
  <1>7. st[p].dvp \in Vnodes /\ ~vn[st[p].dvp].bad /\ vn[st[p].dvp].slot = RootSlot
    BY <1>6, HasDir
  <1>8. /\ vn[st[p].dvp].lock \in {p, None} /\ NoAnswer(st[p])
        /\ st[p].vp # None => vn[st[p].vp].ref = 1 /\ vn[st[p].vp].name = st[p].name
        /\ st[p].vp = None => Found(p) = {}
    BY <1>0, <1>3 DEF NamesProc, Searched, HasFile
  <1>9. e \in Entry /\ e.dvp = st[p].dvp /\ e.name = st[p].name /\ e.vp = st[p].vp
    BY <1>1, <1>6, <1>7 DEF Entry
  <1>10. NamesEntry(e)
    BY <1>7, <1>8, <1>9 DEF NamesEntry, Valid, Found
  <1>11. \A j \in DOMAIN s : ~Answers(s[j], e.dvp, e.name)
    BY <1>5, <1>8, <1>9 DEF NoAnswer
  <1>12. NamesCache'
    BY <1>2, <1>4, <1>5, <1>9, <1>10, <1>11, ListAdded
  <1>13. st'[p] = r /\ \A q \in Procs : q # p => st'[q] = st[q]
    BY <1>0, <1>2
  <1>14. /\ r.pc = (IF st[p].vp = None THEN "enoent" ELSE "found") /\ r.name = st[p].name
         /\ r.dvp = st[p].dvp /\ r.gret = st[p].gret /\ r.vp = st[p].vp /\ r.call = st[p].call
    BY <1>0, <1>1 DEF StRec
  <1>15. Others(p)
    BY <1>2, <1>13 DEF Others
  <1>16. NamesProc(p)'
    <2>1. ~Getting(r) /\ ~Searched(r)
      BY <1>6, <1>14 DEF Getting, Making, Searched
    <2>2. Found(p)' = Found(p)
      BY <1>2, <1>13, <1>14 DEF Found
    <2> QED
      BY <1>2, <1>8, <1>13, <1>14, <2>1, <2>2 DEF NamesProc, HasFile
  <1>17. ASSUME NEW q \in Procs, q # p
         PROVE  NamesProc(q)'
    <2>1. ~InDir(st[q])
      <3>1. SUFFICES ASSUME InDir(st[q]) PROVE FALSE
        OBVIOUS
      <3>2. st[q].dvp = st[p].dvp
        BY <1>7, <3>1, DirIn, OneRoot
      <3> QED
        BY <1>8, <1>17, <3>1, <3>2, DirIn, NoneApart
    <2> QED
      BY <1>2, <1>15, <1>17, <2>1, NamesOther
  <1>18. NamesDir' /\ \A v \in Vnodes : NamesVnode(v)'
    BY <1>2, <1>3, <1>15, NamesRest
  <1> QED
    BY <1>12, <1>16, <1>17, <1>18 DEF NamesInv

-----------------------------------------------------------------------------
(* The invariant.                                                          *)
LEMMA NamesStutters ==
    ASSUME NamesInv, UNCHANGED vars
    PROVE  NamesInv'
  <1>1. /\ vn' = vn /\ nc' = nc /\ dir' = dir /\ st' = st /\ wchan' = wchan /\ cpu' = cpu
    BY DEF vars, fs
  <1>2. \A p \in Procs : NamesProc(p)'
    BY <1>1 DEF NamesInv, NamesProc, NoAnswer, Found
  <1>3. \A v \in Vnodes : NamesVnode(v)'
    BY <1>1 DEF NamesInv, NamesVnode
  <1>4. NamesDir' /\ NamesCache'
    BY <1>1 DEF NamesInv, NamesDir, NamesCache, NamesEntry
  <1> QED
    BY <1>2, <1>3, <1>4 DEF NamesInv

LEMMA StepNames ==
    ASSUME ~MallocSleeps, Core, NamesInv, NEW p \in Procs, Step(p)
    PROVE  NamesInv'
  <1>0. Core'
    BY StepKeepsCore
  <1>1. ~CacheMalloc(p)
    BY DEF CacheMalloc
  <1>2. ~Unmounts(p)
    BY NobodyUnmounts
  <1>3. CASE Cross(p)
    BY <1>0, <1>3, CrossNames
  <1>4. CASE DegetWait(p) \/ DegetHit(p) \/ getnewvnode(p) \/ NoVnode(p)
    BY <1>0, <1>4, DegetWaitNames, DegetHitNames, getnewvnodeNames, NoVnodeNames
  <1>5. CASE NewVnode(p) \/ vgone(p) \/ vclean(p) \/ Reclaim(p)
    BY <1>0, <1>5, NewVnodeNames, vgoneNames, vcleanNames, ReclaimNames
  <1>6. CASE CacheMiss(p) \/ CacheNegative(p) \/ CacheHit(p) \/ CacheFail(p) \/ CacheLock(p)
    BY <1>6, CacheMissNames, CacheNegativeNames, CacheHitNames, CacheFailNames, CacheLockNames
  <1>7. CASE CacheEnter(p)
    BY <1>7, CacheEnterNames
  <1>8. CASE BufWait(p) \/ Search(p) \/ ScanFound(p) \/ ScanMissing(p)
    BY <1>0, <1>8, BufWaitNames, SearchNames, ScanFoundNames, ScanMissingNames
  <1>9. CASE createde(p) \/ Created(p) \/ markdeleted(p) \/ removede(p)
    BY <1>0, <1>9, createdeNames, CreatedNames, markdeletedNames, removedeNames
  <1>10. CASE LookupFound(p) \/ LookupFails(p)
    BY <1>10, LookupFoundNames, CreatedNames
  <1>11. CASE vrele(p) \/ Return(p) \/ msdosfs_inactive(p) \/ Truncated(p)
    BY <1>11, vreleNames, ReturnNames, msdosfs_inactiveNames, TruncatedNames
  <1>12. CASE deupdat(p) \/ Updated(p)
    BY <1>12, deupdatNames, UpdatedNames
  <1> QED
    BY <1>1, <1>2, <1>3, <1>4, <1>5, <1>6, <1>7, <1>8, <1>9, <1>10, <1>11, <1>12 DEF Step, Unmounts

LEMMA NamesNext ==
    ASSUME ~MallocSleeps, Core, NamesInv, [Next]_vars
    PROVE  NamesInv'
  <1>1. ASSUME NEW p \in Procs, Begin(p), UNCHANGED calls
        PROVE  NamesInv'
    <2>1. CASE \E c \in calls, n \in Names : Call(p, c, n)
      BY <2>1, CallNames
    <2>2. CASE Close(p) \/ Write(p)
      BY <2>2, CloseNames, WriteNames
    <2>3. ~Unmount(p)
      BY DEF Core, Types, Unmount
    <2> QED
      BY <1>1, <2>1, <2>2, <2>3 DEF Begin
  <1>2. CASE Next
    <2>1. PICK p \in Procs : Step(p) \/ (Begin(p) /\ UNCHANGED calls)
      BY <1>2 DEF Next
    <2> QED
      BY <1>1, <2>1, StepNames
  <1>3. CASE UNCHANGED vars
    BY <1>3, NamesStutters
  <1> QED
    BY <1>2, <1>3

LEMMA NamesInit ==
    ASSUME Init
    PROVE  NamesInv
  <1>1. /\ vn = [v \in Vnodes |-> NoFile] /\ nc = <<>> /\ st = [p \in Procs |-> NoCall]
        /\ \A s, t \in Slots : dir[s] = dir[t] => s = t \/ dir[s] = None
    BY DEF Init
  <1>2. \A p \in Procs : st[p] = NoCall
    BY <1>1
  <1>3. NoCall.pc = "idle" /\ NoCall.gret = None
    BY DEF NoCall
  <1>4. \A p \in Procs : NamesProc(p)
    <2>1. ~Getting(NoCall) /\ ~HasFile(NoCall) /\ ~Searched(NoCall)
      BY <1>3, NoneApart DEF Getting, Making, HasFile, Searched
    <2> QED
      BY <1>2, <1>3, <2>1 DEF NamesProc
  <1>5. \A v \in Vnodes : NamesVnode(v)
    BY <1>1 DEF NamesVnode, NoFile
  <1>6. NamesDir
    BY <1>1 DEF NamesDir
  <1>7. NamesCache
    <2>1. DOMAIN nc = {}
      BY <1>1
    <2> QED
      BY <2>1 DEF NamesCache
  <1> QED
    BY <1>4, <1>5, <1>6, <1>7 DEF NamesInv

LEMMA NamesAlways ==
    ASSUME NoUnmount, ~MallocSleeps
    PROVE  Spec => [](Core /\ NamesInv)
  <1>1. Init => Core /\ NamesInv
    BY CoreInit, NamesInit
  <1>2. (Core /\ NamesInv) /\ [Next]_vars => (Core /\ NamesInv)'
    BY CoreNext, NamesNext
  <1> QED
    BY <1>1, <1>2, PTL DEF Spec

(* The lookup that found a file has it as it is in the directory now.      *)
LEMMA NamesLookup ==
    ASSUME Core, NamesInv
    PROVE  LookupRight
  <1> SUFFICES ASSUME NEW p \in Procs, st[p].pc \in {"found", "markdel"}
               PROVE  LET v == st[p].vp IN
                      /\ vn[v].lock = p /\ ~vn[v].bad /\ ~vn[v].xlock /\ vn[v].ref = 1
                      /\ dir[vn[v].slot] = st[p].name
    BY DEF LookupRight
  <1>0. Shape(st[p]) /\ NamesProc(p)
    BY NamesNow
  <1>1. PICK v : v = st[p].vp
    OBVIOUS
  <1>2. st[p].vp # None /\ HasLeaf(st[p]) /\ HasFile(st[p])
    BY <1>0 DEF Shape, HasLeaf, HasFile
  <1>3. v \in Vnodes /\ ~vn[v].bad /\ ~vn[v].xlock /\ vn[v].lock = p /\ vn[v].slot \in Slots
    BY <1>1, <1>2, HasFileLeaf
  <1>4. vn[v].ref = 1 /\ vn[v].name = st[p].name
    BY <1>0, <1>1, <1>2 DEF NamesProc
  <1>5. ASSUME NEW q \in Procs, st[q].pc = "removede", st[q].vp = v
        PROVE  FALSE
    <2>1. vn[v].lock = q
      BY <1>3, <1>5 DEF Core, Pair, Refers, HasLeaf
    <2> QED
      BY <1>3, <1>5, <2>1
  <1>6. dir[vn[v].slot] = vn[v].name
    BY <1>3, <1>4, <1>5 DEF NamesInv, NamesVnode
  <1> QED
    BY <1>1, <1>3, <1>4, <1>6

LEMMA NamesOpen ==
    ASSUME Core, NamesInv
    PROVE  OpenKept
  <1> SUFFICES ASSUME NEW p \in Procs, held[p] # None
               PROVE  /\ ~vn[held[p]].bad /\ ~vn[held[p]].del
                      /\ \A q \in Procs : st[q].pc = "detrunc" => st[q].gvp # held[p]
    BY DEF OpenKept
  <1>1. held[p] \in Vnodes /\ ~vn[held[p]].bad /\ vn[held[p]].use > 0
    BY HasOpen
  <1>2. ~vn[held[p]].del
    BY <1>1 DEF NamesInv, NamesVnode
  <1>3. \A q \in Procs : st[q].pc = "detrunc" => st[q].gvp # held[p]
    BY <1>1, TruncatedUnused
  <1> QED
    BY <1>1, <1>2, <1>3

(* A lookup that found a file, in the name cache or in the directory, has  *)
(* that file of that name as it is in the directory now, locked: however   *)
(* long it slept in vget or deget, whoever removed, recycled or created    *)
(* files meanwhile (cache_lookup, vfs_cache.c; msdosfs_lookup).            *)
THEOREM LookupRightAlways ==
    ASSUME NoUnmount, ~MallocSleeps
    PROVE  Spec => []LookupRight
  <1>1. Spec => [](Core /\ NamesInv)
    BY NamesAlways
  <1>2. Core /\ NamesInv => LookupRight
    BY NamesLookup
  <1> QED
    BY <1>1, <1>2, PTL

(* A lookup that answers that there is no such file is right, also when it *)
(* has the answer from a negative entry of the name cache: none outlives   *)
(* the creation of the file (cache_lookup, cache_enter; vfs_cache.c).      *)
THEOREM AbsentRightAlways ==
    ASSUME NoUnmount, ~MallocSleeps
    PROVE  Spec => []AbsentRight
  <1>1. Spec => [](Core /\ NamesInv)
    BY NamesAlways
  <1>2. Core /\ NamesInv => AbsentRight
    BY DEF NamesInv, NamesProc, AbsentRight
  <1> QED
    BY <1>1, <1>2, PTL

(* A file that a process has open is neither cleaned out nor truncated nor *)
(* marked deleted, even when its name is gone and its slot belongs to      *)
(* another file: msdosfs_inactive truncates a file that nobody can reach   *)
(* any more (msdosfs_inactive, msdosfs_denode.c; removede).                *)
THEOREM OpenKeptAlways ==
    ASSUME NoUnmount, ~MallocSleeps
    PROVE  Spec => []OpenKept
  <1>1. Spec => [](Core /\ NamesInv)
    BY NamesAlways
  <1>2. Core /\ NamesInv => OpenKept
    BY NamesOpen
  <1> QED
    BY <1>1, <1>2, PTL
=============================================================================
