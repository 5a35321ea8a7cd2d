--------------------------- MODULE BufCacheProofs ---------------------------
(***************************************************************************)
(* Proofs about the buffer cache (BufCache), for any numbers of processes, *)
(* buffers, vnodes and blocks, and any limit on the cache's memory.        *)
(***************************************************************************)
EXTENDS BufCache, FiniteSetTheorems, TLAPS

Flags  == {"BUSY", "DONE", "DELWRI", "ASYNC", "READ", "ERROR", "INVAL", "WANTED", "AGE"}
Labels == {"idle", "getblk", "found", "getnewbuf", "malloc", "recycle", "insert", "got",
           "hold", "biowait", "bwrite", "started", "bwait", "vflushbuf", "drain",
           "vinvalbuf", "invalidate", "panic"}
BufStates == [flags : SUBSET Flags, vp : Vnodes \cup {None}, lblkno : Blocks \cup {None},
              data : Data \cup {None}, list : (Vnodes \X {"dirty", "clean"}) \cup {None}]
OpStates  == [call : Calls \cup {None}, vn : Vnodes \cup {None}, lbn : Blocks \cup {None},
              next : Blocks \cup {None}, bp : Bufs \cup {None}, first : Bufs \cup {None},
              nbp : Bufs \cup {None}, oldstate : SUBSET Flags,
              ret : {"idle", "recycle", "vflushbuf", "vinvalbuf"},
              needfree : Int, flag : BOOLEAN]

TypeOK ==
    /\ buf \in [Bufs -> BufStates] /\ hashed \subseteq Bufs /\ lru \in Seq(Bufs)
    /\ bufneeded \in BOOLEAN /\ io \subseteq Bufs
    /\ v_numoutput \in [Vnodes -> Int] /\ VBWAIT \in [Vnodes -> BOOLEAN]
    /\ disk \in [Vnodes \X Blocks -> Data \cup {None}]
    /\ contents \in [Vnodes \X Blocks -> Data \cup {None}]
    /\ pc \in [Procs -> Labels] /\ op \in [Procs -> OpStates]
    /\ wchan \in [Procs -> Bufs \cup Vnodes \cup {"bufneeded", None}]
    /\ cpu \in Procs \cup {None}

(* The LRU list has every buffer that is in use and not busy, once.        *)
Once(l) == \A i, j \in DOMAIN l : l[i] = l[j] => i = j
LruOK ==
    /\ Once(lru)
    /\ \A b \in Bufs : OnList(b, lru) <=> b \in InUse /\ ~Is(b, "BUSY")

(* What a buffer says of itself.                                           *)
Dirty(b) == buf[b].list # None /\ buf[b].list[2] = "dirty"
BufOK(b) ==
    /\ buf[b].vp = None <=> buf[b].list = None
    /\ buf[b].list # None => buf[b].list[1] = buf[b].vp
    /\ Is(b, "DELWRI") => Dirty(b)
    /\ Is(b, "INVAL") => buf[b].vp = None
    /\ buf[b].vp # None => buf[b].lblkno # None /\ b \in hashed
    /\ b \in hashed => b \in InUse
    /\ ~Is(b, "BUSY") =>
          /\ ~Is(b, "ASYNC") /\ ~Is(b, "WANTED") /\ (Is(b, "DELWRI") => Is(b, "DONE"))
          /\ Is(b, "ERROR") \/ (b \in InUse /\ buf[b].vp = None) => Is(b, "INVAL")
    /\ b \in io => /\ Is(b, "BUSY") /\ ~Is(b, "DONE") /\ ~Is(b, "DELWRI") /\ ~Is(b, "ERROR")
                   /\ buf[b].vp # None

(* A buffer on the dirty list without a delayed write is one that bwrite   *)
(* has not yet come to move.                                               *)
DirtyOK(b) == Dirty(b) /\ ~Is(b, "DELWRI") =>
    \E p \in Procs : pc[p] = "started" /\ op[p].bp = b /\ "DELWRI" \in op[p].oldstate

(* A busy buffer is one process's, or the device's.                        *)
OwnOK(b) ==
    /\ \A p, q \in Owners(b) : p = q
    /\ Owners(b) # {} <=> Is(b, "BUSY") /\ ~(Is(b, "ASYNC") /\ b \in io)

(* Where a process does not sleep before its next step.                    *)
Alone == {"found", "getnewbuf", "got", "bwrite", "started", "vflushbuf", "invalidate"}
Writing == {"bwrite", "started", "bwait"}
Getting == {"getblk", "found", "getnewbuf", "malloc", "recycle", "insert", "got"}

ForBlock(p) == \/ pc[p] \in Getting \cup {"hold", "biowait"}
               \/ pc[p] \in Writing /\ op[p].ret \in {"idle", "recycle"}

(* What a process has asked for.                                           *)
CallOK(p) ==
    /\ pc[p] \in Alone => cpu = p
    /\ pc[p] \notin Writing => op[p].ret = "idle"
    /\ pc[p] \in {"vflushbuf", "drain"} \/ op[p].ret = "vflushbuf" => op[p].call = "vflushbuf"
    /\ pc[p] \in {"vinvalbuf", "invalidate"} \/ op[p].ret = "vinvalbuf"
          => op[p].call = "vinvalbuf"
    /\ ForBlock(p) => /\ op[p].call \in {"getblk", "geteblk", "bread", "breada"}
                      /\ op[p].call # "geteblk" => op[p].lbn \in Blocks
    /\ pc[p] \in {"getblk", "found", "biowait"} => op[p].call # "geteblk"
    /\ pc[p] \notin {"idle", "panic"} /\ op[p].call # "geteblk" => op[p].vn \in Vnodes
    /\ (pc[p] \in Getting \/ op[p].ret = "recycle") /\ op[p].call = "breada"
          => op[p].next \in Blocks
    /\ op[p].first # None =>
          /\ op[p].call = "breada"
          /\ \/ pc[p] \in Getting
             \/ pc[p] \in {"bwrite", "started"} /\ op[p].ret = "recycle"

(* The state of the buffer that a process has in hand.                     *)
Transfer(b) == ~Is(b, "ASYNC") /\ (b \in io \/ Is(b, "DONE"))
HandOK(p) ==
    LET b == op[p].bp IN
    /\ pc[p] \in {"found", "insert", "got", "hold", "biowait", "invalidate"} \cup Writing
          => b \in Bufs
    /\ op[p].first # None =>
          Transfer(op[p].first) /\ (pc[p] \in {"insert", "got", "bwrite"} => op[p].first # b)
    /\ pc[p] = "insert" => buf[b] = [NoBuf EXCEPT !.flags = {"BUSY"}] /\ b \notin hashed
    /\ pc[p] \in {"got", "hold"} =>
          /\ b \notin io /\ ~Is(b, "ASYNC") /\ (Is(b, "DELWRI") => Is(b, "DONE"))
          /\ op[p].call = "geteblk" => Is(b, "INVAL")
    /\ pc[p] = "got" => ~Is(b, "ERROR")
    /\ pc[p] = "biowait" => Transfer(b) /\ (Is(b, "DELWRI") => Is(b, "DONE"))
    /\ pc[p] = "bwrite" => /\ b \notin io /\ buf[b].vp # None
                           /\ op[p].ret = "recycle" => Is(b, "ASYNC")
    /\ pc[p] = "started" => /\ ~Is(b, "DELWRI") /\ Owners(b) \subseteq {p}
                            /\ "ASYNC" \notin op[p].oldstate =>
                                  Transfer(b) /\ buf[b].vp # None
                            /\ op[p].ret = "recycle" => "ASYNC" \in op[p].oldstate
    /\ pc[p] = "bwait" => /\ Transfer(b) /\ ~Is(b, "DELWRI") /\ buf[b].vp # None
                          /\ op[p].ret # "recycle"

(* It is the buffer of the block that was asked for.                       *)
IdOK(p) ==
    /\ pc[p] \in {"found", "got", "hold", "biowait"} /\ op[p].call # "geteblk" =>
          blk(op[p].bp) = <<op[p].vn, op[p].lbn>>
    /\ op[p].first # None => blk(op[p].first) = <<op[p].vn, op[p].next>>
    /\ pc[p] = "invalidate" => /\ buf[op[p].bp].vp = op[p].vn
                               /\ op[p].nbp # None => /\ op[p].nbp # op[p].bp
                                                      /\ buf[op[p].nbp].vp = op[p].vn

SleepOK(p) ==
    /\ wchan[p] \in Bufs =>
          IF pc[p] \in {"biowait", "bwait"}
          THEN wchan[p] = op[p].bp /\ wchan[p] \in io
          ELSE pc[p] \in {"getblk", "vinvalbuf"} /\ Is(wchan[p], "BUSY") /\ Is(wchan[p], "WANTED")
    /\ wchan[p] = "bufneeded" => pc[p] = "recycle" /\ bufneeded /\ lru = <<>>
    /\ wchan[p] \in Vnodes => /\ pc[p] = "drain" /\ VBWAIT[wchan[p]]
                              /\ v_numoutput[wchan[p]] > 0

Inv ==
    /\ TypeOK /\ LruOK /\ OutputCounted /\ NoPanic
    /\ \A b \in Bufs : BufOK(b) /\ DirtyOK(b) /\ OwnOK(b)
    /\ \A p \in Procs : CallOK(p) /\ HandOK(p) /\ IdOK(p) /\ SleepOK(p)

-----------------------------------------------------------------------------
(* The LRU list: what is taken off it and put on it.                       *)
LEMMA RemovedOK ==
    ASSUME NEW l \in Seq(Bufs), Once(l), NEW b \in Bufs
    PROVE  /\ Removed(b, l) \in Seq(Bufs) /\ Once(Removed(b, l))
           /\ \A c \in Bufs : OnList(c, Removed(b, l)) <=> c # b /\ OnList(c, l)
  <1> DEFINE f == Removed(b, l)
  <1>0. Len(l) \in Nat /\ DOMAIN l = 1..Len(l)
    OBVIOUS
  <1>1. CASE ~OnList(b, l)
    <2>1. \A i \in 1..Len(l) : ~ \E j \in 1..i : l[j] = b
      BY <1>0, <1>1 DEF OnList
    <2>2. f = [i \in 1..Len(l) |-> l[i]]
      BY <1>1, <2>1 DEF Removed
    <2>3. f = l
      BY <1>0, <2>2
    <2> QED
      BY <1>1, <2>3
  <1>2. CASE OnList(b, l)
    <2>1. PICK k \in 1..Len(l) : l[k] = b
      BY <1>0, <1>2 DEF OnList
    <2>2. \A i \in 1..Len(l) : l[i] = b => i = k
      BY <1>0, <2>1 DEF Once
    <2>3. DEFINE n == Len(l) - 1
    <2>4. n \in Nat /\ \A i \in 1..n : i \in 1..Len(l) /\ i + 1 \in 1..Len(l)
      BY <1>0, <2>1
    <2>5. \A i \in 1..n : (\E j \in 1..i : l[j] = b) <=> k <= i
      BY <1>0, <2>1, <2>2, <2>4
    <2>6. f = [i \in 1..n |-> IF k <= i THEN l[i + 1] ELSE l[i]]
      BY <1>2, <2>5 DEF Removed
    <2> HIDE DEF f, n
    <2>7. f \in Seq(Bufs) /\ DOMAIN f = 1..n
      <3>1. f \in [1..n -> Bufs]
        BY <1>0, <2>4, <2>6
      <3> QED
        BY <2>4, <3>1
    <2>8. Once(f)
      <3> SUFFICES ASSUME NEW i \in 1..n, NEW j \in 1..n, f[i] = f[j] PROVE i = j
        BY <2>7 DEF Once
      <3>1. (IF k <= i THEN i + 1 ELSE i) = (IF k <= j THEN j + 1 ELSE j)
        BY <1>0, <2>4, <2>6 DEF Once
      <3> QED
        BY <2>1, <2>4, <3>1
    <2>9. ASSUME NEW c \in Bufs, OnList(c, f) PROVE c # b /\ OnList(c, l)
      <3>1. PICK i \in 1..n : f[i] = c
        BY <2>7, <2>9 DEF OnList
      <3>2. l[IF k <= i THEN i + 1 ELSE i] = c /\ (IF k <= i THEN i + 1 ELSE i) \in 1..Len(l)
            /\ (IF k <= i THEN i + 1 ELSE i) # k
        BY <2>1, <2>4, <2>6, <3>1
      <3> QED
        BY <1>0, <2>2, <3>2 DEF OnList
    <2>10. ASSUME NEW c \in Bufs, c # b, OnList(c, l) PROVE OnList(c, f)
      <3>1. PICK i \in 1..Len(l) : l[i] = c
        BY <1>0, <2>10 DEF OnList
      <3>2. CASE i < k
        <4>1. i \in 1..n /\ f[i] = c
          BY <1>0, <2>1, <2>6, <3>1, <3>2 DEF n
        <4> QED
          BY <2>7, <4>1 DEF OnList
      <3>3. CASE i > k
        <4>1. i - 1 \in 1..n /\ k <= i - 1 /\ (i - 1) + 1 = i
          BY <1>0, <2>1, <3>1, <3>3 DEF n
        <4>2. f[i - 1] = c
          BY <2>6, <3>1, <4>1
        <4> QED
          BY <2>7, <4>1, <4>2 DEF OnList
      <3> QED
        BY <2>1, <2>10, <3>1, <3>2, <3>3
    <2> QED
      BY <2>7, <2>8, <2>9, <2>10 DEF f
  <1> QED
    BY <1>1, <1>2

LEMMA AddedOK ==
    ASSUME NEW l \in Seq(Bufs), Once(l), NEW b \in Bufs, ~OnList(b, l),
           NEW f, f = <<b>> \o l \/ f = Append(l, b)
    PROVE  /\ f \in Seq(Bufs) /\ Once(f)
           /\ \A c \in Bufs : OnList(c, f) <=> c = b \/ OnList(c, l)
  <1>0. Len(l) \in Nat /\ DOMAIN l = 1..Len(l)
    OBVIOUS
  <1>1. CASE f = Append(l, b)
    <2>1. f \in Seq(Bufs) /\ DOMAIN f = 1..(Len(l) + 1) /\ f[Len(l) + 1] = b
          /\ \A i \in 1..Len(l) : f[i] = l[i]
      BY <1>0, <1>1
    <2> QED
      BY <1>0, <2>1 DEF Once, OnList
  <1>2. CASE f = <<b>> \o l
    <2>1. f \in Seq(Bufs) /\ DOMAIN f = 1..(Len(l) + 1) /\ f[1] = b
          /\ \A i \in 2..(Len(l) + 1) : f[i] = l[i - 1]
      BY <1>0, <1>2
    <2>2. \A i \in 1..Len(l) : f[i + 1] = l[i] /\ i + 1 \in DOMAIN f
      BY <1>0, <2>1
    <2>3. \A i \in DOMAIN f : i # 1 => i - 1 \in 1..Len(l) /\ f[i] = l[i - 1]
      BY <1>0, <2>1
    <2>4. Once(f)
      <3> SUFFICES ASSUME NEW i \in DOMAIN f, NEW j \in DOMAIN f, f[i] = f[j] PROVE i = j
        BY DEF Once
      <3>1. CASE i # 1 /\ j # 1
        <4>1. i - 1 = j - 1
          BY <1>0, <2>3, <3>1 DEF Once
        <4> QED
          BY <1>0, <2>1, <4>1
      <3> QED
        BY <1>0, <2>1, <2>3, <3>1 DEF OnList
    <2>5. ASSUME NEW c \in Bufs PROVE OnList(c, f) <=> c = b \/ OnList(c, l)
      <3>1. ASSUME OnList(c, f) PROVE c = b \/ OnList(c, l)
        <4>1. PICK i \in DOMAIN f : f[i] = c
          BY <3>1 DEF OnList
        <4> QED
          BY <1>0, <2>1, <2>3, <4>1 DEF OnList
      <3>2. ASSUME OnList(c, l) PROVE OnList(c, f)
        BY <1>0, <2>2, <3>2 DEF OnList
      <3>3. OnList(b, f)
        BY <1>0, <2>1 DEF OnList
      <3> QED
        BY <3>1, <3>2, <3>3
    <2> QED
      BY <2>1, <2>4, <2>5
  <1> QED
    BY <1>1, <1>2

LEMMA TailOK ==
    ASSUME NEW l \in Seq(Bufs), Once(l), l # <<>>
    PROVE  /\ Head(l) \in Bufs /\ OnList(Head(l), l)
           /\ Tail(l) \in Seq(Bufs) /\ Once(Tail(l))
           /\ \A c \in Bufs : OnList(c, Tail(l)) <=> c # Head(l) /\ OnList(c, l)
  <1>0. Len(l) \in Nat /\ Len(l) > 0 /\ DOMAIN l = 1..Len(l)
    OBVIOUS
  <1>1. /\ Head(l) = l[1] /\ Tail(l) \in Seq(Bufs) /\ DOMAIN Tail(l) = 1..(Len(l) - 1)
        /\ \A i \in 1..(Len(l) - 1) : Tail(l)[i] = l[i + 1]
    BY <1>0
  <1>2. \A i \in 2..Len(l) : i - 1 \in 1..(Len(l) - 1) /\ Tail(l)[i - 1] = l[i]
    BY <1>0, <1>1
  <1>3. Head(l) \in Bufs /\ OnList(Head(l), l)
    BY <1>0, <1>1 DEF OnList
  <1>4. Once(Tail(l))
    <2> SUFFICES ASSUME NEW i \in 1..(Len(l) - 1), NEW j \in 1..(Len(l) - 1),
                        Tail(l)[i] = Tail(l)[j]
                 PROVE  i = j
      BY <1>1 DEF Once
    <2>1. i + 1 = j + 1
      BY <1>0, <1>1 DEF Once
    <2> QED
      BY <2>1
  <1>5. ASSUME NEW c \in Bufs, OnList(c, Tail(l)) PROVE c # Head(l) /\ OnList(c, l)
    <2>1. PICK i \in 1..(Len(l) - 1) : Tail(l)[i] = c
      BY <1>1, <1>5 DEF OnList
    <2>2. l[i + 1] = c /\ i + 1 \in DOMAIN l /\ i + 1 # 1 /\ 1 \in DOMAIN l
      BY <1>0, <1>1, <2>1
    <2> QED
      BY <1>1, <2>2 DEF Once, OnList
  <1>6. ASSUME NEW c \in Bufs, c # Head(l), OnList(c, l) PROVE OnList(c, Tail(l))
    <2>1. PICK i \in DOMAIN l : l[i] = c
      BY <1>6 DEF OnList
    <2>2. i \in 2..Len(l)
      BY <1>0, <1>1, <1>6, <2>1
    <2> QED
      BY <1>1, <1>2, <2>1, <2>2 DEF OnList
  <1> QED
    BY <1>1, <1>3, <1>4, <1>5, <1>6

-----------------------------------------------------------------------------
(* v_numoutput as one buffer changes.                                      *)
Outs(v) == {c \in io : buf[c].vp = v /\ ~Is(c, "READ")}
One(c)  == IF c THEN 1 ELSE 0
LEMMA OutsMove ==
    ASSUME NEW b \in Bufs, NEW v, io \subseteq Bufs, io' \subseteq Bufs,
           \A c \in Bufs \ {b} : buf'[c] = buf[c] /\ (c \in io' <=> c \in io)
    PROVE  /\ Cardinality(Outs(v)) \in Nat /\ Cardinality(Outs(v)') \in Nat
           /\ Cardinality(Outs(v)') = Cardinality(Outs(v)) + One(b \in Outs(v)') - One(b \in Outs(v))
  <1> DEFINE Rest == Outs(v) \ {b}
  <1>1. IsFiniteSet(Rest) /\ b \notin Rest
    <2>1. Rest \in SUBSET Bufs
      BY DEF Outs
    <2> QED
      BY <2>1, BufAssumption, FS_Subset
  <1>2. /\ Outs(v) = IF b \in Outs(v) THEN Rest \cup {b} ELSE Rest
        /\ Outs(v)' = IF b \in Outs(v)' THEN Rest \cup {b} ELSE Rest
    BY DEF Outs, Is
  <1>3. Cardinality(Rest) \in Nat /\ Cardinality(Rest \cup {b}) = Cardinality(Rest) + 1
    BY <1>1, FS_AddElement, FS_CardinalityType
  <1> HIDE DEF Rest
  <1>4. ASSUME NEW S, S = IF b \in S THEN Rest \cup {b} ELSE Rest
        PROVE  Cardinality(S) = Cardinality(Rest) + One(b \in S)
    <2>1. CASE b \in S
      <3>1. S = Rest \cup {b} /\ One(b \in S) = 1
        BY <1>4, <2>1 DEF One
      <3> QED
        BY <1>3, <3>1
    <2>2. CASE b \notin S
      <3>1. S = Rest /\ One(b \in S) = 0
        BY <1>4, <2>2 DEF One
      <3> QED
        BY <1>3, <3>1
    <2> QED
      BY <2>1, <2>2
  <1>5. /\ Cardinality(Outs(v)) = Cardinality(Rest) + One(b \in Outs(v))
        /\ Cardinality(Outs(v)') = Cardinality(Rest) + One(b \in Outs(v)')
    BY <1>2, <1>4
  <1>6. One(b \in Outs(v)) \in {0, 1} /\ One(b \in Outs(v)') \in {0, 1}
    BY DEF One
  <1> QED
    BY <1>3, <1>5, <1>6

LEMMA OutputKept ==
    ASSUME OutputCounted, v_numoutput' = v_numoutput,
           \A v \in Vnodes : Outs(v)' = Outs(v)
    PROVE  OutputCounted'
  BY DEF OutputCounted, Outs

(* The facts of the invariant about one buffer and one process.            *)
LEMMA InvBuf ==
    ASSUME Inv, NEW b \in Bufs
    PROVE  /\ BufOK(b) /\ DirtyOK(b) /\ OwnOK(b) /\ buf[b] \in BufStates
           /\ OnList(b, lru) <=> b \in InUse /\ ~Is(b, "BUSY")
  BY DEF Inv, LruOK, TypeOK

LEMMA InvProc ==
    ASSUME Inv, NEW p \in Procs
    PROVE  /\ CallOK(p) /\ HandOK(p) /\ IdOK(p) /\ SleepOK(p)
           /\ op[p] \in OpStates /\ pc[p] \in Labels /\ pc[p] # "panic"
  BY DEF Inv, TypeOK, NoPanic

(* A step of process p that changes at most buffer b, which no other       *)
(* process owns.                                                           *)
LEMMA StepInv ==
    ASSUME Inv, NEW p \in Procs, cpu \in {None, p}, NEW b \in Bufs \cup {None},
           TypeOK', Once(lru'), OutputCounted',
           \A c \in Bufs \ {b} : /\ buf'[c] = buf[c] /\ (c \in io' <=> c \in io)
                                 /\ c \in hashed' <=> c \in hashed
                                 /\ OnList(c, lru') <=> OnList(c, lru)
                                 /\ (p \in Owners(c))' <=> p \in Owners(c),
           \A q \in Procs \ {p} : pc'[q] = pc[q] /\ op'[q] = op[q] /\ SleepOK(q)',
           pc[p] = "started" => op[p].bp = b,
           b \in Bufs =>
              /\ Owners(b) \subseteq {p} /\ BufOK(b)'
              /\ (p \in Owners(b) <=> Is(b, "BUSY") /\ ~(Is(b, "ASYNC") /\ b \in io))'
              /\ OnList(b, lru') <=> (b \in InUse /\ ~Is(b, "BUSY"))'
              /\ (Dirty(b) /\ ~Is(b, "DELWRI"))' =>
                    pc'[p] = "started" /\ op'[p].bp = b /\ "DELWRI" \in op'[p].oldstate,
           pc'[p] # "panic", CallOK(p)', HandOK(p)', IdOK(p)', SleepOK(p)'
    PROVE  Inv'
  <1>1. \A q \in Procs \ {p} : pc[q] \notin Alone
    <2>1. \A q \in Procs \ {p} : cpu # q
      BY BufAssumption
    <2> QED
      BY <2>1 DEF Inv, CallOK
  <1>2. \A q \in Procs \ {p}, c \in Bufs : (q \in Owners(c))' <=> q \in Owners(c)
    BY DEF Owners
  <1>3. \A c \in Bufs : BufOK(c)'
    <2>1. ASSUME NEW c \in Bufs \ {b} PROVE BufOK(c)'
      BY <2>1 DEF Inv, BufOK, Dirty, Is, InUse
    <2> QED
      BY <2>1
  <1>4. \A c \in Bufs : OwnOK(c)'
    <2>1. ASSUME NEW c \in Bufs \ {b} PROVE OwnOK(c)'
      <3>1. Owners(c)' = Owners(c)
        BY <1>2 DEF Owners
      <3> QED
        BY <2>1, <3>1 DEF Inv, OwnOK, Is
    <2>2. ASSUME b \in Bufs PROVE OwnOK(b)'
      <3>1. Owners(b)' \subseteq {p}
        BY <1>2, <2>2 DEF Owners
      <3> QED
        BY <2>2, <3>1 DEF OwnOK
    <2> QED
      BY <2>1, <2>2
  <1>5. \A c \in Bufs : DirtyOK(c)'
    <2>1. ASSUME NEW c \in Bufs \ {b} PROVE DirtyOK(c)'
      <3>1. ~(Dirty(c) /\ ~Is(c, "DELWRI"))
        <4> SUFFICES ASSUME Dirty(c), ~Is(c, "DELWRI") PROVE FALSE
          OBVIOUS
        <4>1. PICK q \in Procs : pc[q] = "started" /\ op[q].bp = c
          BY DEF Inv, DirtyOK
        <4> QED
          BY <1>1, <4>1 DEF Alone
      <3> QED
        BY <3>1 DEF DirtyOK, Dirty, Is
    <2> QED
      BY <2>1 DEF DirtyOK
  <1>6. LruOK'
    BY DEF Inv, LruOK, InUse, Is
  <1>7. ASSUME NEW q \in Procs \ {p} PROVE CallOK(q)' /\ HandOK(q)' /\ IdOK(q)'
    <2>0. CallOK(q) /\ HandOK(q) /\ IdOK(q) /\ pc[q] \notin Alone /\ op[q] \in OpStates
      BY <1>1 DEF Inv, TypeOK
    <2>1. CallOK(q)'
      BY <2>0 DEF CallOK, ForBlock
    <2>2. op[q].first # None => op[q].first \in Bufs /\ op[q].first # b
      BY BufAssumption DEF Owners, OpStates, Inv, TypeOK
    <2>3. pc[q] \in {"insert", "hold", "biowait", "bwait"} => op[q].bp \in Bufs /\ op[q].bp # b
      BY <2>0 DEF Owners, HandOK, Writing
    <2>4. HandOK(q)'
      BY <2>0, <2>2, <2>3 DEF HandOK, Transfer, Is, Alone, Writing
    <2>5. IdOK(q)'
      BY <2>0, <2>2, <2>3 DEF IdOK, blk, Alone
    <2> QED
      BY <2>1, <2>4, <2>5
  <1>8. NoPanic'
    BY DEF Inv, NoPanic
  <1> QED
    BY <1>3, <1>4, <1>5, <1>6, <1>7, <1>8 DEF Inv

(* Those who sleep go on sleeping for something that will wake them.       *)
LEMMA SleepersKept ==
    ASSUME Inv, NEW p \in Procs, NEW b \in Bufs \cup {None},
           \A q \in Procs \ {p} : pc'[q] = pc[q] /\ op'[q] = op[q] /\ wchan'[q] = wchan[q],
           \A c \in Bufs \ {b} : buf'[c] = buf[c] /\ (c \in io => c \in io'),
           b \in Bufs => /\ Owners(b) \subseteq {p}
                         /\ Is(b, "BUSY") /\ Is(b, "WANTED") =>
                               Is(b, "BUSY")' /\ Is(b, "WANTED")',
           bufneeded => bufneeded', lru = <<>> => lru' = <<>>,
           \A v \in Vnodes : /\ VBWAIT[v] => VBWAIT'[v]
                             /\ v_numoutput[v] > 0 => v_numoutput'[v] > 0
    PROVE  \A q \in Procs \ {p} : SleepOK(q)'
  <1> SUFFICES ASSUME NEW q \in Procs \ {p} PROVE SleepOK(q)'
    OBVIOUS
  <1>0. SleepOK(q) /\ HandOK(q)
    BY DEF Inv
  <1>1. pc[q] \in {"biowait", "bwait"} => op[q].bp # b
    BY <1>0 DEF Owners, HandOK, Writing
  <1> QED
    BY <1>0, <1>1 DEF SleepOK, Is

(* A step of process p that changes no buffer, and does not give one up.   *)
LEMMA PlainInv ==
    ASSUME Inv, NEW p \in Procs, cpu \in {None, p}, cpu' \in {None, p},
           UNCHANGED <<hashed, lru, bufcachemem, buf, io, disk, contents, v_numoutput>>,
           bufneeded' \in BOOLEAN, bufneeded => bufneeded',
           VBWAIT' \in [Vnodes -> BOOLEAN], \A v \in Vnodes : VBWAIT[v] => VBWAIT'[v],
           NEW l \in Labels, pc' = [pc EXCEPT ![p] = l], l # "panic", pc[p] # "started",
           NEW o \in OpStates, op' = [op EXCEPT ![p] = o],
           NEW w \in Bufs \cup Vnodes \cup {"bufneeded", None}, wchan' = [wchan EXCEPT ![p] = w],
           \A c \in Bufs : (p \in Owners(c))' <=> p \in Owners(c),
           CallOK(p)', HandOK(p)', IdOK(p)', SleepOK(p)'
    PROVE  Inv'
  <1>0. TypeOK /\ LruOK /\ OutputCounted
    BY DEF Inv
  <1>1. TypeOK'
    BY <1>0 DEF TypeOK
  <1>2. /\ \A q \in Procs \ {p} : pc'[q] = pc[q] /\ op'[q] = op[q] /\ wchan'[q] = wchan[q]
        /\ pc'[p] = l
    BY <1>0 DEF TypeOK
  <1>3. \A q \in Procs \ {p} : SleepOK(q)'
    BY <1>2, SleepersKept, BufAssumption
  <1>4. OutputCounted'
    BY <1>0 DEF OutputCounted, Is
  <1>5. Once(lru')
    BY <1>0 DEF LruOK
  <1> QED
    BY <1>1, <1>2, <1>3, <1>4, <1>5, StepInv, BufAssumption

-----------------------------------------------------------------------------
(* The steps that change no buffer.                                        *)
LEMMA ScanInv ==
    ASSUME Inv, NEW p \in Procs, getblk_scan(p)
    PROVE  Inv'
  <1>0. /\ CallOK(p) /\ HandOK(p) /\ IdOK(p) /\ SleepOK(p)
        /\ op[p] \in OpStates /\ pc[p] \in Labels /\ TypeOK
    BY InvProc DEF Inv
  <1>1. /\ cpu \in {None, p} /\ wchan[p] = None /\ pc[p] = "getblk" /\ cpu' = p
        /\ UNCHANGED <<cache, vnode, device, wchan>>
    BY DEF getblk_scan, Runs, Goto
  <1>2. /\ UNCHANGED <<hashed, lru, bufcachemem, buf, io, disk, contents, v_numoutput>>
        /\ bufneeded' = bufneeded /\ VBWAIT' = VBWAIT
        /\ wchan' = [wchan EXCEPT ![p] = None]
    BY <1>0, <1>1 DEF cache, vnode, device, TypeOK
  <1>3. ASSUME NEW b \in Cached(op[p].vn, op[p].lbn),
               op' = [op EXCEPT ![p].bp = b], Goto(p, "found")
        PROVE  Inv'
    <2>1. PICK o : o = [op[p] EXCEPT !.bp = b]
      OBVIOUS
    <2>2. b \in Bufs /\ blk(b) = <<op[p].vn, op[p].lbn>>
      BY <1>0 DEF Cached, TypeOK
    <2>3. /\ o \in OpStates /\ op' = [op EXCEPT ![p] = o] /\ pc' = [pc EXCEPT ![p] = "found"]
      BY <1>0, <1>3, <2>1, <2>2 DEF OpStates, Goto
    <2>4. op'[p] = o /\ pc'[p] = "found" /\ wchan'[p] = None
      BY <1>0, <1>2, <2>3 DEF TypeOK
    <2>5. CallOK(p)'
      BY <1>0, <1>1, <2>1, <2>4 DEF CallOK, ForBlock, Alone, Getting, Writing, OpStates
    <2>6. HandOK(p)'
      BY <1>0, <1>2, <2>1, <2>2, <2>4 DEF HandOK, Transfer, Is, Writing, OpStates
    <2>7. IdOK(p)'
      BY <1>0, <1>2, <2>1, <2>2, <2>4 DEF IdOK, blk, OpStates
    <2>8. SleepOK(p)'
      BY <2>4, BufAssumption DEF SleepOK
    <2>9. \A c \in Bufs : (p \in Owners(c))' <=> p \in Owners(c)
      BY <1>0, <1>1, <2>1, <2>4 DEF Owners, OpStates
    <2> QED
      BY <1>0, <1>1, <1>2, <2>3, <2>5, <2>6, <2>7, <2>8, <2>9, PlainInv DEF Labels, TypeOK
  <1>4. CASE Goto(p, "getnewbuf") /\ UNCHANGED op
    <2>1. /\ op' = [op EXCEPT ![p] = op[p]] /\ pc' = [pc EXCEPT ![p] = "getnewbuf"]
      BY <1>0, <1>4 DEF TypeOK, Goto
    <2>2. op'[p] = op[p] /\ pc'[p] = "getnewbuf" /\ wchan'[p] = None
      BY <1>0, <1>2, <2>1 DEF TypeOK
    <2>3. CallOK(p)'
      BY <1>0, <1>1, <2>2 DEF CallOK, ForBlock, Alone, Getting, Writing, OpStates
    <2>4. HandOK(p)' /\ IdOK(p)'
      BY <1>0, <1>1, <1>2, <2>2 DEF HandOK, IdOK, blk, Transfer, Is, Writing
    <2>5. SleepOK(p)'
      BY <2>2, BufAssumption DEF SleepOK
    <2>6. \A c \in Bufs : (p \in Owners(c))' <=> p \in Owners(c)
      BY <1>0, <1>1, <2>2 DEF Owners
    <2> QED
      BY <1>0, <1>1, <1>2, <2>1, <2>3, <2>4, <2>5, <2>6, PlainInv DEF Labels, TypeOK
  <1> QED
    BY <1>3, <1>4 DEF getblk_scan

LEMMA RunsFacts ==
    ASSUME Inv, NEW p \in Procs, Runs(p)
    PROVE  /\ CallOK(p) /\ HandOK(p) /\ IdOK(p) /\ SleepOK(p)
           /\ op[p] \in OpStates /\ pc[p] \in Labels /\ pc[p] # "panic"
           /\ TypeOK /\ LruOK /\ OutputCounted
           /\ cpu \in {None, p} /\ wchan[p] = None /\ wchan \in [Procs -> Bufs \cup Vnodes \cup {"bufneeded", None}]
           /\ wchan = [wchan EXCEPT ![p] = None] /\ op = [op EXCEPT ![p] = op[p]]
           /\ bufneeded \in BOOLEAN /\ VBWAIT \in [Vnodes -> BOOLEAN]
  BY InvProc DEF Inv, Runs, TypeOK

LEMMA NoCallOK ==
    /\ NoCall \in OpStates /\ NoCall.first = None /\ NoCall.ret = "idle"
  BY DEF NoCall, OpStates

(* p's call is over, and it owns nothing.                                  *)
LEMMA IdleOK ==
    ASSUME NEW p \in Procs, pc'[p] = "idle", op'[p] = NoCall, wchan'[p] = None
    PROVE  /\ CallOK(p)' /\ HandOK(p)' /\ IdOK(p)' /\ SleepOK(p)'
           /\ \A b : ~(p \in Owners(b))'  \/ b = None
  <1>1. CallOK(p)'
    BY NoCallOK DEF CallOK, ForBlock, Alone, Getting, Writing
  <1>2. HandOK(p)' /\ IdOK(p)'
    BY NoCallOK DEF HandOK, IdOK, Writing
  <1>3. SleepOK(p)'
    BY BufAssumption DEF SleepOK
  <1> QED
    BY <1>1, <1>2, <1>3, NoCallOK DEF Owners

LEMMA GetnewbufInv ==
    ASSUME Inv, NEW p \in Procs, getnewbuf(p)
    PROVE  Inv'
  <1>0. /\ CallOK(p) /\ HandOK(p) /\ IdOK(p)
        /\ op[p] \in OpStates /\ pc[p] \in Labels /\ TypeOK
        /\ cpu \in {None, p} /\ wchan[p] = None /\ wchan = [wchan EXCEPT ![p] = None]
        /\ op = [op EXCEPT ![p] = op[p]] /\ bufneeded \in BOOLEAN /\ VBWAIT \in [Vnodes -> BOOLEAN]
    BY RunsFacts DEF getnewbuf
  <1>1. pc[p] = "getnewbuf" /\ UNCHANGED <<cache, vnode, device, wchan>>
    BY DEF getnewbuf
  <1>2. /\ UNCHANGED <<hashed, lru, bufcachemem, buf, io, disk, contents, v_numoutput>>
        /\ bufneeded' = bufneeded /\ VBWAIT' = VBWAIT
        /\ wchan' = [wchan EXCEPT ![p] = None]
    BY <1>0, <1>1 DEF cache, vnode, device
  <1>3. PICK l \in {"malloc", "recycle"}, n \in Int :
           /\ pc' = [pc EXCEPT ![p] = l] /\ cpu' \in {None, p}
           /\ op' = [op EXCEPT ![p] = [op[p] EXCEPT !.needfree = n]]
    <2>1. op[p].needfree \in Int /\ op[p] = [op[p] EXCEPT !.needfree = op[p].needfree]
      BY <1>0 DEF OpStates
    <2>2. CASE bufcachemem + 1 < maxbufmem
      BY <1>0, <2>1, <2>2 DEF getnewbuf, Yield
    <2>3. CASE ~(bufcachemem + 1 < maxbufmem)
      BY <1>0, <2>3 DEF getnewbuf, Goto
    <2> QED
      BY <2>2, <2>3
  <1>4. PICK o : o = [op[p] EXCEPT !.needfree = n]
    OBVIOUS
  <1>5. o \in OpStates
    BY <1>0, <1>4 DEF OpStates
  <1>6. op'[p] = o /\ pc'[p] = l /\ wchan'[p] = None
    BY <1>0, <1>2, <1>3, <1>4 DEF TypeOK
  <1>7. /\ o.bp = op[p].bp /\ o.first = op[p].first /\ o.ret = op[p].ret /\ o.call = op[p].call
        /\ o.vn = op[p].vn /\ o.lbn = op[p].lbn /\ o.next = op[p].next
    BY <1>0, <1>4 DEF OpStates
  <1>8. CallOK(p)'
    BY <1>0, <1>1, <1>6, <1>7 DEF CallOK, ForBlock, Alone, Getting, Writing
  <1>9. HandOK(p)' /\ IdOK(p)'
    BY <1>0, <1>1, <1>2, <1>6, <1>7 DEF HandOK, IdOK, blk, Transfer, Is, Writing
  <1>10. SleepOK(p)'
    BY <1>6, BufAssumption DEF SleepOK
  <1>11. \A c \in Bufs : (p \in Owners(c))' <=> p \in Owners(c)
    BY <1>0, <1>1, <1>6, <1>7 DEF Owners
  <1> QED
    BY <1>0, <1>1, <1>2, <1>3, <1>4, <1>5, <1>8, <1>9, <1>10, <1>11, PlainInv DEF Labels

LEMMA BiowaitInv ==
    ASSUME Inv, NEW p \in Procs, biowait(p)
    PROVE  Inv'
  <1>0. /\ CallOK(p) /\ HandOK(p) /\ IdOK(p)
        /\ op[p] \in OpStates /\ pc[p] \in Labels /\ TypeOK
        /\ cpu \in {None, p} /\ wchan[p] = None /\ wchan = [wchan EXCEPT ![p] = None]
        /\ op = [op EXCEPT ![p] = op[p]] /\ bufneeded \in BOOLEAN /\ VBWAIT \in [Vnodes -> BOOLEAN]
    BY RunsFacts DEF biowait
  <1>1. pc[p] = "biowait" /\ UNCHANGED <<cache, vnode, device, op>> /\ cpu' = None
    BY DEF biowait, Yield
  <1>2. /\ UNCHANGED <<hashed, lru, bufcachemem, buf, io, disk, contents, v_numoutput>>
        /\ bufneeded' = bufneeded /\ VBWAIT' = VBWAIT /\ op' = op
    BY <1>1 DEF cache, vnode, device
  <1>3. op[p].bp \in Bufs /\ Transfer(op[p].bp) /\ BufOK(op[p].bp)
    BY <1>0, <1>1 DEF HandOK, Inv
  <1>4. PICK l \in {"hold", "biowait"}, w \in Bufs \cup {None} :
           /\ pc' = [pc EXCEPT ![p] = l] /\ wchan' = [wchan EXCEPT ![p] = w]
           /\ IF Is(op[p].bp, "DONE") THEN l = "hold" /\ w = None
              ELSE l = "biowait" /\ w = op[p].bp
    <2>1. CASE Is(op[p].bp, "DONE")
      BY <1>0, <2>1 DEF biowait, Yield
    <2>2. CASE ~Is(op[p].bp, "DONE")
      BY <1>0, <1>3, <2>2 DEF biowait, Yield, sleep
    <2> QED
      BY <2>1, <2>2
  <1>5. op'[p] = op[p] /\ pc'[p] = l /\ wchan'[p] = w
    BY <1>0, <1>2, <1>4 DEF TypeOK
  <1>6. CallOK(p)'
    BY <1>0, <1>1, <1>5 DEF CallOK, ForBlock, Alone, Getting, Writing
  <1>7. HandOK(p)'
    BY <1>0, <1>1, <1>2, <1>3, <1>4, <1>5 DEF HandOK, BufOK, Transfer, Is, Writing, CallOK, Getting
  <1>8. IdOK(p)'
    BY <1>0, <1>1, <1>2, <1>4, <1>5 DEF IdOK, blk
  <1>9. SleepOK(p)'
    BY <1>2, <1>3, <1>4, <1>5, BufAssumption DEF SleepOK, Transfer
  <1>10. \A c \in Bufs : (p \in Owners(c))' <=> p \in Owners(c)
    BY <1>0, <1>1, <1>5 DEF Owners
  <1> QED
    BY <1>0, <1>1, <1>2, <1>4, <1>6, <1>7, <1>8, <1>9, <1>10, PlainInv DEF Labels

LEMMA DrainInv ==
    ASSUME Inv, NEW p \in Procs, vflushbuf_drain(p)
    PROVE  Inv'
  <1>0. /\ CallOK(p) /\ HandOK(p) /\ IdOK(p) /\ OutputCounted
        /\ op[p] \in OpStates /\ pc[p] \in Labels /\ TypeOK
        /\ cpu \in {None, p} /\ wchan[p] = None /\ wchan = [wchan EXCEPT ![p] = None]
        /\ op = [op EXCEPT ![p] = op[p]] /\ bufneeded \in BOOLEAN /\ VBWAIT \in [Vnodes -> BOOLEAN]
    BY RunsFacts DEF vflushbuf_drain
  <1>1. pc[p] = "drain" /\ UNCHANGED <<cache, v_numoutput, device>>
    BY DEF vflushbuf_drain
  <1>2. /\ UNCHANGED <<hashed, lru, bufcachemem, buf, io, disk, contents, v_numoutput>>
        /\ bufneeded' = bufneeded
    BY <1>1 DEF cache, device
  <1>3. op[p].vn \in Vnodes /\ op[p].first = None
    BY <1>0, <1>1 DEF CallOK, Getting
  <1>4. CASE v_numoutput[op[p].vn] # 0
    <2>1. /\ VBWAIT' = [VBWAIT EXCEPT ![op[p].vn] = TRUE]
          /\ wchan' = [wchan EXCEPT ![p] = op[p].vn] /\ pc' = [pc EXCEPT ![p] = "drain"]
          /\ cpu' = None /\ op' = op
      BY <1>4 DEF vflushbuf_drain, sleep, Yield
    <2>2. op'[p] = op[p] /\ pc'[p] = "drain" /\ wchan'[p] = op[p].vn
      BY <1>0, <2>1 DEF TypeOK
    <2>3. CallOK(p)' /\ HandOK(p)' /\ IdOK(p)'
      BY <1>0, <1>1, <1>2, <2>2
         DEF CallOK, HandOK, IdOK, ForBlock, Alone, Getting, Writing, Transfer, Is, blk
    <2>4. v_numoutput[op[p].vn] > 0
      <3>1. Cardinality(Outs(op[p].vn)) \in Nat
        <4>1. Outs(op[p].vn) \in SUBSET Bufs
          BY <1>0 DEF Outs, TypeOK
        <4> QED
          BY <4>1, BufAssumption, FS_Subset, FS_CardinalityType
      <3>2. v_numoutput[op[p].vn] = Cardinality(Outs(op[p].vn))
        BY <1>0, <1>3 DEF OutputCounted, Outs
      <3> QED
        BY <1>4, <3>1, <3>2
    <2>5. SleepOK(p)'
      <3>1. op[p].vn \notin Bufs /\ op[p].vn # "bufneeded"
        BY <1>3, BufAssumption
      <3>2. VBWAIT'[op[p].vn]
        BY <1>0, <1>3, <2>1
      <3> QED
        BY <1>2, <2>2, <2>4, <3>1, <3>2 DEF SleepOK
    <2>6. \A c \in Bufs : (p \in Owners(c))' <=> p \in Owners(c)
      BY <1>0, <1>1, <2>2 DEF Owners
    <2>7. VBWAIT' \in [Vnodes -> BOOLEAN] /\ \A v \in Vnodes : VBWAIT[v] => VBWAIT'[v]
      BY <1>0, <2>1
    <2> QED
      BY <1>0, <1>1, <1>2, <1>3, <2>1, <2>3, <2>5, <2>6, <2>7, PlainInv DEF Labels
  <1>5. CASE v_numoutput[op[p].vn] = 0 /\ Goto(p, "vflushbuf") /\ UNCHANGED op
    <2>1. VBWAIT' = VBWAIT /\ wchan' = wchan /\ pc' = [pc EXCEPT ![p] = "vflushbuf"]
          /\ cpu' = p /\ op' = op
      BY <1>5 DEF vflushbuf_drain, Goto
    <2>2. op'[p] = op[p] /\ pc'[p] = "vflushbuf" /\ wchan'[p] = None
      BY <1>0, <2>1 DEF TypeOK
    <2>3. CallOK(p)' /\ HandOK(p)' /\ IdOK(p)'
      BY <1>0, <1>1, <1>2, <1>3, <2>1, <2>2
         DEF CallOK, HandOK, IdOK, ForBlock, Alone, Getting, Writing, Transfer, Is, blk
    <2>4. SleepOK(p)'
      BY <2>2, BufAssumption DEF SleepOK
    <2>5. \A c \in Bufs : (p \in Owners(c))' <=> p \in Owners(c)
      BY <1>0, <1>1, <2>2 DEF Owners
    <2> QED
      BY <1>0, <1>1, <1>2, <2>1, <2>3, <2>4, <2>5, PlainInv DEF Labels
  <1>6. CASE v_numoutput[op[p].vn] = 0 /\ Return(p)
    <2>1. VBWAIT' = VBWAIT /\ wchan' = wchan /\ pc' = [pc EXCEPT ![p] = "idle"]
          /\ cpu' = None /\ op' = [op EXCEPT ![p] = NoCall]
      BY <1>6 DEF vflushbuf_drain, Return, Yield
    <2>2. op'[p] = NoCall /\ pc'[p] = "idle" /\ wchan'[p] = None
      BY <1>0, <2>1 DEF TypeOK
    <2>3. CallOK(p)' /\ HandOK(p)' /\ IdOK(p)' /\ SleepOK(p)' /\ \A c \in Bufs : ~(p \in Owners(c))'
      BY <2>2, IdleOK, BufAssumption
    <2>4. \A c \in Bufs : ~(p \in Owners(c))
      BY <1>0, <1>1, <1>3, BufAssumption DEF Owners
    <2> QED
      BY <1>0, <1>1, <1>2, <2>1, <2>3, <2>4, NoCallOK, PlainInv DEF Labels
  <1> QED
    BY <1>4, <1>5, <1>6 DEF vflushbuf_drain

(* A buffer on a vnode's list is the vnode's.                              *)
LEMMA OnOK ==
    ASSUME Inv, NEW v \in Vnodes, NEW which \in {"dirty", "clean"}, NEW b \in On(v, which)
    PROVE  b \in Bufs /\ buf[b].vp = v /\ buf[b].list[2] = which /\ buf[b].list # None
  <1>1. b \in Bufs /\ buf[b].list = <<v, which>>
    BY DEF On
  <1>2. buf[b] \in BufStates /\ BufOK(b)
    BY <1>1, InvBuf
  <1>3. buf[b].list # None
    BY <1>1, BufAssumption
  <1> QED
    BY <1>1, <1>2, <1>3 DEF BufOK

LEMMA CallInv ==
    ASSUME Inv, NEW p \in Procs, Call(p)
    PROVE  Inv'
  <1>0. /\ CallOK(p) /\ HandOK(p) /\ IdOK(p)
        /\ op[p] \in OpStates /\ pc[p] \in Labels /\ TypeOK
        /\ cpu \in {None, p} /\ wchan[p] = None /\ wchan = [wchan EXCEPT ![p] = None]
        /\ op = [op EXCEPT ![p] = op[p]] /\ bufneeded \in BOOLEAN /\ VBWAIT \in [Vnodes -> BOOLEAN]
    BY RunsFacts DEF Call
  <1>1. pc[p] = "idle" /\ UNCHANGED <<cache, vnode, device, wchan>>
    BY DEF Call
  <1>2. /\ UNCHANGED <<hashed, lru, bufcachemem, buf, io, disk, contents, v_numoutput>>
        /\ bufneeded' = bufneeded /\ VBWAIT' = VBWAIT /\ wchan' = wchan
    BY <1>1 DEF cache, vnode, device
  <1>3a. PICK c \in Calls, v \in Vnodes, l \in Blocks, n \in Blocks \cup {None}, flag \in BOOLEAN :
        LET flush == c \in {"vflushbuf", "vinvalbuf"} IN
        /\ v \in Locked => \A q \in Procs : op[q].vn # v
        /\ IF c = "breada" THEN n \notin {None, l} ELSE n = None
        /\ flag => flush
        /\ op' = [op EXCEPT ![p] =
                 [NoCall EXCEPT !.call = c, !.next = n, !.flag = flag,
                                !.vn = IF c = "geteblk" THEN None ELSE v,
                                !.lbn = IF flush \/ c = "geteblk" THEN None ELSE l]]
        /\ Goto(p, IF flush THEN c ELSE IF c = "geteblk" THEN "getnewbuf" ELSE "getblk")
    BY Zenon DEF Call
  <1>3b. PICK vn \in Vnodes \cup {None}, lbn \in Blocks \cup {None} :
           /\ vn = IF c = "geteblk" THEN None ELSE v
           /\ lbn = IF c \in {"vflushbuf", "vinvalbuf"} \/ c = "geteblk" THEN None ELSE l
    OBVIOUS
  <1>3. /\ IF c = "breada" THEN n \notin {None, l} ELSE n = None
        /\ op' = [op EXCEPT ![p] = [NoCall EXCEPT !.call = c, !.next = n, !.flag = flag,
                                                 !.vn = vn, !.lbn = lbn]]
        /\ Goto(p, IF c \in {"vflushbuf", "vinvalbuf"} THEN c
                   ELSE IF c = "geteblk" THEN "getnewbuf" ELSE "getblk")
    BY <1>3a, <1>3b
  <1>4. PICK o : o = [NoCall EXCEPT !.call = c, !.next = n, !.flag = flag,
                                    !.vn = vn, !.lbn = lbn]
    OBVIOUS
  <1>5. /\ o \in OpStates /\ o.call = c /\ o.first = None /\ o.ret = "idle" /\ o.next = n
        /\ c # "geteblk" => o.vn \in Vnodes
        /\ c \notin {"geteblk", "vflushbuf", "vinvalbuf"} => o.lbn \in Blocks
    <2>1. vn \in Vnodes \/ c = "geteblk"
      BY <1>3b
    <2>2. lbn \in Blocks \/ c \in {"geteblk", "vflushbuf", "vinvalbuf"}
      BY <1>3b
    <2> QED
      BY <1>4, <2>1, <2>2, NoCallOK DEF OpStates, NoCall
  <1>6. PICK k \in Labels :
           /\ k = IF c \in {"vflushbuf", "vinvalbuf"} THEN c
                  ELSE IF c = "geteblk" THEN "getnewbuf" ELSE "getblk"
           /\ pc' = [pc EXCEPT ![p] = k] /\ cpu' = p
    BY <1>3 DEF Goto, Labels
  <1>7. op'[p] = o /\ pc'[p] = k /\ wchan'[p] = None /\ op' = [op EXCEPT ![p] = o]
    BY <1>0, <1>2, <1>3, <1>4, <1>6 DEF TypeOK
  <1>8. c \in {"getblk", "geteblk", "bread", "breada", "vflushbuf", "vinvalbuf"}
    BY BufAssumption
  <1>9. CallOK(p)'
    <2>1. CASE c \in {"vflushbuf", "vinvalbuf"}
      BY <1>5, <1>6, <1>7, <2>1 DEF CallOK, ForBlock, Alone, Getting, Writing
    <2>2. CASE c = "geteblk"
      BY <1>5, <1>6, <1>7, <2>2 DEF CallOK, ForBlock, Alone, Getting, Writing
    <2>3. CASE c \in {"getblk", "bread", "breada"}
      <3>1. c = "breada" => n \in Blocks
        BY <1>3
      <3> QED
        BY <1>5, <1>6, <1>7, <2>3, <3>1 DEF CallOK, ForBlock, Alone, Getting, Writing
    <2> QED
      BY <1>8, <2>1, <2>2, <2>3
  <1>10. HandOK(p)' /\ IdOK(p)'
    BY <1>5, <1>6, <1>7, <1>8 DEF HandOK, IdOK, Writing
  <1>11. SleepOK(p)'
    BY <1>7, BufAssumption DEF SleepOK
  <1>12. \A x \in Bufs : ~(p \in Owners(x))' /\ ~(p \in Owners(x))
    <2>1. op[p].first = None
      BY <1>0, <1>1 DEF CallOK, Getting
    <2> QED
      BY <1>1, <1>5, <1>6, <1>7, <1>8, <2>1, BufAssumption DEF Owners
  <1>13. k # "panic"
    BY <1>6, <1>8
  <1> QED
    BY <1>0, <1>1, <1>2, <1>5, <1>6, <1>7, <1>9, <1>10, <1>11, <1>12, <1>13, PlainInv

LEMMA VinvalbufInv ==
    ASSUME Inv, NEW p \in Procs, vinvalbuf(p)
    PROVE  Inv'
  <1>0. /\ CallOK(p) /\ HandOK(p) /\ IdOK(p)
        /\ op[p] \in OpStates /\ pc[p] \in Labels /\ TypeOK
        /\ cpu \in {None, p} /\ wchan[p] = None /\ wchan = [wchan EXCEPT ![p] = None]
        /\ op = [op EXCEPT ![p] = op[p]] /\ bufneeded \in BOOLEAN /\ VBWAIT \in [Vnodes -> BOOLEAN]
    BY RunsFacts DEF vinvalbuf
  <1>1. pc[p] = "vinvalbuf" /\ UNCHANGED <<cache, vnode, device, wchan>>
    BY DEF vinvalbuf
  <1>2. /\ UNCHANGED <<hashed, lru, bufcachemem, buf, io, disk, contents, v_numoutput>>
        /\ bufneeded' = bufneeded /\ VBWAIT' = VBWAIT /\ wchan' = wchan
    BY <1>1 DEF cache, vnode, device
  <1>3. op[p].vn \in Vnodes /\ op[p].first = None
    BY <1>0, <1>1 DEF CallOK, Getting
  <1> DEFINE blist == IF On(op[p].vn, "dirty") # {} THEN On(op[p].vn, "dirty")
                      ELSE On(op[p].vn, "clean")
  <1>4. ASSUME NEW b \in blist, NEW nbp \in blist \cup {None}, nbp # b,
               op' = [op EXCEPT ![p].bp = b, ![p].nbp = nbp], Goto(p, "invalidate")
        PROVE  Inv'
    <2>1. PICK o : o = [op[p] EXCEPT !.bp = b, !.nbp = nbp]
      OBVIOUS
    <2>2. /\ b \in Bufs /\ buf[b].vp = op[p].vn
          /\ nbp # None => nbp \in Bufs /\ buf[nbp].vp = op[p].vn
      <3>1. PICK which \in {"dirty", "clean"} : blist = On(op[p].vn, which)
        OBVIOUS
      <3> QED
        BY <1>3, <1>4, <3>1, OnOK
    <2>3. /\ o \in OpStates /\ o.bp = b /\ o.nbp = nbp /\ o.first = None /\ o.vn = op[p].vn
          /\ o.call = op[p].call /\ o.ret = op[p].ret
          /\ op' = [op EXCEPT ![p] = o] /\ pc' = [pc EXCEPT ![p] = "invalidate"] /\ cpu' = p
      <3>1. op' = [op EXCEPT ![p] = o]
        BY <1>4, <2>1
      <3>2. pc' = [pc EXCEPT ![p] = "invalidate"] /\ cpu' = p
        BY <1>4 DEF Goto
      <3> QED
        BY <1>0, <1>3, <2>1, <2>2, <3>1, <3>2 DEF OpStates
    <2>4. op'[p] = o /\ pc'[p] = "invalidate" /\ wchan'[p] = None
      BY <1>0, <1>2, <2>3 DEF TypeOK
    <2>5. CallOK(p)'
      BY <1>0, <1>1, <2>3, <2>4 DEF CallOK, ForBlock, Alone, Getting, Writing
    <2>6. HandOK(p)' /\ IdOK(p)'
      BY <1>2, <1>4, <2>2, <2>3, <2>4 DEF HandOK, IdOK, Writing
    <2>7. SleepOK(p)'
      BY <2>4, BufAssumption DEF SleepOK
    <2>8. \A c \in Bufs : (p \in Owners(c))' <=> p \in Owners(c)
      BY <1>1, <1>3, <2>3, <2>4 DEF Owners
    <2> QED
      BY <1>0, <1>1, <1>2, <2>3, <2>5, <2>6, <2>7, <2>8, PlainInv DEF Labels
  <1>5. CASE Return(p)
    <2>1. /\ wchan' = wchan /\ pc' = [pc EXCEPT ![p] = "idle"]
          /\ cpu' = None /\ op' = [op EXCEPT ![p] = NoCall]
      BY <1>2, <1>5 DEF Return, Yield
    <2>2. op'[p] = NoCall /\ pc'[p] = "idle" /\ wchan'[p] = None
      BY <1>0, <2>1 DEF TypeOK
    <2>3. CallOK(p)' /\ HandOK(p)' /\ IdOK(p)' /\ SleepOK(p)' /\ \A c \in Bufs : ~(p \in Owners(c))'
      BY <2>2, IdleOK, BufAssumption
    <2>4. \A c \in Bufs : ~(p \in Owners(c))
      BY <1>0, <1>1, <1>3, BufAssumption DEF Owners
    <2> QED
      BY <1>0, <1>1, <1>2, <2>1, <2>3, <2>4, NoCallOK, PlainInv DEF Labels
  <1> QED
    BY <1>4, <1>5 DEF vinvalbuf

-----------------------------------------------------------------------------
(* v_numoutput does not change with the writes under way of a buffer that  *)
(* is not one of them.                                                     *)
LEMMA OutputSame ==
    ASSUME Inv, NEW b \in Bufs, io' \subseteq Bufs, v_numoutput' = v_numoutput,
           \A c \in Bufs \ {b} : buf'[c] = buf[c] /\ (c \in io' <=> c \in io),
           \A v \in Vnodes : (b \in Outs(v))' <=> b \in Outs(v)
    PROVE  OutputCounted'
  <1>1. OutputCounted /\ io \subseteq Bufs
    BY DEF Inv, TypeOK
  <1>2. ASSUME NEW v \in Vnodes PROVE Outs(v)' = Outs(v)
    BY <1>1 DEF Outs, Is
  <1> QED
    BY <1>1, <1>2, OutputKept

(* A step of process p that changes buffer b to r and wakes nobody.        *)
LEMMA QuietInv ==
    ASSUME Inv, NEW p \in Procs, Runs(p), cpu' \in {None, p},
           NEW b \in Bufs, Owners(b) \subseteq {p},
           NEW r \in BufStates, buf' = [buf EXCEPT ![b] = r],
           Is(b, "BUSY") /\ Is(b, "WANTED") => {"BUSY", "WANTED"} \subseteq r.flags,
           hashed' \subseteq Bufs, io' \subseteq Bufs,
           \A c \in Bufs \ {b} : /\ c \in io' <=> c \in io
                                 /\ c \in hashed' <=> c \in hashed
                                 /\ OnList(c, lru') <=> OnList(c, lru)
                                 /\ (p \in Owners(c))' <=> p \in Owners(c),
           lru' \in Seq(Bufs), Once(lru'), lru = <<>> => lru' = <<>>,
           OnList(b, lru') <=> r # NoBuf /\ "BUSY" \notin r.flags,
           UNCHANGED <<bufneeded, VBWAIT>>,
           v_numoutput' \in [Vnodes -> Int], OutputCounted',
           \A v \in Vnodes : v_numoutput[v] > 0 => v_numoutput'[v] > 0,
           disk' \in [Vnodes \X Blocks -> Data \cup {None}],
           contents' \in [Vnodes \X Blocks -> Data \cup {None}],
           NEW l \in Labels, pc' = [pc EXCEPT ![p] = l], l # "panic",
           pc[p] = "started" => op[p].bp = b,
           NEW o \in OpStates, op' = [op EXCEPT ![p] = o],
           NEW w \in Bufs \cup Vnodes \cup {"bufneeded", None}, wchan' = [wchan EXCEPT ![p] = w],
           BufOK(b)',
           (p \in Owners(b) <=> Is(b, "BUSY") /\ ~(Is(b, "ASYNC") /\ b \in io))',
           (Dirty(b) /\ ~Is(b, "DELWRI"))' => l = "started" /\ o.bp = b /\ "DELWRI" \in o.oldstate,
           CallOK(p)', HandOK(p)', IdOK(p)', SleepOK(p)'
    PROVE  Inv'
  <1>0. TypeOK /\ cpu \in {None, p}
    BY DEF Inv, Runs
  <1>1. /\ \A c \in Bufs \ {b} : buf'[c] = buf[c]
        /\ buf'[b] = r /\ buf' \in [Bufs -> BufStates]
    BY <1>0 DEF TypeOK
  <1>2. TypeOK'
    BY <1>0, <1>1 DEF TypeOK
  <1>3. /\ \A q \in Procs \ {p} : pc'[q] = pc[q] /\ op'[q] = op[q] /\ wchan'[q] = wchan[q]
        /\ pc'[p] = l /\ op'[p] = o
    BY <1>0 DEF TypeOK
  <1>4. Is(b, "BUSY") /\ Is(b, "WANTED") => Is(b, "BUSY")' /\ Is(b, "WANTED")'
    BY <1>1 DEF Is
  <1>5. \A q \in Procs \ {p} : SleepOK(q)'
    BY <1>1, <1>3, <1>4, SleepersKept
  <1>6. OnList(b, lru') <=> (b \in InUse /\ ~Is(b, "BUSY"))'
    BY <1>1 DEF InUse, Is
  <1>7. (Dirty(b) /\ ~Is(b, "DELWRI"))' =>
           pc'[p] = "started" /\ op'[p].bp = b /\ "DELWRI" \in op'[p].oldstate
    BY <1>3
  <1>8. /\ \A c \in Bufs \ {b} : /\ buf'[c] = buf[c] /\ (c \in io' <=> c \in io)
                                 /\ c \in hashed' <=> c \in hashed
                                 /\ OnList(c, lru') <=> OnList(c, lru)
                                 /\ (p \in Owners(c))' <=> p \in Owners(c)
        /\ \A q \in Procs \ {p} : pc'[q] = pc[q] /\ op'[q] = op[q] /\ SleepOK(q)'
        /\ pc'[p] # "panic"
    BY <1>1, <1>3, <1>5
  <1> QED
    BY <1>0, <1>2, <1>6, <1>7, <1>8, StepInv

(* What is on the LRU list after p has taken b off it.                     *)
LEMMA TakenOK ==
    ASSUME Inv, NEW b \in Bufs
    PROVE  /\ Removed(b, lru) \in Seq(Bufs) /\ Once(Removed(b, lru))
           /\ ~OnList(b, Removed(b, lru))
           /\ \A c \in Bufs \ {b} : OnList(c, Removed(b, lru)) <=> OnList(c, lru)
           /\ lru = <<>> => Removed(b, lru) = <<>>
  <1>1. lru \in Seq(Bufs) /\ Once(lru)
    BY DEF Inv, TypeOK, LruOK
  <1>2. /\ Removed(b, lru) \in Seq(Bufs) /\ Once(Removed(b, lru))
        /\ \A c \in Bufs : OnList(c, Removed(b, lru)) <=> c # b /\ OnList(c, lru)
    BY <1>1, RemovedOK
  <1>3. ASSUME lru = <<>> PROVE Removed(b, lru) = <<>>
    <2>1. \A c \in Bufs : ~OnList(c, Removed(b, lru))
      BY <1>2, <1>3 DEF OnList
    <2> QED
      BY <1>2, <2>1 DEF OnList
  <1> QED
    BY <1>2, <1>3

(* A buffer that is not busy is nobody's; one that p owns is p's alone.    *)
LEMMA FreeOwners ==
    ASSUME Inv, NEW b \in Bufs, ~Is(b, "BUSY")
    PROVE  Owners(b) = {} /\ b \notin io
  BY InvBuf DEF OwnOK, BufOK

LEMMA SoleOwner ==
    ASSUME Inv, NEW p \in Procs, NEW b \in Bufs, p \in Owners(b)
    PROVE  Owners(b) = {p} /\ Is(b, "BUSY") /\ ~(Is(b, "ASYNC") /\ b \in io)
           /\ ~OnList(b, lru) /\ b \in InUse
  <1>1. OwnOK(b) /\ (OnList(b, lru) <=> b \in InUse /\ ~Is(b, "BUSY"))
    BY InvBuf
  <1>2. \A q \in Owners(b) : q = p
    BY <1>1 DEF OwnOK
  <1>3. Is(b, "BUSY") /\ ~(Is(b, "ASYNC") /\ b \in io)
    BY <1>1 DEF OwnOK
  <1>4. b \in InUse
    BY <1>3 DEF InUse, NoBuf, Is
  <1> QED
    BY <1>1, <1>2, <1>3, <1>4

(* No buffer is on a dirty list without reason, but the one that bwrite    *)
(* started with.                                                           *)
LEMMA DirtyHas ==
    ASSUME Inv, NEW p \in Procs, Runs(p), NEW b \in Bufs, pc[p] # "started" \/ op[p].bp # b,
           Dirty(b)
    PROVE  Is(b, "DELWRI")
  <1> SUFFICES ASSUME ~Is(b, "DELWRI") PROVE FALSE
    OBVIOUS
  <1>1. PICK q \in Procs : pc[q] = "started" /\ op[q].bp = b
    BY InvBuf DEF DirtyOK
  <1>2. cpu = q
    BY <1>1, InvProc DEF CallOK, Alone
  <1> QED
    BY <1>1, <1>2, BufAssumption DEF Runs

-----------------------------------------------------------------------------
(* The steps that take a buffer.                                           *)
LEMMA FoundTakeInv ==
    ASSUME Inv, NEW p \in Procs, getblk_found(p), ~Is(op[p].bp, "BUSY")
    PROVE  Inv'
  <1>0. /\ CallOK(p) /\ HandOK(p) /\ IdOK(p) /\ op[p] \in OpStates /\ TypeOK /\ Runs(p)
        /\ wchan[p] = None /\ wchan = [wchan EXCEPT ![p] = None] /\ op = [op EXCEPT ![p] = op[p]]
    BY RunsFacts DEF getblk_found
  <1>1. PICK b : b = op[p].bp
    OBVIOUS
  <1>2. PICK r : r = [buf[b] EXCEPT !.flags = (@ \cup {"BUSY"}) \ {"AGE"}]
    OBVIOUS
  <1>3. /\ pc[p] = "found" /\ lru' = Removed(b, lru) /\ buf' = [buf EXCEPT ![b] = r]
        /\ pc' = [pc EXCEPT ![p] = "got"] /\ cpu' = p /\ wchan' = wchan /\ op' = op
        /\ UNCHANGED <<hashed, bufneeded, vnode, device>>
    BY <1>1, <1>2 DEF getblk_found, bremfree, Goto
  <1>4. UNCHANGED <<hashed, bufneeded, io, disk, contents, v_numoutput, VBWAIT>>
    BY <1>3 DEF vnode, device
  <1>5. b \in Bufs /\ BufOK(b) /\ DirtyOK(b) /\ buf[b] \in BufStates /\ b \notin io
        /\ Owners(b) = {} /\ op[p].call # "geteblk" /\ op[p].vn \in Vnodes
        /\ blk(b) = <<op[p].vn, op[p].lbn>>
    BY <1>0, <1>1, <1>3, InvBuf, FreeOwners DEF HandOK, CallOK, IdOK
  <1>6. /\ r \in BufStates /\ r.vp = buf[b].vp /\ r.lblkno = buf[b].lblkno /\ r.list = buf[b].list
        /\ \A f \in Flags : f \in r.flags <=> f = "BUSY" \/ (f # "AGE" /\ f \in buf[b].flags)
    BY <1>2, <1>5 DEF BufStates, Flags
  <1>7. buf'[b] = r /\ op'[p] = op[p] /\ pc'[p] = "got" /\ wchan'[p] = None
        /\ \A c \in Bufs \ {b} : buf'[c] = buf[c]
    BY <1>0, <1>3, <1>5 DEF TypeOK
  <1>8. \A f \in Flags : Is(b, f)' <=> f = "BUSY" \/ (f # "AGE" /\ Is(b, f))
    BY <1>6, <1>7 DEF Is
  <1>9. buf[b].vp = op[p].vn /\ buf[b].vp # None
    BY <1>5, BufAssumption DEF blk
  <1>10. BufOK(b)' /\ b \in InUse'
    BY <1>4, <1>5, <1>6, <1>7, <1>8, <1>9 DEF BufOK, Dirty, InUse, NoBuf, Flags
  <1>11. CallOK(p)'
    BY <1>0, <1>3, <1>7 DEF CallOK, ForBlock, Alone, Getting, Writing
  <1>12. op[p].first # None => op[p].first # b /\ op[p].first \in Bufs
    BY <1>0, <1>5 DEF Owners, OpStates
  <1>13. HandOK(p)'
    BY <1>0, <1>1, <1>3, <1>4, <1>5, <1>7, <1>8, <1>9, <1>12
       DEF HandOK, BufOK, Transfer, Is, Writing, Flags
  <1>14. IdOK(p)'
    BY <1>0, <1>1, <1>3, <1>5, <1>6, <1>7, <1>12 DEF IdOK, blk
  <1>15. SleepOK(p)'
    BY <1>7, BufAssumption DEF SleepOK
  <1>16. \A c \in Bufs \ {b} : (p \in Owners(c))' <=> p \in Owners(c)
    BY <1>1, <1>3, <1>7 DEF Owners
  <1>17. (p \in Owners(b))'
    BY <1>1, <1>7 DEF Owners
  <1>18. OutputCounted'
    BY <1>0, <1>4, <1>5, <1>7, OutputSame DEF Outs, TypeOK
  <1>19. ~(Dirty(b) /\ ~Is(b, "DELWRI"))'
    <2>1. Dirty(b) => Is(b, "DELWRI")
      BY <1>0, <1>3, <1>5, DirtyHas
    <2> QED
      BY <1>6, <1>7, <1>8, <2>1 DEF Dirty, Flags
  <1>20. /\ lru' \in Seq(Bufs) /\ Once(lru') /\ ~OnList(b, lru') /\ (lru = <<>> => lru' = <<>>)
         /\ \A c \in Bufs \ {b} : OnList(c, lru') <=> OnList(c, lru)
    BY <1>3, <1>5, TakenOK
  <1>21. "BUSY" \in r.flags /\ (Is(b, "WANTED") => "WANTED" \in r.flags) /\ ~(b \in io)'
    BY <1>4, <1>5, <1>6 DEF Is, Flags
  <1>22. /\ disk' \in [Vnodes \X Blocks -> Data \cup {None}]
         /\ contents' \in [Vnodes \X Blocks -> Data \cup {None}]
         /\ v_numoutput' \in [Vnodes -> Int] /\ hashed' \subseteq Bufs /\ io' \subseteq Bufs
         /\ op' = [op EXCEPT ![p] = op[p]] /\ wchan' = [wchan EXCEPT ![p] = None]
         /\ "got" \in Labels /\ cpu' \in {None, p} /\ Is(b, "BUSY")'
    BY <1>0, <1>3, <1>4, <1>8 DEF TypeOK, Labels, Flags
  <1> QED
    BY <1>0, <1>3, <1>4, <1>5, <1>6, <1>10, <1>11, <1>13, <1>14, <1>15, <1>16, <1>17,
       <1>18, <1>19, <1>20, <1>21, <1>22, QuietInv

(* A fresh header, which p now owns.                                       *)
Fresh == [NoBuf EXCEPT !.flags = {"BUSY"}]
LEMMA FreshOK ==
    /\ NoBuf \in BufStates /\ NoBuf.flags = {} /\ NoBuf.vp = None /\ NoBuf.list = None
    /\ Fresh \in BufStates /\ Fresh.flags = {"BUSY"} /\ Fresh.vp = None /\ Fresh.list = None
    /\ Fresh # NoBuf
  <1>1. NoBuf \in BufStates /\ NoBuf.flags = {} /\ NoBuf.vp = None /\ NoBuf.list = None
    BY DEF NoBuf, BufStates, Flags
  <1>2. Fresh \in BufStates /\ Fresh.flags = {"BUSY"} /\ Fresh.vp = None /\ Fresh.list = None
    BY DEF Fresh, NoBuf, BufStates, Flags
  <1> QED
    BY <1>1, <1>2

(* getnewbuf gives p a buffer that nobody owns.                            *)
LEMMA FreshInv ==
    ASSUME Inv, NEW p \in Procs, Runs(p), cpu' \in {None, p}, pc[p] \in {"malloc", "recycle"},
           NEW b \in Bufs, ~Is(b, "BUSY"), buf' = [buf EXCEPT ![b] = Fresh],
           hashed' = hashed \ {b},
           lru' \in Seq(Bufs), Once(lru'), lru = <<>> => lru' = <<>>,
           ~OnList(b, lru'), \A c \in Bufs \ {b} : OnList(c, lru') <=> OnList(c, lru),
           UNCHANGED <<bufneeded, vnode, device, wchan>>,
           pc' = [pc EXCEPT ![p] = "insert"],
           NEW o \in OpStates, o.bp = b, o.first = op[p].first, o.ret = op[p].ret,
           o.call = op[p].call, o.vn = op[p].vn, o.lbn = op[p].lbn, o.next = op[p].next,
           op' = [op EXCEPT ![p] = o]
    PROVE  Inv'
  <1>0. /\ CallOK(p) /\ HandOK(p) /\ IdOK(p) /\ op[p] \in OpStates /\ TypeOK
        /\ wchan[p] = None /\ wchan = [wchan EXCEPT ![p] = None]
    BY RunsFacts
  <1>1. UNCHANGED <<bufneeded, io, disk, contents, v_numoutput, VBWAIT>> /\ wchan' = wchan
    BY DEF vnode, device
  <1>4. /\ buf'[b] = Fresh /\ op'[p] = o /\ pc'[p] = "insert" /\ wchan'[p] = None
        /\ \A c \in Bufs \ {b} : buf'[c] = buf[c]
    BY <1>0, <1>1 DEF TypeOK
  <1>5. Owners(b) = {} /\ b \notin io
    BY FreeOwners
  <1>6. \A f \in Flags : Is(b, f)' <=> f = "BUSY"
    BY <1>4, FreshOK DEF Is
  <1>7. BufOK(b)' /\ ~Dirty(b)'
    BY <1>1, <1>4, <1>5, <1>6, FreshOK DEF BufOK, Dirty, Flags
  <1>8. CallOK(p)'
    BY <1>0, <1>4 DEF CallOK, ForBlock, Alone, Getting, Writing
  <1>9. op[p].first # None => op[p].first # b /\ op[p].first \in Bufs
    BY <1>0, <1>5 DEF Owners, OpStates
  <1>10. HandOK(p)'
    BY <1>0, <1>1, <1>4, <1>9 DEF HandOK, Transfer, Is, Writing, Fresh
  <1>11. IdOK(p)'
    BY <1>0, <1>4, <1>9 DEF IdOK, blk
  <1>12. SleepOK(p)'
    BY <1>4, BufAssumption DEF SleepOK
  <1>13. \A c \in Bufs \ {b} : (p \in Owners(c))' <=> p \in Owners(c)
    BY <1>4 DEF Owners
  <1>14. (p \in Owners(b))'
    BY <1>4 DEF Owners
  <1>15. OutputCounted'
    BY <1>0, <1>1, <1>4, <1>5, OutputSame DEF Outs, TypeOK
  <1>16. /\ disk' \in [Vnodes \X Blocks -> Data \cup {None}]
         /\ contents' \in [Vnodes \X Blocks -> Data \cup {None}]
         /\ v_numoutput' \in [Vnodes -> Int] /\ hashed' \subseteq Bufs /\ io' \subseteq Bufs
         /\ wchan' = [wchan EXCEPT ![p] = None] /\ "insert" \in Labels /\ Is(b, "BUSY")'
         /\ pc[p] # "started" /\ ~(b \in io)'
    BY <1>0, <1>1, <1>5, <1>6 DEF TypeOK, Labels, Flags
  <1>17. /\ "BUSY" \in Fresh.flags /\ Fresh \in BufStates
         /\ \A c \in Bufs \ {b} : /\ c \in io' <=> c \in io
                                  /\ c \in hashed' <=> c \in hashed
                                  /\ OnList(c, lru') <=> OnList(c, lru)
                                  /\ (p \in Owners(c))' <=> p \in Owners(c)
         /\ Owners(b) \subseteq {p} /\ UNCHANGED <<bufneeded, VBWAIT>>
         /\ \A v \in Vnodes : v_numoutput[v] > 0 => v_numoutput'[v] > 0
    BY <1>1, <1>5, <1>13, FreshOK
  <1> QED
    BY <1>7, <1>8, <1>10, <1>11, <1>12, <1>14, <1>15, <1>16, <1>17, QuietInv

LEMMA AllocInv ==
    ASSUME Inv, NEW p \in Procs, getnewbuf_alloc(p)
    PROVE  Inv'
  <1>1. PICK b \in Bufs \ InUse : /\ buf' = [buf EXCEPT ![b] = Fresh]
                                  /\ op' = [op EXCEPT ![p].bp = b]
    BY DEF getnewbuf_alloc, Fresh
  <1>2. /\ Runs(p) /\ pc[p] = "malloc" /\ cpu' = None /\ pc' = [pc EXCEPT ![p] = "insert"]
        /\ UNCHANGED <<hashed, lru, bufneeded, vnode, device, wchan>>
    BY DEF getnewbuf_alloc, Yield
  <1>3. buf[b] = NoBuf
    BY DEF InUse
  <1>4. ~Is(b, "BUSY") /\ b \notin hashed
    BY <1>3, InvBuf, FreshOK DEF BufOK, Is, InUse
  <1>5. /\ lru \in Seq(Bufs) /\ Once(lru) /\ ~OnList(b, lru)
    BY <1>3, InvBuf DEF Inv, TypeOK, LruOK, InUse
  <1>6. PICK o : o = [op[p] EXCEPT !.bp = b]
    OBVIOUS
  <1>7. /\ o \in OpStates /\ o.bp = b /\ o.first = op[p].first /\ o.ret = op[p].ret
        /\ o.call = op[p].call /\ o.vn = op[p].vn /\ o.lbn = op[p].lbn /\ o.next = op[p].next
        /\ op' = [op EXCEPT ![p] = o]
    BY <1>1, <1>2, <1>6, RunsFacts DEF OpStates
  <1>8. hashed' = hashed \ {b}
    BY <1>2, <1>4
  <1>9. /\ lru' \in Seq(Bufs) /\ Once(lru') /\ ~OnList(b, lru') /\ lru' = lru
        /\ UNCHANGED <<bufneeded, vnode, device, wchan>> /\ cpu' \in {None, p}
        /\ \A c \in Bufs \ {b} : OnList(c, lru') <=> OnList(c, lru)
        /\ pc[p] \in {"malloc", "recycle"} /\ b \in Bufs
    BY <1>2, <1>5
  <1> QED
    BY <1>1, <1>2, <1>4, <1>7, <1>8, <1>9, FreshInv

(* p takes a free buffer with a delayed write, to write it.                *)
LEMMA WriteTakeInv ==
    ASSUME Inv, NEW p \in Procs, Runs(p), cpu' = p,
           pc[p] \in {"recycle", "vflushbuf", "invalidate"},
           NEW b \in Bufs, ~Is(b, "BUSY"), Is(b, "DELWRI"),
           NEW r \in BufStates, buf' = [buf EXCEPT ![b] = r],
           r.vp = buf[b].vp, r.lblkno = buf[b].lblkno, r.list = buf[b].list,
           \A f \in Flags \ {"ASYNC", "AGE"} : f \in r.flags <=> f = "BUSY" \/ Is(b, f),
           pc[p] = "recycle" => "ASYNC" \in r.flags,
           lru' \in Seq(Bufs), Once(lru'), lru = <<>> => lru' = <<>>,
           ~OnList(b, lru'), \A c \in Bufs \ {b} : OnList(c, lru') <=> OnList(c, lru),
           UNCHANGED <<hashed, bufneeded, v_numoutput, VBWAIT, io, disk, contents, wchan>>,
           pc' = [pc EXCEPT ![p] = "bwrite"],
           NEW o \in OpStates, o.bp = b, o.first = op[p].first,
           o.ret = IF pc[p] = "invalidate" THEN "vinvalbuf" ELSE pc[p],
           o.call = op[p].call, o.vn = op[p].vn, o.lbn = op[p].lbn, o.next = op[p].next,
           op' = [op EXCEPT ![p] = o]
    PROVE  Inv'
  <1>0. /\ CallOK(p) /\ HandOK(p) /\ IdOK(p) /\ op[p] \in OpStates /\ TypeOK
        /\ wchan[p] = None /\ wchan = [wchan EXCEPT ![p] = None]
    BY RunsFacts
  <1>1. Owners(b) = {} /\ b \notin io /\ BufOK(b)
    BY FreeOwners, InvBuf
  <1>2. /\ buf'[b] = r /\ op'[p] = o /\ pc'[p] = "bwrite" /\ wchan'[p] = None
        /\ \A c \in Bufs \ {b} : buf'[c] = buf[c]
    BY <1>0 DEF TypeOK
  <1>3. \A f \in Flags \ {"ASYNC", "AGE"} : Is(b, f)' <=> f = "BUSY" \/ Is(b, f)
    BY <1>2 DEF Is
  <1>4. Is(b, "BUSY")' /\ Is(b, "DELWRI")' /\ buf[b].vp # None
    BY <1>1, <1>3 DEF Flags, BufOK, Dirty
  <1>5. BufOK(b)'
    BY <1>1, <1>2, <1>3, <1>4 DEF BufOK, Dirty, Flags, InUse, NoBuf
  <1>6. CallOK(p)'
    BY <1>0, <1>2 DEF CallOK, ForBlock, Alone, Getting, Writing
  <1>7. op[p].first # None => op[p].first # b /\ op[p].first \in Bufs
    BY <1>0, <1>1 DEF Owners, OpStates
  <1>8. HandOK(p)'
    BY <1>0, <1>1, <1>2, <1>4, <1>7 DEF HandOK, Transfer, Is, Writing
  <1>9. IdOK(p)'
    BY <1>0, <1>2, <1>7 DEF IdOK, blk
  <1>10. SleepOK(p)'
    BY <1>2, BufAssumption DEF SleepOK
  <1>11. \A c \in Bufs \ {b} : (p \in Owners(c))' <=> p \in Owners(c)
    BY <1>2 DEF Owners
  <1>12. (p \in Owners(b))'
    BY <1>2 DEF Owners
  <1>13. OutputCounted'
    BY <1>0, <1>1, <1>2, OutputSame DEF Outs, TypeOK
  <1>14. /\ disk' \in [Vnodes \X Blocks -> Data \cup {None}]
         /\ contents' \in [Vnodes \X Blocks -> Data \cup {None}]
         /\ v_numoutput' \in [Vnodes -> Int] /\ hashed' \subseteq Bufs /\ io' \subseteq Bufs
         /\ wchan' = [wchan EXCEPT ![p] = None] /\ "bwrite" \in Labels
         /\ pc[p] # "started" /\ ~(b \in io)' /\ "BUSY" \in r.flags
    BY <1>0, <1>1, <1>2, <1>4 DEF TypeOK, Labels, Is
  <1>15. \A c \in Bufs \ {b} : /\ c \in io' <=> c \in io
                               /\ c \in hashed' <=> c \in hashed
                               /\ OnList(c, lru') <=> OnList(c, lru)
                               /\ (p \in Owners(c))' <=> p \in Owners(c)
    BY <1>11
  <1> QED
    BY <1>1, <1>4, <1>5, <1>6, <1>8, <1>9, <1>10, <1>12, <1>13, <1>14, <1>15, QuietInv

(* getnewbuf gives up the memory of a buffer.                              *)
LEMMA TrimInv ==
    ASSUME Inv, NEW p \in Procs, Runs(p), cpu' = p, pc[p] = "recycle",
           NEW b \in Bufs, ~Is(b, "BUSY"), buf' = [buf EXCEPT ![b] = NoBuf],
           hashed' = hashed \ {b},
           lru' \in Seq(Bufs), Once(lru'), lru = <<>> => lru' = <<>>,
           ~OnList(b, lru'), \A c \in Bufs \ {b} : OnList(c, lru') <=> OnList(c, lru),
           UNCHANGED <<bufneeded, vnode, device, wchan>>,
           pc' = [pc EXCEPT ![p] = "recycle"],
           NEW o \in OpStates, o.bp = None, o.first = op[p].first, o.ret = op[p].ret,
           o.call = op[p].call, o.vn = op[p].vn, o.lbn = op[p].lbn, o.next = op[p].next,
           op' = [op EXCEPT ![p] = o]
    PROVE  Inv'
  <1>0. /\ CallOK(p) /\ HandOK(p) /\ IdOK(p) /\ op[p] \in OpStates /\ TypeOK
        /\ wchan[p] = None /\ wchan = [wchan EXCEPT ![p] = None]
    BY RunsFacts
  <1>1. UNCHANGED <<bufneeded, io, disk, contents, v_numoutput, VBWAIT>> /\ wchan' = wchan
    BY DEF vnode, device
  <1>2. /\ buf'[b] = NoBuf /\ op'[p] = o /\ pc'[p] = "recycle" /\ wchan'[p] = None
        /\ \A c \in Bufs \ {b} : buf'[c] = buf[c]
    BY <1>0, <1>1 DEF TypeOK
  <1>3. Owners(b) = {} /\ b \notin io
    BY FreeOwners
  <1>4. \A f \in Flags : ~Is(b, f)'
    BY <1>2, FreshOK DEF Is
  <1>5. BufOK(b)' /\ ~Dirty(b)'
    BY <1>1, <1>2, <1>3, <1>4, FreshOK DEF BufOK, Dirty, Flags, InUse
  <1>6. CallOK(p)'
    BY <1>0, <1>2 DEF CallOK, ForBlock, Alone, Getting, Writing
  <1>7. op[p].first # None => op[p].first # b /\ op[p].first \in Bufs
    BY <1>0, <1>3 DEF Owners, OpStates
  <1>8. HandOK(p)'
    BY <1>0, <1>1, <1>2, <1>7 DEF HandOK, Transfer, Is, Writing
  <1>9. IdOK(p)'
    BY <1>0, <1>2, <1>7 DEF IdOK, blk
  <1>10. SleepOK(p)'
    BY <1>2, BufAssumption DEF SleepOK
  <1>11. \A c \in Bufs : (p \in Owners(c))' <=> p \in Owners(c)
    BY <1>2 DEF Owners
  <1>12. OutputCounted'
    BY <1>0, <1>1, <1>2, <1>3, OutputSame DEF Outs, TypeOK
  <1>13. /\ disk' \in [Vnodes \X Blocks -> Data \cup {None}]
         /\ contents' \in [Vnodes \X Blocks -> Data \cup {None}]
         /\ v_numoutput' \in [Vnodes -> Int] /\ hashed' \subseteq Bufs /\ io' \subseteq Bufs
         /\ wchan' = [wchan EXCEPT ![p] = None] /\ "recycle" \in Labels /\ ~Is(b, "BUSY")'
         /\ pc[p] # "started" /\ ~(b \in io)' /\ ~(p \in Owners(b))'
    BY <1>0, <1>1, <1>3, <1>4, <1>11 DEF TypeOK, Labels, Flags
  <1>14. /\ NoBuf \in BufStates
         /\ \A c \in Bufs \ {b} : /\ c \in io' <=> c \in io
                                  /\ c \in hashed' <=> c \in hashed
                                  /\ OnList(c, lru') <=> OnList(c, lru)
                                  /\ (p \in Owners(c))' <=> p \in Owners(c)
         /\ Owners(b) \subseteq {p} /\ UNCHANGED <<bufneeded, VBWAIT>>
         /\ \A v \in Vnodes : v_numoutput[v] > 0 => v_numoutput'[v] > 0
    BY <1>1, <1>3, <1>11, FreshOK
  <1> QED
    BY <1>5, <1>6, <1>8, <1>9, <1>10, <1>12, <1>13, <1>14, QuietInv

LEMMA RecycleInv ==
    ASSUME Inv, NEW p \in Procs, getnewbuf_recycle(p)
    PROVE  Inv'
  <1>0. /\ CallOK(p) /\ HandOK(p) /\ IdOK(p) /\ op[p] \in OpStates /\ TypeOK /\ Runs(p)
        /\ cpu \in {None, p} /\ wchan[p] = None /\ wchan = [wchan EXCEPT ![p] = None]
        /\ op = [op EXCEPT ![p] = op[p]] /\ VBWAIT \in [Vnodes -> BOOLEAN]
    BY RunsFacts DEF getnewbuf_recycle
  <1>1. pc[p] = "recycle" /\ UNCHANGED <<vnode, device>>
        /\ UNCHANGED <<io, disk, contents, v_numoutput, VBWAIT>>
    BY DEF getnewbuf_recycle, vnode, device
  <1>2. CASE lru = <<>>
    <2>1. /\ bufneeded' = TRUE /\ wchan' = [wchan EXCEPT ![p] = "bufneeded"]
          /\ pc' = [pc EXCEPT ![p] = "recycle"] /\ cpu' = None
          /\ UNCHANGED <<buf, hashed, lru, bufcachemem, op>>
      BY <1>2 DEF getnewbuf_recycle, sleep, Yield
    <2>2. op'[p] = op[p] /\ pc'[p] = "recycle" /\ wchan'[p] = "bufneeded"
      BY <1>0, <2>1 DEF TypeOK
    <2>3. CallOK(p)'
      BY <1>0, <1>1, <2>2 DEF CallOK, ForBlock, Alone, Getting, Writing
    <2>4. HandOK(p)' /\ IdOK(p)'
      BY <1>0, <1>1, <2>1, <2>2 DEF HandOK, IdOK, blk, Transfer, Is, Writing
    <2>5. SleepOK(p)'
      BY <1>2, <2>1, <2>2, BufAssumption DEF SleepOK
    <2>6. \A c \in Bufs : (p \in Owners(c))' <=> p \in Owners(c)
      BY <1>1, <2>2 DEF Owners
    <2> QED
      BY <1>0, <1>1, <2>1, <2>3, <2>4, <2>5, <2>6, PlainInv DEF Labels
  <1>3. CASE lru # <<>>
    <2>1. PICK b : b = Head(lru)
      OBVIOUS
    <2>2. /\ b \in Bufs /\ OnList(b, lru) /\ Tail(lru) \in Seq(Bufs) /\ Once(Tail(lru))
          /\ ~OnList(b, Tail(lru)) /\ \A c \in Bufs \ {b} : OnList(c, Tail(lru)) <=> OnList(c, lru)
      <3>1. lru \in Seq(Bufs) /\ Once(lru)
        BY DEF Inv, TypeOK, LruOK
      <3> QED
        BY <1>3, <2>1, <3>1, TailOK
    <2>3. lru' = Tail(lru)
      BY <1>3 DEF getnewbuf_recycle
    <2>4. /\ ~Is(b, "BUSY") /\ buf[b] \in BufStates
          /\ lru' \in Seq(Bufs) /\ Once(lru') /\ ~OnList(b, lru')
          /\ \A c \in Bufs \ {b} : OnList(c, lru') <=> OnList(c, lru)
      BY <2>2, <2>3, InvBuf
    <2>5. CASE Is(b, "DELWRI")
      <3>1. PICK r : r = [buf[b] EXCEPT !.flags = @ \cup {"BUSY", "AGE", "ASYNC"}]
        OBVIOUS
      <3>2. PICK o : o = [op[p] EXCEPT !.bp = b, !.ret = "recycle"]
        OBVIOUS
      <3>3. /\ r \in BufStates /\ r.vp = buf[b].vp /\ r.lblkno = buf[b].lblkno
            /\ r.list = buf[b].list /\ "ASYNC" \in r.flags
            /\ \A f \in Flags \ {"ASYNC", "AGE"} : f \in r.flags <=> f = "BUSY" \/ Is(b, f)
        BY <2>4, <3>1 DEF BufStates, Flags, Is
      <3>4. /\ o \in OpStates /\ o.bp = b /\ o.first = op[p].first /\ o.ret = "recycle"
            /\ o.call = op[p].call /\ o.vn = op[p].vn /\ o.lbn = op[p].lbn /\ o.next = op[p].next
        BY <1>0, <2>2, <3>2, ZenonT(30) DEF OpStates
      <3>5. /\ buf' = [buf EXCEPT ![Head(lru)].flags = @ \cup {"BUSY", "AGE", "ASYNC"}]
            /\ op' = [op EXCEPT ![p].bp = Head(lru), ![p].ret = "recycle"]
            /\ Goto(p, "bwrite") /\ UNCHANGED <<hashed, bufcachemem, bufneeded, wchan>>
        BY <1>3, <2>1, <2>5 DEF getnewbuf_recycle
      <3>6. buf' = [buf EXCEPT ![b] = r]
        BY <2>1, <3>1, <3>5
      <3>7. op' = [op EXCEPT ![p] = o]
        BY <2>1, <3>2, <3>5
      <3>8. /\ pc' = [pc EXCEPT ![p] = "bwrite"] /\ cpu' = p
            /\ UNCHANGED <<hashed, bufneeded, v_numoutput, VBWAIT, io, disk, contents, wchan>>
        BY <1>1, <3>5 DEF Goto
      <3> QED
        BY <1>0, <1>1, <1>3, <2>2, <2>4, <2>5, <3>3, <3>4, <3>6, <3>7, <3>8, WriteTakeInv
    <2>6. CASE ~Is(b, "DELWRI")
      <3>1. PICK n : n = op[p].needfree - 1
        OBVIOUS
      <3>2. n \in Int
        BY <1>0, <3>1 DEF OpStates
      <3>3. /\ hashed' = hashed \ {b} /\ cpu' = p /\ cpu' \in {None, p}
            /\ UNCHANGED <<bufneeded, vnode, device, wchan>>
        BY <1>1, <1>3, <2>1, <2>6 DEF getnewbuf_recycle, Goto
      <3>4. CASE bufcachemem + n > maxbufmem
        <4>1. /\ buf' = [buf EXCEPT ![b] = NoBuf]
              /\ op' = [op EXCEPT ![p].bp = None, ![p].needfree = n]
              /\ pc' = [pc EXCEPT ![p] = "recycle"]
          BY <1>3, <2>1, <2>6, <3>1, <3>4 DEF getnewbuf_recycle, Goto
        <4>2. PICK o : o = [op[p] EXCEPT !.bp = None, !.needfree = n]
          OBVIOUS
        <4>3. /\ o \in OpStates /\ o.bp = None /\ o.first = op[p].first /\ o.ret = op[p].ret
              /\ o.call = op[p].call /\ o.vn = op[p].vn /\ o.lbn = op[p].lbn
              /\ o.next = op[p].next
          BY <1>0, <3>2, <4>2, ZenonT(30) DEF OpStates
        <4>4. op' = [op EXCEPT ![p] = o]
          BY <4>1, <4>2
        <4> QED
          BY <1>0, <1>1, <1>3, <2>2, <2>4, <3>3, <4>1, <4>3, <4>4, TrimInv
      <3>5. CASE ~(bufcachemem + n > maxbufmem)
        <4>1. /\ buf' = [buf EXCEPT ![b] = Fresh]
              /\ op' = [op EXCEPT ![p].bp = b, ![p].needfree = 0]
              /\ pc' = [pc EXCEPT ![p] = "insert"]
          BY <1>3, <2>1, <2>6, <3>1, <3>5 DEF getnewbuf_recycle, Goto, Fresh
        <4>0. PICK z \in Int : z = 0
          OBVIOUS
        <4>2. PICK o : o = [op[p] EXCEPT !.bp = b, !.needfree = z]
          OBVIOUS
        <4>3. /\ o \in OpStates /\ o.bp = b /\ o.first = op[p].first /\ o.ret = op[p].ret
              /\ o.call = op[p].call /\ o.vn = op[p].vn /\ o.lbn = op[p].lbn
              /\ o.next = op[p].next
          BY <1>0, <2>2, <4>2, ZenonT(30) DEF OpStates
        <4>4. op' = [op EXCEPT ![p] = o]
          BY <4>0, <4>1, <4>2
        <4>5. pc[p] \in {"malloc", "recycle"} /\ (lru = <<>> => lru' = <<>>) /\ Runs(p)
          BY <1>0, <1>1, <1>3
        <4>6. ~OnList(b, lru') /\ b \in Bufs /\ pc' = [pc EXCEPT ![p] = "insert"]
              /\ buf' = [buf EXCEPT ![b] = Fresh] /\ lru' \in Seq(Bufs) /\ Once(lru')
              /\ ~Is(b, "BUSY") /\ \A c \in Bufs \ {b} : OnList(c, lru') <=> OnList(c, lru)
          BY <2>2, <2>4, <4>1
        <4> QED
          BY <3>3, <4>3, <4>4, <4>5, <4>6, FreshInv
      <3> QED
        BY <3>4, <3>5
    <2> QED
      BY <2>5, <2>6
  <1> QED
    BY <1>2, <1>3

-----------------------------------------------------------------------------
(* p works on a buffer of its own.                                         *)
LEMMA WorkInv ==
    ASSUME Inv, NEW p \in Procs, Runs(p), cpu' \in {None, p},
           NEW b \in Bufs, p \in Owners(b), pc[p] = "started" => op[p].bp = b,
           NEW r \in BufStates, buf' = [buf EXCEPT ![b] = r],
           "BUSY" \in r.flags, Is(b, "WANTED") => "WANTED" \in r.flags,
           hashed' \in {hashed, hashed \cup {b}}, io' \in {io, io \cup {b}},
           UNCHANGED <<lru, bufneeded, VBWAIT, wchan, disk>>,
           v_numoutput' \in [Vnodes -> Int], OutputCounted',
           \A v \in Vnodes : v_numoutput[v] > 0 => v_numoutput'[v] > 0,
           contents' \in [Vnodes \X Blocks -> Data \cup {None}],
           NEW l \in Labels, pc' = [pc EXCEPT ![p] = l], l # "panic",
           NEW o \in OpStates, op' = [op EXCEPT ![p] = o],
           \A c \in Bufs \ {b} : (p \in Owners(c))' <=> p \in Owners(c),
           BufOK(b)', (p \in Owners(b))' <=> ~("ASYNC" \in r.flags /\ b \in io'),
           (Dirty(b) /\ ~Is(b, "DELWRI"))' => l = "started" /\ o.bp = b /\ "DELWRI" \in o.oldstate,
           CallOK(p)', HandOK(p)', IdOK(p)'
    PROVE  Inv'
  <1>0. /\ TypeOK /\ LruOK /\ wchan[p] = None /\ wchan = [wchan EXCEPT ![p] = None]
    BY RunsFacts
  <1>1. Owners(b) = {p} /\ ~OnList(b, lru)
    BY SoleOwner
  <1>2. buf'[b] = r /\ wchan'[p] = None
    BY <1>0 DEF TypeOK
  <1>3. SleepOK(p)'
    BY <1>2, BufAssumption DEF SleepOK
  <1>4. /\ disk' \in [Vnodes \X Blocks -> Data \cup {None}] /\ hashed' \subseteq Bufs /\ io' \subseteq Bufs
        /\ lru' \in Seq(Bufs) /\ Once(lru') /\ ~OnList(b, lru')
        /\ wchan' = [wchan EXCEPT ![p] = None] /\ (lru = <<>> => lru' = <<>>)
    BY <1>0, <1>1 DEF TypeOK, LruOK
  <1>5. \A c \in Bufs \ {b} : /\ c \in io' <=> c \in io
                              /\ c \in hashed' <=> c \in hashed
                              /\ OnList(c, lru') <=> OnList(c, lru)
                              /\ (p \in Owners(c))' <=> p \in Owners(c)
    OBVIOUS
  <1>6. (p \in Owners(b) <=> Is(b, "BUSY") /\ ~(Is(b, "ASYNC") /\ b \in io))'
    BY <1>2 DEF Is
  <1>7. /\ Is(b, "BUSY") /\ Is(b, "WANTED") => {"BUSY", "WANTED"} \subseteq r.flags
        /\ OnList(b, lru') <=> r # NoBuf /\ "BUSY" \notin r.flags
        /\ Owners(b) \subseteq {p} /\ UNCHANGED <<bufneeded, VBWAIT>>
    BY <1>1, <1>4
  <1> QED
    BY <1>3, <1>4, <1>5, <1>6, <1>7, QuietInv

LEMMA InsertInv ==
    ASSUME Inv, NEW p \in Procs, insert(p)
    PROVE  Inv'
  <1>0. /\ CallOK(p) /\ HandOK(p) /\ IdOK(p) /\ op[p] \in OpStates /\ TypeOK /\ Runs(p)
        /\ op = [op EXCEPT ![p] = op[p]]
    BY RunsFacts DEF insert
  <1>1. PICK b : b = op[p].bp
    OBVIOUS
  <1>2. /\ pc[p] = "insert" /\ hashed' = hashed \cup {b} /\ pc' = [pc EXCEPT ![p] = "got"]
        /\ cpu' = p /\ UNCHANGED <<lru, bufneeded, vnode, device, op, wchan>>
        /\ UNCHANGED <<io, disk, contents, v_numoutput, VBWAIT>>
    BY <1>1 DEF insert, Goto, vnode, device
  <1>3. b \in Bufs /\ p \in Owners(b) /\ buf[b] = Fresh /\ BufOK(b)
    BY <1>0, <1>1, <1>2, InvBuf DEF HandOK, Owners, Fresh
  <1>4. PICK r \in BufStates :
           /\ buf' = [buf EXCEPT ![b] = r] /\ b \notin io
           /\ IF op[p].call = "geteblk" THEN r.flags = {"BUSY", "INVAL"} /\ r.vp = None /\ r.list = None
              ELSE /\ r.flags = {"BUSY"} /\ r.vp = op[p].vn /\ r.lblkno = op[p].lbn
                   /\ r.list = <<op[p].vn, "clean">>
                   /\ op[p].vn \in Vnodes /\ op[p].lbn \in Blocks
    <2>1. b \notin io
      BY <1>3, FreshOK DEF BufOK
    <2>2. CASE op[p].call = "geteblk"
      <3>1. PICK r : r = [buf[b] EXCEPT !.flags = buf[b].flags \cup {"INVAL"}]
        OBVIOUS
      <3>2. r \in BufStates /\ r.flags = {"BUSY", "INVAL"} /\ r.vp = None /\ r.list = None
        BY <1>3, <3>1, FreshOK DEF BufStates, Flags
      <3>3. buf' = [buf EXCEPT ![b] = r]
        BY <1>1, <2>2, <3>1 DEF insert
      <3> QED
        BY <2>1, <2>2, <3>2, <3>3
    <2>3. CASE op[p].call # "geteblk"
      <3>1. PICK r : r = [Fresh EXCEPT !.vp = op[p].vn, !.lblkno = op[p].lbn,
                                       !.list = <<op[p].vn, "clean">>]
        OBVIOUS
      <3>2. op[p].vn \in Vnodes /\ op[p].lbn \in Blocks
        BY <1>0, <1>2, <2>3 DEF CallOK, ForBlock, Getting
      <3>3. /\ r \in BufStates /\ r.flags = {"BUSY"} /\ r.vp = op[p].vn /\ r.lblkno = op[p].lbn
            /\ r.list = <<op[p].vn, "clean">>
        BY <3>1, <3>2, FreshOK DEF BufStates, Flags
      <3>4. buf' = [buf EXCEPT ![b] = r]
        BY <1>1, <1>3, <2>3, <3>1 DEF insert
      <3> QED
        BY <2>1, <2>3, <3>2, <3>3, <3>4
    <2> QED
      BY <2>2, <2>3
  <1>5. /\ buf'[b] = r /\ op'[p] = op[p] /\ pc'[p] = "got"
        /\ \A c \in Bufs \ {b} : buf'[c] = buf[c]
    BY <1>0, <1>2, <1>3, <1>4 DEF TypeOK
  <1>6. /\ \A f \in Flags \ {"BUSY", "INVAL"} : ~Is(b, f)'
        /\ Is(b, "BUSY")' /\ (Is(b, "INVAL")' <=> op[p].call = "geteblk")
    BY <1>4, <1>5 DEF Is, Flags
  <1>7. BufOK(b)' /\ ~Dirty(b)'
    <2>1. CASE op[p].call = "geteblk"
      BY <1>2, <1>3, <1>4, <1>5, <1>6, <2>1 DEF BufOK, Dirty, Flags, InUse, NoBuf
    <2>2. CASE op[p].call # "geteblk"
      <3>1. /\ r.vp \in Vnodes /\ r.vp # None /\ r.list # None /\ r.list[1] = r.vp
            /\ r.list[2] = "clean" /\ r.lblkno # None
        BY <1>4, <2>2, BufAssumption, SMTT(30)
      <3> QED
        BY <1>2, <1>3, <1>4, <1>5, <1>6, <2>2, <3>1 DEF BufOK, Dirty, Flags, InUse, NoBuf
    <2> QED
      BY <2>1, <2>2
  <1>8. CallOK(p)'
    BY <1>0, <1>2, <1>5 DEF CallOK, ForBlock, Alone, Getting, Writing
  <1>9. op[p].first # None => op[p].first # b /\ op[p].first \in Bufs
    BY <1>0, <1>1, <1>2 DEF HandOK, OpStates
  <1>10. HandOK(p)'
    BY <1>0, <1>1, <1>2, <1>3, <1>4, <1>5, <1>6, <1>9 DEF HandOK, Transfer, Is, Writing, Flags
  <1>11. IdOK(p)'
    BY <1>0, <1>1, <1>4, <1>5, <1>9 DEF IdOK, blk
  <1>12. (p \in Owners(b))' /\ \A c \in Bufs \ {b} : (p \in Owners(c))' <=> p \in Owners(c)
    BY <1>1, <1>2, <1>5 DEF Owners
  <1>13. OutputCounted'
    BY <1>0, <1>2, <1>3, <1>4, <1>5, OutputSame DEF Outs, TypeOK
  <1>14. /\ contents' \in [Vnodes \X Blocks -> Data \cup {None}] /\ v_numoutput' \in [Vnodes -> Int]
         /\ "got" \in Labels /\ op' = [op EXCEPT ![p] = op[p]] /\ ~Is(b, "WANTED")
         /\ UNCHANGED <<lru, bufneeded, VBWAIT, wchan, disk>> /\ "BUSY" \in r.flags
         /\ ~(b \in io') /\ io' = io /\ pc[p] # "started" /\ cpu' \in {None, p}
         /\ \A v \in Vnodes : v_numoutput[v] > 0 => v_numoutput'[v] > 0
    BY <1>0, <1>2, <1>3, <1>4, FreshOK DEF TypeOK, Labels, Is
  <1> QED
    BY <1>0, <1>2, <1>3, <1>4, <1>7, <1>8, <1>10, <1>11, <1>12, <1>13, <1>14, WorkInv, ZenonT(60)

(* A read of the buffer that getblk gave p is started.                     *)
LEMMA StartRead ==
    ASSUME Inv, NEW p \in Procs, Runs(p), pc[p] = "got", op[p].call # "geteblk",
           NEW b, b = op[p].bp, ~filled(b),
           NEW S, S \in {{"READ"}, {"ASYNC", "READ"}}, strategy(b, buf[b].flags \cup S),
           UNCHANGED <<hashed, v_numoutput>>
    PROVE  /\ b \in Bufs /\ p \in Owners(b) /\ io' = io \cup {b}
           /\ BufOK(b)' /\ OutputCounted' /\ ~(Dirty(b) /\ ~Is(b, "DELWRI"))'
           /\ blk(b)' = blk(b) /\ \A f \in Flags : Is(b, f)' <=> f \in S \/ Is(b, f)
           /\ \A c \in Bufs \ {b} : buf'[c] = buf[c]
           /\ \E r \in BufStates : buf' = [buf EXCEPT ![b] = r]
                                   /\ r.flags = buf[b].flags \cup S
  <1>0. /\ CallOK(p) /\ HandOK(p) /\ IdOK(p) /\ op[p] \in OpStates /\ TypeOK /\ Runs(p)
    BY RunsFacts
  <1>1. b \in Bufs /\ p \in Owners(b) /\ b \notin io
    BY <1>0 DEF HandOK, Owners
  <1>2. PICK r : r = [buf[b] EXCEPT !.flags = buf[b].flags \cup S]
    OBVIOUS
  <1>3. /\ buf[b] \in BufStates /\ BufOK(b) /\ Is(b, "BUSY") /\ ~Is(b, "ERROR")
        /\ (Dirty(b) => Is(b, "DELWRI"))
    BY <1>0, <1>1, InvBuf, SoleOwner, DirtyHas DEF HandOK
  <1>4. /\ r \in BufStates /\ r.flags = buf[b].flags \cup S /\ r.vp = buf[b].vp
        /\ r.lblkno = buf[b].lblkno /\ r.list = buf[b].list
    BY <1>2, <1>3 DEF BufStates, Flags
  <1>5. buf' = [buf EXCEPT ![b] = r] /\ io' = io \cup {b}
    BY <1>2 DEF strategy
  <1>6. buf'[b] = r /\ \A c \in Bufs \ {b} : buf'[c] = buf[c]
    BY <1>0, <1>1, <1>5 DEF TypeOK
  <1>7. (\A f \in Flags : Is(b, f)' <=> f \in S \/ Is(b, f)) /\ blk(b)' = blk(b)
    BY <1>4, <1>6 DEF Is, blk
  <1>8. buf[b].vp # None
    BY <1>0, BufAssumption DEF IdOK, CallOK, blk
  <1>9. ~Is(b, "DONE") /\ ~Is(b, "DELWRI")
    BY DEF filled
  <1>10. BufOK(b)'
    <2>1. \A f \in Flags \ {"READ", "ASYNC"} : Is(b, f)' <=> Is(b, f)
      BY <1>7
    <2> QED
      BY <1>3, <1>4, <1>5, <1>6, <1>8, <1>9, <2>1 DEF BufOK, Dirty, Flags, InUse, NoBuf
  <1>11. OutputCounted'
    <2>1. Is(b, "READ")'
      BY <1>7 DEF Flags
    <2> QED
      BY <1>0, <1>1, <1>5, <1>6, <2>1, OutputSame, ZenonT(60) DEF Outs, TypeOK
  <1>12. ~(Dirty(b) /\ ~Is(b, "DELWRI"))'
    BY <1>3, <1>4, <1>6, <1>7 DEF Dirty, Flags
  <1> QED
    BY <1>1, <1>4, <1>5, <1>6, <1>7, <1>10, <1>11, <1>12

LEMMA BreadInv ==
    ASSUME Inv, NEW p \in Procs, bread(p)
    PROVE  Inv'
  <1>0. /\ CallOK(p) /\ HandOK(p) /\ IdOK(p) /\ op[p] \in OpStates /\ TypeOK /\ Runs(p)
        /\ cpu \in {None, p} /\ wchan[p] = None /\ wchan = [wchan EXCEPT ![p] = None]
        /\ op = [op EXCEPT ![p] = op[p]] /\ VBWAIT \in [Vnodes -> BOOLEAN] /\ bufneeded \in BOOLEAN
    BY RunsFacts DEF bread
  <1>1. /\ pc[p] = "got" /\ op[p].call \in {"getblk", "geteblk", "bread"} /\ cpu' \in {None, p}
        /\ UNCHANGED <<hashed, lru, bufcachemem, bufneeded, disk, contents, op, wchan>>
        /\ UNCHANGED <<v_numoutput, VBWAIT>>
    BY DEF bread, vnode, Goto, Yield
  <1>2. op[p].first = None /\ op[p].bp \in Bufs
    BY <1>0, <1>1 DEF CallOK, HandOK
  <1>3. CASE Yield(p, "hold") /\ UNCHANGED <<buf, io>>
    <2>1. pc' = [pc EXCEPT ![p] = "hold"]
      BY <1>3 DEF Yield
    <2>2. op'[p] = op[p] /\ pc'[p] = "hold" /\ wchan'[p] = None
      BY <1>0, <1>1, <2>1 DEF TypeOK
    <2>3. CallOK(p)'
      BY <1>0, <1>1, <1>2, <2>2 DEF CallOK, ForBlock, Alone, Getting, Writing
    <2>4. HandOK(p)' /\ IdOK(p)'
      BY <1>0, <1>1, <1>2, <1>3, <2>2 DEF HandOK, IdOK, blk, Transfer, Is, Writing
    <2>5. SleepOK(p)'
      BY <2>2, BufAssumption DEF SleepOK
    <2>6. \A c \in Bufs : (p \in Owners(c))' <=> p \in Owners(c)
      BY <1>1, <2>2 DEF Owners
    <2> QED
      BY <1>0, <1>1, <1>3, <2>1, <2>3, <2>4, <2>5, <2>6, PlainInv DEF Labels
  <1>4. CASE /\ op[p].call = "bread" /\ ~filled(op[p].bp)
             /\ strategy(op[p].bp, buf[op[p].bp].flags \cup {"READ"}) /\ Goto(p, "biowait")
    <2>1. PICK b : b = op[p].bp
      OBVIOUS
    <2>2. pc' = [pc EXCEPT ![p] = "biowait"] /\ cpu' = p
      BY <1>4 DEF Goto
    <2>3. op'[p] = op[p] /\ pc'[p] = "biowait"
      BY <1>0, <1>1, <2>2 DEF TypeOK
    <2>4. /\ p \in Owners(b) /\ io' = io \cup {b}
          /\ BufOK(b)' /\ OutputCounted' /\ ~(Dirty(b) /\ ~Is(b, "DELWRI"))'
          /\ blk(b)' = blk(b) /\ \A f \in Flags : Is(b, f)' <=> f \in {"READ"} \/ Is(b, f)
      BY <1>0, <1>1, <1>4, <2>1, StartRead
    <2>5. PICK r \in BufStates : buf' = [buf EXCEPT ![b] = r] /\ r.flags = buf[b].flags \cup {"READ"}
      BY <1>0, <1>1, <1>4, <2>1, StartRead
    <2>6. CallOK(p)'
      BY <1>0, <1>1, <1>2, <1>4, <2>3 DEF CallOK, ForBlock, Alone, Getting, Writing
    <2>7. HandOK(p)'
      BY <1>0, <1>1, <1>2, <1>4, <2>1, <2>3, <2>4 DEF HandOK, Transfer, Writing, Flags, filled
    <2>8. IdOK(p)'
      BY <1>0, <1>1, <1>2, <2>1, <2>3, <2>4 DEF IdOK
    <2>9. (p \in Owners(b))' /\ \A c \in Bufs : (p \in Owners(c))' <=> p \in Owners(c)
      BY <1>1, <2>1, <2>3 DEF Owners
    <2>10. /\ contents' \in [Vnodes \X Blocks -> Data \cup {None}] /\ v_numoutput' \in [Vnodes -> Int]
           /\ "biowait" \in Labels /\ op' = [op EXCEPT ![p] = op[p]] /\ b \in Bufs
           /\ UNCHANGED <<lru, bufneeded, VBWAIT, wchan, disk>> /\ pc[p] # "started"
           /\ \A v \in Vnodes : v_numoutput[v] > 0 => v_numoutput'[v] > 0
      BY <1>0, <1>1, <1>2, <2>1 DEF TypeOK, Labels
    <2>11. /\ "BUSY" \in r.flags /\ (Is(b, "WANTED") => "WANTED" \in r.flags)
           /\ "ASYNC" \notin r.flags
      BY <1>0, <1>1, <2>1, <2>4, <2>5, <2>10, SoleOwner DEF Is, HandOK
    <2> QED
      BY <1>0, <1>1, <2>2, <2>4, <2>5, <2>6, <2>7, <2>8, <2>9, <2>10, <2>11, WorkInv
  <1> QED
    BY <1>3, <1>4 DEF bread

LEMMA BreadaInv ==
    ASSUME Inv, NEW p \in Procs, breada(p)
    PROVE  Inv'
  <1>0. /\ CallOK(p) /\ HandOK(p) /\ IdOK(p) /\ op[p] \in OpStates /\ TypeOK /\ Runs(p)
    BY RunsFacts DEF breada
  <1>1. /\ pc[p] = "got" /\ op[p].call = "breada" /\ op[p].first = None /\ cpu' = p
        /\ pc' = [pc EXCEPT ![p] = "getblk"]
        /\ UNCHANGED <<hashed, lru, bufneeded, disk, contents, wchan, v_numoutput, VBWAIT>>
    BY DEF breada, vnode, Goto
  <1>2. PICK b : b = op[p].bp
    OBVIOUS
  <1>3. PICK o : o = [op[p] EXCEPT !.first = b, !.bp = None, !.lbn = op[p].next, !.next = op[p].lbn]
    OBVIOUS
  <1>4. /\ b \in Bufs /\ op[p].next \in Blocks /\ op[p].lbn \in Blocks /\ p \in Owners(b)
        /\ BufOK(b) /\ OutputCounted /\ buf[b] \in BufStates
    BY <1>0, <1>1, <1>2, InvBuf DEF HandOK, CallOK, ForBlock, Getting, Owners, Inv
  <1>5. /\ o \in OpStates /\ o.first = b /\ o.bp = None /\ o.lbn = op[p].next /\ o.next = op[p].lbn
        /\ o.vn = op[p].vn /\ o.call = "breada" /\ o.ret = op[p].ret
    BY <1>0, <1>1, <1>3, <1>4, ZenonT(30) DEF OpStates
  <1>6. op' = [op EXCEPT ![p] = o]
    BY <1>2, <1>3 DEF breada
  <1>7. PICK r \in BufStates, S \in {{}, {"READ"}} :
           /\ buf' = [buf EXCEPT ![b] = r] /\ r.flags = buf[b].flags \cup S /\ BufOK(b)'
           /\ OutputCounted' /\ ~(Dirty(b) /\ ~Is(b, "DELWRI"))' /\ blk(b)' = blk(b)
           /\ \A f \in Flags : Is(b, f)' <=> f \in S \/ Is(b, f)
           /\ io' \in {io, io \cup {b}} /\ (b \in io' \/ Is(b, "DONE"))
    <2>1. CASE filled(b)
      <3>1. buf' = buf /\ io' = io
        BY <1>2, <2>1 DEF breada
      <3>2. buf' = [buf EXCEPT ![b] = buf[b]] /\ buf[b].flags = buf[b].flags \cup {}
        BY <1>0, <3>1 DEF TypeOK
      <3>3. BufOK(b)' /\ blk(b)' = blk(b) /\ \A f \in Flags : Is(b, f)' <=> f \in {} \/ Is(b, f)
        BY <1>1, <1>4, <3>1 DEF BufOK, Is, blk, Dirty, InUse
      <3>4. OutputCounted'
        BY <1>1, <1>4, <3>1 DEF OutputCounted, Is
      <3>5. ~(Dirty(b) /\ ~Is(b, "DELWRI"))'
        <4>1. ~(Dirty(b) /\ ~Is(b, "DELWRI"))
          BY <1>0, <1>1, <1>4, DirtyHas
        <4> QED
          BY <3>1, <4>1 DEF Dirty, Is
      <3>6. Is(b, "DONE")
        BY <1>0, <1>1, <1>2, <2>1 DEF HandOK, filled
      <3> QED
        BY <1>4, <3>1, <3>2, <3>3, <3>4, <3>5, <3>6
    <2>2. CASE ~filled(b)
      <3>1. strategy(b, buf[b].flags \cup {"READ"})
        BY <1>2, <2>2 DEF breada
      <3>2. /\ io' = io \cup {b} /\ BufOK(b)' /\ OutputCounted'
            /\ ~(Dirty(b) /\ ~Is(b, "DELWRI"))' /\ blk(b)' = blk(b)
            /\ \A f \in Flags : Is(b, f)' <=> f \in {"READ"} \/ Is(b, f)
            /\ \E r \in BufStates : buf' = [buf EXCEPT ![b] = r]
                                    /\ r.flags = buf[b].flags \cup {"READ"}
        BY <1>0, <1>1, <1>2, <2>2, <3>1, StartRead
      <3> QED
        BY <3>2
    <2> QED
      BY <2>1, <2>2
  <1>8. op'[p] = o /\ pc'[p] = "getblk"
    BY <1>0, <1>1, <1>6 DEF TypeOK
  <1>9. CallOK(p)'
    BY <1>0, <1>1, <1>4, <1>5, <1>8 DEF CallOK, ForBlock, Alone, Getting, Writing
  <1>10. HandOK(p)'
    <2>1. Transfer(b)'
      BY <1>0, <1>1, <1>2, <1>7 DEF Transfer, HandOK, Flags
    <2> QED
      BY <1>5, <1>8, <2>1 DEF HandOK, Writing
  <1>11. IdOK(p)'
    <2>1. blk(b)' = <<op[p].vn, op[p].lbn>>
      BY <1>0, <1>1, <1>2, <1>7 DEF IdOK
    <2> QED
      BY <1>5, <1>8, <2>1 DEF IdOK
  <1>12. (p \in Owners(b))' /\ \A c \in Bufs \ {b} : (p \in Owners(c))' <=> p \in Owners(c)
    BY <1>1, <1>2, <1>5, <1>8, BufAssumption DEF Owners
  <1>13. /\ contents' \in [Vnodes \X Blocks -> Data \cup {None}] /\ v_numoutput' \in [Vnodes -> Int]
         /\ "getblk" \in Labels /\ cpu' \in {None, p}
         /\ UNCHANGED <<lru, bufneeded, VBWAIT, wchan, disk>> /\ pc[p] # "started"
         /\ \A v \in Vnodes : v_numoutput[v] > 0 => v_numoutput'[v] > 0
    BY <1>0, <1>1 DEF TypeOK, Labels
  <1>14. /\ "BUSY" \in r.flags /\ (Is(b, "WANTED") => "WANTED" \in r.flags)
         /\ "ASYNC" \notin r.flags
    BY <1>0, <1>1, <1>2, <1>4, <1>7, SoleOwner DEF Is, HandOK
  <1> QED
    BY <1>0, <1>1, <1>4, <1>5, <1>6, <1>7, <1>9, <1>10, <1>11, <1>12, <1>13, <1>14, WorkInv

LEMMA ReadAheadInv ==
    ASSUME Inv, NEW p \in Procs, breada_next(p), ~filled(op[p].bp)
    PROVE  Inv'
  <1>0. /\ CallOK(p) /\ HandOK(p) /\ IdOK(p) /\ op[p] \in OpStates /\ TypeOK /\ Runs(p)
    BY RunsFacts DEF breada_next
  <1>1. /\ pc[p] = "got" /\ op[p].call = "breada" /\ op[p].first # None /\ cpu' = p
        /\ pc' = [pc EXCEPT ![p] = "biowait"]
        /\ UNCHANGED <<hashed, lru, bufneeded, disk, contents, wchan, v_numoutput, VBWAIT>>
    BY DEF breada_next, vnode, Goto
  <1>2. PICK b : b = op[p].bp
    OBVIOUS
  <1>3. PICK a : a = op[p].first
    OBVIOUS
  <1>4. PICK o : o = [op[p] EXCEPT !.bp = a, !.first = None, !.lbn = op[p].next, !.next = None]
    OBVIOUS
  <1>5. /\ b \in Bufs /\ a \in Bufs /\ a # b /\ op[p].next \in Blocks /\ op[p].vn \in Vnodes
        /\ p \in Owners(b) /\ p \in Owners(a) /\ BufOK(a)
        /\ Transfer(a) /\ blk(a) = <<op[p].vn, op[p].next>>
    BY <1>0, <1>1, <1>2, <1>3, InvBuf DEF HandOK, CallOK, IdOK, Getting, Owners, OpStates
  <1>6. /\ o \in OpStates /\ o.first = None /\ o.bp = a /\ o.lbn = op[p].next
        /\ o.vn = op[p].vn /\ o.call = "breada" /\ o.ret = op[p].ret
    BY <1>0, <1>1, <1>4, <1>5 DEF OpStates
  <1>7. op' = [op EXCEPT ![p] = o]
    BY <1>3, <1>4 DEF breada_next
  <1>8. op'[p] = o /\ pc'[p] = "biowait"
    BY <1>0, <1>1, <1>7 DEF TypeOK
  <1>9. strategy(b, buf[b].flags \cup {"ASYNC", "READ"})
    BY <1>2 DEF breada_next
  <1>10. /\ io' = io \cup {b} /\ BufOK(b)' /\ OutputCounted'
         /\ ~(Dirty(b) /\ ~Is(b, "DELWRI"))'
         /\ \A c \in Bufs \ {b} : buf'[c] = buf[c]
    BY <1>0, <1>1, <1>2, <1>9, StartRead
  <1>11. PICK r \in BufStates : buf' = [buf EXCEPT ![b] = r]
                                /\ r.flags = buf[b].flags \cup {"ASYNC", "READ"}
    BY <1>0, <1>1, <1>2, <1>9, StartRead
  <1>12. CallOK(p)'
    BY <1>0, <1>1, <1>5, <1>6, <1>8 DEF CallOK, ForBlock, Alone, Getting, Writing
  <1>13. HandOK(p)'
    <2>1. Transfer(a)' /\ (Is(a, "DELWRI")' => Is(a, "DONE")')
      BY <1>5, <1>10 DEF Transfer, BufOK, Is
    <2> QED
      BY <1>5, <1>6, <1>8, <2>1 DEF HandOK, Writing
  <1>14. IdOK(p)'
    BY <1>5, <1>6, <1>8, <1>10 DEF IdOK, blk
  <1>15. ~(p \in Owners(b))' /\ \A c \in Bufs \ {b} : (p \in Owners(c))' <=> p \in Owners(c)
    BY <1>1, <1>2, <1>3, <1>5, <1>6, <1>8, BufAssumption DEF Owners
  <1>16. /\ contents' \in [Vnodes \X Blocks -> Data \cup {None}] /\ v_numoutput' \in [Vnodes -> Int]
         /\ "biowait" \in Labels /\ cpu' \in {None, p}
         /\ UNCHANGED <<lru, bufneeded, VBWAIT, wchan, disk>> /\ pc[p] # "started"
         /\ \A v \in Vnodes : v_numoutput[v] > 0 => v_numoutput'[v] > 0
    BY <1>0, <1>1 DEF TypeOK, Labels
  <1>17. /\ "BUSY" \in r.flags /\ (Is(b, "WANTED") => "WANTED" \in r.flags)
         /\ "ASYNC" \in r.flags /\ b \in io'
    BY <1>5, <1>10, <1>11, SoleOwner DEF Is
  <1> QED
    BY <1>0, <1>1, <1>5, <1>6, <1>7, <1>10, <1>11, <1>12, <1>13, <1>14, <1>15, <1>16, <1>17, WorkInv

(* The holder of a buffer has new data in it, and calls bwrite.            *)
LEMMA ToBwriteInv ==
    ASSUME Inv, NEW p \in Procs, Usable(p), NEW b \in {op[p].bp}, NEW d \in Data, Modify(b, d),
           NEW r \in BufStates, buf' = [buf EXCEPT ![b] = r],
           r.vp = buf[b].vp, r.lblkno = buf[b].lblkno,
           \A f \in Flags \ {"ASYNC", "DELWRI"} : f \in r.flags <=> Is(b, f),
           IF "DELWRI" \in r.flags THEN r.list = <<buf[b].vp, "dirty">>
           ELSE r.list = buf[b].list /\ ~Is(b, "DELWRI"),
           UNCHANGED <<hashed, lru, bufneeded, vnode, io, disk, op, wchan>>, Goto(p, "bwrite")
    PROVE  Inv'
  <1>0. /\ CallOK(p) /\ HandOK(p) /\ IdOK(p) /\ op[p] \in OpStates /\ TypeOK /\ Runs(p)
        /\ op = [op EXCEPT ![p] = op[p]]
    BY RunsFacts DEF Usable, Holder
  <1>1. /\ pc[p] = "hold" /\ op[p].call # "geteblk" /\ pc' = [pc EXCEPT ![p] = "bwrite"]
        /\ cpu' = p /\ UNCHANGED <<v_numoutput, VBWAIT>>
    BY DEF Usable, Holder, Goto, vnode
  <1>2. /\ b \in Bufs /\ p \in Owners(b) /\ b \notin io /\ BufOK(b) /\ buf[b] \in BufStates
        /\ op[p].first = None /\ op[p].vn \in Vnodes /\ op[p].lbn \in Blocks
        /\ buf[b].vp = op[p].vn /\ buf[b].lblkno = op[p].lbn
    <2>1. /\ b \in Bufs /\ p \in Owners(b) /\ b \notin io /\ op[p].first = None
          /\ op[p].vn \in Vnodes /\ op[p].lbn \in Blocks
      BY <1>0, <1>1 DEF HandOK, CallOK, ForBlock, Owners, Getting
    <2>2. blk(b) = <<op[p].vn, op[p].lbn>>
      BY <1>0, <1>1 DEF IdOK
    <2> QED
      BY <2>1, <2>2, InvBuf DEF blk
  <1>3. contents' \in [Vnodes \X Blocks -> Data \cup {None}]
    BY <1>0, <1>2 DEF Modify, TypeOK, blk
  <1>4. buf'[b] = r /\ op'[p] = op[p] /\ pc'[p] = "bwrite"
        /\ \A c \in Bufs \ {b} : buf'[c] = buf[c]
    BY <1>0, <1>1, <1>2 DEF TypeOK
  <1>5. /\ \A f \in Flags \ {"ASYNC", "DELWRI"} : Is(b, f)' <=> Is(b, f)
        /\ Is(b, "BUSY") /\ buf[b].vp # None
    BY <1>2, <1>4, SoleOwner, BufAssumption DEF Is
  <1>6. BufOK(b)' /\ ~(Dirty(b) /\ ~Is(b, "DELWRI"))'
    <2>1. CASE "DELWRI" \in r.flags
      <3>0. r.list = <<op[p].vn, "dirty">> /\ r.vp = op[p].vn
        BY <1>2, <2>1
      <3>1. <<op[p].vn, "dirty">> \in Vnodes \X {"dirty", "clean"}
        BY <1>2
      <3>3. r.list[1] = r.vp /\ r.list[2] = "dirty" /\ r.list # None
        BY <3>0, <3>1, BufAssumption
      <3>2. Is(b, "DELWRI")'
        BY <1>4, <2>1 DEF Is
      <3> QED
        BY <1>2, <1>4, <1>5, <3>3, <3>2 DEF BufOK, Dirty, Flags, InUse, NoBuf
    <2>2. CASE "DELWRI" \notin r.flags
      <3>1. ~Is(b, "DELWRI")' /\ ~Dirty(b)
        BY <1>0, <1>1, <1>2, <1>4, <2>2, DirtyHas DEF Is
      <3> QED
        BY <1>2, <1>4, <1>5, <2>2, <3>1 DEF BufOK, Dirty, Flags, InUse, NoBuf
    <2> QED
      BY <2>1, <2>2
  <1>7. CallOK(p)'
    BY <1>0, <1>1, <1>4 DEF CallOK, ForBlock, Alone, Getting, Writing
  <1>8. HandOK(p)'
    BY <1>0, <1>1, <1>2, <1>4, <1>5 DEF HandOK, Writing, CallOK
  <1>9. IdOK(p)'
    BY <1>2, <1>4 DEF IdOK
  <1>10. (p \in Owners(b))' /\ \A c \in Bufs \ {b} : (p \in Owners(c))' <=> p \in Owners(c)
    BY <1>1, <1>4 DEF Owners
  <1>11. OutputCounted'
    BY <1>0, <1>1, <1>2, <1>4, OutputSame DEF Outs, TypeOK
  <1>12. /\ v_numoutput' \in [Vnodes -> Int] /\ "bwrite" \in Labels /\ cpu' \in {None, p}
         /\ UNCHANGED <<lru, bufneeded, VBWAIT, wchan, disk>> /\ pc[p] # "started"
         /\ \A v \in Vnodes : v_numoutput[v] > 0 => v_numoutput'[v] > 0
         /\ op' = [op EXCEPT ![p] = op[p]] /\ io' = io /\ ~(b \in io') /\ hashed' = hashed
    BY <1>0, <1>1, <1>2 DEF TypeOK, Labels
  <1>13. "BUSY" \in r.flags /\ (Is(b, "WANTED") => "WANTED" \in r.flags)
    BY <1>5 DEF Flags
  <1>14. /\ hashed' \in {hashed, hashed \cup {b}} /\ io' \in {io, io \cup {b}}
         /\ (p \in Owners(b))' <=> ~("ASYNC" \in r.flags /\ b \in io')
         /\ Runs(p) /\ op[p] \in OpStates /\ b \in Bufs /\ p \in Owners(b)
         /\ pc' = [pc EXCEPT ![p] = "bwrite"]
    BY <1>0, <1>1, <1>2, <1>10, <1>12
  <1>15. pc[p] = "started" => op[p].bp = b
    BY <1>12
  <1>16. UNCHANGED <<lru, bufneeded, VBWAIT, wchan, disk>>
    BY <1>12
  <1>17. (Dirty(b) /\ ~Is(b, "DELWRI"))' => "bwrite" = "started" /\ op[p].bp = b /\ "DELWRI" \in op[p].oldstate
    BY <1>6
  <1>18. cpu' \in {None, p} /\ "bwrite" # "panic" /\ BufOK(b)'
    BY <1>12, <1>6
  <1> QED
    BY <1>3, <1>18, <1>7, <1>8, <1>9, <1>10, <1>11, <1>12, <1>13, <1>14, <1>15, <1>16, <1>17, WorkInv

LEMMA WriteInv ==
    ASSUME Inv, NEW p \in Procs, write(p)
    PROVE  Inv'
  <1>1. PICK b : b = op[p].bp
    OBVIOUS
  <1>2. PICK d \in Data, async \in BOOLEAN :
           /\ Modify(b, d)
           /\ buf' = [buf EXCEPT ![b].data = d,
                                 ![b].flags = @ \cup (IF async THEN {"ASYNC"} ELSE {})]
    BY <1>1 DEF write
  <1>3. PICK S \in {{}, {"ASYNC"}} : S = IF async THEN {"ASYNC"} ELSE {}
    OBVIOUS
  <1>4. PICK r : r = [buf[b] EXCEPT !.data = d, !.flags = buf[b].flags \cup S]
    OBVIOUS
  <1>5. buf' = [buf EXCEPT ![b] = r]
    BY <1>2, <1>3, <1>4
  <1>6. /\ Usable(p) /\ Goto(p, "bwrite")
        /\ UNCHANGED <<hashed, lru, bufneeded, vnode, io, disk, op, wchan>>
    BY DEF write
  <1>7. /\ Runs(p) /\ pc[p] = "hold" /\ HandOK(p)
    BY <1>6, RunsFacts DEF Usable, Holder
  <1>8. b \in Bufs /\ buf[b] \in BufStates /\ BufOK(b)
    BY <1>1, <1>7, InvBuf DEF HandOK
  <1>9. /\ r \in BufStates /\ r.flags = buf[b].flags \cup S /\ r.vp = buf[b].vp
        /\ r.lblkno = buf[b].lblkno /\ r.list = buf[b].list
    BY <1>4, <1>8 DEF BufStates, Flags
  <1>10. \A f \in Flags \ {"ASYNC"} : f \in r.flags <=> Is(b, f)
    BY <1>9 DEF Is
  <1>11. IF "DELWRI" \in r.flags THEN r.list = <<buf[b].vp, "dirty">>
         ELSE r.list = buf[b].list /\ ~Is(b, "DELWRI")
    <2>1. "DELWRI" \in r.flags <=> Is(b, "DELWRI")
      BY <1>10 DEF Flags
    <2>2. ASSUME Is(b, "DELWRI") PROVE buf[b].list = <<buf[b].vp, "dirty">>
      <3>1. buf[b].list # None /\ buf[b].list[1] = buf[b].vp /\ buf[b].list[2] = "dirty"
        BY <1>8, <2>2 DEF BufOK, Dirty
      <3> QED
        BY <1>8, <3>1 DEF BufStates
    <2> QED
      BY <1>9, <2>1, <2>2
  <1> QED
    BY <1>1, <1>2, <1>5, <1>6, <1>9, <1>10, <1>11, ToBwriteInv

LEMMA BwriteInv ==
    ASSUME Inv, NEW p \in Procs, bwrite(p)
    PROVE  Inv'
  <1>0. /\ CallOK(p) /\ HandOK(p) /\ IdOK(p) /\ op[p] \in OpStates /\ TypeOK /\ Runs(p)
    BY RunsFacts DEF bwrite
  <1>1. PICK b : b = op[p].bp
    OBVIOUS
  <1>2. /\ pc[p] = "bwrite" /\ cpu' = p /\ pc' = [pc EXCEPT ![p] = "started"]
        /\ UNCHANGED <<hashed, lru, bufneeded, VBWAIT, disk, contents, wchan>>
        /\ v_numoutput' = [v_numoutput EXCEPT ![buf[b].vp] = @ + 1]
        /\ io' = io \cup {b}
    BY <1>1 DEF bwrite, Goto, strategy
  <1>3. /\ b \in Bufs /\ p \in Owners(b) /\ b \notin io /\ BufOK(b) /\ buf[b] \in BufStates
        /\ buf[b].vp \in Vnodes /\ buf[b].vp # None /\ (Dirty(b) => Is(b, "DELWRI"))
    <2>1. b \in Bufs /\ p \in Owners(b) /\ b \notin io /\ buf[b].vp # None
      BY <1>0, <1>1, <1>2 DEF HandOK, Owners, Writing
    <2> QED
      BY <1>0, <1>2, <2>1, InvBuf, DirtyHas DEF BufStates
  <1>4. PICK S : S = buf[b].flags \cap {"DELWRI", "ASYNC"}
    OBVIOUS
  <1>5. PICK o : o = [op[p] EXCEPT !.oldstate = S]
    OBVIOUS
  <1>6. PICK r : r = [buf[b] EXCEPT !.flags = buf[b].flags \ {"DELWRI", "DONE", "ERROR", "READ"}]
    OBVIOUS
  <1>7. /\ S \in SUBSET Flags /\ ("ASYNC" \in S <=> Is(b, "ASYNC")) /\ ("DELWRI" \in S <=> Is(b, "DELWRI"))
    BY <1>4 DEF Flags, Is
  <1>8. /\ o \in OpStates /\ o.oldstate = S /\ o.bp = b /\ o.first = op[p].first /\ o.ret = op[p].ret
        /\ o.call = op[p].call /\ o.vn = op[p].vn /\ o.lbn = op[p].lbn /\ o.next = op[p].next
    BY <1>0, <1>1, <1>5, <1>7 DEF OpStates
  <1>9. /\ r \in BufStates /\ r.vp = buf[b].vp /\ r.lblkno = buf[b].lblkno /\ r.list = buf[b].list
        /\ r.flags = buf[b].flags \ {"DELWRI", "DONE", "ERROR", "READ"}
    BY <1>3, <1>6 DEF BufStates, Flags
  <1>10. buf' = [buf EXCEPT ![b] = r] /\ op' = [op EXCEPT ![p] = o]
    BY <1>1, <1>4, <1>5, <1>6 DEF bwrite, strategy
  <1>11. /\ buf'[b] = r /\ op'[p] = o /\ pc'[p] = "started"
         /\ \A c \in Bufs \ {b} : buf'[c] = buf[c]
    BY <1>0, <1>2, <1>3, <1>10 DEF TypeOK
  <1>12. \A f \in Flags : Is(b, f)' <=> Is(b, f) /\ f \notin {"DELWRI", "DONE", "ERROR", "READ"}
    BY <1>9, <1>11 DEF Is
  <1>13. Is(b, "BUSY") /\ "BUSY" \in r.flags /\ (Is(b, "WANTED") => "WANTED" \in r.flags)
         /\ ("ASYNC" \in r.flags <=> Is(b, "ASYNC"))
    BY <1>3, <1>9, SoleOwner DEF Is
  <1>14. BufOK(b)'
    BY <1>2, <1>3, <1>9, <1>11, <1>12, <1>13 DEF BufOK, Dirty, Flags, InUse, NoBuf
  <1>15. (Dirty(b) /\ ~Is(b, "DELWRI"))' =>
            "started" = "started" /\ o.bp = b /\ "DELWRI" \in o.oldstate
    BY <1>3, <1>7, <1>8, <1>9, <1>11 DEF Dirty
  <1>16. CallOK(p)'
    BY <1>0, <1>2, <1>8, <1>11 DEF CallOK, ForBlock, Alone, Getting, Writing
  <1>17. op[p].first # None => op[p].first # b /\ op[p].first \in Bufs
    BY <1>0, <1>1, <1>2 DEF HandOK, OpStates
  <1>18. \A c \in Bufs \ {b} : (p \in Owners(c))' <=> p \in Owners(c)
    BY <1>1, <1>2, <1>8, <1>11 DEF Owners
  <1>19. (p \in Owners(b))' <=> ~Is(b, "ASYNC")
    BY <1>7, <1>8, <1>11, <1>17, BufAssumption, <1>3 DEF Owners
  <1>20. Owners(b)' \subseteq {p}
    <2>1. Owners(b) = {p}
      BY <1>3, SoleOwner
    <2>2. \A q \in Procs \ {p} : pc'[q] = pc[q] /\ op'[q] = op[q]
      BY <1>0, <1>2, <1>10 DEF TypeOK
    <2> QED
      BY <2>1, <2>2 DEF Owners
  <1>21. HandOK(p)'
    <2>1. "ASYNC" \notin S => Transfer(b)' /\ buf'[b].vp # None
      BY <1>2, <1>3, <1>7, <1>9, <1>11, <1>12 DEF Transfer, Flags
    <2>2. o.first # None => Transfer(o.first)'
      BY <1>0, <1>2, <1>8, <1>11, <1>17 DEF HandOK, Transfer, Is
    <2>3. ~Is(b, "DELWRI")' /\ (op[p].ret = "recycle" => "ASYNC" \in S)
      BY <1>0, <1>1, <1>2, <1>7, <1>12 DEF HandOK, Flags
    <2> QED
      BY <1>3, <1>8, <1>11, <1>20, <2>1, <2>2, <2>3 DEF HandOK, Writing
  <1>22. IdOK(p)'
    BY <1>0, <1>2, <1>8, <1>11, <1>17 DEF IdOK, blk
  <1>23. OutputCounted' /\ v_numoutput' \in [Vnodes -> Int]
         /\ \A v \in Vnodes : v_numoutput[v] > 0 => v_numoutput'[v] > 0
    <2>1. ASSUME NEW v \in Vnodes
          PROVE  /\ v_numoutput[v] \in Int /\ v_numoutput[v] = Cardinality(Outs(v))
                 /\ v_numoutput'[v] = v_numoutput[v] + One(v = buf[b].vp)
                 /\ Cardinality(Outs(v)') = Cardinality(Outs(v)) + One(v = buf[b].vp)
      <3>1. v_numoutput[v] = Cardinality(Outs(v)) /\ v_numoutput \in [Vnodes -> Int]
        BY <1>0 DEF Inv, OutputCounted, Outs, TypeOK
      <3>2. io \subseteq Bufs /\ io' \subseteq Bufs
        BY <1>0, <1>2, <1>3 DEF TypeOK
      <3>3. \A c \in Bufs \ {b} : buf'[c] = buf[c] /\ (c \in io' <=> c \in io)
        BY <1>2, <1>11
      <3>4. /\ Cardinality(Outs(v)) \in Nat
            /\ Cardinality(Outs(v)') = Cardinality(Outs(v)) + One(b \in Outs(v)') - One(b \in Outs(v))
        BY <1>3, <3>2, <3>3, OutsMove
      <3>5. b \notin Outs(v) /\ (b \in Outs(v)' <=> v = buf[b].vp)
        BY <1>2, <1>3, <1>9, <1>11, <1>12 DEF Outs, Flags
      <3>6. v_numoutput'[v] = v_numoutput[v] + One(v = buf[b].vp)
        BY <1>2, <3>1 DEF One
      <3>7. Cardinality(Outs(v)') = Cardinality(Outs(v)) + One(v = buf[b].vp)
        BY <3>4, <3>5 DEF One
      <3> QED
        BY <3>1, <3>6, <3>7
    <2>2. \A v \in Vnodes : v_numoutput'[v] = Cardinality(Outs(v)')
      BY <2>1
    <2>3. OutputCounted'
      BY <2>2 DEF OutputCounted, Outs
    <2>4. \A v \in Vnodes : v_numoutput[v] > 0 => v_numoutput'[v] > 0
      BY <2>1 DEF One
    <2>5. v_numoutput' \in [Vnodes -> Int]
      BY <1>0, <1>2, <1>3 DEF TypeOK
    <2> QED
      BY <2>3, <2>4, <2>5
  <1>24. /\ contents' \in [Vnodes \X Blocks -> Data \cup {None}] /\ "started" \in Labels /\ cpu' \in {None, p}
         /\ UNCHANGED <<lru, bufneeded, VBWAIT, wchan, disk>> /\ pc[p] # "started"
         /\ hashed' = hashed /\ b \in io'
    BY <1>0, <1>2 DEF TypeOK, Labels
  <1> QED
    BY <1>0, <1>2, <1>3, <1>8, <1>9, <1>10, <1>13, <1>14, <1>15, <1>16, <1>18, <1>19, <1>21, <1>22,
       <1>23, <1>24, WorkInv

(* What bwrite does after it has started the transfer: the buffer goes to  *)
(* the clean list, if it was on the dirty one.                             *)
LEMMA MovedOK ==
    ASSUME Inv, NEW p \in Procs, bwrite_started(p), NEW b, b = op[p].bp
    PROVE  /\ b \in Bufs /\ Owners(b) \subseteq {p} /\ BufOK(b)' /\ ~Dirty(b)' /\ OutputCounted'
           /\ \A c \in Bufs : blk(c)' = blk(c) /\ buf'[c].vp = buf[c].vp /\ buf'[c].flags = buf[c].flags
           /\ \E r \in BufStates : /\ buf' = [buf EXCEPT ![b] = r] /\ r.flags = buf[b].flags
                                   /\ r # NoBuf <=> buf[b] # NoBuf
  <1>0. /\ CallOK(p) /\ HandOK(p) /\ op[p] \in OpStates /\ TypeOK /\ Runs(p) /\ OutputCounted
    BY RunsFacts DEF bwrite_started
  <1>1. /\ pc[p] = "started" /\ UNCHANGED <<hashed, io, v_numoutput>>
    BY DEF bwrite_started, vnode, device
  <1>2. b \in Bufs /\ Owners(b) \subseteq {p} /\ ~Is(b, "DELWRI") /\ cpu = p
    BY <1>0, <1>1 DEF HandOK, Writing, CallOK, Alone
  <1>3. BufOK(b) /\ DirtyOK(b) /\ buf[b] \in BufStates
    BY <1>2, InvBuf
  <1>4. CASE "DELWRI" \in op[p].oldstate /\ buf[b].vp # None
    <2>1. PICK v \in Vnodes : v = buf[b].vp
      BY <1>3, <1>4 DEF BufStates
    <2>2. PICK r : r = [buf[b] EXCEPT !.list = <<v, "clean">>]
      OBVIOUS
    <2>3. buf' = [buf EXCEPT ![b] = r]
      BY <1>2, <1>4, <2>1, <2>2 DEF bwrite_started, reassignbuf, Is
    <2>4. /\ r \in BufStates /\ r.flags = buf[b].flags /\ r.vp = v /\ r.lblkno = buf[b].lblkno
          /\ r.list = <<v, "clean">> /\ buf[b].vp = v
      BY <1>3, <2>1, <2>2 DEF BufStates
    <2>5. r.list[1] = v /\ r.list[2] = "clean" /\ r.list # None /\ v # None
      BY <2>4, BufAssumption
    <2>6. buf'[b] = r /\ \A c \in Bufs \ {b} : buf'[c] = buf[c]
      BY <1>0, <1>2, <2>3 DEF TypeOK
    <2>7. BufOK(b)' /\ ~Dirty(b)'
      BY <1>1, <1>2, <1>3, <2>4, <2>5, <2>6, SMTT(30) DEF BufOK, Dirty, Is, InUse, NoBuf
    <2>8. \A c \in Bufs : blk(c)' = blk(c) /\ buf'[c].vp = buf[c].vp /\ buf'[c].flags = buf[c].flags
      BY <2>4, <2>6 DEF blk
    <2>9. OutputCounted'
      BY <1>0, <1>1, <1>2, <2>6, <2>8, OutputSame DEF Outs, Is, TypeOK
    <2>10. r # NoBuf /\ buf[b] # NoBuf
      BY <2>4, <2>5, FreshOK
    <2> QED
      BY <1>2, <2>3, <2>4, <2>7, <2>8, <2>9, <2>10
  <1>5. CASE ~("DELWRI" \in op[p].oldstate /\ buf[b].vp # None)
    <2>1. buf' = buf
      BY <1>5 DEF bwrite_started
    <2>2. buf' = [buf EXCEPT ![b] = buf[b]]
      BY <1>0, <2>1 DEF TypeOK
    <2>3. ~Dirty(b)
      <3> SUFFICES ASSUME Dirty(b) PROVE FALSE
        OBVIOUS
      <3>1. PICK q \in Procs : pc[q] = "started" /\ op[q].bp = b /\ "DELWRI" \in op[q].oldstate
        BY <1>2, <1>3 DEF DirtyOK
      <3>2. cpu = q
        BY <3>1, InvProc DEF CallOK, Alone
      <3>3. buf[b].vp = None
        BY <1>2, <1>5, <3>1, <3>2
      <3> QED
        BY <1>3, <3>3 DEF BufOK, Dirty
    <2>4. BufOK(b)' /\ ~Dirty(b)'
      BY <1>1, <1>3, <2>1, <2>3 DEF BufOK, Dirty, Is, InUse
    <2>5. OutputCounted'
      BY <1>0, <1>1, <2>1 DEF OutputCounted, Is
    <2> QED
      BY <1>2, <1>3, <2>1, <2>2, <2>4, <2>5 DEF blk
  <1> QED
    BY <1>4, <1>5

LEMMA StartedInv ==
    ASSUME Inv, NEW p \in Procs, bwrite_started(p)
    PROVE  Inv'
  <1>0. /\ CallOK(p) /\ HandOK(p) /\ IdOK(p) /\ op[p] \in OpStates /\ TypeOK /\ Runs(p) /\ LruOK
        /\ wchan[p] = None /\ wchan = [wchan EXCEPT ![p] = None] /\ op = [op EXCEPT ![p] = op[p]]
    BY RunsFacts DEF bwrite_started
  <1>1. PICK b : b = op[p].bp
    OBVIOUS
  <1>2. /\ pc[p] = "started" /\ UNCHANGED <<hashed, lru, bufneeded, io, disk, contents, wchan>>
        /\ UNCHANGED <<v_numoutput, VBWAIT>>
    BY DEF bwrite_started, vnode, device
  <1>3. /\ b \in Bufs /\ Owners(b) \subseteq {p} /\ BufOK(b)' /\ ~Dirty(b)' /\ OutputCounted'
        /\ \A c \in Bufs : blk(c)' = blk(c) /\ buf'[c].vp = buf[c].vp /\ buf'[c].flags = buf[c].flags
    BY <1>1, MovedOK
  <1>4. PICK r \in BufStates : /\ buf' = [buf EXCEPT ![b] = r] /\ r.flags = buf[b].flags
                               /\ r # NoBuf <=> buf[b] # NoBuf
    BY <1>1, MovedOK
  <1>5. \A c \in Bufs : \A f : Is(c, f)' <=> Is(c, f)
    BY <1>3 DEF Is
  <1>6. p \in Owners(b) <=> Is(b, "BUSY") /\ ~(Is(b, "ASYNC") /\ b \in io)
    <2>1. OwnOK(b)
      BY <1>3, InvBuf
    <2> QED
      BY <1>3, <2>1 DEF OwnOK
  <1>7. ASSUME NEW l \in Labels, l \notin {"panic", "started"}, pc' = [pc EXCEPT ![p] = l],
               NEW o \in OpStates, op' = [op EXCEPT ![p] = o], cpu' \in {None, p},
               \A c \in Bufs : (p \in Owners(c))' <=> p \in Owners(c),
               CallOK(p)', HandOK(p)', IdOK(p)'
        PROVE  Inv'
    <2>1. wchan'[p] = None /\ wchan' = [wchan EXCEPT ![p] = None]
      BY <1>0, <1>2
    <2>2. SleepOK(p)'
      BY <2>1, BufAssumption DEF SleepOK
    <2>3. (p \in Owners(b) <=> Is(b, "BUSY") /\ ~(Is(b, "ASYNC") /\ b \in io))'
      BY <1>2, <1>3, <1>5, <1>6, <1>7
    <2>4. OnList(b, lru') <=> r # NoBuf /\ "BUSY" \notin r.flags
      <3>1. OnList(b, lru) <=> b \in InUse /\ ~Is(b, "BUSY")
        BY <1>3, InvBuf
      <3> QED
        BY <1>2, <1>3, <1>4, <3>1 DEF InUse, Is
    <2>5. (Dirty(b) /\ ~Is(b, "DELWRI"))' => l = "started" /\ o.bp = b /\ "DELWRI" \in o.oldstate
      BY <1>3
    <2>6. /\ disk' \in [Vnodes \X Blocks -> Data \cup {None}]
          /\ contents' \in [Vnodes \X Blocks -> Data \cup {None}]
          /\ v_numoutput' \in [Vnodes -> Int] /\ hashed' \subseteq Bufs /\ io' \subseteq Bufs
          /\ lru' \in Seq(Bufs) /\ Once(lru') /\ (lru = <<>> => lru' = <<>>)
      BY <1>0, <1>2 DEF TypeOK, LruOK
    <2>7. \A c \in Bufs \ {b} : /\ c \in io' <=> c \in io
                                /\ c \in hashed' <=> c \in hashed
                                /\ OnList(c, lru') <=> OnList(c, lru)
                                /\ (p \in Owners(c))' <=> p \in Owners(c)
      BY <1>2, <1>7
    <2>8. /\ Is(b, "BUSY") /\ Is(b, "WANTED") => {"BUSY", "WANTED"} \subseteq r.flags
          /\ pc[p] = "started" => op[p].bp = b
          /\ UNCHANGED <<bufneeded, VBWAIT>>
          /\ \A v \in Vnodes : v_numoutput[v] > 0 => v_numoutput'[v] > 0
      BY <1>1, <1>2, <1>4 DEF Is
    <2> QED
      BY <1>0, <1>3, <1>4, <1>7, <2>1, <2>2, <2>3, <2>4, <2>5, <2>6, <2>7, <2>8, QuietInv
  <1>8. CASE "ASYNC" \notin op[p].oldstate
    <2>1. pc' = [pc EXCEPT ![p] = "bwait"] /\ cpu' = p /\ op' = op
      BY <1>8 DEF bwrite_started, Goto
    <2>2. pc'[p] = "bwait" /\ op'[p] = op[p] /\ op' = [op EXCEPT ![p] = op[p]]
      BY <1>0, <2>1 DEF TypeOK
    <2>3. CallOK(p)'
      BY <1>0, <1>2, <1>8, <2>2 DEF CallOK, ForBlock, Alone, Getting, Writing, HandOK
    <2>4. HandOK(p)'
      BY <1>0, <1>1, <1>2, <1>3, <1>5, <1>8, <2>2 DEF HandOK, Writing, Transfer, CallOK, Getting
    <2>5. IdOK(p)'
      BY <1>0, <1>2, <1>8, <2>2 DEF IdOK, HandOK, CallOK, Getting
    <2>6. \A c \in Bufs : (p \in Owners(c))' <=> p \in Owners(c)
      BY <1>2, <1>8, <2>2 DEF Owners
    <2> QED
      BY <1>0, <1>7, <2>1, <2>2, <2>3, <2>4, <2>5, <2>6 DEF Labels
  <1>9. CASE "ASYNC" \in op[p].oldstate /\ op[p].ret = "idle"
    <2>1. pc' = [pc EXCEPT ![p] = "idle"] /\ cpu' = None /\ op' = [op EXCEPT ![p] = NoCall]
      BY <1>9 DEF bwrite_started, Written, Return, Yield
    <2>2. pc'[p] = "idle" /\ op'[p] = NoCall /\ wchan'[p] = None
      BY <1>0, <1>2, <2>1 DEF TypeOK
    <2>3. CallOK(p)' /\ HandOK(p)' /\ IdOK(p)' /\ \A c \in Bufs : ~(p \in Owners(c))'
      BY <2>2, IdleOK, BufAssumption
    <2>4. \A c \in Bufs : ~(p \in Owners(c))
      BY <1>0, <1>2, <1>9, BufAssumption DEF Owners, CallOK, Getting
    <2> QED
      BY <1>7, <2>1, <2>3, <2>4, NoCallOK DEF Labels
  <1>10. CASE "ASYNC" \in op[p].oldstate /\ op[p].ret # "idle"
    <2>1. pc' = [pc EXCEPT ![p] = op[p].ret] /\ cpu' = p
          /\ op' = [op EXCEPT ![p].ret = "idle", ![p].bp = None, ![p].oldstate = {}]
      BY <1>10 DEF bwrite_started, Written, Goto
    <2>2. PICK l \in {"recycle", "vflushbuf", "vinvalbuf"} : l = op[p].ret
      BY <1>0, <1>10 DEF OpStates
    <2>3. PICK o : o = [op[p] EXCEPT !.ret = "idle", !.bp = None, !.oldstate = {}]
      OBVIOUS
    <2>4. op' = [op EXCEPT ![p] = o]
      BY <2>1, <2>3
    <2>5. /\ o \in OpStates /\ o.ret = "idle" /\ o.bp = None /\ o.first = op[p].first
          /\ o.call = op[p].call /\ o.vn = op[p].vn /\ o.lbn = op[p].lbn /\ o.next = op[p].next
      BY <1>0, <2>3, ZenonT(30) DEF OpStates
    <2>6. pc'[p] = l /\ op'[p] = o
      BY <1>0, <2>1, <2>2, <2>4 DEF TypeOK
    <2>7. CallOK(p)'
      BY <1>0, <1>2, <2>1, <2>2, <2>5, <2>6 DEF CallOK, ForBlock, Alone, Getting, Writing
    <2>8. op[p].first # None => op[p].first \in Bufs
      BY <1>0 DEF OpStates
    <2>9. HandOK(p)'
      BY <1>0, <1>2, <1>5, <2>2, <2>5, <2>6, <2>8 DEF HandOK, Writing, Transfer
    <2>10. IdOK(p)'
      BY <1>0, <1>3, <2>2, <2>5, <2>6, <2>8 DEF IdOK
    <2>11. \A c \in Bufs : (p \in Owners(c))' <=> p \in Owners(c)
      BY <1>2, <1>10, <2>2, <2>5, <2>6 DEF Owners
    <2> QED
      BY <1>7, <2>1, <2>2, <2>4, <2>5, <2>7, <2>9, <2>10, <2>11 DEF Labels
  <1> QED
    BY <1>8, <1>9, <1>10

LEMMA VflushbufInv ==
    ASSUME Inv, NEW p \in Procs, vflushbuf(p)
    PROVE  Inv'
  <1>0. /\ CallOK(p) /\ HandOK(p) /\ IdOK(p) /\ op[p] \in OpStates /\ TypeOK /\ Runs(p)
        /\ cpu \in {None, p} /\ wchan[p] = None /\ wchan = [wchan EXCEPT ![p] = None]
        /\ op = [op EXCEPT ![p] = op[p]] /\ VBWAIT \in [Vnodes -> BOOLEAN] /\ bufneeded \in BOOLEAN
    BY RunsFacts DEF vflushbuf
  <1>1. /\ pc[p] = "vflushbuf"
        /\ UNCHANGED <<hashed, bufcachemem, bufneeded, io, disk, contents, wchan, v_numoutput, VBWAIT>>
    BY DEF vflushbuf, vnode, device
  <1>2. op[p].vn \in Vnodes /\ op[p].first = None
    BY <1>0, <1>1 DEF CallOK, Getting
  <1>3. ASSUME NEW b \in On(op[p].vn, "dirty"), ~Is(b, "BUSY"),
               IF ~Is(b, "DELWRI") THEN Panic(p) /\ UNCHANGED <<buf, lru>>
               ELSE /\ bremfree(b)
                    /\ buf' = [buf EXCEPT ![b].flags = @ \cup {"BUSY"} \cup
                          (IF buf[b].vp = op[p].vn \/ ~op[p].flag THEN {"ASYNC"} ELSE {})]
                    /\ op' = [op EXCEPT ![p].bp = b, ![p].ret = "vflushbuf"]
                    /\ Goto(p, "bwrite")
        PROVE  Inv'
    <2>1. b \in Bufs /\ Dirty(b)
      BY <1>2, <1>3, OnOK DEF Dirty
    <2>2. Is(b, "DELWRI") /\ buf[b] \in BufStates
      BY <1>0, <1>1, <2>1, DirtyHas, InvBuf
    <2>3. PICK S \in {{}, {"ASYNC"}} :
             S = IF buf[b].vp = op[p].vn \/ ~op[p].flag THEN {"ASYNC"} ELSE {}
      OBVIOUS
    <2>4. PICK r : r = [buf[b] EXCEPT !.flags = buf[b].flags \cup {"BUSY"} \cup S]
      OBVIOUS
    <2>5. PICK o : o = [op[p] EXCEPT !.bp = b, !.ret = "vflushbuf"]
      OBVIOUS
    <2>6. /\ r \in BufStates /\ r.vp = buf[b].vp /\ r.lblkno = buf[b].lblkno /\ r.list = buf[b].list
          /\ r.flags = buf[b].flags \cup {"BUSY"} \cup S
      BY <2>2, <2>4 DEF BufStates, Flags
    <2>7. \A f \in Flags \ {"ASYNC", "AGE"} : f \in r.flags <=> f = "BUSY" \/ Is(b, f)
      BY <2>6 DEF Is
    <2>8. /\ o \in OpStates /\ o.bp = b /\ o.first = op[p].first /\ o.ret = "vflushbuf"
          /\ o.call = op[p].call /\ o.vn = op[p].vn /\ o.lbn = op[p].lbn /\ o.next = op[p].next
      BY <1>0, <2>1, <2>5, ZenonT(30) DEF OpStates
    <2>9. buf' = [buf EXCEPT ![b] = r]
      BY <1>3, <2>2, <2>3, <2>4
    <2>10. op' = [op EXCEPT ![p] = o]
      BY <1>3, <2>2, <2>5
    <2>11. /\ lru' = Removed(b, lru) /\ pc' = [pc EXCEPT ![p] = "bwrite"] /\ cpu' = p
           /\ UNCHANGED <<hashed, bufneeded, v_numoutput, VBWAIT, io, disk, contents, wchan>>
      BY <1>1, <1>3, <2>2 DEF bremfree, Goto
    <2>12. /\ lru' \in Seq(Bufs) /\ Once(lru') /\ ~OnList(b, lru') /\ (lru = <<>> => lru' = <<>>)
           /\ \A c \in Bufs \ {b} : OnList(c, lru') <=> OnList(c, lru)
      BY <2>1, <2>11, TakenOK
    <2> QED
      BY <1>0, <1>1, <1>3, <2>1, <2>2, <2>6, <2>7, <2>8, <2>9, <2>10, <2>11, <2>12, WriteTakeInv
  <1>4. CASE Goto(p, "drain") /\ UNCHANGED <<op, buf, lru>>
    <2>1. /\ pc' = [pc EXCEPT ![p] = "drain"] /\ cpu' = p
      BY <1>4 DEF Goto
    <2>2. op'[p] = op[p] /\ pc'[p] = "drain" /\ wchan'[p] = None
      BY <1>0, <1>1, <1>4, <2>1 DEF TypeOK
    <2>3. CallOK(p)' /\ HandOK(p)' /\ IdOK(p)'
      BY <1>0, <1>1, <1>2, <1>4, <2>1, <2>2
         DEF CallOK, HandOK, IdOK, ForBlock, Alone, Getting, Writing
    <2>4. SleepOK(p)'
      BY <2>2, BufAssumption DEF SleepOK
    <2>5. \A c \in Bufs : (p \in Owners(c))' <=> p \in Owners(c)
      BY <1>0, <1>1, <2>2 DEF Owners
    <2> QED
      BY <1>0, <1>1, <1>4, <2>1, <2>3, <2>4, <2>5, PlainInv DEF Labels
  <1>5. CASE Return(p) /\ UNCHANGED <<buf, lru>>
    <2>1. /\ pc' = [pc EXCEPT ![p] = "idle"] /\ cpu' = None /\ op' = [op EXCEPT ![p] = NoCall]
      BY <1>5 DEF Return, Yield
    <2>2. op'[p] = NoCall /\ pc'[p] = "idle" /\ wchan'[p] = None
      BY <1>0, <1>1, <2>1 DEF TypeOK
    <2>3. CallOK(p)' /\ HandOK(p)' /\ IdOK(p)' /\ SleepOK(p)' /\ \A c \in Bufs : ~(p \in Owners(c))'
      BY <2>2, IdleOK, BufAssumption
    <2>4. \A c \in Bufs : ~(p \in Owners(c))
      BY <1>0, <1>1, <1>2, BufAssumption DEF Owners
    <2> QED
      BY <1>0, <1>1, <1>5, <2>1, <2>3, <2>4, NoCallOK, PlainInv DEF Labels
  <1> QED
    BY <1>3, <1>4, <1>5 DEF vflushbuf

-----------------------------------------------------------------------------
(* What brelse does to a buffer.                                           *)
LEMMA FreedOK ==
    ASSUME NEW r \in BufStates
    PROVE  /\ Freed(r) \in BufStates /\ Freed(r).lblkno = r.lblkno
           /\ \A f \in Flags : f \in Freed(r).flags <=>
                 IF f \in {"ASYNC", "BUSY", "WANTED"} THEN FALSE
                 ELSE IF f = "DELWRI" THEN f \in r.flags /\ ~Bad(r)
                 ELSE IF f = "INVAL" THEN Bad(r)
                 ELSE f \in r.flags
           /\ Bad(r) <=> "ERROR" \in r.flags \/ "INVAL" \in r.flags
           /\ Freed(r).vp = IF Bad(r) THEN None ELSE r.vp
           /\ Freed(r).list = IF Bad(r) THEN None ELSE r.list
  <1>0. Bad(r) <=> "ERROR" \in r.flags \/ "INVAL" \in r.flags
    BY DEF Bad
  <1>1. CASE Bad(r)
    <2>1. PICK F : F = (((r.flags \cup {"INVAL"}) \ {"DELWRI"}) \ {"ASYNC", "BUSY", "WANTED"})
      OBVIOUS
    <2>2. F \in SUBSET Flags
      BY <2>1 DEF BufStates, Flags
    <2>3. Freed(r) = [flags |-> F, vp |-> None, lblkno |-> r.lblkno, data |-> r.data, list |-> None]
      <3>1. PICK s : s = [r EXCEPT !.flags = (@ \cup {"INVAL"}) \ {"DELWRI"}]
        OBVIOUS
      <3>2. s = [flags |-> (r.flags \cup {"INVAL"}) \ {"DELWRI"}, vp |-> r.vp,
                 lblkno |-> r.lblkno, data |-> r.data, list |-> r.list]
        BY <3>1 DEF BufStates
      <3>3. PICK t : t = brelvp(s)
        OBVIOUS
      <3>4. t = [flags |-> (r.flags \cup {"INVAL"}) \ {"DELWRI"}, vp |-> None,
                 lblkno |-> r.lblkno, data |-> r.data, list |-> None]
        BY <3>2, <3>3 DEF brelvp
      <3>5. Freed(r) = [t EXCEPT !.flags = @ \ {"ASYNC", "BUSY", "WANTED"}]
        BY <1>1, <3>1, <3>3 DEF Freed
      <3> QED
        BY <2>1, <3>4, <3>5
    <2>4. /\ Freed(r) \in BufStates /\ Freed(r).lblkno = r.lblkno /\ Freed(r).flags = F
          /\ Freed(r).vp = None /\ Freed(r).list = None
      BY <2>2, <2>3 DEF BufStates
    <2> QED
      BY <1>0, <1>1, <2>1, <2>4 DEF Flags
  <1>2. CASE ~Bad(r)
    <2>1. PICK F : F = r.flags \ {"ASYNC", "BUSY", "WANTED"}
      OBVIOUS
    <2>2. F \in SUBSET Flags
      BY <2>1 DEF BufStates, Flags
    <2>3. Freed(r) = [flags |-> F, vp |-> r.vp, lblkno |-> r.lblkno, data |-> r.data, list |-> r.list]
      BY <1>2, <2>1 DEF Freed, BufStates
    <2>4. /\ Freed(r) \in BufStates /\ Freed(r).lblkno = r.lblkno /\ Freed(r).flags = F
          /\ Freed(r).vp = r.vp /\ Freed(r).list = r.list
      BY <2>2, <2>3 DEF BufStates
    <2> QED
      BY <1>0, <1>2, <2>1, <2>4 DEF Flags
  <1> QED
    BY <1>1, <1>2

(* A buffer that can be found by its block, with its vnode and the list    *)
(* that its flags call for.                                                *)
Whole(r) ==
    /\ r.vp # None /\ r.lblkno # None /\ r.list # None /\ r.list[1] = r.vp
    /\ "DELWRI" \in r.flags <=> r.list[2] = "dirty"
    /\ "DELWRI" \in r.flags => "DONE" \in r.flags
LEMMA FreedBuf ==
    ASSUME NEW b \in Bufs, NEW r \in BufStates, buf'[b] = Freed(r), ~(b \in io)',
           Bad(r) \/ (Whole(r) /\ b \in hashed')
    PROVE  /\ BufOK(b)' /\ ~(Dirty(b) /\ ~Is(b, "DELWRI"))' /\ ~Is(b, "BUSY")' /\ b \in InUse'
  <1>1. /\ \A f \in Flags : Is(b, f)' <=>
                 IF f \in {"ASYNC", "BUSY", "WANTED"} THEN FALSE
                 ELSE IF f = "DELWRI" THEN f \in r.flags /\ ~Bad(r)
                 ELSE IF f = "INVAL" THEN Bad(r)
                 ELSE f \in r.flags
        /\ Bad(r) <=> "ERROR" \in r.flags \/ "INVAL" \in r.flags
        /\ buf'[b].vp = IF Bad(r) THEN None ELSE r.vp
        /\ buf'[b].list = IF Bad(r) THEN None ELSE r.list
        /\ buf'[b].lblkno = r.lblkno
    BY FreedOK DEF Is
  <1>2. CASE Bad(r)
    <2>1. /\ Is(b, "INVAL")' /\ ~Is(b, "DELWRI")' /\ ~Is(b, "BUSY")' /\ ~Is(b, "ASYNC")'
          /\ ~Is(b, "WANTED")' /\ buf'[b].vp = None /\ buf'[b].list = None
      BY <1>1, <1>2 DEF Flags
    <2>2. b \in InUse'
      BY <2>1, FreshOK DEF InUse, Is
    <2> QED
      BY <2>1, <2>2 DEF BufOK, Dirty
  <1>3. CASE ~Bad(r)
    <2>1. /\ ~Is(b, "INVAL")' /\ ~Is(b, "ERROR")' /\ (Is(b, "DELWRI")' <=> "DELWRI" \in r.flags)
          /\ (Is(b, "DONE")' <=> "DONE" \in r.flags) /\ ~Is(b, "BUSY")' /\ ~Is(b, "ASYNC")'
          /\ ~Is(b, "WANTED")' /\ buf'[b].vp = r.vp /\ buf'[b].list = r.list
      BY <1>1, <1>3 DEF Flags
    <2>2. b \in InUse'
      BY <1>3, <2>1, FreshOK DEF InUse, Whole
    <2> QED
      BY <1>1, <1>3, <2>1, <2>2 DEF BufOK, Dirty, Whole
  <1> QED
    BY <1>2, <1>3

(* p releases a buffer, and goes on.                                       *)
LEMMA ReleaseInv ==
    ASSUME Inv, NEW p \in Procs, Runs(p), cpu' \in {None, p}, pc[p] # "started",
           NEW b \in Bufs, Owners(b) \subseteq {p}, b \notin io,
           NEW r \in BufStates, Bad(r) \/ (Whole(r) /\ b \in hashed),
           Is(b, "WANTED") => "WANTED" \in r.flags,
           NEW m \in Seq(Bufs), Once(m), ~OnList(b, m),
           \A c \in Bufs \ {b} : OnList(c, m) <=> OnList(c, lru),
           brelse(b, r, m, {}),
           UNCHANGED <<hashed, v_numoutput, VBWAIT, io, disk>>,
           contents' \in [Vnodes \X Blocks -> Data \cup {None}],
           NEW l \in Labels, pc' = [pc EXCEPT ![p] = l], l # "panic",
           NEW o \in OpStates, op' = [op EXCEPT ![p] = o],
           \A c \in Bufs \ {b} : (p \in Owners(c))' <=> p \in Owners(c),
           ~(p \in Owners(b))', CallOK(p)', HandOK(p)', IdOK(p)'
    PROVE  Inv'
  <1>0. /\ TypeOK /\ LruOK /\ wchan[p] = None /\ cpu \in {None, p}
    BY RunsFacts
  <1>1. /\ buf' = [buf EXCEPT ![b] = Freed(r)] /\ bufneeded' = FALSE
        /\ lru' = <<b>> \o m \/ lru' = Append(m, b)
    BY DEF brelse
  <1>2. PICK chans : /\ wchan' = [q \in Procs |-> IF wchan[q] \in chans THEN None ELSE wchan[q]]
                     /\ "WANTED" \in r.flags => b \in chans
                     /\ bufneeded => "bufneeded" \in chans
    <2>1. PICK C : C = {} \cup (IF "WANTED" \in r.flags THEN {b} ELSE {})
                          \cup (IF bufneeded THEN {"bufneeded"} ELSE {})
      OBVIOUS
    <2>2. wchan' = [q \in Procs |-> IF wchan[q] \in C THEN None ELSE wchan[q]]
      BY <2>1 DEF brelse, wakeup
    <2>3. ("WANTED" \in r.flags => b \in C) /\ (bufneeded => "bufneeded" \in C)
      BY <2>1
    <2> QED
      BY <2>2, <2>3
  <1>3. lru' \in Seq(Bufs) /\ Once(lru') /\ \A c \in Bufs : OnList(c, lru') <=> c = b \/ OnList(c, m)
    BY <1>1, AddedOK
  <1>4. Freed(r) \in BufStates
    BY FreedOK
  <1>5. /\ buf'[b] = Freed(r) /\ \A c \in Bufs \ {b} : buf'[c] = buf[c]
        /\ pc'[p] = l /\ op'[p] = o
        /\ \A q \in Procs \ {p} : pc'[q] = pc[q] /\ op'[q] = op[q]
        /\ \A q \in Procs : wchan'[q] \in {wchan[q], None}
    BY <1>0, <1>1, <1>2 DEF TypeOK
  <1>6. TypeOK'
    <2>1. wchan' \in [Procs -> Bufs \cup Vnodes \cup {"bufneeded", None}]
      BY <1>0, <1>2 DEF TypeOK
    <2>2. buf' \in [Bufs -> BufStates]
      BY <1>0, <1>1, <1>4 DEF TypeOK
    <2> QED
      BY <1>0, <1>1, <1>3, <2>1, <2>2 DEF TypeOK
  <1>7. BufOK(b)' /\ ~(Dirty(b) /\ ~Is(b, "DELWRI"))' /\ ~Is(b, "BUSY")' /\ b \in InUse'
    BY <1>5, FreedBuf
  <1>8. OutputCounted'
    BY <1>0, <1>5, OutputSame DEF Outs, TypeOK
  <1>9. ASSUME NEW q \in Procs \ {p} PROVE SleepOK(q)'
    <2>0. SleepOK(q) /\ wchan'[q] \in {wchan[q], None}
      BY <1>5, InvProc
    <2>1. CASE wchan'[q] = None
      BY <2>1, BufAssumption DEF SleepOK
    <2>2. CASE wchan'[q] = wchan[q] /\ wchan[q] # None
      <3>1. wchan[q] \notin chans
        BY <1>2, <2>2, BufAssumption
      <3>2. wchan[q] # "bufneeded" /\ wchan[q] # b
        BY <1>2, <2>0, <3>1 DEF SleepOK
      <3> QED
        BY <1>5, <2>0, <2>2, <3>2 DEF SleepOK, Is
    <2> QED
      BY <2>0, <2>1, <2>2
  <1>10. SleepOK(p)'
    BY <1>0, <1>5, BufAssumption DEF SleepOK
  <1>11. /\ \A c \in Bufs \ {b} : /\ buf'[c] = buf[c] /\ (c \in io' <=> c \in io)
                                  /\ c \in hashed' <=> c \in hashed
                                  /\ OnList(c, lru') <=> OnList(c, lru)
                                  /\ (p \in Owners(c))' <=> p \in Owners(c)
         /\ \A q \in Procs \ {p} : pc'[q] = pc[q] /\ op'[q] = op[q] /\ SleepOK(q)'
         /\ pc'[p] # "panic"
    BY <1>3, <1>5, <1>9
  <1>12. /\ (p \in Owners(b) <=> Is(b, "BUSY") /\ ~(Is(b, "ASYNC") /\ b \in io))'
         /\ OnList(b, lru') <=> (b \in InUse /\ ~Is(b, "BUSY"))'
         /\ (Dirty(b) /\ ~Is(b, "DELWRI"))' =>
               pc'[p] = "started" /\ op'[p].bp = b /\ "DELWRI" \in op'[p].oldstate
    BY <1>3, <1>7
  <1> QED
    BY <1>0, <1>3, <1>6, <1>7, <1>8, <1>10, <1>11, <1>12, StepInv

LEMMA WholeOK ==
    ASSUME Inv, NEW p \in Procs, Runs(p), pc[p] # "started", NEW b \in Bufs, buf[b].vp # None,
           Is(b, "DELWRI") => Is(b, "DONE")
    PROVE  Whole(buf[b]) /\ b \in hashed
  BY InvBuf, DirtyHas DEF BufOK, Whole, Dirty, Is

(* The LRU list without the buffer that p owns.                            *)
LEMMA OwnedList ==
    ASSUME Inv, NEW p \in Procs, NEW b \in Bufs, p \in Owners(b)
    PROVE  lru \in Seq(Bufs) /\ Once(lru) /\ ~OnList(b, lru) /\ Owners(b) \subseteq {p}
  BY SoleOwner DEF Inv, TypeOK, LruOK

LEMMA ReleasedInv ==
    ASSUME Inv, NEW p \in Procs, release(p)
    PROVE  Inv'
  <1>0. /\ CallOK(p) /\ HandOK(p) /\ IdOK(p) /\ op[p] \in OpStates /\ TypeOK /\ Runs(p)
    BY RunsFacts DEF release, Holder
  <1>1. PICK b : b = op[p].bp
    OBVIOUS
  <1>2. /\ pc[p] = "hold" /\ brelse(b, buf[b], lru, {}) /\ pc' = [pc EXCEPT ![p] = "idle"]
        /\ cpu' = None /\ op' = [op EXCEPT ![p] = NoCall]
        /\ UNCHANGED <<hashed, v_numoutput, VBWAIT, io, disk, contents>>
    BY <1>1 DEF release, Holder, Return, Yield, vnode, device
  <1>3. /\ b \in Bufs /\ p \in Owners(b) /\ b \notin io /\ op[p].first = None
        /\ Is(b, "DELWRI") => Is(b, "DONE")
    BY <1>0, <1>1, <1>2 DEF HandOK, CallOK, Owners, Getting
  <1>4. buf[b] \in BufStates
    BY <1>3, InvBuf
  <1>5. Bad(buf[b]) \/ (Whole(buf[b]) /\ b \in hashed)
    <2>1. CASE op[p].call = "geteblk"
      BY <1>0, <1>1, <1>2, <2>1 DEF HandOK, Is, Bad
    <2>2. CASE op[p].call # "geteblk"
      <3>1. buf[b].vp # None
        BY <1>0, <1>1, <1>2, <2>2, BufAssumption DEF IdOK, CallOK, blk
      <3> QED
        BY <1>0, <1>2, <1>3, <3>1, WholeOK
    <2> QED
      BY <2>1, <2>2
  <1>6. wchan[p] = None /\ wchan'[p] = None /\ pc'[p] = "idle" /\ op'[p] = NoCall
    BY <1>0, <1>2, RunsFacts DEF brelse, wakeup, TypeOK
  <1>7. CallOK(p)' /\ HandOK(p)' /\ IdOK(p)' /\ \A c \in Bufs : ~(p \in Owners(c))'
    BY <1>6, IdleOK, BufAssumption
  <1>8. \A c \in Bufs \ {b} : ~(p \in Owners(c))
    BY <1>1, <1>2, <1>3, BufAssumption DEF Owners
  <1>9. /\ contents' \in [Vnodes \X Blocks -> Data \cup {None}] /\ "idle" \in Labels /\ cpu' \in {None, p}
        /\ NoCall \in OpStates /\ (Is(b, "WANTED") => "WANTED" \in buf[b].flags)
        /\ pc[p] # "started" /\ ~(p \in Owners(b))'
        /\ \A c \in Bufs \ {b} : (p \in Owners(c))' <=> p \in Owners(c)
        /\ UNCHANGED <<hashed, v_numoutput, VBWAIT, io, disk>>
    BY <1>0, <1>2, <1>3, <1>7, <1>8, NoCallOK DEF TypeOK, Labels, Is
  <1>10. lru \in Seq(Bufs) /\ Once(lru) /\ ~OnList(b, lru) /\ Owners(b) \subseteq {p}
    BY <1>3, OwnedList
  <1> QED
    BY <1>0, <1>2, <1>3, <1>4, <1>5, <1>7, <1>9, <1>10, ReleaseInv

LEMMA BdwriteInv ==
    ASSUME Inv, NEW p \in Procs, bdwrite(p)
    PROVE  Inv'
  <1>0. /\ CallOK(p) /\ HandOK(p) /\ IdOK(p) /\ op[p] \in OpStates /\ TypeOK /\ Runs(p)
    BY RunsFacts DEF bdwrite, Usable, Holder
  <1>1. PICK b : b = op[p].bp
    OBVIOUS
  <1>2. /\ Usable(p) /\ pc[p] = "hold" /\ ~Is(b, "ERROR") /\ op[p].call # "geteblk"
        /\ UNCHANGED <<hashed, vnode, io, disk>> /\ UNCHANGED <<v_numoutput, VBWAIT>>
    BY <1>1 DEF bdwrite, Usable, Holder, vnode
  <1>3. /\ b \in Bufs /\ p \in Owners(b) /\ b \notin io /\ op[p].first = None
        /\ op[p].vn \in Vnodes /\ op[p].lbn \in Blocks
    BY <1>0, <1>1, <1>2 DEF HandOK, CallOK, ForBlock, Owners, Getting
  <1>4. /\ buf[b].vp = op[p].vn /\ buf[b].lblkno = op[p].lbn /\ buf[b] \in BufStates /\ BufOK(b)
        /\ buf[b].vp # None /\ b \in hashed
    <2>1. blk(b) = <<op[p].vn, op[p].lbn>>
      BY <1>0, <1>1, <1>2 DEF IdOK
    <2> QED
      BY <1>3, <2>1, InvBuf, BufAssumption DEF blk, BufOK
  <1>5. PICK v \in Vnodes : v = buf[b].vp
    BY <1>3, <1>4
  <1>6. PICK d \in Data :
          LET r == [buf[b] EXCEPT !.data = d, !.flags = @ \cup {"DELWRI"}]
              s == IF Is(b, "DELWRI") THEN r ELSE reassignbuf(r, r.vp)
          IN  /\ Modify(b, d)
              /\ IF s.vp \in Tapes
                 THEN /\ buf' = [buf EXCEPT ![b] = [s EXCEPT !.flags = @ \cup {"ASYNC"}]]
                      /\ Goto(p, "bwrite") /\ UNCHANGED <<lru, bufneeded, wchan, op>>
                 ELSE brelse(b, [s EXCEPT !.flags = @ \cup {"DONE"}], lru, {}) /\ Return(p)
    BY <1>1, ZenonT(30) DEF bdwrite
  <1>7. PICK r : r = [buf[b] EXCEPT !.data = d, !.flags = @ \cup {"DELWRI"}]
    OBVIOUS
  <1>8. /\ r \in BufStates /\ r.vp = v /\ r.lblkno = buf[b].lblkno /\ r.list = buf[b].list
        /\ r.flags = buf[b].flags \cup {"DELWRI"}
    BY <1>4, <1>5, <1>7 DEF BufStates, Flags
  <1>9. PICK s : s = IF Is(b, "DELWRI") THEN r ELSE reassignbuf(r, r.vp)
    OBVIOUS
  <1>10. /\ s \in BufStates /\ s.vp = v /\ s.lblkno = buf[b].lblkno /\ s.list = <<v, "dirty">>
         /\ s.flags = buf[b].flags \cup {"DELWRI"}
    <2>1. CASE Is(b, "DELWRI")
      <3>1. buf[b].list # None /\ buf[b].list[1] = v /\ buf[b].list[2] = "dirty"
        BY <1>4, <1>5, <2>1 DEF BufOK, Dirty
      <3>2. buf[b].list = <<v, "dirty">>
        BY <1>4, <3>1 DEF BufStates
      <3> QED
        BY <1>8, <1>9, <2>1, <3>2
    <2>2. CASE ~Is(b, "DELWRI")
      <3>1. "DELWRI" \in r.flags
        BY <1>8
      <3>2. s = [r EXCEPT !.list = <<v, "dirty">>]
        BY <1>8, <1>9, <2>2, <3>1 DEF reassignbuf
      <3> QED
        BY <1>8, <3>2 DEF BufStates
    <2> QED
      BY <2>1, <2>2
  <1>11. Modify(b, d)
    BY <1>6
  <1>12. CASE s.vp \in Tapes
    <2>1. PICK t : t = [s EXCEPT !.flags = @ \cup {"ASYNC"}]
      OBVIOUS
    <2>2. /\ t \in BufStates /\ t.vp = buf[b].vp /\ t.lblkno = buf[b].lblkno
          /\ t.list = <<buf[b].vp, "dirty">> /\ t.flags = buf[b].flags \cup {"DELWRI", "ASYNC"}
      BY <1>5, <1>10, <2>1 DEF BufStates, Flags
    <2>3. /\ buf' = [buf EXCEPT ![b] = t] /\ Goto(p, "bwrite")
          /\ UNCHANGED <<lru, bufneeded, wchan, op>>
      BY <1>6, <1>7, <1>9, <1>12, <2>1
    <2>4. /\ \A f \in Flags \ {"ASYNC", "DELWRI"} : f \in t.flags <=> Is(b, f)
          /\ "DELWRI" \in t.flags
      BY <2>2 DEF Is
    <2>5. UNCHANGED <<hashed, lru, bufneeded, vnode, io, disk, op, wchan>>
      BY <1>2, <2>3
    <2> QED
      BY <1>1, <1>2, <1>11, <2>2, <2>3, <2>4, <2>5, ToBwriteInv
  <1>13. CASE s.vp \notin Tapes
    <2>1. PICK t : t = [s EXCEPT !.flags = @ \cup {"DONE"}]
      OBVIOUS
    <2>2. /\ t \in BufStates /\ t.vp = v /\ t.lblkno = op[p].lbn
          /\ t.list = <<v, "dirty">> /\ t.flags = buf[b].flags \cup {"DELWRI", "DONE"}
      BY <1>4, <1>10, <2>1 DEF BufStates, Flags
    <2>3. brelse(b, t, lru, {}) /\ Return(p)
      BY <1>6, <1>7, <1>9, <1>13, <2>1
    <2>4. Whole(t) /\ (Is(b, "WANTED") => "WANTED" \in t.flags)
      <3>1. t.list # None /\ t.list[1] = v /\ t.list[2] = "dirty" /\ t.lblkno # None /\ v # None
        BY <1>3, <2>2, BufAssumption
      <3> QED
        BY <2>2, <3>1 DEF Whole, Is
    <2>5. /\ pc' = [pc EXCEPT ![p] = "idle"] /\ cpu' = None /\ op' = [op EXCEPT ![p] = NoCall]
      BY <2>3 DEF Return, Yield
    <2>6. wchan[p] = None /\ wchan'[p] = None /\ pc'[p] = "idle" /\ op'[p] = NoCall
      BY <1>0, <2>3, <2>5, RunsFacts DEF brelse, wakeup, TypeOK
    <2>7. CallOK(p)' /\ HandOK(p)' /\ IdOK(p)' /\ \A c \in Bufs : ~(p \in Owners(c))'
      BY <2>6, IdleOK, BufAssumption
    <2>8. \A c \in Bufs \ {b} : ~(p \in Owners(c))
      BY <1>1, <1>2, <1>3, BufAssumption DEF Owners
    <2>9. contents' \in [Vnodes \X Blocks -> Data \cup {None}]
      BY <1>0, <1>3, <1>4, <1>11 DEF Modify, TypeOK, blk
    <2>10. /\ "idle" \in Labels /\ cpu' \in {None, p} /\ NoCall \in OpStates
           /\ pc[p] # "started" /\ ~(p \in Owners(b))'
           /\ \A c \in Bufs \ {b} : (p \in Owners(c))' <=> p \in Owners(c)
           /\ UNCHANGED <<hashed, v_numoutput, VBWAIT, io, disk>>
      BY <1>2, <1>3, <2>5, <2>7, <2>8, NoCallOK DEF Labels
    <2>11. lru \in Seq(Bufs) /\ Once(lru) /\ ~OnList(b, lru) /\ Owners(b) \subseteq {p}
      BY <1>3, OwnedList
    <2> QED
      BY <1>0, <1>3, <1>4, <2>2, <2>3, <2>4, <2>5, <2>7, <2>9, <2>10, <2>11, ReleaseInv
  <1> QED
    BY <1>12, <1>13

LEMMA ReadAheadKeptInv ==
    ASSUME Inv, NEW p \in Procs, breada_next(p), filled(op[p].bp)
    PROVE  Inv'
  <1>0. /\ CallOK(p) /\ HandOK(p) /\ IdOK(p) /\ op[p] \in OpStates /\ TypeOK /\ Runs(p)
    BY RunsFacts DEF breada_next
  <1>1. /\ pc[p] = "got" /\ op[p].call = "breada" /\ op[p].first # None /\ cpu' = p
        /\ pc' = [pc EXCEPT ![p] = "biowait"]
        /\ UNCHANGED <<hashed, disk, contents, v_numoutput, VBWAIT>>
    BY DEF breada_next, vnode, Goto
  <1>2. PICK b : b = op[p].bp
    OBVIOUS
  <1>3. PICK a : a = op[p].first
    OBVIOUS
  <1>4. PICK o : o = [op[p] EXCEPT !.bp = a, !.first = None, !.lbn = op[p].next, !.next = None]
    OBVIOUS
  <1>5. /\ b \in Bufs /\ a \in Bufs /\ a # b /\ op[p].next \in Blocks /\ op[p].vn \in Vnodes
        /\ p \in Owners(b) /\ p \in Owners(a) /\ BufOK(a)
        /\ Transfer(a) /\ blk(a) = <<op[p].vn, op[p].next>>
    BY <1>0, <1>1, <1>2, <1>3, InvBuf DEF HandOK, CallOK, IdOK, Getting, Owners, OpStates
  <1>6. /\ o \in OpStates /\ o.first = None /\ o.bp = a /\ o.lbn = op[p].next
        /\ o.vn = op[p].vn /\ o.call = "breada" /\ o.ret = op[p].ret
    BY <1>0, <1>1, <1>4, <1>5 DEF OpStates
  <1>7. op' = [op EXCEPT ![p] = o]
    BY <1>3, <1>4 DEF breada_next
  <1>8. op'[p] = o /\ pc'[p] = "biowait"
    BY <1>0, <1>1, <1>7 DEF TypeOK
  <1>9. brelse(b, buf[b], lru, {}) /\ io' = io
    BY <1>2 DEF breada_next
  <1>10. /\ \A c \in Bufs \ {b} : buf'[c] = buf[c]
    BY <1>0, <1>9 DEF brelse, TypeOK
  <1>11. /\ b \notin io /\ buf[b] \in BufStates /\ Whole(buf[b]) /\ b \in hashed
    <2>1. /\ b \notin io /\ (Is(b, "DELWRI") => Is(b, "DONE"))
      BY <1>0, <1>1, <1>2 DEF HandOK
    <2>2. buf[b].vp # None
      BY <1>0, <1>1, <1>2, <1>5, BufAssumption DEF IdOK, blk
    <2> QED
      BY <1>0, <1>1, <1>5, <2>1, <2>2, InvBuf, WholeOK
  <1>12. CallOK(p)'
    BY <1>0, <1>1, <1>5, <1>6, <1>8 DEF CallOK, ForBlock, Alone, Getting, Writing
  <1>13. HandOK(p)'
    <2>1. Transfer(a)' /\ (Is(a, "DELWRI")' => Is(a, "DONE")')
      BY <1>5, <1>9, <1>10 DEF Transfer, BufOK, Is
    <2> QED
      BY <1>5, <1>6, <1>8, <2>1 DEF HandOK, Writing
  <1>14. IdOK(p)'
    BY <1>5, <1>6, <1>8, <1>10 DEF IdOK, blk
  <1>15. ~(p \in Owners(b))' /\ \A c \in Bufs \ {b} : (p \in Owners(c))' <=> p \in Owners(c)
    BY <1>1, <1>2, <1>3, <1>5, <1>6, <1>8, BufAssumption DEF Owners
  <1>16. /\ contents' \in [Vnodes \X Blocks -> Data \cup {None}] /\ "biowait" \in Labels /\ cpu' \in {None, p}
         /\ (Is(b, "WANTED") => "WANTED" \in buf[b].flags) /\ pc[p] # "started"
         /\ UNCHANGED <<hashed, v_numoutput, VBWAIT, io, disk>>
    BY <1>0, <1>1, <1>9 DEF TypeOK, Labels, Is
  <1>17. lru \in Seq(Bufs) /\ Once(lru) /\ ~OnList(b, lru) /\ Owners(b) \subseteq {p}
    BY <1>5, OwnedList
  <1> QED
    BY <1>0, <1>1, <1>5, <1>6, <1>7, <1>9, <1>11, <1>12, <1>13, <1>14, <1>15, <1>16, <1>17, ReleaseInv

LEMMA BwaitInv ==
    ASSUME Inv, NEW p \in Procs, bwrite_wait(p)
    PROVE  Inv'
  <1>0. /\ CallOK(p) /\ HandOK(p) /\ IdOK(p) /\ op[p] \in OpStates /\ TypeOK /\ Runs(p)
        /\ cpu \in {None, p} /\ wchan[p] = None /\ wchan = [wchan EXCEPT ![p] = None]
        /\ op = [op EXCEPT ![p] = op[p]] /\ VBWAIT \in [Vnodes -> BOOLEAN] /\ bufneeded \in BOOLEAN
    BY RunsFacts DEF bwrite_wait
  <1>1. PICK b : b = op[p].bp
    OBVIOUS
  <1>2. /\ pc[p] = "bwait" /\ UNCHANGED <<hashed, bufcachemem, v_numoutput, VBWAIT, io, disk, contents>>
    BY DEF bwrite_wait, vnode, device
  <1>3. /\ b \in Bufs /\ p \in Owners(b) /\ Transfer(b) /\ op[p].first = None
        /\ ~Is(b, "DELWRI") /\ buf[b].vp # None /\ op[p].ret # "recycle"
    BY <1>0, <1>1, <1>2 DEF HandOK, CallOK, Owners, Getting, Writing
  <1>4. BufOK(b) /\ buf[b] \in BufStates
    BY <1>3, InvBuf
  <1>5. CASE ~Is(b, "DONE")
    <2>1. /\ wchan' = [wchan EXCEPT ![p] = b] /\ pc' = [pc EXCEPT ![p] = "bwait"] /\ cpu' = None
          /\ UNCHANGED <<buf, lru, bufneeded, op>>
      BY <1>1, <1>5 DEF bwrite_wait, sleep, Yield
    <2>2. op'[p] = op[p] /\ pc'[p] = "bwait" /\ wchan'[p] = b
      BY <1>0, <2>1 DEF TypeOK
    <2>3. CallOK(p)'
      BY <1>0, <1>2, <2>2 DEF CallOK, ForBlock, Alone, Getting, Writing
    <2>4. HandOK(p)'
      BY <1>1, <1>2, <1>3, <2>1, <2>2 DEF HandOK, Writing, Transfer, Is
    <2>5. IdOK(p)'
      BY <1>3, <2>2 DEF IdOK
    <2>6. SleepOK(p)'
      BY <1>1, <1>2, <1>3, <1>5, <2>2, BufAssumption DEF SleepOK, Transfer
    <2>7. \A c \in Bufs : (p \in Owners(c))' <=> p \in Owners(c)
      BY <1>2, <2>2 DEF Owners
    <2> QED
      BY <1>0, <1>2, <1>3, <2>1, <2>3, <2>4, <2>5, <2>6, <2>7, PlainInv DEF Labels
  <1>6. CASE Is(b, "DONE")
    <2>1. brelse(b, buf[b], lru, {}) /\ Written(p)
      BY <1>1, <1>6 DEF bwrite_wait
    <2>2. Whole(buf[b]) /\ b \in hashed /\ b \notin io
      BY <1>0, <1>2, <1>3, <1>4, <1>6, WholeOK DEF BufOK
    <2>3. lru \in Seq(Bufs) /\ Once(lru) /\ ~OnList(b, lru) /\ Owners(b) \subseteq {p}
      BY <1>3, OwnedList
    <2>4. \A c \in Bufs \ {b} : ~(p \in Owners(c))
      BY <1>1, <1>2, <1>3, BufAssumption DEF Owners
    <2>5. ASSUME NEW l \in Labels, l # "panic", pc' = [pc EXCEPT ![p] = l],
                 NEW o \in OpStates, op' = [op EXCEPT ![p] = o], cpu' \in {None, p},
                 \A c \in Bufs : ~(p \in Owners(c))', CallOK(p)', HandOK(p)', IdOK(p)'
          PROVE  Inv'
      <3>1. /\ contents' \in [Vnodes \X Blocks -> Data \cup {None}] /\ pc[p] # "started"
            /\ (Is(b, "WANTED") => "WANTED" \in buf[b].flags) /\ ~(p \in Owners(b))'
            /\ UNCHANGED <<hashed, v_numoutput, VBWAIT, io, disk>>
            /\ \A c \in Bufs \ {b} : (p \in Owners(c))' <=> p \in Owners(c)
        BY <1>0, <1>2, <1>3, <2>4, <2>5 DEF TypeOK, Is
      <3> QED
        BY <1>0, <1>3, <1>4, <2>1, <2>2, <2>3, <2>5, <3>1, ReleaseInv
    <2>6. CASE op[p].ret = "idle"
      <3>1. pc' = [pc EXCEPT ![p] = "idle"] /\ cpu' = None /\ op' = [op EXCEPT ![p] = NoCall]
        BY <2>1, <2>6 DEF Written, Return, Yield
      <3>2. pc'[p] = "idle" /\ op'[p] = NoCall /\ wchan'[p] = None
        BY <1>0, <2>1, <3>1 DEF TypeOK, brelse, wakeup
      <3>3. CallOK(p)' /\ HandOK(p)' /\ IdOK(p)' /\ \A c \in Bufs : ~(p \in Owners(c))'
        BY <3>2, IdleOK, BufAssumption
      <3> QED
        BY <2>5, <3>1, <3>3, NoCallOK DEF Labels
    <2>7. CASE op[p].ret # "idle"
      <3>1. pc' = [pc EXCEPT ![p] = op[p].ret] /\ cpu' = p
            /\ op' = [op EXCEPT ![p].ret = "idle", ![p].bp = None, ![p].oldstate = {}]
        BY <2>1, <2>7 DEF Written, Goto
      <3>2. PICK l \in {"vflushbuf", "vinvalbuf"} : l = op[p].ret
        BY <1>0, <1>3, <2>7 DEF OpStates
      <3>3. PICK o : o = [op[p] EXCEPT !.ret = "idle", !.bp = None, !.oldstate = {}]
        OBVIOUS
      <3>4. op' = [op EXCEPT ![p] = o]
        BY <3>1, <3>3
      <3>5. /\ o \in OpStates /\ o.ret = "idle" /\ o.bp = None /\ o.first = None
            /\ o.call = op[p].call /\ o.vn = op[p].vn /\ o.lbn = op[p].lbn /\ o.next = op[p].next
        BY <1>0, <1>3, <3>3 DEF OpStates
      <3>6. pc'[p] = l /\ op'[p] = o
        BY <1>0, <3>1, <3>2, <3>4 DEF TypeOK
      <3>7. CallOK(p)'
        BY <1>0, <1>2, <3>1, <3>2, <3>5, <3>6 DEF CallOK, ForBlock, Alone, Getting, Writing
      <3>8. HandOK(p)' /\ IdOK(p)'
        BY <3>2, <3>5, <3>6 DEF HandOK, IdOK, Writing
      <3>9. \A c \in Bufs : ~(p \in Owners(c))'
        BY <3>2, <3>5, <3>6, BufAssumption DEF Owners
      <3> QED
        BY <2>5, <3>1, <3>2, <3>4, <3>5, <3>7, <3>8, <3>9 DEF Labels
    <2> QED
      BY <2>6, <2>7
  <1> QED
    BY <1>5, <1>6

-----------------------------------------------------------------------------
(* p marks a busy buffer as wanted, and sleeps.                            *)
LEMMA WantInv ==
    ASSUME Inv, NEW p \in Procs, Runs(p), pc[p] \in {"found", "invalidate"}, cpu' = None,
           NEW b \in Bufs, Is(b, "BUSY"), buf[b].vp # None,
           buf' = [buf EXCEPT ![b].flags = @ \cup {"WANTED"}],
           UNCHANGED <<lru, hashed, bufneeded, v_numoutput, VBWAIT, io, disk, contents>>,
           wchan' = [wchan EXCEPT ![p] = b],
           NEW l \in {"getblk", "vinvalbuf"}, pc' = [pc EXCEPT ![p] = l],
           l = IF pc[p] = "found" THEN "getblk" ELSE "vinvalbuf",
           NEW o \in OpStates, op' = [op EXCEPT ![p] = o], o.bp = None, o.first = op[p].first,
           o.ret = op[p].ret, o.call = op[p].call, o.vn = op[p].vn, o.lbn = op[p].lbn,
           o.next = op[p].next
    PROVE  Inv'
  <1>0. /\ CallOK(p) /\ HandOK(p) /\ IdOK(p) /\ op[p] \in OpStates /\ TypeOK /\ LruOK
        /\ OutputCounted /\ NoPanic /\ cpu \in {None, p} /\ BufOK(b) /\ buf[b] \in BufStates
    BY RunsFacts, InvBuf DEF Inv
  <1>1. PICK r : r = [buf[b] EXCEPT !.flags = @ \cup {"WANTED"}]
    OBVIOUS
  <1>2. /\ r \in BufStates /\ r.vp = buf[b].vp /\ r.lblkno = buf[b].lblkno /\ r.list = buf[b].list
        /\ r.flags = buf[b].flags \cup {"WANTED"} /\ buf' = [buf EXCEPT ![b] = r]
    BY <1>0, <1>1 DEF BufStates, Flags
  <1>3. /\ buf'[b] = r /\ \A c \in Bufs \ {b} : buf'[c] = buf[c]
        /\ op'[p] = o /\ pc'[p] = l /\ wchan'[p] = b
        /\ \A q \in Procs \ {p} : op'[q] = op[q] /\ pc'[q] = pc[q] /\ wchan'[q] = wchan[q]
    BY <1>0, <1>2 DEF TypeOK
  <1>4. \A c \in Bufs : /\ buf'[c].vp = buf[c].vp /\ blk(c)' = blk(c) /\ buf'[c].list = buf[c].list
                        /\ buf'[c].lblkno = buf[c].lblkno
                        /\ c \in InUse' <=> c \in InUse
                        /\ \A f : Is(c, f)' <=> Is(c, f) \/ (c = b /\ f = "WANTED")
    <2>1. b \in InUse' /\ b \in InUse
      BY <1>2, <1>3, FreshOK DEF InUse
    <2> QED
      BY <1>2, <1>3, <2>1 DEF blk, Is, InUse
  <1>5. TypeOK'
    BY <1>0, <1>2, ZenonT(30) DEF TypeOK, Labels
  <1>6. \A c \in Bufs, q \in Procs : (q \in Owners(c))' <=> q \in Owners(c)
    BY <1>3, BufAssumption DEF Owners
  <1>7. \A c \in Bufs : BufOK(c)' /\ OwnOK(c)' /\ DirtyOK(c)'
    <2> SUFFICES ASSUME NEW c \in Bufs PROVE BufOK(c)' /\ OwnOK(c)' /\ DirtyOK(c)'
      OBVIOUS
    <2>0. BufOK(c) /\ OwnOK(c) /\ DirtyOK(c)
      BY InvBuf
    <2>1. BufOK(c)'
      BY <1>4, <2>0 DEF BufOK, Dirty
    <2>2. OwnOK(c)'
      <3>1. Owners(c)' = Owners(c)
        BY <1>6 DEF Owners
      <3> QED
        BY <1>4, <2>0, <3>1 DEF OwnOK
    <2>3. DirtyOK(c)'
      <3>1. Dirty(c)' => Dirty(c)
        BY <1>4 DEF Dirty
      <3>2. ~(Dirty(c) /\ ~Is(c, "DELWRI"))
        BY DirtyHas
      <3> QED
        BY <1>4, <3>1, <3>2 DEF DirtyOK
    <2> QED
      BY <2>1, <2>2, <2>3
  <1>8. LruOK' /\ OutputCounted' /\ NoPanic'
    <2>1. LruOK'
      BY <1>0, <1>4 DEF LruOK
    <2>2. OutputCounted'
      <3>1. \A v \in Vnodes : (b \in Outs(v))' <=> b \in Outs(v)
        BY <1>4 DEF Outs
      <3>2. io' \subseteq Bufs
        BY <1>0 DEF TypeOK
      <3> QED
        BY <1>3, <3>1, <3>2, OutputSame
    <2>3. NoPanic'
      BY <1>0, <1>3 DEF NoPanic
    <2> QED
      BY <2>1, <2>2, <2>3
  <1>9. CallOK(p)'
    BY <1>0, <1>3 DEF CallOK, ForBlock, Alone, Getting, Writing
  <1>10. op[p].first # None => op[p].first \in Bufs
    BY <1>0 DEF OpStates
  <1>11. HandOK(p)'
    BY <1>0, <1>3, <1>4, <1>10 DEF HandOK, Transfer, Writing
  <1>12. IdOK(p)'
    BY <1>0, <1>3, <1>4, <1>10 DEF IdOK
  <1>13. SleepOK(p)'
    <2>1. b # "bufneeded" /\ b \notin Vnodes
      BY BufAssumption
    <2> QED
      BY <1>3, <1>4, <2>1 DEF SleepOK
  <1>14. ASSUME NEW q \in Procs \ {p} PROVE CallOK(q)' /\ HandOK(q)' /\ IdOK(q)' /\ SleepOK(q)'
    <2>0. /\ CallOK(q) /\ HandOK(q) /\ IdOK(q) /\ SleepOK(q) /\ op[q] \in OpStates
          /\ pc[q] \notin Alone
      <3>1. cpu # q
        BY <1>0, BufAssumption
      <3> QED
        BY <3>1, InvProc DEF CallOK
    <2>1. CallOK(q)'
      BY <1>3, <2>0 DEF CallOK, ForBlock
    <2>2. op[q].first # None => op[q].first \in Bufs
      BY <2>0 DEF OpStates
    <2>3. pc[q] \in {"insert", "hold", "biowait", "bwait"} => op[q].bp \in Bufs
      BY <2>0 DEF HandOK, Writing
    <2>4. pc[q] = "insert" => op[q].bp # b
      BY <2>0, FreshOK DEF HandOK, Fresh
    <2>5. HandOK(q)'
      BY <1>3, <1>4, <2>0, <2>2, <2>3, <2>4 DEF HandOK, Transfer, Alone, Writing
    <2>6. IdOK(q)'
      BY <1>3, <1>4, <2>0, <2>2, <2>3 DEF IdOK, Alone
    <2>7. SleepOK(q)'
      BY <1>3, <1>4, <2>0 DEF SleepOK
    <2> QED
      BY <2>1, <2>5, <2>6, <2>7
  <1> QED
    BY <1>5, <1>7, <1>8, <1>9, <1>11, <1>12, <1>13, <1>14 DEF Inv

LEMMA FoundInv ==
    ASSUME Inv, NEW p \in Procs, getblk_found(p)
    PROVE  Inv'
  <1>0. /\ CallOK(p) /\ HandOK(p) /\ IdOK(p) /\ op[p] \in OpStates /\ Runs(p)
    BY RunsFacts DEF getblk_found
  <1>1. CASE Is(op[p].bp, "BUSY")
    <2>1. PICK b : b = op[p].bp
      OBVIOUS
    <2>2. PICK o : o = [op[p] EXCEPT !.bp = None]
      OBVIOUS
    <2>3. /\ pc[p] = "found" /\ buf' = [buf EXCEPT ![b].flags = @ \cup {"WANTED"}]
          /\ wchan' = [wchan EXCEPT ![p] = b] /\ pc' = [pc EXCEPT ![p] = "getblk"] /\ cpu' = None
          /\ UNCHANGED <<lru, hashed, bufneeded, v_numoutput, VBWAIT, io, disk, contents>>
      BY <1>1, <2>1 DEF getblk_found, sleep, Yield, vnode, device
    <2>4. op' = [op EXCEPT ![p] = o]
      BY <1>1, <2>2 DEF getblk_found
    <2>5. /\ o \in OpStates /\ o.bp = None /\ o.first = op[p].first /\ o.ret = op[p].ret
          /\ o.call = op[p].call /\ o.vn = op[p].vn /\ o.lbn = op[p].lbn /\ o.next = op[p].next
      BY <1>0, <2>2 DEF OpStates
    <2>6. b \in Bufs /\ buf[b].vp # None /\ Is(b, "BUSY")
      BY <1>0, <1>1, <2>1, <2>3, BufAssumption DEF HandOK, IdOK, CallOK, blk
    <2> QED
      BY <1>0, <2>3, <2>4, <2>5, <2>6, WantInv
  <1> QED
    BY <1>1, FoundTakeInv

LEMMA InvalidateInv ==
    ASSUME Inv, NEW p \in Procs, invalidate(p)
    PROVE  Inv'
  <1>0. /\ CallOK(p) /\ HandOK(p) /\ IdOK(p) /\ op[p] \in OpStates /\ TypeOK /\ Runs(p)
    BY RunsFacts DEF invalidate
  <1>1. PICK b : b = op[p].bp
    OBVIOUS
  <1>2. /\ pc[p] = "invalidate"
        /\ UNCHANGED <<hashed, v_numoutput, VBWAIT, io, disk>>
    BY DEF invalidate, vnode
  <1>3. /\ b \in Bufs /\ op[p].vn \in Vnodes /\ buf[b].vp = op[p].vn /\ buf[b].vp # None
        /\ op[p].first = None
        /\ op[p].nbp # None => op[p].nbp \in Bufs \ {b} /\ buf[op[p].nbp].vp = op[p].vn
    <2>1. op[p].vn \in Vnodes
      BY <1>0, <1>2 DEF CallOK
    <2> QED
      BY <1>0, <1>1, <1>2, <2>1, BufAssumption DEF HandOK, CallOK, IdOK, OpStates, Getting
  <1>4. buf[b] \in BufStates /\ BufOK(b)
    BY <1>3, InvBuf
  <1>5. CASE Is(b, "BUSY")
    <2>1. PICK o : o = [op[p] EXCEPT !.bp = None, !.nbp = None]
      OBVIOUS
    <2>2. /\ buf' = [buf EXCEPT ![b].flags = @ \cup {"WANTED"}]
          /\ wchan' = [wchan EXCEPT ![p] = b] /\ pc' = [pc EXCEPT ![p] = "vinvalbuf"] /\ cpu' = None
          /\ UNCHANGED <<lru, hashed, bufneeded, v_numoutput, VBWAIT, io, disk, contents>>
      BY <1>1, <1>2, <1>5 DEF invalidate, sleep, Yield
    <2>3. op' = [op EXCEPT ![p].bp = None, ![p].nbp = None]
      BY <1>1, <1>5 DEF invalidate
    <2>4. op' = [op EXCEPT ![p] = o]
      BY <2>1, <2>3
    <2>5. /\ o \in OpStates /\ o.bp = None /\ o.first = op[p].first /\ o.ret = op[p].ret
          /\ o.call = op[p].call /\ o.vn = op[p].vn /\ o.lbn = op[p].lbn /\ o.next = op[p].next
      BY <1>0, <2>1 DEF OpStates
    <2> QED
      BY <1>0, <1>2, <1>3, <1>5, <2>2, <2>4, <2>5, WantInv
  <1>6. CASE ~Is(b, "BUSY")
    <2>1. PICK r : r = [buf[b] EXCEPT !.flags = @ \cup {"BUSY"}]
      OBVIOUS
    <2>2. /\ r \in BufStates /\ r.vp = buf[b].vp /\ r.lblkno = buf[b].lblkno /\ r.list = buf[b].list
          /\ r.flags = buf[b].flags \cup {"BUSY"}
      BY <1>4, <2>1 DEF BufStates, Flags
    <2>3. PICK m : m = Removed(b, lru)
      OBVIOUS
    <2>4. /\ m \in Seq(Bufs) /\ Once(m) /\ ~OnList(b, m) /\ (lru = <<>> => m = <<>>)
          /\ \A c \in Bufs \ {b} : OnList(c, m) <=> OnList(c, lru)
      BY <1>3, <2>3, TakenOK
    <2>5. CASE op[p].flag /\ Is(b, "DELWRI")
      <3>1. PICK o : o = [op[p] EXCEPT !.nbp = None, !.ret = "vinvalbuf"]
        OBVIOUS
      <3>2. /\ buf' = [buf EXCEPT ![b] = r] /\ lru' = m
            /\ op' = [op EXCEPT ![p].nbp = None, ![p].ret = "vinvalbuf"]
            /\ pc' = [pc EXCEPT ![p] = "bwrite"] /\ cpu' = p
            /\ UNCHANGED <<hashed, bufneeded, v_numoutput, VBWAIT, io, disk, contents, wchan>>
        BY <1>1, <1>2, <1>6, <2>1, <2>3, <2>5 DEF invalidate, Goto
      <3>3. op' = [op EXCEPT ![p] = o]
        BY <3>1, <3>2
      <3>4. /\ o \in OpStates /\ o.bp = b /\ o.first = op[p].first /\ o.ret = "vinvalbuf"
            /\ o.call = op[p].call /\ o.vn = op[p].vn /\ o.lbn = op[p].lbn /\ o.next = op[p].next
        BY <1>0, <1>1, <3>1 DEF OpStates
      <3>5. \A f \in Flags \ {"ASYNC", "AGE"} : f \in r.flags <=> f = "BUSY" \/ Is(b, f)
        BY <2>2 DEF Is
      <3>6. /\ o.ret = IF pc[p] = "invalidate" THEN "vinvalbuf" ELSE pc[p]
            /\ pc[p] \in {"recycle", "vflushbuf", "invalidate"}
            /\ pc[p] = "recycle" => "ASYNC" \in r.flags
        BY <1>2, <3>4
      <3>7. /\ lru' \in Seq(Bufs) /\ Once(lru') /\ (lru = <<>> => lru' = <<>>)
            /\ ~OnList(b, lru') /\ \A c \in Bufs \ {b} : OnList(c, lru') <=> OnList(c, lru)
        BY <2>4, <3>2
      <3>8. Runs(p) /\ b \in Bufs /\ ~Is(b, "BUSY") /\ Is(b, "DELWRI")
        BY <1>0, <1>3, <1>6, <2>5
      <3>9. /\ buf' = [buf EXCEPT ![b] = r] /\ pc' = [pc EXCEPT ![p] = "bwrite"] /\ cpu' = p
            /\ UNCHANGED <<hashed, bufneeded, v_numoutput, VBWAIT, io, disk, contents, wchan>>
        BY <3>2
      <3> QED
        BY <1>2, <2>2, <3>3, <3>4, <3>5, <3>6, <3>7, <3>8, <3>9, WriteTakeInv
    <2>6. CASE ~(op[p].flag /\ Is(b, "DELWRI"))
      <3>1. PICK s : s = [r EXCEPT !.flags = @ \cup {"INVAL"}]
        OBVIOUS
      <3>2. /\ s \in BufStates /\ Bad(s) /\ (Is(b, "WANTED") => "WANTED" \in s.flags)
        <4>1. s \in BufStates /\ s.flags = buf[b].flags \cup {"BUSY", "INVAL"}
          BY <2>2, <3>1 DEF BufStates, Flags
        <4> QED
          BY <4>1 DEF Bad, Is
      <3>3. /\ contents' = IF buf[b].vp = op[p].vn /\ Is(b, "DELWRI")
                           THEN [contents EXCEPT ![blk(b)] = disk[blk(b)]] ELSE contents
            /\ brelse(b, IF r.vp # op[p].vn THEN reassignbuf(r, r.vp)
                         ELSE [r EXCEPT !.flags = @ \cup {"INVAL"}], m, {})
            /\ Advance(p, b)
        BY <1>1, <1>3, <1>6, <2>1, <2>3, <2>6 DEF invalidate
      <3>4. brelse(b, s, m, {})
        BY <1>3, <2>2, <3>1, <3>3
      <3>5. contents' \in [Vnodes \X Blocks -> Data \cup {None}]
        <4>1. blk(b) \in Vnodes \X Blocks
          BY <1>3, <1>4 DEF blk, BufOK, BufStates
        <4>2. disk[blk(b)] \in Data \cup {None} /\ contents \in [Vnodes \X Blocks -> Data \cup {None}]
          BY <1>0, <4>1 DEF TypeOK
        <4> QED
          BY <3>3, <4>1, <4>2
      <3>6. Owners(b) = {} /\ b \notin io
        BY <1>3, <1>6, FreeOwners
      <3>7. \A c \in Bufs \ {b} : buf'[c] = buf[c]
        BY <1>0, <3>4 DEF brelse, TypeOK
      <3>8. ASSUME NEW l \in {"vinvalbuf", "invalidate"}, pc' = [pc EXCEPT ![p] = l], cpu' = p,
                   NEW o \in OpStates, op' = [op EXCEPT ![p] = o],
                   o.first = op[p].first, o.ret = op[p].ret, o.call = op[p].call,
                   o.vn = op[p].vn,
                   l = "invalidate" => /\ o.bp \in Bufs \ {b} /\ buf[o.bp].vp = op[p].vn
                                       /\ o.nbp # None => /\ o.nbp \in Bufs \ {b} /\ o.nbp # o.bp
                                                          /\ buf[o.nbp].vp = op[p].vn
            PROVE  Inv'
        <4>1. op'[p] = o /\ pc'[p] = l
          BY <1>0, <3>8 DEF TypeOK
        <4>2. CallOK(p)'
          BY <1>0, <1>2, <1>3, <3>8, <4>1 DEF CallOK, ForBlock, Alone, Getting, Writing
        <4>3. HandOK(p)'
          BY <1>3, <3>8, <4>1 DEF HandOK, Writing
        <4>4. IdOK(p)'
          BY <1>3, <3>7, <3>8, <4>1 DEF IdOK
        <4>5. \A c \in Bufs : ~(p \in Owners(c))' /\ ~(p \in Owners(c))
          BY <1>2, <1>3, <3>8, <4>1, BufAssumption DEF Owners
        <4>6. /\ ~(p \in Owners(b))' /\ \A c \in Bufs \ {b} : (p \in Owners(c))' <=> p \in Owners(c)
              /\ l \in Labels /\ l # "panic" /\ cpu' \in {None, p} /\ pc[p] # "started"
              /\ Owners(b) \subseteq {p} /\ UNCHANGED <<hashed, v_numoutput, VBWAIT, io, disk>>
          BY <1>2, <1>3, <3>6, <3>8, <4>5 DEF Labels
        <4> QED
          BY <1>0, <1>3, <2>4, <3>2, <3>4, <3>5, <3>6, <3>8, <4>2, <4>3, <4>4, <4>6, ReleaseInv
      <3>9. CASE op[p].nbp = None
        <4>1. /\ pc' = [pc EXCEPT ![p] = "vinvalbuf"] /\ cpu' = p
              /\ op' = [op EXCEPT ![p].bp = None]
          BY <3>3, <3>9 DEF Advance, Goto
        <4>2. PICK o : o = [op[p] EXCEPT !.bp = None]
          OBVIOUS
        <4>3. op' = [op EXCEPT ![p] = o]
          BY <4>1, <4>2
        <4>4. /\ o \in OpStates /\ o.first = op[p].first /\ o.ret = op[p].ret
              /\ o.call = op[p].call /\ o.vn = op[p].vn
          BY <1>0, <4>2 DEF OpStates
        <4> QED
          BY <3>8, <4>1, <4>3, <4>4
      <3>10. CASE op[p].nbp # None
        <4>1. PICK n : n = op[p].nbp
          OBVIOUS
        <4>2. PICK x \in {c \in Bufs \ {b, n} : buf[n].list # None /\ buf[c].list = buf[n].list}
                            \cup {None} :
                 op' = [op EXCEPT ![p].bp = n, ![p].nbp = x]
          BY <3>3, <3>10, <4>1 DEF Advance
        <4>3. pc' = [pc EXCEPT ![p] = "invalidate"] /\ cpu' = p
          BY <3>3, <3>10 DEF Advance, Goto
        <4>4. n \in Bufs \ {b} /\ buf[n].vp = op[p].vn
          BY <1>3, <3>10, <4>1
        <4>5. x # None => /\ x \in Bufs \ {b} /\ x # n /\ buf[x].list # None
                          /\ buf[x].list = buf[n].list
          BY <4>2
        <4>6. x # None => buf[x].vp = op[p].vn
          <5>1. BufOK(n) /\ (x # None => BufOK(x))
            BY <4>4, <4>5, InvBuf
          <5> QED
            BY <4>4, <4>5, <5>1 DEF BufOK
        <4>7. PICK o : o = [op[p] EXCEPT !.bp = n, !.nbp = x]
          OBVIOUS
        <4>8. op' = [op EXCEPT ![p] = o]
          BY <4>2, <4>7
        <4>9. /\ o \in OpStates /\ o.first = op[p].first /\ o.ret = op[p].ret
              /\ o.call = op[p].call /\ o.vn = op[p].vn /\ o.bp = n /\ o.nbp = x
          BY <1>0, <4>4, <4>5, <4>7 DEF OpStates
        <4> QED
          BY <3>8, <4>3, <4>4, <4>5, <4>6, <4>8, <4>9
      <3> QED
        BY <3>9, <3>10
    <2> QED
      BY <2>5, <2>6
  <1> QED
    BY <1>5, <1>6

-----------------------------------------------------------------------------
(* The interrupt.  A buffer that nobody waits for is released, and one     *)
(* that is waited for is left to its owner.                                *)
Finished(b, s) ==
    /\ s.vp = buf[b].vp /\ s.lblkno = buf[b].lblkno /\ s.list = buf[b].list
    /\ "DONE" \in s.flags /\ "WANTED" \notin s.flags
    /\ \A f \in {"READ", "DELWRI", "INVAL"} : f \in s.flags <=> Is(b, f)
    /\ "ERROR" \in s.flags => ~Is(b, "ASYNC")
    /\ "ASYNC" \notin s.flags /\ ("BUSY" \in s.flags <=> ~Is(b, "ASYNC"))
(* Those that wait for it, for any buffer, or for the vnode's output.      *)
Woken(b, v, chans) ==
    /\ Is(b, "WANTED") \/ ~Is(b, "ASYNC") => b \in chans
    /\ Is(b, "ASYNC") /\ bufneeded => "bufneeded" \in chans
    /\ ~Is(b, "READ") /\ VBWAIT[v] /\ v_numoutput[v] - 1 <= 0 => v \in chans
LEMMA DoneInv ==
    ASSUME Inv, NEW b \in Bufs, b \in io, io' = io \ {b}, NEW s \in BufStates,
           buf' = [buf EXCEPT ![b] = s],
           Finished(b, s),
           UNCHANGED <<hashed, pc, op, cpu>>,
           lru' \in Seq(Bufs), Once(lru'), bufneeded' \in BOOLEAN,
           \A c \in Bufs : OnList(c, lru') <=> OnList(c, lru) \/ (c = b /\ Is(b, "ASYNC")),
           NEW chans,
           wchan' = [q \in Procs |-> IF wchan[q] \in chans THEN None ELSE wchan[q]],
           ~Is(b, "ASYNC") => lru' = lru /\ bufneeded' = bufneeded,
           NEW v \in Vnodes, v = buf[b].vp,
           v_numoutput' = IF Is(b, "READ") THEN v_numoutput
                          ELSE [v_numoutput EXCEPT ![v] = @ - 1],
           VBWAIT' \in [Vnodes -> BOOLEAN],
           \A w \in Vnodes \ {v} : VBWAIT'[w] = VBWAIT[w],
           v \in chans \/ VBWAIT'[v] = VBWAIT[v],
           Woken(b, v, chans),
           disk' \in [Vnodes \X Blocks -> Data \cup {None}],
           contents' \in [Vnodes \X Blocks -> Data \cup {None}]
    PROVE  Inv'
  <1>0. /\ TypeOK /\ LruOK /\ OutputCounted /\ NoPanic /\ BufOK(b) /\ OwnOK(b)
        /\ buf[b] \in BufStates
    BY InvBuf DEF Inv
  <1> USE DEF Finished, Woken
  <1>1. /\ Is(b, "BUSY") /\ ~Is(b, "DONE") /\ ~Is(b, "DELWRI") /\ ~Is(b, "ERROR")
        /\ ~Is(b, "INVAL") /\ buf[b].vp # None /\ b \in hashed /\ b \in InUse
    BY <1>0 DEF BufOK
  <1>2. /\ buf'[b] = s /\ \A c \in Bufs \ {b} : buf'[c] = buf[c]
        /\ \A q \in Procs : wchan'[q] = IF wchan[q] \in chans THEN None ELSE wchan[q]
    BY <1>0 DEF TypeOK
  <1>3. \A c \in Bufs : /\ buf'[c].vp = buf[c].vp /\ blk(c)' = blk(c) /\ buf'[c].list = buf[c].list
                        /\ buf'[c].lblkno = buf[c].lblkno /\ (Dirty(c)' <=> Dirty(c))
                        /\ c \in InUse' <=> c \in InUse
                        /\ \A f \in {"READ", "DELWRI", "INVAL"} : Is(c, f)' <=> Is(c, f)
    <2>1. b \in InUse'
      BY <1>1, <1>2, FreshOK DEF InUse
    <2> QED
      BY <1>1, <1>2, <2>1 DEF blk, Is, InUse, Dirty
  <1>4. \A c \in Bufs \ {b} : /\ (c \in io' <=> c \in io) /\ \A f : Is(c, f)' <=> Is(c, f)
    BY <1>2 DEF Is
  <1>5. /\ Is(b, "DONE")' /\ ~Is(b, "WANTED")' /\ ~Is(b, "ASYNC")'
        /\ (Is(b, "BUSY")' <=> ~Is(b, "ASYNC")) /\ (Is(b, "ERROR")' => ~Is(b, "ASYNC"))
        /\ ~(b \in io)'
    BY <1>2 DEF Is
  <1>6. TypeOK'
    <2>1. wchan' \in [Procs -> Bufs \cup Vnodes \cup {"bufneeded", None}]
      BY <1>0 DEF TypeOK
    <2>2. buf' \in [Bufs -> BufStates]
      BY <1>0 DEF TypeOK
    <2>3. v_numoutput' \in [Vnodes -> Int]
      BY <1>0 DEF TypeOK
    <2>4. io' \subseteq Bufs
      BY <1>0 DEF TypeOK
    <2> QED
      BY <1>0, <2>1, <2>2, <2>3, <2>4 DEF TypeOK
  <1>7. \A c \in Bufs : Owners(c)' = Owners(c)
    BY DEF Owners
  <1>8. \A c \in Bufs : BufOK(c)' /\ OwnOK(c)' /\ DirtyOK(c)'
    <2> SUFFICES ASSUME NEW c \in Bufs PROVE BufOK(c)' /\ OwnOK(c)' /\ DirtyOK(c)'
      OBVIOUS
    <2>0. BufOK(c) /\ OwnOK(c) /\ DirtyOK(c)
      BY InvBuf
    <2>1. BufOK(c)'
      <3>1. CASE c = b
        BY <1>1, <1>3, <1>5, <2>0, <3>1 DEF BufOK
      <3>2. CASE c # b
        BY <1>3, <1>4, <2>0, <3>2 DEF BufOK
      <3> QED
        BY <3>1, <3>2
    <2>2. OwnOK(c)'
      <3>1. CASE c = b
        <4>1. Owners(b) # {} <=> ~Is(b, "ASYNC")
          BY <1>0, <1>1 DEF OwnOK
        <4> QED
          BY <1>5, <1>7, <2>0, <3>1, <4>1 DEF OwnOK
      <3>2. CASE c # b
        BY <1>4, <1>7, <2>0, <3>2 DEF OwnOK
      <3> QED
        BY <3>1, <3>2
    <2>3. DirtyOK(c)'
      BY <1>3, <2>0 DEF DirtyOK
    <2> QED
      BY <2>1, <2>2, <2>3
  <1>9. LruOK' /\ NoPanic'
    <2>1. \A c \in Bufs : OnList(c, lru') <=> (c \in InUse /\ ~Is(c, "BUSY"))'
      BY <1>0, <1>1, <1>3, <1>4, <1>5 DEF LruOK
    <2> QED
      BY <1>0, <2>1 DEF LruOK, NoPanic
  <1>10. OutputCounted'
    <2> SUFFICES ASSUME NEW w \in Vnodes PROVE v_numoutput'[w] = Cardinality(Outs(w)')
      BY DEF OutputCounted, Outs
    <2>1. /\ Cardinality(Outs(w)) \in Nat /\ Cardinality(Outs(w)') \in Nat
          /\ Cardinality(Outs(w)') = Cardinality(Outs(w)) + One(b \in Outs(w)') - One(b \in Outs(w))
      BY <1>0, <1>2, <1>4, <1>6, OutsMove DEF TypeOK
    <2>2. v_numoutput[w] = Cardinality(Outs(w))
      BY <1>0 DEF OutputCounted, Outs
    <2>3. ~(b \in Outs(w)') /\ (b \in Outs(w) <=> w = v /\ ~Is(b, "READ"))
      BY DEF Outs
    <2>4. v_numoutput'[w] = IF w = v /\ ~Is(b, "READ") THEN v_numoutput[w] - 1 ELSE v_numoutput[w]
      BY <1>0 DEF TypeOK
    <2>5. One(b \in Outs(w)') = 0 /\ One(b \in Outs(w)) = IF w = v /\ ~Is(b, "READ") THEN 1 ELSE 0
      BY <2>3 DEF One
    <2> QED
      BY <2>1, <2>2, <2>4, <2>5
  <1>11. ASSUME NEW q \in Procs PROVE CallOK(q)' /\ HandOK(q)' /\ IdOK(q)' /\ SleepOK(q)'
    <2>0. /\ CallOK(q) /\ HandOK(q) /\ IdOK(q) /\ SleepOK(q) /\ op[q] \in OpStates
      BY InvProc
    <2>1. CallOK(q)'
      BY <2>0 DEF CallOK, ForBlock
    <2>2. op[q].first # None => op[q].first \in Bufs
      BY <2>0 DEF OpStates
    <2>3. \A c \in Bufs : Transfer(c) => Transfer(c)'
      BY <1>4, <1>5 DEF Transfer
    <2>4. HandOK(q)'
      <3>1. pc[q] \in {"insert", "got", "hold", "bwrite"} => op[q].bp \in Bufs \ {b}
        <4>1. pc[q] = "insert" => op[q].bp # b
          BY <1>1, <2>0, FreshOK DEF HandOK, Fresh
        <4> QED
          BY <2>0, <4>1 DEF HandOK, Writing
      <3>2. pc[q] \in {"biowait", "started", "bwait"} => op[q].bp \in Bufs
        BY <2>0 DEF HandOK, Writing
      <3>3. pc[q] = "biowait" /\ Is(op[q].bp, "DELWRI")' => Is(op[q].bp, "DONE")'
        BY <1>3, <1>4, <1>5, <2>0, <3>2 DEF HandOK
      <3>4. pc[q] = "started" => (Owners(op[q].bp) \subseteq {q})'
        BY <1>7, <2>0, <3>2 DEF HandOK
      <3>5. UNCHANGED <<pc[q], op[q]>>
        OBVIOUS
      <3>6. op'[q].first # None =>
               /\ Transfer(op[q].first)'
               /\ pc'[q] \in {"insert", "got", "bwrite"} => op'[q].first # op'[q].bp
        BY <2>0, <2>2, <2>3, <3>5 DEF HandOK
      <3>7. pc[q] \in {"insert", "got", "hold", "bwrite"} =>
              /\ buf'[op[q].bp] = buf[op[q].bp] /\ (op[q].bp \in io' <=> op[q].bp \in io)
        BY <1>2, <1>4, <3>1
      <3> QED
        BY <1>3, <2>0, <2>3, <3>1, <3>2, <3>3, <3>4, <3>5, <3>6, <3>7 DEF HandOK, Is, Writing
    <2>5. IdOK(q)'
      <3>1. /\ pc[q] \in {"found", "got", "hold", "biowait", "invalidate"} => op[q].bp \in Bufs
            /\ op[q].nbp # None => op[q].nbp \in Bufs
        BY <2>0 DEF HandOK, OpStates
      <3> QED
        BY <1>3, <2>0, <2>2, <3>1 DEF IdOK
    <2>6. SleepOK(q)'
      <3>1. CASE wchan[q] \in chans
        BY <1>2, <3>1, BufAssumption DEF SleepOK
      <3>2. CASE wchan[q] \notin chans
        <4>1. wchan'[q] = wchan[q]
          BY <1>2, <3>2
        <4>2. wchan[q] # b
          <5> SUFFICES ASSUME wchan[q] = b PROVE FALSE
            OBVIOUS
          <5>1. Is(b, "ASYNC") /\ ~Is(b, "WANTED")
            BY <3>2
          <5>2. pc[q] \in {"biowait", "bwait"} /\ op[q].bp = b
            BY <2>0, <5>1 DEF SleepOK
          <5>3. q \in Owners(b)
            BY <5>2 DEF Owners
          <5> QED
            BY <1>0, <5>1, <5>3 DEF OwnOK
        <4>3. wchan[q] \in Bufs => SleepOK(q)'
          <5>1. wchan[q] \in Bufs => wchan[q] # "bufneeded" /\ wchan[q] \notin Vnodes
            BY BufAssumption
          <5> QED
            BY <1>4, <2>0, <4>1, <4>2, <5>1 DEF SleepOK
        <4>4. wchan[q] = "bufneeded" => SleepOK(q)'
          <5>1. "bufneeded" \notin Bufs /\ "bufneeded" \notin Vnodes
            BY BufAssumption
          <5> QED
            BY <2>0, <3>2, <4>1, <5>1 DEF SleepOK
        <4>5. wchan[q] \in Vnodes => SleepOK(q)'
          <5> SUFFICES ASSUME NEW w \in Vnodes, w = wchan[q] PROVE SleepOK(q)'
            OBVIOUS
          <5>1. w # "bufneeded" /\ w \notin Bufs
            BY BufAssumption
          <5>2. VBWAIT[w] /\ v_numoutput[w] > 0 /\ pc[q] = "drain" /\ v_numoutput[w] \in Int
            BY <1>0, <2>0 DEF SleepOK, TypeOK
          <5>3. VBWAIT'[w] = VBWAIT[w]
            BY <3>2
          <5>4. v_numoutput'[w] > 0
            <6>1. CASE w = v /\ ~Is(b, "READ")
              <7>1. v_numoutput'[w] = v_numoutput[w] - 1
                BY <1>0, <6>1 DEF TypeOK
              <7> QED
                BY <3>2, <5>2, <6>1, <7>1
            <6>2. CASE ~(w = v /\ ~Is(b, "READ"))
              BY <1>0, <5>2, <6>2 DEF TypeOK
            <6> QED
              BY <6>1, <6>2
          <5> QED
            BY <4>1, <5>1, <5>2, <5>3, <5>4 DEF SleepOK
        <4>6. wchan[q] = None => SleepOK(q)'
          BY <4>1, BufAssumption DEF SleepOK
        <4> QED
          BY <1>0, <4>3, <4>4, <4>5, <4>6 DEF TypeOK
      <3> QED
        BY <3>1, <3>2
    <2> QED
      BY <2>1, <2>4, <2>5, <2>6
  <1> QED
    BY <1>6, <1>8, <1>9, <1>10, <1>11 DEF Inv

LEMMA BiodoneInv ==
    ASSUME Inv, ~AsyncErrors, NEW b \in Bufs, biodone(b)
    PROVE  Inv'
  <1>0. /\ TypeOK /\ LruOK /\ BufOK(b) /\ OwnOK(b) /\ buf[b] \in BufStates /\ b \in io
        /\ OnList(b, lru) <=> b \in InUse /\ ~Is(b, "BUSY")
    BY InvBuf DEF Inv, biodone
  <1>1. PICK v : v = buf[b].vp
    OBVIOUS
  <1>2. /\ Is(b, "BUSY") /\ ~Is(b, "DONE") /\ ~Is(b, "DELWRI") /\ ~Is(b, "ERROR")
        /\ ~Is(b, "INVAL") /\ v # None /\ b \in hashed /\ v \in Vnodes /\ ~OnList(b, lru)
        /\ blk(b) \in Vnodes \X Blocks
    BY <1>0, <1>1 DEF BufOK, BufStates, blk
  <1>3. /\ io' = io \ {b} /\ UNCHANGED <<hashed, pc, op, cpu>>
    BY DEF biodone
  <1>4. PICK err \in BOOLEAN : \E r : \E out :
        /\ r = [buf[b] EXCEPT
                  !.flags = @ \cup {"DONE"} \cup (IF err THEN {"ERROR"} ELSE {}),
                  !.data  = IF Is(b, "READ") THEN (IF err THEN None ELSE disk[blk(b)]) ELSE @]
        /\ out = IF ~Is(b, "READ") /\ VBWAIT[v] /\ v_numoutput[v] - 1 <= 0 THEN {v} ELSE {}
        /\ err => ~Is(b, "ASYNC")
        /\ disk' = IF Is(b, "READ") \/ err THEN disk ELSE [disk EXCEPT ![blk(b)] = r.data]
        /\ contents' = IF ~Is(b, "READ") /\ err THEN [contents EXCEPT ![blk(b)] = disk[blk(b)]]
                                                ELSE contents
        /\ v_numoutput' = IF Is(b, "READ") THEN v_numoutput
                          ELSE [v_numoutput EXCEPT ![v] = @ - 1]
        /\ VBWAIT' = IF ~Is(b, "READ") /\ VBWAIT[v] /\ v_numoutput[v] - 1 <= 0
                     THEN [VBWAIT EXCEPT ![v] = FALSE] ELSE VBWAIT
        /\ IF Is(b, "ASYNC")
           THEN brelse(b, r, lru, out)
           ELSE /\ buf' = [buf EXCEPT ![b] = [r EXCEPT !.flags = @ \ {"WANTED"}]]
                /\ wakeup({b} \cup out)
                /\ UNCHANGED <<lru, bufneeded>>
    BY <1>1 DEF biodone
  <1>4a. PICK r, out :
        /\ r = [buf[b] EXCEPT
                  !.flags = @ \cup {"DONE"} \cup (IF err THEN {"ERROR"} ELSE {}),
                  !.data  = IF Is(b, "READ") THEN (IF err THEN None ELSE disk[blk(b)]) ELSE @]
        /\ out = IF ~Is(b, "READ") /\ VBWAIT[v] /\ v_numoutput[v] - 1 <= 0 THEN {v} ELSE {}
        /\ err => ~Is(b, "ASYNC")
        /\ disk' = IF Is(b, "READ") \/ err THEN disk ELSE [disk EXCEPT ![blk(b)] = r.data]
        /\ contents' = IF ~Is(b, "READ") /\ err THEN [contents EXCEPT ![blk(b)] = disk[blk(b)]]
                                                ELSE contents
        /\ v_numoutput' = IF Is(b, "READ") THEN v_numoutput
                          ELSE [v_numoutput EXCEPT ![v] = @ - 1]
        /\ VBWAIT' = IF ~Is(b, "READ") /\ VBWAIT[v] /\ v_numoutput[v] - 1 <= 0
                     THEN [VBWAIT EXCEPT ![v] = FALSE] ELSE VBWAIT
        /\ IF Is(b, "ASYNC")
           THEN brelse(b, r, lru, out)
           ELSE /\ buf' = [buf EXCEPT ![b] = [r EXCEPT !.flags = @ \ {"WANTED"}]]
                /\ wakeup({b} \cup out)
                /\ UNCHANGED <<lru, bufneeded>>
    BY <1>4
  <1>5. disk[blk(b)] \in Data \cup {None}
    BY <1>0, <1>2 DEF TypeOK
  <1>6. PICK F : F = buf[b].flags \cup {"DONE"} \cup (IF err THEN {"ERROR"} ELSE {})
    OBVIOUS
  <1>7. PICK d : d = IF Is(b, "READ") THEN (IF err THEN None ELSE disk[blk(b)]) ELSE buf[b].data
    OBVIOUS
  <1>8. r = [flags |-> F, vp |-> buf[b].vp, lblkno |-> buf[b].lblkno, data |-> d,
             list |-> buf[b].list]
    BY <1>0, <1>4a, <1>6, <1>7 DEF BufStates
  <1>9. /\ r \in BufStates /\ r.vp = v /\ r.lblkno = buf[b].lblkno /\ r.list = buf[b].list
        /\ r.flags = F /\ r.data = d
    <2>1. F \in SUBSET Flags
      BY <1>0, <1>6 DEF BufStates, Flags
    <2>2. d \in Data \cup {None}
      BY <1>0, <1>5, <1>7 DEF BufStates
    <2> QED
      BY <1>0, <1>1, <1>8, <2>1, <2>2 DEF BufStates
  <1>10. \A f \in Flags : f \in r.flags <=> Is(b, f) \/ f = "DONE" \/ (f = "ERROR" /\ err)
    BY <1>6, <1>9 DEF Is
  <1>11. /\ VBWAIT' \in [Vnodes -> BOOLEAN] /\ \A w \in Vnodes \ {v} : VBWAIT'[w] = VBWAIT[w]
         /\ v \in out \/ VBWAIT'[v] = VBWAIT[v]
         /\ ~Is(b, "READ") /\ VBWAIT[v] /\ v_numoutput[v] - 1 <= 0 => v \in out
    BY <1>0, <1>2, <1>4a DEF TypeOK
  <1>12. contents' \in [Vnodes \X Blocks -> Data \cup {None}]
    BY <1>0, <1>2, <1>4a, <1>5 DEF TypeOK
  <1>13. /\ disk' \in [Vnodes \X Blocks -> Data \cup {None}]
         /\ v_numoutput' = IF Is(b, "READ") THEN v_numoutput
                           ELSE [v_numoutput EXCEPT ![v] = @ - 1]
    <2>1. d \in Data \cup {None}
      BY <1>9 DEF BufStates
    <2> QED
      BY <1>0, <1>2, <1>4a, <1>9, <2>1 DEF TypeOK
  <1>14. CASE Is(b, "ASYNC")
    <2>1. /\ ~Bad(r) /\ ~err
      BY <1>2, <1>4a, <1>10, <1>14 DEF Bad, Flags
    <2>2. PICK s : s = Freed(r)
      OBVIOUS
    <2>3. /\ s \in BufStates /\ s.vp = v /\ s.lblkno = buf[b].lblkno /\ s.list = buf[b].list
          /\ \A f \in Flags : f \in s.flags <=>
                f \notin {"ASYNC", "BUSY", "WANTED"} /\ f \in r.flags
      BY <1>2, <1>9, <2>1, <2>2, FreedOK DEF Flags
    <2>4. PICK C : C = out \cup (IF "WANTED" \in r.flags THEN {b} ELSE {})
                           \cup (IF bufneeded THEN {"bufneeded"} ELSE {})
      OBVIOUS
    <2>5. /\ buf' = [buf EXCEPT ![b] = s] /\ bufneeded' = FALSE
          /\ lru' = <<b>> \o lru \/ lru' = Append(lru, b)
          /\ wchan' = [q \in Procs |-> IF wchan[q] \in C THEN None ELSE wchan[q]]
      BY <1>4a, <1>14, <2>2, <2>4 DEF brelse, wakeup
    <2>6. lru' \in Seq(Bufs) /\ Once(lru') /\ \A c \in Bufs : OnList(c, lru') <=> c = b \/ OnList(c, lru)
      BY <1>0, <1>2, <2>5, AddedOK DEF LruOK, TypeOK
    <2>7. /\ Woken(b, v, C) /\ (v \in C \/ VBWAIT'[v] = VBWAIT[v])
          /\ ~Is(b, "ASYNC") => lru' = lru /\ bufneeded' = bufneeded
      BY <1>10, <1>11, <1>14, <2>4 DEF Flags, Woken
    <2>8. Finished(b, s)
      BY <1>1, <1>2, <1>10, <1>14, <2>1, <2>3 DEF Flags, Finished
    <2>9. /\ \A c \in Bufs : OnList(c, lru') <=> OnList(c, lru) \/ (c = b /\ Is(b, "ASYNC"))
          /\ bufneeded' \in BOOLEAN /\ lru' \in Seq(Bufs) /\ Once(lru')
      BY <1>14, <2>5, <2>6
    <2>10. /\ s \in BufStates /\ v \in Vnodes /\ v = buf[b].vp /\ b \in io
           /\ buf' = [buf EXCEPT ![b] = s]
           /\ wchan' = [q \in Procs |-> IF wchan[q] \in C THEN None ELSE wchan[q]]
      BY <1>0, <1>1, <1>2, <2>3, <2>5
    <2> QED
      BY <1>3, <1>11, <1>12, <1>13, <1>14, <2>7, <2>8, <2>9, <2>10, DoneInv
  <1>15. CASE ~Is(b, "ASYNC")
    <2>1. PICK s : s = [r EXCEPT !.flags = @ \ {"WANTED"}]
      OBVIOUS
    <2>2. /\ s \in BufStates /\ s.vp = v /\ s.lblkno = buf[b].lblkno /\ s.list = buf[b].list
          /\ s.flags = r.flags \ {"WANTED"}
      BY <1>9, <2>1 DEF BufStates
    <2>3. PICK C : C = {b} \cup out
      OBVIOUS
    <2>4. /\ buf' = [buf EXCEPT ![b] = s] /\ UNCHANGED <<lru, bufneeded>>
          /\ wchan' = [q \in Procs |-> IF wchan[q] \in C THEN None ELSE wchan[q]]
      BY <1>4a, <1>15, <2>1, <2>3 DEF wakeup
    <2>5. /\ Woken(b, v, C) /\ (v \in C \/ VBWAIT'[v] = VBWAIT[v])
          /\ ~Is(b, "ASYNC") => lru' = lru /\ bufneeded' = bufneeded
      BY <1>11, <1>15, <2>3, <2>4 DEF Woken
    <2>6. Finished(b, s)
      BY <1>1, <1>2, <1>10, <1>15, <2>2 DEF Flags, Finished
    <2>7. /\ lru' \in Seq(Bufs) /\ Once(lru') /\ bufneeded' \in BOOLEAN
          /\ \A c \in Bufs : OnList(c, lru') <=> OnList(c, lru) \/ (c = b /\ Is(b, "ASYNC"))
      BY <1>0, <1>15, <2>4 DEF TypeOK, LruOK
    <2> QED
      BY <1>0, <1>1, <1>2, <1>3, <1>11, <1>12, <1>13, <2>2, <2>4, <2>5, <2>6, <2>7, DoneInv
  <1> QED
    BY <1>14, <1>15


-----------------------------------------------------------------------------
(* The invariant holds of the empty cache and is kept by every step.       *)
LEMMA InitInv ==
    ASSUME bufinit
    PROVE  Inv
  <1>1. /\ NoBuf \in BufStates /\ NoBuf.flags = {} /\ NoBuf.vp = None /\ NoBuf.list = None
    BY FreshOK
  <1>2. /\ \A b \in Bufs : buf[b] = NoBuf /\ ~(b \in InUse) /\ ~OnList(b, lru)
        /\ hashed = {} /\ lru = <<>> /\ io = {} /\ cpu = None
        /\ \A p \in Procs : pc[p] = "idle" /\ op[p] = NoCall /\ wchan[p] = None
    BY DEF bufinit, InUse, OnList
  <1>3. TypeOK
    <2>1. disk \in [Vnodes \X Blocks -> Data \cup {None}] /\ contents = disk
      BY BufAssumption DEF bufinit
    <2>2. lru \in Seq(Bufs)
      BY <1>2
    <2>3. buf \in [Bufs -> BufStates] /\ op \in [Procs -> OpStates]
      BY <1>1, NoCallOK DEF bufinit
    <2>4. bufneeded \in BOOLEAN
      BY Zenon DEF bufinit
    <2>5. VBWAIT \in [Vnodes -> BOOLEAN]
      BY Zenon DEF bufinit
    <2>6. /\ v_numoutput \in [Vnodes -> Int] /\ pc \in [Procs -> Labels]
          /\ wchan \in [Procs -> Bufs \cup Vnodes \cup {"bufneeded", None}]
      BY DEF bufinit, Labels
    <2> QED
      BY <1>2, <2>1, <2>2, <2>3, <2>4, <2>5, <2>6 DEF TypeOK
  <1>4. LruOK /\ NoPanic
    BY <1>2 DEF LruOK, Once, NoPanic
  <1>5. OutputCounted
    <2>1. \A v \in Vnodes : {b \in io : buf[b].vp = v /\ ~Is(b, "READ")} = {}
      BY <1>2
    <2> QED
      BY <2>1, FS_EmptySet DEF OutputCounted, bufinit
  <1>6. \A p \in Procs : op[p].first = None /\ op[p].ret = "idle"
    BY <1>2 DEF NoCall
  <1>7. \A b \in Bufs : Owners(b) = {}
    BY <1>2, <1>6, BufAssumption DEF Owners
  <1>8. \A b \in Bufs : BufOK(b) /\ DirtyOK(b) /\ OwnOK(b)
    BY <1>1, <1>2, <1>7 DEF BufOK, DirtyOK, OwnOK, Dirty, Is
  <1>9. \A p \in Procs : CallOK(p) /\ HandOK(p) /\ IdOK(p) /\ SleepOK(p)
    BY <1>2, <1>6, BufAssumption
       DEF CallOK, HandOK, IdOK, SleepOK, Alone, Writing, Getting, ForBlock
  <1> QED
    BY <1>3, <1>4, <1>5, <1>8, <1>9 DEF Inv

LEMMA KernelInv ==
    ASSUME Inv, NEW p \in Procs, Kernel(p)
    PROVE  Inv'
  <1>1. CASE getblk_scan(p)
    BY <1>1, ScanInv
  <1>2. CASE getblk_found(p)
    BY <1>2, FoundInv
  <1>3. CASE getnewbuf(p)
    BY <1>3, GetnewbufInv
  <1>4. CASE getnewbuf_alloc(p)
    BY <1>4, AllocInv
  <1>5. CASE getnewbuf_recycle(p)
    BY <1>5, RecycleInv
  <1>6. CASE insert(p)
    BY <1>6, InsertInv
  <1>7. CASE bread(p)
    BY <1>7, BreadInv
  <1>8. CASE breada(p)
    BY <1>8, BreadaInv
  <1>9. CASE breada_next(p)
    BY <1>9, ReadAheadInv, ReadAheadKeptInv
  <1>10. CASE biowait(p)
    BY <1>10, BiowaitInv
  <1>11. CASE bwrite(p)
    BY <1>11, BwriteInv
  <1>12. CASE bwrite_started(p)
    BY <1>12, StartedInv
  <1>13. CASE bwrite_wait(p)
    BY <1>13, BwaitInv
  <1>14. CASE vflushbuf(p)
    BY <1>14, VflushbufInv
  <1>15. CASE vflushbuf_drain(p)
    BY <1>15, DrainInv
  <1>16. CASE vinvalbuf(p)
    BY <1>16, VinvalbufInv
  <1>17. CASE invalidate(p)
    BY <1>17, InvalidateInv
  <1> QED
    BY <1>1, <1>2, <1>3, <1>4, <1>5, <1>6, <1>7, <1>8, <1>9, <1>10, <1>11, <1>12, <1>13, <1>14,
       <1>15, <1>16, <1>17 DEF Kernel

LEMMA NextInv ==
    ASSUME Inv, ~AsyncErrors, [Next]_vars
    PROVE  Inv'
  <1>1. ASSUME NEW p \in Procs, Call(p) PROVE Inv'
    BY <1>1, CallInv
  <1>2. ASSUME NEW p \in Procs, Leave(p) PROVE Inv'
    BY <1>2, ReleasedInv, WriteInv, BdwriteInv DEF Leave
  <1>3. ASSUME NEW b \in Bufs, biodone(b) PROVE Inv'
    BY <1>3, BiodoneInv
  <1>4. CASE UNCHANGED vars
    <2>0. /\ UNCHANGED <<buf, hashed, lru, bufneeded, v_numoutput, VBWAIT, io, disk, contents>>
          /\ UNCHANGED <<pc, op, wchan, cpu>>
      BY <1>4 DEF vars, cache, vnode, device
    <2>1. TypeOK' /\ LruOK' /\ NoPanic'
      BY <2>0 DEF Inv, TypeOK, LruOK, NoPanic, InUse, Is
    <2>2. OutputCounted'
      BY <2>0 DEF Inv, OutputCounted, Is
    <2>3. ASSUME NEW b \in Bufs PROVE BufOK(b)' /\ DirtyOK(b)' /\ OwnOK(b)'
      <3>1. Owners(b)' = Owners(b)
        BY <2>0 DEF Owners
      <3>2. BufOK(b) /\ DirtyOK(b) /\ OwnOK(b)
        BY InvBuf
      <3> QED
        BY <2>0, <3>1, <3>2 DEF BufOK, DirtyOK, OwnOK, Dirty, Is, InUse
    <2>4. ASSUME NEW p \in Procs PROVE CallOK(p)' /\ HandOK(p)' /\ IdOK(p)' /\ SleepOK(p)'
      <3>1. CallOK(p) /\ HandOK(p) /\ IdOK(p) /\ SleepOK(p)
        BY InvProc
      <3>2. CallOK(p)' /\ IdOK(p)' /\ SleepOK(p)'
        BY <2>0, <3>1 DEF CallOK, ForBlock, IdOK, SleepOK, blk, Is
      <3>3. HandOK(p)'
        BY <2>0, <3>1 DEF HandOK, Transfer, Is, Owners
      <3> QED
        BY <3>2, <3>3
    <2> QED
      BY <2>1, <2>2, <2>3, <2>4 DEF Inv
  <1> QED
    BY <1>1, <1>2, <1>3, <1>4, KernelInv DEF Next

(* The cache's state stays what the rest of the argument takes it for, and *)
(* with it everything that the invariant says, when every transfer that    *)
(* nobody waits for succeeds.                                              *)
THEOREM Invariant == ~AsyncErrors => (Spec => []Inv)
  <1> SUFFICES ASSUME ~AsyncErrors PROVE Spec => []Inv
    OBVIOUS
  <1>1. bufinit => Inv
    BY InitInv
  <1>2. Inv /\ [Next]_vars => Inv'
    BY NextInv
  <1> QED
    BY <1>1, <1>2, PTL DEF Spec

(* The statements that the runs check follow from it.                      *)
LEMMA OneOwnerHolds == Inv => OneOwner
  <1> SUFFICES ASSUME Inv, NEW b \in InUse
               PROVE  LET places == Cardinality({i \in DOMAIN lru : lru[i] = b})
                      IN  /\ ~Is(b, "BUSY") <=> places = 1
                          /\ Is(b, "BUSY")  <=> places = 0
                          /\ ~Is(b, "BUSY") => Owners(b) = {} /\ b \notin io
                          /\ Is(b, "BUSY") => Cardinality(Owners(b)) =
                                IF Is(b, "ASYNC") /\ b \in io THEN 0 ELSE 1
                          /\ b \in io => ~Is(b, "DONE")
    BY DEF OneOwner
  <1>0. b \in Bufs /\ BufOK(b) /\ OwnOK(b) /\ Once(lru) /\ (OnList(b, lru) <=> ~Is(b, "BUSY"))
    <2>1. b \in Bufs
      BY DEF InUse
    <2> QED
      BY <2>1, InvBuf DEF Inv, LruOK
  <1> DEFINE S == {i \in DOMAIN lru : lru[i] = b}
  <1>1. CASE Is(b, "BUSY")
    <2>1. S = {}
      BY <1>0, <1>1 DEF OnList
    <2>2. Cardinality(S) = 0
      BY <2>1, FS_EmptySet
    <2>3. CASE Is(b, "ASYNC") /\ b \in io
      <3>1. Owners(b) = {}
        BY <1>0, <2>3 DEF OwnOK
      <3>2. Cardinality(Owners(b)) = 0
        BY <3>1, FS_EmptySet
      <3> QED
        BY <1>0, <1>1, <2>2, <2>3, <3>2 DEF BufOK
    <2>4. CASE ~(Is(b, "ASYNC") /\ b \in io)
      <3>1. PICK p : p \in Owners(b)
        BY <1>0, <1>1, <2>4 DEF OwnOK
      <3>2. Owners(b) = {p}
        BY <1>0, <3>1 DEF OwnOK
      <3>3. Cardinality(Owners(b)) = 1
        BY <3>2, FS_Singleton
      <3> QED
        BY <1>0, <1>1, <2>2, <2>4, <3>3 DEF BufOK
    <2> QED
      BY <2>3, <2>4
  <1>2. CASE ~Is(b, "BUSY")
    <2>1. PICK i \in DOMAIN lru : lru[i] = b
      BY <1>0, <1>2 DEF OnList
    <2>2. S = {i}
      BY <1>0, <2>1 DEF Once
    <2>3. Cardinality(S) = 1
      BY <2>2, FS_Singleton
    <2>4. Owners(b) = {} /\ b \notin io
      BY <1>0, <1>2, FreeOwners
    <2> QED
      BY <1>2, <2>3, <2>4
  <1> QED
    BY <1>1, <1>2

LEMMA NoMissedWakeupHolds == Inv => NoMissedWakeup
  <1> SUFFICES ASSUME Inv, NEW p \in Procs
               PROVE  /\ wchan[p] \in Bufs =>
                            IF pc[p] \in {"biowait", "bwait"}
                            THEN wchan[p] \in io /\ ~Is(wchan[p], "ASYNC")
                            ELSE Is(wchan[p], "BUSY") /\ Is(wchan[p], "WANTED")
                      /\ wchan[p] = "bufneeded" => bufneeded /\ lru = <<>>
                      /\ wchan[p] \in Vnodes => VBWAIT[wchan[p]] /\ v_numoutput[wchan[p]] > 0
    BY DEF NoMissedWakeup
  <1>1. SleepOK(p) /\ HandOK(p)
    BY InvProc
  <1> QED
    BY <1>1 DEF SleepOK, HandOK, Transfer

LEMMA DirtyListedHolds == Inv => DirtyListed
  <1> SUFFICES ASSUME Inv, NEW b \in InUse
               PROVE  /\ buf[b].vp = None <=> buf[b].list = None
                      /\ Is(b, "DELWRI") => Dirty(b)
                      /\ Is(b, "DELWRI") /\ ~Is(b, "BUSY") => Is(b, "DONE")
                      /\ cpu = None /\ ~Is(b, "BUSY") /\ Dirty(b) => Is(b, "DELWRI")
    BY DEF DirtyListed, Dirty
  <1>1. b \in Bufs /\ BufOK(b) /\ DirtyOK(b)
    BY InvBuf DEF InUse
  <1>2. ASSUME cpu = None, Dirty(b), ~Is(b, "DELWRI") PROVE FALSE
    <2>1. PICK p \in Procs : pc[p] = "started"
      BY <1>1, <1>2 DEF DirtyOK
    <2>2. cpu = p
      BY <2>1, InvProc DEF CallOK, Alone
    <2> QED
      BY <1>2, <2>2, BufAssumption
  <1> QED
    BY <1>1, <1>2 DEF BufOK

LEMMA IdentifiedHolds == Inv => Identified
  BY DEF Inv, IdOK, Identified

-----------------------------------------------------------------------------
(* getblk, getnewbuf, brelse, breada, bwrite and biodone never lose a      *)
(* buffer and never give it to two: it is free and once on the LRU list,   *)
(* or busy and one process's or the device's.                              *)
THEOREM OneOwnerAlways == ~AsyncErrors => (Spec => []OneOwner)
  BY Invariant, OneOwnerHolds, PTL

(* No process sleeps on a buffer, on bufneeded or on a vnode's output when *)
(* the brelse, biodone or vwakeup that would wake it is already over.      *)
THEOREM NoMissedWakeupAlways == ~AsyncErrors => (Spec => []NoMissedWakeup)
  BY Invariant, NoMissedWakeupHolds, PTL

(* v_numoutput, which bwrite counts up and vwakeup down, is the number of  *)
(* the vnode's writes under way.                                           *)
THEOREM OutputCountedAlways == ~AsyncErrors => (Spec => []OutputCounted)
  <1>1. Inv => OutputCounted
    BY DEF Inv
  <1> QED
    BY <1>1, Invariant, PTL

(* Every delayed write is on the dirty list that vflushbuf walks, and      *)
(* bwrite takes it off that list before another process can look.          *)
THEOREM DirtyListedAlways == ~AsyncErrors => (Spec => []DirtyListed)
  BY Invariant, DirtyListedHolds, PTL

(* The buffer that getblk, bread or breada returns is of the block that    *)
(* its caller asked for, although getblk sleeps between its search and its *)
(* return.                                                                 *)
THEOREM IdentifiedAlways == ~AsyncErrors => (Spec => []Identified)
  BY Invariant, IdentifiedHolds, PTL

(* vflushbuf never meets "vflushbuf: not dirty", and vinvalbuf never       *)
(* "reassignbuf: NULL".                                                    *)
THEOREM NoPanicAlways == ~AsyncErrors => (Spec => []NoPanic)
  <1>1. Inv => NoPanic
    BY DEF Inv
  <1> QED
    BY <1>1, Invariant, PTL
=============================================================================
