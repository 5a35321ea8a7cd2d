---------------------------- MODULE BufDataProofs ----------------------------
(***************************************************************************)
(* Proofs about the data in the buffer cache (BufCache): a block has one   *)
(* buffer, and the cache shows the block as the writes made it.  Both hold *)
(* when the users of every vnode hold its lock; without the lock, getblk's *)
(* sleep in getnewbuf can give a block two buffers.                        *)
(***************************************************************************)
EXTENDS BufCacheProofs

(* A buffer that a search for its block would find.                        *)
Valid(b) == b \in hashed /\ ~Is(b, "INVAL")

(* The users of a vnode take turns.                                        *)
Turns == \A p, q \in Procs : op[p].vn # None /\ op[p].vn = op[q].vn => p = q

(* A process that searched for its block in vain, and nobody has brought   *)
(* it in since.                                                            *)
Searched(p) == \/ pc[p] \in {"getnewbuf", "malloc", "recycle", "insert"}
               \/ pc[p] \in Writing /\ op[p].ret = "recycle"
AbsentOK(p) == Searched(p) /\ op[p].call # "geteblk" =>
    \A c \in Bufs : Valid(c) => blk(c) # <<op[p].vn, op[p].lbn>>

UniqueInv ==
    /\ Turns /\ UniqueBlock
    /\ \A b \in Bufs : Valid(b) => buf[b].vp # None
    /\ \A p \in Procs : AbsentOK(p)

(* A buffer with data that the device does not have yet.                   *)
AtBwrite(b) == \E p \in Procs : pc[p] = "bwrite" /\ op[p].bp = b
Ahead(b) == Is(b, "DELWRI") \/ (b \in io /\ ~Is(b, "READ")) \/ AtBwrite(b)
Has(b)   == Is(b, "DONE") \/ Ahead(b)

DataOK(b) == Valid(b) =>
    /\ Has(b) /\ ~Is(b, "ERROR") => buf[b].data = contents[blk(b)]
    /\ Ahead(b) => ~Is(b, "ERROR")
DiskOK(k) == disk[k] = contents[k] \/ \E b \in Bufs : Valid(b) /\ blk(b) = k /\ Ahead(b)

DataInv ==
    /\ \A b \in Bufs : DataOK(b)
    /\ \A k \in Vnodes \X Blocks : DiskOK(k)

-----------------------------------------------------------------------------
(* Steps that bring no block in, and that leave the data alone.            *)
LEMMA UniqueKept ==
    ASSUME UniqueInv, hashed' \subseteq Bufs, Turns',
           \A c \in Bufs : Valid(c)' => Valid(c) /\ blk(c)' = blk(c),
           \A q \in Procs : (Searched(q) /\ op[q].call # "geteblk")' =>
              \A c \in Bufs : Valid(c) => blk(c) # <<op'[q].vn, op'[q].lbn>>
    PROVE  UniqueInv'
  <1>1. \A c \in Bufs : Valid(c)' => buf'[c].vp # None
    BY DEF UniqueInv, blk
  <1>2. UniqueBlock'
    <2> SUFFICES ASSUME NEW b \in hashed', NEW c \in hashed', b # c,
                        ~Is(b, "INVAL")', ~Is(c, "INVAL")'
                 PROVE  blk(b)' # blk(c)'
      BY DEF UniqueBlock
    <2>1. Valid(b) /\ Valid(c) /\ blk(b)' = blk(b) /\ blk(c)' = blk(c)
      BY DEF Valid
    <2> QED
      BY <2>1 DEF UniqueInv, UniqueBlock, Valid
  <1>3. \A q \in Procs : AbsentOK(q)'
    BY DEF AbsentOK
  <1> QED
    BY <1>1, <1>2, <1>3 DEF UniqueInv

LEMMA DataKept ==
    ASSUME DataInv, UNCHANGED <<disk, contents>>,
           \A c \in Bufs :
              /\ (Valid(c) /\ Has(c))' =>
                    /\ Valid(c) /\ Has(c) /\ blk(c)' = blk(c) /\ buf'[c].data = buf[c].data
                    /\ (Is(c, "ERROR")' <=> Is(c, "ERROR")) /\ (Ahead(c)' => Ahead(c))
              /\ Valid(c) /\ Ahead(c) => (Valid(c) /\ Ahead(c))' /\ blk(c)' = blk(c)
    PROVE  DataInv'
  <1>1. ASSUME NEW c \in Bufs PROVE DataOK(c)'
    <2>1. DataOK(c)
      BY DEF DataInv
    <2>2. CASE (Valid(c) /\ Has(c))'
      BY <2>1, <2>2 DEF DataOK
    <2>3. CASE ~(Valid(c) /\ Has(c))'
      BY <2>3 DEF DataOK, Has
    <2> QED
      BY <2>2, <2>3
  <1>2. ASSUME NEW k \in Vnodes \X Blocks PROVE DiskOK(k)'
    <2>1. DiskOK(k)
      BY DEF DataInv
    <2> QED
      BY <2>1 DEF DiskOK
  <1> QED
    BY <1>1, <1>2 DEF DataInv

(* While p runs, no other process has called bwrite and not started it.    *)
LEMMA RunsBwrite ==
    ASSUME Inv, NEW p \in Procs, Runs(p), NEW c
    PROVE  AtBwrite(c) <=> pc[p] = "bwrite" /\ op[p].bp = c
  <1>1. \A q \in Procs : pc[q] = "bwrite" => q = p
    <2>1. \A q \in Procs : pc[q] = "bwrite" => cpu = q
      BY InvProc DEF CallOK, Alone
    <2> QED
      BY <2>1, BufAssumption DEF Runs
  <1> QED
    BY <1>1 DEF AtBwrite

(* A step of p that changes at most buffer b, and its data not at all.     *)
Same(b) ==
    /\ Valid(b)' => /\ Valid(b) /\ blk(b)' = blk(b) /\ buf'[b].data = buf[b].data
                    /\ (Is(b, "ERROR")' <=> Is(b, "ERROR"))
                    /\ (Has(b)' => Has(b)) /\ (Ahead(b)' => Ahead(b))
    /\ Valid(b) /\ Ahead(b) => Valid(b)' /\ Ahead(b)'
Others(p, b) ==
    /\ \A q \in Procs \ {p} : pc'[q] = pc[q] /\ op'[q] = op[q]
    /\ \A c \in Bufs \ {b} : /\ buf'[c] = buf[c] /\ (c \in io' <=> c \in io)
                             /\ c \in hashed' <=> c \in hashed
    /\ pc[p] = "bwrite" => op[p].bp = b
    /\ pc'[p] = "bwrite" => op'[p].bp = b
Turn(p) ==
    /\ \A q \in Procs \ {p} : op'[p].vn # None => op[q].vn # op'[p].vn
    /\ (Searched(p) /\ op[p].call # "geteblk")' =>
          \A c \in Bufs : Valid(c) => blk(c) # <<op'[p].vn, op'[p].lbn>>

LEMMA OthersSame ==
    ASSUME Inv, NEW p \in Procs, Runs(p), NEW b, Others(p, b)
    PROVE  \A c \in Bufs : /\ AtBwrite(c)' <=> pc'[p] = "bwrite" /\ op'[p].bp = c
                           /\ c # b => /\ Same(c) /\ (Valid(c)' <=> Valid(c)) /\ blk(c)' = blk(c)
                                       /\ (Ahead(c)' <=> Ahead(c)) /\ (Has(c)' <=> Has(c))
                                       /\ (Is(c, "ERROR")' <=> Is(c, "ERROR"))
                                       /\ buf'[c].data = buf[c].data
  <1> SUFFICES ASSUME NEW c \in Bufs
               PROVE  /\ AtBwrite(c)' <=> pc'[p] = "bwrite" /\ op'[p].bp = c
                      /\ c # b => /\ Same(c) /\ (Valid(c)' <=> Valid(c)) /\ blk(c)' = blk(c)
                                  /\ (Ahead(c)' <=> Ahead(c)) /\ (Has(c)' <=> Has(c))
                                  /\ (Is(c, "ERROR")' <=> Is(c, "ERROR"))
                                  /\ buf'[c].data = buf[c].data
    OBVIOUS
  <1>1. \A q \in Procs \ {p} : pc[q] # "bwrite"
    <2>1. \A q \in Procs : pc[q] = "bwrite" => cpu = q
      BY InvProc DEF CallOK, Alone
    <2> QED
      BY <2>1, BufAssumption DEF Runs
  <1>2. AtBwrite(c)' <=> pc'[p] = "bwrite" /\ op'[p].bp = c
    BY <1>1 DEF AtBwrite, Others
  <1>3. ASSUME c # b
        PROVE  /\ (Valid(c)' <=> Valid(c)) /\ blk(c)' = blk(c) /\ (Ahead(c)' <=> Ahead(c))
               /\ (Has(c)' <=> Has(c)) /\ (Is(c, "ERROR")' <=> Is(c, "ERROR"))
               /\ buf'[c].data = buf[c].data
    <2>1. /\ buf'[c] = buf[c] /\ (c \in io' <=> c \in io) /\ (c \in hashed' <=> c \in hashed)
          /\ ~AtBwrite(c)' /\ ~AtBwrite(c)
      BY <1>2, <1>3, RunsBwrite DEF Others
    <2>2. /\ \A f : Is(c, f)' <=> Is(c, f)
          /\ blk(c)' = blk(c) /\ buf'[c].data = buf[c].data
      BY <2>1 DEF Is, blk
    <2>3. Ahead(c)' <=> Ahead(c)
      BY <2>1, <2>2 DEF Ahead
    <2> QED
      BY <2>1, <2>2, <2>3 DEF Has, Valid
  <1>4. c # b => Same(c)
    BY <1>3 DEF Same
  <1> QED
    BY <1>2, <1>3, <1>4

(* The part of a step that is about searches.                              *)
LEMMA TurnKept ==
    ASSUME Inv, Inv', UniqueInv, NEW p \in Procs, Runs(p), NEW b, Others(p, b), Turn(p),
           b \in Bufs => (Valid(b)' => Valid(b) /\ blk(b)' = blk(b))
    PROVE  UniqueInv'
  <1>1. \A c \in Bufs : Valid(c)' => Valid(c) /\ blk(c)' = blk(c)
    BY OthersSame
  <1>2. Turns'
    <2> SUFFICES ASSUME NEW q \in Procs, NEW s \in Procs, op'[q].vn # None,
                        op'[q].vn = op'[s].vn
                 PROVE  q = s
      BY DEF Turns
    <2>1. CASE q # p /\ s # p
      BY <2>1 DEF UniqueInv, Turns, Others
    <2>2. CASE q = p \/ s = p
      BY <2>2 DEF Turn, Others
    <2> QED
      BY <2>1, <2>2
  <1>3. ASSUME NEW q \in Procs, (Searched(q) /\ op[q].call # "geteblk")'
        PROVE  \A c \in Bufs : Valid(c) => blk(c) # <<op'[q].vn, op'[q].lbn>>
    <2>1. CASE q = p
      BY <1>3, <2>1 DEF Turn
    <2>2. CASE q # p
      <3>1. op'[q] = op[q] /\ pc'[q] = pc[q]
        BY <2>2 DEF Others
      <3> QED
        BY <1>3, <3>1 DEF UniqueInv, AbsentOK, Searched
    <2> QED
      BY <2>1, <2>2
  <1>4. hashed' \subseteq Bufs
    BY DEF Inv, TypeOK
  <1> QED
    BY <1>1, <1>2, <1>3, <1>4, UniqueKept

LEMMA StepKept ==
    ASSUME Inv, Inv', UniqueInv, DataInv, NEW p \in Procs, Runs(p), NEW b, Others(p, b), Turn(p),
           b \in Bufs => Same(b), UNCHANGED <<disk, contents>>
    PROVE  UniqueInv' /\ DataInv'
  <1>1. UniqueInv'
    BY TurnKept DEF Same
  <1>2. \A c \in Bufs : Same(c)
    BY OthersSame
  <1>3. \A c \in Bufs : Valid(c) /\ Ahead(c) => blk(c)' = blk(c)
    BY <1>2 DEF Same
  <1>4. DataInv'
    BY <1>2, <1>3, DataKept DEF Same
  <1> QED
    BY <1>1, <1>4

(* A call that goes on, or ends.                                           *)
LEMMA TurnOK ==
    ASSUME UniqueInv, NEW p \in Procs, op'[p].vn \in {op[p].vn, None},
           Searched(p)' => /\ Searched(p) /\ op'[p].call = op[p].call
                           /\ op'[p].vn = op[p].vn /\ op'[p].lbn = op[p].lbn
    PROVE  Turn(p)
  <1>1. \A q \in Procs \ {p} : op'[p].vn # None => op[q].vn # op'[p].vn
    BY DEF UniqueInv, Turns
  <1>2. AbsentOK(p)
    BY DEF UniqueInv
  <1> QED
    BY <1>1, <1>2 DEF Turn, AbsentOK

(* Steps that leave all buffers alone.                                     *)
LEMMA PlainData ==
    ASSUME Inv, Inv', UniqueInv, DataInv, NEW p \in Procs, Runs(p), pc[p] # "bwrite",
           NEW l, l # "bwrite", pc' = [pc EXCEPT ![p] = l],
           NEW o, op' = [op EXCEPT ![p] = o], Turn(p),
           UNCHANGED <<buf, hashed, io, disk, contents>>
    PROVE  UniqueInv' /\ DataInv'
  <1>1. pc'[p] = l /\ \A q \in Procs \ {p} : pc'[q] = pc[q] /\ op'[q] = op[q]
    BY DEF Inv, TypeOK
  <1>2. Others(p, None)
    BY <1>1 DEF Others
  <1> QED
    BY <1>2, BufAssumption, StepKept

LEMMA NoCallData ==
    /\ NoCall.vn = None /\ NoCall.bp = None
  BY DEF NoCall

LEMMA CallData ==
    ASSUME Locked = Vnodes, Inv, Inv', UniqueInv, DataInv, NEW p \in Procs, Call(p)
    PROVE  UniqueInv' /\ DataInv'
  <1>0. TypeOK /\ Runs(p) /\ pc[p] = "idle"
    BY DEF Inv, Call
  <1>1. PICK c \in Calls, v \in Vnodes, l \in Blocks, n \in Blocks \cup {None}, flag \in BOOLEAN :
          LET flush == c \in {"vflushbuf", "vinvalbuf"} IN
          /\ v \in Locked => \A q \in Procs : op[q].vn # v
          /\ IF c = "breada" THEN n \notin {None, l} ELSE n = None
          /\ flag => flush
          /\ op' = [op EXCEPT ![p] =
                 [NoCall EXCEPT !.call = c, !.next = n, !.flag = flag,
                                !.vn = IF c = "geteblk" THEN None ELSE v,
                                !.lbn = IF flush \/ c = "geteblk" THEN None ELSE l]]
          /\ Goto(p, IF flush THEN c ELSE IF c = "geteblk" THEN "getnewbuf" ELSE "getblk")
    BY Zenon DEF Call
  <1>2. PICK o : o = [NoCall EXCEPT !.call = c, !.next = n, !.flag = flag,
                                !.vn = IF c = "geteblk" THEN None ELSE v,
                                !.lbn = IF c \in {"vflushbuf", "vinvalbuf"} \/ c = "geteblk"
                                        THEN None ELSE l]
    OBVIOUS
  <1>3. PICK w : w = IF c \in {"vflushbuf", "vinvalbuf"} THEN c
                     ELSE IF c = "geteblk" THEN "getnewbuf" ELSE "getblk"
    OBVIOUS
  <1>4. op' = [op EXCEPT ![p] = o] /\ pc' = [pc EXCEPT ![p] = w]
    BY <1>1, <1>2, <1>3 DEF Goto
  <1>5. o.call = c /\ o.vn = (IF c = "geteblk" THEN None ELSE v) /\ o.ret = "idle"
    BY <1>2 DEF NoCall
  <1>6. op'[p] = o /\ pc'[p] = w
    BY <1>0, <1>4 DEF TypeOK
  <1>7. Turn(p)
    <2>1. \A q \in Procs \ {p} : o.vn # None => op[q].vn # o.vn
      BY <1>1, <1>5
    <2>2. Searched(p)' => c = "geteblk"
      BY <1>3, <1>5, <1>6 DEF Searched, Writing
    <2> QED
      BY <1>5, <1>6, <2>1, <2>2 DEF Turn
  <1>8. w # "bwrite" /\ UNCHANGED <<buf, hashed, io, disk, contents>>
    BY <1>3 DEF Call, cache, device
  <1> QED
    BY <1>0, <1>4, <1>7, <1>8, PlainData

(* p goes from one place to another, and nothing of its call changes that  *)
(* a search is about.                                                      *)
LEMMA MoveData ==
    ASSUME Inv, Inv', UniqueInv, DataInv, NEW p \in Procs, Runs(p), pc[p] # "bwrite",
           NEW l, pc' = [pc EXCEPT ![p] = l], l \notin Writing,
           NEW o, op' = [op EXCEPT ![p] = o], o.vn \in {op[p].vn, None},
           l \in {"getnewbuf", "malloc", "recycle", "insert"} =>
              /\ pc[p] \in {"getnewbuf", "malloc", "recycle", "insert"}
              /\ o.call = op[p].call /\ o.vn = op[p].vn /\ o.lbn = op[p].lbn,
           UNCHANGED <<buf, hashed, io, disk, contents>>
    PROVE  UniqueInv' /\ DataInv'
  <1>1. op'[p] = o /\ pc'[p] = l
    BY DEF Inv, TypeOK
  <1>2. Turn(p)
    BY <1>1, TurnOK DEF Searched, Writing
  <1>3. l # "bwrite"
    BY DEF Writing
  <1> QED
    BY <1>2, <1>3, PlainData

LEMMA LeaveData ==
    ASSUME Inv, Inv', UniqueInv, DataInv, NEW p \in Procs, Runs(p), pc[p] # "bwrite",
           NEW l \in {"found", "idle", "invalidate"}, pc' = [pc EXCEPT ![p] = l],
           NEW o, op' = [op EXCEPT ![p] = o], o.vn = op[p].vn \/ o.vn = None,
           UNCHANGED <<buf, hashed, io, disk, contents>>
    PROVE  UniqueInv' /\ DataInv'
  <1>1. l \notin Writing /\ l \notin {"getnewbuf", "malloc", "recycle", "insert"}
        /\ o.vn \in {op[p].vn, None}
    BY DEF Writing
  <1> QED
    BY <1>1, MoveData

LEMMA ScanData ==
    ASSUME Inv, Inv', UniqueInv, DataInv, NEW p \in Procs, getblk_scan(p)
    PROVE  UniqueInv' /\ DataInv'
  <1>0. /\ TypeOK /\ Runs(p) /\ pc[p] = "getblk" /\ op[p] \in OpStates
        /\ UNCHANGED <<buf, hashed, io, disk, contents>>
    BY RunsFacts DEF getblk_scan, cache, device
  <1>1. CASE \E b \in Cached(op[p].vn, op[p].lbn) :
               op' = [op EXCEPT ![p].bp = b] /\ Goto(p, "found")
    <2>1. PICK b : op' = [op EXCEPT ![p].bp = b] /\ Goto(p, "found")
      BY <1>1
    <2>2. PICK o : o = [op[p] EXCEPT !.bp = b]
      OBVIOUS
    <2>3. /\ op' = [op EXCEPT ![p] = o] /\ o.vn = op[p].vn /\ pc' = [pc EXCEPT ![p] = "found"]
      BY <1>0, <2>1, <2>2 DEF OpStates, Goto
    <2> QED
      BY <1>0, <2>3, LeaveData
  <1>2. CASE Cached(op[p].vn, op[p].lbn) = {} /\ Goto(p, "getnewbuf") /\ UNCHANGED op
    <2>1. \A c \in Bufs : Valid(c) => blk(c) # <<op[p].vn, op[p].lbn>>
      BY <1>2 DEF Cached, Valid
    <2>2. pc' = [pc EXCEPT ![p] = "getnewbuf"] /\ op' = [op EXCEPT ![p] = op[p]] /\ op' = op
      BY <1>0, <1>2, RunsFacts DEF Goto
    <2>3. Turn(p)
      BY <2>1, <2>2 DEF Turn, UniqueInv, Turns
    <2> QED
      BY <1>0, <2>2, <2>3, PlainData
  <1> QED
    BY <1>1, <1>2 DEF getblk_scan

LEMMA GetnewbufData ==
    ASSUME Inv, Inv', UniqueInv, DataInv, NEW p \in Procs, getnewbuf(p)
    PROVE  UniqueInv' /\ DataInv'
  <1>0. /\ TypeOK /\ Runs(p) /\ pc[p] = "getnewbuf" /\ op[p] \in OpStates
        /\ UNCHANGED <<buf, hashed, io, disk, contents>>
    BY RunsFacts DEF getnewbuf, cache, device
  <1>1. PICK o, l : /\ op' = [op EXCEPT ![p] = o] /\ pc' = [pc EXCEPT ![p] = l]
                    /\ l \in {"malloc", "recycle"}
                    /\ o.call = op[p].call /\ o.vn = op[p].vn /\ o.lbn = op[p].lbn
    <2>1. CASE Yield(p, "malloc") /\ UNCHANGED op
      BY <1>0, <2>1, RunsFacts DEF Yield
    <2>2. CASE Goto(p, "recycle") /\ op' = [op EXCEPT ![p].needfree = 1]
      <3>1. PICK o : o = [op[p] EXCEPT !.needfree = 1]
        OBVIOUS
      <3>2. op' = [op EXCEPT ![p] = o] /\ pc' = [pc EXCEPT ![p] = "recycle"]
        BY <2>2, <3>1 DEF Goto
      <3>3. o.call = op[p].call /\ o.vn = op[p].vn /\ o.lbn = op[p].lbn
        BY <1>0, <3>1 DEF OpStates
      <3> QED
        BY <3>2, <3>3
    <2> QED
      BY <2>1, <2>2 DEF getnewbuf
  <1> QED
    BY <1>0, <1>1, MoveData DEF Writing

(* p's call ends, with no buffer changed.                                  *)
LEMMA ReturnData ==
    ASSUME Inv, Inv', UniqueInv, DataInv, NEW p \in Procs, Runs(p), pc[p] # "bwrite", Return(p),
           UNCHANGED <<buf, hashed, io, disk, contents>>
    PROVE  UniqueInv' /\ DataInv'
  <1>1. pc' = [pc EXCEPT ![p] = "idle"] /\ op' = [op EXCEPT ![p] = NoCall]
    BY DEF Return, Yield
  <1> QED
    BY <1>1, NoCallData, LeaveData

(* p goes on with its call as it is, with no buffer changed.               *)
LEMMA GoData ==
    ASSUME Inv, Inv', UniqueInv, DataInv, NEW p \in Procs, Runs(p), pc[p] # "bwrite",
           NEW l, pc' = [pc EXCEPT ![p] = l], UNCHANGED op,
           l \notin Writing \cup {"getnewbuf", "malloc", "insert"}, l = "recycle" => pc[p] = "recycle",
           UNCHANGED <<buf, hashed, io, disk, contents>>
    PROVE  UniqueInv' /\ DataInv'
  <1>1. op' = [op EXCEPT ![p] = op[p]]
    BY RunsFacts
  <1> QED
    BY <1>1, MoveData

LEMMA BiowaitData ==
    ASSUME Inv, Inv', UniqueInv, DataInv, NEW p \in Procs, biowait(p)
    PROVE  UniqueInv' /\ DataInv'
  <1>1. /\ Runs(p) /\ pc[p] = "biowait" /\ UNCHANGED <<buf, hashed, io, disk, contents>>
        /\ UNCHANGED op
    BY DEF biowait, cache, device
  <1>2. PICK l \in {"hold", "biowait"} : pc' = [pc EXCEPT ![p] = l]
    BY DEF biowait, Yield
  <1> QED
    BY <1>1, <1>2, GoData DEF Writing

LEMMA DrainData ==
    ASSUME Inv, Inv', UniqueInv, DataInv, NEW p \in Procs, vflushbuf_drain(p)
    PROVE  UniqueInv' /\ DataInv'
  <1>1. /\ Runs(p) /\ pc[p] = "drain" /\ UNCHANGED <<buf, hashed, io, disk, contents>>
    BY DEF vflushbuf_drain, cache, device
  <1>2. CASE Return(p)
    BY <1>1, <1>2, ReturnData
  <1>3. CASE \E l \in {"drain", "vflushbuf"} : pc' = [pc EXCEPT ![p] = l] /\ UNCHANGED op
    BY <1>1, <1>3, GoData DEF Writing
  <1> QED
    BY <1>2, <1>3 DEF vflushbuf_drain, Yield, Goto

LEMMA VinvalbufData ==
    ASSUME Inv, Inv', UniqueInv, DataInv, NEW p \in Procs, vinvalbuf(p)
    PROVE  UniqueInv' /\ DataInv'
  <1>1. /\ Runs(p) /\ pc[p] = "vinvalbuf" /\ UNCHANGED <<buf, hashed, io, disk, contents>>
        /\ op[p] \in OpStates
    BY RunsFacts DEF vinvalbuf, cache, device
  <1>2. CASE Return(p)
    BY <1>1, <1>2, ReturnData
  <1>3. CASE \E b, n : op' = [op EXCEPT ![p].bp = b, ![p].nbp = n] /\ Goto(p, "invalidate")
    <2>1. PICK b, n : op' = [op EXCEPT ![p].bp = b, ![p].nbp = n] /\ Goto(p, "invalidate")
      BY <1>3
    <2>2. PICK o : o = [op[p] EXCEPT !.bp = b, !.nbp = n]
      OBVIOUS
    <2>3. op' = [op EXCEPT ![p] = o] /\ pc' = [pc EXCEPT ![p] = "invalidate"] /\ o.vn = op[p].vn
      BY <1>1, <2>1, <2>2 DEF OpStates, Goto
    <2> QED
      BY <1>1, <2>3, LeaveData
  <1> QED
    BY <1>2, <1>3 DEF vinvalbuf

-----------------------------------------------------------------------------
(* Steps that change the flags of a buffer.                                *)
LEMMA TouchData ==
    ASSUME Inv, Inv', UniqueInv, DataInv, NEW p \in Procs, Runs(p), pc[p] # "bwrite",
           NEW b \in Bufs, NEW r, buf' = [buf EXCEPT ![b] = r],
           r.vp = buf[b].vp, r.lblkno = buf[b].lblkno, r.data = buf[b].data,
           \A f \in {"ERROR", "INVAL", "DONE", "DELWRI", "READ"} : f \in r.flags <=> Is(b, f),
           NEW l, pc' = [pc EXCEPT ![p] = l], NEW o, op' = [op EXCEPT ![p] = o], Turn(p),
           l = "bwrite" => o.bp = b /\ Is(b, "DELWRI"),
           UNCHANGED <<hashed, io, disk, contents>>
    PROVE  UniqueInv' /\ DataInv'
  <1>1. /\ pc'[p] = l /\ op'[p] = o /\ \A q \in Procs \ {p} : pc'[q] = pc[q] /\ op'[q] = op[q]
        /\ buf'[b] = r /\ \A c \in Bufs \ {b} : buf'[c] = buf[c]
    BY DEF Inv, TypeOK
  <1>2. Others(p, b)
    BY <1>1 DEF Others
  <1>3. /\ AtBwrite(b)' => Is(b, "DELWRI")
        /\ ~AtBwrite(b)
    BY <1>1, <1>2, OthersSame, RunsBwrite
  <1>4. \A f \in {"ERROR", "INVAL", "DONE", "DELWRI", "READ"} : Is(b, f)' <=> Is(b, f)
    BY <1>1 DEF Is
  <1>5. (Valid(b)' <=> Valid(b)) /\ (Ahead(b)' <=> Ahead(b)) /\ (Has(b)' <=> Has(b))
    BY <1>3, <1>4 DEF Valid, Ahead, Has
  <1>6. Same(b)
    BY <1>1, <1>4, <1>5 DEF Same, blk
  <1> QED
    BY <1>2, <1>6, StepKept

LEMMA FreedKeeps ==
    ASSUME NEW r \in BufStates
    PROVE  Freed(r).data = r.data
  <1>1. CASE Bad(r)
    <2>1. PICK s : s = [r EXCEPT !.flags = (@ \cup {"INVAL"}) \ {"DELWRI"}]
      OBVIOUS
    <2>2. PICK t : t = brelvp(s)
      OBVIOUS
    <2>3. t.data = r.data /\ t = [flags |-> (r.flags \cup {"INVAL"}) \ {"DELWRI"}, vp |-> None,
                                  lblkno |-> r.lblkno, data |-> r.data, list |-> None]
      BY <2>1, <2>2 DEF brelvp, BufStates
    <2>4. Freed(r) = [t EXCEPT !.flags = @ \ {"ASYNC", "BUSY", "WANTED"}]
      BY <1>1, <2>1, <2>2 DEF Freed
    <2> QED
      BY <2>3, <2>4
  <1>2. CASE ~Bad(r)
    BY <1>2 DEF Freed, BufStates
  <1> QED
    BY <1>1, <1>2

(* brelse by its owner.                                                    *)
LEMMA FreeData ==
    ASSUME Inv, Inv', UniqueInv, DataInv, NEW p \in Procs, Runs(p), pc[p] # "bwrite",
           NEW b \in Bufs, buf' = [buf EXCEPT ![b] = Freed(buf[b])],
           NEW l, pc' = [pc EXCEPT ![p] = l], NEW o, op' = [op EXCEPT ![p] = o], Turn(p),
           l # "bwrite", UNCHANGED <<hashed, io, disk, contents>>
    PROVE  UniqueInv' /\ DataInv'
  <1>0. buf[b] \in BufStates
    BY InvBuf
  <1>1. /\ pc'[p] = l /\ op'[p] = o /\ \A q \in Procs \ {p} : pc'[q] = pc[q] /\ op'[q] = op[q]
        /\ buf'[b] = Freed(buf[b]) /\ \A c \in Bufs \ {b} : buf'[c] = buf[c]
    BY DEF Inv, TypeOK
  <1>2. Others(p, b)
    BY <1>1 DEF Others
  <1>3. ~AtBwrite(b)' /\ ~AtBwrite(b)
    BY <1>1, <1>2, OthersSame, RunsBwrite
  <1>4. CASE Bad(buf[b])
    <2>1. Is(b, "INVAL")'
      BY <1>0, <1>1, <1>4, FreedOK DEF Is, Flags
    <2>2. Valid(b) => ~Ahead(b)
      <3>1. DataOK(b)
        BY DEF DataInv
      <3> QED
        BY <1>4, <3>1 DEF DataOK, Valid, Is, Bad
    <2>3. Same(b)
      BY <2>1, <2>2 DEF Same, Valid
    <2> QED
      BY <1>2, <2>3, StepKept
  <1>5. CASE ~Bad(buf[b])
    <2>1. \A f \in {"ERROR", "INVAL", "DONE", "DELWRI", "READ"} : Is(b, f)' <=> Is(b, f)
      BY <1>0, <1>1, <1>5, FreedOK DEF Is, Flags
    <2>2. /\ buf'[b].vp = buf[b].vp /\ buf'[b].lblkno = buf[b].lblkno
          /\ buf'[b].data = buf[b].data
      BY <1>0, <1>1, <1>5, FreedOK, FreedKeeps
    <2>3. (Valid(b)' <=> Valid(b)) /\ (Ahead(b)' <=> Ahead(b)) /\ (Has(b)' <=> Has(b))
      BY <1>3, <2>1 DEF Valid, Ahead, Has
    <2>4. Same(b)
      BY <2>1, <2>2, <2>3 DEF Same, blk
    <2> QED
      BY <1>2, <2>4, StepKept
  <1> QED
    BY <1>4, <1>5

(* A read is started, by the owner of a buffer that has no data.           *)
LEMMA ReadData ==
    ASSUME Inv, Inv', UniqueInv, DataInv, NEW p \in Procs, Runs(p), pc[p] # "bwrite",
           NEW b \in Bufs, b \notin io, ~Is(b, "DONE"), ~Is(b, "DELWRI"),
           NEW F, F \subseteq {"READ", "ASYNC"}, "READ" \in F, strategy(b, buf[b].flags \cup F),
           NEW l, pc' = [pc EXCEPT ![p] = l], NEW o, op' = [op EXCEPT ![p] = o], Turn(p),
           l # "bwrite", UNCHANGED <<hashed, disk, contents>>
    PROVE  UniqueInv' /\ DataInv'
  <1>0. buf[b] \in BufStates
    BY InvBuf
  <1>1. /\ pc'[p] = l /\ op'[p] = o /\ \A q \in Procs \ {p} : pc'[q] = pc[q] /\ op'[q] = op[q]
        /\ \A c \in Bufs \ {b} : buf'[c] = buf[c] /\ (c \in io' <=> c \in io)
    BY DEF Inv, TypeOK, strategy
  <1>2. buf'[b] = [buf[b] EXCEPT !.flags = buf[b].flags \cup F]
    BY DEF Inv, TypeOK, strategy
  <1>3. /\ buf'[b].vp = buf[b].vp /\ buf'[b].lblkno = buf[b].lblkno
        /\ buf'[b].data = buf[b].data /\ buf'[b].flags = buf[b].flags \cup F
    BY <1>0, <1>2 DEF BufStates
  <1>4. Others(p, b)
    BY <1>1 DEF Others
  <1>5. ~AtBwrite(b)' /\ ~AtBwrite(b)
    BY <1>1, <1>4, OthersSame, RunsBwrite
  <1>6. /\ \A f \in {"ERROR", "INVAL", "DONE", "DELWRI"} : Is(b, f)' <=> Is(b, f)
        /\ Is(b, "READ")'
    BY <1>3 DEF Is
  <1>7. (Valid(b)' <=> Valid(b)) /\ ~Ahead(b)' /\ ~Ahead(b) /\ ~Has(b)'
    BY <1>5, <1>6 DEF Valid, Ahead, Has
  <1>8. Same(b)
    BY <1>3, <1>6, <1>7 DEF Same, blk
  <1> QED
    BY <1>4, <1>8, StepKept

LEMMA FoundData ==
    ASSUME Inv, Inv', UniqueInv, DataInv, NEW p \in Procs, getblk_found(p)
    PROVE  UniqueInv' /\ DataInv'
  <1>1. PICK b : b = op[p].bp
    OBVIOUS
  <1>0. /\ TypeOK /\ Runs(p) /\ pc[p] = "found" /\ op[p] \in OpStates /\ b \in Bufs
        /\ buf[b] \in BufStates /\ UNCHANGED <<hashed, io, disk, contents>>
        /\ op = [op EXCEPT ![p] = op[p]]
    <2>1. /\ Runs(p) /\ pc[p] = "found" /\ UNCHANGED <<hashed, io, disk, contents>>
      BY DEF getblk_found, device
    <2>2. TypeOK /\ op[p] \in OpStates /\ HandOK(p) /\ op = [op EXCEPT ![p] = op[p]]
      BY <2>1, RunsFacts
    <2>3. b \in Bufs
      BY <1>1, <2>1, <2>2 DEF HandOK
    <2> QED
      BY <2>1, <2>2, <2>3, InvBuf
  <1>2. PICK F \in {buf[b].flags \cup {"WANTED"}, (buf[b].flags \cup {"BUSY"}) \ {"AGE"}},
             l \in {"getblk", "got"}, o \in {op[p], [op[p] EXCEPT !.bp = None]} :
          /\ buf' = [buf EXCEPT ![b].flags = F]
          /\ pc' = [pc EXCEPT ![p] = l] /\ op' = [op EXCEPT ![p] = o]
    <2>1. CASE Is(b, "BUSY")
      BY <1>0, <1>1, <2>1 DEF getblk_found, Yield
    <2>2. CASE ~Is(b, "BUSY")
      BY <1>0, <1>1, <2>2 DEF getblk_found, Goto
    <2> QED
      BY <2>1, <2>2
  <1>3. PICK r : r = [buf[b] EXCEPT !.flags = F]
    OBVIOUS
  <1>4. /\ buf' = [buf EXCEPT ![b] = r] /\ r.flags = F /\ r.vp = buf[b].vp
        /\ r.lblkno = buf[b].lblkno /\ r.data = buf[b].data
    BY <1>0, <1>2, <1>3 DEF BufStates
  <1>5. \A f \in {"ERROR", "INVAL", "DONE", "DELWRI", "READ"} : f \in r.flags <=> Is(b, f)
    BY <1>2, <1>4 DEF Is
  <1>6. op'[p] = o /\ pc'[p] = l /\ o.vn = op[p].vn /\ o.ret = op[p].ret
    BY <1>0, <1>2 DEF TypeOK, OpStates
  <1>7. Turn(p)
    BY <1>2, <1>6, TurnOK DEF Searched, Writing
  <1>8. /\ l # "bwrite" /\ pc[p] # "bwrite" /\ Runs(p) /\ b \in Bufs
        /\ pc' = [pc EXCEPT ![p] = l] /\ op' = [op EXCEPT ![p] = o]
        /\ UNCHANGED <<hashed, io, disk, contents>>
    BY <1>0, <1>2
  <1> QED
    BY <1>4, <1>5, <1>7, <1>8, TouchData

LEMMA AllocData ==
    ASSUME Inv, Inv', UniqueInv, DataInv, NEW p \in Procs, getnewbuf_alloc(p)
    PROVE  UniqueInv' /\ DataInv'
  <1>0. /\ Runs(p) /\ pc[p] = "malloc" /\ UNCHANGED <<hashed, io, disk, contents>>
        /\ op[p] \in OpStates /\ TypeOK
    BY RunsFacts DEF getnewbuf_alloc, device
  <1>1. PICK b \in Bufs \ InUse :
          /\ buf' = [buf EXCEPT ![b] = [NoBuf EXCEPT !.flags = {"BUSY"}]]
          /\ op' = [op EXCEPT ![p].bp = b]
    BY DEF getnewbuf_alloc
  <1>2. pc' = [pc EXCEPT ![p] = "insert"]
    BY DEF getnewbuf_alloc, Yield
  <1>3. /\ pc'[p] = "insert" /\ op'[p] = [op[p] EXCEPT !.bp = b]
        /\ \A q \in Procs \ {p} : pc'[q] = pc[q] /\ op'[q] = op[q]
        /\ \A c \in Bufs \ {b} : buf'[c] = buf[c]
    BY <1>0, <1>1, <1>2 DEF TypeOK
  <1>4. op'[p].vn = op[p].vn /\ op'[p].call = op[p].call /\ op'[p].lbn = op[p].lbn
    BY <1>0, <1>3 DEF OpStates
  <1>5. Others(p, b)
    BY <1>0, <1>3 DEF Others
  <1>6. Turn(p)
    BY <1>0, <1>4, TurnOK DEF Searched
  <1>7. b \notin hashed
    BY <1>1, InvBuf DEF BufOK
  <1>8. Same(b)
    BY <1>0, <1>7 DEF Same, Valid
  <1> QED
    BY <1>0, <1>5, <1>6, <1>8, StepKept

(* A buffer with a delayed write is taken, to be written.                  *)
LEMMA TakeData ==
    ASSUME Inv, Inv', UniqueInv, DataInv, NEW p \in Procs, Runs(p), pc[p] # "bwrite",
           NEW b \in Bufs, Is(b, "DELWRI"), NEW r, buf' = [buf EXCEPT ![b] = r],
           r.vp = buf[b].vp, r.lblkno = buf[b].lblkno, r.data = buf[b].data,
           \A f \in {"ERROR", "INVAL", "DONE", "DELWRI", "READ"} : f \in r.flags <=> Is(b, f),
           pc' = [pc EXCEPT ![p] = "bwrite"], NEW o, op' = [op EXCEPT ![p] = o], o.bp = b,
           o.vn = op[p].vn, o.call = op[p].call, o.lbn = op[p].lbn,
           o.ret = "recycle" => pc[p] = "recycle",
           UNCHANGED <<hashed, io, disk, contents>>
    PROVE  UniqueInv' /\ DataInv'
  <1>1. op'[p] = o /\ pc'[p] = "bwrite"
    BY DEF Inv, TypeOK
  <1>2. Turn(p)
    BY <1>1, TurnOK DEF Searched, Writing
  <1> QED
    BY <1>2, TouchData

LEMMA MarkedOK ==
    ASSUME NEW r \in BufStates, NEW F, F \subseteq {"BUSY", "AGE", "ASYNC"},
           NEW s, s = [r EXCEPT !.flags = @ \cup F]
    PROVE  /\ s.vp = r.vp /\ s.lblkno = r.lblkno /\ s.data = r.data
           /\ \A f \in {"ERROR", "INVAL", "DONE", "DELWRI", "READ"} : f \in s.flags <=> f \in r.flags
  <1>1. s.vp = r.vp /\ s.lblkno = r.lblkno /\ s.data = r.data /\ s.flags = r.flags \cup F
    BY DEF BufStates
  <1> QED
    BY <1>1

LEMMA RecycleData ==
    ASSUME Inv, Inv', UniqueInv, DataInv, NEW p \in Procs, getnewbuf_recycle(p)
    PROVE  UniqueInv' /\ DataInv'
  <1>0. /\ Runs(p) /\ pc[p] = "recycle" /\ UNCHANGED <<io, disk, contents>>
        /\ op[p] \in OpStates /\ TypeOK /\ LruOK
    BY RunsFacts DEF getnewbuf_recycle, device
  <1>1. CASE Yield(p, "recycle") /\ UNCHANGED <<buf, hashed, op>>
    BY <1>0, <1>1, GoData DEF Yield, Writing
  <1>2. ASSUME lru # <<>>, NEW b, b = Head(lru)
        PROVE  b \in Bufs /\ ~Is(b, "BUSY") /\ Owners(b) = {} /\ b \notin io
    <2>1. b \in Bufs /\ OnList(b, lru)
      BY <1>0, <1>2, TailOK DEF LruOK, TypeOK
    <2>2. ~Is(b, "BUSY")
      BY <2>1, InvBuf
    <2> QED
      BY <2>1, <2>2, FreeOwners
  <1>3. CASE /\ lru # <<>> /\ Is(Head(lru), "DELWRI")
             /\ buf' = [buf EXCEPT ![Head(lru)].flags = @ \cup {"BUSY", "AGE", "ASYNC"}]
             /\ op' = [op EXCEPT ![p].bp = Head(lru), ![p].ret = "recycle"]
             /\ Goto(p, "bwrite") /\ UNCHANGED hashed
    <2>1. PICK b : b = Head(lru)
      OBVIOUS
    <2>2. PICK o : o = [op[p] EXCEPT !.bp = b, !.ret = "recycle"]
      OBVIOUS
    <2>3. /\ op' = [op EXCEPT ![p] = o] /\ pc' = [pc EXCEPT ![p] = "bwrite"]
      BY <1>3, <2>1, <2>2 DEF Goto
    <2>4. o.bp = b /\ o.vn = op[p].vn /\ o.call = op[p].call /\ o.lbn = op[p].lbn
      BY <1>0, <2>2 DEF OpStates
    <2>5. /\ b \in Bufs /\ Is(b, "DELWRI") /\ UNCHANGED <<hashed, io, disk, contents>>
          /\ o.ret = "recycle" => pc[p] = "recycle"
      BY <1>0, <1>2, <1>3, <2>1
    <2>6. PICK r : r = [buf[b] EXCEPT !.flags = @ \cup {"BUSY", "AGE", "ASYNC"}]
      OBVIOUS
    <2>7. buf' = [buf EXCEPT ![b] = r]
      BY <1>3, <2>1, <2>6
    <2>8. /\ r.vp = buf[b].vp /\ r.lblkno = buf[b].lblkno /\ r.data = buf[b].data
          /\ \A f \in {"ERROR", "INVAL", "DONE", "DELWRI", "READ"} : f \in r.flags <=> Is(b, f)
      BY <2>5, <2>6, MarkedOK, InvBuf DEF Is
    <2> QED
      BY <1>0, <2>3, <2>4, <2>5, <2>7, <2>8, TakeData
  <1>4. CASE /\ lru # <<>> /\ ~Is(Head(lru), "DELWRI")
             /\ LET b == Head(lru)
                    needfree == op[p].needfree - 1
                    trim == bufcachemem + needfree > maxbufmem
                IN /\ lru' = Tail(lru) /\ hashed' = hashed \ {b}
                   /\ buf' = [buf EXCEPT ![b] = IF trim THEN NoBuf
                                                ELSE [NoBuf EXCEPT !.flags = {"BUSY"}]]
                   /\ bufcachemem' = IF trim THEN bufcachemem - 1 ELSE bufcachemem
                   /\ op' = [op EXCEPT ![p].bp = IF trim THEN None ELSE b,
                                       ![p].needfree = IF trim THEN needfree ELSE 0]
                   /\ Goto(p, IF trim THEN "recycle" ELSE "insert")
    <2>1. PICK b : b = Head(lru)
      OBVIOUS
    <2>2. PICK r, x, n, l : /\ hashed' = hashed \ {b} /\ buf' = [buf EXCEPT ![b] = r]
                            /\ op' = [op EXCEPT ![p].bp = x, ![p].needfree = n]
                            /\ pc' = [pc EXCEPT ![p] = l] /\ l \in {"recycle", "insert"}
      BY <1>4, <2>1 DEF Goto
    <2>3. /\ pc'[p] = l /\ op'[p] = [op[p] EXCEPT !.bp = x, !.needfree = n]
          /\ \A q \in Procs \ {p} : pc'[q] = pc[q] /\ op'[q] = op[q]
          /\ \A c \in Bufs \ {b} : buf'[c] = buf[c]
      BY <1>0, <2>2 DEF TypeOK
    <2>4. op'[p].vn = op[p].vn /\ op'[p].call = op[p].call /\ op'[p].lbn = op[p].lbn
      BY <1>0, <2>3 DEF OpStates
    <2>5. Others(p, b)
      BY <1>0, <2>2, <2>3 DEF Others
    <2>6. Turn(p)
      BY <1>0, <2>4, TurnOK DEF Searched
    <2>7. b \in Bufs /\ ~Is(b, "DELWRI") /\ b \notin io /\ ~AtBwrite(b)
      BY <1>0, <1>2, <1>4, <2>1, RunsBwrite
    <2>8. Same(b)
      BY <2>2, <2>7 DEF Same, Valid, Ahead
    <2> QED
      BY <1>0, <2>5, <2>6, <2>8, StepKept
  <1> QED
    BY <1>0, <1>1, <1>3, <1>4 DEF getnewbuf_recycle

(* The block that was not found gets its buffer.                           *)
LEMMA InsertData ==
    ASSUME Inv, Inv', UniqueInv, DataInv, NEW p \in Procs, insert(p)
    PROVE  UniqueInv' /\ DataInv'
  <1>1. PICK b : b = op[p].bp
    OBVIOUS
  <1>0. /\ Runs(p) /\ pc[p] = "insert" /\ UNCHANGED <<io, disk, contents, op>> /\ TypeOK
        /\ b \in Bufs /\ buf[b] = [NoBuf EXCEPT !.flags = {"BUSY"}] /\ b \notin hashed
        /\ CallOK(p) /\ hashed' = hashed \cup {b} /\ pc' = [pc EXCEPT ![p] = "got"]
    <2>1. Runs(p) /\ pc[p] = "insert" /\ UNCHANGED <<io, disk, contents, op>>
          /\ hashed' = hashed \cup {b} /\ pc' = [pc EXCEPT ![p] = "got"]
      BY <1>1 DEF insert, device, Goto
    <2>2. TypeOK /\ CallOK(p) /\ HandOK(p)
      BY <2>1, RunsFacts
    <2> QED
      BY <1>1, <2>1, <2>2 DEF HandOK
  <1>2. PICK r : /\ buf' = [buf EXCEPT ![b] = r]
                 /\ r = IF op[p].call = "geteblk"
                        THEN [buf[b] EXCEPT !.flags = @ \cup {"INVAL"}]
                        ELSE [buf[b] EXCEPT !.vp = op[p].vn, !.lblkno = op[p].lbn,
                                            !.list = <<op[p].vn, "clean">>]
    BY <1>1 DEF insert
  <1>3. /\ pc'[p] = "got" /\ \A q \in Procs : op'[q] = op[q] /\ (q # p => pc'[q] = pc[q])
        /\ buf'[b] = r /\ \A c \in Bufs \ {b} : buf'[c] = buf[c]
    BY <1>0, <1>2 DEF TypeOK
  <1>4. Others(p, b)
    BY <1>0, <1>3 DEF Others
  <1>5. /\ r.flags \subseteq {"BUSY", "INVAL"}
        /\ op[p].call = "geteblk" => "INVAL" \in r.flags
        /\ op[p].call # "geteblk" => r.vp = op[p].vn /\ r.lblkno = op[p].lbn
    BY <1>0, <1>2 DEF NoBuf
  <1>6. ~AtBwrite(b)' /\ ~Valid(b)
    BY <1>0, <1>3, <1>4, OthersSame DEF Valid
  <1>7. Is(b, "BUSY")' /\ ~(b \in io)' /\ ~Has(b)'
    <2>1. b \notin io
      <3>1. buf[b].vp = None
        BY <1>0 DEF NoBuf
      <3> QED
        BY <1>0, <3>1, InvBuf DEF BufOK
    <2>2. Is(b, "BUSY")'
      BY <1>0, <1>2, <1>3 DEF Is, NoBuf
    <2> QED
      BY <1>0, <1>3, <1>5, <1>6, <2>1, <2>2 DEF Has, Ahead, Is
  <1>8. \A c \in Bufs \ {b} : Same(c) /\ (Valid(c)' <=> Valid(c)) /\ blk(c)' = blk(c)
    BY <1>0, <1>4, OthersSame
  <1>9. DataInv'
    <2>1. \A c \in Bufs :
              /\ (Valid(c) /\ Has(c))' =>
                    /\ Valid(c) /\ Has(c) /\ blk(c)' = blk(c) /\ buf'[c].data = buf[c].data
                    /\ (Is(c, "ERROR")' <=> Is(c, "ERROR")) /\ (Ahead(c)' => Ahead(c))
              /\ Valid(c) /\ Ahead(c) => (Valid(c) /\ Ahead(c))' /\ blk(c)' = blk(c)
      BY <1>6, <1>7, <1>8 DEF Same
    <2> QED
      BY <1>0, <2>1, DataKept
  <1>10. Valid(b)' => /\ blk(b)' = <<op[p].vn, op[p].lbn>> /\ op[p].vn # None
                      /\ op[p].call # "geteblk"
    <2>1. Valid(b)' => op[p].call # "geteblk"
      BY <1>3, <1>5 DEF Valid, Is
    <2>2. op[p].call # "geteblk" => op[p].vn # None
      BY <1>0, BufAssumption DEF CallOK
    <2> QED
      BY <1>3, <1>5, <2>1, <2>2 DEF blk
  <1>11. AbsentOK(p) /\ Turns /\ UniqueBlock /\ \A c \in Bufs : Valid(c) => buf[c].vp # None
    BY DEF UniqueInv
  <1>12. \A c \in Bufs \ {b} : Valid(c)' /\ Valid(b)' => blk(c)' # blk(b)'
    BY <1>0, <1>8, <1>10, <1>11 DEF AbsentOK, Searched
  <1>13. UniqueBlock'
    <2> SUFFICES ASSUME NEW c \in hashed', NEW d \in hashed', c # d,
                        ~Is(c, "INVAL")', ~Is(d, "INVAL")'
                 PROVE  blk(c)' # blk(d)'
      BY DEF UniqueBlock
    <2>1. Valid(c)' /\ Valid(d)' /\ c \in Bufs /\ d \in Bufs
      BY DEF Valid, Inv, TypeOK
    <2>2. CASE c = b \/ d = b
      BY <1>12, <2>1, <2>2
    <2>3. CASE c # b /\ d # b
      <3>1. Valid(c) /\ Valid(d) /\ blk(c)' = blk(c) /\ blk(d)' = blk(d)
        BY <1>8, <2>1, <2>3
      <3> QED
        BY <1>11, <3>1 DEF UniqueBlock, Valid
    <2> QED
      BY <2>2, <2>3
  <1>14. \A c \in Bufs : Valid(c)' => buf'[c].vp # None
    <2>1. Valid(b)' => buf'[b].vp # None
      BY <1>10 DEF blk
    <2> QED
      BY <1>3, <1>8, <1>11, <2>1
  <1>15. ASSUME NEW q \in Procs PROVE AbsentOK(q)'
    <2>1. CASE q = p
      BY <1>0, <1>3, <2>1 DEF AbsentOK, Searched, CallOK, Writing
    <2>2. CASE q # p
      <3>1. op'[q] = op[q] /\ pc'[q] = pc[q] /\ AbsentOK(q)
        BY <1>3, <2>2 DEF UniqueInv
      <3>2. Valid(b)' => blk(b)' # <<op[q].vn, op[q].lbn>>
        BY <1>10, <1>11, <2>2 DEF Turns
      <3> QED
        BY <1>8, <3>1, <3>2 DEF AbsentOK, Searched
    <2> QED
      BY <2>1, <2>2
  <1>16. Turns'
    BY <1>0, <1>11 DEF Turns
  <1> QED
    BY <1>9, <1>13, <1>14, <1>15, <1>16 DEF UniqueInv

(* What the owner of a buffer knows of it after getblk.                    *)
LEMMA GotOK ==
    ASSUME Inv, NEW p \in Procs, Runs(p), pc[p] = "got", NEW b, b = op[p].bp
    PROVE  b \in Bufs /\ b \notin io /\ buf[b] \in BufStates /\ op[p] \in OpStates /\ TypeOK
           /\ op = [op EXCEPT ![p] = op[p]]
  <1>1. HandOK(p) /\ op[p] \in OpStates /\ TypeOK /\ op = [op EXCEPT ![p] = op[p]]
    BY RunsFacts
  <1>2. b \in Bufs /\ b \notin io
    BY <1>1 DEF HandOK
  <1> QED
    BY <1>1, <1>2, InvBuf

LEMMA BreadData ==
    ASSUME Inv, Inv', UniqueInv, DataInv, NEW p \in Procs, bread(p)
    PROVE  UniqueInv' /\ DataInv'
  <1>0. /\ Runs(p) /\ pc[p] = "got" /\ UNCHANGED <<hashed, disk, contents, op>>
    BY DEF bread
  <1>1. PICK b : b = op[p].bp
    OBVIOUS
  <1>2. b \in Bufs /\ b \notin io /\ TypeOK /\ op = [op EXCEPT ![p] = op[p]]
    BY <1>0, <1>1, GotOK
  <1>3. CASE Yield(p, "hold") /\ UNCHANGED <<buf, io>>
    BY <1>0, <1>3, GoData DEF Yield, Writing
  <1>4. CASE ~filled(b) /\ strategy(b, buf[b].flags \cup {"READ"}) /\ Goto(p, "biowait")
    <2>1. /\ ~Is(b, "DONE") /\ ~Is(b, "DELWRI") /\ pc' = [pc EXCEPT ![p] = "biowait"]
          /\ op' = [op EXCEPT ![p] = op[p]] /\ pc[p] # "bwrite" /\ "biowait" # "bwrite"
      BY <1>0, <1>2, <1>4 DEF filled, Goto
    <2>2. pc'[p] = "biowait" /\ op'[p] = op[p]
      BY <1>0, <1>2, <2>1 DEF TypeOK
    <2>3. Turn(p)
      BY <2>2, TurnOK DEF Searched, Writing
    <2> QED
      BY <1>0, <1>2, <1>4, <2>1, <2>3, ReadData
  <1> QED
    BY <1>1, <1>3, <1>4 DEF bread

LEMMA BreadaData ==
    ASSUME Inv, Inv', UniqueInv, DataInv, NEW p \in Procs, breada(p)
    PROVE  UniqueInv' /\ DataInv'
  <1>0. /\ Runs(p) /\ pc[p] = "got" /\ UNCHANGED <<hashed, disk, contents>>
        /\ pc' = [pc EXCEPT ![p] = "getblk"]
    BY DEF breada, Goto
  <1>1. PICK b : b = op[p].bp
    OBVIOUS
  <1>2. b \in Bufs /\ b \notin io /\ TypeOK /\ op[p] \in OpStates
    BY <1>0, <1>1, GotOK
  <1>3. PICK o : o = [op[p] EXCEPT !.first = b, !.bp = None, !.lbn = op[p].next, !.next = op[p].lbn]
    OBVIOUS
  <1>4. /\ op' = [op EXCEPT ![p] = o] /\ o.vn = op[p].vn
    <2>1. op' = [op EXCEPT ![p].first = b, ![p].bp = None,
                           ![p].lbn = op[p].next, ![p].next = op[p].lbn]
      BY <1>1 DEF breada
    <2>2. op' = [op EXCEPT ![p] = o]
      BY <1>2, <1>3, <2>1 DEF TypeOK, OpStates
    <2> QED
      BY <1>2, <1>3, <2>2 DEF OpStates
  <1>5. Turn(p)
    <2>1. op'[p] = o /\ pc'[p] = "getblk"
      BY <1>0, <1>2, <1>4 DEF TypeOK
    <2> QED
      BY <1>4, <2>1, TurnOK DEF Searched, Writing
  <1>6. pc[p] # "bwrite" /\ "getblk" # "bwrite"
    BY <1>0
  <1>7. CASE UNCHANGED <<buf, io>>
    BY <1>0, <1>4, <1>5, <1>6, <1>7, PlainData
  <1>8. CASE ~filled(b) /\ strategy(b, buf[b].flags \cup {"READ"})
    <2>1. ~Is(b, "DONE") /\ ~Is(b, "DELWRI")
      BY <1>8 DEF filled
    <2> QED
      BY <1>0, <1>2, <1>4, <1>5, <1>6, <1>8, <2>1, ReadData
  <1> QED
    BY <1>1, <1>7, <1>8 DEF breada

LEMMA ReadAheadData ==
    ASSUME Inv, Inv', UniqueInv, DataInv, NEW p \in Procs, breada_next(p)
    PROVE  UniqueInv' /\ DataInv'
  <1>0. /\ Runs(p) /\ pc[p] = "got" /\ UNCHANGED <<hashed, disk, contents>>
        /\ pc' = [pc EXCEPT ![p] = "biowait"]
    BY DEF breada_next, Goto
  <1>1. PICK b : b = op[p].bp
    OBVIOUS
  <1>2. b \in Bufs /\ b \notin io /\ TypeOK /\ op[p] \in OpStates
    BY <1>0, <1>1, GotOK
  <1>3. PICK o : o = [op[p] EXCEPT !.bp = op[p].first, !.first = None, !.lbn = op[p].next,
                                   !.next = None]
    OBVIOUS
  <1>4. /\ op' = [op EXCEPT ![p] = o] /\ o.vn = op[p].vn
    BY <1>2, <1>3 DEF breada_next, OpStates
  <1>5. Turn(p)
    <2>1. op'[p] = o /\ pc'[p] = "biowait"
      BY <1>0, <1>2, <1>4 DEF TypeOK
    <2> QED
      BY <1>4, <2>1, TurnOK DEF Searched, Writing
  <1>6. pc[p] # "bwrite" /\ "biowait" # "bwrite"
    BY <1>0
  <1>7. CASE buf' = [buf EXCEPT ![b] = Freed(buf[b])] /\ UNCHANGED io
    BY <1>0, <1>2, <1>4, <1>5, <1>6, <1>7, FreeData
  <1>8. CASE ~filled(b) /\ strategy(b, buf[b].flags \cup {"ASYNC", "READ"})
    <2>1. ~Is(b, "DONE") /\ ~Is(b, "DELWRI")
      BY <1>8 DEF filled
    <2> QED
      BY <1>0, <1>2, <1>4, <1>5, <1>6, <1>8, <2>1, ReadData
  <1> QED
    BY <1>1, <1>7, <1>8 DEF breada_next, brelse

LEMMA ReleaseData ==
    ASSUME Inv, Inv', UniqueInv, DataInv, NEW p \in Procs, release(p)
    PROVE  UniqueInv' /\ DataInv'
  <1>0. /\ Runs(p) /\ pc[p] = "hold" /\ UNCHANGED <<hashed, io, disk, contents>>
        /\ pc' = [pc EXCEPT ![p] = "idle"] /\ op' = [op EXCEPT ![p] = NoCall]
        /\ buf' = [buf EXCEPT ![op[p].bp] = Freed(buf[op[p].bp])]
    BY DEF release, Holder, Return, Yield, device, brelse
  <1>1. TypeOK /\ op[p].bp \in Bufs
    BY <1>0, RunsFacts DEF HandOK
  <1>2. Turn(p)
    <2>1. op'[p] = NoCall /\ pc'[p] = "idle"
      BY <1>0, <1>1 DEF TypeOK
    <2> QED
      BY <2>1, NoCallData, TurnOK DEF Searched, Writing
  <1>3. pc[p] # "bwrite" /\ "idle" # "bwrite"
    BY <1>0
  <1> QED
    BY <1>0, <1>1, <1>2, <1>3, FreeData

(* bwrite: what was to be written is on its way.                           *)
LEMMA BwriteData ==
    ASSUME Inv, Inv', UniqueInv, DataInv, NEW p \in Procs, bwrite(p)
    PROVE  UniqueInv' /\ DataInv'
  <1>1. PICK b : b = op[p].bp
    OBVIOUS
  <1>0. /\ Runs(p) /\ pc[p] = "bwrite" /\ UNCHANGED <<hashed, disk, contents>>
        /\ pc' = [pc EXCEPT ![p] = "started"]
        /\ op' = [op EXCEPT ![p].oldstate = buf[b].flags \cap {"DELWRI", "ASYNC"}]
        /\ io' = io \cup {b}
        /\ buf' = [buf EXCEPT ![b].flags = buf[b].flags \ {"DELWRI", "DONE", "ERROR", "READ"}]
    BY <1>1 DEF bwrite, strategy, Goto
  <1>2. TypeOK /\ op[p] \in OpStates /\ b \in Bufs
    BY <1>0, <1>1, RunsFacts DEF HandOK, Writing
  <1>3. buf[b] \in BufStates
    BY <1>2, InvBuf
  <1>4. /\ pc'[p] = "started"
        /\ op'[p] = [op[p] EXCEPT !.oldstate = buf[b].flags \cap {"DELWRI", "ASYNC"}]
        /\ \A q \in Procs \ {p} : pc'[q] = pc[q] /\ op'[q] = op[q]
        /\ \A c \in Bufs \ {b} : buf'[c] = buf[c] /\ (c \in io' <=> c \in io)
        /\ buf'[b] = [buf[b] EXCEPT !.flags = buf[b].flags \ {"DELWRI", "DONE", "ERROR", "READ"}]
    BY <1>0, <1>2 DEF TypeOK
  <1>5. /\ op'[p].vn = op[p].vn /\ op'[p].call = op[p].call /\ op'[p].lbn = op[p].lbn
        /\ op'[p].ret = op[p].ret
    BY <1>2, <1>4 DEF OpStates
  <1>6. /\ buf'[b].vp = buf[b].vp /\ buf'[b].lblkno = buf[b].lblkno
        /\ buf'[b].data = buf[b].data
        /\ buf'[b].flags = buf[b].flags \ {"DELWRI", "DONE", "ERROR", "READ"}
    BY <1>3, <1>4 DEF BufStates
  <1>7. Others(p, b)
    BY <1>0, <1>1, <1>4 DEF Others
  <1>8. Turn(p)
    BY <1>0, <1>4, <1>5, TurnOK DEF Searched, Writing
  <1>9. Ahead(b) /\ Ahead(b)' /\ Has(b) /\ Has(b)'
    <2>1. AtBwrite(b)
      BY <1>0, <1>1, RunsBwrite
    <2>2. (b \in io)' /\ ~Is(b, "READ")'
      BY <1>0, <1>6 DEF Is
    <2> QED
      BY <2>1, <2>2 DEF Ahead, Has
  <1>10. (Valid(b)' <=> Valid(b)) /\ ~Is(b, "ERROR")'
    BY <1>0, <1>6 DEF Valid, Is
  <1>11. Valid(b) => ~Is(b, "ERROR")
    BY <1>2, <1>9 DEF DataInv, DataOK
  <1>12. Same(b)
    BY <1>6, <1>9, <1>10, <1>11 DEF Same, blk
  <1> QED
    BY <1>0, <1>7, <1>8, <1>12, StepKept

(* The end of bwrite, back to the call that it was part of.                *)
LEMMA WrittenData ==
    ASSUME Inv, UniqueInv, NEW p \in Procs, Runs(p), pc[p] \in Writing, Written(p)
    PROVE  /\ Turn(p)
           /\ \E l, o : pc' = [pc EXCEPT ![p] = l] /\ op' = [op EXCEPT ![p] = o] /\ l # "bwrite"
  <1>0. TypeOK /\ op[p] \in OpStates
    BY RunsFacts
  <1>1. CASE op[p].ret = "idle"
    <2>1. pc' = [pc EXCEPT ![p] = "idle"] /\ op' = [op EXCEPT ![p] = NoCall]
      BY <1>1 DEF Written, Return, Yield
    <2>2. op'[p] = NoCall /\ pc'[p] = "idle"
      BY <1>0, <2>1 DEF TypeOK
    <2>3. Turn(p)
      BY <2>2, NoCallData, TurnOK DEF Searched, Writing
    <2> QED
      BY <2>1, <2>3
  <1>2. CASE op[p].ret # "idle"
    <2>1. PICK l, o : /\ l = op[p].ret
                      /\ o = [op[p] EXCEPT !.ret = "idle", !.bp = None, !.oldstate = {}]
      OBVIOUS
    <2>2. pc' = [pc EXCEPT ![p] = l] /\ op' = [op EXCEPT ![p] = o]
      BY <1>2, <2>1 DEF Written, Goto
    <2>3. op'[p] = o /\ pc'[p] = l
      BY <1>0, <2>2 DEF TypeOK
    <2>4. /\ o.vn = op[p].vn /\ o.call = op[p].call /\ o.lbn = op[p].lbn /\ o.ret = "idle"
          /\ l \in {"recycle", "vflushbuf", "vinvalbuf"}
      BY <1>0, <1>2, <2>1 DEF OpStates
    <2>5. Turn(p)
      BY <2>1, <2>3, <2>4, TurnOK DEF Searched, Writing
    <2> QED
      BY <2>2, <2>4, <2>5
  <1> QED
    BY <1>1, <1>2

LEMMA StartedData ==
    ASSUME Inv, Inv', UniqueInv, DataInv, NEW p \in Procs, bwrite_started(p)
    PROVE  UniqueInv' /\ DataInv'
  <1>1. PICK b : b = op[p].bp
    OBVIOUS
  <1>0. Runs(p) /\ pc[p] = "started" /\ UNCHANGED <<hashed, io, disk, contents>>
    BY DEF bwrite_started, device
  <1>2. TypeOK /\ op[p] \in OpStates /\ b \in Bufs /\ op = [op EXCEPT ![p] = op[p]]
    BY <1>0, <1>1, RunsFacts DEF HandOK, Writing
  <1>3. buf[b] \in BufStates
    BY <1>2, InvBuf
  <1>4. Turn(p) /\ \E l, o : pc' = [pc EXCEPT ![p] = l] /\ op' = [op EXCEPT ![p] = o] /\ l # "bwrite"
    <2>1. CASE Written(p)
      BY <1>0, <2>1, WrittenData DEF Writing
    <2>2. CASE Goto(p, "bwait") /\ UNCHANGED op
      <3>1. pc' = [pc EXCEPT ![p] = "bwait"] /\ op' = [op EXCEPT ![p] = op[p]]
        BY <1>2, <2>2 DEF Goto
      <3>2. pc'[p] = "bwait" /\ op'[p] = op[p]
        BY <1>2, <2>2, <3>1 DEF TypeOK
      <3>3. Turn(p)
        BY <1>0, <3>2, TurnOK DEF Searched, Writing
      <3> QED
        BY <3>1, <3>3
    <2> QED
      BY <2>1, <2>2 DEF bwrite_started
  <1>5. PICK l, o : pc' = [pc EXCEPT ![p] = l] /\ op' = [op EXCEPT ![p] = o] /\ l # "bwrite"
    BY <1>4
  <1>6. PICK r : /\ buf' = [buf EXCEPT ![b] = r]
                 /\ r.vp = buf[b].vp /\ r.lblkno = buf[b].lblkno /\ r.data = buf[b].data
                 /\ r.flags = buf[b].flags
    <2>1. CASE buf' = buf
      <3>1. buf' = [buf EXCEPT ![b] = buf[b]]
        BY <1>2, <2>1 DEF TypeOK
      <3> QED
        BY <3>1
    <2>2. CASE buf' = [buf EXCEPT ![b] = reassignbuf(@, @.vp)]
      <3>1. PICK r : r = reassignbuf(buf[b], buf[b].vp)
        OBVIOUS
      <3>2. buf' = [buf EXCEPT ![b] = r]
        BY <2>2, <3>1
      <3>3. /\ r.vp = buf[b].vp /\ r.lblkno = buf[b].lblkno /\ r.data = buf[b].data
            /\ r.flags = buf[b].flags
        BY <1>3, <3>1 DEF reassignbuf, BufStates
      <3> QED
        BY <3>2, <3>3
    <2> QED
      BY <1>1, <2>1, <2>2 DEF bwrite_started
  <1>7. \A f \in {"ERROR", "INVAL", "DONE", "DELWRI", "READ"} : f \in r.flags <=> Is(b, f)
    BY <1>6 DEF Is
  <1>8. pc[p] # "bwrite" /\ (l = "bwrite" => o.bp = b /\ Is(b, "DELWRI"))
    BY <1>0, <1>5
  <1> QED
    BY <1>0, <1>2, <1>4, <1>5, <1>6, <1>7, <1>8, TouchData

LEMMA BwaitData ==
    ASSUME Inv, Inv', UniqueInv, DataInv, NEW p \in Procs, bwrite_wait(p)
    PROVE  UniqueInv' /\ DataInv'
  <1>1. PICK b : b = op[p].bp
    OBVIOUS
  <1>0. Runs(p) /\ pc[p] = "bwait" /\ UNCHANGED <<hashed, io, disk, contents>>
    BY DEF bwrite_wait, device
  <1>2. TypeOK /\ op[p] \in OpStates /\ b \in Bufs /\ op = [op EXCEPT ![p] = op[p]]
    BY <1>0, <1>1, RunsFacts DEF HandOK, Writing
  <1>3. CASE buf' = [buf EXCEPT ![b] = Freed(buf[b])] /\ Written(p)
    <2>1. Turn(p) /\ \E l, o : pc' = [pc EXCEPT ![p] = l] /\ op' = [op EXCEPT ![p] = o] /\ l # "bwrite"
      BY <1>0, <1>3, WrittenData DEF Writing
    <2>2. PICK l, o : pc' = [pc EXCEPT ![p] = l] /\ op' = [op EXCEPT ![p] = o] /\ l # "bwrite"
      BY <2>1
    <2>3. pc[p] # "bwrite"
      BY <1>0
    <2> QED
      BY <1>0, <1>2, <1>3, <2>1, <2>2, <2>3, FreeData
  <1>4. CASE Yield(p, "bwait") /\ UNCHANGED <<buf, op>>
    <2>1. pc' = [pc EXCEPT ![p] = "bwait"] /\ op' = [op EXCEPT ![p] = op[p]]
      BY <1>2, <1>4 DEF Yield
    <2>2. pc'[p] = "bwait" /\ op'[p] = op[p]
      BY <1>2, <1>4, <2>1 DEF TypeOK
    <2>3. Turn(p)
      BY <1>0, <2>2, TurnOK DEF Searched, Writing
    <2>4. pc[p] # "bwrite" /\ "bwait" # "bwrite"
      BY <1>0
    <2> QED
      BY <1>0, <1>4, <2>1, <2>3, <2>4, PlainData
  <1> QED
    BY <1>1, <1>3, <1>4 DEF bwrite_wait, brelse

LEMMA VflushbufData ==
    ASSUME Inv, Inv', UniqueInv, DataInv, NEW p \in Procs, vflushbuf(p)
    PROVE  UniqueInv' /\ DataInv'
  <1>0. Runs(p) /\ pc[p] = "vflushbuf" /\ UNCHANGED <<hashed, io, disk, contents>>
    BY DEF vflushbuf, device
  <1>1. TypeOK /\ op[p] \in OpStates
    BY <1>0, RunsFacts
  <1>2. CASE \E b \in Bufs : /\ Is(b, "DELWRI")
               /\ buf' = [buf EXCEPT ![b].flags = @ \cup {"BUSY"} \cup
                     (IF buf[b].vp = op[p].vn \/ ~op[p].flag THEN {"ASYNC"} ELSE {})]
               /\ op' = [op EXCEPT ![p].bp = b, ![p].ret = "vflushbuf"]
               /\ Goto(p, "bwrite")
    <2>1. PICK b \in Bufs : /\ Is(b, "DELWRI")
               /\ buf' = [buf EXCEPT ![b].flags = @ \cup {"BUSY"} \cup
                     (IF buf[b].vp = op[p].vn \/ ~op[p].flag THEN {"ASYNC"} ELSE {})]
               /\ op' = [op EXCEPT ![p].bp = b, ![p].ret = "vflushbuf"]
               /\ Goto(p, "bwrite")
      BY <1>2
    <2>2. PICK F : F = {"BUSY"} \cup
                     (IF buf[b].vp = op[p].vn \/ ~op[p].flag THEN {"ASYNC"} ELSE {})
      OBVIOUS
    <2>3. PICK r : r = [buf[b] EXCEPT !.flags = @ \cup F]
      OBVIOUS
    <2>4. PICK o : o = [op[p] EXCEPT !.bp = b, !.ret = "vflushbuf"]
      OBVIOUS
    <2>5. /\ op' = [op EXCEPT ![p] = o] /\ pc' = [pc EXCEPT ![p] = "bwrite"]
      BY <2>1, <2>4 DEF Goto
    <2>6. buf' = [buf EXCEPT ![b] = r]
      <3>1. r = [buf[b] EXCEPT !.flags = @ \cup {"BUSY"} \cup
                     (IF buf[b].vp = op[p].vn \/ ~op[p].flag THEN {"ASYNC"} ELSE {})]
        <4>1. buf[b].flags \cup F = buf[b].flags \cup {"BUSY"} \cup
                     (IF buf[b].vp = op[p].vn \/ ~op[p].flag THEN {"ASYNC"} ELSE {})
          BY <2>2
        <4> QED
          BY <2>3, <4>1
      <3> QED
        BY <2>1, <3>1
    <2>7. /\ r.vp = buf[b].vp /\ r.lblkno = buf[b].lblkno /\ r.data = buf[b].data
          /\ \A f \in {"ERROR", "INVAL", "DONE", "DELWRI", "READ"} : f \in r.flags <=> Is(b, f)
      <3>1. F \subseteq {"BUSY", "AGE", "ASYNC"}
        BY <2>2
      <3> QED
        BY <2>3, <3>1, MarkedOK, InvBuf DEF Is
    <2>8. /\ o.bp = b /\ o.vn = op[p].vn /\ o.call = op[p].call /\ o.lbn = op[p].lbn
          /\ o.ret = "recycle" => pc[p] = "recycle"
      BY <1>1, <2>4 DEF OpStates
    <2>9. pc[p] # "bwrite" /\ Runs(p) /\ Is(b, "DELWRI") /\ UNCHANGED <<hashed, io, disk, contents>>
      BY <1>0, <2>1
    <2> QED
      BY <2>5, <2>6, <2>7, <2>8, <2>9, TakeData
  <1>3. CASE \E l \in {"drain", "panic"} : pc' = [pc EXCEPT ![p] = l] /\ UNCHANGED <<op, buf>>
    BY <1>0, <1>3, GoData DEF Writing
  <1>4. CASE Return(p) /\ UNCHANGED buf
    BY <1>0, <1>4, ReturnData
  <1> QED
    BY <1>2, <1>3, <1>4 DEF vflushbuf, Panic, Yield, Goto, On

-----------------------------------------------------------------------------
(* Steps that change a block's data, through its one buffer.               *)
LEMMA BlockData ==
    ASSUME Inv, UniqueInv, DataInv, NEW b \in Bufs, Valid(b), NEW k, k = blk(b),
           \A c \in Bufs \ {b} :
              /\ (Valid(c)' <=> Valid(c)) /\ blk(c)' = blk(c) /\ (Ahead(c)' <=> Ahead(c))
              /\ (Has(c)' <=> Has(c)) /\ (Is(c, "ERROR")' <=> Is(c, "ERROR"))
              /\ buf'[c].data = buf[c].data,
           \A j \in (Vnodes \X Blocks) \ {k} : disk'[j] = disk[j] /\ contents'[j] = contents[j],
           DataOK(b)', DiskOK(k)'
    PROVE  DataInv'
  <1>1. ASSUME NEW c \in Bufs \ {b}, Valid(c) PROVE blk(c) \in (Vnodes \X Blocks) \ {k}
    <2>1. buf[c].vp # None
      BY <1>1 DEF UniqueInv
    <2>2. buf[c] \in BufStates /\ buf[c].lblkno # None
      BY <2>1, InvBuf DEF BufOK
    <2>3. blk(c) \in Vnodes \X Blocks
      BY <2>1, <2>2 DEF BufStates, blk
    <2>4. blk(c) # blk(b)
      BY <1>1 DEF UniqueInv, UniqueBlock, Valid
    <2> QED
      BY <2>3, <2>4
  <1>2. ASSUME NEW c \in Bufs \ {b} PROVE DataOK(c)'
    <2>1. DataOK(c)
      BY DEF DataInv
    <2>2. ASSUME Valid(c)' PROVE contents'[blk(c)'] = contents[blk(c)]
      BY <1>1, <2>2
    <2> QED
      BY <2>1, <2>2 DEF DataOK
  <1>3. ASSUME NEW j \in (Vnodes \X Blocks) \ {k} PROVE DiskOK(j)'
    <2>1. DiskOK(j)
      BY DEF DataInv
    <2>2. CASE disk[j] = contents[j]
      BY <2>2 DEF DiskOK
    <2>3. CASE \E c \in Bufs : Valid(c) /\ blk(c) = j /\ Ahead(c)
      <3>1. PICK c \in Bufs : Valid(c) /\ blk(c) = j /\ Ahead(c)
        BY <2>3
      <3>2. Valid(c)' /\ blk(c)' = j /\ Ahead(c)'
        BY <3>1
      <3> QED
        BY <3>2 DEF DiskOK
    <2> QED
      BY <2>1, <2>2, <2>3 DEF DiskOK
  <1> QED
    BY <1>2, <1>3 DEF DataInv

(* The holder of a buffer changes the data, and writes it or marks it.     *)
LEMMA ModifyData ==
    ASSUME Inv, Inv', UniqueInv, DataInv, NEW p \in Procs, Usable(p), NEW b, b = op[p].bp,
           NEW d \in Data, Modify(b, d), NEW r, buf' = [buf EXCEPT ![b] = r],
           r.vp = buf[b].vp, r.lblkno = buf[b].lblkno, r.data = d,
           "ERROR" \in r.flags => Is(b, "ERROR"), "INVAL" \in r.flags => Is(b, "INVAL"),
           NEW l, pc' = [pc EXCEPT ![p] = l], NEW o, op' = [op EXCEPT ![p] = o], Turn(p),
           l = "bwrite" => o.bp = b, l # "bwrite" => "DELWRI" \in r.flags,
           UNCHANGED <<hashed, io, disk>>
    PROVE  UniqueInv' /\ DataInv'
  <1>0. /\ Runs(p) /\ pc[p] = "hold" /\ ~Is(b, "ERROR") /\ op[p].call # "geteblk"
    BY DEF Usable, Holder
  <1>1. TypeOK /\ CallOK(p) /\ HandOK(p) /\ IdOK(p)
    BY <1>0, RunsFacts
  <1>2. b \in Bufs /\ blk(b) = <<op[p].vn, op[p].lbn>> /\ op[p].vn \in Vnodes /\ op[p].lbn \in Blocks
    BY <1>0, <1>1 DEF CallOK, HandOK, IdOK, ForBlock
  <1>3. Valid(b) /\ blk(b) \in Vnodes \X Blocks
    <2>1. BufOK(b)
      BY <1>2, InvBuf
    <2>2. buf[b].vp # None
      BY <1>2, BufAssumption DEF blk
    <2> QED
      BY <1>2, <2>1, <2>2 DEF Valid, BufOK
  <1>4. /\ pc'[p] = l /\ op'[p] = o /\ \A q \in Procs \ {p} : pc'[q] = pc[q] /\ op'[q] = op[q]
        /\ buf'[b] = r /\ \A c \in Bufs \ {b} : buf'[c] = buf[c]
    BY <1>1, <1>2 DEF TypeOK
  <1>5. Others(p, b)
    BY <1>0, <1>4 DEF Others
  <1>6. Valid(b)' /\ blk(b)' = blk(b) /\ ~Is(b, "ERROR")' /\ buf'[b].data = d
    BY <1>0, <1>3, <1>4 DEF Valid, Is, blk
  <1>7. Ahead(b)'
    <2>1. CASE l = "bwrite"
      BY <1>2, <1>4, <2>1 DEF Ahead, AtBwrite
    <2>2. CASE l # "bwrite"
      BY <1>4, <2>2 DEF Ahead, Is
    <2> QED
      BY <2>1, <2>2
  <1>8. UniqueInv'
    BY <1>0, <1>2, <1>3, <1>5, <1>6, TurnKept
  <1>9. /\ contents'[blk(b)] = d
        /\ \A j \in (Vnodes \X Blocks) \ {blk(b)} : disk'[j] = disk[j] /\ contents'[j] = contents[j]
    BY <1>1, <1>3 DEF Modify, TypeOK
  <1>10. DataOK(b)' /\ DiskOK(blk(b))'
    <2>1. DataOK(b)'
      BY <1>6, <1>7, <1>9 DEF DataOK
    <2>2. \E c \in Bufs : Valid(c)' /\ blk(c)' = blk(b)' /\ Ahead(c)'
      BY <1>2, <1>6, <1>7
    <2> QED
      BY <2>1, <2>2 DEF DiskOK
  <1>11. \A c \in Bufs \ {b} :
              /\ (Valid(c)' <=> Valid(c)) /\ blk(c)' = blk(c) /\ (Ahead(c)' <=> Ahead(c))
              /\ (Has(c)' <=> Has(c)) /\ (Is(c, "ERROR")' <=> Is(c, "ERROR"))
              /\ buf'[c].data = buf[c].data
    BY <1>0, <1>5, OthersSame
  <1>12. PICK k : k = blk(b)
    OBVIOUS
  <1>13. DiskOK(k)'
    BY <1>6, <1>10, <1>12 DEF DiskOK
  <1>14. DataInv'
    BY <1>2, <1>3, <1>9, <1>10, <1>11, <1>12, <1>13, BlockData
  <1> QED
    BY <1>8, <1>14

LEMMA WriteData ==
    ASSUME Inv, Inv', UniqueInv, DataInv, NEW p \in Procs, write(p)
    PROVE  UniqueInv' /\ DataInv'
  <1>1. PICK b : b = op[p].bp
    OBVIOUS
  <1>0. /\ Usable(p) /\ Runs(p) /\ pc[p] = "hold" /\ UNCHANGED <<hashed, io, disk, op>>
        /\ pc' = [pc EXCEPT ![p] = "bwrite"]
    BY DEF write, Usable, Holder, Goto
  <1>2. TypeOK /\ op[p] \in OpStates /\ b \in Bufs /\ op = [op EXCEPT ![p] = op[p]] /\ CallOK(p)
    BY <1>0, <1>1, RunsFacts DEF HandOK
  <1>3. PICK d \in Data, F \in {{"ASYNC"}, {}} :
          Modify(b, d) /\ buf' = [buf EXCEPT ![b].data = d, ![b].flags = @ \cup F]
    BY <1>1 DEF write
  <1>4. PICK r : r = [buf[b] EXCEPT !.data = d, !.flags = @ \cup F]
    OBVIOUS
  <1>5. buf' = [buf EXCEPT ![b] = r]
    BY <1>2, <1>3, <1>4 DEF TypeOK
  <1>6. /\ r.vp = buf[b].vp /\ r.lblkno = buf[b].lblkno /\ r.data = d
        /\ r.flags = buf[b].flags \cup F
    BY <1>2, <1>4, InvBuf DEF BufStates
  <1>7. ("ERROR" \in r.flags => Is(b, "ERROR")) /\ ("INVAL" \in r.flags => Is(b, "INVAL"))
    BY <1>3, <1>6 DEF Is
  <1>8. op' = [op EXCEPT ![p] = op[p]] /\ pc'[p] = "bwrite" /\ op'[p] = op[p]
    BY <1>0, <1>2 DEF TypeOK
  <1>9. Turn(p)
    <2>1. op[p].ret = "idle"
      BY <1>0, <1>2 DEF CallOK, Writing
    <2> QED
      BY <1>8, <2>1, TurnOK DEF Searched
  <1>10. Modify(b, d) /\ Usable(p) /\ UNCHANGED <<hashed, io, disk>>
    BY <1>0, <1>3
  <1>11. PICK l, o : /\ pc' = [pc EXCEPT ![p] = l] /\ op' = [op EXCEPT ![p] = o]
                     /\ (l = "bwrite" => o.bp = b) /\ (l # "bwrite" => "DELWRI" \in r.flags)
    BY <1>0, <1>1, <1>8
  <1> QED
    BY <1>1, <1>5, <1>6, <1>7, <1>9, <1>10, <1>11, ModifyData

LEMMA BdwriteData ==
    ASSUME Inv, Inv', UniqueInv, DataInv, NEW p \in Procs, bdwrite(p)
    PROVE  UniqueInv' /\ DataInv'
  <1>1. PICK b : b = op[p].bp
    OBVIOUS
  <1>0. /\ Usable(p) /\ Runs(p) /\ pc[p] = "hold" /\ UNCHANGED <<hashed, io, disk>>
        /\ ~Is(b, "ERROR") /\ op[p].call # "geteblk"
    BY <1>1 DEF bdwrite, Usable, Holder
  <1>2. /\ TypeOK /\ op[p] \in OpStates /\ b \in Bufs /\ op = [op EXCEPT ![p] = op[p]]
        /\ CallOK(p) /\ IdOK(p)
    BY <1>0, <1>1, RunsFacts DEF HandOK
  <1>3. ~Is(b, "INVAL")
    <2>1. blk(b) = <<op[p].vn, op[p].lbn>> /\ op[p].vn \in Vnodes /\ BufOK(b)
      BY <1>0, <1>1, <1>2, InvBuf DEF IdOK, CallOK
    <2> QED
      BY <2>1, BufAssumption DEF blk, BufOK
  <1>4. PICK d \in Data :
        LET r == [buf[b] EXCEPT !.data = d, !.flags = @ \cup {"DELWRI"}]
            s == IF Is(b, "DELWRI") THEN r ELSE reassignbuf(r, r.vp)
        IN  /\ Modify(b, d)
            /\ IF s.vp \in Tapes
               THEN /\ buf' = [buf EXCEPT ![b] = [s EXCEPT !.flags = @ \cup {"ASYNC"}]]
                    /\ Goto(p, "bwrite")
                    /\ UNCHANGED <<lru, bufneeded, wchan, op>>
               ELSE /\ brelse(b, [s EXCEPT !.flags = @ \cup {"DONE"}], lru, {})
                    /\ Return(p)
    BY <1>1, ZenonT(30) DEF bdwrite
  <1>5. PICK r : r = [buf[b] EXCEPT !.data = d, !.flags = @ \cup {"DELWRI"}]
    OBVIOUS
  <1>6. PICK s : s = IF Is(b, "DELWRI") THEN r ELSE reassignbuf(r, r.vp)
    OBVIOUS
  <1>7. /\ s \in BufStates /\ s.vp = buf[b].vp /\ s.lblkno = buf[b].lblkno /\ s.data = d
        /\ s.flags = buf[b].flags \cup {"DELWRI"}
    <2>0. buf[b] \in BufStates
      BY <1>2, InvBuf
    <2>1. /\ r \in BufStates /\ r.vp = buf[b].vp /\ r.lblkno = buf[b].lblkno /\ r.data = d
          /\ r.flags = buf[b].flags \cup {"DELWRI"}
      BY <1>5, <2>0 DEF BufStates, Flags
    <2>2. r.vp \in Vnodes
      <3>1. blk(b) = <<op[p].vn, op[p].lbn>> /\ op[p].vn \in Vnodes
        BY <1>0, <1>1, <1>2 DEF IdOK, CallOK
      <3> QED
        BY <2>1, <3>1 DEF blk
    <2>3. CASE Is(b, "DELWRI")
      BY <1>6, <2>1, <2>3
    <2>4. CASE ~Is(b, "DELWRI")
      <3>1. s = [r EXCEPT !.list = <<r.vp, "dirty">>]
        BY <1>6, <2>1, <2>4 DEF reassignbuf
      <3> QED
        BY <2>1, <2>2, <3>1 DEF BufStates
    <2> QED
      BY <2>3, <2>4
  <1>8. Modify(b, d)
    BY <1>4
  <1>9. CASE s.vp \in Tapes
    <2>1. PICK t : t = [s EXCEPT !.flags = @ \cup {"ASYNC"}]
      OBVIOUS
    <2>2. buf' = [buf EXCEPT ![b] = t] /\ pc' = [pc EXCEPT ![p] = "bwrite"] /\ UNCHANGED op
      BY <1>4, <1>5, <1>6, <1>9, <2>1 DEF Goto
    <2>3. /\ t.vp = buf[b].vp /\ t.lblkno = buf[b].lblkno /\ t.data = d
          /\ t.flags = buf[b].flags \cup {"DELWRI", "ASYNC"}
      BY <1>7, <2>1 DEF BufStates
    <2>4. ("ERROR" \in t.flags => Is(b, "ERROR")) /\ ("INVAL" \in t.flags => Is(b, "INVAL"))
      BY <2>3 DEF Is
    <2>5. op' = [op EXCEPT ![p] = op[p]] /\ pc'[p] = "bwrite" /\ op'[p] = op[p]
      BY <1>2, <2>2 DEF TypeOK
    <2>6. Turn(p)
      <3>1. op[p].ret = "idle"
        BY <1>0, <1>2 DEF CallOK, Writing
      <3> QED
        BY <2>5, <3>1, TurnOK DEF Searched
    <2>7. Modify(b, d) /\ Usable(p) /\ UNCHANGED <<hashed, io, disk>>
      BY <1>0, <1>8
    <2>8. PICK l, o : /\ pc' = [pc EXCEPT ![p] = l] /\ op' = [op EXCEPT ![p] = o]
                      /\ (l = "bwrite" => o.bp = b) /\ (l # "bwrite" => "DELWRI" \in t.flags)
      BY <1>1, <2>2, <2>5
    <2>9. buf' = [buf EXCEPT ![b] = t]
      BY <2>2
    <2> QED
      BY <1>1, <2>3, <2>4, <2>6, <2>7, <2>8, <2>9, ModifyData
  <1>10. CASE s.vp \notin Tapes
    <2>1. PICK t : t = [s EXCEPT !.flags = @ \cup {"DONE"}]
      OBVIOUS
    <2>2. /\ buf' = [buf EXCEPT ![b] = Freed(t)] /\ pc' = [pc EXCEPT ![p] = "idle"]
          /\ op' = [op EXCEPT ![p] = NoCall]
      BY <1>4, <1>5, <1>6, <1>10, <2>1 DEF Return, Yield, brelse
    <2>3. /\ t \in BufStates /\ t.vp = buf[b].vp /\ t.lblkno = buf[b].lblkno /\ t.data = d
          /\ t.flags = buf[b].flags \cup {"DELWRI", "DONE"}
      BY <1>7, <2>1 DEF BufStates, Flags
    <2>4. ~Bad(t)
      BY <1>0, <1>3, <2>3 DEF Bad, Is
    <2>5. /\ Freed(t).vp = buf[b].vp /\ Freed(t).lblkno = buf[b].lblkno /\ Freed(t).data = d
          /\ Freed(t).flags = t.flags \ {"ASYNC", "BUSY", "WANTED"}
      BY <2>3, <2>4 DEF Freed, BufStates
    <2>6. /\ "ERROR" \in Freed(t).flags => Is(b, "ERROR")
          /\ "INVAL" \in Freed(t).flags => Is(b, "INVAL")
          /\ "DELWRI" \in Freed(t).flags
      BY <2>3, <2>5 DEF Is
    <2>7. op'[p] = NoCall /\ pc'[p] = "idle"
      BY <1>2, <2>2 DEF TypeOK
    <2>8. Turn(p)
      BY <2>7, NoCallData, TurnOK DEF Searched, Writing
    <2>9. PICK u : /\ buf' = [buf EXCEPT ![b] = u]
                   /\ u.vp = buf[b].vp /\ u.lblkno = buf[b].lblkno /\ u.data = d
                   /\ "ERROR" \in u.flags => Is(b, "ERROR")
                   /\ "INVAL" \in u.flags => Is(b, "INVAL")
                   /\ "DELWRI" \in u.flags
      BY <2>2, <2>5, <2>6
    <2>10. Modify(b, d) /\ Usable(p) /\ UNCHANGED <<hashed, io, disk>>
      BY <1>0, <1>8
    <2>11. PICK l, o : /\ pc' = [pc EXCEPT ![p] = l] /\ op' = [op EXCEPT ![p] = o]
                       /\ (l = "bwrite" => o.bp = b) /\ (l # "bwrite" => "DELWRI" \in u.flags)
      BY <2>2, <2>9
    <2> QED
      BY <1>1, <2>8, <2>9, <2>10, <2>11, ModifyData
  <1> QED
    BY <1>9, <1>10

(* vinvalbuf drops a buffer, and with it what was not yet written.         *)
LEMMA DropData ==
    ASSUME Inv, Inv', UniqueInv, DataInv, NEW p \in Procs, Runs(p), pc[p] = "invalidate",
           NEW b \in Bufs, buf[b].vp # None, ~Is(b, "BUSY"),
           NEW r, buf' = [buf EXCEPT ![b] = r], "INVAL" \in r.flags,
           NEW l, pc' = [pc EXCEPT ![p] = l], l \in {"vinvalbuf", "invalidate"},
           NEW o, op' = [op EXCEPT ![p] = o], o.vn = op[p].vn, o.ret = "idle",
           contents' = IF Is(b, "DELWRI") THEN [contents EXCEPT ![blk(b)] = disk[blk(b)]]
                                          ELSE contents,
           UNCHANGED <<hashed, io, disk>>
    PROVE  UniqueInv' /\ DataInv'
  <1>0. TypeOK /\ BufOK(b) /\ buf[b] \in BufStates
    BY InvBuf, RunsFacts
  <1>1. /\ pc'[p] = l /\ op'[p] = o /\ \A q \in Procs \ {p} : pc'[q] = pc[q] /\ op'[q] = op[q]
        /\ buf'[b] = r /\ \A c \in Bufs \ {b} : buf'[c] = buf[c]
    BY <1>0 DEF TypeOK
  <1>2. Others(p, b)
    BY <1>1 DEF Others
  <1>3. Turn(p)
    BY <1>1, TurnOK DEF Searched, Writing
  <1>4. /\ Valid(b) /\ ~Valid(b)' /\ b \notin io /\ ~AtBwrite(b)
        /\ blk(b) \in Vnodes \X Blocks
    <2>1. b \in hashed /\ ~Is(b, "INVAL") /\ buf[b].lblkno # None /\ b \notin io
      BY <1>0 DEF BufOK
    <2>2. blk(b) \in Vnodes \X Blocks
      BY <1>0, <2>1 DEF blk, BufStates
    <2>3. ~Valid(b)'
      BY <1>1 DEF Valid, Is
    <2> QED
      BY <2>1, <2>2, <2>3, RunsBwrite DEF Valid
  <1>5. CASE Is(b, "DELWRI")
    <2>1. UniqueInv'
      BY <1>2, <1>3, <1>4, TurnKept
    <2>2. /\ contents'[blk(b)] = disk[blk(b)]
          /\ \A j \in (Vnodes \X Blocks) \ {blk(b)} : disk'[j] = disk[j] /\ contents'[j] = contents[j]
      BY <1>0, <1>4, <1>5 DEF TypeOK
    <2>3. PICK k : k = blk(b)
      OBVIOUS
    <2>4. DataOK(b)' /\ DiskOK(k)'
      BY <1>4, <2>2, <2>3 DEF DataOK, DiskOK
    <2>5. \A c \in Bufs \ {b} :
              /\ (Valid(c)' <=> Valid(c)) /\ blk(c)' = blk(c) /\ (Ahead(c)' <=> Ahead(c))
              /\ (Has(c)' <=> Has(c)) /\ (Is(c, "ERROR")' <=> Is(c, "ERROR"))
              /\ buf'[c].data = buf[c].data
      BY <1>2, OthersSame
    <2>6. DataInv'
      BY <1>4, <2>2, <2>3, <2>4, <2>5, BlockData
    <2> QED
      BY <2>1, <2>6
  <1>6. CASE ~Is(b, "DELWRI")
    <2>1. ~Ahead(b)
      BY <1>4, <1>6 DEF Ahead
    <2>2. Same(b)
      BY <1>4, <2>1 DEF Same
    <2>3. UNCHANGED <<disk, contents>>
      BY <1>6
    <2> QED
      BY <1>2, <1>3, <2>2, <2>3, StepKept
  <1> QED
    BY <1>5, <1>6

LEMMA InvalidateData ==
    ASSUME Inv, Inv', UniqueInv, DataInv, NEW p \in Procs, invalidate(p)
    PROVE  UniqueInv' /\ DataInv'
  <1>0. /\ CallOK(p) /\ HandOK(p) /\ IdOK(p) /\ op[p] \in OpStates /\ TypeOK /\ Runs(p)
    BY RunsFacts DEF invalidate
  <1>1. PICK b : b = op[p].bp
    OBVIOUS
  <1>2. pc[p] = "invalidate" /\ pc[p] # "bwrite" /\ UNCHANGED <<hashed, io, disk>>
    BY DEF invalidate
  <1>3. b \in Bufs /\ buf[b].vp = op[p].vn /\ buf[b].vp # None /\ op[p].ret = "idle"
    <2>1. op[p].vn \in Vnodes
      BY <1>0, <1>2 DEF CallOK
    <2> QED
      BY <1>0, <1>1, <1>2, <2>1, BufAssumption DEF HandOK, CallOK, IdOK, Writing
  <1>4. buf[b] \in BufStates /\ BufOK(b)
    BY <1>3, InvBuf
  <1>5. CASE Is(b, "BUSY")
    <2>1. PICK o : o = [op[p] EXCEPT !.bp = None, !.nbp = None]
      OBVIOUS
    <2>2. PICK r : r = [buf[b] EXCEPT !.flags = @ \cup {"WANTED"}]
      OBVIOUS
    <2>3. /\ buf' = [buf EXCEPT ![b].flags = @ \cup {"WANTED"}]
          /\ op' = [op EXCEPT ![p].bp = None, ![p].nbp = None]
          /\ pc' = [pc EXCEPT ![p] = "vinvalbuf"] /\ UNCHANGED contents
      BY <1>1, <1>5 DEF invalidate, Yield
    <2>4. op' = [op EXCEPT ![p] = o] /\ buf' = [buf EXCEPT ![b] = r]
      BY <2>1, <2>2, <2>3
    <2>5. o.vn = op[p].vn /\ o.ret = op[p].ret
      BY <1>0, <2>1 DEF OpStates
    <2>6. /\ r.vp = buf[b].vp /\ r.lblkno = buf[b].lblkno /\ r.data = buf[b].data
          /\ r.flags = buf[b].flags \cup {"WANTED"}
      BY <1>4, <2>2 DEF BufStates
    <2>7. \A f \in {"ERROR", "INVAL", "DONE", "DELWRI", "READ"} : f \in r.flags <=> Is(b, f)
      BY <2>6 DEF Is
    <2>8. op'[p] = o /\ pc'[p] = "vinvalbuf"
      BY <1>0, <2>3, <2>4 DEF TypeOK
    <2>9. Turn(p)
      BY <1>3, <2>5, <2>8, TurnOK DEF Searched, Writing
    <2>10. PICK l : l = "vinvalbuf"
      OBVIOUS
    <2>11. pc' = [pc EXCEPT ![p] = l] /\ l # "bwrite"
      BY <2>3, <2>10
    <2>12. UNCHANGED <<hashed, io, disk, contents>> /\ Runs(p) /\ pc[p] # "bwrite" /\ b \in Bufs
      BY <1>0, <1>2, <1>3, <2>3
    <2> QED
      BY <2>4, <2>6, <2>7, <2>9, <2>11, <2>12, TouchData
  <1>6. CASE ~Is(b, "BUSY")
    <2>1. PICK r : r = [buf[b] EXCEPT !.flags = @ \cup {"BUSY"}]
      OBVIOUS
    <2>2. /\ r \in BufStates /\ r.vp = buf[b].vp /\ r.lblkno = buf[b].lblkno /\ r.data = buf[b].data
          /\ r.flags = buf[b].flags \cup {"BUSY"}
      BY <1>4, <2>1 DEF BufStates, Flags
    <2>3. CASE op[p].flag /\ Is(b, "DELWRI")
      <3>1. PICK o : o = [op[p] EXCEPT !.nbp = None, !.ret = "vinvalbuf"]
        OBVIOUS
      <3>2. /\ buf' = [buf EXCEPT ![b] = r]
            /\ op' = [op EXCEPT ![p].nbp = None, ![p].ret = "vinvalbuf"]
            /\ pc' = [pc EXCEPT ![p] = "bwrite"] /\ UNCHANGED contents
        BY <1>1, <1>6, <2>1, <2>3 DEF invalidate, Goto
      <3>3. op' = [op EXCEPT ![p] = o]
        BY <3>1, <3>2
      <3>4. /\ o.bp = b /\ o.vn = op[p].vn /\ o.call = op[p].call /\ o.lbn = op[p].lbn
            /\ o.ret = "recycle" => pc[p] = "recycle"
        BY <1>0, <1>1, <3>1 DEF OpStates
      <3>5. \A f \in {"ERROR", "INVAL", "DONE", "DELWRI", "READ"} : f \in r.flags <=> Is(b, f)
        BY <2>2 DEF Is
      <3>6. /\ UNCHANGED <<hashed, io, disk, contents>> /\ Runs(p) /\ pc[p] # "bwrite"
            /\ b \in Bufs /\ Is(b, "DELWRI") /\ buf' = [buf EXCEPT ![b] = r]
            /\ pc' = [pc EXCEPT ![p] = "bwrite"]
        BY <1>0, <1>2, <1>3, <2>3, <3>2
      <3> QED
        BY <2>2, <3>3, <3>4, <3>5, <3>6, TakeData
    <2>4. CASE ~(op[p].flag /\ Is(b, "DELWRI"))
      <3>1. PICK s : s = [r EXCEPT !.flags = @ \cup {"INVAL"}]
        OBVIOUS
      <3>2. /\ contents' = IF buf[b].vp = op[p].vn /\ Is(b, "DELWRI")
                           THEN [contents EXCEPT ![blk(b)] = disk[blk(b)]] ELSE contents
            /\ buf' = [buf EXCEPT ![b] = Freed(IF r.vp # op[p].vn THEN reassignbuf(r, r.vp) ELSE s)]
            /\ Advance(p, b)
        BY <1>1, <1>3, <1>6, <2>1, <2>4, <3>1 DEF invalidate, brelse
      <3>3. /\ contents' = IF Is(b, "DELWRI") THEN [contents EXCEPT ![blk(b)] = disk[blk(b)]]
                                              ELSE contents
            /\ buf' = [buf EXCEPT ![b] = Freed(s)]
        BY <1>3, <2>2, <3>2
      <3>4. s \in BufStates /\ "INVAL" \in s.flags
        BY <2>2, <3>1 DEF BufStates, Flags
      <3>5. PICK t : t = Freed(s)
        OBVIOUS
      <3>6. "INVAL" \in t.flags /\ buf' = [buf EXCEPT ![b] = t]
        BY <3>3, <3>4, <3>5, FreedOK DEF Flags
      <3>7. PICK l, o : /\ l \in {"vinvalbuf", "invalidate"} /\ pc' = [pc EXCEPT ![p] = l]
                        /\ op' = [op EXCEPT ![p] = o] /\ o.vn = op[p].vn /\ o.ret = "idle"
        <4>1. CASE Goto(p, "vinvalbuf") /\ op' = [op EXCEPT ![p].bp = None]
          <5>1. PICK o : o = [op[p] EXCEPT !.bp = None]
            OBVIOUS
          <5>2. op' = [op EXCEPT ![p] = o] /\ o.vn = op[p].vn /\ o.ret = op[p].ret
            BY <1>0, <4>1, <5>1 DEF OpStates
          <5> QED
            BY <1>3, <4>1, <5>2 DEF Goto
        <4>2. CASE \E n, m : Goto(p, "invalidate") /\ op' = [op EXCEPT ![p].bp = n, ![p].nbp = m]
          <5>1. PICK n, m : Goto(p, "invalidate") /\ op' = [op EXCEPT ![p].bp = n, ![p].nbp = m]
            BY <4>2
          <5>2. PICK o : o = [op[p] EXCEPT !.bp = n, !.nbp = m]
            OBVIOUS
          <5>3. op' = [op EXCEPT ![p] = o] /\ o.vn = op[p].vn /\ o.ret = op[p].ret
            BY <1>0, <5>1, <5>2 DEF OpStates
          <5> QED
            BY <1>3, <5>1, <5>3 DEF Goto
        <4> QED
          BY <3>2, <4>1, <4>2 DEF Advance
      <3>8. Runs(p) /\ pc[p] = "invalidate" /\ b \in Bufs /\ buf[b].vp # None /\ ~Is(b, "BUSY")
            /\ UNCHANGED <<hashed, io, disk>>
        BY <1>0, <1>2, <1>3, <1>6
      <3> QED
        BY <3>3, <3>6, <3>7, <3>8, DropData
    <2> QED
      BY <2>3, <2>4
  <1> QED
    BY <1>5, <1>6

(* biodone: the block that was read is in the buffer, or the buffer that   *)
(* was written is on the device; a write that fails is as if it had not    *)
(* been made.                                                              *)
LEMMA BiodoneData ==
    ASSUME Inv, Inv', ~AsyncErrors, UniqueInv, DataInv, NEW b \in Bufs, biodone(b)
    PROVE  UniqueInv' /\ DataInv'
  <1>0. /\ TypeOK /\ BufOK(b) /\ buf[b] \in BufStates /\ b \in io
        /\ io' = io \ {b} /\ UNCHANGED <<hashed, pc, op>>
    BY InvBuf DEF Inv, biodone
  <1>1. /\ ~Is(b, "DELWRI") /\ ~Is(b, "ERROR") /\ ~Is(b, "INVAL") /\ Valid(b)
        /\ blk(b) \in Vnodes \X Blocks
    BY <1>0 DEF BufOK, BufStates, blk, Valid
  <1>2. ~AtBwrite(b) /\ \A c : AtBwrite(c)' <=> AtBwrite(c)
    <2>1. \A p \in Procs : pc[p] = "bwrite" => op[p].bp \notin io
      BY InvProc DEF HandOK
    <2> QED
      BY <1>0, <2>1 DEF AtBwrite
  <1>3. PICK err \in BOOLEAN : \E r : \E out :
        /\ r = [buf[b] EXCEPT
                  !.flags = @ \cup {"DONE"} \cup (IF err THEN {"ERROR"} ELSE {}),
                  !.data  = IF Is(b, "READ") THEN (IF err THEN None ELSE disk[blk(b)]) ELSE @]
        /\ err => ~Is(b, "ASYNC")
        /\ disk' = IF Is(b, "READ") \/ err THEN disk ELSE [disk EXCEPT ![blk(b)] = r.data]
        /\ contents' = IF ~Is(b, "READ") /\ err THEN [contents EXCEPT ![blk(b)] = disk[blk(b)]]
                                                ELSE contents
        /\ IF Is(b, "ASYNC")
           THEN brelse(b, r, lru, out)
           ELSE buf' = [buf EXCEPT ![b] = [r EXCEPT !.flags = @ \ {"WANTED"}]]
    BY DEF biodone
  <1>4. PICK r, out :
        /\ r = [buf[b] EXCEPT
                  !.flags = @ \cup {"DONE"} \cup (IF err THEN {"ERROR"} ELSE {}),
                  !.data  = IF Is(b, "READ") THEN (IF err THEN None ELSE disk[blk(b)]) ELSE @]
        /\ err => ~Is(b, "ASYNC")
        /\ disk' = IF Is(b, "READ") \/ err THEN disk ELSE [disk EXCEPT ![blk(b)] = r.data]
        /\ contents' = IF ~Is(b, "READ") /\ err THEN [contents EXCEPT ![blk(b)] = disk[blk(b)]]
                                                ELSE contents
        /\ IF Is(b, "ASYNC")
           THEN brelse(b, r, lru, out)
           ELSE buf' = [buf EXCEPT ![b] = [r EXCEPT !.flags = @ \ {"WANTED"}]]
    BY <1>3
  <1>5. /\ r \in BufStates /\ r.vp = buf[b].vp /\ r.lblkno = buf[b].lblkno
        /\ r.data = IF Is(b, "READ") THEN (IF err THEN None ELSE disk[blk(b)]) ELSE buf[b].data
        /\ r.flags = buf[b].flags \cup {"DONE"} \cup (IF err THEN {"ERROR"} ELSE {})
    <2>1. PICK F : F = buf[b].flags \cup {"DONE"} \cup (IF err THEN {"ERROR"} ELSE {})
      OBVIOUS
    <2>2. PICK d : d = IF Is(b, "READ") THEN (IF err THEN None ELSE disk[blk(b)]) ELSE buf[b].data
      OBVIOUS
    <2>3. r = [flags |-> F, vp |-> buf[b].vp, lblkno |-> buf[b].lblkno, data |-> d,
               list |-> buf[b].list]
      BY <1>0, <1>4, <2>1, <2>2 DEF BufStates
    <2>4. F \in SUBSET Flags
      BY <1>0, <2>1 DEF BufStates, Flags
    <2>5. d \in Data \cup {None}
      BY <1>0, <1>1, <2>2 DEF BufStates, TypeOK
    <2> QED
      BY <1>0, <2>1, <2>2, <2>3, <2>4, <2>5 DEF BufStates
  <1>6. /\ "INVAL" \notin r.flags /\ "DELWRI" \notin r.flags /\ ("ERROR" \in r.flags <=> err)
    BY <1>1, <1>5 DEF Is
  <1>7. PICK s : /\ buf' = [buf EXCEPT ![b] = s] /\ s.vp = r.vp /\ s.lblkno = r.lblkno
                 /\ s.data = r.data
                 /\ \A f \in {"INVAL", "DELWRI", "ERROR"} : f \in s.flags <=> f \in r.flags
    <2>1. CASE Is(b, "ASYNC")
      <3>1. PICK s : s = Freed(r)
        OBVIOUS
      <3>2. ~Bad(r)
        BY <1>4, <1>6, <2>1 DEF Bad
      <3>3. buf' = [buf EXCEPT ![b] = s]
        BY <1>4, <2>1, <3>1 DEF brelse
      <3>4. /\ s.vp = r.vp /\ s.lblkno = r.lblkno
            /\ \A f \in {"INVAL", "DELWRI", "ERROR"} : f \in s.flags <=> f \in r.flags
        BY <1>5, <1>6, <3>1, <3>2, FreedOK DEF Flags
      <3>5. s.data = r.data
        BY <1>5, <3>1, FreedKeeps
      <3> QED
        BY <3>3, <3>4, <3>5
    <2>2. CASE ~Is(b, "ASYNC")
      <3>1. PICK s : s = [r EXCEPT !.flags = @ \ {"WANTED"}]
        OBVIOUS
      <3>2. buf' = [buf EXCEPT ![b] = s]
        BY <1>4, <2>2, <3>1
      <3>3. /\ s.vp = r.vp /\ s.lblkno = r.lblkno /\ s.data = r.data
            /\ s.flags = r.flags \ {"WANTED"}
        BY <1>5, <3>1 DEF BufStates
      <3> QED
        BY <3>2, <3>3
    <2> QED
      BY <2>1, <2>2
  <1>8. buf'[b] = s /\ \A c \in Bufs \ {b} : buf'[c] = buf[c]
    BY <1>0, <1>7 DEF TypeOK
  <1>9. /\ Valid(b)' /\ blk(b)' = blk(b) /\ ~Ahead(b)' /\ (Is(b, "ERROR")' <=> err)
        /\ buf'[b].data = r.data
    <2>1. /\ ~Is(b, "INVAL")' /\ ~Is(b, "DELWRI")' /\ (Is(b, "ERROR")' <=> err)
      BY <1>6, <1>7, <1>8 DEF Is
    <2>2. ~Ahead(b)'
      BY <1>0, <1>2, <2>1 DEF Ahead
    <2> QED
      BY <1>0, <1>1, <1>5, <1>7, <1>8, <2>1, <2>2 DEF Valid, blk
  <1>10. \A c \in Bufs \ {b} :
              /\ (Valid(c)' <=> Valid(c)) /\ blk(c)' = blk(c) /\ (Ahead(c)' <=> Ahead(c))
              /\ (Has(c)' <=> Has(c)) /\ (Is(c, "ERROR")' <=> Is(c, "ERROR"))
              /\ buf'[c].data = buf[c].data
    <2> SUFFICES ASSUME NEW c \in Bufs \ {b}
                 PROVE  /\ (Valid(c)' <=> Valid(c)) /\ blk(c)' = blk(c) /\ (Ahead(c)' <=> Ahead(c))
                        /\ (Has(c)' <=> Has(c)) /\ (Is(c, "ERROR")' <=> Is(c, "ERROR"))
                        /\ buf'[c].data = buf[c].data
      OBVIOUS
    <2>1. /\ \A f : Is(c, f)' <=> Is(c, f)
          /\ blk(c)' = blk(c) /\ buf'[c].data = buf[c].data /\ (c \in io' <=> c \in io)
      BY <1>0, <1>8 DEF Is, blk
    <2>2. Ahead(c)' <=> Ahead(c)
      BY <1>2, <2>1 DEF Ahead
    <2> QED
      BY <1>0, <2>1, <2>2 DEF Valid, Has
  <1>11. UniqueInv'
    <2>1. \A c \in Bufs : Valid(c)' => Valid(c) /\ blk(c)' = blk(c)
      BY <1>1, <1>9, <1>10
    <2>2. Turns'
      BY <1>0 DEF UniqueInv, Turns
    <2>3. \A q \in Procs : (Searched(q) /\ op[q].call # "geteblk")' =>
              \A c \in Bufs : Valid(c) => blk(c) # <<op'[q].vn, op'[q].lbn>>
      BY <1>0 DEF UniqueInv, AbsentOK, Searched
    <2>4. hashed' \subseteq Bufs
      BY <1>0 DEF TypeOK
    <2> QED
      BY <2>1, <2>2, <2>3, <2>4, UniqueKept
  <1>12. PICK k : k = blk(b)
    OBVIOUS
  <1>13. ASSUME Is(b, "READ") PROVE disk[k] = contents[k]
    <2>1. ~Ahead(b)
      BY <1>1, <1>2, <1>13 DEF Ahead
    <2>2. ASSUME NEW c \in Bufs, Valid(c), blk(c) = k, Ahead(c) PROVE FALSE
      BY <1>1, <1>12, <2>1, <2>2 DEF UniqueInv, UniqueBlock, Valid
    <2>3. DiskOK(k)
      BY <1>1, <1>12 DEF DataInv
    <2> QED
      BY <2>2, <2>3 DEF DiskOK
  <1>14. ASSUME ~Is(b, "READ") PROVE buf[b].data = contents[k]
    BY <1>0, <1>1, <1>12, <1>14 DEF DataInv, DataOK, Has, Ahead
  <1>15. disk'[k] = contents'[k] /\ (~err => r.data = contents'[k])
    <2>1. CASE Is(b, "READ")
      BY <1>4, <1>5, <1>12, <1>13, <2>1
    <2>2. CASE ~Is(b, "READ") /\ err
      BY <1>0, <1>1, <1>4, <1>12, <2>2 DEF TypeOK
    <2>3. CASE ~Is(b, "READ") /\ ~err
      BY <1>0, <1>1, <1>4, <1>5, <1>12, <1>14, <2>3 DEF TypeOK
    <2> QED
      BY <2>1, <2>2, <2>3
  <1>16. DataOK(b)' /\ DiskOK(k)'
    <2>1. DataOK(b)'
      BY <1>9, <1>12, <1>15 DEF DataOK
    <2> QED
      BY <1>15, <2>1 DEF DiskOK
  <1>17. \A j \in (Vnodes \X Blocks) \ {k} : disk'[j] = disk[j] /\ contents'[j] = contents[j]
    BY <1>0, <1>1, <1>4, <1>12 DEF TypeOK
  <1>18. DataInv'
    BY <1>1, <1>10, <1>12, <1>16, <1>17, BlockData
  <1> QED
    BY <1>11, <1>18

-----------------------------------------------------------------------------
LEMMA InitData ==
    ASSUME bufinit
    PROVE  UniqueInv /\ DataInv
  <1>1. /\ hashed = {} /\ contents = disk /\ \A p \in Procs : pc[p] = "idle" /\ op[p] = NoCall
    BY DEF bufinit
  <1>2. \A b \in Bufs : ~Valid(b)
    BY <1>1 DEF Valid
  <1>3. UniqueInv
    BY <1>1, <1>2, NoCallData DEF UniqueInv, Turns, UniqueBlock, AbsentOK
  <1> QED
    BY <1>1, <1>2, <1>3 DEF DataInv, DataOK, DiskOK

LEMMA StutterData ==
    ASSUME UniqueInv, DataInv, UNCHANGED vars
    PROVE  UniqueInv' /\ DataInv'
  <1>1. UNCHANGED <<buf, hashed, io, disk, contents, pc, op>>
    BY DEF vars, cache, device
  <1>2. \A b \in Bufs : /\ (Valid(b)' <=> Valid(b)) /\ blk(b)' = blk(b) /\ (Ahead(b)' <=> Ahead(b))
                        /\ (Has(b)' <=> Has(b)) /\ (Is(b, "ERROR")' <=> Is(b, "ERROR"))
    BY <1>1 DEF Valid, blk, Ahead, AtBwrite, Has, Is
  <1>3. DataInv'
    BY <1>1, <1>2, DataKept
  <1>4. UniqueInv'
    BY <1>1 DEF UniqueInv, Turns, UniqueBlock, Valid, AbsentOK, Searched, Is, blk
  <1> QED
    BY <1>3, <1>4

LEMMA KernelData ==
    ASSUME Inv, Inv', UniqueInv, DataInv, NEW p \in Procs, Kernel(p)
    PROVE  UniqueInv' /\ DataInv'
  <1>1. CASE getblk_scan(p)
    BY <1>1, ScanData
  <1>2. CASE getblk_found(p)
    BY <1>2, FoundData
  <1>3. CASE getnewbuf(p)
    BY <1>3, GetnewbufData
  <1>4. CASE getnewbuf_alloc(p)
    BY <1>4, AllocData
  <1>5. CASE getnewbuf_recycle(p)
    BY <1>5, RecycleData
  <1>6. CASE insert(p)
    BY <1>6, InsertData
  <1>7. CASE bread(p)
    BY <1>7, BreadData
  <1>8. CASE breada(p)
    BY <1>8, BreadaData
  <1>9. CASE breada_next(p)
    BY <1>9, ReadAheadData
  <1>10. CASE biowait(p)
    BY <1>10, BiowaitData
  <1>11. CASE bwrite(p)
    BY <1>11, BwriteData
  <1>12. CASE bwrite_started(p)
    BY <1>12, StartedData
  <1>13. CASE bwrite_wait(p)
    BY <1>13, BwaitData
  <1>14. CASE vflushbuf(p)
    BY <1>14, VflushbufData
  <1>15. CASE vflushbuf_drain(p)
    BY <1>15, DrainData
  <1>16. CASE vinvalbuf(p)
    BY <1>16, VinvalbufData
  <1>17. CASE invalidate(p)
    BY <1>17, InvalidateData
  <1> QED
    BY <1>1, <1>2, <1>3, <1>4, <1>5, <1>6, <1>7, <1>8, <1>9, <1>10, <1>11, <1>12, <1>13, <1>14,
       <1>15, <1>16, <1>17 DEF Kernel

LEMMA NextData ==
    ASSUME Locked = Vnodes, ~AsyncErrors, Inv, Inv', UniqueInv, DataInv, [Next]_vars
    PROVE  UniqueInv' /\ DataInv'
  <1>1. ASSUME NEW p \in Procs, Call(p) PROVE UniqueInv' /\ DataInv'
    BY <1>1, CallData
  <1>2. ASSUME NEW p \in Procs, Leave(p) PROVE UniqueInv' /\ DataInv'
    BY <1>2, ReleaseData, WriteData, BdwriteData DEF Leave
  <1>3. ASSUME NEW b \in Bufs, biodone(b) PROVE UniqueInv' /\ DataInv'
    BY <1>3, BiodoneData
  <1> QED
    BY <1>1, <1>2, <1>3, KernelData, StutterData DEF Next

LEMMA CoherentHolds ==
    ASSUME Inv, DataInv
    PROVE  Coherent
  <1> SUFFICES ASSUME NEW v \in Vnodes, NEW l \in Blocks
               PROVE  /\ \A b \in Holding(v, l) : Is(b, "ERROR") \/ buf[b].data = contents[<<v, l>>]
                      /\ (\A b \in Holding(v, l) : Is(b, "ERROR")) => disk[<<v, l>>] = contents[<<v, l>>]
    BY DEF Coherent
  <1>1. ASSUME NEW b \in Holding(v, l), ~Is(b, "ERROR") PROVE buf[b].data = contents[<<v, l>>]
    <2>1. b \in Bufs /\ blk(b) = <<v, l>> /\ ~Is(b, "INVAL") /\ Has(b)
      BY DEF Holding, InUse, filled, Has, Ahead, AtBwrite
    <2>2. Valid(b)
      <3>1. BufOK(b) /\ buf[b].vp # None
        BY <2>1, InvBuf, BufAssumption DEF blk
      <3> QED
        BY <2>1, <3>1 DEF Valid, BufOK
    <2> QED
      BY <1>1, <2>1, <2>2 DEF DataInv, DataOK
  <1>2. ASSUME disk[<<v, l>>] # contents[<<v, l>>] PROVE \E b \in Holding(v, l) : ~Is(b, "ERROR")
    <2>1. DiskOK(<<v, l>>)
      BY DEF DataInv
    <2>2. PICK b \in Bufs : Valid(b) /\ blk(b) = <<v, l>> /\ Ahead(b)
      BY <1>2, <2>1 DEF DiskOK
    <2>3. b \in InUse /\ ~Is(b, "INVAL")
      BY <2>2, InvBuf DEF Valid, BufOK
    <2>4. b \in Holding(v, l)
      BY <2>2, <2>3 DEF Holding, filled, Ahead, AtBwrite
    <2> QED
      BY <2>2, <2>4 DEF DataInv, DataOK
  <1> QED
    BY <1>1, <1>2

LEMMA DataAlways == Locked = Vnodes /\ ~AsyncErrors => (Spec => [](Inv /\ UniqueInv /\ DataInv))
  <1> SUFFICES ASSUME Locked = Vnodes, ~AsyncErrors PROVE Spec => [](Inv /\ UniqueInv /\ DataInv)
    OBVIOUS
  <1>1. bufinit => Inv /\ UniqueInv /\ DataInv
    BY InitInv, InitData
  <1>2. Inv /\ UniqueInv /\ DataInv /\ [Next]_vars => (Inv /\ UniqueInv /\ DataInv)'
    BY NextInv, NextData
  <1> QED
    BY <1>1, <1>2, PTL DEF Spec

(* getblk puts no second buffer of a block on the hash chains, although it *)
(* may sleep in getnewbuf between its search and binshash, when the users  *)
(* of a vnode hold the vnode's lock.                                       *)
THEOREM UniqueBlockAlways == Locked = Vnodes /\ ~AsyncErrors => (Spec => []UniqueBlock)
  <1>1. Inv /\ UniqueInv /\ DataInv => UniqueBlock
    BY DEF UniqueInv
  <1> QED
    BY <1>1, DataAlways, PTL

(* What bread returns is what bwrite, bawrite and bdwrite last wrote,      *)
(* whatever getnewbuf has evicted and biodone has completed since, and a   *)
(* block that is not in the cache is on the device.                        *)
THEOREM CoherentAlways == Locked = Vnodes /\ ~AsyncErrors => (Spec => []Coherent)
  <1>1. Inv /\ UniqueInv /\ DataInv => Coherent
    BY CoherentHolds
  <1> QED
    BY <1>1, DataAlways, PTL
=============================================================================
