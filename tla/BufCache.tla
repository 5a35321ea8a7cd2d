------------------------------ MODULE BufCache ------------------------------
(***************************************************************************)
(* The buffer cache: sys/kern/vfs_bio.c, with the routines of              *)
(* sys/kern/vfs_subr.c that keep, flush and invalidate a vnode's buffers.  *)
(*                                                                         *)
(* The kernel is not preemptive: a process runs until it sleeps, and only  *)
(* the completion interrupt biodone comes in between, never while the      *)
(* process is at splbio.  So one step is one section that the interrupt    *)
(* cannot divide, or that it does not matter to; cpu is the process that   *)
(* is between two such sections, and no other process runs until it        *)
(* sleeps or returns.                                                      *)
(*                                                                         *)
(* All buffers have one size, the unit of maxbufmem.  The order of the     *)
(* lists that hang from a vnode and of a hash chain is left open.          *)
(***************************************************************************)
EXTENDS Integers, Sequences, FiniteSets

CONSTANTS Procs, Bufs, Vnodes, Blocks, Data,
          None,             \* no process, buffer, vnode, list or channel
          maxbufmem,        \* in buffers
          Locked,           \* vnodes whose users hold the vnode's lock
          Tapes,            \* vnodes of tape drives
          Calls,            \* the calls that the processes make
          SyncErrors,       \* may a transfer fail that a process waits for?
          AsyncErrors,      \* may one that nobody waits for?
          MaxCalls          \* bound: calls per process; 0 for no bound

ASSUME BufAssumption ==
    /\ None \notin Procs \cup Bufs \cup Vnodes \cup Blocks \cup Data
    /\ "bufneeded" \notin Bufs \cup Vnodes \cup {None} /\ Bufs \cap Vnodes = {}
    /\ None \notin Vnodes \X {"dirty", "clean"}
    /\ IsFiniteSet(Bufs) /\ Data # {}
    /\ Calls \subseteq {"getblk", "geteblk", "bread", "breada", "vflushbuf", "vinvalbuf"}
    /\ maxbufmem \in Nat
    /\ Locked \subseteq Vnodes /\ Tapes \subseteq Vnodes
    /\ SyncErrors \in BOOLEAN /\ AsyncErrors \in BOOLEAN
    /\ MaxCalls \in Nat

VARIABLES buf,          \* struct buf, per header
          hashed,       \* the headers on a hash chain
          lru,          \* bhhead: the list of buffers that are not busy
          bufcachemem,
          bufneeded,
          v_numoutput, VBWAIT,      \* fields of struct vnode
          io,           \* buffers that the device works on
          disk,         \* what the device holds
          pc, op,       \* where each process is in which call
          wchan,        \* what it sleeps on
          cpu,          \* the process that has not given up the processor
          calls,        \* calls it has made, when they are bounded
          contents      \* history: what the writes returned so far amount to

cache   == <<buf, hashed, lru, bufcachemem, bufneeded>>
vnode   == <<v_numoutput, VBWAIT>>
device  == <<io, disk, contents>>
vars    == <<cache, vnode, device, pc, op, wchan, cpu, calls>>

(* A header that is not in use.                                            *)
NoBuf == [flags |-> {}, vp |-> None, lblkno |-> None, data |-> None, list |-> None]
(* A process that is not in a call.                                        *)
NoCall == [call |-> None, vn |-> None, lbn |-> None, next |-> None, bp |-> None,
           first |-> None, nbp |-> None, oldstate |-> {}, ret |-> "idle",
           needfree |-> 0, flag |-> FALSE]

bufinit ==
    /\ buf = [b \in Bufs |-> NoBuf]
    /\ hashed = {} /\ lru = <<>> /\ bufcachemem = 0 /\ bufneeded = FALSE
    /\ v_numoutput = [v \in Vnodes |-> 0] /\ VBWAIT = [v \in Vnodes |-> FALSE]
    /\ io = {}
    /\ disk \in [Vnodes \X Blocks -> {CHOOSE d \in Data : TRUE}]
    /\ contents = disk
    /\ pc = [p \in Procs |-> "idle"] /\ op = [p \in Procs |-> NoCall]
    /\ wchan = [p \in Procs |-> None] /\ cpu = None
    /\ calls = [p \in Procs |-> 0]

-----------------------------------------------------------------------------
Is(b, f)  == f \in buf[b].flags
filled(b) == Is(b, "DONE") \/ Is(b, "DELWRI")
blk(b)    == <<buf[b].vp, buf[b].lblkno>>

(* p runs on from where it is, keeping the processor.                      *)
Runs(p) == cpu \in {None, p} /\ wchan[p] = None

Goto(p, where)  == pc' = [pc EXCEPT ![p] = where] /\ cpu' = p
(* The processor may go to another process: p may sleep in what follows.   *)
Yield(p, where) == pc' = [pc EXCEPT ![p] = where] /\ cpu' = None

wakeup(chans) ==
    wchan' = [q \in Procs |-> IF wchan[q] \in chans THEN None ELSE wchan[q]]

sleep(p, chan) == wchan' = [wchan EXCEPT ![p] = chan]

(* p's call is over.                                                       *)
Return(p) ==
    /\ Yield(p, "idle")
    /\ op' = [op EXCEPT ![p] = NoCall]

(* The list l without b, which is on it at most once: what comes after it  *)
(* moves up by one place.                                                  *)
OnList(b, l)  == \E i \in DOMAIN l : l[i] = b
Removed(b, l) == [i \in 1..(IF OnList(b, l) THEN Len(l) - 1 ELSE Len(l)) |->
    IF \E j \in 1..i : l[j] = b THEN l[i + 1] ELSE l[i]]
bremfree(b)   == lru' = Removed(b, lru)

(* reassignbuf, for a buffer whose fields are r: the dirty or the clean    *)
(* list of vnode v.                                                        *)
reassignbuf(r, v) ==
    [r EXCEPT !.list = <<v, IF "DELWRI" \in r.flags THEN "dirty" ELSE "clean">>]

brelvp(r) == [r EXCEPT !.vp = None, !.list = None]

(* What brelse makes of a buffer whose fields are r.                       *)
Bad(r) == r.flags \cap {"ERROR", "INVAL"} # {}
Freed(r) ==
    LET s == IF Bad(r)
             THEN brelvp([r EXCEPT !.flags = (@ \cup {"INVAL"}) \ {"DELWRI"}])
             ELSE r
    IN  [s EXCEPT !.flags = @ \ {"ASYNC", "BUSY", "WANTED"}]

InFront(r) == Bad(r) \/ {"DELWRI", "AGE"} \subseteq r.flags

brelse_NoBufneeded(b, r, l, chans) ==
    /\ buf' = [buf EXCEPT ![b] = Freed(r)]
    /\ lru' = IF InFront(r) THEN <<b>> \o l ELSE Append(l, b)
    /\ wakeup(chans \cup (IF "WANTED" \in r.flags THEN {b} ELSE {}))
    /\ UNCHANGED bufneeded
brelse(b, r, l, chans) ==
    /\ buf' = [buf EXCEPT ![b] = Freed(r)]
    /\ lru' = IF InFront(r) THEN <<b>> \o l ELSE Append(l, b)
    /\ bufneeded' = FALSE
    /\ wakeup(chans \cup (IF "WANTED" \in r.flags THEN {b} ELSE {})
                    \cup (IF bufneeded THEN {"bufneeded"} ELSE {}))

-----------------------------------------------------------------------------
(* Completion, at interrupt level: the device has done, or failed to do,   *)
(* what was asked of it.                                                   *)
biodone(b) ==
    /\ b \in io
    /\ \E err \in BOOLEAN :
        LET read == Is(b, "READ")
            v    == buf[b].vp
            r    == [buf[b] EXCEPT
                       !.flags = @ \cup {"DONE"} \cup (IF err THEN {"ERROR"} ELSE {}),
                       !.data  = IF read THEN (IF err THEN None ELSE disk[blk(b)]) ELSE @]
            last == ~read /\ VBWAIT[v] /\ v_numoutput[v] - 1 <= 0
            out  == IF last THEN {v} ELSE {}
        IN  /\ err => IF Is(b, "ASYNC") THEN AsyncErrors ELSE SyncErrors
            /\ disk' = IF read \/ err THEN disk ELSE [disk EXCEPT ![blk(b)] = r.data]
            /\ contents' = IF ~read /\ err THEN [contents EXCEPT ![blk(b)] = disk[blk(b)]]
                                           ELSE contents
            \* vwakeup
            /\ v_numoutput' = IF read THEN v_numoutput
                              ELSE [v_numoutput EXCEPT ![v] = @ - 1]
            /\ VBWAIT' = IF last THEN [VBWAIT EXCEPT ![v] = FALSE] ELSE VBWAIT
            /\ IF Is(b, "ASYNC")
               THEN brelse(b, r, lru, out)
               ELSE /\ buf' = [buf EXCEPT ![b] = [r EXCEPT !.flags = @ \ {"WANTED"}]]
                    /\ wakeup({b} \cup out)
                    /\ UNCHANGED <<lru, bufneeded>>
    /\ io' = io \ {b}
    /\ UNCHANGED <<hashed, bufcachemem, pc, op, cpu, calls>>

-----------------------------------------------------------------------------
(* getblk: the scan of the hash chain is not at splbio.                    *)
Cached_NotBusy(v, l) ==
    {b \in hashed : blk(b) = <<v, l>> /\ buf[b].flags \cap {"INVAL", "BUSY"} = {}}
Cached(v, l) == {b \in hashed : blk(b) = <<v, l>> /\ ~Is(b, "INVAL")}

getblk_scan(p) ==
    /\ Runs(p) /\ pc[p] = "getblk"
    /\ \/ \E b \in Cached(op[p].vn, op[p].lbn) :
            /\ op' = [op EXCEPT ![p].bp = b]
            /\ Goto(p, "found")
       \/ /\ Cached(op[p].vn, op[p].lbn) = {}
          /\ Goto(p, "getnewbuf") /\ UNCHANGED op
    /\ UNCHANGED <<cache, vnode, device, wchan, calls>>

getblk_found_NoRescan(p) ==
    /\ Runs(p) /\ pc[p] = "found"
    /\ LET b == op[p].bp IN
       IF Is(b, "BUSY")
       THEN /\ buf' = [buf EXCEPT ![b].flags = @ \cup {"WANTED"}]
            /\ sleep(p, b) /\ Yield(p, "found")
            /\ UNCHANGED <<lru, op>>
       ELSE /\ bremfree(b)
            /\ buf' = [buf EXCEPT ![b].flags = (@ \cup {"BUSY"}) \ {"AGE"}]
            /\ Goto(p, "got") /\ UNCHANGED <<wchan, op>>
    /\ UNCHANGED <<hashed, bufcachemem, bufneeded, vnode, device, calls>>
getblk_found_NoWait(p) ==
    /\ Runs(p) /\ pc[p] = "found"
    /\ bremfree(op[p].bp)
    /\ buf' = [buf EXCEPT ![op[p].bp].flags = (@ \cup {"BUSY"}) \ {"AGE"}]
    /\ Goto(p, "got")
    /\ UNCHANGED <<hashed, bufcachemem, bufneeded, vnode, device, wchan, op, calls>>
getblk_found(p) ==
    /\ Runs(p) /\ pc[p] = "found"
    /\ LET b == op[p].bp IN
       IF Is(b, "BUSY")
       THEN /\ buf' = [buf EXCEPT ![b].flags = @ \cup {"WANTED"}]
            /\ sleep(p, b) /\ Yield(p, "getblk")
            /\ op' = [op EXCEPT ![p].bp = None]
            /\ UNCHANGED lru
       ELSE /\ bremfree(b)
            /\ buf' = [buf EXCEPT ![b].flags = (@ \cup {"BUSY"}) \ {"AGE"}]
            /\ Goto(p, "got") /\ UNCHANGED <<wchan, op>>
    /\ UNCHANGED <<hashed, bufcachemem, bufneeded, vnode, device, calls>>

(* getnewbuf: a new header while the cache may grow, with two calls of     *)
(* MALLOC that may sleep, ...                                              *)
getnewbuf(p) ==
    /\ Runs(p) /\ pc[p] = "getnewbuf"
    /\ IF bufcachemem + 1 < maxbufmem
       THEN Yield(p, "malloc") /\ UNCHANGED op
       ELSE Goto(p, "recycle") /\ op' = [op EXCEPT ![p].needfree = 1]
    /\ UNCHANGED <<cache, vnode, device, wchan, calls>>

InUse == {b \in Bufs : buf[b] # NoBuf}
getnewbuf_alloc(p) ==
    /\ Runs(p) /\ pc[p] = "malloc"
    /\ \E b \in Bufs \ InUse :
        /\ buf' = [buf EXCEPT ![b] = [NoBuf EXCEPT !.flags = {"BUSY"}]]
        /\ op' = [op EXCEPT ![p].bp = b]
    /\ bufcachemem' = bufcachemem + 1
    /\ Yield(p, "insert")
    /\ UNCHANGED <<hashed, lru, bufneeded, vnode, device, wchan, calls>>

getnewbuf_recycle_DropsDirty(p) ==
    /\ Runs(p) /\ pc[p] = "recycle" /\ lru # <<>>
    /\ lru' = Tail(lru) /\ hashed' = hashed \ {Head(lru)}
    /\ buf' = [buf EXCEPT ![Head(lru)] = [NoBuf EXCEPT !.flags = {"BUSY"}]]
    /\ op' = [op EXCEPT ![p].bp = Head(lru), ![p].needfree = 0]
    /\ Goto(p, "insert")
    /\ UNCHANGED <<bufcachemem, bufneeded, vnode, device, wchan, calls>>

(* ... or the buffer at the head of the LRU list, unless that one has to   *)
(* be written first, or the cache has grown too large.                     *)
getnewbuf_recycle(p) ==
    /\ Runs(p) /\ pc[p] = "recycle"
    /\ \/ /\ lru = <<>>
          /\ bufneeded' = TRUE
          /\ sleep(p, "bufneeded") /\ Yield(p, "recycle")
          /\ UNCHANGED <<buf, hashed, lru, bufcachemem, op>>
       \/ /\ lru # <<>> /\ Is(Head(lru), "DELWRI")
          /\ lru' = Tail(lru)
          /\ buf' = [buf EXCEPT ![Head(lru)].flags = @ \cup {"BUSY", "AGE", "ASYNC"}]
          /\ op' = [op EXCEPT ![p].bp = Head(lru), ![p].ret = "recycle"]
          /\ Goto(p, "bwrite")
          /\ UNCHANGED <<hashed, bufcachemem, bufneeded, wchan>>
       \/ /\ lru # <<>> /\ ~Is(Head(lru), "DELWRI")
          /\ LET b == Head(lru)
                 needfree == op[p].needfree - 1
                 trim == bufcachemem + needfree > maxbufmem
             IN /\ lru' = Tail(lru) /\ hashed' = hashed \ {b}
                /\ buf' = [buf EXCEPT ![b] = IF trim THEN NoBuf
                                             ELSE [NoBuf EXCEPT !.flags = {"BUSY"}]]
                /\ bufcachemem' = IF trim THEN bufcachemem - 1 ELSE bufcachemem
                /\ op' = [op EXCEPT ![p].bp = IF trim THEN None ELSE b,
                                    ![p].needfree = IF trim THEN needfree ELSE 0]
                /\ Goto(p, IF trim THEN "recycle" ELSE "insert")
          /\ UNCHANGED <<bufneeded, wchan>>
    /\ UNCHANGED <<vnode, device, calls>>

(* The end of getblk, without a second look at the hash chain, or of       *)
(* geteblk.                                                                *)
insert(p) ==
    /\ Runs(p) /\ pc[p] = "insert"
    /\ LET b == op[p].bp
           r == buf[b]
       IN /\ hashed' = hashed \cup {b}
          /\ buf' = [buf EXCEPT ![b] =
                       IF op[p].call = "geteblk"
                       THEN [r EXCEPT !.flags = @ \cup {"INVAL"}]
                       ELSE [r EXCEPT !.vp = op[p].vn, !.lblkno = op[p].lbn,
                                      !.list = <<op[p].vn, "clean">>]]
    /\ Goto(p, "got")
    /\ UNCHANGED <<lru, bufcachemem, bufneeded, vnode, device, op, wchan, calls>>

-----------------------------------------------------------------------------
(* What the caller of getblk goes on to do with the buffer.                *)
strategy(b, flags) ==
    /\ io' = io \cup {b}
    /\ buf' = [buf EXCEPT ![b].flags = flags]

bread(p) ==
    /\ Runs(p) /\ pc[p] = "got" /\ op[p].call \in {"getblk", "geteblk", "bread"}
    /\ LET b == op[p].bp IN
        \/ /\ op[p].call = "bread" => filled(b)
           /\ Yield(p, "hold")
           /\ UNCHANGED <<buf, io>>
        \/ /\ op[p].call = "bread" /\ ~filled(b)
           /\ strategy(b, buf[b].flags \cup {"READ"})
           /\ Goto(p, "biowait")
    /\ UNCHANGED <<hashed, lru, bufcachemem, bufneeded, vnode, disk, contents, op, wchan, calls>>

(* breada: the block that is wanted, then the one after it, for which      *)
(* nobody waits.                                                           *)
breada(p) ==
    /\ Runs(p) /\ pc[p] = "got" /\ op[p].call = "breada" /\ op[p].first = None
    /\ LET b == op[p].bp IN
        /\ IF filled(b) THEN UNCHANGED <<buf, io>>
           ELSE strategy(b, buf[b].flags \cup {"READ"})
        /\ op' = [op EXCEPT ![p].first = b, ![p].bp = None,
                            ![p].lbn = op[p].next, ![p].next = op[p].lbn]
    /\ Goto(p, "getblk")
    /\ UNCHANGED <<hashed, lru, bufcachemem, bufneeded, vnode, disk, contents, wchan, calls>>

breada_next(p) ==
    /\ Runs(p) /\ pc[p] = "got" /\ op[p].call = "breada" /\ op[p].first # None
    /\ LET b == op[p].bp IN
        IF filled(b)
        THEN brelse(b, buf[b], lru, {}) /\ UNCHANGED io
        ELSE /\ strategy(b, buf[b].flags \cup {"ASYNC", "READ"})
             /\ UNCHANGED <<lru, bufneeded, wchan>>
    /\ op' = [op EXCEPT ![p].bp = op[p].first, ![p].first = None,
                        ![p].lbn = op[p].next, ![p].next = None]
    /\ Goto(p, "biowait")
    /\ UNCHANGED <<hashed, bufcachemem, vnode, disk, contents, calls>>

biowait(p) ==
    /\ Runs(p) /\ pc[p] = "biowait"
    /\ IF Is(op[p].bp, "DONE")
       THEN Yield(p, "hold") /\ UNCHANGED wchan
       ELSE sleep(p, op[p].bp) /\ Yield(p, "biowait")
    /\ UNCHANGED <<cache, vnode, device, op, calls>>

-----------------------------------------------------------------------------
(* What the holder of a buffer may do with it.  A buffer that could not be *)
(* read, or that has no block, can only be released.                       *)
Holder(p) == Runs(p) /\ pc[p] = "hold"
Usable(p) == Holder(p) /\ ~Is(op[p].bp, "ERROR") /\ op[p].call # "geteblk"

release(p) ==
    /\ Holder(p)
    /\ brelse(op[p].bp, buf[op[p].bp], lru, {})
    /\ Return(p)
    /\ UNCHANGED <<hashed, bufcachemem, vnode, device, calls>>

Modify(b, d) == contents' = [contents EXCEPT ![blk(b)] = d]

(* bwrite, or bawrite when async: it is called with new data in the        *)
(* buffer.                                                                 *)
write(p) ==
    /\ Usable(p)
    /\ \E d \in Data, async \in BOOLEAN :
        LET b == op[p].bp IN
        /\ Modify(b, d)
        /\ buf' = [buf EXCEPT ![b].data = d,
                              ![b].flags = @ \cup (IF async THEN {"ASYNC"} ELSE {})]
    /\ Goto(p, "bwrite")
    /\ UNCHANGED <<hashed, lru, bufcachemem, bufneeded, vnode, io, disk, op, wchan, calls>>

bdwrite(p) ==
    /\ Usable(p)
    /\ \E d \in Data :
        LET b == op[p].bp
            r == [buf[b] EXCEPT !.data = d, !.flags = @ \cup {"DELWRI"}]
            s == IF Is(b, "DELWRI") THEN r ELSE reassignbuf(r, r.vp)
        IN  /\ Modify(b, d)
            /\ IF s.vp \in Tapes
               THEN /\ buf' = [buf EXCEPT ![b] = [s EXCEPT !.flags = @ \cup {"ASYNC"}]]
                    /\ Goto(p, "bwrite")
                    /\ UNCHANGED <<lru, bufneeded, wchan, op>>
               ELSE /\ brelse(b, [s EXCEPT !.flags = @ \cup {"DONE"}], lru, {})
                    /\ Return(p)
    /\ UNCHANGED <<hashed, bufcachemem, vnode, io, disk, calls>>

bwrite_KeepsRead(p) ==
    /\ Runs(p) /\ pc[p] = "bwrite"
    /\ LET b == op[p].bp IN
        /\ op' = [op EXCEPT ![p].oldstate = buf[b].flags \cap {"DELWRI", "ASYNC"}]
        /\ strategy(b, buf[b].flags \ {"DELWRI", "DONE", "ERROR"})
        /\ v_numoutput' = [v_numoutput EXCEPT ![buf[b].vp] = @ + 1]
    /\ Goto(p, "started")
    /\ UNCHANGED <<hashed, lru, bufcachemem, bufneeded, VBWAIT, disk, contents, wchan, calls>>
(* bwrite up to the start of the transfer; then what it does while the     *)
(* transfer may already be over.                                           *)
bwrite(p) ==
    /\ Runs(p) /\ pc[p] = "bwrite"
    /\ LET b == op[p].bp IN
        /\ op' = [op EXCEPT ![p].oldstate = buf[b].flags \cap {"DELWRI", "ASYNC"}]
        /\ strategy(b, buf[b].flags \ {"DELWRI", "DONE", "ERROR", "READ"})
        /\ v_numoutput' = [v_numoutput EXCEPT ![buf[b].vp] = @ + 1]
    /\ Goto(p, "started")
    /\ UNCHANGED <<hashed, lru, bufcachemem, bufneeded, VBWAIT, disk, contents, wchan, calls>>

(* The end of bwrite: p goes on with the call that bwrite was part of.     *)
Written(p) ==
    IF op[p].ret = "idle" THEN Return(p)
    ELSE /\ Goto(p, op[p].ret)
         /\ op' = [op EXCEPT ![p].ret = "idle", ![p].bp = None, ![p].oldstate = {}]

bwrite_started_StaysDirty(p) ==
    /\ Runs(p) /\ pc[p] = "started"
    /\ IF "ASYNC" \in op[p].oldstate THEN Written(p)
       ELSE Goto(p, "bwait") /\ UNCHANGED op
    /\ UNCHANGED <<cache, vnode, device, wchan, calls>>
bwrite_started(p) ==
    /\ Runs(p) /\ pc[p] = "started"
    /\ LET b == op[p].bp IN
        buf' = IF "DELWRI" \in op[p].oldstate /\ buf[b].vp # None
               THEN [buf EXCEPT ![b] = reassignbuf(@, @.vp)] ELSE buf
    /\ IF "ASYNC" \in op[p].oldstate THEN Written(p)
       ELSE Goto(p, "bwait") /\ UNCHANGED op
    /\ UNCHANGED <<hashed, lru, bufcachemem, bufneeded, vnode, device, wchan, calls>>

bwrite_wait(p) ==
    /\ Runs(p) /\ pc[p] = "bwait"
    /\ LET b == op[p].bp IN
        IF Is(b, "DONE")
        THEN brelse(b, buf[b], lru, {}) /\ Written(p)
        ELSE /\ sleep(p, b) /\ Yield(p, "bwait")
             /\ UNCHANGED <<buf, lru, bufneeded, op>>
    /\ UNCHANGED <<hashed, bufcachemem, vnode, device, calls>>

-----------------------------------------------------------------------------
On(v, which) == {b \in Bufs : buf[b].list = <<v, which>>}
Panic(p) == Yield(p, "panic") /\ UNCHANGED op

(* vflushbuf(vn, flag ? B_SYNC : 0).                                       *)
vflushbuf(p) ==
    /\ Runs(p) /\ pc[p] = "vflushbuf"
    /\ LET vn == op[p].vn
           idle == {b \in On(vn, "dirty") : ~Is(b, "BUSY")}
       IN \/ \E b \in idle :
               IF ~Is(b, "DELWRI") THEN Panic(p) /\ UNCHANGED <<buf, lru>>
               ELSE /\ bremfree(b)
                    /\ buf' = [buf EXCEPT ![b].flags = @ \cup {"BUSY"} \cup
                          (IF buf[b].vp = vn \/ ~op[p].flag THEN {"ASYNC"} ELSE {})]
                    /\ op' = [op EXCEPT ![p].bp = b, ![p].ret = "vflushbuf"]
                    /\ Goto(p, "bwrite")
          \/ /\ idle = {}
             /\ IF op[p].flag THEN Goto(p, "drain") /\ UNCHANGED op ELSE Return(p)
             /\ UNCHANGED <<buf, lru>>
    /\ UNCHANGED <<hashed, bufcachemem, bufneeded, vnode, device, wchan, calls>>

vflushbuf_drain(p) ==
    /\ Runs(p) /\ pc[p] = "drain"
    /\ LET vn == op[p].vn IN
        IF v_numoutput[vn] # 0
        THEN /\ VBWAIT' = [VBWAIT EXCEPT ![vn] = TRUE]
             /\ sleep(p, vn) /\ Yield(p, "drain") /\ UNCHANGED op
        ELSE /\ IF On(vn, "dirty") # {} THEN Goto(p, "vflushbuf") /\ UNCHANGED op
                ELSE Return(p)
             /\ UNCHANGED <<VBWAIT, wchan>>
    /\ UNCHANGED <<cache, v_numoutput, device, calls>>

(* vinvalbuf(vn, flag): bp, and nbp after it, are read off the list before *)
(* splbio.                                                                 *)
vinvalbuf(p) ==
    /\ Runs(p) /\ pc[p] = "vinvalbuf"
    /\ LET vn == op[p].vn
           blist == IF On(vn, "dirty") # {} THEN On(vn, "dirty") ELSE On(vn, "clean")
       IN \/ \E b \in blist, nbp \in blist \cup {None} :
               /\ nbp # b
               /\ op' = [op EXCEPT ![p].bp = b, ![p].nbp = nbp]
               /\ Goto(p, "invalidate")
          \/ blist = {} /\ Return(p)
    /\ UNCHANGED <<cache, vnode, device, wchan, calls>>

(* The next buffer of the list, after b.                                   *)
Advance(p, b) ==
    LET n == op[p].nbp
    IN  IF n = None
        THEN Goto(p, "vinvalbuf") /\ op' = [op EXCEPT ![p].bp = None]
        ELSE /\ \E m \in {c \in Bufs \ {b, n} : buf[n].list # None /\ buf[c].list = buf[n].list}
                       \cup {None} :
                  op' = [op EXCEPT ![p].bp = n, ![p].nbp = m]
             /\ Goto(p, "invalidate")

invalidate(p) ==
    /\ Runs(p) /\ pc[p] = "invalidate"
    /\ LET b == op[p].bp
           vn == op[p].vn
           r == [buf[b] EXCEPT !.flags = @ \cup {"BUSY"}]
           l == Removed(b, lru)
       IN \/ /\ Is(b, "BUSY")
             /\ buf' = [buf EXCEPT ![b].flags = @ \cup {"WANTED"}]
             /\ sleep(p, b) /\ Yield(p, "vinvalbuf")
             /\ op' = [op EXCEPT ![p].bp = None, ![p].nbp = None]
             /\ UNCHANGED <<lru, bufneeded, contents>>
          \/ /\ ~Is(b, "BUSY") /\ op[p].flag /\ Is(b, "DELWRI")
             /\ buf' = [buf EXCEPT ![b] = r] /\ lru' = l
             /\ op' = [op EXCEPT ![p].nbp = None, ![p].ret = "vinvalbuf"]
             /\ Goto(p, "bwrite")
             /\ UNCHANGED <<bufneeded, wchan, contents>>
          \/ /\ ~Is(b, "BUSY") /\ ~(op[p].flag /\ Is(b, "DELWRI"))
             /\ buf[b].vp = None
             /\ Panic(p)          \* reassignbuf: NULL
             /\ UNCHANGED <<buf, lru, bufneeded, wchan, contents>>
          \/ /\ ~Is(b, "BUSY") /\ ~(op[p].flag /\ Is(b, "DELWRI"))
             /\ buf[b].vp # None
             /\ contents' = IF buf[b].vp = vn /\ Is(b, "DELWRI")
                            THEN [contents EXCEPT ![blk(b)] = disk[blk(b)]] ELSE contents
             /\ brelse(b, IF r.vp # vn THEN reassignbuf(r, r.vp)
                          ELSE [r EXCEPT !.flags = @ \cup {"INVAL"}], l, {})
             /\ Advance(p, b)
    /\ UNCHANGED <<hashed, bufcachemem, vnode, io, disk, calls>>

-----------------------------------------------------------------------------
(* A process starts a call.  The users of a locked vnode take turns.       *)
Call(p) ==
    /\ Runs(p) /\ pc[p] = "idle"
    /\ MaxCalls > 0 => calls[p] < MaxCalls
    /\ \E c \in Calls, v \in Vnodes, l \in Blocks, n \in Blocks \cup {None}, flag \in BOOLEAN :
        LET flush == c \in {"vflushbuf", "vinvalbuf"} IN
        /\ v \in Locked => \A q \in Procs : op[q].vn # v
        /\ IF c = "breada" THEN n \notin {None, l} ELSE n = None
        /\ flag => flush
        /\ op' = [op EXCEPT ![p] =
                 [NoCall EXCEPT !.call = c, !.next = n, !.flag = flag,
                                !.vn = IF c = "geteblk" THEN None ELSE v,
                                !.lbn = IF flush \/ c = "geteblk" THEN None ELSE l]]
        /\ Goto(p, IF flush THEN c ELSE IF c = "geteblk" THEN "getnewbuf" ELSE "getblk")
    /\ calls' = IF MaxCalls > 0 THEN [calls EXCEPT ![p] = @ + 1] ELSE calls
    /\ UNCHANGED <<cache, vnode, device, wchan>>

(* A process on its way through a call, without the client's part in it.   *)
Kernel(p) ==
    \/ getblk_scan(p) \/ getblk_found(p)
    \/ getnewbuf(p) \/ getnewbuf_alloc(p) \/ getnewbuf_recycle(p) \/ insert(p)
    \/ bread(p) \/ breada(p) \/ breada_next(p) \/ biowait(p)
    \/ bwrite(p) \/ bwrite_started(p) \/ bwrite_wait(p)
    \/ vflushbuf(p) \/ vflushbuf_drain(p) \/ vinvalbuf(p) \/ invalidate(p)

Leave(p) == release(p) \/ write(p) \/ bdwrite(p)

Next == \/ \E p \in Procs : Call(p) \/ Kernel(p) \/ Leave(p)
        \/ \E b \in Bufs : biodone(b)

Spec == bufinit /\ [][Next]_vars

(* A process that is awake gets the processor whenever it is given up time *)
(* and again, a holder ends what it does with its buffer, and the device   *)
(* ends every transfer.                                                    *)
Fairness ==
    /\ \A p \in Procs : SF_vars(Kernel(p)) /\ SF_vars(Leave(p))
    /\ \A b \in Bufs : WF_vars(biodone(b))

FairSpec == Spec /\ Fairness

-----------------------------------------------------------------------------
(* The processes that own buffer b: it is theirs alone from the time they  *)
(* make it busy until they release it or leave it to the device.           *)
Owners(b) == {p \in Procs :
    \/ op[p].first = b
    \/ op[p].bp = b /\ (\/ pc[p] \in {"insert", "got", "hold", "biowait", "bwrite", "bwait"}
                        \/ pc[p] = "started" /\ "ASYNC" \notin op[p].oldstate)}

(* A buffer in use is in exactly one place: free, and then once on the LRU *)
(* list; or busy, and then owned by one process, or asynchronous and the   *)
(* device's.                                                               *)
OneOwner == \A b \in InUse :
    LET places == Cardinality({i \in DOMAIN lru : lru[i] = b})
    IN  /\ ~Is(b, "BUSY") <=> places = 1
        /\ Is(b, "BUSY")  <=> places = 0
        /\ ~Is(b, "BUSY") => Owners(b) = {} /\ b \notin io
        /\ Is(b, "BUSY") => Cardinality(Owners(b)) = IF Is(b, "ASYNC") /\ b \in io THEN 0 ELSE 1
        /\ b \in io => ~Is(b, "DONE")

(* v_numoutput is the number of the vnode's writes under way, so that a    *)
(* synchronous vflushbuf returns neither too early nor never.              *)
OutputCounted == \A v \in Vnodes :
    v_numoutput[v] = Cardinality({b \in io : buf[b].vp = v /\ ~Is(b, "READ")})

(* What vflushbuf counts on: a buffer with a delayed write can be found on *)
(* the dirty list of a vnode, and a free buffer that is found there has a  *)
(* delayed write.  Nothing in between is seen when another process runs.   *)
DirtyListed == \A b \in InUse :
    /\ buf[b].vp = None <=> buf[b].list = None
    /\ Is(b, "DELWRI") => buf[b].list # None /\ buf[b].list[2] = "dirty"
    /\ Is(b, "DELWRI") /\ ~Is(b, "BUSY") => Is(b, "DONE")
    /\ cpu = None /\ ~Is(b, "BUSY") /\ buf[b].list # None /\ buf[b].list[2] = "dirty"
        => Is(b, "DELWRI")

(* A process sleeps only for something that is still to happen, and that   *)
(* will wake it.                                                           *)
NoMissedWakeup == \A p \in Procs :
    /\ wchan[p] \in Bufs => LET b == wchan[p] IN
          IF pc[p] \in {"biowait", "bwait"} THEN b \in io /\ ~Is(b, "ASYNC")
          ELSE Is(b, "BUSY") /\ (Is(b, "WANTED") \/ (b \in io /\ ~Is(b, "ASYNC")))
    /\ wchan[p] = "bufneeded" => bufneeded /\ lru = <<>>
    /\ wchan[p] \in Vnodes => VBWAIT[wchan[p]] /\ v_numoutput[wchan[p]] > 0

(* The valid buffers of a block that hold its data.                        *)
Holding(v, l) == {b \in InUse : blk(b) = <<v, l>> /\ ~Is(b, "INVAL")
    /\ \/ filled(b)
       \/ b \in io /\ ~Is(b, "READ")
       \/ \E p \in Procs : pc[p] = "bwrite" /\ op[p].bp = b}
(* The cache shows every block as the writes made it, whatever has been    *)
(* evicted, written back or is on its way to the device: the one valid     *)
(* buffer of a block that holds data holds the latest, and without such a  *)
(* buffer the device does.                                                 *)
Coherent == \A v \in Vnodes, l \in Blocks :
    /\ \A b \in Holding(v, l) : Is(b, "ERROR") \/ buf[b].data = contents[<<v, l>>]
    /\ (\A b \in Holding(v, l) : Is(b, "ERROR")) => disk[<<v, l>>] = contents[<<v, l>>]

(* A block has at most one buffer that a search of the cache would find.   *)
UniqueBlock == \A b, c \in hashed :
    b # c /\ ~Is(b, "INVAL") /\ ~Is(c, "INVAL") => blk(b) # blk(c)

(* getblk gives its caller a buffer of the block that was asked for.       *)
Identified == \A p \in Procs :
    pc[p] \in {"got", "hold"} /\ op[p].call # "geteblk" =>
        blk(op[p].bp) = <<op[p].vn, op[p].lbn>>

(* Every call comes to its end: nobody waits for ever for a buffer, for a  *)
(* transfer or for a vnode's output to drain.                              *)
CallsReturn == \A p \in Procs : pc[p] # "idle" ~> pc[p] = "idle"

(* None of the consistency checks fails: vflushbuf finds only dirty buffers *)
(* on the dirty list ("vflushbuf: not dirty"), and vinvalbuf a vnode in     *)
(* every buffer that it took off a list ("reassignbuf: NULL").             *)
NoPanic == \A p \in Procs : pc[p] # "panic"
=============================================================================
