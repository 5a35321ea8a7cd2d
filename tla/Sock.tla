-------------------------------- MODULE Sock --------------------------------
(***************************************************************************)
(* A connected pair of local stream sockets: sosend, soreceive, soshutdown *)
(* and soclose (sys/kern/uipc_socket.c), the socket buffer's lock, sleep   *)
(* and wakeup (sys/kern/uipc_socket2.c, sys/sys/socketvar.h) and the local *)
(* protocol under them (sys/kern/uipc_usrreq.c).                           *)
(*                                                                         *)
(* Several processes share each end.  Senders write to socket A, readers   *)
(* read from socket B; the other direction is the same code with the ends  *)
(* exchanged.  Data counts in units, and unit i is the i-th that the       *)
(* protocol accepted, so B's receive buffer holds the units ndel+1 to      *)
(* nsent.  MLEN is one unit; MCLBYTES (the default low-water mark of a     *)
(* send buffer) and MINCLSIZE are both lowat.  The count of mbufs          *)
(* (sb_mbcnt, sb_mbmax) follows the count of bytes and is left out.        *)
(*                                                                         *)
(* The kernel is not preemptive, and a local socket sees no interrupts: an *)
(* action is everything from one sleep to the next.  A process may sleep   *)
(* for the buffer's lock (channel of sb_flags), for data or space (channel *)
(* of sb_cc), and in uiomove, when the user's page is not there.           *)
(***************************************************************************)
EXTENDS Integers, FiniteSets

CONSTANTS Senders, Readers,
          None,
          PIPSIZ,           \* size of a stream's buffers
          lowat,            \* sb_lowat of A's send buffer, and MCLBYTES
          Writes, Reads,    \* sizes of the requests
          WaitAll,          \* subset of BOOLEAN: do readers use MSG_WAITALL?
          Calls,            \* of "shutdown read", "shutdown write", "close", "signal"
          MaxUnits          \* bound: no write begins that would go beyond

ASSUME SockAssumption ==
    /\ Senders \cap Readers = {} /\ None \notin Senders \cup Readers
    /\ None \notin {"sb_flags", "sb_cc"} \X {"snd", "rcv"}
    /\ lowat \in Nat \ {0} /\ PIPSIZ \in Nat /\ lowat <= PIPSIZ
    /\ Writes \subseteq Nat \ {0} /\ Reads \subseteq Nat \ {0}
    /\ WaitAll \subseteq BOOLEAN /\ MaxUnits \in Nat

Procs == Senders \cup Readers
Bufs  == {"snd", "rcv"}     \* so_snd of A, so_rcv of B

VARIABLES sb,           \* per buffer: lock (SB_LOCK), want, wait
          hiwat,        \* sb_hiwat of A's send buffer
          rhiwat,       \* sb_hiwat of B's receive buffer
          unp_cc,       \* B's unp_cc: what A has been charged for
          nsent, ndel,
          cantsend,     \* SS_CANTSENDMORE of A
          cantrcv,      \* SS_CANTRCVMORE of B
          conn,         \* unp_conn of both
          open,         \* the ends that have a file descriptor
          st,           \* where each process is in its call
          wchan,
          shut,         \* B's reading side has been shut down
          eof,          \* some read has returned end of file
          kept          \* an interrupted MSG_WAITALL has kept A's space

stream == <<hiwat, rhiwat, unp_cc, nsent, ndel>>
state  == <<cantsend, cantrcv, conn, open>>
hist   == <<shut, eof, kept>>
vars   == <<sb, stream, state, st, wchan, hist>>

Idle  == [pc |-> "idle", resid |-> 0, space |-> 0, from |-> 0, n |-> 0, all |-> FALSE]
cc    == nsent - ndel           \* sb_cc of B's receive buffer
Clear == [lock |-> None, want |-> FALSE, wait |-> FALSE]

Init ==
    /\ sb = [b \in Bufs |-> Clear]
    /\ hiwat = PIPSIZ /\ rhiwat = PIPSIZ /\ unp_cc = 0 /\ nsent = 0 /\ ndel = 0
    /\ cantsend = FALSE /\ cantrcv = FALSE /\ conn = TRUE /\ open = {"A", "B"}
    /\ st = [p \in Procs |-> Idle] /\ wchan = [p \in Procs |-> None]
    /\ shut = FALSE /\ eof = FALSE /\ kept = FALSE

-----------------------------------------------------------------------------
(* Sleeping and waking.                                                    *)

At(p, label) == wchan[p] = None /\ st[p].pc = label

LockChan(b) == <<"sb_flags", b>>
CcChan(b)   == <<"sb_cc", b>>
Smaller(m, n) == IF m < n THEN m ELSE n

(* wakeup of the channels, with at most one process p going to sleep.      *)
Wakeup(chans) == wchan' = [q \in Procs |-> IF wchan[q] \in chans THEN None ELSE wchan[q]]
Sleep(p, chan, chans) ==
    wchan' = [q \in Procs |-> IF q = p THEN chan
                              ELSE IF wchan[q] \in chans THEN None ELSE wchan[q]]

(* sbunlock and sowakeup: the new flags, and whom they wake.               *)
sbunlock(r) == [r EXCEPT !.lock = None, !.want = FALSE]
Wanting_Never(b) == {}                  \* mutant: no wakeup of the lock's waiters
Wanting(b)  == IF sb[b].want THEN {LockChan(b)} ELSE {}
sowakeup(r) == [r EXCEPT !.wait = FALSE]
Waiting(b)  == IF sb[b].wait THEN {CcChan(b)} ELSE {}

(* sb_lock finds the buffer locked: p sleeps, and will go on as call says. *)
sb_lock(p, b, call) ==
    /\ sb[b].lock # None
    /\ sb' = [sb EXCEPT ![b].want = TRUE]
    /\ st' = [st EXCEPT ![p] = call]
    /\ Sleep(p, LockChan(b), {})
    /\ UNCHANGED <<stream, state, hist>>

-----------------------------------------------------------------------------
(* sosend.                                                                 *)

Sending(n) == [Idle EXCEPT !.pc = "send", !.resid = n]

(* One round of the outer loop with A's send buffer locked, when hw is its *)
(* sb_hiwat and r what is left: EPIPE, a wait for space with the buffer    *)
(* unlocked, or the copy of the first piece.  sbs are the flags so far,    *)
(* and chans what has been woken.                                          *)
sosend_loop(p, hw, r, sbs, chans) ==
    CASE cantsend ->
           /\ st' = [st EXCEPT ![p] = Idle]
           /\ sb' = [sbs EXCEPT !["snd"] = sbunlock(@)]
           /\ Wakeup(chans \cup Wanting("snd"))
      [] ~cantsend /\ hw < r /\ hw < lowat ->
           /\ st' = [st EXCEPT ![p] = Sending(r)]
           /\ sb' = [sbs EXCEPT !["snd"] = [sbunlock(@) EXCEPT !.wait = TRUE]]
           /\ Sleep(p, CcChan("snd"), chans \cup Wanting("snd"))
      [] OTHER ->
           /\ st' = [st EXCEPT ![p] = [Idle EXCEPT !.pc = "PRU_SEND", !.resid = r,
                                                   !.space = hw]]
           /\ sb' = [sbs EXCEPT !["snd"].lock = p]
           /\ Wakeup(chans)

sosend(p, n) ==
    \/ sb_lock(p, "snd", Sending(n))
    \/ /\ sb["snd"].lock = None
       /\ sosend_loop(p, hiwat, n, sb, {})
       /\ UNCHANGED <<stream, state, hist>>

Write(p, n) ==
    /\ At(p, "idle") /\ "A" \in open /\ nsent + n <= MaxUnits
    /\ sosend(p, n)
Restart(p) == At(p, "send") /\ sosend(p, st[p].resid)

(* The piece that one mbuf takes: a cluster if there is room for one.      *)
Piece(resid, space) == IF resid >= lowat /\ space >= lowat THEN lowat ELSE 1

(* uiomove is done and PRU_SEND is called.  The piece goes to B's receive  *)
(* buffer, A is charged for it, and B's readers are woken.  The inner loop *)
(* goes on while there is space, the outer one while there is data.        *)
PRU_SEND(p) ==
    /\ At(p, "PRU_SEND")
    /\ IF cantsend
       THEN /\ st' = [st EXCEPT ![p] = Idle]
            /\ sb' = [sb EXCEPT !["snd"] = sbunlock(@)]
            /\ Wakeup(Wanting("snd"))
            /\ UNCHANGED stream
       ELSE LET len   == Piece(st[p].resid, st[p].space)
                resid == st[p].resid - len
                space == st[p].space - len
                woken == [sb EXCEPT !["rcv"] = sowakeup(@)] IN
            /\ nsent' = nsent + len
            /\ hiwat' = hiwat - (cc + len - unp_cc)
            /\ unp_cc' = cc + len
            /\ UNCHANGED <<rhiwat, ndel>>
            /\ CASE resid = 0 ->
                      /\ st' = [st EXCEPT ![p] = Idle]
                      /\ sb' = [woken EXCEPT !["snd"] = sbunlock(@)]
                      /\ Wakeup(Waiting("rcv") \cup Wanting("snd"))
                 [] resid > 0 /\ space > 0 ->
                      /\ st' = [st EXCEPT ![p].resid = resid, ![p].space = space]
                      /\ sb' = woken
                      /\ Wakeup(Waiting("rcv"))
                 [] OTHER -> sosend_loop(p, hiwat', resid, woken, Waiting("rcv"))
    /\ UNCHANGED <<state, hist>>

-----------------------------------------------------------------------------
(* soreceive.                                                              *)

Receiving(n, all) == [Idle EXCEPT !.pc = "recv", !.resid = n, !.all = all]

(* Less than the reader wants to wait for.                                 *)
TooLittle(n, all) == cc = 0 \/ (all /\ cc < n /\ n <= rhiwat)

(* p copies the next piece out of the first mbuf, whose length is left     *)
(* open; d is the number of units gone before it, c how many there are.    *)
Copy(p, call, d, c) == \E n \in 1..Smaller(call.resid, c) :
    st' = [st EXCEPT ![p] = [call EXCEPT !.pc = "uiomove", !.from = d, !.n = n]]

(* mutant: end of file before the data that came first.                    *)
soreceive_EofFirst(p, n, all) ==
    /\ cantrcv /\ sb["rcv"].lock = None
    /\ st' = [st EXCEPT ![p] = Idle]
    /\ eof' = TRUE
    /\ UNCHANGED <<sb, stream, state, wchan, shut, kept>>

(* The call gives up the buffer and sleeps; starts to copy; or returns 0.  *)
soreceive(p, n, all) ==
    \/ sb_lock(p, "rcv", Receiving(n, all))
    \/ /\ sb["rcv"].lock = None /\ TooLittle(n, all) /\ ~cantrcv
       /\ sb' = [sb EXCEPT !["rcv"].wait = TRUE]
       /\ st' = [st EXCEPT ![p] = Receiving(n, all)]
       /\ Sleep(p, CcChan("rcv"), {})
       /\ UNCHANGED <<stream, state, hist>>
    \/ /\ sb["rcv"].lock = None /\ cc > 0 /\ (cantrcv \/ ~TooLittle(n, all))
       /\ sb' = [sb EXCEPT !["rcv"].lock = p]
       /\ Copy(p, Receiving(n, all), ndel, cc)
       /\ UNCHANGED <<stream, state, wchan, hist>>
    \/ /\ sb["rcv"].lock = None /\ cc = 0 /\ cantrcv
       /\ st' = [st EXCEPT ![p] = Idle]
       /\ eof' = TRUE
       /\ UNCHANGED <<sb, stream, state, wchan, shut, kept>>

Read(p, n, all) == At(p, "idle") /\ "B" \in open /\ soreceive(p, n, all)
ReadAgain(p) == At(p, "recv") /\ soreceive(p, st[p].resid, st[p].all)

(* mutant: PRU_RCVD does not wake the senders.                             *)
Received_Silent(p, c) ==
    /\ st' = [st EXCEPT ![p] = Idle]
    /\ hiwat' = IF conn THEN hiwat + unp_cc - c ELSE hiwat
    /\ unp_cc' = IF conn THEN c ELSE unp_cc
    /\ kept' = (kept /\ ~conn)
    /\ sb' = [b \in Bufs |-> IF b = "rcv" THEN sbunlock(sb[b])
                             ELSE sb[b]]
    /\ Wakeup(Wanting("rcv"))

(* mutant: unp_cc is not brought up to date.                               *)
Received_Charged(p, c) ==
    /\ st' = [st EXCEPT ![p] = Idle]
    /\ hiwat' = IF conn THEN hiwat + unp_cc - c ELSE hiwat
    /\ UNCHANGED unp_cc
    /\ kept' = (kept /\ ~conn)
    /\ sb' = [b \in Bufs |-> IF b = "rcv" THEN sbunlock(sb[b])
                             ELSE IF conn THEN sowakeup(sb[b]) ELSE sb[b]]
    /\ Wakeup(Wanting("rcv") \cup IF conn THEN Waiting("snd") ELSE {})

(* The end of soreceive, with c left in the buffer.  PRU_RCVD gives A its  *)
(* space back and wakes the senders, if A is still there.                  *)
Received(p, c) ==
    /\ st' = [st EXCEPT ![p] = Idle]
    /\ hiwat' = IF conn THEN hiwat + unp_cc - c ELSE hiwat
    /\ unp_cc' = IF conn THEN c ELSE unp_cc
    /\ kept' = (kept /\ ~conn)
    /\ sb' = [b \in Bufs |-> IF b = "rcv" THEN sbunlock(sb[b])
                             ELSE IF conn THEN sowakeup(sb[b]) ELSE sb[b]]
    /\ Wakeup(Wanting("rcv") \cup IF conn THEN Waiting("snd") ELSE {})

(* MSG_WAITALL: the wait for more keeps the buffer locked.                 *)
WaitMore(p, resid) ==
    /\ st' = [st EXCEPT ![p] = [Receiving(resid, TRUE) EXCEPT !.pc = "more"]]
    /\ sb' = [sb EXCEPT !["rcv"].wait = TRUE]
    /\ Sleep(p, CcChan("rcv"), {})
    /\ UNCHANGED <<hiwat, unp_cc, kept>>

(* A piece has been copied and is taken off the buffer.                    *)
Copied(p) ==
    /\ At(p, "uiomove")
    /\ LET resid == st[p].resid - st[p].n
           c     == cc - st[p].n IN
       /\ ndel' = ndel + st[p].n
       /\ CASE resid > 0 /\ c > 0 ->
                 /\ Copy(p, [st[p] EXCEPT !.resid = resid], ndel', c)
                 /\ UNCHANGED <<sb, hiwat, unp_cc, wchan, kept>>
            [] resid > 0 /\ c = 0 /\ st[p].all /\ ~cantrcv ->
                 WaitMore(p, resid)
            [] OTHER -> Received(p, c)
    /\ UNCHANGED <<rhiwat, nsent, state, shut, eof>>

(* The wait for more is over.                                              *)
More(p) ==
    /\ At(p, "more")
    /\ CASE cc > 0 -> /\ Copy(p, st[p], ndel, cc)
                      /\ UNCHANGED <<sb, hiwat, unp_cc, wchan, kept>>
         [] cc = 0 /\ cantrcv -> Received(p, 0)
         [] cc = 0 /\ ~cantrcv -> WaitMore(p, st[p].resid)
    /\ UNCHANGED <<rhiwat, nsent, ndel, state, shut, eof>>

(* A signal, or the buffer's timeout, ends a sleep: the call returns with  *)
(* what it has done.  A wait for more gives the buffer up on the way, and  *)
(* nothing else.  (A waiting sorflush keeps later sleeps on its buffer     *)
(* from being interrupted; here they may be.)                              *)
signal(p) ==
    /\ "signal" \in Calls /\ wchan[p] # None /\ st[p].pc # "sorflush"
    /\ st' = [st EXCEPT ![p] = Idle]
    /\ IF st[p].pc = "more"
       THEN /\ sb' = [sb EXCEPT !["rcv"] = sbunlock(@)]
            /\ Sleep(p, None, Wanting("rcv"))
            /\ kept' = TRUE
       ELSE UNCHANGED <<sb, kept>> /\ Sleep(p, None, {})
    /\ UNCHANGED <<stream, state, shut, eof>>

-----------------------------------------------------------------------------
(* soshutdown.                                                             *)

(* mutant: the flags are set and nobody is woken.                          *)
CantMore_Silent(rcvToo) ==
    /\ cantsend' = TRUE
    /\ cantrcv' = (cantrcv \/ rcvToo)
    /\ UNCHANGED <<sb, wchan>>

(* SS_CANTSENDMORE of A and SS_CANTRCVMORE of B, with their wakeups.       *)
CantMore(rcvToo) ==
    /\ cantsend' = TRUE
    /\ cantrcv' = (cantrcv \/ rcvToo)
    /\ sb' = [b \in Bufs |-> IF b = "snd" \/ rcvToo THEN sowakeup(sb[b]) ELSE sb[b]]
    /\ Wakeup(Waiting("snd") \cup IF rcvToo THEN Waiting("rcv") ELSE {})

(* For writing, PRU_SHUTDOWN.                                              *)
ShutWrite ==
    /\ "shutdown write" \in Calls /\ ~cantsend /\ "A" \in open
    /\ \E p \in Senders : At(p, "idle")
    /\ CantMore(conn)
    /\ UNCHANGED <<stream, conn, open, st, hist>>

(* mutant: without the buffer's lock.                                      *)
sorflush_Unlocked(p) ==
    /\ cantrcv' = TRUE /\ shut' = TRUE
    /\ ndel' = nsent /\ rhiwat' = 0
    /\ sb' = [sb EXCEPT !["rcv"] = Clear]
    /\ Wakeup(Waiting("rcv") \cup Wanting("rcv"))
    /\ st' = [st EXCEPT ![p] = Idle]
    /\ UNCHANGED <<hiwat, unp_cc, nsent, cantsend, conn, open, eof, kept>>

(* For reading, sorflush: lock the buffer, say that no more comes, and     *)
(* clear the buffer, its marks and flags included.                         *)
sorflush(p) ==
    \/ sb_lock(p, "rcv", [Idle EXCEPT !.pc = "sorflush"])
    \/ /\ sb["rcv"].lock = None
       /\ cantrcv' = TRUE /\ shut' = TRUE
       /\ ndel' = nsent /\ rhiwat' = 0
       /\ sb' = [sb EXCEPT !["rcv"] = Clear]
       /\ Wakeup(Waiting("rcv") \cup Wanting("rcv"))
       /\ st' = [st EXCEPT ![p] = Idle]
       /\ UNCHANGED <<hiwat, unp_cc, nsent, cantsend, conn, open, eof, kept>>

ShutRead(p) ==
    /\ "shutdown read" \in Calls /\ At(p, "idle") /\ "B" \in open /\ ~shut
    /\ sorflush(p)
FlushAgain(p) == At(p, "sorflush") /\ sorflush(p)

(* soclose, when the last descriptor goes: unp_disconnect tells both ends, *)
(* and sofree flushes the receive buffer of the one that is closed.        *)
CloseA ==
    /\ "close" \in Calls /\ "A" \in open /\ \A p \in Senders : At(p, "idle")
    /\ open' = open \ {"A"}
    /\ conn' = FALSE
    /\ CantMore(conn)
    /\ UNCHANGED <<stream, st, hist>>

CloseB ==
    /\ "close" \in Calls /\ "B" \in open /\ \A p \in Readers : At(p, "idle")
    /\ open' = open \ {"B"}
    /\ conn' = FALSE
    /\ IF conn THEN CantMore(TRUE)
       ELSE cantrcv' = TRUE /\ UNCHANGED <<cantsend, sb, wchan>>
    /\ ndel' = nsent /\ rhiwat' = 0
    /\ UNCHANGED <<hiwat, unp_cc, nsent, st, hist>>

-----------------------------------------------------------------------------
Step(p) == \/ Restart(p) \/ PRU_SEND(p)
           \/ ReadAgain(p) \/ Copied(p) \/ More(p) \/ FlushAgain(p)

Next ==
    \/ \E p \in Procs : Step(p) \/ signal(p)
    \/ \E p \in Senders, n \in Writes : Write(p, n)
    \/ \E p \in Readers : ShutRead(p) \/ \E n \in Reads, all \in WaitAll : Read(p, n, all)
    \/ ShutWrite \/ CloseA \/ CloseB

Spec == Init /\ [][Next]_vars

(* A process that can run does, in the end.                                *)
FairSpec == Spec /\ \A p \in Procs : WF_vars(Step(p))

-----------------------------------------------------------------------------
Chans     == {LockChan(b) : b \in Bufs} \cup {CcChan(b) : b \in Bufs}
Labels    == {"idle", "send", "PRU_SEND", "recv", "uiomove", "more", "sorflush"}
CallStates == [pc : Labels, resid : Nat, space : Nat, from : Nat, n : Nat, all : BOOLEAN]
BufStates  == [lock : Procs \cup {None}, want : BOOLEAN, wait : BOOLEAN]

TypeOK ==
    /\ sb \in [Bufs -> BufStates]
    /\ hiwat \in 0..PIPSIZ /\ rhiwat \in {0, PIPSIZ} /\ unp_cc \in 0..PIPSIZ
    /\ nsent \in Nat /\ ndel \in 0..nsent
    /\ cantsend \in BOOLEAN /\ cantrcv \in BOOLEAN /\ conn \in BOOLEAN
    /\ shut \in BOOLEAN /\ eof \in BOOLEAN /\ kept \in BOOLEAN
    /\ open \subseteq {"A", "B"}
    /\ st \in [Procs -> CallStates]
    /\ wchan \in [Procs -> Chans \cup {None}]

(* What a reader is copying, asleep or not, is still the head of the       *)
(* buffer: no unit is given to two reads or to none, and the units are     *)
(* given out in the order in which they were accepted.                     *)
InOrder == \A p \in Readers : st[p].pc = "uiomove" =>
    st[p].from = ndel /\ st[p].n <= cc

(* The state is well typed.  A has been charged for everything that B has  *)
(* not given back, so that what is on the way never exceeds PIPSIZ, and    *)
(* what a sender has been promised before it slept in uiomove is still     *)
(* there.  A sender that finds no error finds a peer: no panic "uipc 3".   *)
Backpressure ==
    /\ TypeOK
    /\ ~cantsend => conn
    /\ cc <= PIPSIZ
    /\ conn => hiwat + unp_cc = PIPSIZ /\ cc <= unp_cc
    /\ \A p \in Senders : st[p].pc = "PRU_SEND" /\ ~cantsend => st[p].space <= PIPSIZ - cc

(* Some reader has taken units, and has not yet called PRU_RCVD.           *)
Unreturned == kept \/ \E r \in Readers : st[r].pc \in {"uiomove", "more"}

(* Who sleeps still has to, and will be woken: until the reading side is   *)
(* shut down.                                                              *)
NoMissedWakeup == ~shut => \A p \in Procs :
    /\ \A b \in Bufs : wchan[p] = LockChan(b) => sb[b].lock # None /\ sb[b].want
    /\ wchan[p] = CcChan("snd") =>
          /\ sb["snd"].wait /\ ~cantsend
          /\ (hiwat < st[p].resid /\ hiwat < lowat) \/ Unreturned
    /\ wchan[p] = CcChan("rcv") =>
          sb["rcv"].wait /\ ~cantrcv /\ (IF st[p].pc = "more" THEN cc = 0 ELSE TooLittle(st[p].resid, st[p].all))

(* Senders and readers do not wait for one another: while a reader sleeps  *)
(* for data, no sender sleeps for space; unless a reader waits for all it  *)
(* asked for, or has been interrupted as it did.                           *)
Stuck(s, r) == wchan[s] = CcChan("snd") /\ wchan[r] = CcChan("rcv")
StreamMoves == \A s \in Senders, r \in Readers :
    Stuck(s, r) => kept \/ \E q \in Readers : st[q].all
(* The same for readers that wait for all they asked for.                  *)
WaitAllMoves == \A s \in Senders, r \in Readers : ~Stuck(s, r)

(* A sender sleeps for space only while there are units in B's buffer, or  *)
(* in a reader's hands, whose reading gives the space back: also after     *)
(* shutdown(s, 0), when sorflush drops what was there.                     *)
SpaceComesBack == \A p \in Senders : wchan[p] = CcChan("snd") => cc > 0 \/ Unreturned

(* End of file means that the sender is done, and that everything it sent  *)
(* has been read; nothing comes after it.                                  *)
EofRight == eof /\ ~shut => cantsend /\ cc = 0

(* After shutdown(s, 0) there is nothing to receive.                       *)
NoMoreReceives == shut => cc = 0

(* Once A can send no more, since its writing side was shut down or either *)
(* end was closed, every sender's call returns; and once nothing more will *)
(* come to B, for one of these reasons or because its reading side was     *)
(* shut down, every reader's.                                              *)
CallsEnd == \A p \in Procs :
    (IF p \in Senders THEN cantsend ELSE cantrcv) ~> st[p].pc = "idle"
=============================================================================
