----------------------------- MODULE SockProofs -----------------------------
(***************************************************************************)
(* Proofs about a pair of local stream sockets (Sock), for any numbers of  *)
(* senders and readers, any buffer size and any sizes of requests.         *)
(***************************************************************************)
EXTENDS Sock, TLAPS

(* Where each process can be, and what it may sleep on there.              *)
Places ==
    /\ \A p \in Senders : st[p].pc \in {"idle", "send", "PRU_SEND"}
    /\ \A p \in Readers : st[p].pc \in {"idle", "recv", "uiomove", "more", "sorflush"}
    /\ \A p \in Procs :
          /\ wchan[p] \in {LockChan("snd"), CcChan("snd")} => st[p].pc = "send"
          /\ wchan[p] = LockChan("rcv") => st[p].pc \in {"recv", "sorflush"}
          /\ wchan[p] = CcChan("rcv") => st[p].pc \in {"recv", "more"}

(* A buffer is locked by the one process that is copying.                  *)
LockHeld == \A p \in Procs :
    /\ sb["snd"].lock = p <=> st[p].pc = "PRU_SEND"
    /\ sb["rcv"].lock = p <=> st[p].pc \in {"uiomove", "more"}

(* What a call has still to do.                                            *)
CallOK == \A p \in Procs :
    /\ st[p].pc \in {"send", "PRU_SEND", "recv"} => st[p].resid > 0
    /\ st[p].pc = "PRU_SEND" => st[p].space > 0
    /\ st[p].pc = "PRU_SEND" /\ ~cantsend => st[p].space <= PIPSIZ - cc
    /\ st[p].pc = "uiomove" => /\ st[p].from = ndel
                               /\ st[p].n > 0 /\ st[p].n <= cc /\ st[p].n <= st[p].resid
    /\ st[p].pc = "more" => st[p].all /\ st[p].resid > 0

(* How the two ends of the stream come to be closed.                       *)
EndsOK ==
    /\ ~cantsend => conn
    /\ cantrcv /\ ~shut => cantsend
    /\ shut => cantrcv
    /\ eof /\ ~shut => cantsend /\ cc = 0

(* What A is charged for: more than is on the way only until a reader that *)
(* has taken units calls PRU_RCVD.                                         *)
Charged ==
    /\ cc <= PIPSIZ
    /\ conn => hiwat + unp_cc = PIPSIZ /\ cc <= unp_cc
    /\ conn /\ ~shut /\ cc < unp_cc => Unreturned

(* Who sleeps will be woken, and still has to sleep.                       *)
LockWaits == \A p \in Procs :
    /\ wchan[p] = LockChan("snd") => sb["snd"].lock # None /\ sb["snd"].want
    /\ wchan[p] = LockChan("rcv") => sb["rcv"].lock # None /\ sb["rcv"].want
SpaceWaits == \A p \in Procs : wchan[p] = CcChan("snd") =>
    /\ sb["snd"].wait /\ ~cantsend
    /\ shut \/ (hiwat < st[p].resid /\ hiwat < lowat) \/ Unreturned
DataWaits == \A p \in Procs : wchan[p] = CcChan("rcv") =>
    /\ sb["rcv"].wait /\ ~cantrcv
    /\ IF st[p].pc = "more" THEN cc = 0 ELSE TooLittle(st[p].resid, st[p].all)

Inv == /\ TypeOK /\ Places /\ LockHeld /\ CallOK /\ EndsOK /\ Charged
       /\ LockWaits /\ SpaceWaits /\ DataWaits

-----------------------------------------------------------------------------
(* The channels are different, and none of them is None.                   *)
LEMMA Channels ==
    /\ LockChan("snd") \in Chans /\ LockChan("rcv") \in Chans
    /\ CcChan("snd") \in Chans /\ CcChan("rcv") \in Chans
    /\ None \notin Chans
    /\ LockChan("snd") # LockChan("rcv") /\ CcChan("snd") # CcChan("rcv")
    /\ \A b, c \in Bufs : LockChan(b) # CcChan(c)
  BY SockAssumption DEF Chans, LockChan, CcChan, Bufs

(* The flags of a buffer after the operations on them.                     *)
LEMMA BufStateOps ==
    ASSUME NEW r \in BufStates, NEW p \in Procs
    PROVE  /\ [r EXCEPT !.want = TRUE] \in BufStates
           /\ [r EXCEPT !.wait = TRUE] \in BufStates
           /\ [r EXCEPT !.lock = p] \in BufStates
           /\ sbunlock(r) \in BufStates
           /\ sowakeup(r) \in BufStates
           /\ Clear \in BufStates
  BY DEF BufStates, sbunlock, sowakeup, Clear

LEMMA WakeupState ==
    ASSUME NEW r \in BufStates
    PROVE  sowakeup(r) \in BufStates
  BY DEF BufStates, sowakeup

(* What a process has in hand as its call goes on.                         *)
LEMMA CallStateOps ==
    ASSUME NEW n \in Nat, NEW m \in Nat, NEW all \in BOOLEAN
    PROVE  /\ Idle \in CallStates
           /\ Sending(n) \in CallStates
           /\ [Idle EXCEPT !.pc = "PRU_SEND", !.resid = n, !.space = m] \in CallStates
           /\ Receiving(n, all) \in CallStates
           /\ [Idle EXCEPT !.pc = "sorflush"] \in CallStates
  BY DEF Idle, Sending, Receiving, CallStates, Labels

LEMMA CallStateGoesOn ==
    ASSUME NEW r \in CallStates, NEW n \in Nat, NEW m \in Nat, NEW k \in Nat
    PROVE  /\ [r EXCEPT !.resid = n, !.space = m] \in CallStates
           /\ [r EXCEPT !.resid = n] \in CallStates
           /\ [r EXCEPT !.pc = "uiomove", !.from = m, !.n = k] \in CallStates
           /\ [r EXCEPT !.pc = "more"] \in CallStates
  BY DEF CallStates, Labels

LEMMA InitInv == Init => Inv
  <1> SUFFICES ASSUME Init PROVE Inv
    OBVIOUS
  <1> USE SockAssumption, Channels DEF Init, Idle, Clear, Bufs, Procs, cc
  <1>1. TypeOK
    <2>1. sb \in [Bufs -> BufStates]
      BY DEF BufStates
    <2>2. Idle \in CallStates
      BY DEF CallStates, Labels
    <2>3. st \in [Procs -> CallStates] /\ wchan \in [Procs -> Chans \cup {None}]
      BY <2>2
    <2>4. hiwat \in 0..PIPSIZ /\ rhiwat \in {0, PIPSIZ} /\ unp_cc \in 0..PIPSIZ
      OBVIOUS
    <2>5. nsent \in Nat /\ ndel \in 0..nsent /\ open \subseteq {"A", "B"}
      OBVIOUS
    <2> QED
      BY <2>1, <2>3, <2>4, <2>5 DEF TypeOK
  <1>2. Places /\ LockHeld /\ CallOK
    BY DEF Places, LockHeld, CallOK
  <1>3. EndsOK /\ Charged
    BY DEF EndsOK, Charged
  <1>4. LockWaits /\ SpaceWaits /\ DataWaits
    BY DEF LockWaits, SpaceWaits, DataWaits
  <1> QED
    BY <1>1, <1>2, <1>3, <1>4 DEF Inv

(* A process finds a buffer locked and sleeps for it.                      *)
LEMMA SleepsForLock ==
    ASSUME Inv, NEW p \in Procs, NEW b \in Bufs, NEW call,
           wchan[p] = None,
           sb_lock(p, b, call),
           call \in CallStates,
           IF p \in Senders THEN b = "snd" /\ call.pc = "send" /\ st[p].pc \in {"idle", "send"}
           ELSE b = "rcv" /\ call.pc \in {"recv", "sorflush"}
                /\ st[p].pc \in {"idle", "recv", "sorflush"},
           call.pc # "sorflush" => call.resid > 0
    PROVE  Inv'
  <1> USE SockAssumption, Channels
          DEF Inv, sb_lock, Sleep, Bufs, Procs, cc, stream, state, hist
  <1>1. TypeOK'
    <2>1. sb' \in [Bufs -> BufStates]
      <3>1. [sb[b] EXCEPT !.want = TRUE] \in BufStates
        BY BufStateOps DEF TypeOK
      <3> QED
        BY <3>1 DEF TypeOK
    <2>2. st' \in [Procs -> CallStates]
      BY DEF TypeOK
    <2>3. wchan' \in [Procs -> Chans \cup {None}]
      BY DEF TypeOK
    <2> QED
      BY <2>1, <2>2, <2>3 DEF TypeOK
  <1>2. Places'
    BY DEF TypeOK, Places
  <1>3. LockHeld'
    BY DEF TypeOK, LockHeld
  <1>4. CallOK'
    BY DEF TypeOK, CallOK
  <1>5. EndsOK'
    BY DEF EndsOK
  <1>6. Charged'
    BY DEF TypeOK, Charged, Unreturned
  <1>7. LockWaits'
    BY DEF TypeOK, LockWaits
  <1>8. SpaceWaits'
    BY DEF TypeOK, SpaceWaits, Unreturned
  <1>9. DataWaits'
    BY DEF TypeOK, DataWaits, TooLittle
  <1> QED
    BY <1>1, <1>2, <1>3, <1>4, <1>5, <1>6, <1>7, <1>8, <1>9

(* sosend, from its start or after a sleep, up to its next sleep.          *)
LEMMA SosendInv ==
    ASSUME Inv, NEW p \in Senders, NEW n \in Nat \ {0}, wchan[p] = None,
           st[p].pc \in {"idle", "send"}, sosend(p, n)
    PROVE  Inv'
  <1> USE SockAssumption, Channels DEF Inv, Bufs, Procs
  <1>1. CASE sb_lock(p, "snd", Sending(n))
    <2>1. Sending(n) \in CallStates /\ Sending(n).pc = "send" /\ Sending(n).resid = n
      BY CallStateOps DEF Sending, Idle
    <2> QED
      BY <1>1, <2>1, SleepsForLock
  <1>2. CASE /\ sb["snd"].lock = None
             /\ sosend_loop(p, hiwat, n, sb, {})
             /\ UNCHANGED <<stream, state, hist>>
    <2>0. sb["snd"].lock = None /\ UNCHANGED <<stream, state, hist>>
      BY <1>2
    <2>1. CASE cantsend
      <3>a. /\ st' = [st EXCEPT ![p] = Idle]
            /\ sb' = [sb EXCEPT !["snd"] = sbunlock(@)]
            /\ Wakeup(Wanting("snd"))
        BY <1>2, <2>1 DEF sosend_loop
      <3> USE <2>0, <2>1, <3>a DEF Wakeup, Wanting, sbunlock, Idle, cc, stream, state, hist
      <3>1. TypeOK'
        <4>1. sb' \in [Bufs -> BufStates]
          BY BufStateOps DEF TypeOK
        <4>2. st' \in [Procs -> CallStates]
          BY CallStateOps DEF TypeOK
        <4>3. wchan' \in [Procs -> Chans \cup {None}]
          BY DEF TypeOK
        <4> QED
          BY <4>1, <4>2, <4>3 DEF TypeOK
      <3>2. Places'
        BY DEF TypeOK, Places
      <3>3. LockHeld'
        BY DEF TypeOK, LockHeld
      <3>4. CallOK'
        BY DEF TypeOK, CallOK
      <3>5. EndsOK'
        BY DEF TypeOK, EndsOK
      <3>6. Charged'
        BY DEF TypeOK, Charged, Unreturned
      <3>7. LockWaits'
        BY DEF TypeOK, LockWaits
      <3>8. SpaceWaits'
        BY DEF TypeOK, SpaceWaits, Unreturned
      <3>9. DataWaits'
        BY DEF TypeOK, DataWaits, TooLittle
      <3> QED
        BY <3>1, <3>2, <3>3, <3>4, <3>5, <3>6, <3>7, <3>8, <3>9 DEF Inv
    <2>2. CASE ~cantsend /\ hiwat < n /\ hiwat < lowat
      <3>a. /\ st' = [st EXCEPT ![p] = Sending(n)]
            /\ sb' = [sb EXCEPT !["snd"] = [sbunlock(@) EXCEPT !.wait = TRUE]]
            /\ Sleep(p, CcChan("snd"), Wanting("snd"))
        BY <1>2, <2>2 DEF sosend_loop
      <3> USE <2>0, <2>2, <3>a DEF Sleep, Wanting, sbunlock, Sending, Idle, cc, stream, state, hist
      <3>1. TypeOK'
        <4>1. sb' \in [Bufs -> BufStates]
          BY BufStateOps DEF TypeOK
        <4>2. st' \in [Procs -> CallStates]
          BY CallStateOps DEF TypeOK
        <4>3. wchan' \in [Procs -> Chans \cup {None}]
          BY DEF TypeOK
        <4> QED
          BY <4>1, <4>2, <4>3 DEF TypeOK
      <3>2. Places'
        BY DEF TypeOK, Places
      <3>3. LockHeld'
        BY DEF TypeOK, LockHeld
      <3>4. CallOK'
        BY DEF TypeOK, CallOK
      <3>5. EndsOK'
        BY DEF TypeOK, EndsOK
      <3>6. Charged'
        BY DEF TypeOK, Charged, Unreturned
      <3>7. LockWaits'
        BY DEF TypeOK, LockWaits
      <3>8. SpaceWaits'
        BY DEF TypeOK, SpaceWaits, Unreturned
      <3>9. DataWaits'
        BY DEF TypeOK, DataWaits, TooLittle
      <3> QED
        BY <3>1, <3>2, <3>3, <3>4, <3>5, <3>6, <3>7, <3>8, <3>9 DEF Inv
    <2>3. CASE ~cantsend /\ ~(hiwat < n /\ hiwat < lowat)
      <3>a. /\ st' = [st EXCEPT ![p] = [Idle EXCEPT !.pc = "PRU_SEND", !.resid = n,
                                                     !.space = hiwat]]
            /\ sb' = [sb EXCEPT !["snd"].lock = p]
            /\ Wakeup({})
        BY <1>2, <2>3 DEF sosend_loop
      <3> USE <2>0, <2>3, <3>a DEF Wakeup, Idle, cc, stream, state, hist
      <3>b. hiwat \in Nat
        BY DEF TypeOK
      <3>1. TypeOK'
        <4>1. sb' \in [Bufs -> BufStates]
          BY BufStateOps DEF TypeOK
        <4>2. st' \in [Procs -> CallStates]
          BY <3>b, CallStateOps DEF TypeOK
        <4>3. wchan' \in [Procs -> Chans \cup {None}]
          BY DEF TypeOK
        <4> QED
          BY <4>1, <4>2, <4>3 DEF TypeOK
      <3>4. CallOK'
        <4>1. hiwat > 0
          BY <3>b
        <4>2. hiwat <= PIPSIZ - cc
          BY DEF TypeOK, Charged, EndsOK
        <4> QED
          BY <4>1, <4>2 DEF TypeOK, CallOK
      <3>2. Places'
        BY DEF TypeOK, Places
      <3>3. LockHeld'
        BY DEF TypeOK, LockHeld
      <3>5. EndsOK'
        BY DEF TypeOK, EndsOK
      <3>6. Charged'
        BY DEF TypeOK, Charged, Unreturned
      <3>7. LockWaits'
        BY DEF TypeOK, LockWaits
      <3>8. SpaceWaits'
        BY DEF TypeOK, SpaceWaits, Unreturned
      <3>9. DataWaits'
        BY DEF TypeOK, DataWaits, TooLittle
      <3> QED
        BY <3>1, <3>2, <3>3, <3>4, <3>5, <3>6, <3>7, <3>8, <3>9 DEF Inv
    <2> QED
      BY <2>1, <2>2, <2>3 DEF TypeOK
  <1> QED
    BY <1>1, <1>2 DEF sosend

(* The piece that goes into one mbuf fits what is left and what has been   *)
(* promised.                                                               *)
LEMMA PieceFits ==
    ASSUME NEW r \in Nat \ {0}, NEW s \in Nat \ {0}
    PROVE  Piece(r, s) \in Nat \ {0} /\ Piece(r, s) <= r /\ Piece(r, s) <= s
  BY SockAssumption DEF Piece

(* uiomove is done: the stream has ended meanwhile, or the piece is sent.  *)
LEMMA SendInv ==
    ASSUME Inv, NEW p \in Procs, PRU_SEND(p)
    PROVE  Inv'
  <1> USE SockAssumption, Channels DEF Inv, Bufs, Procs
  <1>0. /\ p \in Senders /\ wchan[p] = None /\ st[p].pc = "PRU_SEND" /\ sb["snd"].lock = p
        /\ UNCHANGED <<state, hist>>
    BY DEF PRU_SEND, At, Places, LockHeld
  <1>1. CASE cantsend
    <2>a. /\ st' = [st EXCEPT ![p] = Idle]
          /\ sb' = [sb EXCEPT !["snd"] = sbunlock(@)]
          /\ Wakeup(Wanting("snd"))
          /\ UNCHANGED stream
      BY <1>1 DEF PRU_SEND
    <2> USE <1>0, <1>1, <2>a DEF Wakeup, Wanting, sbunlock, Idle, cc, stream, state, hist
    <2>1. TypeOK'
      <3>1. sb' \in [Bufs -> BufStates]
        BY BufStateOps DEF TypeOK
      <3>2. st' \in [Procs -> CallStates]
        BY CallStateOps DEF TypeOK
      <3>3. wchan' \in [Procs -> Chans \cup {None}]
        BY DEF TypeOK
      <3> QED
        BY <3>1, <3>2, <3>3 DEF TypeOK
    <2>2. Places'
      BY DEF TypeOK, Places
    <2>3. LockHeld'
      BY DEF TypeOK, LockHeld
    <2>4. CallOK'
      BY DEF TypeOK, CallOK
    <2>5. EndsOK'
      BY DEF TypeOK, EndsOK
    <2>6. Charged'
      BY DEF TypeOK, Charged, Unreturned
    <2>7. LockWaits'
      BY DEF TypeOK, LockWaits
    <2>8. SpaceWaits'
      BY DEF TypeOK, SpaceWaits, Unreturned
    <2>9. DataWaits'
      BY DEF TypeOK, DataWaits, TooLittle
    <2> QED
      BY <2>1, <2>2, <2>3, <2>4, <2>5, <2>6, <2>7, <2>8, <2>9 DEF Inv
  <1>2. CASE ~cantsend
    <2> DEFINE len == Piece(st[p].resid, st[p].space)
               resid == st[p].resid - len
               space == st[p].space - len
               woken == [sb EXCEPT !["rcv"] = sowakeup(@)]
    <2>1. /\ nsent' = nsent + len /\ ndel' = ndel /\ rhiwat' = rhiwat
          /\ hiwat' = hiwat - (cc + len - unp_cc)
          /\ unp_cc' = cc + len
      BY <1>2 DEF PRU_SEND
    <2>2. /\ st[p].resid \in Nat \ {0} /\ st[p].space \in Nat \ {0}
          /\ st[p].space <= PIPSIZ - cc
      BY <1>0, <1>2 DEF TypeOK, CallOK, CallStates
    <2>3. len \in Nat \ {0} /\ resid \in Nat /\ space \in Nat
      <3>1. len \in Nat \ {0} /\ len <= st[p].resid /\ len <= st[p].space
        BY <2>2, PieceFits
      <3> HIDE DEF len
      <3> QED
        BY <2>2, <3>1
    <2>4. len <= PIPSIZ - cc /\ space <= PIPSIZ - (cc + len)
      BY <2>2, <2>3, PieceFits DEF TypeOK, cc
    <2> HIDE DEF len
    <2>5. cc \in Nat /\ cc' = cc + len /\ cc' \in Nat /\ cc' <= PIPSIZ
      BY <2>1, <2>3, <2>4 DEF TypeOK, cc
    <2>6. conn /\ hiwat' = PIPSIZ - cc' /\ unp_cc' = cc' /\ hiwat' \in Nat
      BY <1>2, <2>1, <2>3, <2>4, <2>5 DEF TypeOK, EndsOK, Charged, cc
    <2>7. hiwat' <= hiwat \/ shut \/ Unreturned
      BY <2>1, <2>3, <2>6 DEF TypeOK, Charged, cc
    <2>8. CASE resid = 0
      <3>a. /\ st' = [st EXCEPT ![p] = Idle]
            /\ sb' = [woken EXCEPT !["snd"] = sbunlock(@)]
            /\ Wakeup(Waiting("rcv") \cup Wanting("snd"))
        BY <1>2, <2>8 DEF PRU_SEND, len
      <3>b. /\ sb'["snd"].lock = None /\ ~sb'["snd"].want /\ sb'["snd"].wait = sb["snd"].wait
            /\ sb'["rcv"].lock = sb["rcv"].lock /\ sb'["rcv"].want = sb["rcv"].want /\ ~sb'["rcv"].wait
        BY <3>a DEF TypeOK, BufStates, sbunlock, sowakeup
      <3>c. st'[p].pc = "idle" /\ \A q \in Procs \ {p} : st'[q] = st[q]
        BY <3>a DEF TypeOK, Idle
      <3>d. \A q \in Procs : wchan'[q] = IF wchan[q] \in Waiting("rcv") \cup Wanting("snd")
                                       THEN None ELSE wchan[q]
        BY <3>a DEF Wakeup
      <3>1. TypeOK'
        <4>1. sb' \in [Bufs -> BufStates]
          BY <3>a, BufStateOps DEF TypeOK
        <4>2. st' \in [Procs -> CallStates]
          BY <2>3, <2>6, <3>a, CallStateOps DEF TypeOK
        <4>3. wchan' \in [Procs -> Chans \cup {None}]
          BY <3>a DEF TypeOK, Wakeup, Sleep
        <4>4. /\ hiwat' \in 0..PIPSIZ /\ unp_cc' \in 0..PIPSIZ
              /\ nsent' \in Nat /\ ndel' \in 0..nsent'
          BY <2>1, <2>3, <2>5, <2>6 DEF TypeOK
        <4> QED
          BY <1>0, <2>1, <4>1, <4>2, <4>3, <4>4 DEF TypeOK, state, hist
      <3>2. Places'
        BY <1>0, <3>b, <3>c, <3>d DEF TypeOK, Places
      <3>3. LockHeld'
        BY <1>0, <3>b, <3>c, <3>d DEF TypeOK, LockHeld
      <3>4. CallOK'
        <4> SUFFICES ASSUME NEW q \in Procs PROVE CallOK!(q)'
          BY DEF CallOK
        <4>1. CASE q = p
          BY <1>0, <3>b, <3>c, <3>d, <2>3, <2>4, <2>5, <2>6, <4>1
        <4>2. CASE q # p
          <5>1. st[q].pc # "PRU_SEND"
            BY <1>0, <4>2 DEF LockHeld
          <5> QED
            BY <3>c, <2>1, <2>3, <2>5, <4>2, <5>1 DEF CallOK, TypeOK, CallStates
        <4> QED
          BY <4>1, <4>2
      <3>5. EndsOK'
        BY <1>0, <1>2 DEF EndsOK, state, hist
      <3>6. Charged'
        BY <2>5, <2>6 DEF Charged
      <3>7. LockWaits'
        BY <1>0, <3>b, <3>c, <3>d DEF LockWaits, Wanting, Waiting
      <3>8. SpaceWaits'
        <4>1. Unreturned' <=> Unreturned
          BY <1>0, <3>c DEF Unreturned, hist
        <4> SUFFICES ASSUME NEW q \in Procs, wchan'[q] = CcChan("snd")
                     PROVE  SpaceWaits!(q)!2'
          BY DEF SpaceWaits
        <4>2. CASE q = p
          BY <1>0, <3>b, <3>c, <3>d, <1>2, <4>2 DEF Waiting, state
        <4>3. CASE q # p
          <5>1. wchan[q] = CcChan("snd") /\ st'[q] = st[q] /\ st[q].resid \in Nat
            BY <1>0, <3>b, <3>c, <3>d, <4>3 DEF TypeOK, CallStates
          <5> QED
            BY <1>0, <3>b, <3>c, <3>d, <1>2, <2>6, <2>7, <4>1, <5>1 DEF SpaceWaits, TypeOK, state, hist
        <4> QED
          BY <4>2, <4>3
      <3>9. DataWaits'
        BY <1>0, <3>b, <3>c, <3>d DEF TypeOK, DataWaits, Waiting
      <3> QED
        BY <3>1, <3>2, <3>3, <3>4, <3>5, <3>6, <3>7, <3>8, <3>9 DEF Inv
    <2>9. CASE resid > 0 /\ space > 0
      <3>a. /\ st' = [st EXCEPT ![p].resid = resid, ![p].space = space]
            /\ sb' = woken
            /\ Wakeup(Waiting("rcv"))
        BY <1>2, <2>9 DEF PRU_SEND, len
      <3>f. [st[p] EXCEPT !.resid = resid, !.space = space] \in CallStates
        BY <2>3, CallStateGoesOn DEF TypeOK
      <3>b. /\ sb'["snd"] = sb["snd"]
            /\ sb'["rcv"].lock = sb["rcv"].lock /\ sb'["rcv"].want = sb["rcv"].want /\ ~sb'["rcv"].wait
        BY <3>a DEF TypeOK, sowakeup
      <3>c. /\ st'[p].pc = "PRU_SEND" /\ st'[p].resid = resid /\ st'[p].space = space
            /\ \A q \in Procs \ {p} : st'[q] = st[q]
        BY <1>0, <3>a DEF TypeOK, CallStates
      <3>d. \A q \in Procs : wchan'[q] = IF wchan[q] \in Waiting("rcv") THEN None ELSE wchan[q]
        BY <3>a DEF Wakeup
      <3>e. resid > 0 /\ space > 0
        BY <2>9
      <3>1. TypeOK'
        <4>1. sb' \in [Bufs -> BufStates]
          BY <3>a, BufStateOps DEF TypeOK
        <4>2. st' \in [Procs -> CallStates]
          BY <2>3, <2>6, <3>a, <3>f, CallStateOps DEF TypeOK
        <4>3. wchan' \in [Procs -> Chans \cup {None}]
          BY <3>a DEF TypeOK, Wakeup, Sleep
        <4>4. /\ hiwat' \in 0..PIPSIZ /\ unp_cc' \in 0..PIPSIZ
              /\ nsent' \in Nat /\ ndel' \in 0..nsent'
          BY <2>1, <2>3, <2>5, <2>6 DEF TypeOK
        <4> QED
          BY <1>0, <2>1, <4>1, <4>2, <4>3, <4>4 DEF TypeOK, state, hist
      <3>2. Places'
        BY <1>0, <3>b, <3>c, <3>d DEF TypeOK, Places
      <3>3. LockHeld'
        BY <1>0, <3>b, <3>c, <3>d DEF TypeOK, LockHeld
      <3>4. CallOK'
        <4> SUFFICES ASSUME NEW q \in Procs PROVE CallOK!(q)'
          BY DEF CallOK
        <4>1. CASE q = p
          BY <1>0, <3>b, <3>c, <3>d, <3>e, <2>3, <2>4, <2>5, <2>6, <4>1
        <4>2. CASE q # p
          <5>1. st[q].pc # "PRU_SEND"
            BY <1>0, <4>2 DEF LockHeld
          <5> QED
            BY <3>c, <2>1, <2>3, <2>5, <4>2, <5>1 DEF CallOK, TypeOK, CallStates
        <4> QED
          BY <4>1, <4>2
      <3>5. EndsOK'
        BY <1>0, <1>2 DEF EndsOK, state, hist
      <3>6. Charged'
        BY <2>5, <2>6 DEF Charged
      <3>7. LockWaits'
        BY <1>0, <3>b, <3>c, <3>d DEF LockWaits, Wanting, Waiting
      <3>8. SpaceWaits'
        <4>1. Unreturned' <=> Unreturned
          BY <1>0, <3>c DEF Unreturned, hist
        <4> SUFFICES ASSUME NEW q \in Procs, wchan'[q] = CcChan("snd")
                     PROVE  SpaceWaits!(q)!2'
          BY DEF SpaceWaits
        <4>2. CASE q = p
          BY <1>0, <3>b, <3>c, <3>d, <3>e, <1>2, <4>2 DEF Waiting, state
        <4>3. CASE q # p
          <5>1. wchan[q] = CcChan("snd") /\ st'[q] = st[q] /\ st[q].resid \in Nat
            BY <1>0, <3>b, <3>c, <3>d, <4>3 DEF TypeOK, CallStates
          <5> QED
            BY <1>0, <3>b, <3>c, <3>d, <1>2, <2>6, <2>7, <4>1, <5>1 DEF SpaceWaits, TypeOK, state, hist
        <4> QED
          BY <4>2, <4>3
      <3>9. DataWaits'
        BY <1>0, <3>b, <3>c, <3>d DEF TypeOK, DataWaits, Waiting
      <3> QED
        BY <3>1, <3>2, <3>3, <3>4, <3>5, <3>6, <3>7, <3>8, <3>9 DEF Inv
    <2>10. CASE resid > 0 /\ space = 0
      <3>a. sosend_loop(p, hiwat', resid, woken, Waiting("rcv"))
        BY <1>2, <2>10 DEF PRU_SEND, len
      <3>1. CASE hiwat' < resid /\ hiwat' < lowat
        <4>a. /\ st' = [st EXCEPT ![p] = Sending(resid)]
              /\ sb' = [woken EXCEPT !["snd"] = [sbunlock(@) EXCEPT !.wait = TRUE]]
              /\ Sleep(p, CcChan("snd"), Waiting("rcv") \cup Wanting("snd"))
          BY <1>2, <3>1, <3>a DEF sosend_loop
        <4>b. /\ sb'["snd"].lock = None /\ ~sb'["snd"].want /\ sb'["snd"].wait
              /\ sb'["rcv"].lock = sb["rcv"].lock /\ sb'["rcv"].want = sb["rcv"].want /\ ~sb'["rcv"].wait
          BY <4>a DEF TypeOK, BufStates, sbunlock, sowakeup
        <4>c. /\ st'[p].pc = "send" /\ st'[p].resid = resid
              /\ \A q \in Procs \ {p} : st'[q] = st[q]
          BY <4>a DEF TypeOK, Sending, Idle
        <4>d. \A q \in Procs : wchan'[q] = IF q = p THEN CcChan("snd")
                  ELSE IF wchan[q] \in Waiting("rcv") \cup Wanting("snd") THEN None ELSE wchan[q]
          BY <4>a DEF Sleep
        <4>e. resid > 0 /\ hiwat' < resid /\ hiwat' < lowat
          BY <2>10, <3>1
        <4>1. TypeOK'
          <5>1. sb' \in [Bufs -> BufStates]
            BY <4>a, BufStateOps DEF TypeOK
          <5>2. st' \in [Procs -> CallStates]
            BY <2>3, <2>6, <4>a, CallStateOps DEF TypeOK
          <5>3. wchan' \in [Procs -> Chans \cup {None}]
            BY <4>a DEF TypeOK, Wakeup, Sleep
          <5>4. /\ hiwat' \in 0..PIPSIZ /\ unp_cc' \in 0..PIPSIZ
                /\ nsent' \in Nat /\ ndel' \in 0..nsent'
            BY <2>1, <2>3, <2>5, <2>6 DEF TypeOK
          <5> QED
            BY <1>0, <2>1, <5>1, <5>2, <5>3, <5>4 DEF TypeOK, state, hist
        <4>2. Places'
          BY <1>0, <4>b, <4>c, <4>d DEF TypeOK, Places
        <4>3. LockHeld'
          BY <1>0, <4>b, <4>c, <4>d DEF TypeOK, LockHeld
        <4>4. CallOK'
          <5> SUFFICES ASSUME NEW q \in Procs PROVE CallOK!(q)'
            BY DEF CallOK
          <5>1. CASE q = p
            BY <1>0, <4>b, <4>c, <4>d, <4>e, <2>3, <2>4, <2>5, <2>6, <5>1
          <5>2. CASE q # p
            <6>1. st[q].pc # "PRU_SEND"
              BY <1>0, <5>2 DEF LockHeld
            <6> QED
              BY <4>c, <2>1, <2>3, <2>5, <5>2, <6>1 DEF CallOK, TypeOK, CallStates
          <5> QED
            BY <5>1, <5>2
        <4>5. EndsOK'
          BY <1>0, <1>2 DEF EndsOK, state, hist
        <4>6. Charged'
          BY <2>5, <2>6 DEF Charged
        <4>7. LockWaits'
          BY <1>0, <4>b, <4>c, <4>d DEF LockWaits, Wanting, Waiting
        <4>8. SpaceWaits'
          <5>1. Unreturned' <=> Unreturned
            BY <1>0, <4>c DEF Unreturned, hist
          <5> SUFFICES ASSUME NEW q \in Procs, wchan'[q] = CcChan("snd")
                       PROVE  SpaceWaits!(q)!2'
            BY DEF SpaceWaits
          <5>2. CASE q = p
            BY <1>0, <4>b, <4>c, <4>d, <4>e, <1>2, <5>2 DEF Waiting, state
          <5>3. CASE q # p
            <6>1. wchan[q] = CcChan("snd") /\ st'[q] = st[q] /\ st[q].resid \in Nat
              BY <1>0, <4>b, <4>c, <4>d, <5>3 DEF TypeOK, CallStates
            <6> QED
              BY <1>0, <4>b, <4>c, <4>d, <1>2, <2>6, <2>7, <5>1, <6>1 DEF SpaceWaits, TypeOK, state, hist
          <5> QED
            BY <5>2, <5>3
        <4>9. DataWaits'
          BY <1>0, <4>b, <4>c, <4>d DEF TypeOK, DataWaits, Waiting
        <4> QED
          BY <4>1, <4>2, <4>3, <4>4, <4>5, <4>6, <4>7, <4>8, <4>9 DEF Inv
      <3>2. CASE ~(hiwat' < resid /\ hiwat' < lowat)
        <4>a. /\ st' = [st EXCEPT ![p] = [Idle EXCEPT !.pc = "PRU_SEND", !.resid = resid,
                                                       !.space = hiwat']]
              /\ sb' = [woken EXCEPT !["snd"].lock = p]
              /\ Wakeup(Waiting("rcv"))
          BY <1>2, <3>2, <3>a DEF sosend_loop
        <4>b. /\ sb'["snd"].lock = p /\ sb'["snd"].want = sb["snd"].want
              /\ sb'["snd"].wait = sb["snd"].wait
              /\ sb'["rcv"].lock = sb["rcv"].lock /\ sb'["rcv"].want = sb["rcv"].want /\ ~sb'["rcv"].wait
          BY <4>a DEF TypeOK, sowakeup, BufStates
        <4>c. /\ st'[p].pc = "PRU_SEND" /\ st'[p].resid = resid /\ st'[p].space = hiwat'
              /\ \A q \in Procs \ {p} : st'[q] = st[q]
          BY <4>a DEF TypeOK, Idle
        <4>d. \A q \in Procs : wchan'[q] = IF wchan[q] \in Waiting("rcv") THEN None ELSE wchan[q]
          BY <4>a DEF Wakeup
        <4>e. resid > 0 /\ hiwat' > 0
          BY <2>3, <2>6, <2>10, <3>2
        <4>1. TypeOK'
          <5>1. sb' \in [Bufs -> BufStates]
            BY <4>a, BufStateOps DEF TypeOK
          <5>2. st' \in [Procs -> CallStates]
            BY <2>3, <2>6, <4>a, CallStateOps DEF TypeOK
          <5>3. wchan' \in [Procs -> Chans \cup {None}]
            BY <4>a DEF TypeOK, Wakeup, Sleep
          <5>4. /\ hiwat' \in 0..PIPSIZ /\ unp_cc' \in 0..PIPSIZ
                /\ nsent' \in Nat /\ ndel' \in 0..nsent'
            BY <2>1, <2>3, <2>5, <2>6 DEF TypeOK
          <5> QED
            BY <1>0, <2>1, <5>1, <5>2, <5>3, <5>4 DEF TypeOK, state, hist
        <4>2. Places'
          BY <1>0, <4>b, <4>c, <4>d DEF TypeOK, Places
        <4>3. LockHeld'
          BY <1>0, <4>b, <4>c, <4>d DEF TypeOK, LockHeld
        <4>4. CallOK'
          <5> SUFFICES ASSUME NEW q \in Procs PROVE CallOK!(q)'
            BY DEF CallOK
          <5>1. CASE q = p
            BY <1>0, <4>b, <4>c, <4>d, <4>e, <2>3, <2>4, <2>5, <2>6, <5>1
          <5>2. CASE q # p
            <6>1. st[q].pc # "PRU_SEND"
              BY <1>0, <5>2 DEF LockHeld
            <6> QED
              BY <4>c, <2>1, <2>3, <2>5, <5>2, <6>1 DEF CallOK, TypeOK, CallStates
          <5> QED
            BY <5>1, <5>2
        <4>5. EndsOK'
          BY <1>0, <1>2 DEF EndsOK, state, hist
        <4>6. Charged'
          BY <2>5, <2>6 DEF Charged
        <4>7. LockWaits'
          BY <1>0, <4>b, <4>c, <4>d DEF LockWaits, Wanting, Waiting
        <4>8. SpaceWaits'
          <5>1. Unreturned' <=> Unreturned
            BY <1>0, <4>c DEF Unreturned, hist
          <5> SUFFICES ASSUME NEW q \in Procs, wchan'[q] = CcChan("snd")
                       PROVE  SpaceWaits!(q)!2'
            BY DEF SpaceWaits
          <5>2. CASE q = p
            BY <1>0, <4>b, <4>c, <4>d, <4>e, <1>2, <5>2 DEF Waiting, state
          <5>3. CASE q # p
            <6>1. wchan[q] = CcChan("snd") /\ st'[q] = st[q] /\ st[q].resid \in Nat
              BY <1>0, <4>b, <4>c, <4>d, <5>3 DEF TypeOK, CallStates
            <6> QED
              BY <1>0, <4>b, <4>c, <4>d, <1>2, <2>6, <2>7, <5>1, <6>1 DEF SpaceWaits, TypeOK, state, hist
          <5> QED
            BY <5>2, <5>3
        <4>9. DataWaits'
          BY <1>0, <4>b, <4>c, <4>d DEF TypeOK, DataWaits, Waiting
        <4> QED
          BY <4>1, <4>2, <4>3, <4>4, <4>5, <4>6, <4>7, <4>8, <4>9 DEF Inv
      <3> QED
        BY <3>1, <3>2
    <2> QED
      BY <2>3, <2>8, <2>9, <2>10
  <1> QED
    BY <1>1, <1>2 DEF TypeOK

-----------------------------------------------------------------------------
(* A reader goes on to copy the next piece of what is left, c units after  *)
(* unit d, with the buffer locked.                                         *)
LEMMA CopyInv ==
    ASSUME Inv, NEW p \in Readers, wchan[p] = None,
           NEW call \in CallStates, call.resid > 0,
           NEW c \in Nat, c > 0, c <= cc, ndel' = nsent - c,
           sb["rcv"].lock \in {None, p}, sb' = [sb EXCEPT !["rcv"].lock = p],
           Copy(p, call, ndel', c),
           UNCHANGED <<hiwat, rhiwat, unp_cc, nsent, state, wchan, hist>>
    PROVE  Inv'
  <1> USE SockAssumption, Channels DEF Inv, Bufs, Procs
  <1>1. PICK n \in 1..Smaller(call.resid, c) :
            st' = [st EXCEPT ![p] = [call EXCEPT !.pc = "uiomove", !.from = ndel', !.n = n]]
    BY DEF Copy
  <1>2. n \in Nat /\ n > 0 /\ n <= c /\ n <= call.resid /\ call.resid \in Nat
    BY <1>1 DEF Smaller, CallStates
  <1>3. /\ nsent' = nsent /\ ndel \in Nat /\ ndel' \in Nat
        /\ ndel <= ndel' /\ ndel' \in 0..nsent /\ cc \in Nat /\ cc' = c
    BY DEF TypeOK, cc
  <1>a. /\ sb'["snd"] = sb["snd"]
        /\ sb'["rcv"].lock = p /\ sb'["rcv"].want = sb["rcv"].want /\ sb'["rcv"].wait = sb["rcv"].wait
    BY DEF TypeOK, BufStates
  <1>b. /\ st'[p].pc = "uiomove" /\ st'[p].from = ndel' /\ st'[p].n = n /\ st'[p].resid = call.resid
        /\ \A q \in Procs \ {p} : st'[q] = st[q]
    BY <1>1 DEF TypeOK, CallStates
  <1>c. /\ hiwat' = hiwat /\ rhiwat' = rhiwat /\ unp_cc' = unp_cc /\ wchan' = wchan
        /\ cantsend' = cantsend /\ cantrcv' = cantrcv /\ conn' = conn /\ open' = open
        /\ shut' = shut /\ eof' = eof /\ kept' = kept
    BY DEF state, hist
  <1>4. TypeOK'
    <2>1. sb' \in [Bufs -> BufStates]
      BY BufStateOps DEF TypeOK
    <2>2. st' \in [Procs -> CallStates]
      <3>1. [call EXCEPT !.pc = "uiomove", !.from = ndel', !.n = n] \in CallStates
        BY <1>2, <1>3, CallStateGoesOn
      <3> QED
        BY <1>1, <3>1 DEF TypeOK
    <2> QED
      BY <1>3, <1>c, <2>1, <2>2 DEF TypeOK
  <1>5. Places'
    BY <1>b, <1>c DEF Places
  <1>6. LockHeld'
    BY <1>a, <1>b DEF LockHeld, Places
  <1>7. CallOK'
    <2> SUFFICES ASSUME NEW q \in Procs PROVE CallOK!(q)'
      BY DEF CallOK
    <2>1. CASE q = p
      BY <1>2, <1>3, <1>b, <2>1
    <2>2. CASE q # p
      <3>1. st'[q] = st[q] /\ st[q].pc # "uiomove" /\ st[q].space \in Nat
        BY <1>b, <2>2 DEF LockHeld, TypeOK, CallStates
      <3> QED
        BY <1>3, <1>c, <2>2, <3>1 DEF CallOK
    <2> QED
      BY <2>1, <2>2
  <1>8. EndsOK'
    BY <1>3, <1>c DEF EndsOK
  <1>9. Charged'
    <2>1. Unreturned'
      BY <1>b DEF Unreturned
    <2> QED
      BY <1>3, <1>c, <2>1 DEF Charged, TypeOK
  <1>10. LockWaits'
    BY <1>a, <1>c DEF LockWaits
  <1>11. SpaceWaits'
    <2>1. Unreturned'
      BY <1>b DEF Unreturned
    <2> QED
      BY <1>a, <1>c, <2>1 DEF SpaceWaits
  <1>12. DataWaits'
    <2> SUFFICES ASSUME NEW q \in Procs, wchan'[q] = CcChan("rcv")
                 PROVE  DataWaits!(q)!2'
      BY DEF DataWaits
    <2>1. q # p /\ st'[q] = st[q] /\ wchan[q] = CcChan("rcv") /\ st[q].resid \in Nat
      BY <1>b, <1>c DEF TypeOK, CallStates
    <2>2. st[q].pc # "more"
      BY <2>1 DEF LockHeld
    <2> QED
      BY <1>3, <1>a, <1>c, <2>1, <2>2 DEF DataWaits, TooLittle
  <1> QED
    BY <1>4, <1>5, <1>6, <1>7, <1>8, <1>9, <1>10, <1>11, <1>12

(* A reader is done, with c units left in the buffer.                      *)
LEMMA ReceivedInv ==
    ASSUME Inv, NEW p \in Readers, wchan[p] = None, st[p].pc \in {"uiomove", "more"},
           NEW c \in Nat, c <= cc, ndel' = nsent - c,
           Received(p, c),
           UNCHANGED <<rhiwat, nsent, state, shut, eof>>
    PROVE  Inv'
  <1> USE SockAssumption, Channels DEF Inv, Bufs, Procs
  <1>1. nsent' = nsent /\ ndel \in Nat /\ ndel <= ndel' /\ ndel' \in 0..nsent /\ cc \in Nat /\ cc' = c
    BY DEF TypeOK, cc
  <1>2. sb["rcv"].lock = p
    BY DEF LockHeld
  <1>a. /\ sb'["rcv"].lock = None /\ ~sb'["rcv"].want /\ sb'["rcv"].wait = sb["rcv"].wait
        /\ sb'["snd"].lock = sb["snd"].lock /\ sb'["snd"].want = sb["snd"].want
        /\ ~conn => sb'["snd"].wait = sb["snd"].wait
    <2>1. /\ sb'["rcv"] = sbunlock(sb["rcv"])
          /\ sb'["snd"] = IF conn THEN sowakeup(sb["snd"]) ELSE sb["snd"]
      BY DEF Received
    <2>2. sb["rcv"] \in BufStates /\ sb["snd"] \in BufStates
      BY DEF TypeOK
    <2> QED
      BY <2>1, <2>2, ZenonT(60) DEF BufStates, sbunlock, sowakeup
  <1>b. st'[p].pc = "idle" /\ \A q \in Procs \ {p} : st'[q] = st[q]
    BY DEF Received, TypeOK, Idle
  <1>c. /\ rhiwat' = rhiwat
        /\ cantsend' = cantsend /\ cantrcv' = cantrcv /\ conn' = conn /\ open' = open
        /\ shut' = shut /\ eof' = eof
    BY DEF state
  <1>d. \A q \in Procs : wchan'[q] =
            IF wchan[q] \in Wanting("rcv") \cup (IF conn THEN Waiting("snd") ELSE {})
            THEN None ELSE wchan[q]
    BY DEF Received, Wakeup
  <1>e. /\ conn => hiwat' = PIPSIZ - c /\ unp_cc' = c
        /\ ~conn => hiwat' = hiwat /\ unp_cc' = unp_cc
        /\ c <= PIPSIZ
    BY <1>1 DEF Received, TypeOK, Charged
  <1>4. TypeOK'
    <2>1. sb' \in [Bufs -> BufStates]
      BY BufStateOps DEF Received, TypeOK
    <2>2. st' \in [Procs -> CallStates]
      BY CallStateOps DEF Received, TypeOK
    <2>3. wchan' \in [Procs -> Chans \cup {None}]
      BY DEF Received, Wakeup, TypeOK
    <2>4. hiwat' \in 0..PIPSIZ /\ unp_cc' \in 0..PIPSIZ
      BY <1>e DEF TypeOK
    <2>5. kept' \in BOOLEAN
      BY DEF Received
    <2> QED
      BY <1>1, <1>c, <2>1, <2>2, <2>3, <2>4, <2>5 DEF TypeOK
  <1>5. Places'
    BY <1>b, <1>d DEF Places
  <1>6. LockHeld'
    BY <1>2, <1>a, <1>b DEF LockHeld, Places
  <1>7. CallOK'
    <2> SUFFICES ASSUME NEW q \in Procs PROVE CallOK!(q)'
      BY DEF CallOK
    <2>1. CASE q = p
      BY <1>b, <2>1
    <2>2. CASE q # p
      <3>1. st'[q] = st[q] /\ st[q].pc # "uiomove" /\ st[q].space \in Nat
        BY <1>2, <1>b, <2>2 DEF LockHeld, TypeOK, CallStates
      <3> QED
        BY <1>1, <1>c, <2>2, <3>1 DEF CallOK
    <2> QED
      BY <2>1, <2>2
  <1>8. EndsOK'
    BY <1>1, <1>c DEF EndsOK
  <1>9. Charged'
    BY <1>1, <1>c, <1>e DEF Charged
  <1>10. LockWaits'
    BY <1>a, <1>d DEF LockWaits, Wanting
  <1>11. SpaceWaits'
    <2>1. ASSUME NEW q \in Procs PROVE wchan'[q] # CcChan("snd")
      BY <1>d DEF SpaceWaits, EndsOK, Waiting
    <2> QED
      BY <2>1 DEF SpaceWaits
  <1>12. DataWaits'
    <2> SUFFICES ASSUME NEW q \in Procs, wchan'[q] = CcChan("rcv")
                 PROVE  DataWaits!(q)!2'
      BY DEF DataWaits
    <2>1. q # p /\ st'[q] = st[q] /\ wchan[q] = CcChan("rcv") /\ st[q].resid \in Nat
      BY <1>b, <1>d DEF TypeOK, CallStates
    <2>2. st[q].pc # "more"
      BY <1>2, <2>1 DEF LockHeld
    <2> QED
      BY <1>1, <1>a, <1>c, <2>1, <2>2 DEF DataWaits, TooLittle
  <1> QED
    BY <1>4, <1>5, <1>6, <1>7, <1>8, <1>9, <1>10, <1>11, <1>12

(* A reader that wants all it asked for finds no more, and waits with the  *)
(* buffer locked.                                                          *)
LEMMA WaitMoreInv ==
    ASSUME Inv, NEW p \in Readers, wchan[p] = None, st[p].pc \in {"uiomove", "more"},
           NEW n \in Nat \ {0}, ndel' = nsent, ~cantrcv,
           WaitMore(p, n),
           UNCHANGED <<rhiwat, nsent, state, shut, eof>>
    PROVE  Inv'
  <1> USE SockAssumption, Channels DEF Inv, Bufs, Procs
  <1>1. nsent' = nsent /\ ndel \in Nat /\ ndel <= ndel' /\ ndel' \in 0..nsent /\ cc \in Nat /\ cc' = 0
    BY DEF TypeOK, cc
  <1>2. sb["rcv"].lock = p
    BY DEF LockHeld
  <1>a. /\ sb'["snd"] = sb["snd"]
        /\ sb'["rcv"].lock = p /\ sb'["rcv"].want = sb["rcv"].want /\ sb'["rcv"].wait
    BY <1>2 DEF WaitMore, TypeOK, BufStates
  <1>b. /\ st'[p].pc = "more" /\ st'[p].resid = n /\ st'[p].all
        /\ \A q \in Procs \ {p} : st'[q] = st[q]
    BY DEF WaitMore, Receiving, Idle, TypeOK
  <1>c. /\ hiwat' = hiwat /\ rhiwat' = rhiwat /\ unp_cc' = unp_cc
        /\ cantsend' = cantsend /\ cantrcv' = cantrcv /\ conn' = conn /\ open' = open
        /\ shut' = shut /\ eof' = eof /\ kept' = kept
    BY DEF WaitMore, state
  <1>d. \A q \in Procs : wchan'[q] = IF q = p THEN CcChan("rcv") ELSE wchan[q]
    BY DEF WaitMore, Sleep
  <1>4. TypeOK'
    <2>1. sb' \in [Bufs -> BufStates]
      BY BufStateOps DEF WaitMore, TypeOK
    <2>2. st' \in [Procs -> CallStates]
      <3>1. Receiving(n, TRUE) \in CallStates
        BY CallStateOps
      <3>2. [Receiving(n, TRUE) EXCEPT !.pc = "more"] \in CallStates
        BY <3>1, CallStateGoesOn
      <3> QED
        BY <3>2 DEF WaitMore, TypeOK
    <2>3. wchan' \in [Procs -> Chans \cup {None}]
      BY DEF WaitMore, Sleep, TypeOK
    <2> QED
      BY <1>1, <1>c, <2>1, <2>2, <2>3 DEF TypeOK
  <1>5. Places'
    BY <1>b, <1>d DEF Places
  <1>6. LockHeld'
    BY <1>2, <1>a, <1>b DEF LockHeld
  <1>7. CallOK'
    <2> SUFFICES ASSUME NEW q \in Procs PROVE CallOK!(q)'
      BY DEF CallOK
    <2>1. CASE q = p
      BY <1>b, <2>1
    <2>2. CASE q # p
      <3>1. st'[q] = st[q] /\ st[q].pc # "uiomove" /\ st[q].space \in Nat
        BY <1>2, <1>b, <2>2 DEF LockHeld, TypeOK, CallStates
      <3> QED
        BY <1>1, <1>c, <2>2, <3>1 DEF CallOK
    <2> QED
      BY <2>1, <2>2
  <1>8. EndsOK'
    BY <1>1, <1>c DEF EndsOK
  <1>a1. Unreturned'
    BY <1>b DEF Unreturned
  <1>9. Charged'
    BY <1>1, <1>c, <1>a1 DEF Charged, TypeOK
  <1>10. LockWaits'
    BY <1>2, <1>a, <1>d DEF LockWaits
  <1>11. SpaceWaits'
    BY <1>a, <1>c, <1>d, <1>a1 DEF SpaceWaits
  <1>12. DataWaits'
    <2> SUFFICES ASSUME NEW q \in Procs, wchan'[q] = CcChan("rcv")
                 PROVE  DataWaits!(q)!2'
      BY DEF DataWaits
    <2>1. CASE q = p
      BY <1>1, <1>a, <1>b, <1>c, <2>1
    <2>2. CASE q # p
      BY <1>1, <1>a, <1>b, <1>c, <1>d, <2>2 DEF DataWaits, TooLittle
    <2> QED
      BY <2>1, <2>2
  <1> QED
    BY <1>4, <1>5, <1>6, <1>7, <1>8, <1>9, <1>10, <1>11, <1>12

(* soreceive, from its start or after a sleep, up to its next sleep.       *)
LEMMA SoreceiveInv ==
    ASSUME Inv, NEW p \in Readers, wchan[p] = None, st[p].pc \in {"idle", "recv"},
           NEW n \in Nat \ {0}, NEW all \in BOOLEAN, soreceive(p, n, all)
    PROVE  Inv'
  <1> USE SockAssumption, Channels DEF Inv, Bufs, Procs
  <1> DEFINE call == Receiving(n, all)
  <1>0. call \in CallStates /\ call.pc = "recv" /\ call.resid = n /\ call.all = all
    BY CallStateOps DEF Receiving, Idle
  <1> HIDE DEF call
  <1>1. CASE sb_lock(p, "rcv", call)
    BY <1>0, <1>1, SleepsForLock
  <1>2. CASE /\ sb["rcv"].lock = None /\ TooLittle(n, all) /\ ~cantrcv
             /\ sb' = [sb EXCEPT !["rcv"].wait = TRUE]
             /\ st' = [st EXCEPT ![p] = call]
             /\ Sleep(p, CcChan("rcv"), {})
             /\ UNCHANGED <<stream, state, hist>>
    <2>a. st'[p] = call /\ \A q \in Procs \ {p} : st'[q] = st[q]
      BY <1>2 DEF TypeOK
    <2>b. \A q \in Procs : wchan'[q] = IF q = p THEN CcChan("rcv") ELSE wchan[q]
      BY <1>2 DEF Sleep
    <2>c. /\ sb'["snd"] = sb["snd"] /\ sb'["rcv"].wait
          /\ sb'["rcv"].lock = sb["rcv"].lock /\ sb'["rcv"].want = sb["rcv"].want
      BY <1>2 DEF TypeOK, BufStates
    <2>d. Unreturned' <=> Unreturned
      BY <1>2, <1>0, <2>a DEF Unreturned, hist
    <2>e. cc' = cc
      BY <1>2 DEF cc, stream
    <2>1. TypeOK'
      <3>1. sb' \in [Bufs -> BufStates]
        BY <1>2, BufStateOps DEF TypeOK
      <3>2. st' \in [Procs -> CallStates] /\ wchan' \in [Procs -> Chans \cup {None}]
        BY <1>0, <1>2 DEF TypeOK, Sleep
      <3> QED
        BY <1>2, <3>1, <3>2 DEF TypeOK, stream, state, hist
    <2>2. Places' /\ LockHeld'
      BY <1>0, <2>a, <2>b, <2>c DEF Places, LockHeld
    <2>3. CallOK'
      BY <1>0, <1>2, <2>a, <2>e DEF CallOK, stream, state
    <2>4. EndsOK' /\ Charged'
      BY <1>2, <2>d, <2>e DEF EndsOK, Charged, stream, state, hist
    <2>5. LockWaits'
      BY <2>b, <2>c DEF LockWaits
    <2>6. SpaceWaits'
      BY <1>2, <2>a, <2>b, <2>c, <2>d DEF SpaceWaits, stream, state, hist
    <2>7. DataWaits'
      BY <1>0, <1>2, <2>a, <2>b, <2>c, <2>e DEF DataWaits, TooLittle, stream, state
    <2> QED
      BY <2>1, <2>2, <2>3, <2>4, <2>5, <2>6, <2>7
  <1>3. CASE /\ sb["rcv"].lock = None /\ cc > 0
             /\ sb' = [sb EXCEPT !["rcv"].lock = p]
             /\ Copy(p, call, ndel, cc)
             /\ UNCHANGED <<stream, state, wchan, hist>>
    <2>1. PICK c \in Nat : c = cc /\ c > 0 /\ c <= cc /\ ndel = nsent - c
      BY <1>3 DEF TypeOK, cc
    <2>2. /\ hiwat' = hiwat /\ rhiwat' = rhiwat /\ unp_cc' = unp_cc /\ nsent' = nsent
          /\ ndel' = ndel /\ ndel' = nsent - c
          /\ UNCHANGED <<state, wchan, hist>>
      BY <1>3, <2>1 DEF stream
    <2>3. Copy(p, call, ndel', c)
      BY <1>3, <2>1, <2>2
    <2>4. call.resid > 0 /\ sb["rcv"].lock \in {None, p}
      BY <1>0, <1>3
    <2>5. sb' = [sb EXCEPT !["rcv"].lock = p]
      BY <1>3
    <2> QED
      BY <1>0, <2>1, <2>2, <2>3, <2>4, <2>5, CopyInv
  <1>4. CASE /\ sb["rcv"].lock = None /\ cc = 0 /\ cantrcv
             /\ st' = [st EXCEPT ![p] = Idle]
             /\ eof' = TRUE
             /\ UNCHANGED <<sb, stream, state, wchan, shut, kept>>
    <2>a. st'[p] = Idle /\ \A q \in Procs \ {p} : st'[q] = st[q]
      BY <1>4 DEF TypeOK
    <2>d. Unreturned' <=> Unreturned
      BY <1>4, <2>a DEF Unreturned, Idle
    <2>e. cc' = cc
      BY <1>4 DEF cc, stream
    <2>1. TypeOK'
      <3>1. st' \in [Procs -> CallStates]
        BY <1>4, CallStateOps DEF TypeOK
      <3> QED
        BY <1>4, <3>1 DEF TypeOK, stream, state
    <2>2. Places' /\ LockHeld'
      BY <1>4, <2>a DEF Places, LockHeld, Idle
    <2>3. CallOK'
      BY <1>4, <2>a, <2>e DEF CallOK, Idle, stream, state
    <2>4. EndsOK' /\ Charged'
      BY <1>4, <2>d, <2>e DEF EndsOK, Charged, stream, state
    <2>5. LockWaits'
      BY <1>4 DEF LockWaits
    <2>6. SpaceWaits'
      BY <1>4, <2>a, <2>d DEF SpaceWaits, stream, state
    <2>7. DataWaits'
      BY <1>4, <2>a, <2>e DEF DataWaits, TooLittle, stream, state
    <2> QED
      BY <2>1, <2>2, <2>3, <2>4, <2>5, <2>6, <2>7
  <1> QED
    BY <1>1, <1>2, <1>3, <1>4 DEF soreceive, call

(* sorflush waits for the buffer's lock, or clears the buffer.             *)
LEMMA SorflushInv ==
    ASSUME Inv, NEW p \in Readers, wchan[p] = None, st[p].pc \in {"idle", "sorflush"},
           sorflush(p)
    PROVE  Inv'
  <1> USE SockAssumption, Channels DEF Inv, Bufs, Procs
  <1> DEFINE call == [Idle EXCEPT !.pc = "sorflush"]
  <1>0. call \in CallStates /\ call.pc = "sorflush"
    BY CallStateOps DEF Idle
  <1> HIDE DEF call
  <1>1. CASE sb_lock(p, "rcv", call)
    BY <1>0, <1>1, SleepsForLock
  <1>2. CASE /\ sb["rcv"].lock = None
             /\ cantrcv' = TRUE /\ shut' = TRUE
             /\ ndel' = nsent /\ rhiwat' = 0
             /\ sb' = [sb EXCEPT !["rcv"] = Clear]
             /\ Wakeup(Waiting("rcv") \cup Wanting("rcv"))
             /\ st' = [st EXCEPT ![p] = Idle]
             /\ UNCHANGED <<hiwat, unp_cc, nsent, cantsend, conn, open, eof, kept>>
    <2>a. st'[p] = Idle /\ \A q \in Procs \ {p} : st'[q] = st[q]
      BY <1>2 DEF TypeOK
    <2>b. \A q \in Procs : wchan'[q] =
              IF wchan[q] \in Waiting("rcv") \cup Wanting("rcv") THEN None ELSE wchan[q]
      BY <1>2 DEF Wakeup
    <2>c. sb'["snd"] = sb["snd"] /\ sb'["rcv"] = Clear
      BY <1>2 DEF TypeOK
    <2>d. \A q \in Procs : st[q].pc \notin {"uiomove", "more"}
      BY <1>2 DEF LockHeld
    <2>e. cc \in Nat /\ cc' = 0
      BY <1>2 DEF TypeOK, cc
    <2>f. \A q \in Procs : wchan'[q] \notin {LockChan("rcv"), CcChan("rcv")}
      BY <2>b DEF LockWaits, DataWaits, Waiting, Wanting
    <2>1. TypeOK'
      <3>1. sb' \in [Bufs -> BufStates]
        BY <1>2, BufStateOps DEF TypeOK
      <3>2. st' \in [Procs -> CallStates] /\ wchan' \in [Procs -> Chans \cup {None}]
        BY <1>2, CallStateOps DEF TypeOK, Wakeup
      <3> QED
        BY <1>2, <3>1, <3>2 DEF TypeOK
    <2>2. Places'
      BY <2>a, <2>b DEF Places, Idle
    <2>3. LockHeld'
      BY <2>a, <2>c, <2>d DEF LockHeld, Idle, Clear
    <2>4. CallOK'
      <3> SUFFICES ASSUME NEW q \in Procs PROVE CallOK!(q)'
        BY DEF CallOK
      <3>1. CASE q = p
        BY <2>a, <3>1 DEF Idle
      <3>2. CASE q # p
        BY <1>2, <2>a, <2>d, <2>e, <3>2 DEF CallOK, TypeOK, CallStates
      <3> QED
        BY <3>1, <3>2
    <2>5. EndsOK'
      BY <1>2, <2>e DEF EndsOK
    <2>6. Charged'
      BY <1>2, <2>e DEF Charged, TypeOK
    <2>7. LockWaits'
      BY <2>b, <2>c, <2>f DEF LockWaits
    <2>8. SpaceWaits'
      BY <1>2, <2>b, <2>c DEF SpaceWaits
    <2>9. DataWaits'
      BY <2>f DEF DataWaits
    <2> QED
      BY <2>1, <2>2, <2>3, <2>4, <2>5, <2>6, <2>7, <2>8, <2>9
  <1> QED
    BY <1>1, <1>2 DEF sorflush, call

(* A reader that has the buffer locked: its lock is on it again.           *)
LEMMA StillLocked ==
    ASSUME Inv, NEW p \in Procs, sb["rcv"].lock = p, UNCHANGED sb
    PROVE  sb' = [sb EXCEPT !["rcv"].lock = p]
  <1>1. sb["rcv"] \in BufStates
    BY DEF Inv, TypeOK, Bufs
  <1>2. [sb["rcv"] EXCEPT !.lock = p] = sb["rcv"]
    BY <1>1 DEF BufStates
  <1> QED
    BY <1>2 DEF Inv, TypeOK

(* The copy of a piece is done.                                            *)
LEMMA CopiedInv ==
    ASSUME Inv, NEW p \in Procs, Copied(p)
    PROVE  Inv'
  <1> USE SockAssumption, Channels DEF Inv, Bufs, Procs
  <1> DEFINE resid == st[p].resid - st[p].n
             c     == cc - st[p].n
  <1>0. /\ p \in Readers /\ wchan[p] = None /\ st[p].pc = "uiomove"
        /\ sb["rcv"].lock = p
    BY DEF Copied, At, Places, LockHeld
  <1>1. /\ cc \in Nat /\ st[p].n \in Nat \ {0} /\ resid \in Nat /\ c \in Nat /\ c <= cc
        /\ ndel' = ndel + st[p].n /\ ndel' = nsent - c
        /\ UNCHANGED <<rhiwat, nsent, state, shut, eof>>
    BY <1>0 DEF Copied, CallOK, TypeOK, CallStates, cc
  <1>2. CASE resid > 0 /\ c > 0
    <2>1. /\ Copy(p, [st[p] EXCEPT !.resid = resid], ndel', c)
          /\ UNCHANGED <<sb, hiwat, unp_cc, wchan, kept>>
      BY <1>2 DEF Copied
    <2>2. sb' = [sb EXCEPT !["rcv"].lock = p]
      BY <1>0, <2>1, StillLocked
    <2>3. st[p] \in CallStates
      BY DEF TypeOK
    <2>4. [st[p] EXCEPT !.resid = resid] \in CallStates
      BY <1>1, <2>3, CallStateGoesOn
    <2>5. [st[p] EXCEPT !.resid = resid].resid = resid
      BY <2>3 DEF CallStates
    <2> HIDE DEF resid, c
    <2> QED
      BY <1>0, <1>1, <1>2, <2>1, <2>2, <2>4, <2>5, CopyInv DEF hist
  <1>3. CASE resid > 0 /\ c = 0 /\ st[p].all /\ ~cantrcv
    <2>1. WaitMore(p, resid)
      BY <1>3 DEF Copied
    <2>2. ndel' = nsent
      BY <1>1, <1>3 DEF TypeOK
    <2> HIDE DEF resid, c
    <2> QED
      BY <1>0, <1>1, <1>3, <2>1, <2>2, WaitMoreInv
  <1>4. CASE ~(resid > 0 /\ c > 0) /\ ~(resid > 0 /\ c = 0 /\ st[p].all /\ ~cantrcv)
    <2>1. Received(p, c)
      BY <1>4 DEF Copied
    <2> HIDE DEF resid, c
    <2> QED
      BY <1>0, <1>1, <2>1, ReceivedInv
  <1> QED
    BY <1>2, <1>3, <1>4

(* The wait for more data is over.                                         *)
LEMMA MoreInv ==
    ASSUME Inv, NEW p \in Procs, More(p)
    PROVE  Inv'
  <1> USE SockAssumption, Channels DEF Inv, Bufs, Procs
  <1>0. /\ p \in Readers /\ wchan[p] = None /\ st[p].pc = "more"
        /\ sb["rcv"].lock = p /\ st[p].resid > 0 /\ st[p] \in CallStates
    BY DEF More, At, Places, LockHeld, CallOK, TypeOK
  <1>1. /\ cc \in Nat /\ cc <= cc /\ ndel' = ndel /\ ndel = nsent - cc
        /\ UNCHANGED <<rhiwat, nsent, state, shut, eof>>
    BY DEF More, TypeOK, cc
  <1>2. CASE cc > 0
    <2>0. Copy(p, st[p], ndel, cc) /\ UNCHANGED <<sb, hiwat, unp_cc, wchan, kept>>
      <3>1. cc # 0
        BY <1>1, <1>2
      <3> QED
        BY <1>2, <3>1 DEF More
    <2>1. Copy(p, st[p], ndel', cc) /\ UNCHANGED <<sb, hiwat, unp_cc, wchan, kept>>
      BY <1>1, <2>0
    <2>2. sb' = [sb EXCEPT !["rcv"].lock = p]
      BY <1>0, <2>1, StillLocked
    <2> QED
      BY <1>0, <1>1, <1>2, <2>1, <2>2, CopyInv DEF hist
  <1>3. CASE cc = 0 /\ cantrcv
    <2>1. Received(p, 0)
      BY <1>3 DEF More
    <2> QED
      BY <1>0, <1>1, <1>3, <2>1, ReceivedInv
  <1>4. CASE cc = 0 /\ ~cantrcv
    <2>1. WaitMore(p, st[p].resid)
      BY <1>4 DEF More
    <2>2. ndel' = nsent /\ st[p].resid \in Nat \ {0}
      BY <1>0, <1>1, <1>4 DEF TypeOK, CallStates
    <2> QED
      BY <1>0, <1>1, <1>4, <2>1, <2>2, WaitMoreInv
  <1> QED
    BY <1>1, <1>2, <1>3, <1>4 DEF TypeOK

(* A sleep is interrupted.                                                 *)
LEMMA SignalInv ==
    ASSUME Inv, NEW p \in Procs, signal(p)
    PROVE  Inv'
  <1> USE SockAssumption, Channels DEF Inv, Bufs, Procs
  <1>0. /\ st' = [st EXCEPT ![p] = Idle] /\ wchan[p] # None
        /\ UNCHANGED <<stream, state, shut, eof>>
    BY DEF signal
  <1>1. st'[p] = Idle /\ \A q \in Procs \ {p} : st'[q] = st[q]
    BY <1>0 DEF TypeOK
  <1>2. cc' = cc
    BY <1>0 DEF cc, stream
  <1>3. st[p].pc \in {"send", "recv", "more", "sorflush"}
    BY <1>0 DEF TypeOK, Places, Chans
  <1>4. CASE st[p].pc = "more"
    <2>a. sb["rcv"].lock = p
      BY <1>4 DEF LockHeld
    <2>b. /\ sb' = [sb EXCEPT !["rcv"] = sbunlock(@)]
          /\ Sleep(p, None, Wanting("rcv"))
          /\ kept' = TRUE
      BY <1>4 DEF signal
    <2>c. /\ sb'["snd"] = sb["snd"] /\ sb'["rcv"].lock = None /\ ~sb'["rcv"].want
          /\ sb'["rcv"].wait = sb["rcv"].wait
      BY <2>b DEF TypeOK, BufStates, sbunlock
    <2>d. \A q \in Procs : wchan'[q] =
              IF q = p THEN None ELSE IF wchan[q] \in Wanting("rcv") THEN None ELSE wchan[q]
      BY <2>b DEF Sleep
    <2>e. Unreturned'
      BY <2>b DEF Unreturned
    <2>1. TypeOK'
      <3>1. sb' \in [Bufs -> BufStates]
        BY <2>b, BufStateOps DEF TypeOK
      <3>2. st' \in [Procs -> CallStates] /\ wchan' \in [Procs -> Chans \cup {None}]
        BY <1>0, <2>b, CallStateOps DEF TypeOK, Sleep
      <3> QED
        BY <1>0, <2>b, <3>1, <3>2 DEF TypeOK, stream, state
    <2>2. Places'
      BY <1>1, <2>d DEF Places, Idle
    <2>3. LockHeld'
      BY <1>1, <1>4, <2>a, <2>c DEF LockHeld, Idle
    <2>4. CallOK'
      BY <1>0, <1>1, <1>2 DEF CallOK, Idle, stream, state
    <2>5. EndsOK' /\ Charged'
      BY <1>0, <1>2, <2>e DEF EndsOK, Charged, stream, state
    <2>6. LockWaits'
      BY <2>c, <2>d DEF LockWaits, Wanting
    <2>7. SpaceWaits'
      BY <1>0, <2>c, <2>d, <2>e DEF SpaceWaits, state
    <2>8. DataWaits'
      BY <1>0, <1>1, <1>2, <2>c, <2>d DEF DataWaits, TooLittle, stream, state
    <2> QED
      BY <2>1, <2>2, <2>3, <2>4, <2>5, <2>6, <2>7, <2>8
  <1>5. CASE st[p].pc # "more"
    <2>b. sb' = sb /\ kept' = kept /\ Sleep(p, None, {})
      BY <1>5 DEF signal
    <2>d. \A q \in Procs : wchan'[q] = IF q = p THEN None ELSE wchan[q]
      BY <2>b DEF Sleep
    <2>e. Unreturned' <=> Unreturned
      BY <1>1, <1>3, <1>5, <2>b DEF Unreturned, Idle
    <2>1. TypeOK'
      <3>1. st' \in [Procs -> CallStates] /\ wchan' \in [Procs -> Chans \cup {None}]
        BY <1>0, <2>b, CallStateOps DEF TypeOK, Sleep
      <3> QED
        BY <1>0, <2>b, <3>1 DEF TypeOK, stream, state
    <2>2. Places' /\ LockHeld'
      BY <1>1, <1>3, <1>5, <2>b, <2>d DEF Places, LockHeld, Idle
    <2>4. CallOK'
      BY <1>0, <1>1, <1>2 DEF CallOK, Idle, stream, state
    <2>5. EndsOK' /\ Charged'
      BY <1>0, <1>2, <2>e DEF EndsOK, Charged, stream, state
    <2>6. LockWaits'
      BY <2>b, <2>d DEF LockWaits
    <2>7. SpaceWaits'
      BY <1>0, <1>1, <2>b, <2>d, <2>e DEF SpaceWaits, stream, state
    <2>8. DataWaits'
      BY <1>0, <1>1, <1>2, <2>b, <2>d DEF DataWaits, TooLittle, stream, state
    <2> QED
      BY <2>1, <2>2, <2>4, <2>5, <2>6, <2>7, <2>8
  <1> QED
    BY <1>4, <1>5

-----------------------------------------------------------------------------
(* Nothing more can be sent, and perhaps nothing more will come.           *)
LEMMA CantMoreInv ==
    ASSUME Inv, NEW rcvToo \in BOOLEAN, CantMore(rcvToo),
           conn' \in {conn, FALSE}, open' \subseteq {"A", "B"},
           UNCHANGED <<stream, st, hist>>
    PROVE  Inv'
  <1> USE SockAssumption, Channels DEF Inv, Bufs, Procs
  <1>a. /\ sb'["snd"] = sowakeup(sb["snd"])
        /\ sb'["rcv"] = IF rcvToo THEN sowakeup(sb["rcv"]) ELSE sb["rcv"]
    BY DEF CantMore
  <1>b. /\ sb'["snd"].lock = sb["snd"].lock /\ sb'["snd"].want = sb["snd"].want
        /\ sb'["rcv"].lock = sb["rcv"].lock /\ sb'["rcv"].want = sb["rcv"].want
        /\ ~rcvToo => sb'["rcv"].wait = sb["rcv"].wait
    <2>1. sb["snd"] \in BufStates /\ sb["rcv"] \in BufStates
      BY DEF TypeOK
    <2>2. \A r \in BufStates : sowakeup(r).lock = r.lock /\ sowakeup(r).want = r.want
      BY DEF BufStates, sowakeup
    <2> QED
      BY <1>a, <2>1, <2>2
  <1>c. \A q \in Procs : wchan'[q] =
            IF wchan[q] \in Waiting("snd") \cup (IF rcvToo THEN Waiting("rcv") ELSE {})
            THEN None ELSE wchan[q]
    BY DEF CantMore, Wakeup
  <1>d. cantsend' = TRUE /\ cantrcv' = (cantrcv \/ rcvToo)
    BY DEF CantMore
  <1>e. cc' = cc /\ (Unreturned' <=> Unreturned)
    BY DEF cc, Unreturned, stream, hist
  <1>f. conn' => conn
    BY DEF TypeOK
  <1>1. TypeOK'
    <2>1. sb' \in [Bufs -> BufStates]
      <3>1. \A b \in Bufs : sb[b] \in BufStates /\ sowakeup(sb[b]) \in BufStates
        BY WakeupState DEF TypeOK
      <3> QED
        BY <3>1 DEF CantMore
    <2>2. wchan' \in [Procs -> Chans \cup {None}]
      BY DEF CantMore, TypeOK, Wakeup
    <2>3. cantsend' \in BOOLEAN /\ cantrcv' \in BOOLEAN /\ conn' \in BOOLEAN
      BY <1>d DEF TypeOK
    <2> QED
      BY <2>1, <2>2, <2>3 DEF TypeOK, stream, hist
  <1>2. Places' /\ LockHeld'
    BY <1>b, <1>c DEF Places, LockHeld
  <1>3. CallOK'
    BY <1>d, <1>e DEF CallOK, stream
  <1>4. EndsOK' /\ Charged'
    BY <1>d, <1>e, <1>f DEF EndsOK, Charged, stream, hist
  <1>5. LockWaits'
    BY <1>b, <1>c DEF LockWaits
  <1>6. SpaceWaits'
    <2>1. ASSUME NEW q \in Procs PROVE wchan'[q] # CcChan("snd")
      BY <1>c DEF SpaceWaits, Waiting
    <2> QED
      BY <2>1 DEF SpaceWaits
  <1>7. DataWaits'
    <2>1. CASE rcvToo
      <3>1. ASSUME NEW q \in Procs PROVE wchan'[q] # CcChan("rcv")
        BY <1>c, <2>1 DEF DataWaits, Waiting
      <3> QED
        BY <3>1 DEF DataWaits
    <2>2. CASE ~rcvToo
      BY <1>b, <1>c, <1>d, <1>e, <2>2 DEF DataWaits, TooLittle, stream
    <2> QED
      BY <2>1, <2>2
  <1> QED
    BY <1>1, <1>2, <1>3, <1>4, <1>5, <1>6, <1>7

(* B is closed: nobody reads, and A, if it is still there, is told.        *)
LEMMA CloseBInv ==
    ASSUME Inv, CloseB
    PROVE  Inv'
  <1> USE SockAssumption, Channels DEF Inv, Bufs, Procs
  <1>0. /\ open' \subseteq {"A", "B"} /\ conn' = FALSE /\ cantrcv' = TRUE /\ cantsend' = TRUE
        /\ ndel' = nsent /\ rhiwat' = 0 /\ UNCHANGED <<hiwat, unp_cc, nsent, st, hist>>
    <2>1. CASE conn
      BY <2>1 DEF CloseB, CantMore, TypeOK
    <2>2. CASE ~conn
      BY <2>2 DEF CloseB, EndsOK, TypeOK
    <2> QED
      BY <2>1, <2>2
  <1>1. \A q \in Readers : st[q].pc = "idle" /\ wchan[q] = None
    BY DEF CloseB, At
  <1>2. cc \in Nat /\ cc' = 0
    BY <1>0 DEF TypeOK, cc
  <1>3. /\ sb' \in [Bufs -> BufStates]
        /\ sb'["snd"].lock = sb["snd"].lock /\ sb'["snd"].want = sb["snd"].want
        /\ sb'["rcv"].lock = sb["rcv"].lock /\ sb'["rcv"].want = sb["rcv"].want
        /\ wchan' \in [Procs -> Chans \cup {None}]
        /\ \A q \in Procs : wchan'[q] \in {None, wchan[q]} /\ wchan'[q] # CcChan("snd")
    <2>1. CASE conn
      <3>1. CantMore(TRUE)
        BY <2>1 DEF CloseB
      <3>2. sb'["snd"] = sowakeup(sb["snd"]) /\ sb'["rcv"] = sowakeup(sb["rcv"])
        BY <3>1 DEF CantMore
      <3>3. sb' \in [Bufs -> BufStates]
        <4>1. \A b \in Bufs : sb[b] \in BufStates /\ sowakeup(sb[b]) \in BufStates
          BY WakeupState DEF TypeOK
        <4> QED
          BY <3>1, <4>1 DEF CantMore
      <3>4. wchan' = [q \in Procs |-> IF wchan[q] \in Waiting("snd") \cup Waiting("rcv")
                                      THEN None ELSE wchan[q]]
        BY <3>1 DEF CantMore, Wakeup
      <3>5. \A q \in Procs : wchan'[q] \in {None, wchan[q]} /\ wchan'[q] # CcChan("snd")
        BY <3>4 DEF SpaceWaits, Waiting
      <3>6. wchan' \in [Procs -> Chans \cup {None}]
        BY <3>4 DEF TypeOK
      <3> QED
        BY <3>2, <3>3, <3>5, <3>6 DEF TypeOK, BufStates, sowakeup
    <2>2. CASE ~conn
      BY <2>2 DEF CloseB, EndsOK, SpaceWaits, TypeOK
    <2> QED
      BY <2>1, <2>2 DEF TypeOK
  <1>4. TypeOK'
    <2>1. ndel' \in 0..nsent' /\ nsent' \in Nat /\ rhiwat' \in {0, PIPSIZ}
      BY <1>0 DEF TypeOK
    <2>2. hiwat' = hiwat /\ unp_cc' = unp_cc /\ st' = st /\ shut' = shut /\ eof' = eof /\ kept' = kept
      BY <1>0 DEF hist
    <2> QED
      BY <1>0, <1>3, <2>1, <2>2 DEF TypeOK
  <1>5. Places' /\ LockHeld'
    BY <1>0, <1>3 DEF Places, LockHeld
  <1>6. CallOK'
    <2> SUFFICES ASSUME NEW q \in Procs PROVE CallOK!(q)'
      BY DEF CallOK
    <2>1. CASE q \in Readers
      BY <1>0, <1>1, <2>1
    <2>2. CASE q \in Senders
      BY <1>0, <1>2, <2>2 DEF CallOK, Places
    <2> QED
      BY <2>1, <2>2
  <1>7. EndsOK' /\ Charged'
    BY <1>0, <1>2 DEF EndsOK, Charged, hist
  <1>8. LockWaits' /\ SpaceWaits'
    BY <1>3 DEF LockWaits, SpaceWaits
  <1>9. DataWaits'
    <2>1. ASSUME NEW q \in Procs PROVE wchan'[q] # CcChan("rcv")
      BY <1>1, <1>3 DEF Places
    <2> QED
      BY <2>1 DEF DataWaits
  <1> QED
    BY <1>4, <1>5, <1>6, <1>7, <1>8, <1>9

-----------------------------------------------------------------------------
(* Every step of the system keeps the invariant.                           *)
LEMMA NextInv ==
    ASSUME Inv, [Next]_vars
    PROVE  Inv'
  <1> USE SockAssumption DEF Procs
  <1>0. \A p \in Procs : /\ At(p, "send") => p \in Senders /\ st[p].resid \in Nat \ {0}
                         /\ At(p, "recv") => p \in Readers /\ st[p].resid \in Nat \ {0}
                                             /\ st[p].all \in BOOLEAN
                         /\ At(p, "sorflush") => p \in Readers
    BY DEF Inv, At, Places, CallOK, TypeOK, CallStates
  <1>1. ASSUME NEW p \in Procs, Restart(p) PROVE Inv'
    BY <1>0, <1>1, SosendInv DEF Restart, At
  <1>2. ASSUME NEW p \in Procs, PRU_SEND(p) PROVE Inv'
    BY <1>2, SendInv
  <1>3. ASSUME NEW p \in Procs, ReadAgain(p) PROVE Inv'
    BY <1>0, <1>3, SoreceiveInv DEF ReadAgain, At
  <1>4. ASSUME NEW p \in Procs, Copied(p) PROVE Inv'
    BY <1>4, CopiedInv
  <1>5. ASSUME NEW p \in Procs, More(p) PROVE Inv'
    BY <1>5, MoreInv
  <1>6. ASSUME NEW p \in Procs, FlushAgain(p) PROVE Inv'
    BY <1>0, <1>6, SorflushInv DEF FlushAgain, At
  <1>7. ASSUME NEW p \in Procs, signal(p) PROVE Inv'
    BY <1>7, SignalInv
  <1>8. ASSUME NEW p \in Senders, NEW n \in Writes, Write(p, n) PROVE Inv'
    BY <1>8, SosendInv DEF Write, At
  <1>9. ASSUME NEW p \in Readers, ShutRead(p) PROVE Inv'
    BY <1>9, SorflushInv DEF ShutRead, At
  <1>10. ASSUME NEW p \in Readers, NEW n \in Reads, NEW all \in WaitAll, Read(p, n, all)
         PROVE  Inv'
    BY <1>10, SoreceiveInv DEF Read, At
  <1>11. conn \in BOOLEAN /\ open \subseteq {"A", "B"}
    BY DEF Inv, TypeOK
  <1>12. CASE ShutWrite
    BY <1>11, <1>12, CantMoreInv DEF ShutWrite
  <1>13. CASE CloseA
    BY <1>11, <1>13, CantMoreInv DEF CloseA
  <1>14. CASE CloseB
    BY <1>14, CloseBInv
  <1>15. CASE UNCHANGED vars
    <2>1. /\ UNCHANGED <<sb, st, wchan, hiwat, rhiwat, unp_cc, nsent, ndel, cantsend, cantrcv>>
          /\ UNCHANGED <<conn, open, shut, eof, kept>>
      BY <1>15 DEF vars, stream, state, hist
    <2>2. TypeOK' /\ Places' /\ LockHeld' /\ CallOK'
      BY <2>1 DEF Inv, TypeOK, Places, LockHeld, CallOK, cc
    <2>3. EndsOK' /\ Charged'
      BY <2>1 DEF Inv, EndsOK, Charged, cc, Unreturned
    <2>4. LockWaits' /\ SpaceWaits' /\ DataWaits'
      BY <2>1 DEF Inv, LockWaits, SpaceWaits, DataWaits, cc, Unreturned, TooLittle
    <2> QED
      BY <2>2, <2>3, <2>4 DEF Inv
  <1> QED
    BY <1>1, <1>2, <1>3, <1>4, <1>5, <1>6, <1>7, <1>8, <1>9, <1>10, <1>12, <1>13, <1>14, <1>15
       DEF Next, Step

(* The invariant holds in every reachable state, whatever the processes    *)
(* do, in whatever order they run, and however their sleeps end.           *)
THEOREM SockInvariant == Spec => []Inv
  <1>1. Inv /\ [Next]_vars => Inv'
    BY NextInv
  <1> QED
    BY <1>1, InitInv, PTL DEF Spec

(* soreceive copies each unit once, and in the order in which PRU_SEND     *)
(* accepted them, though it sleeps in uiomove with the buffer only locked. *)
THEOREM SockInOrder == Spec => []InOrder
  <1>1. Inv => InOrder
    BY DEF Inv, CallOK, InOrder, Procs
  <1> QED
    BY <1>1, SockInvariant, PTL

(* PRU_SEND and PRU_RCVD together never lose or invent space: A's charge   *)
(* and its high-water mark add up to PIPSIZ, and space promised to a       *)
(* sender before it slept in uiomove is there when it wakes.               *)
THEOREM SockBackpressure == Spec => []Backpressure
  <1>1. Inv => Backpressure
    BY DEF Inv, CallOK, EndsOK, Charged, Backpressure, Procs
  <1> QED
    BY <1>1, SockInvariant, PTL

(* No process sleeps in sb_lock, sbwait or sosend after the wakeup it      *)
(* waits for has gone by.                                                  *)
THEOREM SockNoMissedWakeup == Spec => []NoMissedWakeup
  <1>1. Inv => NoMissedWakeup
    BY DEF Inv, LockWaits, SpaceWaits, DataWaits, NoMissedWakeup, Bufs
  <1> QED
    BY <1>1, SockInvariant, PTL

(* A sender that sleeps for space and a reader that sleeps for data never  *)
(* wait for one another, unless MSG_WAITALL is used.                       *)
THEOREM SockStreamMoves == Spec => []StreamMoves
  <1>1. Inv => StreamMoves
    <2> SUFFICES ASSUME Inv, NEW s \in Senders, NEW r \in Readers, Stuck(s, r),
                        ~kept, \A q \in Readers : ~st[q].all
                 PROVE  FALSE
      BY DEF StreamMoves
    <2> USE SockAssumption DEF Procs
    <2>1. sb["snd"].wait /\ ~cantsend /\ ~cantrcv /\ st[r].pc # "more"
      BY DEF Inv, Stuck, SpaceWaits, DataWaits, CallOK
    <2>2. cc = 0 /\ cc \in Nat
      BY <2>1 DEF Inv, Stuck, DataWaits, TooLittle, TypeOK, cc
    <2>3. conn /\ ~shut
      BY <2>1 DEF Inv, EndsOK
    <2>4. ~Unreturned
      <3>1. ASSUME NEW q \in Readers PROVE st[q].pc # "more"
        BY DEF Inv, CallOK
      <3>2. ASSUME NEW q \in Readers PROVE st[q].pc # "uiomove"
        <4>1. st[q].n \in Nat
          BY DEF Inv, TypeOK, CallStates
        <4> QED
          BY <2>2, <4>1 DEF Inv, CallOK
      <3> QED
        BY <3>1, <3>2 DEF Unreturned
    <2>5. hiwat < lowat /\ hiwat \in Nat /\ unp_cc \in Nat
      BY <2>3, <2>4 DEF Inv, Stuck, SpaceWaits, TypeOK
    <2>6. hiwat + unp_cc = PIPSIZ /\ ~(cc < unp_cc)
      BY <2>3, <2>4 DEF Inv, Charged
    <2> QED
      BY <2>2, <2>5, <2>6
  <1> QED
    BY <1>1, SockInvariant, PTL

(* soreceive returns end of file only when A can send no more and every    *)
(* unit sent before has been read.                                         *)
THEOREM SockEofRight == Spec => []EofRight
  <1>1. Inv => EofRight
    BY DEF Inv, EndsOK, EofRight
  <1> QED
    BY <1>1, SockInvariant, PTL
=============================================================================
