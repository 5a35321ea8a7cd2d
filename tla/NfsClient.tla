------------------------------ MODULE NfsClient ------------------------------
(***************************************************************************)
(* The NFS client's side of a UDP mount (sys/nfs/nfs_socket.c): processes  *)
(* in nfs_request, one per request, which share the mount's socket under   *)
(* nfs_solock, and nfs_timer, which sends again what has not been          *)
(* answered, as far as the mount's window allows.                          *)
(*                                                                         *)
(* Time is left out: any unanswered request may time out.  The round-trip  *)
(* estimate is left out but for whether one is being made (nm_rtt # -1).   *)
(* A window beyond MaxWindow lets as much through as MaxWindow.            *)
(***************************************************************************)
EXTENDS NfsNet

CONSTANTS Mounts,       \* the mounts: sets of "soft" and "int"
          nm_retry,     \* of a soft mount
          MaxWindow

ASSUME ClientAssumption ==
    /\ IsFiniteSet(Reqs) /\ Mounts \subseteq SUBSET {"soft", "int"}
    /\ nm_retry \in Nat \ {0} /\ MaxWindow \in Nat \ {0, 1}

VARIABLES mount,        \* flags of the mount, constant
          req,          \* per request: its process and its struct nfsreq
          nm,           \* struct nfsmount
          leaked        \* requests given up without giving their window back

clientVars == <<mount, req, nm, leaked>>

NewReq == [pc |-> "none", mrep |-> None, sent |-> FALSE, timing |-> FALSE,
           term |-> FALSE, rexmit |-> 0, asleep |-> FALSE]

ClientInit ==
    /\ mount \in Mounts
    /\ req = [r \in Reqs |-> NewReq]
    /\ nm = [lock |-> None, want |-> FALSE, sent |-> 0, window |-> 2,
             rexmit |-> FALSE, rtt |-> FALSE]
    /\ leaked = 0

-----------------------------------------------------------------------------
Runs(r, label)  == req[r].pc = label /\ ~req[r].asleep
Returned(r)     == req[r].pc \in {"done", "failed"}
Linked(r)       == req[r].pc # "none" /\ ~Returned(r)

(* The requests rs after nfs_sounlock of the mount n.                      *)
Woken(rs, n) == [r \in Reqs |-> IF n.want THEN [rs[r] EXCEPT !.asleep = FALSE] ELSE rs[r]]
Unlock(n)    == [n EXCEPT !.lock = None, !.want = FALSE]

Unsent_Never(n, q)  == n                \* mutant: nm_sent-- is missing
Unsent_Always(n, q) == [n EXCEPT !.sent = @ - 1]    \* mutant: R_SENT is not looked at
(* The mount n after request q is no longer counted as sent.               *)
Unsent(n, q) == IF q.sent THEN [n EXCEPT !.sent = @ - 1] ELSE n

(* nfs_reply, to its next sleep: for the socket, or in it.                 *)
nfs_reply(r, rs, n) ==
    IF n.lock # None
    THEN /\ req' = [rs EXCEPT ![r].pc = "solock", ![r].asleep = TRUE]
         /\ nm' = [n EXCEPT !.want = TRUE]
    ELSE IF rs[r].mrep # None
    THEN req' = [rs EXCEPT ![r].pc = "done"] /\ nm' = n
    ELSE /\ req' = [rs EXCEPT ![r].pc = "receive"]
         /\ nm' = [n EXCEPT !.lock = r]

(* nfs_request.  The first copy is sent now if the window allows; making   *)
(* it may have to wait for mbufs.                                          *)
nfs_request(r) ==
    /\ req[r].pc = "none"
    /\ IF nm.sent <= 0 \/ (~nm.rexmit /\ nm.sent < nm.window)
       THEN /\ nm' = [nm EXCEPT !.sent = @ + 1, !.rtt = TRUE]
            /\ req' = [req EXCEPT ![r].pc = "m_copym", ![r].sent = TRUE, ![r].timing = ~nm.rtt]
       ELSE nfs_reply(r, req, nm)
    /\ UNCHANGED <<net, mount, leaked>>

(* nfs_send, and on to the reply.  A request that was terminated while the *)
(* copy was made fails here, and stays counted.                            *)
nfs_send(r) ==
    /\ Runs(r, "m_copym")
    /\ IF req[r].term
       THEN /\ req' = [req EXCEPT ![r].pc = "failed", ![r].sent = FALSE, ![r].timing = FALSE]
            /\ leaked' = leaked + (IF req[r].sent THEN 1 ELSE 0)
            /\ UNCHANGED <<net, nm>>
       ELSE Send(Call(r)) /\ nfs_reply(r, req, nm) /\ UNCHANGED leaked
    /\ UNCHANGED mount

SoLock(r) == Runs(r, "solock") /\ nfs_reply(r, req, nm) /\ UNCHANGED <<net, mount, leaked>>

(* nfs_updatetimer: the end of a backoff, or a step towards a larger       *)
(* window.                                                                 *)
nfs_updatetimer(n) ==
    IF n.rexmit THEN {[n EXCEPT !.rexmit = FALSE]}
    ELSE {[n EXCEPT !.window = w] : w \in n.window..MaxWindow}

(* Some reply comes in.  It may be another's: then that one gets it, and r *)
(* takes the socket again before anyone it has woken runs.                 *)
nfs_receive(r, m) ==
    /\ Runs(r, "receive") /\ m \in Replies
    /\ Receive(m)
    /\ LET q == req[m.xid] IN
       IF ~Linked(m.xid) \/ q.mrep # None
       THEN req' = Woken(req, nm) /\ nm' = [nm EXCEPT !.want = FALSE]
       ELSE \E n \in IF q.timing THEN nfs_updatetimer(nm) ELSE {nm} :
            LET got == [q EXCEPT !.mrep = m.val, !.sent = FALSE, !.timing = FALSE]
                n2  == Unsent([n EXCEPT !.rtt = @ /\ ~q.timing], q) IN
            IF m.xid = r
            THEN /\ req' = Woken([req EXCEPT ![r] = [got EXCEPT !.pc = "done"]], nm)
                 /\ nm' = Unlock(n2)
            ELSE /\ req' = Woken([req EXCEPT ![m.xid] = got], nm)
                 /\ nm' = [n2 EXCEPT !.want = FALSE]
    /\ UNCHANGED <<mount, leaked>>

(* The receive of a terminated request times out.                          *)
Terminate(r) ==
    /\ Runs(r, "receive") /\ req[r].term
    /\ LET q == [req[r] EXCEPT !.pc = "failed", !.sent = FALSE, !.timing = FALSE] IN
       /\ req' = Woken([req EXCEPT ![r] = q], nm)
       /\ nm' = Unlock(Unsent([nm EXCEPT !.rtt = @ /\ ~req[r].timing], req[r]))
    /\ UNCHANGED <<net, mount, leaked>>

-----------------------------------------------------------------------------
(* nfs_timer, for one request.                                             *)

(* nfs_backofftimer: the window closes, and nothing new is sent at once.   *)
nfs_backofftimer(n) == [n EXCEPT !.window = 1, !.rexmit = TRUE]

Unanswered(r) == Linked(r) /\ req[r].mrep = None /\ ~req[r].term

(* The process has a signal, and the mount is interruptible.               *)
TimerSignal(r) ==
    /\ "int" \in mount /\ Unanswered(r)
    /\ req' = [req EXCEPT ![r].term = TRUE]
    /\ UNCHANGED <<net, mount, nm, leaked>>

(* nm_rtt++ for a request that is timed: another's reply may have stopped  *)
(* the clock.                                                              *)
TimerCounts(r) ==
    /\ Unanswered(r) /\ req[r].timing /\ ~nm.rtt
    /\ nm' = [nm EXCEPT !.rtt = TRUE]
    /\ UNCHANGED <<net, mount, req, leaked>>

(* The request times out: it is given up after too many tries, or sent     *)
(* again if there is an mbuf and the window allows.                        *)
TimerExpires(r, mbuf) ==
    /\ Unanswered(r)
    /\ LET q     == [req[r] EXCEPT !.sent = FALSE, !.timing = FALSE,
                                   !.rexmit = IF "soft" \in mount THEN @ + 1 ELSE @]
           back  == IF req[r].timing THEN [nfs_backofftimer(nm) EXCEPT !.rtt = FALSE] ELSE nm
           n     == Unsent(back, req[r]) IN
       CASE q.rexmit >= nm_retry ->
              req' = [req EXCEPT ![r] = [q EXCEPT !.term = TRUE]] /\ nm' = n /\ UNCHANGED net
         [] q.rexmit < nm_retry /\ mbuf /\ n.sent < n.window ->
              /\ Send(Call(r))
              /\ req' = [req EXCEPT ![r] = [q EXCEPT !.sent = TRUE, !.timing = TRUE]]
              /\ nm' = [n EXCEPT !.sent = @ + 1, !.rtt = TRUE]
         [] OTHER -> req' = [req EXCEPT ![r] = q] /\ nm' = n /\ UNCHANGED net
    /\ UNCHANGED <<mount, leaked>>

nfs_timer(r) == TimerSignal(r) \/ TimerCounts(r) \/ \E mbuf \in BOOLEAN : TimerExpires(r, mbuf)

ClientStep(r) == nfs_send(r) \/ SoLock(r) \/ Terminate(r)
ClientNext == \E r \in Reqs : \/ nfs_request(r) \/ ClientStep(r) \/ nfs_timer(r)
                              \/ \E m \in Replies : nfs_receive(r, m)

-----------------------------------------------------------------------------
ReqStates == [pc : {"none", "m_copym", "solock", "receive", "done", "failed"},
              mrep : {None} \cup 1..MaxExec, sent : BOOLEAN, timing : BOOLEAN,
              term : BOOLEAN, rexmit : 0..nm_retry, asleep : BOOLEAN]
ClientTypeOK ==
    /\ mount \in Mounts /\ req \in [Reqs -> ReqStates] /\ leaked \in Nat
    /\ nm \in [lock : Reqs \cup {None}, want : BOOLEAN, sent : 0..Cardinality(Reqs),
               window : 1..MaxWindow, rexmit : BOOLEAN, rtt : BOOLEAN]

(* The state is well typed.  nm_sent counts the requests that are out, and *)
(* those that were given up as they were sent: nothing else uses up the    *)
(* window.  Who sleeps for the socket will be woken.                       *)
WindowOK ==
    /\ ClientTypeOK
    /\ nm.sent = leaked + Cardinality({r \in Reqs : req[r].sent})
    /\ \A r \in Reqs : req[r].asleep => nm.lock # None /\ nm.want
=============================================================================
