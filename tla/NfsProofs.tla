------------------------------ MODULE NfsProofs ------------------------------
(***************************************************************************)
(* Proofs about the client of an NFS mount, with its server and the        *)
(* network (Nfs), for any finite set of requests.                          *)
(***************************************************************************)
EXTENDS Nfs, NfsServerProofs

Out    == {r \in Reqs : req[r].sent}
Failed == {r \in Reqs : req[r].pc = "failed"}

(* What a request says of itself: it is out only while its process waits   *)
(* for an answer, and has tries left unless it has been given up.          *)
ReqOK == \A r \in Reqs :
    /\ req[r].pc = "none" => req[r].mrep = None
    /\ req[r].sent => req[r].pc \in {"m_copym", "solock", "receive"} /\ req[r].mrep = None
    /\ ~req[r].term => req[r].rexmit < nm_retry

(* nm_sent is exact, and a request leaks from it once, as it fails.        *)
SentOK == nm.sent = leaked + Cardinality(Out) /\ leaked <= Cardinality(Failed)

SocketOK == \A r \in Reqs : req[r].asleep => nm.lock # None /\ nm.want

ClientInv == ClientTypeOK /\ ReqOK /\ SentOK /\ SocketOK

NfsInv == ServerInv /\ ClientInv /\ mixed = {}

-----------------------------------------------------------------------------
(* How the numbers of requests that are out and that have failed move as   *)
(* one request changes.                                                    *)
One(b) == IF b THEN 1 ELSE 0

LEMMA OutMoves ==
    ASSUME NEW r \in Reqs, req \in [Reqs -> ReqStates], req' \in [Reqs -> ReqStates],
           \A q \in Reqs \ {r} : req'[q].sent = req[q].sent
    PROVE  /\ Cardinality(Out) \in Nat /\ Cardinality(Out') \in Nat
           /\ Cardinality(Out') = Cardinality(Out) + One(req'[r].sent) - One(req[r].sent)
  <1> DEFINE Rest == {q \in Reqs \ {r} : req[q].sent}
  <1>1. IsFiniteSet(Rest) /\ r \notin Rest
    <2>1. Rest \in SUBSET Reqs
      OBVIOUS
    <2> QED
      BY <2>1, ClientAssumption, FS_Subset
  <1>2. req[r].sent \in BOOLEAN /\ req'[r].sent \in BOOLEAN
    BY DEF ReqStates
  <1>3. /\ Out = IF req[r].sent THEN Rest \cup {r} ELSE Rest
        /\ Out' = IF req'[r].sent THEN Rest \cup {r} ELSE Rest
    BY DEF Out
  <1> HIDE DEF Rest
  <1>4. Cardinality(Rest) \in Nat /\ Cardinality(Rest \cup {r}) = Cardinality(Rest) + 1
    BY <1>1, FS_AddElement, FS_CardinalityType
  <1> QED
    BY <1>2, <1>3, <1>4 DEF One

LEMMA FailedMoves ==
    ASSUME NEW r \in Reqs, req \in [Reqs -> ReqStates], req' \in [Reqs -> ReqStates],
           \A q \in Reqs \ {r} : req'[q].pc = req[q].pc,
           req[r].pc = "failed" => req'[r].pc = "failed"
    PROVE  /\ Cardinality(Failed) \in Nat /\ Cardinality(Failed') \in Nat
           /\ Cardinality(Failed) <= Cardinality(Failed')
           /\ req[r].pc # "failed" /\ req'[r].pc = "failed" =>
                 Cardinality(Failed') = Cardinality(Failed) + 1
  <1>1. IsFiniteSet(Failed) /\ IsFiniteSet(Failed')
    <2>1. Failed \in SUBSET Reqs /\ Failed' \in SUBSET Reqs
      BY DEF Failed
    <2> QED
      BY <2>1, ClientAssumption, FS_Subset
  <1>2. Failed \in SUBSET Failed'
    BY DEF Failed
  <1>3. CASE req[r].pc # "failed" /\ req'[r].pc = "failed"
    <2>1. Failed' = Failed \cup {r} /\ r \notin Failed
      BY <1>3 DEF Failed
    <2> QED
      BY <1>1, <2>1, FS_AddElement, FS_CardinalityType
  <1> QED
    BY <1>1, <1>2, <1>3, FS_Subset, FS_CardinalityType

(* The window never counts more than there are requests: what has leaked   *)
(* has failed, and what has failed is not out.                             *)
LEMMA SentBounded ==
    ASSUME NEW O \in SUBSET Reqs, NEW F \in SUBSET Reqs, O \cap F = {},
           NEW l \in Nat, l <= Cardinality(F)
    PROVE  l + Cardinality(O) \in 0..Cardinality(Reqs)
  <1>1. IsFiniteSet(O) /\ IsFiniteSet(F) /\ IsFiniteSet(Reqs)
    BY ClientAssumption, FS_Subset
  <1>2. /\ Cardinality(O) \in Nat /\ Cardinality(F) \in Nat /\ Cardinality(Reqs) \in Nat
        /\ Cardinality(O \cap F) = 0
    BY <1>1, FS_CardinalityType, FS_EmptySet
  <1>3. Cardinality(O \cup F) = Cardinality(O) + Cardinality(F) - Cardinality(O \cap F)
    BY <1>1, FS_Union
  <1>4. Cardinality(O \cup F) <= Cardinality(Reqs)
    <2>1. O \cup F \in SUBSET Reqs
      OBVIOUS
    <2> QED
      BY <1>1, <2>1, FS_Subset
  <1> QED
    BY <1>2, <1>3, <1>4

(* A step of the client changes one request r, and may wake the others.    *)
Mounted == [lock : Reqs \cup {None}, want : BOOLEAN, sent : Int,
            window : 1..MaxWindow, rexmit : BOOLEAN, rtt : BOOLEAN]
LEMMA ClientStepInv ==
    ASSUME ClientInv, NEW r \in Reqs, mount' = mount,
           req' \in [Reqs -> ReqStates], nm' \in Mounted,
           \A q \in Reqs \ {r} :
              /\ req'[q].pc = req[q].pc /\ req'[q].mrep = req[q].mrep
              /\ req'[q].sent = req[q].sent /\ req'[q].term = req[q].term
              /\ req'[q].rexmit = req[q].rexmit,
           req'[r].sent =>
              req'[r].pc \in {"m_copym", "solock", "receive"} /\ req'[r].mrep = None,
           req'[r].pc # "none", ~req'[r].term => req'[r].rexmit < nm_retry,
           req[r].pc = "failed" => req'[r].pc = "failed",
           \A q \in Reqs : req'[q].asleep => nm'.lock # None /\ nm'.want,
           \/ leaked' = leaked /\ nm'.sent = nm.sent + One(req'[r].sent) - One(req[r].sent)
           \/ /\ leaked' = leaked + 1 /\ nm'.sent = nm.sent
              /\ req[r].sent /\ ~req'[r].sent
              /\ req[r].pc # "failed" /\ req'[r].pc = "failed"
    PROVE  ClientInv'
  <1>1. req \in [Reqs -> ReqStates] /\ leaked \in Nat /\ leaked' \in Nat
    BY DEF ClientInv, ClientTypeOK
  <1>2. ReqOK'
    BY DEF ClientInv, ReqOK
  <1>3. SentOK'
    <2>1. /\ Cardinality(Out) \in Nat /\ Cardinality(Out') \in Nat
          /\ Cardinality(Out') = Cardinality(Out) + One(req'[r].sent) - One(req[r].sent)
      BY <1>1, OutMoves
    <2>2. /\ Cardinality(Failed) \in Nat /\ Cardinality(Failed') \in Nat
          /\ Cardinality(Failed) <= Cardinality(Failed')
          /\ req[r].pc # "failed" /\ req'[r].pc = "failed" =>
                Cardinality(Failed') = Cardinality(Failed) + 1
      BY <1>1, FailedMoves
    <2>3. nm.sent = leaked + Cardinality(Out) /\ leaked <= Cardinality(Failed)
      BY DEF ClientInv, SentOK
    <2>4. One(req'[r].sent) \in {0, 1} /\ One(req[r].sent) \in {0, 1}
          /\ (req[r].sent /\ ~req'[r].sent => One(req'[r].sent) = 0 /\ One(req[r].sent) = 1)
      BY DEF One
    <2> QED
      BY <1>1, <2>1, <2>2, <2>3, <2>4 DEF SentOK
  <1>4. SocketOK'
    BY DEF SocketOK
  <1>5. nm'.sent \in 0..Cardinality(Reqs)
    <2>1. Out' \in SUBSET Reqs /\ Failed' \in SUBSET Reqs /\ Out' \cap Failed' = {}
      BY <1>2 DEF Out, Failed, ReqOK
    <2>2. nm'.sent = leaked' + Cardinality(Out') /\ leaked' <= Cardinality(Failed')
      BY <1>3 DEF SentOK
    <2> QED
      BY <1>1, <2>1, <2>2, SentBounded
  <1>6. ClientTypeOK'
    BY <1>1, <1>5 DEF ClientInv, ClientTypeOK, Mounted
  <1> QED
    BY <1>2, <1>3, <1>4, <1>6 DEF ClientInv

-----------------------------------------------------------------------------
(* One lemma for each of the client's actions.                             *)
LEMMA ClientFacts ==
    ASSUME ClientInv
    PROVE  /\ req \in [Reqs -> ReqStates] /\ mount \in Mounts /\ leaked \in Nat
           /\ nm \in Mounted /\ ReqOK /\ SocketOK
  <1>1. 0..Cardinality(Reqs) \subseteq Int
    OBVIOUS
  <1> QED
    BY <1>1 DEF ClientInv, ClientTypeOK, Mounted

LEMMA ReplyInv ==
    ASSUME ClientInv, NEW r \in Reqs, UNCHANGED <<mount, leaked>>, nfs_reply(r, req, nm),
           req[r].pc \in {"none", "m_copym", "solock"}
    PROVE  ClientInv'
  <1>0. /\ req \in [Reqs -> ReqStates] /\ mount \in Mounts /\ leaked \in Nat
        /\ nm \in Mounted /\ ReqOK /\ SocketOK
    BY ClientFacts
  <1>1. CASE nm.lock # None
    <2>1. /\ req' = [req EXCEPT ![r].pc = "solock", ![r].asleep = TRUE]
          /\ nm' = [nm EXCEPT !.want = TRUE]
      BY <1>1 DEF nfs_reply
    <2>2. req' \in [Reqs -> ReqStates] /\ nm' \in Mounted
      <3>1. [req[r] EXCEPT !.pc = "solock", !.asleep = TRUE] \in ReqStates
        BY <1>0, ZenonT(30) DEF ReqStates, Mounted
      <3>2. req' = [req EXCEPT ![r] = [req[r] EXCEPT !.pc = "solock", !.asleep = TRUE]]
        BY <2>1
      <3>3. nm' \in Mounted
        BY <1>0, <2>1 DEF Mounted
      <3> QED
        BY <1>0, <3>1, <3>2, <3>3
    <2>3. /\ req'[r].pc = "solock" /\ req'[r].sent = req[r].sent /\ req'[r].mrep = req[r].mrep
          /\ req'[r].term = req[r].term /\ req'[r].rexmit = req[r].rexmit
          /\ \A q \in Reqs \ {r} : req'[q] = req[q]
          /\ nm'.lock # None /\ nm'.want /\ nm'.sent = nm.sent /\ nm.sent \in Int
      BY <1>0, <1>1, <2>1 DEF ReqStates, Mounted
    <2>4. nm'.sent = nm.sent + One(req'[r].sent) - One(req[r].sent)
      BY <2>3 DEF One
    <2> QED
      BY <1>0, <2>2, <2>3, <2>4, ClientStepInv DEF ReqOK
  <1>2. CASE nm.lock = None /\ req[r].mrep # None
    <2>1. req' = [req EXCEPT ![r].pc = "done"] /\ nm' = nm
      BY <1>2 DEF nfs_reply
    <2>2. req' \in [Reqs -> ReqStates] /\ nm' \in Mounted
      BY <1>0, <2>1 DEF ReqStates
    <2>3. /\ req'[r].pc = "done" /\ req'[r].sent = req[r].sent /\ ~req[r].sent
          /\ req'[r].term = req[r].term /\ req'[r].rexmit = req[r].rexmit
          /\ \A q \in Reqs \ {r} : req'[q] = req[q]
          /\ \A q \in Reqs : ~req'[q].asleep
          /\ nm'.sent = nm.sent /\ nm.sent \in Int
      BY <1>0, <1>2, <2>1 DEF ReqStates, Mounted, SocketOK, ReqOK
    <2>4. nm'.sent = nm.sent + One(req'[r].sent) - One(req[r].sent)
      BY <2>3 DEF One
    <2> QED
      BY <1>0, <2>2, <2>3, <2>4, ClientStepInv DEF ReqOK
  <1>3. CASE nm.lock = None /\ req[r].mrep = None
    <2>1. req' = [req EXCEPT ![r].pc = "receive"] /\ nm' = [nm EXCEPT !.lock = r]
      BY <1>3 DEF nfs_reply
    <2>2. req' \in [Reqs -> ReqStates] /\ nm' \in Mounted
      BY <1>0, <2>1 DEF ReqStates, Mounted
    <2>3. /\ req'[r].pc = "receive" /\ req'[r].sent = req[r].sent /\ req'[r].mrep = req[r].mrep
          /\ req'[r].term = req[r].term /\ req'[r].rexmit = req[r].rexmit
          /\ \A q \in Reqs \ {r} : req'[q] = req[q]
          /\ \A q \in Reqs : ~req'[q].asleep
          /\ nm'.sent = nm.sent /\ nm.sent \in Int
      BY <1>0, <1>3, <2>1 DEF ReqStates, Mounted, SocketOK
    <2>4. nm'.sent = nm.sent + One(req'[r].sent) - One(req[r].sent)
      BY <2>3 DEF One
    <2> QED
      BY <1>0, <1>3, <2>2, <2>3, <2>4, ClientStepInv DEF ReqOK
  <1> QED
    BY <1>1, <1>2, <1>3

LEMMA RequestInv ==
    ASSUME ClientInv, NEW r \in Reqs, nfs_request(r)
    PROVE  ClientInv'
  <1>0. /\ req \in [Reqs -> ReqStates] /\ mount \in Mounts /\ leaked \in Nat
        /\ nm \in Mounted /\ ReqOK /\ SocketOK
    BY ClientFacts
  <1>1. req[r].pc = "none" /\ UNCHANGED <<mount, leaked>>
    BY DEF nfs_request
  <1>2. CASE nm.sent <= 0 \/ (~nm.rexmit /\ nm.sent < nm.window)
    <2>1. /\ nm' = [nm EXCEPT !.sent = @ + 1, !.rtt = TRUE]
          /\ req' = [req EXCEPT ![r].pc = "m_copym", ![r].sent = TRUE, ![r].timing = ~nm.rtt]
      BY <1>2 DEF nfs_request
    <2>2. req' \in [Reqs -> ReqStates] /\ nm' \in Mounted
      <3>1. [req[r] EXCEPT !.pc = "m_copym", !.sent = TRUE, !.timing = ~nm.rtt] \in ReqStates
        BY <1>0, ZenonT(30) DEF ReqStates, Mounted
      <3>2. req' = [req EXCEPT ![r] = [req[r] EXCEPT !.pc = "m_copym", !.sent = TRUE, !.timing = ~nm.rtt]]
        BY <2>1
      <3>3. nm' \in Mounted
        <4>1. nm.sent + 1 \in Int
          BY <1>0 DEF Mounted
        <4> QED
          BY <1>0, <2>1, <4>1 DEF Mounted
      <3> QED
        BY <1>0, <3>1, <3>2, <3>3
    <2>3. req[r].mrep = None /\ ~req[r].sent
      BY <1>0, <1>1 DEF ReqOK
    <2>4. /\ req'[r].pc = "m_copym" /\ req'[r].sent /\ req'[r].mrep = None
          /\ req'[r].term = req[r].term /\ req'[r].rexmit = req[r].rexmit
          /\ req'[r].asleep = req[r].asleep
          /\ \A q \in Reqs \ {r} : req'[q] = req[q]
          /\ nm'.lock = nm.lock /\ nm'.want = nm.want
          /\ nm'.sent = nm.sent + 1 /\ nm.sent \in Int
      BY <1>0, <2>1, <2>3 DEF ReqStates, Mounted
    <2>5. nm'.sent = nm.sent + One(req'[r].sent) - One(req[r].sent)
      BY <2>3, <2>4 DEF One
    <2>6. \A q \in Reqs : req'[q].asleep => nm'.lock # None /\ nm'.want
      BY <1>0, <2>4 DEF SocketOK
    <2> QED
      BY <1>0, <1>1, <2>2, <2>3, <2>4, <2>5, <2>6, ClientStepInv DEF ReqOK
  <1>3. CASE ~(nm.sent <= 0 \/ (~nm.rexmit /\ nm.sent < nm.window))
    BY <1>1, <1>3, ReplyInv DEF nfs_request
  <1> QED
    BY <1>2, <1>3

LEMMA SendInv ==
    ASSUME ClientInv, NEW r \in Reqs, nfs_send(r)
    PROVE  ClientInv'
  <1>0. /\ req \in [Reqs -> ReqStates] /\ mount \in Mounts /\ leaked \in Nat
        /\ nm \in Mounted /\ ReqOK /\ SocketOK
    BY ClientFacts
  <1>1. req[r].pc = "m_copym" /\ UNCHANGED mount
    BY DEF nfs_send, Runs
  <1>2. CASE req[r].term
    <2>1. /\ req' = [req EXCEPT ![r].pc = "failed", ![r].sent = FALSE, ![r].timing = FALSE]
          /\ leaked' = leaked + (IF req[r].sent THEN 1 ELSE 0)
          /\ UNCHANGED <<net, nm>>
      BY <1>2 DEF nfs_send
    <2>2. req' \in [Reqs -> ReqStates]
      <3>1. [req[r] EXCEPT !.pc = "failed", !.sent = FALSE, !.timing = FALSE] \in ReqStates
        BY <1>0 DEF ReqStates
      <3>2. req' = [req EXCEPT ![r] =
                     [req[r] EXCEPT !.pc = "failed", !.sent = FALSE, !.timing = FALSE]]
        BY <2>1
      <3> QED
        BY <1>0, <3>1, <3>2
    <2>3. /\ req'[r].pc = "failed" /\ ~req'[r].sent /\ req'[r].term
          /\ req'[r].asleep = req[r].asleep
          /\ \A q \in Reqs \ {r} : req'[q] = req[q]
          /\ nm.sent \in Int
      BY <1>0, <1>2, <2>1 DEF ReqStates, Mounted
    <2>4. \A q \in Reqs : req'[q].asleep => nm'.lock # None /\ nm'.want
      BY <1>0, <2>1, <2>3 DEF SocketOK
    <2>5. CASE req[r].sent
      <3>1. leaked' = leaked + 1 /\ nm'.sent = nm.sent
        BY <2>1, <2>5
      <3> QED
        BY <1>0, <1>1, <2>1, <2>2, <2>3, <2>4, <2>5, <3>1, ClientStepInv
    <2>6. CASE ~req[r].sent
      <3>1. leaked' = leaked /\ nm'.sent = nm.sent + One(req'[r].sent) - One(req[r].sent)
        BY <1>0, <2>1, <2>3, <2>6 DEF One
      <3> QED
        BY <1>0, <1>1, <2>1, <2>2, <2>3, <2>4, <3>1, ClientStepInv
    <2> QED
      BY <2>5, <2>6
  <1>3. CASE ~req[r].term
    BY <1>1, <1>3, ReplyInv DEF nfs_send
  <1> QED
    BY <1>2, <1>3

LEMMA SoLockInv ==
    ASSUME ClientInv, NEW r \in Reqs, SoLock(r)
    PROVE  ClientInv'
  BY ReplyInv DEF SoLock, Runs

(* nm_sent-- for a request that is out.                                    *)
LEMMA UnsentOK ==
    ASSUME NEW n \in Mounted, NEW q \in ReqStates
    PROVE  /\ Unsent(n, q) \in Mounted
           /\ Unsent(n, q).sent = n.sent - One(q.sent)
           /\ Unsent(n, q).lock = n.lock /\ Unsent(n, q).want = n.want
  <1>1. n.sent - 1 \in Int /\ n.sent \in Int
    BY DEF Mounted
  <1> QED
    BY <1>1 DEF Unsent, Mounted, One

(* nfs_sounlock: whoever sleeps for the socket is woken.                   *)
LEMMA WokenOK ==
    ASSUME NEW rs \in [Reqs -> ReqStates], NEW n \in Mounted,
           \A r \in Reqs : rs[r].asleep => n.want
    PROVE  /\ Woken(rs, n) \in [Reqs -> ReqStates]
           /\ \A r \in Reqs :
                 /\ Woken(rs, n)[r].pc = rs[r].pc /\ Woken(rs, n)[r].mrep = rs[r].mrep
                 /\ Woken(rs, n)[r].sent = rs[r].sent /\ Woken(rs, n)[r].term = rs[r].term
                 /\ Woken(rs, n)[r].rexmit = rs[r].rexmit /\ ~Woken(rs, n)[r].asleep
  BY DEF Woken, ReqStates

LEMMA TerminateInv ==
    ASSUME ClientInv, NEW r \in Reqs, Terminate(r)
    PROVE  ClientInv'
  <1>0. /\ req \in [Reqs -> ReqStates] /\ mount \in Mounts /\ leaked \in Nat
        /\ nm \in Mounted /\ ReqOK /\ SocketOK
    BY ClientFacts
  <1> DEFINE q  == [req[r] EXCEPT !.pc = "failed", !.sent = FALSE, !.timing = FALSE]
             rs == [req EXCEPT ![r] = q]
             n  == [nm EXCEPT !.rtt = @ /\ ~req[r].timing]
  <1>1. /\ req[r].pc = "receive" /\ req[r].term /\ UNCHANGED <<mount, leaked>>
        /\ req' = Woken(rs, nm) /\ nm' = Unlock(Unsent(n, req[r]))
    BY DEF Terminate, Runs
  <1>2. q \in ReqStates /\ q.pc = "failed" /\ ~q.sent /\ q.term /\ q.asleep = req[r].asleep
    BY <1>0, <1>1 DEF ReqStates
  <1>3. n \in Mounted /\ n.sent = nm.sent /\ nm.sent \in Int
    BY <1>0 DEF Mounted, ReqStates
  <1> HIDE DEF q, n
  <1>4. rs \in [Reqs -> ReqStates] /\ rs[r] = q /\ \A p \in Reqs \ {r} : rs[p] = req[p]
    BY <1>0, <1>2
  <1> HIDE DEF rs
  <1>5. \A p \in Reqs : rs[p].asleep => nm.want
    BY <1>0, <1>2, <1>4 DEF SocketOK
  <1>6. /\ req' \in [Reqs -> ReqStates]
        /\ \A p \in Reqs :
              /\ req'[p].pc = rs[p].pc /\ req'[p].mrep = rs[p].mrep
              /\ req'[p].sent = rs[p].sent /\ req'[p].term = rs[p].term
              /\ req'[p].rexmit = rs[p].rexmit /\ ~req'[p].asleep
    BY <1>0, <1>1, <1>4, <1>5, WokenOK
  <1>7. nm' \in Mounted /\ nm'.sent = nm.sent - One(req[r].sent)
    <2>1. PICK u : u = Unsent(n, req[r])
      OBVIOUS
    <2>2. u \in Mounted /\ u.sent = n.sent - One(req[r].sent)
      BY <1>0, <1>3, <2>1, UnsentOK
    <2>3. nm' = [u EXCEPT !.lock = None, !.want = FALSE]
      BY <1>1, <2>1 DEF Unlock
    <2> QED
      BY <1>3, <2>2, <2>3 DEF Mounted
  <1>8. nm'.sent = nm.sent + One(req'[r].sent) - One(req[r].sent)
    BY <1>2, <1>3, <1>4, <1>6, <1>7 DEF One
  <1> QED
    BY <1>0, <1>1, <1>2, <1>4, <1>6, <1>7, <1>8, ClientStepInv

(* nfs_updatetimer leaves the count and the socket alone.                  *)
LEMMA UpdatetimerOK ==
    ASSUME NEW n \in Mounted, NEW u \in nfs_updatetimer(n)
    PROVE  u \in Mounted /\ u.sent = n.sent /\ u.lock = n.lock /\ u.want = n.want
  <1>1. CASE n.rexmit
    BY <1>1 DEF nfs_updatetimer, Mounted
  <1>2. CASE ~n.rexmit
    <2>1. PICK w \in n.window..MaxWindow : u = [n EXCEPT !.window = w]
      BY <1>2 DEF nfs_updatetimer
    <2>2. w \in 1..MaxWindow
      BY <2>1, ClientAssumption DEF Mounted
    <2> QED
      BY <2>1, <2>2 DEF Mounted
  <1> QED
    BY <1>1, <1>2

LEMMA ReceiveInv ==
    ASSUME ClientInv, NEW r \in Reqs, NEW m, m.xid \in Reqs, m.val \in 1..MaxExec,
           nfs_receive(r, m)
    PROVE  ClientInv'
  <1>0. /\ req \in [Reqs -> ReqStates] /\ mount \in Mounts /\ leaked \in Nat
        /\ nm \in Mounted /\ ReqOK /\ SocketOK
    BY ClientFacts
  <1> DEFINE x == m.xid
  <1>1. /\ req[r].pc = "receive" /\ UNCHANGED <<mount, leaked>> /\ x \in Reqs
        /\ nm.sent \in Int
    BY <1>0 DEF nfs_receive, Runs, Mounted
  <1>2. CASE ~Linked(x) \/ req[x].mrep # None
    <2>1. req' = Woken(req, nm) /\ nm' = [nm EXCEPT !.want = FALSE]
      BY <1>2 DEF nfs_receive
    <2>2. /\ req' \in [Reqs -> ReqStates]
          /\ \A p \in Reqs :
                /\ req'[p].pc = req[p].pc /\ req'[p].mrep = req[p].mrep
                /\ req'[p].sent = req[p].sent /\ req'[p].term = req[p].term
                /\ req'[p].rexmit = req[p].rexmit /\ ~req'[p].asleep
      <3>1. \A p \in Reqs : req[p].asleep => nm.want
        BY <1>0 DEF SocketOK
      <3> QED
        BY <1>0, <2>1, <3>1, WokenOK
    <2>3. nm' \in Mounted /\ nm'.sent = nm.sent
      BY <1>0, <2>1 DEF Mounted
    <2>4. nm'.sent = nm.sent + One(req'[r].sent) - One(req[r].sent)
      BY <1>1, <2>2, <2>3 DEF One
    <2> QED
      BY <1>0, <1>1, <2>2, <2>3, <2>4, ClientStepInv DEF ReqOK
  <1>3. CASE Linked(x) /\ req[x].mrep = None
    <2> DEFINE got == [req[x] EXCEPT !.mrep = m.val, !.sent = FALSE, !.timing = FALSE]
               n2(n) == Unsent([n EXCEPT !.rtt = @ /\ ~req[x].timing], req[x])
    <2>1. PICK n \in (IF req[x].timing THEN nfs_updatetimer(nm) ELSE {nm}) :
             IF x = r
             THEN /\ req' = Woken([req EXCEPT ![r] = [got EXCEPT !.pc = "done"]], nm)
                  /\ nm' = Unlock(n2(n))
             ELSE /\ req' = Woken([req EXCEPT ![x] = got], nm)
                  /\ nm' = [n2(n) EXCEPT !.want = FALSE]
      BY <1>3 DEF nfs_receive
    <2>2. n \in Mounted /\ n.sent = nm.sent
      BY <1>0, UpdatetimerOK
    <2>3. PICK u : u = n2(n)
      OBVIOUS
    <2>4. u \in Mounted /\ u.sent = nm.sent - One(req[x].sent)
      <3>1. PICK a : a = [n EXCEPT !.rtt = @ /\ ~req[x].timing]
        OBVIOUS
      <3>2. a \in Mounted /\ a.sent = nm.sent
        BY <2>2, <3>1 DEF Mounted
      <3>3. u = Unsent(a, req[x]) /\ req[x] \in ReqStates
        BY <1>0, <1>1, <2>3, <3>1
      <3> QED
        BY <3>2, <3>3, UnsentOK
    <2>5. PICK g : g = IF x = r THEN [got EXCEPT !.pc = "done"] ELSE got
      OBVIOUS
    <2>6. /\ req' = Woken([req EXCEPT ![x] = g], nm)
          /\ nm' = IF x = r THEN Unlock(u) ELSE [u EXCEPT !.want = FALSE]
      BY <2>1, <2>3, <2>5
    <2>7. /\ g \in ReqStates /\ ~g.sent /\ g.pc # "none" /\ g.asleep = req[x].asleep
          /\ g.term = req[x].term /\ g.rexmit = req[x].rexmit /\ req[x].pc # "failed"
      <3>1. got \in ReqStates /\ ~got.sent /\ got.pc = req[x].pc /\ got.asleep = req[x].asleep
            /\ got.term = req[x].term /\ got.rexmit = req[x].rexmit
        <4>1. PICK v \in {None} \cup 1..MaxExec : v = m.val
          OBVIOUS
        <4>2. PICK b \in ReqStates : b = req[x]
          BY <1>0, <1>1
        <4>3. got = [b EXCEPT !.mrep = v, !.sent = FALSE, !.timing = FALSE]
          BY <4>1, <4>2
        <4> HIDE DEF got, x
        <4> QED
          BY <4>1, <4>2, <4>3 DEF ReqStates
      <3>2. req[x].pc # "none" /\ req[x].pc # "failed"
        BY <1>3 DEF Linked, Returned
      <3> HIDE DEF got
      <3> QED
        BY <2>5, <3>1, <3>2 DEF ReqStates
    <2>8. PICK rs : rs = [req EXCEPT ![x] = g]
      OBVIOUS
    <2>9. rs \in [Reqs -> ReqStates] /\ rs[x] = g /\ \A p \in Reqs \ {x} : rs[p] = req[p]
      BY <1>0, <1>1, <2>7, <2>8
    <2>10. \A p \in Reqs : rs[p].asleep => nm.want
      BY <1>0, <1>1, <2>7, <2>9 DEF SocketOK
    <2>11. /\ req' \in [Reqs -> ReqStates]
           /\ \A p \in Reqs :
                 /\ req'[p].pc = rs[p].pc /\ req'[p].mrep = rs[p].mrep
                 /\ req'[p].sent = rs[p].sent /\ req'[p].term = rs[p].term
                 /\ req'[p].rexmit = rs[p].rexmit /\ ~req'[p].asleep
      <3>1. rs \in [Reqs -> ReqStates] /\ nm \in Mounted
        BY <1>0, <2>9
      <3>2. /\ Woken(rs, nm) \in [Reqs -> ReqStates]
            /\ \A p \in Reqs :
                  /\ Woken(rs, nm)[p].pc = rs[p].pc /\ Woken(rs, nm)[p].mrep = rs[p].mrep
                  /\ Woken(rs, nm)[p].sent = rs[p].sent /\ Woken(rs, nm)[p].term = rs[p].term
                  /\ Woken(rs, nm)[p].rexmit = rs[p].rexmit /\ ~Woken(rs, nm)[p].asleep
        BY <2>10, <3>1, WokenOK
      <3>3. req' = Woken(rs, nm)
        BY <2>6, <2>8
      <3> QED
        BY <3>2, <3>3
    <2>12. nm' \in Mounted /\ nm'.sent = nm.sent - One(req[x].sent)
      BY <2>4, <2>6 DEF Unlock, Mounted
    <2>13. nm'.sent = nm.sent + One(req'[x].sent) - One(req[x].sent)
      BY <1>1, <2>7, <2>9, <2>11, <2>12 DEF One
    <2>14. /\ req'[x].pc # "none" /\ ~req'[x].sent
           /\ ~req'[x].term => req'[x].rexmit < nm_retry
      BY <1>0, <1>1, <2>7, <2>9, <2>11 DEF ReqOK
    <2> HIDE DEF x
    <2> QED
      BY <1>0, <1>1, <2>7, <2>9, <2>11, <2>12, <2>13, <2>14, ClientStepInv
  <1> QED
    BY <1>2, <1>3

LEMMA SignalInv ==
    ASSUME ClientInv, NEW r \in Reqs, TimerSignal(r)
    PROVE  ClientInv'
  <1>0. /\ req \in [Reqs -> ReqStates] /\ mount \in Mounts /\ leaked \in Nat
        /\ nm \in Mounted /\ ReqOK /\ SocketOK
    BY ClientFacts
  <1>1. /\ req[r].pc # "none" /\ req[r].pc # "failed" /\ UNCHANGED <<mount, nm, leaked>>
        /\ req' = [req EXCEPT ![r].term = TRUE] /\ nm.sent \in Int
    BY <1>0 DEF TimerSignal, Unanswered, Linked, Returned, Mounted
  <1>2. /\ req' \in [Reqs -> ReqStates] /\ req'[r].pc = req[r].pc /\ req'[r].term
        /\ req'[r].sent = req[r].sent /\ req'[r].mrep = req[r].mrep
        /\ req'[r].asleep = req[r].asleep
        /\ \A q \in Reqs \ {r} : req'[q] = req[q]
    BY <1>0, <1>1 DEF ReqStates
  <1>3. nm'.sent = nm.sent + One(req'[r].sent) - One(req[r].sent)
    BY <1>1, <1>2 DEF One
  <1>4. \A q \in Reqs : req'[q].asleep => nm'.lock # None /\ nm'.want
    BY <1>0, <1>1, <1>2 DEF SocketOK
  <1> QED
    BY <1>0, <1>1, <1>2, <1>3, <1>4, ClientStepInv DEF ReqOK

LEMMA CountsInv ==
    ASSUME ClientInv, NEW r \in Reqs, TimerCounts(r)
    PROVE  ClientInv'
  <1>0. /\ req \in [Reqs -> ReqStates] /\ mount \in Mounts /\ leaked \in Nat
        /\ nm \in Mounted /\ ReqOK /\ SocketOK
    BY ClientFacts
  <1>1. /\ req[r].pc # "none" /\ UNCHANGED <<mount, req, leaked>>
        /\ nm' = [nm EXCEPT !.rtt = TRUE] /\ nm.sent \in Int
    BY <1>0 DEF TimerCounts, Unanswered, Linked, Mounted
  <1>2. nm' \in Mounted /\ nm'.sent = nm.sent /\ nm'.lock = nm.lock /\ nm'.want = nm.want
    BY <1>0, <1>1 DEF Mounted
  <1>3. nm'.sent = nm.sent + One(req'[r].sent) - One(req[r].sent)
    BY <1>1, <1>2 DEF One
  <1> QED
    BY <1>0, <1>1, <1>2, <1>3, ClientStepInv DEF ReqOK, SocketOK

LEMMA ExpiresInv ==
    ASSUME ClientInv, NEW r \in Reqs, NEW mbuf \in BOOLEAN, TimerExpires(r, mbuf)
    PROVE  ClientInv'
  <1>0. /\ req \in [Reqs -> ReqStates] /\ mount \in Mounts /\ leaked \in Nat
        /\ nm \in Mounted /\ ReqOK /\ SocketOK
    BY ClientFacts
  <1>1. /\ req[r].pc \in {"m_copym", "solock", "receive"} /\ req[r].mrep = None
        /\ ~req[r].term /\ req[r].rexmit < nm_retry /\ req[r].rexmit \in 0..nm_retry
        /\ UNCHANGED <<mount, leaked>> /\ nm.sent \in Int /\ nm_retry \in Nat
    BY <1>0, ClientAssumption
       DEF TimerExpires, Unanswered, Linked, Returned, ReqStates, ReqOK, Mounted
  <1>2. PICK q : q = [req[r] EXCEPT !.sent = FALSE, !.timing = FALSE,
                                    !.rexmit = IF "soft" \in mount THEN @ + 1 ELSE @]
    OBVIOUS
  <1>3. PICK back : back = IF req[r].timing THEN [nfs_backofftimer(nm) EXCEPT !.rtt = FALSE]
                           ELSE nm
    OBVIOUS
  <1>4. PICK n : n = Unsent(back, req[r])
    OBVIOUS
  <1>5. /\ q \in ReqStates /\ ~q.sent /\ q.pc = req[r].pc /\ q.mrep = None
        /\ q.term = req[r].term /\ q.asleep = req[r].asleep
    <2>1. PICK t : t = IF "soft" \in mount THEN req[r].rexmit + 1 ELSE req[r].rexmit
      OBVIOUS
    <2>2. t \in 0..nm_retry
      BY <1>1, <2>1
    <2>3. q = [req[r] EXCEPT !.sent = FALSE, !.timing = FALSE, !.rexmit = t]
      BY <1>2, <2>1
    <2> QED
      BY <1>0, <1>1, <2>2, <2>3 DEF ReqStates
  <1>6. back \in Mounted /\ back.sent = nm.sent /\ back.lock = nm.lock /\ back.want = nm.want
    <2>1. 1 \in 1..MaxWindow
      BY ClientAssumption
    <2>2. CASE req[r].timing
      <3>1. back = [[nm EXCEPT !.window = 1, !.rexmit = TRUE] EXCEPT !.rtt = FALSE]
        BY <1>3, <2>2 DEF nfs_backofftimer
      <3> QED
        BY <1>0, <2>1, <3>1 DEF Mounted
    <2> QED
      BY <1>0, <1>3, <2>2
  <1>7. /\ n \in Mounted /\ n.sent = nm.sent - One(req[r].sent)
        /\ n.lock = nm.lock /\ n.want = nm.want
    BY <1>0, <1>4, <1>6, UnsentOK
  (* The request becomes p, and the mount n or one more than n.            *)
  <1>8. ASSUME NEW p \in ReqStates, NEW k \in Mounted,
               req' = [req EXCEPT ![r] = p], nm' = k,
               p.pc = req[r].pc, p.mrep = None, p.asleep = req[r].asleep,
               ~p.term => p.rexmit < nm_retry,
               k.sent = n.sent + One(p.sent), k.lock = n.lock, k.want = n.want
        PROVE  ClientInv'
    <2>1. /\ req' \in [Reqs -> ReqStates] /\ req'[r] = p
          /\ \A x \in Reqs \ {r} : req'[x] = req[x]
      BY <1>0, <1>8
    <2>2. nm'.sent = nm.sent + One(req'[r].sent) - One(req[r].sent)
      BY <1>1, <1>7, <1>8, <2>1 DEF One
    <2>3. \A x \in Reqs : req'[x].asleep => nm'.lock # None /\ nm'.want
      BY <1>0, <1>7, <1>8, <2>1 DEF SocketOK
    <2> QED
      BY <1>0, <1>1, <1>8, <2>1, <2>2, <2>3, ClientStepInv
  <1>9. CASE q.rexmit >= nm_retry /\ req' = [req EXCEPT ![r] = [q EXCEPT !.term = TRUE]]
             /\ nm' = n
    <2>1. PICK p : p = [q EXCEPT !.term = TRUE]
      OBVIOUS
    <2>2. /\ p \in ReqStates /\ p.pc = req[r].pc /\ p.mrep = None /\ p.term /\ ~p.sent
          /\ p.asleep = req[r].asleep
      BY <1>5, <2>1 DEF ReqStates
    <2>3. n.sent = n.sent + One(p.sent)
      BY <1>7, <2>2 DEF One, Mounted
    <2> QED
      BY <1>9, <1>7, <1>8, <2>1, <2>2, <2>3
  <1>10. CASE q.rexmit < nm_retry
             /\ req' = [req EXCEPT ![r] = [q EXCEPT !.sent = TRUE, !.timing = TRUE]]
             /\ nm' = [n EXCEPT !.sent = @ + 1, !.rtt = TRUE]
    <2>1. PICK p : p = [q EXCEPT !.sent = TRUE, !.timing = TRUE]
      OBVIOUS
    <2>2. /\ p \in ReqStates /\ p.pc = req[r].pc /\ p.mrep = None /\ p.sent
          /\ p.rexmit < nm_retry /\ p.asleep = req[r].asleep
      BY <1>10, <1>5, <2>1 DEF ReqStates
    <2>3. /\ nm' \in Mounted /\ nm'.sent = n.sent + One(p.sent)
          /\ nm'.lock = n.lock /\ nm'.want = n.want
      <3>1. n.sent + 1 \in Int /\ One(p.sent) = 1
        BY <1>7, <2>2 DEF Mounted, One
      <3> QED
        BY <1>10, <1>7, <3>1 DEF Mounted
    <2> QED
      BY <1>10, <1>8, <2>1, <2>2, <2>3
  <1>11. CASE q.rexmit < nm_retry /\ req' = [req EXCEPT ![r] = q] /\ nm' = n
    <2>1. n.sent = n.sent + One(q.sent)
      BY <1>5, <1>7 DEF One, Mounted
    <2> QED
      BY <1>11, <1>1, <1>5, <1>7, <1>8, <2>1
  <1> QED
    <2>1. \/ q.rexmit >= nm_retry /\ req' = [req EXCEPT ![r] = [q EXCEPT !.term = TRUE]]
             /\ nm' = n
          \/ q.rexmit < nm_retry
             /\ req' = [req EXCEPT ![r] = [q EXCEPT !.sent = TRUE, !.timing = TRUE]]
             /\ nm' = [n EXCEPT !.sent = @ + 1, !.rtt = TRUE]
          \/ ~(q.rexmit >= nm_retry) /\ req' = [req EXCEPT ![r] = q] /\ nm' = n
      BY <1>2, <1>3, <1>4 DEF TimerExpires
    <2>2. ~(q.rexmit >= nm_retry) => q.rexmit < nm_retry
      BY <1>1, <1>5 DEF ReqStates
    <2> QED
      BY <1>9, <1>10, <1>11, <2>1, <2>2

-----------------------------------------------------------------------------
(* The client and its server together.                                     *)
LEMMA ClientInitInv == ClientInit => ClientInv
  <1> SUFFICES ASSUME ClientInit PROVE ClientInv
    OBVIOUS
  <1>1. NewReq \in ReqStates /\ ~NewReq.sent /\ ~NewReq.asleep /\ NewReq.rexmit < nm_retry
        /\ NewReq.mrep = None /\ NewReq.pc = "none"
    BY ClientAssumption DEF NewReq, ReqStates
  <1>2. req \in [Reqs -> ReqStates] /\ \A r \in Reqs : req[r] = NewReq
    BY <1>1 DEF ClientInit
  <1>3. Out = {} /\ Failed = {} /\ Cardinality({}) = 0 /\ Cardinality(Reqs) \in Nat
    BY <1>1, <1>2, ClientAssumption, FS_EmptySet, FS_CardinalityType DEF Out, Failed
  <1>4. ClientTypeOK
    BY <1>2, <1>3, ClientAssumption DEF ClientInit, ClientTypeOK
  <1>5. ReqOK /\ SocketOK
    BY <1>1, <1>2 DEF ReqOK, SocketOK
  <1>6. SentOK
    BY <1>3 DEF ClientInit, SentOK
  <1> QED
    BY <1>4, <1>5, <1>6 DEF ClientInv

LEMMA ClientNextInv ==
    ASSUME NfsInv, ClientNext
    PROVE  ClientInv'
  <1>0. ClientInv /\ ServerInv
    BY DEF NfsInv
  <1>1. ASSUME NEW r \in Reqs, NEW m \in Replies, nfs_receive(r, m) PROVE ClientInv'
    <2>1. m \in net /\ m.xid \in Reqs /\ m.val \in 1..exec[m.xid]
      BY <1>0 DEF ServerInv, NetOK, Replies, NfsInv
    <2>2. exec[m.xid] \in 0..MaxExec
      BY <1>0, <2>1 DEF ServerInv, ServerTypeOK
    <2>3. m.val \in 1..MaxExec
      BY <2>1, <2>2, NetAssumption
    <2> QED
      BY <1>0, <1>1, <2>1, <2>3, ReceiveInv
  <1>2. ASSUME NEW r \in Reqs, ClientStep(r) PROVE ClientInv'
    BY <1>0, <1>2, SendInv, SoLockInv, TerminateInv DEF ClientStep
  <1>3. ASSUME NEW r \in Reqs, nfs_timer(r) PROVE ClientInv'
    BY <1>0, <1>3, SignalInv, CountsInv, ExpiresInv DEF nfs_timer
  <1> QED
    BY <1>0, <1>1, <1>2, <1>3, RequestInv DEF ClientNext

(* All that the client puts on the network are calls.                      *)
LEMMA ClientSendsCalls ==
    ASSUME ClientNext, NEW m \in net'
    PROVE  m \in net \/ (m.type = "call" /\ m.xid \in Reqs)
  <1>1. \/ net' \subseteq net
        \/ \E r \in Reqs : net' = net \cup {Call(r)}
    <2>1. ASSUME NEW r \in Reqs, nfs_request(r) \/ SoLock(r) \/ Terminate(r) PROVE net' = net
      BY <2>1 DEF nfs_request, SoLock, Terminate
    <2>2. ASSUME NEW r \in Reqs, nfs_send(r) PROVE net' = net \/ net' = net \cup {Call(r)}
      BY <2>2 DEF nfs_send, Send
    <2>3. ASSUME NEW r \in Reqs, nfs_timer(r) PROVE net' = net \/ net' = net \cup {Call(r)}
      BY <2>3 DEF nfs_timer, TimerSignal, TimerCounts, TimerExpires, Send
    <2>4. ASSUME NEW r \in Reqs, NEW n \in Replies, nfs_receive(r, n) PROVE net' \subseteq net
      BY <2>4 DEF nfs_receive, Receive
    <2> QED
      BY <2>1, <2>2, <2>3, <2>4 DEF ClientNext, ClientStep
  <1> QED
    BY <1>1 DEF Call

LEMMA ClientKept ==
    ASSUME ClientInv, UNCHANGED clientVars
    PROVE  ClientInv'
  <1>1. mount' = mount /\ req' = req /\ nm' = nm /\ leaked' = leaked
    BY DEF clientVars
  <1>2. Out' = Out /\ Failed' = Failed
    BY <1>1 DEF Out, Failed
  <1> QED
    BY <1>1, <1>2 DEF ClientInv, ClientTypeOK, ReqOK, SentOK, SocketOK

(* The client and the server keep their invariants together: what either   *)
(* needs to know of the other is that calls are of requests, and that a    *)
(* reply is some execution's.                                              *)
THEOREM NfsInvariant == Spec => []NfsInv
  <1>1. Init => NfsInv
    BY ServerInitInv, ClientInitInv DEF Init, NfsInv, ServerInit
  <1>2. NfsInv /\ [Next]_vars => NfsInv'
    <2> SUFFICES ASSUME NfsInv, [Next]_vars PROVE NfsInv'
      OBVIOUS
    <2>0. ServerInv /\ ClientInv
      BY DEF NfsInv
    <2>9. mixed' = {}
      BY <2>0, OneHost, MixedStays DEF Distinct, NfsInv, Next, vars
    <2>1. CASE ClientNext /\ UNCHANGED serverVars /\ UNCHANGED kind
      <3>1. \A m \in net' : m \in net \/ (m.type = "call" /\ m.xid \in Reqs)
        BY <2>1, ClientSendsCalls
      <3>2. ServerInv'
        BY <2>0, <2>1, <3>1, OthersInv
      <3> QED
        BY <2>1, <2>9, <3>2, ClientNextInv DEF NfsInv
    <2>2. CASE ServerNext /\ UNCHANGED clientVars /\ UNCHANGED kind
      BY <2>0, <2>2, <2>9, ServerNextInv, ClientKept DEF NfsInv
    <2>3. CASE Lose /\ UNCHANGED <<clientVars, serverVars>> /\ UNCHANGED kind
      <3>1. \A m \in net' : m \in net
        BY <2>3 DEF Lose
      <3>2. UNCHANGED clientVars /\ UNCHANGED serverVars
        BY <2>3
      <3> QED
        BY <2>0, <2>3, <2>9, <3>1, <3>2, OthersInv, ClientKept DEF NfsInv
    <2>4. CASE UNCHANGED vars
      <3>1. UNCHANGED clientVars /\ UNCHANGED serverVars /\ net' = net /\ kind' = kind
        BY <2>4 DEF vars
      <3> QED
        BY <2>0, <2>9, <3>1, OthersInv, ClientKept DEF NfsInv
    <2> QED
      BY <2>1, <2>2, <2>3, <2>4 DEF Next
  <1> QED
    BY <1>1, <1>2, PTL DEF Spec

(* nm_sent counts the requests that are out and those that nfs_send gave   *)
(* up, each once, whatever replies come and whenever the timer runs; and   *)
(* nfs_sounlock wakes everyone who sleeps for the socket.                  *)
THEOREM NfsWindow == Spec => []WindowOK
  <1>1. NfsInv => WindowOK
    BY DEF NfsInv, ClientInv, SentOK, SocketOK, Out, WindowOK
  <1> QED
    BY <1>1, NfsInvariant, PTL

(* What is true of the server with any client is true of it with this one, *)
(* whose requests all differ: it gets no other request's reply.            *)
THEOREM NfsServerOK ==
    Spec => [](OnceOnly /\ InProgress /\ ReplyRight /\ RepliesOwn /\ EntriesOK)
  <1>1. NfsInv => OnceOnly /\ InProgress /\ ReplyRight /\ RepliesOwn /\ EntriesOK
    BY InvImplies DEF NfsInv, ReplyRight, RepliesOwn
  <1> QED
    BY <1>1, NfsInvariant, PTL
=============================================================================
