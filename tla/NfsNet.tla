------------------------------- MODULE NfsNet -------------------------------
(***************************************************************************)
(* What NFS's client and server share: the requests and the datagrams.     *)
(* A request stands for its xid, its procedure and the host it is from,    *)
(* which are all one of them is known by.  UDP loses and reorders          *)
(* datagrams: those that are under way, in a socket buffer too, are a set. *)
(* This is not the repository's UDP, but what NFS may expect of it.        *)
(***************************************************************************)
EXTENDS Integers, FiniteSets, Sequences

CONSTANTS Reqs,         \* the requests of the clients, each made once
          Twins,        \* those of several hosts with the same xid and procedure
          Kinds,        \* what they may be: of "idem", "status", "mbuf"
          Faults,       \* of "loss", "crash", "reuse", "garbled"
          None,
          MaxExec       \* bound: executions of a request that are told apart

ASSUME NetAssumption ==
    /\ None \notin Reqs /\ Twins \subseteq SUBSET Reqs /\ MaxExec \in Nat \ {0}
    /\ Kinds \subseteq {"idem", "status", "mbuf"}
    /\ Faults \subseteq {"loss", "crash", "reuse", "garbled"}

VARIABLES net,
          kind          \* of each request's procedure, constant

(* A reply carries the xid of the call; of and val say where its contents  *)
(* come from: the val-th execution of request of.                          *)
Call(r)            == [type |-> "call", xid |-> r, of |-> r, val |-> 0]
Reply(r, contents) == [type |-> "reply", xid |-> r, of |-> contents.of, val |-> contents.val]
Calls   == {m \in net : m.type = "call"}
Replies == {m \in net : m.type = "reply"}

(* Requests that only the host tells apart: every host numbers its         *)
(* requests from 1.                                                        *)
Alike(q, r) == q = r \/ \E T \in Twins : {q, r} \subseteq T

NetInit == /\ net = {}
           /\ kind \in {k \in [Reqs -> Kinds] : \A q, r \in Reqs : Alike(q, r) => k[q] = k[r]}

Send(m) == net' = net \cup {m}

Receive(m) == net' = net \ {m}

Lose == /\ "loss" \in Faults
        /\ \E m \in net : net' = net \ {m}
=============================================================================
