--------------------------------- MODULE Nfs ---------------------------------
(***************************************************************************)
(* A client and a server of NFS, and the network between them.             *)
(***************************************************************************)
EXTENDS NfsClient, NfsServer

(* All requests are of the one host, which numbers them one by one.        *)
ASSUME OneHost == Twins = {}

vars == <<net, kind, clientVars, serverVars>>

Init == NetInit /\ ClientInit /\ ServerInit

Next == /\ \/ ClientNext /\ UNCHANGED serverVars
           \/ ServerNext /\ UNCHANGED clientVars
           \/ Lose /\ UNCHANGED <<clientVars, serverVars>>
        /\ UNCHANGED kind

Spec == Init /\ [][Next]_vars

(* A process that can run does; the timer comes round, and there is an     *)
(* mbuf in the end; of the datagrams that are sent again and again some    *)
(* get through.                                                            *)
Alone(A) == A /\ UNCHANGED <<kind, serverVars>>
Serves(A) == A /\ UNCHANGED <<kind, clientVars>>
FairSpec ==
    /\ Spec
    /\ \A r \in Reqs :
          /\ WF_vars(Alone(ClientStep(r)))
          /\ WF_vars(Alone(TimerExpires(r, TRUE)))
          /\ SF_vars(Alone(\E q \in Reqs, m \in Replies : m.xid = r /\ nfs_receive(q, m)))
          /\ SF_vars(Serves(\E d \in Nfsds, m \in Calls : m.xid = r /\ GetReq(d, m)))
    /\ \A d \in Nfsds : WF_vars(Serves(NfsdStep(d)))

(* The window is used up by a request that has been interrupted, and that  *)
(* the timer no longer looks at.                                           *)
WindowHeld == leaked > 0 \/ \E r \in Reqs : req[r].term /\ req[r].sent

(* Every call returns, though datagrams are lost and the server crashes;   *)
(* unless the window is held, or the request has had two entries: the one  *)
(* that stays in progress makes the server drop it.                        *)
CallsReturn == \A r \in Reqs :
    Linked(r) ~> Returned(r) \/ r \in twice \/ WindowHeld

(* A request that is not sent at once is sent by the timer: every call     *)
(* returns.                                                                *)
TimerSends == \A r \in Reqs : Linked(r) ~> Returned(r)
=============================================================================
