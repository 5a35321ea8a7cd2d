------------------------------ MODULE NfsServer ------------------------------
(***************************************************************************)
(* The NFS server: the nfsds of one UDP socket (nfssvc in                  *)
(* sys/nfs/nfs_syscalls.c) and their cache of recent requests              *)
(* (sys/nfs/nfs_srvcache.c).                                               *)
(*                                                                         *)
(* An nfsd sleeps for a locked entry; while it copies a reply from or to   *)
(* an entry, which it keeps locked, since m_copym waits for mbufs; and as  *)
(* it carries out a procedure.  An action is what happens between.         *)
(*                                                                         *)
(* An entry's rc_nam is a copy of an mbuf header: its m_data points into   *)
(* the mbuf of the request that made the entry, which that request's nfsd  *)
(* frees.  What an entry's address then compares to is what the mbuf's     *)
(* next user has written there ("reuse"): the entry may be missed, and it  *)
(* may be found for another host, whose address is what it now reads.      *)
(***************************************************************************)
EXTENDS NfsNet

CONSTANTS Nfsds,
          Slots,        \* nfsrvcache[]
          MaxCrashes    \* bound

ASSUME ServerAssumption ==
    /\ Slots # {} /\ IsFiniteSet(Slots) /\ None \notin Nfsds \cup Slots
    /\ None \notin [of : Reqs, val : 1..MaxExec] /\ MaxCrashes \in Nat

VARIABLES nfsd,         \* per nfsd: where it is, its request and entry
          rc,           \* per entry: its fields
          lru,          \* the entries, most recently used first
          chain,        \* the hash chain, first to last (there is one)
          exec,         \* how often each request has been carried out
          forgot,       \* requests the cache has lost track of
          twice,        \* those that were given a second entry after a sleep
          mixed,        \* those of two hosts that were taken for one another
          crashes

serverVars == <<nfsd, rc, lru, chain, exec, forgot, twice, mixed, crashes>>

Idle   == [pc |-> "idle", r |-> None, s |-> None, val |-> 0, wchan |-> None]
Unused == [req |-> None, state |-> "RC_UNUSED", reply |-> None,
           locked |-> FALSE, wanted |-> FALSE, nam |-> None]
(* The entries are alike until they are used: any order will do.           *)
Orders == {q \in [1..Cardinality(Slots) -> Slots] :
               \A s \in Slots : \E i \in DOMAIN q : q[i] = s}

ServerInit ==
    /\ nfsd = [d \in Nfsds |-> Idle]
    /\ rc = [s \in Slots |-> Unused] /\ lru \in Orders /\ chain = <<>>
    /\ exec = [r \in Reqs |-> 0] /\ forgot = {} /\ twice = {} /\ mixed = {} /\ crashes = 0

-----------------------------------------------------------------------------
At(d, label) == nfsd[d].pc = label /\ nfsd[d].wchan = None

(* d goes on as now says; those that sleep on one of the entries awake.    *)
Become(d, now, woken) == nfsd' = [e \in Nfsds |->
    IF e = d THEN now
    ELSE IF nfsd[e].wchan \in woken THEN [nfsd[e] EXCEPT !.wchan = None] ELSE nfsd[e]]

(* s in front of q, which it leaves if it is there: what stands before it  *)
(* moves on by one place.                                                  *)
On(s, q) == \E i \in DOMAIN q : q[i] = s
ToFront(s, q) == [j \in 1..(IF On(s, q) THEN Len(q) ELSE Len(q) + 1) |->
    IF j = 1 THEN s
    ELSE IF \E i \in 1..(j - 1) : q[i] = s THEN q[j] ELSE q[j - 1]]
put_at_head(s) == lru' = ToFront(s, lru)

unlocked(e) == [e EXCEPT !.locked = FALSE, !.wanted = FALSE]
Wakes_Never(s) == {}                    \* mutant: no wakeup
Wakes(s)    == IF rc[s].wanted THEN {s} ELSE {}

(* d frees nam, the mbuf that the entries it has made point into.          *)
Freed(d, entries) == [s \in Slots |->
    IF entries[s].nam = d THEN [entries[s] EXCEPT !.nam = None] ELSE entries[s]]

(* The sets of entries that may compare equal to r, by xid, procedure and  *)
(* nfs_netaddr_match: r's own, unless the address is in a freed mbuf; of   *)
(* those that are not, with the host's address in their place, any.        *)
Intact(s)   == rc[s].nam # None \/ "reuse" \notin Faults
Readings(r) == {M \in SUBSET {s \in Slots : Alike(rc[s].req, r)} :
                    \A s \in Slots : Intact(s) => (s \in M <=> rc[s].req = r)}
Matches(M)  == {i \in DOMAIN chain : chain[i] \in M}
(* The first match on the chain, if there is one.                          *)
Find(M)     == {chain[i] : i \in {i \in Matches(M) : \A j \in Matches(M) : i <= j}}
Missed(r, M) == {q \in {r} : \E s \in Slots \ M : rc[s].req = r}
Mixed(r, s)  == IF rc[s].req = r THEN {} ELSE {r, rc[s].req}

(* d sleeps for entry s, and will go on at label.                          *)
WaitFor(d, s, r, label, val) ==
    /\ rc' = [rc EXCEPT ![s].wanted = TRUE]
    /\ Become(d, [Idle EXCEPT !.pc = label, !.r = r, !.s = s, !.val = val, !.wchan = s], {})

-----------------------------------------------------------------------------
(* nfsrv_getcache.                                                         *)

(* mutant: rc_flag is not cleared, and says that there is a reply.         *)
Take_KeepsFlag(d, r, s) ==
    /\ rc' = [rc EXCEPT ![s].req = r, ![s].state = "RC_INPROG", ![s].nam = d]
    /\ put_at_head(s) /\ chain' = ToFront(s, chain)
    /\ Become(d, [Idle EXCEPT !.pc = "exec", !.r = r], {})

(* A miss takes entry s, whatever it holds.                                *)
Take(d, r, s) ==
    /\ rc' = [rc EXCEPT ![s] = [Unused EXCEPT !.req = r, !.state = "RC_INPROG", !.nam = d]]
    /\ put_at_head(s)
    /\ chain' = ToFront(s, chain)
    /\ Become(d, [Idle EXCEPT !.pc = "exec", !.r = r], {})
Victim(s) == {rc[s].req} \ {None}

(* What the entry says of a request that is found.                         *)
Hit(d, r, s) ==
    CASE rc[s].locked -> WaitFor(d, s, r, "search", 0) /\ UNCHANGED lru
      [] ~rc[s].locked /\ rc[s].state = "RC_INPROG" ->       \* RC_DROPIT
           put_at_head(s) /\ Become(d, Idle, {}) /\ UNCHANGED rc
      [] ~rc[s].locked /\ rc[s].state # "RC_INPROG" /\ rc[s].reply # None ->
           /\ put_at_head(s)
           /\ rc' = [rc EXCEPT ![s].locked = TRUE]
           /\ Become(d, [Idle EXCEPT !.pc = "copy", !.r = r, !.s = s], {})
      [] OTHER ->                                            \* RC_DOIT
           /\ put_at_head(s)
           /\ rc' = [rc EXCEPT ![s].state = "RC_INPROG"]
           /\ Become(d, [Idle EXCEPT !.pc = "exec", !.r = r], {})

nfsrv_getcache(d, r) == \E M \in Readings(r) :
    /\ IF Find(M) # {}
       THEN /\ \E s \in Find(M) : Hit(d, r, s) /\ mixed' = mixed \cup Mixed(r, s)
            /\ UNCHANGED chain /\ forgot' = forgot \cup Missed(r, M)
       ELSE /\ UNCHANGED mixed
            /\ LET tail == lru[Len(lru)] IN
               IF rc[tail].locked
               THEN /\ WaitFor(d, tail, r, "tail", 0)
                    /\ UNCHANGED <<lru, chain>> /\ forgot' = forgot \cup Missed(r, M)
               ELSE Take(d, r, tail) /\ forgot' = forgot \cup Missed(r, M) \cup Victim(tail)
    /\ UNCHANGED <<exec, twice, crashes>>

(* A request comes; its entry has been unlocked; or the one to be taken    *)
(* has: that one is waited for, and taken without another search.          *)
GetReq(d, m) == /\ At(d, "idle") /\ m \in Calls
                /\ Receive(m) /\ nfsrv_getcache(d, m.xid)
Search(d)    == At(d, "search") /\ nfsrv_getcache(d, nfsd[d].r) /\ UNCHANGED net
TakeTail(d)  ==
    /\ At(d, "tail")
    /\ LET s == nfsd[d].s
           r == nfsd[d].r IN
       IF rc[s].locked
       THEN WaitFor(d, s, r, "tail", 0) /\ UNCHANGED <<lru, chain, forgot, twice>>
       ELSE /\ Take(d, r, s)
            /\ forgot' = forgot \cup (Victim(s) \ {r})
            /\ twice' = twice \cup {q \in {r} : \E t \in Slots : rc[t].req = q}
    /\ UNCHANGED <<exec, mixed, crashes, net>>

-----------------------------------------------------------------------------
(* nfs_send of the reply.  The request is done with, and its nam freed.    *)
Answer(d, r, contents, entries, woken) ==
    /\ Send(Reply(r, contents))
    /\ rc' = Freed(d, entries)
    /\ Become(d, Idle, woken)

(* The copy of a saved reply is complete.                                  *)
Copied(d) ==
    /\ At(d, "copy")
    /\ LET s == nfsd[d].s IN
       Answer(d, nfsd[d].r, rc[s].reply, [rc EXCEPT ![s] = unlocked(@)], Wakes(s))
    /\ UNCHANGED <<lru, chain, exec, forgot, twice, mixed, crashes>>

(* nfsrv_updatecache: val is the execution that is to be remembered, or 0  *)
(* when the procedure failed.  s is the entry that the search has found.   *)
UpdateEntry(d, r, val, s) ==
    LET made == [of |-> r, val |-> val] IN
    CASE rc[s].locked -> WaitFor(d, s, r, "update", val) /\ UNCHANGED net
      [] ~rc[s].locked /\ val # 0 /\ kind[r] = "mbuf" ->
           /\ rc' = [rc EXCEPT ![s].locked = TRUE, ![s].state = "RC_DONE"]
           /\ Become(d, [Idle EXCEPT !.pc = "save", !.r = r, !.s = s, !.val = val], {})
           /\ UNCHANGED net
      [] ~rc[s].locked /\ val # 0 /\ kind[r] # "mbuf" ->
           Answer(d, r, made, [rc EXCEPT
               ![s].state = "RC_DONE",
               ![s].reply = IF kind[r] = "status" THEN made ELSE @], {})
      [] ~rc[s].locked /\ val = 0 ->
           /\ rc' = Freed(d, [rc EXCEPT ![s].state = "RC_INVALID"])
           /\ Become(d, Idle, {}) /\ UNCHANGED net

nfsrv_updatecache(d, r, val) == \E M \in Readings(r) :
    /\ CASE Find(M) # {} -> \E s \in Find(M) :
              UpdateEntry(d, r, val, s) /\ mixed' = mixed \cup Mixed(r, s)
         [] Find(M) = {} /\ val # 0 ->
              Answer(d, r, [of |-> r, val |-> val], rc, {}) /\ UNCHANGED mixed
         [] Find(M) = {} /\ val = 0 ->
              rc' = Freed(d, rc) /\ Become(d, Idle, {}) /\ UNCHANGED <<net, mixed>>
    /\ forgot' = forgot \cup Missed(r, M)
    /\ UNCHANGED <<lru, chain, twice, crashes>>

(* mutant: a request that fails leaves its entry alone.                    *)
Execute_NoUpdate(d) ==
    /\ At(d, "exec")
    /\ LET r == nfsd[d].r
           n == IF exec[r] < MaxExec THEN exec[r] + 1 ELSE MaxExec IN
       \/ nfsrv_updatecache(d, r, n) /\ exec' = [exec EXCEPT ![r] = n]
       \/ /\ rc' = Freed(d, rc) /\ Become(d, Idle, {})
          /\ UNCHANGED <<net, lru, chain, exec, forgot, twice, mixed, crashes>>

(* The procedure is carried out, or the request cannot be parsed.          *)
Execute(d) ==
    /\ At(d, "exec")
    /\ LET r == nfsd[d].r
           n == IF exec[r] < MaxExec THEN exec[r] + 1 ELSE MaxExec IN
       \/ nfsrv_updatecache(d, r, n) /\ exec' = [exec EXCEPT ![r] = n]
       \/ "garbled" \in Faults /\ nfsrv_updatecache(d, r, 0) /\ UNCHANGED exec

Update(d) == At(d, "update") /\ nfsrv_updatecache(d, nfsd[d].r, nfsd[d].val) /\ UNCHANGED exec

(* mutant: RC_REPMBUF is not set.                                          *)
Saved_NoFlag(d) ==
    /\ At(d, "save")
    /\ LET s    == nfsd[d].s
           made == [of |-> nfsd[d].r, val |-> nfsd[d].val] IN
       Answer(d, nfsd[d].r, made, [rc EXCEPT ![s] = unlocked(@)], Wakes(s))
    /\ UNCHANGED <<lru, chain, exec, forgot, twice, mixed, crashes>>

(* The copy to the entry is complete.                                      *)
Saved(d) ==
    /\ At(d, "save")
    /\ LET s    == nfsd[d].s
           made == [of |-> nfsd[d].r, val |-> nfsd[d].val] IN
       Answer(d, nfsd[d].r, made, [rc EXCEPT ![s] = [unlocked(@) EXCEPT !.reply = made]], Wakes(s))
    /\ UNCHANGED <<lru, chain, exec, forgot, twice, mixed, crashes>>

(* The server goes down and comes up again: nfsrv_initcache.               *)
Crash ==
    /\ "crash" \in Faults /\ crashes < MaxCrashes
    /\ crashes' = crashes + 1
    /\ nfsd' = [d \in Nfsds |-> Idle]
    /\ rc' = [s \in Slots |-> Unused] /\ lru' \in Orders /\ chain' = <<>>
    /\ forgot' = Reqs
    /\ UNCHANGED <<exec, net, twice, mixed>>

NfsdStep(d) == \/ Search(d) \/ TakeTail(d) \/ Copied(d)
               \/ Execute(d) \/ Update(d) \/ Saved(d)
ServerNext == \/ \E d \in Nfsds : NfsdStep(d) \/ \E m \in Calls : GetReq(d, m)
              \/ Crash

(* The server against any client and network: a request may come at any    *)
(* time, and come again, repeated by the one or the other.  What else is   *)
(* under way does not matter to the server, and is not kept.               *)
AnyClient == net' \in {{}} \cup {{Call(r)} : r \in Reqs}
openVars == <<net, kind, serverVars>>
OpenInit == NetInit /\ ServerInit
OpenNext ==
    /\ \/ \E d \in Nfsds, m \in Calls : GetReq(d, m)
       \/ net = {} /\ (Crash \/ \E d \in Nfsds : NfsdStep(d))
       \/ AnyClient /\ UNCHANGED serverVars
    /\ UNCHANGED kind
OpenSpec == OpenInit /\ [][OpenNext]_openVars

-----------------------------------------------------------------------------
Labels  == {"idle", "search", "tail", "copy", "exec", "update", "save"}
NfsdStates  == [pc : Labels, r : Reqs \cup {None}, s : Slots \cup {None},
                val : 0..MaxExec, wchan : Slots \cup {None}]
EntryStates == [req : Reqs \cup {None},
                state : {"RC_UNUSED", "RC_INPROG", "RC_DONE", "RC_INVALID"},
                reply : [of : Reqs, val : 1..MaxExec] \cup {None},
                locked : BOOLEAN, wanted : BOOLEAN, nam : Nfsds \cup {None}]
ServerTypeOK ==
    /\ nfsd \in [Nfsds -> NfsdStates] /\ rc \in [Slots -> EntryStates]
    /\ lru \in Seq(Slots) /\ Len(lru) = Cardinality(Slots) /\ \A s \in Slots : On(s, lru)
    /\ chain \in Seq(Slots) /\ \A s \in Slots : rc[s].state # "RC_UNUSED" <=> On(s, chain)
    /\ exec \in [Reqs -> 0..MaxExec] /\ forgot \subseteq Reqs
    /\ twice \subseteq Reqs /\ mixed \subseteq Reqs

(* The requests of which the cache should know all there is to know: their *)
(* entry has not been taken for another, lost with the server, hidden by a *)
(* reused mbuf, or mistaken for another host's.                            *)
Known == Reqs \ (forgot \cup twice \cup mixed)

(* A request that may not be repeated is carried out once, however often   *)
(* it comes, as long as the cache knows it.                                *)
OnceOnly == \A r \in Known : kind[r] # "idem" => exec[r] <= 1

(* As long as the cache knows a request, two nfsds do not work on it at a  *)
(* time; and an entry that says "in progress" is somebody's work:          *)
(* otherwise the request would be dropped whenever it comes.               *)
Working(r) == {d \in Nfsds : nfsd[d].r = r /\ nfsd[d].pc \in {"exec", "update", "save"}}
InProgress ==
    /\ \A r \in Known : Cardinality(Working(r)) <= 1
    /\ \A s \in Slots :
          rc[s].state = "RC_INPROG" /\ rc[s].req \in Known => Working(rc[s].req) # {}

(* Two nfsds do not work on a request that is not forgotten, even if it    *)
(* was given two entries: "if in progress, return DROP request".           *)
InProgressDropped == \A r \in Reqs \ forgot : Cardinality(Working(r)) <= 1

(* What a client is told about a request, or will be, came from that       *)
(* request, and has happened; unless a reused mbuf has made it pass for    *)
(* another host's.                                                         *)
ReplyRight ==
    /\ \A m \in Replies : m.xid \notin mixed => m.of = m.xid /\ m.val \in 1..exec[m.xid]
    /\ \A s \in Slots : rc[s].reply # None /\ rc[s].req \notin mixed =>
          rc[s].reply.of = rc[s].req /\ rc[s].reply.val \in 1..exec[rc[s].req]

(* A reply goes to the caller whose request it answers: nfs_netaddr_match  *)
(* tells hosts apart ("if there is any doubt, return FALSE").              *)
RepliesOwn == \A m \in Replies : m.of = m.xid

(* The entries, the list and the chain are well formed, and who sleeps for *)
(* an entry will be woken.                                                 *)
EntriesOK ==
    /\ ServerTypeOK
    /\ \A d \in Nfsds : LET s == nfsd[d].wchan IN s # None => rc[s].locked /\ rc[s].wanted
=============================================================================
