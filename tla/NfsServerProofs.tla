--------------------------- MODULE NfsServerProofs ---------------------------
(***************************************************************************)
(* Proofs about the NFS server (NfsServer), for any numbers of nfsds,      *)
(* requests and cache entries, with every fault.                           *)
(***************************************************************************)
EXTENDS NfsServer, FiniteSetTheorems, WellFoundedInduction, TLAPS

(* The datagrams under way are about requests; replies are right, but for  *)
(* those to requests that were taken for one another.                      *)
NetOK ==
    /\ kind \in [Reqs -> Kinds]
    /\ \A m \in net : m.xid \in Reqs
    /\ \A m \in Replies : m.xid \notin mixed => m.of = m.xid /\ m.val \in 1..exec[m.xid]

(* What an entry says of itself.                                           *)
EntryOK == \A s \in Slots :
    /\ rc[s].state = "RC_UNUSED" <=> rc[s].req = None
    /\ rc[s].state = "RC_INPROG" => ~rc[s].locked /\ rc[s].reply = None
    /\ rc[s].reply # None /\ rc[s].req \notin mixed =>
          rc[s].reply.of = rc[s].req /\ rc[s].reply.val \in 1..exec[rc[s].req]

(* The entry that an nfsd has in hand is its request's, or both have been  *)
(* taken for one another.                                                  *)
Owns(r, s) == rc[s].req = r \/ {r, rc[s].req} \subseteq mixed

(* What an nfsd has in hand.                                               *)
Copying(d) == nfsd[d].pc \in {"copy", "save"}
NfsdOK == \A d \in Nfsds :
    /\ nfsd[d].pc # "idle" => nfsd[d].r \in Reqs
    /\ nfsd[d].pc = "tail" => nfsd[d].s \in Slots
    /\ Copying(d) => /\ nfsd[d].s \in Slots /\ rc[nfsd[d].s].locked
                     /\ Owns(nfsd[d].r, nfsd[d].s)
    /\ nfsd[d].pc = "copy" => rc[nfsd[d].s].reply # None
    /\ nfsd[d].pc = "update" => nfsd[d].val \in 0..exec[nfsd[d].r]
    /\ nfsd[d].pc = "save" => nfsd[d].val \in 1..exec[nfsd[d].r]

(* RC_LOCKED is one nfsd's.                                                *)
OneCopies == \A d, e \in Nfsds :
    Copying(d) /\ Copying(e) /\ nfsd[d].s = nfsd[e].s => d = e

(* Who sleeps for an entry will be woken.                                  *)
SleepersOK == \A d \in Nfsds :
    nfsd[d].wchan # None => rc[nfsd[d].wchan].locked /\ rc[nfsd[d].wchan].wanted

(* A request that is known has at most one entry, and has one once it has  *)
(* been taken up.  Whoever works on it is alone, and is carrying it out,   *)
(* and the entry says so, or is saving its reply.                          *)
OneEntry(r) == \A s, t \in Slots : rc[s].req = r /\ rc[t].req = r => s = t
WorkOK(r) ==
    /\ \A d \in Working(r) :
          \/ nfsd[d].pc = "exec" /\ \E s \in Slots : rc[s].req = r /\ rc[s].state = "RC_INPROG"
          \/ nfsd[d].pc = "save"
    /\ \A d, e \in Working(r) : d = e
    /\ \A s \in Slots : rc[s].req = r /\ rc[s].state = "RC_INPROG" =>
          \E d \in Nfsds : nfsd[d].r = r /\ nfsd[d].pc = "exec"
CountOK(r) ==
    /\ exec[r] > 0 => \E s \in Slots : rc[s].req = r
    /\ kind[r] # "idem" =>
          /\ exec[r] <= 1
          /\ \A s \in Slots : rc[s].req = r /\ exec[r] > 0 =>
                rc[s].state = "RC_DONE" /\ (rc[s].reply # None \/ rc[s].locked)
KnownOK == \A r \in Known : OneEntry(r) /\ WorkOK(r) /\ CountOK(r)

ServerInv ==
    /\ ServerTypeOK /\ NetOK /\ EntryOK /\ NfsdOK /\ OneCopies /\ SleepersOK /\ KnownOK

-----------------------------------------------------------------------------
(* put_at_head and the hash chain: s comes to the front, and nothing else  *)
(* comes or goes.                                                          *)
LEMMA ToFrontOK ==
    ASSUME NEW q \in Seq(Slots), NEW s \in Slots
    PROVE  /\ ToFront(s, q) \in Seq(Slots)
           /\ On(s, q) => Len(ToFront(s, q)) = Len(q)
           /\ \A t \in Slots : On(t, ToFront(s, q)) <=> t = s \/ On(t, q)
  <1> DEFINE n == IF On(s, q) THEN Len(q) ELSE Len(q) + 1
             f == ToFront(s, q)
  <1>1. Len(q) \in Nat /\ n \in Nat /\ n >= 1 /\ DOMAIN q = 1..Len(q)
    BY DEF On
  <1>2. f = [j \in 1..n |-> IF j = 1 THEN s
                            ELSE IF \E i \in 1..(j - 1) : q[i] = s THEN q[j] ELSE q[j - 1]]
    BY DEF ToFront
  <1>3. ASSUME NEW j \in 1..n, j # 1 PROVE j - 1 \in 1..Len(q) /\ j - 1 \in DOMAIN q
    BY <1>1, <1>3
  <1>4. ASSUME NEW j \in 1..n, NEW i \in 1..(j - 1), q[i] = s PROVE j \in DOMAIN q
    <2>1. i \in DOMAIN q
      BY <1>1
    <2> QED
      BY <1>1, <1>4, <2>1 DEF On
  <1> HIDE DEF n, f
  <1>5. ASSUME NEW j \in 1..n PROVE f[j] \in Slots
    BY <1>1, <1>2, <1>3, <1>4
  <1>6. f \in Seq(Slots) /\ DOMAIN f = 1..n /\ Len(f) = n
    <2>1. f \in [1..n -> Slots]
      BY <1>2, <1>5
    <2> QED
      BY <1>1, <2>1
  <1>7. On(s, q) => Len(f) = Len(q)
    BY <1>6 DEF n
  <1>8. ASSUME NEW t \in Slots, On(t, f) PROVE t = s \/ On(t, q)
    <2>1. PICK j \in 1..n : f[j] = t
      BY <1>6, <1>8 DEF On
    <2>2. CASE j = 1
      BY <1>2, <2>1, <2>2
    <2>3. CASE j # 1 /\ \E i \in 1..(j - 1) : q[i] = s
      BY <1>2, <1>4, <2>1, <2>3 DEF On
    <2>4. CASE j # 1 /\ ~ \E i \in 1..(j - 1) : q[i] = s
      BY <1>2, <1>3, <2>1, <2>4 DEF On
    <2> QED
      BY <2>2, <2>3, <2>4
  <1>9. On(s, f)
    BY <1>1, <1>2, <1>6 DEF On
  <1>10. ASSUME NEW t \in Slots, t # s, On(t, q) PROVE On(t, f)
    <2>1. PICK k \in 1..Len(q) : q[k] = t
      BY <1>1, <1>10 DEF On
    <2>2. CASE \E i \in 1..(k - 1) : q[i] = s
      <3>1. k \in 1..n /\ k # 1
        BY <1>1, <2>2 DEF n
      <3>2. f[k] = t
        BY <1>2, <2>1, <2>2, <3>1
      <3> QED
        BY <1>6, <3>1, <3>2 DEF On
    <2>3. CASE ~ \E i \in 1..(k - 1) : q[i] = s
      <3>1. k + 1 \in 1..n
        <4>1. CASE On(s, q)
          <5>1. PICK i \in 1..Len(q) : q[i] = s
            BY <1>1, <4>1 DEF On
          <5>2. i # k /\ i \notin 1..(k - 1)
            BY <1>10, <2>1, <2>3, <5>1
          <5> QED
            BY <1>1, <4>1, <5>2 DEF n
        <4>2. CASE ~On(s, q)
          BY <1>1, <4>2 DEF n
        <4> QED
          BY <4>1, <4>2
      <3>2. ~ \E i \in 1..((k + 1) - 1) : q[i] = s
        BY <1>10, <2>1, <2>3
      <3>3. f[k + 1] = q[(k + 1) - 1] /\ (k + 1) - 1 = k
        BY <1>2, <3>1, <3>2
      <3> QED
        BY <1>6, <2>1, <3>1, <3>3 DEF On
    <2> QED
      BY <2>2, <2>3
  <1> QED
    BY <1>6, <1>7, <1>8, <1>9, <1>10 DEF f

(* A search that finds nothing has met no match.                           *)
LEMMA SearchMisses ==
    ASSUME NEW M, chain \in Seq(Slots), Find(M) = {}
    PROVE  Matches(M) = {}
  <1> SUFFICES ASSUME Matches(M) # {} PROVE FALSE
    OBVIOUS
  <1>1. Matches(M) \subseteq Nat
    BY DEF Matches
  <1>2. \E i \in Matches(M) : \A j \in Matches(M) : ~(<<j, i>> \in OpToRel(<, Nat))
    BY <1>1, WFMin, NatLessThanWellFounded
  <1>3. PICK i \in Matches(M) : \A j \in Matches(M) : ~(<<j, i>> \in OpToRel(<, Nat))
    BY <1>2
  <1>4. ASSUME NEW j \in Matches(M) PROVE i <= j
    <2>1. i \in Nat /\ j \in Nat
      BY <1>1
    <2>2. ~(j < i)
      BY <1>3, <2>1 DEF OpToRel
    <2> QED
      BY <2>1, <2>2
  <1> QED
    BY <1>3, <1>4 DEF Find

(* What it finds is an entry of the request, or of one that is alike.      *)
LEMMA SearchFinds ==
    ASSUME NEW r \in Reqs, NEW M \in Readings(r), ServerTypeOK, NEW s \in Find(M)
    PROVE  s \in Slots /\ rc[s].req \in Reqs /\ Alike(rc[s].req, r)
  <1>1. s \in Slots /\ s \in M
    BY DEF Find, Matches, ServerTypeOK
  <1>2. Alike(rc[s].req, r)
    BY <1>1 DEF Readings
  <1> QED
    BY <1>1, <1>2, NetAssumption DEF Alike

(* A request that is missed and not forgotten has no entry.                *)
LEMMA MissMeansNone ==
    ASSUME ServerTypeOK, EntryOK, NEW r \in Reqs, NEW M \in Readings(r),
           Find(M) = {}, r \notin Missed(r, M), NEW s \in Slots
    PROVE  rc[s].req # r
  <1> SUFFICES ASSUME rc[s].req = r PROVE FALSE
    OBVIOUS
  <1>1. s \in M
    BY DEF Missed
  <1>2. On(s, chain)
    BY NetAssumption DEF ServerTypeOK, EntryOK
  <1>3. \E i \in DOMAIN chain : i \in Matches(M)
    BY <1>1, <1>2 DEF On, Matches
  <1> QED
    BY <1>3, SearchMisses DEF ServerTypeOK

(* Become changes d; others may be woken, which is all.                    *)
LEMMA BecomeOK ==
    ASSUME ServerTypeOK, NEW d \in Nfsds, NEW now \in NfsdStates, NEW woken,
           Become(d, now, woken)
    PROVE  /\ nfsd' \in [Nfsds -> NfsdStates]
           /\ nfsd'[d] = now
           /\ \A e \in Nfsds \ {d} :
                 /\ nfsd'[e].pc = nfsd[e].pc /\ nfsd'[e].r = nfsd[e].r
                 /\ nfsd'[e].s = nfsd[e].s /\ nfsd'[e].val = nfsd[e].val
                 /\ nfsd'[e].wchan = IF nfsd[e].wchan \in woken THEN None ELSE nfsd[e].wchan
  <1>1. ASSUME NEW e \in Nfsds PROVE nfsd[e] \in NfsdStates
    BY DEF ServerTypeOK
  <1>2. ASSUME NEW e \in Nfsds
        PROVE  LET w == [nfsd[e] EXCEPT !.wchan = None] IN
               /\ w \in NfsdStates /\ w.pc = nfsd[e].pc /\ w.r = nfsd[e].r
               /\ w.s = nfsd[e].s /\ w.val = nfsd[e].val /\ w.wchan = None
    BY <1>1 DEF NfsdStates
  <1>3. nfsd' = [e \in Nfsds |->
            IF e = d THEN now
            ELSE IF nfsd[e].wchan \in woken THEN [nfsd[e] EXCEPT !.wchan = None] ELSE nfsd[e]]
    BY DEF Become
  <1>4. nfsd' \in [Nfsds -> NfsdStates]
    BY <1>1, <1>2, <1>3
  <1> QED
    BY <1>2, <1>3, <1>4

(* Freed touches only the addresses.                                       *)
LEMMA FreedOK ==
    ASSUME NEW d \in Nfsds, NEW entries \in [Slots -> EntryStates]
    PROVE  /\ Freed(d, entries) \in [Slots -> EntryStates]
           /\ \A s \in Slots :
                 LET f == Freed(d, entries)[s] IN
                 /\ f.req = entries[s].req /\ f.state = entries[s].state
                 /\ f.reply = entries[s].reply /\ f.locked = entries[s].locked
                 /\ f.wanted = entries[s].wanted
  <1>1. ASSUME NEW s \in Slots
        PROVE  LET e == [entries[s] EXCEPT !.nam = None] IN
               /\ e \in EntryStates /\ e.req = entries[s].req /\ e.state = entries[s].state
               /\ e.reply = entries[s].reply /\ e.locked = entries[s].locked
               /\ e.wanted = entries[s].wanted
    BY DEF EntryStates
  <1> QED
    BY <1>1 DEF Freed

(* An nfsd that has nothing to do.                                         *)
LEMMA IdleOK == Idle \in NfsdStates /\ Idle.pc = "idle" /\ Idle.wchan = None
  <1>1. 0 \in 0..MaxExec
    BY NetAssumption
  <1> QED
    BY <1>1 DEF Idle, NfsdStates, Labels

(* What an entry becomes.                                                  *)
LEMMA EntryWanted ==
    ASSUME NEW e \in EntryStates
    PROVE  [e EXCEPT !.wanted = TRUE] \in EntryStates
  BY DEF EntryStates

LEMMA EntryTaken ==
    ASSUME NEW r \in Reqs, NEW d \in Nfsds
    PROVE  LET f == [Unused EXCEPT !.req = r, !.state = "RC_INPROG", !.nam = d] IN
           /\ f \in EntryStates /\ f.req = r /\ f.state = "RC_INPROG" /\ f.reply = None
           /\ ~f.locked /\ ~f.wanted
  BY DEF Unused, EntryStates

LEMMA EntryRestarted ==
    ASSUME NEW e \in EntryStates, NEW st \in {"RC_INPROG", "RC_DONE", "RC_INVALID"}
    PROVE  LET f == [e EXCEPT !.state = st] IN
           /\ f \in EntryStates /\ f.req = e.req /\ f.state = st /\ f.reply = e.reply
           /\ f.locked = e.locked /\ f.wanted = e.wanted
  BY DEF EntryStates

LEMMA EntryLocked ==
    ASSUME NEW e \in EntryStates
    PROVE  /\ LET f == [e EXCEPT !.locked = TRUE] IN
              /\ f \in EntryStates /\ f.req = e.req /\ f.state = e.state
              /\ f.reply = e.reply /\ f.locked /\ f.wanted = e.wanted
           /\ LET f == [e EXCEPT !.locked = TRUE, !.state = "RC_DONE"] IN
              /\ f \in EntryStates /\ f.req = e.req /\ f.state = "RC_DONE"
              /\ f.reply = e.reply /\ f.locked /\ f.wanted = e.wanted
  BY DEF EntryStates

(* The counts and the sets of requests that are lost only grow.            *)
Grows ==
    /\ exec' \in [Reqs -> 0..MaxExec] /\ \A r \in Reqs : exec'[r] >= exec[r]
    /\ forgot \subseteq forgot' /\ forgot' \subseteq Reqs
    /\ twice \subseteq twice' /\ twice' \subseteq Reqs
    /\ mixed \subseteq mixed' /\ mixed' \subseteq Reqs
    /\ kind' = kind

(* A range of executions only grows.                                       *)
LEMMA CountsGrow ==
    ASSUME ServerTypeOK, Grows, NEW r \in Reqs
    PROVE  /\ r \in Known' => r \in Known
           /\ \A val \in 0..exec[r] : val \in 0..exec'[r]
           /\ \A val \in 1..exec[r] : val \in 1..exec'[r]
           /\ exec[r] \in 0..MaxExec /\ exec'[r] \in 0..MaxExec
  BY DEF ServerTypeOK, Grows, Known

(* A step that leaves the entries as they were, and starts no work.        *)
LEMMA KnownKept ==
    ASSUME ServerInv, Grows,
           \A t \in Slots :
              /\ rc'[t].req = rc[t].req /\ rc'[t].state = rc[t].state
              /\ rc[t].reply # None \/ rc[t].locked => rc'[t].reply # None \/ rc'[t].locked,
           \A q \in Known' :
              /\ exec'[q] = exec[q]
              /\ \A e \in Nfsds :
                    /\ e \in Working(q)' => e \in Working(q) /\ nfsd'[e].pc = nfsd[e].pc
                    /\ nfsd[e].r = q /\ nfsd[e].pc = "exec" =>
                          nfsd'[e].r = q /\ nfsd'[e].pc = "exec"
    PROVE  KnownOK'
  <1> SUFFICES ASSUME NEW q \in Known' PROVE (OneEntry(q) /\ WorkOK(q) /\ CountOK(q))'
    BY DEF KnownOK
  <1>0. q \in Known /\ q \in Reqs
    BY CountsGrow DEF ServerInv, Known
  <1>1. OneEntry(q) /\ WorkOK(q) /\ CountOK(q)
    BY <1>0 DEF ServerInv, KnownOK
  <1>2. OneEntry(q)'
    BY <1>1 DEF OneEntry
  <1>3. WorkOK(q)'
    <2>1. \A e \in Working(q)' : e \in Nfsds
      BY DEF Working
    <2> QED
      BY <1>1, <2>1 DEF WorkOK
  <1>4. CountOK(q)'
    BY <1>1 DEF CountOK, Grows
  <1> QED
    BY <1>2, <1>3, <1>4

(* Replies stay right while the counts grow.                               *)
LEMMA NetKept ==
    ASSUME ServerInv, Grows, net' \subseteq net
    PROVE  NetOK'
  <1>1. ASSUME NEW m \in Replies' PROVE m \in Replies /\ m.xid \in Reqs
    BY DEF Replies, ServerInv, NetOK
  <1>2. ASSUME NEW m \in Replies', m.xid \notin mixed'
        PROVE  m.of = m.xid /\ m.val \in 1..exec'[m.xid]
    BY <1>1, <1>2, CountsGrow DEF ServerInv, NetOK, Grows
  <1> QED
    BY <1>2 DEF ServerInv, NetOK, Grows

LEMMA NetReplies ==
    ASSUME ServerInv, Grows, NEW r \in Reqs, NEW contents, Send(Reply(r, contents)),
           r \notin mixed' => contents.of = r /\ contents.val \in 1..exec'[r]
    PROVE  NetOK'
  <1> DEFINE new == Reply(r, contents)
  <1>0. new.xid = r /\ (r \notin mixed' => new.of = r /\ new.val \in 1..exec'[r])
    BY DEF Reply
  <1>1. net' = net \cup {new}
    BY DEF Send
  <1> HIDE DEF new
  <1>2. ASSUME NEW m \in Replies' PROVE (m \in Replies /\ m.xid \in Reqs) \/ m = new
    BY <1>1 DEF Replies, ServerInv, NetOK
  <1>3. ASSUME NEW m \in Replies', m.xid \notin mixed'
        PROVE  m.of = m.xid /\ m.val \in 1..exec'[m.xid]
    <2>1. CASE m = new
      BY <1>0, <1>3, <2>1
    <2>2. CASE m \in Replies /\ m.xid \in Reqs
      BY <1>3, <2>2, CountsGrow DEF ServerInv, NetOK, Grows
    <2> QED
      BY <1>2, <2>1, <2>2
  <1>4. \A m \in net' : m.xid \in Reqs
    BY <1>0, <1>1 DEF ServerInv, NetOK
  <1> QED
    BY <1>3, <1>4 DEF ServerInv, NetOK, Grows

(* An nfsd finds an entry locked and sleeps for it.                        *)
LEMMA WaitInv ==
    ASSUME ServerInv, Grows,
           NEW d \in Nfsds, NEW s \in Slots, NEW r \in Reqs, NEW val \in 0..MaxExec,
           NEW label \in {"search", "tail", "update"},
           rc[s].locked, WaitFor(d, s, r, label, val),
           \/ nfsd[d].pc \in {"idle", "search", "tail"}
           \/ nfsd[d].pc \in {"exec", "update"} /\ nfsd[d].r \notin Known',
           label = "update" => val \in 0..exec'[r] /\ r \notin Known',
           \A q \in Known' : exec'[q] = exec[q],
           net' \subseteq net, UNCHANGED <<lru, chain>>
    PROVE  ServerInv'
  <1> USE ServerAssumption, NetAssumption DEF ServerInv
  <1> DEFINE now == [Idle EXCEPT !.pc = label, !.r = r, !.s = s, !.val = val, !.wchan = s]
  <1>1. /\ now \in NfsdStates /\ now.pc = label /\ now.r = r /\ now.s = s
        /\ now.val = val /\ now.wchan = s
    <2>1. label \in Labels
      BY DEF Labels
    <2>2. Idle \in NfsdStates
      BY IdleOK
    <2> QED
      BY <2>1, <2>2 DEF Idle, NfsdStates
  <1>2. rc' = [rc EXCEPT ![s].wanted = TRUE] /\ Become(d, now, {})
    BY DEF WaitFor
  <1> HIDE DEF now
  <1>3. /\ nfsd' \in [Nfsds -> NfsdStates] /\ nfsd'[d] = now
        /\ \A e \in Nfsds \ {d} :
              /\ nfsd'[e].pc = nfsd[e].pc /\ nfsd'[e].r = nfsd[e].r
              /\ nfsd'[e].s = nfsd[e].s /\ nfsd'[e].val = nfsd[e].val
              /\ nfsd'[e].wchan = nfsd[e].wchan
    BY <1>1, <1>2, BecomeOK
  <1>4. \A t \in Slots : rc[t] \in EntryStates
    BY DEF ServerTypeOK
  <1>5. rc' \in [Slots -> EntryStates]
    BY <1>2, <1>4, EntryWanted DEF ServerTypeOK
  <1>6. \A t \in Slots :
           /\ rc'[t].req = rc[t].req /\ rc'[t].state = rc[t].state
           /\ rc'[t].reply = rc[t].reply /\ rc'[t].locked = rc[t].locked
           /\ rc[t].wanted => rc'[t].wanted
    BY <1>2, <1>4 DEF ServerTypeOK, EntryStates
  <1>7. rc'[s].wanted
    BY <1>2, <1>4 DEF ServerTypeOK, EntryStates
  <1>8. ServerTypeOK'
    BY <1>3, <1>5, <1>6, ZenonT(30) DEF ServerTypeOK, Grows
  <1>9. NetOK'
    BY NetKept
  <1>10. EntryOK'
    <2> SUFFICES ASSUME NEW t \in Slots PROVE EntryOK!(t)'
      BY DEF EntryOK
    <2>1. rc[t].reply # None => rc[t].req \in Reqs
      BY <1>4 DEF EntryOK, EntryStates, ServerTypeOK
    <2> QED
      BY <1>6, <2>1, CountsGrow DEF EntryOK, Grows
  <1>11. NfsdOK'
    <2> SUFFICES ASSUME NEW e \in Nfsds PROVE NfsdOK!(e)'
      BY DEF NfsdOK
    <2>1. CASE e = d
      BY <1>1, <1>3, <2>1 DEF Copying
    <2>2. CASE e # d
      BY <1>3, <1>6, <2>2, CountsGrow DEF NfsdOK, Copying, Owns, Grows
    <2> QED
      BY <2>1, <2>2
  <1>12. OneCopies'
    BY <1>1, <1>3 DEF OneCopies, Copying
  <1>13. SleepersOK'
    <2>1. \A e \in Nfsds : nfsd[e].wchan \in Slots \cup {None}
      BY DEF ServerTypeOK, NfsdStates
    <2> QED
      BY <1>1, <1>3, <1>6, <1>7, <2>1 DEF SleepersOK
  <1>14. KnownOK'
    <2>1. ASSUME NEW q \in Known', NEW e \in Nfsds
          PROVE  /\ e \in Working(q)' => e \in Working(q) /\ nfsd'[e].pc = nfsd[e].pc
                 /\ nfsd[e].r = q /\ nfsd[e].pc = "exec" =>
                       nfsd'[e].r = q /\ nfsd'[e].pc = "exec"
      <3>1. CASE e = d
        BY <1>1, <1>3, <3>1 DEF Working
      <3>2. CASE e # d
        BY <1>3, <3>2 DEF Working
      <3> QED
        BY <3>1, <3>2
    <2> QED
      BY <1>6, <2>1, KnownKept
  <1> QED
    BY <1>8, <1>9, <1>10, <1>11, <1>12, <1>13, <1>14

(* A miss takes an entry: the request it held is forgotten.                *)
LEMMA TakeInv ==
    ASSUME ServerInv, Grows,
           NEW d \in Nfsds, NEW s \in Slots, NEW r \in Reqs,
           ~rc[s].locked, Take(d, r, s), nfsd[d].pc \in {"idle", "search", "tail"},
           rc[s].req \notin Known',
           r \in Known' => \A t \in Slots : rc[t].req # r,
           exec' = exec, net' \subseteq net
    PROVE  ServerInv'
  <1> USE ServerAssumption, NetAssumption DEF ServerInv
  <1> DEFINE now == [Idle EXCEPT !.pc = "exec", !.r = r]
             f   == [Unused EXCEPT !.req = r, !.state = "RC_INPROG", !.nam = d]
  <1>1. now \in NfsdStates /\ now.pc = "exec" /\ now.r = r /\ now.wchan = None
    <2>1. 0 \in 0..MaxExec
      OBVIOUS
    <2> QED
      BY <2>1 DEF Idle, NfsdStates, Labels
  <1>2. /\ f \in EntryStates /\ f.req = r /\ f.state = "RC_INPROG" /\ f.reply = None
        /\ ~f.locked /\ ~f.wanted
    BY EntryTaken
  <1>3. /\ rc' = [rc EXCEPT ![s] = f] /\ Become(d, now, {})
        /\ lru' = ToFront(s, lru) /\ chain' = ToFront(s, chain)
    BY DEF Take, put_at_head
  <1> HIDE DEF now, f
  <1>4. /\ nfsd' \in [Nfsds -> NfsdStates] /\ nfsd'[d] = now
        /\ \A e \in Nfsds \ {d} :
              /\ nfsd'[e].pc = nfsd[e].pc /\ nfsd'[e].r = nfsd[e].r
              /\ nfsd'[e].s = nfsd[e].s /\ nfsd'[e].val = nfsd[e].val
              /\ nfsd'[e].wchan = nfsd[e].wchan
    BY <1>1, <1>3, BecomeOK
  <1>5. /\ rc' \in [Slots -> EntryStates] /\ rc'[s] = f
        /\ \A t \in Slots \ {s} : rc'[t] = rc[t]
    BY <1>2, <1>3 DEF ServerTypeOK
  <1>6. ServerTypeOK'
    <2>1. /\ lru' \in Seq(Slots) /\ Len(lru') = Len(lru)
          /\ \A t \in Slots : On(t, lru') <=> t = s \/ On(t, lru)
      BY <1>3, ToFrontOK DEF ServerTypeOK
    <2>2. /\ chain' \in Seq(Slots)
          /\ \A t \in Slots : On(t, chain') <=> t = s \/ On(t, chain)
      BY <1>3, ToFrontOK DEF ServerTypeOK
    <2>3. \A t \in Slots : rc'[t].state # "RC_UNUSED" <=> On(t, chain')
      BY <1>2, <1>5, <2>2 DEF ServerTypeOK
    <2> QED
      BY <1>4, <1>5, <2>1, <2>2, <2>3 DEF ServerTypeOK, Grows
  <1>7. NetOK'
    BY NetKept
  <1>8. EntryOK'
    <2> SUFFICES ASSUME NEW t \in Slots PROVE EntryOK!(t)'
      BY DEF EntryOK
    <2>1. CASE t = s
      BY <1>2, <1>5, <2>1
    <2>2. CASE t # s
      BY <1>5, <2>2 DEF EntryOK, Grows
    <2> QED
      BY <2>1, <2>2
  <1>9. NfsdOK'
    <2> SUFFICES ASSUME NEW e \in Nfsds PROVE NfsdOK!(e)'
      BY DEF NfsdOK
    <2>1. CASE e = d
      BY <1>1, <1>4, <2>1 DEF Copying
    <2>2. CASE e # d
      <3>1. Copying(e) => nfsd[e].s \in Slots \ {s}
        BY DEF NfsdOK
      <3> QED
        BY <1>4, <1>5, <2>2, <3>1 DEF NfsdOK, Copying, Owns, Grows
    <2> QED
      BY <2>1, <2>2
  <1>10. OneCopies'
    BY <1>1, <1>4 DEF OneCopies, Copying
  <1>11. SleepersOK'
    <2> SUFFICES ASSUME NEW e \in Nfsds, nfsd'[e].wchan # None PROVE SleepersOK!(e)'
      BY DEF SleepersOK
    <2>1. e # d /\ nfsd'[e].wchan = nfsd[e].wchan
      BY <1>1, <1>4
    <2>2. nfsd[e].wchan \in Slots \ {s}
      BY <2>1 DEF SleepersOK, ServerTypeOK, NfsdStates
    <2> QED
      BY <1>5, <2>1, <2>2 DEF SleepersOK
  <1>12. KnownOK'
    <2> SUFFICES ASSUME NEW q \in Known' PROVE (OneEntry(q) /\ WorkOK(q) /\ CountOK(q))'
      BY DEF KnownOK
    <2>0. q \in Known /\ q \in Reqs
      BY CountsGrow DEF Known
    <2>1. OneEntry(q) /\ WorkOK(q) /\ CountOK(q)
      BY <2>0 DEF KnownOK
    <2>2. CASE q = r
      <3>1. \A t \in Slots : rc[t].req # q
        BY <2>2
      <3>2. Working(q) = {}
        BY <2>0, <2>1, <3>1 DEF WorkOK, Working, NfsdOK, Copying, Owns, Known
      <3>3. Working(q)' = {d}
        BY <1>1, <1>4, <2>2, <3>2 DEF Working
      <3>4. \A t \in Slots : rc'[t].req = q <=> t = s
        BY <1>2, <1>5, <2>2, <3>1
      <3>5. OneEntry(q)'
        BY <3>4 DEF OneEntry
      <3>6. WorkOK(q)'
        BY <1>1, <1>2, <1>4, <1>5, <2>2, <3>3, <3>4 DEF WorkOK
      <3>7. CountOK(q)'
        <4>1. exec[q] \in Nat /\ ~(exec[q] > 0)
          BY <2>0, <2>1, <3>1 DEF CountOK, ServerTypeOK
        <4>2. exec[q] = 0 /\ exec'[q] = 0
          BY <4>1
        <4> QED
          BY <4>2 DEF CountOK
      <3> QED
        BY <3>5, <3>6, <3>7
    <2>3. CASE q # r
      <3>1. \A t \in Slots : rc'[t].req = q <=> rc[t].req = q
        BY <1>2, <1>5, <2>3
      <3>2. \A t \in Slots : rc[t].req = q => rc'[t] = rc[t]
        BY <1>5
      <3>3. Working(q)' = Working(q) /\ \A e \in Working(q) : nfsd'[e].pc = nfsd[e].pc
        BY <1>1, <1>4, <2>3 DEF Working
      <3>4. OneEntry(q)'
        BY <2>1, <3>1 DEF OneEntry
      <3>5. WorkOK(q)'
        <4>1. \A e \in Nfsds : nfsd[e].r = q /\ nfsd[e].pc = "exec" =>
                                  nfsd'[e].r = q /\ nfsd'[e].pc = "exec"
          BY <1>4
        <4> QED
          BY <2>1, <3>1, <3>2, <3>3, <4>1 DEF WorkOK
      <3>6. CountOK(q)'
        BY <2>1, <3>1, <3>2 DEF CountOK, Grows
      <3> QED
        BY <3>4, <3>5, <3>6
    <2> QED
      BY <2>2, <2>3
  <1> QED
    BY <1>6, <1>7, <1>8, <1>9, <1>10, <1>11, <1>12

(* The request is being worked on, and what has come is dropped.           *)
LEMMA DropInv ==
    ASSUME ServerInv, Grows, NEW d \in Nfsds, NEW s \in Slots,
           put_at_head(s), Become(d, Idle, {}), nfsd[d].pc \in {"idle", "search"},
           net' \subseteq net, UNCHANGED <<rc, chain, exec>>
    PROVE  ServerInv'
  <1> USE ServerAssumption, NetAssumption DEF ServerInv
  <1>1. Idle \in NfsdStates /\ Idle.pc = "idle" /\ Idle.wchan = None
    BY IdleOK
  <1>2. /\ nfsd' \in [Nfsds -> NfsdStates] /\ nfsd'[d] = Idle
        /\ \A e \in Nfsds \ {d} :
              /\ nfsd'[e].pc = nfsd[e].pc /\ nfsd'[e].r = nfsd[e].r
              /\ nfsd'[e].s = nfsd[e].s /\ nfsd'[e].val = nfsd[e].val
              /\ nfsd'[e].wchan = nfsd[e].wchan
    BY <1>1, BecomeOK
  <1>3. ServerTypeOK'
    <2>1. /\ lru' \in Seq(Slots) /\ Len(lru') = Len(lru)
          /\ \A t \in Slots : On(t, lru') <=> t = s \/ On(t, lru)
      BY ToFrontOK DEF ServerTypeOK, put_at_head
    <2> QED
      BY <1>2, <2>1 DEF ServerTypeOK, Grows
  <1>4. NetOK'
    BY NetKept
  <1>5. EntryOK'
    BY DEF EntryOK, Grows
  <1>6. NfsdOK'
    BY <1>1, <1>2 DEF NfsdOK, Copying, Owns, Grows
  <1>7. OneCopies'
    BY <1>1, <1>2 DEF OneCopies, Copying
  <1>8. SleepersOK'
    BY <1>1, <1>2 DEF SleepersOK
  <1>9. KnownOK'
    <2>1. ASSUME NEW q \in Known', NEW e \in Nfsds
          PROVE  /\ e \in Working(q)' => e \in Working(q) /\ nfsd'[e].pc = nfsd[e].pc
                 /\ nfsd[e].r = q /\ nfsd[e].pc = "exec" =>
                       nfsd'[e].r = q /\ nfsd'[e].pc = "exec"
      BY <1>1, <1>2 DEF Working
    <2> QED
      BY <2>1, KnownKept
  <1> QED
    BY <1>3, <1>4, <1>5, <1>6, <1>7, <1>8, <1>9

(* There is a reply: its copy begins, and the entry is locked.             *)
LEMMA CopyInv ==
    ASSUME ServerInv, Grows, NEW d \in Nfsds, NEW s \in Slots, NEW r \in Reqs,
           rc[s].req = r \/ {r, rc[s].req} \subseteq mixed',
           ~rc[s].locked, rc[s].state # "RC_INPROG", rc[s].reply # None,
           put_at_head(s), rc' = [rc EXCEPT ![s].locked = TRUE],
           Become(d, [Idle EXCEPT !.pc = "copy", !.r = r, !.s = s], {}),
           nfsd[d].pc \in {"idle", "search"},
           net' \subseteq net, UNCHANGED <<chain, exec>>
    PROVE  ServerInv'
  <1> USE ServerAssumption, NetAssumption DEF ServerInv
  <1> DEFINE now == [Idle EXCEPT !.pc = "copy", !.r = r, !.s = s]
  <1>1. now \in NfsdStates /\ now.pc = "copy" /\ now.r = r /\ now.s = s /\ now.wchan = None
    <2>1. 0 \in 0..MaxExec
      OBVIOUS
    <2> QED
      BY <2>1 DEF Idle, NfsdStates, Labels
  <1>2. Become(d, now, {})
    OBVIOUS
  <1> HIDE DEF now
  <1>3. /\ nfsd' \in [Nfsds -> NfsdStates] /\ nfsd'[d] = now
        /\ \A e \in Nfsds \ {d} :
              /\ nfsd'[e].pc = nfsd[e].pc /\ nfsd'[e].r = nfsd[e].r
              /\ nfsd'[e].s = nfsd[e].s /\ nfsd'[e].val = nfsd[e].val
              /\ nfsd'[e].wchan = nfsd[e].wchan
    BY <1>1, <1>2, BecomeOK
  <1>4. \A t \in Slots : rc[t] \in EntryStates
    BY DEF ServerTypeOK
  <1>5. rc' \in [Slots -> EntryStates]
    BY <1>4, EntryLocked DEF ServerTypeOK
  <1>6. \A t \in Slots :
           /\ rc'[t].req = rc[t].req /\ rc'[t].state = rc[t].state
           /\ rc'[t].reply = rc[t].reply /\ rc'[t].wanted = rc[t].wanted
           /\ rc'[t].locked = IF t = s THEN TRUE ELSE rc[t].locked
    BY <1>4 DEF ServerTypeOK, EntryStates
  <1>7. ServerTypeOK'
    <2>1. /\ lru' \in Seq(Slots) /\ Len(lru') = Len(lru)
          /\ \A t \in Slots : On(t, lru') <=> t = s \/ On(t, lru)
      BY ToFrontOK DEF ServerTypeOK, put_at_head
    <2> QED
      BY <1>3, <1>5, <1>6, <2>1 DEF ServerTypeOK, Grows
  <1>8. NetOK'
    BY NetKept
  <1>9. EntryOK'
    BY <1>6 DEF EntryOK, Grows
  <1>10. NfsdOK'
    <2> SUFFICES ASSUME NEW e \in Nfsds PROVE NfsdOK!(e)'
      BY DEF NfsdOK
    <2>1. CASE e = d
      <3>1. rc'[s].locked /\ rc'[s].reply # None
        BY <1>6
      <3>2. rc'[s].req = r \/ {r, rc'[s].req} \subseteq mixed'
        BY <1>6
      <3> QED
        BY <1>1, <1>3, <2>1, <3>1, <3>2 DEF Copying, Owns
    <2>2. CASE e # d
      BY <1>3, <1>6, <2>2 DEF NfsdOK, Copying, Owns, Grows
    <2> QED
      BY <2>1, <2>2
  <1>11. OneCopies'
    <2>1. \A e \in Nfsds : Copying(e) => nfsd[e].s # s
      BY DEF NfsdOK
    <2> QED
      BY <1>1, <1>3, <2>1 DEF OneCopies, Copying
  <1>12. SleepersOK'
    <2>1. \A e \in Nfsds : nfsd[e].wchan \in Slots \cup {None}
      BY DEF ServerTypeOK, NfsdStates
    <2> QED
      BY <1>1, <1>3, <1>6, <2>1 DEF SleepersOK
  <1>13. KnownOK'
    <2>1. ASSUME NEW q \in Known', NEW e \in Nfsds
          PROVE  /\ e \in Working(q)' => e \in Working(q) /\ nfsd'[e].pc = nfsd[e].pc
                 /\ nfsd[e].r = q /\ nfsd[e].pc = "exec" =>
                       nfsd'[e].r = q /\ nfsd'[e].pc = "exec"
      BY <1>1, <1>3 DEF Working
    <2> QED
      BY <1>6, <2>1, KnownKept
  <1> QED
    BY <1>7, <1>8, <1>9, <1>10, <1>11, <1>12, <1>13

(* The entry has no reply: the request is carried out again.               *)
LEMMA DoitInv ==
    ASSUME ServerInv, Grows, NEW d \in Nfsds, NEW s \in Slots, NEW r \in Reqs,
           rc[s].req = r \/ {r, rc[s].req} \subseteq mixed', rc[s].req \in Reqs,
           ~rc[s].locked, rc[s].state # "RC_INPROG", rc[s].reply = None,
           put_at_head(s), rc' = [rc EXCEPT ![s].state = "RC_INPROG"],
           Become(d, [Idle EXCEPT !.pc = "exec", !.r = r], {}),
           nfsd[d].pc \in {"idle", "search"},
           net' \subseteq net, UNCHANGED <<chain, exec>>
    PROVE  ServerInv'
  <1> USE ServerAssumption, NetAssumption DEF ServerInv
  <1> DEFINE now == [Idle EXCEPT !.pc = "exec", !.r = r]
  <1>1. now \in NfsdStates /\ now.pc = "exec" /\ now.r = r /\ now.wchan = None
    <2>1. 0 \in 0..MaxExec
      OBVIOUS
    <2> QED
      BY <2>1 DEF Idle, NfsdStates, Labels
  <1>2. Become(d, now, {})
    OBVIOUS
  <1> HIDE DEF now
  <1>3. /\ nfsd' \in [Nfsds -> NfsdStates] /\ nfsd'[d] = now
        /\ \A e \in Nfsds \ {d} :
              /\ nfsd'[e].pc = nfsd[e].pc /\ nfsd'[e].r = nfsd[e].r
              /\ nfsd'[e].s = nfsd[e].s /\ nfsd'[e].val = nfsd[e].val
              /\ nfsd'[e].wchan = nfsd[e].wchan
    BY <1>1, <1>2, BecomeOK
  <1>4. \A t \in Slots : rc[t] \in EntryStates
    BY DEF ServerTypeOK
  <1>5. rc' \in [Slots -> EntryStates]
    BY <1>4, EntryRestarted DEF ServerTypeOK
  <1>6. \A t \in Slots :
           /\ rc'[t].req = rc[t].req /\ rc'[t].locked = rc[t].locked
           /\ rc'[t].reply = rc[t].reply /\ rc'[t].wanted = rc[t].wanted
           /\ rc'[t].state = IF t = s THEN "RC_INPROG" ELSE rc[t].state
    BY <1>4 DEF ServerTypeOK, EntryStates
  <1>7. ServerTypeOK'
    <2>1. /\ lru' \in Seq(Slots) /\ Len(lru') = Len(lru)
          /\ \A t \in Slots : On(t, lru') <=> t = s \/ On(t, lru)
      BY ToFrontOK DEF ServerTypeOK, put_at_head
    <2>2. rc[s].state # "RC_UNUSED"
      BY DEF EntryOK
    <2> QED
      BY <1>3, <1>5, <1>6, <2>1, <2>2 DEF ServerTypeOK, Grows
  <1>8. NetOK'
    BY NetKept
  <1>9. EntryOK'
    BY <1>6 DEF EntryOK, Grows
  <1>10. NfsdOK'
    <2> SUFFICES ASSUME NEW e \in Nfsds PROVE NfsdOK!(e)'
      BY DEF NfsdOK
    <2>1. CASE e = d
      BY <1>1, <1>3, <2>1 DEF Copying
    <2>2. CASE e # d
      BY <1>3, <1>6, <2>2 DEF NfsdOK, Copying, Owns, Grows
    <2> QED
      BY <2>1, <2>2
  <1>11. OneCopies'
    BY <1>1, <1>3 DEF OneCopies, Copying
  <1>12. SleepersOK'
    <2>1. \A e \in Nfsds : nfsd[e].wchan \in Slots \cup {None}
      BY DEF ServerTypeOK, NfsdStates
    <2> QED
      BY <1>1, <1>3, <1>6, <2>1 DEF SleepersOK
  <1>13. KnownOK'
    <2> SUFFICES ASSUME NEW q \in Known' PROVE (OneEntry(q) /\ WorkOK(q) /\ CountOK(q))'
      BY DEF KnownOK
    <2>0. q \in Known /\ q \in Reqs
      BY CountsGrow DEF Known
    <2>1. OneEntry(q) /\ WorkOK(q) /\ CountOK(q)
      BY <2>0 DEF KnownOK
    <2>2. OneEntry(q)'
      BY <1>6, <2>1 DEF OneEntry
    <2>3. CASE q = r
      <3>0. rc[s].req = q /\ q \notin mixed
        BY <2>0, <2>3 DEF Known
      <3>1. Working(q) = {}
        <4> SUFFICES ASSUME NEW e \in Working(q) PROVE FALSE
          OBVIOUS
        <4>1. CASE nfsd[e].pc = "save"
          <5>1. /\ e \in Nfsds /\ nfsd[e].s \in Slots /\ rc[nfsd[e].s].locked
                /\ rc[nfsd[e].s].req = r
            BY <2>3, <3>0, <4>1 DEF NfsdOK, Copying, Working, Owns
          <5> QED
            BY <2>1, <2>3, <3>0, <5>1 DEF OneEntry
        <4>2. CASE nfsd[e].pc # "save"
          BY <2>1, <2>3, <3>0, <4>2 DEF WorkOK, OneEntry
        <4> QED
          BY <4>1, <4>2
      <3>2. Working(q)' = {d}
        BY <1>1, <1>3, <2>3, <3>1 DEF Working
      <3>3. WorkOK(q)'
        BY <1>1, <1>3, <1>6, <2>3, <3>0, <3>2 DEF WorkOK
      <3>4. CountOK(q)'
        <4>1. exec'[q] = exec[q] /\ kind' = kind
          BY DEF Grows
        <4>2. kind[q] # "idem" => ~(exec[q] > 0)
          BY <2>1, <3>0 DEF CountOK
        <4> QED
          BY <1>6, <2>1, <4>1, <4>2 DEF CountOK
      <3> QED
        BY <2>2, <3>3, <3>4
    <2>4. CASE q # r
      <3>0. rc[s].req # q
        BY <2>4 DEF Known
      <3>1. \A t \in Slots : rc[t].req = q => rc'[t].state = rc[t].state
        BY <1>6, <3>0
      <3>2. Working(q)' = Working(q) /\ \A e \in Working(q) : nfsd'[e].pc = nfsd[e].pc
        BY <1>1, <1>3, <2>4 DEF Working
      <3>3. WorkOK(q)'
        <4>1. \A e \in Nfsds : nfsd[e].r = q /\ nfsd[e].pc = "exec" =>
                                  nfsd'[e].r = q /\ nfsd'[e].pc = "exec"
          BY <1>3
        <4> QED
          BY <1>6, <2>1, <3>1, <3>2, <4>1 DEF WorkOK
      <3>4. CountOK(q)'
        BY <1>6, <2>1, <3>1 DEF CountOK, Grows
      <3> QED
        BY <2>2, <3>3, <3>4
    <2> QED
      BY <2>3, <2>4
  <1> QED
    BY <1>7, <1>8, <1>9, <1>10, <1>11, <1>12, <1>13

(* nfsrv_getcache, up to its next sleep.                                   *)
LEMMA GetcacheInv ==
    ASSUME ServerInv, NEW d \in Nfsds, NEW r \in Reqs, nfsrv_getcache(d, r),
           nfsd[d].pc \in {"idle", "search"}, net' \subseteq net, kind' = kind
    PROVE  ServerInv'
  <1> USE ServerAssumption, NetAssumption DEF ServerInv
  <1>1. PICK M \in Readings(r) :
           IF Find(M) # {}
           THEN /\ \E s \in Find(M) : Hit(d, r, s) /\ mixed' = mixed \cup Mixed(r, s)
                /\ UNCHANGED chain /\ forgot' = forgot \cup Missed(r, M)
           ELSE /\ UNCHANGED mixed
                /\ LET tail == lru[Len(lru)] IN
                   IF rc[tail].locked
                   THEN /\ WaitFor(d, tail, r, "tail", 0)
                        /\ UNCHANGED <<lru, chain>> /\ forgot' = forgot \cup Missed(r, M)
                   ELSE Take(d, r, tail) /\ forgot' = forgot \cup Missed(r, M) \cup Victim(tail)
    BY DEF nfsrv_getcache
  <1>2. exec' = exec /\ twice' = twice
    BY DEF nfsrv_getcache
  <1>3. Missed(r, M) \subseteq Reqs /\ 0 \in 0..MaxExec
    BY DEF Missed
  <1>4. ASSUME forgot \subseteq forgot', forgot' \subseteq Reqs,
               mixed \subseteq mixed', mixed' \subseteq Reqs PROVE Grows
    BY <1>2, <1>4 DEF Grows, ServerTypeOK
  <1>5. CASE Find(M) # {}
    <2>1. PICK s \in Find(M) : Hit(d, r, s) /\ mixed' = mixed \cup Mixed(r, s)
      BY <1>1, <1>5
    <2>2. /\ s \in Slots /\ rc[s].req \in Reqs
          /\ rc[s].req = r \/ {r, rc[s].req} \subseteq mixed'
      BY <2>1, SearchFinds DEF Mixed
    <2>3. chain' = chain /\ forgot' = forgot \cup Missed(r, M)
      BY <1>1, <1>5
    <2>4. Grows
      BY <1>3, <1>4, <2>1, <2>2, <2>3 DEF ServerTypeOK, Mixed
    <2>5. CASE rc[s].locked
      <3>1. WaitFor(d, s, r, "search", 0) /\ UNCHANGED lru
        BY <2>1, <2>5 DEF Hit
      <3> QED
        BY <1>2, <1>3, <2>2, <2>3, <2>4, <2>5, <3>1, WaitInv
    <2>6. CASE ~rc[s].locked /\ rc[s].state = "RC_INPROG"
      <3>1. put_at_head(s) /\ Become(d, Idle, {}) /\ UNCHANGED rc
        BY <2>1, <2>6 DEF Hit
      <3> QED
        BY <1>2, <2>2, <2>3, <2>4, <3>1, DropInv
    <2>7. CASE ~rc[s].locked /\ rc[s].state # "RC_INPROG" /\ rc[s].reply # None
      <3>1. /\ put_at_head(s)
            /\ rc' = [rc EXCEPT ![s].locked = TRUE]
            /\ Become(d, [Idle EXCEPT !.pc = "copy", !.r = r, !.s = s], {})
        BY <2>1, <2>7 DEF Hit
      <3> QED
        BY <1>2, <2>2, <2>3, <2>4, <2>7, <3>1, CopyInv
    <2>8. CASE ~rc[s].locked /\ rc[s].state # "RC_INPROG" /\ rc[s].reply = None
      <3>1. /\ put_at_head(s)
            /\ rc' = [rc EXCEPT ![s].state = "RC_INPROG"]
            /\ Become(d, [Idle EXCEPT !.pc = "exec", !.r = r], {})
        BY <2>1, <2>8 DEF Hit
      <3> QED
        BY <1>2, <2>2, <2>3, <2>4, <2>8, <3>1, DoitInv
    <2> QED
      BY <2>5, <2>6, <2>7, <2>8
  <1>6. CASE Find(M) = {}
    <2>0. mixed' = mixed /\ mixed \subseteq Reqs
      BY <1>1, <1>6 DEF ServerTypeOK
    <2> DEFINE tail == lru[Len(lru)]
    <2>1. tail \in Slots
      <3>1. Cardinality(Slots) \in Nat /\ Cardinality(Slots) # 0
        BY FS_CardinalityType, FS_EmptySet
      <3> QED
        BY <3>1 DEF ServerTypeOK
    <2>2. CASE rc[tail].locked
      <3>1. /\ WaitFor(d, tail, r, "tail", 0)
            /\ UNCHANGED <<lru, chain>> /\ forgot' = forgot \cup Missed(r, M)
        BY <1>1, <1>6, <2>2
      <3>2. Grows
        BY <1>3, <1>4, <2>0, <3>1 DEF ServerTypeOK
      <3> HIDE DEF tail
      <3> QED
        BY <1>2, <1>3, <2>1, <2>2, <3>1, <3>2, WaitInv
    <2>3. CASE ~rc[tail].locked
      <3>1. Take(d, r, tail) /\ forgot' = forgot \cup Missed(r, M) \cup Victim(tail)
        BY <1>1, <1>6, <2>3
      <3> HIDE DEF tail
      <3>2. Victim(tail) \subseteq Reqs
        BY <2>1 DEF Victim, ServerTypeOK, EntryStates
      <3>3. Grows
        BY <1>3, <1>4, <2>0, <3>1, <3>2 DEF ServerTypeOK
      <3>4. rc[tail].req \notin Known'
        BY <3>1 DEF Known, Victim
      <3>5. r \in Known' => \A t \in Slots : rc[t].req # r
        BY <1>6, <3>1, MissMeansNone DEF Known
      <3> QED
        BY <1>2, <2>1, <2>3, <3>1, <3>3, <3>4, <3>5, TakeInv
    <2> QED
      BY <2>2, <2>3
  <1> QED
    BY <1>5, <1>6

(* The entry that was waited for is taken, or still locked.                *)
LEMMA TakeTailInv ==
    ASSUME ServerInv, NEW d \in Nfsds, TakeTail(d), kind' = kind
    PROVE  ServerInv'
  <1> USE ServerAssumption, NetAssumption DEF ServerInv
  <1> DEFINE s == nfsd[d].s
             r == nfsd[d].r
  <1>1. nfsd[d].pc = "tail" /\ s \in Slots /\ r \in Reqs /\ 0 \in 0..MaxExec
    BY DEF TakeTail, At, NfsdOK
  <1>2. exec' = exec /\ mixed' = mixed /\ net' \subseteq net
    BY DEF TakeTail
  <1>3. CASE rc[s].locked
    <2>1. WaitFor(d, s, r, "tail", 0) /\ UNCHANGED <<lru, chain, forgot, twice>>
      BY <1>3 DEF TakeTail
    <2>2. Grows
      BY <1>2, <2>1 DEF Grows, ServerTypeOK
    <2> HIDE DEF s, r
    <2> QED
      BY <1>1, <1>2, <1>3, <2>1, <2>2, WaitInv
  <1>4. CASE ~rc[s].locked
    <2>1. /\ Take(d, r, s)
          /\ forgot' = forgot \cup (Victim(s) \ {r})
          /\ twice' = twice \cup {q \in {r} : \E t \in Slots : rc[t].req = q}
      BY <1>4 DEF TakeTail
    <2> HIDE DEF s, r
    <2>2. Victim(s) \subseteq Reqs
      BY <1>1 DEF Victim, ServerTypeOK, EntryStates
    <2>3. Grows
      BY <1>1, <1>2, <2>1, <2>2 DEF Grows, ServerTypeOK
    <2>4. r \in Known' => \A t \in Slots : rc[t].req # r
      BY <2>1 DEF Known
    <2>5. rc[s].req \notin Known'
      BY <1>1, <2>1, <2>4 DEF Known, Victim
    <2> QED
      BY <1>1, <1>2, <1>4, <2>1, <2>3, <2>4, <2>5, TakeInv
  <1> QED
    BY <1>3, <1>4

(* A copy from or to an entry is complete: the entry is unlocked, and the  *)
(* reply goes out.                                                         *)
LEMMA CopyEndsInv ==
    ASSUME ServerInv, NEW d \in Nfsds, Copying(d), NEW s \in Slots, s = nfsd[d].s,
           NEW g \in EntryStates, g.req = rc[s].req, g.state = rc[s].state,
           ~g.locked, ~g.wanted, g.reply # None,
           rc[s].req \notin mixed =>
              g.reply.of = rc[s].req /\ g.reply.val \in 1..exec[rc[s].req],
           Answer(d, nfsd[d].r, g.reply, [rc EXCEPT ![s] = g], Wakes(s)),
           UNCHANGED <<lru, chain, exec, forgot, twice, mixed, kind>>
    PROVE  ServerInv'
  <1> USE ServerAssumption, NetAssumption DEF ServerInv
  <1>1. Idle \in NfsdStates /\ Idle.pc = "idle" /\ Idle.wchan = None
    BY IdleOK
  <1>2. Become(d, Idle, Wakes(s)) /\ rc' = Freed(d, [rc EXCEPT ![s] = g])
        /\ Send(Reply(nfsd[d].r, g.reply))
    BY DEF Answer
  <1>3. /\ nfsd' \in [Nfsds -> NfsdStates] /\ nfsd'[d] = Idle
        /\ \A e \in Nfsds \ {d} :
              /\ nfsd'[e].pc = nfsd[e].pc /\ nfsd'[e].r = nfsd[e].r
              /\ nfsd'[e].s = nfsd[e].s /\ nfsd'[e].val = nfsd[e].val
              /\ nfsd'[e].wchan = IF nfsd[e].wchan \in Wakes(s) THEN None ELSE nfsd[e].wchan
    BY <1>1, <1>2, BecomeOK
  <1> DEFINE entries == [rc EXCEPT ![s] = g]
  <1>4. /\ entries \in [Slots -> EntryStates] /\ entries[s] = g
        /\ \A t \in Slots \ {s} : entries[t] = rc[t]
    BY DEF ServerTypeOK
  <1>a. rc' = Freed(d, entries)
    BY <1>2
  <1> HIDE DEF entries
  <1>5. /\ rc' \in [Slots -> EntryStates]
        /\ \A t \in Slots :
              /\ rc'[t].req = entries[t].req /\ rc'[t].state = entries[t].state
              /\ rc'[t].reply = entries[t].reply /\ rc'[t].locked = entries[t].locked
              /\ rc'[t].wanted = entries[t].wanted
    BY <1>4, <1>a, FreedOK
  <1>6. /\ \A t \in Slots \ {s} :
              /\ rc'[t].reply = rc[t].reply /\ rc'[t].locked = rc[t].locked
              /\ rc'[t].wanted = rc[t].wanted
        /\ \A t \in Slots : rc'[t].req = rc[t].req /\ rc'[t].state = rc[t].state
        /\ rc'[s].reply = g.reply /\ ~rc'[s].locked /\ ~rc'[s].wanted
    BY <1>4, <1>5
  <1>7. rc[s].locked /\ Owns(nfsd[d].r, s) /\ nfsd[d].r \in Reqs
    BY DEF NfsdOK, Copying
  <1>8. Grows
    BY DEF Grows, ServerTypeOK
  <1>9. NetOK'
    BY <1>2, <1>7, <1>8, NetReplies DEF Owns
  <1>10. ServerTypeOK'
    BY <1>3, <1>5, <1>6, <1>8 DEF ServerTypeOK, Grows
  <1>11. EntryOK'
    <2> SUFFICES ASSUME NEW t \in Slots PROVE EntryOK!(t)'
      BY DEF EntryOK
    <2>1. CASE t = s
      BY <1>6, <1>7, <2>1 DEF EntryOK
    <2>2. CASE t # s
      BY <1>6, <2>2 DEF EntryOK
    <2> QED
      BY <2>1, <2>2
  <1>12. NfsdOK'
    <2> SUFFICES ASSUME NEW e \in Nfsds PROVE NfsdOK!(e)'
      BY DEF NfsdOK
    <2>1. CASE e = d
      BY <1>1, <1>3, <2>1 DEF Copying
    <2>2. CASE e # d
      <3>1. Copying(e) => nfsd[e].s \in Slots \ {s}
        BY <2>2 DEF NfsdOK, OneCopies
      <3> QED
        BY <1>3, <1>6, <2>2, <3>1 DEF NfsdOK, Copying, Owns
    <2> QED
      BY <2>1, <2>2
  <1>13. OneCopies'
    BY <1>1, <1>3 DEF OneCopies, Copying
  <1>14. SleepersOK'
    <2> SUFFICES ASSUME NEW e \in Nfsds, nfsd'[e].wchan # None PROVE SleepersOK!(e)'
      BY DEF SleepersOK
    <2>1. e # d /\ nfsd'[e].wchan = nfsd[e].wchan /\ nfsd[e].wchan \notin Wakes(s)
      BY <1>1, <1>3
    <2>2. nfsd[e].wchan \in Slots /\ rc[nfsd[e].wchan].wanted
      BY <2>1 DEF SleepersOK, ServerTypeOK, NfsdStates
    <2>3. nfsd[e].wchan # s
      BY <2>1, <2>2 DEF Wakes
    <2> QED
      BY <1>6, <2>1, <2>2, <2>3 DEF SleepersOK
  <1>15. KnownOK'
    <2>1. ASSUME NEW q \in Known', NEW e \in Nfsds
          PROVE  /\ e \in Working(q)' => e \in Working(q) /\ nfsd'[e].pc = nfsd[e].pc
                 /\ nfsd[e].r = q /\ nfsd[e].pc = "exec" =>
                       nfsd'[e].r = q /\ nfsd'[e].pc = "exec"
      <3>1. CASE e = d
        BY <1>1, <1>3, <3>1 DEF Working, Copying
      <3>2. CASE e # d
        BY <1>3, <3>2 DEF Working
      <3> QED
        BY <3>1, <3>2
    <2>2. \A t \in Slots : rc[t].reply # None \/ rc[t].locked =>
                              rc'[t].reply # None \/ rc'[t].locked
      BY <1>6
    <2> QED
      BY <1>6, <1>8, <2>1, <2>2, KnownKept
  <1> QED
    BY <1>9, <1>10, <1>11, <1>12, <1>13, <1>14, <1>15

(* d has carried out r, or found it in a state that it could not carry it  *)
(* out.  As long as r is known, it is the only one, and the entry is the   *)
(* one it has marked.                                                      *)
LEMMA WorkersEntry ==
    ASSUME ServerInv, NEW d \in Nfsds, nfsd[d].pc \in {"exec", "update"}, nfsd[d].r \in Known
    PROVE  /\ nfsd[d].pc = "exec" /\ Working(nfsd[d].r) = {d}
           /\ \E s \in Slots : rc[s].req = nfsd[d].r
           /\ \A s \in Slots : rc[s].req = nfsd[d].r => rc[s].state = "RC_INPROG" /\ ~rc[s].locked
           /\ kind[nfsd[d].r] # "idem" => ~(exec[nfsd[d].r] > 0)
  <1> DEFINE r == nfsd[d].r
  <1>1. OneEntry(r) /\ WorkOK(r) /\ CountOK(r)
    BY DEF ServerInv, KnownOK
  <1>2. d \in Working(r)
    BY DEF Working
  <1>3. nfsd[d].pc = "exec"
    BY <1>1, <1>2 DEF WorkOK
  <1>4. PICK s \in Slots : rc[s].req = r /\ rc[s].state = "RC_INPROG"
    BY <1>1, <1>2, <1>3 DEF WorkOK
  <1>5. \A t \in Slots : rc[t].req = r => rc[t].state = "RC_INPROG" /\ ~rc[t].locked
    BY <1>1, <1>4 DEF OneEntry, ServerInv, EntryOK
  <1>6. kind[r] # "idem" => ~(exec[r] > 0)
    BY <1>1, <1>4 DEF CountOK
  <1>7. Working(r) = {d}
    BY <1>1, <1>2 DEF WorkOK
  <1> QED
    BY <1>3, <1>4, <1>5, <1>6, <1>7

(* The entry s of r is brought up to date: by the one call, or with the    *)
(* entry locked for the copy of the reply.                                 *)
LEMMA WorkEndsInv ==
    ASSUME ServerInv, Grows, NetOK',
           NEW d \in Nfsds, NEW r \in Reqs, NEW s \in Slots,
           nfsd[d].r = r, nfsd[d].pc \in {"exec", "update"},
           rc[s].req = r \/ {r, rc[s].req} \subseteq mixed', rc[s].req \in Reqs,
           ~rc[s].locked, rc' \in [Slots -> EntryStates],
           \A t \in Slots \ {s} :
              /\ rc'[t].req = rc[t].req /\ rc'[t].state = rc[t].state
              /\ rc'[t].reply = rc[t].reply /\ rc'[t].locked = rc[t].locked
              /\ rc'[t].wanted = rc[t].wanted,
           rc'[s].req = rc[s].req, rc'[s].state \in {"RC_DONE", "RC_INVALID"},
           rc'[s].reply # None /\ rc[s].req \notin mixed' =>
              rc'[s].reply.of = r /\ rc'[s].reply.val \in 1..exec'[r],
           nfsd' \in [Nfsds -> NfsdStates], nfsd'[d].wchan = None,
           \A e \in Nfsds \ {d} :
              /\ nfsd'[e].pc = nfsd[e].pc /\ nfsd'[e].r = nfsd[e].r
              /\ nfsd'[e].s = nfsd[e].s /\ nfsd'[e].val = nfsd[e].val
              /\ nfsd'[e].wchan = nfsd[e].wchan,
           \/ nfsd'[d].pc = "idle"
           \/ /\ nfsd'[d].pc = "save" /\ nfsd'[d].r = r /\ nfsd'[d].s = s
              /\ nfsd'[d].val \in 1..exec'[r] /\ rc'[s].locked,
           \A q \in Reqs \ {r} : exec'[q] = exec[q],
           exec'[r] <= exec[r] + 1,
           kind[r] # "idem" /\ exec'[r] > exec[r] =>
              rc'[s].state = "RC_DONE" /\ (rc'[s].reply # None \/ rc'[s].locked),
           UNCHANGED <<lru, chain>>
    PROVE  ServerInv'
  <1> USE ServerAssumption, NetAssumption DEF ServerInv
  <1>1. ServerTypeOK'
    <2>1. rc[s].state # "RC_UNUSED"
      BY DEF EntryOK
    <2>2. \A t \in Slots : rc'[t].state # "RC_UNUSED" <=> On(t, chain')
      BY <2>1, SMTT(30) DEF ServerTypeOK
    <2> QED
      BY <2>2 DEF ServerTypeOK, Grows
  <1>2. EntryOK'
    <2> SUFFICES ASSUME NEW t \in Slots PROVE EntryOK!(t)'
      BY DEF EntryOK
    <2>1. CASE t = s
      BY <2>1
    <2>2. CASE t # s
      <3>1. rc[t].reply # None => rc[t].req \in Reqs
        BY DEF EntryOK, ServerTypeOK, EntryStates
      <3> QED
        BY <2>2, <3>1, CountsGrow DEF EntryOK, Grows
    <2> QED
      BY <2>1, <2>2
  <1>3. \A e \in Nfsds \ {d} : Copying(e) => nfsd[e].s \in Slots \ {s}
    BY DEF NfsdOK
  <1>4. NfsdOK'
    <2> SUFFICES ASSUME NEW e \in Nfsds PROVE NfsdOK!(e)'
      BY DEF NfsdOK
    <2>1. CASE e = d
      BY <2>1 DEF Copying, Owns
    <2>2. CASE e # d
      BY <1>3, <2>2, CountsGrow DEF NfsdOK, Copying, Owns, Grows
    <2> QED
      BY <2>1, <2>2
  <1>5. OneCopies'
    BY <1>3 DEF OneCopies, Copying
  <1>6. SleepersOK'
    <2> SUFFICES ASSUME NEW e \in Nfsds, nfsd'[e].wchan # None PROVE SleepersOK!(e)'
      BY DEF SleepersOK
    <2>1. e # d /\ nfsd'[e].wchan = nfsd[e].wchan
      OBVIOUS
    <2>2. nfsd[e].wchan \in Slots \ {s}
      BY <2>1 DEF SleepersOK, ServerTypeOK, NfsdStates
    <2> QED
      BY <2>1, <2>2 DEF SleepersOK
  <1>7. KnownOK'
    <2> SUFFICES ASSUME NEW q \in Known' PROVE (OneEntry(q) /\ WorkOK(q) /\ CountOK(q))'
      BY DEF KnownOK
    <2>0. q \in Known /\ q \in Reqs
      BY CountsGrow DEF Known
    <2>1. OneEntry(q) /\ WorkOK(q) /\ CountOK(q)
      BY <2>0 DEF KnownOK
    <2>2. \A t \in Slots : rc'[t].req = rc[t].req
      OBVIOUS
    <2>3. OneEntry(q)'
      BY <2>1, <2>2 DEF OneEntry
    <2>4. CASE q = r
      <3>1. Working(q) = {d} /\ (kind[q] # "idem" => ~(exec[q] > 0))
        <4>1. nfsd[d].r = q /\ nfsd[d].r \in Known
          BY <2>0, <2>4
        <4>2. /\ Working(nfsd[d].r) = {d}
              /\ kind[nfsd[d].r] # "idem" => ~(exec[nfsd[d].r] > 0)
          BY <4>1, WorkersEntry
        <4> QED
          BY <4>1, <4>2
      <3>2. \A e \in Nfsds : e \in Working(q)' => e = d /\ nfsd'[e].pc = "save"
        BY <3>1 DEF Working
      <3>3. \A t \in Slots : rc'[t].req = q => t = s
        BY <2>1, <2>2, <2>4 DEF OneEntry, Known
      <3>4. WorkOK(q)'
        <4>1. \A e \in Working(q)' : e \in Nfsds
          BY DEF Working
        <4> QED
          BY <3>2, <3>3, <4>1 DEF WorkOK
      <3>5. CountOK(q)'
        <4>1. exec[q] \in Nat /\ exec'[q] \in Nat /\ kind' = kind
          BY <2>0 DEF ServerTypeOK, Grows
        <4>2. kind[q] # "idem" => exec[q] = 0
          BY <3>1, <4>1
        <4>3. kind[q] # "idem" => exec'[q] <= 1 /\ (exec'[q] > 0 => exec'[q] > exec[q])
          BY <2>4, <4>1, <4>2
        <4>4. rc'[s].req = q
          BY <2>2, <2>4 DEF Known
        <4> QED
          BY <2>4, <3>3, <4>1, <4>3, <4>4 DEF CountOK
      <3> QED
        BY <2>3, <3>4, <3>5
    <2>5. CASE q # r
      <3>1. \A t \in Slots : rc[t].req = q =>
               /\ rc'[t].state = rc[t].state /\ rc'[t].reply = rc[t].reply
               /\ rc'[t].locked = rc[t].locked
        BY <2>5 DEF Known
      <3>2. /\ \A e \in Nfsds : e \in Working(q)' <=> e \in Working(q)
            /\ \A e \in Working(q) : nfsd'[e].pc = nfsd[e].pc
        BY <2>5 DEF Working
      <3>3. WorkOK(q)'
        <4>1. \A e \in Nfsds : nfsd[e].r = q /\ nfsd[e].pc = "exec" =>
                                  nfsd'[e].r = q /\ nfsd'[e].pc = "exec"
          BY <2>5
        <4>2. \A e \in Working(q)' : e \in Nfsds
          BY DEF Working
        <4> QED
          BY <2>1, <2>2, <3>1, <3>2, <4>1, <4>2 DEF WorkOK
      <3>4. CountOK(q)'
        <4>1. exec'[q] = exec[q] /\ kind' = kind
          BY <2>0, <2>5 DEF Grows
        <4> QED
          BY <2>1, <2>2, <3>1, <4>1 DEF CountOK
      <3> QED
        BY <2>3, <3>3, <3>4
    <2> QED
      BY <2>4, <2>5
  <1> QED
    BY <1>1, <1>2, <1>4, <1>5, <1>6, <1>7

(* r has no entry that is found, and is no longer known: its nfsd is done. *)
LEMMA UnknownEndsInv ==
    ASSUME ServerInv, Grows, NetOK', NEW d \in Nfsds, NEW r \in Reqs,
           nfsd[d].r = r, nfsd[d].pc \in {"exec", "update"}, r \notin Known',
           rc' = Freed(d, rc), Become(d, Idle, {}),
           \A q \in Reqs \ {r} : exec'[q] = exec[q],
           UNCHANGED <<lru, chain>>
    PROVE  ServerInv'
  <1> USE ServerAssumption, NetAssumption DEF ServerInv
  <1>1. Idle \in NfsdStates /\ Idle.pc = "idle" /\ Idle.wchan = None
    BY IdleOK
  <1>2. /\ nfsd' \in [Nfsds -> NfsdStates] /\ nfsd'[d] = Idle
        /\ \A e \in Nfsds \ {d} :
              /\ nfsd'[e].pc = nfsd[e].pc /\ nfsd'[e].r = nfsd[e].r
              /\ nfsd'[e].s = nfsd[e].s /\ nfsd'[e].val = nfsd[e].val
              /\ nfsd'[e].wchan = nfsd[e].wchan
    BY <1>1, BecomeOK
  <1>3. rc \in [Slots -> EntryStates]
    BY DEF ServerTypeOK
  <1>4. /\ rc' \in [Slots -> EntryStates]
        /\ \A t \in Slots :
              /\ rc'[t].req = rc[t].req /\ rc'[t].state = rc[t].state
              /\ rc'[t].reply = rc[t].reply /\ rc'[t].locked = rc[t].locked
              /\ rc'[t].wanted = rc[t].wanted
    BY <1>3, FreedOK
  <1>5. ServerTypeOK'
    <2>1. \A t \in Slots : rc'[t].state # "RC_UNUSED" <=> On(t, chain')
      BY <1>4 DEF ServerTypeOK
    <2> QED
      BY <1>2, <1>4, <2>1 DEF ServerTypeOK, Grows
  <1>6. EntryOK'
    <2> SUFFICES ASSUME NEW t \in Slots PROVE EntryOK!(t)'
      BY DEF EntryOK
    <2>1. rc[t].reply # None => rc[t].req \in Reqs
      BY <1>3 DEF EntryOK, EntryStates, ServerTypeOK
    <2> QED
      BY <1>4, <2>1, CountsGrow DEF EntryOK, Grows
  <1>7. NfsdOK'
    <2> SUFFICES ASSUME NEW e \in Nfsds PROVE NfsdOK!(e)'
      BY DEF NfsdOK
    <2>1. CASE e = d
      BY <1>1, <1>2, <2>1 DEF Copying
    <2>2. CASE e # d
      BY <1>2, <1>4, <2>2, CountsGrow DEF NfsdOK, Copying, Owns, Grows
    <2> QED
      BY <2>1, <2>2
  <1>8. OneCopies'
    BY <1>1, <1>2 DEF OneCopies, Copying
  <1>9. SleepersOK'
    <2>1. \A e \in Nfsds : nfsd[e].wchan \in Slots \cup {None}
      BY DEF ServerTypeOK, NfsdStates
    <2> QED
      BY <1>1, <1>2, <1>4, <2>1 DEF SleepersOK
  <1>10. KnownOK'
    <2>1. ASSUME NEW q \in Known', NEW e \in Nfsds
          PROVE  /\ exec'[q] = exec[q]
                 /\ e \in Working(q)' => e \in Working(q) /\ nfsd'[e].pc = nfsd[e].pc
                 /\ nfsd[e].r = q /\ nfsd[e].pc = "exec" =>
                       nfsd'[e].r = q /\ nfsd'[e].pc = "exec"
      <3>1. q # r /\ q \in Reqs
        BY DEF Known
      <3>2. CASE e = d
        BY <1>1, <1>2, <3>1, <3>2 DEF Working
      <3>3. CASE e # d
        BY <1>2, <3>1, <3>3 DEF Working
      <3> QED
        BY <3>2, <3>3, <3>1
    <2> QED
      BY <1>4, <2>1, KnownKept
  <1> QED
    BY <1>5, <1>6, <1>7, <1>8, <1>9, <1>10

(* nfsrv_updatecache, up to its next sleep: exec' counts the execution     *)
(* that has just been made, if there was one.                              *)
LEMMA UpdateInv ==
    ASSUME ServerInv, NEW d \in Nfsds, NEW r \in Reqs, NEW val \in 0..MaxExec,
           nfsd[d].r = r, nfsd[d].pc \in {"exec", "update"},
           nfsrv_updatecache(d, r, val),
           exec' \in [Reqs -> 0..MaxExec],
           \A q \in Reqs \ {r} : exec'[q] = exec[q],
           exec'[r] >= exec[r], exec'[r] <= exec[r] + 1, val \in 0..exec'[r],
           val = 0 => exec'[r] = exec[r],
           kind' = kind
    PROVE  ServerInv'
  <1> USE ServerAssumption, NetAssumption DEF ServerInv
  <1> DEFINE made == [of |-> r, val |-> val]
  <1>1. PICK M \in Readings(r) :
           /\ CASE Find(M) # {} -> \E s \in Find(M) :
                     UpdateEntry(d, r, val, s) /\ mixed' = mixed \cup Mixed(r, s)
                [] Find(M) = {} /\ val # 0 -> Answer(d, r, made, rc, {}) /\ UNCHANGED mixed
                [] Find(M) = {} /\ val = 0 ->
                     rc' = Freed(d, rc) /\ Become(d, Idle, {}) /\ UNCHANGED <<net, mixed>>
           /\ forgot' = forgot \cup Missed(r, M)
    BY DEF nfsrv_updatecache
  <1>2. lru' = lru /\ chain' = chain /\ twice' = twice
    BY DEF nfsrv_updatecache
  <1>3. Grows
    <2>1. ASSUME NEW q \in Reqs PROVE exec'[q] >= exec[q]
      <3>1. exec[q] \in Nat
        BY DEF ServerTypeOK
      <3> QED
        BY <3>1
    <2>2. forgot \subseteq forgot' /\ forgot' \subseteq Reqs
      BY DEF nfsrv_updatecache, Missed, ServerTypeOK
    <2>3. mixed \subseteq mixed' /\ mixed' \subseteq Reqs
      <3>1. CASE Find(M) # {}
        <4>1. PICK s \in Find(M) : mixed' = mixed \cup Mixed(r, s)
          BY <1>1, <3>1
        <4>2. rc[s].req \in Reqs
          BY SearchFinds
        <4> QED
          BY <4>1, <4>2 DEF Mixed, ServerTypeOK
      <3>2. CASE Find(M) = {}
        BY <1>1, <3>2 DEF ServerTypeOK
      <3> QED
        BY <3>1, <3>2
    <2> QED
      BY <1>2, <2>1, <2>2, <2>3 DEF Grows, ServerTypeOK
  <1>4. val # 0 => made \in [of : Reqs, val : 1..MaxExec] /\ made # None
                   /\ made.of = r /\ made.val \in 1..exec'[r]
    OBVIOUS
  <1>5. Idle \in NfsdStates /\ Idle.pc = "idle" /\ Idle.wchan = None
    BY IdleOK
  <1>6. kind[r] \in {"idem", "status", "mbuf"}
    BY DEF NetOK
  <1>7. CASE Find(M) # {}
    <2>1. PICK s \in Find(M) : UpdateEntry(d, r, val, s) /\ mixed' = mixed \cup Mixed(r, s)
      BY <1>1, <1>7
    <2>2. /\ s \in Slots /\ rc[s].req \in Reqs
          /\ rc[s].req = r \/ {r, rc[s].req} \subseteq mixed'
      BY <2>1, SearchFinds DEF Mixed
    <2>3. rc[s] \in EntryStates
      BY <2>2 DEF ServerTypeOK
    <2>4. rc[s].reply # None /\ rc[s].req \notin mixed' =>
             rc[s].reply.of = r /\ rc[s].reply.val \in 1..exec'[r]
      BY <1>3, <2>2, CountsGrow DEF EntryOK, Grows
    <2>5. CASE rc[s].locked
      <3>1. WaitFor(d, s, r, "update", val) /\ UNCHANGED net
        BY <2>1, <2>5 DEF UpdateEntry
      <3>2. r \notin Known'
        BY <1>3, <2>2, <2>5, WorkersEntry, CountsGrow DEF Known
      <3>3. \A q \in Known' : exec'[q] = exec[q]
        BY <3>2 DEF Known
      <3> QED
        BY <1>2, <1>3, <2>2, <2>5, <3>1, <3>2, <3>3, WaitInv
    <2>6. CASE ~rc[s].locked /\ val # 0 /\ kind[r] = "mbuf"
      <3> DEFINE now == [Idle EXCEPT !.pc = "save", !.r = r, !.s = s, !.val = val]
                 f   == [rc[s] EXCEPT !.locked = TRUE, !.state = "RC_DONE"]
      <3>1. /\ rc' = [rc EXCEPT ![s].locked = TRUE, ![s].state = "RC_DONE"]
            /\ Become(d, now, {}) /\ UNCHANGED net
        BY <2>1, <2>6 DEF UpdateEntry
      <3>2. /\ now \in NfsdStates /\ now.pc = "save" /\ now.r = r /\ now.s = s
            /\ now.val = val /\ now.wchan = None
        BY <1>5, <2>2 DEF Idle, NfsdStates, Labels
      <3>3. /\ f \in EntryStates /\ f.req = rc[s].req /\ f.state = "RC_DONE"
            /\ f.reply = rc[s].reply /\ f.locked
        BY <2>2, <2>3, EntryLocked
      <3>4. rc' = [rc EXCEPT ![s] = f]
        BY <3>1, <2>2 DEF ServerTypeOK
      <3> HIDE DEF now, f
      <3>5. /\ rc' \in [Slots -> EntryStates] /\ rc'[s] = f
            /\ \A t \in Slots \ {s} : rc'[t] = rc[t]
        BY <2>2, <3>3, <3>4 DEF ServerTypeOK
      <3>6. /\ nfsd' \in [Nfsds -> NfsdStates] /\ nfsd'[d] = now
            /\ \A e \in Nfsds \ {d} :
                  /\ nfsd'[e].pc = nfsd[e].pc /\ nfsd'[e].r = nfsd[e].r
                  /\ nfsd'[e].s = nfsd[e].s /\ nfsd'[e].val = nfsd[e].val
                  /\ nfsd'[e].wchan = nfsd[e].wchan
        BY <3>1, <3>2, BecomeOK
      <3>7. NetOK'
        BY <1>3, <3>1, NetKept
      <3>8. nfsd'[d].val \in 1..exec'[r]
        BY <1>4, <2>6, <3>2, <3>6
      <3> QED
        BY <1>2, <1>3, <2>2, <2>4, <2>6, <3>2, <3>3, <3>5, <3>6, <3>7, <3>8, WorkEndsInv
    <2>7. CASE ~rc[s].locked /\ val # 0 /\ kind[r] # "mbuf"
      <3> DEFINE g == IF kind[r] = "status" THEN made ELSE rc[s].reply
                 f == [rc[s] EXCEPT !.state = "RC_DONE", !.reply = g]
                 entries == [rc EXCEPT ![s].state = "RC_DONE",
                                ![s].reply = IF kind[r] = "status" THEN made ELSE @]
      <3>1. Answer(d, r, made, entries, {})
        BY <2>1, <2>7 DEF UpdateEntry
      <3>2. g \in [of : Reqs, val : 1..MaxExec] \cup {None}
        BY <1>4, <2>3, <2>7 DEF EntryStates
      <3>3. /\ f \in EntryStates /\ f.req = rc[s].req /\ f.state = "RC_DONE" /\ f.reply = g
            /\ ~f.locked /\ f.wanted = rc[s].wanted
        <4> HIDE DEF g
        <4> QED
          BY <2>2, <2>3, <2>7, <3>2 DEF EntryStates
      <3>4. entries = [rc EXCEPT ![s] = f]
        BY <2>2, <2>3 DEF ServerTypeOK
      <3> HIDE DEF f
      <3>5. /\ entries \in [Slots -> EntryStates] /\ entries[s] = f
            /\ \A t \in Slots \ {s} : entries[t] = rc[t]
        BY <2>2, <3>3, <3>4 DEF ServerTypeOK
      <3> HIDE DEF entries, made, g
      <3>6. rc' = Freed(d, entries) /\ Become(d, Idle, {}) /\ Send(Reply(r, made))
        BY <3>1 DEF Answer
      <3>7. /\ rc' \in [Slots -> EntryStates]
            /\ \A t \in Slots :
                  /\ rc'[t].req = entries[t].req /\ rc'[t].state = entries[t].state
                  /\ rc'[t].reply = entries[t].reply /\ rc'[t].locked = entries[t].locked
                  /\ rc'[t].wanted = entries[t].wanted
        BY <3>5, <3>6, FreedOK
      <3>8. /\ nfsd' \in [Nfsds -> NfsdStates] /\ nfsd'[d] = Idle
            /\ \A e \in Nfsds \ {d} :
                  /\ nfsd'[e].pc = nfsd[e].pc /\ nfsd'[e].r = nfsd[e].r
                  /\ nfsd'[e].s = nfsd[e].s /\ nfsd'[e].val = nfsd[e].val
                  /\ nfsd'[e].wchan = nfsd[e].wchan
        BY <1>5, <3>6, BecomeOK
      <3>9. NetOK'
        BY <1>3, <1>4, <2>7, <3>6, NetReplies
      <3>10. /\ rc'[s].reply = g /\ rc'[s].state = "RC_DONE" /\ rc'[s].req = rc[s].req
             /\ \A t \in Slots \ {s} :
                   /\ rc'[t].req = rc[t].req /\ rc'[t].state = rc[t].state
                   /\ rc'[t].reply = rc[t].reply /\ rc'[t].locked = rc[t].locked
                   /\ rc'[t].wanted = rc[t].wanted
        BY <2>2, <3>3, <3>5, <3>7
      <3>11. g # None /\ rc[s].req \notin mixed' => g.of = r /\ g.val \in 1..exec'[r]
        BY <1>4, <2>4, <2>7 DEF g
      <3>12. kind[r] # "idem" => g # None
        BY <1>4, <1>6, <2>7 DEF g
      <3> QED
        BY <1>2, <1>3, <1>5, <2>2, <2>7, <3>7, <3>8, <3>9, <3>10, <3>11, <3>12, WorkEndsInv
    <2>8. CASE ~rc[s].locked /\ val = 0
      <3> DEFINE f == [rc[s] EXCEPT !.state = "RC_INVALID"]
                 entries == [rc EXCEPT ![s].state = "RC_INVALID"]
      <3>1. rc' = Freed(d, entries) /\ Become(d, Idle, {}) /\ UNCHANGED net
        BY <2>1, <2>8 DEF UpdateEntry
      <3>3. /\ f \in EntryStates /\ f.req = rc[s].req /\ f.state = "RC_INVALID" /\ f.reply = rc[s].reply
            /\ ~f.locked /\ f.wanted = rc[s].wanted
        BY <2>2, <2>3, <2>8 DEF EntryStates
      <3>4. entries = [rc EXCEPT ![s] = f]
        BY <2>2, <2>3 DEF ServerTypeOK
      <3> HIDE DEF f, entries
      <3>5. /\ entries \in [Slots -> EntryStates] /\ entries[s] = f
            /\ \A t \in Slots \ {s} : entries[t] = rc[t]
        BY <2>2, <3>3, <3>4 DEF ServerTypeOK
      <3>7. /\ rc' \in [Slots -> EntryStates]
            /\ \A t \in Slots :
                  /\ rc'[t].req = entries[t].req /\ rc'[t].state = entries[t].state
                  /\ rc'[t].reply = entries[t].reply /\ rc'[t].locked = entries[t].locked
                  /\ rc'[t].wanted = entries[t].wanted
        BY <3>1, <3>5, FreedOK
      <3>8. /\ nfsd' \in [Nfsds -> NfsdStates] /\ nfsd'[d] = Idle
            /\ \A e \in Nfsds \ {d} :
                  /\ nfsd'[e].pc = nfsd[e].pc /\ nfsd'[e].r = nfsd[e].r
                  /\ nfsd'[e].s = nfsd[e].s /\ nfsd'[e].val = nfsd[e].val
                  /\ nfsd'[e].wchan = nfsd[e].wchan
        BY <1>5, <3>1, BecomeOK
      <3>9. NetOK'
        BY <1>3, <3>1, NetKept
      <3>10. /\ rc'[s].reply = rc[s].reply /\ rc'[s].state = "RC_INVALID" /\ rc'[s].req = rc[s].req
             /\ \A t \in Slots \ {s} :
                   /\ rc'[t].req = rc[t].req /\ rc'[t].state = rc[t].state
                   /\ rc'[t].reply = rc[t].reply /\ rc'[t].locked = rc[t].locked
                   /\ rc'[t].wanted = rc[t].wanted
        BY <2>2, <3>3, <3>5, <3>7
      <3>11. ~(exec'[r] > exec[r])
        BY <2>8 DEF ServerTypeOK
      <3> QED
        BY <1>2, <1>3, <1>5, <2>2, <2>4, <2>8, <3>7, <3>8, <3>9, <3>10, <3>11, WorkEndsInv
    <2> QED
      BY <1>6, <2>5, <2>6, <2>7, <2>8
  <1>8. CASE Find(M) = {}
    <2>1. r \notin Known'
      <3> SUFFICES ASSUME r \in Known' PROVE FALSE
        OBVIOUS
      <3>1. r \in Known /\ r \notin Missed(r, M)
        BY <1>1, <1>3, CountsGrow DEF Known
      <3>2. \E s \in Slots : rc[s].req = r
        BY <3>1, WorkersEntry
      <3> QED
        BY <1>8, <3>1, <3>2, MissMeansNone
    <2>2. CASE val # 0
      <3>1. Answer(d, r, made, rc, {})
        BY <1>1, <1>8, <2>2
      <3> HIDE DEF made
      <3>2. rc' = Freed(d, rc) /\ Become(d, Idle, {}) /\ Send(Reply(r, made))
        BY <3>1 DEF Answer
      <3>3. NetOK'
        BY <1>3, <1>4, <2>2, <3>2, NetReplies
      <3> QED
        BY <1>2, <1>3, <2>1, <3>2, <3>3, UnknownEndsInv
    <2>3. CASE val = 0
      <3>1. rc' = Freed(d, rc) /\ Become(d, Idle, {}) /\ UNCHANGED net
        BY <1>1, <1>8, <2>3
      <3>2. NetOK'
        BY <1>3, <3>1, NetKept
      <3> QED
        BY <1>2, <1>3, <2>1, <3>1, <3>2, UnknownEndsInv
    <2> QED
      BY <2>2, <2>3
  <1> QED
    BY <1>7, <1>8

(* The copy of a saved reply, or of one that is to be saved, is complete.  *)
LEMMA CopiedInv ==
    ASSUME ServerInv, NEW d \in Nfsds, Copied(d), kind' = kind
    PROVE  ServerInv'
  <1> USE ServerAssumption, NetAssumption DEF ServerInv
  <1> DEFINE s == nfsd[d].s
             g == unlocked(rc[s])
  <1>1. nfsd[d].pc = "copy" /\ Copying(d)
    BY DEF Copied, At, Copying
  <1>2. s \in Slots /\ rc[s].reply # None /\ rc[s] \in EntryStates
    BY <1>1 DEF NfsdOK, ServerTypeOK
  <1>3. /\ g \in EntryStates /\ g.req = rc[s].req /\ g.state = rc[s].state
        /\ g.reply = rc[s].reply /\ ~g.locked /\ ~g.wanted
    BY <1>2 DEF unlocked, EntryStates
  <1>4. /\ Answer(d, nfsd[d].r, rc[s].reply, [rc EXCEPT ![s] = g], Wakes(s))
        /\ UNCHANGED <<lru, chain, exec, forgot, twice, mixed>>
    BY DEF Copied
  <1>5. rc[s].req \notin mixed =>
           rc[s].reply.of = rc[s].req /\ rc[s].reply.val \in 1..exec[rc[s].req]
    BY <1>2 DEF EntryOK
  <1> HIDE DEF g
  <1>6. Answer(d, nfsd[d].r, g.reply, [rc EXCEPT ![s] = g], Wakes(s))
    BY <1>3, <1>4
  <1> QED
    BY <1>1, <1>2, <1>3, <1>4, <1>5, <1>6, CopyEndsInv

LEMMA SavedInv ==
    ASSUME ServerInv, NEW d \in Nfsds, Saved(d), kind' = kind
    PROVE  ServerInv'
  <1> USE ServerAssumption, NetAssumption DEF ServerInv
  <1> DEFINE s    == nfsd[d].s
             made == [of |-> nfsd[d].r, val |-> nfsd[d].val]
             g    == [unlocked(rc[s]) EXCEPT !.reply = made]
  <1>1. nfsd[d].pc = "save" /\ Copying(d)
    BY DEF Saved, At, Copying
  <1>2. /\ s \in Slots /\ rc[s] \in EntryStates /\ nfsd[d].r \in Reqs
        /\ Owns(nfsd[d].r, s) /\ nfsd[d].val \in 1..exec[nfsd[d].r]
    BY <1>1 DEF NfsdOK, ServerTypeOK
  <1>3. /\ made \in [of : Reqs, val : 1..MaxExec] /\ made # None
        /\ rc[s].req \notin mixed =>
              made.of = rc[s].req /\ made.val \in 1..exec[rc[s].req]
    <2>1. exec[nfsd[d].r] \in 0..MaxExec
      BY <1>2 DEF ServerTypeOK
    <2> QED
      BY <1>2, <2>1 DEF Owns
  <1>4. Answer(d, nfsd[d].r, made, [rc EXCEPT ![s] = g], Wakes(s))
        /\ UNCHANGED <<lru, chain, exec, forgot, twice, mixed>>
    BY DEF Saved
  <1> HIDE DEF made
  <1>5. /\ g \in EntryStates /\ g.req = rc[s].req /\ g.state = rc[s].state
        /\ g.reply = made /\ ~g.locked /\ ~g.wanted
    BY <1>2, <1>3 DEF unlocked, EntryStates
  <1> HIDE DEF g
  <1>6. Answer(d, nfsd[d].r, g.reply, [rc EXCEPT ![s] = g], Wakes(s))
    BY <1>4, <1>5
  <1> QED
    BY <1>1, <1>2, <1>3, <1>4, <1>5, <1>6, CopyEndsInv

(* The procedure is carried out or fails.                                  *)
LEMMA ExecuteInv ==
    ASSUME ServerInv, NEW d \in Nfsds, Execute(d), kind' = kind
    PROVE  ServerInv'
  <1> USE ServerAssumption, NetAssumption DEF ServerInv
  <1> DEFINE r == nfsd[d].r
             n == IF exec[r] < MaxExec THEN exec[r] + 1 ELSE MaxExec
  <1>1. nfsd[d].pc = "exec" /\ r \in Reqs
    BY DEF Execute, At, NfsdOK
  <1>2. exec \in [Reqs -> 0..MaxExec] /\ exec[r] \in 0..MaxExec
    BY <1>1 DEF ServerTypeOK
  <1>3. n \in 0..MaxExec /\ n # 0 /\ n >= exec[r] /\ n <= exec[r] + 1 /\ n \in 0..n
    BY <1>2
  <1>4. CASE nfsrv_updatecache(d, r, n) /\ exec' = [exec EXCEPT ![r] = n]
    <2> HIDE DEF r, n
    <2>1. exec' \in [Reqs -> 0..MaxExec] /\ exec'[r] = n
      BY <1>1, <1>2, <1>3, <1>4
    <2>2. \A q \in Reqs \ {r} : exec'[q] = exec[q]
      BY <1>2, <1>4
    <2>3. nfsd[d].r = r
      BY DEF r
    <2> QED
      BY <1>1, <1>3, <1>4, <2>1, <2>2, <2>3, UpdateInv
  <1>5. CASE nfsrv_updatecache(d, r, 0) /\ UNCHANGED exec
    <2> HIDE DEF r
    <2>1. nfsd[d].r = r
      BY DEF r
    <2>2. exec'[r] = exec[r] /\ exec[r] >= exec[r] /\ exec[r] <= exec[r] + 1 /\ 0 \in 0..exec[r]
          /\ 0 \in 0..MaxExec
      BY <1>2, <1>5
    <2> QED
      BY <1>1, <1>2, <1>5, <2>1, <2>2, UpdateInv
  <1> QED
    BY <1>4, <1>5 DEF Execute

LEMMA UpdateAgainInv ==
    ASSUME ServerInv, NEW d \in Nfsds, Update(d), kind' = kind
    PROVE  ServerInv'
  <1> USE ServerAssumption, NetAssumption DEF ServerInv
  <1>1. /\ nfsd[d].pc = "update" /\ nfsd[d].r \in Reqs
        /\ nfsd[d].val \in 0..exec[nfsd[d].r] /\ nfsd[d].val \in 0..MaxExec
    BY DEF Update, At, NfsdOK, ServerTypeOK, NfsdStates
  <1>2. exec \in [Reqs -> 0..MaxExec] /\ exec[nfsd[d].r] \in 0..MaxExec
    BY <1>1 DEF ServerTypeOK
  <1>3. nfsrv_updatecache(d, nfsd[d].r, nfsd[d].val) /\ exec' = exec
    BY DEF Update
  <1>4. exec[nfsd[d].r] >= exec[nfsd[d].r] /\ exec[nfsd[d].r] <= exec[nfsd[d].r] + 1
    BY <1>2
  <1> QED
    BY <1>1, <1>2, <1>3, <1>4, UpdateInv

(* An order of the entries is a list of all of them.                       *)
LEMMA OrdersOK ==
    ASSUME NEW q \in Orders
    PROVE  /\ q \in Seq(Slots) /\ Len(q) = Cardinality(Slots)
           /\ \A s \in Slots : On(s, q)
  <1>1. Cardinality(Slots) \in Nat
    BY ServerAssumption, FS_CardinalityType
  <1> QED
    BY <1>1 DEF Orders, On

(* An empty cache.                                                         *)
LEMMA EmptyCache ==
    ASSUME nfsd' = [d \in Nfsds |-> Idle], rc' = [s \in Slots |-> Unused],
           lru' \in Orders, chain' = <<>>
    PROVE  /\ nfsd' \in [Nfsds -> NfsdStates] /\ rc' \in [Slots -> EntryStates]
           /\ lru' \in Seq(Slots) /\ Len(lru') = Cardinality(Slots)
           /\ \A s \in Slots : On(s, lru')
           /\ chain' \in Seq(Slots) /\ \A s \in Slots : rc'[s].state # "RC_UNUSED" <=> On(s, chain')
           /\ EntryOK' /\ NfsdOK' /\ OneCopies' /\ SleepersOK'
  <1>1. Unused \in EntryStates
    BY DEF Unused, EntryStates
  <1>2. nfsd' \in [Nfsds -> NfsdStates] /\ rc' \in [Slots -> EntryStates]
    BY <1>1, IdleOK
  <1>3. chain' \in Seq(Slots) /\ \A s \in Slots : rc'[s].state # "RC_UNUSED" <=> On(s, chain')
    BY DEF Unused, On
  <1>4. EntryOK' /\ NfsdOK' /\ OneCopies' /\ SleepersOK'
    BY IdleOK DEF EntryOK, NfsdOK, OneCopies, SleepersOK, Unused, Copying
  <1> QED
    BY <1>2, <1>3, <1>4, OrdersOK

LEMMA CrashInv ==
    ASSUME ServerInv, Crash, kind' = kind
    PROVE  ServerInv'
  <1>1. /\ nfsd' = [d \in Nfsds |-> Idle] /\ rc' = [s \in Slots |-> Unused]
        /\ lru' \in Orders /\ chain' = <<>> /\ forgot' = Reqs
        /\ exec' = exec /\ net' = net /\ twice' = twice /\ mixed' = mixed
    BY DEF Crash
  <1>2. Grows
    BY <1>1, NetAssumption DEF Grows, ServerInv, ServerTypeOK
  <1>3. ServerTypeOK' /\ EntryOK' /\ NfsdOK' /\ OneCopies' /\ SleepersOK'
    BY <1>1, EmptyCache DEF ServerInv, ServerTypeOK
  <1>4. NetOK'
    BY <1>1, <1>2, NetKept
  <1>5. KnownOK'
    BY <1>1 DEF KnownOK, Known
  <1> QED
    BY <1>3, <1>4, <1>5 DEF ServerInv

LEMMA ServerInitInv == NetInit /\ ServerInit => ServerInv
  <1> SUFFICES ASSUME NetInit, ServerInit PROVE ServerInv
    OBVIOUS
  <1>0. 0 \in 0..MaxExec
    BY NetAssumption
  <1>1. Unused \in EntryStates
    BY DEF Unused, EntryStates
  <1>2. nfsd \in [Nfsds -> NfsdStates] /\ rc \in [Slots -> EntryStates]
    BY <1>1, IdleOK DEF ServerInit
  <1>3. chain \in Seq(Slots) /\ \A s \in Slots : rc[s].state # "RC_UNUSED" <=> On(s, chain)
    BY DEF ServerInit, Unused, On
  <1>4. ServerTypeOK
    BY <1>0, <1>2, <1>3, OrdersOK DEF ServerTypeOK, ServerInit
  <1>5. EntryOK /\ NfsdOK /\ OneCopies /\ SleepersOK
    BY IdleOK DEF ServerInit, EntryOK, NfsdOK, OneCopies, SleepersOK, Unused, Copying
  <1>6. NetOK
    BY DEF NetInit, NetOK, Replies
  <1>7. KnownOK
    <2> SUFFICES ASSUME NEW r \in Known PROVE OneEntry(r) /\ WorkOK(r) /\ CountOK(r)
      BY DEF KnownOK
    <2>1. r \in Reqs /\ r # None
      BY NetAssumption DEF Known
    <2>2. \A s \in Slots : rc[s].req # r
      BY <2>1 DEF ServerInit, Unused
    <2>3. Working(r) = {} /\ exec[r] = 0
      BY <2>1, IdleOK DEF ServerInit, Working
    <2> QED
      BY <2>2, <2>3 DEF OneEntry, WorkOK, CountOK
  <1> QED
    BY <1>4, <1>5, <1>6, <1>7 DEF ServerInv

(* Every step of the server, with whatever is on the network.              *)
LEMMA ServerNextInv ==
    ASSUME ServerInv, ServerNext, kind' = kind
    PROVE  ServerInv'
  <1>1. ASSUME NEW d \in Nfsds, NEW m \in Calls, GetReq(d, m) PROVE ServerInv'
    <2>1. m.xid \in Reqs /\ net' \subseteq net /\ nfsrv_getcache(d, m.xid) /\ nfsd[d].pc = "idle"
      BY <1>1 DEF GetReq, Receive, Calls, At, ServerInv, NetOK
    <2> QED
      BY <2>1, GetcacheInv
  <1>2. ASSUME NEW d \in Nfsds, Search(d) PROVE ServerInv'
    <2>1. /\ nfsd[d].r \in Reqs /\ net' \subseteq net /\ nfsrv_getcache(d, nfsd[d].r)
          /\ nfsd[d].pc = "search"
      BY <1>2 DEF Search, At, ServerInv, NfsdOK
    <2> QED
      BY <2>1, GetcacheInv
  <1>3. ASSUME NEW d \in Nfsds, NfsdStep(d), ~Search(d) PROVE ServerInv'
    BY <1>3, TakeTailInv, CopiedInv, ExecuteInv, UpdateAgainInv, SavedInv DEF NfsdStep
  <1>4. CASE Crash
    BY <1>4, CrashInv
  <1> QED
    BY <1>1, <1>2, <1>3, <1>4 DEF ServerNext

(* What others do: calls are sent, datagrams are received and lost.        *)
LEMMA OthersInv ==
    ASSUME ServerInv, UNCHANGED <<serverVars, kind>>,
           \A m \in net' : m \in net \/ (m.type = "call" /\ m.xid \in Reqs)
    PROVE  ServerInv'
  <1>1. /\ nfsd' = nfsd /\ rc' = rc /\ lru' = lru /\ chain' = chain
        /\ exec' = exec /\ forgot' = forgot /\ twice' = twice /\ mixed' = mixed
        /\ kind' = kind
    BY DEF serverVars
  <1>2. ServerTypeOK' /\ EntryOK' /\ NfsdOK' /\ OneCopies' /\ SleepersOK'
    BY <1>1 DEF ServerInv, ServerTypeOK, EntryOK, NfsdOK, OneCopies, SleepersOK, Copying, Owns
  <1>3. KnownOK'
    BY <1>1 DEF ServerInv, KnownOK, Known, OneEntry, WorkOK, CountOK, Working
  <1>4. \A m \in Replies' : m \in Replies
    BY DEF Replies
  <1>5. NetOK'
    BY <1>1, <1>4 DEF ServerInv, NetOK
  <1> QED
    BY <1>2, <1>3, <1>5 DEF ServerInv

-----------------------------------------------------------------------------
(* The invariant says what is claimed of the server.                       *)
LEMMA InvImplies == ServerInv => OnceOnly /\ InProgress /\ ReplyRight /\ EntriesOK
  <1> SUFFICES ASSUME ServerInv PROVE OnceOnly /\ InProgress /\ ReplyRight /\ EntriesOK
    OBVIOUS
  <1>1. OnceOnly
    BY DEF ServerInv, KnownOK, CountOK, OnceOnly
  <1>2. InProgress
    <2>1. ASSUME NEW r \in Known PROVE Cardinality(Working(r)) <= 1
      <3>1. \A d, e \in Working(r) : d = e
        BY DEF ServerInv, KnownOK, WorkOK
      <3>2. CASE Working(r) = {}
        BY <3>2, FS_EmptySet
      <3>3. CASE Working(r) # {}
        <4>1. PICK d : Working(r) = {d}
          BY <3>1, <3>3
        <4>2. Cardinality({d}) = 1
          BY FS_Singleton
        <4> QED
          BY <4>1, <4>2
      <3> QED
        BY <3>2, <3>3
    <2>2. ASSUME NEW s \in Slots, rc[s].state = "RC_INPROG", rc[s].req \in Known
          PROVE  Working(rc[s].req) # {}
      BY <2>2 DEF ServerInv, KnownOK, WorkOK, Working
    <2> QED
      BY <2>1, <2>2 DEF InProgress
  <1>3. ReplyRight
    BY DEF ServerInv, NetOK, EntryOK, ReplyRight
  <1>4. EntriesOK
    BY DEF ServerInv, SleepersOK, EntriesOK
  <1> QED
    BY <1>1, <1>2, <1>3, <1>4

(* The server keeps its invariant, whatever requests come, and however     *)
(* often they come, through crashes, failures and reused mbufs.            *)
THEOREM ServerInvariant == OpenSpec => []ServerInv
  <1>1. ServerInv /\ [OpenNext]_openVars => ServerInv'
    <2> SUFFICES ASSUME ServerInv, [OpenNext]_openVars PROVE ServerInv'
      OBVIOUS
    <2>1. CASE ServerNext /\ UNCHANGED kind
      BY <2>1, ServerNextInv
    <2>2. CASE AnyClient /\ UNCHANGED serverVars /\ UNCHANGED kind
      <3>1. \A m \in net' : m.type = "call" /\ m.xid \in Reqs
        BY <2>2 DEF AnyClient, Call
      <3> QED
        BY <2>2, <3>1, OthersInv
    <2>3. CASE UNCHANGED openVars
      BY <2>3, OthersInv DEF openVars
    <2> QED
      BY <2>1, <2>2, <2>3 DEF OpenNext, ServerNext
  <1> QED
    BY <1>1, ServerInitInv, PTL DEF OpenSpec, OpenInit

(* nfsrv_getcache and nfsrv_updatecache have a request that may not be     *)
(* repeated carried out once, as long as the cache knows it.               *)
THEOREM ServerOnceOnly == OpenSpec => []OnceOnly
  BY ServerInvariant, InvImplies, PTL

(* One nfsd at a time works on a request that is known, and RC_INPROG is   *)
(* some nfsd's.                                                            *)
THEOREM ServerInProgress == OpenSpec => []InProgress
  BY ServerInvariant, InvImplies, PTL

(* What is sent for a request, or kept for it, is an execution of it:      *)
(* RC_LOCKED holds off everyone while it is copied.  Only requests of two  *)
(* hosts that a reused mbuf has mixed up are excepted.                     *)
THEOREM ServerReplyRight == OpenSpec => []ReplyRight
  BY ServerInvariant, InvImplies, PTL

(* Without reused mbufs, or with different xids, nobody is mistaken.       *)
Distinct == "reuse" \notin Faults \/ Twins = {}

LEMMA NothingMixed ==
    ASSUME Distinct, ServerTypeOK, mixed = {}, NEW r \in Reqs, NEW M \in Readings(r),
           NEW s \in Find(M)
    PROVE  Mixed(r, s) = {}
  <1>1. s \in Slots /\ s \in M
    BY DEF Find, Matches, ServerTypeOK
  <1>2. rc[s].req = r
    BY <1>1 DEF Distinct, Readings, Intact, Alike
  <1> QED
    BY <1>2 DEF Mixed

LEMMA MixedStays ==
    ASSUME Distinct, ServerInv, mixed = {}, ServerNext \/ UNCHANGED serverVars
    PROVE  mixed' = {}
  <1> USE DEF ServerInv
  <1>1. ASSUME NEW d \in Nfsds, NEW r \in Reqs, nfsrv_getcache(d, r) PROVE mixed' = {}
    <2>1. \/ UNCHANGED mixed
          \/ \E M \in Readings(r) : \E s \in Find(M) : mixed' = mixed \cup Mixed(r, s)
      BY <1>1 DEF nfsrv_getcache
    <2> QED
      BY <2>1, NothingMixed
  <1>2. ASSUME NEW d \in Nfsds, NEW r \in Reqs, NEW val, nfsrv_updatecache(d, r, val)
        PROVE  mixed' = {}
    <2>1. PICK M \in Readings(r) :
             CASE Find(M) # {} -> \E s \in Find(M) :
                    UpdateEntry(d, r, val, s) /\ mixed' = mixed \cup Mixed(r, s)
               [] Find(M) = {} /\ val # 0 ->
                    Answer(d, r, [of |-> r, val |-> val], rc, {}) /\ UNCHANGED mixed
               [] Find(M) = {} /\ val = 0 ->
                    rc' = Freed(d, rc) /\ Become(d, Idle, {}) /\ UNCHANGED <<net, mixed>>
      BY <1>2 DEF nfsrv_updatecache
    <2>2. CASE Find(M) # {}
      BY <2>1, <2>2, NothingMixed
    <2>3. CASE Find(M) = {}
      BY <2>1, <2>3
    <2> QED
      BY <2>2, <2>3
  <1>3. ASSUME NEW d \in Nfsds, NEW m \in Calls, GetReq(d, m) PROVE mixed' = {}
    <2>1. m.xid \in Reqs
      BY DEF Calls, NetOK
    <2> QED
      BY <1>1, <1>3, <2>1 DEF GetReq
  <1>4. ASSUME NEW d \in Nfsds, NfsdStep(d) PROVE mixed' = {}
    <2>1. CASE Search(d)
      BY <1>1, <2>1 DEF Search, At, NfsdOK
    <2>2. CASE Execute(d)
      BY <1>2, <2>2 DEF Execute, At, NfsdOK
    <2>3. CASE Update(d)
      BY <1>2, <2>3 DEF Update, At, NfsdOK
    <2>4. CASE TakeTail(d) \/ Copied(d) \/ Saved(d)
      BY <2>4 DEF TakeTail, Copied, Saved
    <2> QED
      BY <1>4, <2>1, <2>2, <2>3, <2>4 DEF NfsdStep
  <1>5. CASE Crash \/ UNCHANGED serverVars
    BY <1>5 DEF Crash, serverVars
  <1> QED
    BY <1>3, <1>4, <1>5 DEF ServerNext

(* Every reply goes to the caller whose request it answers, if mbufs keep  *)
(* what rc_nam points to, or if no two hosts use the same xid for the same *)
(* procedure: one of the two is all that the cache needs.                  *)
THEOREM ServerRepliesOwn ==
    ASSUME Distinct
    PROVE  OpenSpec => []RepliesOwn
  <1>1. OpenInit => mixed = {}
    BY DEF OpenInit, ServerInit
  <1>2. ServerInv /\ mixed = {} /\ [OpenNext]_openVars => (mixed = {})'
    BY MixedStays DEF OpenNext, ServerNext, openVars
  <1>3. ServerInv /\ mixed = {} => RepliesOwn
    BY DEF ServerInv, NetOK, RepliesOwn
  <1> QED
    BY <1>1, <1>2, <1>3, ServerInvariant, PTL DEF OpenSpec

(* The list, the chain and the entries stay well formed, and who sleeps    *)
(* for RC_LOCKED is woken when it is cleared.                              *)
THEOREM ServerEntriesOK == OpenSpec => []EntriesOK
  BY ServerInvariant, InvImplies, PTL
=============================================================================
