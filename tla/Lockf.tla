-------------------------------- MODULE Lockf --------------------------------
(***************************************************************************)
(* Advisory locks: sys/ufs/ufs_lockf.c under fcntl, flock and closef of    *)
(* sys/kern/kern_descrip.c.                                                *)
(*                                                                         *)
(* A process runs in the kernel until it sleeps, so one pass of lf_setlock *)
(* or lf_clearlock is one step, up to its tsleep or to a MALLOC that       *)
(* sleeps.  A lock that waits is known by its process, which can only wait *)
(* for one; lf_next of such a lock is the lock that it sleeps for, unless  *)
(* dangling says that it names freed memory.                               *)
(***************************************************************************)
EXTENDS Integers, Sequences, FiniteSets

CONSTANTS Procs, Files, Inodes,
          InodeOf,          \* the inode of each open file
          Fds,              \* process p may have a descriptor of file f
          Ranges,           \* what fcntl asks for: <<start, end>>
          MaxByte,          \* bound: stands for all bytes after every range
          Types,            \* lock types that are asked for
          Posix, Flock,     \* do the processes use fcntl, flock?
          Signals,          \* do signals come in during a sleep?
          MallocSleeps,     \* may MALLOC sleep in lf_split?
          maxlockdepth,
          None

EOF == -1                   \* lf_end of a lock without an end

ASSUME LockfAssumption ==
    /\ InodeOf \in [Files -> Inodes]
    /\ Fds \subseteq Procs \X Files
    /\ Procs \cap Files = {} /\ None \notin Procs
    /\ MaxByte \in Nat /\ maxlockdepth \in Nat
    /\ \A r \in Ranges : r[1] \in 0..MaxByte /\ r[2] \in (r[1]..(MaxByte - 1)) \cup {EOF}
    /\ Types \subseteq {"F_RDLCK", "F_WRLCK"}

VARIABLES i_lockf,          \* the list of locks of each inode
          pc, req,          \* where a process is, with which request
          dangling,         \* its lf_next names freed memory
          fds,              \* descriptors in use
          SADVLCK, FHASLOCK \* flags of struct proc and struct file

vars == <<i_lockf, pc, req, dangling, fds, SADVLCK, FHASLOCK>>

Ids == Procs \cup Files     \* lf_id: a process (F_POSIX) or a file (F_FLOCK)

Init ==
    /\ i_lockf = [ino \in Inodes |-> <<>>]
    /\ pc = [p \in Procs |-> "user"] /\ req = [p \in Procs |-> None]
    /\ dangling = [p \in Procs |-> FALSE]
    /\ fds = Fds /\ SADVLCK = {} /\ FHASLOCK = {}

-----------------------------------------------------------------------------
Locks(list) == {list[i] : i \in DOMAIN list}

(* lf_findoverlap: how lock lf of the list lies to lock.                   *)
Disjoint(lf, lock) ==
    \/ lf.end # EOF /\ lock.start > lf.end
    \/ lock.end # EOF /\ lf.start > lock.end

ovcase_NoEOF(lf, lock) ==
    CASE Disjoint(lf, lock) -> 0
      [] ~Disjoint(lf, lock) ->
         IF lf.start = lock.start /\ lf.end = lock.end THEN 1
         ELSE IF lf.start <= lock.start /\ (lf.end >= lock.end \/ lf.end = EOF) THEN 2
         ELSE IF lock.start <= lf.start
                 /\ (lock.end = EOF \/ (lf.end # EOF /\ lock.end >= lf.end)) THEN 3
         ELSE IF lf.start < lock.start THEN 4 ELSE 5
ovcase(lf, lock) ==
    CASE Disjoint(lf, lock) -> 0
      [] ~Disjoint(lf, lock) ->
         IF lf.start = lock.start /\ lf.end = lock.end THEN 1
         ELSE IF lf.start <= lock.start /\ lock.end # EOF
                 /\ (lf.end >= lock.end \/ lf.end = EOF) THEN 2
         ELSE IF lock.start <= lf.start
                 /\ (lock.end = EOF \/ (lf.end # EOF /\ lock.end >= lf.end)) THEN 3
         ELSE IF lf.start < lock.start THEN 4 ELSE 5

(* lf_findoverlap(SELF) looks no further than this lock of the owner.      *)
Beyond_Never(lf, lock) == FALSE
Beyond(lf, lock) == lock.end # EOF /\ lf.start > lock.end

(* lf_getblock: the places of the locks that block lock; the first counts. *)
Blocking_ReadAnyway(lf, lock) ==
    lf.id # lock.id /\ ~Disjoint(lf, lock) /\ lock.type = "F_WRLCK"
Blocking(lf, lock) ==
    /\ lf.id # lock.id /\ ~Disjoint(lf, lock)
    /\ "F_WRLCK" \in {lf.type, lock.type}
lf_getblock(lock) ==
    {i \in DOMAIN i_lockf[lock.ino] :
        /\ Blocking(i_lockf[lock.ino][i], lock)
        /\ \A j \in 1..(i - 1) : ~Blocking(i_lockf[lock.ino][j], lock)}

(* What lf_split leaves of lf before and after lock; those who sleep for   *)
(* lf stay with the first part.                                            *)
Before(lf, lock) ==
    IF lf.start < lock.start THEN <<[lf EXCEPT !.end = lock.start - 1]>> ELSE <<>>
After(lf, lock) ==
    IF lock.end # EOF /\ (lf.end = EOF \/ lf.end > lock.end)
    THEN <<[lf EXCEPT !.start = lock.end + 1, !.sleepers = {}]>> ELSE <<>>

(* lf_wakelock: nobody sleeps for it any more.                             *)
Woken(s) == [i \in DOMAIN s |-> [s[i] EXCEPT !.sleepers = {}]]

(* lf_clearlock and lf_setlock pass over the list once.  pre is what they  *)
(* have behind them up to the place of the lock, post what comes after it; *)
(* freed says that the lock was not needed.                                *)
Pass(lock) == [pre |-> <<>>, post |-> <<>>, lock |-> lock, linked |-> FALSE,
               freed |-> FALSE, done |-> FALSE, woken |-> {}, taken |-> {}]

lf_clearlock_case(a, lf) ==
    LET c == ovcase(lf, a.lock)
        keep == [a EXCEPT !.pre = Append(@, lf)]
        cut  == [a EXCEPT !.pre = @ \o Woken(Before(lf, a.lock)) \o Woken(After(lf, a.lock)),
                          !.woken = @ \cup lf.sleepers]
    IN  IF a.done \/ lf.id # a.lock.id THEN keep
        ELSE IF c = 0 THEN [keep EXCEPT !.done = Beyond(lf, a.lock)]
        ELSE [cut EXCEPT !.done = c \in {1, 2, 5}]

lf_clearlock(list, lock) ==
    LET a[n \in 0..Len(list)] ==
            IF n = 0 THEN Pass(lock) ELSE lf_clearlock_case(a[n - 1], list[n])
    IN  [list |-> a[Len(list)].pre, woken |-> a[Len(list)].woken, taken |-> {}]

lf_setlock_case_NoDowngrade(a, lf) ==
    LET lock == a.lock
        c    == ovcase(lf, lock)
        put(s) == IF a.linked THEN [a EXCEPT !.post = @ \o s] ELSE [a EXCEPT !.pre = @ \o s]
    IN  IF a.done \/ lf.id # lock.id \/ (c = 0 /\ ~Beyond(lf, lock)) THEN put(<<lf>>)
        ELSE IF c = 0 THEN [a EXCEPT !.post = Append(@, lf), !.linked = TRUE, !.done = TRUE]
        ELSE IF c = 1 \/ (c = 2 /\ lf.type = lock.type)
        THEN [put(<<[lf EXCEPT !.type = lock.type]>>)
                 EXCEPT !.freed = TRUE, !.linked = TRUE, !.done = TRUE]
        ELSE IF c = 3
        THEN [a EXCEPT !.linked = TRUE, !.lock.sleepers = @ \cup lf.sleepers,
                       !.taken = @ \cup lf.sleepers]
        ELSE [a EXCEPT !.pre  = @ \o Woken(Before(lf, lock)),
                       !.post = @ \o Woken(After(lf, lock)),
                       !.linked = TRUE, !.done = c \in {2, 5}, !.woken = @ \cup lf.sleepers]

(* The six cases of lf_setlock.  The lock is linked where the first of its *)
(* owner's locks was found that it overlaps, or that lies beyond it, and   *)
(* is dropped when a lock of the list can stand for it.                    *)
lf_setlock_case(a, lf) ==
    LET lock == a.lock
        c    == ovcase(lf, lock)
        put(s) == IF a.linked THEN [a EXCEPT !.post = @ \o s] ELSE [a EXCEPT !.pre = @ \o s]
        downgrade == lock.type = "F_RDLCK" /\ lf.type = "F_WRLCK"
    IN  IF a.done \/ lf.id # lock.id \/ (c = 0 /\ ~Beyond(lf, lock)) THEN put(<<lf>>)
        ELSE IF c = 0 THEN [a EXCEPT !.post = Append(@, lf), !.linked = TRUE, !.done = TRUE]
        ELSE IF c = 1 \/ (c = 2 /\ lf.type = lock.type)
        THEN [put(<<[lf EXCEPT !.type = lock.type,
                               !.sleepers = IF downgrade THEN {} ELSE @]>>)
                 EXCEPT !.freed = TRUE, !.linked = TRUE, !.done = TRUE,
                        !.woken = IF downgrade THEN @ \cup lf.sleepers ELSE @]
        ELSE IF c = 3 /\ downgrade THEN [a EXCEPT !.linked = TRUE, !.woken = @ \cup lf.sleepers]
        ELSE IF c = 3
        THEN [a EXCEPT !.linked = TRUE, !.lock.sleepers = @ \cup lf.sleepers,
                       !.taken = @ \cup lf.sleepers]
        ELSE [a EXCEPT !.pre  = @ \o Woken(Before(lf, lock)),
                       !.post = @ \o Woken(After(lf, lock)),
                       !.linked = TRUE, !.done = c \in {2, 5}, !.woken = @ \cup lf.sleepers]

Linked(a) == IF a.freed THEN <<>> ELSE <<a.lock>>
lf_setlock(list, lock) ==
    LET a[n \in 0..Len(list)] ==
            IF n = 0 THEN Pass(lock) ELSE lf_setlock_case(a[n - 1], list[n])
        end == a[Len(list)]
    IN  [list |-> end.pre \o Linked(end) \o end.post,
         woken |-> end.woken, taken |-> end.taken]

-----------------------------------------------------------------------------
(* The list r.list takes the place of an inode's list, r.woken are woken,  *)
(* and lf_next of r.taken names a lock that was freed.                     *)
Update(p, ino, r, where) ==
    /\ i_lockf' = [i_lockf EXCEPT ![ino] = r.list]
    /\ pc' = [q \in Procs |-> IF q = p THEN where
                              ELSE IF q \in r.woken /\ pc[q] = "asleep" THEN "woken"
                              ELSE pc[q]]
    /\ dangling' = [q \in Procs |-> q \notin r.woken /\ (dangling[q] \/ q \in r.taken)]

Stay(p, where) ==
    pc' = [pc EXCEPT ![p] = where] /\ UNCHANGED <<i_lockf, dangling>>

(* The deadlock check: from the owner of the lock in the way along the     *)
(* locks that owners sleep for.  garbage is what a freed lock is read as.  *)
Holders(q) == {lf \in UNION {Locks(i_lockf[ino]) : ino \in Inodes} : q \in lf.sleepers}
Host(q)    == CHOOSE lf \in Holders(q) : TRUE

wproc(q, garbage) ==
    IF dangling[q] THEN garbage
    ELSE IF Host(q).id \in Procs THEN Host(q).id ELSE None

EDEADLK_OffByOne(lock, block, garbage) ==
    LET chain[n \in 0..maxlockdepth] ==
            IF n = 0 THEN block.id
            ELSE IF chain[n - 1] = None \/ pc[chain[n - 1]] # "asleep" THEN None
            ELSE wproc(chain[n - 1], garbage)
    IN  /\ {lock.id, block.id} \subseteq Procs
        /\ \E n \in 1..(maxlockdepth - 1) : chain[n] = lock.id
EDEADLK(lock, block, garbage) ==
    LET chain[n \in 0..maxlockdepth] ==
            IF n = 0 THEN block.id
            ELSE IF chain[n - 1] = None \/ pc[chain[n - 1]] # "asleep" THEN None
            ELSE wproc(chain[n - 1], garbage)
    IN  /\ {lock.id, block.id} \subseteq Procs
        /\ \E n \in 1..maxlockdepth : chain[n] = lock.id

(* Will the lock leave three pieces of one of its owner's, so that         *)
(* lf_split needs memory?                                                  *)
Splits(lf, lock) == /\ lf.id = lock.id /\ ovcase(lf, lock) = 2
                    /\ lf.type # lock.type
                    /\ lf.start < lock.start /\ lf.end # lock.end
NeedsMalloc(lock) == \E lf \in Locks(i_lockf[lock.ino]) : Splits(lf, lock)

(* One pass of lf_setlock through its loop: sleep, fail or link the lock.  *)
setlock(p, lock, wait) ==
    LET list == i_lockf[lock.ino] IN
    \/ /\ lf_getblock(lock) = {}
       /\ Update(p, lock.ino, lf_setlock(list, lock), "user")
       /\ req' = [req EXCEPT ![p] = None]
    \/ /\ lf_getblock(lock) = {}
       /\ MallocSleeps /\ NeedsMalloc(lock)
       /\ Stay(p, "set") /\ req' = [req EXCEPT ![p] = lock]
    \/ /\ lf_getblock(lock) # {} /\ ~wait         \* EAGAIN
       /\ Stay(p, "user") /\ req' = [req EXCEPT ![p] = None]
    \/ /\ wait
       /\ \E i \in lf_getblock(lock), garbage \in Procs \cup {None} :
            IF EDEADLK(lock, list[i], garbage)
            THEN Stay(p, "user") /\ req' = [req EXCEPT ![p] = None]
            ELSE LET queue == [list EXCEPT ![i].sleepers = @ \cup {p}]
                 IN  /\ Update(p, lock.ino,
                               IF lock.id \in Files /\ lock.type = "F_WRLCK"
                               THEN lf_clearlock(queue, lock)
                               ELSE [list |-> queue, woken |-> {}, taken |-> {}], "asleep")
                     /\ req' = [req EXCEPT ![p] = lock]

(* lf_clearlock, which wakes the sleepers of a lock before it splits it.   *)
clearlock(p, lock) ==
    \/ /\ Update(p, lock.ino, lf_clearlock(i_lockf[lock.ino], lock), "user")
       /\ req' = [req EXCEPT ![p] = None]
    \/ /\ MallocSleeps /\ NeedsMalloc(lock)
       /\ LET list == i_lockf[lock.ino]
              i == CHOOSE i \in DOMAIN list : Splits(list[i], lock)
          IN  Update(p, lock.ino, [list  |-> [list EXCEPT ![i].sleepers = {}],
                                   woken |-> list[i].sleepers, taken |-> {}], "clear")
       /\ req' = [req EXCEPT ![p] = lock]

(* lf_split goes on, for lf_setlock or for lf_clearlock, when MALLOC has   *)
(* the memory.                                                             *)
split(p) ==
    /\ pc[p] \in {"set", "clear"}
    /\ LET lock == req[p]
           list == i_lockf[lock.ino]
           i == CHOOSE i \in DOMAIN list : Splits(list[i], lock)
       IN  Update(p, lock.ino,
                  IF pc[p] = "set" THEN lf_setlock(list, lock)
                  ELSE [list |-> SubSeq(list, 1, i - 1) \o Before(list[i], lock)
                                 \o After(list[i], lock) \o SubSeq(list, i + 1, Len(list)),
                        woken |-> {}, taken |-> {}],
                  "user")
    /\ req' = [req EXCEPT ![p] = None]
    /\ UNCHANGED <<fds, SADVLCK, FHASLOCK>>

-----------------------------------------------------------------------------
Lock(id, ino, type, r) ==
    [id |-> id, ino |-> ino, type |-> type, start |-> r[1], end |-> r[2], sleepers |-> {}]
WholeFile == <<0, EOF>>

(* fcntl F_SETLK and F_SETLKW.                                             *)
fcntl(p, f) ==
    /\ Posix /\ pc[p] = "user" /\ <<p, f>> \in fds
    /\ \E r \in Ranges :
        \/ /\ \E type \in Types, wait \in BOOLEAN :
                setlock(p, Lock(p, InodeOf[f], type, r), wait)
           /\ SADVLCK' = SADVLCK \cup {p}
        \/ /\ clearlock(p, Lock(p, InodeOf[f], "F_UNLCK", r))
           /\ UNCHANGED SADVLCK
    /\ UNCHANGED <<fds, FHASLOCK>>

flock(p, f) ==
    /\ Flock /\ pc[p] = "user" /\ <<p, f>> \in fds
    /\ \/ /\ \E type \in Types, wait \in BOOLEAN :
                setlock(p, Lock(f, InodeOf[f], type, WholeFile), wait)
          /\ FHASLOCK' = FHASLOCK \cup {f}
       \/ /\ clearlock(p, Lock(f, InodeOf[f], "F_UNLCK", WholeFile))
          /\ FHASLOCK' = FHASLOCK \ {f}
    /\ UNCHANGED <<fds, SADVLCK>>

(* p has been woken in lf_setlock and looks again.                         *)
retry(p) ==
    /\ pc[p] = "woken"
    /\ setlock(p, req[p], TRUE)
    /\ UNCHANGED <<fds, SADVLCK, FHASLOCK>>

signal(p) ==
    /\ Signals /\ pc[p] = "asleep"
    /\ Stay(p, "signalled")
    /\ UNCHANGED <<req, fds, SADVLCK, FHASLOCK>>

(* tsleep has failed: p takes its lock off the list it waits on, if it is  *)
(* still on one.  From a lock that was freed it may not get there.         *)
Unlinked(p) ==
    [ino \in Inodes |-> [i \in DOMAIN i_lockf[ino] |->
        [i_lockf[ino][i] EXCEPT !.sleepers = @ \ {p}]]]
interrupted_NotUnlinked(p) ==
    /\ pc[p] = "signalled"
    /\ UNCHANGED i_lockf
    /\ pc' = [pc EXCEPT ![p] = "user"] /\ req' = [req EXCEPT ![p] = None]
    /\ dangling' = [dangling EXCEPT ![p] = FALSE]
    /\ UNCHANGED <<fds, SADVLCK, FHASLOCK>>
interrupted(p) ==
    /\ pc[p] = "signalled"
    /\ i_lockf' \in {Unlinked(p)} \cup (IF dangling[p] THEN {i_lockf} ELSE {})
    /\ pc' = [pc EXCEPT ![p] = "user"] /\ req' = [req EXCEPT ![p] = None]
    /\ dangling' = [dangling EXCEPT ![p] = FALSE]
    /\ UNCHANGED <<fds, SADVLCK, FHASLOCK>>

(* closef: every close ends the record locks of the process, the last one  *)
(* of a file the lock of the file.                                         *)
closef_FileLockOnly(p, f) ==
    /\ pc[p] = "user" /\ <<p, f>> \in fds
    /\ LET ino  == InodeOf[f]
           last == ~\E q \in Procs \ {p} : <<q, f>> \in fds
           none == [list |-> i_lockf[ino], woken |-> {}, taken |-> {}]
           r    == IF f \in FHASLOCK
                   THEN lf_clearlock(i_lockf[ino], Lock(p, ino, "F_UNLCK", WholeFile)) ELSE none
           s    == IF last /\ f \in FHASLOCK
                   THEN lf_clearlock(r.list, Lock(f, ino, "F_UNLCK", WholeFile))
                   ELSE [none EXCEPT !.list = r.list]
       IN  /\ Update(p, ino, [s EXCEPT !.woken = @ \cup r.woken], "user")
           /\ FHASLOCK' = IF last THEN FHASLOCK \ {f} ELSE FHASLOCK
    /\ fds' = fds \ {<<p, f>>}
    /\ UNCHANGED <<req, SADVLCK>>
closef(p, f) ==
    /\ pc[p] = "user" /\ <<p, f>> \in fds
    /\ LET ino  == InodeOf[f]
           last == ~\E q \in Procs \ {p} : <<q, f>> \in fds
           none == [list |-> i_lockf[ino], woken |-> {}, taken |-> {}]
           r    == IF p \in SADVLCK
                   THEN lf_clearlock(i_lockf[ino], Lock(p, ino, "F_UNLCK", WholeFile)) ELSE none
           s    == IF last /\ f \in FHASLOCK
                   THEN lf_clearlock(r.list, Lock(f, ino, "F_UNLCK", WholeFile))
                   ELSE [none EXCEPT !.list = r.list]
       IN  /\ Update(p, ino, [s EXCEPT !.woken = @ \cup r.woken], "user")
           /\ FHASLOCK' = IF last THEN FHASLOCK \ {f} ELSE FHASLOCK
    /\ fds' = fds \ {<<p, f>>}
    /\ UNCHANGED <<req, SADVLCK>>

(* p gets the descriptor back, by an open or from its parent.              *)
open(p, f) ==
    /\ <<p, f>> \in Fds \ fds /\ pc[p] = "user"
    /\ fds' = fds \cup {<<p, f>>}
    /\ UNCHANGED <<i_lockf, pc, req, dangling, SADVLCK, FHASLOCK>>

Next == \E p \in Procs :
    \/ retry(p) \/ signal(p) \/ interrupted(p) \/ split(p)
    \/ \E f \in Files : fcntl(p, f) \/ flock(p, f) \/ closef(p, f) \/ open(p, f)

Spec == Init /\ [][Next]_vars

-----------------------------------------------------------------------------
Covers(lf, b) == lf.start <= b /\ (lf.end = EOF \/ b <= lf.end)

(* What a list amounts to, byte by byte.                                   *)
Mode(list, id) == [b \in 0..MaxByte |->
    {lf.type : lf \in {l \in Locks(list) : l.id = id /\ Covers(l, b)}}]
Held == [id \in Ids |-> [ino \in Inodes |-> Mode(i_lockf[ino], id)]]

Region(r) == {b \in 0..MaxByte : r[1] <= b /\ (r[2] = EOF \/ b <= r[2])}
Advisory  == INSTANCE RangeLock WITH
    Bytes <- 0..MaxByte, held <- Held, Regions <- {Region(r) : r \in Ranges \cup {WholeFile}}

(* Whatever lf_setlock and lf_clearlock split, shrink, replace or join, a  *)
(* call changes exactly the bytes it names to the mode it asks for, of no  *)
(* other owner, and only when no other owner is in the way.                *)
AdvisorySpec == Advisory!Spec

(* The passes over the list do to the bytes what the call asks for: after  *)
(* any request that could come next, on any list that can come about, the  *)
(* owner has exactly the named bytes in the new mode, and nothing else has *)
(* changed.                                                                *)
ExactBytes == \A ino \in Inodes, id \in Ids, r \in Ranges, type \in Types \cup {"F_UNLCK"} :
    LET lock == Lock(id, ino, type, r)
        list == i_lockf[ino]
        new  == IF type = "F_UNLCK" THEN lf_clearlock(list, lock).list
                ELSE lf_setlock(list, lock).list
    IN  \A other \in Ids : Mode(new, other) =
            [b \in 0..MaxByte |-> IF other # id \/ b \notin Region(r) THEN Mode(list, other)[b]
                                  ELSE {type} \ {"F_UNLCK"}]

(* A write lock is the only lock on its bytes (fcntl(2)).                  *)
WriteExclusive == Advisory!Exclusive

(* The locks of one owner do not overlap and come in order of their start: *)
(* lf_findoverlap(SELF) stops at the first that lies beyond.               *)
OwnSorted == \A ino \in Inodes : \A i, j \in DOMAIN i_lockf[ino] :
    i < j /\ i_lockf[ino][i].id = i_lockf[ino][j].id =>
        i_lockf[ino][i].end # EOF /\ i_lockf[ino][i].end < i_lockf[ino][j].start

(* A process sleeps in lf_setlock only on the list of a lock that is still *)
(* there and still in its way, and will wake it when it goes.              *)
NoMissedWakeup == \A p \in Procs : pc[p] = "asleep" =>
    \E lf \in Holders(p) : lf.ino = req[p].ino /\ Blocking(lf, req[p])

(* Only locks that wait are on a list of waiting locks: one that was freed *)
(* when its process was interrupted has been taken off (the case that      *)
(* lf_setlock reports as "lost lock").                                     *)
NoLostLock == \A p \in Procs :
    pc[p] \notin {"asleep", "signalled"} => Holders(p) = {}

OwnersOf(id) == IF id \in Procs THEN {id} ELSE {q \in Procs : <<q, id>> \in fds}
(* There is no set of processes that wait only for one another.            *)
NoDeadlock == \A S \in (SUBSET Procs) \ {{}} :
    \E p \in S : pc[p] # "asleep" \/ ~(OwnersOf(Host(p).id) \subseteq S)

(* No lock outlives its owner: a process's locks on a file end when it     *)
(* closes the file, a file's with its last descriptor.                     *)
LocksEnd == \A ino \in Inodes : \A lf \in Locks(i_lockf[ino]) :
    \E p \in Procs, f \in Files :
        <<p, f>> \in fds /\ InodeOf[f] = ino /\ lf.id \in {p, f}
=============================================================================
