------------------------------- MODULE Vnode -------------------------------
(***************************************************************************)
(* The life of a vnode: the name cache (sys/kern/vfs_cache.c), the vnode   *)
(* layer (sys/kern/vfs_subr.c) and a file system that uses both, the       *)
(* MS-DOS file system (sys/msdosfs), composed.                             *)
(*                                                                         *)
(* Processes open, create, close and unlink the files of one directory,    *)
(* the root of a mounted file system, and unmount it.  They share a fixed  *)
(* number of vnodes (numvnodes has reached desiredvnodes), so a vnode is   *)
(* recycled while other processes look its file up, remove it or flush it. *)
(*                                                                         *)
(* The kernel is not preemptive: a process runs until it sleeps.  cpu is   *)
(* the process that has not slept since its last step, and no other        *)
(* process runs until it does.  A step that waits for a transfer gives up  *)
(* the processor whether or not the code would have found the block in     *)
(* the buffer cache.                                                       *)
(*                                                                         *)
(* The directory fits one block, whose buffer bp stands for; its blocks'   *)
(* contents are in dir.  v_id is a 32-bit counter; all that is ever asked  *)
(* of it is whether a vnode still has the number it had, so a cache entry  *)
(* says of each of its two numbers whether it is still the vnode's.  That  *)
(* a vnode is given a number again that an entry has recorded of it is     *)
(* left out: the entry must have been made after nextvnodeid wrapped, with *)
(* a number from before, and outlive 2^32 purges.                          *)
(*                                                                         *)
(* The name cache has entries of other directories too, which are not in   *)
(* nc: the LRU chain is not empty when an entry is dropped from it.  (If   *)
(* it were, cache_lookup and cache_purgevfs would store through null.)     *)
(***************************************************************************)
EXTENDS Integers, Sequences, FiniteSets

CONSTANTS Procs, Vnodes, Names,
          None,             \* no process, vnode, name or channel
          NSlots,           \* entries that the directory has room for
          MaxCache,         \* name cache entries: desiredvnodes
          Mixes,            \* the mixes of calls, of which one is made
          MallocSleeps,     \* may malloc(M_WAITOK) sleep for memory?
          IdWraps           \* subset of BOOLEAN: may nextvnodeid wrap to 0?

ASSUME VnodeAssumption ==
    /\ None \notin Procs \cup Vnodes \cup Names
    /\ None \notin {"open", "create", "unlink", "unmount", "newvnode", "rele"}
    /\ None \notin {"de", "vx"} \X Vnodes
    /\ IsFiniteSet(Procs) /\ IsFiniteSet(Vnodes) /\ NSlots \in Nat /\ MaxCache \in Nat \ {0}
    /\ Mixes \subseteq SUBSET {"open", "create", "unlink", "write", "unmount"}
    /\ MallocSleeps \in BOOLEAN /\ FALSE \in IdWraps /\ IdWraps \subseteq BOOLEAN

VARIABLES vn,           \* struct vnode and its denode, per vnode
          vfree,        \* vfreeh: the free list
          mntlist,      \* mnt_mounth: the vnodes of the file system
          nc,           \* the name cache, the last entered first
          numcache,
          dir,          \* the directory: the name in each slot
          bp,           \* who has the buffer of the directory's block
          cov,          \* who has the lock of the vnode mounted on
          mlock,        \* MNT_MLOCK: who unmounts
          mounted,
          st,           \* where each process is in which call
          held,         \* the open file of each process
          wchan,        \* what it sleeps on
          calls,        \* the calls that the processes make: constant
          cpu,          \* the process that has not given up the processor
          halted        \* what ended defined behaviour: see Recycle, VflushEnd

fs   == <<dir, bp, cov, mlock, mounted>>
vars == <<vn, vfree, mntlist, nc, numcache, fs, st, held, wchan, calls, cpu, halted>>

Slots    == 1..NSlots
RootSlot == 0

(* A vnode without a file: v_type VBAD, operations dead_vnodeops.          *)
NoFile == [use |-> 0, xlock |-> FALSE, xwant |-> FALSE, bad |-> TRUE,
           lock |-> None, want |-> FALSE, upd |-> FALSE,
           slot |-> None, name |-> None, ref |-> 0, del |-> FALSE]
(* A process that is not in a call.                                        *)
NoCall == [pc |-> "idle", call |-> None, name |-> None, slot |-> None,
           dvp |-> None, vp |-> None, ret |-> None,
           gvp |-> None, gret |-> None, rel |-> <<>>, keep |-> FALSE,
           nvp |-> None, busy |-> FALSE]

Init ==
    /\ vn = [v \in Vnodes |-> NoFile]
    /\ vfree \in {f \in [1..Cardinality(Vnodes) -> Vnodes] :
                     \A i, j \in DOMAIN f : f[i] = f[j] => i = j}
    /\ mntlist = <<>> /\ nc = <<>> /\ numcache = 0
    /\ dir \in {d \in [Slots -> Names \cup {None}] :
                   \A s, t \in Slots : d[s] = d[t] => s = t \/ d[s] = None}
    /\ bp = None /\ cov = None /\ mlock = None /\ mounted = TRUE
    /\ st = [p \in Procs |-> NoCall]
    /\ held = [p \in Procs |-> None]
    /\ wchan = [p \in Procs |-> None]
    /\ calls \in Mixes /\ cpu = None /\ halted = None

-----------------------------------------------------------------------------
(* Running, sleeping and waking.                                           *)

(* The end of a call: the vnodes that p still has to give up, and whether  *)
(* it keeps its file.                                                      *)
Releasing(r, vs, keep) ==
    [NoCall EXCEPT !.pc = "rele", !.dvp = r.dvp, !.vp = r.vp, !.rel = vs, !.keep = keep]

At(p, label) == /\ halted = None /\ cpu \in {None, p} /\ wchan[p] = None
                /\ st[p].pc = label

(* p runs on, or gives up the processor without sleeping on a channel.     *)
Run(p)   == cpu' = p    /\ UNCHANGED wchan
Yield(p) == cpu' = None /\ UNCHANGED wchan
Sleep(p, chan) == cpu' = None /\ wchan' = [wchan EXCEPT ![p] = chan]

DeChan(v) == <<"de", v>>        \* tsleep on the denode
VxChan(v) == <<"vx", v>>        \* sleep on the vnode
(* wakeup on a set of channels, after which p runs on.                     *)
Wakeup(p, chans) ==
    /\ wchan' = [q \in Procs |-> IF wchan[q] \in chans THEN None ELSE wchan[q]]
    /\ cpu' = p

Goto(p, label) == st' = [st EXCEPT ![p].pc = label]

(* An element is unlinked from a list: the one at place i, or x.           *)
InSeq(x, s)   == \E i \in DOMAIN s : s[i] = x
Unlink(s, i)  == SubSeq(s, 1, i - 1) \o SubSeq(s, i + 1, Len(s))
Without(s, x) == IF InSeq(x, s) THEN Unlink(s, CHOOSE i \in DOMAIN s : s[i] = x) ELSE s

(* deunlock: who waits, waits on DEWANT.                                   *)
Unlocked(r) == [r EXCEPT !.lock = None, !.want = FALSE]
Waiters_Never(r, v) == {}    \* mutant: deunlock without its wakeup
Waiters(r, v) == IF r.want THEN {DeChan(v)} ELSE {}

(* A process waits for the lock of v's denode: deget, delock.              *)
WaitDe(p, v) ==
    /\ vn' = [vn EXCEPT ![v].want = TRUE]
    /\ Sleep(p, DeChan(v))
(* It waits for v to be cleaned out: vget, vgone, chkvnlock.               *)
WaitVx(p, v) ==
    /\ vn' = [vn EXCEPT ![v].xwant = TRUE]
    /\ Sleep(p, VxChan(v))

-----------------------------------------------------------------------------
(* The name cache.                                                         *)

(* Mutant: a vnode that is cleaned out or reused keeps its v_id.           *)
cache_purge_Forgotten(v, wrap) == nc

(* cache_purge: a new v_id for v.  No entry names v by its number any      *)
(* more; when the counter wraps, none names anything.                      *)
cache_purge(v, wrap) ==
    [i \in DOMAIN nc |->
        [nc[i] EXCEPT !.dvpid = @ /\ nc[i].dvp # v /\ ~wrap,
                      !.vpid  = @ /\ nc[i].vp # v /\ ~wrap]]

(* cache_lookup's search of the hash chain.                                *)
Matches(p) == {i \in DOMAIN nc : /\ nc[i].dvp = st[p].dvp /\ nc[i].dvpid
                                 /\ nc[i].name = st[p].name}
FirstMatch(p) == CHOOSE i \in Matches(p) : \A j \in Matches(p) : i <= j
DropEntry(i)  == Unlink(nc, i)

(* lookup's docache: a name that is deleted is not kept.                   *)
makeentry(p) == st[p].call # "unlink"

(* Mutant: the entry that says there is no such file stays when one is     *)
(* created.                                                                *)
CacheMiss_KeepsNegative(p) ==
    /\ At(p, "cache")
    /\ IF Matches(p) = {} THEN nc' = nc
       ELSE LET e == nc[FirstMatch(p)] IN
            IF e.vp = None /\ st[p].call = "create" THEN nc' = nc
            ELSE /\ ~makeentry(p) \/ (e.vp # None /\ ~e.vpid)
                 /\ nc' = DropEntry(FirstMatch(p))
    /\ Goto(p, "search") /\ Run(p)
    /\ UNCHANGED <<vn, vfree, mntlist, numcache, fs, held, halted>>

(* cache_lookup finds nothing, or an entry that it drops: one for a name   *)
(* that is to be deleted or created, or one whose vnode has another file.  *)
CacheMiss(p) ==
    /\ At(p, "cache")
    /\ IF Matches(p) = {} THEN nc' = nc
       ELSE LET e == nc[FirstMatch(p)] IN
            /\ \/ ~makeentry(p)
               \/ e.vp = None /\ st[p].call = "create"
               \/ e.vp # None /\ ~e.vpid
            /\ nc' = DropEntry(FirstMatch(p))
    /\ Goto(p, "search") /\ Run(p)
    /\ UNCHANGED <<vn, vfree, mntlist, numcache, fs, held, halted>>

CacheNegative(p) ==
    /\ At(p, "cache")
    /\ makeentry(p) /\ Matches(p) # {} /\ st[p].call # "create"
    /\ nc[FirstMatch(p)].vp = None
    /\ Goto(p, "enoent") /\ Run(p)
    /\ UNCHANGED <<vn, vfree, mntlist, nc, numcache, fs, held, halted>>

(* Mutant: vget leaves the vnode on the free list.                         *)
CacheHit_StaysFree(p) ==
    /\ At(p, "cache")
    /\ makeentry(p) /\ Matches(p) # {}
    /\ LET v == nc[FirstMatch(p)].vp IN
       /\ v # None /\ nc[FirstMatch(p)].vpid
       /\ IF vn[v].xlock
          THEN WaitVx(p, v) /\ Goto(p, "cfail")
          ELSE /\ vn' = [vn EXCEPT ![v].use = @ + 1]
               /\ st' = [st EXCEPT ![p].pc = "clock", ![p].vp = v]
               /\ Run(p)
    /\ UNCHANGED <<vfree, mntlist, nc, numcache, fs, held, halted>>

(* A good hit, and vget of its vnode up to VOP_LOCK.                       *)
CacheHit(p) ==
    /\ At(p, "cache")
    /\ makeentry(p) /\ Matches(p) # {}
    /\ LET v == nc[FirstMatch(p)].vp IN
       /\ v # None /\ nc[FirstMatch(p)].vpid
       /\ IF vn[v].xlock
          THEN /\ WaitVx(p, v)
               /\ Goto(p, "cfail")
               /\ UNCHANGED vfree
          ELSE /\ vn' = [vn EXCEPT ![v].use = @ + 1]
               /\ vfree' = Without(vfree, v)
               /\ st' = [st EXCEPT ![p].pc = "clock", ![p].vp = v]
               /\ Run(p)
    /\ UNCHANGED <<mntlist, nc, numcache, fs, held, halted>>

(* vget fails: the directory is unlocked, locked again and searched.       *)
CacheFail(p) ==
    /\ At(p, "cfail")
    /\ LET d == st[p].dvp IN
       /\ vn' = [vn EXCEPT ![d].want = FALSE]
       /\ Wakeup(p, Waiters(vn[d], d))
    /\ Goto(p, "search")
    /\ UNCHANGED <<vfree, mntlist, nc, numcache, fs, held, halted>>

(* vget's VOP_LOCK; a plain lookup then unlocks the directory.  v_id is    *)
(* what cache_lookup saw: the vnode is in use, and no file system of this  *)
(* kernel is unmounted by force.                                           *)
CacheLock(p) ==
    /\ At(p, "clock")
    /\ LET v == st[p].vp
           d == st[p].dvp IN
       IF vn[v].lock # None
       THEN WaitDe(p, v) /\ UNCHANGED st
       ELSE /\ vn' = [vn EXCEPT ![v].lock = p,
                                ![d] = IF st[p].call = "open" THEN Unlocked(@) ELSE @]
            /\ Wakeup(p, IF st[p].call = "open" THEN Waiters(vn[d], d) ELSE {})
            /\ Goto(p, "found")
    /\ UNCHANGED <<vfree, mntlist, nc, numcache, fs, held, halted>>

(* cache_enter, which may sleep in malloc before it counts the entry.      *)
CacheMalloc(p) ==
    /\ At(p, "enter") /\ MallocSleeps /\ numcache < MaxCache
    /\ Goto(p, "malloc") /\ Yield(p)
    /\ UNCHANGED <<vn, vfree, mntlist, nc, numcache, fs, held, halted>>

(* It takes a new structure, one that is on no hash chain, or the one at   *)
(* the head of the LRU chain: any entry.                                   *)
cache_enter(p) ==
    LET e == [dvp |-> st[p].dvp, dvpid |-> TRUE, name |-> st[p].name,
              vp |-> st[p].vp, vpid |-> st[p].vp # None] IN
    /\ IF numcache < MaxCache \/ st[p].pc = "malloc"
       THEN nc' = <<e>> \o nc /\ numcache' = numcache + 1
       ELSE /\ UNCHANGED numcache
            /\ \/ Len(nc) < numcache /\ nc' = <<e>> \o nc
               \/ Len(nc) = numcache /\ \E i \in DOMAIN nc : nc' = <<e>> \o DropEntry(i)

CacheEnter(p) ==
    /\ \/ At(p, "enter") /\ ~(MallocSleeps /\ numcache < MaxCache)
       \/ At(p, "malloc")
    /\ cache_enter(p)
    /\ Goto(p, IF st[p].vp = None THEN "enoent" ELSE "found") /\ Run(p)
    /\ UNCHANGED <<vn, vfree, mntlist, fs, held, halted>>

-----------------------------------------------------------------------------
(* A call: lookup crosses the mount point, waiting for MNT_MLOCK, with the *)
(* vnode that is mounted on locked, and gets the root by VFS_ROOT.         *)

Call(p, c, n) ==
    /\ At(p, "idle") /\ cpu = None /\ c \in calls \cap {"open", "create", "unlink"}
    /\ c # "unlink" => held[p] = None
    /\ mounted
    /\ st' = [st EXCEPT ![p].pc = "cross", ![p].call = c, ![p].name = n]
    /\ UNCHANGED <<vn, vfree, mntlist, nc, numcache, fs, held, wchan, cpu, halted>>

Cross(p) ==
    /\ At(p, "cross") /\ mlock = None /\ cov = None
    /\ IF mounted
       THEN /\ cov' = p
            /\ st' = [st EXCEPT ![p].pc = "deget", ![p].slot = RootSlot, ![p].ret = "root"]
            /\ Run(p)
       ELSE /\ st' = [st EXCEPT ![p] = NoCall]
            /\ Yield(p) /\ UNCHANGED cov
    /\ UNCHANGED <<vn, vfree, mntlist, nc, numcache, dir, bp, mlock, mounted, held, halted>>

-----------------------------------------------------------------------------
(* deget: the denode of a directory slot, locked.                          *)

(* Mutant: deget passes over a denode whose vnode is being cleaned out.    *)
InHash_NotCleaned(s) ==
    {v \in Vnodes : ~vn[v].bad /\ vn[v].slot = s /\ vn[v].ref > 0 /\ ~vn[v].xlock}

(* The denodes on the hash chain for a slot; one without a reference is    *)
(* a file that has been removed and is still open.                         *)
InHash(s) == {v \in Vnodes : ~vn[v].bad /\ vn[v].slot = s /\ vn[v].ref > 0}

(* deget returns v to its caller: VFS_ROOT, msdosfs_lookup or createde.    *)
DegetReturns(p, v, vns, chans) ==
    CASE st[p].ret = "root" ->
           /\ st' = [st EXCEPT ![p].pc = "cache", ![p].dvp = v, ![p].gvp = None,
                               ![p].slot = None, ![p].ret = None]
           /\ cov' = None /\ vn' = vns /\ Wakeup(p, chans) /\ UNCHANGED bp
      [] st[p].ret = "leaf" ->
           LET d == st[p].dvp
               unlock == st[p].call = "open" IN
           /\ st' = [st EXCEPT ![p].pc = IF makeentry(p) THEN "enter" ELSE "found",
                               ![p].vp = v, ![p].gvp = None,
                               ![p].slot = None, ![p].ret = None]
           /\ vn' = [vns EXCEPT ![d] = IF unlock THEN Unlocked(@) ELSE @]
           /\ Wakeup(p, chans \cup IF unlock THEN Waiters(vns[d], d) ELSE {})
           /\ bp' = None /\ UNCHANGED cov
      [] st[p].ret = "new" ->
           /\ st' = [st EXCEPT ![p].pc = "bwrite", ![p].vp = v, ![p].gvp = None,
                               ![p].slot = None, ![p].ret = None]
           /\ vn' = vns /\ Yield(p) /\ UNCHANGED <<bp, cov>>

(* The denode is there but locked, or its vnode is being cleaned out: wait *)
(* and look again.                                                         *)
DegetWait(p) ==
    /\ At(p, "deget")
    /\ \E v \in InHash(st[p].slot) :
          \/ vn[v].lock # None /\ WaitDe(p, v)
          \/ vn[v].lock = None /\ vn[v].xlock /\ WaitVx(p, v)
    /\ UNCHANGED <<vfree, mntlist, nc, numcache, fs, st, held, halted>>

DegetHit(p) ==
    /\ At(p, "deget")
    /\ \E v \in InHash(st[p].slot) :
          /\ vn[v].lock = None /\ ~vn[v].xlock
          /\ DegetReturns(p, v, [vn EXCEPT ![v].use = @ + 1, ![v].lock = p], {})
          /\ vfree' = Without(vfree, v)
    /\ UNCHANGED <<mntlist, nc, numcache, dir, mlock, mounted, held, halted>>

(* getnewvnode takes the vnode at the head of the free list and cleans it  *)
(* out if it still has a file.                                             *)
getnewvnode(p) ==
    /\ At(p, "deget") /\ InHash(st[p].slot) = {} /\ vfree # <<>>
    /\ vfree' = Tail(vfree)
    /\ st' = [st EXCEPT ![p].pc = IF vn[Head(vfree)].bad THEN "newvnode" ELSE "vgone",
                        ![p].gvp = Head(vfree),
                        ![p].gret = IF vn[Head(vfree)].bad THEN None ELSE "newvnode"]
    /\ Run(p)
    /\ UNCHANGED <<vn, mntlist, nc, numcache, fs, held, halted>>

(* There is none: ENFILE.  VFS_ROOT fails before there is a directory;     *)
(* msdosfs_lookup releases the buffer and its caller the directory;        *)
(* createde, which has put the name into the buffer, keeps it.             *)
NoVnode(p) ==
    /\ At(p, "deget") /\ InHash(st[p].slot) = {} /\ vfree = <<>>
    /\ IF st[p].ret = "root"
       THEN /\ st' = [st EXCEPT ![p] = NoCall]
            /\ cov' = None /\ Yield(p)
       ELSE /\ st' = [st EXCEPT ![p] = Releasing(@, <<@.dvp>>, FALSE)]
            /\ Run(p) /\ UNCHANGED cov
    /\ bp' = IF st[p].ret = "leaf" THEN None ELSE bp
    /\ UNCHANGED <<vn, vfree, mntlist, nc, numcache, dir, mlock, mounted, held, halted>>

(* The rest of getnewvnode and of deget: the vnode gets a new v_id, goes   *)
(* to the head of the mount's list, and its denode is hashed and locked.   *)
NewVnode(p) ==
    /\ At(p, "newvnode")
    /\ LET v == st[p].gvp
           s == st[p].slot IN
       /\ DegetReturns(p, v,
             [vn EXCEPT ![v] = [NoFile EXCEPT !.use = vn[v].use + 1, !.bad = FALSE,
                                   !.lock = p, !.slot = s, !.ref = 1,
                                   !.name = IF s = RootSlot THEN None ELSE dir[s]]],
             {})
       /\ \E wrap \in IdWraps : nc' = cache_purge(v, wrap)
       /\ mntlist' = <<v>> \o Without(mntlist, v)
    /\ UNCHANGED <<vfree, numcache, dir, mlock, mounted, held, halted>>

-----------------------------------------------------------------------------
(* vgone and vclean, for a vnode that is not in use.                       *)

(* vgone returns to getnewvnode, msdosfs_inactive or vflush.               *)
Back(p) == st' = [st EXCEPT ![p].pc = st[p].gret, ![p].gret = None,
                            ![p].gvp = IF st[p].gret = "newvnode" THEN @ ELSE None]

vgone(p) ==
    /\ At(p, "vgone")
    /\ LET v == st[p].gvp IN
       IF vn[v].xlock
       THEN /\ WaitVx(p, v)
            /\ Back(p)
       ELSE /\ vn' = [vn EXCEPT ![v].xlock = TRUE]
            /\ Goto(p, "vclean") /\ Run(p)
    /\ UNCHANGED <<vfree, mntlist, nc, numcache, fs, held, halted>>

(* VOP_LOCK: dead_lock when the vnode has been cleaned out before, which   *)
(* waits for VXLOCK to be off.  Then vinvalbuf, which may sleep.           *)
vclean(p) ==
    /\ At(p, "vclean")
    /\ LET v == st[p].gvp IN
       CASE vn[v].bad -> WaitVx(p, v) /\ UNCHANGED st
         [] ~vn[v].bad /\ vn[v].lock # None -> WaitDe(p, v) /\ UNCHANGED st
         [] OTHER -> /\ vn' = [vn EXCEPT ![v].lock = p]
                     /\ Goto(p, "vinvalbuf") /\ Yield(p)
    /\ UNCHANGED <<vfree, mntlist, nc, numcache, fs, held, halted>>

(* vgone moves v to the head of the free list; the list's old head is not  *)
(* tested for null.                                                        *)
Recycle(v) ==
    IF ~InSeq(v, vfree) THEN UNCHANGED <<vfree, halted>>
    ELSE /\ vfree' = <<v>> \o Without(vfree, v)
         /\ halted' = IF Len(vfree) = 1 THEN "null" ELSE None

(* The rest of vclean, with msdosfs_reclaim, and of vgone.                 *)
Reclaim(p) ==
    /\ At(p, "vinvalbuf")
    /\ LET v == st[p].gvp IN
       /\ vn' = [vn EXCEPT ![v] = [NoFile EXCEPT !.use = vn[v].use]]
       /\ Wakeup(p, Waiters(vn[v], v) \cup IF vn[v].xwant THEN {VxChan(v)} ELSE {})
       /\ \E wrap \in IdWraps : nc' = cache_purge(v, wrap)
       /\ mntlist' = Without(mntlist, v)
       /\ Recycle(v)
    /\ Back(p)
    /\ UNCHANGED <<numcache, fs, held>>

-----------------------------------------------------------------------------
(* msdosfs_lookup's search of the directory.                               *)

(* getblk: the buffer of the directory's block is busy.                    *)
BufWait(p) ==
    /\ cpu = p /\ bp # None
    /\ \E label \in {"search", "createde", "markdel", "deupdat"} : At(p, label)
    /\ cpu' = None
    /\ UNCHANGED <<vn, vfree, mntlist, nc, numcache, fs, st, held, wchan, halted>>

Search(p) ==
    /\ At(p, "search") /\ bp = None
    /\ bp' = p
    /\ Goto(p, "scan") /\ Yield(p)
    /\ UNCHANGED <<vn, vfree, mntlist, nc, numcache, dir, cov, mlock, mounted, held, halted>>

Found(p)     == {s \in Slots : dir[s] = st[p].name}
FreeSlots    == {s \in Slots : dir[s] = None}
FirstSlot(S) == CHOOSE s \in S : \A t \in S : s <= t

(* The name is there: deget, with the buffer held.                         *)
ScanFound(p) ==
    /\ At(p, "scan") /\ Found(p) # {}
    /\ st' = [st EXCEPT ![p].pc = "deget", ![p].slot = FirstSlot(Found(p)),
                        ![p].ret = "leaf"]
    /\ Run(p)
    /\ UNCHANGED <<vn, vfree, mntlist, nc, numcache, fs, held, halted>>

(* It is not: a plain lookup remembers that, a create goes on with the     *)
(* first free slot.  The root directory cannot be extended.                *)
ScanMissing(p) ==
    /\ At(p, "scan") /\ Found(p) = {}
    /\ bp' = None
    /\ CASE st[p].call = "open" -> Goto(p, "enter")
         [] st[p].call = "unlink" -> Goto(p, "enoent")
         [] st[p].call = "create" /\ FreeSlots = {} ->
              st' = [st EXCEPT ![p] = Releasing(@, <<@.dvp>>, FALSE)]
         [] st[p].call = "create" /\ FreeSlots # {} ->
              st' = [st EXCEPT ![p].pc = "createde", ![p].slot = FirstSlot(FreeSlots)]
    /\ Run(p)
    /\ UNCHANGED <<vn, vfree, mntlist, nc, numcache, dir, cov, mlock, mounted, held, halted>>

(* createde: the name goes into the buffer, then deget gets a denode.      *)
createde(p) ==
    /\ At(p, "createde") /\ bp = None
    /\ bp' = p
    /\ dir' = [dir EXCEPT ![st[p].slot] = st[p].name]
    /\ st' = [st EXCEPT ![p].pc = "deget", ![p].ret = "new"]
    /\ Yield(p)
    /\ UNCHANGED <<vn, vfree, mntlist, nc, numcache, cov, mlock, mounted, held, halted>>

(* createde's bwrite, and deput of the directory in msdosfs_create.        *)
Created(p) ==
    /\ At(p, "bwrite")
    /\ bp' = None
    /\ st' = [st EXCEPT ![p] = Releasing(@, <<@.dvp>>, TRUE)]
    /\ Run(p)
    /\ UNCHANGED <<vn, vfree, mntlist, nc, numcache, dir, cov, mlock, mounted, held, halted>>

(* markdeleted reads the block and writes it without the name; removede    *)
(* then takes the denode's reference.                                      *)
markdeleted(p) ==
    /\ At(p, "markdel") /\ bp = None
    /\ bp' = p
    /\ dir' = [dir EXCEPT ![vn[st[p].vp].slot] = None]
    /\ Goto(p, "removede") /\ Yield(p)
    /\ UNCHANGED <<vn, vfree, mntlist, nc, numcache, cov, mlock, mounted, held, halted>>

removede(p) ==
    /\ At(p, "removede")
    /\ bp' = None
    /\ vn' = [vn EXCEPT ![st[p].vp].ref = @ - 1]
    /\ st' = [st EXCEPT ![p] = Releasing(@, <<@.vp, @.dvp>>, FALSE)]
    /\ Run(p)
    /\ UNCHANGED <<vfree, mntlist, nc, numcache, dir, cov, mlock, mounted, held, halted>>

-----------------------------------------------------------------------------
(* The end of a lookup: lookup and vn_open release the directory and keep  *)
(* the file; msdosfs_remove goes on with both locked.                      *)

LookupFound(p) ==
    /\ At(p, "found")
    /\ st' = [st EXCEPT ![p] =
                 IF @.call = "unlink" THEN [@ EXCEPT !.pc = "markdel"]
                 ELSE Releasing(@, <<@.dvp>>, TRUE)]
    /\ Run(p)
    /\ UNCHANGED <<vn, vfree, mntlist, nc, numcache, fs, held, halted>>

(* Mutant: the error return keeps the directory.                           *)
LookupFails_KeepsDirectory(p) ==
    /\ At(p, "enoent")
    /\ st' = [st EXCEPT ![p] = Releasing([@ EXCEPT !.dvp = None], <<>>, FALSE)]
    /\ Run(p)
    /\ UNCHANGED <<vn, vfree, mntlist, nc, numcache, fs, held, halted>>

LookupFails(p) ==
    /\ At(p, "enoent")
    /\ st' = [st EXCEPT ![p] = Releasing(@, <<@.dvp>>, FALSE)]
    /\ Run(p)
    /\ UNCHANGED <<vn, vfree, mntlist, nc, numcache, fs, held, halted>>

-----------------------------------------------------------------------------
(* vput and vrele of the next vnode that p gives up; the last reference    *)
(* puts it at the tail of the free list before VOP_INACTIVE.               *)

Drop(r, v, last) ==
    [r EXCEPT !.pc = IF last THEN "inactive" ELSE "rele",
              !.dvp = IF @ = v THEN None ELSE @, !.vp = IF @ = v THEN None ELSE @,
              !.gvp = IF last THEN v ELSE None, !.rel = Tail(@)]
Uncounted(r)     == [r EXCEPT !.use = @ - 1]

vrele(p) ==
    /\ At(p, "rele") /\ st[p].rel # <<>>
    /\ LET v    == Head(st[p].rel)
           mine == vn[v].lock = p
           last == vn[v].use = 1 IN
       /\ vn' = [vn EXCEPT ![v] = Uncounted(IF mine THEN Unlocked(@) ELSE @)]
       /\ vfree' = IF last THEN Append(vfree, v) ELSE vfree
       /\ st' = [st EXCEPT ![p] = Drop(@, v, last)]
       /\ Wakeup(p, IF mine THEN Waiters(vn[v], v) ELSE {})
    /\ UNCHANGED <<mntlist, nc, numcache, fs, held, halted>>

(* The call returns: open and create with the file, unlocked.              *)
Return(p) ==
    /\ At(p, "rele") /\ st[p].rel = <<>> /\ st[p].call # "unmount"
    /\ st' = [st EXCEPT ![p] = NoCall]
    /\ IF st[p].keep
       THEN LET v == st[p].vp IN
            /\ held' = [held EXCEPT ![p] = v]
            /\ vn' = [vn EXCEPT ![v] = Unlocked(@)]
            /\ wchan' = [q \in Procs |-> IF wchan[q] \in Waiters(vn[v], v) THEN None
                                         ELSE wchan[q]]
       ELSE UNCHANGED <<held, vn, wchan>>
    /\ cpu' = None
    /\ UNCHANGED <<vfree, mntlist, nc, numcache, fs, halted>>

(* msdosfs_inactive cleans the vnode out, or leaves it.                    *)
Gone(p, clean) ==
    st' = [st EXCEPT ![p].pc = IF clean THEN "vgone" ELSE "rele",
                     ![p].gret = IF clean THEN "rele" ELSE None,
                     ![p].gvp = IF clean THEN @ ELSE None]

(* msdosfs_inactive: a file whose last reference is gone is truncated,     *)
(* one that was written has its directory entry brought up to date.        *)
msdosfs_inactive(p) ==
    /\ At(p, "inactive")
    /\ LET v == st[p].gvp IN
       CASE vn[v].del ->
              /\ Gone(p, ~vn[v].xlock)
              /\ Run(p) /\ UNCHANGED vn
         [] ~vn[v].del /\ vn[v].lock # None -> WaitDe(p, v) /\ UNCHANGED st
         [] ~vn[v].del /\ vn[v].lock = None /\ vn[v].ref = 0 ->
              /\ vn' = [vn EXCEPT ![v].lock = p]
              /\ Goto(p, "detrunc") /\ Yield(p)
         [] ~vn[v].del /\ vn[v].lock = None /\ vn[v].ref # 0 /\ vn[v].upd ->
              /\ vn' = [vn EXCEPT ![v].lock = p]
              /\ Goto(p, "deupdat") /\ Run(p)
         [] OTHER -> Gone(p, FALSE) /\ Run(p) /\ UNCHANGED vn
    /\ UNCHANGED <<vfree, mntlist, nc, numcache, fs, held, halted>>

(* The truncated file's name is marked deleted; unless somebody has taken  *)
(* the vnode meanwhile, it is cleaned out.                                 *)
Truncated(p) ==
    /\ At(p, "detrunc")
    /\ LET v == st[p].gvp IN
       /\ vn' = [vn EXCEPT ![v] = [Unlocked(@) EXCEPT !.del = TRUE, !.upd = FALSE]]
       /\ Wakeup(p, Waiters(vn[v], v))
       /\ Gone(p, vn[v].use = 0)
    /\ UNCHANGED <<vfree, mntlist, nc, numcache, fs, held, halted>>

(* deupdat reads the block, copies the entry back, name included, and      *)
(* bdwrites it.                                                            *)
deupdat(p) ==
    /\ At(p, "deupdat") /\ bp = None
    /\ bp' = p
    /\ Goto(p, "updated") /\ Yield(p)
    /\ UNCHANGED <<vn, vfree, mntlist, nc, numcache, dir, cov, mlock, mounted, held, halted>>

Updated(p) ==
    /\ At(p, "updated")
    /\ LET v == st[p].gvp IN
       /\ dir' = [dir EXCEPT ![vn[v].slot] = vn[v].name]
       /\ vn' = [vn EXCEPT ![v] = [Unlocked(@) EXCEPT !.upd = FALSE]]
       /\ Wakeup(p, Waiters(vn[v], v))
    /\ bp' = None
    /\ Gone(p, FALSE)
    /\ UNCHANGED <<vfree, mntlist, nc, numcache, cov, mlock, mounted, held, halted>>

-----------------------------------------------------------------------------
(* vn_close; and msdosfs_write, which leaves DEUPD.                        *)
Close(p) ==
    /\ At(p, "idle") /\ cpu = None /\ held[p] # None
    /\ st' = [st EXCEPT ![p] = Releasing([@ EXCEPT !.vp = held[p]], <<held[p]>>, FALSE)]
    /\ held' = [held EXCEPT ![p] = None]
    /\ Run(p)
    /\ UNCHANGED <<vn, vfree, mntlist, nc, numcache, fs, halted>>

Write(p) ==
    /\ At(p, "idle") /\ cpu = None /\ held[p] # None /\ "write" \in calls
    /\ vn[held[p]].lock = None
    /\ vn' = [vn EXCEPT ![held[p]].upd = TRUE]
    /\ UNCHANGED <<vfree, mntlist, nc, numcache, fs, st, held, wchan, cpu, halted>>

-----------------------------------------------------------------------------
(* dounmount locks the mount and empties the name cache of it.  Three      *)
(* walks of the mount's vnodes follow: mntflushbuf's and mntinvalbuf's,    *)
(* which write their buffers out, and vflush's.                            *)
Unmount(p) ==
    /\ At(p, "idle") /\ cpu = None /\ "unmount" \in calls
    /\ mounted /\ mlock = None
    /\ mlock' = p
    /\ nc' = <<>>
    /\ st' = [st EXCEPT ![p].pc = "mntloop", ![p].call = "unmount", ![p].ret = "flush"]
    /\ Run(p)
    /\ UNCHANGED <<vn, vfree, mntlist, numcache, dir, bp, cov, mounted, held, halted>>

(* The vnodes that v_mountf leads to from v; vgone clears v_mountf, not    *)
(* v_mount, so a walk that stands on a vnode when it goes ends there.      *)
Chain(v) ==
    CASE v = None -> <<>>
      [] v # None /\ InSeq(v, mntlist) ->
           SubSeq(mntlist, CHOOSE i \in DOMAIN mntlist : mntlist[i] = v, Len(mntlist))
      [] OTHER -> <<v>>
mnt_mounth  == IF mntlist = <<>> THEN None ELSE Head(mntlist)
v_mountf(v) == IF Len(Chain(v)) = 1 THEN None ELSE Chain(v)[2]

MntLoop(p) ==
    /\ At(p, "mntloop")
    /\ st' = [st EXCEPT ![p].pc = "mnt", ![p].nvp = mnt_mounth]
    /\ Run(p)
    /\ UNCHANGED <<vn, vfree, mntlist, nc, numcache, fs, held, halted>>

(* mntflushbuf passes over a locked vnode; vget fails on one that is being *)
(* cleaned out, and the walk starts again.                                 *)
MntGet(p) ==
    /\ At(p, "mnt") /\ st[p].nvp # None
    /\ LET v == st[p].nvp IN
       CASE st[p].ret = "flush" /\ vn[v].lock # None ->
              /\ st' = [st EXCEPT ![p].nvp = v_mountf(v)]
              /\ Run(p) /\ UNCHANGED <<vn, vfree>>
         [] ~(st[p].ret = "flush" /\ vn[v].lock # None) /\ vn[v].xlock ->
              WaitVx(p, v) /\ Goto(p, "mntloop") /\ UNCHANGED vfree
         [] OTHER ->
              /\ vn' = [vn EXCEPT ![v].use = @ + 1]
              /\ vfree' = Without(vfree, v)
              /\ st' = [st EXCEPT ![p].pc = "mntlock", ![p].vp = v]
              /\ Run(p)
    /\ UNCHANGED <<mntlist, nc, numcache, fs, held, halted>>

(* vget's VOP_LOCK; vflushbuf or vinvalbuf then waits for transfers.       *)
MntLock(p) ==
    /\ At(p, "mntlock")
    /\ LET v == st[p].vp IN
       IF vn[v].lock # None
       THEN WaitDe(p, v) /\ UNCHANGED st
       ELSE /\ vn' = [vn EXCEPT ![v].lock = p]
            /\ Goto(p, "mntbuf") /\ Yield(p)
    /\ UNCHANGED <<vfree, mntlist, nc, numcache, fs, held, halted>>

(* vput; mntinvalbuf counts the buffers that were dirty still, those of a  *)
(* file that is written: the directory's are the device's.                 *)
MntPut(p) ==
    /\ At(p, "mntbuf")
    /\ \E dirty \in BOOLEAN :
          /\ dirty => /\ st[p].ret = "inval" /\ "write" \in calls
                      /\ vn[st[p].vp].slot # RootSlot
          /\ st' = [st EXCEPT ![p].pc = "rele", ![p].rel = <<st[p].vp>>, ![p].busy = @ \/ dirty]
    /\ Run(p)
    /\ UNCHANGED <<vn, vfree, mntlist, nc, numcache, fs, held, halted>>

MntNext(p) ==
    /\ At(p, "rele") /\ st[p].rel = <<>> /\ st[p].call = "unmount"
    /\ st' = [st EXCEPT ![p].pc = "mnt", ![p].nvp = v_mountf(@)]
    /\ Run(p)
    /\ UNCHANGED <<vn, vfree, mntlist, nc, numcache, fs, held, halted>>

(* The end of a walk: EBUSY when mntinvalbuf counted any.                  *)
MntEnd(p) ==
    /\ At(p, "mnt") /\ st[p].nvp = None
    /\ CASE st[p].ret = "flush" ->
              /\ st' = [st EXCEPT ![p].pc = "mntloop", ![p].ret = "inval"]
              /\ Run(p) /\ UNCHANGED mlock
         [] st[p].ret = "inval" /\ ~st[p].busy ->
              /\ st' = [st EXCEPT ![p].pc = "vflush", ![p].ret = None, ![p].nvp = mnt_mounth]
              /\ Run(p) /\ UNCHANGED mlock
         [] st[p].ret = "inval" /\ st[p].busy ->
              /\ st' = [st EXCEPT ![p] = NoCall]
              /\ Yield(p) /\ mlock' = None
    /\ UNCHANGED <<vn, vfree, mntlist, nc, numcache, dir, bp, cov, mounted, held, halted>>

(* The walk up to the next vnode that is not in use, which vgone cleans    *)
(* out; where to go on is read before that.                                *)
VflushStep(p) ==
    /\ At(p, "vflush")
    /\ LET c == Chain(st[p].nvp)
           idle == {i \in DOMAIN c : vn[c[i]].use = 0}
           i == FirstSlot(idle) IN
       /\ idle # {}
       /\ st' = [st EXCEPT ![p].pc = "vgone", ![p].gvp = c[i], ![p].gret = "vflush",
                           ![p].nvp = IF i = Len(c) THEN None ELSE c[i + 1],
                           ![p].busy = @ \/ i > 1]
    /\ Run(p)
    /\ UNCHANGED <<vn, vfree, mntlist, nc, numcache, fs, held, halted>>

(* The end of the walk: EBUSY when it met a vnode in use.  Otherwise the   *)
(* mount's structures are freed, whoever still uses them.                  *)
VflushEnd(p) ==
    /\ At(p, "vflush")
    /\ LET c == Chain(st[p].nvp) IN
       /\ \A i \in DOMAIN c : vn[c[i]].use > 0
       /\ mounted' = (st[p].busy \/ c # <<>>)
       /\ halted' = IF ~mounted' /\ (cov # None \/ \E v \in Vnodes : vn[v].use > 0)
                    THEN "freed" ELSE None
    /\ mlock' = None
    /\ st' = [st EXCEPT ![p] = NoCall]
    /\ Yield(p)
    /\ UNCHANGED <<vn, vfree, mntlist, nc, numcache, dir, bp, cov, held>>

-----------------------------------------------------------------------------
Step(p) ==
    /\ \/ Cross(p) \/ DegetWait(p) \/ DegetHit(p) \/ getnewvnode(p) \/ NoVnode(p)
       \/ NewVnode(p) \/ vgone(p) \/ vclean(p) \/ Reclaim(p)
       \/ CacheMiss(p) \/ CacheNegative(p) \/ CacheHit(p) \/ CacheFail(p) \/ CacheLock(p)
       \/ CacheMalloc(p) \/ CacheEnter(p)
       \/ BufWait(p) \/ Search(p) \/ ScanFound(p) \/ ScanMissing(p)
       \/ createde(p) \/ Created(p) \/ markdeleted(p) \/ removede(p)
       \/ LookupFound(p) \/ LookupFails(p)
       \/ vrele(p) \/ Return(p) \/ msdosfs_inactive(p) \/ Truncated(p)
       \/ deupdat(p) \/ Updated(p)
       \/ MntLoop(p) \/ MntGet(p) \/ MntLock(p) \/ MntPut(p) \/ MntNext(p) \/ MntEnd(p)
       \/ VflushStep(p) \/ VflushEnd(p)
    /\ UNCHANGED calls

Begin(p) ==
    \/ \E c \in calls, n \in Names : Call(p, c, n)
    \/ Close(p) \/ Write(p) \/ Unmount(p)

Next == \E p \in Procs : Step(p) \/ (Begin(p) /\ UNCHANGED calls)

Spec == Init /\ [][Next]_vars

(* A process that is awake gets the processor when it is given up time and *)
(* again.                                                                  *)
Fairness == \A p \in Procs : SF_vars(Step(p))

FairSpec == Spec /\ Fairness

-----------------------------------------------------------------------------
TypeOK ==
    /\ \A v \in Vnodes :
          /\ vn[v].use \in 0..(2 * Cardinality(Procs))
          /\ vn[v].lock \in Procs \cup {None}
          /\ vn[v].slot \in Slots \cup {RootSlot, None}
          /\ vn[v].ref \in {0, 1}
    /\ \A i \in DOMAIN vfree : vfree[i] \in Vnodes
    /\ \A i \in DOMAIN mntlist : mntlist[i] \in Vnodes
    /\ numcache \in 0..(MaxCache + Cardinality(Procs)) /\ Len(nc) <= numcache
    /\ dir \in [Slots -> Names \cup {None}]
    /\ held \in [Procs -> Vnodes \cup {None}]
    /\ bp \in Procs \cup {None}

(* A lookup that found a file has the file of that name as it is in the    *)
(* directory now, locked, and nobody cleans it out.                        *)
LookupRight == \A p \in Procs : st[p].pc \in {"found", "markdel"} =>
    LET v == st[p].vp IN
    /\ vn[v].lock = p /\ ~vn[v].bad /\ ~vn[v].xlock /\ vn[v].ref = 1
    /\ dir[vn[v].slot] = st[p].name

(* A lookup that answers that there is no such file is right.              *)
AbsentRight == \A p \in Procs : st[p].pc = "enoent" => Found(p) = {}

(* The state is well typed; v_usecount is the number of references, and    *)
(* the free list holds the vnodes that have none and that getnewvnode has  *)
(* not taken, each once.                                                   *)
Taken(v) == \E p \in Procs : /\ st[p].gvp = v
                             /\ st[p].gret = "newvnode" \/ st[p].pc = "newvnode"
UseCounts == TypeOK /\ (halted = None => \A v \in Vnodes :
    /\ vn[v].use = Cardinality({p \in Procs : st[p].dvp = v})
                   + Cardinality({p \in Procs : st[p].vp = v})
                   + Cardinality({p \in Procs : held[p] = v})
    /\ Cardinality({i \in DOMAIN vfree : vfree[i] = v})
          = IF vn[v].use = 0 /\ ~Taken(v) THEN 1 ELSE 0)

(* No two denodes stand for the same directory entry.                      *)
OneDenode == \A v, w \in Vnodes :
    v # w /\ ~vn[v].bad /\ ~vn[w].bad /\ vn[v].ref > 0 /\ vn[w].ref > 0
        => vn[v].slot # vn[w].slot

(* A file that a process has open keeps its denode and its clusters, even  *)
(* when its name is gone and the slot belongs to another file.             *)
OpenKept == \A p \in Procs : held[p] # None =>
    /\ ~vn[held[p]].bad /\ ~vn[held[p]].del
    /\ \A q \in Procs : st[q].pc = "detrunc" => st[q].gvp # held[p]

(* Who sleeps will be woken: the lock it waits for is held and DEWANT is   *)
(* set, or the vnode is being cleaned out and VXWANT is set.               *)
SleepersWoken == \A p \in Procs : \A v \in Vnodes :
    /\ wchan[p] = DeChan(v) => vn[v].lock # None /\ vn[v].want
    /\ wchan[p] = VxChan(v) => vn[v].xlock /\ vn[v].xwant

(* As long as nobody unmounts, no wakeup of deunlock or vclean is missed.  *)
(* An unmount may: vflush goes on to a vnode that was cleaned out while it *)
(* slept in vgone, and sleeps on it for ever; getnewvnode then clears its  *)
(* flags.                                                                  *)
NoMissedWakeup == "unmount" \notin calls => SleepersWoken

(* MNT_MLOCK keeps lookups out of a mount that is being removed: when its  *)
(* structures are freed nobody uses them.                                  *)
MountStable == halted # "freed"

(* vgone never stores through the null head of an empty free list.         *)
NoNullStore == halted # "null"

(* Every call returns: no wakeup is lost, no lock left behind, and no      *)
(* search of a hash chain or of the directory starts over for ever.        *)
CallsReturn == \A p \in Procs : st[p].pc # "idle" ~> st[p].pc = "idle" \/ halted # None
=============================================================================
