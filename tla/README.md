# TLA+ models of the BSD/386 1.1 kernel

This directory holds TLA+ modules that model parts of the kernel under
`src/sys`, TLC configurations that check them on small instances, and proofs
that TLAPS checks for instances of any size.  `PROJECT.json` lists the runs,
the map from definitions to source lines, the hazards and the theorems in
machine-readable form; this file explains them.

## 1. The system and what is hard about it

BSD/386 1.1 is a monolithic uniprocessor kernel with its utilities.  The
kernel is not preemptive: a process in the kernel runs until it calls
`sleep`/`tsleep` (perhaps inside `MALLOC(..., M_WAITOK)`), and between two
sleeps only interrupts come in, which code keeps out with `splbio()` and its
like.  So the hard behaviours are always of the same kinds:

* state that was read before a sleep and is used after it;
* state that is read outside `spl` and changed by a completion interrupt;
* `wakeup` without a queue: all sleepers on a channel run and test again, and a
  flag (`waiting`, `B_WANTED`, `bufneeded`, `VBWAIT`, `DEWANT`, `SB_WANT`,
  `RC_WANTED`) says whether there are any;
* one-bit or one-count summaries (`want_write`, `read_count`, `v_numoutput`,
  `FHASLOCK`) that have to agree with who really holds what;
* waiting for one another through several of these;
* pointers and numbers that outlive what they name (name cache entries, freed
  locks and mbufs);
* for NFS, a network that loses and repeats, a server that restarts, and timers.

### Inventory

| component | state it keeps | operations | met by | what makes it correct | module |
|---|---|---|---|---|---|
| sleep locks, `vm/kern_lock.c` | `struct lock`: `want_write`, `want_upgrade`, `waiting`, `read_count`, `recursion_depth`, `thread` | write, read, upgrade, downgrade, done, the `try` forms, recursion | map entries of `vm_map.c` | a writer is alone; an upgrade keeps its place; no lost wakeup; writers are served | `KernLock`, `RWLock`, `KernLockProofs` |
| buffer cache, `kern/vfs_bio.c` | headers with flags, hash chains, LRU list, `bufcachemem`, `bufneeded` | `getblk`, `geteblk`, `bread`, `breada`, `bwrite`, `bawrite`, `bdwrite`, `brelse`, `biowait`, `biodone` | every file system; drivers call back at interrupt level | one owner per buffer, one buffer per block, writes are not lost, calls return | `BufCache`, `BufCacheProofs`, `BufDataProofs` |
| a vnode's buffers, `kern/vfs_subr.c` | clean and dirty lists, `v_numoutput`, `VBWAIT` | `vflushbuf`, `vinvalbuf`, `reassignbuf`, `bgetvp`, `brelvp`, `vwakeup` | `sync`, `umount`, truncation | dirty buffers are where a flush looks; outputs are counted | `BufCache`, `BufCacheProofs` |
| advisory locks, `ufs/ufs_lockf.c` | list of locks per inode, list of waiters per lock | `lf_setlock`, `lf_clearlock` | `fcntl`, `flock`, `closef` | a write lock excludes all others byte by byte; no missed wakeup; cycles are refused; locks end with their owner | `Lockf`, `RangeLock`, `LockfProofs` |
| file descriptors, `kern/kern_descrip.c` | `fd_ofiles`, `f_count`, `FHASLOCK`, `SADVLCK` | `dup`, `close`, `fcntl`, `flock` | all of the above | counts match references | part in `Lockf` |
| name cache, `kern/vfs_cache.c`, and lookup | entries (directory, name, vnode) with the `v_id` of both, LRU order | `cache_lookup`, `cache_enter`, `cache_purge`, `cache_purgevfs` | `namei` of every file system | an entry for a vnode that was recycled is never used, a name that exists is never denied | `Vnode`, `VnodeProofs` |
| vnode life cycle, `kern/vfs_subr.c` | `v_usecount`, free list, `VXLOCK`, mount lists | `getnewvnode`, `vget`, `vput`, `vrele`, `vgone`, `vclean`, `vflush` | everything with files | a vnode in use is not recycled; counts match references; nobody waits for a vnode that is gone | `Vnode`, `VnodeProofs` |
| MS-DOS file system, `msdosfs/` | denodes, their hash chain and locks, directory slots | `deget`, `msdosfs_lookup`, `createde`, `removede`, `msdosfs_inactive`, `deupdat` | the vnode layer calls it and is called back | one denode for a file; an open file keeps its clusters | `Vnode`, `VnodeProofs` |
| sockets and local sockets, `kern/uipc_*.c` | socket buffers with lock, marks and flags; `unp_cc` | `sosend`, `soreceive`, `soshutdown`, `soclose` | protocols at `splnet`, several processes on one descriptor | units are read once and in order; the buffers' limit holds; no missed wakeup; end of file is last | `Sock`, `SockProofs` |
| NFS client, `nfs/nfs_socket.c` | requests, the mount's window and socket lock | `nfs_request`, `nfs_reply`, `nfs_timer` | UDP, the server, signals | the window is counted exactly; calls return | `NfsClient`, `Nfs`, `NfsProofs` |
| NFS server, `nfs/nfs_syscalls.c`, `nfs/nfs_srvcache.c` | nfsds, cache of recent requests | `nfssvc`, `nfsrv_getcache`, `nfsrv_updatecache` | UDP, the client | a repeated request is not done twice and gets the reply it had | `NfsServer`, `Nfs`, `NfsServerProofs` |
| virtual memory, `vm/` | maps, objects, pages, queues | fault, pageout, shadow collapse | all processes | a page is in one place | only its lock |
| TCP/IP and other protocols | control blocks, timers | input, output, timers | | | not planned before the others |
| drivers, i386 code, utilities, contributed software | | | | | not modelled (device registers, page tables, sequential or third-party programs) |

The distribution lacks some kernel files (`kern_synch.c`, `kern_sig.c`,
`kern_exit.c`, `tty.c`, `ufs_inode.c`, `ufs_bmap.c`, `ufs_vnops.c`).  `sleep` and
`wakeup`, signals and `ufs_advlock` are therefore modelled from the way the
existing files use them and are marked external in the map.

## 2. Plan

Done, in this order: `RWLock` and `KernLock` with proofs; `BufCache`;
`RangeLock` and `Lockf`; `Vnode`, which composes the name cache, the vnode life
cycle and the MS-DOS file system, whose source is complete where that of UFS is
not; `Sock`; `NfsNet`, `NfsServer` and `NfsClient`, and `Nfs`, which composes them;
proofs about `Sock`, the NFS modules, `BufCache`, `Lockf` and `Vnode`.  Next would be:

1. `Descrip`: the descriptor table with `fdalloc` and its growth during a sleep,
   and `unp_gc` of `uipc_usrreq.c` on top of it (descriptors in flight, `closef` of a
   file that is found unreachable while a receive takes it out).
2. Proofs about `Vnode` with unmounts, once `vflush` is mended (section 4).
3. An abstract specification of the buffer cache as a single copy of each block,
   and of a socket pair as a queue.
4. The two connection queues of listening sockets (`sonewconn`, `accept`).
5. The round-trip estimate of `nfs_updatetimer` and `nfs_backofftimer`, as functions
   on 16-bit numbers.

## 3. Modules

### RWLock and KernLock (`sys/vm/kern_lock.c`)

The variables of `KernLock` are the fields of `struct lock`, the threads asleep
on it, and for each thread where it is (`pc`: running, or in one of the four
waiting loops) and what it has been granted (`hold`).  `nestR` and `nestW` count
the nested calls of the recursive owner; they are what the caller knows, while
`read_count` and `recursion_depth` are what the code knows.  Each routine is one
action of the same name; its waiting loop is shared by the call and by `Resume`,
the return from `thread_sleep`.  The interlock is held from call to sleep, so a
pass of a loop is one step.

The callers are restricted as the callers in `vm_map.c` are: a thread asks with
nothing in hand or upgrades its one read hold; only the writer makes itself
recursive, nests, and clears recursion before it lets go.  The constant
`RecursiveUpdate` adds the one call that `vm_map_pageable` takes care not to make.

`RWLock` is the abstract lock: who holds it in which mode, and that an upgrade,
once granted a place, is followed by nobody else's write.

### BufCache (`sys/kern/vfs_bio.c`, part of `sys/kern/vfs_subr.c`)

`buf` has the flags, vnode, block, data and vnode list of each header; `hashed` the
headers on a hash chain, `lru` the free list in order.  `io` is what the device
works on and `disk` what it holds.  `contents` is history: the data that the
writes so far amount to.  A process is in a call (`op`), at a place (`pc`), perhaps
asleep on a channel (`wchan`).  `cpu` names the process that has not given up the
processor; between two of its steps only `biodone` can happen.  Steps are cut
where an interrupt matters: between the search of the hash chain and `splbio` in
`getblk`, between `VOP_STRATEGY` and `reassignbuf` in `bwrite`, before `splbio` in
`vinvalbuf`; and wherever the code may sleep, the two `MALLOC`s included.

A call is `getblk`, `geteblk`, `bread` or `breada`, after which the caller holds the
buffer and ends with `brelse`, `bwrite`, `bawrite` or `bdwrite`; or it is `vflushbuf` or
`vinvalbuf`.  `Locked` is the set of vnodes whose users take the vnode's lock around
all this, as the file systems do; device vnodes are used without it.

Abstracted: one buffer size; no credentials, `B_CALL` or `B_LOCKED`; a buffer is on
the list of its own vnode (indirect blocks, which `ufs_bmap.c` moves to the file's
list, are not modelled as that file is not here); order within a vnode's list
and a hash chain is left open.  A failed write counts as undone: `brelse` drops
the data, and the callers of `bawrite` and `bdwrite` are never told.

### RangeLock and Lockf (`sys/ufs/ufs_lockf.c`, part of `sys/kern/kern_descrip.c`)

`i_lockf` is the list of locks of each inode, in order, each with the set of its
sleepers (`lf_wakelock` wakes all of them, so their order does not matter).
`lf_findoverlap`'s classification is `ovcase`; the loops of `lf_setlock` and
`lf_clearlock`, which walk the list with `prev` and `overlap`, are recursive
functions of the place in the list whose body is the `switch` of the code.  A lock without an end has `end = -1`
as in the code.  A waiting lock is identified with its process; `dangling` says
that its `lf_next` names freed memory, which is read as anything (`garbage`).  A
process that has had a signal but has not run is off its wait channel but still
on the list (`signalled`).  `fcntl`, `flock` and `closef` set and test `SADVLCK` and
`FHASLOCK`.  `MallocSleeps` makes the allocation in `lf_split` a point where others
run.

`RangeLock` is the abstract specification: for each owner and byte none, read or
write, and calls that change one region of one owner.

### Vnode (`sys/kern/vfs_cache.c`, `vfs_subr.c`, `vfs_lookup.c`, `vfs_vnops.c`, `sys/msdosfs`)

`vn` has for each vnode its counts, flags and denode (lock, `de_refcnt`, place in the
directory); `vfree` and `mntlist` are the lists in order, `nc` the cache entries in
LRU order.  A cache entry keeps, instead of the numbers `v_id`, whether they still
match: `cache_purge` gives the vnode a new number, so all its entries cease to
match, and when `nextvnodeid` wraps (`IdWraps`) all entries of all vnodes do.  A number
that comes round again and meets an entry that recorded it is therefore not in the
model: since the wrap clears all entries, the entry would have to be made after the
wrap with a number from before it, and then outlive 2^32 purges.  The cache has
entries of other directories too, which `nc` leaves out, so the LRU chain is not empty
when an entry is dropped; if the entry were alone, `cache_lookup` (`vfs_cache.c:180`) and
`cache_purgevfs` (`vfs_cache.c:319`) would store through a null `nchhead`.  `dir` is
the one directory as it is on the device: which name each slot has.  `bp` is the
holder of the directory's block, the only buffer that matters here; `BufCache`
models how such waits end.

A process opens, creates, unlinks or writes a file, closes the one it has open,
or unmounts.  Its call goes through the cache, then the directory, `deget`, perhaps
`getnewvnode` with the cleaning out of another file, and back; every place where
it may sleep (a denode's lock, `VXLOCK`, the block, device I/O, `malloc` in
`cache_enter` if `MallocSleeps`) ends a step.  An unmount empties the cache of the
mount's names and walks its vnodes three times: `mntflushbuf` and `mntinvalbuf` take
and release each (`MntGet` to `MntNext`) and sleep with it locked, the second may give
`EBUSY` for a file that is still being written, and `vflush` cleans out those not in use.
`dounmount` itself is not in the distribution; that it sets `MNT_MLOCK` and calls
`cache_purgevfs` first is taken from how the rest uses them.

`halted` marks two places where the code goes on with a freed or a null pointer (the
mount that `VflushEnd` frees under a lookup, `vfreeh` in `Recycle`); nothing happens
after it.  A write is one step: the denode's lock is not held across its block I/O,
and errors of that I/O are left out, since all that the rest sees of it is `DEUPD`.

### Sock (`sys/kern/uipc_socket.c`, `uipc_socket2.c`, `uipc_usrreq.c`, `sys/sys/socketvar.h`)

One direction of a connected pair of local stream sockets: processes that write
to A and processes that read from B.  Data is counted in units; the i-th unit that
the protocol accepted is called i, so B's buffer is described by two counters and
what a reader copies by where it began.  `hiwat` of A's send buffer and `unp_cc` of B
are the backpressure: the two sockets share `PIPSIZ`.  A step goes from sleep to
sleep; `uiomove` may sleep, on either side, with the buffer locked.  `kept`, `shut` and
`eof` record that a `MSG_WAITALL` read was interrupted, that B was shut down for
reading, and that some read returned end of file.

### NfsNet, NfsServer, NfsClient, Nfs (`sys/nfs`)

`NfsNet` is the network: a set of datagrams that may be lost and come in any order.
A request stands for its xid, procedure and client address.  Every host numbers its
requests from 1 (`nfs_subs.c:86`), so requests of several hosts may agree in all but
the address: those are `Twins`.  A reply says from which execution of which request
its contents come.

`NfsServer` has the nfsds of one socket and `nfsrvcache[]` with its LRU list and hash
chain.  Steps end where an nfsd sleeps: for a locked entry, in `m_copym` with the
entry locked, in the procedure itself.  An entry's address is in an mbuf that the nfsd
frees with the request; after that, under the fault `"reuse"`, it reads as whatever the
mbuf's next user wrote (`Readings`): the entry may be missed, and it may be found for
another host's request of the same xid and procedure.  `forgot`, `twice` and `mixed` are
history: requests whose entry was taken for another, lost in a crash or not
recognised; requests that were given a second entry; and requests of two hosts of
which one was answered from, or recorded in, the other's entry.  With `OpenSpec` the
server runs against a client and a network that may do anything: any request comes at
any time, any number of times, and only the latest datagram is kept.

`NfsClient` has a process for each request, `struct nfsmount` and the socket's lock.
`nfs_timer` is one step for each request it looks at; time is left out, so that any
unanswered request may time out at any moment, and the window grows by any
amount that its arithmetic might give.

`Nfs` puts client, server and network together.

## 4. Runs


| run | instance | shows |
|---|---|---|
| `kernlock` | 3 threads, nesting to 2, fair | `LockInv`, `NoMissedWakeup`, refinement of `RWLock` (`RWSpec`); `WriterServed`, `UpgradeServed` |
| `bufcache` | 2 processes, 3 headers, 2 locked vnodes of one block, one of them a tape | `OneOwner`, `NoMissedWakeup`, `Coherent`, `UniqueBlock`, `Identified` |
| `bufcache_device` | an unlocked vnode, flush against invalidation | `OutputCounted`, `DirtyListed`, `NoPanic` |
| `bufcache_live` | 2 blocks with read-ahead, `geteblk`, flush; at most 2 calls for each process, fair | `CallsReturn` |
| `lockf` | 2 processes, ranges 0-1, 1-1, 1-EOF, 0-EOF | `NoMissedWakeup`, `ExactBytes`, refinement of `RangeLock` (`AdvisorySpec`) |
| `lockf_files` | 2 processes, 3 descriptors, `flock` and `fcntl`, ranges 0-2 and 1-1, `MALLOC` sleeps | `LocksEnd`, `OwnSorted` |
| `lockf_deadlock` | 3 processes, 2 records, read and write, signals | `NoDeadlock`, `NoLostLock` |
| `vnode` | 2 processes, 3 vnodes, 2 names, 2 slots, a cache of 1 entry; open, create, unlink, write, unmount in three mixes | `LookupRight`, `AbsentRight`, `UseCounts`, `OneDenode`, `OpenKept`, `NoMissedWakeup` |
| `vnode_live` | 2 processes, 2 vnodes (the root takes one), open and unlink, or open and unmount, `malloc` sleeps, fair | `CallsReturn` |
| `sock` | 2 senders, 2 readers, `PIPSIZ` 2, writes of 1 and 3, reads of 2 and 3 units with and without `MSG_WAITALL`, shutdown, close, signals, fair | `InOrder`, `Backpressure`, `NoMissedWakeup`, `StreamMoves`, `EofRight`, `CallsEnd` |
| `nfs_server` | 2 nfsds, 2 entries, 2 requests of two hosts with the same xid, that may or may not be repeated, any client, a crash, garbled requests, reused mbufs | `OnceOnly`, `InProgress`, `ReplyRight`, `EntriesOK` |
| `nfs` | 2 requests on a hard, or a soft and interruptible, mount, 1 nfsd with 1 entry, lost datagrams, a crash, fair | `WindowOK`, `CallsReturn` |

### Where the code disagrees with its comments or manual pages

The following configurations are not among the runs of `PROJECT.json`; each ends
in the violation it is for (`tlc -config X.cfg M`).

| configuration, module | property violated | what happens | what is said |
|---|---|---|---|
| `MCBufTwice`, `MCBufCache` | `UniqueBlock` | `getblk` does not search again after `getnewbuf` slept (`vfs_bio.c:298`): two buffers for a block of an unlocked vnode | `vfs_bio.c:245` "creating one if none is found in the cache" |
| `MCBufSpin`, `MCBufCache` | `CallsReturn` | a synchronous `vflushbuf` spins on a dirty buffer that is held by a process that cannot run (`vfs_subr.c:366`) | `vfs_subr.c:322` "Flush all dirty buffers associated with a vnode." |
| `MCLockfSplit`, `MCLockf` | `WriteExclusive` | the check for other locks is stale when `MALLOC` has slept in `lf_split` (`ufs_lockf.c:611`) | `fcntl.2:202` "a write lock must be the only lock for the affected range" |
| `MCLockfLost`, `MCLockf` | `NoLostLock` | waiters taken over by a larger lock keep a pointer to the freed one (`ufs_lockf.c:256`) | `ufs_lockf.c:161` "Delete ourselves from the waiting-to-lock list if we are still on it." |
| `MCLockfShared`, `MCLockf` | `LocksEnd` | `flock(LOCK_UN)` through a shared file clears `FHASLOCK` while another user's lock is still to be granted (`kern_descrip.c:742`) | `fcntl.2:217` "file locks are associated with the descriptor" |
| `MCVnodeStale`, `MCVnode` | `OpenKept` | `cache_enter` sleeps in `malloc` (`vfs_cache.c:204`) with the directory unlocked; the file is unlinked meanwhile, its name entered all the same, and a later open gets the removed file, whose clusters are then freed under it | `vfs_cache.c:58` "it will be dropped"; `msdosfs_denode.c:113` "These files are not to be accessible" |
| `MCVnodeFlush`, `MCVnode` | `SleepersWoken` | `vflush` goes on to a vnode that was cleaned out while it slept in `vgone` (`vfs_subr.c:785`), sets `VXLOCK` on it and sleeps for it to be cleared; `getnewvnode` takes the vnode and clears its flags, and nobody wakes the unmount | `vfs_subr.c:650` "The process is awakened when the transition is completed" |
| `MCSockShutdown`, `MCSock` | `SpaceComesBack` | `shutdown(s, 0)` drops what is in B's buffer (`sorflush`, `uipc_socket.c:781`) without `PRU_RCVD`: A stays charged for it, the sender asleep at `uipc_socket.c:372` is not woken, and a read that finds nothing ends with end of file | `shutdown.2:53` "further receives will be disallowed" (and nothing of the peer's sends) |
| `MCSockWaitAll`, `MCSock` | `WaitAllMoves` | a `MSG_WAITALL` reader has emptied the buffer and sleeps for more without `PRU_RCVD` (`uipc_socket.c:732`), the sender sleeps for the space | `recv.2:133` "block until the full request is satisfied" |
| `MCNfsTwice`, `MCNfsServer` | `InProgressDropped` | a miss that slept for the entry it takes does not search again (`nfs_srvcache.c:223`): two nfsds carry out one request | `nfs_srvcache.c:161` "if in progress, return DROP request" |
| `MCNfsReuse`, `MCNfsServer` | `RepliesOwn` | `rc_nam` points into an mbuf that has been freed (`nfs_srvcache.c:234`); when the next request's address is put there, the comparison at `nfs_srvcache.c:183` is of that address with itself, and a host with the same xid gets another host's reply | `nfs_socket.c:1389` "returns TRUE if they are the same. If there is any doubt, return FALSE." |
| `MCNfsWindow`, `MCNfs` | `TimerSends` | on an interruptible hard mount an interrupted request keeps its place in the window and waits for the socket, behind one that the window does not let out | `nfs_socket.c:826` "don't send this one now but let timer do it" |

More are met with other values of the constants:

* `RecursiveUpdate = TRUE` violates `Exclusion`: the recursive owner that upgrades
  after a downgrade may write beside readers.  `vm_map.c` works around it (comment
  at line 1206).
* `AsyncErrors = TRUE` with `breada` and `getblk` violates `Identified`: a read-ahead
  that fails between `getblk`'s search and its `splbio` dissociates the buffer that
  `getblk` then returns; with `vinvalbuf` it violates `NoPanic` in the same way.
* Two inodes, each open in two processes, with `Flock` violate `NoDeadlock`: two
  files locked with `flock` in opposite order, where the comment at
  `ufs_lockf.c:104` sees "no chance for deadlock".
* `MallocSleeps = TRUE` violates `NoMissedWakeup` of `Lockf`: `lf_clearlock` wakes the
  waiters before `lf_split` sleeps, and one that queues again meanwhile is not
  woken when its bytes become free.
* `MCVnode.cfg` with `MountStable`: `lookup` tests `MNT_MLOCK` before `VFS_ROOT`, which may
  sleep (`vfs_lookup.c:400`); the unmount then frees the mount under it, although
  `mount.h:132` says that the lock keeps "the subtree stable during mounts and
  unmounts".
* `MCVnode.cfg` with two vnodes and `NoNullStore`: `vgone` stores through `vfreeh`, which is
  null when the vnode was alone on the free list (`vfs_subr.c:1019`).
* `MCVnodeLive.cfg` with `"write"` added to a mix of `Mixes` violates `CallsReturn`: `deget` waits for a
  denode with the directory's block held, and `deupdat` the other way round
  (`msdosfs_denode.c:129`).  With `"create"` it is violated because `createde` keeps the
  block when `deget` fails (`msdosfs_lookup.c:492`); with `"unmount"` beside `"unlink"`
  by the flaw of `MCVnodeFlush`.
* `MCSock.cfg` with `NoMoreReceives`: what is sent after `shutdown(s, 0)` is queued and
  received, where `shutdown.2:53` says that "further receives will be disallowed".
* Without the exemption of `forgot`, the fault `"reuse"` violates `OnceOnly`: `rc_nam` is
  a copy of an mbuf header that still points into the freed mbuf
  (`nfs_srvcache.c:234`), where `nfsrvcache.h:52` says "Sockaddr of requestor".

### Bounds, and why they are enough

* `KernLock`: three roles meet in every argument (a writer with `want_write`, an
  upgrader, a reader), and a depth of 2 tells nested from doubly nested holds.
  The proofs remove both bounds.
* `BufCache`: two processes make every pair of calls meet; interrupts interleave
  with both.  With `maxbufmem` 3 the cache allocates two headers and, when both
  processes pass the test together, a third, so allocation, recycling of clean
  and dirty buffers and the wait for `bufneeded` all happen.  Trimming does not: two
  processes do not overrun `maxbufmem` by enough; it is in the proofs, which are for
  any number of them.  One or two
  blocks make hits, misses and evictions.  Two data values tell the latest write
  from an earlier one.  With as many `breada` callers as buffers the code can
  deadlock (each holds one and waits for another); the runs stay below that.
  Processes call without bound, except in the liveness runs (`MaxCalls`),
  which stop when the calls are used up (`CHECK_DEADLOCK FALSE`; a call that hangs
  there violates `CallsReturn`).  Processes and headers are symmetric.
* `Lockf`: the four ranges lie to one another in all six ways of `lf_findoverlap`,
  with and without an end, and byte 2 stands for all later ones.  Two owners are
  enough for the lists, since every pass treats all other owners alike; the
  deadlock run has three, and `maxlockdepth` is the two waits that a cycle of
  three needs.  The run `lockf` may stop (`CHECK_DEADLOCK FALSE`): as in the code,
  a cycle through a waiter whose lock was freed is missed, which is the flaw of
  `MCLockfLost`; so may `lockf_files`.  `lockf_deadlock` uses records that do not
  contain one another, so that this flaw is out of the picture.  In
  `lockf_files` no open file is shared, which is the flaw of `MCLockfShared`.
* `Vnode`: with two names and one cache entry every entry is displaced; three
  vnodes (one is the root's) let both files be in memory and one slot be used
  again while its former file is still open; two vnodes force recycling at each
  miss.  Two processes make every pair of operations meet.  Both may end with
  nothing to do after an unmount (`CHECK_DEADLOCK FALSE`).  The calls of a behaviour
  are one of the `Mixes`, chosen at the start: all calls but unmount, all but create,
  and open, create and unmount, which is every pair of calls.  `NoMissedWakeup` speaks of the mixes without unmount; with
  it, three processes show the flaw of `MCVnodeFlush`.  In `vnode` `malloc` does not
  sleep (the flaw of `MCVnodeStale`); `vnode_live` has only the calls that are free of
  the three hangs above.
* `Sock`: `PIPSIZ` of 2 units and a cluster of 2 are the smallest in which a stream
  can be empty, partly and completely full and a write needs one or two pieces;
  requests of 3 exceed the buffer, so that sender and reader must take turns.  Two
  processes at each end contend for each buffer's lock.  `MaxUnits` ends the stream
  (`CHECK_DEADLOCK FALSE`: a reader may wait for data that nobody sends).
* `NfsServer`: two nfsds, two entries and two requests let every pair of steps
  meet, a miss find its entry locked, and an entry be taken while another nfsd
  answers from it.  The two requests are `Twins`; with reused mbufs each may be found
  for the other, or not.  `MaxExec` 2 tells one execution from more.  Requests come without
  bound.  Nfsds, requests and entries are symmetric: the cache starts with its
  entries in any order.
* `Nfs`: two requests share the socket and a window of 1 or 2; `nm_retry` 1 gives up
  at the first timeout of a soft mount; one crash may come anywhere.  Each request is made
  once, so the run ends (`CHECK_DEADLOCK FALSE`).

### Fairness

`kernlock`: a woken thread runs (`WF` of `Resume`: the scheduler runs runnable
processes), and a holder in time releases the lock, however often it nests or
changes mode (`SF` of the last release, of the nested releases at each depth
and of the end of recursion): code under a map lock does not loop for ever.  Nothing is assumed
of those who ask.

`bufcache_live`: each process goes on in its call and ends its use of a buffer
when it gets the processor time and again (`SF`: no other process keeps it for
ever unless it never sleeps, which the model would show, and does in
`MCBufSpin`), and the device ends every transfer (`WF` of `biodone`: drivers
have timeouts).

`vnode_live`: each process goes on when it has the processor time and again, and
device I/O ends.  `sock`: a process that can run does (`WF` of `Step`).  Nothing is
assumed of those who call, shut down or close.

`nfs`: processes and nfsds that can run do; the timer comes round for each request
and in time finds an mbuf (`WF` of `TimerExpires` with one); and of the calls and
replies of a request that are sent again and again some are received (`SF`): the
code cannot do better on a network that loses everything.

`CallsReturn` of `Nfs` exempts a request that was given two entries, and the time in
which the window is held by an interrupted request: both are flaws described
above.

## 5. Proofs

`KernLockProofs` proves, for any finite set of threads and any depth of nesting,
under `LockAssumption` (the set of threads is finite, `NoThread` is not one of
them, `MaxNest` is a natural number) and `RecursiveUpdate = FALSE` (the callers keep
the rule that `vm_map_pageable` keeps):

* `LockInvariant`: `Spec => []LockInv`.  `Exclusion` is not inductive: that
  `lock_write` finds `read_count = 0` says nothing unless `read_count` is the number of
  readers (`CountOK`), and `lock_done` clears the right bit only if the bits say who
  waits and who writes (`BitsOK`), who is the recursive owner (`OwnerOK`), and that
  waiters hold nothing but an upgrader its read hold (`WaiterOK`).  `LockInv` is
  the conjunction.  The argument goes by the ways in which a call can end (granted for
  writing or reading, an upgrade started or granted, sleep, each kind of release,
  nested call), one lemma for each, which the actions then cite; the
  cardinality of the set of readers moves by one in three of them.
* `NoLostWakeup`: `Spec => []NoMissedWakeup`, from `LockInv` and a step lemma: what
  makes a sleeper's loop condition false also clears `waiting` and wakes all.
* `LockRefinement`: `Spec => RWSpec`, from `LockInv`: each step is a step of `RWLock` or
  leaves its variables alone.

`BufCacheProofs` proves, for any finite set of buffers, any sets of processes,
vnodes and blocks and any `maxbufmem`, under `BufAssumption` and `AsyncErrors =
FALSE` (a transfer for which nobody waits does not fail; if one does, `Identified` and
`NoPanic` are violated, as said above):

* `Invariant`: `Spec => []Inv`, and from it `OneOwnerAlways`, `NoMissedWakeupAlways`,
  `OutputCountedAlways`, `DirtyListedAlways`, `IdentifiedAlways` and `NoPanicAlways`.  None
  of these is inductive by itself: that `biodone` may call `brelse` rests on nobody
  else owning the buffer, which rests on where each process is and what its buffer
  then looks like.  `Inv` says it of the LRU list (`LruOK`: it has each buffer that is
  in use and not busy, once), of each buffer (`BufOK`: flags, vnode and list agree;
  `DirtyOK`: one that is on the dirty list without `B_DELWRI` is about to be moved;
  `OwnOK`: a busy buffer has one owner, or the device has it) and of each process
  (`CallOK`: what it asked for; `HandOK`: the state of the buffer that it has in hand;
  `IdOK`: that buffer is the right one; `SleepOK`: its wakeup is still to come).
  `StepInv` reduces a step to the one process and the one buffer it touches; each
  action then has a lemma.  `v_numoutput` moves with the cardinality of the set of
  writes under way (`OutsMove`).

`BufDataProofs` goes on from there under the further assumption `Locked = Vnodes` (the
users of a vnode hold its lock; `MCBufTwice` shows that without it the statements
are false):

* `UniqueBlockAlways`: `UniqueInv` adds that the users of a vnode take turns (`Turns`)
  and that the block a process searched for in vain is still absent while it is
  in `getnewbuf` (`AbsentOK`); this is what makes it safe not to search again.
* `CoherentAlways`: `DataInv` tells buffers that are ahead of the device (a delayed
  write, one under way, or one about to be started) from the others.  A valid
  buffer with data has the latest (`DataOK`), and the device has the latest unless
  the block's buffer is ahead (`DiskOK`).  An eviction is right because a buffer that is
  not `B_DELWRI` and not busy is not ahead; a read is right because a buffer that is
  being read is not ahead and there is no other of its block.

`LockfProofs` proves about `Lockf`, for any sets of processes, files, inodes and
ranges that `LockfAssumption` allows and for lists of any length, every invariant
that a run checks and the refinement.  Where a theorem has a condition, one of the
violations of section 4 shows that it is needed:

* `LocksSorted` (`OwnSorted`) and `PassesExact` (`ExactBytes`), without condition.
  A pass is a recursive function of the place in the list, about which the provers
  have no induction; but if a statement about the passes failed at some place, it
  would fail at a least one, and the step there is a lemma.  What a pass has done at
  place n is `Account`: the locks it has left behind are in order, each other owner's
  are the same, the bytes seen so far are those asked for, and every sleeper is on a
  lock that still covers what it waits for, woken, or taken over by the lock.
  `SetOutcome` is what follows at the end.  The invariant of the lists is `Base`:
  types, the shape of what is asked for (`Pending`), order (`SortedLists`), and that
  the lock which `lf_clearlock` is about to split, while it sleeps for memory, is
  still there in one piece (`Cuttable`).
* `WakeupsKept` (`NoMissedWakeup`) if `MALLOC` does not sleep.  `Awaited` adds to `Base`
  that who sleeps is on the list of a lock in its way; a step that takes the reason
  away wakes all, by what `Account` says of sleepers.
* `AdvisoryLocks` (`AdvisorySpec`) and `WritersAlone` (`WriteExclusive`) if `MALLOC` does not
  sleep (the flaw of `MCLockfSplit`): each pass `Rewrites` one owner's bytes, which is
  a step of `RangeLock`, since `lf_getblock` found nobody in the way.
* `LocksEndWithOwner` (`LocksEnd`) if no file is shared or `flock` is not used
  (`Unshared`; the flaw of `MCLockfShared`): each owner of a lock has a descriptor of
  the inode and the flag that makes its close look for locks (`Owned`), and so has
  each process that is still to be granted one (`Claims`).
* `NoLockLost` (`NoLostLock`) and `RecordWakeupsKept` (`NoMissedWakeup` although `MALLOC`
  may sleep) if any two ranges are equal or disjoint (`RecordRanges`; the flaw of
  `MCLockfLost`).  Then no lock is ever split or taken over, a process sleeps on one
  list only, and its pointer never dangles (`RecInv`).
* `DeadlocksRefused` (`NoDeadlock`) if moreover `flock` is not used and there are at
  most `maxlockdepth + 1` processes (`DeepEnough`; two files locked with `flock` in
  opposite order deadlock, and a longer cycle is not followed to its end).
  Each sleeper waits for one owner, so a set of processes that wait only for one
  another contains a cycle, and the last to join it would have found itself: the
  walk of `lf_setlock` cannot leave the set, and by the pigeonhole principle comes
  back to the caller within as many steps as there are processes.

`VnodeProofs` proves about `Vnode`, for any finite sets of processes and vnodes, any
sets of names, slots and cache entries that `VnodeAssumption` allows, with or without
sleeps in `malloc` and wraps of `nextvnodeid`, if nobody unmounts (`NoUnmount`;
`MCVnodeFlush` shows what an unmount can do):

* `UseCountsAlways` (`UseCounts`), `OneDenodeAlways` (`OneDenode`) and
  `NoMissedWakeupAlways` (`NoMissedWakeup`).  They need one another, so the invariant
  is `Core`: the types; of each process (`Shape`, `Own`) which vnodes it has at each
  place of its call, what it has still to release, when it has the directory's
  block and the mount point, and that it does not sleep between its last reference
  and `VOP_INACTIVE`; of each vnode (`VnodeOK`) that one being cleaned out has no
  references; of each process and vnode (`Refers`, `Works`, `Sleeps`) which locks the
  process has, whom the lock of a vnode belongs to, what is known of a vnode that it
  cleans out, removes or writes back, and why it sleeps; of two processes (`Apart`)
  that they do not clean out or take the same vnode; that the free list (`FreeOK`)
  and the counts (`Counts`) are right; that the cache's entries are of files (`CacheOK`);
  and that a slot for which a denode is being made has none.  A step is then
  accounted for by what it does to each vnode: nothing (`Same`), something that
  disturbs no other process (`Mild`), the end of its file (`Reclaimed`) or a new
  one (`Made`).
* `LookupRightAlways` (`LookupRight`), `AbsentRightAlways` (`AbsentRight`) and
  `OpenKeptAlways` (`OpenKept`), if moreover `malloc` does not sleep (`~MallocSleeps`;
  with it `MCVnodeStale` refutes `OpenKept`).  `NamesInv`, which is preserved together
  with `Core`, says what directory, denodes and cache know of names: a denode with a
  reference has the name that its slot has, but between `markdeleted` and the end of
  `removede`; no name is in two slots (`NamesDir`); a cache entry whose numbers are
  right is of the root, and of the file of that name or of a name that is in no slot,
  and of the entries for one name only the first can answer (`NamesCache`).  Of a
  process (`NamesProc`) it says that once it has searched the cache nothing in there
  answers for its name until it leaves the directory: it has the directory
  locked, or, in `cache_enter`, the processor.  A process for which `vget` failed is
  the exception: the entry that it met may stay as long as the vnode is being
  cleaned out, and is invalid when the process is woken.  Hence `removede` leaves no
  entry for the file, nobody finds a file without reference, and `detrunc` works
  on a file that has no user.

`SockProofs` proves, for any sets of senders and readers, any `PIPSIZ`, low-water
mark and request sizes that `SockAssumption` allows, `SockInvariant`: `Spec => []Inv`, and from it
`SockInOrder`, `SockBackpressure`, `SockNoMissedWakeup`, `SockStreamMoves` and `SockEofRight`.
`Inv` says where each process can be (`Places`), that a locked buffer has one holder
(`LockHeld`), what a call in progress has been promised (`CallOK`: the space that `sosend`
saw before `uiomove` slept, the units that `soreceive` is copying), what the two ends
know of each other (`EndsOK`), that A is charged for more than B holds only until a
reader that took units calls `PRU_RCVD` (`Charged`), and for each
reason to sleep that it still exists and who will end it (`LockWaits`, `SpaceWaits`,
`DataWaits`).

`NfsServerProofs` proves, for any sets of nfsds, requests and cache entries that
`ServerAssumption` allows and against any client and network (`OpenSpec`), with crashes,
failing procedures and reused mbufs, `ServerInvariant`: `OpenSpec => []ServerInv`, and
from it `ServerOnceOnly`, `ServerInProgress`, `ServerReplyRight` and `ServerEntriesOK`.
`ReplyRight` excepts requests of two hosts that a reused mbuf has mixed up; that there are
none without reused mbufs, or if no two hosts use one xid for one procedure (`Distinct`),
is `MixedStays`, and gives `ServerRepliesOwn`: every reply goes to the caller whose
request it answers.
`OnceOnly` needs `KnownOK`: a request that is known (not forgotten, given two entries or
mixed up) has one entry, at most one nfsd works on it, and the number of its
executions follows from the entry's state and that nfsd's place.

`NfsProofs` proves about the composition `Nfs`, for any finite set of requests,
`NfsInvariant`: `Spec => []NfsInv`, where `NfsInv` is `ServerInv` and `ClientInv`; neither side
needs more of the other than that the calls are of requests and the replies are
executions'.  From it follow `NfsWindow` (`nm_sent` is exactly the number of requests
that are out and of those that `nfs_send` gave up; each of the latter leaks from the
count once, as it fails, which `SentOK` adds to make it inductive) and `NfsServerOK`, the
server's statements with this client, which is one host (`OneHost`), so that no reply
goes astray.

Only model-checked:

* liveness (`WriterServed`, `UpgradeServed`, `CallsReturn`, `CallsEnd`): the prover has no
  fairness reasoning;
* `Vnode` with unmounts.

## 6. Not modelled

Beside the components marked so in the inventory:

* sleep locks: `lock_sleepable` and simple locks (no code on a uniprocessor);
* buffers: the
  pointer updates inside `bgetvp`, `brelvp` and `reassignbuf`, which are single steps here
  although some run outside `splbio` (`vfs_subr.c:488`; they meet an interrupt only
  when an asynchronous transfer fails); the deadlock of as many `breada` callers as
  there are buffers (`vfs_bio.c:388`), which the bounds stay below;
* advisory locks: `lf_getlock`, which only reports; `l_whence` arithmetic, which is
  partly in the missing `ufs_advlock`; sleeping priorities;
* vnodes: device aliases, `revoke`, the walk over earlier path components, symbolic
  links, renames and directories other than the root, the FAT;
* sockets: listening sockets, datagrams, out-of-band data, control messages and the
  garbage collection of descriptors in flight, `select`, the count of mbufs, the
  protocols that work at interrupt level;
* NFS: TCP mounts with their reconnection, several mounts of one server, the
  round-trip estimate (`nfs_socket.c:1246`), compression, the client's block cache and
  asynchronous daemons, and the procedures themselves, which are an execution that
  happens or fails;
* UFS: `ufs_inode.c`, `ufs_bmap.c` and `ufs_vnops.c` are not in the distribution.

The repository also holds a complete set of utilities, libraries and third-party
programs, about three million lines that are sequential for the most part; the
models keep to the kernel, whose concurrency no test of the repository exercises.
