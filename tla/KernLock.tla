------------------------------ MODULE KernLock ------------------------------
(***************************************************************************)
(* The sleep lock of sys/vm/kern_lock.c (Mach's lock_t, as vm_map uses     *)
(* it).  The kernel is built with NCPUS = 1: the interlock is empty,       *)
(* lock_wait_time is 0, and a process gives up the processor only by       *)
(* sleeping.  So a call is one step from its entry, or from where it was   *)
(* woken, to its return or to its next thread_sleep.  Every lock is        *)
(* initialised with can_sleep = TRUE (vm_map.c), which is assumed here.    *)
(*                                                                         *)
(* hold, nestR and nestW record what the calls have returned to their      *)
(* callers; they are not fields of struct lock.                            *)
(***************************************************************************)
EXTENDS Integers, FiniteSets

CONSTANTS Threads,          \* the processes that share the lock
          NoThread,         \* l->thread when the lock is not recursive
          MaxNest,          \* bound: nested holds of a recursive owner
          RecursiveUpdate   \* may an owner that has downgraded write again?

ASSUME LockAssumption ==
    /\ IsFiniteSet(Threads)
    /\ NoThread \notin Threads
    /\ MaxNest \in Nat
    /\ RecursiveUpdate \in BOOLEAN

VARIABLES want_write, want_upgrade, waiting, read_count, thread,
          recursion_depth,      \* struct lock
          pc,                   \* pc[t]: "run", or the loop t waits in
          asleep,               \* threads in thread_sleep on the lock
          hold,                 \* hold[t]: what t has been granted
          nestR, nestW          \* nested holds of the recursive owner

bits   == <<want_write, want_upgrade>>
nested == <<thread, recursion_depth, nestR, nestW>>
vars   == <<want_write, want_upgrade, waiting, read_count, thread,
            recursion_depth, pc, asleep, hold, nestR, nestW>>

Places == {"run", "write1", "write2", "read", "upgrade"}

TypeOK ==
    /\ want_write \in BOOLEAN /\ want_upgrade \in BOOLEAN /\ waiting \in BOOLEAN
    /\ read_count \in Int /\ recursion_depth \in Int
    /\ thread \in Threads \cup {NoThread}
    /\ pc \in [Threads -> Places]
    /\ asleep \in SUBSET Threads
    /\ hold \in [Threads -> {"none", "read", "write"}]
    /\ nestR \in Nat /\ nestW \in Nat

lock_init ==
    /\ want_write = FALSE /\ want_upgrade = FALSE /\ waiting = FALSE
    /\ read_count = 0 /\ thread = NoThread /\ recursion_depth = 0
    /\ pc = [t \in Threads |-> "run"]
    /\ asleep = {}
    /\ hold = [t \in Threads |-> "none"]
    /\ nestR = 0 /\ nestW = 0

-----------------------------------------------------------------------------
(* The condition of the loop in which t waits.                             *)
Blocked(t) ==
    \/ pc[t] = "write1"  /\ want_write
    \/ pc[t] = "write2"  /\ (read_count # 0 \/ want_upgrade)
    \/ pc[t] = "read"    /\ (want_write \/ want_upgrade)
    \/ pc[t] = "upgrade" /\ read_count # 0

thread_sleep(t, place) ==
    /\ waiting' = TRUE
    /\ asleep' = asleep \cup {t}
    /\ pc' = [pc EXCEPT ![t] = place]
    /\ UNCHANGED hold

(* Every sleeper becomes runnable and will test its condition again.       *)
WakeNoOne == UNCHANGED <<waiting, asleep>>
thread_wakeup ==
    IF waiting THEN waiting' = FALSE /\ asleep' = {}
               ELSE UNCHANGED <<waiting, asleep>>

Return(t, h) ==
    /\ hold' = [hold EXCEPT ![t] = h]
    /\ pc' = [pc EXCEPT ![t] = "run"]
    /\ UNCHANGED <<waiting, asleep>>

-----------------------------------------------------------------------------
(* The waiting loops, entered from a call or after a wakeup.               *)
WaitReaders_IgnoreUpgrade(t) ==
    IF read_count # 0 THEN thread_sleep(t, "write2") ELSE Return(t, "write")
WaitReaders(t) ==
    IF read_count # 0 \/ want_upgrade
    THEN thread_sleep(t, "write2")
    ELSE Return(t, "write")

WaitWrite(t) ==
    IF want_write
    THEN thread_sleep(t, "write1") /\ UNCHANGED want_write
    ELSE want_write' = TRUE /\ WaitReaders(t)

WaitRead_ReadersFirst(t) ==
    IF want_upgrade
    THEN thread_sleep(t, "read") /\ UNCHANGED read_count
    ELSE read_count' = read_count + 1 /\ Return(t, "read")
WaitRead_OnlyWriters(t) ==
    IF want_write
    THEN thread_sleep(t, "read") /\ UNCHANGED read_count
    ELSE read_count' = read_count + 1 /\ Return(t, "read")
WaitRead(t) ==
    IF want_write \/ want_upgrade
    THEN thread_sleep(t, "read") /\ UNCHANGED read_count
    ELSE read_count' = read_count + 1 /\ Return(t, "read")

(* read_count no longer counts the thread that upgrades.                   *)
WaitUpgrade(t, readers) ==
    IF readers # 0 THEN thread_sleep(t, "upgrade") ELSE Return(t, "write")

-----------------------------------------------------------------------------
(* The callers: a thread enters with nothing, or holds the lock once; the  *)
(* recursive owner nests calls of one kind at a time and clears recursion  *)
(* before its last release; after a downgrade it only reads (vm_map.c,     *)
(* vm_map_pageable), unless RecursiveUpdate.                               *)
Fresh(t)  == pc[t] = "run" /\ hold[t] = "none"
Holds(t, h) == pc[t] = "run" /\ hold[t] = h
Owner(t)  == pc[t] = "run" /\ thread = t

(* What the calls do when l->thread is the caller.                         *)
NestWrite(t) ==
    /\ Owner(t) /\ hold[t] = "write" /\ nestR = 0
    /\ nestW < MaxNest
    /\ recursion_depth' = recursion_depth + 1
    /\ nestW' = nestW + 1
    /\ UNCHANGED <<bits, waiting, read_count, thread, pc, asleep, hold, nestR>>

NestRead(t) ==
    /\ Owner(t) /\ nestW = 0 /\ nestR < MaxNest
    /\ read_count' = read_count + 1
    /\ nestR' = nestR + 1
    /\ UNCHANGED <<bits, waiting, thread, recursion_depth, pc, asleep, hold, nestW>>

NestUpgrade(t) ==
    /\ Owner(t)
    /\ read_count' = read_count - 1 /\ recursion_depth' = recursion_depth + 1
    /\ \/ /\ hold[t] = "write" /\ nestR = 1
          /\ nestR' = 0 /\ nestW' = 1
          /\ UNCHANGED hold
       \/ /\ hold[t] = "read" /\ RecursiveUpdate /\ nestR = 0 /\ nestW = 0
          /\ hold' = [hold EXCEPT ![t] = "write"]
          /\ UNCHANGED <<nestR, nestW>>
    /\ UNCHANGED <<bits, waiting, thread, pc, asleep>>

lock_write(t) ==
    \/ NestWrite(t)
    \/ Fresh(t) /\ WaitWrite(t) /\ UNCHANGED <<want_upgrade, read_count, nested>>

lock_read(t) ==
    \/ NestRead(t)
    \/ Fresh(t) /\ WaitRead(t) /\ UNCHANGED <<bits, nested>>

(* One routine releases every kind of hold, and finds out from the fields  *)
(* alone which kind it is.                                                 *)
Drop_WriteFirst ==
    /\ read_count' = IF read_count # 0 THEN read_count - 1 ELSE read_count
    /\ recursion_depth' = IF read_count = 0 /\ recursion_depth # 0
                          THEN recursion_depth - 1 ELSE recursion_depth
    /\ want_write' = IF read_count = 0 /\ recursion_depth = 0
                     THEN FALSE ELSE want_write
    /\ want_upgrade' = IF read_count = 0 /\ recursion_depth = 0 /\ ~want_write
                       THEN FALSE ELSE want_upgrade
Drop ==
    /\ read_count' = IF read_count # 0 THEN read_count - 1 ELSE read_count
    /\ recursion_depth' = IF read_count = 0 /\ recursion_depth # 0
                          THEN recursion_depth - 1 ELSE recursion_depth
    /\ want_upgrade' = IF read_count = 0 /\ recursion_depth = 0
                       THEN FALSE ELSE want_upgrade
    /\ want_write' = IF read_count = 0 /\ recursion_depth = 0 /\ ~want_upgrade
                     THEN FALSE ELSE want_write

lock_done(t) ==
    /\ pc[t] = "run" /\ hold[t] # "none"
    /\ Drop
    /\ thread_wakeup
    /\ \/ /\ thread # t
          /\ hold' = [hold EXCEPT ![t] = "none"]
          /\ UNCHANGED <<nestR, nestW>>
       \/ /\ thread = t /\ nestR > 0 /\ nestR' = nestR - 1
          /\ UNCHANGED <<hold, nestW>>
       \/ /\ thread = t /\ nestW > 0 /\ nestW' = nestW - 1
          /\ UNCHANGED <<hold, nestR>>
    /\ UNCHANGED <<pc, thread>>

StartUpgrade(t) ==
    /\ read_count' = read_count - 1
    /\ want_upgrade' = TRUE
    /\ WaitUpgrade(t, read_count - 1)
    /\ UNCHANGED <<want_write, nested>>

(* The second of two readers that ask is refused, and loses its hold.      *)
lock_read_to_write(t) ==
    \/ NestUpgrade(t)
    \/ /\ Holds(t, "read") /\ thread # t /\ want_upgrade
       /\ read_count' = read_count - 1
       /\ thread_wakeup
       /\ hold' = [hold EXCEPT ![t] = "none"]
       /\ UNCHANGED <<bits, pc, nested>>
    \/ Holds(t, "read") /\ thread # t /\ ~want_upgrade /\ StartUpgrade(t)

lock_write_to_read(t) ==
    /\ read_count' = read_count + 1
    /\ recursion_depth' = IF recursion_depth # 0 THEN recursion_depth - 1
                          ELSE recursion_depth
    /\ want_upgrade' = IF recursion_depth = 0 THEN FALSE ELSE want_upgrade
    /\ want_write' = IF recursion_depth = 0 /\ ~want_upgrade THEN FALSE
                     ELSE want_write
    /\ thread_wakeup
    /\ \/ /\ Holds(t, "write") /\ (thread = t => nestR + nestW = 0)
          /\ hold' = [hold EXCEPT ![t] = "read"]
          /\ UNCHANGED <<nestR, nestW>>
       \/ /\ Owner(t) /\ nestW = 1
          /\ nestR' = 1 /\ nestW' = 0
          /\ UNCHANGED hold
    /\ UNCHANGED <<pc, thread>>

lock_try_write(t) ==
    \/ NestWrite(t)
    \/ /\ Fresh(t)
       /\ IF want_write \/ want_upgrade \/ read_count # 0
          THEN UNCHANGED vars
          ELSE /\ want_write' = TRUE
               /\ Return(t, "write")
               /\ UNCHANGED <<want_upgrade, read_count, nested>>

lock_try_read(t) ==
    \/ NestRead(t)
    \/ /\ Fresh(t)
       /\ IF want_write \/ want_upgrade
          THEN UNCHANGED vars
          ELSE /\ read_count' = read_count + 1
               /\ Return(t, "read")
               /\ UNCHANGED <<bits, nested>>

(* Refused, the caller keeps its read hold; accepted, it may still sleep.  *)
lock_try_read_to_write(t) ==
    \/ NestUpgrade(t)
    \/ /\ Holds(t, "read") /\ thread # t
       /\ IF want_upgrade THEN UNCHANGED vars ELSE StartUpgrade(t)

lock_set_recursive(t) ==
    /\ Holds(t, "write") /\ want_write /\ ~want_upgrade /\ thread = NoThread
    /\ thread' = t
    /\ UNCHANGED <<bits, waiting, read_count, recursion_depth, pc, asleep, hold, nestR, nestW>>

lock_clear_recursive(t) ==
    /\ Owner(t) /\ nestR = 0 /\ nestW = 0
    /\ thread' = IF recursion_depth = 0 THEN NoThread ELSE thread
    /\ UNCHANGED <<bits, waiting, read_count, recursion_depth, pc, asleep, hold, nestR, nestW>>

(* A thread woken from thread_sleep goes round its loop.                   *)
Resume(t) ==
    /\ t \notin asleep
    /\ \/ /\ pc[t] = "write1" /\ WaitWrite(t)
          /\ UNCHANGED <<want_upgrade, read_count>>
       \/ /\ pc[t] = "write2" /\ WaitReaders(t)
          /\ UNCHANGED <<bits, read_count>>
       \/ /\ pc[t] = "read" /\ WaitRead(t)
          /\ UNCHANGED bits
       \/ /\ pc[t] = "upgrade" /\ WaitUpgrade(t, read_count)
          /\ UNCHANGED <<bits, read_count>>
    /\ UNCHANGED nested

-----------------------------------------------------------------------------
Step(t) ==
    \/ lock_write(t) \/ lock_read(t) \/ lock_done(t)
    \/ lock_read_to_write(t) \/ lock_write_to_read(t)
    \/ lock_try_write(t) \/ lock_try_read(t) \/ lock_try_read_to_write(t)
    \/ lock_set_recursive(t) \/ lock_clear_recursive(t)
    \/ Resume(t)

Next == \E t \in Threads : Step(t)

Spec == lock_init /\ [][Next]_vars

(* The last release of a holder, and one of its owner's nested releases.   *)
LetGo(t) == lock_done(t) /\ hold'[t] = "none"
Unnest(t, n) == lock_done(t) /\ thread = t /\ nestR + nestW = n

(* A runnable thread is run; a holder gets to the end of what it does      *)
(* under the lock, however often it nests, upgrades and downgrades there.  *)
Fairness == \A t \in Threads :
    /\ WF_vars(Resume(t))
    /\ SF_vars(LetGo(t)) /\ \A n \in 1..MaxNest : SF_vars(Unnest(t, n))
    /\ SF_vars(lock_clear_recursive(t))

FairSpec == Spec /\ Fairness

-----------------------------------------------------------------------------
(* A thread that may write has the lock to itself: no other thread holds   *)
(* it in any mode.                                                         *)
Writes(t) == hold[t] = "write" \/ (thread = t /\ nestW > 0)
Exclusion == \A t, u \in Threads : t # u /\ Writes(t) => hold[u] = "none"

(* No wakeup is lost: a thread asleep on the lock is one whose loop would  *)
(* put it back to sleep, and the flag that makes lock_done wake it is set. *)
NoMissedWakeup == \A t \in asleep : Blocked(t) /\ waiting

(* What the counters and flags of struct lock say of the threads, which is *)
(* all that lock_done has to tell a read from a write or an upgrade.       *)
Readers == {t \in Threads : hold[t] = "read" /\ pc[t] # "upgrade"}

CountOK ==
    /\ read_count = Cardinality(Readers) + nestR
    /\ recursion_depth = nestW
    /\ nestR = 0 \/ nestW = 0
    /\ nestR + nestW > 0 => thread \in Threads

OwnerOK == thread \in Threads =>
    /\ pc[thread] = "run"
    /\ hold[thread] \in {"read", "write"}
    /\ hold[thread] = "write" => want_write /\ ~want_upgrade
    /\ nestW > 0 => hold[thread] = "write"

WaiterOK == \A t \in Threads :
    /\ pc[t] \in {"write1", "write2", "read"} => hold[t] = "none"
    /\ pc[t] = "upgrade" => hold[t] = "read"
    /\ t \in asleep => pc[t] # "run"

BitsOK ==
    /\ \A t, u \in Threads : pc[t] = "write2" /\ pc[u] = "write2" => t = u
    /\ \A t, u \in Threads : pc[t] = "upgrade" /\ pc[u] = "upgrade" => t = u
    /\ (\E t \in Threads : pc[t] = "write2") => want_write
    /\ (\E t \in Threads : pc[t] = "upgrade") => want_upgrade
    /\ want_write => \E t \in Threads :
          pc[t] = "write2" \/ (hold[t] = "write" /\ ~want_upgrade)
    /\ want_upgrade => \E t \in Threads : pc[t] = "upgrade" \/ hold[t] = "write"
    /\ \A t \in Threads : hold[t] = "write" =>
          /\ want_write \/ want_upgrade
          /\ ~want_upgrade => \A u \in Threads : pc[u] # "write2"
          /\ \A u \in Threads : pc[u] # "upgrade"

(* The inductive invariant behind Exclusion and NoMissedWakeup: the fields *)
(* of struct lock account for every holder and every waiter.               *)
LockInv == TypeOK /\ CountOK /\ OwnerOK /\ WaiterOK /\ BitsOK /\ Exclusion

-----------------------------------------------------------------------------
(* The lock implements the reader/writer lock its callers count on: in     *)
(* particular no writer gets in between a granted upgrade and the read     *)
(* hold it started from.                                                   *)
RW == INSTANCE RWLock
RWSpec == RW!Spec

(* A writer that has set want_write gets the lock: no stream of readers    *)
(* and upgrades can keep it waiting.                                       *)
WriterServed  == \A t \in Threads : pc[t] = "write2"  ~> hold[t] = "write"

(* So does a reader whose lock_read_to_write has set want_upgrade.         *)
UpgradeServed == \A t \in Threads : pc[t] = "upgrade" ~> hold[t] = "write"
=============================================================================
