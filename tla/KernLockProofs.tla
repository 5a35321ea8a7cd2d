--------------------------- MODULE KernLockProofs ---------------------------
(***************************************************************************)
(* Proofs about the sleep lock of sys/vm/kern_lock.c, for any finite set   *)
(* of threads and any depth of nesting.                                    *)
(***************************************************************************)
EXTENDS KernLock, FiniteSetTheorems, TLAPS

(* A thread that starts or stops to count as a reader changes the number   *)
(* of readers by one.                                                      *)
LEMMA ReadersFinite ==
    IsFiniteSet(Readers) /\ Cardinality(Readers) \in Nat
  <1>1. Readers \subseteq Threads
    BY DEF Readers
  <1>2. IsFiniteSet(Readers)
    BY <1>1, FS_Subset, LockAssumption
  <1> QED
    BY <1>2, FS_CardinalityType

LEMMA ReaderAdded ==
    ASSUME NEW t, t \notin Readers, Readers' = Readers \cup {t}
    PROVE  Cardinality(Readers') = Cardinality(Readers) + 1
  BY ReadersFinite, FS_AddElement

LEMMA ReaderRemoved ==
    ASSUME NEW t, t \in Readers, Readers' = Readers \ {t}
    PROVE  Cardinality(Readers') = Cardinality(Readers) - 1
  BY ReadersFinite, FS_RemoveElement

(* With no reader counted nobody reads, but for a thread that upgrades.    *)
LEMMA NoReaders ==
    ASSUME Cardinality(Readers) = 0
    PROVE  \A u \in Threads : hold[u] = "read" => pc[u] = "upgrade"
  <1>1. Readers = {}
    BY ReadersFinite, FS_EmptySet
  <1> QED
    BY <1>1 DEF Readers

LEMMA SomeReader ==
    ASSUME NEW t \in Readers
    PROVE  Cardinality(Readers) > 0
  BY ReadersFinite, FS_EmptySet

-----------------------------------------------------------------------------
LEMMA InitInv == lock_init => LockInv /\ NoMissedWakeup
  <1> SUFFICES ASSUME lock_init PROVE LockInv /\ NoMissedWakeup
    OBVIOUS
  <1> USE DEF lock_init
  <1>1. Readers = {}
    BY DEF Readers
  <1>2. CountOK
    BY <1>1, FS_EmptySet DEF CountOK
  <1>3. TypeOK
    <2>1. pc \in [Threads -> Places] /\ hold \in [Threads -> {"none", "read", "write"}]
      BY DEF Places
    <2>2. read_count \in Int /\ recursion_depth \in Int /\ nestR \in Nat /\ nestW \in Nat
      OBVIOUS
    <2>3. want_write \in BOOLEAN /\ want_upgrade \in BOOLEAN /\ waiting \in BOOLEAN
      OBVIOUS
    <2>4. thread \in Threads \cup {NoThread} /\ asleep \in SUBSET Threads
      OBVIOUS
    <2> QED
      BY <2>1, <2>2, <2>3, <2>4 DEF TypeOK
  <1>4. OwnerOK
    BY LockAssumption DEF OwnerOK
  <1>5. WaiterOK /\ BitsOK /\ Exclusion /\ NoMissedWakeup
    BY DEF WaiterOK, BitsOK, Exclusion, Writes, NoMissedWakeup
  <1> QED
    BY <1>2, <1>3, <1>4, <1>5 DEF LockInv

-----------------------------------------------------------------------------
(* The ways in which a call ends, and what each needs of the state before. *)

(* The lock is granted for writing to a thread that waited, or not, behind *)
(* want_write.                                                             *)
LEMMA GrantWrite ==
    ASSUME LockInv, NEW t \in Threads,
           t \notin asleep, hold[t] = "none", pc[t] \in {"run", "write1", "write2"},
           pc[t] = "write2" \/ ~want_write,
           read_count = 0, ~want_upgrade,
           want_write' = TRUE, Return(t, "write"),
           UNCHANGED <<want_upgrade, read_count, nested>>
    PROVE  LockInv'
  <1> USE DEF LockInv, nested, Return
  <1>1. Cardinality(Readers) = 0 /\ nestR = 0
    BY ReadersFinite DEF CountOK, TypeOK
  <1>2. \A u \in Threads : hold[u] = "none"
    BY <1>1, NoReaders DEF BitsOK, TypeOK
  <1>3. thread = NoThread
    BY <1>2 DEF OwnerOK, TypeOK
  <1>4. TypeOK'
    BY DEF TypeOK, Places
  <1>5. Readers' = Readers
    BY <1>2 DEF Readers, TypeOK
  <1>6. CountOK'
    BY <1>5 DEF CountOK
  <1>7. OwnerOK' /\ Exclusion'
    BY <1>2, <1>3, LockAssumption DEF OwnerOK, Exclusion, Writes, TypeOK
  <1>9. WaiterOK'
    BY DEF WaiterOK, TypeOK
  <1>8. BitsOK'
    BY <1>2 DEF BitsOK, WaiterOK, TypeOK
  <1> QED
    BY <1>4, <1>6, <1>7, <1>8, <1>9

(* The lock is granted for reading.                                        *)
LEMMA GrantRead ==
    ASSUME LockInv, NEW t \in Threads,
           t \notin asleep, hold[t] = "none", pc[t] \in {"run", "read"},
           ~want_write, ~want_upgrade,
           read_count' = read_count + 1, Return(t, "read"),
           UNCHANGED <<bits, nested>>
    PROVE  LockInv'
  <1> USE DEF LockInv, nested, bits, Return
  <1>1. \A u \in Threads : hold[u] # "write" /\ pc[u] \notin {"write2", "upgrade"}
    BY DEF BitsOK
  <1>2. thread # t
    BY DEF OwnerOK
  <1>3. TypeOK'
    BY DEF TypeOK, Places
  <1>4. Readers' = Readers \cup {t} /\ t \notin Readers
    BY DEF Readers, TypeOK
  <1>8. Cardinality(Readers') = Cardinality(Readers) + 1
    BY <1>4, ReaderAdded
  <1>5. CountOK'
    BY <1>8, ReadersFinite DEF CountOK, TypeOK
  <1>6. OwnerOK'
    BY <1>2 DEF OwnerOK, TypeOK
  <1>9. WaiterOK'
    BY DEF WaiterOK, TypeOK
  <1>7. Exclusion' /\ BitsOK'
    BY <1>1, <1>2 DEF OwnerOK, Exclusion, Writes, BitsOK, TypeOK
  <1> QED
    BY <1>3, <1>5, <1>6, <1>7, <1>9

(* A reader that is no longer counted goes to sleep until the others have  *)
(* left, or is the writer at once.                                         *)
LEMMA Upgrading ==
    ASSUME LockInv, NEW t \in Threads, Holds(t, "read"), thread # t,
           ~want_upgrade, StartUpgrade(t)
    PROVE  LockInv'
  <1> USE DEF LockInv, nested, Holds, StartUpgrade
  <1>1. \A u \in Threads : hold[u] # "write" /\ pc[u] # "upgrade"
    BY DEF Exclusion, Writes, BitsOK
  <1>2. t \in Readers
    BY DEF Readers
  <1>3. nestW = 0
    BY <1>1 DEF OwnerOK, CountOK, TypeOK
  <1>4. CASE read_count - 1 # 0 /\ thread_sleep(t, "upgrade")
    <2> USE <1>4 DEF thread_sleep
    <2>1. TypeOK'
      BY DEF TypeOK, Places
    <2>2. Readers' = Readers \ {t}
      BY DEF Readers, TypeOK
    <2>6. Cardinality(Readers') = Cardinality(Readers) - 1
      BY <1>2, <2>2, ReaderRemoved
    <2>3. CountOK'
      BY <2>6, ReadersFinite DEF CountOK, TypeOK
    <2>4. OwnerOK' /\ WaiterOK' /\ Exclusion'
      BY <1>1, <1>3 DEF OwnerOK, WaiterOK, Exclusion, Writes, TypeOK
    <2>5. BitsOK'
      BY <1>1 DEF BitsOK, TypeOK
    <2> QED
      BY <2>1, <2>3, <2>4, <2>5
  <1>5. CASE read_count - 1 = 0 /\ Return(t, "write")
    <2> USE <1>5 DEF Return
    <2>1. TypeOK'
      BY DEF TypeOK, Places
    <2>2. Readers' = Readers \ {t}
      BY DEF Readers, TypeOK
    <2>10. Cardinality(Readers') = Cardinality(Readers) - 1
      BY <1>2, <2>2, ReaderRemoved
    <2>11. Cardinality(Readers) > 0
      BY <1>2, SomeReader
    <2>3. Cardinality(Readers') = 0 /\ nestR = 0
      BY <2>10, <2>11, ReadersFinite DEF CountOK, TypeOK
    <2>4. CountOK'
      BY <1>3, <2>3 DEF CountOK, TypeOK
    <2>5. Readers' = {}
      BY <2>2, <2>3, ReadersFinite, FS_RemoveElement, FS_EmptySet, FS_Subset
    <2>6. \A u \in Threads \ {t} : hold[u] = "none"
      BY <1>1, <2>5 DEF Readers, TypeOK
    <2>7. thread = NoThread
      BY <2>6 DEF OwnerOK, TypeOK
    <2>8. OwnerOK' /\ WaiterOK' /\ Exclusion'
      BY <2>6, <2>7, LockAssumption DEF OwnerOK, WaiterOK, Exclusion, Writes, TypeOK
    <2>9. BitsOK'
      BY <1>1, <2>6 DEF BitsOK, WaiterOK, TypeOK
    <2> QED
      BY <2>1, <2>4, <2>8, <2>9
  <1> QED
    BY <1>4, <1>5 DEF WaitUpgrade, TypeOK

(* A thread that upgrades has seen the last reader leave.                  *)
LEMMA UpgradeGranted ==
    ASSUME LockInv, NEW t \in Threads, t \notin asleep,
           pc[t] = "upgrade", read_count = 0, Return(t, "write"),
           UNCHANGED <<bits, read_count, nested>>
    PROVE  LockInv'
  <1> USE DEF LockInv, nested, bits, Return
  <1>1. Cardinality(Readers) = 0 /\ nestR = 0
    BY ReadersFinite DEF CountOK, TypeOK
  <1>2. \A u \in Threads \ {t} : hold[u] = "none" /\ pc[u] # "upgrade"
    BY <1>1, NoReaders DEF BitsOK, TypeOK
  <1>3. thread = NoThread
    BY <1>2 DEF OwnerOK, TypeOK
  <1>4. TypeOK'
    BY DEF TypeOK, Places
  <1>5. Readers' = Readers
    BY DEF Readers, TypeOK
  <1>6. CountOK'
    BY <1>5 DEF CountOK
  <1>7. OwnerOK' /\ Exclusion'
    BY <1>2, <1>3, LockAssumption DEF OwnerOK, Exclusion, Writes, TypeOK
  <1>8. WaiterOK'
    BY DEF WaiterOK, TypeOK
  <1>9. BitsOK'
    BY <1>2 DEF BitsOK, TypeOK
  <1> QED
    BY <1>4, <1>6, <1>7, <1>8, <1>9

(* A thread goes to sleep in the loop it is in, or in one it enters: with  *)
(* nothing held, or with a read hold that is no longer counted.            *)
LEMMA Sleeping ==
    ASSUME LockInv, NEW t \in Threads, NEW place \in Places \ {"run"},
           thread_sleep(t, place), UNCHANGED <<want_upgrade, read_count, nested>>,
           \/ pc[t] = place /\ UNCHANGED want_write
           \/ /\ hold[t] = "none" /\ pc[t] = "run" /\ place \in {"write1", "read"}
              /\ UNCHANGED want_write
           \/ /\ hold[t] = "none" /\ pc[t] \in {"run", "write1"} /\ place = "write2"
              /\ ~want_write /\ want_write' = TRUE
    PROVE  LockInv'
  <1> USE DEF LockInv, nested, thread_sleep
  <1>1. thread # t /\ (hold[t] = "none" \/ (place = "upgrade" /\ pc[t] = "upgrade"))
    BY DEF OwnerOK, WaiterOK, Places
  <1>2. TypeOK'
    BY DEF TypeOK
  <1>3. Readers' = Readers
    BY <1>1 DEF Readers, TypeOK
  <1>4. CountOK'
    BY <1>3 DEF CountOK
  <1>5. OwnerOK'
    BY <1>1 DEF OwnerOK, TypeOK
  <1>6. WaiterOK'
    BY <1>1 DEF WaiterOK, TypeOK, Places
  <1>7. Exclusion'
    BY DEF Exclusion, Writes
  <1>8. BitsOK'
    BY <1>1 DEF BitsOK, TypeOK
  <1> QED
    BY <1>2, <1>4, <1>5, <1>6, <1>7, <1>8

(* A reader lets go, or loses its hold to a refused upgrade.               *)
LEMMA ReadReleased ==
    ASSUME LockInv, NEW t \in Threads, Holds(t, "read"), thread # t,
           read_count' = read_count - 1, thread_wakeup,
           hold' = [hold EXCEPT ![t] = "none"],
           UNCHANGED <<bits, pc, nested>>
    PROVE  LockInv'
  <1> USE DEF LockInv, nested, bits, Holds, thread_wakeup
  <1>1. t \in Readers /\ Readers' = Readers \ {t}
    BY DEF Readers, TypeOK
  <1>2. Cardinality(Readers') = Cardinality(Readers) - 1
    BY <1>1, ReaderRemoved
  <1>3. TypeOK'
    <2>1. read_count' \in Int
      BY DEF TypeOK
    <2>2. waiting' \in BOOLEAN /\ asleep' \in SUBSET Threads
      BY DEF TypeOK
    <2>3. hold' \in [Threads -> {"none", "read", "write"}]
      BY DEF TypeOK
    <2>4. want_write' \in BOOLEAN /\ want_upgrade' \in BOOLEAN
      BY DEF TypeOK
    <2> QED
      BY <2>1, <2>2, <2>3, <2>4 DEF TypeOK
  <1>4. CountOK'
    BY <1>2, ReadersFinite DEF CountOK, TypeOK
  <1>5. OwnerOK'
    BY DEF OwnerOK, TypeOK
  <1>6. WaiterOK' /\ Exclusion'
    BY DEF WaiterOK, Exclusion, Writes, TypeOK
  <1>7. BitsOK'
    BY DEF BitsOK, TypeOK
  <1> QED
    BY <1>3, <1>4, <1>5, <1>6, <1>7

(* The fields of the lock while one thread writes.                         *)
LEMMA WriterAlone ==
    ASSUME LockInv, NEW t \in Threads, hold[t] = "write"
    PROVE  /\ Readers = {} /\ read_count = nestR
           /\ thread # t => nestR = 0 /\ nestW = 0 /\ thread = NoThread
           /\ thread = t => want_write /\ ~want_upgrade
           /\ \A u \in Threads \ {t} : hold[u] = "none" /\ pc[u] # "upgrade"
  <1> USE DEF LockInv
  <1>1. \A u \in Threads \ {t} : hold[u] = "none" /\ pc[u] # "upgrade"
    BY DEF Exclusion, Writes, WaiterOK
  <1>2. Readers = {}
    BY <1>1 DEF Readers
  <1>3. read_count = nestR
    BY <1>2, FS_EmptySet DEF CountOK, TypeOK
  <1>4. thread # t => nestR = 0 /\ nestW = 0 /\ thread = NoThread
    BY <1>1, LockAssumption DEF OwnerOK, CountOK, TypeOK
  <1> QED
    BY <1>1, <1>2, <1>3, <1>4 DEF OwnerOK

(* The writer lets go: the upgrade bit is the one it holds, if it is set,  *)
(* and then want_write is some waiter's.                                   *)
LEMMA WriteReleased ==
    ASSUME LockInv, NEW t \in Threads, Holds(t, "write"), thread # t,
           UNCHANGED <<read_count, recursion_depth>>,
           want_upgrade' = FALSE,
           want_write' = (IF want_upgrade THEN want_write ELSE FALSE),
           thread_wakeup, hold' = [hold EXCEPT ![t] = "none"],
           UNCHANGED <<pc, nestR, nestW, thread>>
    PROVE  LockInv'
  <1> USE DEF LockInv, Holds, thread_wakeup
  <1>0. /\ thread = NoThread /\ NoThread \notin Threads /\ nestW = 0
        /\ \A u \in Threads \ {t} : hold[u] = "none" /\ pc[u] # "upgrade"
    BY WriterAlone, LockAssumption
  <1>1. Readers' = Readers
    BY DEF Readers, TypeOK
  <1>2. TypeOK'
    BY DEF TypeOK
  <1>3. CountOK'
    BY <1>1 DEF CountOK
  <1>4. OwnerOK' /\ Exclusion'
    BY <1>0 DEF OwnerOK, Exclusion, Writes, TypeOK
  <1>5. WaiterOK'
    BY <1>0 DEF WaiterOK, TypeOK
  <1>6. BitsOK'
    BY <1>0 DEF BitsOK, TypeOK
  <1> QED
    BY <1>2, <1>3, <1>4, <1>5, <1>6

(* The writer becomes a reader, the recursive owner too.                   *)
LEMMA Downgraded ==
    ASSUME LockInv, NEW t \in Threads, Holds(t, "write"), nestR = 0, nestW = 0,
           read_count' = read_count + 1,
           want_upgrade' = FALSE,
           want_write' = (IF want_upgrade THEN want_write ELSE FALSE),
           thread_wakeup, hold' = [hold EXCEPT ![t] = "read"],
           UNCHANGED <<pc, nestR, nestW, thread, recursion_depth>>
    PROVE  LockInv'
  <1> USE DEF LockInv, Holds, thread_wakeup
  <1>0. /\ thread \in {t, NoThread} /\ NoThread \notin Threads
        /\ \A u \in Threads \ {t} : hold[u] = "none" /\ pc[u] # "upgrade"
    BY WriterAlone, LockAssumption
  <1>1. t \notin Readers /\ Readers' = Readers \cup {t}
    BY DEF Readers, TypeOK
  <1>2. Cardinality(Readers') = Cardinality(Readers) + 1
    BY <1>1, ReaderAdded
  <1>3. TypeOK'
    <2>1. read_count' \in Int
      BY DEF TypeOK
    <2>2. waiting' \in BOOLEAN /\ asleep' \in SUBSET Threads
      BY DEF TypeOK
    <2>3. hold' \in [Threads -> {"none", "read", "write"}]
      BY DEF TypeOK
    <2>4. want_write' \in BOOLEAN /\ want_upgrade' \in BOOLEAN
      BY DEF TypeOK
    <2> QED
      BY <2>1, <2>2, <2>3, <2>4 DEF TypeOK
  <1>4. CountOK'
    BY <1>2, ReadersFinite DEF CountOK, TypeOK
  <1>5. OwnerOK' /\ Exclusion'
    BY <1>0 DEF OwnerOK, Exclusion, Writes, TypeOK
  <1>6. WaiterOK'
    BY <1>0 DEF WaiterOK, TypeOK
  <1>7. BitsOK'
    BY <1>0 DEF BitsOK, TypeOK
  <1> QED
    BY <1>3, <1>4, <1>5, <1>6, <1>7

(* The owner's nested calls move only the counters, which agree again      *)
(* afterwards.                                                             *)
LEMMA NestedCall ==
    ASSUME LockInv, thread \in Threads,
           nestR' \in Nat, nestW' \in Nat, nestR' = 0 \/ nestW' = 0,
           nestW' > 0 => hold[thread] = "write",
           read_count' = read_count + (nestR' - nestR),
           recursion_depth' = nestW',
           waiting' \in BOOLEAN, asleep' \subseteq asleep,
           UNCHANGED <<bits, thread, pc, hold>>
    PROVE  LockInv'
  <1> USE DEF LockInv, bits
  <1>1. Readers' = Readers
    BY DEF Readers
  <1>2. TypeOK'
    BY DEF TypeOK
  <1>8. read_count' = Cardinality(Readers) + nestR'
    BY ReadersFinite DEF CountOK, TypeOK
  <1>3. CountOK'
    BY <1>1, <1>8 DEF CountOK
  <1>4. OwnerOK'
    BY DEF OwnerOK
  <1>5. WaiterOK'
    BY DEF WaiterOK
  <1>6. BitsOK'
    BY DEF BitsOK
  <1>7. Exclusion'
    BY <1>4 DEF OwnerOK, Exclusion, Writes
  <1> QED
    BY <1>2, <1>3, <1>4, <1>5, <1>6, <1>7

-----------------------------------------------------------------------------
(* Every call, and every return to a waiting loop, preserves LockInv when  *)
(* an owner that has downgraded does not ask to write again.               *)
LEMMA StepInv ==
    ASSUME RecursiveUpdate = FALSE, LockInv, NEW t \in Threads, Step(t)
    PROVE  LockInv'
  <1> USE DEF nested, bits
  <1>0. TypeOK /\ WaiterOK /\ OwnerOK /\ CountOK
    BY DEF LockInv
  <1>awake. pc[t] = "run" => t \notin asleep
    BY <1>0 DEF WaiterOK
  <1>nw. NestWrite(t) => LockInv'
    BY <1>0, NestedCall DEF NestWrite, Owner, CountOK, TypeOK
  <1>nr. NestRead(t) => LockInv'
    BY <1>0, NestedCall DEF NestRead, Owner, CountOK, TypeOK
  <1>nu. NestUpgrade(t) => LockInv'
    BY <1>0, NestedCall DEF NestUpgrade, Owner, CountOK, TypeOK
  <1>ww. ASSUME hold[t] = "none", t \notin asleep, pc[t] \in {"run", "write1"},
                WaitWrite(t), UNCHANGED <<want_upgrade, read_count, nested>>
         PROVE  LockInv'
    <2>1. CASE want_write
      BY <1>ww, <2>1, Sleeping DEF WaitWrite, Places
    <2>2. CASE ~want_write /\ (read_count # 0 \/ want_upgrade)
      BY <1>ww, <2>2, Sleeping DEF WaitWrite, WaitReaders, Places
    <2>3. CASE ~want_write /\ read_count = 0 /\ ~want_upgrade
      BY <1>ww, <2>3, GrantWrite DEF WaitWrite, WaitReaders
    <2> QED
      BY <2>1, <2>2, <2>3
  <1>wr. ASSUME hold[t] = "none", t \notin asleep, pc[t] \in {"run", "read"},
                WaitRead(t), UNCHANGED <<bits, nested>>
         PROVE  LockInv'
    <2>1. CASE want_write \/ want_upgrade
      BY <1>wr, <2>1, Sleeping DEF WaitRead, Places
    <2>2. CASE ~want_write /\ ~want_upgrade
      BY <1>wr, <2>2, GrantRead DEF WaitRead
    <2> QED
      BY <2>1, <2>2
  <1>1. CASE lock_write(t)
    BY <1>1, <1>nw, <1>ww, <1>awake DEF lock_write, Fresh
  <1>2. CASE lock_read(t)
    BY <1>2, <1>nr, <1>wr, <1>awake DEF lock_read, Fresh
  <1>3. CASE lock_done(t)
    <2> USE <1>3 DEF lock_done, Drop
    <2>1. CASE thread # t /\ hold[t] = "read"
      <3>1. read_count > 0
        BY <2>1, <1>0, SomeReader, ReadersFinite DEF Readers, CountOK, TypeOK
      <3>4. read_count # 0
        BY <3>1, <1>0 DEF TypeOK
      <3>5. want_write' = want_write /\ want_upgrade' = want_upgrade
        BY <3>4, Zenon
      <3>2. read_count' = read_count - 1 /\ UNCHANGED <<bits, pc, nested>>
        BY <2>1, <3>4, <3>5
      <3>3. hold' = [hold EXCEPT ![t] = "none"]
        BY <2>1
      <3> QED
        BY <2>1, <3>2, <3>3, ReadReleased DEF Holds
    <2>2. CASE thread # t /\ hold[t] = "write"
      <3>1. read_count = 0 /\ recursion_depth = 0
        BY <2>2, <1>0, WriterAlone DEF CountOK
      <3>2. /\ UNCHANGED <<read_count, recursion_depth>>
            /\ want_upgrade' = FALSE
            /\ want_write' = (IF want_upgrade THEN want_write ELSE FALSE)
        BY <3>1
      <3>3. hold' = [hold EXCEPT ![t] = "none"] /\ UNCHANGED <<pc, nestR, nestW, thread>>
        BY <2>2
      <3> QED
        BY <2>2, <3>2, <3>3, WriteReleased DEF Holds
    <2>3. CASE thread = t /\ nestR > 0 /\ nestR' = nestR - 1 /\ UNCHANGED <<hold, nestW>>
      <3>1. read_count > 0 /\ nestW = 0 /\ recursion_depth = 0
        BY <2>3, <1>0, ReadersFinite DEF CountOK, TypeOK
      <3>2. waiting' \in BOOLEAN /\ asleep' \subseteq asleep
        BY <1>0 DEF thread_wakeup, TypeOK
      <3>5. read_count # 0
        BY <3>1, <1>0 DEF TypeOK
      <3>6. want_write' = want_write /\ want_upgrade' = want_upgrade
        BY <3>5, Zenon
      <3>3. UNCHANGED <<bits, thread, pc, hold>>
        BY <2>3, <3>6
      <3>4. /\ nestR' \in Nat /\ nestW' = 0 /\ recursion_depth' = 0
            /\ read_count' = read_count + (nestR' - nestR)
        BY <2>3, <3>1, <1>0 DEF TypeOK
      <3>7. thread \in Threads /\ nestW' \in Nat /\ ~(nestW' > 0)
        BY <2>3, <3>4
      <3> QED
        BY <2>3, <3>2, <3>3, <3>4, <3>7, NestedCall
    <2>4. CASE thread = t /\ nestW > 0 /\ nestW' = nestW - 1 /\ UNCHANGED <<hold, nestR>>
      <3>1. hold[t] = "write" /\ nestR = 0
        BY <2>4, <1>0 DEF OwnerOK, CountOK, TypeOK
      <3>2. read_count = 0 /\ recursion_depth = nestW
        BY <3>1, <1>0, WriterAlone DEF CountOK
      <3>3. waiting' \in BOOLEAN /\ asleep' \subseteq asleep
        BY <1>0 DEF thread_wakeup, TypeOK
      <3>6. recursion_depth # 0
        BY <2>4, <3>2, <1>0 DEF TypeOK
      <3>7. want_write' = want_write /\ want_upgrade' = want_upgrade
        BY <3>6, Zenon
      <3>4. UNCHANGED <<bits, thread, pc, hold>>
        BY <2>4, <3>7
      <3>5. /\ nestR' = 0 /\ nestW' \in Nat /\ recursion_depth' = nestW'
            /\ read_count' = read_count + (nestR' - nestR)
        BY <2>4, <3>1, <3>2, <1>0 DEF TypeOK
      <3> QED
        BY <2>4, <3>1, <3>3, <3>4, <3>5, <1>0, NestedCall DEF TypeOK
    <2> QED
      BY <2>1, <2>2, <2>3, <2>4, <1>0 DEF TypeOK
  <1>4. CASE lock_read_to_write(t)
    BY <1>4, <1>nu, ReadReleased, Upgrading DEF lock_read_to_write
  <1>5. CASE lock_write_to_read(t)
    <2> USE <1>5 DEF lock_write_to_read
    <2>1. CASE Holds(t, "write") /\ (thread = t => nestR + nestW = 0)
               /\ hold' = [hold EXCEPT ![t] = "read"] /\ UNCHANGED <<nestR, nestW>>
      <3>1. nestR = 0 /\ nestW = 0
        BY <2>1, <1>0, WriterAlone DEF Holds, TypeOK
      <3>2. recursion_depth = 0
        BY <3>1, <1>0 DEF CountOK
      <3> QED
        BY <2>1, <3>1, <3>2, <1>0, Downgraded DEF TypeOK
    <2>2. CASE Owner(t) /\ nestW = 1 /\ nestR' = 1 /\ nestW' = 0 /\ UNCHANGED hold
      <3>1. nestR = 0 /\ recursion_depth = 1
        BY <2>2, <1>0 DEF CountOK, TypeOK
      <3>2. waiting' \in BOOLEAN /\ asleep' \subseteq asleep
        BY <1>0 DEF thread_wakeup, TypeOK
      <3> QED
        BY <2>2, <3>1, <3>2, <1>0, NestedCall DEF Owner, TypeOK
    <2> QED
      BY <2>1, <2>2
  <1>st. UNCHANGED vars => LockInv'
    BY DEF vars, LockInv, TypeOK, CountOK, OwnerOK, WaiterOK, BitsOK, Exclusion,
        Readers, Writes
  <1>6. CASE lock_try_write(t)
    BY <1>6, <1>nw, <1>st, <1>awake, <1>0, GrantWrite DEF lock_try_write, Fresh, TypeOK
  <1>7. CASE lock_try_read(t)
    BY <1>7, <1>nr, <1>st, <1>awake, GrantRead DEF lock_try_read, Fresh
  <1>8. CASE lock_try_read_to_write(t)
    BY <1>8, <1>nu, <1>st, Upgrading DEF lock_try_read_to_write
  <1>9. CASE lock_set_recursive(t)
    <2> USE <1>9 DEF lock_set_recursive, Holds
    <2>1. Readers' = Readers /\ WaiterOK' /\ BitsOK'
      BY DEF LockInv, Readers, WaiterOK, BitsOK
    <2>2. TypeOK' /\ CountOK'
      BY <2>1, <1>0 DEF TypeOK, CountOK
    <2>3. nestR = 0 /\ nestW = 0
      BY <1>0, WriterAlone, LockAssumption
    <2>4. OwnerOK' /\ Exclusion'
      BY <2>3, <1>0, WriterAlone DEF OwnerOK, Exclusion, Writes, LockInv
    <2> QED
      BY <2>1, <2>2, <2>4 DEF LockInv
  <1>10. CASE lock_clear_recursive(t)
    <2> USE <1>10 DEF lock_clear_recursive, Owner
    <2>0. thread' = NoThread /\ nestR = 0 /\ nestW = 0
      BY <1>0 DEF CountOK
    <2>1. Readers' = Readers /\ WaiterOK' /\ BitsOK'
      BY DEF LockInv, Readers, WaiterOK, BitsOK
    <2>2. TypeOK' /\ CountOK'
      BY <2>0, <2>1, <1>0 DEF TypeOK, CountOK
    <2>3. OwnerOK' /\ Exclusion'
      BY <2>0, LockAssumption DEF OwnerOK, Exclusion, Writes, LockInv
    <2> QED
      BY <2>1, <2>2, <2>3 DEF LockInv
  <1>11. CASE Resume(t)
    <2> USE <1>11 DEF Resume
    <2>1. CASE pc[t] = "write1"
      BY <2>1, <1>0, <1>ww DEF WaiterOK
    <2>2. CASE pc[t] = "write2" /\ (read_count # 0 \/ want_upgrade)
      BY <2>2, Sleeping DEF WaitReaders, Places
    <2>3. CASE pc[t] = "write2" /\ read_count = 0 /\ ~want_upgrade
      BY <2>3, <1>0, GrantWrite DEF WaitReaders, WaiterOK, LockInv, BitsOK, TypeOK
    <2>4. CASE pc[t] = "read"
      BY <2>4, <1>0, <1>wr DEF WaiterOK
    <2>5. CASE pc[t] = "upgrade" /\ read_count # 0
      BY <2>5, Sleeping DEF WaitUpgrade, Places
    <2>6. CASE pc[t] = "upgrade" /\ read_count = 0
      BY <2>6, UpgradeGranted DEF WaitUpgrade
    <2> QED
      BY <2>1, <2>2, <2>3, <2>4, <2>5, <2>6
  <1> QED
    BY <1>1, <1>2, <1>3, <1>4, <1>5, <1>6, <1>7, <1>8, <1>9, <1>10, <1>11 DEF Step

-----------------------------------------------------------------------------
(* A step that may make a sleeper's condition false wakes everyone, and a  *)
(* thread goes to sleep only when its condition is true.                   *)
LEMMA StepWakeup ==
    ASSUME RecursiveUpdate = FALSE, LockInv, NoMissedWakeup,
           NEW t \in Threads, Step(t)
    PROVE  NoMissedWakeup'
  <1> USE DEF nested, bits
  <1>0. TypeOK /\ WaiterOK /\ OwnerOK /\ CountOK /\ BitsOK /\ asleep \subseteq Threads
    BY DEF LockInv, TypeOK
  <1>wake. ASSUME thread_wakeup, UNCHANGED pc
           PROVE  NoMissedWakeup'
    <2>1. CASE waiting
      BY <1>wake, <2>1 DEF thread_wakeup, NoMissedWakeup
    <2>2. CASE ~waiting
      BY <1>wake, <2>2 DEF thread_wakeup, NoMissedWakeup
    <2> QED
      BY <2>1, <2>2
  (* Everyone else stays blocked, and t is running or goes to sleep.       *)
  <1>stay. ASSUME \A u \in asleep \ {t} : Blocked(u)',
                  \/ /\ asleep' = asleep \ {t} /\ waiting' = waiting
                  \/ /\ asleep' = asleep \cup {t} /\ waiting' = TRUE
                     /\ Blocked(t)'
           PROVE  NoMissedWakeup'
    BY <1>stay DEF NoMissedWakeup
  <1>awake. pc[t] = "run" => t \notin asleep
    BY <1>0 DEF WaiterOK
  <1>nw. NestWrite(t) => NoMissedWakeup'
    BY DEF NestWrite, NoMissedWakeup, Blocked
  <1>nr. NestRead(t) => NoMissedWakeup'
    BY <1>0, ReadersFinite DEF NestRead, NoMissedWakeup, Blocked, CountOK, TypeOK
  <1>nu. NestUpgrade(t) => NoMissedWakeup'
    <2> SUFFICES ASSUME NestUpgrade(t), NEW u \in asleep
                 PROVE  Blocked(u)' /\ waiting'
      BY DEF NestUpgrade, NoMissedWakeup
    <2>1. hold[t] = "write" /\ thread = t
      BY DEF NestUpgrade, Owner
    <2>2. pc[u] \notin {"write2", "upgrade"}
      BY <2>1, <1>0, WriterAlone DEF BitsOK, WaiterOK
    <2> QED
      BY <2>2 DEF NestUpgrade, NoMissedWakeup, Blocked
  <1>ww. ASSUME t \notin asleep, WaitWrite(t), UNCHANGED <<want_upgrade, read_count>>
         PROVE  NoMissedWakeup'
    <2>1. CASE want_write
      BY <1>ww, <2>1, <1>0, <1>stay
         DEF WaitWrite, thread_sleep, NoMissedWakeup, Blocked, TypeOK
    <2>2. CASE ~want_write /\ (read_count # 0 \/ want_upgrade)
      BY <1>ww, <2>2, <1>0, <1>stay
         DEF WaitWrite, WaitReaders, thread_sleep, NoMissedWakeup, Blocked, TypeOK
    <2>3. CASE ~want_write /\ read_count = 0 /\ ~want_upgrade
      BY <1>ww, <2>3, <1>0, <1>stay
         DEF WaitWrite, WaitReaders, Return, NoMissedWakeup, Blocked, TypeOK
    <2> QED
      BY <2>1, <2>2, <2>3
  <1>wr. ASSUME t \notin asleep, WaitRead(t), UNCHANGED bits
         PROVE  NoMissedWakeup'
    <2>1. CASE want_write \/ want_upgrade
      BY <1>wr, <2>1, <1>0, <1>stay
         DEF WaitRead, thread_sleep, NoMissedWakeup, Blocked, TypeOK
    <2>2. CASE ~want_write /\ ~want_upgrade
      <3>1. asleep = {}
        BY <2>2, <1>0 DEF NoMissedWakeup, Blocked, BitsOK
      <3> QED
        BY <1>wr, <2>2, <3>1 DEF WaitRead, Return, NoMissedWakeup
    <2> QED
      BY <2>1, <2>2
  <1>su. ASSUME Holds(t, "read"), ~want_upgrade, StartUpgrade(t)
         PROVE  NoMissedWakeup'
    <2>1. \A u \in asleep : pc[u] # "upgrade"
      BY <1>su, <1>0 DEF BitsOK
    <2>2. CASE read_count - 1 # 0
      BY <1>su, <2>1, <2>2, <1>0, <1>stay, <1>awake
         DEF Holds, StartUpgrade, WaitUpgrade, thread_sleep, NoMissedWakeup, Blocked, TypeOK
    <2>3. CASE read_count - 1 = 0
      BY <1>su, <2>1, <2>3, <1>0, <1>stay, <1>awake
         DEF Holds, StartUpgrade, WaitUpgrade, Return, NoMissedWakeup, Blocked, TypeOK
    <2> QED
      BY <2>2, <2>3
  <1>1. CASE lock_write(t)
    BY <1>1, <1>nw, <1>ww, <1>awake DEF lock_write, Fresh
  <1>2. CASE lock_read(t)
    BY <1>2, <1>nr, <1>wr, <1>awake DEF lock_read, Fresh
  <1>3. CASE lock_done(t)
    BY <1>3, <1>wake DEF lock_done
  <1>4. CASE lock_read_to_write(t)
    BY <1>4, <1>nu, <1>wake, <1>su DEF lock_read_to_write
  <1>5. CASE lock_write_to_read(t)
    BY <1>5, <1>wake DEF lock_write_to_read
  <1>st. UNCHANGED vars => NoMissedWakeup'
    BY DEF vars, NoMissedWakeup, Blocked
  <1>6. CASE lock_try_write(t)
    <2>1. CASE NestWrite(t) \/ UNCHANGED vars
      BY <2>1, <1>nw, <1>st
    <2>2. CASE Fresh(t) /\ ~(want_write \/ want_upgrade \/ read_count # 0)
      <3>1. asleep = {}
        BY <2>2, <1>0 DEF NoMissedWakeup, Blocked
      <3> QED
        BY <1>6, <2>2, <3>1 DEF lock_try_write, NestWrite, Return, NoMissedWakeup
    <2> QED
      BY <1>6, <2>1, <2>2 DEF lock_try_write
  <1>7. CASE lock_try_read(t)
    <2>1. CASE NestRead(t) \/ UNCHANGED vars
      BY <2>1, <1>nr, <1>st
    <2>2. CASE Fresh(t) /\ ~(want_write \/ want_upgrade)
      <3>1. asleep = {}
        BY <2>2, <1>0 DEF NoMissedWakeup, Blocked, BitsOK
      <3> QED
        BY <1>7, <2>2, <3>1 DEF lock_try_read, NestRead, Return, NoMissedWakeup
    <2> QED
      BY <1>7, <2>1, <2>2 DEF lock_try_read
  <1>8. CASE lock_try_read_to_write(t)
    BY <1>8, <1>nu, <1>st, <1>su DEF lock_try_read_to_write
  <1>9. CASE lock_set_recursive(t)
    BY <1>9 DEF lock_set_recursive, NoMissedWakeup, Blocked
  <1>10. CASE lock_clear_recursive(t)
    BY <1>10 DEF lock_clear_recursive, NoMissedWakeup, Blocked
  <1>11. CASE Resume(t)
    <2> USE <1>11 DEF Resume
    <2>1. CASE pc[t] = "write1"
      BY <2>1, <1>ww
    <2>2. CASE pc[t] = "write2"
      BY <2>2, <1>0, <1>stay DEF WaitReaders, thread_sleep, Return, NoMissedWakeup, Blocked, TypeOK
    <2>3. CASE pc[t] = "read"
      BY <2>3, <1>wr
    <2>4. CASE pc[t] = "upgrade"
      BY <2>4, <1>0, <1>stay DEF WaitUpgrade, thread_sleep, Return, NoMissedWakeup, Blocked, TypeOK
    <2> QED
      BY <2>1, <2>2, <2>3, <2>4
  <1> QED
    BY <1>1, <1>2, <1>3, <1>4, <1>5, <1>6, <1>7, <1>8, <1>9, <1>10, <1>11 DEF Step

LEMMA StutterInv ==
    ASSUME LockInv, NoMissedWakeup, UNCHANGED vars
    PROVE  LockInv' /\ NoMissedWakeup'
  BY DEF vars, LockInv, TypeOK, CountOK, OwnerOK, WaiterOK, BitsOK, Exclusion,
      Readers, Writes, NoMissedWakeup, Blocked

-----------------------------------------------------------------------------
(* The flags and counters of struct lock account for every holder and      *)
(* every waiter, and a writer is alone, however the threads' calls of      *)
(* kern_lock.c interleave: as long as no owner upgrades after it has       *)
(* downgraded, which vm_map.c avoids.                                      *)
THEOREM LockInvariant ==
    ASSUME RecursiveUpdate = FALSE PROVE Spec => []LockInv
  <1>1. lock_init => LockInv /\ NoMissedWakeup
    BY InitInv
  <1>2. LockInv /\ NoMissedWakeup /\ [Next]_vars => (LockInv /\ NoMissedWakeup)'
    BY StepInv, StepWakeup, StutterInv DEF Next
  <1> QED
    BY <1>1, <1>2, PTL DEF Spec

(* No wakeup is lost: whoever sleeps on the lock would sleep again if it   *)
(* were woken now, and l->waiting makes the next release wake it.          *)
THEOREM NoLostWakeup ==
    ASSUME RecursiveUpdate = FALSE PROVE Spec => []NoMissedWakeup
  <1>1. lock_init => LockInv /\ NoMissedWakeup
    BY InitInv
  <1>2. LockInv /\ NoMissedWakeup /\ [Next]_vars => (LockInv /\ NoMissedWakeup)'
    BY StepInv, StepWakeup, StutterInv DEF Next
  <1> QED
    BY <1>1, <1>2, PTL DEF Spec

(* Every step of the lock is a step of the reader/writer lock or leaves    *)
(* what is granted alone.                                                  *)
LEMMA StepRefines ==
    ASSUME LockInv, LockInv', NEW t \in Threads, Step(t)
    PROVE  RW!Next \/ UNCHANGED hold
  <1> USE DEF nested, bits
  <1>0. /\ hold \in [Threads -> {"none", "read", "write"}]
        /\ hold' \in [Threads -> {"none", "read", "write"}]
        /\ \A v, u \in Threads : v # u /\ hold'[v] = "write" => hold'[u] = "none"
        /\ pc[t] \in {"write1", "write2", "read"} => hold[t] = "none"
        /\ pc[t] = "upgrade" => hold[t] = "read"
    BY DEF LockInv, TypeOK, Exclusion, Writes, WaiterOK
  <1>1. SUFFICES ASSUME NEW h \in {"none", "read", "write"},
                        hold' = [hold EXCEPT ![t] = h], hold[t] # h
                 PROVE  RW!Next
    BY <1>0 DEF Step, lock_write, lock_read, lock_done, lock_read_to_write,
        lock_write_to_read, lock_try_write, lock_try_read, lock_try_read_to_write,
        lock_set_recursive, lock_clear_recursive, Resume, NestWrite, NestRead,
        NestUpgrade, WaitWrite, WaitReaders, WaitRead, WaitUpgrade, StartUpgrade,
        thread_sleep, Return, vars, Fresh, Holds
  <1>2. hold'[t] = h /\ \A u \in Threads \ {t} : hold'[u] = hold[u]
    BY <1>0, <1>1
  <1>3. CASE h = "none"
    BY <1>0, <1>1, <1>3 DEF RW!Next, RW!Release
  <1>4. CASE h = "read"
    <2>1. hold[t] = "none" \/ hold[t] = "write"
      BY <1>0, <1>1, <1>4
    <2>2. CASE hold[t] = "none"
      BY <1>0, <1>1, <1>2, <1>4, <2>2 DEF RW!Next, RW!AcquireRead, RW!NoWriter
    <2>3. CASE hold[t] = "write"
      BY <1>1, <1>4, <2>3 DEF RW!Next, RW!Downgrade
    <2> QED
      BY <2>1, <2>2, <2>3
  <1>5. CASE h = "write"
    BY <1>0, <1>1, <1>2, <1>5 DEF RW!Next, RW!AcquireWrite, RW!Upgrade, RW!Alone
  <1> QED
    BY <1>3, <1>4, <1>5

(* kern_lock.c implements the reader/writer lock: what its calls grant and *)
(* take back is what RWLock allows, an upgrade being one step.             *)
THEOREM LockRefinement ==
    ASSUME RecursiveUpdate = FALSE PROVE Spec => RWSpec
  <1>1. lock_init => RW!Init
    BY DEF lock_init, RW!Init
  <1>2. LockInv /\ LockInv' /\ [Next]_vars => [RW!Next]_hold
    BY StepRefines DEF Next, vars
  <1> QED
    BY <1>1, <1>2, LockInvariant, PTL DEF Spec, RWSpec, RW!Spec
=============================================================================
