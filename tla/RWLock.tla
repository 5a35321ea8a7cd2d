------------------------------- MODULE RWLock -------------------------------
(***************************************************************************)
(* What the sleep locks of sys/vm/kern_lock.c promise their callers: a     *)
(* set of readers or one writer, and an upgrade that no writer can cut in  *)
(* on.  How a thread waits, and who is woken when, is left open here;      *)
(* KernLock is shown to implement this specification.                      *)
(***************************************************************************)
CONSTANT Threads        \* the processes that share the lock

VARIABLE hold           \* hold[t]: what t has been granted

Granted == {"none", "read", "write"}

NoWriter == \A u \in Threads : hold[u] # "write"
Alone(t) == \A u \in Threads \ {t} : hold[u] = "none"

Init == hold = [t \in Threads |-> "none"]

AcquireRead(t) ==
    /\ hold[t] = "none" /\ NoWriter
    /\ hold' = [hold EXCEPT ![t] = "read"]

AcquireWrite(t) ==
    /\ hold[t] = "none" /\ Alone(t)
    /\ hold' = [hold EXCEPT ![t] = "write"]

(* The reader becomes the writer in one step: what it read is still so.    *)
Upgrade(t) ==
    /\ hold[t] = "read" /\ Alone(t)
    /\ hold' = [hold EXCEPT ![t] = "write"]

Downgrade(t) ==
    /\ hold[t] = "write"
    /\ hold' = [hold EXCEPT ![t] = "read"]

(* Released by its holder, or lost by a reader whose upgrade was refused.  *)
Release(t) ==
    /\ hold[t] # "none"
    /\ hold' = [hold EXCEPT ![t] = "none"]

Next == \E t \in Threads :
    AcquireRead(t) \/ AcquireWrite(t) \/ Upgrade(t) \/ Downgrade(t) \/ Release(t)

Spec == Init /\ [][Next]_hold
=============================================================================
