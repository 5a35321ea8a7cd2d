------------------------------ MODULE RangeLock ------------------------------
(***************************************************************************)
(* What advisory locks promise (fcntl(2), flock(2)): every byte of a file  *)
(* is held by each owner for reading, for writing or not at all, and a     *)
(* byte held for writing is held by nobody else.                           *)
(***************************************************************************)
CONSTANTS Ids, Inodes, Bytes,
          Regions       \* the sets of bytes that a call can name

VARIABLE held       \* held[id][ino][byte]: {}, {"F_RDLCK"} or {"F_WRLCK"}

Unheld == [id \in Ids |-> [ino \in Inodes |-> [b \in Bytes |-> {}]]]

(* The bytes of S of one file pass to mode m in one step.                  *)
SetTo(id, ino, S, m) ==
    held' = [held EXCEPT ![id][ino] = [b \in Bytes |-> IF b \in S THEN m ELSE @[b]]]

Compatible(id, ino, S, type) == \A other \in Ids \ {id}, b \in S :
    /\ type = "F_WRLCK" => held[other][ino][b] = {}
    /\ "F_WRLCK" \notin held[other][ino][b]

Grant(id, ino, S, type) == Compatible(id, ino, S, type) /\ SetTo(id, ino, S, {type})
Release(id, ino, S)     == SetTo(id, ino, S, {})

(* A close ends all locks of the process, and may end those of the file.   *)
Close(id, other, ino) ==
    held' = [held EXCEPT ![id][ino] = Unheld[id][ino], ![other][ino] = Unheld[other][ino]]

Init == held = Unheld
Next == \E id \in Ids, ino \in Inodes, S \in Regions :
            \/ Release(id, ino, S)
            \/ \E other \in Ids : Close(id, other, ino)
            \/ \E type \in {"F_RDLCK", "F_WRLCK"} : Grant(id, ino, S, type)
Spec == Init /\ [][Next]_held

(* Any number of read locks may include a region of a file as long as there *)
(* is no write lock within the region; a write lock is the only one.       *)
Exclusive == \A id, other \in Ids, ino \in Inodes, b \in Bytes :
    id # other /\ "F_WRLCK" \in held[id][ino][b] => held[other][ino][b] = {}
=============================================================================
