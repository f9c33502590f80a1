------------------------------ MODULE BlockDev ------------------------------
(***************************************************************************)
(* What blk_read and blk_write promise the file system: sectors move one   *)
(* by one in ascending order, whole or not at all; a call that returns 0   *)
(* has moved all of them, one that fails a proper prefix.  What is not     *)
(* promised is that a written sector is on the disk, if the drive may lose *)
(* it.                                                                     *)
(***************************************************************************)
EXTENDS Integers, Sequences

CONSTANTS
  Sectors, Contents,
  MayLose   \* a sector written may be lost, and nobody is told

VARIABLES
  disk,   \* what every sector holds
  busy,   \* a call is running
  kind, first, count,
  data,   \* read: the sectors read so far; write: the sectors to write
  moved,  \* how many sectors have moved
  rc

vars == <<disk, busy, kind, first, count, data, moved, rc>>

Init ==
  /\ disk \in [Sectors -> Contents]
  /\ ~busy /\ kind = "read" /\ first = 0 /\ count = 0
  /\ data = <<>> /\ moved = 0 /\ rc = 0

Begin ==
  /\ ~busy /\ busy'
  /\ kind' \in {"read", "write"} /\ first' \in Nat /\ count' \in Nat
  /\ IF kind' = "read"
     THEN data' = <<>>
     ELSE Len(data') = count' /\ \A k \in 1 .. count' : data'[k] \in Contents
  /\ moved' = 0 /\ rc' = 0
  /\ UNCHANGED disk

Move ==
  /\ busy /\ moved < count /\ first + moved \in Sectors
  /\ moved' = moved + 1
  /\ IF kind = "read"
     THEN data' = Append(data, disk[first + moved]) /\ UNCHANGED disk
     ELSE /\ UNCHANGED data
          /\ \/ disk' = [disk EXCEPT ![first + moved] = data[moved + 1]]
             \/ MayLose /\ UNCHANGED disk
  /\ UNCHANGED <<busy, kind, first, count, rc>>

End ==
  /\ busy /\ ~busy'
  /\ rc' = 0 <=> moved = count
  /\ UNCHANGED <<disk, kind, first, count, data, moved>>

Next == Begin \/ Move \/ End

Spec == Init /\ [][Next]_vars

=============================================================================
