----------------------------- MODULE FileStore -----------------------------
(***************************************************************************)
(* What the root directory promises the shell, without clusters, chains or *)
(* slots: a bag of names (fat32_create does not look for an existing name, *)
(* so a name may be there twice).  A call takes effect in one step between *)
(* its start and its return; losing power in between leaves the bag as it  *)
(* was before or after that step, never anything else.  A call may report  *)
(* success without an effect, but each time costs one refused write.       *)
(***************************************************************************)
EXTENDS Naturals

CONSTANTS Names, NoName

VARIABLES
  files,  \* how many files of each name there are
  phase,  \* "off", "idle", "open": not yet taken effect, "done": taken effect
  op, name,
  ok,     \* FALSE when the last call has failed
  faults  \* how many writes have been refused and power losses happened

vars == <<files, phase, op, name, ok, faults>>

NoCall == op' = "none" /\ name' = NoName

Init ==
  /\ files \in [Names -> Nat]
  /\ phase = "off" /\ op = "none" /\ name = NoName /\ ok = TRUE /\ faults = 0

Call(o, n) ==
  /\ phase = "idle"
  /\ phase' = "open" /\ op' = o /\ name' = n /\ ok' = TRUE
  /\ UNCHANGED <<files, faults>>

Create ==
  /\ phase = "open" /\ op = "create"
  /\ files' = [files EXCEPT ![name] = @ + 1]
  /\ phase' = "done"
  /\ UNCHANGED <<op, name, ok, faults>>

Delete ==
  /\ phase = "open" /\ op = "delete" /\ files[name] > 0
  /\ files' = [files EXCEPT ![name] = @ - 1]
  /\ phase' = "done"
  /\ UNCHANGED <<op, name, ok, faults>>

\* The write that would change the bag is refused and nobody looks.
Lose ==
  /\ phase = "open" /\ op \in {"create", "delete"}
  /\ op = "delete" => files[name] > 0
  /\ phase' = "done" /\ faults' = faults + 1
  /\ UNCHANGED <<files, op, name, ok>>

\* A later write of the call is refused: nothing to be seen here.
Spoil == phase = "done" /\ faults' = faults + 1 /\ UNCHANGED <<files, phase, op, name, ok>>

\* A call that changed the bag succeeds, and so does one that lost its change.
Succeed ==
  /\ phase = "done"
  /\ phase' = "idle" /\ NoCall /\ faults' \in {faults, faults + 1}
  /\ UNCHANGED <<files, ok>>

\* type and dir change nothing; type needs the file.
Answer ==
  /\ phase = "open" /\ op \in {"type", "dir"}
  /\ op = "type" => files[name] > 0
  /\ phase' = "idle" /\ NoCall /\ UNCHANGED <<files, ok, faults>>

\* create may find no room; delete and type fail only when there is no such file.
Fail ==
  /\ phase = "open" /\ op \in {"create", "delete", "type"}
  /\ op # "create" => files[name] = 0
  /\ phase' = "idle" /\ ok' = FALSE /\ NoCall /\ UNCHANGED <<files, faults>>

PowerLoss ==
  /\ phase \in {"open", "done"}
  /\ phase' = "off" /\ ok' = TRUE /\ NoCall /\ faults' = faults + 1 /\ UNCHANGED files

Boot == phase = "off" /\ phase' = "idle" /\ UNCHANGED <<files, op, name, ok, faults>>

Next ==
  \/ \E o \in {"create", "delete", "type", "dir"}, n \in Names : Call(o, n)
  \/ Create \/ Delete \/ Lose \/ Spoil \/ Succeed \/ Answer \/ Fail
  \/ PowerLoss \/ Boot

Spec == Init /\ [][Next]_vars

=============================================================================
