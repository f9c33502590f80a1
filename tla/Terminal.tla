------------------------------ MODULE Terminal ------------------------------
(***************************************************************************)
(* What the console is to its callers: a sheet that characters are put on, *)
(* one by one, until it is cleared.                                        *)
(***************************************************************************)
EXTENDS Sheet

VARIABLES
  sheet,
  last    \* the last character put on it, or "clear"

Init == sheet = BlankSheet /\ last = "clear"
Next ==
  \/ last' = "clear" /\ sheet' = BlankSheet
  \/ last' \in Chars \cup Controls /\ sheet' = Put(sheet, last')
Spec == Init /\ [][Next]_<<sheet, last>>

=============================================================================
