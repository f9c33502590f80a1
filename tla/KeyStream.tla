----------------------------- MODULE KeyStream -----------------------------
(***************************************************************************)
(* What kbd_getc promises the shell: the characters of the keys typed, in  *)
(* the order they were typed, each of them once.                           *)
(***************************************************************************)
EXTENDS Sequences

CONSTANTS
  Codes,               \* what a key sends
  CharOf(_, _),        \* the characters, none or one, of a code under a shift state
  ShiftAfter(_, _)     \* the shift state after a code

VARIABLES
  pending,   \* characters typed and not yet read
  shift,     \* the shift state after everything typed
  last       \* the last character read

vars == <<pending, shift, last>>

Init == pending = <<>> /\ shift = FALSE /\ last = <<>>

Type(k) ==
  /\ pending' = pending \o CharOf(shift, k)
  /\ shift' = ShiftAfter(shift, k)
  /\ UNCHANGED last

Read ==
  /\ pending # <<>>
  /\ last' = <<Head(pending)>> /\ pending' = Tail(pending)
  /\ UNCHANGED shift

Next == Read \/ \E k \in Codes : Type(k)

Spec == Init /\ [][Next]_vars

=============================================================================
