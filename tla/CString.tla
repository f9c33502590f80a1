------------------------------ MODULE CString ------------------------------
(***************************************************************************)
(* src/libc/string.c, as the kernel's other modules use it.  A string is   *)
(* the array that holds it: a sequence of character codes that ends with   *)
(* its NUL.  A block of memory is a function from offsets to bytes.        *)
(***************************************************************************)
EXTENDS Integers, Sequences

NUL == 0

\* The loops over a string stop at the first place where they have to.
FirstPlace(s, C) == CHOOSE k \in DOMAIN s : s[k] \in C /\ \A j \in 1 .. k - 1 : s[j] \notin C

strlen(s) == FirstPlace(s, {NUL}) - 1

\* Where c stands in s, 0 for the null pointer.
strchr(s, c) ==
  LET k == FirstPlace(s, {c, NUL}) IN IF s[k] = c THEN k ELSE 0

\* The pointer s + n.
From(s, n) == SubSeq(s, n + 1, Len(s))

memset(c, n) == [k \in 1 .. n |-> c]

\* The difference at the first place where two blocks of n bytes differ.
memcmp(a, b, n) ==
  LET differ == {k \in 1 .. n : a[k] # b[k]}
      first == CHOOSE k \in differ : \A j \in differ : k <= j
  IN IF differ = {} THEN 0 ELSE a[first] - b[first]

\* The block src laid over dst + at.
memcpy(dst, at, src) ==
  [o \in DOMAIN dst |-> IF o - at + 1 \in DOMAIN src THEN src[o - at + 1] ELSE dst[o]]

=============================================================================
