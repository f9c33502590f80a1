----------------------------- MODULE ShortName -----------------------------
(***************************************************************************)
(* src/fs/fat32.c: from a name as it is typed to the 11 bytes a directory  *)
(* entry has for it, and back to what `dir` prints.                        *)
(***************************************************************************)
EXTENDS CString

Space == 32
Dot == 46
BaseLen == 8
ExtLen == 3
NameLen == BaseLen + ExtLen

toupper_ascii(c) == IF c \in 97 .. 122 THEN c - 32 ELSE c

\* The base ends at the first dot, the extension is all that follows it; each
\* is cut to its length and filled up with spaces.
make_short_name_NoFold(name) ==
  LET dot == strchr(name, Dot) IN
  [i \in 1 .. NameLen |->
     IF i <= BaseLen /\ i <= (IF dot = 0 THEN strlen(name) ELSE dot - 1) THEN name[i]
     ELSE IF dot # 0 /\ i > BaseLen /\ i - BaseLen <= strlen(From(name, dot))
          THEN name[dot + i - BaseLen]
     ELSE Space]
make_short_name(name) ==
  LET dot == strchr(name, Dot)
      base_len == IF dot = 0 THEN strlen(name) ELSE dot - 1
      ext_len == IF dot = 0 THEN 0 ELSE strlen(From(name, dot))
  IN [i \in 1 .. NameLen |->
        IF i <= BaseLen /\ i <= base_len THEN toupper_ascii(name[i])
        ELSE IF i > BaseLen /\ i - BaseLen <= ext_len
             THEN toupper_ascii(name[dot + i - BaseLen])
        ELSE memset(Space, NameLen)[i]]

\* What comes before the first space.
UpToSpace(s) ==
  IF \E k \in DOMAIN s : s[k] = Space THEN SubSeq(s, 1, FirstPlace(s, {Space}) - 1) ELSE s

make_display_name_NoDot(s) ==
  UpToSpace(SubSeq(s, 1, BaseLen)) \o UpToSpace(SubSeq(s, BaseLen + 1, NameLen)) \o <<NUL>>
make_display_name(s) ==
  UpToSpace(SubSeq(s, 1, BaseLen))
    \o (IF s[BaseLen + 1] = Space THEN <<>>
        ELSE <<Dot>> \o UpToSpace(SubSeq(s, BaseLen + 1, NameLen)))
    \o <<NUL>>

-----------------------------------------------------------------------------
\* The reference: two typed names are one name on the disk when their bases
\* and their extensions are, without regard to case and to what is cut off or
\* filled up.
Upper(s) == [k \in DOMAIN s |-> toupper_ascii(s[k])]
Prefix(s, n) == SubSeq(s, 1, IF Len(s) < n THEN Len(s) ELSE n)
Trimmed(s) ==
  LET kept == {k \in DOMAIN s : s[k] # Space}
      last == IF kept = {} THEN 0 ELSE CHOOSE k \in kept : \A j \in kept : j <= k
  IN SubSeq(s, 1, last)
Dots(n) == {k \in DOMAIN n : n[k] = Dot}
FirstDot(n) == CHOOSE k \in Dots(n) : \A j \in Dots(n) : k <= j
BaseOf(n) == IF Dots(n) = {} THEN n ELSE SubSeq(n, 1, FirstDot(n) - 1)
ExtOf(n) == IF Dots(n) = {} THEN <<>> ELSE SubSeq(n, FirstDot(n) + 1, Len(n))
Fold(n) == <<Trimmed(Upper(Prefix(BaseOf(n), BaseLen))), Trimmed(Upper(Prefix(ExtOf(n), ExtLen)))>>

\* A typed name, as the array the shell passes.
Typed(n) == Append(n, NUL)

=============================================================================
