----------------------------- MODULE ShellProofs ----------------------------
(***************************************************************************)
(* Theorems about Shell for every screen, every line buffer, every set of  *)
(* keys and commands.                                                      *)
(***************************************************************************)
EXTENDS Shell, TLAPS, SequenceTheorems, WellFoundedInduction

-----------------------------------------------------------------------------
(* Arithmetic.                                                             *)

\* Cells counted line by line, and a line more or less.
LEMMA LineOfCells ==
  ASSUME NEW a \in Int, NEW b \in Int, NEW n \in Int
  PROVE  (a + b) * n = a * n + b * n /\ a * n \in Int
OBVIOUS

\* The next stop of a tab is to the right.
LEMMA StopIsAhead ==
  ASSUME NEW x \in Nat, NEW n \in Nat \ {0}
  PROVE  (x \div n + 1) * n \in Nat /\ (x \div n + 1) * n >= x + 1
OBVIOUS

\* A set of numbers that has a member has a least one.
LEMMA LeastOne ==
  ASSUME NEW S, S \subseteq Nat, S # {}
  PROVE  \E x \in S : \A y \in S : x <= y
<1>1. PICK x \in S : \A y \in S : <<y, x>> \notin OpToRel(<, Nat)
  BY WFMin, NatLessThanWellFounded
<1>2. \A y \in S : ~(y < x)
  BY <1>1 DEF OpToRel
<1>. QED
  BY <1>2

-----------------------------------------------------------------------------
(* The words of a line.                                                    *)

Typable == Chars \cup {"tab"}

\* The loops over the spaces and over a word stop, at the end of the line if
\* nowhere else.
LEMMA Stops ==
  ASSUME NEW s \in Seq(Typable), NEW i \in 1 .. Len(s) + 1, NEW b \in BOOLEAN
  PROVE  \E k \in i .. Len(s) + 1 :
           /\ k <= Len(s) => (s[k] = Space <=> b)
           /\ \A h \in i .. k - 1 : s[h] = Space <=> ~b
<1>. DEFINE S == {k \in i .. Len(s) + 1 : k <= Len(s) => (s[k] = Space <=> b)}
<1>1. Len(s) \in Nat
  BY LenProperties
<1>2. Len(s) + 1 \in S /\ S \subseteq Nat
  BY <1>1
<1>3. PICK k \in S : \A y \in S : k <= y
  BY <1>2, LeastOne
<1>4. \A h \in i .. k - 1 : h \notin S /\ h \in i .. Len(s) + 1
  BY <1>1, <1>3
<1>5. \A h \in i .. k - 1 : s[h] = Space <=> ~b
  BY <1>4
<1>. QED
  BY <1>3, <1>5

\* The loop over the spaces.
LEMMA SkipSpacesStops ==
  ASSUME NEW s \in Seq(Typable), NEW i \in 1 .. Len(s) + 1
  PROVE  /\ SkipSpaces(s, i) \in i .. Len(s) + 1
         /\ SkipSpaces(s, i) <= Len(s) => s[SkipSpaces(s, i)] # Space
         /\ \A h \in i .. SkipSpaces(s, i) - 1 : s[h] = Space
<1>1. \E k \in i .. Len(s) + 1 :
        /\ k <= Len(s) => s[k] # Space
        /\ \A h \in i .. k - 1 : s[h] = Space
  BY Stops, Zenon
<1>. QED
  BY <1>1 DEF SkipSpaces

\* The loop over a word.
LEMMA WordEndStops ==
  ASSUME NEW s \in Seq(Typable), NEW i \in 1 .. Len(s) + 1
  PROVE  /\ WordEnd(s, i) \in i .. Len(s) + 1
         /\ WordEnd(s, i) <= Len(s) => s[WordEnd(s, i)] = Space
         /\ \A h \in i .. WordEnd(s, i) - 1 : s[h] # Space
<1>1. \E k \in i .. Len(s) + 1 :
        /\ k <= Len(s) => s[k] = Space
        /\ \A h \in i .. k - 1 : s[h] # Space
  BY Stops, Zenon
<1>. QED
  BY <1>1 DEF WordEnd

\* A part of a line is a line.
LEMMA PartOfLine ==
  ASSUME NEW C, NEW s \in Seq(C), NEW m \in 1 .. Len(s) + 1, NEW n \in m - 1 .. Len(s)
  PROVE  /\ SubSeq(s, m, n) \in Seq(C)
         /\ Len(SubSeq(s, m, n)) = n + 1 - m
         /\ \A k \in 1 .. n + 1 - m : SubSeq(s, m, n)[k] = s[m + k - 1]
<1>1. Len(s) \in Nat
  BY LenProperties
<1>2. \A k \in m .. n : s[k] \in C
  BY <1>1, ElementOfSeq
<1>. QED
  BY <1>1, <1>2, SubSeqProperties

\* A run of spaces in a line.
LEMMA RunOfSpaces ==
  ASSUME NEW s \in Seq(Typable), NEW m \in 1 .. Len(s) + 1, NEW n \in m - 1 .. Len(s),
         \A k \in m .. n : s[k] = Space, Space \in Chars
  PROVE  SubSeq(s, m, n) = Spaces(n + 1 - m)
<1>1. n + 1 - m \in Nat /\ Len(s) \in Nat
  BY LenProperties
<1>2. /\ SubSeq(s, m, n) \in Seq(Typable) /\ Len(SubSeq(s, m, n)) = n + 1 - m
      /\ \A k \in 1 .. n + 1 - m : SubSeq(s, m, n)[k] = s[m + k - 1]
  BY PartOfLine
<1>3. \A k \in 1 .. n + 1 - m : SubSeq(s, m, n)[k] = Space
  BY <1>1, <1>2
<1>4. SubSeq(s, m, n) = [k \in 1 .. n + 1 - m |-> SubSeq(s, m, n)[k]]
  BY <1>2, LenProperties
<1>. QED
  BY <1>3, <1>4 DEF Spaces

\* Whatever the line, Command and Argument cut it apart at its spaces.
LEMMA CutApart ==
  ASSUME NEW s \in Seq(Typable), Space \in Chars
  PROVE  /\ Command(s) \in Seq(Typable) /\ Argument(s) \in Seq(Typable)
         /\ \E p, q \in 0 .. Len(s) :
              /\ s = Spaces(p) \o Command(s) \o Spaces(q) \o Argument(s)
              /\ q = 0 => Argument(s) = <<>>
         /\ \A k \in DOMAIN Command(s) : Command(s)[k] # Space
         /\ Argument(s) # <<>> => Argument(s)[1] # Space
         /\ Command(s) = <<>> => Argument(s) = <<>>
<1>. DEFINE a == SkipSpaces(s, 1)
            z == WordEnd(s, a)
            b == SkipSpaces(s, z)
<1>0. Len(s) \in Nat
  BY LenProperties
<1>1. /\ a \in 1 .. Len(s) + 1
      /\ a <= Len(s) => s[a] # Space
      /\ \A h \in 1 .. a - 1 : s[h] = Space
  BY <1>0, SkipSpacesStops
<1>2. /\ z \in a .. Len(s) + 1
      /\ z <= Len(s) => s[z] = Space
      /\ \A h \in a .. z - 1 : s[h] # Space
  BY <1>1, WordEndStops
<1>3. /\ b \in z .. Len(s) + 1
      /\ b <= Len(s) => s[b] # Space
      /\ \A h \in z .. b - 1 : s[h] = Space
  <2>1. z \in 1 .. Len(s) + 1
    BY <1>0, <1>1, <1>2
  <2>. QED
    BY <2>1, SkipSpacesStops
<1>4. Command(s) = SubSeq(s, a, z - 1) /\ Argument(s) = SubSeq(s, b, Len(s))
  BY DEF Command, Argument
<1>. HIDE DEF a, z, b
<1>5. /\ Command(s) \in Seq(Typable) /\ Len(Command(s)) = z - a
      /\ \A k \in 1 .. z - a : Command(s)[k] = s[a + k - 1]
  <2>1. z - 1 \in a - 1 .. Len(s) /\ (z - 1) + 1 - a = z - a /\ a \in 1 .. Len(s) + 1
    BY <1>0, <1>1, <1>2
  <2>. QED
    BY <1>4, <2>1, PartOfLine
<1>6. /\ Argument(s) \in Seq(Typable) /\ Len(Argument(s)) = Len(s) + 1 - b
      /\ \A k \in 1 .. Len(s) + 1 - b : Argument(s)[k] = s[b + k - 1]
  <2>1. Len(s) \in b - 1 .. Len(s) /\ b \in 1 .. Len(s) + 1
    BY <1>0, <1>1, <1>2, <1>3
  <2>. QED
    BY <1>4, <2>1, PartOfLine
<1>7. s = Spaces(a - 1) \o Command(s) \o Spaces(b - z) \o Argument(s)
  <2>1. SubSeq(s, 1, a - 1) = Spaces(a - 1) /\ SubSeq(s, z, b - 1) = Spaces(b - z)
    <3>1. /\ 1 \in 1 .. Len(s) + 1 /\ a - 1 \in 1 - 1 .. Len(s) /\ (a - 1) + 1 - 1 = a - 1
          /\ z \in 1 .. Len(s) + 1 /\ b - 1 \in z - 1 .. Len(s) /\ (b - 1) + 1 - z = b - z
      BY <1>0, <1>1, <1>2, <1>3
    <3>. QED
      BY <1>1, <1>3, <3>1, RunOfSpaces
  <2>2. /\ SubSeq(s, 1, a - 1) \o SubSeq(s, a, z - 1) = SubSeq(s, 1, z - 1)
        /\ SubSeq(s, 1, z - 1) \o SubSeq(s, z, b - 1) = SubSeq(s, 1, b - 1)
        /\ SubSeq(s, 1, b - 1) \o SubSeq(s, b, Len(s)) = SubSeq(s, 1, Len(s))
    <3>1. ASSUME NEW k \in 0 .. Len(s), NEW n \in k .. Len(s)
          PROVE  SubSeq(s, 1, k) \o SubSeq(s, k + 1, n) = SubSeq(s, 1, n)
      <4>1. 1 \in 1 .. Len(s) + 1 /\ k \in 1 - 1 .. Len(s)
        BY <1>0
      <4>. QED
        BY <4>1, ConcatAdjacentSubSeq
    <3>2. ASSUME NEW x \in 1 .. Len(s) + 1, NEW n \in x - 1 .. Len(s)
          PROVE  SubSeq(s, 1, x - 1) \o SubSeq(s, x, n) = SubSeq(s, 1, n)
      <4>1. x - 1 \in 0 .. Len(s) /\ (x - 1) + 1 = x
        BY <1>0
      <4>. QED
        BY <3>1, <4>1
    <3>3. /\ a \in 1 .. Len(s) + 1 /\ z - 1 \in a - 1 .. Len(s)
          /\ z \in 1 .. Len(s) + 1 /\ b - 1 \in z - 1 .. Len(s)
          /\ b \in 1 .. Len(s) + 1 /\ Len(s) \in b - 1 .. Len(s)
      BY <1>0, <1>1, <1>2, <1>3
    <3>. QED
      BY <3>2, <3>3
  <2>3. SubSeq(s, 1, Len(s)) = s
    BY SubSeqFull
  <2>. QED
    BY <1>4, <2>1, <2>2, <2>3
<1>8. b = z => Argument(s) = <<>>
  BY <1>0, <1>1, <1>2, <1>3, <1>4, SubSeqEmpty
<1>9. \A k \in DOMAIN Command(s) : Command(s)[k] # Space
  <2>1. DOMAIN Command(s) = 1 .. z - a
    BY <1>5, LenProperties
  <2>2. \A k \in 1 .. z - a : a + k - 1 \in a .. z - 1
    BY <1>1, <1>2
  <2>. QED
    BY <1>2, <1>5, <2>1, <2>2
<1>10. Argument(s) # <<>> => Argument(s)[1] # Space
  <2>1. b > Len(s) => Argument(s) = <<>>
    BY <1>0, <1>1, <1>2, <1>3, <1>4, SubSeqEmpty
  <2>2. b <= Len(s) => Argument(s)[1] = s[b]
    BY <1>0, <1>1, <1>2, <1>3, <1>6
  <2>. QED
    BY <1>0, <1>1, <1>2, <1>3, <2>1, <2>2
<1>11. Command(s) = <<>> => Argument(s) = <<>>
  <2>. SUFFICES ASSUME Command(s) = <<>> PROVE Argument(s) = <<>>
    OBVIOUS
  <2>1. z = a
    BY <1>1, <1>2, <1>5, EmptySeq
  <2>2. z = Len(s) + 1
    BY <1>0, <1>1, <1>2, <2>1
  <2>. QED
    BY <1>0, <1>3, <1>8, <2>2
<1>12. /\ a - 1 \in 0 .. Len(s) /\ b - z \in 0 .. Len(s)
       /\ b - z = 0 => b = z
  BY <1>0, <1>1, <1>2, <1>3
<1>13. \E p, q \in 0 .. Len(s) :
         /\ s = Spaces(p) \o Command(s) \o Spaces(q) \o Argument(s)
         /\ q = 0 => Argument(s) = <<>>
  BY <1>7, <1>8, <1>12
<1>. QED
  BY <1>5, <1>6, <1>9, <1>10, <1>11, <1>13

-----------------------------------------------------------------------------
(* The sheet.                                                              *)

\* What is assumed of the constants.
LEMMA Sizes ==
  /\ Rows \in Nat \ {0} /\ Cols \in Nat \ {0} /\ Tab \in Nat \ {0} /\ LineSize \in Nat \ {0}
  /\ Space \in Chars /\ ">" \in Chars
  /\ \A ch \in Chars : ch \notin {"newline", "return", "tab", "backspace"}
BY ShellAssumption DEF Controls

Lines == [1 .. Rows -> [0 .. Cols - 1 -> Chars]]
Printable == Chars \cup {"tab", "backspace", "newline"}

\* Before the edges are looked at the position is to the right of the sheet at
\* most, or at the beginning of the line below it; the cells are cells still.
LEMMA TypedShape ==
  ASSUME NEW t \in Sheets, NEW ch \in Printable
  PROVE  /\ Typed(t, ch) \in [lines : Lines, row : 0 .. Rows, col : Nat]
         /\ Typed(t, ch).row = Rows => Typed(t, ch).col = 0
<1>1. /\ t \in [lines : Lines, row : 0 .. Rows - 1, col : 0 .. Cols - 1]
      /\ t.lines \in Lines /\ t.row \in 0 .. Rows - 1 /\ t.col \in 0 .. Cols - 1
      /\ t.row \in 0 .. Rows /\ t.row < Rows /\ t.col \in Nat
  BY Sizes DEF Sheets, Lines
<1>2. ASSUME NEW x \in 0 .. Cols - 1, NEW k \in Chars PROVE Written(t, x, k) \in Lines
  BY <1>1 DEF Written, Lines
<1>3. CASE ch = "newline"
  <2>1. Typed(t, ch) = Page(t.lines, t.row + 1, 0)
    BY <1>3, Sizes DEF Typed
  <2>2. t.row + 1 \in 0 .. Rows
    BY <1>1, Sizes
  <2>. QED
    BY <1>1, <2>1, <2>2, Sizes DEF Page
<1>4. CASE ch = "tab"
  <2>1. Typed(t, ch) = Page(t.lines, t.row, (t.col \div Tab + 1) * Tab)
    BY <1>4, Sizes DEF Typed
  <2>2. (t.col \div Tab + 1) * Tab \in Nat
    BY <1>1, Sizes, StopIsAhead, Zenon
  <2>. QED
    BY <1>1, <2>1, <2>2 DEF Page
<1>5. CASE ch = "backspace"
  <2>1. CASE t.col = 0
    BY <1>1, <1>5, <2>1, Sizes DEF Typed
  <2>2. CASE t.col # 0
    <3>1. t.col - 1 \in 0 .. Cols - 1 /\ t.col - 1 \in Nat
      BY <1>1, <2>2, Sizes
    <3>2. Written(t, t.col - 1, Space) \in Lines
      BY <1>2, <3>1, Sizes
    <3>3. Typed(t, ch) = Page(Written(t, t.col - 1, Space), t.row, t.col - 1)
      BY <1>1, <1>5, <2>2, Sizes DEF Typed
    <3>. QED
      BY <1>1, <3>1, <3>2, <3>3 DEF Page
  <2>. QED
    BY <2>1, <2>2
<1>6. CASE ch \in Chars
  <2>1. Typed(t, ch) = Page(Written(t, t.col, ch), t.row, t.col + 1)
    BY <1>6, Sizes DEF Typed
  <2>2. Written(t, t.col, ch) \in Lines
    BY <1>1, <1>2, <1>6
  <2>. QED
    BY <1>1, <2>1, <2>2, Sizes DEF Page
<1>. QED
  BY <1>3, <1>4, <1>5, <1>6 DEF Printable

\* The wrap brings the position back between the sides.
LEMMA WrappedShape ==
  ASSUME NEW t \in Sheets, NEW ch \in Printable
  PROVE  Wrapped(Typed(t, ch)) \in [lines : Lines, row : 0 .. Rows, col : 0 .. Cols - 1]
<1>. DEFINE u == Typed(t, ch)
<1>1. u \in [lines : Lines, row : 0 .. Rows, col : Nat] /\ (u.row = Rows => u.col = 0)
  BY TypedShape
<1>. HIDE DEF u
<1>2. CASE u.col < Cols
  <2>1. u.col \in 0 .. Cols - 1 /\ Wrapped(u) = u
    BY <1>1, <1>2, Sizes DEF Wrapped
  <2>2. u = [lines |-> u.lines, row |-> u.row, col |-> u.col]
    BY <1>1
  <2>. QED
    BY <1>1, <2>1, <2>2 DEF u
<1>3. CASE ~(u.col < Cols)
  <2>1. u.row + 1 \in 0 .. Rows /\ 0 \in 0 .. Cols - 1
    BY <1>1, <1>3, Sizes
  <2>2. Wrapped(u) = Page(u.lines, u.row + 1, 0)
    BY <1>3 DEF Wrapped
  <2>. QED
    BY <1>1, <2>1, <2>2 DEF u, Page
<1>. QED
  BY <1>2, <1>3 DEF u

\* The scroll brings it back above the lower edge, with a blank line below.
LEMMA FedShape ==
  ASSUME NEW w \in [lines : Lines, row : 0 .. Rows, col : 0 .. Cols - 1]
  PROVE  /\ Fed(w) \in Sheets
         /\ Fed(w).col = w.col
         /\ w.row < Rows => Fed(w) = w
         /\ w.row = Rows => /\ Fed(w).row = w.row - 1
                            /\ \A r \in 1 .. Rows - 1 : Fed(w).lines[r] = w.lines[r + 1]
<1>1. CASE w.row < Rows
  BY <1>1, Sizes DEF Fed, Sheets, Lines
<1>2. CASE w.row = Rows
  <2>. DEFINE Row == [0 .. Cols - 1 -> Chars]
              m == Append(Tail(w.lines), BlankLine)
  <2>1. w.lines \in Seq(Row) /\ Len(w.lines) = Rows
    <3>1. w.lines \in [1 .. Rows -> Row]
      BY DEF Lines
    <3>2. w.lines \in Seq(Row)
      BY <3>1, SeqDef, Sizes
    <3>3. 1 .. Len(w.lines) = 1 .. Rows /\ Len(w.lines) \in Nat
      BY <3>1, <3>2, LenProperties
    <3>. QED
      BY <3>2, <3>3, Sizes
  <2>2. /\ Tail(w.lines) \in Seq(Row) /\ Len(Tail(w.lines)) = Rows - 1
        /\ \A r \in 1 .. Rows - 1 : Tail(w.lines)[r] = w.lines[r + 1]
    <3>1. w.lines # <<>>
      BY <2>1, EmptySeq, Sizes
    <3>. QED
      BY <2>1, <3>1, HeadTailProperties, Sizes
  <2>3. BlankLine \in Row
    BY Sizes DEF BlankLine
  <2>4. /\ m \in Seq(Row) /\ Len(m) = Rows
        /\ \A r \in 1 .. Rows - 1 : m[r] = w.lines[r + 1]
    BY <2>2, <2>3, AppendProperties, Sizes
  <2>5. m \in Lines
    BY <2>4, LenProperties DEF Lines
  <2>. HIDE DEF m
  <2>6. Fed(w) = [lines |-> m, row |-> w.row - 1, col |-> w.col]
    BY <1>2 DEF Fed, Page, m
  <2>. QED
    BY <1>2, <2>4, <2>5, <2>6, Sizes DEF Sheets, Lines
<1>. QED
  BY <1>1, <1>2, Sizes

\* One character leaves a sheet.
LEMMA PutShape ==
  ASSUME NEW t \in Sheets, NEW ch \in Printable
  PROVE  Put(t, ch) \in Sheets
BY WrappedShape, FedShape DEF Put

\* The position is a number of cells.
LEMMA PositionType ==
  ASSUME NEW t \in Sheets
  PROVE  Position(t) \in Int
BY Sizes, LineOfCells DEF Position, Sheets

\* What home, less what the sheet moved by, makes of a position.
LEMMA MovedAway ==
  ASSUME NEW t \in Sheets, NEW ch \in Printable
  PROVE  /\ Moved(t, ch) \in Int
         /\ Position(Put(t, ch)) + Moved(t, ch) = Position(Wrapped(Typed(t, ch)))
<1>. DEFINE w == Wrapped(Typed(t, ch))
            f == Put(t, ch)
<1>1. w \in [lines : Lines, row : 0 .. Rows, col : 0 .. Cols - 1]
  BY WrappedShape
<1>2. f \in Sheets /\ f.col = w.col
  BY <1>1, FedShape, PutShape DEF Put
<1>. HIDE DEF w, f
<1>3. Cols \in Int /\ w.row \in Int /\ f.row \in Int /\ w.col \in Int
  BY <1>1, <1>2, Sizes DEF Sheets
<1>4. \A n, a, b, x \in Int : (b * n + x) + n * (a - b) = a * n + x
  OBVIOUS
<1>5. (f.row * Cols + w.col) + Cols * (w.row - f.row) = w.row * Cols + w.col
  BY <1>3, <1>4
<1>6. Moved(t, ch) = Cols * (w.row - f.row)
  BY DEF Moved, w, f
<1>. QED
  BY <1>2, <1>3, <1>5, <1>6 DEF Position, w, f

\* How far one character takes the position: a tab at least one cell, a
\* printing character one, backspace back by one or not at all.
LEMMA Advance ==
  ASSUME NEW t \in Sheets, NEW ch \in Printable
  PROVE  LET w == Wrapped(Typed(t, ch))
         IN  /\ Position(t) \in Int /\ Position(w) \in Int
             /\ ch \in Chars => Position(w) = Position(t) + 1
             /\ ch = "tab" => Position(w) >= Position(t) + 1
             /\ ch = "backspace" => Position(w) >= Position(t) - 1
             /\ ch = "backspace" /\ t.col > 0 => Position(w) = Position(t) - 1
<1>. DEFINE u == Typed(t, ch)
            w == Wrapped(u)
<1>1. t.row \in Nat /\ t.col \in 0 .. Cols - 1 /\ t.col \in Nat /\ Cols \in Nat \ {0}
  BY Sizes DEF Sheets
<1>2. t.row * Cols \in Int /\ (t.row + 1) * Cols = t.row * Cols + Cols
  BY <1>1, LineOfCells
<1>3. /\ u.col < Cols => w = u
      /\ ~(u.col < Cols) => w.row = u.row + 1 /\ w.col = 0
  BY DEF Wrapped, Page
<1>. HIDE DEF w
<1>4. CASE ch \in Chars \/ ch = "tab"
  <2>1. /\ u.row = t.row /\ u.col \in Nat /\ u.col >= t.col + 1
        /\ ch \in Chars => u.col = t.col + 1
    <3>1. CASE ch \in Chars
      BY <1>1, <3>1, Sizes DEF Typed, Page
    <3>2. CASE ch = "tab"
      <4>1. (t.col \div Tab + 1) * Tab \in Nat /\ (t.col \div Tab + 1) * Tab >= t.col + 1
        BY <1>1, Sizes, StopIsAhead, Zenon
      <4>. QED
        BY <3>2, <4>1, Sizes DEF Typed, Page
    <3>. QED
      BY <1>4, <3>1, <3>2
  <2>2. ch # "backspace"
    BY <1>4, Sizes
  <2>. HIDE DEF u
  <2>3. CASE u.col < Cols
    BY <1>1, <1>2, <1>3, <2>1, <2>2, <2>3 DEF Position, u, w
  <2>4. CASE ~(u.col < Cols)
    <3>1. w.row = t.row + 1 /\ w.col = 0 /\ (ch \in Chars => t.col = Cols - 1)
      BY <1>1, <1>3, <2>1, <2>4
    <3>2. Position(w) = t.row * Cols + Cols
      BY <1>1, <1>2, <3>1 DEF Position
    <3>3. Position(t) = t.row * Cols + t.col
      BY DEF Position
    <3>. QED
      BY <1>1, <1>2, <2>2, <3>1, <3>2, <3>3 DEF u, w
  <2>. QED
    BY <2>3, <2>4
<1>5. CASE ch = "backspace"
  <2>1. /\ t.col > 0 => u.row = t.row /\ u.col = t.col - 1
        /\ ~(t.col > 0) => u = t
    BY <1>5, Sizes DEF Typed, Page
  <2>2. ch \notin Chars /\ ch # "tab"
    BY <1>5, Sizes
  <2>. HIDE DEF u
  <2>3. w = u
    BY <1>1, <1>3, <2>1
  <2>. QED
    BY <1>1, <1>2, <2>1, <2>2, <2>3 DEF Position, u, w
<1>6. CASE ch = "newline"
  <2>1. u.row = t.row + 1 /\ u.col = 0
    BY <1>6, Sizes DEF Typed, Page
  <2>2. ch \notin Chars /\ ch # "tab" /\ ch # "backspace"
    BY <1>6, Sizes
  <2>. HIDE DEF u
  <2>3. w = u
    BY <1>1, <1>3, <2>1
  <2>. QED
    BY <1>1, <1>2, <2>1, <2>2, <2>3 DEF Position, u, w
<1>. QED
  BY <1>4, <1>5, <1>6 DEF Printable

-----------------------------------------------------------------------------
(* The cells of the sheet, counted line by line.                           *)

\* The line and the column of the p-th cell, and of the one a line below it.
LEMMA Cells ==
  ASSUME NEW n \in Nat \ {0}, NEW p \in Nat
  PROVE  /\ p \div n \in Nat /\ p % n \in 0 .. n - 1
         /\ p = (p \div n) * n + (p % n)
         /\ (p + n) \div n = (p \div n) + 1 /\ (p + n) % n = p % n
OBVIOUS

\* A line and a column have one cell.
LEMMA CellNumber ==
  ASSUME NEW n \in Nat \ {0}, NEW a \in Nat, NEW x \in 0 .. n - 1
  PROVE  /\ a * n + x \in Nat
         /\ (a * n + x) \div n = a /\ (a * n + x) % n = x
OBVIOUS

\* Cells that come first are not on lower lines.
LEMMA CellOrder ==
  ASSUME NEW n \in Nat \ {0}, NEW p \in Nat, NEW q \in Nat, p <= q
  PROVE  p \div n <= q \div n
OBVIOUS

CellAt(lines, p) == lines[p \div Cols + 1][p % Cols]

\* Writing into a cell changes that cell and no other.
LEMMA OneCell ==
  ASSUME NEW t \in Sheets, NEW x \in 0 .. Cols - 1, NEW ch \in Chars,
         NEW p \in Nat, p \div Cols < Rows
  PROVE  CellAt(Written(t, x, ch), p) =
           IF p = t.row * Cols + x THEN ch ELSE CellAt(t.lines, p)
<1>1. /\ t.lines \in [1 .. Rows -> [0 .. Cols - 1 -> Chars]]
      /\ t.row \in Nat /\ t.row + 1 \in 1 .. Rows /\ Cols \in Nat \ {0}
  BY Sizes DEF Sheets
<1>. DEFINE a == p \div Cols
            y == p % Cols
<1>2. a \in Nat /\ y \in 0 .. Cols - 1 /\ p = a * Cols + y
  BY <1>1, Cells, Zenon
<1>3. a + 1 \in 1 .. Rows
  <2>. HIDE DEF a
  <2>1. a < Rows
    BY DEF a
  <2>. QED
    BY <1>2, <2>1, Sizes
<1>4. (t.row * Cols + x) \div Cols = t.row /\ (t.row * Cols + x) % Cols = x
  BY <1>1, CellNumber
<1>5. p = t.row * Cols + x <=> a = t.row /\ y = x
  BY <1>2, <1>4
<1>. HIDE DEF a, y
<1>6. [t.lines EXCEPT ![t.row + 1][x] = ch][a + 1][y] =
        IF a = t.row /\ y = x THEN ch ELSE t.lines[a + 1][y]
  <2>1. a + 1 = t.row + 1 <=> a = t.row
    BY <1>1, <1>2
  <2>2. t.lines[t.row + 1] \in [0 .. Cols - 1 -> Chars]
    BY <1>1
  <2>3. CASE a = t.row
    BY <1>1, <1>2, <2>2, <2>3
  <2>4. CASE a # t.row
    BY <1>1, <1>2, <1>3, <2>1, <2>4
  <2>. QED
    BY <2>3, <2>4
<1>. QED
  BY <1>5, <1>6 DEF CellAt, Written, a, y

\* A newline leaves the position at the margin.
LEMMA NewlineAtMargin ==
  ASSUME NEW t \in Sheets
  PROVE  Put(t, "newline").col = 0
<1>. DEFINE u == Typed(t, "newline")
<1>1. u = Page(t.lines, t.row + 1, 0)
  BY Sizes DEF Typed
<1>2. u.col = 0 /\ Wrapped(u) = u
  BY <1>1, Sizes DEF Wrapped, Page
<1>3. Wrapped(u) \in [lines : Lines, row : 0 .. Rows, col : 0 .. Cols - 1]
  BY WrappedShape DEF Printable
<1>. QED
  BY <1>2, <1>3, FedShape DEF Put

\* A printing character stands where the position was, and what stood before
\* it, or before a tab, still does, as many cells higher up as the sheet has moved.
LEMMA CharacterStands ==
  ASSUME NEW t \in Sheets, NEW ch \in Chars \cup {"tab"}, NEW p \in Nat,
         p + Moved(t, ch) <= Position(t)
  PROVE  /\ p + Moved(t, ch) \in Nat
         /\ CellAt(Put(t, ch).lines, p) =
              IF ch \in Chars /\ p + Moved(t, ch) = Position(t)
              THEN ch ELSE CellAt(t.lines, p + Moved(t, ch))
<1>. DEFINE u == Typed(t, ch)
            w == Wrapped(u)
            f == Fed(w)
            q == p + Moved(t, ch)
<1>1. t.row \in Nat /\ t.row < Rows /\ t.col \in 0 .. Cols - 1 /\ Cols \in Nat \ {0} /\ Rows \in Nat
  BY Sizes DEF Sheets
<1>2. ch \in Printable
  BY DEF Printable
<1>3. u.lines = IF ch \in Chars THEN Written(t, t.col, ch) ELSE t.lines
  <2>1. CASE ch \in Chars
    BY <2>1, Sizes DEF Typed, Page
  <2>2. CASE ch = "tab"
    <3>1. ch \notin Chars
      BY <2>2, Sizes
    <3>. QED
      BY <2>2, <3>1 DEF Typed, Page
  <2>. QED
    BY <2>1, <2>2
<1>4. w \in [lines : Lines, row : 0 .. Rows, col : 0 .. Cols - 1]
  BY <1>2, WrappedShape
<1>. HIDE DEF u
<1>5. w.lines = u.lines
  BY DEF Wrapped, Page
<1>6. /\ w.row < Rows => f = w
      /\ w.row = Rows => /\ f.row = w.row - 1
                         /\ \A r \in 1 .. Rows - 1 : f.lines[r] = w.lines[r + 1]
  BY <1>4, FedShape
<1>7. Moved(t, ch) = Cols * (w.row - f.row)
  BY DEF Moved, Put, u
<1>8. Position(t) \in Nat /\ Position(t) \div Cols = t.row
  BY <1>1, CellNumber DEF Position
<1>. HIDE DEF w, f
<1>9. ASSUME NEW g \in Nat, g <= Position(t)
      PROVE  CellAt(w.lines, g) =
               IF ch \in Chars /\ g = Position(t) THEN ch ELSE CellAt(t.lines, g)
  <2>1. g \div Cols <= t.row
    BY <1>1, <1>8, <1>9, CellOrder
  <2>2. g \div Cols \in Nat
    BY <1>1, Cells
  <2>3. g \div Cols < Rows
    BY <1>1, <2>1, <2>2
  <2>4. CASE ch \in Chars
    <3>1. CellAt(Written(t, t.col, ch), g) =
            IF g = t.row * Cols + t.col THEN ch ELSE CellAt(t.lines, g)
      BY <1>1, <2>3, <2>4, OneCell
    <3>. QED
      BY <1>3, <1>5, <2>4, <3>1 DEF Position
  <2>5. CASE ch \notin Chars
    BY <1>3, <1>5, <2>5
  <2>. QED
    BY <2>4, <2>5
<1>10. CASE w.row < Rows
  <2>1. Moved(t, ch) = 0 /\ q = p
    BY <1>1, <1>4, <1>6, <1>7, <1>10
  <2>. QED
    BY <1>6, <1>9, <1>10, <2>1 DEF Put, u, w, f
<1>11. CASE w.row = Rows
  <2>1. Moved(t, ch) = Cols /\ q = p + Cols /\ q \in Nat
    BY <1>1, <1>4, <1>6, <1>7, <1>11
  <2>2. q \div Cols = (p \div Cols) + 1 /\ q % Cols = p % Cols /\ p \div Cols \in Nat
    BY <1>1, <2>1, Cells
  <2>3. q \div Cols <= t.row
    BY <1>1, <1>8, <2>1, CellOrder
  <2>4. (p \div Cols) + 1 \in 1 .. Rows - 1
    BY <1>1, <2>2, <2>3
  <2>5. CellAt(f.lines, p) = CellAt(w.lines, q)
    BY <1>6, <1>11, <2>2, <2>4 DEF CellAt
  <2>. QED
    BY <1>9, <2>1, <2>5 DEF Put, u, w, f
<1>. QED
  BY <1>1, <1>4, <1>10, <1>11

\* Backspace behind the first column blanks the cell before the position.
LEMMA BackspaceStands ==
  ASSUME NEW t \in Sheets, t.col > 0
  PROVE  /\ Moved(t, "backspace") = 0
         /\ \A p \in Nat : p + 1 < Position(t) =>
              CellAt(Put(t, "backspace").lines, p) = CellAt(t.lines, p)
<1>. DEFINE u == Typed(t, "backspace")
<1>1. /\ t.row \in Nat /\ t.row < Rows /\ t.col \in 1 .. Cols - 1 /\ t.col - 1 \in 0 .. Cols - 1
      /\ Cols \in Nat \ {0} /\ Rows \in Nat
  BY Sizes DEF Sheets
<1>2. u = Page(Written(t, t.col - 1, Space), t.row, t.col - 1)
  BY Sizes DEF Typed
<1>3. u.row < Rows /\ u.col < Cols /\ u.lines = Written(t, t.col - 1, Space)
  BY <1>1, <1>2 DEF Page
<1>. HIDE DEF u
<1>4. Wrapped(u) = u /\ Fed(u) = u
  BY <1>3 DEF Wrapped, Fed
<1>5. Put(t, "backspace") = u /\ Wrapped(Typed(t, "backspace")) = u
  BY <1>4 DEF Put, u
<1>6. Moved(t, "backspace") = 0
  BY <1>1, <1>2, <1>5 DEF Moved, Page
<1>7. ASSUME NEW p \in Nat, p + 1 < Position(t)
      PROVE  CellAt(u.lines, p) = CellAt(t.lines, p)
  <2>1. Position(t) \in Nat /\ Position(t) \div Cols = t.row /\ t.row * Cols \in Nat
        /\ Position(t) = t.row * Cols + t.col
    <3>1. t.col \in 0 .. Cols - 1
      BY <1>1
    <3>2. /\ t.row * Cols + t.col \in Nat
          /\ (t.row * Cols + t.col) \div Cols = t.row
      BY <1>1, <3>1, CellNumber
    <3>3. t.row * Cols \in Nat
      BY <1>1
    <3>. QED
      BY <3>2, <3>3 DEF Position
  <2>2. p \div Cols <= t.row /\ p \div Cols \in Nat
    <3>1. p \div Cols <= Position(t) \div Cols
      <4>1. p <= Position(t)
        BY <1>7, <2>1
      <4>. QED
        BY <1>1, <2>1, <4>1, CellOrder
    <3>2. p \div Cols \in Nat
      BY <1>1, Cells
    <3>. QED
      BY <2>1, <3>1, <3>2
  <2>3. p # t.row * Cols + (t.col - 1)
    BY <1>1, <1>7, <2>1
  <2>4. p \div Cols < Rows
    BY <1>1, <2>2
  <2>5. CellAt(Written(t, t.col - 1, Space), p) =
          IF p = t.row * Cols + (t.col - 1) THEN Space ELSE CellAt(t.lines, p)
    <3>. DEFINE x == t.col - 1
    <3>1. x \in 0 .. Cols - 1 /\ Space \in Chars
      BY <1>1, Sizes
    <3>. HIDE DEF x
    <3>2. CellAt(Written(t, x, Space), p) = IF p = t.row * Cols + x THEN Space ELSE CellAt(t.lines, p)
      BY <2>4, <3>1, OneCell
    <3>. QED
      BY <3>2 DEF x
  <2>. QED
    BY <1>3, <2>3, <2>5
<1>. QED
  BY <1>5, <1>6, <1>7

\* And in the first column it does nothing at all.
LEMMA BackspaceHarmless ==
  ASSUME NEW t \in Sheets
  PROVE  /\ Moved(t, "backspace") = 0
         /\ \A p \in Nat : p + 1 < Position(t) =>
              CellAt(Put(t, "backspace").lines, p) = CellAt(t.lines, p)
<1>1. CASE t.col > 0
  BY <1>1, BackspaceStands
<1>2. CASE ~(t.col > 0)
  <2>1. Typed(t, "backspace") = t
    BY <1>2, Sizes DEF Typed
  <2>2. t.row \in Nat /\ t.row < Rows /\ t.col < Cols /\ Cols \in Nat
    BY Sizes DEF Sheets
  <2>3. Wrapped(t) = t /\ Fed(t) = t
    BY <2>2 DEF Wrapped, Fed
  <2>4. Put(t, "backspace") = t
    BY <2>1, <2>3 DEF Put
  <2>. QED
    BY <2>1, <2>2, <2>3, <2>4 DEF Moved
<1>. QED
  BY <1>1, <1>2

-----------------------------------------------------------------------------
(* The shell.                                                              *)

Printed == Chars \cup {"tab", "newline"}

\* Between the prompt and the first key the line is empty; a command starts
\* with the position at the margin and with nothing left to print, and what it
\* prints ends its line.
Flow ==
  /\ pc = "read" /\ out # <<>> => line = <<>>
  /\ pc = "run" => out = <<>> /\ sheet.col = 0
  /\ pc = "prompt" => IF out = <<>> THEN sheet.col = 0 ELSE out[Len(out)] = "newline"

IInv == TypeOK /\ Flow /\ PromptKept /\ LineShown

\* A text with its end of line.
LEMMA EndLineShape ==
  ASSUME NEW s \in Seq(Typable)
  PROVE  /\ EndLine(s) \in Seq(Printed) /\ EndLine(s) # <<>>
         /\ EndLine(s)[Len(EndLine(s))] = "newline"
<1>1. s \in Seq(Printed) /\ "newline" \in Printed
  BY SeqMonotonic DEF Typable, Printed
<1>2. Append(s, "newline") \in Seq(Printed) /\ Append(s, "newline") # <<>>
      /\ Len(Append(s, "newline")) = Len(s) + 1 /\ Append(s, "newline")[Len(s) + 1] = "newline"
  BY <1>1, AppendProperties
<1>. QED
  BY <1>2 DEF EndLine

\* Whatever a command prints is nothing, or ends its line.
LEMMA ReplyShape ==
  ASSUME NEW cmd \in Seq(Typable), NEW arg \in Seq(Typable), NEW name,
         NEW r \in Reply(name, cmd, arg)
  PROVE  /\ r \in Seq(Printed)
         /\ r # <<>> => r[Len(r)] = "newline"
<1>1. Notice \in Seq(Typable)
  BY ShellAssumption, SeqMonotonic DEF Typable
<1>2. Notice \o arg \in Seq(Typable) /\ Notice \o cmd \in Seq(Typable)
  BY <1>1, ConcatProperties
<1>3. r = <<>> \/ r \in {EndLine(s) : s \in Seq(Typable)}
  BY <1>1, <1>2 DEF Reply
<1>. QED
  BY <1>3, EndLineShape, EmptySeq

\* The shell starts with a blank sheet.
LEMMA IInvInit == Init => IInv
<1>. SUFFICES ASSUME Init PROVE IInv
  OBVIOUS
<1>1. BlankSheet \in Sheets
  BY Sizes DEF BlankSheet, BlankLine, Page, Sheets
<1>2. <<>> \in Seq(Printed) /\ <<>> \in Seq(Typable) /\ Len(<<>>) = 0
  BY EmptySeq
<1>. QED
  BY <1>1, <1>2, Sizes DEF Init, IInv, TypeOK, Flow, PromptKept, LineShown, Printed, Typable

\* What is printed goes on the sheet; where it ends the line will begin.
LEMMA OutputStep == ASSUME IInv, Output PROVE IInv'
<1>1. /\ pc' = pc /\ line' = line /\ plain' = plain /\ places' = places
      /\ sheet' = Put(sheet, Head(out)) /\ out' = Tail(out) /\ home' = Position(sheet')
      /\ out # <<>>
  BY DEF Output
<1>2. sheet \in Sheets /\ out \in Seq(Printed) /\ line \in Seq(Typable)
  BY DEF IInv, TypeOK, Printed, Typable
<1>3. /\ Head(out) \in Printed /\ Tail(out) \in Seq(Printed) /\ Len(Tail(out)) = Len(out) - 1
      /\ \A i \in 1 .. Len(Tail(out)) : Tail(out)[i] = out[i + 1]
      /\ Len(out) \in Nat \ {0} /\ Head(out) = out[1]
  BY <1>1, <1>2, HeadTailProperties, EmptySeq
<1>4. sheet' \in Sheets
  BY <1>1, <1>2, <1>3, PutShape DEF Printed, Printable
<1>5. home' \in Int
  BY <1>1, <1>4, Sizes, LineOfCells DEF Position, Sheets
<1>6. TypeOK'
  BY <1>1, <1>3, <1>4, <1>5 DEF IInv, TypeOK, Printed
<1>7. pc = "prompt" => IF out' = <<>> THEN sheet'.col = 0 ELSE out'[Len(out')] = "newline"
  <2>. SUFFICES ASSUME pc = "prompt"
                PROVE  IF out' = <<>> THEN sheet'.col = 0 ELSE out'[Len(out')] = "newline"
    OBVIOUS
  <2>1. out[Len(out)] = "newline"
    BY <1>1 DEF IInv, Flow
  <2>2. CASE out' = <<>>
    <3>1. Head(out) = "newline"
      <4>1. Len(Tail(out)) = 0
        BY <1>1, <2>2, EmptySeq
      <4>2. Len(out) - 1 = 0 /\ Len(out) \in Nat
        BY <1>3, <4>1, Zenon
      <4>3. \A n \in Nat : n - 1 = 0 => n = 1
        OBVIOUS
      <4>. QED
        BY <1>3, <2>1, <4>2, <4>3, Zenon
    <3>. QED
      BY <1>1, <1>2, <2>2, <3>1, NewlineAtMargin
  <2>3. CASE out' # <<>>
    <3>1. Len(Tail(out)) \in 1 .. Len(Tail(out))
      BY <1>1, <1>3, <2>3, EmptySeq
    <3>. QED
      BY <1>1, <1>3, <2>1, <2>3, <3>1
  <2>. QED
    BY <2>2, <2>3
<1>8. pc = "read" => line = <<>> /\ Len(line) = 0
  BY <1>1, EmptySeq DEF IInv, Flow
<1>9. Flow'
  BY <1>1, <1>7, <1>8 DEF IInv, Flow
<1>10. PromptKept' /\ LineShown'
  <2>1. Position(sheet)' \in Int /\ home' = Position(sheet)'
    BY <1>1, <1>5
  <2>. QED
    BY <1>1, <1>8, <2>1 DEF PromptKept, LineShown, Shows
<1>. QED
  BY <1>6, <1>9, <1>10 DEF IInv

\* A character is echoed where the line ends.
LEMMA InsertStep == ASSUME IInv, NEW ch \in Keys \ {"backspace", "newline"}, Insert(ch) PROVE IInv'
<1>1. /\ pc = "read" /\ out = <<>> /\ Len(line) < LineSize - 1
      /\ pc' = pc /\ out' = out /\ line' = Append(line, ch)
      /\ sheet' = Put(sheet, ch) /\ home' = home - Moved(sheet, ch)
      /\ plain' = (plain /\ ch # "tab")
      /\ places' = Append(places, Position(sheet) - home)
  BY DEF Insert, Echo, HasRoom
<1>2. /\ sheet \in Sheets /\ line \in Seq(Typable) /\ home \in Int /\ plain \in BOOLEAN
      /\ Len(line) \in Nat
  BY LenProperties DEF IInv, TypeOK, Typable
<1>3. ch \in Chars \cup {"tab"} /\ ch \in Printable /\ ch # "backspace"
  BY ShellAssumption DEF Printable
<1>. DEFINE m == Moved(sheet, ch)
            w == Wrapped(Typed(sheet, ch))
<1>4. sheet' \in Sheets /\ m \in Int /\ Position(sheet)' + m = Position(w)
  BY <1>1, <1>2, <1>3, PutShape, MovedAway DEF Position
<1>5. /\ Position(sheet) \in Int /\ Position(w) \in Int
      /\ Position(w) >= Position(sheet) + 1
      /\ ch \in Chars => Position(w) = Position(sheet) + 1
  BY <1>2, <1>3, Advance
<1>6. Position(sheet)' \in Int
  BY <1>4, Sizes, LineOfCells DEF Position, Sheets
<1>7. /\ line' \in Seq(Typable) /\ Len(line') = Len(line) + 1
      /\ \A k \in 1 .. Len(line) : line'[k] = line[k]
      /\ line'[Len(line) + 1] = ch
  BY <1>1, <1>2, <1>3, AppendProperties DEF Typable
<1>. HIDE DEF m, w
<1>8. home' = home - m
  BY <1>1 DEF m
<1>9. TypeOK'
  <2>1. Position(sheet) - home \in Nat
    <3>1. Position(sheet) - home >= Len(line)
      BY <1>1 DEF IInv, PromptKept
    <3>. QED
      BY <1>2, <1>5, <3>1
  <2>2. places' \in Seq(Nat)
    BY <1>1, <2>1, AppendProperties DEF IInv, TypeOK
  <2>. QED
    BY <1>1, <1>2, <1>4, <1>7, <1>8, <2>2, Sizes DEF IInv, TypeOK, Typable
<1>10. Flow'
  BY <1>1 DEF Flow
<1>11. PromptKept'
  <2>1. Position(sheet) - home >= Len(line)
    BY <1>1 DEF IInv, PromptKept
  <2>2. Position(sheet)' - home' >= Len(line')
    BY <1>2, <1>4, <1>5, <1>6, <1>7, <1>8, <2>1
  <2>. QED
    BY <2>2 DEF PromptKept
<1>12. ASSUME plain' PROVE Shows'
  <2>1. plain /\ ch \in Chars
    BY <1>1, <1>3, <1>12
  <2>2. Shows
    BY <1>1, <2>1 DEF IInv, LineShown
  <2>3. Position(sheet) = home + Len(line)
    BY <2>2 DEF Shows
  <2>4. Position(sheet)' = home' + Len(line')
    BY <1>2, <1>4, <1>5, <1>6, <1>7, <1>8, <2>1, <2>3
  <2>5. ASSUME NEW k \in 1 .. Len(line'), home' + k - 1 >= 0
        PROVE  CellAt(sheet'.lines, home' + k - 1) = line'[k]
    <3>. DEFINE p == home' + k - 1
                q == home + k - 1
    <3>1. p \in Nat /\ q \in Int /\ p + m = q /\ k \in 1 .. Len(line) + 1
      BY <1>2, <1>4, <1>7, <1>8, <2>5
    <3>2. p + m <= Position(sheet) /\ (q = Position(sheet) <=> k = Len(line) + 1)
      BY <1>2, <2>3, <3>1
    <3>. HIDE DEF p, q
    <3>3. q \in Nat /\ CellAt(sheet'.lines, p) =
            IF ch \in Chars /\ q = Position(sheet) THEN ch ELSE CellAt(sheet.lines, q)
      BY <1>1, <1>2, <1>3, <3>1, <3>2, CharacterStands DEF m
    <3>4. CASE k = Len(line) + 1
      BY <1>7, <2>1, <3>2, <3>3, <3>4 DEF p
    <3>5. CASE k # Len(line) + 1
      <4>1. k \in 1 .. Len(line)
        BY <1>2, <3>1, <3>5
      <4>2. q >= 0 => CellAt(sheet.lines, q) = line[k]
        BY <2>2, <4>1 DEF Shows, CellAt, q
      <4>. QED
        BY <1>7, <3>2, <3>3, <3>5, <4>1, <4>2 DEF p
    <3>. QED
      BY <3>4, <3>5
  <2>. QED
    BY <2>4, <2>5 DEF Shows, CellAt
<1>. QED
  BY <1>9, <1>10, <1>11, <1>12 DEF IInv, LineShown

\* One place, or one character, less.
LEMMA ErasedShape ==
  ASSUME NEW C, NEW s \in Seq(C)
  PROVE  /\ Erased(s) \in Seq(C)
         /\ s # <<>> => /\ Len(Erased(s)) = Len(s) - 1
                        /\ \A k \in 1 .. Len(s) - 1 : Erased(s)[k] = s[k]
<1>1. CASE s = <<>>
  BY <1>1 DEF Erased
<1>2. CASE s # <<>>
  <2>1. Len(s) \in Nat \ {0}
    BY <1>2, EmptySeq, LenProperties
  <2>2. 1 \in 1 .. Len(s) + 1 /\ Len(s) - 1 \in 1 - 1 .. Len(s)
    BY <2>1
  <2>3. /\ SubSeq(s, 1, Len(s) - 1) \in Seq(C)
        /\ Len(SubSeq(s, 1, Len(s) - 1)) = (Len(s) - 1) + 1 - 1
        /\ \A k \in 1 .. (Len(s) - 1) + 1 - 1 : SubSeq(s, 1, Len(s) - 1)[k] = s[1 + k - 1]
    BY <2>2, PartOfLine
  <2>4. Erased(s) = SubSeq(s, 1, Len(s) - 1)
    BY <1>2 DEF Erased, Front
  <2>. QED
    BY <2>1, <2>3, <2>4
<1>. QED
  BY <1>1, <1>2

\* Backspace takes one character from the line and moves back by one cell, or
\* not at all.
LEMMA EraseStep == ASSUME IInv, Erase PROVE IInv'
<1>1. /\ pc = "read" /\ out = <<>> /\ line # <<>> /\ pc' = pc /\ out' = out
      /\ line' = Erased(line)
      /\ sheet' = Put(sheet, "backspace") /\ home' = home - Moved(sheet, "backspace")
      /\ plain' = (plain /\ sheet.col > 0)
      /\ places' = Erased(places)
  BY DEF Erase, Echo, MayErase
<1>2. /\ sheet \in Sheets /\ line \in Seq(Typable) /\ home \in Int /\ plain \in BOOLEAN
      /\ Len(line) \in Nat \ {0} /\ Len(line) <= LineSize - 1
  BY <1>1, EmptySeq DEF IInv, TypeOK, Typable
<1>3. "backspace" \in Printable
  BY DEF Printable
<1>. DEFINE m == Moved(sheet, "backspace")
            w == Wrapped(Typed(sheet, "backspace"))
<1>4. sheet' \in Sheets /\ m \in Int /\ Position(sheet)' + m = Position(w)
  BY <1>1, <1>2, <1>3, PutShape, MovedAway DEF Position
<1>5. /\ Position(sheet) \in Int /\ Position(w) \in Int
      /\ Position(w) >= Position(sheet) - 1
      /\ sheet.col > 0 => Position(w) = Position(sheet) - 1
  BY <1>2, <1>3, Advance
<1>6. Position(sheet)' \in Int
  BY <1>4, Sizes, LineOfCells DEF Position, Sheets
<1>7. /\ line' \in Seq(Typable) /\ Len(line') = Len(line) - 1
      /\ \A k \in 1 .. Len(line) - 1 : line'[k] = line[k]
  BY <1>1, <1>2, ErasedShape
<1>. HIDE DEF m, w
<1>8. home' = home - m
  BY <1>1 DEF m
<1>9. TypeOK'
  <2>1. places' \in Seq(Nat)
    BY <1>1, ErasedShape DEF IInv, TypeOK
  <2>. QED
    BY <1>1, <1>2, <1>4, <1>7, <1>8, <2>1, Sizes DEF IInv, TypeOK, Typable
<1>10. Flow'
  BY <1>1 DEF Flow
<1>11. PromptKept'
  <2>1. Position(sheet) - home >= Len(line)
    BY <1>1 DEF IInv, PromptKept
  <2>2. Position(sheet)' - home' >= Len(line')
    BY <1>2, <1>4, <1>5, <1>6, <1>7, <1>8, <2>1
  <2>. QED
    BY <2>2 DEF PromptKept
<1>12. ASSUME plain' PROVE Shows'
  <2>1. plain /\ sheet.col > 0
    BY <1>1, <1>12
  <2>2. Shows
    BY <1>1, <2>1 DEF IInv, LineShown
  <2>3. Position(sheet) = home + Len(line)
    BY <2>2 DEF Shows
  <2>4. /\ m = 0
        /\ \A p \in Nat : p + 1 < Position(sheet) =>
             CellAt(sheet'.lines, p) = CellAt(sheet.lines, p)
    BY <1>1, <1>2, <2>1, BackspaceStands DEF m
  <2>5. Position(sheet)' = home' + Len(line') /\ home' = home
    BY <1>2, <1>4, <1>5, <1>6, <1>7, <1>8, <2>1, <2>3, <2>4
  <2>6. ASSUME NEW k \in 1 .. Len(line'), home' + k - 1 >= 0
        PROVE  CellAt(sheet'.lines, home' + k - 1) = line'[k]
    <3>. DEFINE p == home + k - 1
    <3>1. p \in Nat /\ p + 1 < Position(sheet) /\ k \in 1 .. Len(line) - 1 /\ k \in 1 .. Len(line)
      BY <1>2, <1>7, <2>3, <2>5, <2>6
    <3>. HIDE DEF p
    <3>2. CellAt(sheet'.lines, p) = CellAt(sheet.lines, p)
      BY <2>4, <3>1
    <3>3. CellAt(sheet.lines, p) = line[k]
      BY <2>2, <3>1 DEF Shows, CellAt, p
    <3>. QED
      BY <1>7, <2>5, <3>1, <3>2, <3>3 DEF p
  <2>. QED
    BY <2>5, <2>6 DEF Shows, CellAt
<1>. QED
  BY <1>9, <1>10, <1>11, <1>12 DEF IInv, LineShown

\* Enter leaves the position at the margin for what the command prints.
LEMMA EnterStep == ASSUME IInv, Enter PROVE IInv'
<1>1. /\ pc' = "run" /\ out = <<>> /\ out' = out /\ line' = line /\ plain' = plain
      /\ places' = places /\ sheet' = Put(sheet, "newline") /\ home' = home - Moved(sheet, "newline")
  BY DEF Enter, Echo
<1>2. sheet \in Sheets /\ home \in Int /\ "newline" \in Printable
  BY DEF IInv, TypeOK, Printable
<1>3. sheet' \in Sheets /\ sheet'.col = 0 /\ home' \in Int
  BY <1>1, <1>2, PutShape, NewlineAtMargin, MovedAway
<1>. QED
  BY <1>1, <1>3 DEF IInv, TypeOK, Flow, PromptKept, LineShown

\* A command leaves text that ends its line, or a blank sheet, or nothing.
LEMMA RunStep == ASSUME IInv, Run PROVE IInv'
<1>. DEFINE cmd == Command(line)
            name == NameOf(cmd)
<1>1. pc = "run" /\ pc' = "prompt" /\ line' = line /\ home' = home /\ plain' = plain
      /\ places' = places
  BY DEF Run
<1>2. /\ cmd \in Seq(Typable) /\ Argument(line) \in Seq(Typable)
      /\ sheet \in Sheets /\ out = <<>> /\ sheet.col = 0
  BY <1>1, CutApart, Sizes DEF IInv, TypeOK, Flow, Typable
<1>3. \/ sheet' = sheet /\ out' = out
      \/ sheet' = BlankSheet /\ out' = out
      \/ sheet' = sheet /\ out' \in Reply(name, cmd, Argument(line))
  BY DEF Run
<1>4. BlankSheet \in Sheets /\ BlankSheet.col = 0
  BY Sizes DEF BlankSheet, BlankLine, Page, Sheets
<1>5. out' = <<>> => sheet'.col = 0
  BY <1>2, <1>3, <1>4
<1>6. out' \in Seq(Printed) /\ (out' # <<>> => out'[Len(out')] = "newline")
  BY <1>2, <1>3, ReplyShape, EmptySeq
<1>. QED
  BY <1>1, <1>2, <1>3, <1>4, <1>5, <1>6 DEF IInv, TypeOK, Flow, PromptKept, LineShown, Printed

\* The answer of the mount ends its line.
LEMMA MountStep == ASSUME IInv, Mount PROVE IInv'
<1>1. Notice \in Seq(Typable)
  BY ShellAssumption, SeqMonotonic DEF Typable
<1>2. out' \in Seq(Printed) /\ out' # <<>> /\ out'[Len(out')] = "newline"
  BY <1>1, EndLineShape DEF Mount
<1>. QED
  BY <1>2 DEF Mount, IInv, TypeOK, Flow, PromptKept, LineShown, Printed

\* The prompt is still to be printed when the line is emptied.
LEMMA PromptStep == ASSUME IInv, Prompt PROVE IInv'
<1>1. PromptText \in Seq(Printed) /\ PromptText # <<>>
  BY Sizes DEF PromptText, Printed
<1>2. <<>> \in Seq(Typable) /\ Len(<<>>) = 0
  BY EmptySeq
<1>. QED
  BY <1>1, <1>2, Sizes DEF Prompt, IInv, TypeOK, Flow, PromptKept, LineShown, Printed, Typable

\* Every step of the shell keeps line, prompt and screen together.
LEMMA IInvStep == IInv /\ [Next]_vars => IInv'
<1>. SUFFICES ASSUME IInv, [Next]_vars PROVE IInv'
  OBVIOUS
<1>1. CASE UNCHANGED vars
  BY <1>1 DEF vars, IInv, TypeOK, Flow, PromptKept, LineShown, Shows, Position
<1>2. CASE Next
  BY <1>2, OutputStep, MountStep, PromptStep, EnterStep, EraseStep, RunStep, InsertStep DEF Next
<1>. QED
  BY <1>1, <1>2

-----------------------------------------------------------------------------
(* Where the characters of the line stand.                                 *)

\* Every character has a place.
PlacesInv == Len(places) = Len(line) /\ NothingHidden

\* The k-th character stands at its place and the places before it are smaller.
Standing(k) ==
  /\ home + places[k] < Position(sheet)
  /\ \A h \in 1 .. k - 1 : places[h] < places[k]
  /\ home + places[k] >= 0 /\ line[k] # "tab" => CellAt(sheet.lines, home + places[k]) = line[k]

\* NothingHidden in these words.
LEMMA AllStand ==
  ASSUME TypeOK
  PROVE  NothingHidden <=>
           (pc = "read" /\ out = <<>> => \A k \in 1 .. Len(places) : Standing(k))
<1>1. DOMAIN places = 1 .. Len(places)
  BY LenProperties DEF TypeOK
<1>. QED
  BY <1>1 DEF NothingHidden, Standing, CellAt

\* A character is echoed behind all the others, and they stay where they are.
LEMMA InsertStands ==
  ASSUME IInv, IInv', PlacesInv, NEW ch \in Keys \ {"backspace", "newline"}, Insert(ch)
  PROVE  PlacesInv'
<1>1. /\ pc = "read" /\ out = <<>> /\ line' = Append(line, ch)
      /\ sheet' = Put(sheet, ch) /\ home' = home - Moved(sheet, ch)
      /\ places' = Append(places, Position(sheet) - home)
  BY DEF Insert, Echo
<1>2. /\ sheet \in Sheets /\ line \in Seq(Typable) /\ home \in Int
      /\ places \in Seq(Nat) /\ Len(line) \in Nat /\ Len(places) = Len(line)
  BY LenProperties DEF IInv, TypeOK, Typable, PlacesInv
<1>3. ch \in Chars \cup {"tab"} /\ ch \in Printable
  BY ShellAssumption DEF Printable
<1>. DEFINE m == Moved(sheet, ch)
            w == Wrapped(Typed(sheet, ch))
            n == Len(line)
            P == Position(sheet)
<1>4. /\ m \in Int /\ P \in Int /\ Position(sheet)' = Position(w) - m
      /\ Position(w) \in Int /\ Position(w) >= P + 1
  <2>1. m \in Int /\ Position(Put(sheet, ch)) + m = Position(w)
    BY <1>2, <1>3, MovedAway
  <2>2. P \in Int /\ Position(w) \in Int /\ Position(w) >= P + 1
    BY <1>2, <1>3, Advance
  <2>3. Position(sheet)' = Position(Put(sheet, ch))
    BY <1>1 DEF Position
  <2>4. Position(Put(sheet, ch)) \in Int
    BY <1>2, <1>3, PutShape, PositionType
  <2>. QED
    BY <2>1, <2>2, <2>3, <2>4
<1>5. P - home \in Nat
  <2>1. P - home >= n
    BY <1>1 DEF IInv, PromptKept
  <2>. QED
    BY <1>2, <1>4, <2>1
<1>6. /\ Len(line') = n + 1 /\ Len(places') = n + 1
      /\ line'[n + 1] = ch /\ places'[n + 1] = P - home
      /\ \A k \in 1 .. n : line'[k] = line[k] /\ places'[k] = places[k] /\ places[k] \in Nat
  <2>1. ch \in Typable
    BY <1>3 DEF Typable
  <2>2. /\ Len(Append(line, ch)) = n + 1 /\ Append(line, ch)[n + 1] = ch
        /\ \A k \in 1 .. n : Append(line, ch)[k] = line[k]
    BY <1>2, <2>1, AppendProperties
  <2>3. /\ Len(Append(places, P - home)) = n + 1 /\ Append(places, P - home)[n + 1] = P - home
        /\ \A k \in 1 .. n : Append(places, P - home)[k] = places[k]
    BY <1>2, <1>5, AppendProperties
  <2>4. \A k \in 1 .. n : places[k] \in Nat
    BY <1>2, ElementOfSeq
  <2>. QED
    BY <1>1, <2>2, <2>3, <2>4
<1>7. \A k \in 1 .. n : Standing(k)
  BY <1>1, <1>2, AllStand DEF PlacesInv, IInv
<1>8. home' = home - m
  BY <1>1
<1>9. ASSUME NEW p \in Nat, p + m <= P
      PROVE  /\ p + m \in Nat
             /\ CellAt(sheet'.lines, p) =
                  IF ch \in Chars /\ p + m = P THEN ch ELSE CellAt(sheet.lines, p + m)
  BY <1>1, <1>2, <1>3, <1>9, CharacterStands
<1>. HIDE DEF m, w, n, P
<1>10. ASSUME NEW k \in 1 .. n + 1 PROVE Standing(k)'
  <2>1. CASE k = n + 1
    <3>1. home' + places'[k] = P - m /\ home' + places'[k] < Position(sheet)'
      BY <1>2, <1>4, <1>5, <1>6, <1>8, <2>1
    <3>2. \A h \in 1 .. k - 1 : places'[h] < places'[k]
      <4>. TAKE h \in 1 .. k - 1
      <4>1. h \in 1 .. n /\ home + places[h] < P
        BY <1>2, <1>7, <2>1 DEF Standing, n, P
      <4>. QED
        BY <1>2, <1>4, <1>6, <2>1, <4>1
    <3>3. ASSUME home' + places'[k] >= 0, line'[k] # "tab"
          PROVE  CellAt(sheet'.lines, home' + places'[k]) = line'[k]
      <4>1. P - m \in Nat /\ (P - m) + m = P /\ ch \in Chars
        BY <1>3, <1>4, <1>6, <2>1, <3>1, <3>3
      <4>. QED
        BY <1>4, <1>6, <1>9, <2>1, <3>1, <4>1
    <3>. QED
      BY <3>1, <3>2, <3>3 DEF Standing
  <2>2. CASE k # n + 1
    <3>1. k \in 1 .. n /\ n \in Nat
      BY <1>2, <2>2 DEF n
    <3>. DEFINE q == home + places[k]
    <3>2. /\ q \in Int /\ q < P /\ home' + places'[k] = q - m
          /\ \A h \in 1 .. k - 1 : places[h] < places[k]
          /\ q >= 0 /\ line[k] # "tab" => CellAt(sheet.lines, q) = line[k]
      <4>1. /\ q < P /\ \A h \in 1 .. k - 1 : places[h] < places[k]
            /\ q >= 0 /\ line[k] # "tab" => CellAt(sheet.lines, q) = line[k]
        BY <1>7, <3>1 DEF Standing, P
      <4>2. places[k] \in Nat /\ places'[k] = places[k]
        BY <1>6, <3>1
      <4>3. q \in Int /\ home' + places'[k] = q - m
        BY <1>2, <1>4, <1>8, <4>2
      <4>. QED
        BY <4>1, <4>3
    <3>. HIDE DEF q
    <3>3. q - m < Position(sheet)'
      BY <1>4, <3>2
    <3>4. \A h \in 1 .. k - 1 : places'[h] < places'[k]
      <4>. TAKE h \in 1 .. k - 1
      <4>1. h \in 1 .. n
        BY <3>1
      <4>. QED
        BY <1>6, <3>1, <3>2, <4>1
    <3>5. ASSUME q - m >= 0, line'[k] # "tab"
          PROVE  CellAt(sheet'.lines, q - m) = line'[k]
      <4>1. q - m \in Nat /\ (q - m) + m = q /\ q <= P /\ q # P
        BY <1>4, <3>2, <3>5
      <4>2. q \in Nat /\ CellAt(sheet'.lines, q - m) = CellAt(sheet.lines, q)
        BY <1>9, <4>1
      <4>. QED
        BY <1>6, <3>1, <3>2, <3>5, <4>2
    <3>. QED
      BY <3>2, <3>3, <3>4, <3>5 DEF Standing
  <2>. QED
    BY <2>1, <2>2
<1>11. NothingHidden' <=>
         (pc = "read" /\ out = <<>> => \A k \in 1 .. Len(places) : Standing(k))'
  BY AllStand, PTL DEF IInv
<1>. QED
  BY <1>6, <1>10, <1>11 DEF PlacesInv

\* Backspace blanks the last place or a cell behind it, or none.
LEMMA EraseStands ==
  ASSUME IInv, IInv', PlacesInv, Erase
  PROVE  PlacesInv'
<1>1. /\ pc = "read" /\ out = <<>> /\ line # <<>> /\ line' = Erased(line)
      /\ sheet' = Put(sheet, "backspace") /\ home' = home - Moved(sheet, "backspace")
      /\ places' = Erased(places)
  BY DEF Erase, Echo, MayErase
<1>2. /\ sheet \in Sheets /\ line \in Seq(Typable) /\ home \in Int
      /\ places \in Seq(Nat) /\ Len(line) \in Nat \ {0} /\ Len(places) = Len(line)
  BY <1>1, EmptySeq, LenProperties DEF IInv, TypeOK, Typable, PlacesInv
<1>. DEFINE w == Wrapped(Typed(sheet, "backspace"))
            n == Len(line)
            P == Position(sheet)
<1>3. "backspace" \in Printable
  BY DEF Printable
<1>4. /\ P \in Int /\ Position(sheet)' \in Int /\ Position(sheet)' >= P - 1 /\ home' = home
      /\ \A p \in Nat : p + 1 < P => CellAt(sheet'.lines, p) = CellAt(sheet.lines, p)
  <2>1. Moved(sheet, "backspace") = 0 /\ Position(Put(sheet, "backspace")) + 0 = Position(w)
    BY <1>2, <1>3, BackspaceHarmless, MovedAway
  <2>2. P \in Int /\ Position(w) \in Int /\ Position(w) >= P - 1
    BY <1>2, <1>3, Advance
  <2>3. Position(sheet)' = Position(Put(sheet, "backspace"))
    BY <1>1 DEF Position
  <2>4. Position(Put(sheet, "backspace")) \in Int
    BY <1>2, <1>3, PutShape, PositionType
  <2>. QED
    BY <1>1, <1>2, <2>1, <2>2, <2>3, <2>4, BackspaceHarmless
<1>5. /\ Len(line') = n - 1 /\ Len(places') = n - 1
      /\ \A k \in 1 .. n - 1 : line'[k] = line[k] /\ places'[k] = places[k]
      /\ \A k \in 1 .. n : places[k] \in Nat
  <2>1. places # <<>>
    BY <1>2, EmptySeq
  <2>2. \A k \in 1 .. n : places[k] \in Nat
    BY <1>2, ElementOfSeq
  <2>. QED
    BY <1>1, <1>2, <2>1, <2>2, ErasedShape
<1>6. \A k \in 1 .. n : Standing(k)
  BY <1>1, <1>2, AllStand DEF PlacesInv, IInv
<1>. HIDE DEF w, n, P
<1>7. ASSUME NEW k \in 1 .. n - 1 PROVE Standing(k)'
  <2>1. k \in 1 .. n /\ n \in 1 .. n /\ k \in 1 .. n - 1 /\ n \in Nat \ {0}
    BY <1>2 DEF n
  <2>. DEFINE q == home + places[k]
  <2>2. /\ q \in Int /\ home' + places'[k] = q
        /\ \A h \in 1 .. k - 1 : places[h] < places[k]
        /\ q >= 0 /\ line[k] # "tab" => CellAt(sheet.lines, q) = line[k]
    BY <1>2, <1>4, <1>5, <1>6, <2>1 DEF Standing
  <2>3. q + 1 < P
    <3>1. places[k] < places[n] /\ home + places[n] < P
      BY <1>6, <2>1 DEF Standing, P
    <3>2. places[k] \in Nat /\ places[n] \in Nat /\ home \in Int /\ P \in Int
      BY <1>2, <1>4, <1>5, <2>1
    <3>. QED
      BY <3>1, <3>2
  <2>. HIDE DEF q
  <2>4. q < Position(sheet)'
    BY <1>4, <2>2, <2>3
  <2>5. \A h \in 1 .. k - 1 : places'[h] < places'[k]
    <3>. TAKE h \in 1 .. k - 1
    <3>1. h \in 1 .. n - 1
      BY <2>1
    <3>. QED
      BY <1>5, <2>1, <2>2, <3>1
  <2>6. q >= 0 /\ line'[k] # "tab" => CellAt(sheet'.lines, q) = line'[k]
    BY <1>4, <1>5, <2>1, <2>2, <2>3
  <2>. QED
    BY <2>2, <2>4, <2>5, <2>6 DEF Standing
<1>8. NothingHidden' <=>
        (pc = "read" /\ out = <<>> => \A k \in 1 .. Len(places) : Standing(k))'
  BY AllStand, PTL DEF IInv
<1>. QED
  BY <1>5, <1>7, <1>8 DEF PlacesInv

\* Every other step has nothing to hide, or hides nothing.
LEMMA PlacesStep == IInv /\ IInv' /\ PlacesInv /\ [Next]_vars => PlacesInv'
<1>. SUFFICES ASSUME IInv, IInv', PlacesInv, [Next]_vars PROVE PlacesInv'
  OBVIOUS
<1>1. CASE Output \/ Mount \/ Enter \/ Run
  <2>1. places' = places /\ line' = line
    BY <1>1 DEF Output, Mount, Enter, Run
  <2>2. pc' = "read" => places = <<>>
    <3>. SUFFICES ASSUME pc' = "read" PROVE places = <<>>
      OBVIOUS
    <3>1. line = <<>>
      BY <1>1 DEF Output, Mount, Enter, Run, IInv, Flow
    <3>2. Len(places) = 0 /\ places \in Seq(Nat)
      BY <3>1, EmptySeq DEF PlacesInv, IInv, TypeOK
    <3>. QED
      BY <3>2, EmptySeq
  <2>3. DOMAIN <<>> = {}
    OBVIOUS
  <2>. QED
    BY <2>1, <2>2, <2>3 DEF PlacesInv, NothingHidden
<1>2. CASE Prompt
  <2>1. places' = <<>> /\ line' = <<>> /\ DOMAIN <<>> = {}
    BY <1>2 DEF Prompt
  <2>. QED
    BY <2>1 DEF PlacesInv, NothingHidden
<1>3. CASE UNCHANGED vars
  BY <1>3 DEF vars, PlacesInv, NothingHidden, Position
<1>. QED
  BY <1>1, <1>2, <1>3, InsertStands, EraseStands DEF Next

-----------------------------------------------------------------------------
(* The theorems.                                                           *)

\* For every screen, buffer and set of commands: the line fits in its buffer
\* with the NUL behind it, and the position is on the sheet.
THEOREM TypeCorrect == Spec => []TypeOK
<1>1. IInv => TypeOK
  BY DEF IInv
<1>. QED
  BY <1>1, IInvInit, IInvStep, PTL DEF Spec

\* No mixture of characters, tabs, wraps, scrolls and backspaces reaches the
\* prompt.
THEOREM PromptAlwaysKept == Spec => []PromptKept
<1>1. IInv => PromptKept
  BY DEF IInv
<1>. QED
  BY <1>1, IInvInit, IInvStep, PTL DEF Spec

\* What Enter will run is what stands on the screen, but for tabs and for
\* backspaces in the first column.
THEOREM LineAlwaysShown == Spec => []LineShown
<1>1. IInv => LineShown
  BY DEF IInv
<1>. QED
  BY <1>1, IInvInit, IInvStep, PTL DEF Spec

\* Tabs and backspaces in the first column included, whatever Enter will run
\* stands on the screen, in order and before the position: readline and the
\* console may disagree about what was erased, but only one way.
THEOREM NothingEverHidden == Spec => []NothingHidden
<1>1. Init => PlacesInv
  BY DEF Init, PlacesInv, NothingHidden
<1>2. PlacesInv => NothingHidden
  BY DEF PlacesInv
<1>. QED
  BY <1>1, <1>2, IInvInit, IInvStep, PlacesStep, PTL DEF Spec

\* Command and argument of every line are apart, and together they are the line.
THEOREM WordsAlwaysApart == Spec => []WordsApart
<1>1. IInv => WordsApart
  BY CutApart, Sizes DEF IInv, TypeOK, Typable, WordsApart
<1>. QED
  BY <1>1, IInvInit, IInvStep, PTL DEF Spec

=============================================================================
