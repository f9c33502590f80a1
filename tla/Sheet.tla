------------------------------- MODULE Sheet --------------------------------
(***************************************************************************)
(* A sheet of text: Rows lines of Cols characters with a position to write *)
(* at, that moves up by a line when the position leaves it at the bottom.  *)
(***************************************************************************)
EXTENDS Integers, Sequences

CONSTANTS
  Rows, Cols,
  Tab,      \* distance of the tab stops
  Chars,    \* the characters that print
  Space     \* the blank, one of them

Controls == {"newline", "return", "tab", "backspace"}

Page(lines, row, col) == [lines |-> lines, row |-> row, col |-> col]

BlankLine == [a \in 0 .. Cols - 1 |-> Space]
BlankSheet == Page([r \in 1 .. Rows |-> BlankLine], 0, 0)

Sheets ==
  [lines : [1 .. Rows -> [0 .. Cols - 1 -> Chars]], row : 0 .. Rows - 1, col : 0 .. Cols - 1]

Written(t, x, ch) == [t.lines EXCEPT ![t.row + 1][x] = ch]

\* One character, and where it leaves the position before the edges of the
\* sheet are looked at.
Typed(t, ch) ==
  CASE ch = "newline" -> Page(t.lines, t.row + 1, 0)
    [] ch = "return" -> Page(t.lines, t.row, 0)
    [] ch = "tab" -> Page(t.lines, t.row, (t.col \div Tab + 1) * Tab)
    [] ch = "backspace" /\ t.col > 0 -> Page(Written(t, t.col - 1, Space), t.row, t.col - 1)
    [] ch \in Chars -> Page(Written(t, t.col, ch), t.row, t.col + 1)
    [] OTHER -> t

\* Past the last column the next line begins, past the last line the sheet moves.
Wrapped(t) == IF t.col < Cols THEN t ELSE Page(t.lines, t.row + 1, 0)
Fed(t) ==
  IF t.row < Rows THEN t ELSE Page(Append(Tail(t.lines), BlankLine), t.row - 1, t.col)

Put(t, ch) == Fed(Wrapped(Typed(t, ch)))

=============================================================================
