------------------------------ MODULE Console -------------------------------
(***************************************************************************)
(* src/kernel/console.c: text on a frame buffer of 32-bit pixels, as one   *)
(* array of Height lines of Pitch pixels of which Width can be seen.       *)
(*                                                                         *)
(* Abstracted: a glyph has Glyph pixels either way (8 in the code) and a   *)
(* colour is one of two; bytes that neither print nor control change       *)
(* nothing and are left out.                                               *)
(***************************************************************************)
EXTENDS Integers

CONSTANTS
  Glyph, Width, Height, Pitch,
  Tab,     \* 8 in the code
  Chars, Space,
  Font     \* [Chars -> [(0 .. Glyph-1) \X (0 .. Glyph-1) -> BOOLEAN]], by row and column

VARIABLES
  pixels,  \* TRUE where a pixel has the foreground colour
  cx, cy,
  c        \* the last argument of console_putc, or "clear"

vars == <<pixels, cx, cy, c>>

\* A frame buffer is wide and high enough for a glyph: with less, rows or cols
\* is 0 and the scroll copies from before the frame buffer.
ASSUME ConsoleAssumption ==
  /\ Glyph \in Nat \ {0} /\ Tab \in Nat \ {0}
  /\ Width \in Nat /\ Height \in Nat /\ Pitch \in Nat
  /\ Glyph <= Width /\ Width <= Pitch /\ Glyph <= Height
  /\ Space \in Chars
  /\ Font \in [Chars -> [(0 .. Glyph - 1) \X (0 .. Glyph - 1) -> BOOLEAN]]
  /\ \A d \in (0 .. Glyph - 1) \X (0 .. Glyph - 1) : ~Font[Space][d]
  /\ {"newline", "return", "tab", "backspace", "clear"} \cap Chars = {}

Total == Height * Pitch
Shift_Width == Glyph * Width
Shift == Glyph * Pitch
Cols_RoundUp == (Width + Glyph - 1) \div Glyph
Cols == Width \div Glyph
Rows == Height \div Glyph

Controls == {"newline", "return", "tab", "backspace"}

-----------------------------------------------------------------------------

\* Where the pixel in row y and column x of a glyph at column a of line b is.
At(a, b, y, x) == (b * Glyph + y) * Pitch + a * Glyph + x

Dots == (0 .. Glyph - 1) \X (0 .. Glyph - 1)

\* draw_glyph; a pixel outside the frame buffer would be one more of its domain.
Spots(a, b) == {At(a, b, d[1], d[2]) : d \in Dots}
Drawn(p, a, b, ch) ==
  [k \in DOMAIN p \cup Spots(a, b) |->
     IF k \in Spots(a, b) THEN Font[ch][CHOOSE d \in Dots : k = At(a, b, d[1], d[2])] ELSE p[k]]

\* console_putc up to the edges of the screen: the pixels and the position.
Step(p, a, b) == [pixels |-> p, cx |-> a, cy |-> b]
NextStop_Always8(a) == a + Tab
NextStop(a) == ((a + Tab) \div Tab) * Tab
Handled(ch) ==
  CASE ch = "newline" -> Step(pixels, 0, cy + 1)
    [] ch = "return" -> Step(pixels, 0, cy)
    [] ch = "tab" -> Step(pixels, NextStop(cx), cy)
    [] ch = "backspace" /\ cx > 0 -> Step(Drawn(pixels, cx - 1, cy, Space), cx - 1, cy)
    [] ch = "backspace" /\ cx = 0 -> Step(pixels, cx, cy)
    [] OTHER -> Step(Drawn(pixels, cx, cy, ch), cx + 1, cy)

PastEdge_OneMore(a) == a > Cols
PastEdge(a) == a >= Cols
WrapAt(s) == IF PastEdge(s.cx) THEN Step(s.pixels, 0, s.cy + 1) ELSE s

\* scroll_up; the code counts lines of pixels, so what is below the last line
\* of text moves too.
ScrollUp(s) ==
  Step([k \in DOMAIN s.pixels |-> IF k < Total - Shift THEN s.pixels[k + Shift] ELSE FALSE],
       s.cx, s.cy - 1)
ScrollAt(s) == IF s.cy >= Rows THEN ScrollUp(s) ELSE s

Putc(ch) ==
  LET s == ScrollAt(WrapAt(Handled(ch)))
  IN  pixels' = s.pixels /\ cx' = s.cx /\ cy' = s.cy /\ c' = ch

\* console_clear, always with the background colour: 0 is black.
Clear ==
  /\ pixels' = [k \in 0 .. Total - 1 |-> FALSE]
  /\ cx' = 0 /\ cy' = 0 /\ c' = "clear"

\* console_init, on what the firmware left on the screen.
Init ==
  /\ pixels = [k \in 0 .. Total - 1 |-> FALSE]
  /\ cx = 0 /\ cy = 0 /\ c = "clear"

Next == Clear \/ \E ch \in Chars \cup Controls : Putc(ch)

Spec == Init /\ [][Next]_vars

-----------------------------------------------------------------------------
(* Properties.                                                             *)

\* Between two characters the position is on the screen (the code lets it
\* leave and brings it back within one console_putc).
TypeOK ==
  /\ pixels \in [0 .. Total - 1 -> BOOLEAN]
  /\ cx \in 0 .. Cols - 1 /\ cy \in 0 .. Rows - 1
  /\ c \in Chars \cup Controls \cup {"clear"}

\* The next glyph is drawn inside the frame buffer, and inside the part of each
\* line that can be seen.
GlyphFits ==
  \A d \in Dots :
    /\ At(cx, cy, d[1], d[2]) \in 0 .. Total - 1
    /\ At(cx, cy, d[1], d[2]) % Pitch < Width

\* What is no cell of text stays blank: the padding of each line of pixels,
\* and what is left beside the last column and below the last line.
InCell(k) == k % Pitch < Cols * Glyph /\ k \div Pitch < Rows * Glyph
MarginBlank == \A k \in DOMAIN pixels : pixels[k] => InCell(k)

\* The character a cell shows, and the screen as the sheet of a terminal.
Cell(a, b) == [d \in Dots |-> pixels[At(a, b, d[1], d[2])]]
Shown(a, b) ==
  IF \E ch \in Chars : Font[ch] = Cell(a, b)
  THEN CHOOSE ch \in Chars : Font[ch] = Cell(a, b)
  ELSE "garbled"
Terminal == INSTANCE Terminal WITH
  sheet <- [lines |-> [r \in 1 .. Rows |-> [a \in 0 .. Cols - 1 |-> Shown(a, r - 1)]],
            row |-> cy, col |-> cx],
  last <- c

\* The console implements Terminal: the pixels are always those of a sheet of
\* text that wraps, scrolls by whole lines, and erases what backspace passes.
ImplementsTerminal == Terminal!Spec

=============================================================================
