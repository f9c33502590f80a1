--------------------------- MODULE ConsoleProofs ----------------------------
(***************************************************************************)
(* Theorems about Console for every frame buffer that has room for a glyph *)
(* and every font.                                                         *)
(***************************************************************************)
EXTENDS Console, SequenceTheorems, TLAPS

-----------------------------------------------------------------------------
(* Arithmetic.                                                             *)

\* How many pieces of length g there are in w.
LEMMA Pieces ==
  ASSUME NEW w \in Nat, NEW g \in Nat \ {0}
  PROVE  w \div g \in Nat /\ (w \div g) * g <= w
OBVIOUS

\* One at least, if it is long enough for one.
LEMMA OnePiece ==
  ASSUME NEW w \in Nat, NEW g \in Nat \ {0}, g <= w
  PROVE  w \div g >= 1
OBVIOUS

\* The n-th of m pieces of length g ends within m * g.
LEMMA Within ==
  ASSUME NEW n \in Nat, NEW m \in Nat, NEW g \in Nat \ {0}, NEW x \in 0 .. g - 1, n < m
  PROVE  n * g + x \in Nat /\ n * g + x < m * g
OBVIOUS

\* A place in a row has one row and one remainder.
LEMMA Quotient ==
  ASSUME NEW p \in Nat \ {0}, NEW n \in Nat, NEW x \in 0 .. p - 1
  PROVE  /\ n * p + x \in Nat
         /\ (n * p + x) \div p = n /\ (n * p + x) % p = x
OBVIOUS

\* Every place has.
LEMMA Division ==
  ASSUME NEW p \in Nat \ {0}, NEW k \in Nat
  PROVE  /\ k \div p \in Nat /\ k % p \in 0 .. p - 1
         /\ k = (k \div p) * p + (k % p)
OBVIOUS

\* A number of rows further down the remainder is the same.
LEMMA Moved ==
  ASSUME NEW p \in Nat \ {0}, NEW k \in Nat, NEW g \in Nat
  PROVE  (k + g * p) % p = k % p /\ (k + g * p) \div p = k \div p + g
<1>. DEFINE q == k \div p
            r == k % p
<1>1. q \in Nat /\ r \in 0 .. p - 1 /\ k = q * p + r
  BY Division
<1>. HIDE DEF q, r
<1>2. q + g \in Nat /\ k + g * p = (q + g) * p + r
  BY <1>1
<1>3. ((q + g) * p + r) % p = r /\ ((q + g) * p + r) \div p = q + g
  BY <1>1, <1>2, Quotient
<1>. QED
  BY <1>2, <1>3 DEF q, r

-----------------------------------------------------------------------------
(* The geometry.                                                           *)

\* The cells of the screen are inside the frame buffer.
LEMMA Grid ==
  /\ Cols \in Nat \ {0} /\ Cols * Glyph <= Width
  /\ Rows \in Nat \ {0} /\ Rows * Glyph <= Height
<1>1. /\ Glyph \in Nat \ {0} /\ Width \in Nat /\ Height \in Nat
      /\ Glyph <= Width /\ Glyph <= Height
  BY ConsoleAssumption
<1>2. Cols \in Nat /\ Cols * Glyph <= Width /\ Cols >= 1
  BY <1>1, Pieces, OnePiece DEF Cols
<1>3. Rows \in Nat /\ Rows * Glyph <= Height /\ Rows >= 1
  BY <1>1, Pieces, OnePiece DEF Rows
<1>. QED
  BY <1>2, <1>3

USE ConsoleAssumption

\* A pixel of a glyph in a cell of the screen is inside the frame buffer, in the
\* part of its line that can be seen.
LEMMA CellInside ==
  ASSUME NEW a \in 0 .. Cols - 1, NEW b \in 0 .. Rows - 1,
         NEW y \in 0 .. Glyph - 1, NEW x \in 0 .. Glyph - 1
  PROVE  At(a, b, y, x) \in 0 .. Total - 1 /\ At(a, b, y, x) % Pitch < Width
<1>. DEFINE l == b * Glyph + y
            k == a * Glyph + x
<1>1. k \in Nat /\ k < Width
  <2>1. a \in Nat /\ Cols \in Nat /\ a < Cols /\ Glyph \in Nat \ {0}
    BY Grid
  <2>2. a * Glyph + x \in Nat /\ a * Glyph + x < Cols * Glyph
    BY <2>1, Within
  <2>. QED
    BY <2>2, Grid
<1>2. l \in Nat /\ l < Height
  <2>1. b \in Nat /\ Rows \in Nat /\ b < Rows /\ Glyph \in Nat \ {0}
    BY Grid
  <2>2. b * Glyph + y \in Nat /\ b * Glyph + y < Rows * Glyph
    BY <2>1, Within
  <2>. QED
    BY <2>2, Grid
<1>3. At(a, b, y, x) = l * Pitch + k
  BY Grid DEF At
<1>. HIDE DEF l, k
<1>4. Pitch \in Nat \ {0} /\ k \in 0 .. Pitch - 1
  BY <1>1
<1>5. l * Pitch + k < Height * Pitch /\ l * Pitch + k \in Nat
  BY <1>2, <1>4, Within
<1>6. (l * Pitch + k) % Pitch = k
  BY <1>2, <1>4, Quotient
<1>. QED
  BY <1>1, <1>3, <1>5, <1>6 DEF Total

-----------------------------------------------------------------------------
(* One character.                                                          *)

Pixels == [0 .. Total - 1 -> BOOLEAN]

\* Drawing into a cell of the screen changes pixels of the frame buffer only.
LEMMA DrawnInside ==
  ASSUME NEW p \in Pixels, NEW a \in 0 .. Cols - 1, NEW b \in 0 .. Rows - 1, NEW ch \in Chars
  PROVE  Drawn(p, a, b, ch) \in Pixels
<1>1. Spots(a, b) \subseteq 0 .. Total - 1
  BY CellInside DEF Spots, Dots
<1>2. ASSUME NEW k \in Spots(a, b)
      PROVE  Font[ch][CHOOSE d \in Dots : k = At(a, b, d[1], d[2])] \in BOOLEAN
  <2>. DEFINE d0 == CHOOSE d \in Dots : k = At(a, b, d[1], d[2])
  <2>1. d0 \in Dots
    BY DEF Spots
  <2>. QED
    BY <2>1 DEF Dots
<1>. QED
  BY <1>1, <1>2 DEF Drawn, Pixels

\* Before the edges are looked at the position is at most one line below the
\* screen, and only with the first column.
LEMMA HandledBounds ==
  ASSUME TypeOK, NEW ch \in Chars \cup Controls
  PROVE  LET s == Handled(ch)
         IN  /\ s = Step(s.pixels, s.cx, s.cy) /\ s.pixels \in Pixels
             /\ s.cx \in Nat /\ s.cy \in 0 .. Rows
             /\ s.cy = Rows => s.cx = 0
<1>1. pixels \in Pixels /\ cx \in 0 .. Cols - 1 /\ cy \in 0 .. Rows - 1
  BY DEF TypeOK, Pixels
<1>2. Cols \in Nat \ {0} /\ Rows \in Nat \ {0}
  BY Grid
<1>3. CASE ch = "newline"
  BY <1>1, <1>2, <1>3 DEF Handled, Step
<1>4. CASE ch = "return"
  BY <1>1, <1>2, <1>4 DEF Handled, Step
<1>5. CASE ch = "tab"
  <2>1. (cx + Tab) \div Tab \in Nat
    <3>1. cx + Tab \in Nat /\ Tab \in Nat \ {0}
      BY <1>1, <1>2
    <3>. QED
      BY <3>1, Pieces
  <2>2. NextStop(cx) \in Nat
    BY <1>1, <1>2, <2>1 DEF NextStop
  <2>. QED
    BY <1>1, <1>2, <1>5, <2>2 DEF Handled, Step
<1>6. CASE ch = "backspace"
  <2>1. CASE cx > 0
    <3>1. Drawn(pixels, cx - 1, cy, Space) \in Pixels
      BY <1>1, <1>2, <2>1, DrawnInside
    <3>. QED
      BY <1>1, <1>2, <1>6, <2>1, <3>1 DEF Handled, Step
  <2>2. CASE cx = 0
    BY <1>1, <1>2, <1>6, <2>2 DEF Handled, Step
  <2>. QED
    BY <1>1, <1>2, <2>1, <2>2
<1>7. CASE ch \in Chars
  <2>1. ch \notin Controls
    BY <1>7 DEF Controls
  <2>2. Drawn(pixels, cx, cy, ch) \in Pixels
    BY <1>1, <1>7, DrawnInside
  <2>. QED
    BY <1>1, <1>2, <2>1, <2>2 DEF Handled, Step, Controls
<1>. QED
  BY <1>3, <1>4, <1>5, <1>6, <1>7 DEF Controls

\* A scroll moves pixels of the frame buffer and nothing else.
LEMMA ScrollInside ==
  ASSUME NEW p \in Pixels, NEW a, NEW b
  PROVE  ScrollUp(Step(p, a, b)).pixels \in Pixels
<1>1. Shift \in Nat /\ Total \in Nat
  BY DEF Shift, Total
<1>2. \A k \in 0 .. Total - 1 : k < Total - Shift => k + Shift \in 0 .. Total - 1
  BY <1>1
<1>. QED
  BY <1>1, <1>2 DEF ScrollUp, Step, Pixels

\* Wrapping and scrolling bring the position back.
LEMMA PutcType == ASSUME TypeOK, NEW ch \in Chars \cup Controls, Putc(ch) PROVE TypeOK'
<1>. DEFINE s == Handled(ch)
            w == WrapAt(s)
            t == ScrollAt(w)
<1>1. Cols \in Nat \ {0} /\ Rows \in Nat \ {0}
  BY Grid
<1>2. /\ s = Step(s.pixels, s.cx, s.cy) /\ s.pixels \in Pixels
      /\ s.cx \in Nat /\ s.cy \in 0 .. Rows
      /\ s.cy = Rows => s.cx = 0
  BY HandledBounds
<1>. HIDE DEF s
<1>3. /\ w = Step(w.pixels, w.cx, w.cy) /\ w.pixels \in Pixels
      /\ w.cx \in 0 .. Cols - 1 /\ w.cy \in 0 .. Rows
  <2>1. CASE s.cx >= Cols
    <3>1. w = Step(s.pixels, 0, s.cy + 1)
      BY <2>1 DEF WrapAt, PastEdge
    <3>2. s.cx # 0
      BY <1>1, <2>1
    <3>3. s.cy # Rows /\ s.cy \in 0 .. Rows
      BY <1>2, <3>2
    <3>4. s.cy + 1 \in 0 .. Rows
      <4>1. \A n \in 0 .. Rows : n # Rows => n + 1 \in 0 .. Rows
        BY <1>1
      <4>. QED
        BY <3>3, <4>1
    <3>. QED
      BY <1>1, <1>2, <3>1, <3>4 DEF Step
  <2>2. CASE ~(s.cx >= Cols)
    <3>1. w = s
      BY <2>2 DEF WrapAt, PastEdge
    <3>. QED
      BY <1>1, <1>2, <2>2, <3>1
  <2>. QED
    BY <2>1, <2>2
<1>. HIDE DEF w
<1>4. t.pixels \in Pixels /\ t.cx \in 0 .. Cols - 1 /\ t.cy \in 0 .. Rows - 1
  <2>1. CASE w.cy >= Rows
    <3>1. ScrollUp(w).pixels \in Pixels
      BY <1>3, ScrollInside
    <3>2. ScrollUp(w).cx = w.cx /\ ScrollUp(w).cy = w.cy - 1
      BY <1>3 DEF ScrollUp, Step
    <3>. QED
      BY <1>1, <1>3, <2>1, <3>1, <3>2 DEF ScrollAt
  <2>2. CASE ~(w.cy >= Rows)
    BY <1>1, <1>3, <2>2 DEF ScrollAt
  <2>. QED
    BY <2>1, <2>2
<1>5. pixels' = t.pixels /\ cx' = t.cx /\ cy' = t.cy /\ c' = ch
  BY DEF Putc, s, w
<1>. QED
  BY <1>4, <1>5 DEF TypeOK, Pixels

\* Console keeps its position on the screen and its pixels in the frame buffer.
LEMMA TypeInductive == Init => TypeOK
BY Grid DEF Init, TypeOK

\* Clearing and printing keep it so.
LEMMA TypeStep == TypeOK /\ [Next]_vars => TypeOK'
<1>. SUFFICES ASSUME TypeOK, [Next]_vars PROVE TypeOK'
  OBVIOUS
<1>1. CASE Clear
  BY <1>1, Grid DEF Clear, TypeOK
<1>2. ASSUME NEW ch \in Chars \cup Controls, Putc(ch) PROVE TypeOK'
  BY <1>2, PutcType
<1>3. CASE UNCHANGED vars
  BY <1>3 DEF TypeOK, vars
<1>. QED
  BY <1>1, <1>2, <1>3 DEF Next

\* For every frame buffer and font: between two characters the position is on
\* the screen and the pixels are those of the frame buffer.
THEOREM TypeCorrect == Spec => []TypeOK
BY TypeInductive, TypeStep, PTL DEF Spec

\* For every frame buffer and font: the next glyph fits, whatever was printed.
THEOREM GlyphAlwaysFits == Spec => []GlyphFits
<1>1. TypeOK => GlyphFits
  BY CellInside DEF TypeOK, GlyphFits, Dots
<1>. QED
  BY <1>1, TypeCorrect, PTL

-----------------------------------------------------------------------------
(* The margin.                                                             *)

\* A glyph in a cell of the screen is in cells.
LEMMA GlyphInCell ==
  ASSUME NEW a \in 0 .. Cols - 1, NEW b \in 0 .. Rows - 1, NEW k \in Spots(a, b)
  PROVE  InCell(k)
<1>1. PICK d \in Dots : k = At(a, b, d[1], d[2])
  BY DEF Spots
<1>. DEFINE y == d[1]
            x == d[2]
            l == b * Glyph + y
            m == a * Glyph + x
<1>2. y \in 0 .. Glyph - 1 /\ x \in 0 .. Glyph - 1
  BY DEF Dots
<1>. HIDE DEF y, x
<1>3. m \in Nat /\ m < Cols * Glyph
  <2>1. a \in Nat /\ Cols \in Nat /\ a < Cols /\ Glyph \in Nat \ {0}
    BY Grid
  <2>. QED
    BY <1>2, <2>1, Within
<1>4. l \in Nat /\ l < Rows * Glyph
  <2>1. b \in Nat /\ Rows \in Nat /\ b < Rows /\ Glyph \in Nat \ {0}
    BY Grid
  <2>. QED
    BY <1>2, <2>1, Within
<1>5. k = l * Pitch + m
  BY <1>1, <1>2, Grid DEF At, y, x
<1>6. Cols * Glyph <= Width /\ Cols * Glyph \in Nat
  BY Grid
<1>. HIDE DEF l, m
<1>7. Pitch \in Nat \ {0} /\ m \in 0 .. Pitch - 1
  BY <1>3, <1>6
<1>8. k % Pitch = m /\ k \div Pitch = l
  BY <1>4, <1>5, <1>7, Quotient
<1>. QED
  BY <1>3, <1>4, <1>8 DEF InCell

\* The pixels of text only.
Clean(p) == \A k \in DOMAIN p : p[k] => InCell(k)

\* Drawing in a cell of the screen leaves the margin.
LEMMA DrawnClean ==
  ASSUME NEW p \in Pixels, Clean(p), NEW a \in 0 .. Cols - 1, NEW b \in 0 .. Rows - 1, NEW ch
  PROVE  Clean(Drawn(p, a, b, ch))
<1>. SUFFICES ASSUME NEW k \in DOMAIN Drawn(p, a, b, ch), Drawn(p, a, b, ch)[k]
     PROVE  InCell(k)
  BY DEF Clean
<1>1. CASE k \in Spots(a, b)
  BY <1>1, GlyphInCell
<1>2. CASE k \notin Spots(a, b)
  <2>1. k \in DOMAIN p /\ Drawn(p, a, b, ch)[k] = p[k]
    BY <1>2 DEF Drawn
  <2>. QED
    BY <2>1 DEF Clean
<1>. QED
  BY <1>1, <1>2

\* A scroll by whole lines moves margin into margin.
LEMMA ScrollClean ==
  ASSUME NEW p \in Pixels, Clean(p), NEW a, NEW b
  PROVE  Clean(ScrollUp(Step(p, a, b)).pixels)
<1>. DEFINE q == ScrollUp(Step(p, a, b)).pixels
<1>. SUFFICES ASSUME NEW k \in DOMAIN q, q[k] PROVE InCell(k)
  BY DEF Clean
<1>1. k \in 0 .. Total - 1 /\ k < Total - Shift /\ p[k + Shift]
  BY DEF ScrollUp, Step, Pixels
<1>2. Total \in Nat /\ Shift \in Nat /\ Shift = Glyph * Pitch
  BY DEF Total, Shift
<1>3. k + Shift \in DOMAIN p
  BY <1>1, <1>2 DEF Pixels
<1>4. InCell(k + Shift)
  BY <1>1, <1>3 DEF Clean
<1>5. Pitch \in Nat \ {0} /\ Glyph \in Nat /\ k \in Nat
  BY <1>1
<1>6. (k + Shift) % Pitch = k % Pitch /\ (k + Shift) \div Pitch = k \div Pitch + Glyph
  <2>1. /\ (k + Glyph * Pitch) % Pitch = k % Pitch
        /\ (k + Glyph * Pitch) \div Pitch = k \div Pitch + Glyph
    BY <1>5, Moved
  <2>. QED
    BY <1>2, <2>1
<1>7. k \div Pitch \in Nat /\ Rows * Glyph \in Nat
  <2>1. k \div Pitch \in Nat
    BY <1>5, Division
  <2>. QED
    BY <2>1, Grid
<1>. QED
  BY <1>4, <1>5, <1>6, <1>7 DEF InCell

\* What one character draws is in cells.
LEMMA HandledClean ==
  ASSUME TypeOK, Clean(pixels), NEW ch \in Chars \cup Controls
  PROVE  Clean(Handled(ch).pixels)
<1>1. pixels \in Pixels /\ cx \in 0 .. Cols - 1 /\ cy \in 0 .. Rows - 1
  BY DEF TypeOK, Pixels
<1>2. CASE ch \in {"newline", "return", "tab"} \/ (ch = "backspace" /\ cx = 0)
  BY <1>2 DEF Handled, Step
<1>3. CASE ch = "backspace" /\ cx > 0
  <2>1. cx - 1 \in 0 .. Cols - 1
    BY <1>1, <1>3, Grid
  <2>2. Clean(Drawn(pixels, cx - 1, cy, Space))
    BY <1>1, <2>1, DrawnClean
  <2>. QED
    BY <1>3, <2>2 DEF Handled, Step
<1>4. CASE ch \notin Controls
  <2>1. Clean(Drawn(pixels, cx, cy, ch))
    BY <1>1, DrawnClean
  <2>. QED
    BY <1>4, <2>1 DEF Handled, Step, Controls
<1>. QED
  BY <1>1, <1>2, <1>3, <1>4, Grid DEF Controls

\* For every frame buffer and font: the padding of the lines and the rest beside
\* and below the cells stay blank, whatever is printed and however often it
\* scrolls.
THEOREM MarginAlwaysBlank == Spec => []MarginBlank
<1>1. Init => MarginBlank
  BY DEF Init, MarginBlank
<1>2. TypeOK /\ MarginBlank /\ [Next]_vars => MarginBlank'
  <2>. SUFFICES ASSUME TypeOK, MarginBlank, [Next]_vars PROVE MarginBlank'
    OBVIOUS
  <2>1. CASE Clear
    BY <2>1 DEF Clear, MarginBlank
  <2>2. ASSUME NEW ch \in Chars \cup Controls, Putc(ch) PROVE MarginBlank'
    <3>. DEFINE s == Handled(ch)
                w == WrapAt(s)
                t == ScrollAt(w)
    <3>1. pixels \in Pixels /\ cx \in 0 .. Cols - 1 /\ cy \in 0 .. Rows - 1 /\ Clean(pixels)
      BY DEF TypeOK, Pixels, MarginBlank, Clean
    <3>2. s = Step(s.pixels, s.cx, s.cy) /\ s.pixels \in Pixels
      BY HandledBounds
    <3>3. Clean(s.pixels)
      BY <3>1, HandledClean
    <3>. HIDE DEF s
    <3>4. w.pixels = s.pixels /\ w = Step(w.pixels, w.cx, w.cy)
      BY <3>2 DEF WrapAt, Step
    <3>. HIDE DEF w
    <3>5. Clean(t.pixels)
      <4>1. Clean(ScrollUp(w).pixels)
        BY <3>2, <3>3, <3>4, ScrollClean
      <4>. QED
        BY <3>3, <3>4, <4>1 DEF ScrollAt
    <3>6. pixels' = t.pixels
      BY <2>2 DEF Putc, s, w
    <3>. QED
      BY <3>5, <3>6 DEF Clean, MarginBlank
  <2>3. CASE UNCHANGED vars
    BY <2>3 DEF vars, MarginBlank
  <2>. QED
    BY <2>1, <2>2, <2>3 DEF Next
<1>. QED
  BY <1>1, <1>2, TypeCorrect, PTL DEF Spec

-----------------------------------------------------------------------------
(* The text.                                                               *)

\* No two characters look alike.
Legible == \A x, y \in Chars : Font[x] = Font[y] => x = y

\* The pixels are the glyphs of lines of text.
Lines == [1 .. Rows -> [0 .. Cols - 1 -> Chars]]
Shows(p, lines) ==
  \A a \in 0 .. Cols - 1, b \in 0 .. Rows - 1 : \A d \in Dots :
    p[At(a, b, d[1], d[2])] = Font[lines[b + 1][a]][d]

\* The text the pixels are read as.
Text(p) ==
  [r \in 1 .. Rows |-> [a \in 0 .. Cols - 1 |->
     LET cell == [d \in Dots |-> p[At(a, r - 1, d[1], d[2])]]
     IN  IF \E ch \in Chars : Font[ch] = cell THEN CHOOSE ch \in Chars : Font[ch] = cell
         ELSE "garbled"]]

\* If no two characters look alike, what is shown is what is read.
LEMMA ReadBack ==
  ASSUME Legible, NEW p, NEW lines \in Lines, Shows(p, lines)
  PROVE  Text(p) = lines
<1>1. ASSUME NEW r \in 1 .. Rows, NEW a \in 0 .. Cols - 1
      PROVE  Text(p)[r][a] = lines[r][a]
  <2>. DEFINE cell == [d \in Dots |-> p[At(a, r - 1, d[1], d[2])]]
              ch == lines[r][a]
  <2>1. ch \in Chars
    BY DEF Lines
  <2>2. r - 1 \in 0 .. Rows - 1 /\ (r - 1) + 1 = r
    BY Grid
  <2>3. \A d \in Dots : cell[d] = Font[ch][d]
    BY <2>2 DEF Shows
  <2>4. Font[ch] = [d \in Dots |-> Font[ch][d]]
    BY <2>1 DEF Dots
  <2>5. Font[ch] = cell
    BY <2>3, <2>4
  <2>6. Text(p)[r][a] = IF \E x \in Chars : Font[x] = cell
                        THEN CHOOSE x \in Chars : Font[x] = cell ELSE "garbled"
    BY DEF Text
  <2>. HIDE DEF cell, ch
  <2>. QED
    BY <2>1, <2>5, <2>6 DEF Legible, ch
<1>2. \A r \in 1 .. Rows : Text(p)[r] = lines[r]
  <2>. SUFFICES ASSUME NEW r \in 1 .. Rows PROVE Text(p)[r] = lines[r]
    OBVIOUS
  <2>1. lines[r] = [a \in 0 .. Cols - 1 |-> lines[r][a]]
    BY DEF Lines
  <2>2. Text(p)[r] = [a \in 0 .. Cols - 1 |-> Text(p)[r][a]]
    BY DEF Text
  <2>. QED
    BY <1>1, <2>1, <2>2
<1>3. lines = [r \in 1 .. Rows |-> lines[r]]
  BY DEF Lines
<1>4. Text(p) = [r \in 1 .. Rows |-> Text(p)[r]]
  BY DEF Text
<1>. QED
  BY <1>2, <1>3, <1>4

\* The line of pixels of a dot, and its place in it.
LEMMA Place ==
  ASSUME NEW a \in 0 .. Cols - 1, NEW b \in Nat,
         NEW y \in 0 .. Glyph - 1, NEW x \in 0 .. Glyph - 1
  PROVE  /\ At(a, b, y, x) \in Nat
         /\ At(a, b, y, x) \div Pitch = b * Glyph + y
         /\ At(a, b, y, x) % Pitch = a * Glyph + x
<1>. DEFINE l == b * Glyph + y
            m == a * Glyph + x
<1>1. a \in Nat /\ a < Cols /\ Cols \in Nat /\ Cols * Glyph \in Nat /\ Cols * Glyph <= Pitch
  <2>1. Cols * Glyph \in Nat /\ Width \in Nat /\ Pitch \in Nat /\ Cols * Glyph <= Width /\ Width <= Pitch
    BY Grid
  <2>. QED
    BY <2>1, Grid
<1>2. m \in Nat /\ m < Cols * Glyph
  BY <1>1, Within
<1>3. l \in Nat
  <2>1. Glyph \in Nat \ {0}
    OBVIOUS
  <2>. QED
    BY <2>1, Quotient
<1>4. At(a, b, y, x) = l * Pitch + m
  BY <1>1 DEF At
<1>. HIDE DEF l, m
<1>5. Pitch \in Nat \ {0} /\ m \in 0 .. Pitch - 1
  BY <1>1, <1>2
<1>6. l * Pitch + m \in Nat /\ (l * Pitch + m) \div Pitch = l /\ (l * Pitch + m) % Pitch = m
  BY <1>3, <1>5, Quotient
<1>. QED
  BY <1>4, <1>6 DEF l, m

\* Two pieces of length g meet only if they are one.
LEMMA OneOf ==
  ASSUME NEW g \in Nat \ {0}, NEW n \in Nat, NEW m \in Nat,
         NEW x \in 0 .. g - 1, NEW y \in 0 .. g - 1, n * g + x = m * g + y
  PROVE  n = m /\ x = y
<1>1. (n * g + x) \div g = n /\ (n * g + x) % g = x
  BY Quotient
<1>2. (m * g + y) \div g = m /\ (m * g + y) % g = y
  BY Quotient
<1>. QED
  BY <1>1, <1>2

\* A pixel is of one dot of one cell.
LEMMA CellsApart ==
  ASSUME NEW a \in 0 .. Cols - 1, NEW b \in 0 .. Rows - 1, NEW d \in Dots,
         NEW e \in 0 .. Cols - 1, NEW f \in 0 .. Rows - 1, NEW h \in Dots,
         At(a, b, d[1], d[2]) = At(e, f, h[1], h[2])
  PROVE  a = e /\ b = f /\ d = h
<1>1. /\ d[1] \in 0 .. Glyph - 1 /\ d[2] \in 0 .. Glyph - 1 /\ d = <<d[1], d[2]>>
      /\ h[1] \in 0 .. Glyph - 1 /\ h[2] \in 0 .. Glyph - 1 /\ h = <<h[1], h[2]>>
  BY DEF Dots
<1>2. a \in Nat /\ b \in Nat /\ e \in Nat /\ f \in Nat /\ Glyph \in Nat \ {0}
  BY Grid
<1>3. b * Glyph + d[1] = f * Glyph + h[1] /\ a * Glyph + d[2] = e * Glyph + h[2]
  BY <1>1, <1>2, Place
<1>4. b = f /\ d[1] = h[1]
  BY <1>1, <1>2, <1>3, OneOf
<1>5. a = e /\ d[2] = h[2]
  BY <1>1, <1>2, <1>3, OneOf
<1>. QED
  BY <1>1, <1>4, <1>5

\* A glyph changes the character of its cell.
LEMMA DrawnShows ==
  ASSUME NEW p \in Pixels, NEW lines \in Lines, Shows(p, lines),
         NEW a \in 0 .. Cols - 1, NEW b \in 0 .. Rows - 1, NEW ch \in Chars
  PROVE  /\ [lines EXCEPT ![b + 1][a] = ch] \in Lines
         /\ Shows(Drawn(p, a, b, ch), [lines EXCEPT ![b + 1][a] = ch])
<1>. DEFINE new == [lines EXCEPT ![b + 1][a] = ch]
            q == Drawn(p, a, b, ch)
<1>1. b + 1 \in 1 .. Rows /\ b \in Nat
  BY Grid
<1>2. new \in Lines
  BY <1>1 DEF Lines
<1>3. ASSUME NEW e \in 0 .. Cols - 1, NEW f \in 0 .. Rows - 1
      PROVE  /\ e = a /\ f = b => new[f + 1][e] = ch
             /\ ~ (e = a /\ f = b) => new[f + 1][e] = lines[f + 1][e]
  <2>1. f + 1 \in 1 .. Rows /\ (f + 1 = b + 1 => f = b)
    BY Grid
  <2>. QED
    BY <1>1, <2>1 DEF Lines
<1>. HIDE DEF new
<1>4. ASSUME NEW e \in 0 .. Cols - 1, NEW f \in 0 .. Rows - 1, NEW d \in Dots
      PROVE  q[At(e, f, d[1], d[2])] = Font[new[f + 1][e]][d]
  <2>. DEFINE k == At(e, f, d[1], d[2])
  <2>1. k \in 0 .. Total - 1
    BY CellInside DEF Dots
  <2>2. CASE e = a /\ f = b
    <3>1. k \in Spots(a, b)
      BY <2>2 DEF Spots
    <3>2. q[k] = Font[ch][CHOOSE h \in Dots : k = At(a, b, h[1], h[2])]
      BY <3>1 DEF Drawn
    <3>3. \A h \in Dots : k = At(a, b, h[1], h[2]) => h = d
      BY <2>2, CellsApart
    <3>4. (CHOOSE h \in Dots : k = At(a, b, h[1], h[2])) = d
      <4>1. k = At(a, b, d[1], d[2])
        BY <2>2
      <4>. HIDE DEF k
      <4>. QED
        BY <3>3, <4>1
    <3>. QED
      BY <1>3, <2>2, <3>2, <3>4
  <2>3. CASE ~ (e = a /\ f = b)
    <3>1. k \notin Spots(a, b)
      BY <2>3, CellsApart DEF Spots
    <3>2. q[k] = p[k]
      BY <2>1, <3>1 DEF Drawn, Pixels
    <3>. QED
      BY <1>3, <2>3, <3>2 DEF Shows
  <2>. QED
    BY <2>2, <2>3
<1>. QED
  BY <1>2, <1>4 DEF Shows, new

\* What would be the line below the last one is no cell.
LEMMA BelowText ==
  ASSUME NEW a \in 0 .. Cols - 1, NEW d \in Dots
  PROVE  ~ InCell(At(a, Rows, d[1], d[2]))
<1>1. PICK y \in 0 .. Glyph - 1, x \in 0 .. Glyph - 1 : y = d[1] /\ x = d[2]
  BY DEF Dots
<1>2. Rows \in Nat /\ Rows * Glyph \in Nat
  BY Grid
<1>3. At(a, Rows, y, x) \div Pitch = Rows * Glyph + y
  BY <1>2, Place
<1>. QED
  BY <1>1, <1>2, <1>3 DEF InCell

\* A scroll by a line of glyphs moves the text up by a line; the line that
\* comes in is blank, because the margin was.
LEMMA ScrollShows ==
  ASSUME NEW p \in Pixels, Clean(p), NEW lines \in Lines, Shows(p, lines), NEW x, NEW y
  PROVE  /\ Append(Tail(lines), Terminal!BlankLine) \in Lines
         /\ Shows(ScrollUp(Step(p, x, y)).pixels, Append(Tail(lines), Terminal!BlankLine))
<1>. DEFINE new == Append(Tail(lines), Terminal!BlankLine)
            q == ScrollUp(Step(p, x, y)).pixels
            Line == [0 .. Cols - 1 -> Chars]
<1>1. Rows \in Nat \ {0} /\ Terminal!BlankLine \in Line
  BY Grid DEF Terminal!BlankLine
<1>2. lines \in Seq(Line) /\ Len(lines) = Rows /\ DOMAIN lines = 1 .. Rows
  BY <1>1, LenProperties DEF Lines
<1>3. /\ Tail(lines) \in Seq(Line) /\ Len(Tail(lines)) = Rows - 1
      /\ \A i \in 1 .. Rows - 1 : Tail(lines)[i] = lines[i + 1]
  BY <1>1, <1>2, HeadTailProperties
<1>. HIDE DEF Line
<1>4. /\ new \in Seq(Line) /\ Len(new) = Rows
      /\ \A i \in 1 .. Rows - 1 : new[i] = lines[i + 1]
      /\ new[Rows] = Terminal!BlankLine
  BY <1>1, <1>3, AppendProperties
<1>. HIDE DEF new
<1>5. new \in Lines
  BY <1>4, LenProperties DEF Lines, Line
<1>6. /\ Total \in Nat /\ Shift \in Nat /\ Shift = Glyph * Pitch
      /\ Glyph \in Nat \ {0} /\ Pitch \in Nat \ {0}
  BY DEF Total, Shift
<1>7. ASSUME NEW a \in 0 .. Cols - 1, NEW b \in 0 .. Rows - 1, NEW d \in Dots
      PROVE  q[At(a, b, d[1], d[2])] = Font[new[b + 1][a]][d]
  <2>. DEFINE k == At(a, b, d[1], d[2])
  <2>1. d[1] \in 0 .. Glyph - 1 /\ d[2] \in 0 .. Glyph - 1
    BY DEF Dots
  <2>2. k \in 0 .. Total - 1 /\ k \in Nat /\ b \in Nat /\ a \in Nat
    BY <2>1, CellInside
  <2>3. q[k] = IF k < Total - Shift THEN p[k + Shift] ELSE FALSE
    BY <2>2 DEF ScrollUp, Step, Pixels
  <2>4. At(a, b + 1, d[1], d[2]) = k + Shift
    <3>1. (b + 1) * Glyph = b * Glyph + Glyph
      BY <2>2
    <3>2. b * Glyph + d[1] \in Nat
      BY <1>6, <2>1, <2>2, Quotient
    <3>3. ((b + 1) * Glyph + d[1]) * Pitch = (b * Glyph + d[1]) * Pitch + Glyph * Pitch
      BY <1>6, <2>1, <2>2, <3>1, <3>2
    <3>. QED
      BY <1>6, <2>1, <2>2, <3>3 DEF At
  <2>5. CASE b < Rows - 1
    <3>1. b + 1 \in 0 .. Rows - 1 /\ b + 1 \in 1 .. Rows - 1
      BY <1>1, <2>2, <2>5
    <3>2. k + Shift \in 0 .. Total - 1
      BY <2>1, <2>4, <3>1, CellInside
    <3>3. k < Total - Shift
      BY <1>6, <2>2, <3>2
    <3>4. p[k + Shift] = Font[lines[(b + 1) + 1][a]][d]
      BY <2>4, <3>1 DEF Shows
    <3>. QED
      BY <1>4, <2>3, <3>1, <3>3, <3>4
  <2>6. CASE ~ (b < Rows - 1)
    <3>1. b + 1 = Rows
      BY <1>1, <2>2, <2>6
    <3>2. new[b + 1][a] = Space /\ Font[Space][d] = FALSE
      <4>1. new[b + 1][a] = Space
        BY <1>4, <3>1, Zenon DEF Terminal!BlankLine
      <4>2. ~ Font[Space][d] /\ Font[Space] \in [Dots -> BOOLEAN]
        BY DEF Dots
      <4>. QED
        BY <4>1, <4>2
    <3>3. CASE k < Total - Shift
      <4>1. k + Shift \in DOMAIN p
        BY <1>6, <2>2, <3>3 DEF Pixels
      <4>2. k + Shift = At(a, Rows, d[1], d[2])
        BY <2>4, <3>1
      <4>3. ~ InCell(k + Shift)
        BY <4>2, BelowText
      <4>4. p[k + Shift] = FALSE
        BY <4>1, <4>3 DEF Clean, Pixels
      <4>. QED
        BY <2>3, <3>2, <3>3, <4>4
    <3>4. CASE ~ (k < Total - Shift)
      BY <2>3, <3>2, <3>4
    <3>. QED
      BY <3>3, <3>4
  <2>. QED
    BY <2>5, <2>6
<1>. QED
  BY <1>5, <1>7 DEF Shows, new

\* What the console and the sheet have in common while a character is handled.
Same(s, t) ==
  /\ s = Step(s.pixels, s.cx, s.cy) /\ s.pixels \in Pixels
  /\ t = Terminal!Page(t.lines, s.cy, s.cx)
  /\ t.lines \in Lines /\ Shows(s.pixels, t.lines)

\* One step forwards or to the next stop of a tab is one for both.
LEMMA StopIs == ASSUME NEW a \in Nat PROVE NextStop(a) = (a \div Tab + 1) * Tab
<1>1. (a + 1 * Tab) \div Tab = a \div Tab + 1
  BY Moved
<1>2. 1 * Tab = Tab
  OBVIOUS
<1>. QED
  BY <1>1, <1>2 DEF NextStop

\* One character does to the pixels what Terminal says it does to the text.
LEMMA HandledSame ==
  ASSUME TypeOK, NEW lines \in Lines, Shows(pixels, lines), NEW ch \in Chars \cup Controls
  PROVE  Same(Handled(ch), Terminal!Typed(Terminal!Page(lines, cy, cx), ch))
<1>. DEFINE old == Terminal!Page(lines, cy, cx)
            s == Handled(ch)
            t == Terminal!Typed(old, ch)
<1>1. /\ pixels \in Pixels /\ cx \in 0 .. Cols - 1 /\ cy \in 0 .. Rows - 1
      /\ cx \in Nat /\ cy \in Nat
  BY DEF TypeOK, Pixels
<1>2. old.lines = lines /\ old.row = cy /\ old.col = cx
  BY DEF Terminal!Page
<1>. HIDE DEF old
<1>3. CASE ch = "newline"
  BY <1>1, <1>2, <1>3 DEF Handled, Step, Terminal!Typed, Terminal!Page, Same
<1>4. CASE ch = "return"
  BY <1>1, <1>2, <1>4 DEF Handled, Step, Terminal!Typed, Terminal!Page, Same
<1>5. CASE ch = "tab"
  <2>1. NextStop(cx) = (cx \div Tab + 1) * Tab
    BY <1>1, StopIs
  <2>2. s = Step(pixels, NextStop(cx), cy) /\ t = Terminal!Page(lines, cy, NextStop(cx))
    BY <1>2, <1>5, <2>1 DEF Handled, Terminal!Typed
  <2>. QED
    BY <1>1, <2>2 DEF Step, Terminal!Page, Same, old
<1>6. CASE ch = "backspace" /\ cx > 0
  <2>. DEFINE new == [lines EXCEPT ![cy + 1][cx - 1] = Space]
              p == Drawn(pixels, cx - 1, cy, Space)
  <2>1. cx - 1 \in 0 .. Cols - 1
    BY <1>1, <1>6, Grid
  <2>2. new \in Lines /\ Shows(p, new) /\ p \in Pixels
    BY <1>1, <2>1, DrawnShows, DrawnInside
  <2>3. s = Step(p, cx - 1, cy) /\ t = Terminal!Page(new, cy, cx - 1)
    BY <1>2, <1>6 DEF Handled, Terminal!Typed, Terminal!Written
  <2>. HIDE DEF new, p, s, t
  <2>. QED
    BY <2>2, <2>3 DEF Step, Terminal!Page, Same, s, t, old
<1>7. CASE ch = "backspace" /\ ~ (cx > 0)
  <2>1. cx = 0 /\ "backspace" \notin Chars
    BY <1>1, <1>7
  <2>2. s = Step(pixels, cx, cy) /\ t = Terminal!Page(lines, cy, cx)
    <3>1. s = Step(pixels, cx, cy)
      BY <1>7, <2>1 DEF Handled
    <3>2. t = old
      BY <1>2, <1>7, <2>1 DEF Terminal!Typed
    <3>. QED
      BY <3>1, <3>2 DEF old
  <2>. QED
    BY <1>1, <2>2 DEF Step, Terminal!Page, Same, old
<1>8. CASE ch \notin Controls
  <2>. DEFINE new == [lines EXCEPT ![cy + 1][cx] = ch]
              p == Drawn(pixels, cx, cy, ch)
  <2>1. ch \in Chars
    BY <1>8
  <2>2. new \in Lines /\ Shows(p, new) /\ p \in Pixels
    BY <1>1, <2>1, DrawnShows, DrawnInside
  <2>3. s = Step(p, cx + 1, cy) /\ t = Terminal!Page(new, cy, cx + 1)
    BY <1>2, <1>8, <2>1 DEF Handled, Terminal!Typed, Terminal!Written, Controls
  <2>. HIDE DEF new, p, s, t
  <2>. QED
    BY <2>2, <2>3 DEF Step, Terminal!Page, Same, s, t, old
<1>. QED
  BY <1>3, <1>4, <1>5, <1>6, <1>7, <1>8 DEF Controls, old

\* So does the wrap at the right edge, which moves only the position.
LEMMA WrapSame ==
  ASSUME NEW s, NEW t, Same(s, t), s.cx \in Nat
  PROVE  Same(WrapAt(s), Terminal!Wrapped(t)) /\ WrapAt(s).pixels = s.pixels
<1>1. t.lines = t.lines /\ t.row = s.cy /\ t.col = s.cx
  BY DEF Same, Terminal!Page
<1>2. s.cx >= Cols <=> ~ (t.col < Cols)
  BY <1>1, Grid
<1>3. CASE s.cx >= Cols
  <2>1. WrapAt(s) = Step(s.pixels, 0, s.cy + 1)
    BY <1>3 DEF WrapAt, PastEdge
  <2>2. Terminal!Wrapped(t) = Terminal!Page(t.lines, s.cy + 1, 0)
    BY <1>1, <1>2, <1>3 DEF Terminal!Wrapped
  <2>. QED
    BY <2>1, <2>2 DEF Same, Step, Terminal!Page
<1>4. CASE ~ (s.cx >= Cols)
  BY <1>2, <1>4 DEF WrapAt, PastEdge, Terminal!Wrapped
<1>. QED
  BY <1>3, <1>4

\* So does the scroll by one line of pixels.
LEMMA ScrollSame ==
  ASSUME NEW s, NEW t, Same(s, t), Clean(s.pixels), s.cy \in Nat
  PROVE  Same(ScrollAt(s), Terminal!Fed(t))
<1>1. t.row = s.cy /\ t.col = s.cx
  BY DEF Same, Terminal!Page
<1>2. s.cy >= Rows <=> ~ (t.row < Rows)
  BY <1>1, Grid
<1>3. CASE s.cy >= Rows
  <2>. DEFINE new == Append(Tail(t.lines), Terminal!BlankLine)
              p == ScrollUp(s).pixels
  <2>1. s = Step(s.pixels, s.cx, s.cy) /\ s.pixels \in Pixels
    BY DEF Same
  <2>2. new \in Lines /\ Shows(p, new) /\ p \in Pixels
    <3>1. new \in Lines /\ Shows(ScrollUp(Step(s.pixels, s.cx, s.cy)).pixels, new)
      BY ScrollShows DEF Same
    <3>2. ScrollUp(Step(s.pixels, s.cx, s.cy)).pixels \in Pixels
      BY <2>1, ScrollInside
    <3>. QED
      BY <2>1, <3>1, <3>2, Zenon
  <2>3. ScrollUp(s) = Step(p, s.cx, s.cy - 1)
    BY DEF ScrollUp, Step
  <2>4. ScrollAt(s) = Step(p, s.cx, s.cy - 1)
    BY <1>3, <2>3 DEF ScrollAt
  <2>5. Terminal!Fed(t) = Terminal!Page(new, s.cy - 1, s.cx)
    BY <1>1, <1>2, <1>3 DEF Terminal!Fed
  <2>. HIDE DEF new, p
  <2>. QED
    BY <2>2, <2>4, <2>5 DEF Same, Step, Terminal!Page
<1>4. CASE ~ (s.cy >= Rows)
  BY <1>2, <1>4 DEF ScrollAt, Terminal!Fed
<1>. QED
  BY <1>3, <1>4

\* One character, from a screen that shows text to one that shows the text with
\* the character put on.
LEMMA PutcSame ==
  ASSUME TypeOK, MarginBlank, NEW lines \in Lines, Shows(pixels, lines),
         NEW ch \in Chars \cup Controls, Putc(ch)
  PROVE  LET t == Terminal!Put(Terminal!Page(lines, cy, cx), ch)
         IN  /\ t = Terminal!Page(t.lines, cy', cx')
             /\ t.lines \in Lines /\ Shows(pixels', t.lines)
<1>. DEFINE s == Handled(ch)
            w == WrapAt(s)
            z == ScrollAt(w)
            ts == Terminal!Typed(Terminal!Page(lines, cy, cx), ch)
            tw == Terminal!Wrapped(ts)
            tz == Terminal!Fed(tw)
<1>1. Same(s, ts)
  BY HandledSame
<1>2. s.cx \in Nat /\ s.cy \in Nat /\ Clean(s.pixels)
  <2>1. s.cx \in Nat /\ s.cy \in 0 .. Rows
    BY HandledBounds
  <2>2. Clean(s.pixels)
    BY HandledClean DEF MarginBlank, Clean
  <2>. QED
    BY <2>1, <2>2
<1>3. pixels' = z.pixels /\ cx' = z.cx /\ cy' = z.cy
  BY DEF Putc
<1>. HIDE DEF s, ts
<1>4. Same(w, tw) /\ Clean(w.pixels)
  BY <1>1, <1>2, WrapSame
<1>5. w.cy \in Nat
  BY <1>2 DEF WrapAt, Step
<1>. HIDE DEF w, tw
<1>6. Same(z, tz)
  BY <1>4, <1>5, ScrollSame
<1>7. tz = Terminal!Put(Terminal!Page(lines, cy, cx), ch)
  BY DEF Terminal!Put, ts, tw
<1>. HIDE DEF z, tz
<1>. QED
  BY <1>3, <1>6, <1>7 DEF Same

\* The screen always shows some text.
Readable == \E lines \in Lines : Shows(pixels, lines)

\* A cleared screen is a sheet of blanks.
LEMMA ClearShows ==
  ASSUME NEW p, p = [k \in 0 .. Total - 1 |-> FALSE]
  PROVE  Terminal!BlankSheet.lines \in Lines /\ Shows(p, Terminal!BlankSheet.lines)
<1>. DEFINE blank == [r \in 1 .. Rows |-> Terminal!BlankLine]
<1>1. Terminal!BlankSheet.lines = blank
  BY DEF Terminal!BlankSheet, Terminal!Page
<1>2. blank \in Lines
  BY DEF Lines, Terminal!BlankLine
<1>3. ASSUME NEW a \in 0 .. Cols - 1, NEW b \in 0 .. Rows - 1, NEW d \in Dots
      PROVE  p[At(a, b, d[1], d[2])] = Font[blank[b + 1][a]][d]
  <2>1. At(a, b, d[1], d[2]) \in 0 .. Total - 1
    BY CellInside DEF Dots
  <2>2. b + 1 \in 1 .. Rows
    BY Grid
  <2>3. blank[b + 1][a] = Space
    BY <2>2 DEF Terminal!BlankLine
  <2>4. ~ Font[Space][d] /\ Font[Space] \in [Dots -> BOOLEAN]
    BY DEF Dots
  <2>. QED
    BY <2>1, <2>3, <2>4
<1>. HIDE DEF blank
<1>4. Shows(p, blank)
  BY <1>3 DEF Shows
<1>. QED
  BY <1>1, <1>2, <1>4, Zenon

\* Whatever console_putc does, some text is what the pixels show.
LEMMA ReadableStep == TypeOK /\ MarginBlank /\ Readable /\ [Next]_vars => Readable'
<1>. SUFFICES ASSUME TypeOK, MarginBlank, Readable, [Next]_vars PROVE Readable'
  OBVIOUS
<1>1. CASE Clear
  BY <1>1, ClearShows DEF Clear, Readable
<1>2. ASSUME NEW ch \in Chars \cup Controls, Putc(ch) PROVE Readable'
  <2>1. PICK lines \in Lines : Shows(pixels, lines)
    BY DEF Readable
  <2>. QED
    BY <1>2, <2>1, PutcSame DEF Readable
<1>3. CASE UNCHANGED vars
  BY <1>3 DEF vars, Readable
<1>. QED
  BY <1>1, <1>2, <1>3 DEF Next

\* The sheet of the refinement is the text of the pixels.
TheSheet(p, row, col) == Terminal!Page(Text(p), row, col)

\* For every frame buffer, font of letters that can be told apart and order of
\* characters: the pixels are those of a sheet of text that wraps at its edge,
\* scrolls by whole lines and erases what a backspace passes.
THEOREM Implements == Legible => (Spec => ImplementsTerminal)
<1>. SUFFICES ASSUME Legible PROVE Spec => ImplementsTerminal
  OBVIOUS
<1>. DEFINE sheet == [lines |-> [r \in 1 .. Rows |-> [a \in 0 .. Cols - 1 |-> Shown(a, r - 1)]],
                      row |-> cy, col |-> cx]
<1>1. sheet = TheSheet(pixels, cy, cx) /\ sheet' = TheSheet(pixels', cy', cx')
  BY DEF TheSheet, Terminal!Page, Text, Shown, Cell
<1>2. Init => Terminal!Init /\ Readable
  <2>. SUFFICES ASSUME Init PROVE Terminal!Init /\ Readable
    OBVIOUS
  <2>1. Terminal!BlankSheet.lines \in Lines /\ Shows(pixels, Terminal!BlankSheet.lines)
    BY ClearShows DEF Init
  <2>2. Text(pixels) = Terminal!BlankSheet.lines
    BY <2>1, ReadBack
  <2>3. TheSheet(pixels, cy, cx) = Terminal!BlankSheet
    BY <2>2 DEF TheSheet, Terminal!BlankSheet, Terminal!Page, Init
  <2>. QED
    BY <1>1, <2>1, <2>3 DEF Terminal!Init, Readable, Init
<1>3. TypeOK /\ MarginBlank /\ Readable /\ [Next]_vars => [Terminal!Next]_<<sheet, c>>
  <2>. SUFFICES ASSUME TypeOK, MarginBlank, Readable, [Next]_vars
                PROVE  [Terminal!Next]_<<sheet, c>>
    OBVIOUS
  <2>1. PICK lines \in Lines : Shows(pixels, lines)
    BY DEF Readable
  <2>2. sheet = Terminal!Page(lines, cy, cx)
    BY <1>1, <2>1, ReadBack DEF TheSheet
  <2>3. CASE Clear
    <3>1. Terminal!BlankSheet.lines \in Lines /\ Shows(pixels', Terminal!BlankSheet.lines)
      BY <2>3, ClearShows DEF Clear
    <3>2. Text(pixels') = Terminal!BlankSheet.lines
      BY <3>1, ReadBack
    <3>3. TheSheet(pixels', cy', cx') = Terminal!BlankSheet
      BY <2>3, <3>2 DEF TheSheet, Terminal!BlankSheet, Terminal!Page, Clear
    <3>4. sheet' = Terminal!BlankSheet /\ c' = "clear"
      BY <1>1, <2>3, <3>3 DEF Clear
    <3>. HIDE DEF sheet
    <3>. QED
      BY <3>4 DEF Terminal!Next, sheet
  <2>4. ASSUME NEW ch \in Chars \cup Controls, Putc(ch)
        PROVE  [Terminal!Next]_<<sheet, c>>
    <3>. DEFINE t == Terminal!Put(Terminal!Page(lines, cy, cx), ch)
    <3>1. /\ t = Terminal!Page(t.lines, cy', cx')
          /\ t.lines \in Lines /\ Shows(pixels', t.lines)
      BY <2>1, <2>4, PutcSame
    <3>. HIDE DEF t
    <3>2. Text(pixels') = t.lines
      BY <3>1, ReadBack
    <3>3. sheet' = t
      BY <1>1, <3>1, <3>2 DEF TheSheet
    <3>4. sheet' = Terminal!Put(sheet, c') /\ c' \in Chars \cup Controls
      BY <2>2, <2>4, <3>3 DEF t, Putc
    <3>5. c' \in Chars \cup Terminal!Controls
      BY <3>4 DEF Terminal!Controls, Controls
    <3>. HIDE DEF sheet
    <3>. QED
      BY <3>4, <3>5 DEF Terminal!Next, sheet
  <2>5. CASE UNCHANGED vars
    <3>1. sheet' = sheet /\ c' = c
      BY <1>1, <2>5 DEF vars
    <3>. QED
      BY <3>1
  <2>. QED
    BY <2>3, <2>4, <2>5 DEF Next
<1>. QED
  BY <1>2, <1>3, ReadableStep, TypeCorrect, MarginAlwaysBlank, PTL
     DEF Spec, ImplementsTerminal, Terminal!Spec

=============================================================================
