----------------------------- MODULE MCConsole ------------------------------
(* Three columns and three lines of 2 by 2 glyphs; the frame buffer has one  *)
(* line of pixels and one column too many, and two pixels of padding.        *)
EXTENDS Console

MCFont ==
  [ch \in Chars |-> [d \in (0 .. Glyph - 1) \X (0 .. Glyph - 1) |-> ch = "a" /\ d # <<1, 1>>]]

=============================================================================
