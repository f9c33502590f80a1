----------------------------- MODULE MCPrintf -----------------------------
(* Programs for TLC to run Printf on: every number of an int of 4 bits and  *)
(* of a long of 7 through every conversion, what kmain writes before the   *)
(* console is there, the exception message, and odd formats.               *)
EXTENDS Printf

Of(pieces) == [fn |-> "printf", pieces |-> pieces]
T(s) == Piece("text", 0, s, 0)

Ints == -8 .. 7
Unsigneds == 0 .. 15
Longs == -64 .. 63
UnsignedLongs == 0 .. 127

NumberPieces ==
  {Piece(c, 0, n, j) : c \in {"d", "i"}, n \in Ints, j \in {0, 7}}
    \cup {Piece(c, 0, n, 7) : c \in {"u", "x", "X"}, n \in Unsigneds}
    \cup {Piece("d", 1, n, 0) : n \in Longs}
    \cup {Piece(c, k, n, 0) : c \in {"u", "X", "p"}, k \in {1, 2}, n \in UnsignedLongs}

\* "[fb " bpp "bpp " width "x"
Puts(s) == [fn |-> "serial_puts", text |-> s]
Num(n) == [fn |-> "serial_print_num", n |-> n]
Kmain(bpp, width) ==
  <<[fn |-> "serial_init"], Puts(<<91, 102>>), Num(bpp), Puts(<<98>>), Num(width), Puts(NoText),
    Of(<<T(<<61, 10>>)>>)>>

\* "v=%lu e=%lu 0x%lx\n", "%s %u b\n", what echo and type with an empty string
\* and mkfile without a name print, "%s" of the null pointer, and after a format
\* that ends with % a second call.
Exception == Of(<<T(<<118>>), Piece("u", 1, 14, 0), T(<<32>>), Piece("u", 1, 0, 0), T(<<48, 120>>),
                  Piece("x", 1, 127, 0), T(<<10>>)>>)
DirLine == Of(<<Piece("s", 0, <<65, 46, 66>>, 0), T(<<32>>), Piece("u", 0, 15, 5), T(<<10>>)>>)
Odd == Of(<<Piece("%", 1, 0, 0), Piece("q", 1, 0, 0), Piece("c", 0, 66, 0), Piece("d", 0, -1, 0),
            Piece("s", 0, Null, 0), Piece("s", 0, <<33>>, 0)>>)
Echo == Of(<<Piece("s", 0, NoText, 0), T(<<10>>)>>)
Created == Of(<<T(<<67>>), Piece("s", 0, NoText, 0), T(<<10>>)>>)
Cut == Of(<<T(<<65>>), Piece("end", 1, 0, 0)>>)

MCPrograms ==
  {<<Of(<<pc>>)>> : pc \in NumberPieces}
    \cup {Kmain(bpp, width) : bpp \in {0, 32}, width \in {9, 10, 127}}
    \cup {<<Exception, DirLine>>, <<Odd, Cut, DirLine>>, <<Echo, Created, DirLine>>}

=============================================================================
