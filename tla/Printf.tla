------------------------------- MODULE Printf ------------------------------
(***************************************************************************)
(* What the kernel writes: src/kernel/printf.c on the console, and         *)
(* serial.c on the serial port that kmain uses before there is a console.  *)
(* A character of the console is printed at once (Console has what that    *)
(* does); a character of the serial port waits until the UART is ready.    *)
(*                                                                         *)
(* A program is a sequence of calls with their arguments.  An argument is  *)
(* a slot of LongBits bits; an int or unsigned takes IntBits of them and   *)
(* leaves the others as they are.  Characters are their codes.             *)
(***************************************************************************)
EXTENDS Integers, Sequences, SequencesExt, CString

CONSTANTS
  IntBits, LongBits,   \* widths of int and of long
  BufSize,             \* of the buffers for digits
  Programs             \* sequences of calls

VARIABLES
  prog, job,   \* what is printed, and which call of it is running
  at,          \* "next" between two calls, or the loop the call is in
  p, arg,      \* printf: the place in the format, the next argument
  rest,        \* a string that is being printed
  v, base, upper, buf,   \* print_unsigned, serial_print_num
  screen,      \* what console_putc has got
  uart,        \* the port's registers, as far as they matter
  line         \* what has left the port

number == <<v, base, upper, buf>>
vars == <<prog, job, at, p, arg, rest, number, screen, uart, line>>

\* b to the power of n.
Power(b, n) ==
  LET power[k \in 0 .. n] == IF k = 0 THEN 1 ELSE b * power[k - 1] IN power[n]

ASSUME WidthAssumption ==
  /\ IntBits \in Nat \ {0} /\ LongBits \in Nat /\ IntBits <= LongBits
  /\ BufSize \in Nat /\ Power(2, LongBits) <= Power(10, BufSize)

Code(c) == CASE c = "%" -> 37 [] c = "-" -> 45 [] c = "0" -> 48 [] c = "X" -> 88
             [] c = "A" -> 65 [] c = "a" -> 97 [] c = "c" -> 99 [] c = "d" -> 100
             [] c = "i" -> 105 [] c = "l" -> 108 [] c = "p" -> 112 [] c = "q" -> 113 [] c = "s" -> 115
             [] c = "u" -> 117 [] c = "x" -> 120
NullText == <<40, 110, 117, 108, 108, 41>>

\* The null pointer, which points to no string, not even to an empty one: a
\* value that no sequence of Bytes equals.
Null == <<NUL>>

-----------------------------------------------------------------------------
(* The calls: a format is made of pieces, each a text or a conversion.     *)

NoText == <<>>
Piece(conv, long, val, junk) == [conv |-> conv, long |-> long, val |-> val, junk |-> junk]
Numbers == {"d", "i", "u", "x", "X", "p"}

\* How a piece is spelt, and the slot its argument is passed in.
Spelt(pc) ==
  IF pc.conv = "text" THEN pc.val
  ELSE <<Code("%")>> \o [k \in 1 .. pc.long |-> Code("l")]
         \o (IF pc.conv = "end" THEN NoText ELSE <<Code(pc.conv)>>)
Slot(pc) ==
  IF pc.conv \notin Numbers THEN pc.val
  ELSE IF pc.long > 0 \/ pc.conv = "p" THEN pc.val % Power(2, LongBits)
  ELSE (pc.val % Power(2, IntBits)) + pc.junk * Power(2, IntBits)

Call == prog[job]
Format == Append(FlattenSeq([k \in DOMAIN Call.pieces |-> Spelt(Call.pieces[k])]), NUL)
TakesSlot(pc) == pc.conv \in Numbers \cup {"s", "c"}
Passed(pc) == IF TakesSlot(pc) THEN <<Slot(pc)>> ELSE <<>>
Slots == FlattenSeq([k \in DOMAIN Call.pieces |-> Passed(Call.pieces[k])])

\* What the kernel's calls are like: a value is one of the type its conversion
\* reads, a string has no NUL and may be empty, or there is the null pointer
\* for it, a format ends where it ends with %, and the port is set up once,
\* before anything else.  "q" is any letter that is no conversion.
Bytes == 1 .. 255
WidthOf(pc) == IF pc.long > 0 \/ pc.conv = "p" THEN LongBits ELSE IntBits
PieceOK(pc) ==
  /\ pc.long \in Nat /\ pc.junk \in Nat
  /\ \/ pc.conv = "text" /\ pc.val \in Seq(Bytes \ {Code("%")}) /\ pc.val # NoText
     \/ /\ pc.conv \in {"d", "i"}
        /\ pc.val \in -Power(2, WidthOf(pc) - 1) .. Power(2, WidthOf(pc) - 1) - 1
     \/ pc.conv \in {"u", "x", "X", "p"} /\ pc.val \in 0 .. Power(2, WidthOf(pc)) - 1
     \/ pc.conv = "s" /\ pc.val \in Seq(Bytes) \cup {Null}
     \/ pc.conv = "c" /\ pc.val \in 0 .. 255
     \/ pc.conv \in {"%", "q", "end"}
CallOK(call) ==
  \/ call.fn = "serial_init"
  \/ call.fn = "serial_puts" /\ call.text \in Seq(Bytes)
  \/ call.fn = "serial_print_num" /\ call.n \in 0 .. Power(2, LongBits) - 1
  \/ /\ call.fn = "printf"
     /\ Len(call.pieces) \in Nat /\ DOMAIN call.pieces = 1 .. Len(call.pieces)
     /\ \A k \in DOMAIN call.pieces :
          PieceOK(call.pieces[k]) /\ (call.pieces[k].conv = "end" => k = Len(call.pieces))
ProgramOK(pr) ==
  /\ Len(pr) \in Nat /\ DOMAIN pr = 1 .. Len(pr)
  /\ \A j \in DOMAIN pr :
       /\ CallOK(pr[j])
       /\ pr[j].fn = "serial_init" => j = 1
       /\ pr[j].fn \in {"serial_puts", "serial_print_num"} => pr[1].fn = "serial_init"

ASSUME ProgramsAssumption == \A pr \in Programs : ProgramOK(pr)

-----------------------------------------------------------------------------
(* The UART, 16550.  Port 0 is its data, or the divisor while DLAB is set. *)

Written(port, byte) ==
  IF ~uart.there THEN uart
  ELSE CASE port = 0 /\ uart.dlab  -> [uart EXCEPT !.low = byte]
         [] port = 0 /\ ~uart.dlab -> [uart EXCEPT !.thr = <<byte>>]
         [] port = 1 /\ uart.dlab  -> [uart EXCEPT !.high = byte]
         [] port = 2               -> [uart EXCEPT !.thr = <<>>]
         [] port = 3               -> [uart EXCEPT !.dlab = byte >= 128, !.format = byte % 128]
         [] OTHER                  -> uart

\* Nobody there reads as 0xFF.
tx_ready_Inverted == uart.thr # <<>>
tx_ready == ~uart.there \/ uart.thr = <<>>
outb(port, byte) == uart' = Written(port, byte)

\* At 38400 baud, with 8 bits, no parity and 1 stop bit the other end can read it.
Transmit ==
  /\ uart.thr # <<>>
  /\ line' = line \o (IF uart.low = 3 /\ uart.high = 0 /\ uart.format = 3 THEN uart.thr ELSE <<NUL>>)
  /\ uart' = [uart EXCEPT !.thr = <<>>]
  /\ UNCHANGED <<prog, job, at, p, arg, rest, number, screen>>

-----------------------------------------------------------------------------
(* One character, and the end of a call.                                   *)

OnConsole == Call.fn = "printf"

\* console_putc; serial_putc, once its poll has seen the UART ready.
putc_NoPoll(c) ==
  IF OnConsole THEN screen' = Append(screen, c) /\ UNCHANGED uart
  ELSE outb(0, c) /\ UNCHANGED screen
putc(c) ==
  IF OnConsole THEN screen' = Append(screen, c) /\ UNCHANGED uart
  ELSE tx_ready /\ outb(0, c) /\ UNCHANGED screen

Return == at' = "next" /\ job' = job + 1
\* Where the printing of a string or a number leads to.
Resume == IF OnConsole THEN at' = "format" /\ UNCHANGED job ELSE Return

-----------------------------------------------------------------------------
(* Numbers.                                                                *)

print_unsigned(n, b, up) ==
  /\ v' = n /\ base' = b /\ upper' = up
  /\ IF n = 0 THEN buf' = <<Code("0")>> /\ at' = "digits" ELSE buf' = <<>> /\ at' = "divide"

Digit(d, up) == IF d < 10 THEN Code("0") + d ELSE Code(IF up THEN "A" ELSE "a") + d - 10

\* What is left of the number after a digit.
More_TestedFirst(n) == n > 0
More(n) == n \div base > 0

Divide ==
  /\ at = "divide"
  /\ buf' = Append(buf, Digit(v % base, upper))
  /\ v' = v \div base
  /\ at' = IF More(v) THEN "divide" ELSE "digits"
  /\ UNCHANGED <<prog, job, p, arg, rest, base, upper, screen, uart, line>>

PrintDigit ==
  /\ at = "digits"
  /\ putc(Last(buf)) /\ buf' = Front(buf)
  /\ IF Len(buf) = 1 THEN Resume ELSE UNCHANGED <<at, job>>
  /\ UNCHANGED <<prog, p, arg, rest, v, base, upper, line>>

\* The value of the w low bits of a slot; print_signed's u = -(v + 1) + 1.
Unsigned(slot, w) == slot % Power(2, w)
Signed(slot, w) ==
  IF Unsigned(slot, w) < Power(2, w - 1) THEN Unsigned(slot, w)
  ELSE Unsigned(slot, w) - Power(2, w)
Magnitude_OffByOne(n) == IF n < 0 THEN -(n + 1) ELSE n
Magnitude(n) == IF n < 0 THEN -(n + 1) + 1 ELSE n

-----------------------------------------------------------------------------
(* printf, one pass of its loop.                                           *)

InFormat == at = "format" /\ UNCHANGED <<prog, line, uart>>

PlainCharacter ==
  /\ InFormat /\ Format[p] \notin {Code("%"), NUL}
  /\ putc(Format[p]) /\ p' = p + 1
  /\ UNCHANGED <<job, at, arg, rest, number>>

\* The place of the conversion's letter, behind any number of l.
Letter == CHOOSE q \in p + 1 .. Len(Format) :
            Format[q] # Code("l") /\ \A r \in p + 1 .. q - 1 : Format[r] = Code("l")
Width == IF Letter > p + 1 THEN LongBits ELSE IntBits

Conversion(letters) ==
  InFormat /\ Format[p] = Code("%") /\ Format[Letter] \in {Code(c) : c \in letters}

\* What goes before the digits, their value, base and case.
NumberFor(letter, slot) ==
  LET n == Signed(slot, Width) IN
  CASE letter \in {Code("d"), Code("i")} ->
         <<IF n < 0 THEN <<Code("-")>> ELSE NoText, Magnitude(n), 10, FALSE>>
    [] letter = Code("u") -> <<NoText, Unsigned(slot, Width), 10, FALSE>>
    [] letter \in {Code("x"), Code("X")} ->
         <<NoText, Unsigned(slot, Width), 16, letter = Code("X")>>
    [] letter = Code("p") -> <<<<Code("0"), Code("x")>>, Unsigned(slot, LongBits), 16, FALSE>>

ConvertNumber ==
  /\ Conversion(Numbers)
  /\ LET number_ == NumberFor(Format[Letter], Slots[arg])
     IN screen' = screen \o number_[1] /\ print_unsigned(number_[2], number_[3], number_[4])
  /\ p' = Letter + 1 /\ arg' = arg + 1
  /\ UNCHANGED <<job, rest>>

\* An empty string is a string: only the null pointer is replaced.
StringFor_EmptyIsNull(s) == IF s \in {Null, NoText} THEN NullText ELSE s
StringFor(s) == IF s = Null THEN NullText ELSE s

ConvertString ==
  /\ Conversion({"s"})
  /\ rest' = StringFor(Slots[arg])
  /\ at' = "string" /\ p' = Letter + 1 /\ arg' = arg + 1
  /\ UNCHANGED <<job, number, screen>>

ConvertChar ==
  /\ Conversion({"c"})
  /\ putc(Slots[arg] % 256) /\ p' = Letter + 1 /\ arg' = arg + 1
  /\ UNCHANGED <<job, at, rest, number>>

Known == {Code(c) : c \in Numbers \cup {"s", "c"}}
OtherLetter ==
  /\ InFormat /\ Format[p] = Code("%") /\ Format[Letter] \notin Known \cup {NUL}
  /\ screen' = screen \o IF Format[Letter] = Code("%") THEN <<Code("%")>>
                         ELSE <<Code("%"), Format[Letter]>>
  /\ p' = Letter + 1
  /\ UNCHANGED <<job, at, arg, rest, number>>

\* The end of the format, after a % too.
FormatEnds ==
  /\ InFormat
  /\ Format[p] = NUL \/ (Format[p] = Code("%") /\ Format[Letter] = NUL)
  /\ Return
  /\ UNCHANGED <<p, arg, rest, number, screen>>

-----------------------------------------------------------------------------
(* The other calls.                                                        *)

\* %s of printf, and serial_puts.
PrintString ==
  /\ at = "string"
  /\ IF rest = NoText THEN Resume /\ UNCHANGED <<rest, screen, uart>>
     ELSE putc(Head(rest)) /\ rest' = Tail(rest) /\ UNCHANGED <<at, job>>
  /\ UNCHANGED <<prog, p, arg, number, line>>

\* serial_init: the divisor with DLAB set, then 8N1, the FIFO and the modem lines.
InitWrites == <<<<1, 0>>, <<3, 128>>, <<0, 3>>, <<1, 0>>, <<3, 3>>, <<2, 199>>, <<4, 11>>>>
serial_init ==
  /\ at = "init"
  /\ IF p > Len(InitWrites) THEN Return /\ UNCHANGED <<p, uart>>
     ELSE outb(InitWrites[p][1], InitWrites[p][2]) /\ p' = p + 1 /\ UNCHANGED <<at, job>>
  /\ UNCHANGED <<prog, arg, rest, number, screen, line>>

Begin ==
  /\ at = "next" /\ job <= Len(prog)
  /\ p' = 1 /\ arg' = 1
  /\ CASE Call.fn = "serial_init" -> at' = "init" /\ UNCHANGED <<rest, number>>
       [] Call.fn = "serial_puts" -> at' = "string" /\ rest' = Call.text /\ UNCHANGED number
       [] Call.fn = "serial_print_num" -> print_unsigned(Call.n, 10, FALSE) /\ UNCHANGED rest
       [] Call.fn = "printf" -> at' = "format" /\ UNCHANGED <<rest, number>>
  /\ UNCHANGED <<prog, job, screen, uart, line>>

-----------------------------------------------------------------------------

\* The firmware has left the port in any state, or there is none.
Init ==
  /\ prog \in Programs /\ job = 1 /\ at = "next"
  /\ p = 1 /\ arg = 1 /\ rest = NoText
  /\ v = 0 /\ base = 10 /\ upper = FALSE /\ buf = <<>>
  /\ screen = <<>> /\ line = <<>>
  /\ uart \in [there : BOOLEAN, dlab : BOOLEAN, low : {1}, high : {0}, format : {2}, thr : {<<>>}]

Printer ==
  \/ Begin \/ PrintString \/ Divide \/ PrintDigit \/ serial_init
  \/ PlainCharacter \/ ConvertNumber \/ ConvertString \/ ConvertChar \/ OtherLetter \/ FormatEnds

Next == Printer \/ Transmit

\* The thread runs on and the UART sends what it has.
Spec == Init /\ [][Next]_vars /\ WF_vars(Printer) /\ WF_vars(Transmit)

-----------------------------------------------------------------------------
(* Properties.                                                             *)

\* The buffers for digits never overflow.
TypeOK ==
  /\ at \in {"next", "format", "string", "divide", "digits", "init"}
  /\ job \in 1 .. Len(prog) + 1 /\ p \in Nat /\ arg \in Nat
  /\ v \in 0 .. Power(2, LongBits) - 1 /\ base \in {10, 16} /\ upper \in BOOLEAN
  /\ Len(buf) <= BufSize /\ Len(uart.thr) <= 1

\* The digits of n, from the definition of a positional numeral.
Numeral(n, b, up) ==
  LET len == CHOOSE k \in 1 .. BufSize : n < Power(b, k) /\ (k = 1 \/ n >= Power(b, k - 1))
  IN [k \in 1 .. len |-> Digit((n \div Power(b, len - k)) % b, up)]

\* What a piece of a format, and what a call, is there to print.
Text(pc) ==
  CASE pc.conv \in {"d", "i"} ->
         (IF pc.val < 0 THEN <<Code("-")>> ELSE NoText)
           \o Numeral(IF pc.val < 0 THEN -pc.val ELSE pc.val, 10, FALSE)
    [] pc.conv = "u" -> Numeral(pc.val, 10, FALSE)
    [] pc.conv \in {"x", "X"} -> Numeral(pc.val, 16, pc.conv = "X")
    [] pc.conv = "p" -> <<Code("0"), Code("x")>> \o Numeral(pc.val, 16, FALSE)
    [] pc.conv = "s" -> IF pc.val = Null THEN NullText ELSE pc.val
    [] pc.conv = "c" -> <<pc.val>>
    [] pc.conv = "%" -> <<Code("%")>>
    [] pc.conv = "text" -> pc.val
    [] pc.conv = "end" -> NoText
    [] OTHER -> <<Code("%"), Code(pc.conv)>>
TextOf(call) ==
  CASE call.fn = "serial_init" -> NoText
    [] call.fn = "serial_puts" -> call.text
    [] call.fn = "serial_print_num" -> Numeral(call.n, 10, FALSE)
    [] call.fn = "printf" -> FlattenSeq([k \in DOMAIN call.pieces |-> Text(call.pieces[k])])
TextUpTo(k, console) ==
  FlattenSeq([j \in 1 .. k |-> IF (prog[j].fn = "printf") = console THEN TextOf(prog[j]) ELSE NoText])

\* Between two calls the screen shows what the calls before it say, no more and
\* no less, for every number of either width and sign, an empty string and the
\* null pointer; and so has the other end
\* of the serial line received it, but for the character still in the port.
PrintsItsText ==
  at = "next" =>
    /\ screen = TextUpTo(job - 1, TRUE)
    /\ uart.there => line \o uart.thr = TextUpTo(job - 1, FALSE)

\* Every program comes to its end: no call prints for ever and no poll of a
\* UART that sends waits for ever, nor of one that is not there.
PrintReturns == <>[](job > Len(prog) /\ uart.thr = <<>>)

=============================================================================
