------------------------------- MODULE Shell --------------------------------
(***************************************************************************)
(* src/kernel/shell.c: the line editor and the commands, on the terminal   *)
(* that Console implements.                                                *)
(*                                                                         *)
(* One action is one key, one character printed, or one command.  What the *)
(* file system answers is any answer (Fat32 says which); the fixed text of *)
(* a message is Notice.                                                    *)
(***************************************************************************)
EXTENDS Sheet, SequencesExt

CONSTANTS
  LineSize, \* size of the line buffer, 128 in the code
  Keys,     \* characters of the keyboard: Chars, "tab", "backspace", "newline"
  Words,    \* the names of the commands, as lines of characters
  CommandOf,  \* [Words -> {"help", "cls", "echo", "time", "dir", "type", "mkfile", "del"}]
  Notice,
  Drift     \* bound: cells a prompt may have scrolled off the sheet

VARIABLES
  pc,     \* "mount", "prompt", "read", "run" or "halted"
  out,    \* what is still to be printed before anything else happens
  line,   \* the characters of the buffer before i
  sheet,
  home,   \* where the latest output ended, in cells from the top of the sheet
  plain,  \* since then no tab was typed, nor a backspace in the first column
  places  \* history: where the line's characters were echoed, in cells from home

vars == <<pc, out, line, sheet, home, plain, places>>

ASSUME ShellAssumption ==
  /\ Rows \in Nat \ {0} /\ Cols \in Nat \ {0} /\ Tab \in Nat \ {0} /\ LineSize \in Nat \ {0}
  /\ {Space, ">"} \subseteq Chars /\ Chars \cap Controls = {}
  /\ Keys \subseteq Chars \cup {"tab", "backspace", "newline"}
  /\ Notice \in Seq(Chars) /\ Drift \in Nat

-----------------------------------------------------------------------------
(* Output.                                                                 *)

EndLine(text) == Append(text, "newline")
Position(t) == t.row * Cols + t.col

\* console_puts, and printf on its way to console_putc.
Output ==
  /\ out # <<>>
  /\ sheet' = Put(sheet, Head(out)) /\ out' = Tail(out)
  /\ home' = Position(sheet')
  /\ UNCHANGED <<pc, line, plain, places>>

\* The cells that a character makes the sheet move by.
Moved(t, ch) == Cols * (Wrapped(Typed(t, ch)).row - Put(t, ch).row)

Echo(ch) ==
  /\ out = <<>>
  /\ sheet' = Put(sheet, ch)
  /\ home' = home - Moved(sheet, ch)
  /\ home' >= -Drift
  /\ UNCHANGED out

-----------------------------------------------------------------------------
(* The words of a line: the command, and what follows it.                  *)

SkipSpaces(s, i) ==
  CHOOSE k \in i .. Len(s) + 1 :
    /\ k <= Len(s) => s[k] # Space
    /\ \A h \in i .. k - 1 : s[h] = Space
WordEnd(s, i) ==
  CHOOSE k \in i .. Len(s) + 1 :
    /\ k <= Len(s) => s[k] = Space
    /\ \A h \in i .. k - 1 : s[h] # Space

Command(s) == LET a == SkipSpaces(s, 1) IN SubSeq(s, a, WordEnd(s, a) - 1)
Argument_OneSpace(s) ==
  LET z == WordEnd(s, SkipSpaces(s, 1)) IN SubSeq(s, z + 1, Len(s))
Argument(s) ==
  LET z == WordEnd(s, SkipSpaces(s, 1)) IN SubSeq(s, SkipSpaces(s, z), Len(s))

-----------------------------------------------------------------------------
(* shell_run                                                               *)

Mount ==
  /\ pc = "mount" /\ pc' \in {"prompt", "halted"}
  /\ out' = EndLine(Notice)
  /\ UNCHANGED <<line, sheet, home, plain, places>>

PromptText == <<">", Space>>
Prompt ==
  /\ pc = "prompt" /\ out = <<>> /\ pc' = "read"
  /\ out' = PromptText
  /\ line' = <<>> /\ plain' = TRUE /\ places' = <<>>
  /\ UNCHANGED <<sheet, home>>

\* readline, one key at a time.
Enter ==
  /\ pc = "read" /\ "newline" \in Keys
  /\ Echo("newline") /\ pc' = "run"
  /\ UNCHANGED <<line, plain, places>>

MayErase_Always == TRUE
MayErase == line # <<>>
Erased_Kept(s) == s
Erased(s) == IF s = <<>> THEN s ELSE Front(s)
Erase ==
  /\ pc = "read" /\ "backspace" \in Keys
  /\ MayErase
  /\ line' = Erased(line) /\ places' = Erased(places)
  /\ Echo("backspace")
  /\ plain' = (plain /\ sheet.col > 0)
  /\ UNCHANGED pc

HasRoom_Full == Len(line) < LineSize
HasRoom == Len(line) < LineSize - 1
Insert(ch) ==
  /\ pc = "read" /\ HasRoom
  /\ line' = Append(line, ch) /\ places' = Append(places, Position(sheet) - home)
  /\ Echo(ch)
  /\ plain' = (plain /\ ch # "tab")
  /\ UNCHANGED pc

\* What a command prints.
Reply(name, cmd, arg) ==
  CASE name = "echo" -> {EndLine(arg)}
    [] name \in {"help", "time"} -> {EndLine(Notice)}
    [] name = "dir" -> {<<>>, EndLine(Notice)}
    [] name \in {"type", "mkfile", "del"} -> {EndLine(Notice \o arg), EndLine(Notice)}
    [] OTHER -> {EndLine(Notice \o cmd)}

NameOf(cmd) == IF cmd \in Words THEN CommandOf[cmd] ELSE "unknown"

Run ==
  /\ pc = "run" /\ pc' = "prompt"
  /\ LET cmd == Command(line)
         name == NameOf(cmd)
     IN  CASE cmd = <<>> -> UNCHANGED <<sheet, out>>
           [] cmd # <<>> /\ name = "cls" -> sheet' = BlankSheet /\ UNCHANGED out
           [] OTHER -> out' \in Reply(name, cmd, Argument(line)) /\ UNCHANGED sheet
  /\ UNCHANGED <<line, home, plain, places>>

Init ==
  /\ pc = "mount" /\ out = <<>> /\ line = <<>> /\ sheet = BlankSheet /\ home = 0 /\ plain = TRUE
  /\ places = <<>>

Next ==
  \/ Output \/ Mount \/ Prompt \/ Enter \/ Erase \/ Run
  \/ \E ch \in Keys \ {"backspace", "newline"} : Insert(ch)

Spec == Init /\ [][Next]_vars

-----------------------------------------------------------------------------
(* Properties.                                                             *)

\* The line fits in its buffer with the NUL behind it, the position is on the
\* sheet.
TypeOK ==
  /\ pc \in {"mount", "prompt", "read", "run", "halted"}
  /\ out \in Seq(Chars \cup {"tab", "newline"})
  /\ line \in Seq(Chars \cup {"tab"}) /\ Len(line) <= LineSize - 1
  /\ sheet \in Sheets
  /\ home \in Int /\ plain \in BOOLEAN /\ places \in Seq(Nat)

\* Backspace never reaches the prompt, whatever was typed and however the line
\* wrapped: the position is at least as many cells behind the prompt as the
\* line has characters.
PromptKept == pc = "read" /\ out = <<>> => Position(sheet) - home >= Len(line)

\* The line stands on the sheet behind the prompt, as far as it has not
\* scrolled away, and the position follows it.
Shows ==
  /\ Position(sheet) = home + Len(line)
  /\ \A k \in 1 .. Len(line) :
       LET p == home + k - 1
       IN  p >= 0 => sheet.lines[p \div Cols + 1][p % Cols] = line[k]

\* What Enter will run is what stands on the screen, as long as no tab was
\* typed and no backspace came at the first column.  Without that it is not:
\* readline takes a tab for one character where the console moves by several,
\* and erases a character of a wrapped line where the console erases nothing.
LineShown == pc = "read" /\ out = <<>> /\ plain => Shows

\* With tabs and with backspaces in the first column, too, every character that
\* Enter will run stands on the screen where it was echoed, in order and before
\* the position: readline erases a character that the console leaves standing,
\* and never the other way round.
NothingHidden ==
  pc = "read" /\ out = <<>> =>
    \A k \in DOMAIN places :
      LET p == home + places[k]
      IN  /\ p < Position(sheet)
          /\ \A h \in 1 .. k - 1 : places[h] < places[k]
          /\ p >= 0 /\ line[k] # "tab" => sheet.lines[p \div Cols + 1][p % Cols] = line[k]

\* The words of a line: spaces, the command, spaces, the argument, with no
\* space inside the command, none at the beginning of the argument, and no
\* argument without a space before it.
Spaces(n) == [k \in 1 .. n |-> Space]
WordsApart ==
  pc = "run" =>
    LET cmd == Command(line)
        arg == Argument(line)
    IN  /\ \E p, q \in 0 .. Len(line) :
             /\ line = Spaces(p) \o cmd \o Spaces(q) \o arg
             /\ q = 0 => arg = <<>>
        /\ \A k \in DOMAIN cmd : cmd[k] # Space
        /\ arg # <<>> => arg[1] # Space
        /\ cmd = <<>> => arg = <<>>

=============================================================================
