-------------------------------- MODULE Kbd --------------------------------
(***************************************************************************)
(* src/kernel/kbd.c with the timer interrupt of isr.c and apic.c, as the   *)
(* kernel boots: pic_remap has no caller, so IRQ1 never comes, and the     *)
(* reader polls the keyboard controller once per timer tick while its ring *)
(* is empty.  The controller queues what the keys send and drops it when   *)
(* its queue is full.                                                      *)
(*                                                                         *)
(* A character is its scan code with the map it came from.  Abstracted:    *)
(* g_ticks, which nothing here reads.  Bound: MaxTyped.                    *)
(***************************************************************************)
EXTENDS Integers, Sequences

CONSTANTS
  Keys,        \* scan codes (set 1) of the keys the user has
  BufSize,     \* BUF_SIZE
  QueueSize,   \* bytes the keyboard controller holds
  MaxTyped     \* bytes the user sends altogether

VARIABLES
  queue,       \* the controller's bytes, oldest first
  held,        \* the keys the user holds down
  lost,        \* history: the controller has dropped the latest byte of a Shift key
  both,        \* history: both Shift keys were down since Shift was last up
  typed,       \* history: how many bytes the user has sent
  g_buf, g_head, g_tail, g_shift,
  pc,          \* where the thread is; "run" when it is not in kbd_getc
  serving,     \* the timer's handler runs, or has not sent its EOI
  last         \* the character kbd_getc returned last

ring == <<g_buf, g_head, g_tail, g_shift>>
user == <<queue, held, lost, both, typed>>
vars == <<queue, held, lost, both, typed, g_buf, g_head, g_tail, g_shift, pc, serving, last>>

ASSUME KbdAssumption ==
  /\ BufSize \in Nat /\ BufSize >= 2
  /\ QueueSize \in Nat /\ MaxTyped \in Nat
  /\ Keys \subseteq 1 .. 127

LeftShift == 42
RightShift == 54
Shifts == {LeftShift, RightShift}
Released(k) == k + 128

\* Where the two maps have a character.
LowerKeys == (2 .. 28) \cup (30 .. 41) \cup (43 .. 53) \cup {57}
UpperKeys == (2 .. 13) \cup {26, 27} \cup (30 .. 41) \cup (43 .. 53) \cup {57}

-----------------------------------------------------------------------------
(* kbd_handle_scancode.                                                    *)

ShiftAfter_NoRelease(s, sc) == s \/ sc \in Shifts
ShiftAfter(s, sc) ==
  IF sc \in Shifts THEN TRUE
  ELSE IF sc \in {Released(k) : k \in Shifts} THEN FALSE ELSE s

\* The characters a code makes: none for a shift key, a release or a code the
\* map in force has nothing for.
CharOf(s, sc) ==
  IF sc \in (IF s THEN UpperKeys ELSE LowerKeys) THEN <<[upper |-> s, code |-> sc]>>
  ELSE <<>>

NextIndex_NoWrap(i) == i + 1
NextIndex(i) == (i + 1) % BufSize
Chars == [upper : BOOLEAN, code : 0 .. 127]
NoChar == [upper |-> FALSE, code |-> 0]

Handle(sc) ==
  /\ g_shift' = ShiftAfter(g_shift, sc)
  /\ IF CharOf(g_shift, sc) # <<>> /\ NextIndex(g_tail) # g_head
     THEN /\ g_buf' = [g_buf EXCEPT ![g_tail] = CharOf(g_shift, sc)[1]]
          /\ g_tail' = NextIndex(g_tail)
     ELSE UNCHANGED <<g_buf, g_tail>>
  /\ UNCHANGED g_head

-----------------------------------------------------------------------------
(* The thread; while the handler of an interrupt runs, it does not.        *)

\* The shell calls kbd_getc.
Call ==
  /\ pc = "run" /\ ~serving
  /\ pc' = "check"
  /\ UNCHANGED <<user, ring, serving, last>>

Check ==
  /\ pc = "check" /\ ~serving
  /\ pc' = IF g_head = g_tail THEN "sleep" ELSE "take"
  /\ UNCHANGED <<user, ring, serving, last>>

\* hlt, an instruction of its own after the test: a tick may come between.
Hlt ==
  /\ pc = "sleep" /\ ~serving
  /\ pc' = "halt"
  /\ UNCHANGED <<user, ring, serving, last>>

\* kbd_poll after hlt: one byte, if there is one, and back to the loop's test.
AfterPoll_Drain == IF queue' = <<>> THEN "check" ELSE "poll"
AfterPoll == "check"

Poll ==
  /\ pc = "poll" /\ ~serving
  /\ IF queue = <<>> THEN UNCHANGED <<queue, ring>>
     ELSE queue' = Tail(queue) /\ Handle(Head(queue))
  /\ pc' = AfterPoll
  /\ UNCHANGED <<held, lost, both, typed, serving, last>>

Oldest_Previous == g_buf[(g_head + BufSize - 1) % BufSize]
Oldest == g_buf[g_head]

Take ==
  /\ pc = "take" /\ ~serving
  /\ last' = <<Oldest>>
  /\ g_head' = NextIndex(g_head)
  /\ pc' = "run"
  /\ UNCHANGED <<user, g_buf, g_tail, g_shift, serving>>

Thread == Check \/ Hlt \/ Poll \/ Take

-----------------------------------------------------------------------------
(* The interrupt, and the user.                                            *)

\* The periodic timer interrupts the thread anywhere.  A halted processor goes on
\* behind the hlt; a tick that comes before it is over when the hlt begins.  The
\* local APIC delivers nothing more at this priority until the EOI.
Interrupt ==
  /\ ~serving /\ serving' = TRUE
  /\ pc' = IF pc = "halt" THEN "poll" ELSE pc
  /\ UNCHANGED <<user, ring, last>>

\* irq_handler, vector 0x30: apic_eoi, iretq.
StillServing_NoEoi == TRUE
StillServing == FALSE

Handler ==
  /\ serving
  /\ serving' = StillServing
  /\ UNCHANGED <<user, ring, pc, last>>

ShiftBytes == Shifts \cup {Released(k) : k \in Shifts}
Send(byte) ==
  /\ typed < MaxTyped /\ typed' = typed + 1
  /\ queue' = IF Len(queue) < QueueSize THEN Append(queue, byte) ELSE queue
  /\ lost' = IF byte \in ShiftBytes THEN Len(queue) >= QueueSize ELSE lost
  /\ both' = (held' \cap Shifts # {} /\ (both \/ Shifts \subseteq held'))

\* A key goes down, or repeats while it is down.
Press(k) ==
  /\ held' = held \cup {k} /\ Send(k)
  /\ UNCHANGED <<ring, pc, serving, last>>

Release(k) ==
  /\ k \in held
  /\ held' = held \ {k} /\ Send(Released(k))
  /\ UNCHANGED <<ring, pc, serving, last>>

-----------------------------------------------------------------------------

\* kbd_init, then sti.
Init ==
  /\ queue = <<>> /\ held = {} /\ lost = FALSE /\ both = FALSE /\ typed = 0
  /\ g_buf = [i \in 0 .. BufSize - 1 |-> NoChar]
  /\ g_head = 0 /\ g_tail = 0 /\ g_shift = FALSE
  /\ pc = "run" /\ serving = FALSE /\ last = <<>>

Next ==
  \/ Call \/ Thread \/ Interrupt \/ Handler
  \/ \E k \in Keys : Press(k) \/ Release(k)

\* The timer is periodic and the handler, once begun, ends.  The thread needs
\* strong fairness, for each tick takes the processor from it; it is justified
\* because the handler is a few instructions long and a period many thousands.
Spec == Init /\ [][Next]_vars /\ SF_vars(Thread) /\ WF_vars(Interrupt) /\ WF_vars(Handler)

-----------------------------------------------------------------------------
(* Properties.                                                             *)

Codes == Keys \cup {Released(k) : k \in Keys}

TypeOK ==
  /\ queue \in Seq(Codes) /\ Len(queue) <= QueueSize
  /\ held \subseteq Keys /\ lost \in BOOLEAN /\ both \in BOOLEAN /\ typed \in 0 .. MaxTyped
  /\ g_buf \in [0 .. BufSize - 1 -> Chars]
  /\ g_head \in 0 .. BufSize - 1 /\ g_tail \in 0 .. BufSize - 1 /\ g_shift \in BOOLEAN
  /\ pc \in {"run", "check", "sleep", "halt", "poll", "take"} /\ serving \in BOOLEAN
  /\ last \in Seq(Chars)

\* A poll never meets a full ring, so the driver itself never drops a
\* character: it polls only when the ring is empty.
RingHasRoom == pc = "poll" => NextIndex(g_tail) # g_head

\* Once every byte is read, and the latest one of a Shift key was not dropped,
\* Shift does not stick: it is in force only while a Shift key is down.  It is in
\* force all that time, too, unless both were down since: g_shift is one flag for
\* both, so releasing either clears it.  So a dropped release puts Shift wrong
\* until the next byte of a Shift key gets through, and no longer.
ShiftIsHeld ==
  queue = <<>> /\ ~lost =>
    /\ g_shift => held \cap Shifts # {}
    /\ held \cap Shifts # {} /\ ~both => g_shift

\* The shift state and the characters made once i bytes of q are handled, from
\* shift state s; and what that will be of the queued bytes.
Handled(s, q) ==
  LET h[i \in 0 .. Len(q)] ==
        IF i = 0 THEN [shift |-> s, chars |-> <<>>]
        ELSE [shift |-> ShiftAfter(h[i - 1].shift, q[i]),
              chars |-> h[i - 1].chars \o CharOf(h[i - 1].shift, q[i])]
  IN h
After == Handled(g_shift, queue)[Len(queue)].shift
Coming == Handled(g_shift, queue)[Len(queue)].chars
InRing == [i \in 1 .. (g_tail + BufSize - g_head) % BufSize |->
             g_buf[(g_head + i - 1) % BufSize]]

Stream == INSTANCE KeyStream WITH
  pending <- InRing \o Coming, shift <- After, last <- last

ImplementsStream == Stream!Spec

\* A reader that waits while the character of a key is queued gets it: hlt
\* always ends, one that began just behind a tick too, and bytes without a
\* character do not stop the polling.
WaiterIsServed == pc # "run" /\ Coming # <<>> ~> pc = "run"

\* A key that has a character without Shift has one with it, and the reader
\* gets it: what goes into the driver comes out.
NoKeyIgnored ==
  [][pc = "poll" /\ queue # <<>> /\ queue' = Tail(queue) /\ Head(queue) \in LowerKeys
       => g_tail' # g_tail]_vars

=============================================================================
