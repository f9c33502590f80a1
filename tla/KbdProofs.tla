----------------------------- MODULE KbdProofs -----------------------------
(***************************************************************************)
(* The ring and the shift state of the keyboard driver, for every size of  *)
(* the ring and of the controller's queue, and every set of keys.          *)
(***************************************************************************)
EXTENDS Kbd, SequenceTheorems, WellFoundedInduction, TLAPS

USE KbdAssumption

\* The thread polls only while the ring is empty.
RingInv ==
  /\ g_head \in 0 .. BufSize - 1 /\ g_tail \in 0 .. BufSize - 1
  /\ pc \in {"sleep", "halt", "poll"} => g_head = g_tail

\* No poll of the keyboard controller finds the ring full: as the kernel boots
\* no character is ever dropped by kbd_handle_scancode, whatever BUF_SIZE is.
THEOREM RingAlwaysHasRoom == Spec => []RingHasRoom
<1>1. Init => RingInv
  BY DEF Init, RingInv
<1>2. RingInv /\ [Next]_vars => RingInv'
  <2>. SUFFICES ASSUME RingInv, [Next]_vars PROVE RingInv'
    OBVIOUS
  <2>. USE DEF RingInv, ring, user
  <2>1. \A i \in 0 .. BufSize - 1 : NextIndex(i) \in 0 .. BufSize - 1
    BY DEF NextIndex
  <2>2. CASE Call
    BY <2>2 DEF Call
  <2>3. CASE Check \/ Hlt
    BY <2>3 DEF Check, Hlt
  <2>4. CASE Poll
    <3>1. g_tail' \in {g_tail, NextIndex(g_tail)} /\ g_head' = g_head /\ pc' = "check"
      BY <2>4 DEF Poll, Handle, AfterPoll
    <3>. QED
      BY <2>1, <3>1
  <2>5. CASE Take
    BY <2>1, <2>5 DEF Take
  <2>6. CASE Interrupt
    BY <2>6 DEF Interrupt
  <2>7. CASE Handler
    BY <2>7 DEF Handler
  <2>8. ASSUME NEW k \in Keys, Press(k) \/ Release(k) PROVE RingInv'
    BY <2>8 DEF Press, Release
  <2>9. CASE UNCHANGED vars
    BY <2>9 DEF vars
  <2>. QED
    BY <2>2, <2>3, <2>4, <2>5, <2>6, <2>7, <2>8, <2>9 DEF Next, Thread
<1>3. RingInv => RingHasRoom
  BY DEF RingInv, RingHasRoom, NextIndex
<1>. QED
  BY <1>1, <1>2, <1>3, PTL DEF Spec

-----------------------------------------------------------------------------
(* Types.                                                                  *)

\* A byte of a key makes a character or none, and shift or no shift.
LEMMA ByteType ==
  ASSUME NEW b \in BOOLEAN, NEW sc \in Codes
  PROVE  /\ ShiftAfter(b, sc) \in BOOLEAN
         /\ CharOf(b, sc) # <<>> => CharOf(b, sc)[1] \in Chars
<1>1. sc \in LowerKeys \cup UpperKeys => sc \in 0 .. 127
  BY DEF LowerKeys, UpperKeys
<1>2. CharOf(b, sc) # <<>> => CharOf(b, sc) = <<[upper |-> b, code |-> sc]>> /\ sc \in 0 .. 127
  BY <1>1 DEF CharOf
<1>3. sc \in 0 .. 127 => [upper |-> b, code |-> sc] \in Chars
  BY DEF Chars
<1>4. ShiftAfter(b, sc) \in BOOLEAN
  BY DEF ShiftAfter
<1>5. CharOf(b, sc) # <<>> => CharOf(b, sc)[1] \in Chars
  <2>. SUFFICES ASSUME CharOf(b, sc) # <<>> PROVE CharOf(b, sc)[1] \in Chars
    OBVIOUS
  <2>. DEFINE ch == [upper |-> b, code |-> sc]
  <2>1. CharOf(b, sc) = <<ch>> /\ ch \in Chars
    BY <1>2, <1>3
  <2>. HIDE DEF ch
  <2>2. <<ch>>[1] = ch
    OBVIOUS
  <2>. QED
    BY <2>1, <2>2
<1>. QED
  BY <1>4, <1>5

\* The controller takes a byte or drops it.
LEMMA SendType ==
  ASSUME TypeOK, NEW byte \in Codes, Send(byte)
  PROVE  /\ queue' \in Seq(Codes) /\ Len(queue') <= QueueSize
         /\ lost' \in BOOLEAN /\ both' \in BOOLEAN /\ typed' \in 0 .. MaxTyped
<1>1. queue \in Seq(Codes) /\ lost \in BOOLEAN /\ typed \in 0 .. MaxTyped /\ QueueSize \in Nat
  BY DEF TypeOK
<1>2. Append(queue, byte) \in Seq(Codes) /\ Len(Append(queue, byte)) = Len(queue) + 1
  BY <1>1, AppendProperties
<1>3. typed' \in 0 .. MaxTyped
  BY <1>1 DEF Send
<1>4. lost' \in BOOLEAN /\ both' \in BOOLEAN
  <2>1. lost' = (Len(queue) >= QueueSize) \/ lost' = lost
    BY SMT DEF Send
  <2>2. lost' \in BOOLEAN
    <3>1. (Len(queue) >= QueueSize) \in BOOLEAN
      OBVIOUS
    <3>. QED
      BY <1>1, <2>1, <3>1, Zenon
  <2>3. both' \in BOOLEAN
    BY DEF Send
  <2>. QED
    BY <2>2, <2>3
<1>5. CASE Len(queue) < QueueSize
  <2>1. queue' = Append(queue, byte)
    BY <1>5 DEF Send
  <2>2. Len(queue) \in Nat /\ Len(queue) + 1 <= QueueSize
    BY <1>1, <1>5
  <2>. QED
    BY <1>2, <1>3, <1>4, <2>1, <2>2
<1>6. CASE ~(Len(queue) < QueueSize)
  <2>1. queue' = queue
    BY <1>6 DEF Send
  <2>. QED
    BY <1>1, <1>3, <1>4, <2>1 DEF TypeOK
<1>. QED
  BY <1>5, <1>6

\* For every ring, queue and set of keys: the indices stay in the ring, and what
\* is in it are characters.
THEOREM TypeCorrect == Spec => []TypeOK
<1>1. Init => TypeOK
  <2>. SUFFICES ASSUME Init PROVE TypeOK
    OBVIOUS
  <2>1. NoChar \in Chars
    BY DEF NoChar, Chars
  <2>2. 0 \in 0 .. BufSize - 1 /\ 0 \in 0 .. MaxTyped /\ 0 <= QueueSize
    OBVIOUS
  <2>3. <<>> \in Seq(Codes) /\ <<>> \in Seq(Chars) /\ Len(<<>>) = 0
    OBVIOUS
  <2>4. g_buf \in [0 .. BufSize - 1 -> Chars]
    BY <2>1 DEF Init
  <2>. QED
    BY <2>2, <2>3, <2>4 DEF Init, TypeOK
<1>2. TypeOK /\ [Next]_vars => TypeOK'
  <2>. SUFFICES ASSUME TypeOK, [Next]_vars PROVE TypeOK'
    OBVIOUS
  <2>. USE DEF ring, user
  <2>1. \A i \in 0 .. BufSize - 1 : NextIndex(i) \in 0 .. BufSize - 1
    BY DEF NextIndex
  <2>2. CASE Call \/ Check \/ Hlt \/ Interrupt
    BY <2>2 DEF Call, Check, Hlt, Interrupt, TypeOK
  <2>3. CASE Poll
    <3>1. UNCHANGED <<held, lost, both, typed, serving, last>> /\ pc' = "check"
      BY <2>3 DEF Poll, AfterPoll
    <3>2. CASE queue = <<>>
      BY <2>3, <3>1, <3>2 DEF Poll, TypeOK
    <3>3. CASE queue # <<>>
      <4>1. queue' = Tail(queue) /\ Handle(Head(queue))
        BY <2>3, <3>3 DEF Poll
      <4>2. /\ Head(queue) \in Codes /\ queue' \in Seq(Codes) /\ Len(queue') = Len(queue) - 1
            /\ Len(queue) \in Nat
        BY <3>3, <4>1, HeadTailProperties, LenProperties DEF TypeOK
      <4>3. Len(queue') <= QueueSize
        BY <4>2 DEF TypeOK
      <4>4. g_shift' \in BOOLEAN
        BY <4>1, <4>2, ByteType DEF Handle, TypeOK
      <4>5. g_buf' \in [0 .. BufSize - 1 -> Chars] /\ g_tail' \in 0 .. BufSize - 1
        <5>1. CASE CharOf(g_shift, Head(queue)) # <<>> /\ NextIndex(g_tail) # g_head
          <6>1. CharOf(g_shift, Head(queue))[1] \in Chars
            BY <4>2, <5>1, ByteType DEF TypeOK
          <6>. QED
            BY <2>1, <4>1, <5>1, <6>1 DEF Handle, TypeOK
        <5>2. CASE ~(CharOf(g_shift, Head(queue)) # <<>> /\ NextIndex(g_tail) # g_head)
          BY <4>1, <5>2 DEF Handle, TypeOK
        <5>. QED
          BY <5>1, <5>2
      <4>6. g_head' = g_head
        BY <4>1 DEF Handle
      <4>. QED
        BY <3>1, <4>2, <4>3, <4>4, <4>5, <4>6 DEF TypeOK
    <3>. QED
      BY <3>2, <3>3
  <2>4. CASE Take
    <3>1. Oldest \in Chars
      BY DEF Oldest, TypeOK
    <3>2. last' \in Seq(Chars)
      BY <2>4, <3>1 DEF Take
    <3>3. g_head' \in 0 .. BufSize - 1
      BY <2>1, <2>4 DEF Take, TypeOK
    <3>. QED
      BY <2>4, <3>2, <3>3 DEF Take, TypeOK
  <2>5. CASE Handler
    BY <2>5 DEF Handler, StillServing, TypeOK
  <2>6. ASSUME NEW k \in Keys, Press(k) PROVE TypeOK'
    <3>1. k \in Codes /\ Send(k)
      BY <2>6 DEF Press, Codes
    <3>2. held' \subseteq Keys
      BY <2>6 DEF Press, TypeOK
    <3>. QED
      BY <2>6, <3>1, <3>2, SendType DEF Press, TypeOK
  <2>7. ASSUME NEW k \in Keys, Release(k) PROVE TypeOK'
    <3>1. Released(k) \in Codes /\ Send(Released(k))
      BY <2>7 DEF Release, Codes
    <3>2. held' \subseteq Keys
      BY <2>7 DEF Release, TypeOK
    <3>. QED
      BY <2>7, <3>1, <3>2, SendType DEF Release, TypeOK
  <2>8. CASE UNCHANGED vars
    BY <2>8 DEF vars, TypeOK
  <2>. QED
    BY <2>2, <2>3, <2>4, <2>5, <2>6, <2>7, <2>8 DEF Next, Thread
<1>. QED
  BY <1>1, <1>2, PTL DEF Spec

-----------------------------------------------------------------------------
(* The shift state.                                                        *)

Holds == held \cap Shifts # {}

\* A shift state s is right if it is in force only while a Shift key is held, and
\* all that time unless both were.
Right(s, holds, b) == (s => holds) /\ (holds /\ ~b => s)

\* The last byte of a Shift key in the queue is right; with none there, g_shift is.
LastOf(q, i) == q[i] \in ShiftBytes /\ \A j \in i + 1 .. Len(q) : q[j] \notin ShiftBytes
QueueRight ==
  /\ \A i \in 1 .. Len(queue) : LastOf(queue, i) => Right(queue[i] \in Shifts, Holds, both)
  /\ (\A i \in 1 .. Len(queue) : queue[i] \notin ShiftBytes) => Right(g_shift, Holds, both)
BothInv == (both => Holds) /\ (Shifts \subseteq held => both)
ShiftInv == BothInv /\ (~lost => QueueRight)

\* The codes of a key: only a Shift key's are ShiftBytes.
LEMMA ShiftCodes ==
  ASSUME NEW k \in Keys
  PROVE  /\ k \in ShiftBytes <=> k \in Shifts
         /\ Released(k) \in ShiftBytes <=> k \in Shifts
         /\ Released(k) \notin Shifts
BY DEF ShiftBytes, Shifts, LeftShift, RightShift, Released

\* Whether both Shift keys were down since Shift was up, after any byte.
LEMMA SentBoth ==
  ASSUME NEW byte, Send(byte)
  PROVE  BothInv'
<1>1. both' = (Holds' /\ (both \/ Shifts \subseteq held'))
  BY DEF Send, Holds
<1>2. Shifts \subseteq held' => Holds'
  BY DEF Holds, Shifts
<1>. QED
  BY <1>1, <1>2 DEF BothInv

\* A Shift key's byte that is right, if it gets through, makes the queue right
\* whatever it was; another byte leaves it right, if it changes nothing of what
\* is held, and if it is dropped.
LEMMA SentShift ==
  ASSUME TypeOK, ShiftInv, NEW byte \in Codes, Send(byte), UNCHANGED g_shift,
         byte \in ShiftBytes => Right(byte \in Shifts, Holds', both'),
         byte \notin ShiftBytes => (Holds' <=> Holds) /\ (both' <=> both)
  PROVE  ShiftInv'
<1>. SUFFICES ASSUME ~lost' PROVE QueueRight'
  BY SentBoth DEF ShiftInv
<1>. DEFINE n == Len(queue)
<1>1. CASE byte \notin ShiftBytes /\ ~(n < QueueSize)
  <2>1. UNCHANGED <<queue, g_shift, lost>> /\ (Holds' <=> Holds) /\ (both' <=> both)
    BY <1>1 DEF Send
  <2>2. ~lost /\ QueueRight
    BY <2>1 DEF ShiftInv
  <2>. QED
    BY <2>1, <2>2 DEF QueueRight, LastOf, Right
<1>2. CASE n < QueueSize
  <2>1. queue' = Append(queue, byte)
    BY <1>2 DEF Send
  <2>2. /\ n \in Nat /\ Len(queue') = n + 1 /\ queue'[n + 1] = byte
        /\ \A i \in 1 .. n : queue'[i] = queue[i]
    BY <2>1, AppendProperties, LenProperties DEF TypeOK
  <2>3. byte \notin ShiftBytes => QueueRight /\ (Holds' <=> Holds) /\ (both' <=> both)
    BY DEF Send, ShiftInv
  <2>4. ASSUME NEW i \in 1 .. Len(queue'), LastOf(queue', i)
        PROVE  Right(queue'[i] \in Shifts, Holds', both')
    <3>1. CASE i = n + 1
      BY <2>2, <2>4, <3>1 DEF LastOf
    <3>2. CASE i # n + 1
      <4>1. i \in 1 .. n /\ n + 1 \in i + 1 .. n + 1
        BY <2>2, <3>2
      <4>2. byte \notin ShiftBytes
        BY <2>2, <2>4, <4>1 DEF LastOf
      <4>3. \A j \in i + 1 .. n : j \in i + 1 .. Len(queue') /\ queue'[j] = queue[j]
        BY <2>2, <4>1
      <4>4. LastOf(queue, i)
        BY <2>2, <2>4, <4>1, <4>3 DEF LastOf
      <4>5. Right(queue[i] \in Shifts, Holds, both)
        BY <2>3, <4>1, <4>2, <4>4 DEF QueueRight
      <4>. QED
        BY <2>2, <2>3, <4>1, <4>2, <4>5 DEF Right
    <3>. QED
      BY <3>1, <3>2
  <2>5. ASSUME \A i \in 1 .. Len(queue') : queue'[i] \notin ShiftBytes
        PROVE  Right(g_shift', Holds', both')
    <3>1. byte \notin ShiftBytes /\ \A i \in 1 .. n : queue[i] \notin ShiftBytes
      <4>1. n + 1 \in 1 .. Len(queue') /\ \A i \in 1 .. n : i \in 1 .. Len(queue')
        BY <2>2
      <4>. QED
        BY <2>2, <2>5, <4>1
    <3>2. Right(g_shift, Holds, both)
      BY <2>3, <3>1 DEF QueueRight
    <3>. QED
      BY <2>3, <3>1, <3>2 DEF Right
  <2>. QED
    BY <2>4, <2>5 DEF QueueRight
<1>3. byte \in ShiftBytes => n < QueueSize
  <2>1. n \in Nat /\ QueueSize \in Nat
    BY LenProperties DEF TypeOK
  <2>2. byte \in ShiftBytes => ~(n >= QueueSize)
    BY DEF Send
  <2>. QED
    BY <2>1, <2>2
<1>. QED
  BY <1>1, <1>2, <1>3

\* What the driver takes out of the queue it has in g_shift.
LEMMA PolledShift ==
  ASSUME TypeOK, ShiftInv, queue # <<>>, queue' = Tail(queue), Handle(Head(queue)),
         UNCHANGED <<held, lost, both>>
  PROVE  ShiftInv'
<1>. DEFINE n == Len(queue)
<1>1. /\ n \in Nat \ {0} /\ Len(queue') = n - 1 /\ Head(queue) = queue[1]
      /\ \A i \in 1 .. n - 1 : queue'[i] = queue[i + 1]
  BY HeadTailProperties, EmptySeq DEF TypeOK
<1>2. (Holds' <=> Holds) /\ BothInv' /\ both' = both
  BY DEF Holds, BothInv, ShiftInv
<1>. SUFFICES ASSUME ~lost'
     PROVE  /\ \A i \in 1 .. n - 1 : LastOf(queue', i) => Right(queue'[i] \in Shifts, Holds, both)
            /\ (\A i \in 1 .. n - 1 : queue'[i] \notin ShiftBytes) => Right(g_shift', Holds, both)
  BY <1>1, <1>2 DEF ShiftInv, QueueRight, Right
<1>3. QueueRight
  BY DEF ShiftInv
<1>4. ASSUME NEW i \in 1 .. n - 1, LastOf(queue', i)
      PROVE  Right(queue'[i] \in Shifts, Holds, both)
  <2>1. i + 1 \in 1 .. n /\ queue'[i] = queue[i + 1]
    BY <1>1
  <2>2. ASSUME NEW j \in (i + 1) + 1 .. n PROVE queue[j] \notin ShiftBytes
    <3>1. j - 1 \in i + 1 .. Len(queue') /\ j - 1 \in 1 .. n - 1 /\ (j - 1) + 1 = j
      BY <1>1
    <3>2. queue'[j - 1] = queue[j]
      BY <1>1, <3>1
    <3>. QED
      BY <1>4, <3>1, <3>2 DEF LastOf
  <2>3. LastOf(queue, i + 1)
    BY <1>4, <2>1, <2>2 DEF LastOf
  <2>. QED
    BY <1>3, <2>1, <2>3 DEF QueueRight
<1>5. ASSUME \A i \in 1 .. n - 1 : queue'[i] \notin ShiftBytes
      PROVE  Right(g_shift', Holds, both)
  <2>1. \A j \in 2 .. n : queue[j] \notin ShiftBytes
    <3>. TAKE j \in 2 .. n
    <3>1. j - 1 \in 1 .. n - 1 /\ (j - 1) + 1 = j
      BY <1>1
    <3>. QED
      BY <1>1, <1>5, <3>1
  <2>2. g_shift' = ShiftAfter(g_shift, queue[1])
    BY <1>1 DEF Handle
  <2>3. CASE queue[1] \in ShiftBytes
    <3>1. LastOf(queue, 1) /\ 1 \in 1 .. n
      BY <1>1, <2>1, <2>3 DEF LastOf
    <3>2. Right(queue[1] \in Shifts, Holds, both)
      BY <1>3, <3>1 DEF QueueRight
    <3>3. g_shift' <=> queue[1] \in Shifts
      BY <2>2, <2>3 DEF ShiftAfter, ShiftBytes
    <3>. QED
      BY <3>2, <3>3 DEF Right
  <2>4. CASE queue[1] \notin ShiftBytes
    <3>1. \A i \in 1 .. n : queue[i] \notin ShiftBytes
      <4>. TAKE i \in 1 .. n
      <4>1. i = 1 \/ i \in 2 .. n
        BY <1>1
      <4>. QED
        BY <2>1, <2>4, <4>1
    <3>2. Right(g_shift, Holds, both)
      BY <1>3, <3>1 DEF QueueRight
    <3>3. g_shift' = g_shift
      BY <2>2, <2>4 DEF ShiftAfter, ShiftBytes
    <3>. QED
      BY <3>2, <3>3
  <2>. QED
    BY <2>3, <2>4
<1>. QED
  BY <1>4, <1>5

\* Whatever is typed, with both Shift keys, in whatever order and with whatever
\* repeats, however long it waits and whatever the controller drops: once the
\* latest byte of a Shift key is through, g_shift is in force only while a Shift
\* key is down, and all that time unless both were.
THEOREM ShiftAlwaysHeld == Spec => []ShiftIsHeld
<1>1. Init => ShiftInv
  BY DEF Init, ShiftInv, BothInv, QueueRight, Right, Holds, Shifts
<1>2. TypeOK /\ ShiftInv /\ [Next]_vars => ShiftInv'
  <2>. SUFFICES ASSUME TypeOK, ShiftInv, [Next]_vars PROVE ShiftInv'
    OBVIOUS
  <2>1. UNCHANGED <<queue, held, lost, both, g_shift>> => ShiftInv'
    BY DEF ShiftInv, BothInv, QueueRight, Holds, LastOf
  <2>2. CASE Call \/ Check \/ Hlt \/ Take \/ Interrupt \/ Handler \/ UNCHANGED vars
    BY <2>1, <2>2 DEF Call, Check, Hlt, Take, Interrupt, Handler, vars, ring, user
  <2>3. CASE Poll
    <3>1. CASE queue = <<>>
      BY <2>1, <2>3, <3>1 DEF Poll, ring
    <3>2. CASE queue # <<>>
      BY <2>3, <3>2, PolledShift DEF Poll
    <3>. QED
      BY <3>1, <3>2
  <2>4. ASSUME NEW k \in Keys, Press(k) PROVE ShiftInv'
    <3>1. /\ k \in Codes /\ Send(k) /\ UNCHANGED g_shift /\ held' = held \cup {k}
      BY <2>4 DEF Press, Codes, ring
    <3>2. k \in ShiftBytes => Right(k \in Shifts, Holds', both')
      BY <3>1, ShiftCodes DEF Holds, Right
    <3>3. k \notin ShiftBytes => (Holds' <=> Holds) /\ (both' <=> both)
      <4>. SUFFICES ASSUME k \notin Shifts PROVE (Holds' <=> Holds) /\ (both' <=> both)
        BY ShiftCodes
      <4>1. (Holds' <=> Holds) /\ (Shifts \subseteq held' <=> Shifts \subseteq held)
        BY <3>1 DEF Holds
      <4>2. both' = (Holds' /\ (both \/ Shifts \subseteq held'))
        BY <3>1 DEF Send, Holds
      <4>. QED
        BY <4>1, <4>2 DEF ShiftInv, BothInv, TypeOK
    <3>. QED
      BY <3>1, <3>2, <3>3, SentShift
  <2>5. ASSUME NEW k \in Keys, Release(k) PROVE ShiftInv'
    <3>1. /\ Released(k) \in Codes /\ Send(Released(k)) /\ UNCHANGED g_shift
          /\ k \in held /\ held' = held \ {k}
      BY <2>5 DEF Release, Codes, ring
    <3>2. both' = (Holds' /\ (both \/ Shifts \subseteq held'))
      BY <3>1 DEF Send, Holds
    <3>3. Released(k) \in ShiftBytes => Right(Released(k) \in Shifts, Holds', both')
      <4>. SUFFICES ASSUME k \in Shifts, Holds' PROVE both'
        BY ShiftCodes DEF Right
      <4>1. PICK j \in held' : j \in Shifts
        BY DEF Holds
      <4>2. j # k /\ j \in held
        BY <3>1
      <4>3. Shifts \subseteq held
        BY <3>1, <4>1, <4>2 DEF Shifts
      <4>. QED
        BY <3>2, <4>3 DEF ShiftInv, BothInv
    <3>4. Released(k) \notin ShiftBytes => (Holds' <=> Holds) /\ (both' <=> both)
      <4>. SUFFICES ASSUME k \notin Shifts PROVE (Holds' <=> Holds) /\ (both' <=> both)
        BY ShiftCodes
      <4>1. (Holds' <=> Holds) /\ (Shifts \subseteq held' <=> Shifts \subseteq held)
        BY <3>1 DEF Holds
      <4>. QED
        BY <3>2, <4>1 DEF ShiftInv, BothInv, TypeOK
    <3>. QED
      BY <3>1, <3>3, <3>4, SentShift
  <2>. QED
    BY <2>2, <2>3, <2>4, <2>5 DEF Next, Thread
<1>3. TypeOK /\ ShiftInv => ShiftIsHeld
  <2>. SUFFICES ASSUME ShiftInv, queue = <<>>, ~lost PROVE Right(g_shift, Holds, both)
    BY DEF ShiftIsHeld, Right, Holds
  <2>1. Len(queue) = 0
    OBVIOUS
  <2>. QED
    BY <2>1 DEF ShiftInv, QueueRight
<1>. QED
  BY <1>1, <1>2, <1>3, TypeCorrect, PTL DEF Spec

-----------------------------------------------------------------------------
(* The driver hands on what was typed: it implements KeyStream.            *)

\* A set of numbers that has a member has a least one.
LEMMA LeastOne ==
  ASSUME NEW S, S \subseteq Nat, S # {}
  PROVE  \E x \in S : \A y \in S : x <= y
<1>1. PICK x \in S : \A y \in S : <<y, x>> \notin OpToRel(<, Nat)
  BY WFMin, NatLessThanWellFounded
<1>2. \A y \in S : ~(y < x)
  BY <1>1 DEF OpToRel
<1>. QED
  BY <1>2

\* A set of numbers with 0 in it, and with every number its successor up to n,
\* has all of them up to n.
LEMMA Reaches ==
  ASSUME NEW n \in Nat, NEW S, 0 \in S, \A i \in 0 .. n - 1 : i \in S => i + 1 \in S
  PROVE  \A i \in 0 .. n : i \in S
<1>. SUFFICES ASSUME {i \in 0 .. n : i \notin S} # {} PROVE FALSE
  OBVIOUS
<1>1. PICK i \in {j \in 0 .. n : j \notin S} : \A j \in {j \in 0 .. n : j \notin S} : i <= j
  <2>1. {j \in 0 .. n : j \notin S} \subseteq Nat
    OBVIOUS
  <2>. QED
    BY <2>1, LeastOne
<1>2. i # 0 /\ i - 1 \in 0 .. n - 1 /\ (i - 1) + 1 = i
  BY <1>1
<1>3. i - 1 \in S
  BY <1>1, <1>2
<1>. QED
  BY <1>1, <1>2, <1>3

\* One byte more.
StepOf(st, sc) == [shift |-> ShiftAfter(st.shift, sc), chars |-> st.chars \o CharOf(st.shift, sc)]
StartOf(s) == [shift |-> s, chars |-> <<>>]
IsRun(h, s, q, n) == h = [i \in 0 .. n |-> IF i = 0 THEN StartOf(s) ELSE StepOf(h[i - 1], q[i])]

\* The recursion of Handled has a solution.
LEMMA RunExists ==
  ASSUME NEW s, NEW q, NEW n \in Nat
  PROVE  \E h : IsRun(h, s, q, n)
<1>. DEFINE S == {k \in 0 .. n : \E h : IsRun(h, s, q, k)}
<1>1. 0 \in S
  <2>. DEFINE g == [i \in 0 .. 0 |-> StartOf(s)]
  <2>1. IsRun(g, s, q, 0)
    BY DEF IsRun
  <2>. QED
    BY <2>1
<1>2. ASSUME NEW k \in 0 .. n - 1, k \in S PROVE k + 1 \in S
  <2>1. PICK h : IsRun(h, s, q, k)
    BY <1>2
  <2>. DEFINE g == [i \in 0 .. k + 1 |-> IF i = k + 1 THEN StepOf(h[k], q[k + 1]) ELSE h[i]]
  <2>2. ASSUME NEW i \in 0 .. k + 1
        PROVE  g[i] = IF i = 0 THEN StartOf(s) ELSE StepOf(g[i - 1], q[i])
    <3>1. CASE i = k + 1
      <4>1. i # 0 /\ i - 1 = k /\ k \in 0 .. k + 1 /\ k # k + 1
        BY <3>1
      <4>2. g[k] = h[k]
        BY <4>1
      <4>. QED
        BY <3>1, <4>1, <4>2
    <3>2. CASE i # k + 1
      <4>1. i \in 0 .. k /\ g[i] = h[i]
        BY <3>2
      <4>2. h[i] = IF i = 0 THEN StartOf(s) ELSE StepOf(h[i - 1], q[i])
        BY <2>1, <4>1 DEF IsRun
      <4>3. i # 0 => g[i - 1] = h[i - 1]
        <5>. SUFFICES ASSUME i # 0 PROVE g[i - 1] = h[i - 1]
          OBVIOUS
        <5>1. i - 1 \in 0 .. k + 1 /\ i - 1 # k + 1
          BY <4>1
        <5>. QED
          BY <5>1
      <4>. QED
        BY <4>1, <4>2, <4>3
    <3>. QED
      BY <3>1, <3>2
  <2>3. g = [i \in 0 .. k + 1 |-> g[i]]
    OBVIOUS
  <2>. HIDE DEF g
  <2>4. IsRun(g, s, q, k + 1)
    BY <2>2, <2>3 DEF IsRun
  <2>5. k + 1 \in 0 .. n
    OBVIOUS
  <2>. QED
    BY <2>4, <2>5
<1>. HIDE DEF S
<1>3. n \in S
  BY <1>1, <1>2, Reaches
<1>. QED
  BY <1>3 DEF S

\* What Handled is at the start and after each byte.
LEMMA HandledSteps ==
  ASSUME NEW s, NEW q, Len(q) \in Nat
  PROVE  /\ DOMAIN Handled(s, q) = 0 .. Len(q)
         /\ Handled(s, q)[0] = StartOf(s)
         /\ \A i \in 1 .. Len(q) : Handled(s, q)[i] = StepOf(Handled(s, q)[i - 1], q[i])
<1>1. IsRun(Handled(s, q), s, q, Len(q))
  <2>1. \E h : IsRun(h, s, q, Len(q))
    BY RunExists
  <2>. QED
    BY <2>1 DEF Handled, IsRun, StartOf, StepOf
<1>. DEFINE h == Handled(s, q)
<1>2. IsRun(h, s, q, Len(q))
  BY <1>1
<1>. HIDE DEF h
<1>3. /\ DOMAIN h = 0 .. Len(q)
      /\ \A i \in 0 .. Len(q) : h[i] = IF i = 0 THEN StartOf(s) ELSE StepOf(h[i - 1], q[i])
  BY <1>2 DEF IsRun
<1>4. 0 \in 0 .. Len(q) /\ \A i \in 1 .. Len(q) : i \in 0 .. Len(q) /\ i # 0
  OBVIOUS
<1>5. h[0] = StartOf(s)
  BY <1>3, <1>4
<1>6. \A i \in 1 .. Len(q) : h[i] = StepOf(h[i - 1], q[i])
  BY <1>3, <1>4
<1>. QED
  BY <1>3, <1>5, <1>6 DEF h

\* It is a shift state and characters, all along.
States == [shift : BOOLEAN, chars : Seq(Chars)]

\* One byte leads from a shift state to a shift state, and makes characters.
LEMMA StepType ==
  ASSUME NEW st \in States, NEW sc \in Codes
  PROVE  /\ StepOf(st, sc) \in States
         /\ CharOf(st.shift, sc) \in Seq(Chars)
<1>1. st.shift \in BOOLEAN /\ st.chars \in Seq(Chars)
  BY DEF States
<1>2. ShiftAfter(st.shift, sc) \in BOOLEAN
  BY <1>1, ByteType
<1>3. CharOf(st.shift, sc) \in Seq(Chars)
  <2>1. CASE CharOf(st.shift, sc) = <<>>
    BY <2>1
  <2>2. CASE CharOf(st.shift, sc) # <<>>
    <3>. DEFINE ch == [upper |-> st.shift, code |-> sc]
    <3>1. CharOf(st.shift, sc) = <<ch>> /\ CharOf(st.shift, sc)[1] \in Chars
      BY <1>1, <2>2, ByteType DEF CharOf
    <3>. HIDE DEF ch
    <3>2. <<ch>>[1] = ch
      OBVIOUS
    <3>. QED
      BY <3>1, <3>2
  <2>. QED
    BY <2>1, <2>2
<1>4. st.chars \o CharOf(st.shift, sc) \in Seq(Chars)
  BY <1>1, <1>3, ConcatProperties
<1>. QED
  BY <1>2, <1>3, <1>4 DEF StepOf, States

\* So does every byte of a queue.
LEMMA HandledType ==
  ASSUME NEW s \in BOOLEAN, NEW q \in Seq(Codes)
  PROVE  \A i \in 0 .. Len(q) : Handled(s, q)[i] \in States
<1>. DEFINE h == Handled(s, q)
            S == {i \in 0 .. Len(q) : h[i] \in States}
<1>1. Len(q) \in Nat /\ \A i \in 1 .. Len(q) : q[i] \in Codes
  BY ElementOfSeq, LenProperties
<1>2. /\ h[0] = StartOf(s)
      /\ \A i \in 1 .. Len(q) : h[i] = StepOf(h[i - 1], q[i])
  BY <1>1, HandledSteps
<1>. HIDE DEF h
<1>3. 0 \in S
  <2>1. StartOf(s) \in States
    BY DEF StartOf, States
  <2>. QED
    BY <1>1, <1>2, <2>1
<1>4. ASSUME NEW i \in 0 .. Len(q) - 1, i \in S PROVE i + 1 \in S
  <2>1. i + 1 \in 1 .. Len(q) /\ (i + 1) - 1 = i /\ i + 1 \in 0 .. Len(q)
    BY <1>1
  <2>2. h[i + 1] = StepOf(h[i], q[i + 1]) /\ q[i + 1] \in Codes
    BY <1>1, <1>2, <2>1
  <2>3. StepOf(h[i], q[i + 1]) \in States
    BY <1>4, <2>2, StepType
  <2>. QED
    BY <2>1, <2>2, <2>3
<1>. HIDE DEF S
<1>5. \A i \in 0 .. Len(q) : i \in S
  BY <1>1, <1>3, <1>4, Reaches
<1>. QED
  BY <1>5 DEF S, h

\* One byte more in the queue is one step more.
LEMMA HandledAppend ==
  ASSUME NEW s, NEW q \in Seq(Codes), NEW sc \in Codes
  PROVE  Handled(s, Append(q, sc))[Len(Append(q, sc))] = StepOf(Handled(s, q)[Len(q)], sc)
<1>. DEFINE n == Len(q)
            r == Append(q, sc)
            h == Handled(s, q)
            g == Handled(s, r)
            S == {i \in 0 .. n : g[i] = h[i]}
<1>1. /\ n \in Nat /\ Len(r) = n + 1 /\ r[n + 1] = sc
      /\ \A i \in 1 .. n : r[i] = q[i]
  BY AppendProperties, LenProperties
<1>2. /\ h[0] = StartOf(s)
      /\ \A i \in 1 .. n : h[i] = StepOf(h[i - 1], q[i])
  BY <1>1, HandledSteps
<1>3. /\ g[0] = StartOf(s)
      /\ \A i \in 1 .. n + 1 : g[i] = StepOf(g[i - 1], r[i])
  <2>1. Len(r) \in Nat
    BY <1>1
  <2>2. /\ g[0] = StartOf(s)
        /\ \A i \in 1 .. Len(r) : g[i] = StepOf(g[i - 1], r[i])
    BY <2>1, HandledSteps
  <2>. QED
    BY <1>1, <2>2
<1>. HIDE DEF n, r, h, g
<1>4. 0 \in S
  BY <1>1, <1>2, <1>3
<1>5. ASSUME NEW i \in 0 .. n - 1, i \in S PROVE i + 1 \in S
  <2>1. i + 1 \in 1 .. n /\ i + 1 \in 1 .. n + 1 /\ (i + 1) - 1 = i /\ i + 1 \in 0 .. n
    BY <1>1
  <2>2. h[i + 1] = StepOf(h[i], q[i + 1]) /\ g[i + 1] = StepOf(g[i], r[i + 1])
    BY <1>2, <1>3, <2>1
  <2>. QED
    BY <1>1, <1>5, <2>1, <2>2
<1>. HIDE DEF S
<1>6. n \in S
  <2>1. \A i \in 0 .. n : i \in S
    BY <1>1, <1>4, <1>5, Reaches
  <2>. QED
    BY <1>1, <2>1
<1>7. n + 1 \in 1 .. n + 1 /\ (n + 1) - 1 = n
  BY <1>1
<1>8. g[n + 1] = StepOf(h[n], sc)
  BY <1>1, <1>3, <1>6, <1>7 DEF S
<1>. QED
  BY <1>1, <1>8 DEF n, r, h, g

\* The first byte of the queue handled before the others makes no difference.
LEMMA HandledTail ==
  ASSUME NEW s \in BOOLEAN, NEW q \in Seq(Codes), q # <<>>
  PROVE  LET rest == Handled(ShiftAfter(s, Head(q)), Tail(q))[Len(Tail(q))]
         IN Handled(s, q)[Len(q)] =
              [shift |-> rest.shift, chars |-> CharOf(s, Head(q)) \o rest.chars]
<1>. DEFINE n == Len(q)
            t == Tail(q)
            u == ShiftAfter(s, Head(q))
            c == CharOf(s, Head(q))
            h == Handled(s, q)
            g == Handled(u, t)
            Put(st) == [shift |-> st.shift, chars |-> c \o st.chars]
            S == {i \in 0 .. n - 1 : h[i + 1] = Put(g[i])}
<1>1. /\ n \in Nat \ {0} /\ Len(t) = n - 1 /\ Head(q) = q[1] /\ t \in Seq(Codes)
      /\ \A i \in 1 .. n - 1 : t[i] = q[i + 1]
      /\ \A i \in 1 .. n : q[i] \in Codes
  BY HeadTailProperties, EmptySeq, ElementOfSeq
<1>2. Head(q) \in Codes /\ [shift |-> s, chars |-> <<>>] \in States
  BY <1>1 DEF States
<1>3. u \in BOOLEAN /\ c \in Seq(Chars)
  BY <1>2, StepType, ByteType
<1>4. /\ h[0] = StartOf(s)
      /\ \A i \in 1 .. n : h[i] = StepOf(h[i - 1], q[i])
  BY <1>1, HandledSteps
<1>5. /\ g[0] = StartOf(u)
      /\ \A i \in 1 .. n - 1 : g[i] = StepOf(g[i - 1], t[i])
  <2>1. Len(t) \in Nat
    BY <1>1
  <2>2. /\ g[0] = StartOf(u)
        /\ \A i \in 1 .. Len(t) : g[i] = StepOf(g[i - 1], t[i])
    BY <2>1, HandledSteps
  <2>. QED
    BY <1>1, <2>2
<1>6. \A i \in 0 .. n - 1 : g[i] \in States
  <2>1. \A i \in 0 .. Len(t) : g[i] \in States
    BY <1>1, <1>3, HandledType
  <2>. QED
    BY <1>1, <2>1
<1>. HIDE DEF n, t, h, g
<1>7. 0 \in S
  <2>1. 1 \in 1 .. n /\ 1 - 1 = 0 /\ 0 \in 0 .. n - 1 /\ 0 + 1 = 1
    BY <1>1
  <2>2. h[1] = StepOf(StartOf(s), Head(q))
    BY <1>1, <1>4, <2>1
  <2>3. StepOf(StartOf(s), Head(q)) = [shift |-> u, chars |-> <<>> \o c]
    BY DEF StepOf, StartOf
  <2>4. <<>> \o c = c /\ c \o <<>> = c
    BY <1>3, ConcatEmptySeq
  <2>5. Put(g[0]) = [shift |-> u, chars |-> c \o <<>>]
    BY <1>5 DEF StartOf
  <2>. QED
    BY <2>1, <2>2, <2>3, <2>4, <2>5
<1>8. ASSUME NEW i \in 0 .. (n - 1) - 1, i \in S PROVE i + 1 \in S
  <2>1. /\ i + 1 \in 1 .. n - 1 /\ (i + 1) - 1 = i /\ i \in 0 .. n - 1 /\ i + 1 \in 0 .. n - 1
        /\ (i + 1) + 1 \in 1 .. n /\ ((i + 1) + 1) - 1 = i + 1
    BY <1>1
  <2>2. h[(i + 1) + 1] = StepOf(h[i + 1], q[(i + 1) + 1]) /\ g[i + 1] = StepOf(g[i], t[i + 1])
    BY <1>4, <1>5, <2>1
  <2>3. t[i + 1] = q[(i + 1) + 1] /\ t[i + 1] \in Codes
    BY <1>1, <2>1
  <2>4. PICK st \in States, sc \in Codes : st = g[i] /\ sc = t[i + 1]
    BY <1>6, <2>1, <2>3
  <2>5. h[(i + 1) + 1] = StepOf(Put(st), sc) /\ g[i + 1] = StepOf(st, sc)
    BY <1>8, <2>2, <2>3, <2>4
  <2>6. StepOf(Put(st), sc) = Put(StepOf(st, sc))
    <3>. DEFINE a == st.chars
                d == CharOf(st.shift, sc)
    <3>1. a \in Seq(Chars) /\ d \in Seq(Chars)
      BY StepType DEF States
    <3>2. Put(st).shift = st.shift /\ Put(st).chars = c \o a
      OBVIOUS
    <3>3. StepOf(Put(st), sc) = [shift |-> ShiftAfter(st.shift, sc), chars |-> (c \o a) \o d]
      BY <3>2 DEF StepOf
    <3>4. Put(StepOf(st, sc)) = [shift |-> ShiftAfter(st.shift, sc), chars |-> c \o (a \o d)]
      BY DEF StepOf
    <3>. HIDE DEF c, a, d
    <3>5. (c \o a) \o d = c \o (a \o d)
      BY <1>3, <3>1, ConcatAssociative, SMTT(60)
    <3>. QED
      BY <3>3, <3>4, <3>5
  <2>. QED
    BY <2>1, <2>5, <2>6
<1>. HIDE DEF S
<1>9. n - 1 \in S
  <2>1. n - 1 \in Nat
    BY <1>1
  <2>2. \A i \in 0 .. n - 1 : i \in S
    BY <1>7, <1>8, <2>1, Reaches
  <2>. QED
    BY <2>1, <2>2
<1>10. h[n] = Put(g[n - 1])
  <2>1. (n - 1) + 1 = n
    BY <1>1
  <2>. QED
    BY <1>9, <2>1 DEF S
<1>. QED
  BY <1>1, <1>10 DEF n, t, h, g

\* What the ring holds, from the index of its reader to that of its writer.
Filled(buf, head, tail) ==
  [i \in 1 .. (tail + BufSize - head) % BufSize |-> buf[(head + i - 1) % BufSize]]

\* The index after an index of the ring.
LEMMA NextOf ==
  ASSUME NEW i \in 0 .. BufSize - 1
  PROVE  /\ i % BufSize = i
         /\ NextIndex(i) \in 0 .. BufSize - 1
         /\ i = BufSize - 1 => NextIndex(i) = 0
         /\ i # BufSize - 1 => NextIndex(i) = i + 1
<1>1. \A x \in 0 .. BufSize - 1 : x % BufSize = x
  OBVIOUS
<1>2. CASE i = BufSize - 1
  <2>1. NextIndex(i) = 0
    BY <1>2 DEF NextIndex
  <2>. QED
    BY <1>1, <1>2, <2>1
<1>3. CASE i # BufSize - 1
  <2>1. i + 1 \in 0 .. BufSize - 1
    BY <1>3
  <2>2. NextIndex(i) = i + 1
    BY <1>1, <2>1 DEF NextIndex
  <2>. QED
    BY <1>1, <1>3, <2>1, <2>2
<1>. QED
  BY <1>2, <1>3

\* How far an index of the ring is behind another.
LEMMA Distance ==
  ASSUME NEW i \in 0 .. BufSize - 1, NEW j \in 0 .. BufSize - 1
  PROVE  /\ j <= i => (i + BufSize - j) % BufSize = i - j
         /\ ~(j <= i) => (i + BufSize - j) % BufSize = i + BufSize - j
<1>1. \A x \in 0 .. BufSize - 1 : x % BufSize = x /\ (x + BufSize) % BufSize = x
  OBVIOUS
<1>2. CASE j <= i
  <2>1. i - j \in 0 .. BufSize - 1 /\ i + BufSize - j = (i - j) + BufSize
    BY <1>2
  <2>2. (i + BufSize - j) % BufSize = i - j
    BY <1>1, <2>1
  <2>. QED
    BY <1>2, <2>2
<1>3. CASE ~(j <= i)
  <2>1. i + BufSize - j \in 0 .. BufSize - 1
    BY <1>3
  <2>2. (i + BufSize - j) % BufSize = i + BufSize - j
    BY <1>1, <2>1
  <2>. QED
    BY <1>3, <2>2
<1>. QED
  BY <1>2, <1>3

\* An empty ring, and one with one character.
LEMMA FilledEmpty ==
  ASSUME NEW buf, NEW t \in 0 .. BufSize - 1
  PROVE  /\ Filled(buf, t, t) = <<>>
         /\ Filled(buf, t, NextIndex(t)) = <<buf[t]>>
<1>1. (t + BufSize - t) % BufSize = 0
  BY Distance
<1>2. NextIndex(t) \in 0 .. BufSize - 1 /\ (NextIndex(t) + BufSize - t) % BufSize = 1
  <2>1. PICK m \in 0 .. BufSize - 1 :
          /\ m = NextIndex(t)
          /\ t = BufSize - 1 => m = 0
          /\ t # BufSize - 1 => m = t + 1
    BY NextOf
  <2>2. /\ t <= m => (m + BufSize - t) % BufSize = m - t
        /\ ~(t <= m) => (m + BufSize - t) % BufSize = m + BufSize - t
    BY Distance
  <2>3. (m + BufSize - t) % BufSize = 1
    BY <2>1, <2>2
  <2>. QED
    BY <2>1, <2>3
<1>3. Filled(buf, t, t) = <<>>
  BY <1>1 DEF Filled
<1>4. Filled(buf, t, NextIndex(t)) = [i \in 1 .. 1 |-> buf[(t + i - 1) % BufSize]]
  BY <1>2 DEF Filled
<1>5. \A i \in 1 .. 1 : buf[(t + i - 1) % BufSize] = buf[t]
  <2>1. t + 1 - 1 = t /\ t % BufSize = t
    BY NextOf
  <2>. QED
    BY <2>1
<1>6. Filled(buf, t, NextIndex(t)) = [i \in 1 .. 1 |-> buf[t]]
  BY <1>4, <1>5
<1>. HIDE DEF Chars
<1>7. [i \in 1 .. 1 |-> buf[t]] = <<buf[t]>>
  OBVIOUS
<1>. QED
  BY <1>3, <1>6, <1>7

\* The reader's character is the first of the ring, and then the next is.
LEMMA FilledTake ==
  ASSUME NEW buf \in [0 .. BufSize - 1 -> Chars],
         NEW h \in 0 .. BufSize - 1, NEW t \in 0 .. BufSize - 1, h # t
  PROVE  /\ Filled(buf, h, t) \in Seq(Chars) /\ Filled(buf, h, t) # <<>>
         /\ Head(Filled(buf, h, t)) = buf[h]
         /\ Tail(Filled(buf, h, t)) = Filled(buf, NextIndex(h), t)
<1>. DEFINE n == (t + BufSize - h) % BufSize
            f == Filled(buf, h, t)
            g == Filled(buf, NextIndex(h), t)
<1>1. PICK m \in 0 .. BufSize - 1 :
        /\ m = NextIndex(h)
        /\ h = BufSize - 1 => m = 0
        /\ h # BufSize - 1 => m = h + 1
  BY NextOf
<1>2. n \in 1 .. BufSize - 1 /\ (t + BufSize - m) % BufSize = n - 1
  <2>. DEFINE k == (t + BufSize - m) % BufSize
  <2>1. /\ m <= t => k = t - m
        /\ ~(m <= t) => k = t + BufSize - m
    BY Distance
  <2>2. /\ h <= t => n = t - h
        /\ ~(h <= t) => n = t + BufSize - h
    BY Distance
  <2>. HIDE DEF n, k
  <2>3. n \in 1 .. BufSize - 1 /\ k = n - 1
    BY <1>1, <2>1, <2>2
  <2>. QED
    BY <2>3 DEF k
<1>3. f = [i \in 1 .. n |-> buf[(h + i - 1) % BufSize]]
  BY DEF Filled
<1>4. g = [i \in 1 .. n - 1 |-> buf[(m + i - 1) % BufSize]]
  BY <1>1, <1>2 DEF Filled
<1>. HIDE DEF n, f, g
<1>5. f \in Seq(Chars) /\ Len(f) = n
  <2>1. \A i \in 1 .. n : (h + i - 1) % BufSize \in 0 .. BufSize - 1
    BY <1>2
  <2>2. f \in [1 .. n -> Chars] /\ n \in Nat
    BY <1>2, <1>3, <2>1
  <2>. QED
    BY <2>2, IsASeq, LenProperties
<1>6. f # <<>> /\ Head(f) = f[1] /\ f[1] = buf[h]
  <2>1. 1 \in 1 .. n /\ (h + 1 - 1) % BufSize = h
    <3>1. h + 1 - 1 = h
      OBVIOUS
    <3>2. h % BufSize = h
      BY NextOf
    <3>. QED
      BY <1>2, <3>1, <3>2
  <2>2. f # <<>>
    BY <1>2, <1>5
  <2>. QED
    BY <1>3, <1>5, <2>1, <2>2, HeadTailProperties
<1>7. Tail(f) = g
  <2>1. /\ Tail(f) \in Seq(Chars) /\ Len(Tail(f)) = n - 1
        /\ \A i \in 1 .. n - 1 : Tail(f)[i] = f[i + 1]
    BY <1>2, <1>5, <1>6, HeadTailProperties
  <2>2. \A i \in 1 .. n - 1 : f[i + 1] = g[i]
    <3>. TAKE i \in 1 .. n - 1
    <3>1. i + 1 \in 1 .. n /\ h + (i + 1) - 1 = h + i
      BY <1>2
    <3>2. (m + i - 1) % BufSize = (h + i) % BufSize
      <4>1. CASE h = BufSize - 1
        <5>1. /\ m + i - 1 = i - 1 /\ i - 1 \in 0 .. BufSize - 1
              /\ h + i = (i - 1) + BufSize
          BY <1>1, <1>2, <4>1
        <5>. QED
          BY <5>1
      <4>2. CASE h # BufSize - 1
        <5>1. m + i - 1 = h + i
          BY <1>1, <1>2, <4>2
        <5>. QED
          BY <5>1
      <4>. QED
        BY <4>1, <4>2
    <3>. QED
      BY <1>3, <1>4, <3>1, <3>2
  <2>3. g \in Seq(Chars) /\ Len(g) = n - 1
    <3>1. \A i \in 1 .. n - 1 : (m + i - 1) % BufSize \in 0 .. BufSize - 1
      BY <1>2
    <3>2. g \in [1 .. n - 1 -> Chars] /\ n - 1 \in Nat
      BY <1>2, <1>4, <3>1
    <3>. QED
      BY <3>2, IsASeq, LenProperties
  <2>. QED
    BY <2>1, <2>2, <2>3, SeqEqual
<1>. QED
  BY <1>5, <1>6, <1>7 DEF f, g

\* The reader takes only from a ring that has something.
ReaderInv ==
  /\ pc \in {"sleep", "halt", "poll"} => g_head = g_tail
  /\ pc = "take" => g_head # g_tail

Pending == InRing \o Coming

\* What is in the ring and what is to come are characters.
LEMMA StreamType ==
  ASSUME TypeOK
  PROVE  /\ InRing = Filled(g_buf, g_head, g_tail) /\ InRing \in Seq(Chars)
         /\ Coming \in Seq(Chars) /\ After \in BOOLEAN
<1>1. InRing = Filled(g_buf, g_head, g_tail)
  BY DEF InRing, Filled
<1>2. InRing \in Seq(Chars)
  <2>1. CASE g_head = g_tail
    <3>1. InRing = <<>>
      BY <1>1, <2>1, FilledEmpty DEF TypeOK
    <3>. QED
      BY <3>1
  <2>2. CASE g_head # g_tail
    BY <1>1, <2>2, FilledTake DEF TypeOK
  <2>. QED
    BY <2>1, <2>2
<1>3. Coming \in Seq(Chars) /\ After \in BOOLEAN
  <2>1. Len(queue) \in 0 .. Len(queue) /\ queue \in Seq(Codes) /\ g_shift \in BOOLEAN
    BY LenProperties DEF TypeOK
  <2>2. Handled(g_shift, queue)[Len(queue)] \in States
    BY <2>1, HandledType
  <2>. QED
    BY <2>2 DEF Coming, After, States
<1>. QED
  BY <1>1, <1>2, <1>3

\* A byte the controller takes is typed; one it drops is not.
LEMMA SentStream ==
  ASSUME TypeOK, NEW sc \in Codes, Send(sc), UNCHANGED <<ring, last>>
  PROVE  Stream!Type(sc) \/ UNCHANGED <<Pending, After, last>>
<1>. USE DEF ring
<1>1. InRing' = InRing /\ UNCHANGED last
  BY DEF InRing
<1>2. CASE Len(queue) < QueueSize
  <2>. DEFINE st == Handled(g_shift, queue)[Len(queue)]
  <2>1. queue' = Append(queue, sc) /\ g_shift' = g_shift /\ queue \in Seq(Codes)
    BY <1>2 DEF Send, TypeOK
  <2>2. Handled(g_shift, Append(queue, sc))[Len(Append(queue, sc))] = StepOf(st, sc)
    BY <2>1, HandledAppend
  <2>3. Coming' = StepOf(st, sc).chars /\ After' = StepOf(st, sc).shift
    BY <2>1, <2>2 DEF Coming, After
  <2>4. Coming' = Coming \o CharOf(After, sc) /\ After' = ShiftAfter(After, sc)
    BY <2>3 DEF StepOf, Coming, After
  <2>5. CharOf(After, sc) \in Seq(Chars)
    <3>1. [shift |-> After, chars |-> <<>>] \in States
      BY StreamType DEF States
    <3>. QED
      BY <3>1, StepType
  <2>6. InRing \o (Coming \o CharOf(After, sc)) = (InRing \o Coming) \o CharOf(After, sc)
    BY <2>5, StreamType, ConcatAssociative, SMTT(60)
  <2>7. (InRing \o Coming)' = (InRing \o Coming) \o CharOf(After, sc)
    BY <1>1, <2>4, <2>6
  <2>. QED
    BY <1>1, <2>4, <2>7 DEF Stream!Type
<1>3. CASE ~(Len(queue) < QueueSize)
  BY <1>1, <1>3 DEF Send, Pending, Coming, After
<1>. QED
  BY <1>2, <1>3

\* A poll moves a character from the queue into the ring: nothing is lost,
\* doubled or overtaken.
LEMMA PolledStream ==
  ASSUME TypeOK, g_head = g_tail, queue # <<>>, queue' = Tail(queue), Handle(Head(queue))
  PROVE  Pending' = Pending /\ After' = After
<1>. DEFINE c == CharOf(g_shift, Head(queue))
            st == Handled(ShiftAfter(g_shift, Head(queue)), Tail(queue))[Len(Tail(queue))]
<1>1. queue \in Seq(Codes) /\ g_shift \in BOOLEAN /\ g_tail \in 0 .. BufSize - 1
  BY DEF TypeOK
<1>2. Head(queue) \in Codes /\ Tail(queue) \in Seq(Codes)
  BY <1>1, HeadTailProperties
<1>3. c \in Seq(Chars) /\ ShiftAfter(g_shift, Head(queue)) \in BOOLEAN
  <2>1. [shift |-> g_shift, chars |-> <<>>] \in States
    BY <1>1 DEF States
  <2>. QED
    BY <1>1, <1>2, <2>1, StepType, ByteType
<1>4. Handled(g_shift, queue)[Len(queue)] = [shift |-> st.shift, chars |-> c \o st.chars]
  BY <1>1, HandledTail
<1>5. Coming' = st.chars /\ After' = st.shift
  BY DEF Coming, After, Handle
<1>6. Coming = c \o st.chars /\ After = st.shift
  <2>. DEFINE a == st.shift
              b == c \o st.chars
  <2>1. Handled(g_shift, queue)[Len(queue)] = [shift |-> a, chars |-> b]
    BY <1>4
  <2>. HIDE DEF a, b
  <2>2. Coming = b /\ After = a
    BY <2>1 DEF Coming, After
  <2>. QED
    BY <2>2 DEF a, b
<1>7. InRing = <<>>
  BY <1>1, FilledEmpty, StreamType
<1>8. InRing' = c
  <2>1. InRing' = Filled(g_buf', g_head', g_tail')
    BY DEF InRing, Filled
  <2>2. CASE c = <<>>
    <3>1. g_buf' = g_buf /\ g_tail' = g_tail /\ g_head' = g_tail
      BY <2>2 DEF Handle
    <3>. QED
      BY <1>1, <2>1, <2>2, <3>1, FilledEmpty
  <2>3. CASE c # <<>>
    <3>1. NextIndex(g_tail) # g_tail
      BY <1>1, NextOf
    <3>2. g_buf' = [g_buf EXCEPT ![g_tail] = c[1]] /\ g_tail' = NextIndex(g_tail) /\ g_head' = g_tail
      BY <2>3, <3>1 DEF Handle
    <3>3. g_buf'[g_tail] = c[1]
      BY <1>1, <3>2 DEF TypeOK
    <3>4. InRing' = <<g_buf'[g_tail]>>
      BY <1>1, <2>1, <3>2, FilledEmpty
    <3>5. c = <<c[1]>>
      BY <2>3 DEF CharOf
    <3>. QED
      BY <3>3, <3>4, <3>5
  <2>. QED
    BY <2>2, <2>3
<1>9. Pending = c \o st.chars
  <2>1. Coming \in Seq(Chars)
    BY StreamType
  <2>2. <<>> \o Coming = Coming
    BY <2>1, ConcatEmptySeq
  <2>. QED
    BY <1>6, <1>7, <2>2 DEF Pending
<1>10. Pending' = c \o st.chars
  BY <1>5, <1>8 DEF Pending
<1>. QED
  BY <1>5, <1>6, <1>9, <1>10

\* kbd_getc returns the oldest character that is pending.
LEMMA TakenStream ==
  ASSUME TypeOK, ReaderInv, Take
  PROVE  Stream!Read
<1>1. /\ g_head # g_tail /\ last' = <<g_buf[g_head]>> /\ g_head' = NextIndex(g_head)
      /\ UNCHANGED <<queue, g_buf, g_tail, g_shift>>
  BY DEF Take, ReaderInv, user, Oldest
<1>2. /\ InRing \in Seq(Chars) /\ InRing # <<>> /\ Coming \in Seq(Chars)
      /\ Head(InRing) = g_buf[g_head] /\ Tail(InRing) = Filled(g_buf, NextIndex(g_head), g_tail)
  BY <1>1, StreamType, FilledTake, ZenonT(60) DEF TypeOK
<1>3. InRing' = Tail(InRing) /\ Coming' = Coming /\ After' = After
  BY <1>1, <1>2 DEF InRing, Filled, Coming, After
<1>4. /\ InRing \o Coming # <<>>
      /\ Head(InRing \o Coming) = Head(InRing)
      /\ Tail(InRing \o Coming) = Tail(InRing) \o Coming
  BY <1>2, ConcatProperties, ConcatSimplifications, ConcatEqualIffEmpty, HeadTailProperties
<1>. QED
  BY <1>1, <1>2, <1>3, <1>4 DEF Stream!Read

\* For every ring, every queue of the controller and every set of keys: what
\* kbd_getc returns are the characters of the keys the controller took, in the
\* order they were typed, each of them once, under the shift state that the
\* keys before them make.
THEOREM Implements == Spec => ImplementsStream
<1>1. Init => Stream!Init
  <2>. SUFFICES ASSUME Init PROVE Stream!Init
    OBVIOUS
  <2>1. queue = <<>> /\ g_head = 0 /\ g_tail = 0 /\ g_shift = FALSE /\ last = <<>>
    BY DEF Init
  <2>2. InRing = <<>>
    <3>1. 0 \in 0 .. BufSize - 1 /\ InRing = Filled(g_buf, 0, 0)
      BY <2>1 DEF InRing, Filled
    <3>. QED
      BY <3>1, FilledEmpty
  <2>3. Handled(g_shift, queue)[Len(queue)] = StartOf(FALSE)
    <3>1. Len(queue) = 0 /\ Len(queue) \in Nat
      BY <2>1
    <3>. QED
      BY <2>1, <3>1, HandledSteps
  <2>4. Coming = <<>> /\ After = FALSE
    BY <2>3 DEF Coming, After, StartOf
  <2>5. InRing \o Coming = <<>>
    BY <2>2, <2>4
  <2>. QED
    BY <2>1, <2>4, <2>5 DEF Stream!Init
<1>2. Init => ReaderInv
  BY DEF Init, ReaderInv
<1>3. TypeOK /\ ReaderInv /\ [Next]_vars => ReaderInv' /\ [Stream!Next]_Stream!vars
  <2>. SUFFICES ASSUME TypeOK, ReaderInv, [Next]_vars
                PROVE  ReaderInv' /\ [Stream!Next]_Stream!vars
    OBVIOUS
  <2>. DEFINE Stutter == UNCHANGED <<Pending, After, last>>
  <2>1. Stutter => [Stream!Next]_Stream!vars
    BY DEF Stream!vars, Pending
  <2>2. UNCHANGED <<queue, g_buf, g_head, g_tail, g_shift, last>> => Stutter
    BY DEF Pending, InRing, Coming, After
  <2>3. CASE Call \/ Check \/ Hlt \/ Interrupt \/ Handler \/ UNCHANGED vars
    <3>1. UNCHANGED <<queue, g_buf, g_head, g_tail, g_shift, last>>
      BY <2>3 DEF Call, Check, Hlt, Interrupt, Handler, vars, user, ring
    <3>2. ReaderInv'
      BY <2>3 DEF ReaderInv, Call, Check, Hlt, Interrupt, Handler, vars, user, ring
    <3>. QED
      BY <2>1, <2>2, <3>1, <3>2
  <2>4. CASE Poll
    <3>1. pc = "poll" /\ pc' = "check" /\ last' = last /\ g_head = g_tail
      BY <2>4 DEF Poll, AfterPoll, ReaderInv
    <3>2. ReaderInv'
      BY <3>1 DEF ReaderInv
    <3>3. Stutter
      <4>1. CASE queue = <<>>
        BY <2>2, <2>4, <3>1, <4>1 DEF Poll, ring
      <4>2. CASE queue # <<>>
        BY <2>4, <3>1, <4>2, PolledStream DEF Poll
      <4>. QED
        BY <4>1, <4>2
    <3>. QED
      BY <2>1, <3>2, <3>3
  <2>5. CASE Take
    <3>1. ReaderInv'
      BY <2>5 DEF Take, ReaderInv
    <3>2. Stream!Next
      BY <2>5, TakenStream DEF Stream!Next
    <3>. QED
      BY <3>1, <3>2
  <2>6. ASSUME NEW k \in Keys, Press(k) \/ Release(k)
        PROVE  ReaderInv' /\ [Stream!Next]_Stream!vars
    <3>1. PICK sc \in Codes : Send(sc)
      BY <2>6 DEF Press, Release, Codes
    <3>2. UNCHANGED <<ring, pc, last>>
      BY <2>6 DEF Press, Release
    <3>3. Stream!Type(sc) \/ Stutter
      BY <3>1, <3>2, SentStream
    <3>4. Stream!Type(sc) => Stream!Next
      BY DEF Stream!Next
    <3>5. ReaderInv'
      BY <3>2 DEF ReaderInv, ring
    <3>. QED
      BY <2>1, <3>3, <3>4, <3>5
  <2>. QED
    BY <2>3, <2>4, <2>5, <2>6 DEF Next, Thread
<1>. QED
  BY <1>1, <1>2, <1>3, TypeCorrect, PTL DEF Spec, ImplementsStream, Stream!Spec

=============================================================================
