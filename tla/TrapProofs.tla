----------------------------- MODULE TrapProofs -----------------------------
(***************************************************************************)
(* Theorems about the path of an interrupt, for every set of exceptions    *)
(* and error codes.                                                        *)
(***************************************************************************)
EXTENDS Trap, SequenceTheorems, TLAPS

-----------------------------------------------------------------------------
(* The order of the registers, and of the fields of the frame.             *)

\* No register is named twice by pushall.
LEMMA PushedOnce ==
  /\ DOMAIN PushOrder = 1 .. 15
  /\ \A j, k \in 1 .. 15 : PushOrder[j] = PushOrder[k] => j = k
BY DEF PushOrder

\* No field is named twice by registers_t.
LEMMA FieldOnce ==
  /\ DOMAIN Fields = 1 .. 20
  /\ \A j, k \in 1 .. 20 : Fields[j] = Fields[k] => j = k
BY DEF Fields

\* The two words below the registers.
LEMMA FieldNumbers == Fields[16] = "int_no" /\ Fields[17] = "err_code"
BY DEF Fields

\* The registers are in the opposite order of pushall's.
LEMMA FieldOrder == \A j \in 1 .. 15 : 16 - j \in 1 .. 20 /\ Fields[16 - j] = PushOrder[j]
BY DEF Fields, PushOrder

\* popall names them from the last to the first.
LEMMA PoppedOnce ==
  /\ Len(PopOrder) = 15 /\ DOMAIN PopOrder = 1 .. 15
  /\ \A j \in 1 .. 15 : PopOrder[16 - j] = PushOrder[j]
  /\ \A j, k \in 1 .. 15 : PopOrder[j] = PopOrder[k] => j = k
<1>1. Len(PushOrder) = 15
  BY DEF PushOrder
<1>2. PopOrder = [i \in 1 .. 15 |-> PushOrder[(15 - i) + 1]]
  BY <1>1 DEF PopOrder, Reverse
<1>3. Len(PopOrder) = 15 /\ DOMAIN PopOrder = 1 .. 15
  BY <1>2
<1>4. \A j \in 1 .. 15 :
        16 - j \in 1 .. 15 /\ PopOrder[16 - j] = PushOrder[j] /\ PopOrder[j] = PushOrder[16 - j]
  BY <1>2
<1>. QED
  BY <1>3, <1>4, PushedOnce

-----------------------------------------------------------------------------
(* What stands on the stack.                                               *)

Handlers == {"stub", "pushall", "irq_handler", "exception_handler", "popall", "drop", "halted"}
Steps == Thread \cup Handlers \cup {"lost"}
Interrupted == at.step \in Handlers
Places == [step : Steps, vector : (0 .. 31) \cup {TimerVector}]
Codes == ErrorCodes \cup {NoGate(SpuriousVector)}
Values == (Names \X (0 .. Turns - 1)) \cup {Junk}
Registers == [Names -> Values]
Word == {"ss", "cs", "pad", "thread"} \cup Nat \cup [interrupts : BOOLEAN] \cup Places
        \cup Values \cup Codes

\* The thread's stack, and its context.
Stacks == {<<>>, <<"thread">>}
Contexts ==
  [at : {Pc(step) : step \in Thread}, intr : BOOLEAN, regs : Registers, stack : Stacks]

\* What the processor pushes on the stack of a context, what pushall leaves of
\* the registers, and the whole of a frame above it.
Pushed(b) == <<"ss", Len(b.stack), [interrupts |-> b.intr], "cs", b.at>>
Base(b) == Aligned(b.stack) \o Pushed(b)
Saved(r) == [k \in DOMAIN PushOrder |-> r[PushOrder[k]]]
Numbered(s, e, v) == s \o <<e, v>>
Whole(s, e, v, r) == Numbered(s, e, v) \o Saved(r)

\* A stack before the stub has pushed what the processor has not.
Odd == {s \in Seq(Word) : Len(s) % 2 = 1}

\* The words of one sequence above those of another.
Joined(z, u, x) ==
  /\ z \in Seq(Word) /\ Len(z) = Len(u) + Len(x)
  /\ \A i \in 1 .. Len(u) + Len(x) : z[i] = IF i <= Len(u) THEN u[i] ELSE x[i - Len(u)]

\* Concatenation joins them.
LEMMA Concat ==
  ASSUME NEW u \in Seq(Word), NEW x \in Seq(Word)
  PROVE  Joined(u \o x, u, x)
BY ConcatProperties DEF Joined

\* pushall pushes fifteen words.
LEMMA SavedWords ==
  ASSUME NEW r \in Registers
  PROVE  /\ Saved(r) \in Seq(Word) /\ Len(Saved(r)) = 15
         /\ \A j \in 1 .. 15 : PushOrder[j] \in Names /\ Saved(r)[j] = r[PushOrder[j]]
<1>1. \A j \in 1 .. 15 : PushOrder[j] \in Names /\ r[PushOrder[j]] \in Word
  BY PushedOnce DEF Registers, Names, Word
<1>2. Saved(r) = [k \in 1 .. 15 |-> r[PushOrder[k]]]
  BY PushedOnce DEF Saved
<1>. QED
  BY <1>1, <1>2

\* The words of a stack w with a whole frame on s.
Stacked(w, s, e, v, r) ==
  /\ Len(s) \in Nat /\ w \in Seq(Word) /\ Len(w) = Len(s) + 17
  /\ Numbered(s, e, v) \in Seq(Word) /\ Len(Numbered(s, e, v)) = Len(s) + 2
  /\ \A i \in 1 .. Len(s) + 2 : w[i] = Numbered(s, e, v)[i]
  /\ w[Len(s) + 1] = e /\ w[Len(s) + 2] = v
  /\ \A j \in 1 .. 15 : w[Len(s) + 2 + j] = r[PushOrder[j]]

\* A frame leaves what is below it, and has its words where they belong.
LEMMA WholeWords ==
  ASSUME NEW s \in Seq(Word), NEW e \in Word, NEW v \in Word, NEW r \in Registers
  PROVE  Stacked(Whole(s, e, v, r), s, e, v, r)
<1>. DEFINE n == Numbered(s, e, v)
            w == Whole(s, e, v, r)
            z == Saved(r)
<1>1. Len(s) \in Nat
  OBVIOUS
<1>0. /\ z \in Seq(Word) /\ Len(z) = 15
      /\ \A j \in 1 .. 15 : z[j] = r[PushOrder[j]]
  BY SavedWords
<1>2. <<e, v>> \in Seq(Word) /\ Len(<<e, v>>) = 2 /\ <<e, v>>[1] = e /\ <<e, v>>[2] = v
  OBVIOUS
<1>3. /\ n \in Seq(Word) /\ Len(n) = Len(s) + 2
      /\ \A i \in 1 .. Len(s) + 2 : n[i] = IF i <= Len(s) THEN s[i] ELSE <<e, v>>[i - Len(s)]
  <2>1. Joined(s \o <<e, v>>, s, <<e, v>>)
    BY <1>2, Concat
  <2>2. n = s \o <<e, v>>
    BY DEF Numbered
  <2>. QED
    BY <1>2, <2>1, <2>2 DEF Joined
<1>4. n[Len(s) + 1] = e /\ n[Len(s) + 2] = v /\ \A i \in 1 .. Len(s) : n[i] = s[i]
  BY <1>1, <1>2, <1>3
<1>. HIDE DEF n, z, w
<1>5. /\ w \in Seq(Word) /\ Len(w) = Len(s) + 17
      /\ \A i \in 1 .. Len(s) + 17 :
           w[i] = IF i <= Len(s) + 2 THEN n[i] ELSE z[i - (Len(s) + 2)]
  <2>1. w = n \o z
    BY DEF w, Whole, n, z
  <2>2. /\ w \in Seq(Word) /\ Len(w) = Len(n) + Len(z)
        /\ \A i \in 1 .. Len(n) + Len(z) :
             w[i] = IF i <= Len(n) THEN n[i] ELSE z[i - Len(n)]
    <3>1. n \in Seq(Word) /\ z \in Seq(Word)
      BY <1>0, <1>3
    <3>2. Joined(n \o z, n, z)
      BY <3>1, Concat
    <3>. QED
      BY <2>1, <3>2 DEF Joined
  <2>3. Len(n) + Len(z) = Len(s) + 17
    BY <1>0, <1>1, <1>3
  <2>. QED
    BY <1>3, <2>2, <2>3
<1>6. \A i \in 1 .. Len(s) + 2 : w[i] = n[i]
  BY <1>1, <1>5
<1>7. \A j \in 1 .. 15 : w[Len(s) + 2 + j] = r[PushOrder[j]]
  <2>. TAKE j \in 1 .. 15
  <2>1. w[Len(s) + 2 + j] = z[j]
    BY <1>1, <1>5
  <2>. QED
    BY <1>0, <2>1
<1>8. w[Len(s) + 1] = e /\ w[Len(s) + 2] = v
  BY <1>1, <1>4, <1>6
<1>9. Stacked(w, s, e, v, r)
  BY <1>1, <1>3, <1>4, <1>5, <1>6, <1>7, <1>8 DEF Stacked, n
<1>. QED
  BY <1>9 DEF w

-----------------------------------------------------------------------------
(* Reading it.                                                             *)

\* registers_t laid over a whole frame has the vector, the error code and the
\* registers where they are.
LEMMA FrameRead ==
  ASSUME NEW s \in Seq(Word), NEW e \in Word, NEW v \in Word, NEW r \in Registers,
         stack = Whole(s, e, v, r)
  PROVE  /\ Frame("int_no") = v /\ Frame("err_code") = e
         /\ \A n \in Names : Frame(n) = r[n]
<1>0. Stacked(stack, s, e, v, r)
  BY WholeWords
<1>1. /\ Len(s) \in Nat /\ Len(stack) = Len(s) + 17
      /\ stack[Len(s) + 1] = e /\ stack[Len(s) + 2] = v
      /\ \A j \in 1 .. 15 : stack[Len(s) + 2 + j] = r[PushOrder[j]]
  BY <1>0 DEF Stacked
<1>2. ASSUME NEW i \in 1 .. 20 PROVE Frame(Fields[i]) = stack[Len(s) + 18 - i]
  <2>1. (CHOOSE k \in DOMAIN Fields : Fields[k] = Fields[i]) = i
    BY FieldOnce
  <2>2. Frame(Fields[i]) = stack[Len(stack) + 1 - i]
    BY <2>1, Zenon DEF Frame
  <2>3. Len(stack) + 1 - i = Len(s) + 18 - i
    BY <1>1
  <2>. QED
    BY <2>2, <2>3
<1>3. Frame("int_no") = v
  <2>1. Frame(Fields[16]) = stack[Len(s) + 18 - 16]
    BY <1>2
  <2>2. Len(s) + 18 - 16 = Len(s) + 2
    BY <1>1
  <2>. QED
    BY <1>1, <2>1, <2>2, FieldNumbers
<1>4. Frame("err_code") = e
  <2>1. Frame(Fields[17]) = stack[Len(s) + 18 - 17]
    BY <1>2
  <2>2. Len(s) + 18 - 17 = Len(s) + 1
    BY <1>1
  <2>. QED
    BY <1>1, <2>1, <2>2, FieldNumbers
<1>5. ASSUME NEW n \in Names PROVE Frame(n) = r[n]
  <2>1. PICK j \in 1 .. 15 : PushOrder[j] = n
    BY PushedOnce DEF Names
  <2>2. 16 - j \in 1 .. 20 /\ Fields[16 - j] = n
    BY <2>1, FieldOrder
  <2>3. Frame(n) = stack[Len(s) + 18 - (16 - j)]
    BY <1>2, <2>2
  <2>4. Len(s) + 18 - (16 - j) = Len(s) + 2 + j
    BY <1>1
  <2>. QED
    BY <1>1, <2>1, <2>3, <2>4
<1>. QED
  BY <1>3, <1>4, <1>5

\* popall puts every register back and leaves the two words below.
LEMMA PopRead ==
  ASSUME NEW s \in Seq(Word), NEW e \in Word, NEW v \in Word, NEW r \in Registers,
         stack = Whole(s, e, v, r), Popall
  PROVE  regs' = r /\ stack' = Numbered(s, e, v)
<1>0. Stacked(stack, s, e, v, r)
  BY WholeWords
<1>1. /\ Len(s) \in Nat /\ Len(stack) = Len(s) + 17 /\ stack \in Seq(Word)
      /\ Numbered(s, e, v) \in Seq(Word) /\ Len(Numbered(s, e, v)) = Len(s) + 2
      /\ \A i \in 1 .. Len(s) + 2 : stack[i] = Numbered(s, e, v)[i]
      /\ \A j \in 1 .. 15 : stack[Len(s) + 2 + j] = r[PushOrder[j]]
  BY <1>0 DEF Stacked
<1>2. ASSUME NEW n \in Names
      PROVE  stack[Len(stack) + 1 - (CHOOSE k \in DOMAIN PopOrder : PopOrder[k] = n)] = r[n]
  <2>1. PICK j \in 1 .. 15 : PushOrder[j] = n
    BY PushedOnce DEF Names
  <2>2. 16 - j \in 1 .. 15 /\ PopOrder[16 - j] = n
    BY <2>1, PoppedOnce
  <2>3. (CHOOSE k \in DOMAIN PopOrder : PopOrder[k] = n) = 16 - j
    BY <2>2, PoppedOnce
  <2>4. Len(stack) + 1 - (16 - j) = Len(s) + 2 + j
    BY <1>1
  <2>. QED
    BY <1>1, <2>1, <2>3, <2>4
<1>3. regs' = r
  <2>1. regs' = [n \in Names |->
                   stack[Len(stack) + 1 - (CHOOSE k \in DOMAIN PopOrder : PopOrder[k] = n)]]
    BY DEF Popall
  <2>2. r = [n \in Names |-> r[n]]
    BY DEF Registers
  <2>. QED
    BY <1>2, <2>1, <2>2
<1>4. stack' = SubSeq(stack, 1, Len(s) + 2)
  BY <1>1, PoppedOnce DEF Popall
<1>5. stack' = Numbered(s, e, v)
  <2>. DEFINE n == Numbered(s, e, v)
  <2>1. \A i \in 1 .. Len(s) + 2 : stack[i] \in Word
    <3>1. \A i \in 1 .. Len(s) + 2 : i \in 1 .. Len(stack)
      BY <1>1
    <3>. QED
      BY <1>1, <3>1, ElementOfSeq
  <2>2. /\ stack' \in Seq(Word) /\ Len(stack') = Len(s) + 2
        /\ \A i \in 1 .. Len(s) + 2 : stack'[i] = stack[i]
    <3>1. /\ 1 \in Int /\ Len(s) + 2 \in Int /\ 1 <= Len(s) + 2
          /\ (Len(s) + 2) - 1 + 1 = Len(s) + 2
          /\ \A i \in 1 .. Len(s) + 2 : 1 + i - 1 = i
      BY <1>1
    <3>. DEFINE m == Len(s) + 2
    <3>2. /\ SubSeq(stack, 1, m) \in Seq(Word)
          /\ Len(SubSeq(stack, 1, m)) = IF 1 <= m THEN m - 1 + 1 ELSE 0
          /\ \A i \in 1 .. m - 1 + 1 : SubSeq(stack, 1, m)[i] = stack[1 + i - 1]
      <4>1. \A i \in 1 .. m : stack[i] \in Word
        BY <2>1
      <4>. QED
        BY <3>1, <4>1, SubSeqProperties
    <3>. QED
      BY <1>4, <3>1, <3>2
  <2>. HIDE DEF n
  <2>3. n \in Seq(Word) /\ Len(n) = Len(stack') /\ \A i \in 1 .. Len(stack') : stack'[i] = n[i]
    BY <1>1, <2>2 DEF n
  <2>4. stack' = n
    BY <2>2, <2>3, SeqEqual
  <2>. QED
    BY <2>4 DEF n
<1>. QED
  BY <1>3, <1>5

-----------------------------------------------------------------------------
(* What an interrupt builds, and iretq takes down.                         *)

\* The words the processor pushes for a context of the thread: an odd number,
\* with what iretq looks for at their end and the thread's own stack below.
LEMMA BaseWords ==
  ASSUME NEW b \in Contexts
  PROVE  /\ Base(b) \in Odd /\ Len(Base(b)) \in {5, 7}
         /\ Base(b)[Len(Base(b))] = b.at
         /\ Base(b)[Len(Base(b)) - 2] = [interrupts |-> b.intr]
         /\ Base(b)[Len(Base(b)) - 3] = Len(b.stack)
         /\ SubSeq(Base(b), 1, Len(b.stack)) = b.stack
<1>1. /\ b.at \in Word /\ [interrupts |-> b.intr] \in Word /\ b.stack \in Stacks
      /\ 0 \in Word /\ 1 \in Word /\ "ss" \in Word /\ "cs" \in Word
      /\ "thread" \in Word /\ "pad" \in Word
  BY DEF Contexts, Word, Places, Steps, Pc
<1>. DEFINE t == b.stack
            u == Aligned(t)
            x == Pushed(b)
            z == Base(b)
<1>2. /\ u \in Seq(Word) /\ Len(u) \in {0, 2}
      /\ Len(t) \in {0, 1} /\ t \in Seq(Word) /\ Len(t) <= Len(u)
      /\ \A i \in 1 .. Len(t) : u[i] = t[i]
  <2>1. CASE t = <<>>
    <3>1. Len(t) = 0
      BY <2>1
    <3>2. u = <<>>
      BY <2>1, <3>1 DEF Aligned
    <3>3. t \in Seq(Word) /\ u \in Seq(Word) /\ Len(u) = 0
      BY <2>1, <3>2, EmptySeq, Zenon
    <3>4. \A i \in 1 .. Len(t) : u[i] = t[i]
      BY <3>1
    <3>. QED
      BY <3>1, <3>3, <3>4
  <2>2. CASE t = <<"thread">>
    <3>1. Len(t) = 1 /\ Len(t) % 2 # 0 /\ t \in Seq(Word)
      BY <1>1, <2>2
    <3>2. u = Append(t, "pad")
      BY <3>1 DEF Aligned
    <3>3. /\ u \in Seq(Word) /\ Len(u) = Len(t) + 1
          /\ \A i \in 1 .. Len(t) : u[i] = t[i]
      BY <1>1, <3>1, <3>2, AppendProperties
    <3>. QED
      BY <3>1, <3>3
  <2>. QED
    BY <1>1, <2>1, <2>2 DEF Stacks
<1>3. /\ x \in Seq(Word) /\ Len(x) = 5
      /\ x[2] = Len(t) /\ x[3] = [interrupts |-> b.intr] /\ x[5] = b.at
  <2>. DEFINE f == [interrupts |-> b.intr]
              a == b.at
              n == Len(t)
  <2>1. n \in Word /\ f \in Word /\ a \in Word
    BY <1>1, <1>2
  <2>2. x = <<"ss", n, f, "cs", a>>
    BY DEF Pushed
  <2>. HIDE DEF f, a, n, x
  <2>3. /\ x \in Seq(Word) /\ Len(x) = 5
        /\ x[2] = n /\ x[3] = f /\ x[5] = a
    BY <1>1, <2>1, <2>2
  <2>. QED
    BY <2>3 DEF f, a, n
<1>4. z = u \o x
  BY DEF Base
<1>. HIDE DEF u, x, z, t
<1>5. /\ z \in Seq(Word) /\ Len(z) = Len(u) + 5
      /\ \A i \in 1 .. Len(u) + 5 : z[i] = IF i <= Len(u) THEN u[i] ELSE x[i - Len(u)]
  <2>1. /\ z \in Seq(Word) /\ Len(z) = Len(u) + Len(x)
        /\ \A i \in 1 .. Len(u) + Len(x) : z[i] = IF i <= Len(u) THEN u[i] ELSE x[i - Len(u)]
    <3>1. u \in Seq(Word) /\ x \in Seq(Word)
      BY <1>2, <1>3
    <3>2. Joined(u \o x, u, x)
      BY <3>1, Concat
    <3>. QED
      BY <1>4, <3>2 DEF Joined
  <2>. QED
    BY <1>3, <2>1
<1>6. Len(z) \in {5, 7} /\ Len(z) % 2 = 1
  <2>1. Len(z) = 5 \/ Len(z) = 7
    <3>1. Len(z) = Len(u) + 5
      BY <1>5
    <3>2. Len(u) = 0 \/ Len(u) = 2
      BY <1>2
    <3>3. 0 + 5 = 5 /\ 2 + 5 = 7
      OBVIOUS
    <3>. QED
      BY <3>1, <3>2, <3>3, Zenon
  <2>2. 5 % 2 = 1 /\ 7 % 2 = 1
    OBVIOUS
  <2>. QED
    BY <2>1, <2>2
<1>7. z[Len(z)] = x[5] /\ z[Len(z) - 2] = x[3] /\ z[Len(z) - 3] = x[2]
  <2>. DEFINE k == Len(u)
  <2>1. k = 0 \/ k = 2
    BY <1>2
  <2>2. k \in Nat
    BY <2>1
  <2>3. /\ Len(z) = k + 5
        /\ \A i \in 1 .. k + 5 : z[i] = IF i <= k THEN u[i] ELSE x[i - k]
    BY <1>5
  <2>. HIDE DEF k
  <2>4. z[k + 5] = x[5]
    <3>1. k + 5 \in 1 .. k + 5 /\ ~ (k + 5 <= k) /\ (k + 5) - k = 5
      BY <2>2
    <3>2. z[k + 5] = IF k + 5 <= k THEN u[k + 5] ELSE x[(k + 5) - k]
      BY <2>3, <3>1, Zenon
    <3>. QED
      BY <3>1, <3>2, Zenon
  <2>5. z[k + 3] = x[3]
    <3>1. k + 3 \in 1 .. k + 5 /\ ~ (k + 3 <= k) /\ (k + 3) - k = 3
      BY <2>2
    <3>2. z[k + 3] = IF k + 3 <= k THEN u[k + 3] ELSE x[(k + 3) - k]
      BY <2>3, <3>1, Zenon
    <3>. QED
      BY <3>1, <3>2, Zenon
  <2>6. z[k + 2] = x[2]
    <3>1. k + 2 \in 1 .. k + 5 /\ ~ (k + 2 <= k) /\ (k + 2) - k = 2
      BY <2>2
    <3>2. z[k + 2] = IF k + 2 <= k THEN u[k + 2] ELSE x[(k + 2) - k]
      BY <2>3, <3>1, Zenon
    <3>. QED
      BY <3>1, <3>2, Zenon
  <2>7. Len(z) - 2 = k + 3 /\ Len(z) - 3 = k + 2
    <3>1. Len(z) = k + 5
      BY <2>3
    <3>. QED
      BY <2>2, <3>1
  <2>. QED
    BY <2>3, <2>4, <2>5, <2>6, <2>7, Zenon
<1>8. SubSeq(z, 1, Len(t)) = t
  <2>1. \A i \in 1 .. Len(t) : z[i] = t[i] /\ z[i] \in Word
    BY <1>2, <1>5
  <2>. DEFINE m == Len(t)
  <2>2. m \in Nat
    BY <1>2
  <2>3. /\ SubSeq(z, 1, m) \in Seq(Word)
        /\ Len(SubSeq(z, 1, m)) = IF 1 <= m THEN m - 1 + 1 ELSE 0
        /\ \A i \in 1 .. m - 1 + 1 : SubSeq(z, 1, m)[i] = z[1 + i - 1]
    BY <2>1, <2>2, SubSeqProperties
  <2>4. /\ Len(SubSeq(z, 1, m)) = m /\ m - 1 + 1 = m
        /\ \A i \in 1 .. m : 1 + i - 1 = i
    BY <1>2, <2>3
  <2>5. \A i \in 1 .. Len(SubSeq(z, 1, m)) : SubSeq(z, 1, m)[i] = t[i]
    BY <2>1, <2>3, <2>4
  <2>. QED
    BY <1>2, <2>3, <2>4, <2>5, SeqEqual
<1>9. z \in Odd
  BY <1>5, <1>6 DEF Odd
<1>. QED
  BY <1>3, <1>6, <1>7, <1>8, <1>9 DEF z, t

\* The stub's two words: the processor's error code, or the stub's own 0.
LEMMA StubWords ==
  ASSUME NEW s \in Seq(Word), NEW e \in Word, NEW v \in Word
  PROVE  /\ (s \o <<e>>) \o <<v>> = Numbered(s, e, v)
         /\ Append(s \o <<>>, e) \o <<v>> = Numbered(s, e, v)
<1>1. <<e>> \in Seq(Word) /\ <<v>> \in Seq(Word)
  OBVIOUS
<1>2. (s \o <<e>>) \o <<v>> = Numbered(s, e, v)
  <2>1. (s \o <<e>>) \o <<v>> = s \o (<<e>> \o <<v>>)
    BY <1>1, ConcatAssociative
  <2>2. <<e>> \o <<v>> = <<e, v>>
    <3>. DEFINE y == <<e>>
                z == <<v>>
                w == <<e, v>>
    <3>1. y \in Seq(Word) /\ z \in Seq(Word) /\ Len(y) = 1 /\ Len(z) = 1 /\ y[1] = e /\ z[1] = v
      OBVIOUS
    <3>2. w \in Seq(Word) /\ Len(w) = 2 /\ w[1] = e /\ w[2] = v
      OBVIOUS
    <3>. HIDE DEF y, z, w
    <3>3. /\ y \o z \in Seq(Word) /\ Len(y \o z) = Len(y) + Len(z)
          /\ \A i \in 1 .. Len(y) + Len(z) :
               (y \o z)[i] = IF i <= Len(y) THEN y[i] ELSE z[i - Len(y)]
      BY <3>1, Concat DEF Joined
    <3>4. Len(y \o z) = 2 /\ (y \o z)[1] = e /\ (y \o z)[2] = v
      BY <3>1, <3>3
    <3>5. \A i \in 1 .. Len(y \o z) : (y \o z)[i] = w[i]
      BY <3>2, <3>4
    <3>6. y \o z = w
      BY <3>2, <3>3, <3>4, <3>5, SeqEqual
    <3>. QED
      BY <3>6 DEF y, z, w
  <2>. QED
    BY <2>1, <2>2 DEF Numbered
<1>3. s \o <<>> = s /\ Append(s, e) = s \o <<e>>
  BY ConcatEmptySeq, AppendIsConcat
<1>. QED
  BY <1>2, <1>3

\* An interrupt on any stack: what the processor pushes first is again odd.
LEMMA OddAgain ==
  ASSUME NEW t \in Seq(Word), NEW f \in Word, NEW a \in Word
  PROVE  /\ Aligned(t) \o <<"ss", Len(t), f, "cs", a>> \in Odd
         /\ Len(Aligned(t) \o <<"ss", Len(t), f, "cs", a>>) <= Len(t) + 6
<1>. DEFINE u == Aligned(t)
            x == <<"ss", Len(t), f, "cs", a>>
<1>1. u \in Seq(Word) /\ Len(u) % 2 = 0 /\ Len(u) <= Len(t) + 1 /\ Len(u) \in Nat
  <2>1. "pad" \in Word /\ Len(t) \in Nat
    BY DEF Word
  <2>2. Append(t, "pad") \in Seq(Word) /\ Len(Append(t, "pad")) = Len(t) + 1
    BY <2>1, AppendProperties
  <2>3. CASE Len(t) % 2 = 0
    BY <2>1, <2>3 DEF Aligned
  <2>4. CASE Len(t) % 2 # 0
    <3>1. u = Append(t, "pad")
      BY <2>4 DEF Aligned
    <3>2. (Len(t) + 1) % 2 = 0
      BY <2>1, <2>4
    <3>. QED
      BY <2>1, <2>2, <3>1, <3>2
  <2>. QED
    BY <2>3, <2>4
<1>2. x \in Seq(Word) /\ Len(x) = 5
  <2>1. Len(t) \in Word /\ "ss" \in Word /\ "cs" \in Word
    BY LenProperties DEF Word
  <2>. QED
    BY <2>1
<1>. HIDE DEF u, x
<1>3. u \o x \in Seq(Word) /\ Len(u \o x) = Len(u) + 5
  <2>1. u \o x \in Seq(Word) /\ Len(u \o x) = Len(u) + Len(x)
    BY <1>1, <1>2, Concat DEF Joined
  <2>. QED
    BY <1>2, <2>1
<1>4. (Len(u) + 5) % 2 = 1 /\ Len(u) + 5 <= Len(t) + 6
  BY <1>1
<1>5. u \o x \in Odd /\ Len(u \o x) <= Len(t) + 6
  BY <1>3, <1>4 DEF Odd
<1>. QED
  BY <1>5 DEF u, x

-----------------------------------------------------------------------------
(* The inductive invariant.                                                *)

\* Types, and who can be where: no interrupt on top of a handler, no tick that
\* the IDT is not ready for, a way back only for the timer, and after an interrupt
\* without a gate only a general protection fault or the end.
Control ==
  /\ at \in Places
  /\ intr \in BOOLEAN /\ timer \in BOOLEAN /\ pending \in BOOLEAN /\ inService \in BOOLEAN
  /\ regs \in Registers /\ g_ticks \in 0 .. Turns - 1 /\ raised \in Codes
  /\ before \in Contexts
  /\ gates \in {{}, Gates} /\ (timer => gates = Gates) /\ (pending => timer)
  /\ at.step = "apic" => gates = Gates
  /\ InThread => at = Pc(at.step) /\ stack \in Stacks
  /\ Interrupted => ~intr /\ gates = Gates
  /\ at.step = "lost" => gates = {} /\ ungated \subseteq 0 .. 31 /\ stack \in Stacks
  /\ at.step # "lost" => ungated \subseteq {SpuriousVector}
  /\ at.step # "lost" /\ ungated # {} => at.vector = GeneralProtection
  /\ at.step \in {"irq_handler", "popall", "drop"} => at.vector = TimerVector
  /\ at.step \in {"exception_handler", "halted"} => at.vector # TimerVector

\* The timer's frame stands on the thread's stack and holds the thread's context.
TimerFrame ==
  Interrupted /\ at.vector = TimerVector =>
    /\ at.step = "stub" => stack = Base(before)
    /\ at.step \in {"pushall", "drop"} => stack = Numbered(Base(before), 0, TimerVector)
    /\ at.step \in {"irq_handler", "popall"} =>
         stack = Whole(Base(before), 0, TimerVector, before.regs)
    /\ at.step # "popall" => regs = before.regs
    /\ at.step \in {"stub", "pushall", "irq_handler"} => raised = 0

\* An exception's stands on a stack of which only the parity matters, for it is
\* never left again; at most the timer's frame is below.
ErrorCode == IF at.vector \in PushesError THEN <<raised>> ELSE <<>>
FaultFrame ==
  Interrupted /\ at.vector # TimerVector =>
    \E s \in Odd :
      /\ Len(s) <= 30
      /\ at.step = "stub" => stack = s \o ErrorCode /\ (at.vector \in PushesError \/ raised = 0)
      /\ at.step = "pushall" => stack = Numbered(s, raised, at.vector)
      /\ at.step = "exception_handler" => stack = Whole(s, raised, at.vector, regs)
      /\ at.step = "halted" => Len(stack) <= 47

Inv == Control /\ TimerFrame /\ FaultFrame

\* The step that Jump makes.
LEMMA JumpAt ==
  ASSUME at \in Places, NEW step \in Steps, Jump(step)
  PROVE  at' \in Places /\ at'.step = step /\ at'.vector = at.vector
BY DEF Jump, Places

\* Where kmain can be.
LEMMA PcAt ==
  ASSUME NEW step \in Thread
  PROVE  /\ Pc(step) \in Places /\ Pc(step).step = step
         /\ Pc(step).vector = TimerVector /\ Pc(step).step # "lost"
BY DEF Pc, Places, Steps, Thread

\* The processor is in the thread, in a handler or lost, in one of them only.
LEMMA Whereabouts ==
  ASSUME at \in Places
  PROVE  /\ InThread \/ Interrupted \/ at.step = "lost"
         /\ Interrupted => ~InThread /\ at.step # "lost"
         /\ InThread => at.step # "lost"
BY DEF Places, Steps, InThread, Interrupted, Thread, Handlers

\* The words that go on the stack.
LEMMA TheWords ==
  /\ 0 \in Word /\ TimerVector \in Word /\ Codes \subseteq Word /\ 0 .. 31 \subseteq Word
  /\ Places \subseteq Word /\ \A b \in BOOLEAN : [interrupts |-> b] \in Word
BY DEF Word, TimerVector

\* The kernel starts so.
LEMMA InvInit == Init => Inv
<1>. SUFFICES ASSUME Init PROVE Inv
  OBVIOUS
<1>1. "checks" \in Thread /\ at = Pc("checks") /\ InThread
  BY PcAt DEF Init, Thread, InThread
<1>2. regs \in Registers
  BY TrapAssumption DEF Init, Registers, Values
<1>3. before \in Contexts
  BY <1>1, <1>2 DEF Init, Context, Contexts, Stacks
<1>4. Control
  <2>1. at \in Places /\ at.step # "lost" /\ at.step = "checks"
    BY <1>1, PcAt
  <2>2. /\ intr \in BOOLEAN /\ timer \in BOOLEAN /\ pending \in BOOLEAN /\ inService \in BOOLEAN
        /\ g_ticks \in 0 .. Turns - 1 /\ raised \in Codes /\ stack \in Stacks
        /\ ungated = {} /\ gates \in {{}, Gates} /\ ~timer /\ ~pending
    <3>1. 0 \in 0 .. Turns - 1 /\ 0 \in Codes
      BY TrapAssumption DEF Codes
    <3>. QED
      BY <3>1, Zenon DEF Init, Stacks
  <2>. QED
    BY <1>1, <1>2, <1>3, <2>1, <2>2, Whereabouts DEF Control
<1>. QED
  BY <1>1, <1>4, Whereabouts DEF Inv, Control, TimerFrame, FaultFrame

\* What kmain does, and the timer's next tick, happen with no frame on the stack
\* or leave it alone.
LEMMA InvKmain == ASSUME Inv, Kmain PROVE Inv'
<1>. USE DEF Inv
<1>1. CASE Work
  <2>1. /\ at.step = "shell" /\ at' = at /\ InThread /\ InThread'
        /\ at.step \notin Handlers \cup {"lost"} /\ ~Interrupted /\ ~Interrupted'
    BY <1>1 DEF Work, InThread, Interrupted, Thread, Handlers
  <2>2. regs' \in Registers
    BY <1>1 DEF Work, Registers, Values
  <2>3. stack' \in Stacks
    BY <1>1 DEF Work, Stacks
  <2>4. Control'
    BY <1>1, <2>1, <2>2, <2>3 DEF Work, Control, lapic, ghosts
  <2>. QED
    BY <2>1, <2>4 DEF TimerFrame, FaultFrame
<1>2. ASSUME NEW p \in Thread, NEW q \in Thread, Then(p, q),
             intr' \in BOOLEAN, timer' \in BOOLEAN, gates' \in {gates, Gates},
             timer => timer', timer' => gates' = Gates, q = "apic" => gates' = Gates
      PROVE  Inv'
  <2>1. /\ at = Pc(p) /\ at' = Pc(q) /\ at'.step = q /\ at' \in Places
        /\ at'.step # "lost"
    BY <1>2, PcAt DEF Then
  <2>2. InThread /\ InThread' /\ ~Interrupted /\ ~Interrupted' /\ at.step # "lost"
    <3>1. at.step \in Thread /\ at'.step \in Thread
      BY <1>2, <2>1, PcAt
    <3>. QED
      BY <3>1 DEF InThread, Interrupted, Thread, Handlers
  <2>3. Control'
    <3>1. /\ regs' = regs /\ stack' = stack /\ pending' = pending /\ inService' = inService
          /\ g_ticks' = g_ticks /\ before' = before /\ raised' = raised
          /\ ungated' = ungated
      BY <1>2 DEF Then, ghosts
    <3>2. gates' \in {{}, Gates} /\ (pending' => timer')
      BY <1>2, <3>1 DEF Control
    <3>3. at'.step \notin {"irq_handler", "popall", "drop", "exception_handler", "halted"}
      BY <2>1 DEF Thread
    <3>4. ungated = {} \/ at.vector = GeneralProtection
      BY <2>2 DEF Control
    <3>5. at.vector # GeneralProtection
      BY <1>2, <2>1, PcAt DEF TimerVector, GeneralProtection
    <3>. QED
      BY <1>2, <2>1, <2>2, <3>1, <3>2, <3>3, <3>4, <3>5 DEF Control
  <2>. QED
    BY <2>2, <2>3 DEF TimerFrame, FaultFrame
<1>3. /\ intr \in BOOLEAN /\ timer \in BOOLEAN /\ gates \in {{}, Gates}
      /\ (timer => gates = Gates)
  BY DEF Control
<1>4. {"checks", "idt", "apic", "kbd", "sti", "shell", "hcf"} \subseteq Thread
  BY DEF Thread
<1>5. CASE Checks
  BY <1>2, <1>3, <1>4, <1>5 DEF Checks
<1>6. CASE IdtInit
  BY <1>2, <1>3, <1>4, <1>6 DEF IdtInit
<1>7. CASE ApicInit
  <2>1. gates = Gates
    BY <1>4, <1>7, PcAt DEF ApicInit, Then, Control
  <2>. QED
    BY <1>2, <1>3, <1>4, <1>7, <2>1 DEF ApicInit
<1>8. CASE KbdInit \/ ShellReturns
  BY <1>2, <1>3, <1>4, <1>8 DEF KbdInit, ShellReturns
<1>9. CASE Sti
  BY <1>2, <1>3, <1>4, <1>9 DEF Sti
<1>. QED
  BY <1>1, <1>5, <1>6, <1>7, <1>8, <1>9 DEF Kmain, Boot

\* An interrupt of the thread: its context is taken, its frame begins. A fault
\* in irq_handler begins one on top of the timer's.
LEMMA InvEnter ==
  ASSUME Inv, NEW v \in (0 .. 31) \cup {TimerVector}, NEW e \in Codes,
         Enter(v, e), UNCHANGED <<regs, gates, timer, g_ticks>>, gates = Gates,
         InThread \/ (at.step = "irq_handler" /\ v # TimerVector),
         ungated' \subseteq {SpuriousVector}, ungated' # {} => v = GeneralProtection,
         pending' \in BOOLEAN, pending' => pending, inService' \in BOOLEAN
  PROVE  Inv'
<1>. USE DEF Inv
<1>0. /\ at.step # "lost" /\ (InThread \/ Interrupted) /\ (Interrupted <=> ~InThread)
      /\ (~InThread => at.vector = TimerVector /\ at.step = "irq_handler")
  BY Whereabouts DEF Control, Handlers, Interrupted
<1>1. /\ at' = In("stub", v) /\ at' \in Places /\ at'.step = "stub" /\ at'.vector = v
      /\ "stub" \in Steps /\ "stub" \notin Thread
  BY DEF Enter, In, Places, Steps, Handlers, Thread
<1>2. intr' = FALSE /\ Interrupted' /\ ~InThread'
  BY <1>1 DEF Enter, ClearsIF, Interrupted, Handlers, InThread
<1>3. raised' = (IF v \in PushesError THEN e ELSE 0) /\ raised' \in Codes
  BY TrapAssumption DEF Enter, Codes
<1>4. UNCHANGED <<regs, gates, timer, g_ticks>>
  OBVIOUS
<1>5. before' \in Contexts /\ (InThread => before' = Context) /\ (~InThread => before' = before)
  <2>1. InThread => Context \in Contexts
    BY DEF Control, Context, Contexts, InThread
  <2>. QED
    BY <2>1 DEF Enter, Control
<1>6. Control'
  <2>1. at'.step \notin {"apic", "lost", "irq_handler", "popall", "drop", "exception_handler", "halted"}
    BY <1>1
  <2>2. ungated' # {} => at'.vector = GeneralProtection
    BY <1>1
  <2>3. gates' = Gates /\ gates' \in {{}, Gates} /\ (pending' => timer')
    BY <1>4 DEF Control
  <2>4. /\ regs' \in Registers /\ g_ticks' \in 0 .. Turns - 1 /\ timer' \in BOOLEAN
        /\ intr' \in BOOLEAN
    BY <1>2, <1>4 DEF Control
  <2>. QED
    BY <1>1, <1>2, <1>3, <1>5, <2>1, <2>2, <2>3, <2>4 DEF Control
<1>7. TimerVector \notin PushesError
  BY DEF TimerVector, PushesError
<1>8. TimerFrame'
  <2>. SUFFICES ASSUME v = TimerVector
       PROVE  stack' = Base(before') /\ regs' = before'.regs /\ raised' = 0
    BY <1>1 DEF TimerFrame
  <2>1. InThread /\ before' = Context
    BY <1>5
  <2>2. Context.stack = stack /\ Context.intr = intr /\ Context.at = at /\ Context.regs = regs
    BY DEF Context
  <2>3. stack' = (Aligned(stack) \o <<"ss", Len(stack), Rflags, "cs", at>>) \o <<>>
    BY <1>7 DEF Enter
  <2>4. Base(Context) = Aligned(stack) \o <<"ss", Len(stack), Rflags, "cs", at>>
    BY <2>2 DEF Base, Pushed, Rflags
  <2>5. Base(Context) \in Seq(Word)
    BY <1>5, <2>1, BaseWords DEF Odd
  <2>6. stack' = Base(Context)
    BY <2>3, <2>4, <2>5, ConcatEmptySeq
  <2>. QED
    BY <1>3, <1>4, <1>7, <2>1, <2>2, <2>6
<1>9. FaultFrame'
  <2>. SUFFICES ASSUME v # TimerVector
       PROVE  \E s \in Odd :
                /\ Len(s) <= 30
                /\ stack' = s \o ErrorCode' /\ (v \in PushesError \/ raised' = 0)
    BY <1>1 DEF FaultFrame
  <2>. DEFINE s == Aligned(stack) \o <<"ss", Len(stack), Rflags, "cs", at>>
  <2>1. stack \in Seq(Word) /\ Len(stack) <= 24
    <3>1. CASE InThread
      <4>1. "thread" \in Word /\ stack \in Stacks
        BY <3>1 DEF Word, Control
      <4>2. <<>> \in Seq(Word) /\ Len(<<>>) <= 24
        OBVIOUS
      <4>3. <<"thread">> \in Seq(Word) /\ Len(<<"thread">>) <= 24
        BY <4>1
      <4>4. stack = <<>> \/ stack = <<"thread">>
        BY <4>1 DEF Stacks
      <4>. QED
        BY <4>2, <4>3, <4>4, Zenon
    <3>2. CASE ~InThread
      <4>1. stack = Whole(Base(before), 0, TimerVector, before.regs)
        BY <1>0, <3>2 DEF Control, TimerFrame
      <4>2. /\ Base(before) \in Seq(Word) /\ Len(Base(before)) <= 7
            /\ Len(Base(before)) \in Nat /\ before.regs \in Registers
        <5>1. before \in Contexts /\ before.regs \in Registers
          BY DEF Control, Contexts
        <5>2. Base(before) \in Odd /\ Len(Base(before)) \in {5, 7}
          BY <5>1, BaseWords
        <5>3. Base(before) \in Seq(Word)
          BY <5>2 DEF Odd
        <5>4. \A n \in {5, 7} : n <= 7 /\ n \in Nat
          OBVIOUS
        <5>. QED
          BY <5>1, <5>2, <5>3, <5>4, Zenon
      <4>3. Stacked(stack, Base(before), 0, TimerVector, before.regs)
        BY <4>1, <4>2, TheWords, WholeWords
      <4>4. stack \in Seq(Word) /\ Len(stack) = Len(Base(before)) + 17
        BY <4>3 DEF Stacked
      <4>. QED
        BY <4>2, <4>4
    <3>. QED
      BY <3>1, <3>2
  <2>2. Rflags \in Word /\ at \in Word
    BY TheWords DEF Rflags, Control
  <2>3. s \in Odd /\ Len(s) <= Len(stack) + 6
    BY <2>1, <2>2, OddAgain
  <2>4. Len(s) <= 30
    BY <2>1, <2>3 DEF Odd
  <2>5. stack' = s \o (IF v \in PushesError THEN <<e>> ELSE <<>>)
    BY DEF Enter
  <2>6. ErrorCode' = IF v \in PushesError THEN <<e>> ELSE <<>>
    BY <1>1, <1>3 DEF ErrorCode
  <2>7. stack' = s \o ErrorCode'
    BY <2>5, <2>6
  <2>. HIDE DEF s
  <2>. QED
    BY <1>3, <2>3, <2>4, <2>7
<1>. QED
  BY <1>6, <1>8, <1>9

\* An interrupt with its gate or, once the IDT is loaded, without it.
LEMMA InvDeliver ==
  ASSUME Inv, NEW v \in (0 .. 31) \cup {TimerVector}, NEW e \in ErrorCodes, Deliver(v, e),
         v \in gates, InThread \/ (at.step = "irq_handler" /\ v # TimerVector),
         pending' \in BOOLEAN, pending' => pending, inService' \in BOOLEAN
  PROVE  Inv'
<1>1. /\ Enter(v, e) /\ ungated' = ungated /\ UNCHANGED <<regs, gates, timer, g_ticks>>
      /\ gates = Gates /\ e \in Codes
  BY DEF Deliver, Codes, Inv, Control
<1>2. ungated = {}
  <2>1. at.step # "lost" /\ at.vector = TimerVector
    <3>1. CASE InThread
      BY <3>1, PcAt, Whereabouts DEF Inv, Control, InThread
    <3>2. CASE at.step = "irq_handler"
      BY <3>2 DEF Inv, Control
    <3>. QED
      BY <3>1, <3>2
  <2>. QED
    BY <2>1 DEF Inv, Control, TimerVector, GeneralProtection
<1>. QED
  BY <1>1, <1>2, InvEnter

\* The spurious vector has no gate: its interrupt is a general protection fault.
LEMMA InvSpurious == ASSUME Inv, Spurious PROVE Inv'
<1>1. /\ timer /\ intr /\ gates = Gates /\ at \in Places /\ pending \in BOOLEAN /\ inService \in BOOLEAN
      /\ pending' = pending /\ inService' = inService /\ Deliver(SpuriousVector, 0)
  BY DEF Spurious, Inv, Control
<1>2. InThread /\ ungated = {}
  <2>1. ~Interrupted /\ at.step # "lost"
    <3>1. Gates # {}
      BY DEF Gates
    <3>. QED
      BY <1>1, <3>1 DEF Inv, Control
  <2>2. InThread
    BY <1>1, <2>1, Whereabouts
  <2>3. at.vector = TimerVector
    BY <2>2, PcAt DEF Inv, Control, InThread
  <2>. QED
    BY <2>1, <2>2, <2>3 DEF Inv, Control, TimerVector, GeneralProtection
<1>3. SpuriousVector \notin Gates /\ GeneralProtection \in Gates
  BY DEF SpuriousVector, GeneralProtection, Gates, TimerVector
<1>4. /\ Enter(GeneralProtection, NoGate(SpuriousVector)) /\ ungated' = {SpuriousVector}
      /\ UNCHANGED <<regs, gates, timer, g_ticks>>
  BY <1>1, <1>2, <1>3 DEF Deliver
<1>5. GeneralProtection \in (0 .. 31) \cup {TimerVector} /\ NoGate(SpuriousVector) \in Codes
  BY DEF GeneralProtection, Codes
<1>. QED
  BY <1>1, <1>2, <1>4, <1>5, InvEnter

\* What the invariant says of the frame below, once.
LEMMA BaseKnown ==
  ASSUME Inv
  PROVE  /\ Base(before) \in Odd /\ Base(before) \in Seq(Word) /\ before.regs \in Registers
         /\ Base(before)[Len(Base(before))] = before.at
         /\ Base(before)[Len(Base(before)) - 2] = [interrupts |-> before.intr]
         /\ Base(before)[Len(Base(before)) - 3] = Len(before.stack)
         /\ SubSeq(Base(before), 1, Len(before.stack)) = before.stack
<1>1. before \in Contexts /\ before.regs \in Registers
  BY DEF Inv, Control, Contexts
<1>. QED
  BY <1>1, BaseWords DEF Odd

\* A step from one point of a handler to another keeps all that Control says,
\* if it leaves what Control speaks of alone.
LEMMA ControlJump ==
  ASSUME Control, Interrupted, NEW step \in Handlers, Jump(step),
         step \in {"irq_handler", "popall", "drop"} => at.vector = TimerVector,
         step \in {"exception_handler", "halted"} => at.vector # TimerVector,
         UNCHANGED <<intr, gates, timer, pending, raised, before, ungated>>,
         inService' \in BOOLEAN, regs' \in Registers, g_ticks' \in 0 .. Turns - 1
  PROVE  /\ Control' /\ Interrupted' /\ at'.step = step /\ at'.vector = at.vector
         /\ before' = before /\ raised' = raised
<1>1. at' \in Places /\ at'.step = step /\ at'.vector = at.vector
  BY JumpAt DEF Control, Steps
<1>2. /\ Interrupted' /\ ~InThread' /\ step # "apic" /\ step # "lost"
      /\ at.step # "lost"
  BY <1>1 DEF InThread, Interrupted, Thread, Handlers
<1>. QED
  BY <1>1, <1>2 DEF Control

\* The stub completes the frame's last two words.
LEMMA InvStub == ASSUME Inv, Stub PROVE Inv'
<1>. USE DEF Inv
<1>1. at.step = "stub" /\ Interrupted /\ "pushall" \in Handlers
  BY DEF Stub, Interrupted, Handlers
<1>2. UNCHANGED <<intr, regs, gates, timer, pending, inService, g_ticks, before, raised, ungated>>
  BY DEF Stub, lapic, ghosts
<1>3. /\ Control' /\ Interrupted' /\ at'.step = "pushall" /\ at'.vector = at.vector
      /\ before' = before /\ raised' = raised /\ regs' = regs
  <2>1. /\ Jump("pushall") /\ inService' \in BOOLEAN /\ regs' \in Registers
        /\ g_ticks' \in 0 .. Turns - 1
    BY <1>2 DEF Stub, Control
  <2>. QED
    BY <1>1, <1>2, <2>1, ControlJump
<1>4. raised \in Word /\ 0 \in Word /\ at.vector \in Word /\ TimerVector \in Word
  BY TheWords DEF Control, Places
<1>5. \A w : w \in IsrErr <=> w \in PushesError
  BY DEF IsrErr, PushesError
<1>6. TimerVector \notin IsrErr
  BY DEF TimerVector, IsrErr
<1>7. TimerFrame'
  <2>. SUFFICES ASSUME at.vector = TimerVector
       PROVE  /\ stack' = Numbered(Base(before), 0, TimerVector) /\ regs = before.regs /\ raised = 0
    BY <1>3 DEF TimerFrame
  <2>1. stack = Base(before) /\ regs = before.regs /\ raised = 0
    BY <1>1 DEF TimerFrame
  <2>2. stack' = Append(stack, 0) \o <<TimerVector>>
    BY <1>6 DEF Stub
  <2>3. stack \in Seq(Word) /\ stack \o <<>> = stack
    BY <2>1, BaseKnown, ConcatEmptySeq
  <2>4. Append(stack \o <<>>, 0) \o <<TimerVector>> = Numbered(stack, 0, TimerVector)
    BY <1>4, <2>3, StubWords
  <2>. QED
    BY <2>1, <2>2, <2>3, <2>4
<1>8. FaultFrame'
  <2>. SUFFICES ASSUME at.vector # TimerVector
       PROVE  \E s \in Odd : Len(s) <= 30 /\ stack' = Numbered(s, raised, at.vector)
    BY <1>3 DEF FaultFrame
  <2>1. PICK s \in Odd :
          /\ Len(s) <= 30
          /\ stack = s \o ErrorCode /\ (at.vector \in PushesError \/ raised = 0)
    BY <1>1 DEF FaultFrame
  <2>2. s \in Seq(Word)
    BY DEF Odd
  <2>3. /\ (s \o <<raised>>) \o <<at.vector>> = Numbered(s, raised, at.vector)
        /\ Append(s \o <<>>, raised) \o <<at.vector>> = Numbered(s, raised, at.vector)
    BY <1>4, <2>2, StubWords
  <2>4. CASE at.vector \in PushesError
    <3>1. ErrorCode = <<raised>> /\ at.vector \in IsrErr
      BY <1>5, <2>4 DEF ErrorCode
    <3>2. stack' = stack \o <<at.vector>>
      BY <3>1 DEF Stub
    <3>3. stack' = Numbered(s, raised, at.vector)
      BY <2>1, <2>3, <3>1, <3>2
    <3>. QED
      BY <2>1, <3>3
  <2>5. CASE at.vector \notin PushesError
    <3>1. ErrorCode = <<>> /\ at.vector \notin IsrErr
      BY <1>5, <2>5 DEF ErrorCode
    <3>2. raised = 0
      BY <2>1, <2>5
    <3>3. stack' = Append(stack, 0) \o <<at.vector>>
      BY <3>1 DEF Stub
    <3>4. stack = s \o <<>>
      BY <2>1, <3>1
    <3>5. stack' = Numbered(s, raised, at.vector)
      BY <2>3, <3>2, <3>3, <3>4
    <3>. QED
      BY <2>1, <3>5
  <2>. QED
    BY <2>1, <2>4, <2>5
<1>. QED
  BY <1>3, <1>7, <1>8

\* pushall puts the registers on it.
LEMMA InvPushall == ASSUME Inv, Pushall PROVE Inv'
<1>. USE DEF Inv
<1>. DEFINE next == IF at.vector < 32 THEN "exception_handler" ELSE "irq_handler"
<1>1. at.step = "pushall" /\ Interrupted /\ next \in Handlers
  BY DEF Pushall, Interrupted, Handlers
<1>2. UNCHANGED <<intr, regs, gates, timer, pending, inService, g_ticks, before, raised, ungated>>
  BY DEF Pushall, lapic, ghosts
<1>3. /\ next = "irq_handler" => at.vector = TimerVector
      /\ next = "exception_handler" => at.vector # TimerVector
      /\ next \in {"irq_handler", "exception_handler"}
  BY DEF Control, Places, TimerVector
<1>4. /\ Control' /\ Interrupted' /\ at'.step = next /\ at'.vector = at.vector
      /\ before' = before /\ raised' = raised /\ regs' = regs
  <2>1. /\ Jump(next) /\ inService' \in BOOLEAN /\ regs' \in Registers
        /\ g_ticks' \in 0 .. Turns - 1
    BY <1>2 DEF Pushall, Control
  <2>2. next \notin {"popall", "drop", "halted"}
    BY <1>3
  <2>. HIDE DEF next
  <2>. QED
    BY <1>1, <1>2, <1>3, <2>1, <2>2, ControlJump
<1>. HIDE DEF next
<1>5. stack' = stack \o Saved(regs)
  BY DEF Pushall, Saved
<1>6. TimerFrame'
  <2>. SUFFICES ASSUME at.vector = TimerVector
       PROVE  /\ stack' = Whole(Base(before), 0, TimerVector, before.regs)
              /\ regs = before.regs /\ raised = 0
    BY <1>3, <1>4 DEF TimerFrame
  <2>1. stack = Numbered(Base(before), 0, TimerVector) /\ regs = before.regs /\ raised = 0
    BY <1>1 DEF TimerFrame
  <2>. QED
    BY <1>5, <2>1 DEF Whole
<1>7. FaultFrame'
  <2>. SUFFICES ASSUME at.vector # TimerVector
       PROVE  \E s \in Odd : Len(s) <= 30 /\ stack' = Whole(s, raised, at.vector, regs)
    BY <1>3, <1>4 DEF FaultFrame
  <2>1. PICK s \in Odd : Len(s) <= 30 /\ stack = Numbered(s, raised, at.vector)
    BY <1>1 DEF FaultFrame
  <2>2. stack' = Whole(s, raised, at.vector, regs)
    BY <1>5, <2>1 DEF Whole
  <2>. QED
    BY <2>1, <2>2
<1>. QED
  BY <1>4, <1>6, <1>7

\* irq_handler may leave what it likes in the registers: they are on the stack.
LEMMA InvIrqHandler == ASSUME Inv, IrqHandler PROVE Inv'
<1>. USE DEF Inv
<1>1. at.step = "irq_handler" /\ Interrupted /\ at.vector = TimerVector /\ "popall" \in Handlers
  BY DEF IrqHandler, Interrupted, Handlers, Control
<1>2. UNCHANGED <<intr, stack, gates, timer, pending, before, raised, ungated>>
  BY DEF IrqHandler, ghosts
<1>3. inService' \in BOOLEAN /\ g_ticks' \in 0 .. Turns - 1
  <2>1. inService' = FALSE
    BY DEF IrqHandler, Acknowledge
  <2>2. Turns \in Nat \ {0} /\ g_ticks \in Nat
    BY TrapAssumption DEF Control
  <2>3. (g_ticks + 1) % Turns \in 0 .. Turns - 1
    BY <2>2
  <2>. QED
    BY <2>1, <2>3 DEF IrqHandler
<1>4. regs' \in Registers
  <2>1. Junk \in Values
    BY DEF Values
  <2>2. regs' = [r \in Names |-> IF r \in CalleeSaved THEN regs[r] ELSE Junk]
    BY DEF IrqHandler, CallC
  <2>3. \A r \in Names : regs[r] \in Values
    BY DEF Control, Registers
  <2>. QED
    BY <2>1, <2>2, <2>3 DEF Registers
<1>5. /\ Control' /\ Interrupted' /\ at'.step = "popall" /\ at'.vector = at.vector
      /\ before' = before /\ raised' = raised
  <2>1. Jump("popall")
    BY DEF IrqHandler
  <2>. QED
    BY <1>1, <1>2, <1>3, <1>4, <2>1, ControlJump
<1>6. stack = Whole(Base(before), 0, TimerVector, before.regs)
  BY <1>1 DEF TimerFrame
<1>7. TimerFrame'
  BY <1>1, <1>2, <1>5, <1>6 DEF TimerFrame
<1>. QED
  BY <1>1, <1>5, <1>7 DEF FaultFrame

\* exception_handler goes nowhere from there.
LEMMA InvExceptionHandler == ASSUME Inv, ExceptionHandler PROVE Inv'
<1>. USE DEF Inv
<1>1. /\ at.step = "exception_handler" /\ Interrupted /\ at.vector # TimerVector
      /\ "halted" \in Handlers
  BY DEF ExceptionHandler, Interrupted, Handlers, Control
<1>2. UNCHANGED <<intr, stack, gates, timer, pending, inService, g_ticks, before, raised, ungated>>
  BY DEF ExceptionHandler, lapic, ghosts
<1>3. inService' \in BOOLEAN /\ g_ticks' \in 0 .. Turns - 1
  BY <1>2 DEF Control
<1>4. regs' \in Registers
  <2>1. Junk \in Values
    BY DEF Values
  <2>2. regs' = [r \in Names |-> IF r \in CalleeSaved THEN regs[r] ELSE Junk]
    BY DEF ExceptionHandler, CallC
  <2>3. \A r \in Names : regs[r] \in Values
    BY DEF Control, Registers
  <2>. QED
    BY <2>1, <2>2, <2>3 DEF Registers
<1>5. /\ Control' /\ Interrupted' /\ at'.step = "halted" /\ at'.vector = at.vector
      /\ before' = before /\ raised' = raised
  <2>1. Jump("halted")
    BY DEF ExceptionHandler
  <2>. QED
    BY <1>1, <1>2, <1>3, <1>4, <2>1, ControlJump
<1>6. PICK s \in Odd : Len(s) <= 30 /\ stack = Whole(s, raised, at.vector, regs)
  BY <1>1 DEF FaultFrame
<1>7. Len(stack) <= 47
  <2>1. s \in Seq(Word) /\ raised \in Word /\ at.vector \in Word /\ regs \in Registers
    BY TheWords DEF Odd, Control, Places
  <2>2. Stacked(stack, s, raised, at.vector, regs)
    BY <1>6, <2>1, WholeWords
  <2>3. Len(stack) = Len(s) + 17 /\ Len(s) \in Nat
    BY <2>2 DEF Stacked
  <2>. QED
    BY <1>6, <2>3
<1>8. FaultFrame'
  BY <1>2, <1>5, <1>6, <1>7 DEF FaultFrame
<1>. QED
  BY <1>1, <1>5, <1>8 DEF TimerFrame

\* popall puts back what the thread had.
LEMMA InvPopall == ASSUME Inv, Popall PROVE Inv'
<1>. USE DEF Inv
<1>1. at.step = "popall" /\ Interrupted /\ at.vector = TimerVector /\ "drop" \in Handlers
  BY DEF Popall, Interrupted, Handlers, Control
<1>2. UNCHANGED <<intr, gates, timer, pending, inService, g_ticks, before, raised, ungated>>
  BY DEF Popall, lapic, ghosts
<1>3. inService' \in BOOLEAN /\ g_ticks' \in 0 .. Turns - 1
  BY <1>2 DEF Control
<1>4. stack = Whole(Base(before), 0, TimerVector, before.regs)
  BY <1>1 DEF TimerFrame
<1>5. regs' = before.regs /\ stack' = Numbered(Base(before), 0, TimerVector)
  BY <1>4, BaseKnown, TheWords, PopRead
<1>6. regs' \in Registers
  BY <1>5, BaseKnown
<1>7. /\ Control' /\ Interrupted' /\ at'.step = "drop" /\ at'.vector = at.vector
      /\ before' = before /\ raised' = raised
  <2>1. Jump("drop")
    BY DEF Popall
  <2>. QED
    BY <1>1, <1>2, <1>3, <1>6, <2>1, ControlJump
<1>8. TimerFrame'
  BY <1>1, <1>5, <1>7 DEF TimerFrame
<1>. QED
  BY <1>1, <1>7, <1>8 DEF FaultFrame

\* iretq: the thread is where it was, with the IF, the registers and the stack
\* it had.
LEMMA IretqReturns == ASSUME Inv, Iretq PROVE Context' = before /\ before' = before
<1>1. at.step = "drop" /\ Interrupted /\ at.vector = TimerVector
  BY DEF Iretq, Interrupted, Handlers, Inv, Control
<1>2. stack = Numbered(Base(before), 0, TimerVector) /\ regs = before.regs
  BY <1>1 DEF Inv, TimerFrame
<1>. DEFINE z == Base(before)
            n == Len(stack) - 2
<1>3. /\ z \in Seq(Word) /\ Len(z) \in {5, 7} /\ z[Len(z)] = before.at
      /\ z[Len(z) - 2] = [interrupts |-> before.intr]
      /\ z[Len(z) - 3] = Len(before.stack) /\ SubSeq(z, 1, Len(before.stack)) = before.stack
  <2>1. before \in Contexts
    BY DEF Inv, Control
  <2>. QED
    BY <2>1, BaseWords DEF Odd
<1>4. /\ stack \in Seq(Word) /\ n = Len(z) /\ Len(z) \in Nat
      /\ \A i \in 1 .. Len(z) : stack[i] = z[i]
  <2>1. Stacked(Whole(z, 0, TimerVector, before.regs), z, 0, TimerVector, before.regs)
    BY <1>3, BaseKnown, TheWords, WholeWords
  <2>2. Len(z) \in Nat /\ stack \in Seq(Word) /\ Len(stack) = Len(z) + 2
    BY <1>2, <2>1 DEF Stacked
  <2>3. \A i \in 1 .. Len(z) : stack[i] = z[i]
    <3>. DEFINE y == <<0, TimerVector>>
    <3>1. y \in Seq(Word) /\ Len(y) = 2
      BY TheWords
    <3>2. stack = z \o y
      BY <1>2 DEF Numbered
    <3>. HIDE DEF y, z
    <3>3. z \in Seq(Word)
      BY <1>3
    <3>4. \A i \in 1 .. Len(z) + Len(y) : (z \o y)[i] = IF i <= Len(z) THEN z[i] ELSE y[i - Len(z)]
      BY <3>1, <3>3, Concat DEF Joined
    <3>. QED
      BY <2>2, <3>1, <3>2, <3>4
  <2>. QED
    BY <2>2, <2>3
<1>. HIDE DEF z, n
<1>5. /\ Len(z) - 2 \in 1 .. Len(z) /\ Len(z) - 3 \in 1 .. Len(z) /\ Len(z) \in 1 .. Len(z)
  <2>1. Len(z) = 5 \/ Len(z) = 7
    BY <1>3
  <2>. QED
    BY <2>1
<1>6. /\ stack[n] = before.at /\ stack[n - 2] = [interrupts |-> before.intr]
      /\ stack[n - 3] = Len(before.stack)
  BY <1>3, <1>4, <1>5
<1>7. at' = before.at /\ intr' = before.intr
  BY <1>6 DEF Iretq, n
<1>8. stack' = SubSeq(stack, 1, Len(before.stack))
  BY <1>6 DEF Iretq, n
<1>9. SubSeq(stack, 1, Len(before.stack)) = SubSeq(z, 1, Len(before.stack))
  <2>. DEFINE m == Len(before.stack)
  <2>1. m \in 0 .. 1 /\ m <= Len(z)
    <3>1. before.stack \in Stacks
      BY DEF Inv, Control, Contexts
    <3>2. Len(<<>>) = 0 /\ Len(<<"thread">>) = 1
      OBVIOUS
    <3>3. m = 0 \/ m = 1
      BY <3>1, <3>2 DEF Stacks
    <3>. QED
      BY <1>3, <3>3
  <2>. HIDE DEF m
  <2>2. \A i \in 1 .. m : stack[i] = z[i] /\ i \in 1 .. Len(z)
    BY <1>4, <2>1
  <2>3. SubSeq(stack, 1, m) = [i \in 1 .. m |-> stack[i]] /\ SubSeq(z, 1, m) = [i \in 1 .. m |-> z[i]]
    BY <1>3, <1>4, <2>1
  <2>4. SubSeq(stack, 1, m) = SubSeq(z, 1, m)
    BY <2>2, <2>3
  <2>. QED
    BY <2>4 DEF m
<1>10. stack' = before.stack /\ regs' = before.regs /\ before' = before
  BY <1>2, <1>3, <1>8, <1>9 DEF Iretq, ghosts
<1>11. before = [at |-> before.at, intr |-> before.intr, regs |-> before.regs, stack |-> before.stack]
  BY DEF Inv, Control, Contexts
<1>. QED
  BY <1>7, <1>10, <1>11 DEF Context

\* So the invariant holds of the thread again.
LEMMA InvIretq == ASSUME Inv, Iretq PROVE Inv'
<1>. USE DEF Inv
<1>1. before \in Contexts /\ Context' = before /\ before' = before
  BY IretqReturns DEF Control
<1>2. /\ at' = before.at /\ intr' = before.intr /\ regs' = before.regs /\ stack' = before.stack
  BY <1>1 DEF Context
<1>3. PICK p \in Thread : at' = Pc(p)
  BY <1>1, <1>2 DEF Contexts
<1>4. /\ InThread' /\ at' \in Places /\ at' = Pc(at'.step) /\ at'.step \in Thread
      /\ ~Interrupted' /\ at'.vector = TimerVector
  BY <1>3, PcAt DEF InThread, Interrupted, Thread, Handlers
<1>5. /\ Interrupted /\ gates = Gates /\ ungated = {}
      /\ UNCHANGED <<regs, gates, timer, pending, inService, g_ticks, before, raised, ungated>>
  <2>1. at.step = "drop" /\ at.vector = TimerVector
    BY DEF Iretq, Control
  <2>. QED
    BY <2>1 DEF Iretq, Control, Interrupted, Handlers, TimerVector, GeneralProtection, lapic, ghosts
<1>6. /\ intr' \in BOOLEAN /\ stack' \in Stacks
      /\ at'.step \notin {"lost", "irq_handler", "popall", "drop", "exception_handler", "halted"}
  BY <1>1, <1>2, <1>4 DEF Contexts, Thread
<1>7. Control'
  BY <1>4, <1>5, <1>6 DEF Control
<1>. QED
  BY <1>4, <1>7 DEF TimerFrame, FaultFrame

\* The timer's next tick touches no frame.
LEMMA InvTick == ASSUME Inv, Tick PROVE Inv'
<1>1. UNCHANGED <<at, intr, regs, stack, gates, timer, inService, g_ticks, before, raised, ungated>>
  BY DEF Tick, cpu, ghosts
<1>2. timer /\ pending' = TRUE
  BY DEF Tick
<1>3. Control'
  BY <1>1, <1>2 DEF Inv, Control, InThread, Interrupted
<1>4. TimerFrame'
  BY <1>1 DEF Inv, TimerFrame, Interrupted
<1>5. FaultFrame'
  BY <1>1 DEF Inv, FaultFrame, Interrupted, ErrorCode
<1>. QED
  BY <1>3, <1>4, <1>5 DEF Inv

\* The processor takes the timer's interrupt in the thread only.
LEMMA InvTakeTimer == ASSUME Inv, TakeTimer PROVE Inv'
<1>1. InThread /\ TimerVector \in gates
  <2>1. gates = Gates /\ ~Interrupted /\ at \in Places
    BY DEF TakeTimer, Inv, Control
  <2>2. TimerVector \in Gates
    BY DEF Gates
  <2>3. at.step # "lost"
    BY <2>1, <2>2 DEF Inv, Control
  <2>. QED
    BY <2>1, <2>2, <2>3, Whereabouts
<1>2. 0 \in ErrorCodes /\ pending' = FALSE /\ inService' = TRUE /\ Deliver(TimerVector, 0)
  BY TrapAssumption DEF TakeTimer
<1>. QED
  BY <1>1, <1>2, InvDeliver

\* A fault finds its gate, or the kernel is lost: it has no IDT yet.
LEMMA InvFault == ASSUME Inv, NEW v \in Faults, NEW e \in ErrorCodes, Fault(v, e) PROVE Inv'
<1>1. v \in 0 .. 31 /\ v # TimerVector
  BY TrapAssumption DEF TimerVector
<1>2. /\ Deliver(v, e) /\ (InThread \/ at.step = "irq_handler")
      /\ pending' = pending /\ inService' = inService
  BY DEF Fault
<1>3. CASE gates = Gates
  <2>1. v \in gates
    BY <1>1, <1>3 DEF Gates
  <2>2. /\ pending' \in BOOLEAN /\ inService' \in BOOLEAN /\ (pending' => pending)
        /\ v \in (0 .. 31) \cup {TimerVector}
        /\ (InThread \/ (at.step = "irq_handler" /\ v # TimerVector))
    BY <1>1, <1>2 DEF Inv, Control
  <2>. QED
    BY <1>2, <2>1, <2>2, InvDeliver
<1>4. CASE gates = {}
  <2>1. /\ at' = In("lost", v) /\ ungated' = ungated \cup {v}
        /\ UNCHANGED <<intr, regs, stack, gates, timer, g_ticks, before, raised>>
    BY <1>2, <1>4 DEF Deliver
  <2>2. Gates # {}
    BY DEF Gates
  <2>3. InThread /\ at.step # "lost" /\ ungated = {}
    <3>1. ~Interrupted
      BY <1>4, <2>2 DEF Inv, Control
    <3>2. InThread
      BY <1>2, <3>1 DEF Interrupted, Handlers
    <3>3. at.vector = TimerVector /\ at.step # "lost"
      BY <3>2, PcAt, Whereabouts DEF Inv, Control, InThread
    <3>. QED
      BY <3>2, <3>3 DEF Inv, Control, TimerVector, GeneralProtection
  <2>4. /\ at' \in Places /\ at'.step = "lost" /\ at'.vector = v
        /\ ~InThread' /\ ~Interrupted'
    BY <1>1, <2>1 DEF In, Places, Steps, InThread, Interrupted, Thread, Handlers
  <2>5. ungated' \subseteq 0 .. 31
    BY <1>1, <2>1, <2>3
  <2>6. Control'
    BY <1>2, <1>4, <2>1, <2>3, <2>4, <2>5 DEF Inv, Control
  <2>. QED
    BY <2>4, <2>6 DEF Inv, TimerFrame, FaultFrame
<1>. QED
  BY <1>3, <1>4 DEF Inv, Control

\* Every step keeps the invariant.
LEMMA InvStep == Inv /\ [Next]_vars => Inv'
<1>. SUFFICES ASSUME Inv, [Next]_vars PROVE Inv'
  OBVIOUS
<1>1. CASE Kmain
  BY <1>1, InvKmain
<1>2. CASE Handling
  BY <1>2, InvStub, InvPushall, InvPopall, InvIretq, InvIrqHandler, InvExceptionHandler
     DEF Handling
<1>3. CASE Tick \/ TakeTimer \/ Spurious
  BY <1>3, InvTick, InvTakeTimer, InvSpurious
<1>4. ASSUME NEW v \in Faults, NEW e \in ErrorCodes, Fault(v, e) PROVE Inv'
  BY <1>4, InvFault
<1>5. CASE UNCHANGED vars
  <2>1. Control'
    BY <1>5 DEF vars, Inv, Control, InThread, Interrupted
  <2>2. TimerFrame'
    BY <1>5 DEF vars, Inv, TimerFrame, Interrupted
  <2>3. FaultFrame'
    BY <1>5 DEF vars, Inv, FaultFrame, Interrupted, ErrorCode
  <2>. QED
    BY <2>1, <2>2, <2>3 DEF Inv
<1>. QED
  BY <1>1, <1>2, <1>3, <1>4, <1>5 DEF Next

-----------------------------------------------------------------------------
(* The theorems.                                                           *)

\* It holds always.
LEMMA Invariant == Spec => []Inv
BY InvInit, InvStep, PTL DEF Spec

\* The thread's own word and two frames with their padding: more never stands
\* on the stack.
LEMMA StackBounded == ASSUME Inv PROVE Len(stack) <= 47
<1>1. CASE InThread
  <2>1. stack = <<>> \/ stack = <<"thread">>
    BY <1>1 DEF Inv, Control, Stacks
  <2>2. Len(<<>>) <= 47 /\ Len(<<"thread">>) <= 47
    OBVIOUS
  <2>. QED
    BY <2>1, <2>2
<1>2. CASE Interrupted /\ at.vector = TimerVector
  <2>. DEFINE z == Base(before)
  <2>1. z \in Seq(Word) /\ Len(z) <= 7 /\ Len(z) \in Nat
    <3>1. before \in Contexts
      BY DEF Inv, Control
    <3>2. z \in Odd /\ (Len(z) = 5 \/ Len(z) = 7)
      BY <3>1, BaseWords
    <3>3. z \in Seq(Word)
      BY <3>2 DEF Odd
    <3>. HIDE DEF z
    <3>4. \A n : n = 5 \/ n = 7 => n <= 7 /\ n \in Nat
      OBVIOUS
    <3>. QED
      BY <3>2, <3>3, <3>4, Zenon
  <2>2. Stacked(Whole(z, 0, TimerVector, before.regs), z, 0, TimerVector, before.regs)
    BY <2>1, BaseKnown, TheWords, WholeWords
  <2>3. /\ Len(Whole(z, 0, TimerVector, before.regs)) = Len(z) + 17
        /\ Len(Numbered(z, 0, TimerVector)) = Len(z) + 2
    BY <2>2 DEF Stacked
  <2>4. \/ stack = z \/ stack = Numbered(z, 0, TimerVector)
        \/ stack = Whole(z, 0, TimerVector, before.regs)
    <3>1. at.step \in {"stub", "pushall", "irq_handler", "popall", "drop"}
      BY <1>2 DEF Inv, Control, Interrupted, Handlers
    <3>. QED
      BY <1>2, <3>1 DEF Inv, TimerFrame
  <2>. HIDE DEF z
  <2>. QED
    BY <2>1, <2>3, <2>4
<1>3. CASE Interrupted /\ at.vector # TimerVector
  <2>1. PICK s \in Odd :
          /\ Len(s) <= 30
          /\ at.step = "stub" => stack = s \o ErrorCode
          /\ at.step = "pushall" => stack = Numbered(s, raised, at.vector)
          /\ at.step = "exception_handler" => stack = Whole(s, raised, at.vector, regs)
          /\ at.step = "halted" => Len(stack) <= 47
    BY <1>3 DEF Inv, FaultFrame
  <2>2. s \in Seq(Word) /\ raised \in Word /\ at.vector \in Word /\ regs \in Registers
    BY TheWords DEF Odd, Inv, Control, Places
  <2>3. Stacked(Whole(s, raised, at.vector, regs), s, raised, at.vector, regs)
    BY <2>2, WholeWords
  <2>4. /\ Len(s) \in Nat /\ Len(Whole(s, raised, at.vector, regs)) = Len(s) + 17
        /\ Len(Numbered(s, raised, at.vector)) = Len(s) + 2
    BY <2>3 DEF Stacked
  <2>5. Len(s \o ErrorCode) <= 31
    <3>1. ErrorCode \in Seq(Word) /\ Len(ErrorCode) \in Nat /\ Len(ErrorCode) <= 1
      BY <2>2 DEF ErrorCode
    <3>2. Len(s \o ErrorCode) = Len(s) + Len(ErrorCode)
      BY <2>2, <3>1, Concat DEF Joined
    <3>. QED
      BY <2>1, <2>4, <3>1, <3>2
  <2>6. at.step \in {"stub", "pushall", "exception_handler", "halted"}
    BY <1>3 DEF Inv, Control, Interrupted, Handlers
  <2>7. CASE at.step = "stub"
    <3>1. stack = s \o ErrorCode /\ Len(s \o ErrorCode) \in Nat
      <4>1. ErrorCode \in Seq(Word)
        BY <2>2 DEF ErrorCode
      <4>2. s \o ErrorCode \in Seq(Word)
        BY <2>2, <4>1, Concat DEF Joined
      <4>. QED
        BY <2>1, <2>7, <4>2, LenProperties
    <3>. QED
      BY <2>5, <3>1
  <2>8. CASE at.step = "pushall"
    BY <2>1, <2>4, <2>8
  <2>9. CASE at.step = "exception_handler"
    BY <2>1, <2>4, <2>9
  <2>. QED
    BY <2>1, <2>6, <2>7, <2>8, <2>9
<1>4. CASE at.step = "lost"
  <2>1. stack = <<>> \/ stack = <<"thread">>
    BY <1>4 DEF Inv, Control, Stacks
  <2>2. Len(<<>>) <= 47 /\ Len(<<"thread">>) <= 47
    OBVIOUS
  <2>. QED
    BY <2>1, <2>2
<1>. QED
  BY <1>1, <1>2, <1>3, <1>4, Whereabouts DEF Inv, Control

\* For every set of exceptions and error codes: the stack never grows past two
\* frames, and everything has its type.
THEOREM TypeCorrect == Spec => []TypeOK
<1>1. Inv => TypeOK
  <2>. SUFFICES ASSUME Inv PROVE TypeOK
    OBVIOUS
  <2>1. Len(PushOrder) = 15
    BY DEF PushOrder
  <2>2. 1 + 2 * (FrameSize + 1) = 47
    BY <2>1 DEF FrameSize
  <2>3. Len(stack) <= 1 + 2 * (FrameSize + 1)
    BY <2>2, StackBounded
  <2>4. gates \subseteq Vectors
    BY DEF Inv, Control, Gates, Vectors, TimerVector
  <2>5. ungated \subseteq Vectors
    BY DEF Inv, Control, Vectors, SpuriousVector
  <2>. QED
    BY <2>3, <2>4, <2>5 DEF TypeOK, Inv, Control, Places, Steps, Handlers, Registers, Values, Codes
<1>. QED
  BY <1>1, Invariant, PTL

\* For every vector, error code and register value: what a handler reads through
\* registers_t is the vector, the error code and the registers it was called
\* after, and C code is called on an aligned stack.
THEOREM FrameAlwaysMatches == Spec => []FrameMatches
<1>1. Inv => FrameMatches
  <2>. SUFFICES ASSUME Inv, at.step \in {"irq_handler", "exception_handler"}
       PROVE  /\ Frame("int_no") = at.vector /\ Frame("err_code") = raised
              /\ \A r \in Names : Frame(r) = regs[r]
              /\ Len(stack) % 2 = 0
    BY DEF FrameMatches
  <2>1. PICK s \in Odd : stack = Whole(s, raised, at.vector, regs)
    <3>1. Interrupted
      BY DEF Interrupted, Handlers
    <3>2. CASE at.step = "irq_handler"
      <4>1. at.vector = TimerVector
        BY <3>2 DEF Inv, Control
      <4>2. /\ stack = Whole(Base(before), 0, TimerVector, before.regs)
            /\ regs = before.regs /\ raised = 0
        BY <3>1, <3>2, <4>1 DEF Inv, TimerFrame
      <4>. QED
        BY <4>1, <4>2, BaseKnown
    <3>3. CASE at.step = "exception_handler"
      <4>1. at.vector # TimerVector
        BY <3>3 DEF Inv, Control
      <4>. QED
        BY <3>1, <3>3, <4>1 DEF Inv, FaultFrame
    <3>. QED
      BY <3>2, <3>3
  <2>2. s \in Seq(Word) /\ raised \in Word /\ at.vector \in Word /\ regs \in Registers
    BY TheWords DEF Odd, Inv, Control, Places
  <2>3. /\ Frame("int_no") = at.vector /\ Frame("err_code") = raised
        /\ \A r \in Names : Frame(r) = regs[r]
    BY <2>1, <2>2, FrameRead
  <2>4. Stacked(stack, s, raised, at.vector, regs)
    BY <2>1, <2>2, WholeWords
  <2>5. Len(stack) = Len(s) + 17 /\ Len(s) \in Nat /\ Len(s) % 2 = 1
    BY <2>4 DEF Stacked, Odd
  <2>6. (Len(s) + 17) % 2 = 0
    BY <2>5
  <2>. QED
    BY <2>3, <2>5, <2>6
<1>. QED
  BY <1>1, Invariant, PTL

\* Ticks always find their gate, faults do once lidt is executed; a fault before
\* it loses the kernel, and a spurious interrupt after it halts it with a general
\* protection fault.
THEOREM GateOrKernelStops == Spec => []GateOrStop
<1>1. Inv => GateOrStop
  <2>. SUFFICES ASSUME Inv PROVE GateOrStop
    OBVIOUS
  <2>1. SpuriousVector \notin 0 .. 31
    BY DEF SpuriousVector
  <2>2. ungated \subseteq (0 .. 31) \cup {SpuriousVector}
    BY DEF Inv, Control
  <2>3. ungated \cap (0 .. 31) # {} => at.step = "lost" /\ gates = {}
    BY <2>1 DEF Inv, Control
  <2>4. ASSUME SpuriousVector \in ungated
        PROVE  /\ at.vector = GeneralProtection
               /\ at.step \in {"stub", "pushall", "exception_handler", "halted"}
    <3>1. at.step # "lost" /\ at.vector = GeneralProtection /\ at \in Places
      BY <2>1, <2>4 DEF Inv, Control
    <3>2. at.vector # TimerVector
      BY <3>1 DEF TimerVector, GeneralProtection
    <3>3. ~InThread /\ at.step \notin {"irq_handler", "popall", "drop"}
      BY <3>2, PcAt DEF Inv, Control, InThread
    <3>4. Interrupted
      BY <3>1, <3>3, Whereabouts
    <3>. QED
      BY <3>1, <3>3, <3>4 DEF Interrupted, Handlers
  <2>. QED
    BY <2>2, <2>3, <2>4 DEF GateOrStop
<1>. QED
  BY <1>1, Invariant, PTL

\* Whatever the thread was doing when the interrupt came, and whatever the
\* handler left in the registers: iretq gives it everything back.
THEOREM ContextAlwaysKept == Spec => ContextKept
<1>1. Inv /\ [Next]_vars => [~InThread /\ InThread' => Context' = before]_vars
  <2>. SUFFICES ASSUME Inv, Next, ~InThread, InThread' PROVE Context' = before
    OBVIOUS
  <2>1. at.step \notin Thread /\ at'.step \in Thread /\ at \in Places
    BY DEF InThread, Inv, Control
  <2>2. ~Kmain
    <3>1. "shell" \in Thread /\ \A p \in Thread : Pc(p).step \in Thread
      BY PcAt DEF Thread
    <3>2. {"checks", "idt", "apic", "kbd", "sti", "shell", "hcf"} \subseteq Thread
      BY DEF Thread
    <3>. QED
      BY <2>1, <3>1, <3>2
         DEF Kmain, Boot, Checks, IdtInit, ApicInit, KbdInit, Sti, ShellReturns, Work, Then
  <2>3. ~Tick
    BY <2>1 DEF Tick, cpu
  <2>4. \A v, e : ~Deliver(v, e)
    <3>. SUFFICES ASSUME NEW v, NEW e, Deliver(v, e) PROVE FALSE
      OBVIOUS
    <3>1. \E w : at' = In("stub", w) \/ at' = In("lost", w)
      BY DEF Deliver, Enter
    <3>. QED
      BY <2>1, <3>1 DEF In, Thread
  <2>5. ~TakeTimer /\ ~Spurious /\ \A v \in Faults, e \in ErrorCodes : ~Fault(v, e)
    BY <2>4 DEF TakeTimer, Spurious, Fault
  <2>6. \A step \in Steps : Jump(step) => step \in Thread
    BY <2>1, JumpAt
  <2>7. /\ ~Stub /\ ~Popall /\ ~IrqHandler /\ ~ExceptionHandler
        /\ {"pushall", "drop", "popall", "halted"} \subseteq Steps \ Thread
    BY <2>6 DEF Stub, Popall, IrqHandler, ExceptionHandler, Steps, Handlers, Thread
  <2>8. ~Pushall
    BY <2>6 DEF Pushall, Steps, Handlers, Thread
  <2>9. Iretq
    BY <2>2, <2>3, <2>5, <2>7, <2>8 DEF Next, Handling
  <2>. QED
    BY <2>9, IretqReturns
<1>. QED
  BY <1>1, Invariant, PTL DEF Spec, ContextKept

\* After an exception the processor executes nothing more and counts no tick,
\* whatever the timer requests.
THEOREM HaltIsAlwaysFinal == Spec => HaltIsFinal
<1>1. Inv /\ [Next]_vars => [at.step = "halted" => UNCHANGED <<cpu, g_ticks>>]_vars
  <2>. SUFFICES ASSUME Inv, Next, at.step = "halted" PROVE UNCHANGED <<cpu, g_ticks>>
    OBVIOUS
  <2>1. ~InThread /\ ~intr
    BY DEF InThread, Interrupted, Handlers, Thread, Inv, Control
  <2>2. ~Kmain
    <3>1. at.step # "shell" /\ \A p \in Thread : at # Pc(p)
      BY PcAt DEF Thread
    <3>2. {"checks", "idt", "apic", "kbd", "sti", "shell", "hcf"} \subseteq Thread
      BY DEF Thread
    <3>. QED
      BY <3>1, <3>2
         DEF Kmain, Boot, Checks, IdtInit, ApicInit, KbdInit, Sti, ShellReturns, Work, Then
  <2>3. ~Handling
    BY DEF Handling, Stub, Pushall, Popall, Iretq, IrqHandler, ExceptionHandler
  <2>4. ~TakeTimer /\ ~Spurious /\ \A v \in Faults, e \in ErrorCodes : ~Fault(v, e)
    BY <2>1 DEF TakeTimer, Spurious, Fault
  <2>5. Tick
    BY <2>2, <2>3, <2>4 DEF Next
  <2>. QED
    BY <2>5 DEF Tick
<1>. QED
  BY <1>1, Invariant, PTL DEF Spec, HaltIsFinal

=============================================================================
