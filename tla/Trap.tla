-------------------------------- MODULE Trap --------------------------------
(***************************************************************************)
(* The path of an interrupt: src/kernel/idt.c, interrupts.asm, isr.c and   *)
(* the start of the kernel in main.c that sets it up.                      *)
(*                                                                         *)
(* The stack is a sequence of 64-bit words with the top at its end.  A     *)
(* register holds <<its name, n>> when the thread has put its n-th value   *)
(* there, Junk when a C function has left it behind.  What the thread does *)
(* between two interrupts is Work.                                         *)
(*                                                                         *)
(* Of the devices only the timer interrupts: nothing unmasks IRQ0 to       *)
(* IRQ15, for pic_remap and pit_init have no caller.  The local APIC may   *)
(* also deliver its spurious vector, which has no gate.                    *)
(***************************************************************************)
EXTENDS Integers, Sequences, SequencesExt

CONSTANTS
  Faults,      \* vectors of exceptions that happen
  ErrorCodes,  \* what the processor may push with one, 0 among them
  Turns        \* bound: the values a register goes round, and g_ticks too

VARIABLES
  at,      \* where the processor is: the step, and in a stub or handler the vector
  intr,    \* RFLAGS.IF
  regs, stack,
  gates,   \* vectors with a gate in the IDT that is loaded
  timer, pending, inService,   \* the local APIC: armed, a tick requested, not acknowledged
  g_ticks,
  before,   \* the thread's context when the outermost interrupt came
  raised,   \* the error code of the latest one
  ungated   \* the vectors that came and had no gate

cpu == <<at, intr, regs, stack>>
lapic == <<timer, pending, inService>>
ghosts == <<before, raised, ungated>>
vars == <<at, intr, regs, stack, gates, timer, pending, inService, g_ticks,
          before, raised, ungated>>

TimerVector == 48
SpuriousVector == 255
GeneralProtection == 13
Vectors == 0 .. 255

ASSUME TrapAssumption ==
  /\ Faults \subseteq 0 .. 31 /\ 0 \in ErrorCodes /\ Turns \in Nat \ {0}

Junk == <<"junk", 0>>
PushOrder ==
  <<"rax", "rbx", "rcx", "rdx", "rsi", "rdi", "rbp",
    "r8", "r9", "r10", "r11", "r12", "r13", "r14", "r15">>
Names == {PushOrder[k] : k \in DOMAIN PushOrder}
CalleeSaved == {"rbx", "rbp", "r12", "r13", "r14", "r15"}

Pc(step) == [step |-> step, vector |-> TimerVector]
In(step, v) == [step |-> step, vector |-> v]
Thread == {"checks", "idt", "apic", "kbd", "sti", "shell", "hcf"}
InThread == at.step \in Thread

-----------------------------------------------------------------------------
(* The processor.                                                          *)

\* The exceptions that push an error code.
PushesError == {8, 10, 11, 12, 13, 14, 17, 21, 29, 30}

\* The stack pointer is brought to a multiple of 16 bytes first.
Aligned(s) == IF Len(s) % 2 = 0 THEN s ELSE Append(s, "pad")
Rflags == [interrupts |-> intr]
Context == [at |-> at, intr |-> intr, regs |-> regs, stack |-> stack]

\* The type of a gate says whether it clears IF.
ClearsIF_TrapGate == FALSE
ClearsIF == TRUE

\* SS, RSP, RFLAGS, CS, RIP and the error code if there is one.
Enter(v, e) ==
  /\ stack' = Aligned(stack) \o <<"ss", Len(stack), Rflags, "cs", at>>
                             \o (IF v \in PushesError THEN <<e>> ELSE <<>>)
  /\ at' = In("stub", v)
  /\ intr' = IF ClearsIF THEN FALSE ELSE intr
  /\ before' = IF InThread THEN Context ELSE before
  /\ raised' = IF v \in PushesError THEN e ELSE 0

\* The error code for an entry of the IDT that is no gate: its index, the bit
\* that says IDT, and the one that says that an interrupt, no fault, asked for it.
NoGate(v) == 8 * v + 2 + (IF v < 32 THEN 0 ELSE 1)

\* Without a gate an interrupt turns into a general protection fault.  With no
\* gate for that either, as before lidt, the kernel is lost: the machine resets,
\* or runs into whatever IDT the boot loader has left.
Deliver(v, e) ==
  /\ \/ v \in gates /\ Enter(v, e) /\ UNCHANGED ungated
     \/ /\ v \notin gates /\ ungated' = ungated \cup {v}
        /\ IF GeneralProtection \in gates THEN Enter(GeneralProtection, NoGate(v))
           ELSE at' = In("lost", v) /\ UNCHANGED <<intr, stack, before, raised>>
  /\ UNCHANGED <<regs, gates, timer, g_ticks>>

TakeTimer ==
  /\ pending /\ ~inService /\ intr
  /\ Deliver(TimerVector, 0)
  /\ pending' = FALSE /\ inService' = TRUE

\* The local APIC, once it is enabled, withdraws a request that the processor
\* has answered already and gives it the spurious vector instead.
Spurious ==
  /\ timer /\ intr
  /\ Deliver(SpuriousVector, 0)
  /\ UNCHANGED <<pending, inService>>

\* A fault, in the thread or in irq_handler, from the first instruction on.
Fault(v, e) ==
  /\ InThread \/ at.step = "irq_handler"
  /\ Deliver(v, e)
  /\ UNCHANGED <<pending, inService>>

Tick ==
  /\ timer /\ ~pending
  /\ pending' = TRUE
  /\ UNCHANGED <<cpu, gates, timer, inService, g_ticks, ghosts>>

-----------------------------------------------------------------------------
(* The stubs.                                                              *)

Jump(step) == at' = [at EXCEPT !.step = step]

\* ISR_ERR, ISR_NOERR, IRQ and apic_timer_stub.
IsrErr_No21 == {8, 10, 11, 12, 13, 14, 17, 29, 30}
IsrErr == {8, 10, 11, 12, 13, 14, 17, 21, 29, 30}
Stub ==
  /\ at.step = "stub"
  /\ stack' = (IF at.vector \in IsrErr THEN stack ELSE Append(stack, 0)) \o <<at.vector>>
  /\ Jump("pushall")
  /\ UNCHANGED <<intr, regs, gates, lapic, g_ticks, ghosts>>

Pushall ==
  /\ at.step = "pushall"
  /\ stack' = stack \o [k \in DOMAIN PushOrder |-> regs[PushOrder[k]]]
  /\ Jump(IF at.vector < 32 THEN "exception_handler" ELSE "irq_handler")
  /\ UNCHANGED <<intr, regs, gates, lapic, g_ticks, ghosts>>

\* popall names the registers in the opposite order.
PopOrder_Same == PushOrder
PopOrder == Reverse(PushOrder)
Popall ==
  /\ at.step = "popall"
  /\ regs' = [r \in Names |-> stack[Len(stack) + 1 - (CHOOSE k \in DOMAIN PopOrder : PopOrder[k] = r)]]
  /\ stack' = SubSeq(stack, 1, Len(stack) - Len(PopOrder))
  /\ Jump("drop")
  /\ UNCHANGED <<intr, gates, lapic, g_ticks, ghosts>>

\* add rsp, 16 and iretq.
Iretq ==
  /\ at.step = "drop"
  /\ LET n == Len(stack) - 2
     IN  /\ at' = stack[n] /\ intr' = stack[n - 2].interrupts
         /\ stack' = SubSeq(stack, 1, stack[n - 3])
  /\ UNCHANGED <<regs, gates, lapic, g_ticks, ghosts>>

-----------------------------------------------------------------------------
(* The handlers, with the frame as registers_t lays it out.                *)

Fields ==
  <<"r15", "r14", "r13", "r12", "r11", "r10", "r9", "r8",
    "rbp", "rdi", "rsi", "rdx", "rcx", "rbx", "rax",
    "int_no", "err_code", "rflags", "cs", "rip">>
Frame(f) == stack[Len(stack) + 1 - (CHOOSE k \in DOMAIN Fields : Fields[k] = f)]

\* A C function keeps the registers it has to.
CallC == regs' = [r \in Names |-> IF r \in CalleeSaved THEN regs[r] ELSE Junk]

Acknowledge_Never == inService
Acknowledge == FALSE
IrqHandler ==
  /\ at.step = "irq_handler" /\ Frame("int_no") = TimerVector
  /\ g_ticks' = (g_ticks + 1) % Turns
  /\ inService' = Acknowledge
  /\ CallC /\ Jump("popall")
  /\ UNCHANGED <<intr, stack, gates, timer, pending, ghosts>>

\* It prints the frame and halts: hlt, over and over.
ExceptionHandler ==
  /\ at.step = "exception_handler"
  /\ CallC /\ Jump("halted")
  /\ UNCHANGED <<intr, stack, gates, lapic, g_ticks, ghosts>>

-----------------------------------------------------------------------------
(* kmain.  The boot loader hands over with IF clear.                       *)

\* The thread computes: it gives its registers new values and moves its stack.
Work ==
  /\ at.step = "shell"
  /\ \E n \in 0 .. Turns - 1 : regs' = [r \in Names |-> <<r, n>>]
  /\ stack' = IF Len(stack) = 0 THEN <<"thread">> ELSE <<>>
  /\ UNCHANGED <<at, intr, gates, lapic, g_ticks, ghosts>>

Then(step, next) ==
  /\ at = Pc(step) /\ at' = Pc(next)
  /\ UNCHANGED <<regs, stack, pending, inService, g_ticks, ghosts>>

\* No base revision, no frame buffer, or one that console_init does not take.
Checks == (Then("checks", "idt") \/ Then("checks", "hcf")) /\ UNCHANGED <<intr, gates, timer>>
Gates_NoTimer == (0 .. 31) \cup {32 + k : k \in 0 .. 15}
Gates == (0 .. 31) \cup {32 + k : k \in 0 .. 15} \cup {TimerVector}
IdtInit ==
  /\ Then("idt", "apic") /\ gates' = Gates
  /\ UNCHANGED <<intr, timer>>
ApicInit == Then("apic", "kbd") /\ timer' = TRUE /\ UNCHANGED <<intr, gates>>
KbdInit == Then("kbd", "sti") /\ UNCHANGED <<intr, gates, timer>>
Sti == Then("sti", "shell") /\ intr' = TRUE /\ UNCHANGED <<gates, timer>>
\* shell_run returns when the file system does not mount.
ShellReturns == Then("shell", "hcf") /\ UNCHANGED <<intr, gates, timer>>

Boot == Checks \/ IdtInit \/ ApicInit \/ KbdInit \/ Sti
Kmain == Boot \/ ShellReturns \/ Work
Handling == Stub \/ Pushall \/ Popall \/ Iretq \/ IrqHandler \/ ExceptionHandler

Init ==
  /\ at = Pc("checks") /\ intr = FALSE
  /\ regs = [r \in Names |-> <<r, 0>>] /\ stack = <<>>
  /\ gates = {} /\ timer = FALSE /\ pending = FALSE /\ inService = FALSE
  /\ g_ticks = 0 /\ before = Context /\ raised = 0 /\ ungated = {}

Next ==
  \/ Kmain \/ Handling \/ Tick \/ TakeTimer \/ Spurious
  \/ \E v \in Faults, e \in ErrorCodes : Fault(v, e)

\* The processor executes, and takes an interrupt that it may take; the timer,
\* once armed, ticks.
Spec ==
  /\ Init /\ [][Next]_vars
  /\ WF_vars(Boot) /\ WF_vars(Handling) /\ WF_vars(TakeTimer) /\ WF_vars(Tick)

-----------------------------------------------------------------------------
(* Properties.                                                             *)

\* Words on the stack of one frame: from SS to what Pushall leaves.
FrameSize == 5 + 2 + Len(PushOrder)

\* At most two frames stand on the thread's stack, and two words of padding: a
\* fault in irq_handler comes on top of the timer's frame, nothing else nests.
TypeOK ==
  /\ at \in [step : Thread \cup {"stub", "pushall", "irq_handler", "exception_handler",
                              "popall", "drop", "halted", "lost"},
            vector : (0 .. 31) \cup {TimerVector}]
  /\ intr \in BOOLEAN /\ timer \in BOOLEAN /\ pending \in BOOLEAN /\ inService \in BOOLEAN
  /\ regs \in [Names -> (Names \X (0 .. Turns - 1)) \cup {Junk}]
  /\ Len(stack) <= 1 + 2 * (FrameSize + 1)
  /\ gates \subseteq Vectors /\ g_ticks \in 0 .. Turns - 1
  /\ raised \in ErrorCodes \cup {NoGate(SpuriousVector)} /\ ungated \subseteq Vectors

\* What a handler reads through registers_t is what it is called after: the
\* vector, the processor's error code or 0, and every general register; and
\* the stack is aligned as C code expects at a call.
FrameMatches ==
  at.step \in {"irq_handler", "exception_handler"} =>
    /\ Frame("int_no") = at.vector /\ Frame("err_code") = raised
    /\ \A r \in Names : Frame(r) = regs[r]
    /\ Len(stack) % 2 = 0

\* The whole frame is what registers_t says, RIP too.
FirstFrame == Len(stack) = Len(Aligned(before.stack)) + FrameSize
FrameWhole ==
  at.step \in {"irq_handler", "exception_handler"} /\ FirstFrame =>
    Frame("rip") = before.at

\* The thread gets back from an interrupt everything it had when it came: where
\* it was, IF, its registers and its stack.
ContextKept == [][~InThread /\ InThread' => Context' = before]_vars

\* After an exception nothing runs any more: no tick is counted, no handler entered.
HaltIsFinal == [][at.step = "halted" => UNCHANGED <<cpu, g_ticks>>]_vars

\* What may come without a gate, and what becomes of the kernel then.  A tick
\* always finds its gate: the timer is armed and IF is set after lidt only.  A
\* fault before lidt has none, and the kernel is lost; after it every fault has
\* one.  The spurious vector 0xFF never has one: the first spurious interrupt
\* ends in exception_handler with a general protection fault, and no tick and no
\* instruction of the shell comes after it.
GateOrStop ==
  /\ ungated \subseteq (0 .. 31) \cup {SpuriousVector}
  /\ ungated \cap (0 .. 31) # {} => at.step = "lost" /\ gates = {}
  /\ SpuriousVector \in ungated =>
       /\ at.vector = GeneralProtection
       /\ at.step \in {"stub", "pushall", "exception_handler", "halted"}

\* Once the timer is armed g_ticks goes on, unless an exception has halted the
\* kernel.
TicksGoOn ==
  \A n \in 0 .. Turns - 1 : timer /\ g_ticks = n ~> g_ticks # n \/ at.step = "halted"

=============================================================================
