-------------------------------- MODULE Ata --------------------------------
(***************************************************************************)
(* src/kernel/ata.c: PIO transfers, one sector per command, with a drive   *)
(* as QEMU's IDE emulation behaves: BSY is set by the write to the command *)
(* register itself, and a command or a task file register written while    *)
(* the drive is busy or waits for data is ignored.                         *)
(*                                                                         *)
(* A status poll that reads BSY is a stutter; the step that leaves the     *)
(* poll goes with what follows it, for an idle drive does not change.      *)
(* Abstracted: a sector is SectorWords words (256 in the code).            *)
(***************************************************************************)
EXTENDS Integers, Sequences

CONSTANTS
  Sectors,      \* block addresses the drive has
  SectorWords,
  Values,       \* what a word of the data port can be; 0 is one of them
  MaxCount,     \* sectors in one call
  DriveFaults   \* a subset of {"early", "fault", "late", "hang"}

VARIABLES
  \* the driver
  pc, kind, lba,
  left,   \* sectors still to move: count - i
  count,
  j,      \* words of the current sector moved
  buf,    \* the caller's buffer, sector by sector
  rc,
  \* the drive
  bsy, drq, err,
  tf,     \* the task file: sector count and the four address registers
  phase,  \* what the drive is busy with, or waits for data for
  fifo, fpos,
  disk,
  hung

driver == <<pc, kind, lba, left, count, j, buf, rc>>
drive == <<bsy, drq, err, tf, phase, fifo, fpos, disk, hung>>
vars == <<pc, kind, lba, left, count, j, buf, rc,
          bsy, drq, err, tf, phase, fifo, fpos, disk, hung>>

Contents == [0 .. SectorWords - 1 -> Values]
Blank == [w \in 0 .. SectorWords - 1 |-> 0]

\* The four registers an address is written to, and the address they make.
Above(a) == a \div 256
Addressable(a) == Above(Above(Above(a))) < 16
TaskFile_NoHighest(a) ==
  [low |-> a % 256, mid |-> Above(a) % 256, high |-> Above(Above(a)) % 256, head |-> 224]
TaskFile(a) ==
  [low |-> a % 256, mid |-> Above(a) % 256, high |-> Above(Above(a)) % 256,
   head |-> 224 + (Above(Above(Above(a))) % 16)]
Address(t) == t.low + 256 * (t.mid + 256 * (t.high + 256 * (t.head % 16)))

ASSUME AtaAssumption ==
  /\ SectorWords \in Nat \ {0} /\ MaxCount \in Nat \ {0}
  /\ \A a \in Sectors : a \in Nat /\ Addressable(a)
  /\ 0 \in Values
  /\ DriveFaults \subseteq {"early", "fault", "late", "hang"}

-----------------------------------------------------------------------------
(* The driver.                                                             *)

\* The sector of the call now being moved, counted from 1.
Current == count - left + 1

Begin(k, a, n, b) ==
  /\ pc = "idle" /\ pc' = "ready"
  /\ kind' = k /\ lba' = a /\ left' = n /\ count' = n /\ buf' = b
  /\ j' = 0 /\ rc' = 0
  /\ UNCHANGED drive

\* What ends a poll of the status register.
Idle_WaitsForData == ~bsy /\ drq
Idle_NoPoll == TRUE
Idle == ~bsy

\* select_drive, after the poll.
SelectDrive ==
  /\ pc = "ready" /\ Idle
  /\ tf' = IF bsy \/ drq THEN tf ELSE TaskFile(lba)
  /\ pc' = "command"
  /\ UNCHANGED <<kind, lba, left, count, j, buf, rc,
                 bsy, drq, err, phase, fifo, fpos, disk, hung>>

SendCommand ==
  /\ pc = "command" /\ pc' = "busy"
  /\ IF bsy \/ drq
     THEN UNCHANGED <<bsy, drq, err, phase>>
     ELSE bsy' = TRUE /\ err' = FALSE /\ drq' = FALSE /\ phase' = kind
  /\ UNCHANGED <<kind, lba, left, count, j, buf, rc, tf, fifo, fpos, disk, hung>>

Return(r) == pc' = "idle" /\ rc' = r

\* The status after BSY has cleared: ERR, no DRQ, or data.
CheckStatus ==
  /\ pc = "busy" /\ ~bsy
  /\ \/ err /\ Return(-1) /\ UNCHANGED j
     \/ ~err /\ ~drq /\ Return(-2) /\ UNCHANGED j
     \/ ~err /\ drq /\ pc' = "data" /\ j' = 0 /\ UNCHANGED rc
  /\ UNCHANGED <<kind, lba, left, count, buf, drive>>

MoreWords_Le == j <= SectorWords
MoreWords_Short == j < SectorWords - 1
MoreWords == j < SectorWords

\* inw: the drive hands out the next word; after the last one it is idle.
ReadWord ==
  /\ pc = "data" /\ kind = "read" /\ MoreWords
  /\ j' = j + 1
  /\ buf' = [buf EXCEPT ![Current][j] = IF drq THEN fifo[fpos] ELSE 0]
  /\ IF drq THEN fpos' = fpos + 1 ELSE UNCHANGED fpos
  /\ drq' = (drq /\ fpos + 1 < SectorWords)
  /\ UNCHANGED <<pc, kind, lba, left, count, rc, bsy, err, tf, phase, fifo, disk, hung>>

\* outw: the drive takes the next word; after the last one it is busy writing.
WriteWord ==
  /\ pc = "data" /\ kind = "write" /\ MoreWords
  /\ j' = j + 1
  /\ IF drq
     THEN /\ fifo' = [fifo EXCEPT ![fpos] = buf[Current][j]]
          /\ fpos' = fpos + 1
          /\ IF fpos + 1 = SectorWords
             THEN drq' = FALSE /\ bsy' = TRUE /\ phase' = "commit"
             ELSE UNCHANGED <<drq, bsy, phase>>
     ELSE UNCHANGED <<fifo, fpos, drq, bsy, phase>>
  /\ UNCHANGED <<pc, kind, lba, left, count, buf, rc, err, tf, disk, hung>>

\* The end of the loop body; a write polls once more, and looks at nothing else.
NextSector ==
  /\ pc = "data" /\ ~MoreWords
  /\ kind = "write" => Idle
  /\ lba' = lba + 1 /\ left' = left - 1
  /\ IF left' = 0 THEN Return(0) ELSE pc' = "ready" /\ UNCHANGED rc
  /\ UNCHANGED <<kind, count, j, buf, drive>>

Driver == SelectDrive \/ SendCommand \/ CheckStatus \/ ReadWord \/ WriteWord \/ NextSector

-----------------------------------------------------------------------------
(* The drive.                                                              *)

\* It accepts the command, or refuses it: an address it does not have, an
\* error it reports, or a device fault, which sets neither ERR nor DRQ.
Accept ==
  /\ bsy /\ ~hung /\ phase \in {"read", "write"}
  /\ bsy' = FALSE
  /\ \/ /\ Address(tf) \in Sectors
        /\ drq' = TRUE /\ fpos' = 0
        /\ fifo' = IF phase = "read" THEN disk[Address(tf)] ELSE Blank
        /\ UNCHANGED err
     \/ /\ Address(tf) \notin Sectors \/ "early" \in DriveFaults
        /\ err' = TRUE /\ UNCHANGED <<drq, fifo, fpos>>
     \/ /\ "fault" \in DriveFaults
        /\ UNCHANGED <<err, drq, fifo, fpos>>
  /\ UNCHANGED <<driver, tf, phase, disk, hung>>

\* It has taken a sector: it writes it, or reports afterwards that it could not.
Commit ==
  /\ bsy /\ ~hung /\ phase = "commit"
  /\ bsy' = FALSE
  /\ \/ disk' = [disk EXCEPT ![Address(tf)] = fifo] /\ UNCHANGED err
     \/ "late" \in DriveFaults /\ err' = TRUE /\ UNCHANGED disk
  /\ UNCHANGED <<driver, drq, tf, phase, fifo, fpos, hung>>

Hang ==
  /\ bsy /\ ~hung /\ "hang" \in DriveFaults
  /\ hung' = TRUE
  /\ UNCHANGED <<driver, bsy, drq, err, tf, phase, fifo, fpos, disk>>

-----------------------------------------------------------------------------

Init ==
  /\ pc = "idle" /\ kind = "read" /\ lba = 0 /\ left = 0 /\ count = 0 /\ j = 0
  /\ buf = <<>> /\ rc = 0
  /\ bsy = FALSE /\ drq = FALSE /\ err = FALSE /\ hung = FALSE
  /\ tf = TaskFile(0) /\ phase = "read" /\ fifo = Blank /\ fpos = 0
  /\ disk \in [Sectors -> Contents]

Calls ==
  \E a \in Sectors, n \in 1 .. MaxCount :
    \/ Begin("read", a, n, [k \in 1 .. n |-> Blank])
    \/ \E b \in [1 .. n -> Contents] : Begin("write", a, n, b)

Next == Calls \/ Driver \/ Accept \/ Commit \/ Hang

\* The driver has the only thread; a drive that does not hang answers.
Spec == Init /\ [][Next]_vars /\ WF_vars(Driver) /\ WF_vars(Accept \/ Commit)

-----------------------------------------------------------------------------
(* Properties.                                                             *)

TypeOK ==
  /\ pc \in {"idle", "ready", "command", "busy", "data"}
  /\ kind \in {"read", "write"} /\ lba \in Nat
  /\ count \in 0 .. MaxCount /\ left \in 0 .. count
  /\ pc # "idle" => left > 0
  /\ j \in 0 .. SectorWords /\ buf \in [1 .. count -> Contents]
  /\ rc \in {0, -1, -2}
  /\ bsy \in BOOLEAN /\ drq \in BOOLEAN /\ err \in BOOLEAN /\ hung \in BOOLEAN
  /\ phase \in {"read", "write", "commit"}
  /\ fifo \in Contents /\ fpos \in 0 .. SectorWords
  /\ disk \in [Sectors -> Contents]

\* The driver keeps to the drive's protocol, whatever the drive reports: it
\* writes registers only when the drive is idle and owes no data, and moves a
\* word only when the drive is at that word.
ProtocolKept ==
  /\ pc = "command" => ~bsy /\ ~drq
  /\ pc \in {"idle", "ready"} => ~drq
  /\ pc = "data" /\ MoreWords => ~bsy /\ drq /\ fpos = j

\* A call returns unless the drive hangs: every poll and every loop ends.
CallReturns == pc # "idle" ~> pc = "idle" \/ hung

\* What a poll with a timeout would give: a call returns.
CallAlwaysReturns == pc # "idle" ~> pc = "idle"

\* The sectors the current call has moved: the drive has them, or the buffer.
SectorMoved == pc = "data" /\ ~MoreWords /\ (kind = "write" => ~bsy)
Moved == count - left + IF SectorMoved THEN 1 ELSE 0

\* The driver implements BlockDev, where a drive that reports errors late makes
\* a device that loses sectors.
Block == INSTANCE BlockDev WITH
  MayLose <- "late" \in DriveFaults,
  busy <- pc # "idle",
  first <- lba - (count - left),
  data <- IF kind = "read" THEN SubSeq(buf, 1, Moved) ELSE buf,
  moved <- Moved

ImplementsBlockDev == Block!Spec

=============================================================================
