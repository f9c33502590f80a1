----------------------------- MODULE AtaProofs -----------------------------
(***************************************************************************)
(* Theorems about Ata for every drive, every size of a sector and every    *)
(* combination of faults.                                                  *)
(***************************************************************************)
EXTENDS Ata, SequenceTheorems, TLAPS

USE AtaAssumption

\* Where the drive may be at every point of the driver.
InStep ==
  /\ bsy => ~drq
  /\ bsy => \/ pc = "busy" /\ phase \in {"read", "write"}
            \/ pc = "data" /\ phase = "commit" /\ kind = "write"
  /\ pc = "busy" => phase \in {"read", "write"} /\ (drq => fpos = 0 /\ ~err) /\ (bsy => ~err)
  /\ pc = "data" /\ ~MoreWords => ~drq
  /\ ProtocolKept

IInv == TypeOK /\ InStep

-----------------------------------------------------------------------------
(* The address registers.                                                  *)

\* A number is its remainder by 256 and what is above it.
LEMMA OneByte ==
  ASSUME NEW a \in Nat
  PROVE  /\ Above(a) \in Nat
         /\ a % 256 \in 0 .. 255
         /\ a = (a % 256) + 256 * Above(a)
BY SMT DEF Above

\* The four address registers name every block of a 28-bit address space: what
\* select_drive takes apart the drive puts together again.
THEOREM AddressRoundTrip == \A a \in Nat : Addressable(a) => Address(TaskFile(a)) = a
<1>. SUFFICES ASSUME NEW a \in Nat, Addressable(a) PROVE Address(TaskFile(a)) = a
  OBVIOUS
<1>. DEFINE b == Above(a)
            d == Above(b)
            e == Above(d)
<1>1. b \in Nat /\ a = (a % 256) + 256 * b
  BY OneByte
<1>2. d \in Nat /\ b = (b % 256) + 256 * d
  BY <1>1, OneByte
<1>3. e \in Nat /\ e < 16 /\ d = (d % 256) + 256 * e
  BY <1>2, OneByte DEF Addressable
<1>. HIDE DEF b, d, e
<1>4. e % 16 = e /\ (224 + e) % 16 = e
  BY <1>3
<1>5. Address(TaskFile(a)) = (a % 256) + 256 * ((b % 256) + 256 * ((d % 256) + 256 * e))
  BY <1>4 DEF Address, TaskFile, b, d, e
<1>. QED
  BY <1>1, <1>2, <1>3, <1>5

-----------------------------------------------------------------------------
(* The driver and the drive stay in step.                                  *)

\* Before the first call the drive is idle.
LEMMA IInvInit == Init => IInv
<1>. SUFFICES ASSUME Init PROVE IInv
  OBVIOUS
<1>1. Blank \in Contents
  BY DEF Blank, Contents
<1>2. /\ bsy \in BOOLEAN /\ drq \in BOOLEAN /\ err \in BOOLEAN /\ hung \in BOOLEAN
      /\ ~bsy /\ ~drq
  BY Zenon DEF Init
<1>3. TypeOK
  BY <1>1, <1>2 DEF Init, TypeOK
<1>. QED
  BY <1>2, <1>3 DEF Init, IInv, InStep, ProtocolKept

\* A call begins.
LEMMA BeginStep ==
  ASSUME IInv, NEW k \in {"read", "write"}, NEW a \in Sectors, NEW n \in 1 .. MaxCount,
         NEW b \in [1 .. n -> Contents], Begin(k, a, n, b)
  PROVE  IInv'
<1>1. TypeOK'
  BY DEF IInv, TypeOK, Begin, drive
<1>. QED
  BY <1>1 DEF IInv, InStep, ProtocolKept, Begin, drive, MoreWords

\* The driver writes registers only when the drive will take them.
LEMMA RegisterSteps ==
  ASSUME IInv, SelectDrive \/ SendCommand
  PROVE  IInv'
<1>1. CASE SelectDrive
  <2>1. TypeOK'
    BY <1>1 DEF IInv, TypeOK, SelectDrive
  <2>. QED
    BY <1>1, <2>1 DEF IInv, InStep, ProtocolKept, SelectDrive, MoreWords
<1>2. CASE SendCommand
  <2>1. /\ ~bsy /\ ~drq /\ pc' = "busy"
        /\ bsy' = TRUE /\ err' = FALSE /\ drq' = FALSE /\ phase' = kind
    BY <1>2 DEF IInv, InStep, ProtocolKept, SendCommand
  <2>2. bsy' \in BOOLEAN /\ drq' \in BOOLEAN /\ err' \in BOOLEAN /\ ~drq'
    BY Zenon, <2>1
  <2>3. TypeOK'
    BY <1>2, <2>1, <2>2 DEF IInv, TypeOK, SendCommand
  <2>. QED
    BY <1>2, <2>1, <2>2, <2>3 DEF IInv, TypeOK, InStep, ProtocolKept, SendCommand, MoreWords
<1>. QED
  BY <1>1, <1>2

\* A command that is accepted leads to the first word, one that is not to a
\* return with the drive idle.
LEMMA CheckStatusStep ==
  ASSUME IInv, CheckStatus
  PROVE  IInv'
<1>1. TypeOK'
  BY DEF IInv, TypeOK, CheckStatus, Return, drive
<1>2. /\ ~bsy' /\ (pc' = "data" => drq' /\ fpos' = 0 /\ j' = 0)
      /\ (pc' = "idle" => ~drq') /\ pc' \in {"data", "idle"}
  BY DEF IInv, InStep, CheckStatus, Return, drive
<1>. QED
  BY <1>1, <1>2 DEF IInv, InStep, ProtocolKept, CheckStatus, Return, drive, MoreWords, TypeOK

\* Word by word the driver's count and the drive's agree, down to the last.
LEMMA WordSteps ==
  ASSUME IInv, ReadWord \/ WriteWord
  PROVE  IInv'
<1>1. /\ pc = "data" /\ j < SectorWords /\ ~bsy /\ drq /\ fpos = j
      /\ Current \in 1 .. count /\ j \in 0 .. SectorWords - 1
  BY DEF IInv, TypeOK, InStep, ProtocolKept, ReadWord, WriteWord, MoreWords, Current
<1>2. CASE ReadWord
  <2>1. buf' = [buf EXCEPT ![Current][j] = fifo[fpos]]
    BY <1>1, <1>2 DEF ReadWord
  <2>2. fifo[fpos] \in Values /\ buf[Current] \in Contents
    BY <1>1 DEF IInv, TypeOK, Contents
  <2>3. buf' \in [1 .. count -> Contents]
    BY <1>1, <2>1, <2>2 DEF IInv, TypeOK, Contents
  <2>4. drq' \in BOOLEAN /\ fpos' = fpos + 1 /\ (drq' <=> fpos + 1 < SectorWords)
    BY <1>1, <1>2 DEF ReadWord
  <2>5. TypeOK'
    BY <1>1, <1>2, <2>3, <2>4 DEF IInv, TypeOK, ReadWord
  <2>. QED
    BY <1>1, <1>2, <2>4, <2>5 DEF IInv, InStep, ProtocolKept, ReadWord, MoreWords
<1>3. CASE WriteWord
  <2>1. fifo' \in Contents /\ fpos' = fpos + 1
    BY <1>1, <1>3 DEF IInv, TypeOK, WriteWord, Contents
  <2>2. CASE fpos + 1 = SectorWords
    <3>1. drq' = FALSE /\ bsy' = TRUE /\ phase' = "commit"
      BY <1>1, <1>3, <2>2 DEF WriteWord
    <3>2. drq' \in BOOLEAN /\ bsy' \in BOOLEAN /\ ~drq' /\ bsy'
      BY Zenon, <3>1
    <3>3. TypeOK'
      BY <1>1, <1>3, <2>1, <3>1, <3>2 DEF IInv, TypeOK, WriteWord
    <3>. QED
      BY <1>1, <1>3, <2>1, <2>2, <3>1, <3>2, <3>3
         DEF IInv, InStep, ProtocolKept, WriteWord, MoreWords
  <2>3. CASE fpos + 1 # SectorWords
    <3>1. UNCHANGED <<drq, bsy, phase>>
      BY <1>1, <1>3, <2>3 DEF WriteWord
    <3>2. TypeOK'
      BY <1>1, <1>3, <2>1, <3>1 DEF IInv, TypeOK, WriteWord
    <3>. QED
      BY <1>1, <1>3, <2>1, <2>3, <3>1, <3>2
         DEF IInv, InStep, ProtocolKept, WriteWord, MoreWords
  <2>. QED
    BY <2>2, <2>3
<1>. QED
  BY <1>2, <1>3

\* The loop goes round with the drive idle.
LEMMA NextSectorStep ==
  ASSUME IInv, NextSector
  PROVE  IInv'
<1>1. ~bsy /\ ~drq
  BY DEF IInv, TypeOK, InStep, NextSector, Idle
<1>2. TypeOK'
  BY DEF IInv, TypeOK, NextSector, Return, drive
<1>. QED
  BY <1>1, <1>2 DEF IInv, InStep, ProtocolKept, NextSector, Return, drive, MoreWords

\* The drive answers, or hangs.
LEMMA DriveSteps ==
  ASSUME IInv, Accept \/ Commit \/ Hang
  PROVE  IInv'
<1>1. CASE Accept
  <2>1. pc = "busy" /\ ~drq /\ bsy' = FALSE
    BY <1>1 DEF IInv, InStep, Accept
  <2>2. bsy' \in BOOLEAN /\ ~bsy'
    BY Zenon, <2>1
  <2>3. Blank \in Contents
    BY DEF Blank, Contents
  <2>4. /\ drq' => ~err'
        /\ err' \in BOOLEAN /\ drq' \in BOOLEAN /\ fifo' \in Contents /\ fpos' \in 0 .. SectorWords
        /\ drq' => fpos' = 0
    <3>1. CASE drq' = TRUE /\ fpos' = 0 /\ UNCHANGED err /\ Address(tf) \in Sectors
               /\ fifo' = IF phase = "read" THEN disk[Address(tf)] ELSE Blank
      <4>1. ~err /\ drq' \in BOOLEAN
        BY Zenon, <1>1, <2>1, <3>1 DEF IInv, InStep, Accept
      <4>. QED
        BY <2>3, <3>1, <4>1 DEF IInv, TypeOK
    <3>2. CASE err' = TRUE /\ UNCHANGED <<drq, fifo, fpos>>
      <4>1. err' \in BOOLEAN /\ ~drq'
        BY Zenon, <2>1, <3>2
      <4>. QED
        BY <2>1, <3>2, <4>1 DEF IInv, TypeOK
    <3>3. CASE UNCHANGED <<err, drq, fifo, fpos>>
      BY <2>1, <3>3 DEF IInv, TypeOK
    <3>. QED
      BY <1>1, <3>1, <3>2, <3>3 DEF Accept
  <2>5. TypeOK'
    BY <1>1, <2>2, <2>4 DEF IInv, TypeOK, Accept, driver
  <2>. QED
    BY <1>1, <2>1, <2>2, <2>4, <2>5 DEF IInv, InStep, ProtocolKept, Accept, driver
<1>2. CASE Commit
  <2>1. pc = "data" /\ kind = "write" /\ ~drq /\ ~MoreWords /\ bsy' = FALSE
    BY <1>2 DEF IInv, InStep, ProtocolKept, Commit
  <2>2. bsy' \in BOOLEAN /\ ~bsy'
    BY Zenon, <2>1
  <2>3. err' \in BOOLEAN /\ disk' \in [Sectors -> Contents]
    <3>1. CASE disk' = [disk EXCEPT ![Address(tf)] = fifo] /\ UNCHANGED err
      BY <3>1 DEF IInv, TypeOK
    <3>2. CASE err' = TRUE /\ UNCHANGED disk
      <4>1. err' \in BOOLEAN
        BY Zenon, <3>2
      <4>. QED
        BY <3>2, <4>1 DEF IInv, TypeOK
    <3>. QED
      BY <1>2, <3>1, <3>2 DEF Commit
  <2>4. TypeOK'
    BY <1>2, <2>2, <2>3 DEF IInv, TypeOK, Commit, driver
  <2>. QED
    BY <1>2, <2>1, <2>2, <2>4 DEF IInv, InStep, ProtocolKept, Commit, driver, MoreWords
<1>3. CASE Hang
  <2>1. hung' \in BOOLEAN
    BY Zenon, <1>3 DEF Hang
  <2>2. TypeOK'
    BY <1>3, <2>1 DEF IInv, TypeOK, Hang, driver
  <2>. QED
    BY <1>3, <2>2 DEF IInv, InStep, ProtocolKept, Hang, driver, MoreWords
<1>. QED
  BY <1>1, <1>2, <1>3

\* The two stay in step for ever.
LEMMA IInvStep == IInv /\ [Next]_vars => IInv'
<1>. SUFFICES ASSUME IInv, [Next]_vars PROVE IInv'
  OBVIOUS
<1>1. CASE Calls
  <2>1. PICK a \in Sectors, n \in 1 .. MaxCount :
          \/ Begin("read", a, n, [k \in 1 .. n |-> Blank])
          \/ \E b \in [1 .. n -> Contents] : Begin("write", a, n, b)
    BY <1>1 DEF Calls
  <2>2. [k \in 1 .. n |-> Blank] \in [1 .. n -> Contents]
    BY DEF Blank, Contents
  <2>. QED
    BY <2>1, <2>2, BeginStep
<1>2. CASE Driver
  BY <1>2, RegisterSteps, CheckStatusStep, WordSteps, NextSectorStep DEF Driver
<1>3. CASE Accept \/ Commit \/ Hang
  BY <1>3, DriveSteps
<1>4. CASE UNCHANGED vars
  <2>1. TypeOK'
    BY <1>4 DEF IInv, TypeOK, vars
  <2>. QED
    BY <1>4, <2>1 DEF IInv, InStep, ProtocolKept, MoreWords, vars
<1>. QED
  BY <1>1, <1>2, <1>3, <1>4 DEF Next

\* The driver's indices stay inside the sector and the caller's buffer.
THEOREM TypeCorrect == Spec => []TypeOK
<1>1. IInv => TypeOK
  BY DEF IInv
<1>. QED
  BY <1>1, IInvInit, IInvStep, PTL DEF Spec

\* Whatever the drive reports, registers are written only to an idle drive that
\* owes no data, and every word moved is the word the drive is at.
THEOREM ProtocolAlwaysKept == Spec => []ProtocolKept
<1>1. IInv => ProtocolKept
  BY DEF IInv, InStep
<1>. QED
  BY <1>1, IInvInit, IInvStep, PTL DEF Spec

-----------------------------------------------------------------------------
(* What a transfer carries.                                                *)

\* Every address a call can get to fits the four registers.
Reachable == \A a \in Sectors, n \in 0 .. MaxCount : Addressable(a + n)

\* The first block of the call, and what the call has to show for it.
First == lba - (count - left)
Data == IF kind = "read" THEN SubSeq(buf, 1, Moved) ELSE buf

\* The task file names the driver's block from select_drive on, and up to word
\* j the drive's sector and the caller's are one.
Carried ==
  /\ pc # "idle" => First \in Sectors
  /\ pc \in {"command", "busy", "data"} => tf = TaskFile(lba)
  /\ pc = "busy" /\ (bsy \/ drq) => phase = kind
  /\ pc = "busy" /\ drq => lba \in Sectors /\ (kind = "read" => fifo = disk[lba])
  /\ pc = "data" =>
       /\ lba \in Sectors
       /\ kind = "read" =>
            /\ fifo = disk[lba]
            /\ \A w \in 0 .. SectorWords - 1 : w < j => buf[Current][w] = disk[lba][w]
       /\ kind = "write" =>
            \A w \in 0 .. SectorWords - 1 : w < j => fifo[w] = buf[Current][w]

\* The block a call is at is one the registers can hold.
LEMMA BlockFits ==
  ASSUME IInv, Carried, Reachable, pc # "idle"
  PROVE  lba \in Nat /\ Address(TaskFile(lba)) = lba
<1>1. lba \in Nat /\ First \in Sectors /\ count - left \in 0 .. MaxCount
  BY DEF IInv, TypeOK, Carried
<1>2. Addressable(First + (count - left))
  BY <1>1 DEF Reachable
<1>3. First + (count - left) = lba
  BY DEF IInv, TypeOK, First
<1>. QED
  BY <1>1, <1>2, <1>3, AddressRoundTrip

\* Before the first call nothing has to be carried.
LEMMA CarriedInit == Init => Carried
BY DEF Init, Carried

\* A word goes across: the sector and the buffer agree on one more.
LEMMA CarriedWord ==
  ASSUME IInv, Carried, ReadWord \/ WriteWord
  PROVE  Carried'
<1>1. /\ pc = "data" /\ ~bsy /\ drq /\ fpos = j /\ pc' = "data"
      /\ j \in 0 .. SectorWords - 1 /\ j' = j + 1 /\ Current \in 1 .. count
      /\ UNCHANGED <<lba, left, count, kind, tf, disk>>
  BY DEF IInv, TypeOK, InStep, ProtocolKept, ReadWord, WriteWord, MoreWords, Current
<1>2. Current' = Current /\ First' = First
  BY <1>1 DEF Current, First
<1>3. lba \in Sectors /\ First \in Sectors /\ tf = TaskFile(lba)
  BY <1>1 DEF Carried
<1>4. CASE ReadWord
  <2>1. fifo' = fifo /\ kind = "read" /\ buf' = [buf EXCEPT ![Current][j] = fifo[j]]
    BY <1>1, <1>4 DEF ReadWord
  <2>2. /\ fifo = disk[lba]
        /\ \A w \in 0 .. SectorWords - 1 : w < j => buf[Current][w] = disk[lba][w]
    BY <1>1, <2>1 DEF Carried
  <2>3. buf \in [1 .. count -> Contents] /\ buf[Current] \in [0 .. SectorWords - 1 -> Values]
    BY <1>1 DEF IInv, TypeOK, Contents
  <2>4. \A w \in 0 .. SectorWords - 1 : w < j + 1 => buf'[Current][w] = disk[lba][w]
    <3>1. buf'[Current] = [buf[Current] EXCEPT ![j] = fifo[j]]
      BY <1>1, <2>1, <2>3
    <3>. QED
      BY <1>1, <2>2, <2>3, <3>1
  <2>. QED
    BY <1>1, <1>2, <1>3, <2>1, <2>2, <2>4 DEF Carried
<1>5. CASE WriteWord
  <2>1. buf' = buf /\ kind = "write" /\ fifo' = [fifo EXCEPT ![j] = buf[Current][j]]
    BY <1>1, <1>5 DEF WriteWord
  <2>2. \A w \in 0 .. SectorWords - 1 : w < j => fifo[w] = buf[Current][w]
    BY <1>1, <2>1 DEF Carried
  <2>3. fifo \in [0 .. SectorWords - 1 -> Values]
    BY DEF IInv, TypeOK, Contents
  <2>4. \A w \in 0 .. SectorWords - 1 : w < j + 1 => fifo'[w] = buf[Current][w]
    BY <1>1, <2>1, <2>2, <2>3
  <2>. QED
    BY <1>1, <1>2, <1>3, <2>1, <2>4 DEF Carried
<1>. QED
  BY <1>4, <1>5

\* The drive looks the block up that the task file names: the driver's.
LEMMA CarriedDrive ==
  ASSUME IInv, Carried, Reachable, Accept \/ Commit \/ Hang
  PROVE  Carried'
<1>1. UNCHANGED <<pc, kind, lba, left, count, j, buf, tf>> /\ Current' = Current /\ First' = First
  BY DEF Accept, Commit, Hang, driver, Current, First
<1>2. pc # "idle" => Address(tf) = lba \/ pc = "ready"
  BY BlockFits DEF IInv, TypeOK, Carried
<1>3. CASE Accept
  <2>1. pc = "busy" /\ ~drq /\ bsy' = FALSE /\ phase' = phase /\ phase = kind /\ disk' = disk
    BY <1>3 DEF IInv, InStep, Accept, Carried
  <2>2. drq' => lba \in Sectors /\ (kind = "read" => fifo' = disk[lba])
    BY <1>2, <1>3, <2>1 DEF Accept
  <2>. QED
    BY <1>1, <2>1, <2>2 DEF Carried
<1>4. CASE Commit
  <2>1. pc = "data" /\ kind = "write" /\ bsy' = FALSE /\ UNCHANGED <<drq, phase, fifo>>
    BY <1>4 DEF IInv, InStep, Commit
  <2>. QED
    BY <1>1, <2>1 DEF Carried
<1>5. CASE Hang
  BY <1>1, <1>5 DEF Hang, Carried
<1>. QED
  BY <1>3, <1>4, <1>5

\* The steps of the driver that move no word.
LEMMA CarriedDriver ==
  ASSUME IInv, Carried, SelectDrive \/ SendCommand \/ CheckStatus \/ NextSector
  PROVE  Carried'
<1>1. pc # "idle" /\ First \in Sectors
  BY DEF Carried, SelectDrive, SendCommand, CheckStatus, NextSector
<1>2. First' = First
  BY DEF IInv, TypeOK, First, SelectDrive, SendCommand, CheckStatus, NextSector
<1>3. CASE SelectDrive
  <2>1. tf' = TaskFile(lba) /\ lba' = lba /\ pc' = "command"
    BY <1>3 DEF IInv, InStep, ProtocolKept, SelectDrive, Idle
  <2>. QED
    BY <1>1, <1>2, <2>1 DEF Carried
<1>4. CASE SendCommand
  <2>1. tf' = tf /\ lba' = lba /\ pc' = "busy" /\ phase' = kind /\ kind' = kind /\ drq' = FALSE
    BY <1>4 DEF IInv, InStep, ProtocolKept, SendCommand
  <2>2. tf = TaskFile(lba)
    BY <1>4 DEF SendCommand, Carried
  <2>. QED
    BY <1>1, <1>2, <2>1, <2>2 DEF Carried
<1>5. CASE CheckStatus
  <2>1. pc = "busy" /\ UNCHANGED <<kind, lba, left, count, buf, tf, phase, fifo, drq, disk>>
    BY <1>5 DEF CheckStatus, drive
  <2>2. tf = TaskFile(lba)
    BY <2>1 DEF Carried
  <2>3. CASE pc' = "idle"
    BY <2>3 DEF Carried
  <2>4. CASE drq /\ pc' = "data" /\ j' = 0
    <3>1. lba \in Sectors /\ (kind = "read" => fifo = disk[lba])
      BY <2>1, <2>4 DEF Carried
    <3>. QED
      BY <1>1, <1>2, <2>1, <2>2, <2>4, <3>1 DEF Carried
  <2>. QED
    BY <1>5, <2>3, <2>4 DEF CheckStatus, Return
<1>6. CASE NextSector
  <2>1. pc' \in {"idle", "ready"}
    BY <1>6 DEF NextSector, Return
  <2>. QED
    BY <1>1, <1>2, <2>1 DEF Carried
<1>. QED
  BY <1>3, <1>4, <1>5, <1>6

\* What is carried stays carried.
LEMMA CarriedStep == Reachable /\ IInv /\ Carried /\ [Next]_vars => Carried'
<1>. SUFFICES ASSUME Reachable, IInv, Carried, [Next]_vars PROVE Carried'
  OBVIOUS
<1>1. CASE Calls
  <2>1. PICK k \in {"read", "write"}, a \in Sectors, n \in 1 .. MaxCount :
          \E b : Begin(k, a, n, b)
    BY <1>1 DEF Calls
  <2>2. pc' = "ready" /\ lba' = a /\ left' = n /\ count' = n
    BY <2>1 DEF Begin
  <2>3. First' = a
    BY <2>2 DEF First
  <2>. QED
    BY <2>2, <2>3 DEF Carried
<1>2. CASE Driver
  BY <1>2, CarriedDriver, CarriedWord DEF Driver
<1>3. CASE Accept \/ Commit \/ Hang
  BY <1>3, CarriedDrive
<1>4. CASE UNCHANGED vars
  BY <1>4 DEF Carried, First, Current, vars
<1>. QED
  BY <1>1, <1>2, <1>3, <1>4 DEF Next

-----------------------------------------------------------------------------
(* The driver implements BlockDev.                                         *)

\* The first m sectors of a buffer.
LEMMA Prefix ==
  ASSUME NEW n \in Nat, NEW b \in [1 .. n -> Contents], NEW m \in 0 .. n
  PROVE  /\ SubSeq(b, 1, m) \in Seq(Contents) /\ Len(SubSeq(b, 1, m)) = m
         /\ \A i \in 1 .. m : SubSeq(b, 1, m)[i] = b[i]
<1>1. \A i \in 1 .. m : b[i] \in Contents
  OBVIOUS
<1>2. /\ SubSeq(b, 1, m) \in Seq(Contents)
      /\ Len(SubSeq(b, 1, m)) = IF 1 <= m THEN m - 1 + 1 ELSE 0
      /\ \A i \in 1 .. m - 1 + 1 : SubSeq(b, 1, m)[i] = b[1 + i - 1]
  BY <1>1, SubSeqProperties
<1>3. m - 1 + 1 = m /\ \A i \in 1 .. m : 1 + i - 1 = i
  OBVIOUS
<1>. QED
  BY <1>2, <1>3

\* A buffer that changes behind its first m sectors keeps them.
LEMMA PrefixKept ==
  ASSUME NEW n \in Nat, NEW b \in [1 .. n -> Contents], NEW c \in [1 .. n -> Contents],
         NEW m \in 0 .. n, \A i \in 1 .. m : c[i] = b[i]
  PROVE  SubSeq(c, 1, m) = SubSeq(b, 1, m)
<1>. DEFINE s == SubSeq(b, 1, m)
            t == SubSeq(c, 1, m)
<1>1. /\ s \in Seq(Contents) /\ Len(s) = m /\ \A i \in 1 .. m : s[i] = b[i]
      /\ t \in Seq(Contents) /\ Len(t) = m /\ \A i \in 1 .. m : t[i] = c[i]
  BY Prefix
<1>. HIDE DEF s, t
<1>. QED
  BY <1>1, SeqEqual DEF s, t

\* The next sector is appended to them.
LEMMA PrefixGrows ==
  ASSUME NEW n \in Nat, NEW b \in [1 .. n -> Contents], NEW m \in 0 .. n - 1
  PROVE  SubSeq(b, 1, m + 1) = Append(SubSeq(b, 1, m), b[m + 1])
<1>. DEFINE s == SubSeq(b, 1, m)
            t == SubSeq(b, 1, m + 1)
            u == Append(s, b[m + 1])
<1>1. s \in Seq(Contents) /\ Len(s) = m /\ \A i \in 1 .. m : s[i] = b[i]
  BY Prefix
<1>2. m + 1 \in 0 .. n /\ b[m + 1] \in Contents
  OBVIOUS
<1>3. t \in Seq(Contents) /\ Len(t) = m + 1 /\ \A i \in 1 .. m + 1 : t[i] = b[i]
  BY <1>2, Prefix
<1>. HIDE DEF s, t
<1>4. /\ u \in Seq(Contents) /\ Len(u) = m + 1
      /\ \A i \in 1 .. m : u[i] = s[i]
      /\ u[m + 1] = b[m + 1]
  BY <1>1, <1>2, AppendProperties
<1>. HIDE DEF u
<1>5. \A i \in 1 .. m + 1 : u[i] = t[i]
  BY <1>1, <1>3, <1>4
<1>. QED
  BY <1>3, <1>4, <1>5, SeqEqual DEF s, t, u

\* How far a call has come.
LEMMA Progress ==
  ASSUME IInv
  PROVE  /\ count \in 0 .. MaxCount /\ left \in 0 .. count
         /\ pc # "idle" => Current \in 1 .. count /\ Moved \in 0 .. count
         /\ ~SectorMoved => Moved = count - left
         /\ SectorMoved => Moved = count - left + 1
         /\ SectorMoved => pc = "data"
BY DEF IInv, TypeOK, Current, Moved, SectorMoved

\* Nothing a caller could see.
LEMMA Stutters ==
  ASSUME UNCHANGED <<disk, kind, count, rc, First, Data, Moved>>,
         (pc # "idle")' = (pc # "idle")
  PROVE  UNCHANGED Block!vars
BY Zenon DEF Block!vars, First, Data

\* One sector more.
LEMMA Moves ==
  ASSUME pc # "idle", pc' # "idle", Moved < count, First + Moved \in Sectors, Moved' = Moved + 1,
         UNCHANGED <<kind, count, rc, First>>,
         IF kind = "read"
         THEN Data' = Append(Data, disk[First + Moved]) /\ UNCHANGED disk
         ELSE /\ UNCHANGED Data
              /\ \/ disk' = [disk EXCEPT ![First + Moved] = Data[Moved + 1]]
                 \/ "late" \in DriveFaults /\ UNCHANGED disk
  PROVE  Block!Move
<1>1. (pc # "idle")' = (pc # "idle")
  OBVIOUS
<1>. QED
  BY <1>1, Zenon DEF Block!Move, First, Data

\* A call begins with nothing moved.
LEMMA BeginMaps ==
  ASSUME IInv, Calls
  PROVE  Block!Begin
<1>0. PICK k \in {"read", "write"}, a \in Sectors, n \in 1 .. MaxCount :
        \E b \in [1 .. n -> Contents] : Begin(k, a, n, b)
  <2>1. \A n \in 1 .. MaxCount : [k \in 1 .. n |-> Blank] \in [1 .. n -> Contents]
    BY DEF Blank, Contents
  <2>. QED
    BY <2>1 DEF Calls
<1>1. PICK b \in [1 .. n -> Contents] : Begin(k, a, n, b)
  BY <1>0
<1>2. /\ pc = "idle" /\ pc' = "ready" /\ kind' = k /\ count' = n /\ buf' = b
      /\ rc' = 0 /\ disk' = disk /\ lba' = a /\ left' = n
  BY <1>1 DEF Begin, drive
<1>3. ~SectorMoved' /\ Moved' = 0 /\ First' = a /\ a \in Nat
  BY <1>2 DEF SectorMoved, Moved, First
<1>4. CASE k = "read"
  <2>1. Data' = SubSeq(b, 1, 0)
    BY <1>2, <1>3, <1>4 DEF Data
  <2>2. SubSeq(b, 1, 0) = <<>>
    <3>1. SubSeq(b, 1, 0) \in Seq(Contents) /\ Len(SubSeq(b, 1, 0)) = 0
      BY Prefix
    <3>. QED
      BY <3>1, EmptySeq
  <2>. QED
    BY <1>2, <1>3, <1>4, <2>1, <2>2 DEF Block!Begin, Data, First
<1>5. CASE k = "write"
  <2>1. Data' = b
    BY <1>2, <1>5 DEF Data
  <2>2. Len(b) = n /\ \A i \in 1 .. n : b[i] \in Contents
    OBVIOUS
  <2>. QED
    BY <1>2, <1>3, <1>5, <2>1, <2>2 DEF Block!Begin, Data, First
<1>. QED
  BY <1>4, <1>5

\* A word read is the last of a sector, which has now been read, or shows
\* nothing yet.
LEMMA ReadWordMaps ==
  ASSUME IInv, Carried, Carried', IInv', ReadWord
  PROVE  Block!Move \/ UNCHANGED Block!vars
<1>1. /\ pc = "data" /\ kind = "read" /\ j \in 0 .. SectorWords - 1 /\ j' = j + 1
      /\ UNCHANGED <<pc, kind, lba, left, count, rc, disk>>
      /\ buf' = [buf EXCEPT ![Current][j] = IF drq THEN fifo[fpos] ELSE 0]
  BY DEF IInv, TypeOK, ReadWord, MoreWords
<1>2. ~SectorMoved /\ Current' = Current
  BY <1>1 DEF SectorMoved, MoreWords, Current
<1>3. /\ Moved = count - left /\ Current = Moved + 1
      /\ Current \in 1 .. count /\ Moved \in 0 .. count - 1 /\ count \in Nat
  BY <1>1, <1>2, Progress DEF Current
<1>4. buf \in [1 .. count -> Contents] /\ buf' \in [1 .. count -> Contents]
  BY <1>1 DEF IInv, TypeOK
<1>5. \A i \in 1 .. Moved : buf'[i] = buf[i]
  BY <1>1, <1>3, <1>4
<1>6. SubSeq(buf', 1, Moved) = SubSeq(buf, 1, Moved)
  <2>. DEFINE m == Moved
              b == buf
              c == buf'
  <2>1. m \in 0 .. count
    BY <1>3
  <2>. HIDE DEF m, b, c
  <2>. QED
    BY <1>3, <1>4, <1>5, <2>1, PrefixKept DEF b, c, m
<1>7. CASE j + 1 < SectorWords
  <2>1. ~SectorMoved' /\ Moved' = Moved
    BY <1>1, <1>2, <1>7 DEF SectorMoved, MoreWords, Moved
  <2>2. Data' = Data
    BY <1>1, <1>6, <2>1 DEF Data
  <2>. QED
    BY <1>1, <2>1, <2>2, Stutters DEF First
<1>8. CASE j + 1 = SectorWords
  <2>1. SectorMoved'
    BY <1>1, <1>8 DEF SectorMoved, MoreWords
  <2>2. Moved' = Moved + 1
    BY <1>1, <1>3, <2>1 DEF Moved
  <2>3. lba \in Sectors /\ First + Moved = lba
    BY <1>1, <1>3 DEF Carried, First, IInv, TypeOK
  <2>4. buf'[Moved + 1] = disk[lba]
    <3>1. \A w \in 0 .. SectorWords - 1 : buf'[Current][w] = disk[lba][w]
      BY <1>1, <1>2, <1>8 DEF Carried
    <3>2. buf'[Current] \in [0 .. SectorWords - 1 -> Values]
      BY <1>3, <1>4 DEF Contents
    <3>3. disk[lba] \in [0 .. SectorWords - 1 -> Values]
      BY <2>3 DEF IInv, TypeOK, Contents
    <3>4. buf'[Current] = disk[lba]
      BY <3>1, <3>2, <3>3
    <3>. QED
      BY <1>3, <3>4
  <2>5. SubSeq(buf', 1, Moved + 1) = Append(SubSeq(buf', 1, Moved), buf'[Moved + 1])
    <3>. DEFINE m == Moved
                c == buf'
    <3>. HIDE DEF m, c
    <3>. QED
      BY <1>3, <1>4, PrefixGrows DEF m, c
  <2>6. Data' = Append(Data, disk[lba])
    BY <1>1, <1>6, <2>2, <2>4, <2>5 DEF Data
  <2>7. First' = First /\ Moved < count /\ disk' = disk
    BY <1>1, <1>3 DEF First
  <2>. QED
    BY <1>1, <2>2, <2>3, <2>6, <2>7, Moves
<1>. QED
  BY <1>1, <1>7, <1>8

\* The drive has written the sector, or lost it without being able to say so.
LEMMA CommitMaps ==
  ASSUME IInv, Carried, Reachable, Commit
  PROVE  Block!Move
<1>1. /\ pc = "data" /\ kind = "write" /\ bsy /\ bsy' = FALSE /\ ~MoreWords
      /\ UNCHANGED <<pc, kind, lba, left, count, j, buf, rc>>
  BY DEF IInv, InStep, ProtocolKept, Commit, driver
<1>2. ~SectorMoved /\ SectorMoved'
  BY <1>1 DEF SectorMoved, MoreWords
<1>3. /\ Moved = count - left /\ Current = Moved + 1 /\ Moved' = Moved + 1
      /\ Current \in 1 .. count /\ Moved \in 0 .. count - 1 /\ count \in Nat
  BY <1>1, <1>2, Progress DEF Current, Moved
<1>4. lba \in Sectors /\ First + Moved = lba /\ Address(tf) = lba
  BY <1>1, <1>3, BlockFits DEF Carried, First, IInv, TypeOK
<1>5. fifo = buf[Moved + 1]
  <2>1. j = SectorWords
    BY <1>1 DEF IInv, TypeOK, MoreWords
  <2>2. \A w \in 0 .. SectorWords - 1 : fifo[w] = buf[Current][w]
    BY <1>1, <2>1 DEF Carried
  <2>3. fifo \in [0 .. SectorWords - 1 -> Values] /\ buf[Current] \in [0 .. SectorWords - 1 -> Values]
    BY <1>3 DEF IInv, TypeOK, Contents
  <2>. QED
    BY <1>3, <2>2, <2>3
<1>6. Data = buf /\ Data' = buf
  BY <1>1 DEF Data
<1>7. \/ disk' = [disk EXCEPT ![First + Moved] = Data[Moved + 1]]
      \/ "late" \in DriveFaults /\ UNCHANGED disk
  BY <1>4, <1>5, <1>6 DEF Commit
<1>8. First' = First /\ Moved < count
  BY <1>1, <1>3 DEF First
<1>. QED
  BY <1>1, <1>3, <1>4, <1>6, <1>7, <1>8, Moves

\* An error ends the call short of its count.
LEMMA CheckStatusMaps ==
  ASSUME IInv, CheckStatus
  PROVE  Block!End \/ UNCHANGED Block!vars
<1>1. pc = "busy" /\ UNCHANGED <<kind, lba, left, count, buf, disk>>
  BY DEF CheckStatus, drive
<1>2. ~SectorMoved /\ Moved = count - left /\ Moved \in 0 .. count /\ Moved # count
  BY <1>1, Progress DEF SectorMoved, IInv, TypeOK
<1>3. ~SectorMoved'
  <2>1. pc' = "data" => j' = 0
    BY DEF CheckStatus, Return
  <2>. QED
    BY <2>1 DEF SectorMoved, MoreWords
<1>4. Moved' = Moved /\ First' = First
  BY <1>1, <1>2, <1>3 DEF Moved, First
<1>5. Data' = Data
  BY <1>1, <1>4 DEF Data
<1>6. CASE pc' = "idle" /\ rc' # 0
  BY <1>1, <1>2, <1>4, <1>5, <1>6 DEF Block!End, Data, First
<1>7. CASE pc' = "data" /\ rc' = rc
  BY <1>1, <1>4, <1>5, <1>7, Stutters
<1>. QED
  BY <1>6, <1>7 DEF CheckStatus, Return

\* The loop goes on, or the call ends with every sector moved.
LEMMA NextSectorMaps ==
  ASSUME IInv, NextSector
  PROVE  Block!End \/ UNCHANGED Block!vars
<1>1. /\ pc = "data" /\ pc' \in {"idle", "ready"} /\ ~MoreWords /\ (kind = "write" => ~bsy)
      /\ lba' = lba + 1 /\ left' = left - 1
      /\ UNCHANGED <<kind, count, buf, disk>>
  BY DEF NextSector, Return, Idle, drive
<1>2. SectorMoved /\ ~SectorMoved'
  BY <1>1 DEF SectorMoved
<1>3. /\ Moved' = Moved /\ Moved = count - left + 1 /\ First' = First
      /\ left \in Nat /\ count \in Nat
  BY <1>1, <1>2 DEF Moved, First, IInv, TypeOK
<1>4. Data' = Data
  BY <1>1, <1>3 DEF Data
<1>5. CASE left' = 0
  <2>1. pc' = "idle" /\ rc' = 0 /\ Moved = count
    BY <1>1, <1>3, <1>5 DEF NextSector, Return
  <2>. QED
    BY <1>1, <1>3, <1>4, <2>1 DEF Block!End, Data, First
<1>6. CASE left' # 0
  <2>1. pc' = "ready" /\ rc' = rc
    BY <1>6 DEF NextSector
  <2>. QED
    BY <1>1, <1>3, <1>4, <2>1, Stutters
<1>. QED
  BY <1>5, <1>6

\* Registers, words on their way out and a drive that makes up its mind are
\* not seen.
LEMMA HiddenMaps ==
  ASSUME IInv, SelectDrive \/ SendCommand \/ WriteWord \/ Accept \/ Hang
  PROVE  UNCHANGED Block!vars
<1>1. /\ UNCHANGED <<kind, lba, left, count, buf, rc, disk>>
      /\ pc # "idle" \/ UNCHANGED pc
      /\ pc' # "idle" \/ UNCHANGED pc
  BY DEF SelectDrive, SendCommand, WriteWord, Accept, Hang, driver
<1>2. SectorMoved' = SectorMoved
  <2>1. CASE SelectDrive \/ SendCommand
    BY <2>1 DEF SelectDrive, SendCommand, SectorMoved
  <2>2. CASE WriteWord
    <3>1. /\ pc = "data" /\ kind = "write" /\ kind' = kind /\ ~bsy /\ drq /\ fpos = j
          /\ j \in 0 .. SectorWords - 1 /\ j' = j + 1
      BY <2>2 DEF IInv, TypeOK, InStep, ProtocolKept, WriteWord, MoreWords
    <3>2. ~MoreWords' => bsy'
      <4>1. ~MoreWords' => fpos + 1 = SectorWords
        BY <3>1 DEF MoreWords
      <4>2. fpos + 1 = SectorWords => bsy' = TRUE
        BY <2>2, <3>1 DEF WriteWord
      <4>. QED
        BY <4>1, <4>2, Zenon
    <3>. QED
      BY <3>1, <3>2 DEF SectorMoved, MoreWords
  <2>3. CASE Accept
    BY <2>3 DEF IInv, InStep, Accept, driver, SectorMoved
  <2>4. CASE Hang
    BY <2>4 DEF Hang, driver, SectorMoved, MoreWords
  <2>. QED
    BY <2>1, <2>2, <2>3, <2>4
<1>3. Moved' = Moved /\ First' = First
  BY <1>1, <1>2 DEF Moved, First
<1>4. Data' = Data
  BY <1>1, <1>3 DEF Data
<1>5. (pc # "idle")' = (pc # "idle")
  BY <1>1
<1>. QED
  BY <1>1, <1>3, <1>4, <1>5, Stutters

\* Every step of the driver and the drive is a step of BlockDev, or none.
LEMMA Maps ==
  Reachable /\ IInv /\ IInv' /\ Carried /\ Carried' /\ [Next]_vars => [Block!Next]_(Block!vars)
<1>. SUFFICES ASSUME Reachable, IInv, IInv', Carried, Carried', [Next]_vars
              PROVE  Block!Next \/ UNCHANGED Block!vars
  OBVIOUS
<1>1. CASE Calls
  BY <1>1, BeginMaps DEF Block!Next
<1>2. CASE ReadWord
  BY <1>2, ReadWordMaps DEF Block!Next
<1>3. CASE Commit
  BY <1>3, CommitMaps DEF Block!Next
<1>4. CASE CheckStatus
  BY <1>4, CheckStatusMaps DEF Block!Next
<1>5. CASE NextSector
  BY <1>5, NextSectorMaps DEF Block!Next
<1>6. CASE SelectDrive \/ SendCommand \/ WriteWord \/ Accept \/ Hang
  BY <1>6, HiddenMaps
<1>7. CASE UNCHANGED vars
  <2>1. UNCHANGED <<disk, kind, count, rc, First, Data, Moved, pc>>
    BY <1>7 DEF vars, First, Data, Moved, SectorMoved, MoreWords
  <2>. QED
    BY <2>1, Stutters
<1>. QED
  BY <1>1, <1>2, <1>3, <1>4, <1>5, <1>6, <1>7 DEF Next, Driver

\* Whatever the drive reports and whenever: a call moves whole sectors in
\* ascending order, returns 0 only when all are moved, and changes no sector it
\* was not given; only a drive that can fail late loses one.
THEOREM Implements == Reachable => (Spec => ImplementsBlockDev)
<1>. SUFFICES ASSUME Reachable PROVE Spec => ImplementsBlockDev
  OBVIOUS
<1>1. Init => Block!Init
  <2>. SUFFICES ASSUME Init PROVE Block!Init
    OBVIOUS
  <2>1. /\ pc = "idle" /\ kind = "read" /\ lba = 0 /\ left = 0 /\ count = 0
        /\ buf = <<>> /\ rc = 0 /\ disk \in [Sectors -> Contents]
    BY DEF Init
  <2>2. Moved = 0 /\ lba - (count - left) = 0
    BY <2>1 DEF Moved, SectorMoved
  <2>3. SubSeq(buf, 1, Moved) = <<>>
    BY <2>1, <2>2
  <2>. QED
    BY <2>1, <2>2, <2>3 DEF Block!Init
<1>2. Carried /\ IInv /\ [Next]_vars => Carried'
  BY CarriedStep
<1>3. IInv /\ IInv' /\ Carried /\ Carried' /\ [Next]_vars => [Block!Next]_(Block!vars)
  BY Maps
<1>. QED
  BY <1>1, <1>2, <1>3, IInvInit, IInvStep, CarriedInit, PTL
     DEF Spec, ImplementsBlockDev, Block!Spec

=============================================================================
