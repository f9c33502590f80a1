# A TLA+ model of GQ_DOS

GQ_DOS is a single-core x86-64 kernel without processes: it boots into a
shell that reads commands from a PS/2 keyboard and runs them on the FAT32
volume of an ATA disk. This directory holds TLA+ specifications of its parts,
the TLC configurations that check them on small instances, and TLAPS proofs
of what matters most for every instance.

## 1. The system

| Part | Source | State it keeps | Operations |
| --- | --- | --- | --- |
| FAT32 driver | `src/fs/fat32.c` | geometry in `fat32_t`; on disk the FAT and the root directory | `fat32_init`, `lookup`, `read_file`, `dir_list`, `create`, `delete` |
| ATA driver | `src/kernel/ata.c` | none; the drive's task file registers | `ata_read_sectors`, `ata_write_sectors` |
| Keyboard | `src/kernel/kbd.c` | ring `g_buf`, `g_head`, `g_tail`; `g_shift` | `kbd_handle_scancode`, `kbd_poll`, `kbd_getc`, `kbd_has_char` |
| Interrupts | `idt.c`, `isr.c`, `interrupts.asm`, `isr.h` | the IDT; `g_ticks`; the saved register frame | stubs, `irq_handler`, `exception_handler` |
| Timer sources | `apic.c`, `pit.c`, `pic.c` | device registers | `apic_init`, `apic_eoi`; `pit_init`, `pic_remap` (no callers) |
| Console | `console.c`, `font8x8_basic.h` | frame buffer, `g_cx`, `g_cy` | `console_init`, `clear`, `putc`, `puts` |
| printf | `printf.c` | none | `printf`, `print_unsigned`, `print_signed` |
| Shell | `shell.c` | `g_fs`, the command line | `readline`, `shell_run`, `cmd_type` |
| Serial port | `serial.c` | device registers | `serial_init`, `serial_putc`, `serial_puts`, `serial_print_num` |
| C library | `libc/string.c` | none | `memset`, `memcpy`, `memcmp`, `strlen`, `strcmp`, `strchr` |
| Boot | `main.c`, `linker.ld`, `limine.conf` | none | `kmain` |

How they interact. `kmain` checks what the boot loader handed over, sets up the
console, the IDT, the local APIC's timer and the keyboard, enables interrupts
and calls `shell_run`, which mounts the volume and loops: `readline` takes
characters from `kbd_getc` and echoes them through `console_putc`, and a
command calls FAT32, which calls the ATA driver back through `fs->read` and
`fs->write`. Everything runs on one thread; the only concurrency is with the
timer interrupt (which increments `g_ticks` and wakes `hlt`), with the keyboard
controller, and with the disk. `pic_remap` and `pit_init` have no callers:
IRQ0 and IRQ1 are not set up, and the keyboard is polled once per timer tick.

What is hard: a call of the file system is several sector writes and the power
may go, or a write may be refused, between any two; the status of every sector
transfer is dropped by FAT32; chains and searches have no bound of their own;
the disk driver polls for ever; the keyboard loses what its polling is too slow
for and its ring is too small for; the code paths of an interrupt share the
keyboard's ring with the thread they interrupt.

What makes each part correct:

* FAT32: no two files share a cluster, nothing in use is marked free, the root
  directory is never damaged, what `create` adds every scan finds and what
  `delete` unlinks it frees, calls terminate; a call is atomic to its user.
* ATA: a transfer that returns 0 moved the sectors it was asked for, in order;
  the protocol with the drive is kept; a call returns.
* Keyboard: characters arrive in the order typed, none twice, none invented; a
  reader that waits is woken; a full ring drops the newest and corrupts nothing.
* Interrupts: the stub restores what it saved; the frame is what the C
  structure says; every interrupt is acknowledged once.
* Console: it is a terminal of `rows` lines that scrolls, and nothing is drawn
  outside the frame buffer.
* printf: a number comes out as its digits, for every width.
* Shell: what is executed is what is on the screen; a command acts on the file
  it names.

`PROJECT.json` lists every part with its status, and every hazard at its line.

## 2. The modules

| Component | Specification | Abstract specification | Model | Proofs |
| --- | --- | --- | --- | --- |
| FAT32 driver: order of its steps | `Fat32` | `FileStore` | `MCFat32` | `Fat32Proofs` |
| FAT32 driver: bytes, places, names | `Fat32Disk` (on `ShortName`, `CString`) | `Volume` | `MCFat32Disk` | `Fat32DiskProofs` |
| ATA driver | `Ata` | `BlockDev` | `MCAta` | `AtaProofs` |
| Keyboard | `Kbd` | `KeyStream` | `MCKbd` | `KbdProofs` |
| Console | `Console` | `Terminal` (on `Sheet`) | `MCConsole` | `ConsoleProofs` |
| Shell | `Shell` (on `Sheet`) | | `MCShell` | `ShellProofs` |
| Interrupts, boot | `Trap` | | `Trap` itself | `TrapProofs` |
| printf, serial port | `Printf` (on `CString`) | | `MCPrintf` | `PrintfProofs` |

The layers meet at their abstract specifications: `Shell` types on the `Sheet`
that `Console` is shown to implement, it gets any character at any time, which
is what `KeyStream` gives it, and any answer of the file system; `Fat32` writes
sectors whole and one after another, which is what `BlockDev` promises it, and
changes one FAT entry or one directory slot with each, which is what `Volume`
promises of the bytes.

An operator named `X_Something` next to an operator `X` is a variant of `X` as
a plausible mistake would have it. No specification uses it; replacing `X` by
it must break the property `PROJECT.json` names under "mutants".

### Fat32 and FileStore

| Model | Code (`src/fs/fat32.c`) |
| --- | --- |
| `fat`, `dir` | the FAT area (all copies, one array) and the root directory on disk |
| `RootChain`, `ClusterSlots`, `FatLen` | `root_cluster` and its chain, `sec_per_clus`, `fat_size` of `fat32_t` |
| `Call` | the entry of `fat32_lookup` + `fat32_read_file` ("type"), `fat32_dir_list` ("dir"), `fat32_create`, `fat32_delete` |
| `ScanNextCluster`, `ScanFreeSlot`, `ScanMatch`, `ScanEndMark` | the loops over `dir_buf`, one step for one cluster, by how the loop is left |
| `AllocCluster` | the search for an entry that reads 0, from 2 upwards |
| `InChain`, `EndMarks` | the test of every chain walk, `>= 2 && < 0x0FFFFFF8`, and the eight values from 0x0FFFFFF8 to 0x0FFFFFFF that end a chain; `EndMark` is the last of them, which create writes |
| `WriteEntry`, `MarkCluster` | the two writes of create, directory first |
| `EraseEntry`, `FreeCluster`, `FreeDone` | the 0xE5 of delete and its walk, one entry cleared in a step |
| `ReadCluster`, `ReadDone` | the loop of read_file |
| `Boot`, `PowerLoss` | `fat32_init`; the power goes between two writes |
| `Refused` | a write whose status the code drops: the disk is unchanged and the call goes on |

A step ends at a loop iteration or at a sector write, for those are the points
where a power loss or a refused write makes a difference. `torn` is a history
variable: it becomes true only when one of two writes that belong together has
reached the disk and the other has not. Power lost inside delete, or before the
first write of create, does not set it: the one only loses clusters, the other
nothing.

`FileStore` is what a user of the shell may think of: a bag of names and calls
that take effect in one step. It is a bag, not a set, because `fat32_create`
does not look for an existing name: `mkfile A` twice lists `A` twice, and
`del A` removes one of them. It has the faults in it, as a user meets them: a
`mkfile` or `del` may answer as if it had happened when it has not (`Lose`: the
write of the directory sector was refused and its status dropped). A later write
of the call that is refused (`Spoil`) counts as a fault and changes nothing that
a user of names can see: it is clusters that it loses.

### Fat32Disk, Volume, ShortName and CString

`Fat32` takes the disk for an array of FAT entries and a list of slots. Why it
may is `Fat32Disk`: the same writes on sectors of 512 bytes.

| Model | Code |
| --- | --- |
| `disk`, `fs` | the sectors; `fat32_t`, or `Unmounted` before `fat32_init` |
| `Bpb`, `HasSignature`, `fat32_init` | `fat32.c:19`, what the boot sector says the volume is |
| `cluster_to_lba`, `fat_lba`, `fat_off`, `found_lba`, `found_off` | the place of a FAT entry and of a slot |
| `Byte`, `Word16`, `Word32`, `Word28` | the shifts, ors and masks |
| `EntryAt`, `ent` | a directory entry as it is read and as create puts it together |
| `Rewrite` | read a sector into a buffer on the stack, change it, write it back, as `write_fat_entry`, create and delete do |
| `make_short_name`, `make_display_name` | in `ShortName`, on the string functions of `CString` |

The status of the read in `Rewrite` is dropped by the code. `failed` counts
reads that moved nothing: the buffer then is one of `Junk`, anything the stack
may have held, and goes to the disk around the bytes that were meant.
`typed` is a history variable: the name a slot's file was made by. Where `Fat32` fixes the order of
the writes, `Fat32Disk` lets any write follow any other.

`Volume` is what is left for the rest: entries and slots, written one at a
time, where a failed read may change what shares the sector and nothing else.
`FatSector` and `SlotSector`, the map from the one to the other, are written
from the layout of FAT32, not from the driver's arithmetic, so that the
refinement compares the two.

`ListedIsFound` has a condition: `mkfile` takes a space into a name (`mkfile a b`
makes "A B"), `dir` prints it up to the space, and by that name it is not found.
`Fold` says which names are one name: those whose base and extension agree after
cutting to 8 and 3 characters, without regard to case and to spaces at the end.

### Ata and BlockDev

`Ata` is driver and drive together. The driver's variables are the locals of
`ata_read_sectors` and `ata_write_sectors` (`lba`, `left` = `count - i`, `j`,
the buffer); its actions are select (`select_drive` after its poll), the
command, the test of the status after BSY has cleared, one `inw` or `outw`, and
the end of the loop body, where a write polls once more. The drive is external:
BSY, DRQ and ERR, a task file, a sector in its buffer. It ignores registers
while it is busy or owes data, and it may refuse early (ERR), fail without ERR
and DRQ (device fault), fail after it has taken the data, or hang.

`BlockDev` is what `blk_read` and `blk_write` give the file system: sectors
move one by one in ascending order, and the return value is 0 if and only if
all have moved. `MayLose` is in it because the code makes it so: the poll after
the data of a write tests BSY and not ERR, so an error reported late is lost
with the sector.

### Kbd and KeyStream

`Kbd` is the ring (`g_buf`, `g_head`, `g_tail`), `g_shift`, the thread in
`kbd_getc` (`check`, `sleep`, `halt`, `poll`, `take`), the timer's handler and
the controller's queue. The test of the ring and the `hlt` are two steps: a tick
may come between them, and is over when the `hlt` begins. `Handle` is `kbd_handle_scancode` and `Poll` the one byte
`kbd_poll` takes after each `hlt`. IRQ1 is not there: its branch in
`irq_handler` cannot run, because nothing calls `pic_remap`. The refinement to
`KeyStream` maps the ring and the characters still to come of the queued bytes
to `pending`.

`KeyStream` has one `shift`. So has the driver, and a keyboard has two Shift
keys: with both held, releasing either clears `g_shift`. And a byte the
controller drops may be a release. `ShiftIsHeld` says what is left: once every
byte is read and the latest one of a Shift key got through (`lost`), Shift does
not stick, and it is in force while a Shift key is down unless both were (`both`).

### Console, Sheet and Terminal

`Console` is one array of pixels and the position. `Putc` is `console_putc`
with what it calls: the character (`Handled`, with `draw_glyph` in `Drawn`),
the wrap at the right edge, the scroll by `8 * pitch` pixels. A character that
would be drawn outside would add an element to the domain of `pixels`, and
`TypeOK` would be false. `Sheet` has the same text as lines of characters,
`Terminal` is the machine over it, and the refinement reads the characters back
from the pixels with the font.

### Shell

`Mount`, `Prompt`, `Enter`, `Erase`, `Insert` and `Run` are `shell_run` and
`readline`, one key or one command at a time; `Output` prints one character of
what the last of them left in `out`. The words of a line are cut by
`SkipSpaces` and `WordEnd` as the pointer loops of `shell_run` do. `home` is a
history variable, the place where the prompt ended, counted in cells from the
top of the sheet, so it is negative once the prompt has scrolled away.

`LineShown` has a condition, `plain`. Without it it fails, and that is how the
code is: a tab is one character of the line and several cells of the screen,
and a backspace in the first column (of a line that has wrapped) erases the
character in the buffer and nothing on the screen. `NothingHidden` is what is true
of those lines, too: the screen may show more than the line holds and never less.
Its history variable is `places`, where each character of the line was echoed.

### Trap

The stack word by word: what the processor pushes, what the stub and `pushall`
push, what `registers_t` reads at each place, what `popall`, `add rsp, 16` and
`iretq` take off. A C function leaves junk in the registers it may use.
`Checks` to `Sti` are `kmain` in its order, `Work` is anything the thread does
to its registers and its stack in between. `Fault` may come at any instruction
of the thread, from the first of the kernel on, and inside the timer's handler.
`Deliver` looks for the gate. Without one an interrupt becomes a general protection
fault, whose error code names the entry of the IDT (`NoGate`); before `lidt`
there is no gate for that either and the step is `lost`, since what IDT the boot
loader left is not the kernel's to rely on. `Spurious` is the local APIC's
vector 0xFF, which `apic_init` enables and `idt_init` sets no gate for. The history
variable `ungated` keeps the vectors that came without a gate.

### Printf

A program is a sequence of calls: `printf` with a format of pieces and its
arguments, or a call of the serial port. `PlainCharacter` to `FormatEnds` are
one pass of `printf`'s loop each, `Divide` and `PrintDigit` the two loops of
`print_unsigned` (and of `serial_print_num`, which is the same code again),
`PrintString` those over a string. An argument lies in a slot of a long's width,
of which an int has the lower part and leaves the rest as it was (`junk`).
`ProgramOK` says what calls are meant: an argument is a value of the type its
conversion reads, a string has no NUL and may be empty, a lone `%` ends its format, and
`serial_init` comes first, as in `kmain`, before anything else uses the port.
`Null` stands for the null pointer and is no string: `%s` replaces it by "(null)",
while an empty string, which `echo` without an argument and `type` of an empty
file pass, prints nothing.

The port is external: its data register and divisor share an address, which one
it is depends on DLAB, and what it sends is only legible at the speed and format
that `serial_init` sets. A port that is not there reads as 0xFF.

## 3. What the runs check

| Run | Bounds | What it shows |
| --- | --- | --- |
| `fat32_faults` | root directory of 2 clusters with 2 slots each, 5 data clusters, a spare FAT entry, two FAT copies, two end marks, 2 names, 2 faults; a fresh volume and one a host has written to | no chain walk leaves the FAT area; the volume stays consistent until a write it needs is lost; the root directory always; nothing in use is overwritten, hidden or leaked; `FileStore` is implemented; every call returns |
| `fat32_disk` | clusters of 2 sectors, FAT entries 2, 127, 128 and 70000, 4 slots of a directory of 2 clusters, 8 names, 2 writes, 1 failed read | `Volume` is implemented: places and bytes are right; files answer to the names they are listed by and to no other |
| `ata_transfer` | 3 blocks, two of them on both sides of a carry into the fourth address register, 2 words in a sector, 2 values, calls of 1 and 2 sectors, every fault | the protocol is kept, `BlockDev` is implemented, calls return |
| `kbd_stream` | both Shift keys, Q and A, ring of 3, queue of 3, 5 bytes | `KeyStream` is implemented, the ring has room, Shift does not stick, a waiting reader is woken |
| `console_terminal` | 3 by 3 cells of 2 by 2 pixels, one pixel too many either way, padding of 2 | `Terminal` is implemented, the margins stay blank |
| `shell_lines` | screen of 2 by 4, buffer of 6, the keys c, e, space, tab, backspace, Enter | the line editor keeps line and screen together and hides no character of the line, the words are cut apart |
| `print_text` | int of 4 and long of 7 bits, every value of both through every conversion; kmain's lines; empty strings and the null pointer; formats with `%%`, unknown letters and a `%` at the end; a port in four states | what is called for comes out, whole and in order, and every call ends |
| `trap_return` | the timer, spurious interrupts and four exceptions, two with an error code, from the first instruction on; two values for each register | what the stub saves is what comes back and what the handler reads; what finds no gate stops the kernel, and a tick always finds its own |

Why the bounds are enough. Fat32: two clusters make a scan continue and make
allocation, chains and directory share one FAT; with four slots and three free
clusters TLC fills the directory and the volume, reuses deleted slots and
runs past the end of the first FAT copy; of the two end marks the lower is the
least number no walk may follow and the higher the one create writes, and both
the root chain and a file end in each; two faults are needed for a second
failure to meet what the first one left, and the theorems remove the bound.
Fat32Disk: entries 127 and 128 are the last of a sector and the first of the
next, 70000 has more than 16 bits, two slots share a sector, one is the last of
a cluster and one begins its second sector; the names meet in every way two names can
(case, missing parts, both missing, a second dot, too long); one write for the element and one
for its neighbour is all that two elements need, and the theorems remove the
bound. Printf: the widths keep the ends of the range, and one of them is shorter
than the other; each number takes one or more digits in both bases. Ata: a call of
two sectors has a first, a last and a carry through all four address registers,
and sector 0 is what an address without the fourth would name. Kbd: a ring of three wraps, and
five bytes overflow
the queue with one left to come. Console: three lines scroll twice before a
character has gone. Shell: a line of five characters wraps a screen of four
columns and scrolls it; `Drift` stops counting the cells a prompt has scrolled
away by when nothing of the line's beginning can be on the screen any more.
Trap: two values tell a register that was kept from one that was not.

Fairness. `Printf` has weak fairness of the thread and of a UART that sends what
it is given, so a port that is there and never becomes ready is left out.
`Fat32` has weak fairness of the driver: the kernel has one thread
and its calls run to completion; not of `Boot` nor of `Call`. `Ata` has it of
the driver and of a drive that has not hung. `Kbd` has it of the
periodic timer and its handler, and strong fairness of the thread, which every
tick takes the processor from: the handler is a few instructions long and the
period many thousands. It has none of the user. `Trap` has it of the boot, the
handlers, the timer and of taking an interrupt that is pending, not of the
thread: the ticks go on whatever the thread does, as long as it leaves IF set,
and it never clears it. The other modules need none.

Deadlock is checked where the system never stops (`Fat32`, `Kbd`, `Console`),
and not where it may: a drive that hangs (`Ata`), the halt after a failed mount
and the bound `Drift` (`Shell`), an exception (`Trap`), a program that has been
printed (`Printf`), the bound `MaxWrites` (`Fat32Disk`).

### Where code and text disagree

Four runs expect a violation; each is a finding in `PROJECT.json`.

* `fat32_volume`: on a full volume `fat32_create` takes a spare FAT entry
  behind the last cluster (`fat32.c:188`), where its comment says a free cluster.
* `ata_hang`: the polls have no timeout (`ata.c:27`), which the roadmap gives them.
* `kbd_top_row`: with Shift held, Q to P, Backspace, Tab and Enter make no
  character (`kbd.c:31`).
* `trap_frame`: `registers_t` lists `rflags`, `cs`, `rip` and the processor
  pushes them so that RIP is lowest: the handler prints RFLAGS as rip (`isr.h:10`).

What the models show besides, with no text to disagree with: the bag of
`FileStore`, the lost sectors of `BlockDev`, the one Shift of `KeyStream`, the
`plain` of `Shell`; that `mkfile` prints "Created" when the directory's write
was refused (`fat32.c:206`, `Lose` in `FileStore`), and what a failed read costs
(`Volume`); that a file with a space in its name is listed under another; that `fat32_read_file` returns 0 when a torn chain ends
before the size does; that the spurious vector 0xFF of the local APIC has no
gate, so the first spurious interrupt halts the kernel with `EXCEPTION vector=13`
(`GateOrStop`); and that a frame buffer smaller
than a glyph would make the scroll copy from in front of it (excluded by
`ConsoleAssumption`).

## 4. What is proved

TLAPS checks these for every value of the constants the assumptions admit.

* `Fat32Proofs` (`GeometryAssumption`: a root directory chain without
  repetitions inside the volume, a FAT copy longer than the volume;
  `ImagesAssumption`: the volumes booted from are consistent).
  `TypeCorrect`, `RootIntactAlways`, `ConsistentAlways`, `OnlyDeleteRemoves`.
  The end marks are any interval of numbers beyond the FAT (`EndMarksApart`).
  `RootIntact` alone is not inductive: a walk of delete whose register held a
  root cluster would free it. `RootInv` therefore says that links stay inside
  the volume, that no entry and no link from outside leads into the root
  directory, that the register `c` never holds one of its clusters, and that
  an entry past the first FAT copy links nowhere. It holds on torn
  volumes too, which is why `RootIntactAlways` has no condition. `FilesInv`
  adds what the running call knows: `SlotInv` (the slot found is still free, or
  still the file's; the cluster found is still free) and `WalkOwnsHead` (while
  delete walks, the rest of the chain has no owner but the walk), without which
  clearing an entry could leave a link to a free cluster.
  Two theorems begin from volumes as any other system leaves them.
  `NeverLosesCluster` assumes that nothing is lost on them (`WholeImages`):
  `NoneLost` says that without faults only the walk of delete holds a cluster
  that nothing leads to. `AlwaysReadsWhole` assumes that chains are as long as
  sizes say (`LongImages`): a chain is given as the function of its places
  (`Reaches`), and since nothing leads to what delete's walk clears, no chain in
  use goes through it (`ChainStands`).
  Its last part is for volumes with nothing in use behind an end mark
  (`OrderedImages`): `DirAlwaysListsAll` and `Implements`, the refinement of
  `FileStore`. `ScanInv` says where a scan is in the order of the directory's
  chain (`Ahead`), that what it has passed it need not have stopped at, and that
  create keeps everything in use in front of the first end mark. The bag of
  `FileStore` counts slots, so each write changes one count by one.
* `Fat32DiskProofs` (`GeometryAssumption`: a volume of 512-byte sectors whose FAT
  ends before its data, directory slots at multiples of 32 within a cluster;
  `DisksAssumption`: its boot sector describes it; `NamesAssumption`: typed names
  are of 7-bit characters). `TypeCorrect`; `Implements`, the
  refinement of `Volume`; `ListedAlwaysFound`; `AlwaysAnswersToItsName`. Under them are the arithmetic of
  bytes (`BytesAdd`, from the lowest byte upwards), that no two FAT entries and no
  two slots overlap (`FatApart`, `SlotApart`, by the uniqueness of a row and a
  place in it) and that FAT, directory and boot sector are apart (`Regions`), what
  one write leaves of each (`LinkWritten`, `LinkKept`, `EntryWritten`,
  `EntryKept`), and the round trip of a name (`ShortIs`, `DisplayIs`,
  `RoundTrip`), and that the 11 bytes of two names agree exactly if the names do
  in what is kept of them (`PartsIs`, `PartEqual`, `FoldIs`). The invariant is `TypeOK`, that the boot sector is as it was, and
  `Remembered`: a slot that has an author has the short name of what was typed.
* `AtaProofs`: `AddressRoundTrip`, for every 28-bit address; `TypeCorrect` and
  `ProtocolAlwaysKept`, from `InStep`, which says at which points of the driver
  the drive may be busy, owe data, and at which word; `Implements`, the
  refinement of `BlockDev`, for calls whose blocks all have 28-bit addresses
  (`Reachable`, an assumption of the theorem), from `Carried`: the task file names
  the driver's block, and up to word `j` the drive's sector and the caller's are
  one.
* `KbdProofs` (`KbdAssumption`: a ring of two at least, scan codes of seven bits).
  `RingAlwaysHasRoom`, from `RingInv`: the reader halts and polls only while the
  ring is empty. `TypeCorrect`. `ShiftAlwaysHeld`, with both Shift keys and
  whatever is dropped, from `ShiftInv`: the last byte of a Shift key in the queue
  agrees with what the user holds, and with none in the queue `g_shift` does,
  unless that key's latest byte was dropped. `Implements`, the refinement of `KeyStream`, for every ring,
  queue and set of keys: the characters still to come are what the ring holds and
  what the bytes of the queue will make. They are folded over the queue (`Handled`),
  so the lemmas say what the fold is after one byte more at its end and one
  byte less at its front, by induction over the places of the queue. A poll
  then moves characters from the second part to the first and changes no
  sequence, because with `RingInv` none of them is dropped.
* `PrintfProofs` (`WidthAssumption`: an int is no wider than a long, the buffer holds
  the decimal digits of a long; `ProgramsAssumption`: `ProgramOK`, above).
  `Typed`, with the buffers for digits; `Prints`: `PrintsItsText` for every program,
  width and argument. `PrintsItsText` speaks only of the time between two calls,
  so the induction needs to know where a call is. `IInv` says what has still to
  come (`IsLeft`): of a string its rest, of a number the numeral, for the
  digits made so far are the lowest ones of some number and what is left of it is
  its quotient (`Lowest`); and what has come already is the text of the calls
  before, of the first pieces of the format, and of the part of a text that
  `p` has passed (`Read`, `ConsoleInv`). `PortInv` carries `serial_init` register by
  register: what the port sends is legible from the moment a call may use it.
  Under these are the arithmetic of digits (`NextPower`, `OneDigitMore`), that a
  format's letters and slots are those of its pieces (`LetterIs`,
  `FormatFacts`), what an int leaves above it in its slot (`HighBits`), and that
  a text is put together piece by piece (`FlatOneMore`). There is one lemma for
  each action.
* `ConsoleProofs` (`ConsoleAssumption`: room for a glyph, a blank that is blank).
  `TypeCorrect`, by the bounds of the position between the character and the wrap
  (`HandledBounds`) and the arithmetic of a cell (`CellInside`);
  `GlyphAlwaysFits`; `MarginAlwaysBlank`: a glyph is drawn in cells
  (`GlyphInCell`) and a scroll by whole lines keeps the place in the line
  (`Moved`), so what comes into the margin comes out of it. `Implements`, the
  refinement of `Terminal`, for a font whose characters can be told apart
  (`Legible`, an assumption of the theorem that the 95 printing characters of
  `font8x8_basic` meet), from `Readable`: there is a text whose glyphs the pixels
  are. No two cells share a pixel (`CellsApart`), so a glyph changes one character
  (`DrawnShows`), and a scroll brings in a blank line because the margin is blank
  (`ScrollShows`).
* `TrapProofs` (`TrapAssumption`: exceptions have the vectors 0 to 31).
  `TypeCorrect`, `FrameAlwaysMatches`, `GateOrKernelStops`, `ContextAlwaysKept`,
  `HaltIsAlwaysFinal`, all from one invariant of three parts. `Control` says who
  can be where: IF is clear in every stub and handler, so only a fault nests;
  the timer is armed only when its gate is there, and after an interrupt without
  a gate there is a general protection fault or nothing. `TimerFrame` says what the
  timer's frame holds, word by word, at every step of its way (`Base`,
  `Numbered`, `Whole`), against the context that `before` remembers. Of an
  exception's frame `FaultFrame` need only know that an odd number of words is
  below it, since nothing returns from it. `FrameRead` and `PopRead` are the
  order of the registers in `pushall`, `registers_t` and `popall`.
* `ShellProofs`: all five invariants of `Shell`, for every screen, buffer and
  set of keys and commands (`ShellAssumption`: no size is 0, the blank and ">"
  print, control characters do not). The induction needs `Flow`: the line is
  empty while the prompt is being printed, a command starts with the position
  at the margin, and what it prints ends its line. `NothingEverHidden` adds
  `PlacesInv`, a place for every character: backspace blanks the last one's cell, or
  one behind it, or none. Under it are the geometry
  of a sheet (`TypedShape`, `WrappedShape`, `FedShape`), how far one character
  takes the position (`Advance`), what it leaves where it was
  (`CharacterStands`, `BackspaceStands`), and that the loops over a line stop
  (`Stops`, by the least number with a property).

Every invariant, action property and refinement that a passing run checks is
stated by a theorem. Only model-checked: the liveness properties
(`CallReturns`, `WaiterIsServed`, `TicksGoOn`, `PrintReturns`), which rest on
fairness and ENABLED. What has to be
proved by induction over data, the digits of a number, the pieces of a
format, the bytes of a queue, is a recursive function here, and each such induction is
the search for the least number at which something fails (`LeastOne`,
`Reaches`, from the well-foundedness of the naturals).

## 5. What is not modelled

* Reads that fail in a walk: in `read_fat_entry` and in the loops over `dir_buf`.
  Their status is dropped too, the entry or the cluster then is whatever the stack
  held, and so is what the call does next. Failing reads before a write are in
  `Fat32Disk`.
* `fat32_init` where the read of the boot sector fails or its signature is wrong:
  it returns before anything depends on it, and `Shell` has its answer.
* Sectors of another size than 512 bytes: `fat32_init` believes the boot sector
  and everything else counts 512.
* The search for a free cluster beyond all FAT copies (`FatWords`), which goes
  on into the data area; a volume that full does not return from `AllocCluster`
  in the model and is not among those checked.
* The second FAT copy and FSInfo as another system sees them: the kernel keeps
  neither up to date.
* Volumes with clusters larger than `dir_buf`: the calls return before they touch
  the disk.
* `strcmp`, but for its use: `Shell` compares words. Names with characters of
  more than 7 bits: the keyboard has none.
* A serial port that is there and never ready: `serial_putc` would wait for ever.
* The 512 bytes of `cmd_type`, which a longer file overruns: what follows is
  undefined, and there is no state to continue from.
* IRQ0 to IRQ15, `pic.c`, `pit.c`, `kbd_has_char`: nothing reaches them.
* A fault in `exception_handler` itself, in a stub or in what the processor does to
  enter one: each would put a frame on the one before until the stack ends.
* Time: how long a tick or the 400 ns of `select_drive` last.

## 6. Plan

Done: every module of section 2, their runs and the theorems of section 4.

Next: more of what `Prints` rests on for other components: that `Console` gets
the characters `Printf` puts; and `Fat32` with reads that fail in a walk, if
there is a property that survives them.
