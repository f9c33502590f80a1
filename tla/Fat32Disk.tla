----------------------------- MODULE Fat32Disk -----------------------------
(***************************************************************************)
(* src/fs/fat32.c byte by byte: what fat32_init reads from the boot        *)
(* sector, where a FAT entry and a directory entry are on the disk, how    *)
(* they are encoded, and the sector that is read, changed and written back *)
(* for each.  Fat32 has the order of these writes; here any may follow any.*)
(* Read failures are here: read_sectors' status is dropped, so the buffer  *)
(* on the stack keeps what it had (Junk) and is written back with it.      *)
(* The sectors are the ATA driver's, of SECTOR_SIZE bytes.                 *)
(***************************************************************************)
EXTENDS Integers, Sequences, ShortName

CONSTANTS
  Geometry,    \* the volume: a record as fat32_init fills fat32_t
  Sectors,     \* numbers of the sectors that are looked at
  Cells,       \* clusters whose FAT entries are looked at
  SlotIds,     \* directory slots: <<cluster, offset in it>>
  TypedNames,  \* what `mkfile` is called with
  Disks,       \* what the host has left on the disk
  Junk,        \* sectors as the stack may hold them
  MaxWrites, MaxFailed   \* bounds of writes and of failed reads

VARIABLES
  disk,    \* a function from sector numbers to the bytes of a sector
  fs,      \* what fat32_init has made of the boot sector
  typed,   \* history: the name a slot was created by, NoName if by none
  writes, failed   \* history: how many writes, how many failed reads

vars == <<disk, fs, typed, writes, failed>>

SECTOR_SIZE == 512
Bytes == 0 .. 255
Blocks == [0 .. SECTOR_SIZE - 1 -> Bytes]
EOC == 16 * 256 * 256 * 256 - 1   \* 0x0FFFFFFF
NoName == <<NUL>>   \* not what an empty name is: none has a NUL
Unmounted == [root_cluster |-> 0]

\* The volume as the rest of the world sees it.
FatSector(c) == Geometry.reserved_sectors + c \div 128
SlotSector(s) ==
  Geometry.data_start + (s[1] - 2) * Geometry.sectors_per_cluster + s[2] \div SECTOR_SIZE

\* The FAT does not reach into the data; sectors are those of the ATA driver;
\* a directory cluster fits into dir_buf; names are of 7-bit characters.
ASSUME GeometryAssumption ==
  /\ Geometry \in [bytes_per_sector : {SECTOR_SIZE}, sectors_per_cluster : 1 .. 32,
                   reserved_sectors : Nat \ {0}, fat_size : Nat, root_cluster : Nat \ {0},
                   data_start : Nat \ {0}]
  /\ \A c \in Cells :
       /\ c \in Nat /\ c < EOC
       /\ FatSector(c) \in Sectors /\ FatSector(c) < Geometry.data_start
  /\ \A s \in SlotIds :
       /\ s \in Nat \X Nat /\ s[1] >= 2
       /\ s[2] % 32 = 0 /\ s[2] < SECTOR_SIZE * Geometry.sectors_per_cluster
       /\ SlotSector(s) \in Sectors
  /\ 0 \in Sectors /\ Sectors \subseteq Nat
\* The boot sector of every disk describes the volume.
Describes(b, g) ==
  /\ b[11] + 256 * b[12] = g.bytes_per_sector
  /\ b[13] = g.sectors_per_cluster
  /\ b[14] + 256 * b[15] = g.reserved_sectors
  /\ b[36] + 256 * b[37] + 256 * 256 * (b[38] + 256 * b[39]) = g.fat_size
  /\ b[44] + 256 * b[45] + 256 * 256 * (b[46] + 256 * b[47]) = g.root_cluster
  /\ g.data_start = g.reserved_sectors + b[16] * g.fat_size

ASSUME DisksAssumption ==
  /\ Disks \subseteq [Sectors -> Blocks] /\ Junk \subseteq Blocks
  /\ \A d \in Disks : Describes(d[0], Geometry)

ASSUME NamesAssumption == TypedNames \subseteq Seq(1 .. 127)
ASSUME BoundsAssumption == MaxWrites \in Nat /\ MaxFailed \in Nat

-----------------------------------------------------------------------------
(* Numbers in bytes, lowest first.                                         *)

Scale == <<1, 256, 256 * 256, 256 * 256 * 256>>
Byte_Fat16(v, k) == IF k <= 2 THEN (v \div Scale[k]) % 256 ELSE 0
Byte(v, k) == (v \div Scale[k]) % 256
Word16(b, o) == b[o] + 256 * b[o + 1]
Word32(b, o) == Word16(b, o) + 256 * 256 * Word16(b, o + 2)
\* Word32(b, o) & 0x0FFFFFFF
Word28(b, o) == Word16(b, o) + 256 * 256 * (b[o + 2] + 256 * (b[o + 3] % 16))

\* fat32_init
Bpb_OneFat(b) ==
  [bytes_per_sector    |-> Word16(b, 11),
   sectors_per_cluster |-> b[13],
   reserved_sectors    |-> Word16(b, 14),
   fat_size            |-> Word32(b, 36),
   root_cluster        |-> Word32(b, 44),
   data_start          |-> Word16(b, 14) + Word32(b, 36)]
Bpb(b) ==
  [bytes_per_sector    |-> Word16(b, 11),
   sectors_per_cluster |-> b[13],
   reserved_sectors    |-> Word16(b, 14),
   fat_size            |-> Word32(b, 36),
   root_cluster        |-> Word32(b, 44),
   data_start          |-> Word16(b, 14) + b[16] * Word32(b, 36)]
HasSignature(b) == b[510] = 85 /\ b[511] = 170

\* cluster_to_lba; read_fat_entry, write_fat_entry; the slot at byte off of a
\* directory cluster.
cluster_to_lba(c) == fs.data_start + (c - 2) * fs.sectors_per_cluster
fat_lba(c) == fs.reserved_sectors + (c * 4) \div SECTOR_SIZE
fat_off(c) == (c * 4) % SECTOR_SIZE
found_lba(s) == cluster_to_lba(s[1]) + s[2] \div fs.bytes_per_sector
found_off(s) == s[2] % fs.bytes_per_sector

-----------------------------------------------------------------------------
(* Reading.                                                                *)

read_fat_entry(c) == Word28(disk[fat_lba(c)], fat_off(c))

\* A directory entry: the bytes from offset o of the block b on.
NameAt(b, o) == [k \in 1 .. NameLen |-> b[o + k - 1]]
ClusterAt(b, o) == Word16(b, o + 26) + 256 * 256 * Word16(b, o + 20)
EntryAt(b, o) ==
  IF b[o] = 0 THEN [kind |-> "end"]
  ELSE IF b[o] = 229 THEN [kind |-> "deleted"]
  ELSE IF b[o + 11] = 15 THEN [kind |-> "longname"]
  ELSE [kind |-> "file", name |-> NameAt(b, o), clus |-> ClusterAt(b, o),
        size |-> Word32(b, o + 28)]

-----------------------------------------------------------------------------
(* Writing.                                                                *)

\* write_fat_entry's four bytes, and the entry that create puts together.
FatBytes(v) == [k \in 1 .. 4 |-> Byte(v, k)]
ent(short_name, c) ==
  [k \in 1 .. 32 |->
     IF k <= NameLen THEN short_name[k]
     ELSE IF k = 12 THEN 32
     ELSE IF k \in {21, 22} THEN Byte(c, k - 18)
     ELSE IF k \in {27, 28} THEN Byte(c, k - 26)
     ELSE memset(0, 32)[k]]

\* The sector lba is read, bytes go over it at off, and it is written back.
\* What else was in it is lost with the read.
Rewrite(lba, off, bytes) ==
  /\ writes < MaxWrites /\ writes' = writes + 1
  /\ \/ disk' = [disk EXCEPT ![lba] = memcpy(disk[lba], off, bytes)] /\ UNCHANGED failed
     \/ /\ failed < MaxFailed /\ failed' = failed + 1
        /\ \E b \in Junk : disk' = [disk EXCEPT ![lba] = memcpy(b, off, bytes)]
  /\ UNCHANGED fs

\* Who created what, after a slot of the sector lba was written.
Author(s, n) ==
  typed' = [t \in SlotIds |->
              IF t = s THEN n
              ELSE IF failed' > failed /\ found_lba(t) = found_lba(s) THEN NoName
              ELSE typed[t]]

write_fat_entry(c, v) ==
  /\ fs # Unmounted
  /\ Rewrite(fat_lba(c), fat_off(c), FatBytes(v))
  /\ UNCHANGED typed

EntryOf(s) == EntryAt(disk[found_lba(s)], found_off(s))

\* fat32_create, in a slot and with a cluster that are free.
WriteEntry(s, n, c) ==
  /\ fs # Unmounted
  /\ EntryOf(s).kind \in {"end", "deleted"} /\ read_fat_entry(c) = 0
  /\ Rewrite(found_lba(s), found_off(s), ent(make_short_name(Typed(n)), c))
  /\ Author(s, n)

\* fat32_delete
EraseEntry(s) ==
  /\ fs # Unmounted
  /\ EntryOf(s).kind = "file"
  /\ Rewrite(found_lba(s), found_off(s), <<229>>)
  /\ Author(s, NoName)

fat32_init ==
  /\ fs = Unmounted /\ HasSignature(disk[0])
  /\ fs' = Bpb(disk[0])
  /\ UNCHANGED <<disk, typed, writes, failed>>

Init ==
  /\ disk \in Disks /\ fs = Unmounted
  /\ typed = [s \in SlotIds |-> NoName] /\ writes = 0 /\ failed = 0

Next ==
  \/ fat32_init
  \/ \E c \in Cells, v \in {0, EOC} : write_fat_entry(c, v)
  \/ \E s \in SlotIds, n \in TypedNames, c \in Cells : WriteEntry(s, n, c)
  \/ \E s \in SlotIds : EraseEntry(s)

Spec == Init /\ [][Next]_vars

-----------------------------------------------------------------------------
(* Properties.                                                             *)

TypeOK ==
  /\ disk \in [Sectors -> Blocks] /\ fs \in {Unmounted, Geometry}
  /\ typed \in [SlotIds -> TypedNames \cup {NoName}]
  /\ writes \in 0 .. MaxWrites /\ failed \in 0 .. MaxFailed

\* The bytes are a volume: each write changes one FAT entry or one directory
\* slot into what the code says it writes, wherever in the sector and in the
\* cluster it is and however large its number; a failed read costs its
\* neighbours in the sector and nothing else.
Vol == INSTANCE Volume WITH
  Names <- {make_short_name(Typed(n)) : n \in TypedNames},
  FatBlock <- [c \in Cells |-> FatSector(c)],
  DirBlock <- [s \in SlotIds |-> SlotSector(s)],
  link <- [c \in Cells |-> Word28(disk[FatSector(c)], 4 * (c % 128))],
  slots <- [s \in SlotIds |-> EntryAt(disk[SlotSector(s)], s[2] % SECTOR_SIZE)]

ImplementsVolume == Vol!Spec

\* The name in a slot, and whether fat32_lookup takes it for the string name.
SlotName(s) == NameAt(disk[SlotSector(s)], s[2] % SECTOR_SIZE)
Answers(s, name) == memcmp(SlotName(s), make_short_name(name), NameLen) = 0

\* A file that `mkfile` made without a space in its name is found under the
\* name `dir` lists it by, however it was typed.
ListedIsFound ==
  \A s \in SlotIds :
    typed[s] # NoName /\ (\A k \in DOMAIN typed[s] : typed[s][k] # Space) =>
      Answers(s, make_display_name(SlotName(s)))

\* A file answers to exactly those names that agree with the one it was made
\* by in what is kept of a name.
AnswersToItsName ==
  \A s \in SlotIds, n \in TypedNames :
    typed[s] # NoName => (Answers(s, Typed(n)) <=> Fold(n) = Fold(typed[s]))

=============================================================================
