---------------------------- MODULE MCFat32Disk ----------------------------
(* A volume of two-sector clusters for TLC to check Fat32Disk on.          *)
EXTENDS Fat32Disk, TLC

MCGeometry ==
  [bytes_per_sector |-> 512, sectors_per_cluster |-> 2, reserved_sectors |-> 32,
   fat_size |-> 1024, root_cluster |-> 2, data_start |-> 2080]

\* Entries 2 and 127 are in one sector, 128 is the first of the next one, and
\* 70000 needs the upper half of a cluster number.  The root directory goes on
\* in cluster 128; two of the slots share a sector.
MCCells == {2, 127, 128, 70000}
MCSlotIds == {<<2, 448>>, <<2, 480>>, <<2, 512>>, <<128, 992>>}
MCSectors == {0} \cup {FatSector(c) : c \in MCCells} \cup {SlotSector(s) : s \in MCSlotIds}

\* Nothing, a, a.b, A.B, a b, .b, a.b.c, and one too long in both parts.
MCTypedNames ==
  {<<>>, <<97>>, <<97, 46, 98>>, <<65, 46, 66>>, <<97, 32, 98>>, <<46, 98>>, <<97, 46, 98, 46, 99>>,
   <<97, 98, 99, 100, 101, 102, 103, 104, 105, 46, 49, 50, 51, 52>>}

Zeros == [o \in 0 .. 511 |-> 0]
With(b, f) == [o \in 0 .. 511 |-> IF o \in DOMAIN f THEN f[o] ELSE b[o]]

BootSector ==
  With(Zeros, 11 :> 0 @@ 12 :> 2 @@ 13 :> 2 @@ 14 :> 32 @@ 16 :> 2 @@ 37 :> 4 @@ 44 :> 2
              @@ 510 :> 85 @@ 511 :> 170)

\* As a host leaves it: the root directory's chain 2 -> 128, with the upper
\* four bits of an entry in use; README.TXT of 300 bytes in the volume.
FatBegin == With(Zeros, 8 :> 128 @@ 11 :> 240)
FatNext == With(Zeros, 0 :> 255 @@ 1 :> 255 @@ 2 :> 255 @@ 3 :> 15)
Readme ==
  With(Zeros, [o \in 448 .. 458 |-> <<82, 69, 65, 68, 77, 69, 32, 32, 84, 88, 84>>[o - 447]]
              @@ 459 :> 32 @@ 468 :> 1 @@ 474 :> 113 @@ 475 :> 17 @@ 476 :> 44 @@ 477 :> 1)

MCDisk ==
  [b \in MCSectors |->
     CASE b = 0 -> BootSector
       [] b = FatSector(2) -> FatBegin
       [] b = FatSector(128) -> FatNext
       [] b = SlotSector(<<2, 448>>) -> Readme
       [] OTHER -> Zeros]
MCDisks == {MCDisk}

\* The stack holds what an earlier call has read.
MCJunk == {FatNext, Readme}

=============================================================================
