--------------------------- MODULE Fat32DiskProofs ---------------------------
(***************************************************************************)
(* Fat32Disk implements Volume, for every geometry, and what `dir` lists   *)
(* is found.  First the arithmetic of bytes and places, then what one      *)
(* rewritten sector does to the FAT entries and the slots, then the steps. *)
(***************************************************************************)
EXTENDS Fat32Disk, TLAPS, NaturalsInduction, WellFoundedInduction, SequenceTheorems

-----------------------------------------------------------------------------
(* Arithmetic.                                                             *)

\* A number is its lowest byte and what is above it.
LEMMA LowByte ==
  ASSUME NEW y \in Nat PROVE y = 256 * (y \div 256) + (y % 256) /\ (y % 256) \in 0 .. 255
OBVIOUS

\* A byte is a byte.
LEMMA ByteRange == ASSUME NEW x \in Nat, NEW k \in 1 .. 4 PROVE Byte(x, k) \in Bytes
<1>1. \A y \in Nat : y % 256 \in 0 .. 255
  OBVIOUS
<1>2. Scale[k] \in {1, 256, 256 * 256, 256 * 256 * 256}
  BY DEF Scale
<1>3. x \div Scale[k] \in Nat
  BY <1>2
<1> QED BY <1>1, <1>3 DEF Byte, Bytes

\* The bytes of a number of 28 bits, put together as a FAT entry and as the two
\* halves of a directory entry's cluster.
LEMMA BytesAdd ==
  ASSUME NEW x \in Nat, x <= EOC
  PROVE  /\ Byte(x, 1) + 256 * Byte(x, 2) + 256 * 256 * (Byte(x, 3) + 256 * (Byte(x, 4) % 16)) = x
         /\ Byte(x, 1) + 256 * Byte(x, 2) + 256 * 256 * (Byte(x, 3) + 256 * Byte(x, 4)) = x
<1> DEFINE a == x \div 256
           b == a \div 256
           c == b \div 256
<1>1. x \in Nat /\ a \in Nat /\ b \in Nat /\ c \in Nat
  OBVIOUS
<1>2. x \div (256 * 256) = b /\ x \div (256 * 256 * 256) = c /\ x \div 1 = x
  BY <1>1
<1>3. x = 256 * a + (x % 256) /\ (x % 256) \in 0 .. 255
  BY <1>1, LowByte
<1>4. a = 256 * b + (a % 256) /\ (a % 256) \in 0 .. 255
  BY <1>1, LowByte
<1>5. b = 256 * c + (b % 256) /\ (b % 256) \in 0 .. 255
  BY <1>1, LowByte
<1>6. Byte(x, 1) = x % 256 /\ Byte(x, 2) = a % 256 /\ Byte(x, 3) = b % 256 /\ Byte(x, 4) = c % 256
  BY <1>2 DEF Byte, Scale
<1> HIDE DEF a, b, c
<1>7. c < 16
  BY <1>1, <1>3, <1>4, <1>5 DEF EOC
<1>8. c % 256 = c /\ c % 16 = c
  BY <1>1, <1>7
<1>9. /\ x = 256 * a + Byte(x, 1) /\ a = 256 * b + Byte(x, 2) /\ b = 256 * c + Byte(x, 3)
      /\ Byte(x, 4) = c /\ Byte(x, 4) % 16 = c
      /\ Byte(x, 1) \in Nat /\ Byte(x, 2) \in Nat /\ Byte(x, 3) \in Nat
  BY <1>3, <1>4, <1>5, <1>6, <1>8
<1> QED BY <1>1, <1>9

\* A pair of a row and a place in the row is one number.
LEMMA RowAndPlace ==
  ASSUME NEW m \in Nat \ {0}, NEW a \in Nat, NEW b \in Nat, NEW p \in Nat, NEW q \in Nat,
         p < m, q < m, a * m + p = b * m + q
  PROVE  a = b /\ p = q
<1>1. CASE a < b
  <2>1. b - a >= 1 /\ (b - a) * m >= m
    BY <1>1
  <2> QED BY <2>1
<1>2. CASE b < a
  <2>1. a - b >= 1 /\ (a - b) * m >= m
    BY <1>2
  <2> QED BY <2>1
<1> QED BY <1>1, <1>2

-----------------------------------------------------------------------------
(* One sector.                                                             *)

\* A sector is 512 bytes, counted from 0.
LEMMA BlocksAre == Blocks = [0 .. 511 -> Bytes]
<1>1. SECTOR_SIZE - 1 = 511
  BY DEF SECTOR_SIZE
<1> QED BY <1>1 DEF Blocks

\* What memcpy changes, and what it leaves.
LEMMA LaidType ==
  ASSUME NEW b \in Blocks, NEW n \in Nat, NEW off \in Nat, NEW src \in [1 .. n -> Bytes]
  PROVE  memcpy(b, off, src) \in Blocks
<1>1. (\A o \in 0 .. 511 : b[o] \in Bytes) /\ DOMAIN b = 0 .. 511 /\ DOMAIN src = 1 .. n
  BY BlocksAre
<1>2. \A k \in 1 .. n : src[k] \in Bytes
  OBVIOUS
<1>3. \A o \in 0 .. 511 : (IF o - off + 1 \in 1 .. n THEN src[o - off + 1] ELSE b[o]) \in Bytes
  BY <1>1, <1>2
<1>4. [o \in 0 .. 511 |-> IF o - off + 1 \in 1 .. n THEN src[o - off + 1] ELSE b[o]]
        \in [0 .. 511 -> Bytes]
  BY <1>3
<1>5. memcpy(b, off, src) =
        [o \in 0 .. 511 |-> IF o - off + 1 \in 1 .. n THEN src[o - off + 1] ELSE b[o]]
  BY <1>1 DEF memcpy
<1> QED BY <1>4, <1>5, BlocksAre

\* memcpy puts each byte of its source at its place.
LEMMA LaidIn ==
  ASSUME NEW b \in Blocks, NEW n \in Nat, NEW off \in Nat, NEW src \in [1 .. n -> Bytes],
         NEW k \in 1 .. n, off + k - 1 <= 511
  PROVE  memcpy(b, off, src)[off + k - 1] = src[k]
<1> DEFINE o == off + k - 1
<1>1. o \in 0 .. 511 /\ o - off + 1 = k
  OBVIOUS
<1> HIDE DEF o
<1>2. memcpy(b, off, src)[o] = IF o - off + 1 \in 1 .. n THEN src[o - off + 1] ELSE b[o]
  <2>1. DOMAIN b = 0 .. 511 /\ DOMAIN src = 1 .. n
    BY BlocksAre
  <2> QED BY <1>1, <2>1 DEF memcpy
<1>3. memcpy(b, off, src)[o] = src[k]
  BY <1>1, <1>2
<1> QED BY <1>3 DEF o

\* The four bytes of a FAT entry.
LEMMA FatBytesType == ASSUME NEW x \in Nat PROVE FatBytes(x) \in [1 .. 4 -> Bytes]
BY ByteRange DEF FatBytes

\* A FAT entry that is written is read back, its neighbours are as they were.
LEMMA LinkWritten ==
  ASSUME NEW b \in Blocks, NEW o \in Nat, o <= 508, NEW x \in Nat, x <= EOC
  PROVE  Word28(memcpy(b, o, FatBytes(x)), o) = x
<1> DEFINE d == memcpy(b, o, FatBytes(x))
<1>1. FatBytes(x) \in [1 .. 4 -> Bytes] /\ 4 \in Nat
  BY FatBytesType
<1>2. d[o + 1 - 1] = FatBytes(x)[1]
  <2>1. 1 \in 1 .. 4 /\ o + 1 - 1 <= 511
    OBVIOUS
  <2> QED BY <1>1, <2>1, LaidIn
<1>3. d[o + 2 - 1] = FatBytes(x)[2]
  <2>1. 2 \in 1 .. 4 /\ o + 2 - 1 <= 511
    OBVIOUS
  <2> QED BY <1>1, <2>1, LaidIn
<1>4. d[o + 3 - 1] = FatBytes(x)[3]
  <2>1. 3 \in 1 .. 4 /\ o + 3 - 1 <= 511
    OBVIOUS
  <2> QED BY <1>1, <2>1, LaidIn
<1>5. d[o + 4 - 1] = FatBytes(x)[4]
  <2>1. 4 \in 1 .. 4 /\ o + 4 - 1 <= 511
    OBVIOUS
  <2> QED BY <1>1, <2>1, LaidIn
<1> HIDE DEF d
<1>6. o + 1 - 1 = o /\ o + 2 - 1 = o + 1 /\ o + 3 - 1 = o + 2 /\ o + 4 - 1 = o + 3
  OBVIOUS
<1>7. d[o] = FatBytes(x)[1] /\ d[o + 1] = FatBytes(x)[2]
      /\ d[o + 2] = FatBytes(x)[3] /\ d[o + 3] = FatBytes(x)[4]
  BY <1>2, <1>3, <1>4, <1>5, <1>6
<1>8. \A k \in 1 .. 4 : FatBytes(x)[k] = Byte(x, k)
  BY DEF FatBytes
<1>9. Word28(d, o) = Byte(x, 1) + 256 * Byte(x, 2) + 256 * 256 * (Byte(x, 3) + 256 * (Byte(x, 4) % 16))
  BY <1>7, <1>8 DEF Word28, Word16
<1> QED BY <1>9, BytesAdd DEF d

\* Writing one FAT entry of a sector leaves the others of it as they are.
LEMMA LinkKept ==
  ASSUME NEW b \in Blocks, NEW o \in Nat, NEW p \in Nat, o <= 508, p <= 508,
         p + 4 <= o \/ o + 4 <= p, NEW x \in Nat
  PROVE  Word28(memcpy(b, o, FatBytes(x)), p) = Word28(b, p)
<1> DEFINE d == memcpy(b, o, FatBytes(x))
<1>1. FatBytes(x) \in [1 .. 4 -> Bytes] /\ 4 \in Nat
  BY FatBytesType
<1>2. ASSUME NEW q \in 0 .. 511, q < o \/ q >= o + 4 PROVE d[q] = b[q]
  <2>1. DOMAIN FatBytes(x) = 1 .. 4 /\ q - o + 1 \notin 1 .. 4
    BY <1>1, <1>2
  <2>2. DOMAIN b = 0 .. 511
    BY BlocksAre
  <2> QED BY <2>1, <2>2 DEF memcpy
<1> HIDE DEF d
<1>3. /\ p \in 0 .. 511 /\ p + 1 \in 0 .. 511 /\ p + 2 \in 0 .. 511 /\ p + 3 \in 0 .. 511
      /\ \A q \in {p, p + 1, p + 2, p + 3} : q < o \/ q >= o + 4
  OBVIOUS
<1>4. d[p] = b[p] /\ d[p + 1] = b[p + 1] /\ d[p + 2] = b[p + 2] /\ d[p + 3] = b[p + 3]
  BY <1>2, <1>3
<1>5. Word28(d, p) = Word28(b, p)
  BY <1>4 DEF Word28, Word16
<1> QED BY <1>5 DEF d

-----------------------------------------------------------------------------
(* Places on the disk.                                                     *)

\* 128 entries of four bytes make a sector.
LEMMA Quarter ==
  ASSUME NEW c \in Nat
  PROVE  (c * 4) \div 512 = c \div 128 /\ (c * 4) % 512 = 4 * (c % 128)
OBVIOUS

\* The driver looks where the geometry says.
LEMMA Places ==
  ASSUME fs = Geometry
  PROVE  /\ \A c \in Cells : fat_lba(c) = FatSector(c) /\ fat_off(c) = 4 * (c % 128)
         /\ \A s \in SlotIds : found_lba(s) = SlotSector(s) /\ found_off(s) = s[2] % SECTOR_SIZE
<1>1. Geometry.bytes_per_sector = SECTOR_SIZE
  BY GeometryAssumption
<1>2. \A c \in Cells : (c * 4) \div SECTOR_SIZE = c \div 128 /\ (c * 4) % SECTOR_SIZE = 4 * (c % 128)
  BY GeometryAssumption, Quarter DEF SECTOR_SIZE
<1> QED BY <1>1, <1>2 DEF fat_lba, fat_off, found_lba, found_off, cluster_to_lba, FatSector, SlotSector

\* No two FAT entries overlap.
LEMMA FatApart ==
  ASSUME NEW c \in Cells, NEW e \in Cells, c # e, FatSector(c) = FatSector(e)
  PROVE  4 * (e % 128) + 4 <= 4 * (c % 128) \/ 4 * (c % 128) + 4 <= 4 * (e % 128)
<1>1. c \in Nat /\ e \in Nat /\ Geometry.reserved_sectors \in Nat
  BY GeometryAssumption
<1>2. c \div 128 = e \div 128
  BY <1>1 DEF FatSector
<1> QED BY <1>1, <1>2

\* A directory slot is within a sector, and no two overlap.
LEMMA SlotPlace ==
  ASSUME NEW x \in Nat, x % 32 = 0
  PROVE  (x % 512) \in Nat /\ (x % 512) + 32 <= 512
OBVIOUS

\* Two places that are multiples of 32 bytes do not overlap within a sector.
LEMMA PlacesApart ==
  ASSUME NEW x \in Nat, NEW y \in Nat, x % 32 = 0, y % 32 = 0, x # y, x \div 512 = y \div 512
  PROVE  (y % 512) + 32 <= (x % 512) \/ (x % 512) + 32 <= (y % 512)
OBVIOUS

\* Two slots of the directory in one sector do not overlap.
LEMMA SlotApart ==
  ASSUME NEW s \in SlotIds, NEW t \in SlotIds, s # t, SlotSector(s) = SlotSector(t)
  PROVE  \/ (t[2] % 512) + 32 <= (s[2] % 512)
         \/ (s[2] % 512) + 32 <= (t[2] % 512)
<1> DEFINE m == Geometry.sectors_per_cluster
           a == s[1] - 2
           b == t[1] - 2
           p == s[2] \div 512
           q == t[2] \div 512
<1>1. m \in Nat \ {0} /\ m \in Nat /\ Geometry.data_start \in Nat
  BY GeometryAssumption
<1>2. s \in Nat \X Nat /\ t \in Nat \X Nat /\ s[1] >= 2 /\ t[1] >= 2
  BY GeometryAssumption
<1>3. s[2] < 512 * m /\ t[2] < 512 * m /\ s[2] % 32 = 0 /\ t[2] % 32 = 0
  BY GeometryAssumption DEF SECTOR_SIZE
<1>4. a \in Nat /\ b \in Nat /\ p \in Nat /\ q \in Nat
  BY <1>2
<1>5. p < m /\ q < m
  BY <1>1, <1>2, <1>3
<1>6. Geometry.data_start + a * m + p = Geometry.data_start + b * m + q
  BY DEF SlotSector, SECTOR_SIZE
<1>7. a * m \in Nat /\ b * m \in Nat
  BY <1>1, <1>4
<1> HIDE DEF a, b, p, q, m
<1>8. a * m + p = b * m + q
  BY <1>1, <1>4, <1>6, <1>7
<1>9. a = b /\ p = q
  BY <1>1, <1>4, <1>5, <1>8, RowAndPlace
<1>10. s[1] = t[1]
  BY <1>2, <1>9 DEF a, b
<1>11. s[2] # t[2]
  BY <1>2, <1>10
<1> QED BY <1>2, <1>3, <1>9, <1>11, PlacesApart DEF p, q

\* The boot sector, the FAT and the directories are different sectors.
LEMMA Regions ==
  /\ \A c \in Cells : FatSector(c) \in Nat \ {0}
  /\ \A s \in SlotIds : SlotSector(s) \in Nat \ {0}
  /\ \A c \in Cells, s \in SlotIds : FatSector(c) < SlotSector(s)
<1>1. /\ Geometry.reserved_sectors \in Nat \ {0} /\ Geometry.data_start \in Nat \ {0}
      /\ Geometry.sectors_per_cluster \in Nat
  BY GeometryAssumption
<1>2. ASSUME NEW c \in Cells PROVE FatSector(c) \in Nat \ {0} /\ FatSector(c) < Geometry.data_start
  BY <1>1, GeometryAssumption DEF FatSector
<1>3. ASSUME NEW s \in SlotIds
      PROVE  SlotSector(s) \in Nat \ {0} /\ Geometry.data_start <= SlotSector(s)
  <2> DEFINE row == (s[1] - 2) * Geometry.sectors_per_cluster
             place == s[2] \div 512
  <2>1. s[1] - 2 \in Nat /\ place \in Nat
    BY GeometryAssumption
  <2>2. row \in Nat
    BY <1>1, <2>1
  <2>3. SlotSector(s) = Geometry.data_start + row + place
    BY DEF SlotSector, SECTOR_SIZE
  <2> HIDE DEF row, place
  <2> QED BY <1>1, <2>1, <2>2, <2>3
<1> QED BY <1>1, <1>2, <1>3

-----------------------------------------------------------------------------
(* Directory entries.                                                      *)

\* An entry is its 32 bytes.
LEMMA SameEntry ==
  ASSUME NEW b, NEW d, NEW p \in Nat, \A k \in 0 .. 31 : d[p + k] = b[p + k]
  PROVE  EntryAt(d, p) = EntryAt(b, p) /\ NameAt(d, p) = NameAt(b, p)
<1>1. \A k \in 1 .. 11 : p + k - 1 = p + (k - 1) /\ k - 1 \in 0 .. 31
  OBVIOUS
<1>2. \A k \in 1 .. 11 : d[p + k - 1] = b[p + k - 1]
  BY <1>1
<1>3. NameAt(d, p) = NameAt(b, p)
  BY <1>2 DEF NameAt, NameLen, BaseLen, ExtLen
<1>4. d[p] = b[p] /\ d[p + 11] = b[p + 11]
  <2>1. p + 0 = p
    OBVIOUS
  <2> QED BY <2>1
<1>5. Word16(d, p + 26) = Word16(b, p + 26) /\ Word16(d, p + 20) = Word16(b, p + 20)
      /\ Word16(d, p + 28) = Word16(b, p + 28) /\ Word16(d, p + 30) = Word16(b, p + 30)
  <2>1. (p + 26) + 1 = p + 27 /\ (p + 20) + 1 = p + 21 /\ (p + 28) + 1 = p + 29 /\ (p + 30) + 1 = p + 31
    OBVIOUS
  <2> QED BY <2>1 DEF Word16
<1>6. ClusterAt(d, p) = ClusterAt(b, p)
  BY <1>5 DEF ClusterAt
<1>7. (p + 28) + 2 = p + 30
  OBVIOUS
<1>8. Word32(d, p + 28) = Word32(b, p + 28)
  BY <1>5, <1>7 DEF Word32
<1> QED BY <1>3, <1>4, <1>6, <1>8, Zenon DEF EntryAt

\* Bytes laid over one entry leave the others as they are.
LEMMA EntryKept ==
  ASSUME NEW b \in Blocks, NEW o \in Nat, NEW p \in Nat, p + 32 <= 512,
         p + 32 <= o \/ o + 32 <= p, NEW src, DOMAIN src \subseteq 1 .. 32
  PROVE  EntryAt(memcpy(b, o, src), p) = EntryAt(b, p) /\ NameAt(memcpy(b, o, src), p) = NameAt(b, p)
<1>1. ASSUME NEW k \in 0 .. 31 PROVE memcpy(b, o, src)[p + k] = b[p + k]
  <2> DEFINE q == p + k
  <2>1. q \in 0 .. 511 /\ q - o + 1 \notin 1 .. 32
    OBVIOUS
  <2> HIDE DEF q
  <2>2. q - o + 1 \notin DOMAIN src
    BY <2>1
  <2>3. DOMAIN b = 0 .. 511
    BY BlocksAre
  <2>4. memcpy(b, o, src)[q] = b[q]
    BY <2>1, <2>2, <2>3 DEF memcpy
  <2> QED BY <2>4 DEF q
<1> QED BY <1>1, SameEntry

\* The entry that create puts together, as the next reader takes it.
LEMMA EntType ==
  ASSUME NEW n \in [1 .. 11 -> Bytes], NEW c \in Nat
  PROVE  ent(n, c) \in [1 .. 32 -> Bytes]
<1>1. \A k \in 1 .. 32 : memset(0, 32)[k] \in Bytes
  BY DEF memset, Bytes
<1>2. \A k \in {21, 22} : Byte(c, k - 18) \in Bytes
  BY ByteRange
<1>3. \A k \in {27, 28} : Byte(c, k - 26) \in Bytes
  BY ByteRange
<1>4. \A k \in 1 .. 11 : n[k] \in Bytes
  OBVIOUS
<1>5. 32 \in Bytes
  BY DEF Bytes
<1> QED BY <1>1, <1>2, <1>3, <1>4, <1>5 DEF ent, NameLen, BaseLen, ExtLen

\* What create writes reads back as a file of that name and cluster, empty.
LEMMA EntryWritten ==
  ASSUME NEW b \in Blocks, NEW o \in Nat, o + 32 <= 512,
         NEW n \in [1 .. 11 -> Bytes], n[1] # 0, n[1] # 229, NEW c \in Nat, c <= EOC
  PROVE  /\ EntryAt(memcpy(b, o, ent(n, c)), o) = [kind |-> "file", name |-> n, clus |-> c, size |-> 0]
         /\ NameAt(memcpy(b, o, ent(n, c)), o) = n
<1> DEFINE d == memcpy(b, o, ent(n, c))
<1>1. ASSUME NEW k \in 1 .. 32 PROVE d[o + k - 1] = ent(n, c)[k]
  <2>1. o + k - 1 <= 511 /\ 32 \in Nat
    OBVIOUS
  <2>2. ent(n, c) \in [1 .. 32 -> Bytes]
    BY EntType
  <2> QED BY <2>1, <2>2, LaidIn, ZenonT(60)
<1> HIDE DEF d
<1>2. /\ \A k \in 1 .. 11 : ent(n, c)[k] = n[k]
      /\ ent(n, c)[12] = 32
      /\ ent(n, c)[21] = Byte(c, 3) /\ ent(n, c)[22] = Byte(c, 4)
      /\ ent(n, c)[27] = Byte(c, 1) /\ ent(n, c)[28] = Byte(c, 2)
      /\ \A k \in {29, 30, 31, 32} : ent(n, c)[k] = 0
  BY DEF ent, NameLen, BaseLen, ExtLen, memset
<1>3. \A k \in 1 .. 11 : d[o + k - 1] = n[k]
  BY <1>1, <1>2
<1>4. NameAt(d, o) = n
  BY <1>3 DEF NameAt, NameLen, BaseLen, ExtLen
<1>5. /\ o + 1 - 1 = o /\ o + 12 - 1 = o + 11 /\ o + 21 - 1 = o + 20 /\ o + 22 - 1 = (o + 20) + 1
      /\ o + 27 - 1 = o + 26 /\ o + 28 - 1 = (o + 26) + 1 /\ o + 29 - 1 = o + 28
      /\ o + 30 - 1 = (o + 28) + 1 /\ o + 31 - 1 = (o + 28) + 2 /\ o + 32 - 1 = ((o + 28) + 2) + 1
  OBVIOUS
<1>6. d[o] = n[1] /\ d[o + 11] = 32
  BY <1>1, <1>2, <1>5
<1>7. /\ d[o + 20] = Byte(c, 3) /\ d[(o + 20) + 1] = Byte(c, 4)
      /\ d[o + 26] = Byte(c, 1) /\ d[(o + 26) + 1] = Byte(c, 2)
  BY <1>1, <1>2, <1>5
<1>8. d[o + 28] = 0 /\ d[(o + 28) + 1] = 0 /\ d[(o + 28) + 2] = 0 /\ d[((o + 28) + 2) + 1] = 0
  BY <1>1, <1>2, <1>5
<1>9. ClusterAt(d, o) = c
  BY <1>7, BytesAdd DEF ClusterAt, Word16
<1>10. Word32(d, o + 28) = 0
  BY <1>8 DEF Word32, Word16
<1>11. d[o] # 0 /\ d[o] # 229 /\ d[o + 11] # 15
  BY <1>6
<1>12. EntryAt(d, o) = [kind |-> "file", name |-> NameAt(d, o), clus |-> ClusterAt(d, o),
                        size |-> Word32(d, o + 28)]
  BY <1>11, Zenon DEF EntryAt
<1> QED BY <1>4, <1>9, <1>10, <1>12 DEF d

\* What delete writes reads back as a deleted entry.
LEMMA EntryErased ==
  ASSUME NEW b \in Blocks, NEW o \in Nat, o + 32 <= 512
  PROVE  EntryAt(memcpy(b, o, <<229>>), o) = [kind |-> "deleted"]
<1> DEFINE d == memcpy(b, o, <<229>>)
<1>1. DOMAIN b = 0 .. 511 /\ o \in 0 .. 511
  BY BlocksAre
<1>2. d[o] = IF o - o + 1 \in 1 .. 1 THEN <<229>>[o - o + 1] ELSE b[o]
  BY <1>1 DEF memcpy
<1>3. d[o] = 229 /\ d[o] # 0
  BY <1>2
<1> HIDE DEF d
<1>4. EntryAt(d, o) = [kind |-> "deleted"]
  BY <1>3, Zenon DEF EntryAt
<1> QED BY <1>4 DEF d

-----------------------------------------------------------------------------
(* Short names.                                                            *)

\* The first place of a set in a string is in it, and none before it is.
LEMMA FirstPlaceIs ==
  ASSUME NEW s, NEW C, NEW n \in Nat, DOMAIN s = 1 .. n, \E k \in 1 .. n : s[k] \in C
  PROVE  /\ FirstPlace(s, C) \in 1 .. n /\ s[FirstPlace(s, C)] \in C
         /\ \A j \in 1 .. FirstPlace(s, C) - 1 : s[j] \notin C
<1> DEFINE S == {k \in 1 .. n : s[k] \in C}
<1>1. S \subseteq Nat /\ S # {}
  OBVIOUS
<1>2. PICK k \in S : \A y \in S : <<y, k>> \notin OpToRel(<, Nat)
  BY <1>1, WFMin, NatLessThanWellFounded
<1>3. \A y \in S : ~(y < k)
  BY <1>1, <1>2 DEF OpToRel
<1>4. k \in DOMAIN s /\ s[k] \in C /\ \A j \in 1 .. k - 1 : s[j] \notin C
  BY <1>3
<1>5. \E i \in DOMAIN s : s[i] \in C /\ \A j \in 1 .. i - 1 : s[j] \notin C
  BY <1>4
<1> QED BY <1>5 DEF FirstPlace

\* An array t that ends with its NUL, at z.
IsString(t, z) ==
  /\ t \in Seq(0 .. 127) /\ z \in Nat \ {0} /\ Len(t) = z /\ t[z] = 0
  /\ \A k \in 1 .. z - 1 : t[k] \in 1 .. 127

\* The characters of a string are not 0 up to the one that ends it.
LEMMA StringIs ==
  ASSUME NEW t, NEW z, IsString(t, z)
  PROVE  /\ z \in Nat \ {0} /\ z \in Nat /\ Len(t) = z /\ DOMAIN t = 1 .. z /\ t[z] = 0
         /\ \A j \in 1 .. z - 1 : t[j] \in 1 .. 127 /\ t[j] # 0
         /\ \A k \in 1 .. z : t[k] \in 0 .. 127
<1>1. t \in Seq(0 .. 127) /\ z \in Nat \ {0} /\ Len(t) = z /\ t[z] = 0
      /\ \A k \in 1 .. z - 1 : t[k] \in 1 .. 127
  BY DEF IsString
<1>2. \A k \in 1 .. z : t[k] \in 0 .. 127
  <2>1. t \in Seq(0 .. 127)
    BY <1>1
  <2>2. \A k \in 1 .. Len(t) : t[k] \in 0 .. 127
    BY <2>1, ElementOfSeq
  <2> QED BY <1>1, <2>2
<1>3. DOMAIN t = 1 .. z
  BY <1>1, LenProperties
<1>4. \A k \in 1 .. 127 : k # 0
  OBVIOUS
<1>5. z \in Nat
  BY <1>1
<1> QED BY <1>1, <1>2, <1>3, <1>4, <1>5

\* A typed name with its NUL is a string.
LEMMA TypedIs ==
  ASSUME NEW n \in Seq(1 .. 127)
  PROVE  IsString(Typed(n), Len(n) + 1) /\ \A k \in 1 .. Len(n) : Typed(n)[k] = n[k]
<1>1. n \in Seq(0 .. 127) /\ 0 \in 0 .. 127 /\ Len(n) \in Nat
  BY SeqMonotonic
<1>2. /\ Typed(n) \in Seq(0 .. 127) /\ Len(Typed(n)) = Len(n) + 1
      /\ (\A k \in 1 .. Len(n) : Typed(n)[k] = n[k]) /\ Typed(n)[Len(n) + 1] = 0
  BY <1>1, AppendProperties DEF Typed, NUL
<1>3. \A k \in 1 .. Len(n) : n[k] \in 1 .. 127
  BY ElementOfSeq
<1>4. (Len(n) + 1) - 1 = Len(n) /\ Len(n) + 1 \in Nat \ {0}
  BY <1>1
<1>5. \A k \in 1 .. (Len(n) + 1) - 1 : Typed(n)[k] \in 1 .. 127
  BY <1>2, <1>3, <1>4
<1> QED BY <1>2, <1>4, <1>5 DEF IsString

\* strlen counts the characters in front of the NUL.
LEMMA LengthIs ==
  ASSUME NEW t, NEW z, IsString(t, z)
  PROVE  strlen(t) = z - 1
<1> DEFINE k == FirstPlace(t, {NUL})
<1>1. /\ z \in Nat \ {0} /\ z \in Nat /\ DOMAIN t = 1 .. z /\ t[z] = 0
      /\ \A j \in 1 .. z - 1 : t[j] # 0
  BY StringIs
<1>2. \E j \in 1 .. z : t[j] \in {NUL}
  BY <1>1 DEF NUL
<1>3. k \in 1 .. z /\ t[k] \in {NUL}
  BY <1>1, <1>2, FirstPlaceIs
<1>4. strlen(t) = k - 1
  BY DEF strlen
<1> HIDE DEF k
<1>5. k = z
  BY <1>1, <1>3 DEF NUL
<1> QED BY <1>4, <1>5

\* strchr finds the first dot, or says that there is none.
LEMMA DotIs ==
  ASSUME NEW t, NEW z, IsString(t, z), NEW dot, dot = strchr(t, Dot)
  PROVE  \/ dot = 0 /\ \A j \in 1 .. z - 1 : t[j] # Dot
         \/ dot \in 1 .. z - 1 /\ t[dot] = Dot /\ \A j \in 1 .. dot - 1 : t[j] # Dot
<1> DEFINE k == FirstPlace(t, {Dot, NUL})
<1>1. /\ z \in Nat \ {0} /\ z \in Nat /\ DOMAIN t = 1 .. z /\ t[z] = 0
      /\ \A j \in 1 .. z - 1 : t[j] # 0
  BY StringIs
<1>2. dot = IF t[k] = Dot THEN k ELSE 0
  BY DEF strchr
<1>3. \E j \in 1 .. z : t[j] \in {Dot, NUL}
  BY <1>1 DEF NUL
<1>4. k \in 1 .. z /\ t[k] \in {Dot, NUL} /\ \A j \in 1 .. k - 1 : t[j] \notin {Dot, NUL}
  BY <1>1, <1>3, FirstPlaceIs
<1> HIDE DEF k
<1>5. CASE t[k] = Dot
  <2>1. k # z
    BY <1>1, <1>5 DEF Dot
  <2> QED BY <1>1, <1>2, <1>4, <1>5, <2>1
<1>6. CASE t[k] # Dot
  <2>1. k = z
    BY <1>1, <1>4, <1>6 DEF NUL
  <2> QED BY <1>1, <1>2, <1>4, <1>6, <2>1
<1> QED BY <1>5, <1>6

\* What follows the place d of a string is as long as it looks.
LEMMA RestIs ==
  ASSUME NEW t, NEW z, IsString(t, z), NEW d \in 1 .. z - 1
  PROVE  strlen(From(t, d)) = z - 1 - d
<1> DEFINE r == SubSeq(t, d + 1, z)
<1>1. z \in Nat /\ d \in Int /\ (\A k \in 1 .. z : t[k] \in 0 .. 127)
  BY StringIs
<1>2. \A k \in d + 1 .. z : t[k] \in 0 .. 127
  BY <1>1
<1>3. /\ r \in Seq(0 .. 127) /\ Len(r) = z - d
      /\ \A k \in 1 .. z - d : r[k] = t[d + k]
  <2>1. d + 1 \in Int /\ z \in Int /\ d + 1 <= z /\ z - (d + 1) + 1 = z - d
    BY <1>1
  <2>2. /\ r \in Seq(0 .. 127) /\ Len(r) = z - (d + 1) + 1
        /\ \A k \in 1 .. z - (d + 1) + 1 : r[k] = t[(d + 1) + k - 1]
    BY <1>2, <2>1, SubSeqProperties
  <2> HIDE DEF r
  <2>3. \A k \in 1 .. z - d : (d + 1) + k - 1 = d + k
    BY <1>1
  <2> QED BY <2>1, <2>2, <2>3
<1>4. From(t, d) = r
  BY DEF From, IsString
<1> HIDE DEF r
<1>5. IsString(r, z - d)
  <2>1. d + (z - d) = z /\ z - d \in 1 .. z - d /\ z - d \in Nat \ {0}
    BY <1>1
  <2>2. r[z - d] = 0
    BY <1>3, <2>1 DEF IsString
  <2>3. \A k \in 1 .. (z - d) - 1 : k \in 1 .. z - d /\ d + k \in 1 .. z - 1
    BY <1>1
  <2>4. \A k \in 1 .. (z - d) - 1 : r[k] \in 1 .. 127
    BY <1>3, <2>3 DEF IsString
  <2> QED BY <1>3, <2>1, <2>2, <2>4 DEF IsString
<1>6. strlen(r) = (z - d) - 1
  BY <1>5, LengthIs
<1> QED BY <1>1, <1>4, <1>6

\* The 11 bytes of a name: its first p characters, up to the first dot if there
\* is one, and the q that follow it.
LEMMA ShortIs ==
  ASSUME NEW t, NEW z, IsString(t, z)
  PROVE  \E p \in Nat, q \in Nat :
           /\ p <= z - 1 /\ \A j \in 1 .. p : t[j] # Dot
           /\ \/ p = z - 1 /\ q = 0
              \/ p + 1 <= z - 1 /\ t[p + 1] = Dot /\ q = z - 1 - (p + 1)
           /\ make_short_name(t) \in [1 .. 11 -> 1 .. 127]
           /\ \A i \in 1 .. 8 :
                make_short_name(t)[i] = IF i <= p THEN toupper_ascii(t[i]) ELSE Space
           /\ \A i \in 1 .. 3 :
                make_short_name(t)[8 + i] = IF i <= q THEN toupper_ascii(t[p + 1 + i]) ELSE Space
<1> DEFINE x == make_short_name(t)
           dot == strchr(t, Dot)
           base_len == IF dot = 0 THEN strlen(t) ELSE dot - 1
           ext_len == IF dot = 0 THEN 0 ELSE strlen(From(t, dot))
<1>1. /\ z \in Nat \ {0} /\ z \in Nat /\ DOMAIN t = 1 .. z
      /\ \A j \in 1 .. z - 1 : t[j] \in 1 .. 127
  BY StringIs
<1>2. \/ dot = 0 /\ \A j \in 1 .. z - 1 : t[j] # Dot
      \/ dot \in 1 .. z - 1 /\ t[dot] = Dot /\ \A j \in 1 .. dot - 1 : t[j] # Dot
  BY DotIs, Zenon
<1>3. strlen(t) = z - 1
  BY LengthIs
<1>4. dot \in 1 .. z - 1 => strlen(From(t, dot)) = z - 1 - dot
  BY RestIs
<1>5. x = [i \in 1 .. 11 |->
             IF i <= 8 /\ i <= base_len THEN toupper_ascii(t[i])
             ELSE IF i > 8 /\ i - 8 <= ext_len THEN toupper_ascii(t[dot + i - 8])
             ELSE memset(Space, 11)[i]]
  BY DEF make_short_name, NameLen, BaseLen, ExtLen
<1>6. \A i \in 1 .. 11 : memset(Space, 11)[i] = Space
  BY DEF memset
<1>7. \A c \in 1 .. 127 : toupper_ascii(c) \in 1 .. 127
  BY DEF toupper_ascii
<1> HIDE DEF x, dot
<1>8. base_len \in Nat /\ ext_len \in Nat /\ base_len <= z - 1
  BY <1>1, <1>2, <1>3, <1>4
<1>9. \A j \in 1 .. base_len : t[j] # Dot
  BY <1>1, <1>2, <1>3
<1>10. \/ base_len = z - 1 /\ ext_len = 0
       \/ /\ base_len + 1 <= z - 1 /\ t[base_len + 1] = Dot /\ ext_len = z - 1 - (base_len + 1)
          /\ dot = base_len + 1
  BY <1>1, <1>2, <1>3, <1>4
<1> HIDE DEF base_len, ext_len
<1>11. \A i \in 1 .. 8 : x[i] = IF i <= base_len THEN toupper_ascii(t[i]) ELSE Space
  <2> SUFFICES ASSUME NEW i \in 1 .. 8
               PROVE  x[i] = IF i <= base_len THEN toupper_ascii(t[i]) ELSE Space
    OBVIOUS
  <2>1. i \in 1 .. 11 /\ i <= 8 /\ ~(i > 8)
    OBVIOUS
  <2> QED BY <1>5, <1>6, <2>1
<1>12. \A i \in 1 .. 3 : x[8 + i] = IF i <= ext_len THEN toupper_ascii(t[base_len + 1 + i]) ELSE Space
  <2> SUFFICES ASSUME NEW i \in 1 .. 3
               PROVE  x[8 + i] = IF i <= ext_len THEN toupper_ascii(t[base_len + 1 + i]) ELSE Space
    OBVIOUS
  <2>1. 8 + i \in 1 .. 11 /\ ~(8 + i <= 8) /\ 8 + i > 8 /\ (8 + i) - 8 = i
    OBVIOUS
  <2>2. x[8 + i] = IF i <= ext_len THEN toupper_ascii(t[dot + (8 + i) - 8]) ELSE Space
    BY <1>5, <1>6, <2>1
  <2>3. i <= ext_len => dot + (8 + i) - 8 = base_len + 1 + i
    BY <1>8, <1>10
  <2> QED BY <2>2, <2>3
<1>13. x \in [1 .. 11 -> 1 .. 127]
  <2>1. ASSUME NEW i \in 1 .. 8 PROVE x[i] \in 1 .. 127
    <3>1. i <= base_len => i \in 1 .. z - 1
      BY <1>1, <1>8
    <3>2. i <= base_len => t[i] \in 1 .. 127
      BY <1>1, <3>1, Zenon
    <3>3. i <= base_len => toupper_ascii(t[i]) \in 1 .. 127
      BY <1>7, <3>2, Zenon
    <3> QED BY <1>11, <3>3 DEF Space
  <2>2. ASSUME NEW i \in 1 .. 3 PROVE x[8 + i] \in 1 .. 127
    <3>1. i <= ext_len => base_len + 1 + i \in 1 .. z - 1
      BY <1>1, <1>8, <1>10
    <3>2. i <= ext_len => t[base_len + 1 + i] \in 1 .. 127
      BY <1>1, <3>1
    <3>3. i <= ext_len => toupper_ascii(t[base_len + 1 + i]) \in 1 .. 127
      BY <1>7, <3>2, Zenon
    <3> QED BY <1>12, <3>3 DEF Space
  <2>3. ASSUME NEW i \in 1 .. 11 PROVE x[i] \in 1 .. 127
    <3>1. CASE i <= 8
      BY <2>1, <3>1
    <3>2. CASE i > 8
      <4>1. i - 8 \in 1 .. 3 /\ 8 + (i - 8) = i
        BY <3>2
      <4> QED BY <2>2, <4>1
    <3> QED BY <3>1, <3>2
  <2>4. DOMAIN x = 1 .. 11 /\ x = [i \in 1 .. 11 |-> x[i]]
    BY <1>5
  <2> QED BY <2>3, <2>4
<1> QED BY <1>8, <1>9, <1>10, <1>11, <1>12, <1>13 DEF x

\* A part of a name, up to its first space.
LEMMA UpToSpaceIs ==
  ASSUME NEW S, NEW r \in Seq(S), NEW k \in 0 .. Len(r), \A i \in 1 .. k : r[i] # Space,
         k < Len(r) => r[k + 1] = Space
  PROVE  /\ UpToSpace(r) \in Seq(S) /\ Len(UpToSpace(r)) = k
         /\ \A i \in 1 .. k : UpToSpace(r)[i] = r[i]
<1>1. Len(r) \in Nat /\ DOMAIN r = 1 .. Len(r) /\ k \in Nat /\ \A i \in 1 .. Len(r) : r[i] \in S
  BY LenProperties, ElementOfSeq
<1>2. CASE k = Len(r)
  <2>1. ~ \E i \in DOMAIN r : r[i] = Space
    BY <1>1, <1>2
  <2>2. UpToSpace(r) = r
    BY <2>1 DEF UpToSpace
  <2> QED BY <1>1, <1>2, <2>2
<1>3. CASE k < Len(r)
  <2> DEFINE f == FirstPlace(r, {Space})
  <2>1. k + 1 \in 1 .. Len(r) /\ r[k + 1] = Space
    BY <1>1, <1>3
  <2>2. f \in 1 .. Len(r) /\ r[f] \in {Space} /\ \A j \in 1 .. f - 1 : r[j] \notin {Space}
    <3>1. \E i \in 1 .. Len(r) : r[i] \in {Space}
      BY <2>1
    <3> QED BY <1>1, <3>1, FirstPlaceIs
  <2>3. UpToSpace(r) = SubSeq(r, 1, f - 1)
    BY <1>1, <2>1 DEF UpToSpace
  <2> HIDE DEF f
  <2>4. f = k + 1
    <3>1. ~(f <= k)
      BY <1>1, <2>2
    <3>2. ~(k + 1 <= f - 1)
      BY <1>1, <2>1, <2>2
    <3> QED BY <1>1, <2>2, <3>1, <3>2
  <2>5. UpToSpace(r) = SubSeq(r, 1, k)
    BY <1>1, <2>3, <2>4
  <2>6. 1 \in Int /\ k \in Int /\ \A i \in 1 .. k : r[i] \in S
    BY <1>1, <1>3
  <2>7. /\ SubSeq(r, 1, k) \in Seq(S) /\ Len(SubSeq(r, 1, k)) = IF 1 <= k THEN k - 1 + 1 ELSE 0
        /\ \A i \in 1 .. k - 1 + 1 : SubSeq(r, 1, k)[i] = r[1 + i - 1]
    BY <2>6, SubSeqProperties
  <2>8. k - 1 + 1 = k /\ (~(1 <= k) => k = 0) /\ \A i \in 1 .. k : 1 + i - 1 = i
    BY <1>1
  <2> QED BY <2>5, <2>7, <2>8
<1>4. k = Len(r) \/ k < Len(r)
  <2>1. Len(r) \in Nat
    BY <1>1
  <2> QED BY <2>1
<1> QED BY <1>2, <1>3, <1>4

\* The printed name of 11 bytes with a base of a and an extension of e characters.
LEMMA DisplayIs ==
  ASSUME NEW x \in [1 .. 11 -> 1 .. 127], NEW a \in 0 .. 8, NEW e \in 0 .. 3,
         \A i \in 1 .. a : x[i] # Space, a < 8 => x[a + 1] = Space,
         \A i \in 1 .. e : x[8 + i] # Space, e < 3 => x[8 + e + 1] = Space
  PROVE  LET d == make_display_name(x)
             w == IF e = 0 THEN a + 1 ELSE a + e + 2
         IN /\ IsString(d, w)
            /\ \A i \in 1 .. a : d[i] = x[i]
            /\ e # 0 => d[a + 1] = Dot /\ \A i \in 1 .. e : d[a + 1 + i] = x[8 + i]
<1> DEFINE A == UpToSpace(SubSeq(x, 1, 8))
           B == UpToSpace(SubSeq(x, 9, 11))
           d == make_display_name(x)
<1>1. A \in Seq(1 .. 127) /\ Len(A) = a /\ \A i \in 1 .. a : A[i] = x[i]
  <2> DEFINE r == SubSeq(x, 1, 8)
  <2>1. \A i \in 1 .. 8 : x[i] \in 1 .. 127
    OBVIOUS
  <2>2. /\ r \in Seq(1 .. 127) /\ Len(r) = IF 1 <= 8 THEN 8 - 1 + 1 ELSE 0
        /\ \A i \in 1 .. 8 - 1 + 1 : r[i] = x[1 + i - 1]
    BY <2>1, SubSeqProperties
  <2>3. A = UpToSpace(r)
    OBVIOUS
  <2> HIDE DEF r, A
  <2>4. Len(r) = 8 /\ \A i \in 1 .. 8 : r[i] = x[i]
    <3>1. 8 - 1 + 1 = 8 /\ 1 <= 8 /\ \A i \in 1 .. 8 : 1 + i - 1 = i
      OBVIOUS
    <3> QED BY <2>2, <3>1
  <2>5. /\ \A i \in 1 .. a : i \in 1 .. 8
        /\ a < 8 => a + 1 \in 1 .. 8 /\ a + 1 = a + 1
    OBVIOUS
  <2>6. /\ a \in 0 .. Len(r) /\ \A i \in 1 .. a : r[i] # Space
        /\ a < Len(r) => r[a + 1] = Space
    BY <2>4, <2>5
  <2>7. /\ UpToSpace(r) \in Seq(1 .. 127) /\ Len(UpToSpace(r)) = a
        /\ \A i \in 1 .. a : UpToSpace(r)[i] = r[i]
    BY <2>2, <2>6, UpToSpaceIs
  <2> QED BY <2>3, <2>4, <2>5, <2>7
<1>2. B \in Seq(1 .. 127) /\ Len(B) = e /\ \A i \in 1 .. e : B[i] = x[8 + i]
  <2> DEFINE r == SubSeq(x, 9, 11)
  <2>1. \A i \in 9 .. 11 : x[i] \in 1 .. 127
    OBVIOUS
  <2>2. /\ r \in Seq(1 .. 127) /\ Len(r) = IF 9 <= 11 THEN 11 - 9 + 1 ELSE 0
        /\ \A i \in 1 .. 11 - 9 + 1 : r[i] = x[9 + i - 1]
    BY <2>1, SubSeqProperties
  <2>3. B = UpToSpace(r)
    OBVIOUS
  <2> HIDE DEF r, B
  <2>4. Len(r) = 3 /\ \A i \in 1 .. 3 : r[i] = x[8 + i]
    <3>1. 11 - 9 + 1 = 3 /\ 9 <= 11 /\ \A i \in 1 .. 3 : 9 + i - 1 = 8 + i
      OBVIOUS
    <3> QED BY <2>2, <3>1
  <2>5. /\ \A i \in 1 .. e : i \in 1 .. 3
        /\ e < 3 => e + 1 \in 1 .. 3 /\ 8 + (e + 1) = 8 + e + 1
    OBVIOUS
  <2>6. /\ e \in 0 .. Len(r) /\ \A i \in 1 .. e : r[i] # Space
        /\ e < Len(r) => r[e + 1] = Space
    BY <2>4, <2>5
  <2>7. /\ UpToSpace(r) \in Seq(1 .. 127) /\ Len(UpToSpace(r)) = e
        /\ \A i \in 1 .. e : UpToSpace(r)[i] = r[i]
    BY <2>2, <2>6, UpToSpaceIs
  <2> QED BY <2>3, <2>4, <2>5, <2>7
<1>3. x[9] = Space <=> e = 0
  <2>1. e = 0 => x[8 + e + 1] = Space /\ 8 + e + 1 = 9
    OBVIOUS
  <2>2. e # 0 => 1 \in 1 .. e /\ 8 + 1 = 9
    OBVIOUS
  <2> QED BY <2>1, <2>2
<1>4. d = A \o (IF x[9] = Space THEN <<>> ELSE <<Dot>> \o B) \o <<0>>
  BY DEF make_display_name, BaseLen, ExtLen, NameLen, NUL
<1> HIDE DEF A, B, d
<1>5. A \in Seq(0 .. 127) /\ B \in Seq(0 .. 127) /\ <<0>> \in Seq(0 .. 127) /\ <<Dot>> \in Seq(0 .. 127)
      /\ Len(<<0>>) = 1 /\ Len(<<Dot>>) = 1 /\ (\A i \in 1 .. a : A[i] \in 1 .. 127)
      /\ (\A i \in 1 .. e : B[i] \in 1 .. 127)
  <2>1. 1 .. 127 \subseteq 0 .. 127 /\ 0 \in 0 .. 127 /\ Dot \in 0 .. 127
    BY DEF Dot
  <2>2. A \in Seq(0 .. 127) /\ B \in Seq(0 .. 127)
    BY <1>1, <1>2, <2>1, SeqMonotonic
  <2>3. \A i \in 1 .. a : A[i] \in 1 .. 127
    BY <1>1, ElementOfSeq
  <2>4. \A i \in 1 .. e : B[i] \in 1 .. 127
    BY <1>2, ElementOfSeq
  <2>5. <<0>> \in Seq(0 .. 127) /\ <<Dot>> \in Seq(0 .. 127) /\ Len(<<0>>) = 1 /\ Len(<<Dot>>) = 1
    BY <2>1
  <2> QED BY <2>2, <2>3, <2>4, <2>5
<1>6. CASE e = 0
  <2>1. d = A \o <<0>>
    <3>1. A \o <<>> = A
      BY <1>5, ConcatEmptySeq
    <3> QED BY <1>3, <1>4, <1>6, <3>1
  <2>2. /\ d \in Seq(0 .. 127) /\ Len(d) = Len(A) + Len(<<0>>)
        /\ \A i \in 1 .. Len(A) + Len(<<0>>) : d[i] = IF i <= Len(A) THEN A[i] ELSE <<0>>[i - Len(A)]
    BY <1>5, <2>1, ConcatProperties
  <2>3. d \in Seq(0 .. 127) /\ Len(d) = a + 1 /\ (\A i \in 1 .. a : d[i] = A[i]) /\ d[a + 1] = 0
    <3>1. Len(A) = a /\ Len(<<0>>) = 1
      BY <1>1
    <3>2. (a + 1) - a = 1 /\ a + 1 \in 1 .. a + 1 /\ ~(a + 1 <= a) /\ \A i \in 1 .. a : i \in 1 .. a + 1 /\ i <= a
      OBVIOUS
    <3> QED BY <2>2, <3>1, <3>2
  <2>4. IsString(d, a + 1)
    <3>1. (a + 1) - 1 = a /\ a + 1 \in Nat \ {0}
      OBVIOUS
    <3> QED BY <1>5, <2>3, <3>1 DEF IsString
  <2> QED BY <1>1, <1>6, <2>3, <2>4 DEF d
<1>7. CASE e # 0
  <2> DEFINE M == <<Dot>> \o B
             AM == A \o M
  <2>1. d = AM \o <<0>>
    BY <1>3, <1>4, <1>7
  <2>2. /\ M \in Seq(0 .. 127) /\ Len(M) = 1 + e
        /\ \A i \in 1 .. 1 + e : M[i] = IF i <= 1 THEN <<Dot>>[i] ELSE B[i - 1]
    BY <1>2, <1>5, ConcatProperties
  <2>3. M[1] = Dot /\ \A i \in 1 .. e : M[1 + i] = B[i]
    <3>1. 1 \in 1 .. 1 + e /\ 1 <= 1 /\ \A i \in 1 .. e : 1 + i \in 1 .. 1 + e /\ ~(1 + i <= 1) /\ (1 + i) - 1 = i
      OBVIOUS
    <3> QED BY <2>2, <3>1
  <2> HIDE DEF M
  <2>4. /\ AM \in Seq(0 .. 127) /\ Len(AM) = a + (1 + e)
        /\ \A i \in 1 .. a + (1 + e) : AM[i] = IF i <= a THEN A[i] ELSE M[i - a]
    BY <1>1, <1>5, <2>2, ConcatProperties
  <2> HIDE DEF AM
  <2>5. /\ d \in Seq(0 .. 127) /\ Len(d) = a + (1 + e) + 1
        /\ \A i \in 1 .. a + (1 + e) + 1 :
             d[i] = IF i <= a + (1 + e) THEN AM[i] ELSE <<0>>[i - (a + (1 + e))]
    BY <1>5, <2>1, <2>4, ConcatProperties
  <2>6. \A i \in 1 .. a : d[i] = A[i]
    <3>1. \A i \in 1 .. a : i \in 1 .. a + (1 + e) /\ i \in 1 .. a + (1 + e) + 1 /\ i <= a + (1 + e) /\ i <= a
      OBVIOUS
    <3> QED BY <2>4, <2>5, <3>1
  <2>7. \A j \in 1 .. 1 + e : d[a + j] = M[j]
    <3>1. \A j \in 1 .. 1 + e : /\ a + j \in 1 .. a + (1 + e) /\ a + j \in 1 .. a + (1 + e) + 1
                                /\ a + j <= a + (1 + e) /\ ~(a + j <= a) /\ (a + j) - a = j
      OBVIOUS
    <3> QED BY <2>4, <2>5, <3>1
  <2>8. d[a + 1] = Dot /\ \A i \in 1 .. e : d[a + 1 + i] = B[i]
    <3>1. 1 \in 1 .. 1 + e /\ \A i \in 1 .. e : 1 + i \in 1 .. 1 + e /\ a + (1 + i) = a + 1 + i
      OBVIOUS
    <3> QED BY <2>3, <2>7, <3>1
  <2>9. d[a + e + 2] = 0
    <3>1. /\ a + (1 + e) + 1 = a + e + 2 /\ a + e + 2 \in 1 .. a + (1 + e) + 1
          /\ ~(a + e + 2 <= a + (1 + e)) /\ (a + e + 2) - (a + (1 + e)) = 1
      OBVIOUS
    <3> QED BY <2>5, <3>1
  <2>10. IsString(d, a + e + 2)
    <3>1. a + e + 2 \in Nat \ {0} /\ Len(d) = a + e + 2
      BY <2>5
    <3>2. ASSUME NEW k \in 1 .. (a + e + 2) - 1 PROVE d[k] \in 1 .. 127
      <4>1. CASE k <= a
        <5>1. k \in 1 .. a
          BY <4>1
        <5>2. d[k] = A[k]
          BY <2>6, <5>1
        <5> QED BY <1>5, <5>1, <5>2
      <4>2. CASE k = a + 1
        BY <2>8, <4>2 DEF Dot
      <4>3. CASE k > a + 1
        <5> DEFINE j == k - (a + 1)
        <5>1. j \in 1 .. e /\ a + 1 + j = k
          BY <4>3
        <5> HIDE DEF j
        <5>2. d[k] = B[j]
          BY <2>8, <5>1
        <5>3. B[j] \in 1 .. 127
          BY <1>5, <5>1
        <5> QED BY <5>2, <5>3
      <4> QED BY <4>1, <4>2, <4>3
    <3> QED BY <2>5, <2>9, <3>1, <3>2 DEF IsString
  <2> QED BY <1>1, <1>2, <1>7, <2>6, <2>8, <2>10 DEF d
<1> QED BY <1>6, <1>7

\* Capitals, and nothing but a dot becomes one.
LEMMA UpperIs ==
  ASSUME NEW c \in 1 .. 127
  PROVE  /\ toupper_ascii(c) \in 1 .. 127 /\ toupper_ascii(toupper_ascii(c)) = toupper_ascii(c)
         /\ (toupper_ascii(c) = Dot <=> c = Dot) /\ (toupper_ascii(c) = Space <=> c = Space)
BY DEF toupper_ascii, Dot, Space

\* A name without a space, as it is listed, is the same name on the disk.
LEMMA RoundTrip ==
  ASSUME NEW t, NEW z, IsString(t, z), \A j \in 1 .. z - 1 : t[j] # Space
  PROVE  LET x == make_short_name(t) IN make_short_name(make_display_name(x)) = x
<1> DEFINE x == make_short_name(t)
           d == make_display_name(x)
           y == make_short_name(d)
<1>1. PICK p \in Nat, q \in Nat :
        /\ p <= z - 1 /\ \A j \in 1 .. p : t[j] # Dot
        /\ \/ p = z - 1 /\ q = 0
           \/ p + 1 <= z - 1 /\ t[p + 1] = Dot /\ q = z - 1 - (p + 1)
        /\ x \in [1 .. 11 -> 1 .. 127]
        /\ \A i \in 1 .. 8 : x[i] = IF i <= p THEN toupper_ascii(t[i]) ELSE Space
        /\ \A i \in 1 .. 3 : x[8 + i] = IF i <= q THEN toupper_ascii(t[p + 1 + i]) ELSE Space
  BY ShortIs
<1>2. z \in Nat /\ \A j \in 1 .. z - 1 : t[j] \in 1 .. 127
  BY StringIs
<1> HIDE DEF x
<1> DEFINE a == IF p <= 8 THEN p ELSE 8
           e == IF q <= 3 THEN q ELSE 3
<1>3. a \in 0 .. 8 /\ e \in 0 .. 3
  OBVIOUS
<1>4. ASSUME NEW i \in 1 .. a
      PROVE  i \in 1 .. 8 /\ x[i] # Space /\ x[i] # Dot /\ toupper_ascii(x[i]) = x[i]
  <2>1. i \in 1 .. 8 /\ i <= p /\ i \in 1 .. p /\ i \in 1 .. z - 1
    BY <1>1, <1>2
  <2>2. x[i] = toupper_ascii(t[i]) /\ t[i] \in 1 .. 127 /\ t[i] # Space /\ t[i] # Dot
    BY <1>1, <1>2, <2>1
  <2> QED BY <2>1, <2>2, UpperIs
<1>5. ASSUME NEW i \in 1 .. e
      PROVE  i \in 1 .. 3 /\ x[8 + i] # Space /\ toupper_ascii(x[8 + i]) = x[8 + i]
  <2> DEFINE j == p + 1 + i
  <2>1. i \in 1 .. 3 /\ i <= q /\ j \in 1 .. z - 1
    BY <1>1, <1>2
  <2>2. x[8 + i] = toupper_ascii(t[j])
    BY <1>1, <2>1
  <2> HIDE DEF j
  <2>3. t[j] \in 1 .. 127 /\ t[j] # Space
    BY <1>2, <2>1
  <2> QED BY <2>1, <2>2, <2>3, UpperIs
<1>6. ASSUME NEW i \in 1 .. 8, i > a PROVE x[i] = Space
  <2>1. ~(i <= p)
    BY <1>6
  <2> QED BY <1>1, <2>1
<1>7. ASSUME NEW i \in 1 .. 3, i > e PROVE x[8 + i] = Space
  <2>1. ~(i <= q)
    BY <1>7
  <2> QED BY <1>1, <2>1
<1> HIDE DEF a, e
<1> DEFINE w == IF e = 0 THEN a + 1 ELSE a + e + 2
<1>8. /\ IsString(d, w) /\ \A i \in 1 .. a : d[i] = x[i]
      /\ e # 0 => d[a + 1] = Dot /\ \A i \in 1 .. e : d[a + 1 + i] = x[8 + i]
  <2>1. (\A i \in 1 .. a : x[i] # Space) /\ (\A i \in 1 .. e : x[8 + i] # Space)
    BY <1>4, <1>5
  <2>2. a < 8 => x[a + 1] = Space
    <3>1. a < 8 => a + 1 \in 1 .. 8 /\ a + 1 > a
      BY <1>3
    <3> QED BY <1>6, <3>1
  <2>3. e < 3 => x[8 + e + 1] = Space
    <3>1. e < 3 => e + 1 \in 1 .. 3 /\ e + 1 > e /\ 8 + (e + 1) = 8 + e + 1
      BY <1>3
    <3> QED BY <1>7, <3>1
  <2> QED BY <1>1, <1>3, <2>1, <2>2, <2>3, DisplayIs
<1> HIDE DEF d
<1>9. w \in Nat /\ w - 1 = IF e = 0 THEN a ELSE a + e + 1
  BY <1>3
<1> HIDE DEF w
<1>10. PICK p2 \in Nat, q2 \in Nat :
         /\ p2 <= w - 1 /\ \A j \in 1 .. p2 : d[j] # Dot
         /\ \/ p2 = w - 1 /\ q2 = 0
            \/ p2 + 1 <= w - 1 /\ d[p2 + 1] = Dot /\ q2 = w - 1 - (p2 + 1)
         /\ y \in [1 .. 11 -> 1 .. 127]
         /\ \A i \in 1 .. 8 : y[i] = IF i <= p2 THEN toupper_ascii(d[i]) ELSE Space
         /\ \A i \in 1 .. 3 : y[8 + i] = IF i <= q2 THEN toupper_ascii(d[p2 + 1 + i]) ELSE Space
  BY <1>8, ShortIs
<1> HIDE DEF y
<1>11. \A i \in 1 .. a : d[i] # Dot
  BY <1>4, <1>8
<1>12. p2 = a /\ q2 = e
  <2>1. CASE e = 0
    <3>1. ~(p2 + 1 <= a /\ d[p2 + 1] = Dot)
      BY <1>3, <1>11
    <3> QED BY <1>3, <1>9, <1>10, <2>1, <3>1
  <2>2. CASE e # 0
    <3>1. d[a + 1] = Dot
      BY <1>8, <2>2
    <3>2. ~(a + 1 <= p2)
      BY <1>3, <1>10, <3>1
    <3>3. ~(p2 + 1 <= a /\ d[p2 + 1] = Dot)
      BY <1>3, <1>11
    <3> QED BY <1>3, <1>9, <1>10, <2>2, <3>2, <3>3
  <2> QED BY <2>1, <2>2
<1>13. ASSUME NEW i \in 1 .. 8 PROVE y[i] = x[i]
  <2>1. CASE i <= a
    <3>1. i \in 1 .. a
      BY <1>3, <2>1
    <3>2. y[i] = toupper_ascii(d[i]) /\ d[i] = x[i] /\ toupper_ascii(x[i]) = x[i]
      BY <1>4, <1>8, <1>10, <1>12, <2>1, <3>1
    <3> QED BY <3>2
  <2>2. CASE ~(i <= a)
    <3>1. y[i] = Space /\ i > a
      BY <1>3, <1>10, <1>12, <2>2
    <3> QED BY <1>6, <3>1
  <2> QED BY <2>1, <2>2
<1>14. ASSUME NEW i \in 1 .. 3 PROVE y[8 + i] = x[8 + i]
  <2>1. CASE i <= e
    <3>1. i \in 1 .. e /\ e # 0
      BY <1>3, <2>1
    <3>2. y[8 + i] = toupper_ascii(d[a + 1 + i])
      BY <1>10, <1>12, <2>1
    <3>3. d[a + 1 + i] = x[8 + i]
      BY <1>8, <3>1
    <3>4. toupper_ascii(x[8 + i]) = x[8 + i]
      BY <1>5, <3>1
    <3> QED BY <3>2, <3>3, <3>4
  <2>2. CASE ~(i <= e)
    <3>1. y[8 + i] = Space /\ i > e
      BY <1>3, <1>10, <1>12, <2>2
    <3> QED BY <1>7, <3>1
  <2> QED BY <2>1, <2>2
<1>15. \A i \in 1 .. 11 : y[i] = x[i]
  <2> SUFFICES ASSUME NEW i \in 1 .. 11 PROVE y[i] = x[i]
    OBVIOUS
  <2>1. CASE i <= 8
    BY <1>13, <2>1
  <2>2. CASE i > 8
    <3>1. i - 8 \in 1 .. 3 /\ 8 + (i - 8) = i
      BY <2>2
    <3> QED BY <1>14, <3>1
  <2> QED BY <2>1, <2>2
<1>16. y = x
  BY <1>1, <1>10, <1>15
<1> QED BY <1>16 DEF y, d, x

\* The name of a new file marks its slot as used.
LEMMA NewName ==
  ASSUME NEW n \in TypedNames
  PROVE  /\ make_short_name(Typed(n)) \in [1 .. 11 -> Bytes]
         /\ make_short_name(Typed(n))[1] # 0 /\ make_short_name(Typed(n))[1] # 229
<1> DEFINE x == make_short_name(Typed(n))
<1>1. IsString(Typed(n), Len(n) + 1)
  BY NamesAssumption, TypedIs
<1>2. x \in [1 .. 11 -> 1 .. 127]
  BY <1>1, ShortIs
<1> HIDE DEF x
<1>3. \A k \in 1 .. 11 : x[k] \in 1 .. 127
  BY <1>2
<1>4. 1 .. 127 \subseteq Bytes
  BY DEF Bytes
<1>5. x \in [1 .. 11 -> Bytes]
  BY <1>2, <1>4
<1>6. x[1] # 0 /\ x[1] # 229
  BY <1>3
<1> QED BY <1>5, <1>6 DEF x

-----------------------------------------------------------------------------
(* The invariant.                                                          *)

\* A slot that a file was created in has its name.
Remembered ==
  \A s \in SlotIds : typed[s] # NoName => SlotName(s) = make_short_name(Typed(typed[s]))

IInv == TypeOK /\ Describes(disk[0], Geometry) /\ Remembered

\* A mounted volume can be told from one that is not.
LEMMA Mounted == Geometry # Unmounted
<1>1. Geometry.root_cluster # 0
  BY GeometryAssumption
<1> QED BY <1>1 DEF Unmounted

\* What fat32_init reads from the boot sector is the geometry.
LEMMA BpbIs ==
  ASSUME NEW b, Describes(b, Geometry)
  PROVE  Bpb(b) = Geometry
<1>1. Geometry = [bytes_per_sector    |-> Geometry.bytes_per_sector,
                  sectors_per_cluster |-> Geometry.sectors_per_cluster,
                  reserved_sectors    |-> Geometry.reserved_sectors,
                  fat_size            |-> Geometry.fat_size,
                  root_cluster        |-> Geometry.root_cluster,
                  data_start          |-> Geometry.data_start]
  BY GeometryAssumption
<1>2. /\ 11 + 1 = 12 /\ 14 + 1 = 15 /\ 36 + 1 = 37 /\ 36 + 2 = 38 /\ 38 + 1 = 39
      /\ 44 + 1 = 45 /\ 44 + 2 = 46 /\ 46 + 1 = 47
  OBVIOUS
<1>3. /\ Word16(b, 11) = Geometry.bytes_per_sector /\ Word16(b, 14) = Geometry.reserved_sectors
      /\ Word32(b, 36) = Geometry.fat_size /\ Word32(b, 44) = Geometry.root_cluster
  BY <1>2 DEF Describes, Word16, Word32
<1>4. /\ b[13] = Geometry.sectors_per_cluster
      /\ Word16(b, 14) + b[16] * Word32(b, 36) = Geometry.data_start
  BY <1>3 DEF Describes
<1> QED BY <1>1, <1>3, <1>4 DEF Bpb

\* One sector is rewritten.
LEMMA Rewritten ==
  ASSUME disk \in [Sectors -> Blocks], writes \in 0 .. MaxWrites, failed \in 0 .. MaxFailed,
         NEW lba \in Sectors, lba # 0, NEW off \in Nat, NEW n \in Nat, NEW src \in [1 .. n -> Bytes],
         Rewrite(lba, off, src)
  PROVE  /\ disk' \in [Sectors -> Blocks] /\ writes' \in 0 .. MaxWrites /\ failed' \in 0 .. MaxFailed
         /\ fs' = fs
         /\ \A k \in Sectors : k # lba => disk'[k] = disk[k]
         /\ \E b \in Blocks : /\ disk'[lba] = memcpy(b, off, src)
                              /\ \/ b = disk[lba] /\ failed' = failed
                                 \/ failed' = failed + 1
<1>1. PICK b \in Blocks : /\ disk' = [disk EXCEPT ![lba] = memcpy(b, off, src)]
                          /\ \/ b = disk[lba] /\ failed' = failed
                             \/ failed < MaxFailed /\ failed' = failed + 1
  <2>1. disk[lba] \in Blocks
    OBVIOUS
  <2>2. Junk \subseteq Blocks
    BY DisksAssumption
  <2> QED BY <2>1, <2>2 DEF Rewrite
<1>2. memcpy(b, off, src) \in Blocks
  BY LaidType
<1>3. fs' = fs /\ writes < MaxWrites /\ writes' = writes + 1
  BY DEF Rewrite
<1>4. MaxWrites \in Nat /\ MaxFailed \in Nat
  BY BoundsAssumption
<1>5. writes' \in 0 .. MaxWrites /\ failed' \in 0 .. MaxFailed
  BY <1>1, <1>3, <1>4
<1>6. /\ disk' \in [Sectors -> Blocks] /\ disk'[lba] = memcpy(b, off, src)
      /\ \A k \in Sectors : k # lba => disk'[k] = disk[k]
  BY <1>1, <1>2
<1> QED BY <1>1, <1>3, <1>5, <1>6

-----------------------------------------------------------------------------
(* The steps.                                                              *)

\* write_fat_entry sets one link of Volume and keeps the invariant.
LEMMA StepLink ==
  ASSUME IInv, NEW c \in Cells, NEW v \in {0, EOC}, write_fat_entry(c, v)
  PROVE  IInv' /\ Vol!SetLink(c, v)
<1> DEFINE lba == FatSector(c)
           off == 4 * (c % 128)
           link == [e \in Cells |-> Word28(disk[FatSector(e)], 4 * (e % 128))]
           slots == [s \in SlotIds |-> EntryAt(disk[SlotSector(s)], s[2] % SECTOR_SIZE)]
<1>1. fs = Geometry /\ typed' = typed
  BY DEF IInv, TypeOK, write_fat_entry
<1>2. /\ c \in Nat /\ lba \in Sectors /\ lba # 0 /\ v \in Nat /\ v <= EOC
      /\ \A s \in SlotIds : SlotSector(s) \in Sectors /\ SlotSector(s) # lba
  <2>1. 0 \in Nat /\ EOC \in Nat /\ 0 <= EOC
    BY DEF EOC
  <2>2. lba \in Nat \ {0} /\ \A s \in SlotIds : SlotSector(s) \in Nat /\ lba < SlotSector(s)
    BY Regions
  <2> QED BY <2>1, <2>2, GeometryAssumption
<1>3. off \in Nat /\ off <= 508
  BY <1>2
<1>4. Rewrite(lba, off, FatBytes(v))
  BY <1>1, Places DEF write_fat_entry
<1>5. FatBytes(v) \in [1 .. 4 -> Bytes] /\ 4 \in Nat
  BY <1>2, FatBytesType
<1> HIDE DEF lba, off
<1>6. /\ disk' \in [Sectors -> Blocks] /\ writes' \in 0 .. MaxWrites /\ failed' \in 0 .. MaxFailed
      /\ fs' = fs
      /\ \A k \in Sectors : k # lba => disk'[k] = disk[k]
      /\ \E b \in Blocks : /\ disk'[lba] = memcpy(b, off, FatBytes(v))
                           /\ \/ b = disk[lba] /\ failed' = failed
                              \/ failed' = failed + 1
  BY <1>2, <1>3, <1>4, <1>5, Rewritten DEF IInv, TypeOK
<1>7. \A s \in SlotIds : disk'[SlotSector(s)] = disk[SlotSector(s)]
  BY <1>2, <1>6
<1>8. disk'[0] = disk[0]
  BY <1>2, <1>6, GeometryAssumption
<1>9. IInv'
  <2>1. TypeOK'
    BY <1>1, <1>6 DEF IInv, TypeOK
  <2>2. Remembered'
    BY <1>1, <1>7 DEF IInv, Remembered, SlotName
  <2> QED BY <1>8, <2>1, <2>2 DEF IInv
<1>10. PICK b \in Blocks : /\ disk'[lba] = memcpy(b, off, FatBytes(v))
                           /\ \/ b = disk[lba] /\ failed' = failed
                              \/ failed' = failed + 1
  BY <1>6
<1>11. Word28(disk'[FatSector(c)], 4 * (c % 128)) = v
  <2>1. Word28(disk'[lba], off) = v
    BY <1>2, <1>3, <1>10, LinkWritten
  <2> QED BY <2>1 DEF lba, off
<1>12. ASSUME NEW e \in Cells, e # c, b = disk[lba] \/ FatSector(e) # FatSector(c)
       PROVE  Word28(disk'[FatSector(e)], 4 * (e % 128)) = Word28(disk[FatSector(e)], 4 * (e % 128))
  <2>1. CASE FatSector(e) # lba
    BY <1>6, <2>1, GeometryAssumption
  <2>2. CASE FatSector(e) = lba
    <3> DEFINE p == 4 * (e % 128)
    <3>1. e \in Nat
      BY GeometryAssumption
    <3>2. p \in Nat /\ p <= 508
      BY <3>1
    <3>3. p + 4 <= off \/ off + 4 <= p
      BY <1>12, <2>2, FatApart DEF lba, off
    <3>4. b = disk[lba]
      BY <1>12, <2>2 DEF lba
    <3> HIDE DEF p
    <3>5. Word28(memcpy(b, off, FatBytes(v)), p) = Word28(b, p)
      BY <1>2, <1>3, <3>2, <3>3, LinkKept
    <3>6. Word28(disk'[FatSector(e)], p) = Word28(disk[FatSector(e)], p)
      BY <1>10, <2>2, <3>4, <3>5
    <3> QED BY <3>6 DEF p
  <2> QED BY <2>1, <2>2
<1>13. Vol!SetLink(c, v)
  <2>1. link'[c] = v
    BY <1>11
  <2>2. \A e \in Cells \ {c} : b = disk[lba] \/ FatSector(e) # FatSector(c) => link'[e] = link[e]
    BY <1>12
  <2>3. slots' = slots
    BY <1>7
  <2> HIDE DEF link, slots
  <2>4. /\ link'[c] = v
        /\ \/ failed' = failed /\ \A e \in Cells \ {c} : link'[e] = link[e]
           \/ failed' = failed + 1
              /\ \A e \in Cells : FatSector(e) # FatSector(c) => link'[e] = link[e]
    BY <1>10, <2>1, <2>2
  <2>5. DOMAIN link' = Cells /\ DOMAIN link = Cells
    BY DEF link
  <2>6. \A e \in Cells : [k \in Cells |-> FatSector(k)][e] = FatSector(e)
    OBVIOUS
  <2> QED BY <2>3, <2>4, <2>5, <2>6 DEF Vol!SetLink, Vol!Written, link, slots
<1> QED BY <1>9, <1>13

\* What goes over a directory slot, the entry x it leaves there, and the name u.
EntryBytes == UNION {[1 .. n -> Bytes] : n \in 1 .. 32}
LeavesEntry(src, x) ==
  \A b \in Blocks, o \in Nat : o + 32 <= 512 => EntryAt(memcpy(b, o, src), o) = x
LeavesName(src, u) ==
  u # NoName => \A b \in Blocks, o \in Nat :
                  o + 32 <= 512 => NameAt(memcpy(b, o, src), o) = make_short_name(Typed(u))
SlotWritten(s, x) ==
  Vol!Written([t \in SlotIds |-> EntryAt(disk[SlotSector(t)], t[2] % SECTOR_SIZE)],
              [t \in SlotIds |-> EntryAt(disk'[SlotSector(t)], t[2] % SECTOR_SIZE)],
              [t \in SlotIds |-> SlotSector(t)], s, x)

\* What any write of a directory slot does to the invariant and to the slots.
LEMMA StepSlot ==
  ASSUME IInv, fs = Geometry, NEW s \in SlotIds, NEW src \in EntryBytes,
         Rewrite(found_lba(s), found_off(s), src),
         NEW u \in TypedNames \cup {NoName}, Author(s, u),
         NEW x, LeavesEntry(src, x), LeavesName(src, u)
  PROVE  /\ IInv'
         /\ SlotWritten(s, x)
         /\ \A c \in Cells : disk'[FatSector(c)] = disk[FatSector(c)]
<1> PICK n \in 1 .. 32 : src \in [1 .. n -> Bytes]
  BY DEF EntryBytes
<1> DEFINE lba == SlotSector(s)
           off == s[2] % 512
<1>1. /\ found_lba(s) = lba /\ found_off(s) = off
      /\ \A t \in SlotIds : found_lba(t) = SlotSector(t)
  BY Places DEF SECTOR_SIZE
<1>2. /\ lba \in Sectors /\ lba # 0
      /\ \A c \in Cells : FatSector(c) \in Sectors /\ FatSector(c) # lba
  <2>1. lba \in Nat \ {0} /\ \A c \in Cells : FatSector(c) \in Nat /\ FatSector(c) < lba
    BY Regions
  <2> QED BY <2>1, GeometryAssumption
<1>3. off \in Nat /\ off + 32 <= 512
  <2>1. s[2] \in Nat /\ s[2] % 32 = 0
    BY GeometryAssumption
  <2> QED BY <2>1, SlotPlace
<1> HIDE DEF lba, off
<1>4. Rewrite(lba, off, src) /\ n \in Nat
  BY <1>1
<1>5. /\ disk' \in [Sectors -> Blocks] /\ writes' \in 0 .. MaxWrites /\ failed' \in 0 .. MaxFailed
      /\ fs' = fs
      /\ \A k \in Sectors : k # lba => disk'[k] = disk[k]
      /\ \E b \in Blocks : /\ disk'[lba] = memcpy(b, off, src)
                           /\ \/ b = disk[lba] /\ failed' = failed
                              \/ failed' = failed + 1
  BY <1>2, <1>3, <1>4, Rewritten DEF IInv, TypeOK
<1>6. \A c \in Cells : disk'[FatSector(c)] = disk[FatSector(c)]
  BY <1>2, <1>5
<1>7. PICK b \in Blocks : /\ disk'[lba] = memcpy(b, off, src)
                          /\ \/ b = disk[lba] /\ failed' = failed
                             \/ failed' = failed + 1
  BY <1>5
<1>8. ASSUME NEW t \in SlotIds, t # s, b = disk[lba] \/ SlotSector(t) # lba
      PROVE  /\ EntryAt(disk'[SlotSector(t)], t[2] % 512) = EntryAt(disk[SlotSector(t)], t[2] % 512)
             /\ NameAt(disk'[SlotSector(t)], t[2] % 512) = NameAt(disk[SlotSector(t)], t[2] % 512)
  <2>1. SlotSector(t) \in Sectors /\ t[2] \in Nat /\ t[2] % 32 = 0
    BY GeometryAssumption
  <2>2. CASE SlotSector(t) # lba
    BY <1>5, <2>1, <2>2
  <2>3. CASE SlotSector(t) = lba
    <3> DEFINE p == t[2] % 512
    <3>1. p \in Nat /\ p + 32 <= 512
      BY <2>1, SlotPlace
    <3>2. p + 32 <= off \/ off + 32 <= p
      BY <1>8, <2>3, SlotApart DEF lba, off
    <3>3. b = disk[SlotSector(t)] /\ disk'[SlotSector(t)] = memcpy(b, off, src)
      BY <1>7, <1>8, <2>3
    <3>4. DOMAIN src \subseteq 1 .. 32
      OBVIOUS
    <3> HIDE DEF p
    <3>5. EntryAt(memcpy(b, off, src), p) = EntryAt(b, p) /\ NameAt(memcpy(b, off, src), p) = NameAt(b, p)
      BY <1>3, <3>1, <3>2, <3>4, EntryKept
    <3>6. EntryAt(disk'[SlotSector(t)], p) = EntryAt(disk[SlotSector(t)], p)
          /\ NameAt(disk'[SlotSector(t)], p) = NameAt(disk[SlotSector(t)], p)
      BY <3>3, <3>5
    <3> QED BY <3>6 DEF p
  <2> QED BY <2>2, <2>3
<1>9. EntryAt(disk'[SlotSector(s)], s[2] % 512) = x
  <2>1. EntryAt(disk'[lba], off) = x
    BY <1>3, <1>7 DEF LeavesEntry
  <2> QED BY <2>1 DEF lba, off
<1>10. IInv'
  <2>1. typed' = [t \in SlotIds |->
                    IF t = s THEN u
                    ELSE IF failed' > failed /\ SlotSector(t) = lba THEN NoName
                    ELSE typed[t]]
    BY <1>1 DEF Author
  <2>2. typed \in [SlotIds -> TypedNames \cup {NoName}] /\ fs \in {Unmounted, Geometry}
    BY DEF IInv, TypeOK
  <2>3. typed' \in [SlotIds -> TypedNames \cup {NoName}]
    BY <2>1, <2>2
  <2>4. TypeOK'
    BY <1>5, <2>2, <2>3 DEF TypeOK
  <2>5. disk'[0] = disk[0]
    BY <1>2, <1>5, GeometryAssumption
  <2>6. ASSUME NEW t \in SlotIds, typed'[t] # NoName
        PROVE  NameAt(disk'[SlotSector(t)], t[2] % 512) = make_short_name(Typed(typed'[t]))
    <3>1. CASE t = s
      <4>1. typed'[t] = u /\ u # NoName
        BY <2>1, <2>6, <3>1
      <4>2. NameAt(memcpy(b, off, src), off) = make_short_name(Typed(u))
        BY <1>3, <4>1 DEF LeavesName
      <4>3. NameAt(disk'[lba], off) = make_short_name(Typed(u))
        BY <1>7, <4>2
      <4> QED BY <3>1, <4>1, <4>3 DEF lba, off
    <3>2. CASE t # s
      <4>1. typed'[t] = typed[t] /\ ~(failed' > failed /\ SlotSector(t) = lba)
        BY <2>1, <2>6, <3>2
      <4>2. failed \in Nat
        BY DEF IInv, TypeOK
      <4>3. b = disk[lba] \/ SlotSector(t) # lba
        BY <1>7, <4>1, <4>2
      <4>4. NameAt(disk[SlotSector(t)], t[2] % 512) = make_short_name(Typed(typed[t]))
        BY <2>6, <4>1 DEF IInv, Remembered, SlotName, SECTOR_SIZE
      <4> QED BY <1>8, <3>2, <4>1, <4>3, <4>4
    <3> QED BY <3>1, <3>2
  <2>7. Remembered'
    BY <2>6 DEF Remembered, SlotName, SECTOR_SIZE
  <2> QED BY <2>4, <2>5, <2>7 DEF IInv
<1>11. SlotWritten(s, x)
  <2> DEFINE f == [t \in SlotIds |-> EntryAt(disk[SlotSector(t)], t[2] % SECTOR_SIZE)]
             g == [t \in SlotIds |-> EntryAt(disk'[SlotSector(t)], t[2] % SECTOR_SIZE)]
             block == [t \in SlotIds |-> SlotSector(t)]
  <2>1. g[s] = x
    BY <1>9 DEF SECTOR_SIZE
  <2>2. \A t \in SlotIds \ {s} : b = disk[lba] \/ SlotSector(t) # lba => g[t] = f[t]
    BY <1>8 DEF SECTOR_SIZE
  <2>3. DOMAIN f = SlotIds /\ DOMAIN g = SlotIds /\ \A t \in SlotIds : block[t] = SlotSector(t)
    OBVIOUS
  <2> HIDE DEF f, g, block
  <2>4. \A t \in SlotIds : block[t] # block[s] => t # s /\ SlotSector(t) # lba
    BY <2>3 DEF lba
  <2>5. \/ failed' = failed /\ \A t \in SlotIds \ {s} : g[t] = f[t]
        \/ failed' = failed + 1 /\ \A t \in SlotIds : block[t] # block[s] => g[t] = f[t]
    BY <1>7, <2>2, <2>4
  <2>6. Vol!Written(f, g, block, s, x)
    BY <2>1, <2>3, <2>5 DEF Vol!Written
  <2> QED BY <2>6 DEF f, g, block, SlotWritten
<1> QED BY <1>6, <1>10, <1>11

\* The write of create puts one entry of Volume and keeps the invariant.
LEMMA StepPut ==
  ASSUME IInv, NEW s \in SlotIds, NEW n \in TypedNames, NEW c \in Cells, WriteEntry(s, n, c)
  PROVE  IInv' /\ Vol!Put(s, make_short_name(Typed(n)), c)
<1> DEFINE m == make_short_name(Typed(n))
           x == [kind |-> "file", name |-> m, clus |-> c, size |-> 0]
<1>1. m \in [1 .. 11 -> Bytes] /\ m[1] # 0 /\ m[1] # 229
  BY NewName
<1>2. c \in Nat /\ c <= EOC
  <2>1. c \in Nat /\ c < EOC
    BY GeometryAssumption
  <2> QED BY <2>1 DEF EOC
<1>3. fs = Geometry
  BY DEF IInv, TypeOK, WriteEntry
<1>4. /\ Rewrite(found_lba(s), found_off(s), ent(m, c)) /\ Author(s, n)
      /\ EntryOf(s).kind \in {"end", "deleted"}
  BY DEF WriteEntry
<1>5. n \in TypedNames \cup {NoName}
  OBVIOUS
<1> HIDE DEF m
<1>6. ent(m, c) \in EntryBytes
  <2>1. ent(m, c) \in [1 .. 32 -> Bytes] /\ 32 \in 1 .. 32
    BY <1>1, <1>2, EntType
  <2> QED BY <2>1 DEF EntryBytes
<1>7. ASSUME NEW b \in Blocks, NEW o \in Nat, o + 32 <= 512
      PROVE  EntryAt(memcpy(b, o, ent(m, c)), o) = x /\ NameAt(memcpy(b, o, ent(m, c)), o) = m
  BY <1>1, <1>2, <1>7, EntryWritten
<1> HIDE DEF x
<1>8. LeavesEntry(ent(m, c), x) /\ LeavesName(ent(m, c), n)
  BY <1>7 DEF m, LeavesEntry, LeavesName
<1>9. /\ IInv'
      /\ SlotWritten(s, x)
      /\ \A e \in Cells : disk'[FatSector(e)] = disk[FatSector(e)]
  BY <1>3, <1>4, <1>5, <1>6, <1>8, StepSlot
<1>10. EntryAt(disk[SlotSector(s)], s[2] % SECTOR_SIZE) \in {[kind |-> "end"], [kind |-> "deleted"]}
  <2>1. EntryOf(s) = EntryAt(disk[SlotSector(s)], s[2] % SECTOR_SIZE)
    BY <1>3, Places DEF EntryOf
  <2>2. EntryAt(disk[SlotSector(s)], s[2] % SECTOR_SIZE).kind \in {"end", "deleted"}
    BY <1>4, <2>1
  <2> QED BY <2>2 DEF EntryAt
<1>11. Vol!Put(s, m, c)
  BY <1>9, <1>10 DEF SlotWritten, Vol!Put, Vol!Free, Vol!Deleted, Vol!Entry, x
<1> QED BY <1>9, <1>11 DEF m

\* The write of delete erases one entry of Volume and keeps the invariant.
LEMMA StepErase ==
  ASSUME IInv, NEW s \in SlotIds, EraseEntry(s)
  PROVE  IInv' /\ Vol!Erase(s)
<1> DEFINE x == [kind |-> "deleted"]
<1>1. fs = Geometry
  BY DEF IInv, TypeOK, EraseEntry
<1>2. /\ Rewrite(found_lba(s), found_off(s), <<229>>) /\ Author(s, NoName)
      /\ EntryOf(s).kind = "file"
  BY DEF EraseEntry
<1>3. <<229>> \in EntryBytes /\ NoName \in TypedNames \cup {NoName}
  <2>1. <<229>> \in [1 .. 1 -> Bytes] /\ 1 \in 1 .. 32
    BY DEF Bytes
  <2> QED BY <2>1 DEF EntryBytes
<1>4. LeavesEntry(<<229>>, x)
  BY EntryErased DEF LeavesEntry
<1> HIDE DEF x
<1>5. LeavesName(<<229>>, NoName)
  BY DEF LeavesName
<1>6. /\ IInv'
      /\ SlotWritten(s, x)
      /\ \A e \in Cells : disk'[FatSector(e)] = disk[FatSector(e)]
  BY <1>1, <1>2, <1>3, <1>4, <1>5, StepSlot
<1>7. EntryAt(disk[SlotSector(s)], s[2] % SECTOR_SIZE).kind = "file"
  BY <1>1, <1>2, Places DEF EntryOf
<1>8. Vol!Erase(s)
  BY <1>6, <1>7 DEF SlotWritten, Vol!Erase, Vol!Deleted, x
<1> QED BY <1>6, <1>8

\* fat32_init changes nothing that Volume knows of.
LEMMA StepMount ==
  ASSUME IInv, fat32_init
  PROVE  IInv' /\ disk' = disk /\ failed' = failed
<1>1. Bpb(disk[0]) = Geometry
  BY BpbIs DEF IInv
<1>2. fs' = Geometry /\ disk' = disk /\ typed' = typed /\ writes' = writes /\ failed' = failed
  BY <1>1 DEF fat32_init
<1> QED BY <1>2 DEF IInv, TypeOK, Remembered, SlotName

-----------------------------------------------------------------------------
(* The theorems.                                                           *)

\* The invariant holds of every volume the driver starts from.
LEMMA Initial == Init => IInv
<1> SUFFICES ASSUME Init PROVE IInv
  OBVIOUS
<1>1. disk \in [Sectors -> Blocks] /\ Describes(disk[0], Geometry)
  BY DisksAssumption DEF Init
<1>2. typed = [s \in SlotIds |-> NoName] /\ fs = Unmounted /\ writes = 0 /\ failed = 0
  BY DEF Init
<1>3. 0 \in 0 .. MaxWrites /\ 0 \in 0 .. MaxFailed
  BY BoundsAssumption
<1> QED BY <1>1, <1>2, <1>3 DEF IInv, TypeOK, Remembered

\* Every step keeps the invariant and is one of Volume's, or none.
LEMMA Step == IInv /\ [Next]_vars => IInv' /\ [Vol!Next]_(Vol!vars)
<1> SUFFICES ASSUME IInv, [Next]_vars PROVE IInv' /\ [Vol!Next]_(Vol!vars)
  OBVIOUS
<1>1. CASE fat32_init
  BY <1>1, StepMount DEF Vol!vars
<1>2. CASE \E c \in Cells, v \in {0, EOC} : write_fat_entry(c, v)
  BY <1>2, StepLink DEF Vol!Next
<1>3. CASE \E s \in SlotIds, n \in TypedNames, c \in Cells : WriteEntry(s, n, c)
  BY <1>3, StepPut DEF Vol!Next
<1>4. CASE \E s \in SlotIds : EraseEntry(s)
  BY <1>4, StepErase DEF Vol!Next
<1>5. CASE UNCHANGED vars
  BY <1>5 DEF vars, IInv, TypeOK, Remembered, SlotName, Vol!vars
<1> QED BY <1>1, <1>2, <1>3, <1>4, <1>5 DEF Next

\* The invariant holds always.
LEMMA Invariant == Spec => []IInv
BY Initial, Step, PTL DEF Spec

\* Whatever the geometry and the disk: the driver's record of the volume is that
\* of the boot sector, and every sector stays a sector (fat32_init, Rewrite).
THEOREM TypeCorrect == Spec => []TypeOK
<1>1. IInv => TypeOK
  BY DEF IInv
<1> QED BY <1>1, Invariant, PTL

\* Whatever the geometry, the sectors and the names: the bytes that are written
\* change one FAT entry or one directory slot, into what was to be written, and
\* a failed read changes no more than the sector it was for.
THEOREM Implements == Spec => ImplementsVolume
<1>1. Init => Vol!Init
  BY DEF Init, Vol!Init
<1> QED BY <1>1, Step, Invariant, PTL DEF Spec, ImplementsVolume, Vol!Spec

\* Whatever is created, erased and written in whatever order: a file made by a
\* name without a space answers to the name `dir` prints for it
\* (make_short_name, make_display_name, fat32_lookup's memcmp).
THEOREM ListedAlwaysFound == Spec => []ListedIsFound
<1>1. ASSUME IInv PROVE ListedIsFound
  <2> SUFFICES ASSUME NEW s \in SlotIds, typed[s] # NoName,
                      \A k \in DOMAIN typed[s] : typed[s][k] # Space
               PROVE  Answers(s, make_display_name(SlotName(s)))
    BY DEF ListedIsFound
  <2> DEFINE n == typed[s]
             t == Typed(n)
             x == make_short_name(t)
  <2>1. n \in Seq(1 .. 127)
    BY <1>1, NamesAssumption DEF IInv, TypeOK
  <2>2. Len(n) \in Nat /\ DOMAIN n = 1 .. Len(n)
    BY <2>1, LenProperties
  <2>3. IsString(t, Len(n) + 1) /\ \A k \in 1 .. Len(n) : t[k] = n[k]
    BY <2>1, TypedIs
  <2>4. \A k \in 1 .. (Len(n) + 1) - 1 : t[k] # Space
    <3>1. (Len(n) + 1) - 1 = Len(n)
      BY <2>2
    <3> QED BY <2>2, <2>3, <3>1
  <2>5. make_short_name(make_display_name(x)) = x
    BY <2>3, <2>4, RoundTrip
  <2>6. SlotName(s) = x
    BY <1>1 DEF IInv, Remembered
  <2> HIDE DEF x
  <2>7. memcmp(x, x, NameLen) = 0
    BY DEF memcmp
  <2> QED BY <2>5, <2>6, <2>7 DEF Answers
<1> QED BY <1>1, Invariant, PTL

-----------------------------------------------------------------------------
(* Which names are one on the disk.                                        *)

\* A set of natural numbers has a least one, a bounded one a greatest.
LEMMA LeastOf ==
  ASSUME NEW S \in SUBSET Nat, S # {}
  PROVE  \E k \in S : \A y \in S : k <= y
<1>1. PICK k \in S : \A y \in S : <<y, k>> \notin OpToRel(<, Nat)
  BY WFMin, NatLessThanWellFounded
<1>2. \A y \in S : ~(y < k)
  BY <1>1 DEF OpToRel
<1> QED BY <1>2

\* A set of numbers up to n that is not empty has a greatest.
LEMMA GreatestOf ==
  ASSUME NEW n \in Nat, NEW S \in SUBSET (1 .. n), S # {}
  PROVE  \E k \in S : \A y \in S : y <= k
<1> DEFINE R == {n - y : y \in S}
<1>1. R \in SUBSET Nat /\ R # {}
  <2>1. \A y \in S : n - y \in Nat
    OBVIOUS
  <2>2. PICK y \in S : TRUE
    OBVIOUS
  <2>3. n - y \in R
    BY <2>2
  <2> QED BY <2>1, <2>3
<1> HIDE DEF R
<1>2. PICK r \in R : \A x \in R : r <= x
  BY <1>1, LeastOf
<1>3. PICK k \in S : r = n - k
  BY <1>2 DEF R
<1>4. \A y \in S : n - k <= n - y
  BY <1>2, <1>3 DEF R
<1>5. \A y \in S : y <= k
  BY <1>4
<1> QED BY <1>5

\* The comparison of two names finds a difference if there is one.
LEMMA CompareIs ==
  ASSUME NEW a \in [1 .. 11 -> Nat], NEW b \in [1 .. 11 -> Nat]
  PROVE  memcmp(a, b, NameLen) = 0 <=> \A i \in 1 .. 11 : a[i] = b[i]
<1> DEFINE D == {k \in 1 .. 11 : a[k] # b[k]}
           f == CHOOSE k \in D : \A j \in D : k <= j
<1>1. memcmp(a, b, NameLen) = IF D = {} THEN 0 ELSE a[f] - b[f]
  BY DEF memcmp, NameLen, BaseLen, ExtLen
<1>2. CASE D = {}
  BY <1>1, <1>2
<1>3. CASE D # {}
  <2>1. D \in SUBSET Nat
    OBVIOUS
  <2>2. \E k \in D : \A j \in D : k <= j
    BY <1>3, <2>1, LeastOf
  <2>3. f \in D
    BY <2>2
  <2> HIDE DEF f
  <2>4. a[f] # b[f] /\ a[f] \in Nat /\ b[f] \in Nat /\ f \in 1 .. 11
    BY <2>3
  <2>5. a[f] - b[f] # 0
    BY <2>4
  <2> QED BY <1>1, <1>3, <2>4, <2>5
<1> QED BY <1>2, <1>3

Codes == 1 .. 127

\* What is left of a sequence without the spaces it ends with.
LEMMA TrimmedIs ==
  ASSUME NEW s \in Seq(Codes)
  PROVE  \E k \in 0 .. Len(s) :
           /\ Trimmed(s) \in Seq(Codes) /\ Len(Trimmed(s)) = k
           /\ \A i \in 1 .. k : Trimmed(s)[i] = s[i]
           /\ k > 0 => s[k] # Space
           /\ \A j \in k + 1 .. Len(s) : s[j] = Space
<1> DEFINE kept == {k \in DOMAIN s : s[k] # Space}
           last == IF kept = {} THEN 0 ELSE CHOOSE k \in kept : \A j \in kept : j <= k
           n == Len(s)
<1>1. n \in Nat /\ DOMAIN s = 1 .. n
  BY LenProperties
<1>2. /\ last \in 0 .. n
      /\ last > 0 => s[last] # Space
      /\ \A j \in last + 1 .. n : s[j] = Space
  <2>1. CASE kept = {}
    BY <1>1, <2>1
  <2>2. CASE kept # {}
    <3>1. kept \in SUBSET (1 .. n)
      BY <1>1
    <3> HIDE DEF kept, n
    <3>2. \E k \in kept : \A j \in kept : j <= k
      BY <1>1, <2>2, <3>1, GreatestOf
    <3>3. last \in kept /\ \A j \in kept : j <= last
      BY <2>2, <3>2
    <3> HIDE DEF last
    <3>4. last \in 1 .. n /\ s[last] # Space
      BY <3>1, <3>3 DEF kept
    <3>5. \A j \in last + 1 .. n : s[j] = Space
      <4> SUFFICES ASSUME NEW j \in last + 1 .. n, s[j] # Space PROVE FALSE
        OBVIOUS
      <4>1. j \in 1 .. n /\ ~(j <= last)
        BY <1>1, <3>4
      <4>2. j \in kept
        BY <1>1, <4>1 DEF kept
      <4> QED BY <3>3, <4>1, <4>2
    <3> QED BY <1>1, <3>4, <3>5
  <2> QED BY <2>1, <2>2
<1>3. Trimmed(s) = SubSeq(s, 1, last)
  BY DEF Trimmed
<1> HIDE DEF last, kept
<1>4. \A i \in 1 .. last : s[i] \in Codes
  <2>1. \A i \in 1 .. n : s[i] \in Codes
    BY ElementOfSeq
  <2> QED BY <1>1, <1>2, <2>1
<1>5. /\ Trimmed(s) \in Seq(Codes) /\ Len(Trimmed(s)) = last
      /\ \A i \in 1 .. last : Trimmed(s)[i] = s[i]
  <2>1. last \in Int /\ 1 \in Int
    BY <1>1, <1>2
  <2>2. /\ SubSeq(s, 1, last) \in Seq(Codes)
        /\ Len(SubSeq(s, 1, last)) = IF 1 <= last THEN last - 1 + 1 ELSE 0
        /\ \A i \in 1 .. last - 1 + 1 : SubSeq(s, 1, last)[i] = s[1 + i - 1]
    BY <1>4, <2>1, SubSeqProperties
  <2>3. last - 1 + 1 = last /\ (\A i \in 1 .. last : 1 + i - 1 = i) /\ (~(1 <= last) => last = 0)
    BY <1>1, <1>2
  <2> QED BY <1>3, <2>2, <2>3
<1> QED BY <1>2, <1>5

\* A part of a name as a directory entry has it, character by character.
Padded(u, i) == IF i <= Len(u) THEN toupper_ascii(u[i]) ELSE Space

\* A part in capitals, cut to w characters.
LEMMA CutIs ==
  ASSUME NEW u \in Seq(Codes), NEW w \in Nat
  PROVE  LET s == Upper(Prefix(u, w))
         IN  /\ s \in Seq(Codes) /\ Len(s) \in 0 .. w
             /\ \A i \in 1 .. Len(s) : s[i] = Padded(u, i)
             /\ \A i \in Len(s) + 1 .. w : Padded(u, i) = Space
<1> DEFINE m == IF Len(u) < w THEN Len(u) ELSE w
           r == Prefix(u, w)
           s == Upper(r)
<1>1. Len(u) \in Nat /\ \A i \in 1 .. Len(u) : u[i] \in Codes
  BY LenProperties, ElementOfSeq
<1>2. m \in 0 .. w /\ m <= Len(u) /\ (m < w => m = Len(u))
  BY <1>1
<1>3. r = SubSeq(u, 1, m)
  BY DEF Prefix
<1> HIDE DEF m, r
<1>4. r \in Seq(Codes) /\ Len(r) = m /\ \A i \in 1 .. m : r[i] = u[i]
  <2>1. m \in Int /\ 1 \in Int /\ \A i \in 1 .. m : u[i] \in Codes
    BY <1>1, <1>2
  <2>2. /\ SubSeq(u, 1, m) \in Seq(Codes)
        /\ Len(SubSeq(u, 1, m)) = IF 1 <= m THEN m - 1 + 1 ELSE 0
        /\ \A i \in 1 .. m - 1 + 1 : SubSeq(u, 1, m)[i] = u[1 + i - 1]
    BY <2>1, SubSeqProperties
  <2>3. m - 1 + 1 = m /\ (\A i \in 1 .. m : 1 + i - 1 = i) /\ (~(1 <= m) => m = 0)
    BY <1>2
  <2> QED BY <1>3, <2>2, <2>3
<1>5. DOMAIN r = 1 .. m
  BY <1>4, LenProperties
<1>6. s = [i \in 1 .. m |-> toupper_ascii(r[i])]
  BY <1>5 DEF Upper
<1>7. \A i \in 1 .. m : toupper_ascii(r[i]) \in Codes
  <2> SUFFICES ASSUME NEW i \in 1 .. m PROVE toupper_ascii(r[i]) \in Codes
    OBVIOUS
  <2>1. r[i] \in 1 .. 127
    <3>1. i \in 1 .. Len(u)
      BY <1>1, <1>2
    <3>2. u[i] \in Codes /\ r[i] = u[i]
      BY <1>1, <1>4, <3>1
    <3> QED BY <3>2 DEF Codes
  <2> QED BY <2>1, UpperIs DEF Codes
<1> HIDE DEF s
<1>8. s \in Seq(Codes) /\ Len(s) = m /\ \A i \in 1 .. m : s[i] = toupper_ascii(r[i])
  <2>1. m \in Nat
    BY <1>2
  <2> QED BY <1>6, <1>7, <2>1
<1>9. \A i \in 1 .. m : s[i] = Padded(u, i)
  BY <1>1, <1>2, <1>4, <1>8 DEF Padded
<1>10. \A i \in m + 1 .. w : Padded(u, i) = Space
  BY <1>1, <1>2 DEF Padded
<1> QED BY <1>2, <1>8, <1>9, <1>10 DEF s, r

\* Two sequences that are filled up with spaces alike differ in spaces only.
LEMMA TrimmedEqual ==
  ASSUME NEW w \in Nat, NEW s \in Seq(Codes), NEW t \in Seq(Codes), Len(s) <= w, Len(t) <= w
  PROVE  Trimmed(s) = Trimmed(t) <=>
           \A i \in 1 .. w : (IF i <= Len(s) THEN s[i] ELSE Space)
                               = (IF i <= Len(t) THEN t[i] ELSE Space)
<1> DEFINE a == Trimmed(s)
           b == Trimmed(t)
           S(i) == IF i <= Len(s) THEN s[i] ELSE Space
           T(i) == IF i <= Len(t) THEN t[i] ELSE Space
<1>1. PICK k \in 0 .. Len(s) :
        /\ a \in Seq(Codes) /\ Len(a) = k /\ (\A i \in 1 .. k : a[i] = s[i])
        /\ (k > 0 => s[k] # Space) /\ (\A j \in k + 1 .. Len(s) : s[j] = Space)
  BY TrimmedIs
<1>2. PICK l \in 0 .. Len(t) :
        /\ b \in Seq(Codes) /\ Len(b) = l /\ (\A i \in 1 .. l : b[i] = t[i])
        /\ (l > 0 => t[l] # Space) /\ (\A j \in l + 1 .. Len(t) : t[j] = Space)
  BY TrimmedIs
<1>3. Len(s) \in Nat /\ Len(t) \in Nat
  BY LenProperties
<1>4. k \in 0 .. w /\ l \in 0 .. w
  BY <1>1, <1>2, <1>3
<1> HIDE DEF a, b
<1>5. /\ \A i \in 1 .. k : S(i) = s[i]
      /\ k > 0 => S(k) # Space
      /\ \A i \in k + 1 .. w : S(i) = Space
  <2>1. \A i \in 1 .. k : i <= Len(s)
    BY <1>1, <1>3
  <2>2. k > 0 => k \in 1 .. k
    BY <1>4
  <2>3. \A i \in k + 1 .. w : i <= Len(s) => i \in k + 1 .. Len(s)
    BY <1>1, <1>3
  <2> QED BY <1>1, <2>1, <2>2, <2>3
<1>6. /\ \A i \in 1 .. l : T(i) = t[i]
      /\ l > 0 => T(l) # Space
      /\ \A i \in l + 1 .. w : T(i) = Space
  <2>1. \A i \in 1 .. l : i <= Len(t)
    BY <1>2, <1>3
  <2>2. l > 0 => l \in 1 .. l
    BY <1>4
  <2>3. \A i \in l + 1 .. w : i <= Len(t) => i \in l + 1 .. Len(t)
    BY <1>2, <1>3
  <2> QED BY <1>2, <2>1, <2>2, <2>3
<1> HIDE DEF S, T
<1>7. ASSUME a = b PROVE \A i \in 1 .. w : S(i) = T(i)
  <2>1. k = l
    BY <1>1, <1>2, <1>7
  <2> SUFFICES ASSUME NEW i \in 1 .. w PROVE S(i) = T(i)
    OBVIOUS
  <2>2. i \in 1 .. k \/ i \in k + 1 .. w
    BY <1>4
  <2>3. CASE i \in 1 .. k
    BY <1>1, <1>2, <1>5, <1>6, <1>7, <2>1, <2>3
  <2>4. CASE i \in k + 1 .. w
    BY <1>5, <1>6, <2>1, <2>4
  <2> QED BY <2>2, <2>3, <2>4
<1>8. ASSUME \A i \in 1 .. w : S(i) = T(i) PROVE a = b
  <2>1. k = l
    <3>1. CASE k < l
      <4>1. l > 0 /\ l \in 1 .. w /\ l \in k + 1 .. w
        BY <1>4, <3>1
      <4> QED BY <1>5, <1>6, <1>8, <4>1
    <3>2. CASE l < k
      <4>1. k > 0 /\ k \in 1 .. w /\ k \in l + 1 .. w
        BY <1>4, <3>2
      <4> QED BY <1>5, <1>6, <1>8, <4>1
    <3> QED BY <1>4, <3>1, <3>2
  <2>2. \A i \in 1 .. k : i \in 1 .. w
    BY <1>4
  <2>3. \A i \in 1 .. k : a[i] = b[i]
    BY <1>1, <1>2, <1>5, <1>6, <1>8, <2>1, <2>2
  <2> QED BY <1>1, <1>2, <2>1, <2>3, SeqEqual
<1> QED BY <1>7, <1>8 DEF a, b, S, T

\* Two parts of names are one in a directory entry if they are folded alike.
LEMMA PartEqual ==
  ASSUME NEW w \in Nat, NEW u \in Seq(Codes), NEW v \in Seq(Codes)
  PROVE  Trimmed(Upper(Prefix(u, w))) = Trimmed(Upper(Prefix(v, w)))
           <=> \A i \in 1 .. w : Padded(u, i) = Padded(v, i)
<1> DEFINE s == Upper(Prefix(u, w))
           t == Upper(Prefix(v, w))
<1>1. /\ s \in Seq(Codes) /\ Len(s) \in 0 .. w
      /\ \A i \in 1 .. Len(s) : s[i] = Padded(u, i)
      /\ \A i \in Len(s) + 1 .. w : Padded(u, i) = Space
  BY CutIs
<1>2. /\ t \in Seq(Codes) /\ Len(t) \in 0 .. w
      /\ \A i \in 1 .. Len(t) : t[i] = Padded(v, i)
      /\ \A i \in Len(t) + 1 .. w : Padded(v, i) = Space
  BY CutIs
<1> HIDE DEF s, t
<1>3. Len(s) <= w /\ Len(t) <= w
  BY <1>1, <1>2
<1>4. Trimmed(s) = Trimmed(t) <=>
        \A i \in 1 .. w : (IF i <= Len(s) THEN s[i] ELSE Space) = (IF i <= Len(t) THEN t[i] ELSE Space)
  BY <1>1, <1>2, <1>3, TrimmedEqual
<1>5. \A i \in 1 .. w : Padded(u, i) = IF i <= Len(s) THEN s[i] ELSE Space
  <2>1. \A i \in 1 .. w : (i <= Len(s) => i \in 1 .. Len(s)) /\ (~(i <= Len(s)) => i \in Len(s) + 1 .. w)
    BY <1>1
  <2> QED BY <1>1, <2>1, Zenon
<1>6. \A i \in 1 .. w : Padded(v, i) = IF i <= Len(t) THEN t[i] ELSE Space
  <2>1. \A i \in 1 .. w : (i <= Len(t) => i \in 1 .. Len(t)) /\ (~(i <= Len(t)) => i \in Len(t) + 1 .. w)
    BY <1>2
  <2> QED BY <1>2, <2>1, Zenon
<1> QED BY <1>4, <1>5, <1>6, Zenon DEF s, t

\* A name on the disk is its folded base and its folded extension.
LEMMA PartsIs ==
  ASSUME NEW n \in Seq(Codes)
  PROVE  LET x == make_short_name(Typed(n))
         IN  /\ BaseOf(n) \in Seq(Codes) /\ ExtOf(n) \in Seq(Codes)
             /\ x \in [1 .. 11 -> Codes]
             /\ \A i \in 1 .. 8 : x[i] = Padded(BaseOf(n), i)
             /\ \A i \in 1 .. 3 : x[8 + i] = Padded(ExtOf(n), i)
<1> DEFINE t == Typed(n)
           z == Len(n) + 1
           x == make_short_name(t)
<1>1. /\ IsString(t, z) /\ (\A k \in 1 .. Len(n) : t[k] = n[k])
      /\ Len(n) \in Nat /\ DOMAIN n = 1 .. Len(n)
  BY TypedIs, LenProperties DEF Codes
<1> HIDE DEF t, z
<1>2. PICK p \in Nat, q \in Nat :
        /\ p <= z - 1 /\ \A j \in 1 .. p : t[j] # Dot
        /\ \/ p = z - 1 /\ q = 0
           \/ p + 1 <= z - 1 /\ t[p + 1] = Dot /\ q = z - 1 - (p + 1)
        /\ make_short_name(t) \in [1 .. 11 -> 1 .. 127]
        /\ \A i \in 1 .. 8 :
             make_short_name(t)[i] = IF i <= p THEN toupper_ascii(t[i]) ELSE Space
        /\ \A i \in 1 .. 3 :
             make_short_name(t)[8 + i] = IF i <= q THEN toupper_ascii(t[p + 1 + i]) ELSE Space
  BY <1>1, ShortIs
<1>3. z - 1 = Len(n)
  BY <1>1 DEF z
<1>4. x \in [1 .. 11 -> Codes]
  BY <1>2 DEF Codes
<1> HIDE DEF x
<1>5. \A j \in 1 .. p : j \in 1 .. Len(n) /\ n[j] # Dot
  <2>1. p <= Len(n) /\ \A j \in 1 .. p : t[j] # Dot
    BY <1>2, <1>3
  <2>2. \A j \in 1 .. p : j \in 1 .. Len(n)
    BY <1>1, <2>1
  <2> QED BY <1>1, <2>1, <2>2, Zenon
<1>6. \A i \in 1 .. Len(n) : n[i] \in Codes
  BY ElementOfSeq
<1>7. CASE p = Len(n) /\ q = 0
  <2>1. Dots(n) = {}
    BY <1>1, <1>5, <1>7 DEF Dots
  <2>2. BaseOf(n) = n /\ ExtOf(n) = <<>>
    BY <2>1 DEF BaseOf, ExtOf
  <2>3. ExtOf(n) \in Seq(Codes) /\ Len(ExtOf(n)) = 0
    BY <2>2, EmptySeq
  <2>4. \A i \in 1 .. 8 : x[i] = Padded(BaseOf(n), i)
    <3> SUFFICES ASSUME NEW i \in 1 .. 8 PROVE x[i] = Padded(n, i)
      BY <2>2
    <3>1. i <= p => t[i] = n[i]
      BY <1>1, <1>7
    <3>2. x[i] = IF i <= p THEN toupper_ascii(t[i]) ELSE Space
      BY <1>2 DEF x
    <3> QED BY <1>7, <3>1, <3>2, Zenon DEF Padded
  <2>5. \A i \in 1 .. 3 : x[8 + i] = Padded(ExtOf(n), i)
    <3> SUFFICES ASSUME NEW i \in 1 .. 3 PROVE x[8 + i] = Padded(ExtOf(n), i)
      OBVIOUS
    <3>1. ~(i <= 0)
      OBVIOUS
    <3>2. x[8 + i] = IF i <= q THEN toupper_ascii(t[p + 1 + i]) ELSE Space
      BY <1>2 DEF x
    <3> QED BY <1>7, <2>3, <3>1, <3>2, Zenon DEF Padded
  <2> QED BY <1>4, <2>2, <2>3, <2>4, <2>5 DEF x, t
<1>8. CASE p + 1 <= Len(n) /\ t[p + 1] = Dot /\ q = Len(n) - (p + 1)
  <2>1. p + 1 \in 1 .. Len(n) /\ n[p + 1] = Dot
    BY <1>1, <1>8
  <2>2. \A k \in Dots(n) : p + 1 <= k
    <3> SUFFICES ASSUME NEW k \in Dots(n), ~(p + 1 <= k) PROVE FALSE
      OBVIOUS
    <3>1. k \in 1 .. Len(n) /\ n[k] = Dot
      BY <1>1 DEF Dots
    <3>2. k \in 1 .. p
      BY <1>1, <3>1
    <3> QED BY <1>5, <3>1, <3>2
  <2>3. p + 1 \in Dots(n) /\ Dots(n) \subseteq Nat
    BY <1>1, <2>1 DEF Dots
  <2>4. FirstDot(n) = p + 1
    <3>1. \A k \in Dots(n) : (\A j \in Dots(n) : k <= j) => k = p + 1
      BY <2>2, <2>3
    <3>2. \E k \in Dots(n) : \A j \in Dots(n) : k <= j
      BY <2>2, <2>3
    <3>3. FirstDot(n) \in Dots(n) /\ \A j \in Dots(n) : FirstDot(n) <= j
      BY <3>2, Zenon DEF FirstDot
    <3> QED BY <3>1, <3>3
  <2>5. BaseOf(n) = SubSeq(n, 1, p) /\ ExtOf(n) = SubSeq(n, p + 2, Len(n))
    <3>1. (p + 1) - 1 = p /\ (p + 1) + 1 = p + 2
      OBVIOUS
    <3>2. Dots(n) # {}
      BY <2>3
    <3> QED BY <2>4, <3>1, <3>2 DEF BaseOf, ExtOf
  <2>6. /\ BaseOf(n) \in Seq(Codes) /\ Len(BaseOf(n)) = p
        /\ \A i \in 1 .. p : BaseOf(n)[i] = n[i]
    <3>1. 1 \in Int /\ p \in Int /\ \A i \in 1 .. p : n[i] \in Codes
      BY <1>5, <1>6
    <3>2. /\ SubSeq(n, 1, p) \in Seq(Codes)
          /\ Len(SubSeq(n, 1, p)) = IF 1 <= p THEN p - 1 + 1 ELSE 0
          /\ \A i \in 1 .. p - 1 + 1 : SubSeq(n, 1, p)[i] = n[1 + i - 1]
      BY <3>1, SubSeqProperties
    <3>3. p - 1 + 1 = p /\ (\A i \in 1 .. p : 1 + i - 1 = i) /\ (~(1 <= p) => p = 0)
      OBVIOUS
    <3> QED BY <2>5, <3>2, <3>3
  <2>7. /\ ExtOf(n) \in Seq(Codes) /\ Len(ExtOf(n)) = q
        /\ \A i \in 1 .. q : ExtOf(n)[i] = n[p + 1 + i]
    <3>1. p + 2 \in Int /\ Len(n) \in Int /\ \A i \in p + 2 .. Len(n) : n[i] \in Codes
      BY <1>1, <1>6
    <3>2. /\ SubSeq(n, p + 2, Len(n)) \in Seq(Codes)
          /\ Len(SubSeq(n, p + 2, Len(n))) = IF p + 2 <= Len(n) THEN Len(n) - (p + 2) + 1 ELSE 0
          /\ \A i \in 1 .. Len(n) - (p + 2) + 1 : SubSeq(n, p + 2, Len(n))[i] = n[(p + 2) + i - 1]
      BY <3>1, SubSeqProperties
    <3>3. Len(n) \in Nat /\ p \in Nat /\ q = Len(n) - (p + 1) /\ p + 1 <= Len(n)
      BY <1>1, <1>8
    <3>4. Len(n) - (p + 2) + 1 = q
      BY <3>3
    <3>5. ~(p + 2 <= Len(n)) => q = 0
      BY <3>3
    <3>6. \A i \in 1 .. q : (p + 2) + i - 1 = p + 1 + i
      BY <3>3
    <3> QED BY <2>5, <3>2, <3>4, <3>5, <3>6
  <2>8. \A i \in 1 .. 8 : x[i] = Padded(BaseOf(n), i)
    <3> SUFFICES ASSUME NEW i \in 1 .. 8 PROVE x[i] = Padded(BaseOf(n), i)
      OBVIOUS
    <3>1. i <= p => t[i] = n[i] /\ BaseOf(n)[i] = n[i]
      BY <1>1, <1>5, <2>6
    <3>2. x[i] = IF i <= p THEN toupper_ascii(t[i]) ELSE Space
      BY <1>2 DEF x
    <3> QED BY <2>6, <3>1, <3>2, Zenon DEF Padded
  <2>9. \A i \in 1 .. 3 : x[8 + i] = Padded(ExtOf(n), i)
    <3> SUFFICES ASSUME NEW i \in 1 .. 3 PROVE x[8 + i] = Padded(ExtOf(n), i)
      OBVIOUS
    <3>1. i <= q => t[p + 1 + i] = n[p + 1 + i] /\ ExtOf(n)[i] = n[p + 1 + i]
      BY <1>1, <1>8, <2>7
    <3>2. x[8 + i] = IF i <= q THEN toupper_ascii(t[p + 1 + i]) ELSE Space
      BY <1>2 DEF x
    <3> QED BY <2>7, <3>1, <3>2, Zenon DEF Padded
  <2> QED BY <1>4, <2>6, <2>7, <2>8, <2>9 DEF x, t
<1>9. \/ p = Len(n) /\ q = 0
      \/ p + 1 <= Len(n) /\ t[p + 1] = Dot /\ q = Len(n) - (p + 1)
  BY <1>2, <1>3
<1> QED BY <1>7, <1>8, <1>9

\* Two typed names are one on the disk exactly if they are folded alike.
LEMMA FoldIs ==
  ASSUME NEW n \in Seq(Codes), NEW m \in Seq(Codes)
  PROVE  (\A i \in 1 .. 11 : make_short_name(Typed(n))[i] = make_short_name(Typed(m))[i])
           <=> Fold(n) = Fold(m)
<1> DEFINE x == make_short_name(Typed(n))
           y == make_short_name(Typed(m))
<1>1. /\ BaseOf(n) \in Seq(Codes) /\ ExtOf(n) \in Seq(Codes)
      /\ \A i \in 1 .. 8 : x[i] = Padded(BaseOf(n), i)
      /\ \A i \in 1 .. 3 : x[8 + i] = Padded(ExtOf(n), i)
  BY PartsIs
<1>2. /\ BaseOf(m) \in Seq(Codes) /\ ExtOf(m) \in Seq(Codes)
      /\ \A i \in 1 .. 8 : y[i] = Padded(BaseOf(m), i)
      /\ \A i \in 1 .. 3 : y[8 + i] = Padded(ExtOf(m), i)
  BY PartsIs
<1> HIDE DEF x, y
<1>3. Trimmed(Upper(Prefix(BaseOf(n), 8))) = Trimmed(Upper(Prefix(BaseOf(m), 8)))
        <=> \A i \in 1 .. 8 : Padded(BaseOf(n), i) = Padded(BaseOf(m), i)
  BY <1>1, <1>2, PartEqual
<1>4. Trimmed(Upper(Prefix(ExtOf(n), 3))) = Trimmed(Upper(Prefix(ExtOf(m), 3)))
        <=> \A i \in 1 .. 3 : Padded(ExtOf(n), i) = Padded(ExtOf(m), i)
  BY <1>1, <1>2, PartEqual
<1>5. (\A i \in 1 .. 11 : x[i] = y[i])
        <=> (\A i \in 1 .. 8 : x[i] = y[i]) /\ (\A i \in 1 .. 3 : x[8 + i] = y[8 + i])
  <2>1. \A i \in 1 .. 11 : i \in 1 .. 8 \/ (i - 8 \in 1 .. 3 /\ 8 + (i - 8) = i)
    OBVIOUS
  <2>2. (\A i \in 1 .. 8 : i \in 1 .. 11) /\ (\A i \in 1 .. 3 : 8 + i \in 1 .. 11)
    OBVIOUS
  <2>3. ASSUME \A i \in 1 .. 8 : x[i] = y[i], \A i \in 1 .. 3 : x[8 + i] = y[8 + i],
               NEW i \in 1 .. 11
        PROVE  x[i] = y[i]
    BY <2>1, <2>3
  <2>4. ASSUME \A i \in 1 .. 11 : x[i] = y[i]
        PROVE  (\A i \in 1 .. 8 : x[i] = y[i]) /\ (\A i \in 1 .. 3 : x[8 + i] = y[8 + i])
    BY <2>2, <2>4, Zenon
  <2> QED BY <2>3, <2>4
<1>6. (\A i \in 1 .. 8 : x[i] = y[i]) <=> \A i \in 1 .. 8 : Padded(BaseOf(n), i) = Padded(BaseOf(m), i)
  BY <1>1, <1>2, Zenon
<1>7. (\A i \in 1 .. 3 : x[8 + i] = y[8 + i])
        <=> \A i \in 1 .. 3 : Padded(ExtOf(n), i) = Padded(ExtOf(m), i)
  BY <1>1, <1>2, Zenon
<1>8. Fold(n) = Fold(m) <=>
        /\ Trimmed(Upper(Prefix(BaseOf(n), 8))) = Trimmed(Upper(Prefix(BaseOf(m), 8)))
        /\ Trimmed(Upper(Prefix(ExtOf(n), 3))) = Trimmed(Upper(Prefix(ExtOf(m), 3)))
  BY DEF Fold, BaseLen, ExtLen
<1> QED BY <1>3, <1>4, <1>5, <1>6, <1>7, <1>8 DEF x, y

\* Whatever is created, erased and written in whatever order: fat32_lookup takes
\* a file for those names, and only those, that agree with the one it was made by
\* in the eight and three characters that are kept of a name, case aside.
THEOREM AlwaysAnswersToItsName == Spec => []AnswersToItsName
<1>1. ASSUME IInv PROVE AnswersToItsName
  <2> SUFFICES ASSUME NEW s \in SlotIds, NEW n \in TypedNames, typed[s] # NoName
               PROVE  Answers(s, Typed(n)) <=> Fold(n) = Fold(typed[s])
    BY DEF AnswersToItsName
  <2> DEFINE m == typed[s]
             x == make_short_name(Typed(m))
             y == make_short_name(Typed(n))
  <2>1. n \in Seq(Codes) /\ m \in Seq(Codes)
    BY <1>1, NamesAssumption DEF IInv, TypeOK, Codes
  <2>2. SlotName(s) = x
    BY <1>1 DEF IInv, Remembered
  <2>3. x \in [1 .. 11 -> Nat] /\ y \in [1 .. 11 -> Nat]
    <3>1. x \in [1 .. 11 -> Codes] /\ y \in [1 .. 11 -> Codes]
      BY <2>1, PartsIs
    <3>2. Codes \subseteq Nat
      BY DEF Codes
    <3> HIDE DEF x, y
    <3> QED BY <3>1, <3>2
  <2>4. Answers(s, Typed(n)) <=> \A i \in 1 .. 11 : x[i] = y[i]
    <3> HIDE DEF x, y
    <3> QED BY <2>2, <2>3, CompareIs DEF Answers, y
  <2>5. (\A i \in 1 .. 11 : x[i] = y[i]) <=> Fold(m) = Fold(n)
    BY <2>1, FoldIs
  <2> QED BY <2>4, <2>5
<1> QED BY <1>1, Invariant, PTL

=============================================================================
