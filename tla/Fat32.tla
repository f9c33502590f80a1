------------------------------- MODULE Fat32 -------------------------------
(***************************************************************************)
(* src/fs/fat32.c: the FAT32 driver over the root directory of a mounted   *)
(* volume, as the shell drives it: one call at a time, each call a         *)
(* sequence of sector reads and writes.  The reads of a call see a disk    *)
(* nobody else changes, so a step ends at a loop iteration or at a sector  *)
(* write: those are the points where the power may go and where a write    *)
(* may be refused.  Every caller in fat32.c drops the result of            *)
(* write_sectors and read_sectors.                                         *)
(*                                                                         *)
(* Abstracted: sectors become the FAT entries and 32-byte directory slots  *)
(* they hold, a name is the 11-byte short name, a size is counted in       *)
(* clusters.  Bounds: FatWords ends the search for a free entry (the code  *)
(* goes on to 0x0FFFFFF0, into the data area), MaxFaults counts power      *)
(* losses and refused writes.  Reads do not fail here.                     *)
(***************************************************************************)
EXTENDS Integers, Sequences, FiniteSets

CONSTANTS
  Names,        \* short names a directory slot can carry
  NoName,       \* no call is running
  RootChain,    \* clusters of the root directory; RootChain[1] = fs->root_cluster
  ClusterSlots, \* 32-byte slots in a cluster
  LastCluster,  \* the volume's data clusters are 2 .. LastCluster
  FatLen,       \* entries in one copy of the FAT: 128 * fs->fat_size
  FatWords,     \* entries in all copies, laid out one copy after the other
  FirstEOC,     \* the least end-of-chain mark, 0x0FFFFFF8
  EOC,          \* the one create writes, the greatest 28-bit value, 0x0FFFFFFF
  Images,       \* the volumes the kernel may boot from: records fat, dir
  FaultKinds,   \* what may go wrong: a subset of {"power", "write"}
  MaxFaults

VARIABLES
  fat,     \* disk: the FAT area, all copies
  dir,     \* disk: the root directory
  pc,      \* where the running call is
  op,      \* which call it is, or was
  name,    \* its short name
  cur,     \* directory cluster being scanned
  slot,    \* found_lba/found_off, elba/eoff
  c,       \* free_cluster; or the cluster the chain walk is at
  left,    \* bytes still to read, in clusters
  listed,  \* the slots fat32_dir_list has reported through its callback
  rc,      \* what the last call returned
  torn,    \* history: a write the disk's consistency needs was lost
  faults   \* history: how many faults have happened

disk == <<fat, dir>>
call == <<op, name>>
vars == <<fat, dir, pc, op, name, cur, slot, c, left, listed, rc, torn, faults>>

Words == 0 .. FatWords - 1
FatCells == 2 .. FatLen - 1
EndMarks == FirstEOC .. EOC
Offsets == 0 .. ClusterSlots - 1
RootClusters == {RootChain[k] : k \in 1 .. Len(RootChain)}
SlotIds == RootClusters \X Offsets

\* What the first byte and the attribute byte of a slot say of it: 0x00, 0xE5,
\* attribute 0x0F, or an entry (of a file, a directory or the volume: the
\* code does not tell them apart).
End == [kind |-> "end"]
Deleted == [kind |-> "deleted"]
LongName == [kind |-> "longname"]
Entries == [kind : {"file"}, name : Names, clus : Words, size : Nat]
Slots == {End, Deleted, LongName} \cup Entries
IsFile(s) == s.kind = "file"

Ops == {"create", "delete", "type", "dir"}
Phases == {"off", "idle", "scan", "alloc", "dirwrite", "mark", "erase", "free", "read"}
Running == Phases \ {"off", "idle"}

\* The loop condition of every chain walk.
InChain_PastMark(x) == x >= 2 /\ x <= FirstEOC
InChain(x) == x >= 2 /\ x < FirstEOC

\* read_fat_entry: the entry's low 28 bits, from whichever copy x falls in.
NextLink_Stuck(x) == fat[RootChain[1]]
NextLink_AfterClear(x) == IF pc = "free" THEN 0 ELSE fat[x]
NextLink(x) == fat[x]

-----------------------------------------------------------------------------
(* What makes a volume consistent.                                         *)

\* The value of an entry that links to another cluster.
IsLink(x) == x >= 2 /\ x < FirstEOC

\* Each root directory cluster links to the next, the last one ends the chain.
RootLinked(f) ==
  \A k \in 1 .. Len(RootChain) :
    IF k < Len(RootChain) THEN f[RootChain[k]] = RootChain[k + 1] ELSE f[RootChain[k]] \in EndMarks

\* A cluster has one owner: one directory entry or one FAT link; the root
\* directory's first cluster has none, it is named by the boot sector.
OneOwner(f, d) ==
  /\ \A s, t \in SlotIds :
       IsFile(d[s]) /\ IsFile(d[t]) /\ d[s].clus = d[t].clus /\ d[s].clus >= 2 => s = t
  /\ \A s \in SlotIds, y \in FatCells :
       IsFile(d[s]) /\ d[s].clus >= 2 => f[y] # d[s].clus
  /\ \A y, z \in FatCells : f[y] = f[z] /\ IsLink(f[y]) => y = z
  /\ \A s \in SlotIds : IsFile(d[s]) => d[s].clus # RootChain[1]
  /\ \A y \in FatCells : f[y] # RootChain[1]

\* No link, and no entry but those in except, leads to a cluster marked free.
NoDangling(f, d, except) ==
  /\ \A s \in SlotIds \ except : IsFile(d[s]) /\ d[s].clus >= 2 => f[d[s].clus] # 0
  /\ \A y \in FatCells : IsLink(f[y]) => f[f[y]] # 0

\* The links of the first FAT copy stay inside the volume, and neither an
\* entry nor a link of another file leads into the root directory.
LinksInVolume(f) == \A y \in FatCells : f[y] \in 0 .. LastCluster \cup EndMarks
RootPrivate(f, d) ==
  /\ \A s \in SlotIds : IsFile(d[s]) => d[s].clus \notin RootClusters
  /\ \A y \in FatCells \ RootClusters : f[y] \notin RootClusters

\* An entry may name a cluster past the first copy only if the search for a
\* free entry ran into the second one; what is there was never a link.
SpillPlain(f, d) ==
  \A s \in SlotIds : IsFile(d[s]) /\ d[s].clus >= FatLen => f[d[s].clus] \in {0} \cup EndMarks

ValidImage(im) ==
  /\ im.fat \in [Words -> Words \cup EndMarks]
  /\ im.dir \in [SlotIds -> Slots]
  /\ RootLinked(im.fat) /\ LinksInVolume(im.fat)
  /\ RootPrivate(im.fat, im.dir) /\ SpillPlain(im.fat, im.dir)
  /\ OneOwner(im.fat, im.dir) /\ NoDangling(im.fat, im.dir, {})

\* ClusterSlots is what dir_buf[16384] holds; on larger clusters every entry
\* point returns -3 before it touches the disk.
ASSUME GeometryAssumption ==
  /\ ClusterSlots \in 1 .. 512
  /\ LastCluster \in Nat /\ FatLen \in Nat /\ FatWords \in Nat
  /\ FirstEOC \in Nat /\ EOC \in Nat
  /\ 2 < LastCluster /\ LastCluster < FatLen /\ FatLen <= FatWords
  /\ FatWords <= FirstEOC /\ FirstEOC <= EOC
  /\ RootChain \in Seq(2 .. LastCluster) /\ Len(RootChain) >= 1
  /\ \A i, j \in 1 .. Len(RootChain) : RootChain[i] = RootChain[j] => i = j

ASSUME ImagesAssumption == \A im \in Images : ValidImage(im)
ASSUME NamesAssumption == NoName \notin Names
ASSUME FaultsAssumption == FaultKinds \subseteq {"power", "write"} /\ MaxFaults \in Nat

-----------------------------------------------------------------------------
(* Steps shared by the calls.                                              *)

NoSlot == <<RootChain[1], 0>>
Locals == /\ cur' = RootChain[1]
          /\ slot' = NoSlot
          /\ c' = 0
          /\ left' = 0

\* A call returns; its locals die.
Return(r) == pc' = "idle" /\ op' = "none" /\ name' = NoName /\ rc' = r /\ Locals

\* A refused sector write, whose status the caller drops.
Refused == "write" \in FaultKinds /\ faults < MaxFaults /\ faults' = faults + 1

\* The first offset of the directory buffer at which the scan leaves its loop.
FirstAt_NoBreak(o, S) == o \in S /\ \A p \in S : p <= o
FirstAt(o, S) == o \in S /\ \A p \in S : o <= p
HasKind(K) == {o \in Offsets : dir[<<cur, o>>].kind \in K}
Matches_AnyName == HasKind({"file"})
Matches == {o \in HasKind({"file"}) : dir[<<cur, o>>].name = name}
Reported(S) == {<<cur, o>> : o \in S \cap HasKind({"file"})}

LeavesAt == CASE op = "create" -> HasKind({"end", "deleted"})
              [] op = "dir"    -> HasKind({"end"})
              [] OTHER         -> HasKind({"end"}) \cup Matches

-----------------------------------------------------------------------------
(* The calls.                                                              *)

Call(o, n) ==
  /\ pc = "idle"
  /\ pc' = "scan" /\ op' = o /\ name' = n
  /\ listed' = {} /\ rc' = 0
  /\ UNCHANGED <<disk, cur, slot, c, left, torn, faults>>

\* The whole cluster is scanned without leaving the loop: on to the next
\* cluster of the root directory, or give up.
ScanNextCluster ==
  /\ pc = "scan" /\ LeavesAt = {}
  /\ listed' = listed \cup IF op = "dir" THEN Reported(Offsets) ELSE {}
  /\ IF InChain(NextLink(cur))
     THEN cur' = NextLink(cur) /\ UNCHANGED <<pc, call, rc, slot, c, left>>
     ELSE Return(CASE op = "create" -> -2 [] op = "dir" -> 0 [] OTHER -> -1)
  /\ UNCHANGED <<disk, torn, faults>>

\* The sector and the offset in it of the slot the scan stopped at, and the
\* first cluster its entry names.
FoundSlot_FirstCluster(o) == <<RootChain[1], o>>
FoundSlot_PastEntry(o) == <<cur, o + 1>>
FoundSlot(o) == <<cur, o>>
EntryCluster_Dir(s) == s[1]
EntryCluster(s) == dir[s].clus

\* create: a slot is free when its first byte is 0x00 or 0xE5.
ScanFreeSlot ==
  /\ pc = "scan" /\ op = "create"
  /\ \E o \in Offsets : FirstAt(o, LeavesAt) /\ slot' = FoundSlot(o)
  /\ pc' = "alloc"
  /\ UNCHANGED <<disk, call, cur, c, left, listed, rc, torn, faults>>

\* lookup, delete: the name is found before the end mark.
ScanMatch ==
  /\ pc = "scan" /\ op \in {"delete", "type"}
  /\ \E o \in Matches :
       /\ FirstAt(o, LeavesAt)
       /\ slot' = FoundSlot(o)
       /\ c' = EntryCluster(<<cur, o>>)
       /\ left' = dir[<<cur, o>>].size
  /\ pc' = IF op = "delete" THEN "erase" ELSE "read"
  /\ UNCHANGED <<disk, call, cur, listed, rc, torn, faults>>

\* lookup, delete, dir_list: a first byte of 0x00 ends the directory.
ScanEndMark ==
  /\ pc = "scan" /\ op # "create"
  /\ \E o \in HasKind({"end"}) :
       /\ FirstAt(o, LeavesAt)
       /\ listed' = listed \cup IF op = "dir" THEN Reported(0 .. o - 1) ELSE {}
  /\ Return(IF op = "dir" THEN 0 ELSE -1)
  /\ UNCHANGED <<disk, torn, faults>>

\* create: the first entry from 2 on that reads 0.  Nothing stops the search
\* at the end of the first copy.
IsFree_OffByOne(x) == x >= 3 /\ NextLink(x - 1) = 0
IsFree(x) == x >= 2 /\ NextLink(x) = 0

AllocCluster ==
  /\ pc = "alloc"
  /\ \E x \in Words : IsFree(x) /\ (\A y \in 2 .. x - 1 : ~IsFree(y)) /\ c' = x
  /\ pc' = "dirwrite"
  /\ UNCHANGED <<disk, call, cur, slot, left, listed, rc, torn, faults>>

\* An empty file that owns a cluster.
NewEntry == [kind |-> "file", name |-> name, clus |-> c, size |-> 0]

\* create writes the directory first ...
WriteEntry ==
  /\ pc = "dirwrite"
  /\ pc' = "mark"
  /\ \/ dir' = [dir EXCEPT ![slot] = NewEntry] /\ UNCHANGED faults
     \/ Refused /\ UNCHANGED dir
  /\ UNCHANGED <<fat, call, cur, slot, c, left, listed, rc, torn>>

\* ... and the FAT second; torn when only the first of the two is on disk.
HalfCreated == pc = "mark" /\ IsFile(dir[slot])

EndMark_Missing == 0
EndMark == EOC

MarkCluster ==
  /\ pc = "mark"
  /\ \/ fat' = [fat EXCEPT ![c] = EndMark] /\ UNCHANGED <<torn, faults>>
     \/ Refused /\ torn' = (torn \/ HalfCreated) /\ UNCHANGED fat
  /\ Return(0)
  /\ UNCHANGED <<dir, listed>>

\* delete writes 0xE5 over the name's first byte (nobody reads the rest) ...
EraseEntry ==
  /\ pc = "erase"
  /\ pc' = "free"
  /\ \/ dir' = [dir EXCEPT ![slot] = Deleted] /\ UNCHANGED <<torn, faults>>
     \/ Refused /\ torn' = TRUE /\ UNCHANGED dir
  /\ UNCHANGED <<fat, call, cur, slot, c, left, listed, rc>>

\* ... and then walks the chain, reading each link before it clears it.
FreeCluster ==
  /\ pc = "free" /\ InChain(c)
  /\ c' = NextLink(c)
  /\ \/ fat' = [fat EXCEPT ![c] = 0] /\ UNCHANGED <<torn, faults>>
     \/ Refused /\ torn' = TRUE /\ UNCHANGED fat
  /\ UNCHANGED <<dir, pc, call, cur, slot, left, listed, rc>>

FreeDone ==
  /\ pc = "free" /\ ~InChain(c)
  /\ Return(0)
  /\ UNCHANGED <<disk, listed, torn, faults>>

\* type: lookup, then read_file over the chain while bytes are left.
ReadCluster ==
  /\ pc = "read" /\ InChain(c) /\ left > 0
  /\ c' = NextLink(c) /\ left' = left - 1
  /\ UNCHANGED <<disk, pc, call, cur, slot, listed, rc, torn, faults>>

ReadDone ==
  /\ pc = "read" /\ ~(InChain(c) /\ left > 0)
  /\ Return(0)
  /\ UNCHANGED <<disk, listed, torn, faults>>

-----------------------------------------------------------------------------
(* The machine around the driver.                                          *)

\* The power goes in the middle of a call: what memory held is lost.
PowerLoss ==
  /\ pc \in Running /\ "power" \in FaultKinds /\ faults < MaxFaults
  /\ pc' = "off" /\ faults' = faults + 1 /\ rc' = 0 /\ listed' = {}
  /\ torn' = (torn \/ HalfCreated)
  /\ op' = "none" /\ name' = NoName /\ Locals
  /\ UNCHANGED disk

\* kmain, shell_run, fat32_init: the boot sector gives the same geometry.
Boot ==
  /\ pc = "off"
  /\ pc' = "idle"
  /\ UNCHANGED <<disk, call, cur, slot, c, left, listed, rc, torn, faults>>

Init ==
  /\ \E im \in Images : fat = im.fat /\ dir = im.dir
  /\ pc = "off"
  /\ op = "none" /\ name = NoName
  /\ cur = RootChain[1] /\ slot = NoSlot /\ c = 0 /\ left = 0
  /\ listed = {} /\ rc = 0 /\ torn = FALSE /\ faults = 0

Driver ==
  \/ ScanNextCluster \/ ScanFreeSlot \/ ScanMatch \/ ScanEndMark
  \/ AllocCluster \/ WriteEntry \/ MarkCluster
  \/ EraseEntry \/ FreeCluster \/ FreeDone
  \/ ReadCluster \/ ReadDone

Next ==
  \/ \E o \in Ops, n \in Names : Call(o, n)
  \/ Driver
  \/ PowerLoss
  \/ Boot

\* The kernel is single-threaded and its calls run to completion; the user
\* need not type another command, and the power need not come back.
Spec == Init /\ [][Next]_vars /\ WF_vars(Driver)

-----------------------------------------------------------------------------
(* Properties.                                                             *)

\* The types, and that the scan stays in the root directory and every chain
\* walk in the FAT area: what a walk takes for a link and reads next is an
\* entry, never a mark of 0x0FFFFFF8 and above (fat32.c:97, 123, 240).
TypeOK ==
  /\ fat \in [Words -> Words \cup EndMarks]
  /\ dir \in [SlotIds -> Slots]
  /\ pc \in Phases /\ op \in Ops \cup {"none"}
  /\ name \in Names \cup IF pc \in Running THEN {} ELSE {NoName}
  /\ cur \in RootClusters /\ slot \in SlotIds
  /\ c \in Words \cup EndMarks /\ (InChain(c) => c \in Words) /\ left \in Nat
  /\ listed \subseteq SlotIds
  /\ rc \in {0, -1, -2}
  /\ torn \in BOOLEAN /\ faults \in 0 .. MaxFaults

\* The root directory's own chain is never cut, re-linked or freed, whatever
\* power losses and refused writes have done to the files: a chain walk of
\* fat32_delete never strays into it, and fat32_create never allocates it.
RootIntact == RootLinked(fat)

\* As long as no write the disk needs was lost, no two owners share a cluster
\* and nothing in use is marked free (but for the one entry create has
\* written and not yet marked).  A power loss inside fat32_delete, or one
\* inside fat32_create before its directory write, does not count as lost.
ConsistentUnlessTorn ==
  ~torn => OneOwner(fat, dir) /\ NoDangling(fat, dir, IF pc = "mark" THEN {slot} ELSE {})

\* Without faults, every allocated entry of the first FAT copy is owned: what
\* delete unlinks it also frees.
NoLostCluster ==
  faults = 0 /\ pc = "idle" =>
    \A y \in FatCells : fat[y] # 0 =>
      \/ y = RootChain[1]
      \/ \E s \in SlotIds : IsFile(dir[s]) /\ dir[s].clus = y
      \/ \E z \in FatCells : fat[z] = y

\* A directory entry in use is only ever changed by the delete of its name,
\* into a deleted slot: create never overwrites one.
EntriesOnlyDeleted ==
  [][\A s \in SlotIds :
       IsFile(dir[s]) /\ dir'[s] # dir[s] =>
         op = "delete" /\ name = dir[s].name /\ dir'[s] = Deleted]_vars

\* fat32_dir_list reports every entry in use: create never leaves one behind
\* a 0x00 end mark, where no scan would find it.
DirListsAll ==
  [][op = "dir" /\ pc = "scan" /\ pc' = "idle" =>
       listed' = {s \in SlotIds : IsFile(dir[s])}]_vars

\* fat32_read_file returns 0 even when the chain ends before the size does;
\* on a volume that is not torn it never does.
TypeReadsWhole ==
  [][op = "type" /\ pc = "read" /\ pc' = "idle" /\ ~torn => left = 0]_vars

\* Every call returns, or the power goes first: no scan and no chain walk
\* runs for ever, on torn volumes either.
CallReturns == pc \in Running ~> pc \in {"idle", "off"}

\* The driver implements the bag of names of FileStore, whatever has torn the
\* volume: the write of the directory sector is where create and delete take
\* effect, and a call that says so without an effect has had it refused.
FilesNamed(n) == {s \in SlotIds : IsFile(dir[s]) /\ dir[s].name = n}

Store == INSTANCE FileStore WITH
  files <- [n \in Names |-> Cardinality(FilesNamed(n))],
  phase <- CASE pc \in {"off", "idle"} -> pc
             [] pc \in {"mark", "free"} -> "done"
             [] OTHER -> "open",
  ok <- rc = 0

ImplementsStore == Store!Spec

\* What fat32_create's comment says it allocates: a free cluster of the volume,
\* or else it fails with -4.
FilesInVolume == \A s \in SlotIds : IsFile(dir[s]) => dir[s].clus <= LastCluster

=============================================================================
