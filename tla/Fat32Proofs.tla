---------------------------- MODULE Fat32Proofs ----------------------------
(***************************************************************************)
(* Theorems about Fat32 for every geometry, every valid volume and every   *)
(* number of faults.                                                       *)
(*                                                                         *)
(* RootInv is inductive on its own: it says what keeps the chain walks of  *)
(* the driver out of the root directory's chain, on torn volumes too.      *)
(* FilesInv adds what the running call knows of its slot and cluster, and  *)
(* that gives the consistency of the volume.                               *)
(*                                                                         *)
(* The second half shows what fat32_create, fat32_delete, fat32_lookup and *)
(* fat32_dir_list do to the names of the root directory, on every volume   *)
(* on which no file is behind an end mark: they implement FileStore.  The  *)
(* scans have passed, in the order of the directory's chain, only slots    *)
(* they need not have stopped at.                                          *)
(***************************************************************************)
EXTENDS Fat32, FiniteSetTheorems, TLAPS

USE GeometryAssumption, FaultsAssumption, NamesAssumption

\* The cluster register never holds a cluster of the root directory, and past
\* the first FAT copy it only ever holds an entry that links nowhere.
RegisterSafe ==
  /\ c \notin RootClusters
  /\ c \in Words /\ c >= FatLen => fat[c] \in {0} \cup EndMarks
  /\ pc \in {"dirwrite", "mark"} => c \in Words

RootInv ==
  /\ TypeOK
  /\ RootIntact
  /\ LinksInVolume(fat) /\ RootPrivate(fat, dir) /\ SpillPlain(fat, dir)
  /\ RegisterSafe

\* What a call knows of the slot it found and of the cluster it holds.
SlotInv ==
  /\ pc \in {"alloc", "dirwrite"} => op = "create" /\ ~IsFile(dir[slot])
  /\ pc = "mark" /\ IsFile(dir[slot]) => dir[slot].clus = c
  /\ pc \in {"dirwrite", "mark"} => c >= 2 /\ fat[c] = 0
  /\ pc = "erase" =>
       op = "delete" /\ IsFile(dir[slot]) /\ dir[slot].clus = c /\ dir[slot].name = name

\* While delete walks a chain, the chain's head has no owner but the walk.
WalkOwnsHead ==
  pc = "free" /\ InChain(c) =>
    /\ fat[c] # 0
    /\ \A s \in SlotIds : IsFile(dir[s]) => dir[s].clus # c
    /\ \A y \in FatCells : fat[y] # c
    /\ c # RootChain[1]

FilesInv == SlotInv /\ (~torn => WalkOwnsHead) /\ ConsistentUnlessTorn

-----------------------------------------------------------------------------
(* The root directory's clusters.                                          *)

\* The clusters of the root directory are clusters of the volume.
LEMMA RootClustersInVolume ==
  /\ RootClusters \subseteq 2 .. LastCluster
  /\ RootChain[1] \in RootClusters
  /\ \A x \in RootClusters : \E k \in 1 .. Len(RootChain) : x = RootChain[k]
<1>1. \A k \in 1 .. Len(RootChain) : RootChain[k] \in 2 .. LastCluster
  OBVIOUS
<1>2. Len(RootChain) \in Nat /\ 1 \in 1 .. Len(RootChain)
  OBVIOUS
<1>. QED
  BY <1>1, <1>2 DEF RootClusters

\* As constants they are entries of the FAT, and their slots are slots.
LEMMA RootClustersAreWords ==
  /\ RootClusters \subseteq Words
  /\ NoSlot \in SlotIds
  /\ \A x \in RootClusters, o \in Offsets : <<x, o>> \in SlotIds
BY RootClustersInVolume DEF Words, NoSlot, SlotIds, Offsets

\* An end mark is no entry of the FAT, no cluster and no link.
LEMMA EndMarksApart ==
  /\ EOC \in EndMarks
  /\ \A v \in EndMarks :
       v \in Nat /\ v \notin Words /\ v \notin RootClusters /\ v # 0 /\ ~InChain(v)
  /\ \A v \in Words \cup EndMarks : InChain(v) => v \in Words
BY RootClustersInVolume DEF EndMarks, Words, InChain, IsLink

\* Reading the entry of a root cluster yields another root cluster or the end.
LEMMA RootStep ==
  ASSUME RootIntact, NEW x \in RootClusters, InChain(fat[x])
  PROVE  fat[x] \in RootClusters
<1>1. PICK k \in 1 .. Len(RootChain) : x = RootChain[k]
  BY RootClustersInVolume
<1>2. IF k < Len(RootChain) THEN fat[x] = RootChain[k + 1] ELSE fat[x] \in EndMarks
  BY <1>1 DEF RootIntact, RootLinked
<1>3. k < Len(RootChain)
  BY <1>2, EndMarksApart
<1>4. k + 1 \in 1 .. Len(RootChain)
  BY <1>3
<1>. QED
  BY <1>2, <1>3, <1>4 DEF RootClusters

\* An entry of the FAT that reads 0 is not the root directory's.
LEMMA RootNeverFree ==
  ASSUME RootIntact, NEW x \in Words, fat[x] = 0
  PROVE  x \notin RootClusters
<1>1. SUFFICES ASSUME x \in RootClusters PROVE FALSE
  OBVIOUS
<1>2. PICK k \in 1 .. Len(RootChain) : x = RootChain[k]
  BY <1>1, RootClustersInVolume
<1>3. IF k < Len(RootChain) THEN fat[x] = RootChain[k + 1] ELSE fat[x] \in EndMarks
  BY <1>2 DEF RootIntact, RootLinked
<1>4. k < Len(RootChain) => RootChain[k + 1] \in 2 .. LastCluster
  OBVIOUS
<1>. QED
  BY <1>3, <1>4, EndMarksApart

\* Following a link from outside the root directory stays outside it.
LEMMA LinkLeavesRootAlone ==
  ASSUME RootInv, InChain(c)
  PROVE  /\ c \in Words
         /\ fat[c] \in Words \cup EndMarks
         /\ fat[c] \notin RootClusters
         /\ fat[c] \in Words => fat[c] < FatLen
<1>1. c \in Words /\ fat[c] \in Words \cup EndMarks
  BY EndMarksApart DEF RootInv, TypeOK
<1>2. CASE c < FatLen
  <2>1. c \in FatCells \ RootClusters
    BY <1>1, <1>2 DEF RootInv, RegisterSafe, FatCells, InChain, IsLink, Words
  <2>2. fat[c] \notin RootClusters /\ fat[c] \in 0 .. LastCluster \cup EndMarks
    BY <2>1 DEF RootInv, RootPrivate, LinksInVolume
  <2>. QED
    BY <1>1, <2>2, EndMarksApart DEF Words
<1>3. CASE c >= FatLen
  <2>1. fat[c] \in {0} \cup EndMarks
    BY <1>1, <1>3 DEF RootInv, RegisterSafe
  <2>2. 0 \notin RootClusters /\ EndMarks \cap RootClusters = {}
    BY RootClustersInVolume, EndMarksApart
  <2>. QED
    BY <1>1, <2>1, <2>2, EndMarksApart DEF Words
<1>. QED
  BY <1>1, <1>2, <1>3 DEF Words

\* What a slot of the directory can name.
LEMMA EntryFields ==
  ASSUME TypeOK, NEW s \in SlotIds, IsFile(dir[s])
  PROVE  dir[s].clus \in Words /\ dir[s].size \in Nat /\ dir[s].name \in Names
<1>1. dir[s] \in Entries
  BY DEF TypeOK, Slots, IsFile, End, Deleted, LongName
<1>. QED
  BY <1>1 DEF Entries

\* Writing 0 or an end mark to an entry outside the root directory keeps
\* every link of RootInv.
LEMMA FatWriteSafe ==
  ASSUME RootInv, NEW v \in {0} \cup EndMarks, NEW x \in Words, x \notin RootClusters,
         fat' = [fat EXCEPT ![x] = v]
  PROVE  /\ fat' \in [Words -> Words \cup EndMarks]
         /\ RootIntact'
         /\ LinksInVolume(fat') /\ RootPrivate(fat', dir) /\ SpillPlain(fat', dir)
         /\ c \in Words /\ c >= FatLen => fat'[c] \in {0} \cup EndMarks
<1>1. \A y \in Words : fat'[y] = fat[y] \/ fat'[y] = v
  BY DEF RootInv, TypeOK
<1>2. 0 \in Words
  BY DEF Words
<1>3. fat' \in [Words -> Words \cup EndMarks]
  BY <1>2 DEF RootInv, TypeOK
<1>4. RootIntact'
  <2>1. \A k \in 1 .. Len(RootChain) : RootChain[k] \in Words /\ RootChain[k] # x
    BY RootClustersAreWords DEF RootClusters
  <2>. QED
    BY <2>1 DEF RootInv, TypeOK, RootIntact, RootLinked
<1>5. v \notin RootClusters
  BY RootClustersInVolume, EndMarksApart
<1>6. FatCells \subseteq Words
  BY DEF FatCells, Words
<1>7. LinksInVolume(fat')
  BY <1>1, <1>6 DEF RootInv, LinksInVolume
<1>8. RootPrivate(fat', dir)
  BY <1>1, <1>5, <1>6 DEF RootInv, RootPrivate
<1>9. SpillPlain(fat', dir)
  <2>1. ASSUME NEW s \in SlotIds, IsFile(dir[s]), dir[s].clus >= FatLen
        PROVE  fat'[dir[s].clus] \in {0} \cup EndMarks
    <3>1. dir[s].clus \in Words
      BY <2>1, EntryFields DEF RootInv
    <3>. QED
      BY <1>1, <2>1, <3>1 DEF RootInv, SpillPlain
  <2>. QED
    BY <2>1 DEF SpillPlain
<1>10. c \in Words /\ c >= FatLen => fat'[c] \in {0} \cup EndMarks
  BY <1>1 DEF RootInv, RegisterSafe
<1>. QED
  BY <1>3, <1>4, <1>7, <1>8, <1>9, <1>10

-----------------------------------------------------------------------------
(* RootInv is inductive.                                                   *)

\* Resetting a call's locals leaves nothing dangerous in the cluster register.
LEMMA LocalsSafe ==
  ASSUME RootInv, Locals, UNCHANGED disk, pc' \in {"idle", "off"}
  PROVE  /\ cur' \in RootClusters /\ slot' \in SlotIds
         /\ c' \in Words \cup EndMarks /\ left' \in Nat
         /\ RegisterSafe'
         /\ RootIntact' /\ LinksInVolume(fat)' /\ RootPrivate(fat, dir)'
         /\ SpillPlain(fat, dir)'
<1>1. 0 \in Words /\ 0 \notin RootClusters
  BY RootClustersInVolume DEF Words
<1>2. RegisterSafe'
  BY <1>1 DEF RegisterSafe, Locals
<1>3. cur' \in RootClusters /\ slot' \in SlotIds
  BY RootClustersInVolume, RootClustersAreWords DEF Locals
<1>. QED
  BY <1>1, <1>2, <1>3
     DEF Locals, RootInv, disk, RootIntact, RootLinked, LinksInVolume, RootPrivate, SpillPlain

\* Volumes the kernel boots from satisfy it.
LEMMA RootInvInit == Init => RootInv
<1>. SUFFICES ASSUME Init PROVE RootInv
  OBVIOUS
<1>1. PICK im \in Images : fat = im.fat /\ dir = im.dir
  BY DEF Init
<1>2. ValidImage(im)
  BY ImagesAssumption
<1>3. 0 \in Words /\ 0 \notin RootClusters
  BY RootClustersInVolume DEF Words
<1>4. RegisterSafe
  BY <1>3 DEF RegisterSafe, Init
<1>5. fat \in [Words -> Words \cup EndMarks] /\ dir \in [SlotIds -> Slots]
  BY <1>1, <1>2 DEF ValidImage
<1>6. cur \in RootClusters /\ slot \in SlotIds /\ c \in Words \cup EndMarks
  BY <1>3, RootClustersInVolume, RootClustersAreWords DEF Init
<1>7. faults \in 0 .. MaxFaults
  BY SMT DEF Init, FaultsAssumption
<1>8. torn \in BOOLEAN
  BY Zenon DEF Init
<1>9. TypeOK
  BY <1>5, <1>6, <1>7, <1>8, EndMarksApart DEF Init, TypeOK, Phases, Running
<1>. QED
  BY <1>1, <1>2, <1>4, <1>9 DEF RootInv, ValidImage, RootIntact

\* A step that writes no sector and keeps or resets the registers.
LEMMA RootInvQuiet ==
  ASSUME RootInv, TypeOK', UNCHANGED disk, RegisterSafe'
  PROVE  RootInv'
BY DEF RootInv, disk, RootIntact, RootLinked, LinksInVolume, RootPrivate, SpillPlain

\* A refused write counts one fault; a fault may tear the volume.
LEMMA FaultTypes ==
  ASSUME TypeOK
  PROVE  /\ Refused => faults' \in 0 .. MaxFaults
         /\ (torn \/ HalfCreated) \in BOOLEAN
BY DEF TypeOK, Refused

\* What a scan reports are slots of the directory.
LEMMA ReportedSlots ==
  ASSUME TypeOK, NEW S
  PROVE  Reported(S) \subseteq SlotIds
<1>1. ASSUME NEW o \in S \cap HasKind({"file"}) PROVE <<cur, o>> \in SlotIds
  BY RootClustersAreWords DEF HasKind, TypeOK
<1>. QED
  BY <1>1 DEF Reported

\* Every step of the driver, and of the machine around it, preserves RootInv.
LEMMA RootInvStep == RootInv /\ [Next]_vars => RootInv'
<1>. SUFFICES ASSUME RootInv, [Next]_vars PROVE RootInv'
  OBVIOUS
<1>. USE DEF disk, call
<1>0. TypeOK /\ RegisterSafe
  BY DEF RootInv
<1>1. ASSUME NEW o \in Ops, NEW n \in Names, Call(o, n) PROVE RootInv'
  <2>1. TypeOK'
    BY <1>0, <1>1 DEF Call, TypeOK, Phases, Running
  <2>2. RegisterSafe'
    BY <1>0, <1>1 DEF Call, RegisterSafe
  <2>. QED
    BY <1>1, <2>1, <2>2, RootInvQuiet DEF Call
<1>2. CASE ScanNextCluster
  <2>1. listed' \subseteq SlotIds
    BY <1>0, <1>2, ReportedSlots DEF ScanNextCluster, TypeOK
  <2>2. CASE InChain(NextLink(cur))
    <3>1. cur' \in RootClusters
      BY <1>0, <1>2, <2>2, RootStep DEF ScanNextCluster, NextLink, RootInv, TypeOK
    <3>2. TypeOK'
      BY <1>0, <1>2, <2>1, <2>2, <3>1 DEF ScanNextCluster, TypeOK, Phases, Running
    <3>3. RegisterSafe'
      BY <1>0, <1>2, <2>2 DEF ScanNextCluster, RegisterSafe
    <3>. QED
      BY <1>2, <3>2, <3>3, RootInvQuiet DEF ScanNextCluster
  <2>3. CASE ~InChain(NextLink(cur))
    <3>1. Locals /\ UNCHANGED disk /\ pc' = "idle"
      BY <1>2, <2>3 DEF ScanNextCluster, Return
    <3>2. TypeOK'
      BY <1>0, <1>2, <2>1, <2>3, <3>1, LocalsSafe, EndMarksApart
         DEF ScanNextCluster, Return, TypeOK, Phases, Running
    <3>. QED
      BY <3>1, <3>2, LocalsSafe, RootInvQuiet
  <2>. QED
    BY <2>2, <2>3
<1>3. CASE ScanFreeSlot
  <2>1. slot' \in SlotIds
    BY <1>0, <1>3, RootClustersAreWords
       DEF ScanFreeSlot, FirstAt, LeavesAt, HasKind, FoundSlot, TypeOK
  <2>2. TypeOK'
    BY <1>0, <1>3, <2>1 DEF ScanFreeSlot, TypeOK, Phases, Running
  <2>3. RegisterSafe'
    BY <1>0, <1>3 DEF ScanFreeSlot, RegisterSafe
  <2>. QED
    BY <1>3, <2>2, <2>3, RootInvQuiet DEF ScanFreeSlot
<1>4. CASE ScanMatch
  <2>1. PICK o \in Matches : /\ slot' = <<cur, o>> /\ c' = dir[<<cur, o>>].clus
                             /\ left' = dir[<<cur, o>>].size
    BY <1>4 DEF ScanMatch, FoundSlot, EntryCluster
  <2>2. <<cur, o>> \in SlotIds /\ IsFile(dir[<<cur, o>>])
    BY <1>0, <2>1, RootClustersAreWords DEF Matches, HasKind, TypeOK, IsFile
  <2>3. c' \in Words /\ left' \in Nat
    BY <1>0, <2>1, <2>2, EntryFields
  <2>4. TypeOK'
    BY <1>0, <1>4, <2>1, <2>2, <2>3 DEF ScanMatch, TypeOK, Phases, Running
  <2>5. c' \notin RootClusters /\ (c' >= FatLen => fat[c'] \in {0} \cup EndMarks)
    BY <2>1, <2>2 DEF RootInv, RootPrivate, SpillPlain
  <2>6. RegisterSafe'
    BY <1>4, <2>5 DEF ScanMatch, RegisterSafe
  <2>. QED
    BY <1>4, <2>4, <2>6, RootInvQuiet DEF ScanMatch
<1>5. CASE ScanEndMark
  <2>1. listed' \subseteq SlotIds
    BY <1>0, <1>5, ReportedSlots DEF ScanEndMark, TypeOK
  <2>2. Locals /\ UNCHANGED disk /\ pc' = "idle"
    BY <1>5 DEF ScanEndMark, Return
  <2>3. TypeOK'
    BY <1>0, <1>5, <2>1, <2>2, LocalsSafe, EndMarksApart
       DEF ScanEndMark, Return, TypeOK, Phases, Running
  <2>. QED
    BY <2>2, <2>3, LocalsSafe, RootInvQuiet
<1>6. CASE AllocCluster
  <2>1. c' \in Words /\ fat[c'] = 0
    BY <1>6 DEF AllocCluster, IsFree, NextLink
  <2>2. c' \notin RootClusters
    BY <2>1, RootNeverFree DEF RootInv
  <2>3. TypeOK'
    BY <1>0, <1>6, <2>1 DEF AllocCluster, TypeOK, Phases, Running
  <2>4. RegisterSafe'
    BY <1>6, <2>1, <2>2 DEF AllocCluster, RegisterSafe
  <2>. QED
    BY <1>6, <2>3, <2>4, RootInvQuiet DEF AllocCluster
<1>7. CASE WriteEntry
  <2>1. c \in Words /\ c \notin RootClusters /\ (c >= FatLen => fat[c] \in {0} \cup EndMarks)
    BY <1>0, <1>7 DEF WriteEntry, RegisterSafe
  <2>2. \A s \in SlotIds : dir'[s] = dir[s] \/ dir'[s].clus = c
    BY <1>0, <1>7 DEF WriteEntry, NewEntry, TypeOK
  <2>3. RootPrivate(fat, dir)' /\ SpillPlain(fat, dir)'
    BY <1>7, <2>1, <2>2 DEF WriteEntry, RootInv, RootPrivate, SpillPlain
  <2>4. RootIntact' /\ LinksInVolume(fat)' /\ RegisterSafe'
    BY <1>0, <1>7, <2>1
       DEF WriteEntry, RootInv, RootIntact, RootLinked, LinksInVolume, RegisterSafe
  <2>5. dir' \in [SlotIds -> Slots]
    <3>1. name \in Names => NewEntry \in Slots
      BY <2>1 DEF NewEntry, Slots, Entries
    <3>. QED
      BY <1>0, <1>7, <3>1 DEF WriteEntry, TypeOK, Running, Phases
  <2>6. faults' \in 0 .. MaxFaults
    BY <1>0, <1>7, FaultTypes DEF WriteEntry, TypeOK
  <2>7. TypeOK'
    BY <1>0, <1>7, <2>5, <2>6 DEF WriteEntry, TypeOK, Phases, Running
  <2>. QED
    BY <2>3, <2>4, <2>7 DEF RootInv
<1>8. CASE MarkCluster
  <2>1. c \in Words /\ c \notin RootClusters
    BY <1>0, <1>8 DEF MarkCluster, RegisterSafe
  <2>2. Locals /\ UNCHANGED dir /\ pc' = "idle"
    BY <1>8 DEF MarkCluster, Return
  <2>3. /\ fat' \in [Words -> Words \cup EndMarks] /\ RootIntact'
        /\ LinksInVolume(fat') /\ RootPrivate(fat', dir) /\ SpillPlain(fat', dir)
    <3>1. CASE UNCHANGED fat
      BY <1>0, <3>1 DEF RootInv, TypeOK, RootIntact, RootLinked
    <3>2. CASE fat' = [fat EXCEPT ![c] = EndMark]
      BY <2>1, <3>2, FatWriteSafe, EndMarksApart DEF EndMark
    <3>. QED
      BY <1>8, <3>1, <3>2 DEF MarkCluster
  <2>4. 0 \in Words /\ 0 \notin RootClusters
    BY RootClustersInVolume DEF Words
  <2>5. torn' \in BOOLEAN /\ faults' \in 0 .. MaxFaults
    BY <1>0, <1>8, FaultTypes DEF MarkCluster, TypeOK
  <2>6. cur' \in RootClusters /\ slot' \in SlotIds /\ c' \in Words /\ left' \in Nat
    BY <2>2, <2>4, RootClustersInVolume, RootClustersAreWords DEF Locals
  <2>7. TypeOK'
    BY <1>0, <1>8, <2>2, <2>3, <2>5, <2>6
       DEF MarkCluster, Return, TypeOK, Phases, Running
  <2>8. RegisterSafe'
    BY <2>2, <2>4 DEF Locals, RegisterSafe
  <2>. QED
    BY <2>2, <2>3, <2>7, <2>8 DEF RootInv, RootPrivate, SpillPlain
<1>9. CASE EraseEntry
  <2>1. \A s \in SlotIds : dir'[s] = dir[s] \/ ~IsFile(dir'[s])
    BY <1>0, <1>9 DEF EraseEntry, Deleted, IsFile, TypeOK
  <2>2. RootPrivate(fat, dir)' /\ SpillPlain(fat, dir)'
    BY <1>9, <2>1 DEF EraseEntry, RootInv, RootPrivate, SpillPlain, IsFile
  <2>3. RootIntact' /\ LinksInVolume(fat)' /\ RegisterSafe'
    BY <1>0, <1>9
       DEF EraseEntry, RootInv, RootIntact, RootLinked, LinksInVolume, RegisterSafe
  <2>4. torn' \in BOOLEAN /\ faults' \in 0 .. MaxFaults
    BY <1>0, <1>9, FaultTypes DEF EraseEntry, TypeOK
  <2>5. dir' \in [SlotIds -> Slots]
    BY <1>0, <1>9 DEF EraseEntry, TypeOK, Slots
  <2>6. TypeOK'
    BY <1>0, <1>9, <2>4, <2>5 DEF EraseEntry, TypeOK, Phases, Running
  <2>. QED
    BY <2>2, <2>3, <2>6 DEF RootInv
<1>10. CASE FreeCluster
  <2>1. /\ c \in Words /\ fat[c] \in Words \cup EndMarks /\ fat[c] \notin RootClusters
        /\ fat[c] \in Words => fat[c] < FatLen
    BY <1>10, LinkLeavesRootAlone DEF FreeCluster
  <2>2. c \notin RootClusters /\ c' = fat[c]
    BY <1>0, <1>10 DEF FreeCluster, NextLink, RegisterSafe
  <2>3. /\ fat' \in [Words -> Words \cup EndMarks] /\ RootIntact'
        /\ LinksInVolume(fat') /\ RootPrivate(fat', dir) /\ SpillPlain(fat', dir)
    <3>1. CASE UNCHANGED fat
      BY <1>0, <3>1 DEF RootInv, TypeOK, RootIntact, RootLinked
    <3>2. CASE fat' = [fat EXCEPT ![c] = 0]
      BY <2>1, <2>2, <3>2, FatWriteSafe
    <3>. QED
      BY <1>10, <3>1, <3>2 DEF FreeCluster
  <2>4. RegisterSafe'
    BY <1>10, <2>1, <2>2 DEF FreeCluster, RegisterSafe, Words
  <2>5. torn' \in BOOLEAN /\ faults' \in 0 .. MaxFaults
    BY <1>0, <1>10, FaultTypes DEF FreeCluster, TypeOK
  <2>6. TypeOK'
    BY <1>0, <1>10, <2>1, <2>2, <2>3, <2>5, EndMarksApart DEF FreeCluster, TypeOK, Phases, Running
  <2>. QED
    BY <1>10, <2>3, <2>4, <2>6 DEF FreeCluster, RootInv, RootPrivate, SpillPlain
<1>11. CASE FreeDone
  <2>1. Locals /\ UNCHANGED disk /\ pc' = "idle"
    BY <1>11 DEF FreeDone, Return
  <2>2. TypeOK'
    BY <1>0, <1>11, <2>1, LocalsSafe, EndMarksApart DEF FreeDone, Return, TypeOK, Phases, Running
  <2>. QED
    BY <2>1, <2>2, LocalsSafe, RootInvQuiet
<1>12. CASE ReadCluster
  <2>1. /\ fat[c] \in Words \cup EndMarks /\ fat[c] \notin RootClusters
        /\ fat[c] \in Words => fat[c] < FatLen
    BY <1>12, LinkLeavesRootAlone DEF ReadCluster
  <2>2. TypeOK'
    BY <1>0, <1>12, <2>1, EndMarksApart DEF ReadCluster, NextLink, TypeOK, Phases, Running
  <2>3. RegisterSafe'
    BY <1>12, <2>1 DEF ReadCluster, NextLink, RegisterSafe, Words
  <2>. QED
    BY <1>12, <2>2, <2>3, RootInvQuiet DEF ReadCluster
<1>13. CASE ReadDone
  <2>1. Locals /\ UNCHANGED disk /\ pc' = "idle"
    BY <1>13 DEF ReadDone, Return
  <2>2. TypeOK'
    BY <1>0, <1>13, <2>1, LocalsSafe, EndMarksApart DEF ReadDone, Return, TypeOK, Phases, Running
  <2>. QED
    BY <2>1, <2>2, LocalsSafe, RootInvQuiet
<1>14. CASE PowerLoss
  <2>1. Locals /\ UNCHANGED disk /\ pc' = "off"
    BY <1>14 DEF PowerLoss
  <2>2. TypeOK'
    BY <1>0, <1>14, <2>1, LocalsSafe, EndMarksApart
       DEF PowerLoss, HalfCreated, TypeOK, Phases, Running
  <2>. QED
    BY <2>1, <2>2, LocalsSafe, RootInvQuiet
<1>15. CASE Boot
  <2>1. TypeOK' /\ RegisterSafe'
    BY <1>0, <1>15 DEF Boot, TypeOK, RegisterSafe, Phases, Running
  <2>. QED
    BY <1>15, <2>1, RootInvQuiet DEF Boot
<1>16. CASE UNCHANGED vars
  <2>1. TypeOK' /\ RegisterSafe'
    BY <1>0, <1>16 DEF vars, TypeOK, RegisterSafe
  <2>. QED
    BY <1>16, <2>1, RootInvQuiet DEF vars
<1>. QED
  BY <1>1, <1>2, <1>3, <1>4, <1>5, <1>6, <1>7, <1>8, <1>9, <1>10, <1>11, <1>12,
     <1>13, <1>14, <1>15, <1>16 DEF Next, Driver
\* The driver keeps to its types: in particular the registers a walk of the FAT
\* is indexed with stay inside the FAT area.
THEOREM TypeCorrect == Spec => []TypeOK
<1>1. RootInv => TypeOK
  BY DEF RootInv
<1>. QED
  BY <1>1, RootInvInit, RootInvStep, PTL DEF Spec

\* fat32_create and fat32_delete leave the root directory's chain as it was,
\* on any volume and after any power losses and refused writes.
THEOREM RootIntactAlways == Spec => []RootIntact
<1>1. RootInv => RootIntact
  BY DEF RootInv
<1>. QED
  BY <1>1, RootInvInit, RootInvStep, PTL DEF Spec

-----------------------------------------------------------------------------
(* FilesInv is inductive, given RootInv.                                   *)

IInv == RootInv /\ FilesInv

\* What a slot of one kind, found by a scan, is.
LEMMA FoundSlots ==
  ASSUME TypeOK, NEW o \in Offsets
  PROVE  /\ <<cur, o>> \in SlotIds
         /\ op = "create" /\ o \in LeavesAt => ~IsFile(dir[<<cur, o>>])
         /\ o \in Matches => IsFile(dir[<<cur, o>>]) /\ dir[<<cur, o>>].name = name
<1>1. <<cur, o>> \in SlotIds
  BY RootClustersAreWords DEF TypeOK
<1>. QED
  BY <1>1 DEF LeavesAt, Matches, HasKind, IsFile

\* create's directory write: nothing led to the cluster it found free.
LEMMA WriteEntryFiles ==
  ASSUME IInv, WriteEntry, ~torn
  PROVE  OneOwner(fat, dir)' /\ NoDangling(fat', dir', {slot})
<1>1. /\ TypeOK /\ c \in Words /\ c \notin RootClusters /\ c >= 2 /\ fat[c] = 0
      /\ OneOwner(fat, dir) /\ NoDangling(fat, dir, {})
  BY DEF IInv, RootInv, RegisterSafe, FilesInv, SlotInv, ConsistentUnlessTorn, WriteEntry
<1>2. InChain(c)
  BY <1>1 DEF InChain, IsLink, Words
<1>3. /\ \A s \in SlotIds : IsFile(dir[s]) => dir[s].clus # c
      /\ \A y \in FatCells : fat[y] # c
  <2>1. \A s \in SlotIds : IsFile(dir[s]) => dir[s].clus # c
    BY <1>1 DEF NoDangling, InChain, IsLink
  <2>2. \A y \in FatCells : InChain(fat[y]) => fat[fat[y]] # 0
    BY <1>1 DEF NoDangling, InChain, IsLink
  <2>. QED
    BY <1>1, <1>2, <2>1, <2>2
<1>4. \A s \in SlotIds : \/ dir'[s] = dir[s]
                         \/ s = slot /\ dir'[s].clus = c
  BY <1>1 DEF WriteEntry, NewEntry, TypeOK
<1>5. fat' = fat
  BY DEF WriteEntry
<1>6. c # RootChain[1]
  BY <1>1, RootClustersInVolume
<1>7. OneOwner(fat, dir)'
  <2>1. \A s, t \in SlotIds :
          IsFile(dir'[s]) /\ IsFile(dir'[t]) /\ dir'[s].clus = dir'[t].clus
            /\ dir'[s].clus >= 2 => s = t
    BY <1>1, <1>3, <1>4 DEF OneOwner, InChain, IsLink
  <2>2. \A s \in SlotIds, y \in FatCells :
          IsFile(dir'[s]) /\ dir'[s].clus >= 2 => fat[y] # dir'[s].clus
    BY <1>1, <1>3, <1>4 DEF OneOwner, InChain, IsLink
  <2>3. \A s \in SlotIds : IsFile(dir'[s]) => dir'[s].clus # RootChain[1]
    BY <1>1, <1>4, <1>6 DEF OneOwner, InChain, IsLink
  <2>. QED
    BY <1>1, <1>5, <2>1, <2>2, <2>3 DEF OneOwner, InChain, IsLink
<1>8. NoDangling(fat', dir', {slot})
  BY <1>1, <1>4, <1>5 DEF NoDangling, InChain, IsLink
<1>. QED
  BY <1>7, <1>8

\* create's FAT write: an end mark is a link to nothing.
LEMMA MarkClusterFiles ==
  ASSUME IInv, MarkCluster, ~torn'
  PROVE  OneOwner(fat, dir)' /\ NoDangling(fat', dir', {})
<1>1. ~torn /\ pc = "mark" /\ dir' = dir
  <2>1. pc = "mark" /\ dir' = dir
    BY DEF MarkCluster
  <2>2. ~torn
    <3>1. CASE torn' = torn
      BY <3>1
    <3>2. CASE torn' = (torn \/ HalfCreated)
      BY Zenon, <3>2
    <3>. QED
      BY <3>1, <3>2 DEF MarkCluster
  <2>. QED
    BY <2>1, <2>2
<1>2. /\ TypeOK /\ c \in Words /\ c >= 2
      /\ IsFile(dir[slot]) => dir[slot].clus = c
      /\ OneOwner(fat, dir) /\ NoDangling(fat, dir, {slot})
  BY <1>1 DEF IInv, RootInv, RegisterSafe, FilesInv, SlotInv, ConsistentUnlessTorn
<1>3. CASE fat' = [fat EXCEPT ![c] = EndMark]
  <2>1. \A y \in Words : fat'[y] = IF y = c THEN EOC ELSE fat[y]
    BY <1>2, <1>3 DEF TypeOK, EndMark
  <2>2. FatCells \subseteq Words /\ 0 # EOC /\ ~InChain(EOC) /\ EOC # RootChain[1]
    BY RootClustersInVolume, EndMarksApart DEF FatCells, Words, InChain, IsLink
  <2>3. \A s \in SlotIds : IsFile(dir[s]) => dir[s].clus \in Words /\ dir[s].clus # EOC
    BY <1>2, EntryFields DEF Words
  <2>4. OneOwner(fat', dir)
    BY <1>2, <2>1, <2>2, <2>3, SMTT(60) DEF OneOwner, InChain, IsLink
  <2>5. \A s \in SlotIds : IsFile(dir[s]) /\ dir[s].clus >= 2 => fat'[dir[s].clus] # 0
    BY <1>2, <2>1, <2>2, <2>3 DEF NoDangling, InChain, IsLink
  <2>6. \A y \in FatCells : InChain(fat'[y]) => fat'[fat'[y]] # 0
    <3>1. ASSUME NEW y \in FatCells, InChain(fat'[y]) PROVE fat'[fat'[y]] # 0
      <4>1. fat'[y] = fat[y] /\ fat[y] \in Words
        BY <1>2, <2>1, <2>2, <3>1, EndMarksApart DEF TypeOK, InChain, IsLink
      <4>. QED
        BY <1>2, <2>1, <2>2, <3>1, <4>1 DEF NoDangling, InChain, IsLink
    <3>. QED
      BY <3>1
  <2>. QED
    BY <1>1, <2>4, <2>5, <2>6 DEF NoDangling, InChain, IsLink
<1>4. CASE Refused /\ torn' = (torn \/ HalfCreated) /\ UNCHANGED fat
  <2>1. ~IsFile(dir[slot])
    BY <1>1, <1>4 DEF HalfCreated
  <2>. QED
    BY <1>1, <1>2, <1>4, <2>1 DEF OneOwner, NoDangling, InChain, IsLink
<1>. QED
  BY <1>3, <1>4 DEF MarkCluster

\* delete's directory write: the entry was the only owner of the chain.
LEMMA EraseEntryFiles ==
  ASSUME IInv, EraseEntry, ~torn'
  PROVE  OneOwner(fat, dir)' /\ NoDangling(fat', dir', {}) /\ WalkOwnsHead'
<1>1. ~torn /\ pc = "erase" /\ fat' = fat /\ c' = c /\ dir' = [dir EXCEPT ![slot] = Deleted]
  BY DEF EraseEntry
<1>2. /\ TypeOK /\ IsFile(dir[slot]) /\ dir[slot].clus = c
      /\ OneOwner(fat, dir) /\ NoDangling(fat, dir, {})
  BY <1>1 DEF IInv, RootInv, FilesInv, SlotInv, ConsistentUnlessTorn
<1>3. /\ slot \in SlotIds
      /\ \A s \in SlotIds : IsFile(dir'[s]) => s # slot /\ dir'[s] = dir[s]
  BY <1>1, <1>2 DEF TypeOK, Deleted, IsFile
<1>4. OneOwner(fat', dir') /\ NoDangling(fat', dir', {})
  <2>1. OneOwner(fat, dir')
    BY <1>2, <1>3 DEF OneOwner, InChain, IsLink
  <2>2. NoDangling(fat, dir', {})
    BY <1>2, <1>3 DEF NoDangling, InChain, IsLink
  <2>. QED
    BY <1>1, <2>1, <2>2
<1>5. ASSUME InChain(c)
      PROVE  /\ fat[c] # 0 /\ c # RootChain[1]
             /\ \A s \in SlotIds : IsFile(dir'[s]) => dir'[s].clus # c
             /\ \A y \in FatCells : fat[y] # c
  <2>1. c >= 2
    BY <1>5 DEF InChain, IsLink
  <2>. QED
    BY <1>2, <1>3, <2>1 DEF OneOwner, NoDangling, InChain, IsLink
<1>6. WalkOwnsHead'
  BY <1>1, <1>5 DEF WalkOwnsHead, InChain, IsLink
<1>. QED
  BY <1>4, <1>6

\* delete's FAT writes: clearing the head of the walk's own chain leaves no
\* link to a free cluster, and the walk owns the next head.
LEMMA FreeClusterFiles ==
  ASSUME IInv, FreeCluster, ~torn'
  PROVE  OneOwner(fat, dir)' /\ NoDangling(fat', dir', {}) /\ WalkOwnsHead'
<1>1. /\ ~torn /\ pc = "free" /\ InChain(c) /\ dir' = dir
      /\ fat' = [fat EXCEPT ![c] = 0] /\ c' = fat[c]
  BY DEF FreeCluster, NextLink
<1>2. /\ TypeOK /\ WalkOwnsHead
      /\ OneOwner(fat, dir) /\ NoDangling(fat, dir, {})
  BY <1>1 DEF IInv, RootInv, FilesInv, ConsistentUnlessTorn
<1>3. /\ fat[c] # 0 /\ c # RootChain[1]
      /\ \A s \in SlotIds : IsFile(dir[s]) => dir[s].clus # c
      /\ \A y \in FatCells : fat[y] # c
  BY <1>1, <1>2 DEF WalkOwnsHead
<1>4. c \in Words /\ FatCells \subseteq Words /\ ~InChain(0)
  BY <1>1, <1>2, EndMarksApart DEF TypeOK, InChain, IsLink, FatCells, Words
<1>5. \A y \in Words : fat'[y] = IF y = c THEN 0 ELSE fat[y]
  BY <1>1, <1>2 DEF TypeOK
<1>6. \A s \in SlotIds : IsFile(dir[s]) => dir[s].clus \in Words
  BY <1>2, EntryFields
<1>7. OneOwner(fat', dir)
  <2>1. \A y \in FatCells : fat'[y] = fat[y] \/ fat'[y] = 0
    BY <1>4, <1>5
  <2>2. 0 # RootChain[1]
    BY RootClustersInVolume
  <2>. QED
    BY <1>2, <1>4, <1>6, <2>1, <2>2, SMTT(60) DEF OneOwner, InChain, IsLink
<1>8. NoDangling(fat', dir, {})
  <2>1. ASSUME NEW y \in FatCells, InChain(fat'[y]) PROVE fat'[fat'[y]] # 0
    <3>1. fat'[y] = fat[y] /\ fat[y] \in Words /\ fat[y] # c
      BY <1>2, <1>3, <1>4, <1>5, <2>1, EndMarksApart DEF TypeOK, InChain, IsLink
    <3>. QED
      BY <1>2, <1>5, <2>1, <3>1 DEF NoDangling, InChain, IsLink
  <2>2. \A s \in SlotIds : IsFile(dir[s]) /\ dir[s].clus >= 2 => fat'[dir[s].clus] # 0
    BY <1>2, <1>3, <1>5, <1>6 DEF NoDangling, InChain, IsLink
  <2>. QED
    BY <2>1, <2>2 DEF NoDangling, InChain, IsLink
<1>9. ASSUME InChain(fat[c])
      PROVE  /\ fat'[fat[c]] # 0 /\ fat[c] # RootChain[1]
             /\ \A s \in SlotIds : IsFile(dir[s]) => dir[s].clus # fat[c]
             /\ \A y \in FatCells : fat'[y] # fat[c]
  <2>1. c \in FatCells
    <3>1. fat[c] \notin {0} \cup EndMarks
      BY <1>4, <1>9, EndMarksApart
    <3>2. c < FatLen /\ c \in Nat
      BY <1>1, <1>4, <3>1 DEF IInv, RootInv, RegisterSafe, Words
    <3>. QED
      BY <1>1, <3>2 DEF InChain, FatCells
  <2>2. fat[c] \in Words /\ fat[c] # c /\ fat[c] >= 2
    BY <1>2, <1>3, <1>4, <1>9, <2>1, EndMarksApart DEF TypeOK, InChain, IsLink
  <2>3. fat'[fat[c]] # 0
    BY <1>2, <1>5, <1>9, <2>1, <2>2 DEF NoDangling, InChain, IsLink
  <2>4. \A y \in FatCells : fat'[y] # fat[c]
    BY <1>2, <1>3, <1>4, <1>5, <1>9, <2>1 DEF OneOwner, InChain, IsLink
  <2>. QED
    BY <1>2, <2>1, <2>2, <2>3, <2>4 DEF OneOwner, InChain, IsLink
<1>10. WalkOwnsHead'
  BY <1>1, <1>9 DEF WalkOwnsHead, InChain, IsLink
<1>. QED
  BY <1>1, <1>7, <1>8, <1>10

\* Every step preserves what the calls know of their slot and cluster.
LEMMA SlotInvStep == IInv /\ [Next]_vars => SlotInv'
<1>. SUFFICES ASSUME IInv, [Next]_vars PROVE SlotInv'
  OBVIOUS
<1>. USE DEF disk, call
<1>0. TypeOK /\ SlotInv /\ RegisterSafe
  BY DEF IInv, RootInv, FilesInv
<1>1. ASSUME NEW o \in Ops, NEW n \in Names, Call(o, n) PROVE SlotInv'
  BY <1>1 DEF Call, SlotInv
<1>2. CASE ScanNextCluster
  BY <1>2 DEF ScanNextCluster, Return, SlotInv
<1>3. CASE ScanFreeSlot
  <2>1. PICK o \in Offsets : o \in LeavesAt /\ slot' = <<cur, o>>
    BY <1>3 DEF ScanFreeSlot, FirstAt, FoundSlot
  <2>2. ~IsFile(dir[slot'])
    BY <1>0, <1>3, <2>1, FoundSlots DEF ScanFreeSlot
  <2>. QED
    BY <1>3, <2>2 DEF ScanFreeSlot, SlotInv
<1>4. CASE ScanMatch
  <2>1. PICK o \in Matches : slot' = <<cur, o>> /\ c' = dir[<<cur, o>>].clus
    BY <1>4 DEF ScanMatch, FoundSlot, EntryCluster
  <2>2. IsFile(dir[slot']) /\ dir[slot'].name = name
    BY <1>0, <2>1, FoundSlots DEF Matches, HasKind
  <2>. QED
    BY <1>4, <2>1, <2>2 DEF ScanMatch, SlotInv
<1>5. CASE ScanEndMark
  BY <1>5 DEF ScanEndMark, Return, SlotInv
<1>6. CASE AllocCluster
  BY <1>0, <1>6 DEF AllocCluster, IsFree, NextLink, SlotInv
<1>7. CASE WriteEntry
  <2>1. IsFile(dir'[slot]) => dir'[slot].clus = c
    BY <1>0, <1>7 DEF WriteEntry, NewEntry, SlotInv, TypeOK
  <2>. QED
    BY <1>0, <1>7, <2>1 DEF WriteEntry, SlotInv
<1>8. CASE MarkCluster
  BY <1>8 DEF MarkCluster, Return, SlotInv
<1>9. CASE EraseEntry
  BY <1>9 DEF EraseEntry, SlotInv
<1>10. CASE FreeCluster
  BY <1>10 DEF FreeCluster, SlotInv
<1>11. CASE FreeDone
  BY <1>11 DEF FreeDone, Return, SlotInv
<1>12. CASE ReadCluster
  BY <1>12 DEF ReadCluster, SlotInv
<1>13. CASE ReadDone
  BY <1>13 DEF ReadDone, Return, SlotInv
<1>14. CASE PowerLoss
  BY <1>14 DEF PowerLoss, SlotInv
<1>15. CASE Boot
  BY <1>15 DEF Boot, SlotInv
<1>16. CASE UNCHANGED vars
  BY <1>0, <1>16 DEF vars, SlotInv
<1>. QED
  BY <1>1, <1>2, <1>3, <1>4, <1>5, <1>6, <1>7, <1>8, <1>9, <1>10, <1>11, <1>12,
     <1>13, <1>14, <1>15, <1>16 DEF Next, Driver

\* A step that writes no sector keeps a consistent volume consistent.
LEMMA ConsistentQuiet ==
  ASSUME IInv, UNCHANGED <<fat, dir, torn>>, pc # "mark", pc' # "mark",
         pc' = "free" => pc = "free" /\ c' = c
  PROVE  (~torn => WalkOwnsHead)' /\ ConsistentUnlessTorn'
BY DEF IInv, FilesInv, WalkOwnsHead, ConsistentUnlessTorn, OneOwner, NoDangling, InChain, IsLink

\* As long as no needed write was lost, every step keeps the volume consistent.
LEMMA ConsistentStep ==
  IInv /\ [Next]_vars => (~torn => WalkOwnsHead)' /\ ConsistentUnlessTorn'
<1>. SUFFICES ASSUME IInv, [Next]_vars
              PROVE  (~torn => WalkOwnsHead)' /\ ConsistentUnlessTorn'
  OBVIOUS
<1>. USE DEF disk, call
<1>1. ASSUME NEW o \in Ops, NEW n \in Names, Call(o, n)
      PROVE  (~torn => WalkOwnsHead)' /\ ConsistentUnlessTorn'
  BY <1>1, ConsistentQuiet DEF Call
<1>2. CASE ScanNextCluster
  BY <1>2, ConsistentQuiet DEF ScanNextCluster, Return
<1>3. CASE ScanFreeSlot
  BY <1>3, ConsistentQuiet DEF ScanFreeSlot
<1>4. CASE ScanMatch
  <2>1. UNCHANGED <<fat, dir, torn>> /\ pc = "scan" /\ pc' \in {"erase", "read"}
    BY <1>4 DEF ScanMatch
  <2>. QED
    BY <2>1, ConsistentQuiet
<1>5. CASE ScanEndMark
  BY <1>5, ConsistentQuiet DEF ScanEndMark, Return
<1>6. CASE AllocCluster
  BY <1>6, ConsistentQuiet DEF AllocCluster
<1>7. CASE WriteEntry
  BY <1>7, WriteEntryFiles DEF WriteEntry, WalkOwnsHead, ConsistentUnlessTorn
<1>8. CASE MarkCluster
  <2>1. pc' = "idle"
    BY <1>8 DEF MarkCluster, Return
  <2>. QED
    BY <1>8, <2>1, MarkClusterFiles DEF WalkOwnsHead, ConsistentUnlessTorn
<1>9. CASE EraseEntry
  <2>1. pc' = "free"
    BY <1>9 DEF EraseEntry
  <2>. QED
    BY <1>9, <2>1, EraseEntryFiles DEF ConsistentUnlessTorn
<1>10. CASE FreeCluster
  <2>1. pc' = "free"
    BY <1>10 DEF FreeCluster
  <2>. QED
    BY <1>10, <2>1, FreeClusterFiles DEF ConsistentUnlessTorn
<1>11. CASE FreeDone
  BY <1>11, ConsistentQuiet DEF FreeDone, Return
<1>12. CASE ReadCluster
  BY <1>12, ConsistentQuiet DEF ReadCluster
<1>13. CASE ReadDone
  BY <1>13, ConsistentQuiet DEF ReadDone, Return
<1>14. CASE PowerLoss
  <2>1. pc' = "off" /\ fat' = fat /\ dir' = dir /\ torn' = (torn \/ HalfCreated)
    BY <1>14 DEF PowerLoss
  <2>2. CASE pc # "mark"
    BY <2>1, <2>2
       DEF IInv, FilesInv, WalkOwnsHead, ConsistentUnlessTorn, OneOwner, NoDangling, InChain, IsLink
  <2>3. CASE pc = "mark" /\ ~torn'
    <3>1. ~torn /\ ~HalfCreated
      BY Zenon, <2>1, <2>3
    <3>2. ~IsFile(dir[slot]) /\ OneOwner(fat, dir) /\ NoDangling(fat, dir, {slot})
      BY <2>3, <3>1 DEF HalfCreated, IInv, FilesInv, ConsistentUnlessTorn
    <3>3. OneOwner(fat, dir) /\ NoDangling(fat, dir, {})
      BY <3>2 DEF NoDangling, InChain, IsLink
    <3>. QED
      BY <2>1, <3>3 DEF WalkOwnsHead, ConsistentUnlessTorn
  <2>4. CASE torn'
    BY <2>4 DEF ConsistentUnlessTorn
  <2>. QED
    BY <2>2, <2>3, <2>4
<1>15. CASE Boot
  BY <1>15, ConsistentQuiet DEF Boot
<1>16. CASE UNCHANGED vars
  BY <1>16
     DEF vars, IInv, FilesInv, WalkOwnsHead, ConsistentUnlessTorn, OneOwner, NoDangling, InChain, IsLink
<1>. QED
  BY <1>1, <1>2, <1>3, <1>4, <1>5, <1>6, <1>7, <1>8, <1>9, <1>10, <1>11, <1>12,
     <1>13, <1>14, <1>15, <1>16 DEF Next, Driver

\* The two invariants together are inductive.
LEMMA IInvInductive == (Init => IInv) /\ (IInv /\ [Next]_vars => IInv')
<1>1. Init => IInv
  <2>. SUFFICES ASSUME Init PROVE IInv
    OBVIOUS
  <2>1. RootInv /\ SlotInv /\ WalkOwnsHead /\ pc = "off"
    BY RootInvInit DEF Init, SlotInv, WalkOwnsHead
  <2>2. PICK im \in Images : fat = im.fat /\ dir = im.dir
    BY DEF Init
  <2>3. OneOwner(fat, dir) /\ NoDangling(fat, dir, {})
    BY <2>2, ImagesAssumption DEF ValidImage
  <2>. QED
    BY <2>1, <2>3 DEF IInv, FilesInv, ConsistentUnlessTorn
<1>2. IInv /\ [Next]_vars => IInv'
  BY RootInvStep, SlotInvStep, ConsistentStep DEF IInv, FilesInv
<1>. QED
  BY <1>1, <1>2

\* Losing power, or a refused write that leaves no half-written change, never
\* makes two owners share a cluster and never marks one in use as free.
THEOREM ConsistentAlways == Spec => []ConsistentUnlessTorn
<1>1. IInv => ConsistentUnlessTorn
  BY DEF IInv, FilesInv
<1>. QED
  BY <1>1, IInvInductive, PTL DEF Spec

\* fat32_create never overwrites an entry in use, fat32_delete removes only an
\* entry of the name it was given.
THEOREM OnlyDeleteRemoves == Spec => EntriesOnlyDeleted
<1>. DEFINE Removal == \A s \in SlotIds :
                         IsFile(dir[s]) /\ dir'[s] # dir[s] =>
                           op = "delete" /\ name = dir[s].name /\ dir'[s] = Deleted
<1>1. IInv /\ [Next]_vars => [Removal]_vars
  <2>. SUFFICES ASSUME IInv, [Next]_vars, dir' # dir PROVE Removal
    BY DEF vars
  <2>1. TypeOK /\ SlotInv
    BY DEF IInv, RootInv, FilesInv
  <2>2. WriteEntry \/ EraseEntry
    BY DEF Next, Driver, Call, ScanNextCluster, ScanFreeSlot, ScanMatch, ScanEndMark,
           AllocCluster, MarkCluster, FreeCluster, FreeDone, ReadCluster, ReadDone,
           PowerLoss, Boot, vars, disk
  <2>3. CASE WriteEntry
    <3>1. ~IsFile(dir[slot]) /\ dir' = [dir EXCEPT ![slot] = NewEntry]
      BY <2>1, <2>3 DEF WriteEntry, SlotInv
    <3>. QED
      BY <2>1, <3>1 DEF TypeOK
  <2>4. CASE EraseEntry
    <3>1. /\ op = "delete" /\ dir[slot].name = name
          /\ dir' = [dir EXCEPT ![slot] = Deleted]
      BY <2>1, <2>4 DEF EraseEntry, SlotInv
    <3>. QED
      BY <2>1, <3>1 DEF TypeOK
  <2>. QED
    BY <2>2, <2>3, <2>4
<1>. QED
  BY <1>1, IInvInductive, PTL DEF Spec, EntriesOnlyDeleted

-----------------------------------------------------------------------------
(* What delete unlinks it also frees.                                      *)

\* Something leads to an allocated cluster: the boot sector, an entry, or a link.
Owned(f, d, y) ==
  \/ y = RootChain[1]
  \/ \E s \in SlotIds : IsFile(d[s]) /\ d[s].clus = y
  \/ \E z \in FatCells : f[z] = y

\* The volume as another system leaves it: no lost clusters.
WholeImages ==
  \A im \in Images, y \in FatCells : im.fat[y] # 0 => Owned(im.fat, im.dir, y)

\* Without faults only the walk of delete holds a cluster nothing leads to, and
\* create marks the cluster its entry names.
NoneLost ==
  faults = 0 =>
    /\ \A y \in FatCells : fat[y] # 0 => Owned(fat, dir, y) \/ (pc = "free" /\ y = c)
    /\ pc = "mark" => IsFile(dir[slot]) /\ dir[slot].clus = c

\* A directory write.
LEMMA EntryNoneLost ==
  ASSUME IInv, NoneLost, WriteEntry \/ EraseEntry
  PROVE  NoneLost'
<1>. SUFFICES ASSUME faults' = 0 PROVE NoneLost'
  BY DEF NoneLost
<1>1. TypeOK /\ SlotInv /\ slot \in SlotIds /\ fat' = fat /\ UNCHANGED <<slot, c>>
  BY DEF IInv, RootInv, FilesInv, TypeOK, WriteEntry, EraseEntry
<1>2. faults \in Nat /\ faults + 1 # 0
  BY <1>1 DEF TypeOK
<1>3. CASE WriteEntry
  <2>1. /\ pc = "dirwrite" /\ pc' = "mark" /\ ~ IsFile(dir[slot]) /\ faults = 0
        /\ dir' = [dir EXCEPT ![slot] = NewEntry]
    BY <1>1, <1>2, <1>3 DEF WriteEntry, Refused, SlotInv
  <2>2. /\ \A s \in SlotIds : s # slot => dir'[s] = dir[s]
        /\ dir'[slot] = NewEntry
    BY <1>1, <2>1 DEF TypeOK
  <2>3. IsFile(NewEntry) /\ NewEntry.clus = c
    BY DEF IsFile, NewEntry
  <2>4. ASSUME NEW y \in FatCells, fat[y] # 0 PROVE Owned(fat, dir', y)
    <3>1. Owned(fat, dir, y)
      BY <2>1, <2>4 DEF NoneLost
    <3>. QED
      BY <2>1, <2>2, <3>1 DEF Owned
  <2>. QED
    BY <1>1, <2>1, <2>2, <2>3, <2>4 DEF NoneLost
<1>4. CASE EraseEntry
  <2>1. /\ pc = "erase" /\ pc' = "free" /\ dir[slot].clus = c /\ faults = 0
        /\ dir' = [dir EXCEPT ![slot] = Deleted]
    BY <1>1, <1>2, <1>4 DEF EraseEntry, Refused, SlotInv
  <2>2. \A s \in SlotIds : s # slot => dir'[s] = dir[s]
    BY <1>1, <2>1 DEF TypeOK
  <2>3. ASSUME NEW y \in FatCells, fat[y] # 0, y # c PROVE Owned(fat, dir', y)
    <3>1. Owned(fat, dir, y)
      BY <2>1, <2>3 DEF NoneLost
    <3>. QED
      BY <2>1, <2>2, <2>3, <3>1 DEF Owned
  <2>. QED
    BY <1>1, <2>1, <2>3 DEF NoneLost
<1>. QED
  BY <1>3, <1>4

\* A FAT write: create's entry owns what is marked, the walk of delete goes on
\* to what the freed cluster owned.
LEMMA LinkNoneLost ==
  ASSUME IInv, NoneLost, MarkCluster \/ FreeCluster
  PROVE  NoneLost'
<1>. SUFFICES ASSUME faults' = 0 PROVE NoneLost'
  BY DEF NoneLost
<1>1. TypeOK /\ SlotInv /\ dir' = dir /\ fat \in [Words -> Words \cup EndMarks]
  BY DEF IInv, RootInv, FilesInv, TypeOK, MarkCluster, FreeCluster
<1>2. faults \in Nat /\ faults + 1 # 0
  BY <1>1 DEF TypeOK
<1>3. FatCells \subseteq Words /\ \A y \in FatCells : y >= 2 /\ y < EOC
  BY DEF FatCells, Words
<1>4. CASE MarkCluster
  <2>1. /\ pc = "mark" /\ pc' = "idle" /\ faults = 0 /\ fat' = [fat EXCEPT ![c] = EOC]
        /\ fat[c] = 0 /\ slot \in SlotIds
    BY <1>1, <1>2, <1>4 DEF MarkCluster, Refused, SlotInv, EndMark, Return, TypeOK
  <2>2. ASSUME NEW y \in FatCells, fat'[y] # 0 PROVE Owned(fat', dir, y)
    <3>1. CASE y = c
      BY <2>1, <3>1 DEF NoneLost, Owned
    <3>2. CASE y # c
      <4>1. fat[y] # 0
        BY <1>1, <1>3, <2>1, <2>2, <3>2
      <4>2. Owned(fat, dir, y)
        BY <2>1, <4>1 DEF NoneLost
      <4>3. ASSUME NEW z \in FatCells, fat[z] = y PROVE fat'[z] = y
        BY <1>1, <1>3, <2>1, <4>3
      <4>. QED
        BY <4>2, <4>3 DEF Owned
    <3>. QED
      BY <3>1, <3>2
  <2>. QED
    BY <1>1, <2>1, <2>2 DEF NoneLost
<1>5. CASE FreeCluster
  <2>1. /\ pc = "free" /\ pc' = "free" /\ faults = 0 /\ fat' = [fat EXCEPT ![c] = 0]
        /\ c' = fat[c]
    BY <1>2, <1>5 DEF FreeCluster, Refused, NextLink
  <2>2. ASSUME NEW y \in FatCells, fat'[y] # 0, y # c' PROVE Owned(fat', dir, y)
    <3>1. y # c /\ fat[y] # 0
      BY <1>1, <1>3, <2>1, <2>2
    <3>2. Owned(fat, dir, y)
      BY <2>1, <3>1 DEF NoneLost
    <3>3. ASSUME NEW z \in FatCells, fat[z] = y PROVE fat'[z] = y
      BY <1>1, <1>3, <2>1, <2>2, <3>3
    <3>. QED
      BY <3>2, <3>3 DEF Owned
  <2>. QED
    BY <1>1, <2>1, <2>2 DEF NoneLost
<1>. QED
  BY <1>4, <1>5

\* No step loses a cluster as long as there is no fault.
LEMMA NoneLostStep == IInv /\ NoneLost /\ [Next]_vars => NoneLost'
<1>. SUFFICES ASSUME IInv, NoneLost, [Next]_vars PROVE NoneLost'
  OBVIOUS
<1>1. CASE WriteEntry \/ EraseEntry
  BY <1>1, EntryNoneLost
<1>2. CASE MarkCluster \/ FreeCluster
  BY <1>2, LinkNoneLost
<1>3. CASE FreeDone
  <2>1. /\ ~ InChain(c) /\ pc' = "idle" /\ UNCHANGED <<fat, dir, faults>>
    BY <1>3 DEF FreeDone, Return, disk
  <2>2. \A y \in FatCells : y # c
    BY <2>1 DEF InChain, IsLink, FatCells
  <2>. QED
    BY <2>1, <2>2 DEF NoneLost, Owned
<1>4. CASE PowerLoss
  <2>1. faults' # 0
    BY <1>4 DEF PowerLoss, IInv, RootInv, TypeOK
  <2>. QED
    BY <2>1 DEF NoneLost
<1>5. ASSUME UNCHANGED <<fat, dir, faults>>, pc # "free" /\ pc' \notin {"free", "mark"}
      PROVE  NoneLost'
  BY <1>5 DEF NoneLost, Owned
<1>6. CASE UNCHANGED vars
  BY <1>6 DEF vars, NoneLost, Owned
<1>7. CASE (\E o \in Ops, n \in Names : Call(o, n)) \/ Boot
  BY <1>5, <1>7 DEF Call, Boot, disk
<1>8. CASE ScanNextCluster \/ ScanFreeSlot \/ ScanMatch \/ ScanEndMark
  BY <1>5, <1>8 DEF ScanNextCluster, ScanFreeSlot, ScanMatch, ScanEndMark, Return, disk
<1>9. CASE AllocCluster \/ ReadCluster \/ ReadDone
  BY <1>5, <1>9 DEF AllocCluster, ReadCluster, ReadDone, Return, disk
<1>. QED
  BY <1>1, <1>2, <1>3, <1>4, <1>6, <1>7, <1>8, <1>9 DEF Next, Driver

\* On every volume that had no lost cluster when it was mounted there is none
\* as long as no write is refused and the power stays: fat32_delete frees what
\* it unlinks, fat32_create links what it marks.
THEOREM NeverLosesCluster == WholeImages => (Spec => []NoLostCluster)
<1>. SUFFICES ASSUME WholeImages PROVE Spec => []NoLostCluster
  OBVIOUS
<1>1. Init => NoneLost
  BY DEF Init, NoneLost, WholeImages
<1>2. NoneLost => NoLostCluster
  BY DEF NoneLost, NoLostCluster, Owned
<1>. QED
  BY <1>1, <1>2, NoneLostStep, IInvInductive, PTL DEF Spec

-----------------------------------------------------------------------------
(* What fat32_read_file reads is all there.                                *)

\* From cluster x the links lead through m clusters.
Reaches(f, x, m) ==
  \E p \in [1 .. m -> FatCells] :
    /\ m > 0 => p[1] = x
    /\ \A i \in 1 .. m : i < m => f[p[i]] = p[i + 1]

\* The volume as another system leaves it: chains as long as the sizes say.
LongImages ==
  \A im \in Images, s \in SlotIds :
    IsFile(im.dir[s]) => Reaches(im.fat, im.dir[s].clus, im.dir[s].size)

LongEnough ==
  ~torn =>
    /\ \A s \in SlotIds : IsFile(dir[s]) => Reaches(fat, dir[s].clus, dir[s].size)
    /\ pc = "read" => Reaches(fat, c, left)

\* Nothing to read is always there.
LEMMA NothingReached ==
  ASSUME NEW f, NEW x
  PROVE  Reaches(f, x, 0)
<1>. DEFINE p == [i \in 1 .. 0 |-> 2]
<1>1. p \in [1 .. 0 -> FatCells]
  OBVIOUS
<1>. HIDE DEF p
<1>2. ~(0 > 0) /\ \A i \in 1 .. 0 : i < 0 => f[p[i]] = p[i + 1]
  OBVIOUS
<1>. QED
  BY <1>1, <1>2, Zenon DEF Reaches

\* A write to an entry that no link of the chain is in leaves the chain.
LEMMA ChainStands ==
  ASSUME NEW f, NEW g, NEW x, NEW m \in Nat, Reaches(f, x, m),
         \A y \in FatCells : f[y] \in FatCells /\ g[y] # f[y] =>
           y # x /\ \A z \in FatCells : f[z] # y
  PROVE  Reaches(g, x, m)
<1>1. PICK p \in [1 .. m -> FatCells] :
        (m > 0 => p[1] = x) /\ \A i \in 1 .. m : i < m => f[p[i]] = p[i + 1]
  BY DEF Reaches
<1>2. ASSUME NEW i \in 1 .. m, i < m PROVE g[p[i]] = p[i + 1]
  <2>1. p[i] \in FatCells /\ i + 1 \in 1 .. m /\ p[i + 1] \in FatCells /\ f[p[i]] = p[i + 1]
    BY <1>1, <1>2
  <2>2. p[i] = x \/ \E z \in FatCells : f[z] = p[i]
    <3>1. CASE i = 1
      BY <1>1, <3>1
    <3>2. CASE i # 1
      <4>1. i - 1 \in 1 .. m /\ i - 1 < m /\ (i - 1) + 1 = i
        BY <3>2
      <4>. QED
        BY <1>1, <4>1, ZenonT(60)
    <3>. QED
      BY <3>1, <3>2
  <2>. QED
    BY <2>1, <2>2
<1>3. \A i \in 1 .. m : i < m => g[p[i]] = p[i + 1]
  BY <1>2
<1>. QED
  BY <1>1, <1>3, Zenon DEF Reaches

\* The rest of a chain is a chain.
LEMMA ChainGoesOn ==
  ASSUME NEW f, NEW x, NEW m \in Nat, m > 0, Reaches(f, x, m)
  PROVE  x \in FatCells /\ Reaches(f, f[x], m - 1)
<1>1. PICK p \in [1 .. m -> FatCells] :
        (m > 0 => p[1] = x) /\ \A i \in 1 .. m : i < m => f[p[i]] = p[i + 1]
  BY DEF Reaches
<1>. DEFINE q == [i \in 1 .. m - 1 |-> p[i + 1]]
<1>2. 1 \in 1 .. m /\ p[1] = x
  BY <1>1
<1>3. q \in [1 .. m - 1 -> FatCells]
  BY <1>1
<1>4. m - 1 > 0 => q[1] = f[x]
  BY <1>1, <1>2
<1>5. ASSUME NEW i \in 1 .. m - 1, i < m - 1 PROVE f[q[i]] = q[i + 1]
  <2>1. i + 1 \in 1 .. m /\ i + 1 < m /\ i + 1 \in 1 .. m - 1
    BY <1>5
  <2>. QED
    BY <1>1, <2>1
<1>. HIDE DEF q
<1>. QED
  BY <1>1, <1>2, <1>3, <1>4, <1>5 DEF Reaches

\* The two FAT writes: delete's walk clears what no chain leads to, and create
\* marks what links nowhere.
LEMMA LinkKeepsChains ==
  ASSUME IInv, LongEnough, MarkCluster \/ FreeCluster
  PROVE  LongEnough'
<1>. SUFFICES ASSUME ~ torn' PROVE LongEnough'
  BY DEF LongEnough
<1>1. TypeOK /\ SlotInv /\ dir' = dir /\ pc' # "read"
  BY DEF IInv, RootInv, FilesInv, MarkCluster, FreeCluster, Return
<1>2. ~ torn
  BY <1>1 DEF TypeOK, MarkCluster, FreeCluster
<1>. SUFFICES ASSUME NEW s \in SlotIds, IsFile(dir[s])
              PROVE  Reaches(fat', dir[s].clus, dir[s].size)
  BY <1>1 DEF LongEnough
<1>3. Reaches(fat, dir[s].clus, dir[s].size) /\ dir[s].size \in Nat
  BY <1>1, <1>2, EntryFields DEF LongEnough
<1>4. \A y \in FatCells : y \in Words /\ y # 0 /\ InChain(y)
  BY DEF FatCells, Words, InChain, IsLink
<1>5. CASE MarkCluster
  <2>1. fat[c] = 0 /\ (fat' = fat \/ fat' = [fat EXCEPT ![c] = EOC])
    BY <1>1, <1>5 DEF MarkCluster, EndMark, SlotInv
  <2>. QED
    BY <1>1, <1>3, <1>4, <2>1, ChainStands DEF TypeOK
<1>6. CASE FreeCluster
  <2>1. fat' = [fat EXCEPT ![c] = 0] /\ pc = "free" /\ InChain(c)
    BY <1>1, <1>6 DEF FreeCluster
  <2>2. dir[s].clus # c /\ \A y \in FatCells : fat[y] # c
    BY <1>2, <2>1 DEF IInv, FilesInv, WalkOwnsHead
  <2>3. \A y \in FatCells : fat'[y] # fat[y] => y = c
    BY <1>1, <1>4, <2>1 DEF TypeOK
  <2>. QED
    BY <1>3, <2>2, <2>3, ChainStands
<1>. QED
  BY <1>5, <1>6

\* The two directory writes: a new file is empty.
LEMMA EntryKeepsChains ==
  ASSUME IInv, LongEnough, WriteEntry \/ EraseEntry
  PROVE  LongEnough'
<1>. SUFFICES ASSUME ~ torn' PROVE LongEnough'
  BY DEF LongEnough
<1>1. TypeOK /\ fat' = fat /\ ~ torn /\ pc' # "read"
  BY DEF IInv, RootInv, WriteEntry, EraseEntry
<1>2. dir' = dir \/ \E d \in {NewEntry, Deleted} : dir' = [dir EXCEPT ![slot] = d]
  BY DEF WriteEntry, EraseEntry
<1>. SUFFICES ASSUME NEW s \in SlotIds, IsFile(dir'[s])
              PROVE  Reaches(fat, dir'[s].clus, dir'[s].size)
  BY <1>1 DEF LongEnough
<1>3. CASE dir'[s] = dir[s]
  BY <1>1, <1>3 DEF LongEnough
<1>4. CASE dir'[s] = NewEntry
  <2>1. dir'[s].size = 0
    BY <1>4 DEF NewEntry
  <2>. QED
    BY <2>1, NothingReached
<1>5. CASE dir'[s] = Deleted
  BY <1>5 DEF Deleted, IsFile
<1>. QED
  BY <1>1, <1>2, <1>3, <1>4, <1>5 DEF TypeOK

\* No step makes a chain shorter than its size says, as long as there is no fault.
LEMMA LongEnoughStep == IInv /\ LongEnough /\ [Next]_vars => LongEnough'
<1>. SUFFICES ASSUME IInv, LongEnough, [Next]_vars PROVE LongEnough'
  OBVIOUS
<1>1. CASE WriteEntry \/ EraseEntry
  BY <1>1, EntryKeepsChains
<1>2. CASE MarkCluster \/ FreeCluster
  BY <1>2, LinkKeepsChains
<1>3. ASSUME UNCHANGED <<fat, dir, torn>>, pc' # "read" PROVE LongEnough'
  BY <1>3 DEF LongEnough
<1>4. CASE ScanMatch
  <2>1. PICK o \in Matches :
          c' = EntryCluster(<<cur, o>>) /\ left' = dir[<<cur, o>>].size
    BY <1>4 DEF ScanMatch
  <2>2. <<cur, o>> \in SlotIds /\ IsFile(dir[<<cur, o>>])
    BY <2>1, RootClustersAreWords DEF IInv, RootInv, TypeOK, Matches, HasKind, IsFile
  <2>3. UNCHANGED <<fat, dir, torn>>
    BY <1>4 DEF ScanMatch, disk
  <2>. QED
    BY <2>1, <2>2, <2>3 DEF LongEnough, EntryCluster
<1>5. CASE ReadCluster
  <2>1. /\ UNCHANGED <<fat, dir, torn, pc>> /\ pc = "read"
        /\ c' = fat[c] /\ left' = left - 1 /\ left > 0 /\ left \in Nat
    BY <1>5 DEF ReadCluster, NextLink, disk, IInv, RootInv, TypeOK
  <2>2. ~ torn => Reaches(fat, fat[c], left - 1)
    BY <2>1, ChainGoesOn DEF LongEnough
  <2>. QED
    BY <2>1, <2>2 DEF LongEnough
<1>6. CASE PowerLoss
  <2>1. pc' = "off" /\ UNCHANGED <<fat, dir>> /\ (torn => torn')
    BY <1>6 DEF PowerLoss, disk, IInv, RootInv, TypeOK
  <2>. QED
    BY <2>1 DEF LongEnough
<1>7. CASE UNCHANGED vars
  BY <1>7 DEF vars, LongEnough
<1>8. CASE (\E o \in Ops, n \in Names : Call(o, n)) \/ Boot
  BY <1>3, <1>8 DEF Call, Boot, disk
<1>9. CASE ScanNextCluster \/ ScanFreeSlot \/ ScanEndMark \/ AllocCluster
  BY <1>3, <1>9 DEF ScanNextCluster, ScanFreeSlot, ScanEndMark, AllocCluster, Return, disk
<1>10. CASE FreeDone \/ ReadDone
  BY <1>3, <1>10 DEF FreeDone, ReadDone, Return, disk
<1>. QED
  BY <1>1, <1>2, <1>4, <1>5, <1>6, <1>7, <1>8, <1>9, <1>10 DEF Next, Driver

\* fat32_read_file gets to the end of what the entry's size says on every
\* volume whose chains were that long when it was mounted, whatever has been
\* created and deleted since, as long as no write the disk needs was lost.
THEOREM AlwaysReadsWhole == LongImages => (Spec => TypeReadsWhole)
<1>. SUFFICES ASSUME LongImages PROVE Spec => TypeReadsWhole
  OBVIOUS
<1>1. Init => LongEnough
  BY DEF Init, LongEnough, LongImages
<1>2. IInv /\ LongEnough /\ [Next]_vars =>
        [op = "type" /\ pc = "read" /\ pc' = "idle" /\ ~torn => left = 0]_vars
  <2>. SUFFICES ASSUME IInv, LongEnough, [Next]_vars, pc = "read", pc' = "idle", ~ torn
                PROVE  left = 0
    OBVIOUS
  <2>1. ReadDone
    BY DEF Next, Driver, Call, ScanNextCluster, ScanFreeSlot, ScanMatch, ScanEndMark,
           AllocCluster, WriteEntry, MarkCluster, EraseEntry, FreeCluster, FreeDone,
           ReadCluster, PowerLoss, Boot, vars
  <2>2. left \in Nat /\ Reaches(fat, c, left)
    BY DEF IInv, RootInv, TypeOK, LongEnough
  <2>3. left > 0 => c \in FatCells
    BY <2>2, ChainGoesOn
  <2>4. \A y \in FatCells : InChain(y)
    BY DEF FatCells, InChain, IsLink
  <2>. QED
    BY <2>1, <2>2, <2>3, <2>4 DEF ReadDone
<1>. QED
  BY <1>1, <1>2, LongEnoughStep, IInvInductive, PTL DEF Spec, TypeReadsWhole

-----------------------------------------------------------------------------
(* The order of the directory.                                             *)

\* The order of the root directory's chain, and of its slots.
Before(x, y) ==
  \E i, k \in 1 .. Len(RootChain) : i < k /\ x = RootChain[i] /\ y = RootChain[k]
Ahead(s, t) == Before(s[1], t[1]) \/ (s[1] = t[1] /\ s[2] < t[2])

\* The first byte 0x00 ends the directory: no file is behind one.
NothingBehind(d) == \A s, t \in SlotIds : d[s].kind = "end" /\ IsFile(d[t]) => Ahead(t, s)

\* The volume as every other system leaves it.
OrderedImages == \A im \in Images : NothingBehind(im.dir)

\* A chain is a line.
LEMMA BeforeOrder ==
  ASSUME NEW x \in RootClusters, NEW y \in RootClusters
  PROVE  /\ Before(x, y) \/ x = y \/ Before(y, x)
         /\ ~ (Before(x, y) /\ Before(y, x))
         /\ ~ Before(x, x)
<1>1. PICK i \in 1 .. Len(RootChain) : x = RootChain[i]
  BY DEF RootClusters
<1>2. PICK k \in 1 .. Len(RootChain) : y = RootChain[k]
  BY DEF RootClusters
<1>3. i < k \/ i = k \/ k < i
  BY <1>1, <1>2
<1>4. \A a, b \in 1 .. Len(RootChain) : RootChain[a] = RootChain[b] => a = b
  OBVIOUS
<1>5. Before(x, y) <=> i < k
  BY <1>1, <1>2, <1>4 DEF Before
<1>6. Before(y, x) <=> k < i
  BY <1>1, <1>2, <1>4 DEF Before
<1>7. ~ Before(x, x)
  BY <1>1, <1>4 DEF Before
<1>. QED
  BY <1>1, <1>2, <1>3, <1>5, <1>6, <1>7

\* Nothing is before the cluster the boot sector names.
LEMMA FirstIsFirst ==
  ASSUME NEW y \in RootClusters
  PROVE  ~ Before(y, RootChain[1])
<1>. SUFFICES ASSUME Before(y, RootChain[1]) PROVE FALSE
  OBVIOUS
<1>1. PICK i, k \in 1 .. Len(RootChain) : i < k /\ RootChain[1] = RootChain[k]
  BY DEF Before
<1>2. 1 \in 1 .. Len(RootChain) /\ k # 1
  BY <1>1
<1>. QED
  BY <1>1, <1>2

\* A link leads to the next cluster of the chain.
LEMMA LinkIsNext ==
  ASSUME RootIntact, NEW x \in RootClusters, InChain(fat[x]), NEW y \in RootClusters
  PROVE  Before(y, fat[x]) <=> Before(y, x) \/ y = x
<1>1. PICK k \in 1 .. Len(RootChain) : x = RootChain[k]
  BY DEF RootClusters
<1>2. PICK i \in 1 .. Len(RootChain) : y = RootChain[i]
  BY DEF RootClusters
<1>3. k < Len(RootChain) /\ fat[x] = RootChain[k + 1]
  <2>1. IF k < Len(RootChain) THEN fat[x] = RootChain[k + 1] ELSE fat[x] \in EndMarks
    BY <1>1 DEF RootIntact, RootLinked
  <2>. QED
    BY <2>1, EndMarksApart
<1>4. k + 1 \in 1 .. Len(RootChain)
  BY <1>3
<1>5. \A a, b \in 1 .. Len(RootChain) : RootChain[a] = RootChain[b] => a = b
  OBVIOUS
<1>6. Before(y, fat[x]) <=> i < k + 1
  BY <1>2, <1>3, <1>4, <1>5 DEF Before
<1>7. Before(y, x) <=> i < k
  BY <1>1, <1>2, <1>5 DEF Before
<1>8. y = x <=> i = k
  BY <1>1, <1>2, <1>5
<1>. QED
  BY <1>6, <1>7, <1>8

\* The cluster without a link is the last.
LEMMA EndIsLast ==
  ASSUME RootIntact, NEW x \in RootClusters, ~ InChain(fat[x]), NEW y \in RootClusters
  PROVE  Before(y, x) \/ y = x
<1>1. PICK k \in 1 .. Len(RootChain) : x = RootChain[k]
  BY DEF RootClusters
<1>2. PICK i \in 1 .. Len(RootChain) : y = RootChain[i]
  BY DEF RootClusters
<1>3. k = Len(RootChain)
  <2>1. SUFFICES ASSUME k < Len(RootChain) PROVE FALSE
    BY <1>1
  <2>2. fat[x] = RootChain[k + 1] /\ k + 1 \in 1 .. Len(RootChain)
    BY <1>1, <2>1 DEF RootIntact, RootLinked
  <2>3. \A j \in 1 .. Len(RootChain) : RootChain[j] \in 2 .. LastCluster
    BY RootClustersInVolume DEF RootClusters
  <2>4. RootChain[k + 1] \in 2 .. LastCluster
    BY <2>2, <2>3
  <2>5. \A v \in 2 .. LastCluster : v >= 2 /\ v < FirstEOC
    OBVIOUS
  <2>. QED
    BY <2>2, <2>4, <2>5 DEF InChain
<1>. QED
  BY <1>1, <1>2, <1>3 DEF Before

\* The offsets below one, and below the size of a cluster.
LEMMA OffsetsBelow ==
  /\ ClusterSlots \in Nat
  /\ {o \in Offsets : o < ClusterSlots} = Offsets
  /\ \A m \in Offsets : m \in Nat /\ 0 .. m - 1 \subseteq Offsets
                        /\ {o \in Offsets : o < m} = 0 .. m - 1
<1>1. ClusterSlots \in Nat
  OBVIOUS
<1>2. \A o \in Offsets : o \in Nat /\ o < ClusterSlots
  BY <1>1 DEF Offsets
<1>3. {o \in Offsets : o < ClusterSlots} = Offsets
  BY <1>2
<1>4. \A m \in Offsets : 0 .. m - 1 \subseteq Offsets
  BY <1>1 DEF Offsets
<1>5. \A m \in Offsets : {o \in Offsets : o < m} = 0 .. m - 1
  BY <1>1 DEF Offsets
<1>. QED
  BY <1>1, <1>2, <1>3, <1>4, <1>5

\* A slot is a cluster of the root directory and an offset.
LEMMA SlotShape ==
  ASSUME NEW s \in SlotIds
  PROVE  s[1] \in RootClusters /\ s[2] \in Offsets /\ s = <<s[1], s[2]>>
BY DEF SlotIds

\* The slots of a directory are in line too.
LEMMA AheadOrder ==
  ASSUME NEW s \in SlotIds, NEW t \in SlotIds
  PROVE  /\ Ahead(s, t) \/ s = t \/ Ahead(t, s)
         /\ ~ (Ahead(s, t) /\ Ahead(t, s))
<1>1. /\ s[1] \in RootClusters /\ s[2] \in Int /\ s = <<s[1], s[2]>>
      /\ t[1] \in RootClusters /\ t[2] \in Int /\ t = <<t[1], t[2]>>
  BY SlotShape DEF Offsets
<1>2. /\ Before(s[1], t[1]) \/ s[1] = t[1] \/ Before(t[1], s[1])
      /\ ~ (Before(s[1], t[1]) /\ Before(t[1], s[1]))
      /\ ~ Before(s[1], s[1]) /\ ~ Before(t[1], t[1])
  BY <1>1, BeforeOrder
<1>3. s[1] = t[1] /\ s[2] = t[2] => s = t
  BY <1>1
<1>. QED
  BY <1>1, <1>2, <1>3 DEF Ahead

-----------------------------------------------------------------------------
(* The scans.                                                              *)

\* A slot the running call has scanned and did not stop at.
Passed(s) ==
  /\ dir[s].kind # "end"
  /\ op = "create" => dir[s].kind # "deleted"
  /\ op \in {"delete", "type"} => s \notin FilesNamed(name)
  /\ op = "dir" => (IsFile(dir[s]) => s \in listed)

\* A scan has passed every slot of the clusters before the one it is at.
Scanning ==
  pc = "scan" =>
    /\ \A s \in SlotIds : Before(s[1], cur) => Passed(s)
    /\ op = "dir" => \A s \in listed : IsFile(dir[s])

\* What a call knows of itself, and create of the slots ahead of its own.
CallInv ==
  /\ pc \in {"off", "idle"} => cur = RootChain[1]
  /\ pc \in Running => rc = 0 /\ op \in Ops
  /\ pc = "read" => op = "type" /\ slot \in FilesNamed(name)
  /\ pc \in {"alloc", "dirwrite"} =>
       \A s \in SlotIds : Ahead(s, slot) => dir[s].kind \notin {"end", "deleted"}

ScanInv == CallInv /\ Scanning /\ NothingBehind(dir)

\* The slots of the cluster in the buffer up to offset m, and in those before
\* it, have been passed.
PassedTo(m) == \A s \in SlotIds : Before(s[1], cur) \/ (s[1] = cur /\ s[2] < m) => Passed(s)

\* Where a scan leaves its loop, everything ahead has been passed but what
\* fat32_dir_list is about to report.
LEMMA ScanTo ==
  ASSUME TypeOK, ScanInv, pc = "scan", op # "dir", NEW m \in Nat,
         \A o \in LeavesAt : m <= o
  PROVE  PassedTo(m)
<1>1. SUFFICES ASSUME NEW s \in SlotIds, s[1] = cur, s[2] < m PROVE Passed(s)
  BY DEF PassedTo, ScanInv, Scanning
<1>2. s[2] \in Offsets /\ s = <<cur, s[2]>>
  BY <1>1, SlotShape
<1>3. s[2] \notin LeavesAt
  BY <1>1, <1>2 DEF Offsets
<1>4. op \in Ops
  BY DEF ScanInv, CallInv, Running, Phases
<1>5. CASE op = "create"
  BY <1>2, <1>3, <1>5 DEF LeavesAt, HasKind, Passed
<1>6. CASE op \in {"delete", "type"}
  <2>1. s[2] \notin HasKind({"end"}) /\ s[2] \notin Matches
    BY <1>3, <1>6 DEF LeavesAt
  <2>2. dir[s].kind # "end"
    BY <1>2, <2>1 DEF HasKind
  <2>3. s \notin FilesNamed(name)
    BY <1>2, <2>1 DEF Matches, HasKind, FilesNamed, IsFile
  <2>. QED
    BY <1>6, <2>2, <2>3 DEF Passed
<1>. QED
  BY <1>4, <1>5, <1>6 DEF Ops

\* fat32_dir_list has passed them once it has reported them.
LEMMA ListTo ==
  ASSUME TypeOK, ScanInv, pc = "scan", op = "dir", NEW m \in Nat,
         \A o \in HasKind({"end"}) : m <= o
  PROVE  LET l == listed \cup Reported({o \in Offsets : o < m})
         IN  /\ \A s \in SlotIds : Before(s[1], cur) \/ (s[1] = cur /\ s[2] < m) =>
                  dir[s].kind # "end" /\ (IsFile(dir[s]) => s \in l)
             /\ \A s \in l : IsFile(dir[s])
<1>. DEFINE l == listed \cup Reported({o \in Offsets : o < m})
<1>1. ASSUME NEW s \in SlotIds, Before(s[1], cur)
      PROVE  dir[s].kind # "end" /\ (IsFile(dir[s]) => s \in l)
  BY <1>1 DEF ScanInv, Scanning, Passed
<1>2. ASSUME NEW s \in SlotIds, s[1] = cur, s[2] < m
      PROVE  dir[s].kind # "end" /\ (IsFile(dir[s]) => s \in l)
  <2>1. s[2] \in Offsets /\ s = <<cur, s[2]>>
    BY <1>2, SlotShape
  <2>2. s[2] \notin HasKind({"end"})
    BY <1>2, <2>1 DEF Offsets
  <2>3. dir[s].kind # "end"
    BY <2>1, <2>2 DEF HasKind
  <2>4. IsFile(dir[s]) => s \in Reported({o \in Offsets : o < m})
    BY <1>2, <2>1 DEF Reported, HasKind, IsFile
  <2>. QED
    BY <2>3, <2>4
<1>3. ASSUME NEW s \in l PROVE IsFile(dir[s])
  <2>1. CASE s \in listed
    BY <2>1 DEF ScanInv, Scanning
  <2>2. CASE s \in Reported({o \in Offsets : o < m})
    BY <2>2 DEF Reported, HasKind, IsFile
  <2>. QED
    BY <1>3, <2>1, <2>2
<1>. QED
  BY <1>1, <1>2, <1>3

\* At the end of the chain everything has been scanned.
LEMMA AllBefore ==
  ASSUME TypeOK, RootIntact, ~ InChain(NextLink(cur)), NEW s \in SlotIds
  PROVE  Before(s[1], cur) \/ (s[1] = cur /\ s[2] < ClusterSlots)
<1>1. s[1] \in RootClusters /\ s[2] < ClusterSlots
  <2>1. s[1] \in RootClusters /\ s[2] \in Offsets
    BY SlotShape
  <2>. QED
    BY <2>1 DEF Offsets
<1>2. cur \in RootClusters
  BY DEF TypeOK
<1>. QED
  BY <1>1, <1>2, EndIsLast DEF NextLink

\* At an end mark nothing in use is left.
LEMMA AllAhead ==
  ASSUME TypeOK, NothingBehind(dir), NEW o \in HasKind({"end"}),
         NEW s \in SlotIds, IsFile(dir[s])
  PROVE  Before(s[1], cur) \/ (s[1] = cur /\ s[2] < o)
<1>1. <<cur, o>> \in SlotIds /\ dir[<<cur, o>>].kind = "end"
  BY FoundSlots DEF HasKind
<1>2. Ahead(s, <<cur, o>>)
  BY <1>1 DEF NothingBehind
<1>. QED
  BY <1>2 DEF Ahead

\* What fat32_dir_list reports in the last cluster it looks at is the rest.
LEMMA ListsAll ==
  ASSUME TypeOK, RootIntact, ScanInv, op = "dir", pc = "scan", pc' = "idle",
         ScanNextCluster \/ ScanEndMark
  PROVE  listed' = {s \in SlotIds : IsFile(dir[s])}
<1>1. CASE ScanNextCluster
  <2>1. /\ LeavesAt = {} /\ listed' = listed \cup Reported(Offsets) /\ ~ InChain(NextLink(cur))
    BY <1>1 DEF ScanNextCluster
  <2>. DEFINE m == ClusterSlots
              l == listed \cup Reported({o \in Offsets : o < m})
  <2>2. {o \in Offsets : o < m} = Offsets /\ m \in Nat
    BY OffsetsBelow
  <2>3. \A o \in HasKind({"end"}) : m <= o
    BY <2>1 DEF LeavesAt
  <2>4. /\ \A s \in SlotIds : Before(s[1], cur) \/ (s[1] = cur /\ s[2] < m) =>
             dir[s].kind # "end" /\ (IsFile(dir[s]) => s \in l)
        /\ \A s \in l : IsFile(dir[s])
    BY <2>2, <2>3, ListTo
  <2>5. listed' = l
    BY <2>1, <2>2
  <2>6. listed' \subseteq SlotIds
    <3>1. listed \subseteq SlotIds
      BY DEF TypeOK
    <3>2. Reported(Offsets) \subseteq SlotIds
      BY FoundSlots DEF Reported
    <3>. QED
      BY <2>1, <3>1, <3>2
  <2>. HIDE DEF l, m
  <2>7. \A s \in SlotIds : Before(s[1], cur) \/ (s[1] = cur /\ s[2] < m)
    BY <2>1, AllBefore DEF m
  <2>. QED
    BY <2>4, <2>5, <2>6, <2>7
<1>2. CASE ScanEndMark
  <2>1. PICK m \in HasKind({"end"}) :
           FirstAt(m, LeavesAt) /\ listed' = listed \cup Reported(0 .. m - 1)
    BY <1>2 DEF ScanEndMark
  <2>2. m \in Offsets /\ m \in Nat
    BY DEF HasKind, Offsets
  <2>. DEFINE l == listed \cup Reported({o \in Offsets : o < m})
  <2>3. \A o \in HasKind({"end"}) : m <= o
    BY <2>1 DEF FirstAt, LeavesAt
  <2>4. /\ \A s \in SlotIds : Before(s[1], cur) \/ (s[1] = cur /\ s[2] < m) =>
             dir[s].kind # "end" /\ (IsFile(dir[s]) => s \in l)
        /\ \A s \in l : IsFile(dir[s])
    BY <2>2, <2>3, ListTo
  <2>5. listed' = l
    <3>1. {o \in Offsets : o < m} = 0 .. m - 1
      BY <2>2 DEF Offsets
    <3>. QED
      BY <2>1, <3>1
  <2>6. listed' \subseteq SlotIds
    <3>1. listed \subseteq SlotIds
      BY DEF TypeOK
    <3>2. \A o \in Offsets : <<cur, o>> \in SlotIds
      BY FoundSlots
    <3>3. Reported(0 .. m - 1) \subseteq SlotIds
      <4>. DEFINE S == (0 .. m - 1) \cap HasKind({"file"})
      <4>1. S \subseteq Offsets
        BY DEF HasKind
      <4>2. Reported(0 .. m - 1) = {<<cur, o>> : o \in S}
        BY DEF Reported
      <4>. HIDE DEF S
      <4>. QED
        BY <3>2, <4>1, <4>2
    <3>. QED
      BY <2>1, <3>1, <3>3
  <2>. HIDE DEF l
  <2>7. \A s \in SlotIds : IsFile(dir[s]) => Before(s[1], cur) \/ (s[1] = cur /\ s[2] < m)
    BY AllAhead DEF ScanInv
  <2>. QED
    BY <2>4, <2>5, <2>6, <2>7
<1>. QED
  BY <1>1, <1>2

\* A scan that has gone through finds no file of its name.
LEMMA NotThere ==
  ASSUME TypeOK, RootIntact, ScanInv, pc = "scan", op \in {"delete", "type"},
         \/ ScanNextCluster /\ ~ InChain(NextLink(cur))
         \/ ScanEndMark
  PROVE  FilesNamed(name) = {}
<1>1. SUFFICES ASSUME NEW s \in FilesNamed(name) PROVE FALSE
  OBVIOUS
<1>2. s \in SlotIds /\ IsFile(dir[s])
  BY DEF FilesNamed
<1>3. CASE ScanNextCluster /\ ~ InChain(NextLink(cur))
  <2>1. ClusterSlots \in Nat /\ \A o \in LeavesAt : ClusterSlots <= o
    BY <1>3, OffsetsBelow DEF ScanNextCluster
  <2>2. PassedTo(ClusterSlots)
    BY <2>1, ScanTo
  <2>3. Before(s[1], cur) \/ (s[1] = cur /\ s[2] < ClusterSlots)
    BY <1>2, <1>3, AllBefore
  <2>. QED
    BY <1>1, <1>2, <2>2, <2>3 DEF PassedTo, Passed
<1>4. CASE ScanEndMark
  <2>1. PICK m \in HasKind({"end"}) : FirstAt(m, LeavesAt)
    BY <1>4 DEF ScanEndMark
  <2>2. m \in Nat
    BY DEF HasKind, Offsets
  <2>3. \A o \in LeavesAt : m <= o
    BY <2>1 DEF FirstAt
  <2>4. PassedTo(m)
    BY <2>2, <2>3, ScanTo
  <2>5. Before(s[1], cur) \/ (s[1] = cur /\ s[2] < m)
    BY <1>2, AllAhead DEF ScanInv
  <2>. QED
    BY <1>1, <1>2, <2>4, <2>5 DEF PassedTo, Passed
<1>. QED
  BY <1>3, <1>4

-----------------------------------------------------------------------------
(* Every step keeps what the scans know.                                   *)

\* Before the first call nothing is scanned, and nothing is behind an end mark.
LEMMA ScanInit == OrderedImages /\ Init => ScanInv
<1>. SUFFICES ASSUME OrderedImages, Init PROVE ScanInv
  OBVIOUS
<1>1. NothingBehind(dir)
  BY DEF Init, OrderedImages
<1>2. pc = "off" /\ cur = RootChain[1]
  BY DEF Init
<1>. QED
  BY <1>1, <1>2 DEF ScanInv, CallInv, Scanning, Running

\* A call begins with nothing passed.
LEMMA CallScan ==
  ASSUME TypeOK, ScanInv, NEW o \in Ops, NEW n \in Names, Call(o, n)
  PROVE  ScanInv'
<1>1. /\ pc = "idle" /\ pc' = "scan" /\ op' = o /\ listed' = {} /\ rc' = 0
      /\ cur = RootChain[1] /\ cur' = cur /\ dir' = dir
  BY DEF Call, ScanInv, CallInv, disk
<1>2. \A s \in SlotIds : ~ Before(s[1], cur')
  BY <1>1, SlotShape, FirstIsFirst
<1>3. CallInv'
  BY <1>1 DEF CallInv, Running
<1>4. Scanning'
  BY <1>1, <1>2 DEF Scanning
<1>. QED
  BY <1>1, <1>3, <1>4 DEF ScanInv

\* The scan goes on with one more cluster behind it, or returns.
LEMMA NextClusterScan ==
  ASSUME TypeOK, RootIntact, ScanInv, ScanNextCluster
  PROVE  ScanInv'
<1>1. /\ pc = "scan" /\ LeavesAt = {} /\ dir' = dir /\ NothingBehind(dir')
      /\ listed' = listed \cup IF op = "dir" THEN Reported(Offsets) ELSE {}
      /\ rc = 0 /\ op \in Ops
  BY DEF ScanNextCluster, ScanInv, CallInv, Running, Phases, disk
<1>2. CASE InChain(NextLink(cur))
  <2>1. cur' = fat[cur] /\ UNCHANGED <<pc, op, name, rc, slot>>
    BY <1>2 DEF ScanNextCluster, NextLink, call
  <2>2. cur \in RootClusters /\ InChain(fat[cur])
    BY <1>2 DEF TypeOK, NextLink
  <2>3. \A s \in SlotIds : Before(s[1], cur') => Before(s[1], cur) \/ (s[1] = cur /\ s[2] < ClusterSlots)
    <3>1. \A s \in SlotIds : s[1] \in RootClusters /\ s[2] < ClusterSlots
      <4>1. \A s \in SlotIds : s[1] \in RootClusters /\ s[2] \in Offsets
        BY SlotShape
      <4>. QED
        BY <4>1 DEF Offsets
    <3>. QED
      BY <2>1, <2>2, <3>1, LinkIsNext
  <2>4. Scanning'
    <3>1. CASE op = "dir"
      <4>. DEFINE m == ClusterSlots
                  l == listed \cup Reported({o \in Offsets : o < m})
      <4>1. {o \in Offsets : o < m} = Offsets /\ m \in Nat
        BY OffsetsBelow
      <4>2. \A o \in HasKind({"end"}) : m <= o
        BY <1>1, <3>1 DEF LeavesAt
      <4>3. /\ \A s \in SlotIds : Before(s[1], cur) \/ (s[1] = cur /\ s[2] < m) =>
                 dir[s].kind # "end" /\ (IsFile(dir[s]) => s \in l)
            /\ \A s \in l : IsFile(dir[s])
        BY <1>1, <3>1, <4>1, <4>2, ListTo
      <4>4. listed' = l
        BY <1>1, <3>1, <4>1
      <4>. HIDE DEF l
      <4>. QED
        BY <1>1, <2>1, <2>3, <3>1, <4>3, <4>4 DEF Scanning, Passed
    <3>2. CASE op # "dir"
      <4>1. ClusterSlots \in Nat /\ \A o \in LeavesAt : ClusterSlots <= o
        BY <1>1
      <4>2. PassedTo(ClusterSlots)
        BY <1>1, <3>2, <4>1, ScanTo
      <4>3. \A s \in SlotIds : Passed(s) => Passed(s)'
        BY <1>1, <2>1, <3>2 DEF Passed, FilesNamed
      <4>. QED
        BY <2>1, <2>3, <3>2, <4>2, <4>3 DEF Scanning, PassedTo
    <3>. QED
      BY <3>1, <3>2
  <2>5. CallInv'
    BY <1>1, <2>1 DEF CallInv, Running, Phases
  <2>. QED
    BY <1>1, <2>4, <2>5 DEF ScanInv
<1>3. CASE ~ InChain(NextLink(cur))
  <2>1. pc' = "idle" /\ cur' = RootChain[1]
    BY <1>3 DEF ScanNextCluster, Return, Locals
  <2>. QED
    BY <1>1, <2>1 DEF ScanInv, CallInv, Scanning, Running
<1>. QED
  BY <1>2, <1>3

\* What the scan has found: the slots ahead were passed.
LEMMA FoundScan ==
  ASSUME TypeOK, ScanInv, ScanFreeSlot \/ ScanMatch
  PROVE  ScanInv'
<1>1. pc = "scan" /\ dir' = dir /\ op' = op /\ name' = name /\ rc' = rc /\ rc = 0 /\ op \in Ops
  BY DEF ScanFreeSlot, ScanMatch, disk, call, ScanInv, CallInv, Running, Phases
<1>2. CASE ScanFreeSlot
  <2>1. PICK o \in Offsets : FirstAt(o, LeavesAt) /\ slot' = <<cur, o>>
    BY <1>2 DEF ScanFreeSlot, FoundSlot
  <2>2. op = "create" /\ pc' = "alloc"
    BY <1>2 DEF ScanFreeSlot
  <2>3. o \in Nat /\ \A q \in LeavesAt : o <= q
    BY <2>1 DEF FirstAt, Offsets
  <2>4. PassedTo(o)
    BY <1>1, <2>2, <2>3, ScanTo
  <2>5. \A s \in SlotIds : Ahead(s, slot') => dir[s].kind \notin {"end", "deleted"}
    BY <2>1, <2>2, <2>4 DEF Ahead, PassedTo, Passed
  <2>. QED
    BY <1>1, <2>2, <2>5 DEF ScanInv, CallInv, Scanning, Running, Phases
<1>3. CASE ScanMatch
  <2>1. PICK o \in Matches : slot' = <<cur, o>>
    BY <1>3 DEF ScanMatch, FoundSlot
  <2>2. o \in Offsets
    BY <2>1 DEF Matches, HasKind
  <2>3. slot' \in FilesNamed(name)
    BY <2>1, <2>2, FoundSlots DEF FilesNamed
  <2>4. pc' \in {"erase", "read"} /\ (pc' = "read" => op = "type")
    BY <1>3 DEF ScanMatch
  <2>5. (FilesNamed(name))' = FilesNamed(name)
    BY <1>1 DEF FilesNamed
  <2>. QED
    BY <1>1, <2>3, <2>4, <2>5 DEF ScanInv, CallInv, Scanning, Running, Phases
<1>. QED
  BY <1>2, <1>3

\* The entry goes into the first slot that is free: what was behind an end mark
\* is behind it.
LEMMA WriteEntryScan ==
  ASSUME TypeOK, ScanInv, SlotInv, WriteEntry
  PROVE  ScanInv'
<1>1. /\ pc = "dirwrite" /\ pc' = "mark" /\ op' = op /\ rc' = rc /\ rc = 0 /\ op \in Ops
      /\ slot \in SlotIds
      /\ dir' = dir \/ dir' = [dir EXCEPT ![slot] = NewEntry]
  BY DEF WriteEntry, call, ScanInv, CallInv, Running, Phases, TypeOK
<1>2. \A s \in SlotIds : Ahead(s, slot) => dir[s].kind \notin {"end", "deleted"}
  BY <1>1 DEF ScanInv, CallInv
<1>3. NothingBehind(dir')
  <2>1. CASE dir' = dir
    BY <2>1 DEF ScanInv
  <2>2. CASE dir' = [dir EXCEPT ![slot] = NewEntry]
    <3>1. SUFFICES ASSUME NEW s \in SlotIds, NEW t \in SlotIds,
                          dir'[s].kind = "end", IsFile(dir'[t])
                   PROVE  Ahead(t, s)
      BY DEF NothingBehind
    <3>2. s # slot /\ dir[s].kind = "end"
      BY <1>1, <2>2, <3>1 DEF TypeOK, NewEntry
    <3>3. CASE t = slot
      BY <1>1, <1>2, <3>2, <3>3, AheadOrder
    <3>4. CASE t # slot
      <4>1. IsFile(dir[t])
        BY <1>1, <2>2, <3>1, <3>4 DEF TypeOK
      <4>. QED
        BY <3>2, <4>1 DEF ScanInv, NothingBehind
    <3>. QED
      BY <3>3, <3>4
  <2>. QED
    BY <1>1, <2>1, <2>2
<1>. QED
  BY <1>1, <1>3 DEF ScanInv, CallInv, Scanning, Running, Phases

\* A deleted slot is no end mark.
LEMMA EraseEntryScan ==
  ASSUME TypeOK, ScanInv, EraseEntry
  PROVE  ScanInv'
<1>1. /\ pc = "erase" /\ pc' = "free" /\ op' = op /\ rc' = rc /\ rc = 0 /\ op \in Ops
      /\ dir' = dir \/ dir' = [dir EXCEPT ![slot] = Deleted]
  BY DEF EraseEntry, call, ScanInv, CallInv, Running, Phases
<1>2. \A s \in SlotIds : dir'[s] = dir[s] \/ dir'[s].kind = "deleted"
  BY <1>1 DEF TypeOK, Deleted
<1>3. NothingBehind(dir')
  <2>. SUFFICES ASSUME NEW s \in SlotIds, NEW t \in SlotIds,
                       dir'[s].kind = "end", IsFile(dir'[t])
                PROVE  Ahead(t, s)
    BY DEF NothingBehind
  <2>1. dir[s].kind = "end" /\ IsFile(dir[t])
    BY <1>2 DEF IsFile
  <2>. QED
    BY <2>1 DEF ScanInv, NothingBehind
<1>. QED
  BY <1>1, <1>3 DEF ScanInv, CallInv, Scanning, Running, Phases

\* The steps that neither scan nor write to the directory.
LEMMA OtherScan ==
  ASSUME TypeOK, ScanInv,
         \/ ScanEndMark \/ AllocCluster \/ MarkCluster \/ FreeCluster \/ FreeDone
         \/ ReadCluster \/ ReadDone \/ PowerLoss \/ Boot
  PROVE  ScanInv'
<1>1. dir' = dir /\ NothingBehind(dir')
  BY DEF ScanEndMark, AllocCluster, MarkCluster, FreeCluster, FreeDone, ReadCluster,
         ReadDone, PowerLoss, Boot, disk, ScanInv
<1>2. CASE ScanEndMark \/ MarkCluster \/ FreeDone \/ ReadDone
  <2>1. pc' = "idle" /\ cur' = RootChain[1]
    BY <1>2 DEF ScanEndMark, MarkCluster, FreeDone, ReadDone, Return, Locals
  <2>. QED
    BY <1>1, <2>1 DEF ScanInv, CallInv, Scanning, Running
<1>3. CASE PowerLoss
  <2>1. pc' = "off" /\ cur' = RootChain[1]
    BY <1>3 DEF PowerLoss, Locals
  <2>. QED
    BY <1>1, <2>1 DEF ScanInv, CallInv, Scanning, Running
<1>4. CASE Boot
  <2>1. pc = "off" /\ pc' = "idle" /\ cur' = cur
    BY <1>4 DEF Boot
  <2>. QED
    BY <1>1, <2>1 DEF ScanInv, CallInv, Scanning, Running
<1>5. CASE AllocCluster \/ FreeCluster \/ ReadCluster
  <2>1. /\ UNCHANGED <<op, name, slot, rc>>
        /\ pc' = pc \/ (pc = "alloc" /\ pc' = "dirwrite")
        /\ pc \in {"alloc", "free", "read"}
    BY <1>5 DEF AllocCluster, FreeCluster, ReadCluster, call
  <2>2. (FilesNamed(name))' = FilesNamed(name)
    BY <1>1, <2>1 DEF FilesNamed
  <2>. QED
    BY <1>1, <2>1, <2>2 DEF ScanInv, CallInv, Scanning, Running, Phases
<1>. QED
  BY <1>2, <1>3, <1>4, <1>5

\* Every step keeps what the scans know.
LEMMA ScanStep == IInv /\ ScanInv /\ [Next]_vars => ScanInv'
<1>. SUFFICES ASSUME IInv, ScanInv, [Next]_vars PROVE ScanInv'
  OBVIOUS
<1>1. TypeOK /\ RootIntact /\ SlotInv
  BY DEF IInv, RootInv, FilesInv
<1>2. CASE UNCHANGED vars
  BY <1>2 DEF vars, ScanInv, CallInv, Scanning, Passed, FilesNamed
<1>3. ASSUME NEW o \in Ops, NEW n \in Names, Call(o, n) PROVE ScanInv'
  BY <1>1, <1>3, CallScan
<1>4. CASE Driver \/ PowerLoss \/ Boot
  BY <1>1, <1>4, NextClusterScan, FoundScan, WriteEntryScan, EraseEntryScan, OtherScan DEF Driver
<1>. QED
  BY <1>2, <1>3, <1>4 DEF Next

\* On a volume without a file behind an end mark fat32_dir_list reports every
\* entry in use: create never leaves one behind an end mark, whatever power
\* losses and refused writes came between.
THEOREM DirAlwaysListsAll == OrderedImages => (Spec => DirListsAll)
<1>. SUFFICES ASSUME OrderedImages PROVE Spec => DirListsAll
  OBVIOUS
<1>. DEFINE Whole == op = "dir" /\ pc = "scan" /\ pc' = "idle" =>
                       listed' = {s \in SlotIds : IsFile(dir[s])}
<1>1. Init => ScanInv
  BY ScanInit
<1>2. IInv /\ ScanInv /\ [Next]_vars => [Whole]_vars
  <2>. SUFFICES ASSUME IInv, ScanInv, Next, op = "dir", pc = "scan", pc' = "idle"
                PROVE  listed' = {s \in SlotIds : IsFile(dir[s])}
    OBVIOUS
  <2>1. ScanNextCluster \/ ScanEndMark
    BY DEF Next, Driver, Call, ScanFreeSlot, ScanMatch, AllocCluster, WriteEntry, MarkCluster,
           EraseEntry, FreeCluster, FreeDone, ReadCluster, ReadDone, PowerLoss, Boot
  <2>. QED
    BY <2>1, ListsAll DEF IInv, RootInv
<1>. QED
  BY <1>1, <1>2, ScanStep, IInvInductive, PTL DEF Spec, DirListsAll

-----------------------------------------------------------------------------
(* The driver as a bag of names.                                           *)

\* The state FileStore sees.
Files == [n \in Names |-> Cardinality(FilesNamed(n))]
Phase == CASE pc \in {"off", "idle"} -> pc
           [] pc \in {"mark", "free"} -> "done"
           [] OTHER -> "open"
Ok == rc = 0

\* The phase of FileStore that each point of the driver is in.
LEMMA PhaseIs ==
  /\ pc \in {"off", "idle"} => Phase = pc
  /\ pc \in {"mark", "free"} => Phase = "done"
  /\ pc \in {"scan", "alloc", "dirwrite", "erase", "read"} => Phase = "open"
BY DEF Phase

\* Files can be counted.
LEMMA Counted ==
  ASSUME NEW n
  PROVE  /\ IsFiniteSet(FilesNamed(n)) /\ Cardinality(FilesNamed(n)) \in Nat
         /\ Cardinality(FilesNamed(n)) = 0 <=> FilesNamed(n) = {}
<1>1. IsFiniteSet(RootClusters)
  <2>1. IsFiniteSet(2 .. LastCluster)
    <3>1. 2 \in Int /\ LastCluster \in Int
      OBVIOUS
    <3>. QED
      BY <3>1, FS_Interval
  <2>. QED
    BY <2>1, RootClustersInVolume, FS_Subset
<1>2. IsFiniteSet(Offsets)
  <2>1. 0 \in Int /\ ClusterSlots - 1 \in Int
    BY OffsetsBelow
  <2>. QED
    BY <2>1, FS_Interval DEF Offsets
<1>3. IsFiniteSet(SlotIds)
  BY <1>1, <1>2, FS_Product DEF SlotIds
<1>4. FilesNamed(n) \in SUBSET SlotIds
  BY DEF FilesNamed
<1>5. IsFiniteSet(FilesNamed(n))
  BY <1>3, <1>4, FS_Subset
<1>. QED
  BY <1>5, FS_CardinalityType, FS_EmptySet

\* One slot more, or less, that holds a file of a name.
LEMMA OneMore ==
  ASSUME NEW n \in Names, NEW s, s \notin FilesNamed(n),
         FilesNamed(n)' = FilesNamed(n) \cup {s},
         \A m \in Names : m # n => FilesNamed(m)' = FilesNamed(m)
  PROVE  Files' = [Files EXCEPT ![n] = @ + 1]
<1>1. Cardinality(FilesNamed(n) \cup {s}) = Cardinality(FilesNamed(n)) + 1
  BY Counted, FS_AddElement
<1>2. Files' = [m \in Names |-> Cardinality(FilesNamed(m)')]
  BY DEF Files
<1>3. \A m \in Names : Cardinality(FilesNamed(m)') =
                         IF m = n THEN Cardinality(FilesNamed(n)) + 1 ELSE Cardinality(FilesNamed(m))
  BY <1>1
<1>. QED
  BY <1>2, <1>3 DEF Files

\* Taking one slot from a name takes one from its count and no other.
LEMMA OneLess ==
  ASSUME NEW n \in Names, NEW s, s \in FilesNamed(n),
         FilesNamed(n)' = FilesNamed(n) \ {s},
         \A m \in Names : m # n => FilesNamed(m)' = FilesNamed(m)
  PROVE  Files' = [Files EXCEPT ![n] = @ - 1]
<1>1. Cardinality(FilesNamed(n) \ {s}) = Cardinality(FilesNamed(n)) - 1
  BY Counted, FS_RemoveElement
<1>2. Files' = [m \in Names |-> Cardinality(FilesNamed(m)')]
  BY DEF Files
<1>3. \A m \in Names : Cardinality(FilesNamed(m)') =
                         IF m = n THEN Cardinality(FilesNamed(n)) - 1 ELSE Cardinality(FilesNamed(m))
  BY <1>1
<1>. QED
  BY <1>2, <1>3 DEF Files

\* Without a write to the directory the bag is what it was.
LEMMA SameFiles == dir' = dir => Files' = Files
BY DEF Files, FilesNamed

\* How many files of a name there are decides whether it is there.
LEMMA IsThere ==
  ASSUME NEW n \in Names
  PROVE  Files[n] \in Nat /\ (Files[n] = 0 <=> FilesNamed(n) = {})
BY Counted DEF Files

\* The steps of FileStore, by the names above.
LEMMA StoreStutters ==
  UNCHANGED <<Files, Phase, op, name, Ok, faults>> => UNCHANGED Store!vars
BY Zenon DEF Store!vars, Files, Phase, Ok

\* The entry of a call, as a step of FileStore.
LEMMA StoreCall ==
  ASSUME NEW o \in Ops, NEW n \in Names,
         Phase = "idle", Phase' = "open", op' = o, name' = n, Ok' = TRUE,
         UNCHANGED <<Files, faults>>
  PROVE  Store!Next
<1>1. Store!Call(o, n)
  BY Zenon DEF Store!Call, Files, Phase, Ok
<1>. QED
  BY <1>1 DEF Store!Next, Ops

\* The write of the directory by create or delete, refused or not, as a step of FileStore.
LEMMA StoreChange ==
  ASSUME Phase = "open", Phase' = "done", UNCHANGED <<op, name, Ok>>,
         \/ op = "create" /\ Files' = [Files EXCEPT ![name] = @ + 1] /\ faults' = faults
         \/ op = "delete" /\ Files[name] > 0 /\ Files' = [Files EXCEPT ![name] = @ - 1]
              /\ faults' = faults
         \/ op = "create" /\ Files' = Files /\ faults' = faults + 1
         \/ op = "delete" /\ Files[name] > 0 /\ Files' = Files /\ faults' = faults + 1
  PROVE  Store!Next
<1>1. CASE op = "create" /\ Files' = [Files EXCEPT ![name] = @ + 1] /\ faults' = faults
  BY <1>1, Zenon DEF Store!Create, Store!Next, Files, Phase, Ok
<1>2. CASE op = "delete" /\ Files[name] > 0 /\ Files' = [Files EXCEPT ![name] = @ - 1]
             /\ faults' = faults
  BY <1>2, Zenon DEF Store!Delete, Store!Next, Files, Phase, Ok
<1>3. CASE Files' = Files /\ faults' = faults + 1
  <2>1. op \in {"create", "delete"} /\ (op = "delete" => Files[name] > 0)
    OBVIOUS
  <2>. QED
    BY <1>3, <2>1, Zenon DEF Store!Lose, Store!Next, Files, Phase, Ok
<1>. QED
  BY <1>1, <1>2, <1>3

\* A later write that is refused, as a step of FileStore.
LEMMA StoreSpoil ==
  ASSUME Phase = "done", faults' = faults + 1, UNCHANGED <<Files, Phase, op, name, Ok>>
  PROVE  Store!Next
BY Zenon DEF Store!Spoil, Store!Next, Files, Phase, Ok

\* How a call ends.
LEMMA StoreReturn ==
  ASSUME Phase' = "idle", op' = "none", name' = NoName, Files' = Files,
         \/ Phase = "done" /\ faults' \in {faults, faults + 1} /\ Ok' = Ok
         \/ /\ Phase = "open" /\ faults' = faults /\ Ok' = Ok /\ op \in {"type", "dir"}
            /\ op = "type" => Files[name] > 0
         \/ /\ Phase = "open" /\ faults' = faults /\ Ok' = FALSE
            /\ op \in {"create", "delete", "type"} /\ (op # "create" => Files[name] = 0)
  PROVE  Store!Next
<1>1. CASE Phase = "done" /\ faults' \in {faults, faults + 1} /\ Ok' = Ok
  BY <1>1, Zenon DEF Store!Succeed, Store!NoCall, Store!Next, Files, Phase, Ok
<1>2. CASE /\ Phase = "open" /\ faults' = faults /\ Ok' = Ok /\ op \in {"type", "dir"}
           /\ op = "type" => Files[name] > 0
  BY <1>2, Zenon DEF Store!Answer, Store!NoCall, Store!Next, Files, Phase, Ok
<1>3. CASE /\ Phase = "open" /\ faults' = faults /\ Ok' = FALSE
           /\ op \in {"create", "delete", "type"} /\ (op # "create" => Files[name] = 0)
  BY <1>3, Zenon DEF Store!Fail, Store!NoCall, Store!Next, Files, Phase, Ok
<1>. QED
  BY <1>1, <1>2, <1>3

\* Loss of power and boot, as steps of FileStore.
LEMMA StorePower ==
  ASSUME Files' = Files,
         \/ /\ Phase \in {"open", "done"} /\ Phase' = "off" /\ Ok' = TRUE
            /\ op' = "none" /\ name' = NoName /\ faults' = faults + 1
         \/ /\ Phase = "off" /\ Phase' = "idle" /\ UNCHANGED <<op, name, Ok, faults>>
  PROVE  Store!Next
<1>1. CASE /\ Phase \in {"open", "done"} /\ Phase' = "off" /\ Ok' = TRUE
           /\ op' = "none" /\ name' = NoName /\ faults' = faults + 1
  BY <1>1, Zenon DEF Store!PowerLoss, Store!NoCall, Store!Next, Files, Phase, Ok
<1>2. CASE Phase = "off" /\ Phase' = "idle" /\ UNCHANGED <<op, name, Ok, faults>>
  BY <1>2, Zenon DEF Store!Boot, Store!Next, Files, Phase, Ok
<1>. QED
  BY <1>1, <1>2

-----------------------------------------------------------------------------
(* Every step of the driver is one of FileStore, or none.                  *)

\* What a running call is called with, and that it has not failed yet.
LEMMA RunningCall ==
  ASSUME TypeOK, ScanInv, pc \in Running
  PROVE  rc = 0 /\ Ok /\ op \in Ops /\ name \in Names
BY DEF TypeOK, ScanInv, CallInv, Ok

\* The scan ends in the file's slot or create's, or goes on: nothing to be seen.
LEMMA QuietSteps ==
  ASSUME ScanFreeSlot \/ ScanMatch \/ AllocCluster \/ ReadCluster
           \/ (ScanNextCluster /\ InChain(NextLink(cur)))
  PROVE  UNCHANGED Store!vars
<1>1. /\ dir' = dir /\ UNCHANGED <<op, name, rc, faults>>
      /\ pc \in {"scan", "alloc", "read"} /\ pc' \in {"scan", "alloc", "dirwrite", "erase", "read"}
  BY DEF ScanFreeSlot, ScanMatch, AllocCluster, ReadCluster, ScanNextCluster, disk, call
<1>2. Phase = "open" /\ Phase' = "open"
  BY <1>1, Zenon DEF Phase
<1>3. Ok' = Ok
  BY <1>1 DEF Ok
<1>. QED
  BY <1>1, <1>2, <1>3, SameFiles, StoreStutters

\* A scan that returns: dir has its answer, create has no room, or the name is
\* not there.
LEMMA ScanReturns ==
  ASSUME TypeOK, RootIntact, ScanInv,
         \/ ScanNextCluster /\ ~ InChain(NextLink(cur))
         \/ ScanEndMark
  PROVE  Store!Next
<1>1. /\ pc = "scan" /\ pc' = "idle" /\ op' = "none" /\ name' = NoName /\ dir' = dir
      /\ faults' = faults
  BY DEF ScanNextCluster, ScanEndMark, Return, disk
<1>2. rc = 0 /\ Ok /\ op \in Ops /\ name \in Names
  BY <1>1, RunningCall DEF Running, Phases
<1>3. Phase = "open" /\ Phase' = "idle" /\ Files' = Files
  BY <1>1, SameFiles, Zenon DEF Phase
<1>4. CASE op = "dir"
  <2>1. rc' = 0
    BY <1>4 DEF ScanNextCluster, ScanEndMark, Return
  <2>2. Ok' = Ok
    BY <1>2, <2>1 DEF Ok
  <2>. QED
    BY <1>1, <1>3, <1>4, <2>2, StoreReturn
<1>5. CASE op = "create"
  <2>1. rc' = -2
    BY <1>5 DEF ScanNextCluster, ScanEndMark, Return
  <2>2. Ok' = FALSE
    BY <2>1 DEF Ok
  <2>. QED
    BY <1>1, <1>3, <1>5, <2>2, StoreReturn
<1>6. CASE op \in {"delete", "type"}
  <2>1. rc' = -1
    BY <1>6 DEF ScanNextCluster, ScanEndMark, Return
  <2>2. Ok' = FALSE
    BY <2>1 DEF Ok
  <2>3. FilesNamed(name) = {}
    BY <1>1, <1>6, NotThere
  <2>4. Files[name] = 0
    BY <1>2, <2>3, IsThere
  <2>. QED
    BY <1>1, <1>3, <1>6, <2>2, <2>4, StoreReturn
<1>. QED
  BY <1>2, <1>4, <1>5, <1>6 DEF Ops

\* create's directory write makes one file more of its name.
LEMMA WriteEntryStore ==
  ASSUME TypeOK, ScanInv, SlotInv, WriteEntry
  PROVE  Store!Next
<1>1. /\ pc = "dirwrite" /\ pc' = "mark" /\ UNCHANGED <<op, name, rc>>
      /\ op = "create" /\ ~ IsFile(dir[slot]) /\ slot \in SlotIds
  BY DEF WriteEntry, call, SlotInv, TypeOK
<1>2. PICK n \in Names : n = name
  BY <1>1, RunningCall DEF Running, Phases
<1>3. Phase = "open" /\ Phase' = "done" /\ Ok' = Ok
  BY <1>1, Zenon DEF Phase, Ok
<1>4. CASE dir' = [dir EXCEPT ![slot] = NewEntry] /\ faults' = faults
  <2>1. IsFile(NewEntry) /\ NewEntry.name = name
    BY DEF IsFile, NewEntry
  <2>2. \A s \in SlotIds : dir'[s] = IF s = slot THEN NewEntry ELSE dir[s]
    BY <1>1, <1>4 DEF TypeOK
  <2>3. slot \notin FilesNamed(n)
    BY <1>1, <1>2 DEF FilesNamed
  <2>4. FilesNamed(n)' = FilesNamed(n) \cup {slot}
    BY <1>1, <1>2, <2>1, <2>2 DEF FilesNamed
  <2>5. ASSUME NEW m \in Names, m # n PROVE FilesNamed(m)' = FilesNamed(m)
    BY <1>1, <1>2, <2>1, <2>2, <2>5 DEF FilesNamed
  <2>6. Files' = [Files EXCEPT ![n] = @ + 1]
    BY <1>2, <2>3, <2>4, <2>5, OneMore
  <2>. QED
    BY <1>1, <1>2, <1>3, <1>4, <2>6, StoreChange
<1>5. CASE dir' = dir /\ faults' = faults + 1
  BY <1>1, <1>3, <1>5, SameFiles, StoreChange
<1>. QED
  BY <1>4, <1>5 DEF WriteEntry, Refused

\* delete's makes one less.
LEMMA EraseEntryStore ==
  ASSUME TypeOK, ScanInv, SlotInv, EraseEntry
  PROVE  Store!Next
<1>1. /\ pc = "erase" /\ pc' = "free" /\ UNCHANGED <<op, name, rc>>
      /\ op = "delete" /\ IsFile(dir[slot]) /\ dir[slot].name = name /\ slot \in SlotIds
  BY DEF EraseEntry, call, SlotInv, TypeOK
<1>2. PICK n \in Names : n = name
  BY <1>1, RunningCall DEF Running, Phases
<1>3. Phase = "open" /\ Phase' = "done" /\ Ok' = Ok
  BY <1>1, Zenon DEF Phase, Ok
<1>4. slot \in FilesNamed(n)
  BY <1>1, <1>2 DEF FilesNamed
<1>5. Files[n] > 0
  <2>1. Files[n] \in Nat /\ Files[n] # 0
    BY <1>2, <1>4, IsThere
  <2>. QED
    BY <2>1
<1>6. CASE dir' = [dir EXCEPT ![slot] = Deleted] /\ faults' = faults
  <2>1. ~ IsFile(Deleted)
    BY DEF IsFile, Deleted
  <2>2. \A s \in SlotIds : dir'[s] = IF s = slot THEN Deleted ELSE dir[s]
    BY <1>1, <1>6 DEF TypeOK
  <2>3. FilesNamed(n)' = FilesNamed(n) \ {slot}
    BY <1>1, <1>2, <2>1, <2>2 DEF FilesNamed
  <2>4. ASSUME NEW m \in Names, m # n PROVE FilesNamed(m)' = FilesNamed(m)
    BY <1>1, <1>2, <2>1, <2>2, <2>4 DEF FilesNamed
  <2>5. Files' = [Files EXCEPT ![n] = @ - 1]
    BY <1>2, <1>4, <2>3, <2>4, OneLess
  <2>. QED
    BY <1>1, <1>2, <1>3, <1>5, <1>6, <2>5, StoreChange
<1>7. CASE dir' = dir /\ faults' = faults + 1
  BY <1>1, <1>2, <1>3, <1>5, <1>7, SameFiles, StoreChange
<1>. QED
  BY <1>6, <1>7 DEF EraseEntry, Refused

\* What follows the directory write is not seen but for what is refused of it.
LEMMA AfterStore ==
  ASSUME TypeOK, ScanInv, MarkCluster \/ FreeCluster \/ FreeDone \/ ReadDone
  PROVE  Store!Next \/ UNCHANGED Store!vars
<1>1. dir' = dir /\ pc \in {"mark", "free", "read"} /\ Files' = Files
  <2>1. dir' = dir /\ pc \in {"mark", "free", "read"}
    BY DEF MarkCluster, FreeCluster, FreeDone, ReadDone, disk
  <2>. QED
    BY <2>1, SameFiles
<1>2. rc = 0 /\ op \in Ops /\ name \in Names
  BY <1>1, RunningCall DEF Running, Phases
<1>3. faults' \in {faults, faults + 1}
  BY DEF MarkCluster, FreeCluster, FreeDone, ReadDone, Refused
<1>4. CASE FreeCluster
  <2>1. UNCHANGED <<pc, op, name, rc>> /\ pc = "free"
    BY <1>4 DEF FreeCluster, call
  <2>2. Phase = "done" /\ UNCHANGED <<Phase, Ok>>
    BY <2>1, Zenon DEF Phase, Ok
  <2>. QED
    BY <1>1, <1>3, <2>1, <2>2, StoreSpoil, StoreStutters
<1>5. CASE MarkCluster \/ FreeDone \/ ReadDone
  <2>1. pc' = "idle" /\ op' = "none" /\ name' = NoName /\ rc' = 0
    BY <1>5 DEF MarkCluster, FreeDone, ReadDone, Return
  <2>2. Phase' = "idle" /\ Ok' = Ok
    BY <1>2, <2>1, Zenon DEF Phase, Ok
  <2>3. CASE pc \in {"mark", "free"}
    <3>1. Phase = "done"
      BY <2>3, PhaseIs
    <3>. QED
      BY <1>1, <1>3, <2>1, <2>2, <3>1, StoreReturn
  <2>4. CASE pc = "read"
    <3>1. Phase = "open" /\ faults' = faults
      BY <1>5, <2>4, PhaseIs DEF MarkCluster, FreeDone, ReadDone
    <3>2. op = "type" /\ slot \in FilesNamed(name)
      BY <2>4 DEF ScanInv, CallInv
    <3>3. Files[name] > 0
      <4>1. Files[name] \in Nat /\ Files[name] # 0
        BY <1>2, <3>2, IsThere
      <4>. QED
        BY <4>1
    <3>. QED
      BY <1>1, <2>1, <2>2, <3>1, <3>2, <3>3, StoreReturn
  <2>. QED
    BY <1>1, <2>3, <2>4
<1>. QED
  BY <1>4, <1>5

\* The machine around the driver.
LEMMA MachineStore ==
  ASSUME TypeOK, ScanInv,
         PowerLoss \/ Boot \/ \E o \in Ops, n \in Names : Call(o, n)
  PROVE  Store!Next
<1>1. CASE PowerLoss
  <2>1. /\ pc \in Running /\ pc' = "off" /\ op' = "none" /\ name' = NoName /\ rc' = 0
        /\ dir' = dir /\ faults' = faults + 1
    BY <1>1 DEF PowerLoss, disk
  <2>2. Phase \in {"open", "done"}
    <3>1. pc \in {"scan", "alloc", "dirwrite", "erase", "read"} \/ pc \in {"mark", "free"}
      BY <2>1 DEF Running, Phases
    <3>. QED
      BY <3>1, PhaseIs
  <2>3. Phase' = "off" /\ Ok' = TRUE
    BY <2>1, Zenon DEF Phase, Ok
  <2>. QED
    BY <2>1, <2>2, <2>3, SameFiles, StorePower
<1>2. CASE Boot
  <2>1. pc = "off" /\ pc' = "idle" /\ UNCHANGED <<dir, op, name, rc, faults>>
    BY <1>2 DEF Boot, disk, call
  <2>2. Phase = "off" /\ Phase' = "idle" /\ Ok' = Ok
    BY <2>1, Zenon DEF Phase, Ok
  <2>. QED
    BY <2>1, <2>2, SameFiles, StorePower
<1>3. ASSUME NEW o \in Ops, NEW n \in Names, Call(o, n) PROVE Store!Next
  <2>1. /\ pc = "idle" /\ pc' = "scan" /\ op' = o /\ name' = n /\ rc' = 0
        /\ UNCHANGED <<dir, faults>>
    BY <1>3 DEF Call, disk
  <2>2. Phase = "idle" /\ Phase' = "open" /\ Ok' = TRUE
    BY <2>1, Zenon DEF Phase, Ok
  <2>. QED
    BY <2>1, <2>2, SameFiles, StoreCall
<1>. QED
  BY <1>1, <1>2, <1>3

\* Every step of the driver is a step of FileStore, or none.
LEMMA StoreStep == IInv /\ ScanInv /\ [Next]_vars => [Store!Next]_(Store!vars)
<1>. SUFFICES ASSUME IInv, ScanInv, [Next]_vars
              PROVE  Store!Next \/ UNCHANGED Store!vars
  OBVIOUS
<1>1. TypeOK /\ RootIntact /\ SlotInv
  BY DEF IInv, RootInv, FilesInv
<1>2. CASE UNCHANGED vars
  <2>1. UNCHANGED <<Files, Phase, op, name, Ok, faults>>
    BY <1>2, SameFiles DEF vars, Phase, Ok
  <2>. QED
    BY <2>1, StoreStutters
<1>3. CASE PowerLoss \/ Boot \/ \E o \in Ops, n \in Names : Call(o, n)
  BY <1>1, <1>3, MachineStore
<1>4. CASE Driver
  BY <1>1, <1>4, QuietSteps, ScanReturns, WriteEntryStore, EraseEntryStore, AfterStore DEF Driver
<1>. QED
  BY <1>2, <1>3, <1>4 DEF Next

\* Whatever the geometry, whatever has torn the volume and whenever the power
\* goes: a call changes the names of the directory in one step, the write of one
\* directory sector, into what it promises; it fails only if the name is not
\* there or there is no room, and succeeds without an effect only if that write
\* was refused.
THEOREM Implements == OrderedImages => (Spec => ImplementsStore)
<1>. SUFFICES ASSUME OrderedImages PROVE Spec => ImplementsStore
  OBVIOUS
<1>1. Init => ScanInv
  BY ScanInit
<1>2. Init => Store!Init
  <2>. SUFFICES ASSUME Init PROVE Store!Init
    OBVIOUS
  <2>1. pc = "off" /\ op = "none" /\ name = NoName /\ rc = 0 /\ faults = 0
    BY DEF Init
  <2>2. Files \in [Names -> Nat]
    BY Counted DEF Files
  <2>3. Phase = "off" /\ Ok = TRUE
    BY <2>1, Zenon DEF Phase, Ok
  <2>. QED
    BY <2>1, <2>2, <2>3, Zenon DEF Store!Init, Files, Phase, Ok
<1>. QED
  BY <1>1, <1>2, ScanStep, StoreStep, IInvInductive, PTL DEF Spec, ImplementsStore, Store!Spec

=============================================================================
