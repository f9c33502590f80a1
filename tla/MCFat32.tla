------------------------------ MODULE MCFat32 ------------------------------
(* Small volumes for TLC to check Fat32 on.                                *)
EXTENDS Fat32, TLC

\* The root directory is the chain 2 -> 3, clusters hold two slots, the
\* volume's clusters are 2 .. 6, a FAT copy has one spare entry.
MCRootChain == <<2, 3>>

\* Both copies of a FAT whose entries 0, 1 are the media marks and whose
\* entries from 2 on are those of f.
TwoCopies(f) ==
  LET copy == [y \in 0 .. FatLen - 1 |-> IF y \in DOMAIN f THEN f[y] ELSE IF y < 2 THEN EOC ELSE 0]
  IN [w \in 0 .. FatWords - 1 |-> copy[w % FatLen]]

File(n, x, z) == [kind |-> "file", name |-> n, clus |-> x, size |-> z]
SomeName == CHOOSE n \in Names : TRUE

Dir4(a, b, d, e) ==
  (<<2, 0>> :> a) @@ (<<2, 1>> :> b) @@ (<<3, 0>> :> d) @@ (<<3, 1>> :> e)

RootOnly(mark) == (2 :> 3) @@ (3 :> mark)

\* As a formatter leaves it, with the least of the end marks.
Fresh == [fat |-> TwoCopies(RootOnly(FirstEOC)), dir |-> Dir4(End, End, End, End)]

\* As a host leaves it: a long-name slot, a two-cluster file, a deleted slot
\* and an empty file without a cluster.
Populated ==
  [fat |-> TwoCopies(RootOnly(EOC) @@ (5 :> 6) @@ (6 :> FirstEOC)),
   dir |-> Dir4(LongName, File(SomeName, 5, 2), Deleted, File(SomeName, 0, 0))]

MCImages == {Fresh, Populated}

=============================================================================
