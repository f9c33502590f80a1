------------------------------- MODULE Volume -------------------------------
(***************************************************************************)
(* What the calls of fat32.c take the disk for: FAT entries and directory  *)
(* slots, written one at a time.  A write goes out in a block with its     *)
(* neighbours, which have just been read: if that read has failed, they    *)
(* come back as anything, but never the element itself or another block.   *)
(***************************************************************************)
EXTENDS Integers

CONSTANTS
  Cells,    \* numbers of FAT entries
  SlotIds,  \* directory slots
  Names,    \* short names
  EOC,      \* the end-of-chain mark create writes
  FatBlock, \* the block each FAT entry is in
  DirBlock  \* the block each directory slot is in

VARIABLES
  link,    \* what each FAT entry says
  slots,   \* what each directory slot says
  failed   \* how many reads have failed

vars == <<link, slots, failed>>

Deleted == [kind |-> "deleted"]
Free == {[kind |-> "end"], Deleted}
Entry(n, c) == [kind |-> "file", name |-> n, clus |-> c, size |-> 0]

\* f becomes g when v is written at x.
Written(f, g, block, x, v) ==
  /\ DOMAIN g = DOMAIN f /\ g[x] = v
  /\ \/ failed' = failed /\ \A y \in DOMAIN f \ {x} : g[y] = f[y]
     \/ failed' = failed + 1 /\ \A y \in DOMAIN f : block[y] # block[x] => g[y] = f[y]

SetLink(x, v) == Written(link, link', FatBlock, x, v) /\ UNCHANGED slots
Put(s, n, c) ==
  slots[s] \in Free /\ Written(slots, slots', DirBlock, s, Entry(n, c)) /\ UNCHANGED link
Erase(s) ==
  slots[s].kind = "file" /\ Written(slots, slots', DirBlock, s, Deleted) /\ UNCHANGED link

Init == DOMAIN link = Cells /\ DOMAIN slots = SlotIds /\ failed = 0

Next ==
  \/ \E x \in Cells, v \in {0, EOC} : SetLink(x, v)
  \/ \E s \in SlotIds, n \in Names, c \in Cells : Put(s, n, c)
  \/ \E s \in SlotIds : Erase(s)

Spec == Init /\ [][Next]_vars

=============================================================================
