----------------------------- MODULE FileBlocks -----------------------------
(***************************************************************************)
(* The blocks of the files of a Unix V6++ disk image: Disk::read_file,     *)
(* Disk::write_file, Disk::free_inode_blocks and the traversal they share, *)
(* Disk::traverse_blocks_over_inode.                                       *)
(*                                                                         *)
(* An inode addresses its data blocks by Direct slots, then Indirect slots *)
(* that name index blocks, then Secondary slots that name index blocks of  *)
(* index blocks.  Blocks come from the abstract pool that FreeList         *)
(* implements: a set, which promises nothing about which block is next or  *)
(* about the contents of a free block.                                     *)
(*                                                                         *)
(* The loops are taken one step at a time because a step can fail: when    *)
(* the pool is empty the traversal stops where it is, index blocks that    *)
(* are open are not written back, and the inode keeps its new size.        *)
(***************************************************************************)
EXTENDS Integers, Sequences, FiniteSets

CONSTANTS Files,          \* the inodes
          Zone,           \* the blocks of the data zone
          Direct,         \* direct slots of an inode (6)
          Indirect,       \* indirect slots (2)
          Secondary,      \* secondary indirect slots (2)
          Entries,        \* entries of an index block (128)
          MaxSize,        \* bound on the blocks of a file in the model
          Choice(_),      \* the free blocks the list may hand out next
          ReuseDamaged    \* do clients touch files whose write has failed?

ASSUME SlotsAssumption ==
  /\ Direct \in Nat /\ Indirect \in Nat /\ Secondary \in Nat
  /\ Entries \in Nat \ {0}
  /\ MaxSize \in 0 .. Direct + Indirect * Entries + Secondary * Entries * Entries

ASSUME ZoneAssumption == Zone \subseteq Nat \ {0} /\ IsFiniteSet(Zone)

ASSUME ChoiceAssumption ==
  \A S \in SUBSET Zone : S # {} => Choice(S) # {} /\ Choice(S) \subseteq S

ASSUME ReuseAssumption == ReuseDamaged \in BOOLEAN

ASSUME FilesAssumption == Files # {}

VARIABLES
  free,      \* the free blocks, see BlockPool
  content,   \* what a block holds, read as an index block and as file data
  size,      \* d_size_ of each file, in blocks
  addr,      \* idx_direct_, idx_indirect_, idx_secondary_indirect_ of a file
  damaged,   \* ghost: the files whose last write ran out of blocks
  op,        \* the operation that runs: its kind, its file, the size wanted
  left,      \* size_remaining
  at,        \* loop variables, outermost first: a path into the tree
  tabs,      \* idx_block_l2, idx_block_l1: copies of the index blocks open
  blks,      \* the blocks those copies were read from
  buf        \* read_file's destination: block offset to data

vars == <<free, content, size, addr, damaged, op, left, at, tabs, blks, buf>>
walk == <<left, at, tabs, blks>>

Slots == Direct + Indirect + Secondary
Boot == 0          \* an unset slot names block 0, the boot sector
Unknown == -1      \* a word of a block that was not written as an index
Block == Zone \cup {Boot}

Blank == [i \in 1 .. Entries |-> Unknown]
NoData == <<>>
Junk == [tab |-> Blank, data |-> NoData]
IndexBlock(t) == [tab |-> t, data |-> NoData]
DataBlock(d) == [tab |-> Blank, data |-> d]

Idle == op.kind = "idle"
Freeing == op.kind \in {"remove", "rewrite"}
NoBuffer == [k \in 0 .. MaxSize - 1 |-> NoData]
NoOp == [kind |-> "idle", file |-> CHOOSE f \in Files : TRUE, want |-> 0]

-----------------------------------------------------------------------------
(* Where the traversal is.                                                 *)

Level(slot) == IF slot <= Direct THEN 0
               ELSE IF slot <= Direct + Indirect THEN 1 ELSE 2

Depth == Len(at) - 1                       \* index blocks open
Here == at[Depth + 1]                      \* index into the table on top
AtData == Depth = Level(at[1])
LoopDone == \/ left = 0
            \/ Here > IF Depth = 0 THEN Slots ELSE Entries

(* Faulty: the indirect area is left out of the offset; the area of a  *)
(* secondary slot is taken for that of an index block.                     *)
OffsetNoIndirect ==
  CASE Depth = 0 -> at[1] - 1
    [] Depth = 1 -> Direct + Entries * (at[1] - Direct - 1) + at[2] - 1
    [] Depth = 2 -> Direct
                    + (at[1] - Direct - Indirect - 1) * Entries * Entries
                    + (at[2] - 1) * Entries + at[3] - 1

OffsetShortArea ==
  CASE Depth = 0 -> at[1] - 1
    [] Depth = 1 -> Direct + Entries * (at[1] - Direct - 1) + at[2] - 1
    [] Depth = 2 -> Direct + Indirect * Entries
                    + (at[1] - Direct - Indirect - 1) * Entries
                    + (at[2] - 1) * Entries + at[3] - 1

(* file_offset of the data block at this place, in blocks.                 *)
Offset ==
  CASE Depth = 0 -> at[1] - 1
    [] Depth = 1 -> Direct + Entries * (at[1] - Direct - 1) + at[2] - 1
    [] Depth = 2 -> Direct + Indirect * Entries
                    + (at[1] - Direct - Indirect - 1) * Entries * Entries
                    + (at[2] - 1) * Entries + at[3] - 1

Advance(path) == [path EXCEPT ![Len(path)] = @ + 1]
Pop(seq) == SubSeq(seq, 1, Len(seq) - 1)

OldBlock == IF Depth = 0 THEN addr[op.file][Here] ELSE tabs[Depth][Here]

(* Faulty: the inode keeps its old number.                                 *)
AddrUnchanged(b) == addr

(* The slot here set to b: in the inode itself or, until it is torn down,  *)
(* in the copy of an index block.                                          *)
AddrWith(b) == IF Depth = 0 THEN [addr EXCEPT ![op.file][Here] = b] ELSE addr
TabsWith(b) == IF Depth = 0 THEN tabs ELSE [tabs EXCEPT ![Depth][Here] = b]

(* Faulty: the size is rounded up once more.                               *)
BeginOneMore(n) == left' = n + 1 /\ at' = <<1>> /\ tabs' = <<>> /\ blks' = <<>>
Begin(n) == left' = n /\ at' = <<1>> /\ tabs' = <<>> /\ blks' = <<>>

(* A block number read from a slot: an unknown word may name any block;    *)
(* Boot stands for those outside the data zone.                            *)
Named(w) == IF w = Unknown THEN Block ELSE {w}

Release(b) == free' = free \cup {b} /\ content' = [content EXCEPT ![b] = Junk]
Allocate(b) == free # {} /\ b \in Choice(free) /\ free' = free \ {b}

-----------------------------------------------------------------------------
(* One step of traverse_blocks_over_inode.                                 *)

(* A data block: direct_block_process_ and direct_block_teardown_.         *)
VisitData ==
  /\ ~Idle /\ ~LoopDone /\ AtData
  /\ \/ /\ op.kind = "read"
        /\ \E b \in Named(OldBlock) : buf' = [buf EXCEPT ![Offset] = content[b].data]
        /\ UNCHANGED <<free, content, addr, tabs>>
     \/ /\ Freeing
        /\ \E b \in Named(OldBlock) : Release(b)
        /\ UNCHANGED <<addr, tabs, buf>>
     \/ /\ op.kind = "write"
        /\ \E b \in Block :
             /\ Allocate(b)
             /\ addr' = AddrWith(b) /\ tabs' = TabsWith(b)
             /\ content' = [content EXCEPT ![b] = DataBlock(<<op.file, Offset>>)]
        /\ UNCHANGED buf
  /\ left' = left - 1
  /\ at' = Advance(at)
  /\ UNCHANGED <<size, damaged, op, blks>>

(* An index block is read into a copy, a new one with whatever is in it.   *)
OpenIndex ==
  /\ ~Idle /\ ~LoopDone /\ ~AtData
  /\ \E b \in Block :
       /\ \/ op.kind = "write" /\ Allocate(b)
          \/ op.kind # "write" /\ b \in Named(OldBlock) /\ UNCHANGED free
       /\ addr' = AddrWith(b)
       /\ tabs' = Append(TabsWith(b), content[b].tab)
       /\ blks' = Append(blks, b)
  /\ at' = Append(at, 1)
  /\ UNCHANGED <<content, size, damaged, op, left, buf>>

(* Faulty: the default mixin, which writes nothing back and frees nothing. *)
CloseIndexNoWriteBack ==
  /\ ~Idle /\ LoopDone /\ Depth > 0
  /\ IF Freeing THEN Release(blks[Depth]) ELSE UNCHANGED <<free, content>>
  /\ at' = Advance(Pop(at))
  /\ tabs' = Pop(tabs)
  /\ blks' = Pop(blks)
  /\ UNCHANGED <<size, addr, damaged, op, left, buf>>

CloseIndexNoFree ==
  /\ ~Idle /\ LoopDone /\ Depth > 0
  /\ content' = IF op.kind = "write"
                THEN [content EXCEPT ![blks[Depth]] = IndexBlock(tabs[Depth])]
                ELSE content
  /\ at' = Advance(Pop(at))
  /\ tabs' = Pop(tabs)
  /\ blks' = Pop(blks)
  /\ UNCHANGED <<free, size, addr, damaged, op, left, buf>>

(* indirect_block_teardown_: write_file writes the copy back, freeing      *)
(* gives the index block up.                                               *)
CloseIndex ==
  /\ ~Idle /\ LoopDone /\ Depth > 0
  /\ CASE op.kind = "write" ->
             /\ content' = [content EXCEPT ![blks[Depth]] = IndexBlock(tabs[Depth])]
             /\ UNCHANGED free
       [] Freeing -> Release(blks[Depth])
       [] OTHER -> UNCHANGED <<free, content>>
  /\ at' = Advance(Pop(at))
  /\ tabs' = Pop(tabs)
  /\ blks' = Pop(blks)
  /\ UNCHANGED <<size, addr, damaged, op, left, buf>>

(* Faulty: a write that finds no block waits for one.                      *)
WriteWaits ==
  /\ op.kind = "write" /\ ~LoopDone
  /\ free = {}
  /\ UNCHANGED vars

(* alloc_block returned -1: failure_handler_ throws out of write_file.     *)
WriteFails ==
  /\ op.kind = "write" /\ ~LoopDone
  /\ free = {}
  /\ damaged' = [damaged EXCEPT ![op.file] = TRUE]
  /\ op' = NoOp
  /\ Begin(0)
  /\ UNCHANGED <<free, content, size, addr, buf>>

-----------------------------------------------------------------------------
(* The operations.                                                         *)

MayUse(f) == damaged[f] => ReuseDamaged

(* free_inode_blocks, alone or as the first thing write_file does.         *)
StartFreeing(f, kind, n) ==
  /\ Idle /\ MayUse(f)
  /\ op' = [kind |-> kind, file |-> f, want |-> n]
  /\ Begin(size[f])
  /\ UNCHANGED <<free, content, size, addr, damaged, buf>>

StartRead(f) ==
  /\ Idle
  /\ op' = [kind |-> "read", file |-> f, want |-> size[f]]
  /\ buf' = NoBuffer
  /\ Begin(size[f])
  /\ UNCHANGED <<free, content, size, addr, damaged>>

TraversalDone == ~Idle /\ LoopDone /\ Depth = 0

(* Or the word names no block of the disk: an exception ends the traversal *)
(* and index blocks that are open are neither written nor given up.        *)
BadNumber == op.kind \in {"read", "remove", "rewrite"} /\ ~LoopDone /\ OldBlock = Unknown

(* free_inode_blocks clears the inode, whether or not the traversal came   *)
(* to its end; write_file sets the new size and traverses again,           *)
(* allocating.                                                             *)
FreeingDone ==
  /\ Freeing
  /\ TraversalDone \/ BadNumber
  /\ addr' = [addr EXCEPT ![op.file] = [i \in 1 .. Slots |-> Boot]]
  /\ size' = [size EXCEPT ![op.file] = op.want]
  /\ damaged' = [damaged EXCEPT ![op.file] = FALSE]
  /\ op' = IF op.kind = "rewrite" THEN [op EXCEPT !.kind = "write"] ELSE NoOp
  /\ Begin(op.want)
  /\ UNCHANGED <<free, content, buf>>

(* A read or a write ends.                                                 *)
Finish ==
  /\ ~Freeing
  /\ TraversalDone \/ BadNumber
  /\ op' = NoOp
  /\ Begin(0)
  /\ buf' = NoBuffer
  /\ UNCHANGED <<free, content, size, addr, damaged>>

(* A formatted image: every data block free, every file empty.             *)
Init ==
  /\ free = Zone
  /\ content = [b \in Block |-> Junk]
  /\ size = [f \in Files |-> 0]
  /\ addr = [f \in Files |-> [i \in 1 .. Slots |-> Boot]]
  /\ damaged = [f \in Files |-> FALSE]
  /\ op = NoOp
  /\ left = 0 /\ at = <<1>> /\ tabs = <<>> /\ blks = <<>>
  /\ buf = NoBuffer

Step ==
  VisitData \/ OpenIndex \/ CloseIndex \/ WriteFails \/ FreeingDone \/ Finish

Next ==
  \/ Step
  \/ \E f \in Files : \/ StartFreeing(f, "remove", 0)
                      \/ \E n \in 0 .. MaxSize : StartFreeing(f, "rewrite", n)
                      \/ StartRead(f)

(* A traversal that runs is never suspended.                               *)
Spec == Init /\ [][Next]_vars /\ WF_vars(Step)

-----------------------------------------------------------------------------
(* Properties.                                                             *)

TypeOK ==
  /\ free \subseteq Block
  /\ \A b \in Block : /\ content[b].tab \in [1 .. Entries -> Block \cup {Unknown}]
                      /\ content[b].data \in {NoData} \cup Files \X (0 .. MaxSize - 1)
  /\ size \in [Files -> 0 .. MaxSize]
  /\ addr \in [Files -> [1 .. Slots -> Block]]
  /\ damaged \in [Files -> BOOLEAN]
  /\ op.kind \in {"idle", "remove", "rewrite", "write", "read"}
  /\ op.file \in Files /\ op.want \in 0 .. MaxSize
  /\ left \in 0 .. MaxSize
  /\ Len(at) \in 1 .. 3 /\ Len(tabs) = Depth /\ Len(blks) = Depth
  /\ \A d \in 1 .. Depth : blks[d] \in Block

(* The place of the k-th data block of any file, by the on-disk format.    *)
Place(k) ==
  LET l1 == k - Direct
      l2 == l1 - Indirect * Entries
      area == Entries * Entries
  IN CASE l1 < 0 -> <<k + 1>>
       [] l1 >= 0 /\ l2 < 0 ->
            <<Direct + 1 + (l1 \div Entries), 1 + (l1 % Entries)>>
       [] l2 >= 0 ->
            <<Direct + Indirect + 1 + (l2 \div area),
              1 + ((l2 % area) \div Entries), 1 + (l2 % Entries)>>

(* The places of file f that need a block, index blocks included, and the  *)
(* block found at a place.                                                 *)
Places(f) ==
  UNION {{SubSeq(Place(k), 1, d) : d \in 1 .. Len(Place(k))} : k \in 0 .. size[f] - 1}

BlockAt(f, p) ==
  LET b1 == addr[f][p[1]]
      b2 == content[b1].tab[p[2]]
  IN CASE Len(p) = 1 -> b1
       [] Len(p) = 2 -> b2
       [] Len(p) = 3 -> content[b2].tab[p[3]]

Settled(f) == ~damaged[f] /\ (Idle \/ op.file # f \/ op.kind = "read")

(* No block belongs to two places of files, nor to a file and the free     *)
(* list, whatever writes ran out of blocks elsewhere in between.           *)
FilesDisjoint ==
  \A f, g \in {h \in Files : Settled(h)} : \A p \in Places(f), q \in Places(g) :
    /\ BlockAt(f, p) \in Zone \ free
    /\ BlockAt(f, p) = BlockAt(g, q) => f = g /\ p = q

(* As long as no write has failed, every block is free or in a file.       *)
NothingLost ==
  Idle /\ (\A f \in Files : ~damaged[f]) =>
    Zone = free \cup UNION {{BlockAt(f, p) : p \in Places(f)} : f \in Files}

(* What FreeList requires of its clients: free_block is called only for    *)
(* blocks that are in use.                                                 *)
FreesOnlyHeld ==
  Freeing =>
    /\ ~LoopDone => OldBlock \in Zone \ free
    /\ LoopDone /\ Depth > 0 => blks[Depth] \in Zone \ free

(* read_file delivers what the last write_file of the file wrote, each     *)
(* block at its offset.                                                    *)
ReadBack ==
  op.kind = "read" /\ TraversalDone /\ ~damaged[op.file] =>
    \A k \in 0 .. size[op.file] - 1 : buf[k] = <<op.file, k>>

(* Every operation ends.                                                   *)
OperationsEnd == ~Idle ~> Idle

(* Block 0 is the boot sector ("0 boot file sector", defines.hpp 64): it   *)
(* never gets into the free list.  The code breaks this once a file whose  *)
(* write failed is removed or written again.                               *)
BootSectorKept == Boot \notin free
=============================================================================
