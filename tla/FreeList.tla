------------------------------ MODULE FreeList ------------------------------
(***************************************************************************)
(* The free-block list of a Unix V6++ disk image: Disk::alloc_block,       *)
(* Disk::free_block and the block loop of FileSystem::format.              *)
(*                                                                         *)
(* The superblock keeps a table of at most Cap free blocks (s_nfree_,      *)
(* s_free_).  A full table is spilled into the block being freed, which    *)
(* becomes entry 0 of a fresh table; entry 0 of the oldest table is the    *)
(* sentinel 0.  The free list is thus a chain of tables that lives inside  *)
(* the very blocks it describes, and block contents are part of its state. *)
(*                                                                         *)
(* Clients are disciplined here: they free and write only blocks they were *)
(* handed.  FileBlocks drops that assumption where the code does.          *)
(***************************************************************************)
EXTENDS Integers, Sequences

CONSTANTS DiskBlocks,  \* number of blocks of the image (20160)
          FirstData,   \* p_off_data_, first block of the data zone (1024)
          EndData,     \* p_off_data_ + p_size_data_ (18000)
          Cap,         \* capacity of s_free_ (100)
          Payloads     \* what file data reads as when taken for a table

ASSUME LayoutAssumption ==
  /\ DiskBlocks \in Nat /\ FirstData \in Nat /\ EndData \in Nat
  /\ 0 < FirstData /\ FirstData <= EndData /\ EndData <= DiskBlocks

ASSUME CapAssumption == Cap \in Nat /\ Cap >= 2

ASSUME PayloadAssumption == Payloads \subseteq Seq(Nat)

VARIABLES
  s_free,   \* the first s_nfree_ entries of s_free_: s_free[i + 1] = s_free_[i]
  content,  \* what each block reads as when taken for a (s_nfree_, s_free_) table
  ret,      \* what the last alloc_block returned
  cursor,   \* next block of format's loop, EndData when no format is running
  held,     \* ghost: the data blocks that are not free
  links     \* ghost: the blocks that hold spilled tables, oldest first

vars == <<s_free, content, ret, cursor, held, links>>

Block == 0 .. DiskBlocks - 1
DataZone == FirstData .. EndData - 1

(* Faulty variants of a definition, here and below, stand before it; the   *)
(* properties must tell them from the code.  These end format's loop one   *)
(* block late and one block early.                                         *)
IdleOneLate == cursor > EndData
IdleOneEarly == cursor = EndData - 1
Idle == cursor = EndData

NoBlock == -1     \* alloc_block found nothing
Thrown == -2      \* alloc_block threw "invalid block index"

-----------------------------------------------------------------------------
(* Disk::free_block.  The table is full or not after an empty one has got  *)
(* its sentinel.                                                           *)

TableToExtend == IF s_free = <<>> THEN <<0>> ELSE s_free

(* Faulty: the table takes one entry too many; the table is spilled to a   *)
(* block number relative to the data zone.                                 *)
FreeBlockOverfull(idx) ==
  IF Len(TableToExtend) <= Cap
  THEN /\ s_free' = Append(TableToExtend, idx)
       /\ UNCHANGED <<content, links>>
  ELSE /\ content' = [content EXCEPT ![idx] = TableToExtend]
       /\ s_free' = <<idx>>
       /\ links' = Append(links, idx)

FreeBlockRelative(idx) ==
  IF Len(TableToExtend) < Cap
  THEN /\ s_free' = Append(TableToExtend, idx)
       /\ UNCHANGED <<content, links>>
  ELSE /\ content' = [content EXCEPT ![idx - FirstData] = TableToExtend]
       /\ s_free' = <<idx>>
       /\ links' = Append(links, idx)

FreeBlock(idx) ==
  IF Len(TableToExtend) < Cap
  THEN /\ s_free' = Append(TableToExtend, idx)
       /\ UNCHANGED <<content, links>>
  ELSE /\ content' = [content EXCEPT ![idx] = TableToExtend]
       /\ s_free' = <<idx>>
       /\ links' = Append(links, idx)

-----------------------------------------------------------------------------
(* Disk::alloc_block, one operator per case of the code.                   *)

Result(b) == IF b < DiskBlocks THEN b ELSE Thrown

Exhausted ==
  /\ s_free = <<>>
  /\ ret' = NoBlock
  /\ UNCHANGED <<s_free, content, links>>

TakeEntry ==
  /\ Len(s_free) >= 2
  /\ ret' = Result(s_free[Len(s_free)])
  /\ s_free' = SubSeq(s_free, 1, Len(s_free) - 1)
  /\ UNCHANGED <<content, links>>

(* Faulty: the next table is not read.                                     *)
TakeLinkUnread ==
  /\ Len(s_free) = 1
  /\ s_free[1] # 0
  /\ ret' = Result(s_free[1])
  /\ s_free' = <<>>
  /\ links' = SubSeq(links, 1, Len(links) - 1)
  /\ UNCHANGED content

(* Entry 0 is the block that holds the next table: read the table, then    *)
(* hand out the block.  A block past the disk is refused by read_blocks,   *)
(* before the superblock is touched.                                       *)
TakeLink ==
  /\ Len(s_free) = 1
  /\ s_free[1] # 0
  /\ ret' = Result(s_free[1])
  /\ IF s_free[1] < DiskBlocks
     THEN /\ s_free' = content[s_free[1]]
          /\ links' = SubSeq(links, 1, Len(links) - 1)
     ELSE UNCHANGED <<s_free, links>>
  /\ UNCHANGED content

(* Faulty: the sentinel is handed out.                                     *)
TakeSentinelAsBlock ==
  /\ Len(s_free) = 1
  /\ s_free[1] = 0
  /\ ret' = s_free[1]
  /\ s_free' = <<>>
  /\ UNCHANGED <<content, links>>

(* The sentinel: a zero block is copied over the table.                    *)
TakeSentinel ==
  /\ Len(s_free) = 1
  /\ s_free[1] = 0
  /\ ret' = NoBlock
  /\ s_free' = <<>>
  /\ UNCHANGED <<content, links>>

AllocBlock == Exhausted \/ TakeEntry \/ TakeLink \/ TakeSentinel

-----------------------------------------------------------------------------
(* The clients: the traversals that write and free files, and format.      *)

Alloc ==
  /\ Idle
  /\ AllocBlock
  /\ held' = IF ret' \in Block THEN held \cup {ret'} ELSE held
  /\ UNCHANGED cursor

Free(b) ==
  /\ Idle
  /\ b \in held
  /\ FreeBlock(b)
  /\ held' = held \ {b}
  /\ UNCHANGED <<ret, cursor>>

WriteBlock(b, p) ==
  /\ Idle
  /\ b \in held
  /\ content' = [content EXCEPT ![b] = p]
  /\ UNCHANGED <<s_free, ret, cursor, held, links>>

(* superblock_.format(): the list is dropped, every data block is to be    *)
(* released by the loop.                                                   *)
FormatBegin ==
  /\ Idle
  /\ s_free' = <<>>
  /\ links' = <<>>
  /\ held' = DataZone
  /\ cursor' = FirstData
  /\ UNCHANGED <<content, ret>>

FormatStep ==
  /\ ~Idle
  /\ FreeBlock(cursor)
  /\ held' = held \ {cursor}
  /\ cursor' = cursor + 1
  /\ UNCHANGED ret

(* An image just made by makeimage is all zeros and is formatted first.    *)
Init ==
  /\ s_free = <<>>
  /\ content = [b \in Block |-> <<>>]
  /\ ret = NoBlock
  /\ cursor = FirstData
  /\ held = DataZone
  /\ links = <<>>

Next ==
  \/ Alloc
  \/ \E b \in DataZone : Free(b)
  \/ \E b \in DataZone, p \in Payloads : WriteBlock(b, p)
  \/ FormatBegin
  \/ FormatStep

(* format's loop runs in one thread and calls nothing that blocks.         *)
Spec == Init /\ [][Next]_vars /\ WF_vars(FormatStep)

-----------------------------------------------------------------------------
(* Properties.                                                             *)

(* The chain as a sequence of tables: spilled tables, then the superblock. *)
Chain == 1 .. Len(links) + 1
Table(k) == IF k <= Len(links) THEN content[links[k]] ELSE s_free

(* The indices of table k that list free blocks: all but the sentinel.     *)
Listing(k) == (IF k = 1 THEN 2 ELSE 1) .. Len(Table(k))
FreeSet == UNION {{Table(k)[i] : i \in Listing(k)} : k \in Chain}

TypeOK ==
  /\ s_free \in Seq(Nat)
  /\ content \in [Block -> Seq(Nat)]
  /\ ret \in Block \cup {NoBlock, Thrown}
  /\ cursor \in FirstData .. EndData
  /\ held \subseteq DataZone
  /\ links \in Seq(Block)

(* Following entry 0 from the superblock visits full tables only and ends  *)
(* at the sentinel: no spilled table is overwritten while it is linked and *)
(* alloc_block (v6pp_disk.cpp 285-313) never copies file data over the     *)
(* superblock's table.                                                     *)
ChainIntact ==
  /\ \A k \in 1 .. Len(links) : /\ Len(Table(k)) = Cap
                                /\ Table(k + 1) # <<>>
                                /\ Table(k + 1)[1] = links[k]
  /\ s_free # <<>> => Table(1)[1] = 0
  /\ Len(s_free) <= Cap

(* Every data block is either held or listed exactly once in the chain:    *)
(* none is lost, listed twice or listed while a file owns it, and no block *)
(* outside the data zone is listed (the 0 of the sentinel apart).          *)
NoHeldListed ==
  \A k \in Chain : \A i \in Listing(k) : Table(k)[i] \in DataZone \ held

NoneListedTwice ==
  \A k, l \in Chain : \A i \in Listing(k), j \in Listing(l) :
    Table(k)[i] = Table(l)[j] => k = l /\ i = j

NoneLost == DataZone \ held \subseteq FreeSet

FreePartition == NoHeldListed /\ NoneListedTwice /\ NoneLost

(* While format's loop runs, exactly the blocks it has still to visit are  *)
(* missing from the list (v6pp_vfs.cpp 443-446).                           *)
FormatProgress == ~Idle => held = cursor .. EndData - 1

(* Allocating and freeing other blocks never changes a block a file keeps: *)
(* free_block spills its table only into the block being given up.         *)
HeldDataUntouched ==
  [][\A b \in held \cap held' :
        content'[b] # content[b] => \E p \in Payloads : WriteBlock(b, p)]_vars

(* The list implements the abstract pool of blocks.                        *)
Pool == INSTANCE BlockPool WITH Zone <- DataZone, free <- FreeSet
PoolSpec == Pool!Spec

(* A format that was started completes, with the whole data zone free.     *)
FormatFreesAll == ~Idle ~> (Idle /\ held = {})

(* The inductive invariant of the proofs.                                  *)
IInv == TypeOK /\ ChainIntact /\ FreePartition /\ FormatProgress
=============================================================================
