----------------------------- MODULE InodeTable -----------------------------
(***************************************************************************)
(* The inodes of a Unix V6++ disk image and the superblock's table of free *)
(* ones (s_ninode_, s_inode_): Disk::alloc_inode, Disk::free_inode and the *)
(* inode loop of FileSystem::format.                                       *)
(*                                                                         *)
(* The table is a cache.  When it is full, free_inode drops the number; it *)
(* is found again by the scan alloc_inode makes when the table runs empty. *)
(***************************************************************************)
EXTENDS Integers, Sequences

CONSTANTS LastInode,   \* last index of inodes_ (6575)
          InodeCap     \* capacity of s_inode_ (100)

ASSUME InodeAssumption ==
  LastInode \in Nat /\ InodeCap \in Nat /\ 1 <= LastInode /\ 1 <= InodeCap

VARIABLES
  ialloc,   \* the inodes with ialloc_ = 1
  s_inode,  \* the first s_ninode_ entries of s_inode_
  ret,      \* what the last alloc_inode returned
  cursor,   \* next inode of format's loop, 0 when no format is running
  owned     \* ghost: inodes handed out by alloc_inode, not freed since

vars == <<ialloc, s_inode, ret, cursor, owned>>

Root == 1                          \* IDX_ROOT_INODE
Inode == Root .. LastInode
Idle == cursor = 0
NoInode == -1

-----------------------------------------------------------------------------
(* find_free_inodes on an empty table: the first InodeCap free inodes, in  *)
(* ascending order, the search beginning behind the root.                  *)

(* Faulty: ialloc_ is not looked at.                                       *)
FreeUnchecked(inUse) == {i \in Inode : i > Root}
Free(inUse) == {i \in Inode : i > Root /\ i \notin inUse}

Ascending(tbl) == \A i, j \in DOMAIN tbl : i < j => tbl[i] < tbl[j]

(* What was passed over lies behind a full table.                          *)
CoversPrefixOf(tbl, S) ==
  \A x \in S : \/ \E i \in DOMAIN tbl : tbl[i] = x
               \/ Len(tbl) = InodeCap /\ tbl[InodeCap] < x

FindFreeInodes(inUse) ==
  {tbl \in UNION {[1 .. n -> Free(inUse)] : n \in 0 .. InodeCap} :
     Ascending(tbl) /\ CoversPrefixOf(tbl, Free(inUse))}

(* Faulty: an empty table stays empty.                                     *)
FilledNever(tbl, inUse) == {tbl}

(* The table alloc_inode works on: an empty one is filled first, ...       *)
Filled(tbl, inUse) == IF tbl = <<>> THEN FindFreeInodes(inUse) ELSE {tbl}

-----------------------------------------------------------------------------
(* ... the last entry is taken, and a table this empties is filled again.  *)
TakeInode ==
  \E tbl \in Filled(s_inode, ialloc) :
    /\ tbl # <<>>
    /\ LET res == tbl[Len(tbl)]
           rest == SubSeq(tbl, 1, Len(tbl) - 1)
       IN /\ ret' = res
          /\ ialloc' = ialloc \cup {res}
          /\ s_inode' \in Filled(rest, ialloc \cup {res})
          /\ owned' = owned \cup {res}

NoInodeLeft ==
  /\ <<>> \in Filled(s_inode, ialloc)
  /\ ret' = NoInode
  /\ UNCHANGED <<ialloc, s_inode, owned>>

AllocInode ==
  /\ Idle
  /\ TakeInode \/ NoInodeLeft
  /\ UNCHANGED cursor

(* Faulty: no check that the table has room; the inode is not formatted.   *)
ReturnInodeAlways(i) ==
  /\ ialloc' = ialloc \ {i}
  /\ s_inode' = Append(s_inode, i)

(* Disk::free_inode.                                                       *)
ReturnInode(i) ==
  /\ ialloc' = ialloc \ {i}
  /\ s_inode' = IF Len(s_inode) < InodeCap THEN Append(s_inode, i) ELSE s_inode

(* A client frees an inode it was handed, when the last link to it goes.   *)
FreeInode(i) ==
  /\ Idle
  /\ i \in owned
  /\ ReturnInode(i)
  /\ owned' = owned \ {i}
  /\ UNCHANGED <<ret, cursor>>

(* FileSystem::format: empty the table, free every inode from the root on, *)
(* then make the root a directory in use.                                  *)
FormatBegin ==
  /\ Idle
  /\ s_inode' = <<>>
  /\ owned' = {}
  /\ cursor' = Root
  /\ UNCHANGED <<ialloc, ret>>

FormatStep ==
  /\ cursor \in Inode
  /\ ReturnInode(cursor)
  /\ cursor' = cursor + 1
  /\ UNCHANGED <<ret, owned>>

FormatRoot ==
  /\ cursor = LastInode + 1
  /\ ialloc' = ialloc \cup {Root}
  /\ cursor' = 0
  /\ UNCHANGED <<s_inode, ret, owned>>

(* The image makeimage leaves: all zeros.                                  *)
Init ==
  /\ ialloc = {}
  /\ s_inode = <<>>
  /\ ret = NoInode
  /\ cursor = 0
  /\ owned = {}

Next ==
  \/ AllocInode
  \/ \E i \in Inode : FreeInode(i)
  \/ FormatBegin
  \/ FormatStep
  \/ FormatRoot

Spec == Init /\ [][Next]_vars

-----------------------------------------------------------------------------
(* Properties.                                                             *)

TypeOK ==
  /\ ialloc \subseteq Inode
  /\ s_inode \in Seq(Inode)
  /\ Len(s_inode) <= InodeCap
  /\ ret \in Inode \cup {NoInode}
  /\ cursor \in 0 .. LastInode + 1
  /\ owned \subseteq Inode

(* The table lists no inode twice and none that somebody owns: no two      *)
(* alloc_inode calls without a free_inode in between return the same one,  *)
(* although a number may leave the table unseen (full table) and come back *)
(* by a scan (v6pp_disk.cpp 350-410).                                      *)
TableSound ==
  /\ \A i, j \in 1 .. Len(s_inode) : s_inode[i] = s_inode[j] => i = j
  /\ \A i \in 1 .. Len(s_inode) : s_inode[i] \notin owned

(* An owned inode is marked in use, so a scan cannot find it; a listed one *)
(* is not marked, except the root, which format lists and then marks.      *)
FlagsAgree ==
  /\ owned \subseteq ialloc
  /\ \A i \in 1 .. Len(s_inode) : s_inode[i] \in ialloc => s_inode[i] = Root

(* While format's loop runs it finds nothing listed that it has not freed  *)
(* itself: a number is never listed twice by formatting a used disk.       *)
FormatProgress ==
  ~Idle => owned = {} /\ \A i \in 1 .. Len(s_inode) : s_inode[i] < cursor

(* alloc_inode fails only when every inode behind the root is in use:      *)
(* numbers dropped by free_inode are not lost.                             *)
FailsOnlyWhenFull ==
  [][AllocInode /\ ret' = NoInode => Inode \ {Root} \subseteq ialloc]_vars

(* The only inode in use that alloc_inode ever hands out again is the      *)
(* root.                                                                   *)
OnlyRootReissued ==
  [][AllocInode /\ ret' \in ialloc => ret' = Root]_vars

(* "Allocates a free inode" (v6pp_disk.cpp 343-346): the inode returned    *)
(* was not in use.  The code breaks this for the root directory.           *)
AllocReturnsFreeInode == [][AllocInode => ret' \notin ialloc]_vars

IInv == TypeOK /\ TableSound /\ FlagsAgree /\ FormatProgress

(* Table and scan together behave like a plain set of free inodes, however *)
(* much the table leaves out.                                              *)
Pool == INSTANCE InodePool WITH Others <- Inode \ {Root},
                                free <- (Inode \ {Root}) \ ialloc
PoolSpec == Pool!Spec
=============================================================================
