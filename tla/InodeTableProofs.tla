-------------------------- MODULE InodeTableProofs --------------------------
(***************************************************************************)
(* Proofs about InodeTable for every number of inodes and every capacity   *)
(* of s_inode_.                                                            *)
(*                                                                         *)
(* Argument.  TableOK is what the invariant says of the table alone.  It   *)
(* holds of any table find_free_inodes fills, is kept when the last entry  *)
(* is handed out, and when a freed inode is appended or dropped.           *)
(***************************************************************************)
EXTENDS InodeTable, SequenceTheorems, TLAPS

TableOK(tbl, own, inUse) ==
  /\ tbl \in Seq(Inode)
  /\ Len(tbl) <= InodeCap
  /\ \A i, j \in 1 .. Len(tbl) : tbl[i] = tbl[j] => i = j
  /\ \A i \in 1 .. Len(tbl) : tbl[i] \notin own /\ (tbl[i] \in inUse => tbl[i] = Root)

LEMMA InvariantIsTableOK ==
  IInv <=> /\ ialloc \subseteq Inode /\ owned \subseteq ialloc
           /\ ret \in Inode \cup {NoInode} /\ cursor \in 0 .. LastInode + 1
           /\ TableOK(s_inode, owned, ialloc) /\ FormatProgress
BY DEF IInv, TypeOK, TableSound, FlagsAgree, TableOK

(* A scan yields distinct free inodes, none of them the root.              *)
LEMMA ScanOK ==
  ASSUME NEW own, NEW inUse, own \subseteq inUse,
         NEW tbl \in FindFreeInodes(inUse)
  PROVE  TableOK(tbl, own, inUse)
<1> USE InodeAssumption
<1>1. PICK n \in 0 .. InodeCap : tbl \in [1 .. n -> Free(inUse)]
  BY DEF FindFreeInodes
<1>2. tbl \in Seq(Free(inUse)) /\ Len(tbl) = n
  BY <1>1
<1>3. Free(inUse) \subseteq Inode
  BY DEF Free
<1>4. tbl \in Seq(Inode) /\ Len(tbl) <= InodeCap
  BY <1>1, <1>2, <1>3, SeqMonotonic
<1>5. \A i \in 1 .. n : tbl[i] \in Free(inUse) /\ tbl[i] \in Int
  BY <1>1 DEF Free, Inode, Root
<1>6. ASSUME NEW i \in 1 .. n, NEW j \in 1 .. n, tbl[i] = tbl[j]
      PROVE  i = j
  <2>1. \A k, l \in 1 .. n : k < l => tbl[k] < tbl[l]
    BY <1>1 DEF FindFreeInodes, Ascending
  <2>2. ~(i < j) /\ ~(j < i)
    BY <1>5, <1>6, <2>1
  <2> QED BY <2>2
<1> QED BY <1>2, <1>4, <1>5, <1>6 DEF TableOK, Free

LEMMA FilledOK ==
  ASSUME NEW own, NEW inUse, own \subseteq inUse,
         NEW tbl, TableOK(tbl, own, inUse), NEW t \in Filled(tbl, inUse)
  PROVE  TableOK(t, own, inUse)
BY ScanOK DEF Filled

(* Handing out the last entry.                                             *)
LEMMA DropLastOK ==
  ASSUME NEW own, NEW inUse, NEW tbl, TableOK(tbl, own, inUse), tbl # <<>>
  PROVE  /\ tbl[Len(tbl)] \in Inode
         /\ TableOK(SubSeq(tbl, 1, Len(tbl) - 1),
                    own \cup {tbl[Len(tbl)]}, inUse \cup {tbl[Len(tbl)]})
<1> DEFINE rest == SubSeq(tbl, 1, Len(tbl) - 1)
           res == tbl[Len(tbl)]
<1>1. tbl \in Seq(Inode) /\ Len(tbl) \in Nat /\ Len(tbl) >= 1
  BY DEF TableOK
<1>2. rest \in Seq(Inode) /\ Len(rest) <= InodeCap
  BY <1>1, InodeAssumption DEF TableOK
<1>3. \A i \in 1 .. Len(rest) : i \in 1 .. Len(tbl) /\ i # Len(tbl) /\ rest[i] = tbl[i]
  BY <1>1
<1>4. \A i \in 1 .. Len(rest) : rest[i] # res
  BY <1>1, <1>3 DEF TableOK
<1>5. \A i, j \in 1 .. Len(rest) : rest[i] = rest[j] => i = j
  BY <1>3 DEF TableOK
<1>6. \A i \in 1 .. Len(rest) : /\ rest[i] \notin own
                                /\ rest[i] \in inUse => rest[i] = Root
  BY <1>3 DEF TableOK
<1>7. res \in Inode
  BY <1>1, ElementOfSeq
<1> HIDE DEF rest, res
<1>8. TableOK(rest, own \cup {res}, inUse \cup {res})
  BY <1>2, <1>4, <1>5, <1>6 DEF TableOK
<1> QED BY <1>7, <1>8 DEF rest, res

(* A freed inode is appended when there is room, else dropped.             *)
LEMMA ReturnOK ==
  ASSUME NEW i \in Inode, TableOK(s_inode, owned, ialloc),
         \A k \in 1 .. Len(s_inode) : s_inode[k] # i,
         ReturnInode(i)
  PROVE  TableOK(s_inode', owned \ {i}, ialloc')
<1>1. s_inode \in Seq(Inode) /\ Len(s_inode) \in Nat
  BY DEF TableOK
<1>2. CASE Len(s_inode) < InodeCap
  <2>1. s_inode' = Append(s_inode, i) /\ ialloc' = ialloc \ {i}
    BY <1>2 DEF ReturnInode
  <2>2. /\ s_inode' \in Seq(Inode) /\ Len(s_inode') = Len(s_inode) + 1
        /\ \A k \in 1 .. Len(s_inode) : s_inode'[k] = s_inode[k]
        /\ s_inode'[Len(s_inode) + 1] = i
    BY <1>1, <2>1, AppendProperties
  <2> QED BY <1>1, <1>2, <2>1, <2>2, InodeAssumption DEF TableOK
<1>3. CASE ~(Len(s_inode) < InodeCap)
  BY <1>3 DEF TableOK, ReturnInode
<1> QED BY <1>2, <1>3

-----------------------------------------------------------------------------

LEMMA InitIInv == Init => IInv
<1> SUFFICES ASSUME Init PROVE IInv
  OBVIOUS
<1>1. TableOK(<<>>, {}, {})
  BY InodeAssumption DEF TableOK
<1> QED BY <1>1, InvariantIsTableOK, InodeAssumption DEF Init, FormatProgress, Idle

LEMMA TakeInodeStep ==
  ASSUME IInv, Idle, TakeInode, UNCHANGED cursor
  PROVE  IInv'
<1>1. TableOK(s_inode, owned, ialloc) /\ owned \subseteq ialloc
  BY InvariantIsTableOK
<1>2. PICK tbl \in Filled(s_inode, ialloc) :
        /\ tbl # <<>>
        /\ ret' = tbl[Len(tbl)]
        /\ ialloc' = ialloc \cup {tbl[Len(tbl)]}
        /\ s_inode' \in Filled(SubSeq(tbl, 1, Len(tbl) - 1),
                               ialloc \cup {tbl[Len(tbl)]})
        /\ owned' = owned \cup {tbl[Len(tbl)]}
  BY DEF TakeInode
<1>3. TableOK(tbl, owned, ialloc)
  BY <1>1, FilledOK
<1>4. /\ ret' \in Inode
      /\ TableOK(SubSeq(tbl, 1, Len(tbl) - 1), owned', ialloc')
  BY <1>2, <1>3, DropLastOK
<1>5. owned' \subseteq ialloc'
  BY <1>1, <1>2
<1>6. TableOK(s_inode', owned', ialloc')
  BY <1>2, <1>4, <1>5, FilledOK
<1>7. ialloc' \subseteq Inode /\ owned' \subseteq Inode
  BY <1>2, <1>4 DEF IInv, TypeOK
<1> QED BY <1>4, <1>5, <1>6, <1>7
        DEF IInv, TypeOK, TableSound, FlagsAgree, TableOK, FormatProgress, Idle

LEMMA NextIInv == IInv /\ [Next]_vars => IInv'
<1> SUFFICES ASSUME IInv, [Next]_vars PROVE IInv'
  OBVIOUS
<1> USE InodeAssumption
<1>1. CASE AllocInode
  <2>1. CASE TakeInode
    BY <1>1, <2>1, TakeInodeStep DEF AllocInode
  <2>2. CASE NoInodeLeft
    BY <1>1, <2>2
       DEF AllocInode, NoInodeLeft, IInv, TypeOK, TableSound, FlagsAgree, FormatProgress,
           Idle
  <2> QED BY <1>1, <2>1, <2>2 DEF AllocInode
<1>2. ASSUME NEW i \in Inode, FreeInode(i) PROVE IInv'
  <2>1. TableOK(s_inode', owned', ialloc')
    BY <1>2, ReturnOK, InvariantIsTableOK DEF FreeInode, IInv, TableSound
  <2> QED BY <1>2, <2>1
          DEF FreeInode, ReturnInode, IInv, TypeOK, TableSound, FlagsAgree, TableOK,
              FormatProgress, Idle
<1>3. CASE FormatBegin
  <2>1. TableOK(<<>>, {}, ialloc)
    BY DEF TableOK
  <2> QED BY <1>3, <2>1
          DEF FormatBegin, IInv, TypeOK, TableSound, FlagsAgree, TableOK, Inode, Root,
              FormatProgress
<1>4. CASE FormatStep
  <2>1. /\ cursor \in Inode /\ cursor \in Int /\ owned = {}
        /\ \A k \in 1 .. Len(s_inode) : s_inode[k] \in Int /\ s_inode[k] < cursor
    BY <1>4 DEF IInv, TypeOK, FormatProgress, FormatStep, Idle, Inode, Root
  <2>2. \A k \in 1 .. Len(s_inode) : s_inode[k] # cursor
    BY <2>1
  <2>3. TableOK(s_inode', owned \ {cursor}, ialloc')
    BY <1>4, <2>1, <2>2, ReturnOK, InvariantIsTableOK DEF FormatStep
  <2>4. owned' = {} /\ TableOK(s_inode', owned', ialloc')
    BY <1>4, <2>1, <2>3 DEF FormatStep
  <2>5. \A k \in 1 .. Len(s_inode') : s_inode'[k] < cursor'
    BY <1>4, <2>1 DEF FormatStep, ReturnInode, IInv, TypeOK, Inode
  <2>6. ialloc' \subseteq Inode /\ ret' = ret /\ cursor' \in 0 .. LastInode + 1
    BY <1>4, <2>1 DEF FormatStep, ReturnInode, IInv, TypeOK, Inode, Root
  <2>7. TypeOK'
    BY <2>4, <2>6 DEF IInv, TypeOK, TableOK
  <2>8. TableSound' /\ FlagsAgree'
    BY <2>4 DEF TableSound, FlagsAgree, TableOK
  <2>9. FormatProgress'
    BY <2>4, <2>5 DEF FormatProgress
  <2> QED BY <2>7, <2>8, <2>9 DEF IInv
<1>5. CASE FormatRoot
  BY <1>5 DEF FormatRoot, IInv, TypeOK, TableSound, FlagsAgree, FormatProgress, Idle,
     Inode, Root
<1>6. CASE UNCHANGED vars
  BY <1>6 DEF vars, IInv, TypeOK, TableSound, FlagsAgree, FormatProgress, Idle
<1> QED BY <1>1, <1>2, <1>3, <1>4, <1>5, <1>6 DEF Next

(* The inductive invariant holds in every state of every behaviour.        *)
THEOREM Invariance == Spec => []IInv
<1> QED BY InitIInv, NextIInv, PTL DEF Spec

(* Type correctness, for every number of inodes and table capacity.        *)
THEOREM TypeCorrect == Spec => []TypeOK
<1>1. IInv => TypeOK
  BY DEF IInv
<1> QED BY <1>1, Invariance, PTL

(* alloc_inode and free_inode never list an owned inode, or one twice.     *)
THEOREM TableCorrect == Spec => []TableSound
<1>1. IInv => TableSound
  BY DEF IInv
<1> QED BY <1>1, Invariance, PTL

(* The root is the only inode in use that alloc_inode hands out.           *)
THEOREM RootOnly == Spec => OnlyRootReissued
<1>1. IInv /\ [Next]_vars => [AllocInode /\ ret' \in ialloc => ret' = Root]_vars
  <2> SUFFICES ASSUME IInv, AllocInode, ret' \in ialloc PROVE ret' = Root
    OBVIOUS
  <2>1. ~NoInodeLeft
    BY DEF NoInodeLeft, IInv, TypeOK, NoInode, Inode, Root
  <2>2. PICK tbl \in Filled(s_inode, ialloc) : tbl # <<>> /\ ret' = tbl[Len(tbl)]
    BY <2>1 DEF AllocInode, TakeInode
  <2>3. TableOK(tbl, owned, ialloc)
    BY InvariantIsTableOK, FilledOK
  <2>4. Len(tbl) \in 1 .. Len(tbl)
    BY <2>2, <2>3, EmptySeq DEF TableOK
  <2> QED BY <2>2, <2>3, <2>4 DEF TableOK
<1> QED BY <1>1, Invariance, PTL DEF Spec, OnlyRootReissued

(* An empty scan: every inode behind the root is in use.                   *)
LEMMA EmptyScanMeansFull ==
  ASSUME <<>> \in FindFreeInodes(ialloc)
  PROVE  Free(ialloc) = {}
<1>1. \A x \in Free(ialloc) : Len(<<>>) = InodeCap
  BY DEF FindFreeInodes, CoversPrefixOf
<1> QED BY <1>1, InodeAssumption

LEMMA EmptyTableIsScanned ==
  ASSUME NoInodeLeft
  PROVE  <<>> \in FindFreeInodes(ialloc)
BY DEF NoInodeLeft, Filled

(* alloc_inode fails only when every inode behind the root is in use.      *)
THEOREM FailureMeansFull == Spec => FailsOnlyWhenFull
<1>1. IInv /\ [Next]_vars =>
        [AllocInode /\ ret' = NoInode => Inode \ {Root} \subseteq ialloc]_vars
  <2> SUFFICES ASSUME IInv, AllocInode, ret' = NoInode
               PROVE  Inode \ {Root} \subseteq ialloc
    OBVIOUS
  <2>1. ~TakeInode
    <3> SUFFICES ASSUME TakeInode PROVE FALSE
      OBVIOUS
    <3>1. PICK tbl \in Filled(s_inode, ialloc) : tbl # <<>> /\ ret' = tbl[Len(tbl)]
      BY DEF TakeInode
    <3>2. ret' \in Inode
      BY <3>1, InvariantIsTableOK, FilledOK, DropLastOK, ZenonT(60)
    <3> QED BY <3>2 DEF NoInode, Inode, Root
  <2>2. Free(ialloc) = {}
    BY <2>1, EmptyTableIsScanned, EmptyScanMeansFull DEF AllocInode
  <2> QED BY <2>2, InodeAssumption DEF Free, Inode, Root
<1> QED BY <1>1, Invariance, PTL DEF Spec, FailsOnlyWhenFull
-----------------------------------------------------------------------------
(* Refinement of the abstract pool.                                        *)

(* The allocation that takes the last entry of a table takes a free inode  *)
(* or the root.                                                            *)
LEMMA TakeRefines ==
  ASSUME IInv, AllocInode, ~NoInodeLeft
  PROVE  Pool!Next
<1>1. PICK tbl \in Filled(s_inode, ialloc) :
        /\ tbl # <<>>
        /\ ret' = tbl[Len(tbl)]
        /\ ialloc' = ialloc \cup {tbl[Len(tbl)]}
  BY DEF AllocInode, TakeInode
<1>2. TableOK(tbl, owned, ialloc)
  BY InvariantIsTableOK, FilledOK
<1>3. ret' \in Inode
  BY <1>1, <1>2, DropLastOK
<1>4. Len(tbl) \in 1 .. Len(tbl)
  BY <1>1, <1>2, EmptySeq DEF TableOK
<1>5. ret' \in ialloc => ret' = Root
  BY <1>1, <1>2, <1>4 DEF TableOK
<1>6. CASE ret' = Root
  BY <1>1, <1>6 DEF Pool!Next, Pool!AllocateRoot
<1>7. CASE ret' # Root
  <2>1. Pool!Allocate(ret')
    BY <1>1, <1>3, <1>5, <1>7 DEF Pool!Allocate
  <2> QED BY <1>3, <1>7, <2>1 DEF Pool!Next
<1> QED BY <1>6, <1>7

(* An inode that is freed joins the pool, unless it is the root or free.   *)
LEMMA ReturnRefines ==
  ASSUME NEW i \in Inode, ialloc' = ialloc \ {i}, ret' = ret
  PROVE  [Pool!Next]_(Pool!vars)
<1>1. CASE i = Root \/ i \notin ialloc
  BY <1>1 DEF Pool!vars
<1>2. CASE i # Root /\ i \in ialloc
  <2>1. Pool!Release(i)
    BY <1>2 DEF Pool!Release
  <2> QED BY <1>2, <2>1 DEF Pool!Next
<1> QED BY <1>1, <1>2

LEMMA NextRefines ==
  ASSUME IInv, [Next]_vars
  PROVE  [Pool!Next]_(Pool!vars)
<1>1. CASE AllocInode
  <2>1. CASE NoInodeLeft
    <3>1. <<>> \in FindFreeInodes(ialloc)
      BY <2>1, EmptyTableIsScanned
    <3>2. Free(ialloc) = {}
      BY <3>1, EmptyScanMeansFull
    <3>3. (Inode \ {Root}) \ ialloc = {}
      BY <3>2, InodeAssumption DEF Free, Inode, Root
    <3>4. Pool!OutOfInodes
      BY <2>1, <3>3 DEF NoInodeLeft, Pool!OutOfInodes, Pool!Failure, NoInode
    <3> QED BY <3>4 DEF Pool!Next
  <2> QED BY <1>1, <2>1, TakeRefines
<1>2. ASSUME NEW i \in Inode, FreeInode(i) PROVE [Pool!Next]_(Pool!vars)
  BY <1>2, ReturnRefines DEF FreeInode, ReturnInode
<1>3. CASE FormatBegin
  BY <1>3 DEF FormatBegin, Pool!vars
<1>4. CASE FormatStep
  BY <1>4, ReturnRefines DEF FormatStep, ReturnInode
<1>5. CASE FormatRoot
  BY <1>5 DEF FormatRoot, Pool!vars
<1>6. CASE UNCHANGED vars
  BY <1>6 DEF vars, Pool!vars
<1> QED BY <1>1, <1>2, <1>3, <1>4, <1>5, <1>6 DEF Next

(* The table with its scan implements the abstract pool of free inodes:    *)
(* what find_free_inodes and a full table leave out is never lost, and no  *)
(* inode in use but the root is handed out.                                *)
THEOREM Refinement == Spec => PoolSpec
<1>1. Init => Pool!Init
  BY DEF Init, Pool!Init, Pool!Failure, NoInode
<1>2. IInv /\ [Next]_vars => [Pool!Next]_(Pool!vars)
  BY NextRefines
<1> QED BY <1>1, <1>2, Invariance, PTL DEF Spec, PoolSpec, Pool!Spec
=============================================================================
