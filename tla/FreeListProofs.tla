--------------------------- MODULE FreeListProofs ---------------------------
(***************************************************************************)
(* Proofs about FreeList for every disk layout, table capacity and file    *)
(* data: the inductive invariant IInv, hence type correctness and the      *)
(* partition of the data zone into held and listed blocks.                 *)
(*                                                                         *)
(* Argument.  ChainIntact says where the next table of the chain is found, *)
(* and FreePartition that the blocks that hold tables are not held, so     *)
(* that no client touches them.  Each operation adds or removes one listed *)
(* block, at the end of the chain, and moves it out of or into held.       *)
(***************************************************************************)
EXTENDS FreeList, SequenceTheorems, TLAPS

(* A sequence without its last element.                                    *)
LEMMA DropLast ==
  ASSUME NEW S, NEW s \in Seq(S), Len(s) >= 1
  PROVE  /\ SubSeq(s, 1, Len(s) - 1) \in Seq(S)
         /\ Len(SubSeq(s, 1, Len(s) - 1)) = Len(s) - 1
         /\ \A i \in 1 .. Len(s) - 1 : SubSeq(s, 1, Len(s) - 1)[i] = s[i]
<1>1. Len(s) \in Nat /\ 1 \in Int /\ Len(s) - 1 \in Int
  BY LenProperties
<1>2. \A i \in 1 .. Len(s) - 1 : s[i] \in S
  BY <1>1, ElementOfSeq
<1>3. SubSeq(s, 1, Len(s) - 1) \in Seq(S)
  BY <1>1, <1>2, SubSeqProperties
<1>4. Len(SubSeq(s, 1, Len(s) - 1)) = Len(s) - 1
  <2>1. CASE Len(s) = 1
    <3>1. SubSeq(s, 1, Len(s) - 1) = <<>>
      BY <1>1, <2>1, SubSeqEmpty
    <3>2. Len(<<>>) = 0
      OBVIOUS
    <3> QED BY <2>1, <3>1, <3>2
  <2>2. CASE Len(s) >= 2
    BY <1>1, <1>2, <2>2
  <2>3. \A m \in Nat : m >= 1 => m = 1 \/ m >= 2
    OBVIOUS
  <2> QED BY <1>1, <2>1, <2>2, <2>3, Zenon
<1>5. ASSUME NEW i \in 1 .. Len(s) - 1
      PROVE  SubSeq(s, 1, Len(s) - 1)[i] = s[i]
  BY <1>1, <1>2, <1>5
<1> QED BY <1>3, <1>4, <1>5

(* A table of the chain is a sequence of numbers.                          *)
LEMMA TableType ==
  ASSUME TypeOK, NEW k \in Chain
  PROVE  Table(k) \in Seq(Nat) /\ Len(Table(k)) \in Nat
<1>1. CASE k <= Len(links)
  <2>1. links[k] \in Block
    BY <1>1, ElementOfSeq DEF TypeOK, Chain
  <2> QED BY <1>1, <2>1 DEF TypeOK, Table
<1>2. CASE ~(k <= Len(links))
  BY <1>2 DEF TypeOK, Table
<1> QED BY <1>1, <1>2

(* The blocks that hold spilled tables are free and pairwise different.    *)
LEMMA LinksAreFree ==
  ASSUME TypeOK, ChainIntact, NoHeldListed
  PROVE  \A k \in 1 .. Len(links) : links[k] \in DataZone \ held
<1> TAKE k \in 1 .. Len(links)
<1>1. k + 1 \in Chain /\ 1 \in Listing(k + 1) /\ Table(k + 1)[1] = links[k]
  BY TableType, EmptySeq DEF TypeOK, ChainIntact, Chain, Listing
<1> QED BY <1>1 DEF NoHeldListed

LEMMA LinksDistinct ==
  ASSUME TypeOK, ChainIntact, NoneListedTwice
  PROVE  \A k, l \in 1 .. Len(links) : links[k] = links[l] => k = l
<1> TAKE k, l \in 1 .. Len(links)
<1>1. k + 1 \in Chain /\ 1 \in Listing(k + 1) /\ Table(k + 1)[1] = links[k]
  BY TableType, EmptySeq DEF TypeOK, ChainIntact, Chain, Listing
<1>2. l + 1 \in Chain /\ 1 \in Listing(l + 1) /\ Table(l + 1)[1] = links[l]
  BY TableType, EmptySeq DEF TypeOK, ChainIntact, Chain, Listing
<1> QED BY <1>1, <1>2 DEF NoneListedTwice

(* Writing to a block of no table leaves the spilled tables as they are.   *)
LEMMA TablesKept ==
  ASSUME TypeOK, ChainIntact, NoHeldListed,
         NEW b \in held, NEW t, NEW k \in 1 .. Len(links),
         content' = [content EXCEPT ![b] = t]
  PROVE  content'[links[k]] = content[links[k]]
BY LinksAreFree, ElementOfSeq DEF TypeOK

THEOREM InitIInv == Init => IInv
<1> SUFFICES ASSUME Init PROVE IInv
  OBVIOUS
<1> USE LayoutAssumption, CapAssumption
<1>1. links = <<>> /\ Len(links) = 0 /\ s_free = <<>> /\ Len(s_free) = 0
  BY DEF Init
<1>2. TypeOK
  BY DEF Init, TypeOK, Block, DataZone
<1>3. Chain = {1} /\ Table(1) = <<>> /\ Listing(1) = {}
  BY <1>1 DEF Chain, Table, Listing
<1>4. ChainIntact
  BY <1>1 DEF ChainIntact
<1>5. FreePartition
  BY <1>1, <1>3 DEF Init, FreePartition, NoHeldListed, NoneListedTwice, NoneLost
<1>6. FormatProgress
  BY DEF Init, FormatProgress, DataZone
<1> QED BY <1>2, <1>4, <1>5, <1>6 DEF IInv

-----------------------------------------------------------------------------
(* How one listed block more or less keeps the partition.                  *)

LEMMA BlockUnlisted ==
  ASSUME FreePartition, NEW m \in Chain, NEW j \in Listing(m),
         \A k, i : k \in Chain' /\ i \in Listing(k)' <=>
                    k \in Chain /\ i \in Listing(k) /\ ~(k = m /\ i = j),
         \A k, i : k \in Chain' /\ i \in Listing(k)' => Table(k)'[i] = Table(k)[i],
         held' = held \cup {Table(m)[j]}
  PROVE  FreePartition'
<1>1. NoHeldListed'
  <2> SUFFICES ASSUME NEW k \in Chain', NEW i \in Listing(k)'
               PROVE  Table(k)'[i] \in DataZone \ held'
    BY DEF NoHeldListed, DataZone
  <2>1. Table(k)[i] \in DataZone \ held /\ Table(k)[i] # Table(m)[j]
    BY DEF FreePartition, NoHeldListed, NoneListedTwice
  <2> QED BY <2>1
<1>2. NoneListedTwice'
  <2> SUFFICES ASSUME NEW k \in Chain', NEW l \in Chain',
                      NEW i1 \in Listing(k)', NEW i2 \in Listing(l)',
                      Table(k)'[i1] = Table(l)'[i2]
               PROVE  k = l /\ i1 = i2
    BY DEF NoneListedTwice
  <2>1. Table(k)[i1] = Table(l)[i2]
    OBVIOUS
  <2> QED BY <2>1 DEF FreePartition, NoneListedTwice
<1>3. NoneLost'
  <2> SUFFICES ASSUME NEW x \in DataZone \ held' PROVE x \in FreeSet'
    BY DEF NoneLost, DataZone
  <2>1. PICK k \in Chain : \E i \in Listing(k) : Table(k)[i] = x
    BY DEF FreePartition, NoneLost, FreeSet
  <2>2. PICK i \in Listing(k) : Table(k)[i] = x
    BY <2>1
  <2>3. k \in Chain' /\ i \in Listing(k)' /\ Table(k)'[i] = x
    BY <2>2
  <2> QED BY <2>3 DEF FreeSet
<1> QED BY <1>1, <1>2, <1>3 DEF FreePartition

LEMMA BlockListed ==
  ASSUME FreePartition, NEW b \in held, held \subseteq DataZone,
         NEW m, NEW j, ~(m \in Chain /\ j \in Listing(m)),
         \A k, i : k \in Chain' /\ i \in Listing(k)' <=>
                    (k \in Chain /\ i \in Listing(k)) \/ (k = m /\ i = j),
         \A k, i : k \in Chain /\ i \in Listing(k) => Table(k)'[i] = Table(k)[i],
         \A k : k = m => Table(k)'[j] = b,
         held' = held \ {b}
  PROVE  FreePartition'
<1>1. \A k, i : k \in Chain' /\ i \in Listing(k)' =>
        \/ k = m /\ i = j /\ Table(k)'[i] = b
        \/ k \in Chain /\ i \in Listing(k) /\ Table(k)'[i] = Table(k)[i]
           /\ Table(k)[i] \in DataZone \ held
  BY DEF FreePartition, NoHeldListed
<1>2. NoHeldListed'
  <2> SUFFICES ASSUME NEW k \in Chain', NEW i \in Listing(k)'
               PROVE  Table(k)'[i] \in DataZone \ held'
    BY DEF NoHeldListed, DataZone
  <2> QED BY <1>1
<1>3. NoneListedTwice'
  <2> SUFFICES ASSUME NEW k \in Chain', NEW l \in Chain',
                      NEW i1 \in Listing(k)', NEW i2 \in Listing(l)',
                      Table(k)'[i1] = Table(l)'[i2]
               PROVE  k = l /\ i1 = i2
    BY DEF NoneListedTwice
  <2> QED BY <1>1 DEF FreePartition, NoneListedTwice
<1>4. NoneLost'
  <2> SUFFICES ASSUME NEW x \in DataZone \ held' PROVE x \in FreeSet'
    BY DEF NoneLost, DataZone
  <2>1. CASE x = b
    BY <2>1 DEF FreeSet
  <2>2. CASE x # b
    <3>1. PICK k \in Chain : \E i \in Listing(k) : Table(k)[i] = x
      BY <2>2 DEF FreePartition, NoneLost, FreeSet
    <3>2. PICK i \in Listing(k) : Table(k)[i] = x
      BY <3>1
    <3>3. k \in Chain' /\ i \in Listing(k)' /\ Table(k)'[i] = x
      BY <3>2
    <3> QED BY <3>3 DEF FreeSet
  <2> QED BY <2>1, <2>2
<1> QED BY <1>2, <1>3, <1>4 DEF FreePartition

-----------------------------------------------------------------------------
(* alloc_block, case by case.                                              *)

LEMMA ExhaustedStep ==
  ASSUME IInv, Idle, Exhausted,
         held' = IF ret' \in Block THEN held \cup {ret'} ELSE held,
         UNCHANGED cursor
  PROVE  IInv'
<1> USE DEF IInv
<1>1. UNCHANGED <<s_free, content, links, cursor, held>>
  BY DEF Exhausted, NoBlock, Block
<1>2. TypeOK'
  BY <1>1 DEF TypeOK, Exhausted
<1>3. Chain' = Chain /\ \A k : Table(k)' = Table(k) /\ Listing(k)' = Listing(k)
  BY <1>1 DEF Chain, Table, Listing
<1>4. ChainIntact'
  BY <1>1, <1>3 DEF ChainIntact
<1>5. FreePartition'
  BY <1>1, <1>3
     DEF FreePartition, NoHeldListed, NoneListedTwice, NoneLost, FreeSet
<1>6. FormatProgress'
  BY <1>1 DEF FormatProgress, Idle
<1> QED BY <1>2, <1>4, <1>5, <1>6

(* The last listed block leaves the list and becomes held.                 *)
LEMMA TakeEntryStep ==
  ASSUME IInv, Idle, TakeEntry,
         held' = IF ret' \in Block THEN held \cup {ret'} ELSE held,
         UNCHANGED cursor
  PROVE  IInv'
<1> USE LayoutAssumption DEF IInv
<1> DEFINE n == Len(links)
           last == Len(s_free)
           b == s_free[last]
<1>1. n \in Nat /\ last \in Nat /\ last >= 2
  BY DEF TypeOK, TakeEntry
<1>2. n + 1 \in Chain /\ Table(n + 1) = s_free /\ last \in Listing(n + 1)
  BY <1>1 DEF Chain, Table, Listing
<1>3. b \in DataZone \ held /\ b \in Block
  BY <1>2 DEF FreePartition, NoHeldListed, DataZone, Block
<1>4. ret' = b /\ held' = held \cup {b}
  BY <1>3 DEF TakeEntry, Result, Block
<1>5. /\ s_free' \in Seq(Nat)
      /\ Len(s_free') = last - 1
      /\ \A i \in 1 .. last - 1 : s_free'[i] = s_free[i]
  BY <1>1 DEF TypeOK, TakeEntry
<1>6. UNCHANGED <<content, links>>
  BY DEF TakeEntry
<1>7. TypeOK'
  BY <1>3, <1>4, <1>5, <1>6 DEF TypeOK
<1>8. s_free' # <<>> /\ s_free # <<>> /\ s_free'[1] = s_free[1]
  BY <1>1, <1>5, EmptySeq DEF TypeOK
<1>9. ChainIntact'
  BY <1>1, <1>5, <1>6, <1>8, CapAssumption DEF ChainIntact, Table
<1>10. FreePartition'
  <2>1. \A k, i : k \in Chain' /\ i \in Listing(k)' <=>
           k \in Chain /\ i \in Listing(k) /\ ~(k = n + 1 /\ i = last)
    BY <1>1, <1>5, <1>6 DEF Chain, Table, Listing
  <2>2. \A k, i : k \in Chain' /\ i \in Listing(k)' => Table(k)'[i] = Table(k)[i]
    BY <1>1, <1>5, <1>6 DEF Chain, Table, Listing
  <2> QED BY <1>2, <1>4, <2>1, <2>2, BlockUnlisted
<1>11. FormatProgress'
  BY DEF FormatProgress, Idle
<1> QED BY <1>7, <1>9, <1>10, <1>11

(* The block that held the next table becomes held, the table moves to the *)
(* superblock.                                                             *)
LEMMA TakeLinkStep ==
  ASSUME IInv, Idle, TakeLink,
         held' = IF ret' \in Block THEN held \cup {ret'} ELSE held,
         UNCHANGED cursor
  PROVE  IInv'
<1> USE LayoutAssumption DEF IInv
<1> DEFINE n == Len(links)
           b == s_free[1]
<1>1. n \in Nat /\ n >= 1 /\ Len(s_free) = 1 /\ s_free # <<>>
  <2>1. n \in Nat /\ Len(s_free) = 1 /\ s_free # <<>>
    <3>1. n \in Nat /\ Len(s_free) = 1
      BY DEF TypeOK, TakeLink
    <3>2. Len(<<>>) = 0
      OBVIOUS
    <3> QED BY <3>1, <3>2
  <2>2. n # 0
    BY <2>1 DEF TakeLink, ChainIntact, Table
  <2> HIDE DEF n
  <2> QED BY <2>1, <2>2
<1>2. n + 1 \in Chain /\ Table(n + 1) = s_free /\ 1 \in Listing(n + 1)
  BY <1>1 DEF Chain, Table, Listing
<1>3. b \in DataZone \ held /\ b \in Block
  BY <1>2 DEF FreePartition, NoHeldListed, DataZone, Block
<1>4. ret' = b /\ held' = held \cup {b}
  BY <1>3 DEF TakeLink, Result, Block
<1>5. b = links[n]
  BY <1>1, <1>2 DEF ChainIntact
<1>6. s_free' = content[links[n]] /\ UNCHANGED content
  BY <1>3, <1>5 DEF TakeLink, Block
<1>7. /\ links' \in Seq(Block)
      /\ Len(links') = n - 1
      /\ \A k \in 1 .. n - 1 : links'[k] = links[k]
  <2>1. links' = SubSeq(links, 1, n - 1) /\ links \in Seq(Block)
    BY <1>3 DEF TypeOK, TakeLink, Block
  <2> QED BY <1>1, <2>1, DropLast
<1>8. TypeOK'
  BY <1>3, <1>4, <1>5, <1>6, <1>7 DEF TypeOK
<1>9. /\ s_free' # <<>> /\ Len(s_free') = Cap
      /\ \A k \in Chain' : k \in Chain /\ Table(k)' = Table(k) /\ Listing(k)' = Listing(k)
  <2>1. Table(n) = content[links[n]]
    BY <1>1 DEF Table
  <2>2. Len(s_free') = Cap
    BY <1>1, <1>6, <2>1 DEF ChainIntact
  <2>3. \A k \in Chain' : k \in Chain /\ Table(k)' = Table(k)
    BY <1>1, <1>6, <1>7 DEF Chain, Table
  <2>4. \A k \in Chain' : Listing(k)' = Listing(k)
    BY <2>3 DEF Listing
  <2>5. s_free' # <<>>
    BY <2>2, CapAssumption
  <2> QED BY <2>2, <2>3, <2>4, <2>5
<1>10. ChainIntact'
  <2>1. \A k \in 1 .. n - 1 : k \in Chain' /\ k + 1 \in Chain'
    BY <1>1, <1>7 DEF Chain
  <2>2. 1 \in Chain'
    BY <1>1, <1>7 DEF Chain
  <2>3. Len(s_free') <= Cap
    BY <1>9, CapAssumption
  <2>4. Table(1)' = Table(1)
    BY <1>9, <2>2
  <2>5. \A k \in 1 .. n - 1 : /\ Len(Table(k)') = Cap
                              /\ Table(k + 1)' # <<>>
                              /\ Table(k + 1)'[1] = links'[k]
    BY <1>1, <1>7, <1>9, <2>1 DEF ChainIntact
  <2> QED BY <1>1, <1>7, <2>3, <2>4, <2>5 DEF ChainIntact
<1>11. FreePartition'
  <2>1. \A k, i : k \in Chain' /\ i \in Listing(k)' <=>
           k \in Chain /\ i \in Listing(k) /\ ~(k = n + 1 /\ i = 1)
    <3>1. \A k : k \in Chain' <=> k \in Chain /\ k # n + 1
      BY <1>1, <1>7 DEF Chain
    <3>2. Listing(n + 1) = {1}
      <4>1. Len(Table(n + 1)) = 1 /\ n + 1 # 1
        BY <1>1, <1>2
      <4>2. \A i : i \in Listing(n + 1) <=> i \in 1 .. 1
        BY <4>1 DEF Listing
      <4> QED BY <4>2
    <3> QED BY <1>9, <3>1, <3>2
  <2>2. \A k, i : k \in Chain' /\ i \in Listing(k)' => Table(k)'[i] = Table(k)[i]
    BY <1>9
  <2> QED BY <1>2, <1>4, <2>1, <2>2, BlockUnlisted
<1>12. FormatProgress'
  BY DEF FormatProgress, Idle
<1> QED BY <1>8, <1>10, <1>11, <1>12

(* Only the sentinel is left: nothing was listed, nothing is.              *)
LEMMA TakeSentinelStep ==
  ASSUME IInv, Idle, TakeSentinel,
         held' = IF ret' \in Block THEN held \cup {ret'} ELSE held,
         UNCHANGED cursor
  PROVE  IInv'
<1> USE LayoutAssumption DEF IInv
<1>1. UNCHANGED <<content, links, held>> /\ s_free' = <<>> /\ ret' = NoBlock
  BY DEF TakeSentinel, NoBlock, Block
<1>2. TypeOK'
  BY <1>1 DEF TypeOK
<1>3. Len(links) = 0
  <2> SUFFICES ASSUME Len(links) # 0 PROVE FALSE
    OBVIOUS
  <2>1. Len(links) \in 1 .. Len(links)
    BY DEF TypeOK
  <2>2. links[Len(links)] \in DataZone
    BY <2>1, LinksAreFree DEF FreePartition
  <2>3. Table(Len(links) + 1) = s_free
    BY <2>1 DEF Table
  <2>4. links[Len(links)] = 0
    BY <2>1, <2>3 DEF ChainIntact, TakeSentinel
  <2> QED BY <2>2, <2>4 DEF DataZone
<1>4. /\ Chain = {1} /\ Listing(1) = {}
      /\ Chain' = {1} /\ Listing(1)' = {}
  <2>1. Len(links') = 0 /\ Len(s_free) = 1 /\ Len(s_free') = 0
    BY <1>1, <1>3 DEF TakeSentinel
  <2>2. Chain = {1} /\ Chain' = {1}
    BY <1>3, <2>1 DEF Chain
  <2>3. Len(Table(1)) = 1
    BY <1>3, <2>1 DEF Table
  <2>4. Listing(1) = 2 .. 1
    BY <2>3 DEF Listing
  <2>5. \A i : i \notin Listing(1)'
    BY <2>1 DEF Listing, Table
  <2> QED BY <2>2, <2>4, <2>5
<1>5. ChainIntact'
  BY <1>1, <1>3, CapAssumption DEF ChainIntact
<1>6. FreePartition'
  BY <1>1, <1>4
     DEF FreePartition, NoHeldListed, NoneListedTwice, NoneLost, FreeSet, DataZone
<1>7. FormatProgress'
  BY DEF FormatProgress, Idle
<1> QED BY <1>2, <1>5, <1>6, <1>7

-----------------------------------------------------------------------------
(* free_block, called by a client or by format's loop.                     *)

(* No table was spilled when the superblock's is empty.                    *)
LEMMA EmptyListHasNoLinks ==
  ASSUME TypeOK, ChainIntact, s_free = <<>>
  PROVE  Len(links) = 0
<1> DEFINE n == Len(links)
<1>1. n \in Nat /\ Table(n + 1) = s_free
  BY DEF TypeOK, Table
<1>2. n \notin 1 .. n
  BY <1>1 DEF ChainIntact
<1> HIDE DEF n
<1>3. n = 0
  BY <1>1, <1>2
<1> QED BY <1>3 DEF n

(* The table still has room: b becomes its last entry.                     *)
LEMMA FreeIntoTable ==
  ASSUME TypeOK, ChainIntact, FreePartition, NEW b \in held, FreeBlock(b),
         Len(TableToExtend) < Cap, held' = held \ {b}
  PROVE  /\ s_free' \in Seq(Nat) /\ UNCHANGED <<content, links>>
         /\ ChainIntact' /\ FreePartition'
<1> USE LayoutAssumption
<1> DEFINE n == Len(links)
           t == TableToExtend
           m == Len(t)
<1>1. b \in Nat /\ held \subseteq DataZone
  BY DEF TypeOK, DataZone
<1>2. UNCHANGED <<content, links>> /\ s_free' = Append(t, b)
  BY DEF FreeBlock
<1>3. t \in Seq(Nat) /\ m \in Nat /\ m >= 1
  BY DEF TypeOK, TableToExtend
<1>4. /\ s_free' \in Seq(Nat) /\ Len(s_free') = m + 1
      /\ \A i \in 1 .. m : s_free'[i] = t[i]
      /\ s_free'[m + 1] = b
  BY <1>1, <1>2, <1>3, AppendProperties
<1>5. n \in Nat /\ (s_free = <<>> => n = 0)
  BY EmptyListHasNoLinks DEF TypeOK
<1>6. t[1] = (IF s_free = <<>> THEN 0 ELSE s_free[1])
  BY DEF TableToExtend
<1> HIDE DEF t
<1>7. s_free' # <<>> /\ s_free'[1] = t[1] /\ Len(s_free') <= Cap
  <2>1. s_free' # <<>>
    BY <1>1, <1>2, <1>3, AppendProperties
  <2>2. 1 \in 1 .. m
    BY <1>3
  <2>3. m < Cap
    BY DEF t
  <2> QED BY <1>3, <1>4, <2>1, <2>2, <2>3, CapAssumption
<1>8. ChainIntact'
  <2>1. \A k \in 1 .. n : /\ Len(Table(k)') = Cap
                          /\ Table(k + 1)' # <<>>
                          /\ Table(k + 1)'[1] = links[k]
    <3> TAKE k \in 1 .. n
    <3>1. s_free # <<>>
      BY <1>5
    <3>2. s_free'[1] = s_free[1]
      BY <1>6, <1>7, <3>1
    <3> QED BY <1>2, <1>5, <1>7, <3>2 DEF ChainIntact, Table
  <2>2. Table(1)'[1] = 0
    <3>1. CASE s_free = <<>>
      BY <1>2, <1>5, <1>6, <1>7, <3>1 DEF Table
    <3>2. CASE s_free # <<>>
      BY <1>2, <1>6, <1>7, <3>2 DEF ChainIntact, Table
    <3> QED BY <3>1, <3>2
  <2> QED BY <1>2, <1>7, <2>1, <2>2 DEF ChainIntact
<1>9. ~(n + 1 \in Chain /\ m + 1 \in Listing(n + 1))
  <2>1. Len(s_free) <= m
    BY <1>3, EmptySeq DEF t, TableToExtend, TypeOK
  <2> QED BY <1>3, <1>5, <2>1 DEF Listing, Table, TypeOK
<1>10. \A k, i : k \in Chain' /\ i \in Listing(k)' <=>
           (k \in Chain /\ i \in Listing(k)) \/ (k = n + 1 /\ i = m + 1)
  <2>1. CASE s_free = <<>>
    <3>1. n = 0 /\ m = 1 /\ Len(s_free') = 2
      BY <1>4, <1>5, <2>1 DEF t, TableToExtend
    <3> QED BY <1>2, <2>1, <3>1 DEF Chain, Listing, Table
  <2>2. CASE s_free # <<>>
    <3>1. m = Len(s_free)
      BY <2>2 DEF t, TableToExtend
    <3> QED BY <1>2, <1>3, <1>4, <1>5, <3>1 DEF Chain, Listing, Table
  <2> QED BY <2>1, <2>2
<1>11. \A k, i : k \in Chain /\ i \in Listing(k) => Table(k)'[i] = Table(k)[i]
  <2>1. CASE s_free = <<>>
    BY <1>2, <1>5, <2>1 DEF Chain, Listing, Table
  <2>2. CASE s_free # <<>>
    <3>1. t = s_free
      BY <2>2 DEF t, TableToExtend
    <3> QED BY <1>2, <1>3, <1>4, <1>5, <3>1 DEF Chain, Listing, Table
  <2> QED BY <2>1, <2>2
<1>12. \A k : k = n + 1 => Table(k)'[m + 1] = b
  BY <1>2, <1>4, <1>5 DEF Table
<1>13. FreePartition'
  <2> HIDE DEF n, m
  <2> QED BY <1>1, <1>9, <1>10, <1>11, <1>12, BlockListed
<1> QED BY <1>2, <1>4, <1>8, <1>13

(* The table is full: it is spilled into b, which starts the next one.     *)
LEMMA FreeSpillsTable ==
  ASSUME TypeOK, ChainIntact, FreePartition, NEW b \in held, FreeBlock(b),
         ~(Len(TableToExtend) < Cap), held' = held \ {b}
  PROVE  /\ s_free' \in Seq(Nat) /\ content' \in [Block -> Seq(Nat)]
         /\ links' \in Seq(Block)
         /\ ChainIntact' /\ FreePartition'
<1> USE LayoutAssumption
<1> DEFINE n == Len(links)
<1>1. b \in Block /\ b \in Nat /\ held \subseteq DataZone
  BY DEF TypeOK, DataZone, Block
<1>2. s_free # <<>> /\ TableToExtend = s_free /\ Len(s_free) = Cap
  <2>1. s_free # <<>>
    BY CapAssumption DEF TableToExtend
  <2>2. TableToExtend = s_free /\ Len(s_free) \in Nat
    BY <2>1 DEF TableToExtend, TypeOK
  <2> QED BY <2>1, <2>2, CapAssumption DEF ChainIntact
<1>3. /\ content' = [content EXCEPT ![b] = s_free]
      /\ s_free' = <<b>> /\ links' = Append(links, b)
  BY <1>2, CapAssumption DEF FreeBlock
<1>4. n \in Nat /\ links \in Seq(Block)
  BY DEF TypeOK
<1>5. /\ links' \in Seq(Block) /\ Len(links') = n + 1
      /\ \A k \in 1 .. n : links'[k] = links[k]
      /\ links'[n + 1] = b
  BY <1>1, <1>3, <1>4, AppendProperties
<1>6. s_free' \in Seq(Nat) /\ content' \in [Block -> Seq(Nat)]
  BY <1>1, <1>3 DEF TypeOK
<1>7. \A k \in 1 .. n : Table(k)' = Table(k)
  <2> TAKE k \in 1 .. n
  <2>1. content'[links[k]] = content[links[k]]
    BY <1>3, TablesKept DEF FreePartition
  <2> QED BY <1>4, <1>5, <2>1 DEF Table
<1>8. \A k : k = n + 1 => Table(k)' = s_free /\ Table(k) = s_free
  BY <1>1, <1>3, <1>4, <1>5 DEF Table, TypeOK
<1>9. \A k : k = n + 2 => Table(k)' = <<b>>
  BY <1>3, <1>4, <1>5 DEF Table
<1>10. Chain = 1 .. n + 1 /\ Chain' = 1 .. n + 2
  BY <1>4, <1>5 DEF Chain
<1>11. \A k \in Chain : k \in Chain' /\ Table(k)' = Table(k) /\ Listing(k)' = Listing(k)
  <2> TAKE k \in Chain
  <2>1. k \in Chain' /\ Table(k)' = Table(k)
    BY <1>4, <1>7, <1>8, <1>10
  <2> QED BY <2>1 DEF Listing
<1>12. \A k : k = n + 2 => \A i : i \in Listing(k)' <=> i = 1
  <2> SUFFICES ASSUME NEW k, k = n + 2 PROVE \A i : i \in Listing(k)' <=> i = 1
    OBVIOUS
  <2>1. Len(Table(k)') = 1 /\ k # 1
    BY <1>4, <1>9
  <2>2. \A i : i \in Listing(k)' <=> i \in 1 .. 1
    BY <2>1 DEF Listing
  <2> QED BY <2>2
<1>13. ChainIntact'
  <2>1. ASSUME NEW k \in 1 .. n + 1
        PROVE  /\ Len(Table(k)') = Cap
               /\ Table(k + 1)' # <<>>
               /\ Table(k + 1)'[1] = links'[k]
    <3>1. CASE k = n + 1
      BY <1>2, <1>4, <1>5, <1>8, <1>9, <3>1
    <3>2. CASE k # n + 1
      <4>1. k \in 1 .. n /\ k \in Chain /\ k + 1 \in Chain
        BY <1>4, <1>10, <2>1, <3>2
      <4> QED BY <1>5, <1>11, <4>1 DEF ChainIntact
    <3> QED BY <3>1, <3>2
  <2>2. Table(1)'[1] = 0
    <3>1. 1 \in Chain
      BY <1>4, <1>10
    <3> QED BY <1>2, <1>11, <3>1 DEF ChainIntact
  <2>3. Len(s_free') = 1 /\ 1 <= Cap
    BY <1>3, CapAssumption
  <2> QED BY <1>5, <2>1, <2>2, <2>3 DEF ChainIntact
<1>14. FreePartition'
  <2>1. n + 2 \notin Chain
    BY <1>4, <1>10
  <2>2. \A k, i : k \in Chain' /\ i \in Listing(k)' <=>
           (k \in Chain /\ i \in Listing(k)) \/ (k = n + 2 /\ i = 1)
    <3>1. \A k : k \in Chain' <=> k \in Chain \/ k = n + 2
      BY <1>4, <1>10
    <3> QED BY <1>11, <1>12, <3>1
  <2>3. \A k, i : k \in Chain /\ i \in Listing(k) => Table(k)'[i] = Table(k)[i]
    BY <1>11
  <2>4. \A k : k = n + 2 => Table(k)'[1] = b
    BY <1>9
  <2> HIDE DEF n
  <2> QED BY <1>1, <2>1, <2>2, <2>3, <2>4, BlockListed
<1> QED BY <1>5, <1>6, <1>13, <1>14

LEMMA FreeBlockStep ==
  ASSUME TypeOK, ChainIntact, FreePartition, NEW b \in held, FreeBlock(b),
         held' = held \ {b}
  PROVE  /\ s_free' \in Seq(Nat) /\ content' \in [Block -> Seq(Nat)]
         /\ links' \in Seq(Block)
         /\ ChainIntact' /\ FreePartition'
<1>1. CASE Len(TableToExtend) < Cap
  BY <1>1, FreeIntoTable DEF TypeOK
<1>2. CASE ~(Len(TableToExtend) < Cap)
  BY <1>2, FreeSpillsTable
<1> QED BY <1>1, <1>2

-----------------------------------------------------------------------------
(* The actions of Next.                                                    *)

LEMMA AllocStep ==
  ASSUME IInv, Alloc
  PROVE  IInv'
<1>1. /\ Idle /\ UNCHANGED cursor
      /\ held' = IF ret' \in Block THEN held \cup {ret'} ELSE held
  BY DEF Alloc
<1>2. CASE Exhausted
  BY <1>1, <1>2, ExhaustedStep
<1>3. CASE TakeEntry
  BY <1>1, <1>3, TakeEntryStep
<1>4. CASE TakeLink
  BY <1>1, <1>4, TakeLinkStep
<1>5. CASE TakeSentinel
  BY <1>1, <1>5, TakeSentinelStep
<1> QED BY <1>2, <1>3, <1>4, <1>5 DEF Alloc, AllocBlock

LEMMA FreeStep ==
  ASSUME IInv, NEW b \in DataZone, Free(b)
  PROVE  IInv'
<1>1. /\ s_free' \in Seq(Nat) /\ content' \in [Block -> Seq(Nat)]
      /\ links' \in Seq(Block)
      /\ ChainIntact' /\ FreePartition'
  BY FreeBlockStep DEF IInv, Free
<1>2. TypeOK'
  BY <1>1 DEF IInv, TypeOK, Free
<1>3. FormatProgress'
  BY DEF Free, FormatProgress, Idle
<1> QED BY <1>1, <1>2, <1>3 DEF IInv

LEMMA WriteBlockStep ==
  ASSUME IInv, NEW b \in DataZone, NEW p \in Payloads, WriteBlock(b, p)
  PROVE  IInv'
<1> USE DEF IInv
<1>1. UNCHANGED <<s_free, ret, cursor, held, links>>
  BY DEF WriteBlock
<1>2. TypeOK'
  BY <1>1, PayloadAssumption DEF TypeOK, WriteBlock
<1>3. \A k \in 1 .. Len(links) : content'[links[k]] = content[links[k]]
  BY TablesKept DEF WriteBlock, FreePartition
<1>4. Chain' = Chain
  BY <1>1 DEF Chain
<1>5. \A k \in Chain : Table(k)' = Table(k)
  BY <1>1, <1>3 DEF Table, Chain, TypeOK
<1>6. \A k \in Chain : Listing(k)' = Listing(k)
  BY <1>5 DEF Listing
<1>7. ChainIntact'
  <2>1. \A k \in 1 .. Len(links) : k \in Chain /\ k + 1 \in Chain
    BY DEF Chain, TypeOK
  <2>2. 1 \in Chain
    BY DEF Chain, TypeOK
  <2> QED BY <1>1, <1>5, <2>1, <2>2 DEF ChainIntact
<1>8. FreePartition'
  BY <1>1, <1>4, <1>5, <1>6
     DEF FreePartition, NoHeldListed, NoneListedTwice, NoneLost, FreeSet, DataZone
<1>9. FormatProgress'
  BY <1>1 DEF FormatProgress, Idle
<1> QED BY <1>2, <1>7, <1>8, <1>9

LEMMA FormatBeginStep ==
  ASSUME IInv, FormatBegin
  PROVE  IInv'
<1> USE LayoutAssumption, CapAssumption
<1>1. links' = <<>> /\ Len(links') = 0 /\ s_free' = <<>> /\ Len(s_free') = 0
  BY DEF FormatBegin
<1>2. TypeOK'
  BY DEF FormatBegin, IInv, TypeOK
<1>3. Chain' = {1} /\ Listing(1)' = {}
  BY <1>1 DEF Chain, Table, Listing
<1>4. ChainIntact'
  BY <1>1 DEF ChainIntact
<1>5. FreePartition'
  BY <1>1, <1>3
     DEF FormatBegin, FreePartition, NoHeldListed, NoneListedTwice, NoneLost
<1>6. FormatProgress'
  BY DEF FormatBegin, FormatProgress, DataZone
<1> QED BY <1>2, <1>4, <1>5, <1>6 DEF IInv

LEMMA FormatStepStep ==
  ASSUME IInv, FormatStep
  PROVE  IInv'
<1> USE LayoutAssumption
<1>1. /\ held = cursor .. EndData - 1 /\ cursor \in FirstData .. EndData
      /\ cursor # EndData /\ cursor \in held
  BY DEF IInv, TypeOK, FormatProgress, FormatStep, Idle
<1>2. /\ s_free' \in Seq(Nat) /\ content' \in [Block -> Seq(Nat)]
      /\ links' \in Seq(Block)
      /\ ChainIntact' /\ FreePartition'
  BY <1>1, FreeBlockStep DEF IInv, FormatStep
<1>3. TypeOK'
  BY <1>1, <1>2 DEF IInv, TypeOK, FormatStep
<1>4. FormatProgress'
  BY <1>1 DEF FormatStep, FormatProgress
<1> QED BY <1>2, <1>3, <1>4 DEF IInv

LEMMA NextIInv == IInv /\ [Next]_vars => IInv'
<1> SUFFICES ASSUME IInv, [Next]_vars PROVE IInv'
  OBVIOUS
<1>1. CASE Alloc
  BY <1>1, AllocStep
<1>2. ASSUME NEW b \in DataZone, Free(b) PROVE IInv'
  BY <1>2, FreeStep
<1>3. ASSUME NEW b \in DataZone, NEW p \in Payloads, WriteBlock(b, p) PROVE IInv'
  BY <1>3, WriteBlockStep
<1>4. CASE FormatBegin
  BY <1>4, FormatBeginStep
<1>5. CASE FormatStep
  BY <1>5, FormatStepStep
<1>6. CASE UNCHANGED vars
  <2>1. UNCHANGED <<s_free, content, ret, cursor, held, links>>
    BY <1>6 DEF vars
  <2>2. Chain' = Chain /\ \A k : Table(k)' = Table(k) /\ Listing(k)' = Listing(k)
    BY <2>1 DEF Chain, Table, Listing
  <2>3. TypeOK' /\ FormatProgress'
    BY <2>1 DEF IInv, TypeOK, FormatProgress, Idle
  <2>4. ChainIntact'
    BY <2>1, <2>2 DEF IInv, ChainIntact
  <2>5. FreePartition'
    BY <2>1, <2>2 DEF IInv, FreePartition, NoHeldListed, NoneListedTwice,
       NoneLost, FreeSet
  <2> QED BY <2>3, <2>4, <2>5 DEF IInv
<1> QED BY <1>1, <1>2, <1>3, <1>4, <1>5, <1>6 DEF Next

(* The inductive invariant holds in every state of every behaviour.        *)
THEOREM Invariance == Spec => []IInv
<1>1. Init => IInv
  BY InitIInv
<1>2. IInv /\ [Next]_vars => IInv'
  BY NextIInv
<1> QED BY <1>1, <1>2, PTL DEF Spec

(* Type correctness, for every layout and capacity.                        *)
THEOREM TypeCorrect == Spec => []TypeOK
<1>1. IInv => TypeOK
  BY DEF IInv
<1> QED BY <1>1, Invariance, PTL

(* alloc_block and free_block keep the chain of tables intact.             *)
THEOREM ChainCorrect == Spec => []ChainIntact
<1>1. IInv => ChainIntact
  BY DEF IInv
<1> QED BY <1>1, Invariance, PTL

(* No block is lost, listed twice or listed while a file owns it.          *)
THEOREM PartitionCorrect == Spec => []FreePartition
<1>1. IInv => FreePartition
  BY DEF IInv
<1> QED BY <1>1, Invariance, PTL

-----------------------------------------------------------------------------
(* The allocator never writes to a block a file keeps.                     *)
THEOREM HeldDataSafe == Spec => HeldDataUntouched
<1> DEFINE Kept == \A b \in held \cap held' :
                     content'[b] # content[b] => \E p \in Payloads : WriteBlock(b, p)
<1>1. IInv /\ [Next]_vars => [Kept]_vars
  <2> SUFFICES ASSUME IInv, Next, NEW b \in held \cap held', content'[b] # content[b]
               PROVE  \E p \in Payloads : WriteBlock(b, p)
    OBVIOUS
  <2>1. b \in Block /\ content \in [Block -> Seq(Nat)]
    BY LayoutAssumption DEF IInv, TypeOK, DataZone, Block
  <2>2. ~Alloc
    BY DEF Alloc, AllocBlock, Exhausted, TakeEntry, TakeLink, TakeSentinel
  <2>3. ~FormatBegin
    BY DEF FormatBegin
  <2>4. ASSUME NEW c \in DataZone, FreeBlock(c), held' = held \ {c} PROVE FALSE
    BY <2>1, <2>4 DEF FreeBlock
  <2>5. ~FormatStep
    BY <2>1 DEF FormatStep, FreeBlock
  <2>6. \A c \in DataZone : ~Free(c)
    BY <2>4 DEF Free
  <2>7. PICK c \in DataZone, p \in Payloads : WriteBlock(c, p)
    BY <2>2, <2>3, <2>5, <2>6 DEF Next
  <2>8. c = b
    BY <2>1, <2>7 DEF WriteBlock
  <2> QED BY <2>7, <2>8
<1> QED BY <1>1, Invariance, PTL DEF Spec, HeldDataUntouched

-----------------------------------------------------------------------------
(* Refinement of the abstract pool.  The listed blocks are the data blocks *)
(* that are not held, so each step is a step of the pool on that set.      *)

LEMMA FreeSetIsComplement ==
  /\ FreePartition => FreeSet = DataZone \ held
  /\ FreePartition' => FreeSet' = DataZone \ held'
BY DEF FreePartition, NoHeldListed, NoneLost, FreeSet, DataZone

(* What alloc_block is about to hand out is a free block.                  *)
LEMMA TopIsFree ==
  ASSUME IInv, Len(s_free) >= 2 \/ (Len(s_free) = 1 /\ s_free[1] # 0)
  PROVE  s_free[Len(s_free)] \in DataZone \ held
<1> USE DEF IInv
<1> DEFINE n == Len(links)
<1>1. n \in Nat /\ Len(s_free) \in Nat /\ Len(s_free) >= 1
  BY DEF TypeOK
<1>2. Table(n + 1) = s_free /\ n + 1 \in Chain
  BY <1>1 DEF Table, Chain
<1>3. Len(s_free) \in Listing(n + 1)
  <2>1. CASE Len(s_free) >= 2
    BY <1>1, <1>2, <2>1 DEF Listing
  <2>2. CASE Len(s_free) = 1 /\ s_free[1] # 0
    <3>1. Len(<<>>) = 0
      OBVIOUS
    <3>2. s_free # <<>>
      BY <2>2, <3>1
    <3>3. n # 0
      BY <1>2, <2>2, <3>2 DEF ChainIntact
    <3> QED BY <1>1, <1>2, <2>2, <3>3 DEF Listing
  <2> QED BY <2>1, <2>2
<1> QED BY <1>2, <1>3 DEF FreePartition, NoHeldListed

(* Nothing is free when the superblock's table is empty, or holds only the *)
(* sentinel.                                                               *)
LEMMA NothingFree ==
  ASSUME IInv, s_free = <<>> \/ (Len(s_free) = 1 /\ s_free[1] = 0)
  PROVE  FreeSet = {}
<1> USE LayoutAssumption DEF IInv
<1>1. Len(links) = 0
  <2>1. CASE s_free = <<>>
    BY <2>1, EmptyListHasNoLinks
  <2>2. CASE Len(s_free) = 1 /\ s_free[1] = 0
    <3> DEFINE n == Len(links)
    <3>1. n \in Nat /\ Table(n + 1) = s_free
      BY DEF TypeOK, Table
    <3>2. ASSUME n \in 1 .. n PROVE FALSE
      <4>1. links[n] = 0
        BY <2>2, <3>1, <3>2 DEF ChainIntact
      <4>2. links[n] \in DataZone
        BY <3>2, LinksAreFree DEF FreePartition
      <4> QED BY <4>1, <4>2 DEF DataZone
    <3> HIDE DEF n
    <3>3. n = 0
      BY <3>1, <3>2
    <3> QED BY <3>3 DEF n
  <2> QED BY <2>1, <2>2
<1>2. Chain = {1} /\ Table(1) = s_free
  BY <1>1 DEF Chain, Table
<1>3. Listing(1) = {}
  <2>1. CASE s_free = <<>>
    BY <1>2, <2>1 DEF Listing
  <2>2. CASE Len(s_free) = 1
    <3>1. Listing(1) = 2 .. 1
      BY <1>2, <2>2 DEF Listing
    <3> QED BY <3>1
  <2> QED BY <2>1, <2>2
<1> QED BY <1>2, <1>3 DEF FreeSet

LEMMA AllocRefines ==
  ASSUME IInv, Alloc
  PROVE  Pool!Next
<1> USE LayoutAssumption
<1>1. FreeSet = DataZone \ held /\ FreeSet' = DataZone \ held'
  BY AllocStep, FreeSetIsComplement DEF IInv
<1>2. held \subseteq DataZone /\ s_free \in Seq(Nat)
  BY DEF IInv, TypeOK
<1>3. CASE Exhausted \/ TakeSentinel
  <2>1. ret' = NoBlock /\ held' = held /\ FreeSet = {}
    BY <1>3, NothingFree DEF Alloc, Exhausted, TakeSentinel, NoBlock, Block
  <2> QED BY <1>1, <2>1 DEF Pool!Next, Pool!OutOfBlocks, Pool!Failure, NoBlock
<1>4. CASE TakeEntry \/ TakeLink
  <2>1. ret' = Result(s_free[Len(s_free)]) /\ s_free[Len(s_free)] \in DataZone \ held
    BY <1>4, TopIsFree DEF TakeEntry, TakeLink
  <2>2. ret' \in DataZone \ held /\ held' = held \cup {ret'}
    BY <2>1 DEF Alloc, Result, DataZone, Block
  <2>3. Pool!Allocate(ret')
    BY <1>1, <2>2 DEF Pool!Allocate
  <2> QED BY <2>2, <2>3 DEF Pool!Next
<1> QED BY <1>3, <1>4 DEF Alloc, AllocBlock

LEMMA NextRefines ==
  ASSUME IInv, [Next]_vars
  PROVE  [Pool!Next]_(Pool!vars)
<1> USE LayoutAssumption
<1>1. FreeSet = DataZone \ held /\ FreeSet' = DataZone \ held'
  BY NextIInv, FreeSetIsComplement DEF IInv
<1>2. held \subseteq DataZone
  BY DEF IInv, TypeOK
<1>3. CASE Alloc
  BY <1>3, AllocRefines
<1>4. ASSUME NEW b \in DataZone, Free(b) PROVE Pool!Next
  <2>1. Pool!Release(b)
    BY <1>1, <1>2, <1>4 DEF Free, Pool!Release
  <2> QED BY <2>1 DEF Pool!Next
<1>5. ASSUME NEW b \in DataZone, NEW p \in Payloads, WriteBlock(b, p)
      PROVE  UNCHANGED Pool!vars
  BY <1>1, <1>5 DEF WriteBlock, Pool!vars
<1>6. CASE FormatBegin
  BY <1>1, <1>6 DEF FormatBegin, Pool!Next, Pool!Forget
<1>7. CASE FormatStep
  <2>1. cursor \in DataZone /\ cursor \in held
    BY <1>7 DEF IInv, TypeOK, FormatProgress, FormatStep, Idle, DataZone
  <2>2. Pool!Release(cursor)
    BY <1>1, <1>7, <2>1 DEF FormatStep, Pool!Release
  <2> QED BY <2>1, <2>2 DEF Pool!Next
<1>8. CASE UNCHANGED vars
  BY <1>1, <1>8 DEF vars, Pool!vars
<1> QED BY <1>3, <1>4, <1>5, <1>6, <1>7, <1>8 DEF Next

(* The linked list of tables implements the set of free blocks.            *)
THEOREM Refinement == Spec => PoolSpec
<1>1. Init => Pool!Init
  <2> SUFFICES ASSUME Init PROVE Pool!Init
    OBVIOUS
  <2>1. FreeSet = {}
    BY InitIInv, FreeSetIsComplement DEF IInv, Init
  <2> QED BY <2>1 DEF Init, Pool!Init, Pool!Failure, NoBlock
<1>2. IInv /\ [Next]_vars => [Pool!Next]_(Pool!vars)
  BY NextRefines
<1> QED BY <1>1, <1>2, Invariance, PTL DEF Spec, PoolSpec, Pool!Spec
=============================================================================
