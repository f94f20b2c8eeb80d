--------------------------- MODULE DiskMountProofs ---------------------------
(***************************************************************************)
(* Proofs about DiskMount, for every layout, capacity, set of files,       *)
(* payloads and bounds: what a session works on, what it saves, and what a *)
(* crash at any moment leaves.                                             *)
(*                                                                         *)
(* Argument.  A list is good for a set of blocks when its chain is whole   *)
(* and it names every data block but these, once; free_block and           *)
(* alloc_block take one good list to another, and what is written to other *)
(* blocks than those of its tables does not matter to it.  The invariant   *)
(* has the memory's list good for the files of the session, and the        *)
(* image's for the saved files as long as no table that was linked at the  *)
(* start has been taken: such tables head both lists, so that the blocks a *)
(* command writes, which are not free in memory, are none of them.  A file *)
(* that was not touched owns the same blocks in memory and on the image,   *)
(* so that they are not free in memory either, nor any other file's.       *)
(* Losing the buffered write undoes a write to a block of that kind.       *)
(***************************************************************************)
EXTENDS DiskMount, SequenceTheorems, WellFoundedInduction, TLAPS

-----------------------------------------------------------------------------
(* Lists as values: the table s, the blocks l of the spilled tables, the   *)
(* contents c of the disk and the set h of blocks that are not free.  The  *)
(* list in memory, the one on the image and the one a lost write leaves    *)
(* there are three of them.                                                *)

Zone == FirstData .. EndData - 1

Tab(s, l, c, k) == IF k <= Len(l) THEN c[l[k]] ELSE s
Lists(s, l, c, k, i) ==
  k \in 1 .. Len(l) + 1 /\ i \in (IF k = 1 THEN 2 ELSE 1) .. Len(Tab(s, l, c, k))

IsList(s, l, c) == s \in Seq(Nat) /\ l \in Seq(Block) /\ c \in [Block -> Seq(Nat)]

Intact(s, l, c) ==
  /\ \A k \in 1 .. Len(l) : /\ Len(Tab(s, l, c, k)) = Cap
                            /\ Tab(s, l, c, k + 1) # <<>>
                            /\ Tab(s, l, c, k + 1)[1] = l[k]
  /\ s # <<>> => Tab(s, l, c, 1)[1] = 0
  /\ Len(s) <= Cap

Parted(s, l, c, h) ==
  /\ \A k, i : Lists(s, l, c, k, i) => Tab(s, l, c, k)[i] \in Zone \ h
  /\ \A k, i, m, j :
       /\ Lists(s, l, c, k, i) /\ Lists(s, l, c, m, j)
       /\ Tab(s, l, c, k)[i] = Tab(s, l, c, m)[j]
       => k = m /\ i = j
  /\ \A x \in Zone \ h : \E k, i : Lists(s, l, c, k, i) /\ Tab(s, l, c, k)[i] = x

Good(s, l, c, h) == IsList(s, l, c) /\ Intact(s, l, c) /\ Parted(s, l, c, h)

LEMMA Layout ==
  /\ DiskBlocks \in Nat /\ FirstData \in Nat /\ EndData \in Nat
  /\ 0 < FirstData /\ FirstData <= EndData /\ EndData <= DiskBlocks
  /\ Cap \in Nat /\ Cap >= 2
  /\ Block = 0 .. DiskBlocks - 1 /\ Zone \subseteq Block /\ 0 \notin Zone
  /\ Zone \subseteq Nat /\ Memory!DataZone = Zone
BY ListAssumption DEF Block, Zone, Memory!Block, Memory!DataZone

LEMMA TabType ==
  ASSUME NEW s, NEW l, NEW c, IsList(s, l, c), NEW k \in 1 .. Len(l) + 1
  PROVE  Tab(s, l, c, k) \in Seq(Nat) /\ Len(Tab(s, l, c, k)) \in Nat
<1>1. CASE k <= Len(l)
  <2>1. l[k] \in Block
    BY <1>1, ElementOfSeq DEF IsList
  <2> QED BY <1>1, <2>1 DEF IsList, Tab
<1>2. CASE ~(k <= Len(l))
  BY <1>2 DEF IsList, Tab
<1> QED BY <1>1, <1>2

(* The blocks that hold spilled tables are free.                           *)
LEMMA LinksFree ==
  ASSUME NEW s, NEW l, NEW c, NEW h, Good(s, l, c, h), NEW k \in 1 .. Len(l)
  PROVE  l[k] \in Zone \ h /\ l[k] \in Block
<1>1. k + 1 \in 1 .. Len(l) + 1 /\ k + 1 # 1
  BY DEF Good, IsList
<1>2. Tab(s, l, c, k + 1) # <<>> /\ Tab(s, l, c, k + 1)[1] = l[k]
  BY DEF Good, Intact
<1>3. Tab(s, l, c, k + 1) \in Seq(Nat) /\ Len(Tab(s, l, c, k + 1)) \in Nat
  BY <1>1, TabType DEF Good
<1>4. 1 \in 1 .. Len(Tab(s, l, c, k + 1))
  BY <1>2, <1>3, EmptySeq
<1>5. Lists(s, l, c, k + 1, 1)
  BY <1>1, <1>4 DEF Lists
<1>6. Tab(s, l, c, k + 1)[1] \in Zone \ h
  BY <1>5 DEF Good, Parted
<1> QED BY <1>2, <1>6, Layout

(* Only the blocks that hold the tables matter.                            *)
LEMMA SameTables ==
  ASSUME NEW s, NEW l, NEW c, NEW d, d \in [Block -> Seq(Nat)],
         \A k \in 1 .. Len(l) : d[l[k]] = c[l[k]]
  PROVE  /\ IsList(s, l, c) /\ Intact(s, l, c) => IsList(s, l, d) /\ Intact(s, l, d)
         /\ \A h : Good(s, l, c, h) => Good(s, l, d, h)
<1>1. ASSUME IsList(s, l, c), NEW k \in 1 .. Len(l) + 1
      PROVE  Tab(s, l, d, k) = Tab(s, l, c, k)
  <2>1. Len(l) \in Nat
    BY <1>1 DEF IsList
  <2>2. k <= Len(l) => k \in 1 .. Len(l)
    BY <2>1
  <2> QED BY <2>2 DEF Tab
<1>2. ASSUME IsList(s, l, c), Intact(s, l, c)
      PROVE  IsList(s, l, d) /\ Intact(s, l, d)
  <2>1. \A k \in 1 .. Len(l) : k \in 1 .. Len(l) + 1 /\ k + 1 \in 1 .. Len(l) + 1
    BY <1>2 DEF IsList
  <2>2. 1 \in 1 .. Len(l) + 1
    BY <1>2 DEF IsList
  <2> QED BY <1>1, <1>2, <2>1, <2>2 DEF IsList, Intact
<1>3. ASSUME NEW h, Good(s, l, c, h) PROVE Good(s, l, d, h)
  <2>1. \A k, i : Lists(s, l, d, k, i) <=> Lists(s, l, c, k, i)
    BY <1>1, <1>3 DEF Lists, Good
  <2>2. \A k, i : Lists(s, l, c, k, i) => Tab(s, l, d, k) = Tab(s, l, c, k)
    BY <1>1, <1>3 DEF Lists, Good
  <2>3. Parted(s, l, d, h)
    <3>1. Parted(s, l, c, h)
      BY <1>3 DEF Good
    <3> QED BY <3>1, <2>1, <2>2 DEF Parted
  <2> QED BY <1>2, <1>3, <2>3 DEF Good
<1> QED BY <1>2, <1>3

(* The partition with one listed block more, and with one less.            *)
LEMMA Listed ==
  ASSUME NEW s, NEW l, NEW c, NEW s2, NEW l2, NEW c2, NEW h \in SUBSET Zone,
         NEW b \in h, NEW m, NEW j, Parted(s, l, c, h), ~Lists(s, l, c, m, j),
         \A k, i : Lists(s2, l2, c2, k, i) <=> Lists(s, l, c, k, i) \/ (k = m /\ i = j),
         \A k, i : Lists(s, l, c, k, i) => Tab(s2, l2, c2, k)[i] = Tab(s, l, c, k)[i],
         Tab(s2, l2, c2, m)[j] = b
  PROVE  Parted(s2, l2, c2, h \ {b})
<1>1. ASSUME NEW k, NEW i, Lists(s2, l2, c2, k, i)
      PROVE  \/ k = m /\ i = j /\ Tab(s2, l2, c2, k)[i] = b
             \/ /\ Lists(s, l, c, k, i) /\ Tab(s2, l2, c2, k)[i] = Tab(s, l, c, k)[i]
                /\ Tab(s, l, c, k)[i] \in Zone \ h
  BY <1>1 DEF Parted
<1>2. \A k, i : Lists(s2, l2, c2, k, i) => Tab(s2, l2, c2, k)[i] \in Zone \ (h \ {b})
  BY <1>1
<1>3. ASSUME NEW k, NEW i, NEW k2, NEW i2, Lists(s2, l2, c2, k, i),
             Lists(s2, l2, c2, k2, i2), Tab(s2, l2, c2, k)[i] = Tab(s2, l2, c2, k2)[i2]
      PROVE  k = k2 /\ i = i2
  <2>1. \A x : x \in Zone \ h => x # b
    OBVIOUS
  <2>2. CASE k = m /\ i = j /\ Tab(s2, l2, c2, k)[i] = b
    BY <1>1, <1>3, <2>1, <2>2
  <2>3. CASE k2 = m /\ i2 = j /\ Tab(s2, l2, c2, k2)[i2] = b
    BY <1>1, <1>3, <2>1, <2>3
  <2>4. CASE Lists(s, l, c, k, i) /\ Lists(s, l, c, k2, i2)
    BY <1>3, <2>4 DEF Parted
  <2> QED BY <1>1, <1>3, <2>2, <2>3, <2>4
<1>4. ASSUME NEW x \in Zone \ (h \ {b})
      PROVE  \E k, i : Lists(s2, l2, c2, k, i) /\ Tab(s2, l2, c2, k)[i] = x
  <2>1. CASE x = b
    <3>1. Lists(s2, l2, c2, m, j)
      OBVIOUS
    <3> QED BY <2>1, <3>1
  <2>2. CASE x \in Zone \ h
    <3>1. PICK k, i : Lists(s, l, c, k, i) /\ Tab(s, l, c, k)[i] = x
      BY <2>2 DEF Parted
    <3>2. Lists(s2, l2, c2, k, i) /\ Tab(s2, l2, c2, k)[i] = x
      BY <3>1
    <3> QED BY <3>2
  <2> QED BY <2>1, <2>2
<1> QED BY <1>2, <1>3, <1>4 DEF Parted

LEMMA Unlisted ==
  ASSUME NEW s, NEW l, NEW c, NEW s2, NEW l2, NEW c2, NEW h, NEW m, NEW j,
         Parted(s, l, c, h), Lists(s, l, c, m, j),
         \A k, i : Lists(s2, l2, c2, k, i) <=> Lists(s, l, c, k, i) /\ ~(k = m /\ i = j),
         \A k, i : Lists(s2, l2, c2, k, i) => Tab(s2, l2, c2, k)[i] = Tab(s, l, c, k)[i]
  PROVE  Parted(s2, l2, c2, h \cup {Tab(s, l, c, m)[j]})
<1> DEFINE b == Tab(s, l, c, m)[j]
<1>1. ASSUME NEW k, NEW i, Lists(s2, l2, c2, k, i)
      PROVE  Tab(s2, l2, c2, k)[i] \in Zone \ (h \cup {b})
  <2>1. Lists(s, l, c, k, i) /\ ~(k = m /\ i = j) /\ Tab(s2, l2, c2, k)[i] = Tab(s, l, c, k)[i]
    BY <1>1
  <2> QED BY <2>1 DEF Parted
<1>2. ASSUME NEW k, NEW i, NEW k2, NEW i2, Lists(s2, l2, c2, k, i),
             Lists(s2, l2, c2, k2, i2), Tab(s2, l2, c2, k)[i] = Tab(s2, l2, c2, k2)[i2]
      PROVE  k = k2 /\ i = i2
  BY <1>2 DEF Parted
<1>3. ASSUME NEW x \in Zone \ (h \cup {b})
      PROVE  \E k, i : Lists(s2, l2, c2, k, i) /\ Tab(s2, l2, c2, k)[i] = x
  <2>1. PICK k, i : Lists(s, l, c, k, i) /\ Tab(s, l, c, k)[i] = x
    BY <1>3 DEF Parted
  <2>2. Lists(s2, l2, c2, k, i) /\ Tab(s2, l2, c2, k)[i] = x
    BY <1>3, <2>1
  <2> QED BY <2>2
<1> HIDE DEF b
<1>4. Parted(s2, l2, c2, h \cup {b})
  BY <1>1, <1>2, <1>3 DEF Parted
<1> QED BY <1>4 DEF b

-----------------------------------------------------------------------------
(* Disk::free_block.                                                       *)

Extend(s) == IF s = <<>> THEN <<0>> ELSE s

Freed(s, l, c, b, s2, l2, c2) ==
  IF Len(Extend(s)) < Cap
  THEN s2 = Append(Extend(s), b) /\ l2 = l /\ c2 = c
  ELSE s2 = <<b>> /\ l2 = Append(l, b) /\ c2 = [c EXCEPT ![b] = Extend(s)]

(* No table was spilled when the last one is empty.                        *)
LEMMA EmptyListHasNoLinks ==
  ASSUME NEW s, NEW l, NEW c, IsList(s, l, c), Intact(s, l, c), s = <<>>
  PROVE  Len(l) = 0
<1> DEFINE n == Len(l)
<1>1. n \in Nat /\ Tab(s, l, c, n + 1) = s
  BY DEF IsList, Tab
<1>2. n \notin 1 .. n
  BY <1>1 DEF Intact
<1> HIDE DEF n
<1>3. n = 0
  BY <1>1, <1>2
<1> QED BY <1>3 DEF n

(* Facts about the table to extend.                                        *)
LEMMA ExtendType ==
  ASSUME NEW s, NEW l, NEW c, IsList(s, l, c), Intact(s, l, c)
  PROVE  /\ Extend(s) \in Seq(Nat) /\ Len(Extend(s)) \in Nat /\ Len(Extend(s)) >= 1
         /\ Len(Extend(s)) <= Cap
         /\ Extend(s)[1] = (IF s = <<>> THEN 0 ELSE s[1])
         /\ Len(s) \in Nat /\ Len(s) <= Len(Extend(s))
<1>1. CASE s = <<>>
  BY <1>1, Layout DEF Extend
<1>2. CASE s # <<>>
  BY <1>2, Layout, EmptySeq DEF Extend, IsList, Intact
<1> QED BY <1>1, <1>2

LEMMA FreedIntoTable ==
  ASSUME NEW s, NEW l, NEW c, NEW h \in SUBSET Zone, Good(s, l, c, h), NEW b \in h,
         Len(Extend(s)) < Cap
  PROVE  Good(Append(Extend(s), b), l, c, h \ {b})
<1> DEFINE n == Len(l)
           t == Extend(s)
           m == Len(t)
           s2 == Append(t, b)
<1>1. b \in Nat /\ b \in Zone
  BY Layout
<1>2. IsList(s, l, c) /\ Intact(s, l, c) /\ Parted(s, l, c, h)
  BY DEF Good
<1>3. t \in Seq(Nat) /\ m \in Nat /\ m >= 1 /\ Len(s) <= m /\ Len(s) \in Nat
  BY <1>2, ExtendType
<1>4. /\ s2 \in Seq(Nat) /\ Len(s2) = m + 1
      /\ \A i \in 1 .. m : s2[i] = t[i]
      /\ s2[m + 1] = b
  BY <1>1, <1>3, AppendProperties
<1>5. n \in Nat /\ (s = <<>> => n = 0)
  BY <1>2, EmptyListHasNoLinks DEF IsList
<1>6. t[1] = (IF s = <<>> THEN 0 ELSE s[1])
  BY <1>2, ExtendType
<1>6a. m < Cap /\ (s = <<>> => m = 1) /\ (s # <<>> => t = s)
  BY DEF Extend
<1>6b. m \in Nat /\ (s = <<>> => m = 1 /\ Len(s) = 0)
  BY <1>3, <1>6a
<1> HIDE DEF t, s2
<1>7. s2 # <<>> /\ s2[1] = t[1] /\ Len(s2) <= Cap
  BY <1>3, <1>4, <1>6a, EmptySeq, Layout
<1>8. /\ \A k \in 1 .. n : Tab(s2, l, c, k) = Tab(s, l, c, k)
      /\ Tab(s2, l, c, n + 1) = s2 /\ Tab(s, l, c, n + 1) = s
  BY <1>5 DEF Tab
<1>9. IsList(s2, l, c)
  BY <1>2, <1>4 DEF IsList
<1>10. Intact(s2, l, c)
  <2>1. ASSUME NEW k \in 1 .. n
        PROVE  /\ Len(Tab(s2, l, c, k)) = Cap
               /\ Tab(s2, l, c, k + 1) # <<>>
               /\ Tab(s2, l, c, k + 1)[1] = l[k]
    <3>1. s # <<>> /\ s2[1] = s[1]
      BY <1>5, <1>6, <1>7
    <3>2. CASE k = n
      BY <1>2, <1>7, <1>8, <3>1, <3>2 DEF Intact
    <3>3. CASE k + 1 \in 1 .. n
      BY <1>2, <1>8, <3>3 DEF Intact
    <3> QED BY <1>5, <3>2, <3>3
  <2>2. Tab(s2, l, c, 1)[1] = 0
    <3>1. CASE s = <<>>
      BY <1>5, <1>6, <1>7, <1>8, <3>1
    <3>2. CASE s # <<>> /\ n = 0
      BY <1>2, <1>6, <1>7, <1>8, <3>2 DEF Intact
    <3>3. CASE s # <<>> /\ 1 \in 1 .. n
      BY <1>2, <1>8, <3>3 DEF Intact
    <3> QED BY <1>5, <3>1, <3>2, <3>3
  <2> QED BY <1>7, <2>1, <2>2 DEF Intact
<1>11. ~Lists(s, l, c, n + 1, m + 1)
  BY <1>3, <1>5, <1>8 DEF Lists
<1>12. \A k, i : Lists(s2, l, c, k, i) <=>
           Lists(s, l, c, k, i) \/ (k = n + 1 /\ i = m + 1)
  <2> SUFFICES ASSUME NEW k, NEW i
               PROVE  Lists(s2, l, c, k, i) <=>
                        Lists(s, l, c, k, i) \/ (k = n + 1 /\ i = m + 1)
    OBVIOUS
  <2>1. CASE k \in 1 .. n
    BY <1>5, <1>8, <2>1 DEF Lists
  <2>2. CASE k = n + 1
    <3>1. CASE s = <<>>
      <4>1. n = 0 /\ m = 1 /\ Len(s2) = 2 /\ Len(s) = 0
        <5>1. n = 0 /\ m = 1 /\ Len(s) = 0
          BY <1>5, <1>6b, <3>1
        <5> QED BY <1>4, <5>1
      <4> QED BY <1>8, <2>2, <4>1 DEF Lists
    <3>2. CASE s # <<>>
      <4>1. m = Len(s)
        BY <1>6a, <3>2
      <4> QED BY <1>3, <1>4, <1>5, <1>8, <2>2, <4>1 DEF Lists
    <3> QED BY <3>1, <3>2
  <2>3. CASE k \notin 1 .. n + 1
    BY <1>5, <2>3 DEF Lists
  <2> QED BY <1>5, <2>1, <2>2, <2>3
<1>13. ASSUME NEW k, NEW i, Lists(s, l, c, k, i)
       PROVE  Tab(s2, l, c, k)[i] = Tab(s, l, c, k)[i]
  <2>1. CASE k \in 1 .. n
    BY <1>8, <2>1
  <2>2. CASE k = n + 1
    <3>1. i \in 1 .. Len(s)
      BY <1>3, <1>5, <1>8, <1>13, <2>2 DEF Lists
    <3>2. s # <<>>
      BY <3>1
    <3> QED BY <1>3, <1>4, <1>6a, <1>8, <2>2, <3>1, <3>2
  <2> QED BY <1>5, <1>13, <2>1, <2>2 DEF Lists
<1>14. Tab(s2, l, c, n + 1)[m + 1] = b
  BY <1>4, <1>8
<1> HIDE DEF m
<1>15. Parted(s2, l, c, h \ {b})
  BY <1>2, <1>11, <1>12, <1>13, <1>14, Listed
<1>16. Good(s2, l, c, h \ {b})
  BY <1>9, <1>10, <1>15 DEF Good
<1> QED BY <1>16 DEF s2, t

(* The table is full: it is spilled into b, which starts the next one.     *)
LEMMA FreedSpillsTable ==
  ASSUME NEW s, NEW l, NEW c, NEW h \in SUBSET Zone, Good(s, l, c, h), NEW b \in h,
         ~(Len(Extend(s)) < Cap)
  PROVE  Good(<<b>>, Append(l, b), [c EXCEPT ![b] = Extend(s)], h \ {b})
<1> DEFINE n == Len(l)
           s2 == <<b>>
           l2 == Append(l, b)
           c2 == [c EXCEPT ![b] = Extend(s)]
<1>1. b \in Block /\ b \in Nat /\ b \in Zone
  BY Layout
<1>2. IsList(s, l, c) /\ Intact(s, l, c) /\ Parted(s, l, c, h)
  BY DEF Good
<1>3. s # <<>> /\ Extend(s) = s /\ Len(s) = Cap /\ s \in Seq(Nat)
  <2>1. s # <<>>
    <3>1. CASE s = <<>>
      BY <3>1, Layout DEF Extend
    <3> QED BY <3>1
  <2> QED BY <1>2, <2>1, Layout DEF Extend, IsList, Intact
<1>4. n \in Nat /\ l \in Seq(Block) /\ c \in [Block -> Seq(Nat)]
  BY <1>2 DEF IsList
<1>5. /\ l2 \in Seq(Block) /\ Len(l2) = n + 1
      /\ \A k \in 1 .. n : l2[k] = l[k]
      /\ l2[n + 1] = b
  BY <1>1, <1>4, AppendProperties
<1>6. IsList(s2, l2, c2)
  BY <1>1, <1>3, <1>4, <1>5 DEF IsList
<1>7. /\ \A k \in 1 .. n : Tab(s2, l2, c2, k) = Tab(s, l, c, k)
      /\ Tab(s2, l2, c2, n + 1) = s /\ Tab(s, l, c, n + 1) = s
      /\ Tab(s2, l2, c2, n + 2) = <<b>>
  <2>1. ASSUME NEW k \in 1 .. n PROVE Tab(s2, l2, c2, k) = Tab(s, l, c, k)
    <3>1. l[k] \in Zone \ h /\ l[k] \in Block
      BY LinksFree
    <3>2. c2[l[k]] = c[l[k]]
      BY <1>4, <3>1
    <3> QED BY <1>4, <1>5, <3>2 DEF Tab
  <2>2. c2[b] = s
    BY <1>1, <1>3, <1>4
  <2>3. n + 1 <= Len(l2) /\ ~(n + 1 <= n) /\ ~(n + 2 <= Len(l2))
    BY <1>4, <1>5
  <2> QED BY <1>5, <2>1, <2>2, <2>3 DEF Tab
<1> HIDE DEF n, l2, c2
<1>8. \A k \in 1 .. n + 1 : Tab(s2, l2, c2, k) = Tab(s, l, c, k)
  <2>1. \A k \in 1 .. n + 1 : k \in 1 .. n \/ k = n + 1
    BY <1>4
  <2> QED BY <1>7, <2>1
<1>9. Intact(s2, l2, c2)
  <2>1. ASSUME NEW k \in 1 .. n + 1
        PROVE  /\ Len(Tab(s2, l2, c2, k)) = Cap
               /\ Tab(s2, l2, c2, k + 1) # <<>>
               /\ Tab(s2, l2, c2, k + 1)[1] = l2[k]
    <3>1. CASE k = n + 1
      BY <1>3, <1>4, <1>5, <1>7, <3>1
    <3>2. CASE k \in 1 .. n
      <4>1. k + 1 \in 1 .. n + 1
        BY <1>4, <3>2
      <4> QED BY <1>2, <1>5, <1>8, <3>2, <4>1 DEF Intact, n
    <3> QED BY <1>4, <3>1, <3>2
  <2>2. Tab(s2, l2, c2, 1)[1] = 0
    <3>1. 1 \in 1 .. n + 1
      BY <1>4
    <3> QED BY <1>2, <1>3, <1>8, <3>1 DEF Intact
  <2>3. Len(s2) <= Cap
    BY Layout
  <2> QED BY <1>5, <2>1, <2>2, <2>3 DEF Intact
<1>10. Parted(s2, l2, c2, h \ {b})
  <2>1. ~Lists(s, l, c, n + 2, 1)
    BY <1>4 DEF Lists, n
  <2>2. ASSUME NEW k, NEW i
        PROVE  Lists(s2, l2, c2, k, i) <=> Lists(s, l, c, k, i) \/ (k = n + 2 /\ i = 1)
    <3>1. CASE k \in 1 .. n + 1
      <4>1. k \in 1 .. Len(l2) + 1 /\ k # n + 2
        BY <1>4, <1>5, <3>1
      <4>2. Tab(s2, l2, c2, k) = Tab(s, l, c, k)
        BY <1>8, <3>1
      <4> QED BY <3>1, <4>1, <4>2 DEF Lists, n
    <3>2. CASE k = n + 2
      <4>1. k \in 1 .. Len(l2) + 1 /\ k # 1 /\ ~(k \in 1 .. n + 1)
        BY <1>4, <1>5, <3>2
      <4>2. Len(Tab(s2, l2, c2, k)) = 1
        BY <1>7, <3>2
      <4>3. i \in 1 .. 1 <=> i = 1
        OBVIOUS
      <4> QED BY <3>2, <4>1, <4>2, <4>3 DEF Lists, n
    <3>3. CASE k \notin 1 .. n + 2
      <4>1. k \notin 1 .. Len(l2) + 1 /\ k \notin 1 .. n + 1 /\ k # n + 2
        BY <1>4, <1>5, <3>3
      <4> QED BY <4>1 DEF Lists, n
    <3> QED BY <1>4, <3>1, <3>2, <3>3
  <2>3. \A k, i : Lists(s, l, c, k, i) => Tab(s2, l2, c2, k)[i] = Tab(s, l, c, k)[i]
    BY <1>8 DEF Lists, n
  <2>4. Tab(s2, l2, c2, n + 2)[1] = b
    BY <1>7
  <2> HIDE DEF s2
  <2> QED BY <1>2, <2>1, <2>2, <2>3, <2>4, Listed
<1>11. Good(s2, l2, c2, h \ {b})
  BY <1>6, <1>9, <1>10 DEF Good
<1> QED BY <1>11 DEF l2, c2

(* The chain is at least as long, and only block b was written.            *)
Longer(l2, l) == Len(l2) >= Len(l) /\ \A k \in 1 .. Len(l) : l2[k] = l[k]
OnlyAt(b, c2, c) == \A x \in Block \ {b} : c2[x] = c[x]

LEMMA FreedGood ==
  ASSUME NEW s, NEW l, NEW c, NEW h \in SUBSET Zone, Good(s, l, c, h), NEW b \in h,
         NEW s2, NEW l2, NEW c2, Freed(s, l, c, b, s2, l2, c2)
  PROVE  /\ Good(s2, l2, c2, h \ {b})
         /\ Longer(l2, l) /\ OnlyAt(b, c2, c)
<1>1. CASE Len(Extend(s)) < Cap
  <2>1. s2 = Append(Extend(s), b) /\ l2 = l /\ c2 = c
    BY <1>1 DEF Freed
  <2>2. Good(Append(Extend(s), b), l, c, h \ {b})
    BY <1>1, FreedIntoTable
  <2>3. Len(l) \in Nat
    BY DEF Good, IsList
  <2> QED BY <2>1, <2>2, <2>3 DEF Longer, OnlyAt
<1>2. CASE ~(Len(Extend(s)) < Cap)
  <2>1. s2 = <<b>> /\ l2 = Append(l, b) /\ c2 = [c EXCEPT ![b] = Extend(s)]
    BY <1>2 DEF Freed
  <2>2. Good(<<b>>, Append(l, b), [c EXCEPT ![b] = Extend(s)], h \ {b})
    BY <1>2, FreedSpillsTable
  <2>3. l \in Seq(Block) /\ b \in Block /\ Len(l) \in Nat /\ c \in [Block -> Seq(Nat)]
    BY Layout DEF Good, IsList
  <2>4. Len(l2) = Len(l) + 1 /\ \A k \in 1 .. Len(l) : l2[k] = l[k]
    BY <2>1, <2>3, AppendProperties
  <2>5. \A x \in Block \ {b} : c2[x] = c[x]
    BY <2>1, <2>3
  <2>6. Good(s2, l2, c2, h \ {b})
    BY <2>1, <2>2
  <2> QED BY <2>3, <2>4, <2>5, <2>6 DEF Longer, OnlyAt
<1> QED BY <1>1, <1>2

-----------------------------------------------------------------------------
(* Disk::alloc_block.                                                      *)

TookEntry(s, l, c, r, s2, l2) ==
  /\ Len(s) >= 2
  /\ r = s[Len(s)]
  /\ s2 = SubSeq(s, 1, Len(s) - 1)
  /\ l2 = l
TookLink(s, l, c, r, s2, l2) ==
  /\ Len(s) = 1 /\ s[1] # 0
  /\ r = s[1]
  /\ s2 = c[s[1]]
  /\ l2 = SubSeq(l, 1, Len(l) - 1)
TookNone(s, l, c, r, s2, l2) ==
  /\ s = <<>> \/ (Len(s) = 1 /\ s[1] = 0)
  /\ r = -1
  /\ s2 = <<>>
  /\ l2 = l

Took(s, l, c, r, s2, l2) ==
  \/ TookEntry(s, l, c, r, s2, l2)
  \/ TookLink(s, l, c, r, s2, l2)
  \/ TookNone(s, l, c, r, s2, l2)

(* A sequence without its last element.                                    *)
LEMMA DropLast ==
  ASSUME NEW S, NEW s \in Seq(S), Len(s) >= 1
  PROVE  /\ SubSeq(s, 1, Len(s) - 1) \in Seq(S)
         /\ Len(SubSeq(s, 1, Len(s) - 1)) = Len(s) - 1
         /\ \A i \in 1 .. Len(s) - 1 : SubSeq(s, 1, Len(s) - 1)[i] = s[i]
<1>1. Len(s) \in Nat /\ 1 \in Int /\ Len(s) - 1 \in Int
  BY LenProperties
<1>2. \A i \in 1 .. Len(s) - 1 : s[i] \in S
  BY <1>1, ElementOfSeq
<1>3. SubSeq(s, 1, Len(s) - 1) \in Seq(S)
  BY <1>1, <1>2, SubSeqProperties
<1>4. Len(SubSeq(s, 1, Len(s) - 1)) = Len(s) - 1
  <2>1. CASE Len(s) = 1
    <3>1. SubSeq(s, 1, Len(s) - 1) = <<>>
      BY <1>1, <2>1, SubSeqEmpty
    <3>2. Len(<<>>) = 0
      OBVIOUS
    <3> QED BY <2>1, <3>1, <3>2
  <2>2. CASE Len(s) >= 2
    BY <1>1, <1>2, <2>2
  <2>3. \A m \in Nat : m >= 1 => m = 1 \/ m >= 2
    OBVIOUS
  <2> QED BY <1>1, <2>1, <2>2, <2>3, Zenon
<1>5. ASSUME NEW i \in 1 .. Len(s) - 1
      PROVE  SubSeq(s, 1, Len(s) - 1)[i] = s[i]
  BY <1>1, <1>2, <1>5
<1> QED BY <1>3, <1>4, <1>5

LEMMA TookEntryGood ==
  ASSUME NEW s, NEW l, NEW c, NEW h, Good(s, l, c, h), NEW r, NEW s2, NEW l2,
         TookEntry(s, l, c, r, s2, l2)
  PROVE  r \in Zone \ h /\ Good(s2, l2, c, h \cup {r})
<1> DEFINE n == Len(l)
           last == Len(s)
<1>1. /\ IsList(s, l, c) /\ Intact(s, l, c) /\ Parted(s, l, c, h)
      /\ n \in Nat /\ last \in Nat /\ last >= 2 /\ s \in Seq(Nat)
      /\ r = s[last] /\ l2 = l /\ s # <<>>
  BY DEF Good, IsList, TookEntry
<1>2. /\ s2 \in Seq(Nat) /\ Len(s2) = last - 1
      /\ \A i \in 1 .. last - 1 : s2[i] = s[i]
  BY <1>1, DropLast DEF TookEntry
<1>3. /\ \A k \in 1 .. n : Tab(s2, l, c, k) = Tab(s, l, c, k)
      /\ Tab(s2, l, c, n + 1) = s2 /\ Tab(s, l, c, n + 1) = s
  BY <1>1 DEF Tab
<1>4. s2 # <<>> /\ s2[1] = s[1] /\ Len(s2) <= Cap
  BY <1>1, <1>2, EmptySeq, Layout DEF Intact
<1>5. Lists(s, l, c, n + 1, last)
  BY <1>1, <1>3 DEF Lists
<1>6. r \in Zone \ h
  BY <1>1, <1>3, <1>5 DEF Parted
<1> HIDE DEF n, last
<1>7. IsList(s2, l, c)
  BY <1>1, <1>2 DEF IsList
<1>8. Intact(s2, l, c)
  <2>1. ASSUME NEW k \in 1 .. n
        PROVE  /\ Len(Tab(s2, l, c, k)) = Cap
               /\ Tab(s2, l, c, k + 1) # <<>>
               /\ Tab(s2, l, c, k + 1)[1] = l[k]
    <3>1. CASE k = n
      BY <1>1, <1>3, <1>4, <3>1 DEF Intact, n
    <3>2. CASE k + 1 \in 1 .. n
      BY <1>1, <1>3, <3>2 DEF Intact, n
    <3> QED BY <1>1, <3>1, <3>2
  <2>2. Tab(s2, l, c, 1)[1] = 0
    <3>1. CASE n = 0
      BY <1>1, <1>3, <1>4, <3>1 DEF Intact
    <3>2. CASE 1 \in 1 .. n
      BY <1>1, <1>3, <3>2 DEF Intact
    <3> QED BY <1>1, <3>1, <3>2
  <2> QED BY <1>4, <2>1, <2>2 DEF Intact, n
<1>9. Parted(s2, l, c, h \cup {r})
  <2>1. ASSUME NEW k, NEW i
        PROVE  Lists(s2, l, c, k, i) <=> Lists(s, l, c, k, i) /\ ~(k = n + 1 /\ i = last)
    <3>1. CASE k \in 1 .. n
      BY <1>1, <1>3, <3>1 DEF Lists
    <3>2. CASE k = n + 1
      BY <1>1, <1>2, <1>3, <3>2 DEF Lists, last
    <3>3. CASE k \notin 1 .. n + 1
      BY <1>1, <3>3 DEF Lists, n
    <3> QED BY <1>1, <3>1, <3>2, <3>3
  <2>2. ASSUME NEW k, NEW i, Lists(s2, l, c, k, i)
        PROVE  Tab(s2, l, c, k)[i] = Tab(s, l, c, k)[i]
    <3>1. CASE k \in 1 .. n
      BY <1>3, <3>1
    <3>2. CASE k = n + 1
      BY <1>1, <1>2, <1>3, <2>2, <3>2 DEF Lists
    <3>3. k \in 1 .. n + 1
      BY <1>1, <2>2 DEF Lists, n
    <3>4. k \in 1 .. n \/ k = n + 1
      BY <1>1, <3>3
    <3> QED BY <3>1, <3>2, <3>4
  <2>3. Tab(s, l, c, n + 1)[last] = r
    BY <1>1, <1>3
  <2> QED BY <1>1, <1>5, <2>1, <2>2, <2>3, Unlisted
<1> QED BY <1>1, <1>6, <1>7, <1>8, <1>9 DEF Good

LEMMA TookLinkGood ==
  ASSUME NEW s, NEW l, NEW c, NEW h, Good(s, l, c, h), NEW r, NEW s2, NEW l2,
         TookLink(s, l, c, r, s2, l2)
  PROVE  r \in Zone \ h /\ Good(s2, l2, c, h \cup {r}) /\ Longer(l, l2)
<1> DEFINE n == Len(l)
<1>1. /\ IsList(s, l, c) /\ Intact(s, l, c) /\ Parted(s, l, c, h)
      /\ n \in Nat /\ Len(s) = 1 /\ s \in Seq(Nat) /\ s[1] # 0 /\ r = s[1]
      /\ l \in Seq(Block) /\ c \in [Block -> Seq(Nat)]
  BY DEF Good, IsList, TookLink
<1>2. s # <<>>
  <2>1. Len(<<>>) = 0
    OBVIOUS
  <2>2. ASSUME s = <<>> PROVE FALSE
    BY <1>1, <2>1, <2>2
  <2> QED BY <2>2
<1>3. Tab(s, l, c, n + 1) = s
  BY <1>1 DEF Tab
<1>4. n >= 1
  <2>1. n # 0
    BY <1>1, <1>2, <1>3 DEF Intact
  <2> HIDE DEF n
  <2> QED BY <1>1, <2>1
<1>5. n \in 1 .. n /\ r = l[n] /\ Tab(s, l, c, n) = c[r] /\ Len(c[r]) = Cap
  <2>1. n \in 1 .. n
    BY <1>1, <1>4
  <2> QED BY <1>1, <1>3, <2>1 DEF Intact, Tab
<1>6. r \in Zone \ h /\ r \in Block
  BY <1>5, LinksFree
<1>7. s2 = c[r] /\ s2 \in Seq(Nat) /\ Len(s2) = Cap /\ s2 # <<>>
  <2>1. s2 = c[r] /\ s2 \in Seq(Nat) /\ Len(s2) = Cap
    BY <1>1, <1>5, <1>6 DEF TookLink
  <2>2. Len(<<>>) = 0
    OBVIOUS
  <2> QED BY <2>1, <2>2, Layout
<1>8. /\ l2 \in Seq(Block) /\ Len(l2) = n - 1
      /\ \A k \in 1 .. n - 1 : l2[k] = l[k]
  BY <1>1, <1>4, DropLast DEF TookLink
<1> HIDE DEF n
<1>9. \A k \in 1 .. n : Tab(s2, l2, c, k) = Tab(s, l, c, k)
  <2> TAKE k \in 1 .. n
  <2>1. CASE k = n
    <3>1. ~(k <= Len(l2))
      BY <1>1, <1>8, <2>1
    <3> QED BY <1>5, <1>7, <2>1, <3>1 DEF Tab
  <2>2. CASE k \in 1 .. n - 1
    <3>1. k <= Len(l2) /\ k <= n
      BY <1>1, <1>8, <2>2
    <3> QED BY <1>8, <2>2, <3>1 DEF Tab, n
  <2> QED BY <1>1, <2>1, <2>2
<1>10. Intact(s2, l2, c)
  <2>1. \A k \in 1 .. n - 1 : k \in 1 .. n /\ k + 1 \in 1 .. n
    BY <1>1
  <2>2. 1 \in 1 .. n
    BY <1>1, <1>4
  <2>3. Len(s2) <= Cap
    BY <1>7, Layout
  <2>4. Tab(s2, l2, c, 1)[1] = 0
    BY <1>1, <1>2, <1>9, <2>2 DEF Intact
  <2>5. \A k \in 1 .. n - 1 : /\ Len(Tab(s2, l2, c, k)) = Cap
                              /\ Tab(s2, l2, c, k + 1) # <<>>
                              /\ Tab(s2, l2, c, k + 1)[1] = l2[k]
    BY <1>1, <1>8, <1>9, <2>1 DEF Intact, n
  <2> QED BY <1>8, <2>3, <2>4, <2>5 DEF Intact
<1>11. Parted(s2, l2, c, h \cup {r})
  <2>0. Lists(s, l, c, n + 1, 1) /\ Tab(s, l, c, n + 1)[1] = r
    BY <1>1, <1>3, <1>4 DEF Lists, n
  <2>1. ASSUME NEW k, NEW i
        PROVE  Lists(s2, l2, c, k, i) <=> Lists(s, l, c, k, i) /\ ~(k = n + 1 /\ i = 1)
    <3>1. CASE k \in 1 .. n
      <4>1. k \in 1 .. Len(l2) + 1 /\ k # n + 1 /\ k \in 1 .. n + 1
        BY <1>1, <1>8, <3>1
      <4>2. Tab(s2, l2, c, k) = Tab(s, l, c, k)
        BY <1>9, <3>1
      <4> QED BY <4>1, <4>2 DEF Lists, n
    <3>2. CASE k = n + 1
      <4>1. k \notin 1 .. Len(l2) + 1 /\ k # 1
        BY <1>1, <1>4, <1>8, <3>2
      <4>2. Lists(s, l, c, k, i) => i \in 1 .. 1
        BY <1>1, <1>3, <3>2, <4>1 DEF Lists
      <4>3. i \in 1 .. 1 => i = 1
        OBVIOUS
      <4> QED BY <3>2, <4>1, <4>2, <4>3 DEF Lists
    <3>3. CASE k \notin 1 .. n + 1
      <4>1. k \notin 1 .. Len(l2) + 1
        BY <1>1, <1>8, <3>3
      <4> QED BY <3>3, <4>1 DEF Lists, n
    <3> QED BY <1>1, <3>1, <3>2, <3>3
  <2>2. ASSUME NEW k, NEW i, Lists(s2, l2, c, k, i)
        PROVE  Tab(s2, l2, c, k)[i] = Tab(s, l, c, k)[i]
    <3>1. k \in 1 .. n
      BY <1>1, <1>8, <2>2 DEF Lists
    <3> QED BY <1>9, <3>1
  <2> QED BY <1>1, <2>0, <2>1, <2>2, Unlisted
<1>12. Good(s2, l2, c, h \cup {r})
  BY <1>1, <1>7, <1>8, <1>10, <1>11 DEF Good, IsList
<1>13. Longer(l, l2)
  BY <1>1, <1>8 DEF Longer, n
<1> QED BY <1>6, <1>12, <1>13

(* Only the sentinel is left: nothing was listed, nothing is.              *)
LEMMA TookNoneGood ==
  ASSUME NEW s, NEW l, NEW c, NEW h, Good(s, l, c, h), NEW r, NEW s2, NEW l2,
         TookNone(s, l, c, r, s2, l2)
  PROVE  Good(s2, l2, c, h)
<1>1. /\ IsList(s, l, c) /\ Intact(s, l, c) /\ Parted(s, l, c, h)
      /\ Len(l) \in Nat /\ s2 = <<>> /\ l2 = l
  BY DEF Good, IsList, TookNone
<1>2. CASE s = <<>>
  BY <1>1, <1>2
<1>3. CASE Len(s) = 1 /\ s[1] = 0
  <2>1. Len(l) = 0
    <3> SUFFICES ASSUME Len(l) # 0 PROVE FALSE
      OBVIOUS
    <3>1. Len(l) \in 1 .. Len(l) /\ Tab(s, l, c, Len(l) + 1) = s
      BY <1>1 DEF Tab
    <3>2. l[Len(l)] \in Zone
      BY <3>1, LinksFree
    <3>3. l[Len(l)] = 0
      BY <1>1, <1>3, <3>1 DEF Intact
    <3> QED BY <3>2, <3>3, Layout
  <2>2. Tab(s, l, c, 1) = s /\ Tab(s2, l2, c, 1) = <<>> /\ Len(s2) = 0
    BY <1>1, <2>1 DEF Tab
  <2>3. ASSUME NEW k, NEW i, Lists(s, l, c, k, i) PROVE FALSE
    <3>1. k = 1
      BY <2>1, <2>3 DEF Lists
    <3>2. i \in 2 .. Len(s)
      BY <2>2, <2>3, <3>1 DEF Lists
    <3> QED BY <1>3, <3>2
  <2>4. \A k, i : ~Lists(s2, l2, c, k, i)
    BY <1>1, <2>1, <2>2 DEF Lists
  <2>5. IsList(s2, l2, c) /\ Intact(s2, l2, c)
    BY <1>1, <2>1, <2>2, Layout DEF IsList, Intact
  <2>6. Parted(s2, l2, c, h)
    BY <1>1, <2>3, <2>4 DEF Parted
  <2> QED BY <2>5, <2>6 DEF Good
<1> QED BY <1>2, <1>3 DEF TookNone

-----------------------------------------------------------------------------
(* The blocks of files: no block at two places, and slots of 0 where a     *)
(* write failed.                                                           *)

Slot == Zone \cup {0}
AllFiles == [Files -> Seq(Slot)]

Apart(fs) ==
  \A f, g \in Files : \A i \in DOMAIN fs[f], j \in DOMAIN fs[g] :
    fs[f][i] = fs[g][j] /\ fs[f][i] # 0 => f = g /\ i = j

LEMMA SlotsAreBlocks == Slot \subseteq Block
<1>1. 0 \in Block
  BY ListAssumption, Layout
<1> QED BY <1>1, Layout DEF Slot

LEMMA OwnedMember ==
  ASSUME NEW fs, NEW x
  PROVE  x \in Owned(fs) <=>
           x # 0 /\ \E f \in Files : \E i \in DOMAIN fs[f] : fs[f][i] = x
BY DEF Owned

LEMMA OwnedInZone ==
  ASSUME NEW fs \in AllFiles
  PROVE  Owned(fs) \in SUBSET Zone
<1>1. ASSUME NEW f \in Files, NEW i \in DOMAIN fs[f] PROVE fs[f][i] \in Slot
  <2>1. fs[f] \in Seq(Slot)
    BY DEF AllFiles
  <2> QED BY <2>1, ElementOfSeq
<1> QED BY <1>1, OwnedMember DEF Slot

LEMMA NoneOwned ==
  /\ NoFiles \in AllFiles /\ Apart(NoFiles) /\ Owned(NoFiles) = {}
  /\ \A f \in Files : NoFiles[f] = <<>> /\ DOMAIN NoFiles[f] = {}
<1>1. \A f \in Files : NoFiles[f] = <<>> /\ DOMAIN NoFiles[f] = {}
  BY DEF NoFiles
<1>2. NoFiles \in AllFiles
  BY DEF NoFiles, AllFiles
<1> QED BY <1>1, <1>2, OwnedMember DEF Apart

Shrunk(fs, f) == [fs EXCEPT ![f] = Tail(@)]
Grew(fs, f, b) == [fs EXCEPT ![f] = Append(@, b)]

LEMMA FileShrinks ==
  ASSUME NEW fs \in AllFiles, Apart(fs), NEW f \in Files, fs[f] # <<>>,
         Head(fs[f]) # 0, NEW gs, gs = Shrunk(fs, f)
  PROVE  /\ gs \in AllFiles /\ Apart(gs)
         /\ Owned(gs) = Owned(fs) \ {Head(fs[f])}
         /\ Head(fs[f]) \in Owned(fs)
         /\ \A g \in Files \ {f} : /\ gs[g] = fs[g]
                                   /\ \A i \in DOMAIN fs[g] : fs[g][i] # Head(fs[f])
<1> DEFINE q == fs[f]
           n == Len(q)
<1>1. /\ q \in Seq(Slot) /\ n \in Nat /\ n >= 1 /\ DOMAIN q = 1 .. n
      /\ Head(q) = q[1] /\ 1 \in DOMAIN q
  BY EmptySeq DEF AllFiles
<1>2. /\ gs[f] = Tail(q) /\ gs[f] \in Seq(Slot) /\ Len(gs[f]) = n - 1
      /\ DOMAIN gs[f] = 1 .. n - 1
      /\ \A i \in 1 .. n - 1 : i + 1 \in DOMAIN q /\ gs[f][i] = q[i + 1]
  BY <1>1 DEF AllFiles, Shrunk
<1>3. \A g \in Files \ {f} : gs[g] = fs[g] /\ DOMAIN gs[g] = DOMAIN fs[g]
  BY DEF AllFiles, Shrunk
<1>4. gs \in AllFiles
  BY <1>2 DEF AllFiles, Shrunk
<1> HIDE DEF q, n
<1>5. fs[f] = q /\ Head(q) # 0
  BY DEF q
<1>6. Head(q) \in Owned(fs)
  BY <1>1, <1>5, OwnedMember
<1>7. ASSUME NEW g \in Files \ {f}, NEW i \in DOMAIN fs[g]
      PROVE  fs[g][i] # Head(q)
  BY <1>1, <1>5 DEF Apart
<1>8. Apart(gs)
  <2> SUFFICES ASSUME NEW g \in Files, NEW h \in Files, NEW i \in DOMAIN gs[g],
                      NEW j \in DOMAIN gs[h], gs[g][i] = gs[h][j], gs[g][i] # 0
               PROVE  g = h /\ i = j
    BY DEF Apart
  <2>1. CASE g = f /\ h = f
    <3>1. i \in 1 .. n - 1 /\ j \in 1 .. n - 1 /\ q[i + 1] = q[j + 1]
          /\ q[i + 1] # 0
      BY <1>2, <2>1
    <3>2. i + 1 = j + 1
      BY <1>2, <1>5, <3>1 DEF Apart
    <3> QED BY <2>1, <3>1, <3>2
  <2>2. CASE g = f /\ h # f
    <3>1. i + 1 \in DOMAIN fs[f] /\ fs[f][i + 1] = fs[h][j] /\ j \in DOMAIN fs[h]
          /\ fs[f][i + 1] # 0
      BY <1>2, <1>3, <1>5, <2>2
    <3> QED BY <2>2, <3>1 DEF Apart
  <2>3. CASE g # f /\ h = f
    <3>1. j + 1 \in DOMAIN fs[f] /\ fs[f][j + 1] = fs[g][i] /\ i \in DOMAIN fs[g]
          /\ fs[f][j + 1] # 0
      BY <1>2, <1>3, <1>5, <2>3
    <3> QED BY <2>3, <3>1 DEF Apart
  <2>4. CASE g # f /\ h # f
    BY <1>3, <2>4 DEF Apart
  <2> QED BY <2>1, <2>2, <2>3, <2>4
<1>9. ASSUME NEW x \in Owned(gs) PROVE x \in Owned(fs) \ {Head(q)}
  <2>1. PICK g \in Files : \E i \in DOMAIN gs[g] : gs[g][i] = x
    BY DEF Owned
  <2>2. PICK i \in DOMAIN gs[g] : gs[g][i] = x
    BY <2>1
  <2>3. CASE g = f
    <3>1. i \in 1 .. n - 1 /\ i + 1 \in DOMAIN fs[f] /\ fs[f][i + 1] = x /\ i + 1 # 1
      BY <1>1, <1>2, <1>5, <2>2, <2>3
    <3>2. x \in Owned(fs)
      BY <3>1, OwnedMember
    <3>3. x # Head(q)
      BY <1>1, <1>5, <3>1 DEF Apart
    <3> QED BY <3>2, <3>3
  <2>4. CASE g # f
    BY <1>3, <1>7, <2>2, <2>4, OwnedMember
  <2> QED BY <2>3, <2>4
<1>10. ASSUME NEW x \in Owned(fs) \ {Head(q)} PROVE x \in Owned(gs)
  <2>1. PICK g \in Files : \E i \in DOMAIN fs[g] : fs[g][i] = x
    BY OwnedMember
  <2>2. PICK i \in DOMAIN fs[g] : fs[g][i] = x
    BY <2>1
  <2>3. CASE g = f
    <3>1. i \in 1 .. n /\ i # 1 /\ q[i] = x
      BY <1>1, <1>5, <2>2, <2>3
    <3>2. i - 1 \in 1 .. n - 1 /\ (i - 1) + 1 = i
      BY <1>1, <3>1
    <3>3. i - 1 \in DOMAIN gs[f] /\ gs[f][i - 1] = x
      BY <1>2, <3>1, <3>2
    <3> QED BY <3>3, OwnedMember
  <2>4. CASE g # f
    BY <1>3, <2>2, <2>4, OwnedMember
  <2> QED BY <2>3, <2>4
<1>11. Owned(gs) = Owned(fs) \ {Head(q)}
  BY <1>9, <1>10
<1> QED BY <1>3, <1>4, <1>5, <1>6, <1>7, <1>8, <1>11

LEMMA FileGrows ==
  ASSUME NEW fs \in AllFiles, Apart(fs), NEW f \in Files, NEW b \in Zone,
         b \notin Owned(fs), NEW gs, gs = Grew(fs, f, b)
  PROVE  /\ gs \in AllFiles /\ Apart(gs)
         /\ Owned(gs) = Owned(fs) \cup {b}
         /\ \A g \in Files \ {f} : gs[g] = fs[g]
<1> DEFINE q == fs[f]
           n == Len(q)
<1>1. q \in Seq(Slot) /\ n \in Nat /\ DOMAIN q = 1 .. n
  BY DEF AllFiles
<1>2. /\ gs[f] = Append(q, b) /\ gs[f] \in Seq(Slot) /\ Len(gs[f]) = n + 1
      /\ DOMAIN gs[f] = 1 .. n + 1
      /\ \A i \in 1 .. n : gs[f][i] = q[i]
      /\ gs[f][n + 1] = b
  <2>1. gs[f] = Append(q, b)
    BY DEF AllFiles, Grew
  <2> QED BY <1>1, <2>1, AppendProperties, LenProperties DEF Slot
<1>3. \A g \in Files \ {f} : gs[g] = fs[g] /\ DOMAIN gs[g] = DOMAIN fs[g]
  BY DEF AllFiles, Grew
<1>4. gs \in AllFiles
  BY <1>2 DEF AllFiles, Grew
<1> HIDE DEF q, n
<1>5. fs[f] = q
  BY DEF q
<1>6. ASSUME NEW g \in Files, NEW i \in DOMAIN gs[g]
      PROVE  \/ i \in DOMAIN fs[g] /\ gs[g][i] = fs[g][i] /\ gs[g][i] # b
             \/ g = f /\ i = n + 1 /\ gs[g][i] = b
  <2>1. \A k \in DOMAIN fs[g] : fs[g][k] # b
    BY OwnedMember, Layout
  <2>2. CASE g = f
    <3>1. i \in 1 .. n \/ i = n + 1
      BY <1>1, <1>2, <2>2
    <3> QED BY <1>1, <1>2, <1>5, <2>1, <2>2, <3>1
  <2>3. CASE g # f
    BY <1>3, <2>1, <2>3
  <2> QED BY <2>2, <2>3
<1>7. Apart(gs)
  BY <1>6 DEF Apart
<1>8. ASSUME NEW x \in Owned(gs) PROVE x \in Owned(fs) \cup {b}
  <2>1. PICK g \in Files : \E i \in DOMAIN gs[g] : gs[g][i] = x
    BY DEF Owned
  <2>2. PICK i \in DOMAIN gs[g] : gs[g][i] = x
    BY <2>1
  <2> QED BY <1>6, <2>2, OwnedMember
<1>9. ASSUME NEW x \in Owned(fs) \cup {b} PROVE x \in Owned(gs)
  <2>1. CASE x = b
    <3>1. n + 1 \in DOMAIN gs[f] /\ gs[f][n + 1] = b
      BY <1>1, <1>2
    <3> QED BY <2>1, <3>1, OwnedMember, Layout
  <2>2. CASE x \in Owned(fs)
    <3>1. PICK g \in Files : \E i \in DOMAIN fs[g] : fs[g][i] = x
      BY <2>2, OwnedMember
    <3>2. PICK i \in DOMAIN fs[g] : fs[g][i] = x
      BY <3>1
    <3>3. i \in DOMAIN gs[g] /\ gs[g][i] = x
      <4>1. CASE g = f
        BY <1>1, <1>2, <1>5, <3>2, <4>1
      <4>2. CASE g # f
        BY <1>3, <3>2, <4>2
      <4> QED BY <4>1, <4>2
    <3> QED BY <2>2, <3>3, OwnedMember
  <2> QED BY <2>1, <2>2
<1> QED BY <1>3, <1>4, <1>7, <1>8, <1>9

Cut(fs, f, n) == [fs EXCEPT ![f] = CutShort(@, n)]

(* A write that fails adds slots of 0 and nothing else.                    *)
LEMMA FileCut ==
  ASSUME NEW fs \in AllFiles, Apart(fs), NEW f \in Files, NEW n \in Nat,
         Len(fs[f]) < n, NEW gs, gs = Cut(fs, f, n)
  PROVE  /\ gs \in AllFiles /\ Apart(gs) /\ Owned(gs) = Owned(fs)
         /\ \A g \in Files \ {f} : gs[g] = fs[g]
<1> DEFINE q == fs[f]
           m == Len(q)
<1>1. q \in Seq(Slot) /\ m \in Nat /\ DOMAIN q = 1 .. m /\ m < n
  BY DEF AllFiles
<1>2. \A i \in 1 .. m : q[i] \in Slot
  BY <1>1, ElementOfSeq
<1>3. /\ gs[f] = CutShort(q, n) /\ DOMAIN gs[f] = 1 .. n
      /\ \A i \in 1 .. n : gs[f][i] = IF i <= m THEN q[i] ELSE 0
  BY <1>1 DEF AllFiles, Cut, CutShort
<1>4. CutShort(q, n) \in Seq(Slot)
  <2>1. CutShort(q, n) \in [1 .. n -> Slot]
    BY <1>1, <1>2 DEF CutShort, Slot
  <2> QED BY <2>1, SeqDef
<1>5. \A g \in Files \ {f} : gs[g] = fs[g] /\ DOMAIN gs[g] = DOMAIN fs[g]
  BY DEF AllFiles, Cut
<1>6. gs \in AllFiles
  BY <1>4 DEF AllFiles, Cut
<1> HIDE DEF q, m
<1>7. fs[f] = q
  BY DEF q
<1>8. ASSUME NEW g \in Files, NEW i \in DOMAIN gs[g], gs[g][i] # 0
      PROVE  i \in DOMAIN fs[g] /\ gs[g][i] = fs[g][i]
  <2>1. CASE g = f
    BY <1>1, <1>3, <1>7, <1>8, <2>1
  <2>2. CASE g # f
    BY <1>5, <2>2
  <2> QED BY <2>1, <2>2
<1>9. ASSUME NEW g \in Files, NEW i \in DOMAIN fs[g]
      PROVE  i \in DOMAIN gs[g] /\ gs[g][i] = fs[g][i]
  <2>1. CASE g = f
    <3>1. i \in 1 .. n /\ i <= m
      BY <1>1, <1>7, <2>1
    <3> QED BY <1>3, <1>7, <2>1, <3>1
  <2>2. CASE g # f
    BY <1>5, <2>2
  <2> QED BY <2>1, <2>2
<1>10. Apart(gs)
  BY <1>8 DEF Apart
<1>11. Owned(gs) = Owned(fs)
  <2>1. ASSUME NEW x \in Owned(gs) PROVE x \in Owned(fs)
    <3>1. x # 0
      BY OwnedMember
    <3>2. PICK g \in Files : \E i \in DOMAIN gs[g] : gs[g][i] = x
      BY OwnedMember
    <3>3. PICK i \in DOMAIN gs[g] : gs[g][i] = x
      BY <3>2
    <3> QED BY <1>8, <3>1, <3>3, OwnedMember
  <2>2. ASSUME NEW x \in Owned(fs) PROVE x \in Owned(gs)
    <3>1. x # 0
      BY OwnedMember
    <3>2. PICK g \in Files : \E i \in DOMAIN fs[g] : fs[g][i] = x
      BY OwnedMember
    <3>3. PICK i \in DOMAIN fs[g] : fs[g][i] = x
      BY <3>2
    <3> QED BY <1>9, <3>1, <3>3, OwnedMember
  <2> QED BY <2>1, <2>2
<1> QED BY <1>5, <1>6, <1>10, <1>11

-----------------------------------------------------------------------------
(* What a good list is for the properties.                                 *)

LEMMA MemoryGood ==
  ASSUME Good(s_free, links, content, Owned(files) \cup InHand)
  PROVE  Memory!ChainIntact /\ Memory!FreePartition
<1> DEFINE h == Owned(files) \cup InHand
<1>1. /\ Intact(s_free, links, content) /\ Parted(s_free, links, content, h)
      /\ Len(links) \in Nat
  BY DEF Good, IsList
<1>2. \A k : Memory!Table(k) = Tab(s_free, links, content, k)
  BY DEF Memory!Table, Tab
<1>3. Memory!ChainIntact
  BY <1>1, <1>2 DEF Memory!ChainIntact, Intact
<1>4. \A k, i : k \in Memory!Chain /\ i \in Memory!Listing(k) <=>
                  Lists(s_free, links, content, k, i)
  BY <1>2 DEF Memory!Chain, Memory!Listing, Lists
<1>5. Memory!NoHeldListed
  BY <1>1, <1>2, <1>4, Layout DEF Memory!NoHeldListed, Parted
<1>6. Memory!NoneListedTwice
  BY <1>1, <1>2, <1>4 DEF Memory!NoneListedTwice, Parted
<1>7. Memory!NoneLost
  <2>1. Memory!FreeSet = Zone \ h
    BY <1>1, <1>2, <1>4 DEF Memory!FreeSet, Parted
  <2> QED BY <2>1, Layout DEF Memory!NoneLost
<1> QED BY <1>3, <1>5, <1>6, <1>7 DEF Memory!FreePartition

LEMMA ImageGood ==
  ASSUME Good(img.s_free, img.links, content, Owned(img.files))
  PROVE  Image!ChainIntact /\ Image!FreePartition
<1>1. /\ Intact(img.s_free, img.links, content)
      /\ Parted(img.s_free, img.links, content, Owned(img.files))
      /\ Len(img.links) \in Nat
  BY DEF Good, IsList
<1>2. \A k : Image!Table(k) = Tab(img.s_free, img.links, content, k)
  BY DEF Image!Table, Tab
<1>3. Image!ChainIntact
  BY <1>1, <1>2 DEF Image!ChainIntact, Intact
<1>4. \A k, i : k \in Image!Chain /\ i \in Image!Listing(k) <=>
                  Lists(img.s_free, img.links, content, k, i)
  BY <1>2 DEF Image!Chain, Image!Listing, Lists
<1>5. Image!DataZone = Zone
  BY DEF Image!DataZone, Zone
<1>6. Image!NoHeldListed
  BY <1>1, <1>2, <1>4, <1>5 DEF Image!NoHeldListed, Parted
<1>7. Image!NoneListedTwice
  BY <1>1, <1>2, <1>4 DEF Image!NoneListedTwice, Parted
<1>8. Image!NoneLost
  BY <1>1, <1>2, <1>4, <1>5 DEF Image!NoneLost, Image!FreeSet, Parted
<1> QED BY <1>3, <1>6, <1>7, <1>8 DEF Image!FreePartition

LEMMA TornGood ==
  ASSUME NEW h, Good(img.s_free, img.links, Unwritten, h)
  PROVE  /\ Torn!ChainIntact
         /\ Torn!FreeSet = Zone \ h
         /\ h = Owned(img.files) => Torn!FreePartition
<1>1. /\ Intact(img.s_free, img.links, Unwritten)
      /\ Parted(img.s_free, img.links, Unwritten, h)
      /\ Len(img.links) \in Nat
  BY DEF Good, IsList
<1>2. \A k : Torn!Table(k) = Tab(img.s_free, img.links, Unwritten, k)
  BY DEF Torn!Table, Tab
<1>3. Torn!ChainIntact
  BY <1>1, <1>2 DEF Torn!ChainIntact, Intact
<1>4. \A k, i : k \in Torn!Chain /\ i \in Torn!Listing(k) <=>
                  Lists(img.s_free, img.links, Unwritten, k, i)
  BY <1>2 DEF Torn!Chain, Torn!Listing, Lists
<1>5. Torn!DataZone = Zone
  BY DEF Torn!DataZone, Zone
<1>6. h = Owned(img.files) => Torn!NoHeldListed
  BY <1>1, <1>2, <1>4, <1>5 DEF Torn!NoHeldListed, Parted
<1>7. Torn!NoneListedTwice
  BY <1>1, <1>2, <1>4 DEF Torn!NoneListedTwice, Parted
<1>8. Torn!FreeSet = Zone \ h
  BY <1>1, <1>2, <1>4 DEF Torn!FreeSet, Parted
<1>9. h = Owned(img.files) => Torn!NoneLost
  BY <1>5, <1>8 DEF Torn!NoneLost
<1> QED BY <1>3, <1>6, <1>7, <1>8, <1>9 DEF Torn!FreePartition

-----------------------------------------------------------------------------
(* The image as makeimage leaves it: format's loop over a blank disk.      *)

LEMMA Induct ==
  ASSUME NEW T, 0 \in T, \A n \in Nat : n \in T => n + 1 \in T
  PROVE  Nat \subseteq T
<1> SUFFICES ASSUME Nat \ T # {} PROVE FALSE
  OBVIOUS
<1> DEFINE R == OpToRel(<, Nat)
<1>1. \A x, y \in Nat : x < y => <<x, y>> \in R
  BY DEF OpToRel
<1> HIDE DEF R
<1>2. IsWellFoundedOn(R, Nat)
  BY NatLessThanWellFounded DEF R
<1>3. PICK x \in Nat \ T : \A y \in Nat \ T : ~(<<y, x>> \in R)
  BY <1>2, WFMin
<1>4. x # 0 /\ x - 1 \in Nat /\ x - 1 < x /\ (x - 1) + 1 = x
  BY <1>3
<1>5. x - 1 \in T
  BY <1>1, <1>3, <1>4
<1> QED BY <1>3, <1>4, <1>5

Blank == [table |-> <<>>, links |-> <<>>, content |-> [b \in Block |-> <<>>]]
Grown(was, n) ==
  LET table == IF was.table = <<>> THEN <<0>> ELSE was.table
  IN IF Len(table) < Cap
     THEN [was EXCEPT !.table = Append(table, n)]
     ELSE [table |-> <<n>>, links |-> Append(was.links, n),
           content |-> [was.content EXCEPT ![n] = table]]
UpTo(m) == FirstData - 1 .. FirstData - 1 + m

LEMMA LoopExists ==
  \A m \in Nat :
    \E g : g = [n \in UpTo(m) |-> IF n < FirstData THEN Blank ELSE Grown(g[n - 1], n)]
<1> DEFINE T == {m \in Nat : \E g : g = [n \in UpTo(m) |->
                   IF n < FirstData THEN Blank ELSE Grown(g[n - 1], n)]}
<1>1. 0 \in T
  <2> DEFINE g == [n \in UpTo(0) |-> Blank]
  <2>1. \A n \in UpTo(0) : n < FirstData
    BY Layout DEF UpTo
  <2>2. g = [n \in UpTo(0) |-> IF n < FirstData THEN Blank ELSE Grown(g[n - 1], n)]
    BY <2>1
  <2> QED BY <2>2
<1>2. ASSUME NEW m \in Nat, m \in T PROVE m + 1 \in T
  <2>1. PICK g : g = [n \in UpTo(m) |->
                        IF n < FirstData THEN Blank ELSE Grown(g[n - 1], n)]
    BY <1>2
  <2> DEFINE e == FirstData - 1 + (m + 1)
             g2 == [n \in UpTo(m + 1) |-> IF n = e THEN Grown(g[n - 1], n) ELSE g[n]]
  <2>2. ASSUME NEW n \in UpTo(m + 1)
        PROVE  g2[n] = IF n < FirstData THEN Blank ELSE Grown(g2[n - 1], n)
    <3>0. n \in Int /\ FirstData \in Int
      BY Layout DEF UpTo
    <3>1. CASE n = e
      <4>1. ~(n < FirstData) /\ n - 1 \in UpTo(m + 1) /\ n - 1 # e
        BY <3>0, <3>1, Layout DEF UpTo
      <4> QED BY <3>1, <4>1
    <3>2. CASE n # e /\ n < FirstData
      <4>1. n \in UpTo(m)
        BY <3>0, <3>2, Layout DEF UpTo
      <4> QED BY <2>1, <3>2, <4>1
    <3>3. CASE n # e /\ ~(n < FirstData)
      <4>1. n \in UpTo(m) /\ n - 1 \in UpTo(m + 1) /\ n - 1 # e
        BY <3>0, <3>3, Layout DEF UpTo
      <4>2. g2[n] = g[n] /\ g2[n - 1] = g[n - 1]
        BY <3>3, <4>1
      <4>3. g[n] = Grown(g[n - 1], n)
        BY <2>1, <3>3, <4>1
      <4> QED BY <3>3, <4>2, <4>3
    <3> QED BY <3>1, <3>2, <3>3
  <2>3. g2 = [n \in UpTo(m + 1) |-> g2[n]]
    OBVIOUS
  <2> HIDE DEF g2
  <2>4. g2 = [n \in UpTo(m + 1) |->
                IF n < FirstData THEN Blank ELSE Grown(g2[n - 1], n)]
    BY <2>2, <2>3
  <2> QED BY <2>4
<1>3. Nat \subseteq T
  <2> HIDE DEF T
  <2> QED BY <1>1, <1>2, Induct
<1> QED BY <1>3

LEMMA LoopSteps ==
  ASSUME NEW n \in FirstData - 1 .. EndData - 1
  PROVE  Formatted[n] = IF n < FirstData THEN Blank ELSE Grown(Formatted[n - 1], n)
<1> DEFINE S == FirstData - 1 .. EndData - 1
<1>1. S = UpTo(EndData - FirstData) /\ EndData - FirstData \in Nat
  <2>1. FirstData - 1 + (EndData - FirstData) = EndData - 1
    BY Layout
  <2> QED BY <2>1, Layout DEF UpTo
<1>2. \E g : g = [k \in S |-> IF k < FirstData THEN Blank ELSE Grown(g[k - 1], k)]
  BY <1>1, LoopExists
<1>3. Formatted = CHOOSE g : g = [k \in S |-> IF k < FirstData THEN Blank
                                             ELSE Grown(g[k - 1], k)]
  BY Zenon DEF Formatted, Blank, Grown
<1> HIDE DEF S
<1>4. Formatted = [k \in S |-> IF k < FirstData THEN Blank ELSE Grown(Formatted[k - 1], k)]
  BY <1>2, <1>3, Zenon
<1> QED BY <1>4 DEF S

LEMMA BlankGood == Good(Blank.table, Blank.links, Blank.content, Zone)
<1>1. /\ Blank.table = <<>> /\ Blank.links = <<>>
      /\ Blank.content \in [Block -> Seq(Nat)]
      /\ Len(Blank.links) = 0 /\ Len(Blank.table) = 0
  BY DEF Blank
<1>2. IsList(Blank.table, Blank.links, Blank.content)
  BY <1>1 DEF IsList
<1>3. Intact(Blank.table, Blank.links, Blank.content)
  BY <1>1, Layout DEF Intact
<1>4. Parted(Blank.table, Blank.links, Blank.content, Zone)
  <2>1. \A k, i : ~Lists(Blank.table, Blank.links, Blank.content, k, i)
    BY <1>1 DEF Lists, Tab
  <2> QED BY <2>1 DEF Parted
<1> QED BY <1>2, <1>3, <1>4 DEF Good

Blanked == [table : Seq(Nat), links : Seq(Block), content : [Block -> Seq(Nat)]]

LEMMA GrownGood ==
  ASSUME NEW h \in SUBSET Zone, NEW n \in h, NEW was \in Blanked,
         Good(was.table, was.links, was.content, h), NEW now, now = Grown(was, n)
  PROVE  now \in Blanked /\ Good(now.table, now.links, now.content, h \ {n})
<1> DEFINE t == Extend(was.table)
<1>1. /\ was.table \in Seq(Nat) /\ was.links \in Seq(Block)
      /\ was.content \in [Block -> Seq(Nat)]
      /\ n \in Nat /\ n \in Block /\ t \in Seq(Nat)
  BY ExtendType, Layout DEF Good, Blanked
<1>2. CASE Len(t) < Cap
  <2>1. now = [was EXCEPT !.table = Append(t, n)]
    BY <1>2 DEF Grown, Extend
  <2> HIDE DEF t
  <2>2. now \in Blanked /\ now.table = Append(t, n) /\ now.links = was.links
        /\ now.content = was.content
    <3> DEFINE u == Append(t, n)
    <3>1. u \in Seq(Nat) /\ now = [was EXCEPT !.table = u]
      BY <1>1, <2>1
    <3> HIDE DEF u
    <3>2. now \in Blanked /\ now.table = u /\ now.links = was.links
          /\ now.content = was.content
      BY <3>1 DEF Blanked
    <3> QED BY <3>2 DEF u
  <2>3. Freed(was.table, was.links, was.content, n, now.table, now.links, now.content)
    BY <1>2, <2>2 DEF Freed, t
  <2> QED BY <2>2, <2>3, FreedGood
<1>3. CASE ~(Len(t) < Cap)
  <2>1. now = [table |-> <<n>>, links |-> Append(was.links, n),
               content |-> [was.content EXCEPT ![n] = t]]
    BY <1>3 DEF Grown, Extend
  <2> HIDE DEF t
  <2>2. /\ now.table = <<n>> /\ now.links = Append(was.links, n)
        /\ now.content = [was.content EXCEPT ![n] = t]
    BY <2>1
  <2>3. <<n>> \in Seq(Nat) /\ Append(was.links, n) \in Seq(Block)
        /\ [was.content EXCEPT ![n] = t] \in [Block -> Seq(Nat)]
    BY <1>1
  <2>4. now \in Blanked
    BY <2>1, <2>3 DEF Blanked
  <2>5. Freed(was.table, was.links, was.content, n, now.table, now.links, now.content)
    BY <1>3, <2>2 DEF Freed, t
  <2> QED BY <2>4, <2>5, FreedGood
<1> QED BY <1>2, <1>3

LEMMA FormattedGood ==
  LET made == Formatted[EndData - 1]
  IN  Good(made.table, made.links, made.content, {})
<1> DEFINE at(m) == Formatted[FirstData - 1 + m]
           T == {m \in Nat : FirstData - 1 + m <= EndData - 1 =>
                   /\ at(m) \in Blanked
                   /\ Good(at(m).table, at(m).links, at(m).content,
                           FirstData + m .. EndData - 1)}
<1>1. 0 \in T
  <2>1. Formatted[FirstData - 1] = Blank
    <3>1. FirstData - 1 \in FirstData - 1 .. EndData - 1 /\ FirstData - 1 < FirstData
      BY Layout
    <3> QED BY <3>1, LoopSteps
  <2>2. FirstData - 1 + 0 = FirstData - 1 /\ FirstData + 0 .. EndData - 1 = Zone
    BY Layout DEF Zone
  <2>3. Blank \in Blanked
    BY DEF Blank, Blanked
  <2> QED BY <2>1, <2>2, <2>3, BlankGood
<1>2. ASSUME NEW m \in Nat, m \in T PROVE m + 1 \in T
  <2> SUFFICES ASSUME FirstData - 1 + (m + 1) <= EndData - 1
               PROVE  /\ at(m + 1) \in Blanked
                      /\ Good(at(m + 1).table, at(m + 1).links, at(m + 1).content,
                              FirstData + (m + 1) .. EndData - 1)
    OBVIOUS
  <2> DEFINE n == FirstData + m
             was == at(m)
             h == n .. EndData - 1
             now == Grown(was, n)
  <2>1. /\ n \in FirstData - 1 .. EndData - 1 /\ ~(n < FirstData)
        /\ n - 1 = FirstData - 1 + m /\ n = FirstData - 1 + (m + 1)
        /\ n \in h /\ h \in SUBSET Zone /\ n \in Block /\ n \in Nat
        /\ h \ {n} = FirstData + (m + 1) .. EndData - 1
        /\ FirstData - 1 + m <= EndData - 1
    BY Layout DEF Zone
  <2>2. at(m + 1) = now
    BY <2>1, LoopSteps
  <2>3. was \in Blanked /\ Good(was.table, was.links, was.content, h)
    BY <1>2, <2>1
  <2> HIDE DEF n, was, h
  <2>4. now \in Blanked /\ Good(now.table, now.links, now.content, h \ {n})
    <3> HIDE DEF now
    <3>1. now = Grown(was, n)
      BY DEF now
    <3> QED BY <2>1, <2>3, <3>1, GrownGood
  <2> QED BY <2>1, <2>2, <2>4
<1>3. Nat \subseteq T
  <2> HIDE DEF T
  <2> QED BY <1>1, <1>2, Induct
<1>4. EndData - FirstData \in T /\ FirstData - 1 + (EndData - FirstData) = EndData - 1
  <2>1. EndData - FirstData \in Nat
        /\ FirstData - 1 + (EndData - FirstData) = EndData - 1
    BY Layout
  <2> HIDE DEF T
  <2> QED BY <1>3, <2>1
<1>5. FirstData + (EndData - FirstData) .. EndData - 1 = {}
  BY Layout
<1>6. at(EndData - FirstData) = Formatted[EndData - 1]
  BY <1>4
<1>7. Good(Formatted[EndData - 1].table, Formatted[EndData - 1].links,
           Formatted[EndData - 1].content, {})
  <2>1. Good(at(EndData - FirstData).table, at(EndData - FirstData).links,
             at(EndData - FirstData).content,
             FirstData + (EndData - FirstData) .. EndData - 1)
    <3> HIDE DEF at
    <3>1. FirstData - 1 + (EndData - FirstData) <= EndData - 1
      BY <1>4, Layout
    <3> QED BY <1>4, <3>1
  <2> HIDE DEF at
  <2> QED BY <1>5, <1>6, <2>1
<1> QED BY <1>7

-----------------------------------------------------------------------------
(* The inductive invariant.                                                *)

Shaped ==
  /\ s_free \in Seq(Nat) /\ links \in Seq(Block) /\ content \in [Block -> Seq(Nat)]
  /\ files \in AllFiles /\ ret \in Zone \cup {-1}
  /\ phase \in {"closed", "open", "saving"}
  /\ img \in [s_free : Seq(Nat), links : Seq(Block), files : AllFiles]
  /\ kept \in [Files -> Seq(Seq(Nat))]
  /\ touched \subseteq Files /\ low \in Nat
  /\ unflushed = <<>> \/ unflushed \in [at : Block, old : Seq(Nat)]
  /\ task = <<>> \/ task \in [file : Files, size : Nat, empty : BOOLEAN]

(* What the phase and a write in progress say of the rest.                 *)
Phases ==
  /\ phase = "closed" => ret = -1 /\ task = <<>> /\ unflushed = <<>> /\ touched = {}
  /\ phase = "saving" => /\ ret = -1 /\ task = <<>> /\ unflushed = <<>>
                         /\ img.s_free = s_free /\ img.links = links
  /\ task # <<>> => task.file \in touched /\ Whole(task.file)
  /\ ret # -1 => task # <<>>
  /\ phase # "closed" => lost = "nothing"

(* The memory of a session: the list and the files share the zone, and a   *)
(* file that was not touched is the image's.                               *)
Hands == Owned(files) \cup InHand
Running ==
  phase # "closed" =>
    /\ Good(s_free, links, content, Hands)
    /\ Apart(files) /\ ret \notin Owned(files)
    /\ \A f \in Files \ touched : files[f] = img.files[f]

(* The image of a session: the tables that were never taken are still      *)
(* linked in both lists, nothing was written to them, nor to an untouched  *)
(* file, and no write of these is in the buffer.                           *)
Buffered(b) == unflushed # <<>> /\ unflushed.at = b
FilesKept ==
  \A f \in Files \ touched : \A i \in DOMAIN img.files[f] :
    kept[f][i] = content[img.files[f][i]] /\ ~Buffered(img.files[f][i])
TablesKept ==
  phase = "open" =>
    /\ low <= Len(links) /\ low <= Len(img.links)
    /\ \A k \in 1 .. low : links[k] = img.links[k] /\ ~Buffered(links[k])
ListKept ==
  (phase = "closed" /\ lost = "nothing") \/ (phase = "open" /\ low = Len(img.links))
    => Good(img.s_free, img.links, content, Owned(img.files))
Saved == Apart(img.files) /\ FilesKept /\ TablesKept /\ ListKept

IInv == Shaped /\ Phases /\ Running /\ Saved

LEMMA HandsInZone ==
  ASSUME Shaped
  PROVE  Hands \in SUBSET Zone /\ Owned(files) \in SUBSET Zone
<1>1. Owned(files) \in SUBSET Zone
  BY OwnedInZone DEF Shaped
<1>2. InHand \in SUBSET Zone
  BY DEF Shaped, InHand
<1> QED BY <1>1, <1>2 DEF Hands

(* Losing the buffered write is one more content of the disk.              *)
LEMMA UnwrittenType ==
  ASSUME Shaped
  PROVE  /\ Unwritten \in [Block -> Seq(Nat)]
         /\ \A b \in Block : ~Buffered(b) => Unwritten[b] = content[b]
<1>1. CASE unflushed = <<>>
  BY <1>1 DEF Unwritten, Shaped
<1>2. CASE unflushed # <<>>
  <2>1. unflushed.at \in Block /\ unflushed.old \in Seq(Nat)
    BY <1>2 DEF Shaped
  <2>2. Unwritten = [content EXCEPT ![unflushed.at] = unflushed.old]
    BY <1>2 DEF Unwritten
  <2> QED BY <1>2, <2>1, <2>2 DEF Shaped, Buffered
<1> QED BY <1>1, <1>2

(* The image's list is found with the buffered write and without it.       *)
LEMMA TornList ==
  ASSUME IInv, (phase = "closed" /\ lost = "nothing") \/ (phase = "open" /\ low = Len(img.links))
  PROVE  /\ Good(img.s_free, img.links, content, Owned(img.files))
         /\ Good(img.s_free, img.links, Unwritten, Owned(img.files))
<1>1. Good(img.s_free, img.links, content, Owned(img.files))
  BY DEF IInv, Saved, ListKept
<1>2. Shaped
  BY DEF IInv
<1>3. \A k \in 1 .. Len(img.links) : Unwritten[img.links[k]] = content[img.links[k]]
  <2> TAKE k \in 1 .. Len(img.links)
  <2>1. img.links[k] \in Block
    BY <1>2, ElementOfSeq DEF Shaped
  <2>2. ~Buffered(img.links[k])
    <3>1. CASE phase = "closed"
      BY <3>1 DEF IInv, Phases, Buffered
    <3>2. CASE phase = "open" /\ low = Len(img.links)
      BY <3>2 DEF IInv, Saved, TablesKept
    <3> QED BY <3>1, <3>2
  <2> QED BY <1>2, <2>1, <2>2, UnwrittenType
<1>4. Good(img.s_free, img.links, Unwritten, Owned(img.files))
  BY <1>1, <1>2, <1>3, SameTables, UnwrittenType
<1> QED BY <1>1, <1>4

-----------------------------------------------------------------------------
(* The invariant is what the properties say, and more.                     *)

LEMMA ImageBlocks ==
  ASSUME Shaped, NEW f \in Files
  PROVE  /\ \A i \in DOMAIN img.files[f] : img.files[f][i] \in Block
         /\ \A i \in DOMAIN files[f] : files[f][i] \in Block
<1>1. img.files[f] \in Seq(Slot) /\ files[f] \in Seq(Slot)
  BY DEF Shaped, AllFiles
<1>2. \A q \in Seq(Slot) : \A i \in DOMAIN q : q[i] \in Block
  <2> TAKE q \in Seq(Slot)
  <2> TAKE i \in DOMAIN q
  <2>1. q[i] \in Slot
    BY ElementOfSeq
  <2> QED BY <2>1, SlotsAreBlocks
<1> QED BY <1>1, <1>2, Zenon

LEMMA SeqZone == AllFiles \subseteq [Files -> Seq(Block)]
<1>1. ASSUME NEW q \in Seq(Slot) PROVE q \in Seq(Block)
  <2>1. Len(q) \in Nat /\ q \in [1 .. Len(q) -> Slot]
    BY LenProperties
  <2>2. q \in [1 .. Len(q) -> Block]
    BY <2>1, SlotsAreBlocks
  <2> QED BY <2>1, <2>2, SeqDef
<1> QED BY <1>1 DEF AllFiles

LEMMA IsTyped == IInv => TypeOK
<1>1. ASSUME Shaped PROVE TypeOK
  BY <1>1, SeqZone, Layout DEF Shaped, TypeOK
<1> QED BY <1>1 DEF IInv

LEMMA IsSessionSound == IInv => SessionSound
BY MemoryGood DEF IInv, Running, Hands, SessionSound

LEMMA IsCrashKeepsList == IInv => CrashKeepsList
<1> SUFFICES ASSUME IInv, (phase = "closed" /\ lost = "nothing")
                          \/ (phase = "open" /\ low = Len(img.links))
             PROVE  /\ Image!ChainIntact /\ Image!FreePartition
                    /\ Torn!ChainIntact /\ Torn!FreePartition
  BY DEF CrashKeepsList
<1>1. /\ Good(img.s_free, img.links, content, Owned(img.files))
      /\ Good(img.s_free, img.links, Unwritten, Owned(img.files))
  BY TornList
<1>2. Torn!ChainIntact /\ Torn!FreePartition
  BY <1>1, TornGood
<1> QED BY <1>1, <1>2, ImageGood

LEMMA IsUntouchedSurvive == IInv => UntouchedSurvive
<1> SUFFICES ASSUME IInv, NEW f \in Files \ touched, NEW i \in DOMAIN img.files[f]
             PROVE  /\ content[img.files[f][i]] = kept[f][i]
                    /\ Unwritten[img.files[f][i]] = kept[f][i]
  BY DEF UntouchedSurvive
<1>1. kept[f][i] = content[img.files[f][i]] /\ ~Buffered(img.files[f][i])
  BY DEF IInv, Saved, FilesKept
<1>2. img.files[f][i] \in Block
  BY ImageBlocks DEF IInv
<1> QED BY <1>1, <1>2, UnwrittenType DEF IInv

LEMMA IsHalfSaved == IInv => HalfSavedSparesOthers
<1> SUFFICES ASSUME IInv, phase = "saving"
             PROVE  /\ Torn!ChainIntact
                    /\ \A f \in Files \ touched : \A i \in DOMAIN img.files[f] :
                         img.files[f][i] \notin Torn!FreeSet
                    /\ Image!DataZone \ (Torn!FreeSet \cup Owned(img.files))
                         \subseteq UNION {{files[f][i] : i \in DOMAIN files[f]} : f \in touched}
  BY DEF HalfSavedSparesOthers
<1>1. /\ img.s_free = s_free /\ img.links = links /\ Unwritten = content
      /\ Hands = Owned(files)
  BY DEF IInv, Phases, Unwritten, Hands, InHand
<1>2. Good(img.s_free, img.links, Unwritten, Owned(files))
  BY <1>1 DEF IInv, Running
<1>3. Torn!ChainIntact /\ Torn!FreeSet = Zone \ Owned(files)
  BY <1>2, TornGood
<1>4. \A f \in Files \ touched : files[f] = img.files[f]
  BY DEF IInv, Running
<1>5. ASSUME NEW f \in Files \ touched, NEW i \in DOMAIN img.files[f]
      PROVE  img.files[f][i] \notin Torn!FreeSet
  <2>1. img.files[f][i] = 0 \/ img.files[f][i] \in Owned(files)
    BY <1>4, OwnedMember
  <2> QED BY <1>3, <2>1, Layout
<1>6. ASSUME NEW x \in Image!DataZone \ (Torn!FreeSet \cup Owned(img.files))
      PROVE  x \in UNION {{files[f][i] : i \in DOMAIN files[f]} : f \in touched}
  <2>1. x \in Owned(files) /\ x \notin Owned(img.files)
    BY <1>3 DEF Image!DataZone, Zone
  <2>2. PICK f \in Files : \E i \in DOMAIN files[f] : files[f][i] = x
    BY <2>1 DEF Owned
  <2>3. f \in touched
    BY <1>4, <2>1, <2>2, OwnedMember
  <2> QED BY <2>2, <2>3
<1> QED BY <1>3, <1>5, <1>6

-----------------------------------------------------------------------------
(* Opening and closing.                                                    *)

THEOREM InitIInv == Init => IInv
<1> SUFFICES ASSUME Init PROVE IInv
  OBVIOUS
<1> DEFINE made == Formatted[EndData - 1]
<1>1. /\ img = [s_free |-> made.table, links |-> made.links, files |-> NoFiles]
      /\ content = made.content /\ s_free = <<>> /\ links = <<>> /\ files = NoFiles
      /\ ret = -1 /\ task = <<>> /\ phase = "closed" /\ unflushed = <<>>
      /\ kept = NoFiles /\ touched = {} /\ low = 0 /\ lost = "nothing"
  BY DEF Init
<1>2. Good(made.table, made.links, made.content, {})
  BY FormattedGood
<1> HIDE DEF made
<1>3. /\ img.s_free = made.table /\ img.links = made.links /\ img.files = NoFiles
      /\ made.table \in Seq(Nat) /\ made.links \in Seq(Block)
      /\ content \in [Block -> Seq(Nat)]
  BY <1>1, <1>2 DEF Good, IsList
<1>4. kept \in [Files -> Seq(Seq(Nat))]
  BY <1>1 DEF NoFiles
<1>5. Shaped
  BY <1>1, <1>3, <1>4, NoneOwned DEF Shaped
<1>6. Phases /\ Running
  BY <1>1 DEF Phases, Running
<1>7. Apart(img.files) /\ FilesKept /\ TablesKept
  BY <1>1, <1>3, NoneOwned DEF FilesKept, TablesKept
<1>8. ListKept
  BY <1>1, <1>2, <1>3, NoneOwned DEF ListKept
<1> QED BY <1>5, <1>6, <1>7, <1>8 DEF IInv, Saved

LEMMA LoadStep ==
  ASSUME IInv, Load
  PROVE  IInv'
<1> USE DEF IInv
<1>1. /\ phase = "closed" /\ lost = "nothing" /\ phase' = "open"
      /\ s_free' = img.s_free /\ links' = img.links /\ files' = img.files
      /\ touched' = {} /\ low' = Len(img.links)
      /\ UNCHANGED <<content, ret, task, img, unflushed, kept, lost>>
  BY DEF Load
<1>2. ret = -1 /\ task = <<>> /\ unflushed = <<>> /\ touched = {}
  BY <1>1 DEF Phases
<1>3. Good(img.s_free, img.links, content, Owned(img.files)) /\ Apart(img.files)
  BY <1>1 DEF Saved, ListKept
<1>4. img.links \in Seq(Block) /\ Len(img.links) \in Nat
  BY DEF Shaped
<1>5. Shaped'
  BY <1>1, <1>4 DEF Shaped
<1>6. Phases'
  BY <1>1, <1>2 DEF Phases
<1>7. Owned(files)' = Owned(img.files) /\ Hands' = Owned(img.files)
  BY <1>1, <1>2 DEF Owned, Hands, InHand
<1>8. ret' \notin Owned(files)'
  BY <1>1, <1>2, <1>7, OwnedInZone, Layout DEF Shaped
<1>9. Running'
  BY <1>1, <1>3, <1>7, <1>8 DEF Running
<1>10. FilesKept'
  BY <1>1, <1>2 DEF Saved, FilesKept, Buffered
<1>11. TablesKept'
  BY <1>1, <1>2, <1>4 DEF TablesKept, Buffered
<1>12. ListKept'
  BY <1>1, <1>3 DEF ListKept
<1> QED BY <1>1, <1>3, <1>5, <1>6, <1>9, <1>10, <1>11, <1>12 DEF Saved

LEMMA SaveSuperblockStep ==
  ASSUME IInv, SaveSuperblock
  PROVE  IInv'
<1> USE DEF IInv
<1>1. /\ phase = "open" /\ phase' = "saving" /\ task = <<>>
      /\ img' = [img EXCEPT !.s_free = s_free, !.links = links]
      /\ unflushed' = <<>>
      /\ UNCHANGED <<s_free, links, files, content, ret, task, kept, touched, low, lost>>
  BY DEF SaveSuperblock, metadata, counters, ghosts
<1>2. ret = -1
  BY <1>1 DEF Phases
<1>3. /\ img'.s_free = s_free /\ img'.links = links /\ img'.files = img.files
      /\ img' \in [s_free : Seq(Nat), links : Seq(Block), files : AllFiles]
  BY <1>1 DEF Shaped
<1>4. Shaped'
  BY <1>1, <1>3 DEF Shaped
<1>5. Phases'
  BY <1>1, <1>2, <1>3 DEF Phases
<1>6. Hands' = Hands /\ Owned(files)' = Owned(files)
  BY <1>1 DEF Hands, InHand, Owned
<1>7. Running'
  BY <1>1, <1>3, <1>6 DEF Running
<1>8. FilesKept'
  BY <1>1, <1>3 DEF Saved, FilesKept, Buffered
<1>9. TablesKept' /\ ListKept'
  BY <1>1 DEF TablesKept, ListKept
<1>10. Apart(img'.files)
  BY <1>3 DEF Saved
<1> QED BY <1>4, <1>5, <1>7, <1>8, <1>9, <1>10 DEF Saved

LEMMA ContentsType ==
  ASSUME NEW c \in [Block -> Seq(Nat)], NEW fs \in AllFiles
  PROVE  [f \in Files |-> [i \in DOMAIN fs[f] |-> c[fs[f][i]]]]
           \in [Files -> Seq(Seq(Nat))]
<1>1. ASSUME NEW f \in Files
      PROVE  [i \in DOMAIN fs[f] |-> c[fs[f][i]]] \in Seq(Seq(Nat))
  <2>1. fs[f] \in Seq(Slot)
    BY DEF AllFiles
  <2>2. DOMAIN fs[f] = 1 .. Len(fs[f]) /\ Len(fs[f]) \in Nat
    BY <2>1
  <2>3. \A i \in DOMAIN fs[f] : c[fs[f][i]] \in Seq(Nat)
    <3> TAKE i \in DOMAIN fs[f]
    <3>1. fs[f][i] \in Slot
      BY <2>1, ElementOfSeq
    <3> QED BY <3>1, SlotsAreBlocks
  <2> DEFINE q == [i \in DOMAIN fs[f] |-> c[fs[f][i]]]
  <2>4. q \in [1 .. Len(fs[f]) -> Seq(Nat)]
    BY <2>2, <2>3
  <2> QED BY <2>2, <2>4, SeqDef
<1> QED BY <1>1

LEMMA ForgetShape ==
  ASSUME Forget, NEW c, content' = c, c \in [Block -> Seq(Nat)],
         img' \in [s_free : Seq(Nat), links : Seq(Block), files : AllFiles],
         kept' = [f \in Files |-> [i \in DOMAIN img'.files[f] |-> c[img'.files[f][i]]]]
  PROVE  Shaped' /\ Phases' /\ Running' /\ FilesKept' /\ TablesKept'
<1>1. /\ phase' = "closed" /\ s_free' = <<>> /\ links' = <<>> /\ files' = NoFiles
      /\ task' = <<>> /\ ret' = -1 /\ unflushed' = <<>> /\ touched' = {} /\ low' = 0
  BY DEF Forget
<1>2. kept' \in [Files -> Seq(Seq(Nat))]
  <2>1. img'.files \in AllFiles
    OBVIOUS
  <2> QED BY <2>1, ContentsType
<1>3. Shaped'
  BY <1>1, <1>2, NoneOwned DEF Shaped
<1>4. Phases' /\ Running' /\ TablesKept'
  BY <1>1 DEF Phases, Running, TablesKept
<1>5. FilesKept'
  BY <1>1 DEF FilesKept, Buffered
<1> QED BY <1>3, <1>4, <1>5

LEMMA SaveInodesStep ==
  ASSUME IInv, SaveInodes
  PROVE  IInv'
<1> USE DEF IInv
<1>1. /\ phase = "saving" /\ img' = [img EXCEPT !.files = files]
      /\ kept' = Contents(files) /\ Forget /\ UNCHANGED <<content, lost>>
  BY DEF SaveInodes
<1>2. /\ ret = -1 /\ img.s_free = s_free /\ img.links = links /\ lost = "nothing"
      /\ Hands = Owned(files)
  BY <1>1 DEF Phases, Hands, InHand
<1>3. /\ img'.s_free = s_free /\ img'.links = links /\ img'.files = files
      /\ img' \in [s_free : Seq(Nat), links : Seq(Block), files : AllFiles]
  BY <1>1, <1>2 DEF Shaped
<1>4. kept' = [f \in Files |-> [i \in DOMAIN img'.files[f] |-> content[img'.files[f][i]]]]
  BY <1>1, <1>3 DEF Contents
<1>5. Shaped' /\ Phases' /\ Running' /\ FilesKept' /\ TablesKept'
  <2>1. \E c : c = content
    OBVIOUS
  <2>2. PICK c : c = content
    BY <2>1
  <2>3. content' = c /\ c \in [Block -> Seq(Nat)]
        /\ kept' = [f \in Files |-> [i \in DOMAIN img'.files[f] |-> c[img'.files[f][i]]]]
    BY <1>1, <1>4, <2>2 DEF Shaped
  <2> QED BY <1>1, <1>3, <2>3, ForgetShape
<1>6. Good(s_free, links, content, Owned(files)) /\ Apart(files)
  BY <1>1, <1>2 DEF Running
<1>7. Apart(img'.files) /\ ListKept'
  BY <1>1, <1>3, <1>6 DEF ListKept
<1> QED BY <1>5, <1>7 DEF Saved

LEMMA CrashStep ==
  ASSUME IInv, Crash
  PROVE  IInv'
<1> USE DEF IInv
<1>1. /\ phase # "closed" /\ content' \in {content, Unwritten} /\ Forget
      /\ lost' = CASE phase = "saving" -> "list and inodes of two sessions"
                   [] low < Len(img.links) -> "a table the old list needs"
                   [] OTHER -> "nothing"
      /\ kept' = [f \in Files |-> [i \in DOMAIN img.files[f] |-> content'[img.files[f][i]]]]
      /\ UNCHANGED img
  BY DEF Crash
<1>2. content' \in [Block -> Seq(Nat)]
  BY <1>1, UnwrittenType DEF Shaped
<1>3. Shaped' /\ Phases' /\ Running' /\ FilesKept' /\ TablesKept'
  <2>1. PICK c : c = content'
    OBVIOUS
  <2>2. /\ content' = c /\ c \in [Block -> Seq(Nat)]
        /\ img' \in [s_free : Seq(Nat), links : Seq(Block), files : AllFiles]
        /\ kept' = [f \in Files |-> [i \in DOMAIN img'.files[f] |-> c[img'.files[f][i]]]]
    BY <1>1, <1>2, <2>1 DEF Shaped
  <2> QED BY <1>1, <2>2, ForgetShape
<1>4. ListKept'
  <2> SUFFICES ASSUME lost' = "nothing"
               PROVE  Good(img.s_free, img.links, content', Owned(img.files))
    BY <1>1 DEF ListKept, Forget
  <2>1. phase = "open" /\ ~(low < Len(img.links))
    BY <1>1 DEF Shaped
  <2>2. low = Len(img.links)
    <3>1. low \in Nat /\ Len(img.links) \in Nat /\ low <= Len(img.links)
      BY <2>1 DEF Shaped, Saved, TablesKept
    <3> QED BY <2>1, <3>1
  <2> QED BY <1>1, <2>1, <2>2, TornList
<1>5. Apart(img'.files)
  BY <1>1 DEF Saved
<1> QED BY <1>3, <1>4, <1>5 DEF Saved

-----------------------------------------------------------------------------
(* The commands of a session.                                              *)

LEMMA BeginStep ==
  ASSUME IInv, NEW f \in Files, NEW n \in 0 .. MaxBlocks, Begin(f, n)
  PROVE  IInv'
<1> USE DEF IInv
<1>1. /\ phase = "open" /\ task = <<>> /\ Whole(f)
      /\ task' = [file |-> f, size |-> n, empty |-> FALSE]
      /\ touched' = touched \cup {f}
      /\ UNCHANGED <<s_free, links, files, content, ret, phase, img, unflushed,
                     kept, low, lost>>
  BY DEF Begin, metadata
<1>2. n \in Nat
  BY BoundsAssumption
<1>3. Shaped'
  BY <1>1, <1>2 DEF Shaped
<1>4. task' # <<>> /\ task'.file = f
  BY <1>1
<1>5. Phases'
  BY <1>1, <1>4 DEF Phases, Whole
<1>6. Hands' = Hands /\ Owned(files)' = Owned(files)
  BY <1>1 DEF Hands, InHand, Owned
<1>7. Running'
  BY <1>1, <1>6 DEF Running
<1>8. FilesKept' /\ TablesKept' /\ ListKept'
  BY <1>1 DEF Saved, FilesKept, TablesKept, ListKept, Buffered, Owned
<1> QED BY <1>1, <1>3, <1>5, <1>7, <1>8 DEF Saved

LEMMA FinishStep ==
  ASSUME IInv, Finish
  PROVE  IInv'
<1> USE DEF IInv
<1>1. /\ task' = <<>> /\ ret = -1
      /\ UNCHANGED <<s_free, links, files, content, ret, phase, img, unflushed,
                     touched, kept, low, lost>>
  BY DEF Finish, metadata, ghosts
<1>2. Shaped' /\ Phases'
  BY <1>1 DEF Shaped, Phases
<1>3. Hands' = Hands /\ Owned(files)' = Owned(files)
  BY <1>1 DEF Hands, InHand, Owned
<1>4. Running'
  BY <1>1, <1>3 DEF Running
<1>5. Saved'
  BY <1>1 DEF Saved, FilesKept, TablesKept, ListKept, Buffered, Owned
<1> QED BY <1>2, <1>4, <1>5

(* A write to a block that is in the hands of the session, and of a file   *)
(* it has touched, leaves alone what a crash is to find.                   *)
LEMMA WriteSpares ==
  ASSUME IInv, phase = "open", NEW b \in Hands,
         \A f \in Files \ touched : \A i \in DOMAIN files[f] : files[f][i] # b,
         content' \in [Block -> Seq(Nat)],
         \A x \in Block \ {b} : content'[x] = content[x],
         UNCHANGED unflushed \/ (unflushed' # <<>> /\ unflushed'.at = b),
         Len(links') >= Len(links), Len(links') \in Nat,
         \A k \in 1 .. Len(links) : links'[k] = links[k],
         UNCHANGED <<phase, img, kept, touched, low>>
  PROVE  Saved'
<1> USE DEF IInv
<1>1. /\ Good(s_free, links, content, Hands)
      /\ \A f \in Files \ touched : files[f] = img.files[f]
  BY DEF Running
<1>2. \A k \in 1 .. Len(links) : links[k] # b /\ links[k] \in Block
  BY <1>1, LinksFree
<1>3. /\ low \in Nat /\ Len(links) \in Nat
      /\ low <= Len(links) /\ low <= Len(img.links)
      /\ \A k \in 1 .. low : links[k] = img.links[k] /\ ~Buffered(links[k])
  BY DEF Shaped, Saved, TablesKept
<1>4. \A x : x # b /\ ~Buffered(x) => ~Buffered(x)'
  BY DEF Buffered
<1>5. FilesKept'
  <2> SUFFICES ASSUME NEW f \in Files \ touched, NEW i \in DOMAIN img.files[f]
               PROVE  /\ kept[f][i] = content'[img.files[f][i]]
                      /\ ~Buffered(img.files[f][i])'
    BY DEF FilesKept, Buffered
  <2>1. img.files[f][i] # b /\ img.files[f][i] \in Block
    BY <1>1, ImageBlocks
  <2>2. kept[f][i] = content[img.files[f][i]] /\ ~Buffered(img.files[f][i])
    BY DEF Saved, FilesKept
  <2>3. content'[img.files[f][i]] = content[img.files[f][i]]
    BY <2>1
  <2>4. unflushed' = <<>> \/ unflushed'.at # img.files[f][i]
    BY <2>1, <2>2 DEF Buffered
  <2> QED BY <2>2, <2>3, <2>4 DEF Buffered
<1>6. TablesKept'
  <2>1. low <= Len(links')
    BY <1>3
  <2>2. ASSUME NEW k \in 1 .. low
        PROVE  /\ links'[k] = img.links[k]
               /\ unflushed' = <<>> \/ unflushed'.at # links'[k]
    <3>1. k \in 1 .. Len(links)
      BY <1>3
    <3>2. links'[k] = links[k] /\ links[k] # b /\ ~Buffered(links[k])
      BY <1>2, <1>3, <3>1
    <3> QED BY <1>3, <3>2 DEF Buffered
  <2> QED BY <1>3, <2>1, <2>2 DEF TablesKept, Buffered
<1>7. ListKept'
  <2> SUFFICES ASSUME low = Len(img.links)
               PROVE  Good(img.s_free, img.links, content', Owned(img.files))
    BY DEF ListKept, Owned
  <2>1. Good(img.s_free, img.links, content, Owned(img.files))
    BY DEF Saved, ListKept
  <2>2. ASSUME NEW k \in 1 .. Len(img.links)
        PROVE  content'[img.links[k]] = content[img.links[k]]
    <3>1. k \in 1 .. low /\ k \in 1 .. Len(links)
      BY <1>3
    <3>2. img.links[k] # b /\ img.links[k] \in Block
      BY <1>2, <1>3, <3>1
    <3> QED BY <3>2
  <2> QED BY <2>1, <2>2, SameTables
<1>8. Apart(img'.files)
  BY DEF Saved
<1> QED BY <1>5, <1>6, <1>7, <1>8 DEF Saved

LEMMA FreeOldStep ==
  ASSUME IInv, FreeOld
  PROVE  IInv'
<1> USE DEF IInv
<1>1. /\ task # <<>> /\ task.file \in Files /\ task.file \in touched /\ phase # "closed"
      /\ phase = "open"
      /\ task \in [file : Files, size : Nat, empty : BOOLEAN]
      /\ UNCHANGED <<ret, phase, img, kept, touched, low, lost>>
  BY DEF FreeOld, Shaped, Phases, ghosts
<1>2. CASE files[task.file] = <<>>
  <2>1. /\ task' = [task EXCEPT !.empty = TRUE]
        /\ UNCHANGED <<s_free, links, files, content, unflushed>>
    BY <1>2 DEF FreeOld, metadata
  <2>2. task' # <<>> /\ task'.file = task.file
        /\ task' \in [file : Files, size : Nat, empty : BOOLEAN]
    <3>1. task' = [file |-> task.file, size |-> task.size, empty |-> TRUE]
      BY <1>1, <2>1
    <3>2. task.size \in Nat
      BY <1>1
    <3> QED BY <1>1, <3>1, <3>2
  <2>3. Shaped' /\ Phases'
    BY <1>1, <2>1, <2>2 DEF Shaped, Phases, Whole
  <2>4. Hands' = Hands /\ Owned(files)' = Owned(files)
    BY <1>1, <2>1 DEF Hands, InHand, Owned
  <2>5. Running'
    BY <1>1, <2>1, <2>4 DEF Running
  <2>6. Saved'
    BY <1>1, <2>1 DEF Saved, FilesKept, TablesKept, ListKept, Buffered, Owned
  <2> QED BY <2>3, <2>5, <2>6
<1>3. CASE files[task.file] # <<>>
  <2>1. \E f : f = task.file
    OBVIOUS
  <2>2. PICK f : f = task.file
    BY <2>1
  <2>3. PICK b : b = Head(files[f])
    OBVIOUS
  <2>4. /\ f \in Files /\ f \in touched /\ files[f] # <<>>
        /\ Memory!FreeBlock(b)
        /\ files' = [files EXCEPT ![f] = Tail(@)]
        /\ unflushed' = (IF links' # links THEN [at |-> b, old |-> content[b]] ELSE unflushed)
        /\ UNCHANGED task
    BY <1>1, <1>3, <2>2, <2>3 DEF FreeOld, Write
  <2>5. /\ Good(s_free, links, content, Hands) /\ Apart(files) /\ files \in AllFiles
        /\ ret \notin Owned(files)
        /\ \A g \in Files \ touched : files[g] = img.files[g]
    BY <1>1 DEF Running, Shaped
  <2>6. PICK fs : fs = files'
    OBVIOUS
  <2>7. /\ fs \in AllFiles /\ Apart(fs)
        /\ Owned(fs) = Owned(files) \ {b} /\ b \in Owned(files)
        /\ \A g \in Files \ {f} : /\ fs[g] = files[g]
                                  /\ \A i \in DOMAIN files[g] : files[g][i] # b
    <3>1. fs = Shrunk(files, f)
      BY <2>4, <2>6 DEF Shrunk
    <3>2. Head(files[f]) # 0
      <4>1. files[f] \in Seq(Slot) /\ 1 \in DOMAIN files[f]
            /\ Head(files[f]) = files[f][1]
        BY <2>4, <2>5, EmptySeq DEF AllFiles
      <4> QED BY <1>1, <2>2, <4>1 DEF Phases, Whole
    <3> QED BY <2>3, <2>4, <2>5, <3>1, <3>2, FileShrinks
  <2>8. b \in Hands /\ b \in Block /\ b # ret /\ Hands \in SUBSET Zone /\ b \in Nat
    BY <2>5, <2>7, HandsInZone, Layout DEF Hands
  <2>9. Hands' = Hands \ {b} /\ Owned(files)' = Owned(files) \ {b}
    <3>1. Owned(files)' = Owned(fs)
      BY <2>6 DEF Owned
    <3>2. InHand' = InHand /\ b \notin InHand
      BY <1>1, <2>8 DEF InHand
    <3> QED BY <2>7, <3>1, <3>2 DEF Hands
  <2>10. Freed(s_free, links, content, b, s_free', links', content')
    BY <2>4 DEF Memory!FreeBlock, Memory!TableToExtend, Freed, Extend
  <2>11. /\ Good(s_free', links', content', Hands \ {b})
         /\ Len(links') >= Len(links) /\ \A k \in 1 .. Len(links) : links'[k] = links[k]
         /\ \A x \in Block \ {b} : content'[x] = content[x]
    <3>1. PICK s2, l2, c2 : s2 = s_free' /\ l2 = links' /\ c2 = content'
      OBVIOUS
    <3>2. Freed(s_free, links, content, b, s2, l2, c2)
      BY <2>10, <3>1
    <3>3. Good(s2, l2, c2, Hands \ {b}) /\ Longer(l2, links) /\ OnlyAt(b, c2, content)
      BY <2>5, <2>8, <3>2, FreedGood
    <3> QED BY <3>1, <3>3 DEF Longer, OnlyAt
  <2>12. /\ s_free' \in Seq(Nat) /\ links' \in Seq(Block)
         /\ content' \in [Block -> Seq(Nat)] /\ Len(links') \in Nat
    BY <2>11 DEF Good, IsList
  <2>13. UNCHANGED unflushed \/ unflushed' = [at |-> b, old |-> content[b]]
    BY <2>4
  <2>14. \/ unflushed' = unflushed
         \/ /\ unflushed' # <<>> /\ unflushed'.at = b
            /\ unflushed' \in [at : Block, old : Seq(Nat)]
    <3>1. content[b] \in Seq(Nat)
      BY <2>8 DEF Shaped
    <3>2. [at |-> b, old |-> content[b]] # <<>>
      OBVIOUS
    <3> QED BY <2>8, <2>13, <3>1, <3>2
  <2>15. Shaped'
    <3>1. unflushed' = <<>> \/ unflushed' \in [at : Block, old : Seq(Nat)]
      BY <2>14 DEF Shaped
    <3> QED BY <1>1, <2>4, <2>6, <2>7, <2>12, <3>1 DEF Shaped
  <2>16. Phases'
    <3>1. \A i \in DOMAIN files'[f] : files'[f][i] # 0
      <4>1. /\ files[f] \in Seq(Slot) /\ files[f] # <<>>
            /\ files'[f] = Tail(files[f])
        BY <2>4, <2>5 DEF AllFiles
      <4>2. \A i \in DOMAIN files'[f] : /\ i + 1 \in DOMAIN files[f]
                                        /\ files'[f][i] = files[f][i + 1]
        BY <4>1
      <4> QED BY <1>1, <2>2, <4>2 DEF Phases, Whole
    <3>2. \A i \in DOMAIN files'[task.file] : files'[task.file][i] # 0
      BY <2>2, <3>1
    <3> QED BY <1>1, <2>4, <3>2 DEF Phases, Whole
  <2>17. Running'
    <3>1. \A g \in Files \ touched : files'[g] = img.files[g]
      BY <2>4, <2>5, <2>6, <2>7
    <3>2. Apart(files)'
      BY <2>6, <2>7 DEF Apart
    <3>3. ret' \notin Owned(files)'
      BY <1>1, <2>5, <2>9
    <3>4. Good(s_free', links', content', Hands')
      BY <2>9, <2>11
    <3> QED BY <1>1, <3>1, <3>2, <3>3, <3>4 DEF Running
  <2>18. Saved'
    <3>1. \A g \in Files \ touched : \A i \in DOMAIN files[g] : files[g][i] # b
      BY <2>4, <2>7
    <3>2. UNCHANGED unflushed \/ (unflushed' # <<>> /\ unflushed'.at = b)
      BY <2>14
    <3> QED BY <1>1, <2>8, <2>11, <2>12, <3>1, <3>2, WriteSpares
  <2> QED BY <2>15, <2>16, <2>17, <2>18
<1> QED BY <1>2, <1>3

(* Outcomes of alloc_block on the list in memory.                          *)
LEMMA Allocated ==
  ASSUME NEW h, Good(s_free, links, content, h), Memory!AllocBlock
  PROVE  UNCHANGED content /\ Took(s_free, links, content, ret', s_free', links')
<1> USE DEF Took
<1>1. CASE Memory!Exhausted
  BY <1>1 DEF Memory!Exhausted, Memory!NoBlock, TookNone
<1>2. CASE Memory!TakeEntry
  <2>1. PICK r, s2 : r = s_free[Len(s_free)] /\ s2 = SubSeq(s_free, 1, Len(s_free) - 1)
    OBVIOUS
  <2>2. TookEntry(s_free, links, content, r, s2, links)
    BY <1>2, <2>1 DEF Memory!TakeEntry, TookEntry
  <2>3. r \in Zone
    BY <2>2, TookEntryGood
  <2>4. r < DiskBlocks
    BY <2>3, Layout DEF Zone
  <2>5. ret' = r /\ s_free' = s2 /\ links' = links /\ content' = content
    BY <1>2, <2>1, <2>4 DEF Memory!TakeEntry, Memory!Result
  <2> QED BY <2>2, <2>5
<1>3. CASE Memory!TakeLink
  <2>1. PICK r, s2, l2 : /\ r = s_free[1] /\ s2 = content[s_free[1]]
                         /\ l2 = SubSeq(links, 1, Len(links) - 1)
    OBVIOUS
  <2>2. TookLink(s_free, links, content, r, s2, l2)
    BY <1>3, <2>1 DEF Memory!TakeLink, TookLink
  <2>3. r \in Zone
    BY <2>2, TookLinkGood
  <2>4. r < DiskBlocks
    BY <2>3, Layout DEF Zone
  <2>5. ret' = r /\ s_free' = s2 /\ links' = l2 /\ content' = content
    BY <1>3, <2>1, <2>4 DEF Memory!TakeLink, Memory!Result
  <2> QED BY <2>2, <2>5
<1>4. CASE Memory!TakeSentinel
  BY <1>4 DEF Memory!TakeSentinel, Memory!NoBlock, TookNone
<1> QED BY <1>1, <1>2, <1>3, <1>4 DEF Memory!AllocBlock

LEMMA TakenGood ==
  ASSUME NEW s, NEW l, NEW c, NEW h, Good(s, l, c, h), NEW r, NEW s2, NEW l2,
         Took(s, l, c, r, s2, l2)
  PROVE  /\ \/ r \in Zone \ h /\ Good(s2, l2, c, h \cup {r})
            \/ r = -1 /\ Good(s2, l2, c, h)
         /\ Longer(l, l2)
<1>1. Len(l) \in Nat
  BY DEF Good, IsList
<1>2. CASE TookEntry(s, l, c, r, s2, l2)
  <2>1. l2 = l
    BY <1>2 DEF TookEntry
  <2>2. Longer(l, l2)
    BY <1>1, <2>1 DEF Longer
  <2> QED BY <1>2, <2>2, TookEntryGood
<1>3. CASE TookLink(s, l, c, r, s2, l2)
  BY <1>3, TookLinkGood
<1>4. CASE TookNone(s, l, c, r, s2, l2)
  <2>1. l2 = l /\ r = -1
    BY <1>4 DEF TookNone
  <2>2. Longer(l, l2)
    BY <1>1, <2>1 DEF Longer
  <2> QED BY <1>4, <2>1, <2>2, TookNoneGood
<1> QED BY <1>2, <1>3, <1>4 DEF Took

LEMMA TakeStep ==
  ASSUME IInv, Take
  PROVE  IInv'
<1> USE DEF IInv
<1>1. /\ task # <<>> /\ phase = "open" /\ ret = -1
      /\ Memory!AllocBlock
      /\ IF ret' \in Block
         THEN UNCHANGED <<task, files>>
         ELSE /\ task' = <<>>
              /\ files' = [files EXCEPT ![task.file] = CutShort(@, task.size)]
      /\ low' = Lowest(low, Len(links'))
      /\ UNCHANGED <<phase, img, unflushed, kept, touched, lost>>
  BY DEF Take, Shaped, Phases
<1>2. /\ Good(s_free, links, content, Hands) /\ Hands = Owned(files)
      /\ Owned(files) \in SUBSET Zone
  BY <1>1, HandsInZone DEF Running, Hands, InHand
<1>3. /\ UNCHANGED content
      /\ \/ ret' \in Zone \ Hands /\ Good(s_free', links', content, Hands \cup {ret'})
         \/ ret' = -1 /\ Good(s_free', links', content, Hands)
      /\ Longer(links, links')
  <2>1. PICK r, s2, l2 : r = ret' /\ s2 = s_free' /\ l2 = links'
    OBVIOUS
  <2>2. UNCHANGED content /\ Took(s_free, links, content, ret', s_free', links')
    BY <1>1, <1>2, Allocated
  <2>3. Took(s_free, links, content, r, s2, l2)
    BY <2>1, <2>2
  <2>4. /\ \/ r \in Zone \ Hands /\ Good(s2, l2, content, Hands \cup {r})
           \/ r = -1 /\ Good(s2, l2, content, Hands)
        /\ Longer(links, l2)
    BY <1>2, <2>3, TakenGood
  <2> QED BY <2>1, <2>2, <2>4
<1>4. /\ s_free' \in Seq(Nat) /\ links' \in Seq(Block) /\ Len(links') \in Nat
      /\ Len(links) \in Nat /\ low \in Nat
      /\ Len(links') <= Len(links)
      /\ \A k \in 1 .. Len(links') : links'[k] = links[k]
      /\ ret' \in Zone \cup {-1}
  BY <1>3 DEF Good, IsList, Longer, Shaped
<1>5. low' \in Nat /\ low' <= low /\ low' <= Len(links')
  BY <1>1, <1>4 DEF Lowest
<1>6. -1 \notin Block /\ -1 \notin Zone
  BY Layout
<1>6a. PICK f, fs : f = task.file /\ fs = files'
  OBVIOUS
<1>6b. ret' \in Block => fs = files /\ task' = task
  BY <1>1, <1>6a
<1>6c. /\ f \in Files /\ f \in touched
       /\ fs \in AllFiles /\ Apart(fs) /\ Owned(fs) = Owned(files)
       /\ \A g \in Files \ {f} : fs[g] = files[g]
  <2>1. /\ f \in Files /\ f \in touched /\ task.size \in Nat
        /\ files \in AllFiles /\ Apart(files)
    BY <1>1, <1>6a DEF Shaped, Phases, Running
  <2>2. CASE ret' \in Block
    BY <1>6b, <2>1, <2>2
  <2>3. CASE ret' \notin Block
    <3>1. fs = Cut(files, f, task.size) /\ Len(files[f]) < task.size
      BY <1>1, <1>6a, <2>3 DEF Take, Cut
    <3> QED BY <2>1, <3>1, FileCut
  <2> QED BY <2>2, <2>3
<1>7. Shaped'
  <2>1. task' = <<>> \/ task' \in [file : Files, size : Nat, empty : BOOLEAN]
    BY <1>1 DEF Shaped
  <2> QED BY <1>1, <1>3, <1>4, <1>5, <1>6a, <1>6c, <2>1 DEF Shaped
<1>8. Phases'
  <2>1. ret' # -1 => task' # <<>>
    BY <1>1, <1>4, Layout
  <2>2. task' # <<>> => task' = task /\ files' = files
    BY <1>1
  <2> QED BY <1>1, <2>1, <2>2 DEF Phases, Whole
<1>9. Running'
  <2>1. Owned(files)' = Owned(files) /\ Apart(files)'
    BY <1>6a, <1>6c DEF Owned, Apart
  <2>1a. \A g \in Files \ touched : files'[g] = img.files[g]
    BY <1>1, <1>6a, <1>6c DEF Running
  <2>2. CASE ret' = -1
    <3>1. Hands' = Hands
      BY <1>2, <2>1, <2>2 DEF Hands, InHand
    <3> QED BY <1>1, <1>2, <1>3, <1>6, <2>1, <2>1a, <2>2, <3>1 DEF Running
  <2>3. CASE ret' \in Zone \ Hands /\ Good(s_free', links', content, Hands \cup {ret'})
    <3>1. Hands' = Hands \cup {ret'}
      BY <1>2, <1>6, <2>1, <2>3 DEF Hands, InHand
    <3> QED BY <1>1, <1>2, <1>3, <2>1, <2>1a, <2>3, <3>1 DEF Running
  <2> QED BY <1>3, <2>2, <2>3
<1>10. FilesKept'
  BY <1>1, <1>3 DEF Saved, FilesKept, Buffered
<1>11. /\ low <= Len(img.links) /\ Len(img.links) \in Nat
       /\ \A k \in 1 .. low : links[k] = img.links[k] /\ ~Buffered(links[k])
  BY <1>1 DEF Saved, TablesKept, Shaped
<1>12. TablesKept'
  <2>1. low' <= Len(img.links)
    BY <1>4, <1>5, <1>11
  <2>2. ASSUME NEW k \in 1 .. low'
        PROVE  links'[k] = img.links[k] /\ ~Buffered(links'[k])
    <3>1. k \in 1 .. low /\ k \in 1 .. Len(links')
      BY <1>4, <1>5
    <3> QED BY <1>4, <1>11, <3>1
  <2> QED BY <1>1, <1>5, <2>1, <2>2 DEF TablesKept, Buffered
<1>13. ListKept'
  <2>1. low' = Len(img.links) => low = Len(img.links)
    BY <1>4, <1>5, <1>11
  <2> QED BY <1>1, <1>3, <2>1 DEF Saved, ListKept, Owned
<1>14. Apart(img'.files)
  BY <1>1 DEF Saved
<1> QED BY <1>7, <1>8, <1>9, <1>10, <1>12, <1>13, <1>14 DEF Saved

LEMMA PutStep ==
  ASSUME IInv, NEW p \in Payloads, Put(p)
  PROVE  IInv'
<1> USE DEF IInv
<1>1. /\ ret # -1 /\ task # <<>> /\ phase = "open"
      /\ content' = [content EXCEPT ![ret] = p]
      /\ files' = [files EXCEPT ![task.file] = Append(@, ret)]
      /\ unflushed' = [at |-> ret, old |-> content[ret]]
      /\ ret' = -1
      /\ UNCHANGED <<s_free, links, task, phase, img, kept, touched, low, lost>>
  BY DEF Put, Write, Shaped, Phases, ghosts
<1>2. PICK f, b : f = task.file /\ b = ret
  OBVIOUS
<1>3. f \in Files /\ f \in touched /\ b \in Zone /\ b \in Block /\ p \in Seq(Nat)
  BY <1>1, <1>2, ListAssumption, Layout DEF Shaped, Phases
<1>4. /\ Good(s_free, links, content, Hands) /\ Apart(files) /\ files \in AllFiles
      /\ b \notin Owned(files) /\ Hands = Owned(files) \cup {b}
      /\ \A g \in Files \ touched : files[g] = img.files[g]
  BY <1>1, <1>2 DEF Running, Shaped, Hands, InHand
<1>5. PICK fs : fs = files'
  OBVIOUS
<1>6. /\ fs \in AllFiles /\ Apart(fs) /\ Owned(fs) = Owned(files) \cup {b}
      /\ \A g \in Files \ {f} : fs[g] = files[g]
  <2>1. fs = Grew(files, f, b)
    BY <1>1, <1>2, <1>5 DEF Grew
  <2> QED BY <1>3, <1>4, <2>1, FileGrows
<1>7. Owned(files)' = Hands /\ Hands' = Hands
  <2>1. Owned(files)' = Owned(fs)
    BY <1>5 DEF Owned
  <2>2. InHand' = {}
    BY <1>1 DEF InHand
  <2> QED BY <1>4, <1>6, <2>1, <2>2 DEF Hands
<1>8. /\ content' \in [Block -> Seq(Nat)] /\ content[b] \in Seq(Nat)
      /\ \A x \in Block \ {b} : content'[x] = content[x]
  BY <1>1, <1>2, <1>3 DEF Shaped
<1>9. unflushed' # <<>> /\ unflushed'.at = b
      /\ unflushed' \in [at : Block, old : Seq(Nat)]
  BY <1>1, <1>2, <1>3, <1>8
<1>10. Shaped'
  BY <1>1, <1>5, <1>6, <1>8, <1>9 DEF Shaped
<1>11. Phases'
  <2>1. b # 0
    BY <1>3, Layout
  <2>2. \A i \in DOMAIN files[f] : files[f][i] # 0
    BY <1>1, <1>2 DEF Phases, Whole
  <2>3. files[f] \in Seq(Slot) /\ files'[f] = Append(files[f], b)
    BY <1>1, <1>2, <1>3, <1>4 DEF AllFiles
  <2>4. b \in Slot
    BY <1>3 DEF Slot
  <2>5. /\ DOMAIN files[f] = 1 .. Len(files[f]) /\ Len(files[f]) \in Nat
        /\ DOMAIN files'[f] = 1 .. Len(files[f]) + 1
        /\ \A i \in 1 .. Len(files[f]) : files'[f][i] = files[f][i]
        /\ files'[f][Len(files[f]) + 1] = b
    BY <2>3, <2>4, AppendProperties, LenProperties
  <2>6. \A i \in DOMAIN files'[f] : files'[f][i] # 0
    <3> TAKE i \in DOMAIN files'[f]
    <3>1. i \in 1 .. Len(files[f]) \/ i = Len(files[f]) + 1
      BY <2>5
    <3> QED BY <2>1, <2>2, <2>5, <3>1
  <2>7. \A i \in DOMAIN files'[task.file] : files'[task.file][i] # 0
    BY <1>2, <2>6
  <2> QED BY <1>1, <2>7 DEF Phases, Whole
<1>12. \A k \in 1 .. Len(links) : content'[links[k]] = content[links[k]]
  <2> TAKE k \in 1 .. Len(links)
  <2>1. links[k] \in Zone \ Hands /\ links[k] \in Block
    BY <1>4, LinksFree
  <2> QED BY <1>4, <1>8, <2>1
<1>13. Good(s_free, links, content', Hands)
  <2>1. PICK c : c = content'
    OBVIOUS
  <2>2. Good(s_free, links, c, Hands)
    BY <1>4, <1>8, <1>12, <2>1, SameTables
  <2> QED BY <2>1, <2>2
<1>14. Running'
  <2>1. \A g \in Files \ touched : files'[g] = img.files[g]
    BY <1>3, <1>4, <1>5, <1>6
  <2>2. Apart(files)'
    BY <1>5, <1>6 DEF Apart
  <2>3. ret' \notin Owned(files)'
    BY <1>1, <1>7, HandsInZone, Layout
  <2>4. Good(s_free', links', content', Hands')
    BY <1>1, <1>7, <1>13
  <2> QED BY <1>1, <2>1, <2>2, <2>3, <2>4 DEF Running
<1>15. Saved'
  <2>1. \A g \in Files \ touched : \A i \in DOMAIN files[g] : files[g][i] # b
    BY <1>3, <1>4, OwnedMember, Layout
  <2>2. b \in Hands
    BY <1>4
  <2>3. /\ Len(links') >= Len(links) /\ Len(links') \in Nat
        /\ \A k \in 1 .. Len(links) : links'[k] = links[k]
    BY <1>1 DEF Shaped
  <2> QED BY <1>1, <1>8, <1>9, <2>1, <2>2, <2>3, WriteSpares
<1> QED BY <1>10, <1>11, <1>14, <1>15

-----------------------------------------------------------------------------
(* The theorems.                                                           *)

THEOREM NextIInv == IInv /\ [Next]_vars => IInv'
<1> SUFFICES ASSUME IInv, [Next]_vars PROVE IInv'
  OBVIOUS
<1>1. CASE Load
  BY <1>1, LoadStep
<1>2. ASSUME NEW f \in Files, NEW n \in 0 .. MaxBlocks, Begin(f, n) PROVE IInv'
  BY <1>2, BeginStep
<1>3. CASE FreeOld
  BY <1>3, FreeOldStep
<1>4. CASE Take
  BY <1>4, TakeStep
<1>5. ASSUME NEW p \in Payloads, Put(p) PROVE IInv'
  BY <1>5, PutStep
<1>6. CASE Finish
  BY <1>6, FinishStep
<1>7. CASE SaveSuperblock
  BY <1>7, SaveSuperblockStep
<1>8. CASE SaveInodes
  BY <1>8, SaveInodesStep
<1>9. CASE Crash
  BY <1>9, CrashStep
<1>10. CASE UNCHANGED vars
  BY <1>10 DEF vars, ghosts, counters, IInv, Shaped, Phases, Running, Saved, Hands,
               InHand, Owned, Apart, FilesKept, TablesKept, ListKept, Buffered, Whole
<1> QED BY <1>1, <1>2, <1>3, <1>4, <1>5, <1>6, <1>7, <1>8, <1>9, <1>10 DEF Next

(* The invariant of the proofs: Disk::load, the commands, Disk::update and *)
(* a stop between any two of their writes preserve it.                     *)
THEOREM Invariance == Spec => []IInv
<1>1. Init => IInv
  BY InitIInv
<1>2. IInv /\ [Next]_vars => IInv'
  BY NextIInv
<1> QED BY <1>1, <1>2, PTL DEF Spec

(* The variables keep their types, and every block number that memory, the *)
(* image and a buffered write hold lies on the disk.                       *)
THEOREM TypeCorrect == Spec => []TypeOK
BY Invariance, IsTyped, PTL

(* What a session loads, works on and saves is a sound free list with      *)
(* every block that no file owns (v6pp_disk.cpp 75-99 and 124-144).        *)
THEOREM SessionsSound == Spec => []SessionSound
BY Invariance, IsSessionSound, PTL

(* After an orderly end, and after a crash of a session that used up no    *)
(* table the old superblock needs, the image's list is sound and complete, *)
(* with the last buffered write and without it (alloc_block and            *)
(* free_block, v6pp_disk.cpp 283-349).                                     *)
THEOREM CrashesKeepList == Spec => []CrashKeepsList
BY Invariance, IsCrashKeepsList, PTL

(* Whenever a session is cut short, the files it has not touched are on    *)
(* the image as they were saved: no data and no spilled table was written  *)
(* to their blocks, and no such write is in the buffer.                    *)
THEOREM UntouchedSafe == Spec => []UntouchedSurvive
BY Invariance, IsUntouchedSurvive, PTL

(* Disk::update stopped between the superblock and the inodes leaves the   *)
(* new list with the old inodes: the list is whole, lists no block of an   *)
(* untouched file, and lacks only blocks of the files written.             *)
THEOREM HalfSavedSafe == Spec => []HalfSavedSparesOthers
BY Invariance, IsHalfSaved, PTL

-----------------------------------------------------------------------------
(* The disk as it is: with the numbers of defines.hpp the free list and    *)
(* the inode table meet their assumptions, so that what is proved of them  *)
(* for any layout holds with 16976 data blocks and 6576 inodes.            *)
Real == INSTANCE DiskLayout

CONSTANT DiskPayloads                                   \* what files write
VARIABLES disk_s_free, disk_content, disk_links, free_cursor, disk_held,
          free_ret, ialloc, s_inode, inode_cursor, owned, inode_ret

List == INSTANCE FreeListProofs
          WITH DiskBlocks <- Real!p_size_sectors, FirstData <- Real!p_off_data,
               EndData <- Real!p_off_swap, Cap <- Real!TABLE_SIZE,
               Payloads <- DiskPayloads, s_free <- disk_s_free,
               content <- disk_content, links <- disk_links,
               cursor <- free_cursor, held <- disk_held, ret <- free_ret

Table == INSTANCE InodeTableProofs
           WITH LastInode <- Real!Inodes - 1, InodeCap <- Real!TABLE_SIZE,
                cursor <- inode_cursor, ret <- inode_ret

LEMMA Sectors ==
  /\ Real!p_size_sectors = 20160 /\ Real!p_off_data = 1024
  /\ Real!p_off_swap = 18000 /\ Real!TABLE_SIZE = 100
BY DEF Real!p_size_sectors, Real!p_off_data, Real!p_off_swap,
       Real!p_off_inodes, Real!p_size_inodes, Real!p_size_data,
       Real!TABLE_SIZE, Real!CYLINDERS, Real!HEADS, Real!SECTORS_PER_TRACK,
       Real!BLOCKS_BOOTLOAD, Real!BLOCKS_KERNEL, Real!BLOCKS_SUPERBLOCK,
       Real!BLOCKS_INODE_ZONE, Real!BLOCKS_SWAP_ZONE

LEMMA InodeCount == Real!Inodes = 6576
BY DEF Real!Inodes, Real!BLOCKS_INODE_ZONE, Real!BLOCK_SIZE, Real!SIZE_INODE

(* alloc_block and free_block on the real disk: the chain of tables of 100 *)
(* is intact, each of its blocks is held or listed exactly once, and no    *)
(* file's blocks are written to.                                           *)
THEOREM RealFreeList ==
  ASSUME DiskPayloads \subseteq Seq(Nat)
  PROVE  List!Spec => []List!ChainIntact /\ []List!FreePartition
                        /\ List!HeldDataUntouched
<1>1. List!LayoutAssumption /\ List!CapAssumption
  BY Sectors DEF List!LayoutAssumption, List!CapAssumption
<1>2. List!PayloadAssumption
  BY DEF List!PayloadAssumption
<1> QED
  BY <1>1, <1>2, List!ChainCorrect, List!PartitionCorrect, List!HeldDataSafe, PTL

(* alloc_inode and free_inode on the real disk.                            *)
THEOREM RealInodeTable ==
  Table!Spec => []Table!TableSound /\ Table!FailsOnlyWhenFull
<1>1. Table!InodeAssumption
  BY Sectors, InodeCount DEF Table!InodeAssumption
<1> QED BY <1>1, Table!TableCorrect, Table!FailureMeansFull, PTL

(* The comment at defines.hpp 68 gives the sectors from 1024 to 2183 to    *)
(* swapping.  By the numbers below it they are data blocks, which format   *)
(* puts into the free list.                                                *)
THEOREM CommentedSwapIsData ==
  \A b \in 1024 .. 2183 : b \in List!DataZone
<1> SUFFICES ASSUME NEW b \in 1024 .. 2183 PROVE b \in List!DataZone
  OBVIOUS
<1>1. b \in Int /\ 1024 <= b /\ b <= 2183
  OBVIOUS
<1>2. b \in Real!p_off_data .. Real!p_off_swap - 1
  BY <1>1, Sectors
<1> QED BY <1>2 DEF List!DataZone
=============================================================================
