-------------------------- MODULE FileBlocksProofs --------------------------
(***************************************************************************)
(* Proofs about FileBlocks, for any number of slots, entries and blocks.   *)
(*                                                                         *)
(* The inductive invariant has two parts.  Shape says where the traversal  *)
(* can be and that the blocks still to come and those behind it add up; it *)
(* holds for every client, and gives the types.  Held says that each place *)
(* of a file that should have a block has one of its own, that no other    *)
(* block of the zone is in use, that the copies of index blocks agree with *)
(* the disk, and what a read has fetched so far; it holds for clients that *)
(* leave a file alone whose write failed.                                  *)
(*                                                                         *)
(* A place of the tree is a cell here, three numbers; First orders cells   *)
(* as the traversal meets them.  Lemmas up to TypeCorrect are about cells, *)
(* the moves of the traversal and Shape; then come the two ways a step     *)
(* changes the pool, the cells a file owns, one lemma for each step and    *)
(* kind of operation, and the properties that follow.                      *)
(***************************************************************************)
EXTENDS FileBlocks, SequenceTheorems, TLAPS

(* A place of the tree as three numbers: slot, entry of the outer and of   *)
(* the inner index block, 0 where the path is shorter.                     *)
Cell ==
  {p \in (1 .. Slots) \X (0 .. Entries) \X (0 .. Entries) :
     /\ p[2] # 0 => p[1] > Direct
     /\ p[3] # 0 => p[2] # 0 /\ p[1] > Direct + Indirect}

IsData(p) ==
  \/ p[1] <= Direct
  \/ p[1] <= Direct + Indirect /\ p[2] # 0
  \/ p[3] # 0

(* Data blocks of the entries before the n-th, each of them for `area'.    *)
Before(n, area) == IF n = 0 THEN 0 ELSE (n - 1) * area

(* The offset of the first data block at or below a place.                 *)
First(p) ==
  IF p[1] <= Direct THEN p[1] - 1
  ELSE IF p[1] <= Direct + Indirect
       THEN Direct + Entries * (p[1] - Direct - 1) + Before(p[2], 1)
       ELSE Direct + Indirect * Entries
            + (p[1] - Direct - Indirect - 1) * Entries * Entries
            + Before(p[2], Entries) + Before(p[3], 1)

(* Where the traversal is.                                                 *)
Pos == <<at[1], IF Len(at) >= 2 THEN at[2] ELSE 0, IF Len(at) = 3 THEN at[3] ELSE 0>>

(* The places the traversal has left for good, and those of the index      *)
(* blocks that are open.                                                   *)
Passed(p, P) ==
  \/ p[1] < P[1]
  \/ p[1] = P[1] /\ p[2] # 0 /\ p[2] < P[2]
  \/ p[1] = P[1] /\ p[2] = P[2] /\ p[3] # 0 /\ p[3] < P[3]

Above(p, P) ==
  \/ P[2] # 0 /\ p[1] = P[1] /\ p[2] = 0 /\ p[3] = 0
  \/ P[3] # 0 /\ p[1] = P[1] /\ p[2] = P[2] /\ p[3] = 0

(* The tables of a file, those in copies included, and what they name.     *)
InCopy(f) == ~Idle /\ op.file = f

Tab1(f, p) ==
  IF InCopy(f) /\ Pos[2] # 0 /\ p[1] = Pos[1] THEN tabs[1]
  ELSE content[addr[f][p[1]]].tab
Word2(f, p) == Tab1(f, p)[p[2]]
Tab2(f, p) ==
  IF InCopy(f) /\ Pos[3] # 0 /\ p[1] = Pos[1] /\ p[2] = Pos[2] THEN tabs[2]
  ELSE content[Word2(f, p)].tab
Word(f, p) == IF p[2] = 0 THEN addr[f][p[1]]
              ELSE IF p[3] = 0 THEN Word2(f, p) ELSE Tab2(f, p)[p[3]]

(* The places at which a file has a block now.                             *)
Owned(f) ==
  {p \in Cell : /\ ~damaged[f]
                /\ First(p) < size[f]
                /\ Freeing /\ op.file = f => ~Passed(p, Pos)
                /\ op.kind = "write" /\ op.file = f => Passed(p, Pos) \/ Above(p, Pos)}

-----------------------------------------------------------------------------
Table == [1 .. Entries -> Block \cup {Unknown}]
Datum == {NoData} \cup Files \X (0 .. MaxSize - 1)

Typed ==
  /\ free \subseteq Block
  /\ content \in [Block -> [tab : Table, data : Datum]]
  /\ size \in [Files -> 0 .. MaxSize]
  /\ addr \in [Files -> [1 .. Slots -> Block]]
  /\ damaged \in [Files -> BOOLEAN]
  /\ op \in [kind : {"idle", "remove", "rewrite", "write", "read"},
             file : Files, want : 0 .. MaxSize]
  /\ left \in 0 .. MaxSize
  /\ at \in Seq(Nat) /\ Len(at) \in 1 .. 3
  /\ tabs \in Seq(Table) /\ Len(tabs) = Depth
  /\ blks \in Seq(Block) /\ Len(blks) = Depth
  /\ buf \in [0 .. MaxSize - 1 -> Datum]

Total == IF Freeing THEN size[op.file] ELSE op.want

OnPath ==
  /\ at[1] \in 1 .. Slots + 1
  /\ Len(at) >= 2 => at[1] \in Direct + 1 .. Slots /\ at[2] \in 1 .. Entries + 1
  /\ Len(at) = 3 => /\ at[1] > Direct + Indirect /\ at[2] <= Entries
                    /\ at[3] \in 1 .. Entries + 1
  /\ Idle => left = 0 /\ Len(at) = 1

Progress ==
  ~Idle => /\ left <= Total
           /\ IF left = 0 THEN First(Pos) >= Total ELSE First(Pos) = Total - left
           /\ \A p \in Cell : Above(p, Pos) => First(p) < Total

Wants ==
  /\ op.kind \in {"write", "read"} => op.want = size[op.file]
  /\ op.kind = "remove" => op.want = 0

Shape == Typed /\ OnPath /\ Progress /\ Wants

-----------------------------------------------------------------------------
Alive == Freeing \/ op.kind = "write" => ~damaged[op.file]

Kept ==
  /\ free \subseteq Zone
  /\ \A f \in Files : \A p \in Owned(f) : Word(f, p) \in Zone \ free

Apart ==
  \A f, g \in Files : \A p \in Owned(f), q \in Owned(g) :
    Word(f, p) = Word(g, q) => f = g /\ p = q

DataKept ==
  \A f \in Files : \A p \in Owned(f) :
    IsData(p) => content[Word(f, p)].data = <<f, First(p)>>

Sound == ~Idle /\ ~damaged[op.file]

Copies ==
  Sound =>
    /\ Depth >= 1 => blks[1] = addr[op.file][at[1]]
    /\ Depth = 2 => blks[2] = tabs[1][at[2]]
    /\ op.kind # "write" => \A d \in 1 .. Depth : tabs[d] = content[blks[d]].tab

Fetched ==
  op.kind = "read" /\ Sound => \A p \in Cell :
    IsData(p) /\ Passed(p, Pos) /\ First(p) < size[op.file]
      => buf[First(p)] = <<op.file, First(p)>>

Covered ==
  (\A f \in Files : ~damaged[f]) =>
    \A b \in Zone \ free : \E f \in Files : \E p \in Owned(f) : Word(f, p) = b

Pool == Kept /\ Apart /\ DataKept /\ Covered
Held == Alive /\ Pool /\ Copies /\ Fetched
-----------------------------------------------------------------------------
(* Where places lie.                                                       *)

LEMMA SlotNumbers ==
  /\ Direct \in Nat /\ Indirect \in Nat /\ Secondary \in Nat /\ Slots \in Nat
  /\ Entries \in Nat /\ Entries >= 1 /\ MaxSize \in Nat
BY SlotsAssumption DEF Slots

LEMMA Times ==
  ASSUME NEW m \in Nat, NEW n \in Nat
  PROVE  m * n \in Nat
OBVIOUS

LEMMA TimesMonotone ==
  ASSUME NEW m \in Nat, NEW n \in Nat, NEW k \in Nat, m <= n
  PROVE  m * k <= n * k
<1> DEFINE d == n - m
<1>1. d \in Nat /\ n = m + d
  OBVIOUS
<1> HIDE DEF d
<1>2. n * k = m * k + d * k
  BY <1>1
<1>3. d * k \in Nat /\ m * k \in Nat
  BY <1>1, Times
<1> QED BY <1>2, <1>3

(* The offset at which a slot begins.                                      *)
Base(a) ==
  IF a <= Direct THEN a - 1
  ELSE IF a <= Direct + Indirect THEN Direct + Entries * (a - Direct - 1)
  ELSE Direct + Indirect * Entries + (a - Direct - Indirect - 1) * Entries * Entries

SlotArea(a) == IF a <= Direct THEN 1
               ELSE IF a <= Direct + Indirect THEN Entries ELSE Entries * Entries

LEMMA NextBase ==
  ASSUME NEW a \in Nat, a >= 1
  PROVE  /\ Base(a) \in Nat /\ SlotArea(a) \in Nat /\ SlotArea(a) >= 1
         /\ Base(a + 1) = Base(a) + SlotArea(a)
<1> DEFINE E == Entries
<1>1. E \in Nat /\ E >= 1
  BY SlotNumbers
<1>2. E * E \in Nat /\ E * E >= 1
  <2>1. 1 * E <= E * E
    BY <1>1, TimesMonotone
  <2> QED BY <1>1, <2>1, Times
<1>3. CASE a <= Direct
  BY <1>3, <1>1, SlotNumbers DEF Base, SlotArea
<1>4. CASE a > Direct /\ a <= Direct + Indirect
  <2> DEFINE k == a - Direct - 1
  <2>1. k \in Nat /\ a = Direct + 1 + k /\ k + 1 <= Indirect
    BY <1>4, SlotNumbers
  <2> HIDE DEF k
  <2>2. E * k \in Nat /\ E * (k + 1) = E * k + E
    BY <2>1, <1>1, Times
  <2>3. Base(a) = Direct + E * k /\ SlotArea(a) = E
    BY <2>1, <1>4, SlotNumbers DEF Base, SlotArea
  <2>4. CASE k + 1 < Indirect
    <3>1. Base(a + 1) = Direct + E * (k + 1)
      BY <2>1, <2>4, SlotNumbers DEF Base
    <3> QED BY <3>1, <2>2, <2>3, <1>1, SlotNumbers
  <2>5. CASE k + 1 = Indirect
    <3>1. a + 1 - Direct - Indirect - 1 = 0 /\ a + 1 > Direct + Indirect
      BY <2>1, <2>5, SlotNumbers
    <3>2. Base(a + 1) = Direct + Indirect * E
      BY <3>1, <1>1, SlotNumbers DEF Base
    <3>3. Indirect * E = E * (k + 1)
      BY <2>1, <2>5, <1>1, SlotNumbers
    <3> QED BY <3>2, <3>3, <2>2, <2>3, <1>1, SlotNumbers
  <2> QED BY <2>1, <2>4, <2>5, SlotNumbers
<1>5. CASE a > Direct + Indirect
  <2> DEFINE k == a - Direct - Indirect - 1
  <2>1. k \in Nat /\ a = Direct + Indirect + 1 + k
    BY <1>5, SlotNumbers
  <2> HIDE DEF k
  <2>2. Base(a) = Direct + Indirect * E + k * E * E /\ SlotArea(a) = E * E
    BY <2>1, <1>5, SlotNumbers DEF Base, SlotArea
  <2>3. Base(a + 1) = Direct + Indirect * E + (k + 1) * E * E
    BY <2>1, <1>5, SlotNumbers DEF Base
  <2>4. Indirect * E \in Nat /\ k * E \in Nat /\ k * E * E \in Nat
    BY <2>1, <1>1, Times, SlotNumbers
  <2>5. (k + 1) * E * E = k * E * E + E * E
    BY <2>1, <1>1
  <2> DEFINE u == k * E * E
  <2> DEFINE v == Indirect * E
  <2> DEFINE w == (k + 1) * E * E
  <2> DEFINE q == E * E
  <2>6. /\ u \in Nat /\ v \in Nat /\ q \in Nat /\ q >= 1 /\ w = u + q
        /\ Base(a) = Direct + v + u /\ SlotArea(a) = q /\ Base(a + 1) = Direct + v + w
    BY <2>2, <2>3, <2>4, <2>5, <1>2
  <2> HIDE DEF u, v, w, q
  <2> QED BY <2>6, SlotNumbers
<1>6. a <= Direct \/ (a > Direct /\ a <= Direct + Indirect) \/ a > Direct + Indirect
  BY SlotNumbers
<1> QED BY <1>3, <1>4, <1>5, <1>6, Zenon

LEMMA BaseMonotone ==
  ASSUME NEW a \in Nat, a >= 1, NEW b \in Nat, a < b
  PROVE  Base(a) + SlotArea(a) <= Base(b)
<1> DEFINE E == Entries
<1>0. /\ E \in Nat /\ E >= 1 /\ Direct \in Nat /\ Indirect \in Nat
      /\ a + 1 \in Nat /\ a + 1 <= b
  BY SlotNumbers
<1>1. Base(a + 1) = Base(a) + SlotArea(a) /\ Base(a + 1) \in Nat /\ Base(b) \in Nat
  BY NextBase, <1>0
<1> DEFINE c == a + 1
<1> HIDE DEF c
<1>2. c \in Nat /\ c >= 1 /\ c <= b /\ Base(c) \in Nat
  BY <1>0, <1>1 DEF c
<1>a. Indirect * E \in Nat
  BY <1>0, Times
<1>3. Base(c) <= Base(b)
  <2>1. CASE b <= Direct
    BY <2>1, <1>0, <1>2 DEF Base
  <2>2. CASE b > Direct /\ b <= Direct + Indirect
    <3> DEFINE n == b - Direct - 1
    <3>1. n \in Nat /\ n + 1 <= Indirect /\ b = Direct + 1 + n
      BY <2>2, <1>0
    <3>2. Base(b) = Direct + E * n
      BY <2>2, <1>0 DEF Base
    <3> HIDE DEF n
    <3>3. E * n \in Nat
      BY <3>1, <1>0, Times
    <3>4. CASE c <= Direct
      BY <3>2, <3>3, <3>4, <1>0, <1>2 DEF Base
    <3>5. CASE c > Direct
      <4> DEFINE m == c - Direct - 1
      <4>1. m \in Nat /\ m <= n /\ Base(c) = Direct + E * m
        BY <3>1, <3>5, <2>2, <1>0, <1>2 DEF Base
      <4> HIDE DEF m
      <4>2. m * E <= n * E
        BY <4>1, <3>1, <1>0, TimesMonotone
      <4>3. E * m = m * E /\ E * n = n * E /\ E * m \in Nat
        BY <4>1, <3>1, <1>0, Times
      <4> QED BY <4>1, <4>2, <4>3, <3>2, <3>3, <1>0
    <3> QED BY <3>4, <3>5, <1>0, <1>2
  <2>3. CASE b > Direct + Indirect
    <3> DEFINE n == b - Direct - Indirect - 1
    <3>1. n \in Nat /\ b = Direct + Indirect + 1 + n
      BY <2>3, <1>0
    <3>2. Base(b) = Direct + Indirect * E + n * E * E
      BY <2>3, <1>0 DEF Base
    <3> HIDE DEF n
    <3>3. n * E \in Nat /\ n * E * E \in Nat
      BY <3>1, <1>0, Times
    <3>4. CASE c <= Direct
      BY <3>2, <3>3, <3>4, <1>0, <1>2, <1>a DEF Base
    <3>5. CASE c > Direct /\ c <= Direct + Indirect
      <4> DEFINE m == c - Direct - 1
      <4>1. m \in Nat /\ m <= Indirect /\ Base(c) = Direct + E * m
        BY <3>5, <1>0, <1>2 DEF Base
      <4> HIDE DEF m
      <4>2. m * E <= Indirect * E
        BY <4>1, <1>0, TimesMonotone
      <4>3. E * m = m * E /\ E * m \in Nat
        BY <4>1, <1>0, Times
      <4> DEFINE u == E * m
      <4> DEFINE w == n * E * E
      <4> DEFINE v == Indirect * E
      <4>4. /\ u \in Nat /\ w \in Nat /\ v \in Nat /\ u <= v
            /\ Base(c) = Direct + u /\ Base(b) = Direct + v + w
        BY <4>1, <4>2, <4>3, <3>2, <3>3, <1>a
      <4> HIDE DEF u, v, w
      <4> QED BY <4>4, <1>0
    <3>6. CASE c > Direct + Indirect
      <4> DEFINE m == c - Direct - Indirect - 1
      <4>1. m \in Nat /\ m <= n /\ Base(c) = Direct + Indirect * E + m * E * E
        BY <3>1, <3>6, <1>0, <1>2 DEF Base
      <4> HIDE DEF m
      <4>2. m * E <= n * E /\ m * E \in Nat
        BY <4>1, <3>1, <1>0, TimesMonotone, Times
      <4>3. (m * E) * E <= (n * E) * E /\ (m * E) * E \in Nat
        BY <4>2, <3>3, <1>0, TimesMonotone, Times
      <4> DEFINE u == m * E * E
      <4> DEFINE w == n * E * E
      <4> DEFINE v == Indirect * E
      <4>4. /\ u \in Nat /\ w \in Nat /\ v \in Nat /\ u <= w
            /\ Base(c) = Direct + v + u /\ Base(b) = Direct + v + w
        BY <4>1, <4>3, <3>2, <3>3, <1>a
      <4> HIDE DEF u, v, w
      <4> QED BY <4>4, <1>0
    <3> QED BY <3>4, <3>5, <3>6, <1>0, <1>2
  <2>4. b <= Direct \/ (b > Direct /\ b <= Direct + Indirect) \/ b > Direct + Indirect
    BY <1>0
  <2> QED BY <2>1, <2>2, <2>3, <2>4, Zenon
<1> QED BY <1>1, <1>3 DEF c

(* A traversal's position: as a place, but an entry may be one too many.   *)
IsPos(P) ==
  /\ P[1] \in 1 .. Slots + 1 /\ P[2] \in 0 .. Entries + 1 /\ P[3] \in 0 .. Entries + 1
  /\ P[2] # 0 => P[1] > Direct
  /\ P[3] # 0 => P[1] > Direct + Indirect /\ P[2] \in 1 .. Entries

(* The offset within the slot.                                             *)
Inner(P) ==
  IF P[1] <= Direct THEN 0
  ELSE IF P[1] <= Direct + Indirect THEN Before(P[2], 1)
  ELSE Before(P[2], Entries) + Before(P[3], 1)

LEMMA CellIsPos ==
  ASSUME NEW p \in Cell
  PROVE  IsPos(p) /\ p = <<p[1], p[2], p[3]>>
<1>1. /\ p \in (1 .. Slots) \X (0 .. Entries) \X (0 .. Entries)
      /\ p[2] # 0 => p[1] > Direct
      /\ p[3] # 0 => p[2] # 0 /\ p[1] > Direct + Indirect
  BY DEF Cell
<1>2. /\ p[1] \in 1 .. Slots /\ p[2] \in 0 .. Entries /\ p[3] \in 0 .. Entries
      /\ p = <<p[1], p[2], p[3]>>
  BY <1>1
<1> QED BY <1>1, <1>2, SlotNumbers DEF IsPos

LEMMA FirstSplit ==
  ASSUME NEW P, IsPos(P)
  PROVE  /\ First(P) = Base(P[1]) + Inner(P)
         /\ Base(P[1]) \in Nat /\ Inner(P) \in Nat /\ First(P) \in Nat
         /\ Inner(P) <= SlotArea(P[1])
<1> DEFINE E == Entries
<1>0. /\ E \in Nat /\ E >= 1 /\ Direct \in Nat /\ Indirect \in Nat /\ Slots \in Nat
      /\ P[1] \in Nat /\ P[1] >= 1 /\ P[2] \in Nat /\ P[3] \in Nat
      /\ P[2] <= E + 1 /\ P[3] <= E + 1
      /\ P[3] # 0 => P[2] >= 1 /\ P[2] <= E
  BY SlotNumbers DEF IsPos
<1>1. Base(P[1]) \in Nat
  BY <1>0, NextBase
<1>2. Inner(P) \in Nat /\ Inner(P) <= SlotArea(P[1])
  <2>1. CASE P[1] <= Direct
    BY <2>1, <1>0 DEF Inner, SlotArea
  <2>2. CASE P[1] > Direct /\ P[1] <= Direct + Indirect
    <3>1. Before(P[2], 1) = IF P[2] = 0 THEN 0 ELSE P[2] - 1
      BY <1>0 DEF Before
    <3> QED BY <2>2, <3>1, <1>0 DEF Inner, SlotArea
  <2>3. CASE P[1] > Direct + Indirect
    <3>0. Inner(P) = Before(P[2], E) + Before(P[3], 1) /\ SlotArea(P[1]) = E * E
      BY <2>3, <1>0 DEF Inner, SlotArea
    <3>1. Before(P[3], 1) \in Nat /\ Before(P[3], 1) <= E
      BY <1>0 DEF Before
    <3>2. CASE P[2] = 0
      <4>1. P[3] = 0
        BY <3>2, <1>0
      <4>2. E * E \in Nat
        BY <1>0, Times
      <4> QED BY <4>1, <4>2, <3>2, <3>0, <1>0 DEF Before
    <3>3. CASE P[2] # 0
      <4> DEFINE k == P[2] - 1
      <4>1. k \in Nat /\ P[2] = k + 1 /\ k <= E
        BY <3>3, <1>0
      <4>2. Before(P[2], E) = k * E
        BY <3>3 DEF Before
      <4> HIDE DEF k
      <4>3. k * E \in Nat /\ k * E <= E * E /\ E * E \in Nat
        BY <4>1, <1>0, Times, TimesMonotone
      <4>4. CASE P[3] = 0
        BY <4>2, <4>3, <4>4, <3>0 DEF Before
      <4>5. CASE P[3] # 0
        <5>1. k + 1 <= E
          BY <4>1, <4>5, <1>0
        <5>2. (k + 1) * E <= E * E
          BY <5>1, <4>1, <1>0, TimesMonotone
        <5>3. (k + 1) * E = k * E + E
          BY <4>1, <1>0
        <5> DEFINE u == k * E
        <5> DEFINE q == E * E
        <5>4. /\ u \in Nat /\ q \in Nat /\ u + E <= q /\ Before(P[2], E) = u
              /\ Inner(P) = Before(P[2], E) + Before(P[3], 1) /\ SlotArea(P[1]) = q
          BY <5>2, <5>3, <4>2, <4>3, <3>0
        <5> HIDE DEF u, q
        <5> QED BY <5>4, <3>1, <1>0
      <4> QED BY <4>4, <4>5
    <3> QED BY <3>2, <3>3
  <2>4. P[1] <= Direct \/ (P[1] > Direct /\ P[1] <= Direct + Indirect) \/ P[1] > Direct + Indirect
    BY <1>0
  <2> QED BY <2>1, <2>2, <2>3, <2>4, Zenon
<1>3. First(P) = Base(P[1]) + Inner(P)
  <2>1. CASE P[1] <= Direct
    BY <2>1, <1>0 DEF Inner, Base, First
  <2>2. CASE P[1] > Direct /\ P[1] <= Direct + Indirect
    BY <2>2, <1>0 DEF Inner, Base, First
  <2>3. CASE P[1] > Direct + Indirect
    <3>1. /\ First(P) = Base(P[1]) + Before(P[2], E) + Before(P[3], 1)
          /\ Inner(P) = Before(P[2], E) + Before(P[3], 1)
      BY <2>3, <1>0 DEF Inner, Base, First
    <3>2. Before(P[3], 1) \in Nat
      BY <1>0 DEF Before
    <3>3. Before(P[2], E) \in Nat
      <4>1. CASE P[2] = 0
        BY <4>1 DEF Before
      <4>2. CASE P[2] # 0
        BY <4>2, <1>0, Times DEF Before
      <4> QED BY <4>1, <4>2
    <3> QED BY <3>1, <3>2, <3>3, <1>1
  <2>4. P[1] <= Direct \/ (P[1] > Direct /\ P[1] <= Direct + Indirect) \/ P[1] > Direct + Indirect
    BY <1>0
  <2> QED BY <2>1, <2>2, <2>3, <2>4, Zenon
<1> QED BY <1>1, <1>2, <1>3

LEMMA CellInner ==
  ASSUME NEW p \in Cell
  PROVE  Inner(p) < SlotArea(p[1])
<1> DEFINE E == Entries
<1>0. /\ E \in Nat /\ E >= 1 /\ Direct \in Nat /\ Indirect \in Nat
      /\ p[1] \in Nat /\ p[1] >= 1 /\ p[2] \in 0 .. E /\ p[3] \in 0 .. E
      /\ p[3] # 0 => p[2] # 0
  BY SlotNumbers, CellIsPos DEF Cell, IsPos
<1>1. CASE p[1] <= Direct
  BY <1>1, <1>0 DEF Inner, SlotArea
<1>2. CASE p[1] > Direct /\ p[1] <= Direct + Indirect
  <2>1. Before(p[2], 1) = IF p[2] = 0 THEN 0 ELSE p[2] - 1
    BY <1>0 DEF Before
  <2> QED BY <1>2, <2>1, <1>0 DEF Inner, SlotArea
<1>3. CASE p[1] > Direct + Indirect
  <2>0. Inner(p) = Before(p[2], E) + Before(p[3], 1) /\ SlotArea(p[1]) = E * E
    BY <1>3, <1>0 DEF Inner, SlotArea
  <2>1. Before(p[3], 1) \in Nat /\ Before(p[3], 1) + 1 <= E
    BY <1>0 DEF Before
  <2>2. 1 * E <= E * E /\ E * E \in Nat
    BY <1>0, Times, TimesMonotone
  <2>3. CASE p[2] = 0
    <3>1. p[3] = 0
      BY <2>3, <1>0
    <3> DEFINE q == E * E
    <3>2. q \in Nat /\ q >= 1 /\ SlotArea(p[1]) = q /\ Inner(p) = Before(p[2], E) + Before(p[3], 1)
      BY <2>2, <2>0, <1>0
    <3> HIDE DEF q
    <3> QED BY <3>1, <3>2, <2>3 DEF Before
  <2>4. CASE p[2] # 0
    <3> DEFINE k == p[2] - 1
    <3>1. k \in Nat /\ k + 1 <= E
      BY <2>4, <1>0
    <3>2. Before(p[2], E) = k * E
      BY <2>4 DEF Before
    <3> HIDE DEF k
    <3>3. (k + 1) * E <= E * E /\ (k + 1) * E = k * E + E /\ k * E \in Nat
      BY <3>1, <1>0, Times, TimesMonotone
    <3> DEFINE u == k * E
    <3> DEFINE q == E * E
    <3>4. /\ u \in Nat /\ q \in Nat /\ u + E <= q
          /\ Inner(p) = u + Before(p[3], 1) /\ SlotArea(p[1]) = q
      BY <3>3, <3>2, <2>0, <2>2
    <3> HIDE DEF u, q
    <3> QED BY <3>4, <2>1, <1>0
  <2> QED BY <2>3, <2>4
<1>4. p[1] <= Direct \/ (p[1] > Direct /\ p[1] <= Direct + Indirect) \/ p[1] > Direct + Indirect
  BY <1>0
<1> QED BY <1>1, <1>2, <1>3, <1>4, Zenon

(* What the traversal has left lies before it.                             *)
LEMMA PassedBefore ==
  ASSUME NEW p \in Cell, NEW P, IsPos(P), Passed(p, P)
  PROVE  First(p) < First(P)
<1> DEFINE E == Entries
<1>0. /\ E \in Nat /\ E >= 1 /\ Direct \in Nat /\ Indirect \in Nat
      /\ p[1] \in Nat /\ p[1] >= 1 /\ p[2] \in 0 .. E /\ p[3] \in 0 .. E
      /\ p[2] # 0 => p[1] > Direct
      /\ p[3] # 0 => p[2] # 0 /\ p[1] > Direct + Indirect
      /\ P[1] \in Nat /\ P[2] \in Nat /\ P[3] \in Nat
      /\ P[2] <= E + 1 /\ P[3] <= E + 1
  BY SlotNumbers, CellIsPos DEF Cell, IsPos
<1>1. /\ First(p) = Base(p[1]) + Inner(p) /\ First(P) = Base(P[1]) + Inner(P)
      /\ Base(p[1]) \in Nat /\ Inner(p) \in Nat /\ Base(P[1]) \in Nat /\ Inner(P) \in Nat
      /\ Inner(p) < SlotArea(p[1])
  BY CellIsPos, FirstSplit, CellInner
<1>2. CASE p[1] < P[1]
  <2>1. Base(p[1]) + SlotArea(p[1]) <= Base(P[1]) /\ SlotArea(p[1]) \in Nat
    BY <1>2, <1>0, BaseMonotone, NextBase
  <2> QED BY <2>1, <1>1
<1>3. CASE p[1] = P[1] /\ p[2] # 0 /\ p[2] < P[2]
  <2>1. CASE p[1] <= Direct + Indirect
    <3>1. Inner(p) = Before(p[2], 1) /\ Inner(P) = Before(P[2], 1)
      BY <1>3, <2>1, <1>0 DEF Inner
    <3>2. Before(p[2], 1) < Before(P[2], 1)
      BY <1>3, <1>0 DEF Before
    <3> QED BY <3>1, <3>2, <1>1, <1>3
  <2>2. CASE p[1] > Direct + Indirect
    <3>1. /\ Inner(p) = Before(p[2], E) + Before(p[3], 1)
          /\ Inner(P) = Before(P[2], E) + Before(P[3], 1)
      BY <1>3, <2>2, <1>0 DEF Inner
    <3>2. /\ Before(p[3], 1) \in Nat /\ Before(p[3], 1) + 1 <= E
          /\ Before(P[3], 1) \in Nat
      BY <1>0 DEF Before
    <3> DEFINE k == p[2] - 1
    <3> DEFINE n == P[2] - 1
    <3>3. k \in Nat /\ n \in Nat /\ k + 1 <= n
      BY <1>3, <1>0
    <3>4. Before(p[2], E) = k * E /\ Before(P[2], E) = n * E
      BY <1>3, <1>0 DEF Before
    <3> HIDE DEF k, n
    <3>5. (k + 1) * E <= n * E /\ (k + 1) * E = k * E + E /\ k * E \in Nat /\ n * E \in Nat
      BY <3>3, <1>0, Times, TimesMonotone
    <3> DEFINE u == k * E
    <3> DEFINE w == n * E
    <3>6. /\ u \in Nat /\ w \in Nat /\ u + E <= w
          /\ Inner(p) = u + Before(p[3], 1) /\ Inner(P) = w + Before(P[3], 1)
      BY <3>5, <3>4, <3>1
    <3> HIDE DEF u, w
    <3> QED BY <3>6, <3>2, <1>1, <1>3, <1>0
  <2> QED BY <2>1, <2>2, <1>0
<1>4. CASE p[1] = P[1] /\ p[2] = P[2] /\ p[3] # 0 /\ p[3] < P[3]
  <2>1. /\ Inner(p) = Before(p[2], E) + Before(p[3], 1)
        /\ Inner(P) = Before(p[2], E) + Before(P[3], 1)
    BY <1>4, <1>0 DEF Inner
  <2>2. Before(p[3], 1) < Before(P[3], 1)
    BY <1>4, <1>0 DEF Before
  <2>3. Before(p[2], E) \in Nat
    <3>1. p[2] - 1 \in Nat
      BY <1>4, <1>0
    <3> QED BY <3>1, <1>0, Times DEF Before
  <2>4. Before(p[3], 1) \in Nat /\ Before(P[3], 1) \in Nat
    BY <1>4, <1>0 DEF Before
  <2> QED BY <2>1, <2>2, <2>3, <2>4, <1>1, <1>4
<1> QED BY <1>2, <1>3, <1>4 DEF Passed

(* What it has not come to lies at or behind it.                           *)
LEMMA AheadAfter ==
  ASSUME NEW p \in Cell, NEW P, IsPos(P), ~Passed(p, P), ~Above(p, P)
  PROVE  First(p) >= First(P)
<1> DEFINE E == Entries
<1>0. /\ E \in Nat /\ E >= 1 /\ Direct \in Nat /\ Indirect \in Nat
      /\ p[1] \in Nat /\ p[1] >= 1 /\ p[2] \in 0 .. E /\ p[3] \in 0 .. E
      /\ p[2] # 0 => p[1] > Direct
      /\ p[3] # 0 => p[2] # 0 /\ p[1] > Direct + Indirect
      /\ P[1] \in Nat /\ P[1] >= 1 /\ P[2] \in Nat /\ P[3] \in Nat
      /\ P[2] <= E + 1 /\ P[3] <= E + 1
      /\ P[2] # 0 => P[1] > Direct
      /\ P[3] # 0 => P[2] # 0 /\ P[1] > Direct + Indirect
  BY SlotNumbers, CellIsPos DEF Cell, IsPos
<1>1. /\ First(p) = Base(p[1]) + Inner(p) /\ First(P) = Base(P[1]) + Inner(P)
      /\ Base(p[1]) \in Nat /\ Inner(p) \in Nat /\ Base(P[1]) \in Nat /\ Inner(P) \in Nat
      /\ Inner(P) <= SlotArea(P[1])
  BY CellIsPos, FirstSplit
<1>2. CASE p[1] > P[1]
  <2>1. Base(P[1]) + SlotArea(P[1]) <= Base(p[1]) /\ SlotArea(P[1]) \in Nat
    BY <1>2, <1>0, BaseMonotone, NextBase
  <2> QED BY <2>1, <1>1
<1>3. CASE p[1] = P[1] /\ P[2] = 0
  <2>1. Inner(P) = 0
    BY <1>3, <1>0 DEF Inner, Before
  <2> QED BY <2>1, <1>1, <1>3
<1>4. CASE p[1] = P[1] /\ P[2] # 0 /\ p[2] > P[2]
  <2>1. CASE p[1] <= Direct + Indirect
    <3>1. Inner(p) = Before(p[2], 1) /\ Inner(P) = Before(P[2], 1)
      BY <1>4, <2>1, <1>0 DEF Inner
    <3>2. Before(p[2], 1) >= Before(P[2], 1)
      BY <1>4, <1>0 DEF Before
    <3> QED BY <3>1, <3>2, <1>1, <1>4
  <2>2. CASE p[1] > Direct + Indirect
    <3>1. /\ Inner(p) = Before(p[2], E) + Before(p[3], 1)
          /\ Inner(P) = Before(P[2], E) + Before(P[3], 1)
      BY <1>4, <2>2, <1>0 DEF Inner
    <3>2. /\ Before(p[3], 1) \in Nat /\ Before(P[3], 1) \in Nat /\ Before(P[3], 1) <= E
      BY <1>0 DEF Before
    <3> DEFINE k == P[2] - 1
    <3> DEFINE n == p[2] - 1
    <3>3. k \in Nat /\ n \in Nat /\ k + 1 <= n
      BY <1>4, <1>0
    <3>4. Before(P[2], E) = k * E /\ Before(p[2], E) = n * E
      BY <1>4, <1>0 DEF Before
    <3> HIDE DEF k, n
    <3>5. (k + 1) * E <= n * E /\ (k + 1) * E = k * E + E /\ k * E \in Nat /\ n * E \in Nat
      BY <3>3, <1>0, Times, TimesMonotone
    <3> DEFINE u == k * E
    <3> DEFINE w == n * E
    <3>6. /\ u \in Nat /\ w \in Nat /\ u + E <= w
          /\ Inner(p) = w + Before(p[3], 1) /\ Inner(P) = u + Before(P[3], 1)
      BY <3>5, <3>4, <3>1
    <3> HIDE DEF u, w
    <3> QED BY <3>6, <3>2, <1>1, <1>4, <1>0
  <2> QED BY <2>1, <2>2, <1>0
<1>5. CASE p[1] = P[1] /\ P[2] # 0 /\ p[2] = P[2]
  <2>1. P[3] = 0 \/ p[3] >= P[3]
    BY <1>5, <1>0 DEF Passed, Above
  <2>2. CASE p[1] <= Direct + Indirect
    BY <1>5, <2>2, <1>1, <1>0 DEF Inner
  <2>3. CASE p[1] > Direct + Indirect
    <3>1. /\ Inner(p) = Before(p[2], E) + Before(p[3], 1)
          /\ Inner(P) = Before(p[2], E) + Before(P[3], 1)
      BY <1>5, <2>3, <1>0 DEF Inner
    <3>2. /\ Before(p[3], 1) \in Nat /\ Before(P[3], 1) \in Nat
          /\ Before(P[3], 1) <= Before(p[3], 1)
      BY <2>1, <1>0 DEF Before
    <3>3. Before(p[2], E) \in Nat
      <4>1. p[2] - 1 \in Nat
        BY <1>5, <1>0
      <4> QED BY <4>1, <1>0, Times DEF Before
    <3> QED BY <3>1, <3>2, <3>3, <1>1, <1>5
  <2> QED BY <2>2, <2>3, <1>0
<1>6. p[1] >= P[1] /\ (p[1] = P[1] /\ P[2] # 0 => p[2] >= P[2])
  BY <1>0 DEF Passed, Above
<1> QED BY <1>2, <1>3, <1>4, <1>5, <1>6, <1>0

-----------------------------------------------------------------------------
(* The three moves of the traversal.                                       *)

Forth(P) == IF P[2] = 0 THEN <<P[1] + 1, 0, 0>>
            ELSE IF P[3] = 0 THEN <<P[1], P[2] + 1, 0>> ELSE <<P[1], P[2], P[3] + 1>>
Down(P) == IF P[2] = 0 THEN <<P[1], 1, 0>> ELSE <<P[1], P[2], 1>>
Out(P) == IF P[3] = 0 THEN <<P[1] + 1, 0, 0>> ELSE <<P[1], P[2] + 1, 0>>

(* The position is behind the last entry of the innermost index block.     *)
Spent(P) == IF P[3] = 0 THEN P[2] = Entries + 1 ELSE P[3] = Entries + 1

(* The place of the innermost index block that is open.                    *)
Node(P) == IF P[3] = 0 THEN <<P[1], 0, 0>> ELSE <<P[1], P[2], 0>>

LEMMA Numbers ==
  ASSUME NEW P, IsPos(P)
  PROVE  /\ P[1] \in Nat /\ P[2] \in Nat /\ P[3] \in Nat
         /\ P[1] >= 1 /\ P[1] <= Slots + 1 /\ P[2] <= Entries + 1 /\ P[3] <= Entries + 1
         /\ P[2] # 0 => P[1] > Direct
         /\ P[3] # 0 => P[1] > Direct + Indirect /\ P[2] >= 1 /\ P[2] <= Entries
BY SlotNumbers DEF IsPos

LEMMA ForthFirst ==
  ASSUME NEW P \in Cell, IsData(P)
  PROVE  IsPos(Forth(P)) /\ First(Forth(P)) = First(P) + 1
<1>1. /\ P[1] \in Nat /\ P[2] \in Nat /\ P[3] \in Nat
      /\ P[1] >= 1 /\ P[1] <= Slots /\ P[2] <= Entries /\ P[3] <= Entries
      /\ P[2] # 0 => P[1] > Direct
      /\ P[3] # 0 => P[1] > Direct + Indirect /\ P[2] >= 1
  BY CellIsPos, Numbers, SlotNumbers DEF Cell
<1>2. /\ First(P) = Base(P[1]) + Inner(P) /\ Base(P[1]) \in Nat
      /\ SlotArea(P[1]) \in Nat /\ Base(P[1] + 1) = Base(P[1]) + SlotArea(P[1])
  BY <1>1, CellIsPos, FirstSplit, NextBase
<1>3. IsPos(Forth(P))
  BY <1>1, SlotNumbers DEF Forth, IsPos
<1>4. First(Forth(P)) = Base(Forth(P)[1]) + Inner(Forth(P))
  BY <1>3, FirstSplit
<1>5. CASE P[1] <= Direct
  <2>1. P[2] = 0 /\ Forth(P) = <<P[1] + 1, 0, 0>>
    BY <1>5, <1>1, SlotNumbers DEF Forth
  <2>2. Inner(P) = 0 /\ Inner(Forth(P)) = 0 /\ SlotArea(P[1]) = 1
    BY <2>1, <1>5, <1>1, SlotNumbers DEF Inner, SlotArea, Before
  <2> QED BY <2>1, <2>2, <1>2, <1>3, <1>4
<1>6. CASE P[1] > Direct /\ P[1] <= Direct + Indirect
  <2>1. P[2] # 0 /\ P[3] = 0 /\ Forth(P) = <<P[1], P[2] + 1, 0>>
    BY <1>6, <1>1, SlotNumbers DEF Forth, IsData
  <2>2. Inner(P) = P[2] - 1 /\ Inner(Forth(P)) = P[2]
    BY <2>1, <1>6, <1>1, SlotNumbers DEF Inner, Before
  <2> QED BY <2>1, <2>2, <1>1, <1>2, <1>3, <1>4
<1>7. CASE P[1] > Direct + Indirect
  <2>1. P[3] # 0 /\ P[2] # 0 /\ Forth(P) = <<P[1], P[2], P[3] + 1>>
    BY <1>7, <1>1, SlotNumbers DEF Forth, IsData
  <2>2. Inner(P) = Before(P[2], Entries) + P[3] - 1 /\ Inner(Forth(P)) = Before(P[2], Entries) + P[3]
    BY <2>1, <1>7, <1>1, SlotNumbers DEF Inner, Before
  <2>3. Before(P[2], Entries) \in Nat
    BY <2>1, <1>1, SlotNumbers, Times DEF Before
  <2> QED BY <2>1, <2>2, <2>3, <1>1, <1>2, <1>3, <1>4
<1> QED BY <1>1, <1>3, <1>5, <1>6, <1>7, SlotNumbers

LEMMA DownFirst ==
  ASSUME NEW P \in Cell, ~IsData(P)
  PROVE  IsPos(Down(P)) /\ First(Down(P)) = First(P) /\ Node(Down(P)) = P /\ P[3] = 0
<1>1. /\ P[1] \in Nat /\ P[2] \in Nat /\ P[3] = 0 /\ P = <<P[1], P[2], P[3]>>
      /\ P[1] >= 1 /\ P[1] <= Slots /\ P[2] <= Entries /\ P[1] > Direct
      /\ P[2] # 0 => P[1] > Direct + Indirect
  BY CellIsPos, Numbers, SlotNumbers DEF Cell, IsData
<1>2. Down(P) = IF P[2] = 0 THEN <<P[1], 1, 0>> ELSE <<P[1], P[2], 1>>
  BY DEF Down
<1>3. IsPos(Down(P))
  BY <1>1, <1>2, SlotNumbers DEF IsPos
<1>4. First(Down(P)) = Base(Down(P)[1]) + Inner(Down(P)) /\ First(P) = Base(P[1]) + Inner(P)
  BY <1>3, CellIsPos, FirstSplit
<1>5. Before(1, 1) = 0 /\ Before(1, Entries) = 0 /\ Before(0, 1) = 0 /\ Before(0, Entries) = 0
  BY SlotNumbers DEF Before
<1>6. Inner(Down(P)) = Inner(P)
  BY <1>1, <1>2, <1>5, SlotNumbers DEF Inner
<1>7. Node(Down(P)) = P
  BY <1>1, <1>2 DEF Node
<1> QED BY <1>1, <1>2, <1>3, <1>4, <1>6, <1>7

LEMMA OutFirst ==
  ASSUME NEW P, IsPos(P), P[2] # 0, P[1] <= Slots
  PROVE  /\ IsPos(Out(P)) /\ First(Out(P)) >= First(P)
         /\ Spent(P) => First(Out(P)) = First(P)
<1> DEFINE E == Entries
<1>1. /\ P[1] \in Nat /\ P[2] \in Nat /\ P[3] \in Nat
      /\ P[1] >= 1 /\ P[1] <= Slots /\ P[2] <= E + 1 /\ P[3] <= E + 1 /\ P[1] > Direct
      /\ P[3] # 0 => P[1] > Direct + Indirect /\ P[2] >= 1 /\ P[2] <= E
      /\ E \in Nat /\ E >= 1 /\ Direct \in Nat /\ Indirect \in Nat
  BY Numbers, SlotNumbers
<1>2. IsPos(Out(P))
  BY <1>1, SlotNumbers DEF Out, IsPos
<1>3. /\ First(Out(P)) = Base(Out(P)[1]) + Inner(Out(P)) /\ First(P) = Base(P[1]) + Inner(P)
      /\ Inner(P) <= SlotArea(P[1]) /\ Inner(P) \in Nat /\ Inner(Out(P)) \in Nat
      /\ Base(P[1]) \in Nat /\ SlotArea(P[1]) \in Nat
      /\ Base(P[1] + 1) = Base(P[1]) + SlotArea(P[1])
  BY <1>1, <1>2, FirstSplit, NextBase
<1>4. CASE P[3] = 0
  <2>1. Out(P) = <<P[1] + 1, 0, 0>>
    BY <1>4 DEF Out
  <2>2. Inner(Out(P)) = 0
    BY <2>1, <1>1 DEF Inner, Before
  <2>3. P[2] = E + 1 => Inner(P) = SlotArea(P[1])
    <3> SUFFICES ASSUME P[2] = E + 1 PROVE Inner(P) = SlotArea(P[1])
      OBVIOUS
    <3>1. Before(P[2], 1) = E /\ Before(P[2], E) = E * E /\ Before(P[3], 1) = 0
      BY <1>1, <1>4 DEF Before
    <3>2. CASE P[1] <= Direct + Indirect
      BY <3>1, <3>2, <1>1 DEF Inner, SlotArea
    <3>3. CASE P[1] > Direct + Indirect
      <4>1. Inner(P) = E * E + 0 /\ SlotArea(P[1]) = E * E
        BY <3>1, <3>3, <1>1 DEF Inner, SlotArea
      <4> QED BY <4>1, <1>1, Times
    <3> QED BY <3>2, <3>3, <1>1
  <2>4. First(Out(P)) = Base(P[1]) + SlotArea(P[1]) /\ First(P) = Base(P[1]) + Inner(P)
    BY <2>1, <2>2, <1>3
  <2> QED BY <2>3, <2>4, <1>2, <1>3, <1>4 DEF Spent
<1>5. CASE P[3] # 0
  <2>1. Out(P) = <<P[1], P[2] + 1, 0>>
    BY <1>5 DEF Out
  <2> DEFINE k == P[2] - 1
  <2>2. k \in Nat /\ P[2] = k + 1
    BY <1>1, <1>5
  <2>3. Inner(P) = k * E + P[3] - 1 /\ Inner(Out(P)) = (k + 1) * E
    BY <2>1, <1>1, <1>5 DEF Inner, Before
  <2> HIDE DEF k
  <2>4. (k + 1) * E = k * E + E /\ k * E \in Nat
    BY <2>2, <1>1, Times
  <2> DEFINE u == k * E
  <2>5. u \in Nat /\ Inner(P) = u + P[3] - 1 /\ Inner(Out(P)) = u + E
    BY <2>3, <2>4
  <2> HIDE DEF u
  <2>6. First(Out(P)) = Base(P[1]) + (u + E) /\ First(P) = Base(P[1]) + (u + P[3] - 1)
    BY <2>1, <2>5, <1>3
  <2>7. First(Out(P)) >= First(P) /\ (P[3] = E + 1 => First(Out(P)) = First(P))
    BY <2>5, <2>6, <1>1, <1>3, <1>5
  <2> QED BY <2>7, <1>2, <1>5 DEF Spent
<1> QED BY <1>4, <1>5

LEMMA CellNumbers ==
  ASSUME NEW p \in Cell
  PROVE  /\ p = <<p[1], p[2], p[3]>>
         /\ p[1] \in Nat /\ p[2] \in Nat /\ p[3] \in Nat
         /\ p[1] >= 1 /\ p[1] <= Slots /\ p[2] <= Entries /\ p[3] <= Entries
         /\ p[2] # 0 => p[1] > Direct
         /\ p[3] # 0 => p[1] > Direct + Indirect /\ p[2] >= 1
BY CellIsPos, Numbers, SlotNumbers DEF Cell

LEMMA ForthPassed ==
  ASSUME NEW P \in Cell, IsData(P), NEW p \in Cell
  PROVE  /\ Passed(p, Forth(P)) <=> Passed(p, P) \/ p = P
         /\ Above(p, Forth(P)) <=> Above(p, P)
         /\ ~Passed(P, P) /\ ~Above(P, P)
<1>1. /\ P[1] \in Nat /\ P[2] \in Nat /\ P[3] \in Nat /\ P = <<P[1], P[2], P[3]>>
      /\ P[2] # 0 => P[1] > Direct
      /\ P[3] # 0 => P[1] > Direct + Indirect /\ P[2] >= 1
      /\ P[2] = 0 => P[1] <= Direct
      /\ P[3] = 0 => P[1] <= Direct + Indirect
  BY CellNumbers, SlotNumbers DEF IsData
<1>2. /\ p[1] \in Nat /\ p[2] \in Nat /\ p[3] \in Nat /\ p = <<p[1], p[2], p[3]>>
      /\ p[2] # 0 => p[1] > Direct
      /\ p[3] # 0 => p[1] > Direct + Indirect /\ p[2] >= 1
  BY CellNumbers
<1>3. p = P <=> p[1] = P[1] /\ p[2] = P[2] /\ p[3] = P[3]
  BY <1>1, <1>2
<1>4. ~Passed(P, P) /\ ~Above(P, P)
  BY <1>1 DEF Passed, Above
<1>5. CASE P[2] = 0
  <2>1. Forth(P) = <<P[1] + 1, 0, 0>> /\ P[3] = 0
    BY <1>5, <1>1 DEF Forth
  <2>2. Above(p, Forth(P)) <=> Above(p, P)
    BY <2>1, <1>5 DEF Above
  <2>3. Passed(p, Forth(P)) <=> Passed(p, P) \/ p = P
    BY <2>1, <1>5, <1>1, <1>2, <1>3, SlotNumbers DEF Passed
  <2> QED BY <2>2, <2>3, <1>4
<1>6. CASE P[2] # 0 /\ P[3] = 0
  <2>1. Forth(P) = <<P[1], P[2] + 1, 0>>
    BY <1>6, <1>1 DEF Forth
  <2>2. Above(p, Forth(P)) <=> Above(p, P)
    BY <2>1, <1>6, <1>1 DEF Above
  <2>3. Passed(p, Forth(P)) <=> Passed(p, P) \/ p = P
    BY <2>1, <1>6, <1>1, <1>2, <1>3, SlotNumbers DEF Passed
  <2> QED BY <2>2, <2>3, <1>4
<1>7. CASE P[3] # 0
  <2>1. Forth(P) = <<P[1], P[2], P[3] + 1>> /\ P[2] # 0
    BY <1>7, <1>1 DEF Forth
  <2>2. Above(p, Forth(P)) <=> Above(p, P)
    BY <2>1, <1>7, <1>1 DEF Above
  <2>3. Passed(p, Forth(P)) <=> Passed(p, P) \/ p = P
    BY <2>1, <1>7, <1>1, <1>2, <1>3 DEF Passed
  <2> QED BY <2>2, <2>3, <1>4
<1> QED BY <1>5, <1>6, <1>7

LEMMA DownPassed ==
  ASSUME NEW P \in Cell, ~IsData(P), NEW p \in Cell
  PROVE  /\ Passed(p, Down(P)) <=> Passed(p, P)
         /\ Above(p, Down(P)) <=> Above(p, P) \/ p = P
         /\ ~Passed(P, P) /\ ~Above(P, P)
<1>1. /\ P[1] \in Nat /\ P[2] \in Nat /\ P[3] = 0 /\ P = <<P[1], P[2], P[3]>>
  BY CellNumbers, DownFirst
<1>2. p[1] \in Nat /\ p[2] \in Nat /\ p[3] \in Nat /\ p = <<p[1], p[2], p[3]>>
  BY CellNumbers
<1>3. p = P <=> p[1] = P[1] /\ p[2] = P[2] /\ p[3] = P[3]
  BY <1>1, <1>2
<1>4. ~Passed(P, P) /\ ~Above(P, P)
  BY <1>1 DEF Passed, Above
<1>5. CASE P[2] = 0
  <2>1. Down(P) = <<P[1], 1, 0>>
    BY <1>5 DEF Down
  <2> QED BY <2>1, <1>1, <1>2, <1>3, <1>4, <1>5 DEF Passed, Above
<1>6. CASE P[2] # 0
  <2>1. Down(P) = <<P[1], P[2], 1>>
    BY <1>6 DEF Down
  <2> QED BY <2>1, <1>1, <1>2, <1>3, <1>4, <1>6 DEF Passed, Above
<1> QED BY <1>5, <1>6

(* Leaving a table that is done with passes its index block.               *)
LEMMA OutPassed ==
  ASSUME NEW P, IsPos(P), P[2] # 0, P[1] <= Slots, NEW p \in Cell,
         Spent(P) \/ First(p) < First(P)
  PROVE  Passed(p, Out(P)) <=> Passed(p, P) \/ p = Node(P)
<1>1. /\ P[1] \in Nat /\ P[2] \in Nat /\ P[3] \in Nat
      /\ P[3] # 0 => P[1] > Direct + Indirect /\ P[2] >= 1 /\ P[2] <= Entries
  BY Numbers
<1>2. /\ p[1] \in Nat /\ p[2] \in Nat /\ p[3] \in Nat /\ p = <<p[1], p[2], p[3]>>
      /\ p[2] <= Entries /\ p[3] <= Entries
      /\ p[3] # 0 => p[2] >= 1
  BY CellNumbers
<1>3. \/ IF P[3] = 0 THEN P[2] = Entries + 1 ELSE P[3] = Entries + 1
      \/ Passed(p, P) \/ Above(p, P)
  <2>1. First(p) < First(P) => Passed(p, P) \/ Above(p, P)
    <3> SUFFICES ASSUME First(p) < First(P), ~Passed(p, P), ~Above(p, P) PROVE FALSE
      OBVIOUS
    <3>1. First(p) >= First(P) /\ First(p) \in Nat /\ First(P) \in Nat
      BY AheadAfter, FirstSplit, CellIsPos
    <3> QED BY <3>1
  <2> QED BY <2>1 DEF Spent
<1>4. CASE P[3] = 0
  <2>1. Out(P) = <<P[1] + 1, 0, 0>> /\ Node(P) = <<P[1], 0, 0>>
    BY <1>4 DEF Out, Node
  <2>2. p = Node(P) <=> p[1] = P[1] /\ p[2] = 0 /\ p[3] = 0
    BY <2>1, <1>2
  <2>4. Passed(p, Out(P)) <=> Passed(p, P) \/ p = Node(P)
    BY <2>1, <2>2, <1>1, <1>2, <1>3, <1>4, SlotNumbers DEF Passed, Above
  <2> QED BY <2>4
<1>5. CASE P[3] # 0
  <2>1. Out(P) = <<P[1], P[2] + 1, 0>> /\ Node(P) = <<P[1], P[2], 0>>
    BY <1>5 DEF Out, Node
  <2>2. p = Node(P) <=> p[1] = P[1] /\ p[2] = P[2] /\ p[3] = 0
    BY <2>1, <1>2
  <2>4. Passed(p, Out(P)) <=> Passed(p, P) \/ p = Node(P)
    BY <2>1, <2>2, <1>1, <1>2, <1>3, <1>5, SlotNumbers DEF Passed, Above
  <2> QED BY <2>4
<1> QED BY <1>4, <1>5

LEMMA OutAbove ==
  ASSUME NEW P, IsPos(P), P[2] # 0, NEW p \in Cell
  PROVE  Above(p, Out(P)) <=> Above(p, P) /\ p # Node(P)
<1>1. /\ P[1] \in Nat /\ P[2] \in Nat /\ P[3] \in Nat
  BY Numbers
<1>2. p[1] \in Nat /\ p[2] \in Nat /\ p[3] \in Nat /\ p = <<p[1], p[2], p[3]>>
  BY CellNumbers
<1>4. CASE P[3] = 0
  <2>1. Out(P) = <<P[1] + 1, 0, 0>> /\ Node(P) = <<P[1], 0, 0>>
    BY <1>4 DEF Out, Node
  <2>2. p = Node(P) <=> p[1] = P[1] /\ p[2] = 0 /\ p[3] = 0
    BY <2>1, <1>2
  <2> QED BY <2>1, <2>2, <1>4 DEF Above
<1>5. CASE P[3] # 0
  <2>1. Out(P) = <<P[1], P[2] + 1, 0>> /\ Node(P) = <<P[1], P[2], 0>>
    BY <1>5 DEF Out, Node
  <2>2. p = Node(P) <=> p[1] = P[1] /\ p[2] = P[2] /\ p[3] = 0
    BY <2>1, <1>2
  <2> QED BY <2>1, <2>2, <1>1, <1>5 DEF Above
<1> QED BY <1>4, <1>5

LEMMA NodePlace ==
  ASSUME NEW P, IsPos(P), P[2] # 0, P[1] <= Slots
  PROVE  Node(P) \in Cell /\ ~IsData(Node(P)) /\ Above(Node(P), P) /\ ~Passed(Node(P), P)
<1>1. /\ P[1] \in Nat /\ P[2] \in Nat /\ P[3] \in Nat /\ P[1] >= 1 /\ P[1] > Direct
      /\ P[3] # 0 => P[1] > Direct + Indirect /\ P[2] >= 1 /\ P[2] <= Entries
  BY Numbers
<1>2. CASE P[3] = 0
  <2>1. Node(P) = <<P[1], 0, 0>>
    BY <1>2 DEF Node
  <2> QED BY <2>1, <1>1, <1>2, SlotNumbers DEF Cell, IsData, Above, Passed
<1>3. CASE P[3] # 0
  <2>1. Node(P) = <<P[1], P[2], 0>>
    BY <1>3 DEF Node
  <2> QED BY <2>1, <1>1, <1>3, SlotNumbers DEF Cell, IsData, Above, Passed
<1> QED BY <1>2, <1>3

-----------------------------------------------------------------------------
(* The variables of a traversal have the values its loops give them.       *)

LEMMA Paths ==
  ASSUME NEW s \in Seq(Nat), Len(s) \in 1 .. 3
  PROVE  /\ Advance(s) \in Seq(Nat) /\ Len(Advance(s)) = Len(s)
         /\ \A i \in 1 .. Len(s) : Advance(s)[i] = IF i = Len(s) THEN s[i] + 1 ELSE s[i]
         /\ Append(s, 1) \in Seq(Nat) /\ Len(Append(s, 1)) = Len(s) + 1
         /\ \A i \in 1 .. Len(s) : Append(s, 1)[i] = s[i]
         /\ Append(s, 1)[Len(s) + 1] = 1
<1>1. /\ Advance(s) \in Seq(Nat) /\ Len(Advance(s)) = Len(s)
      /\ \A i \in 1 .. Len(s) : Advance(s)[i] = IF i = Len(s) THEN s[i] + 1 ELSE s[i]
  <2> DEFINE n == Len(s)
  <2> DEFINE e == s[n] + 1
  <2>1. n \in 1 .. n /\ e \in Nat
    OBVIOUS
  <2>2. Advance(s) = [s EXCEPT ![n] = e]
    BY DEF Advance
  <2> HIDE DEF e
  <2>3. /\ [s EXCEPT ![n] = e] \in Seq(Nat) /\ Len([s EXCEPT ![n] = e]) = Len(s)
        /\ \A i \in 1 .. Len(s) : [s EXCEPT ![n] = e][i] = IF i = n THEN e ELSE s[i]
    BY <2>1, ExceptSeq
  <2> QED BY <2>2, <2>3 DEF e
<1>2. /\ Append(s, 1) \in Seq(Nat) /\ Len(Append(s, 1)) = Len(s) + 1
      /\ \A i \in 1 .. Len(s) : Append(s, 1)[i] = s[i]
      /\ Append(s, 1)[Len(s) + 1] = 1
  BY AppendProperties
<1> QED BY <1>1, <1>2

LEMMA Popped ==
  ASSUME NEW S, NEW s \in Seq(S), Len(s) \in 1 .. 3
  PROVE  /\ Pop(s) \in Seq(S) /\ Len(Pop(s)) = Len(s) - 1
         /\ \A i \in 1 .. Len(s) - 1 : Pop(s)[i] = s[i]
<1>2. \A i \in 1 .. Len(s) - 1 : s[i] \in S
  OBVIOUS
<1> DEFINE n == Len(s) - 1
<1>a. n \in Nat /\ n \in 0 .. 2
  OBVIOUS
<1>b. \A i \in 1 .. n : s[i] \in S
  BY <1>2
<1> HIDE DEF n
<1>c. /\ SubSeq(s, 1, n) \in Seq(S) /\ Len(SubSeq(s, 1, n)) = IF 1 <= n THEN n - 1 + 1 ELSE 0
      /\ \A i \in 1 .. n - 1 + 1 : SubSeq(s, 1, n)[i] = s[1 + i - 1]
  BY <1>a, <1>b, SubSeqProperties
<1>d. SubSeq(s, 1, n) \in Seq(S) /\ Len(SubSeq(s, 1, n)) = n
  BY <1>a, <1>c
<1>e. \A i \in 1 .. n : SubSeq(s, 1, n)[i] = s[i]
  BY <1>a, <1>c
<1>3. /\ SubSeq(s, 1, Len(s) - 1) \in Seq(S) /\ Len(SubSeq(s, 1, Len(s) - 1)) = Len(s) - 1
      /\ \A i \in 1 .. Len(s) - 1 : SubSeq(s, 1, Len(s) - 1)[i] = s[i]
  BY <1>d, <1>e DEF n
<1> QED BY <1>3 DEF Pop

LEMMA Where ==
  ASSUME Typed, OnPath
  PROVE  /\ Depth \in 0 .. 2 /\ Len(at) = Depth + 1
         /\ IsPos(Pos) /\ Pos = <<Pos[1], Pos[2], Pos[3]>> /\ Pos[1] = at[1]
         /\ Pos[2] = 0 <=> Depth = 0
         /\ Pos[3] = 0 <=> Depth # 2
         /\ Depth = 0 => Here = Pos[1]
         /\ Depth >= 1 => Pos[2] = at[2] /\ Pos[1] <= Slots
         /\ Depth = 1 => Here = Pos[2]
         /\ Depth = 2 => Here = Pos[3] /\ Pos[3] = at[3]
<1>1. /\ Len(at) \in 1 .. 3 /\ at[1] \in 1 .. Slots + 1
      /\ Len(at) >= 2 => at[1] \in Direct + 1 .. Slots /\ at[2] \in 1 .. Entries + 1
      /\ Len(at) = 3 => /\ at[1] > Direct + Indirect /\ at[2] <= Entries
                        /\ at[3] \in 1 .. Entries + 1
  BY DEF Typed, OnPath
<1>2. CASE Len(at) = 1
  <2>1. Depth = 0 /\ Pos = <<at[1], 0, 0>> /\ Here = at[1]
    BY <1>2 DEF Depth, Pos, Here
  <2> QED BY <2>1, <1>1, <1>2, SlotNumbers DEF IsPos
<1>3. CASE Len(at) = 2
  <2>1. Depth = 1 /\ Pos = <<at[1], at[2], 0>> /\ Here = at[2]
    BY <1>3 DEF Depth, Pos, Here
  <2> QED BY <2>1, <1>1, <1>3, SlotNumbers DEF IsPos
<1>4. CASE Len(at) = 3
  <2>1. Depth = 2 /\ Pos = <<at[1], at[2], at[3]>> /\ Here = at[3]
    BY <1>4 DEF Depth, Pos, Here
  <2> QED BY <2>1, <1>1, <1>4, SlotNumbers DEF IsPos
<1> QED BY <1>1, <1>2, <1>3, <1>4

(* In the middle of a loop the traversal is at a place of the tree.        *)
LEMMA InLoop ==
  ASSUME Shape, ~Idle, ~LoopDone
  PROVE  /\ Pos \in Cell
         /\ AtData <=> IsData(Pos)
         /\ left \in Nat /\ left >= 1 /\ Total \in 0 .. MaxSize /\ First(Pos) \in Nat
         /\ First(Pos) = Total - left /\ First(Pos) < Total
         /\ Here \in Nat /\ Here >= 1 /\ Here <= IF Depth = 0 THEN Slots ELSE Entries
<1>0. Typed /\ OnPath /\ Progress
  BY DEF Shape
<1>1. /\ left \in Nat /\ left # 0 /\ ~(Here > IF Depth = 0 THEN Slots ELSE Entries)
      /\ Total \in 0 .. MaxSize
  <2>1. left \in 0 .. MaxSize /\ size[op.file] \in 0 .. MaxSize /\ op.want \in 0 .. MaxSize
    BY <1>0 DEF Typed
  <2> QED BY <2>1, SlotNumbers DEF LoopDone, Total
<1>2. /\ Pos[1] \in Nat /\ Pos[2] \in Nat /\ Pos[3] \in Nat /\ Pos = <<Pos[1], Pos[2], Pos[3]>>
      /\ Pos[1] >= 1 /\ Pos[1] <= Slots + 1 /\ Pos[2] <= Entries + 1 /\ Pos[3] <= Entries + 1
      /\ Pos[2] # 0 => Pos[1] > Direct
      /\ Pos[3] # 0 => Pos[1] > Direct + Indirect /\ Pos[2] >= 1 /\ Pos[2] <= Entries
  BY <1>0, Where, Numbers
<1>3. /\ Here \in Nat /\ Here >= 1 /\ Here <= IF Depth = 0 THEN Slots ELSE Entries
  BY <1>0, <1>1, <1>2, Where, SlotNumbers, SMTT(30)
<1>4. Pos[1] <= Slots /\ Pos[2] <= Entries /\ Pos[3] <= Entries
  BY <1>0, <1>2, <1>3, Where, SlotNumbers
<1>5. Pos \in Cell
  BY <1>2, <1>4, SlotNumbers DEF Cell
<1>6. AtData <=> IsData(Pos)
  <2>1. AtData <=> Depth = Level(Pos[1])
    BY <1>0, Where DEF AtData
  <2> QED BY <2>1, <1>0, <1>2, Where, SlotNumbers DEF Level, IsData
<1>7. First(Pos) = Total - left
  BY <1>0, <1>1 DEF Progress
<1>8. First(Pos) \in Nat
  BY <1>5, CellIsPos, FirstSplit
<1> QED BY <1>1, <1>3, <1>5, <1>6, <1>7, <1>8, SlotNumbers

LEMMA Offsets ==
  ASSUME Shape, ~Idle, ~LoopDone, AtData
  PROVE  Offset = First(Pos) /\ Offset \in 0 .. MaxSize - 1
<1>1. /\ Pos \in Cell /\ IsData(Pos) /\ First(Pos) \in Nat /\ First(Pos) < Total
      /\ Total \in 0 .. MaxSize
  BY InLoop
<1>2. First(Pos) \in 0 .. MaxSize - 1
  BY <1>1, SlotNumbers
<1>3. /\ Typed /\ OnPath
      /\ Pos[1] \in Nat /\ Pos[2] \in Nat /\ Pos[3] \in Nat
      /\ Pos[2] # 0 => Pos[1] > Direct
      /\ Pos[3] # 0 => Pos[1] > Direct + Indirect /\ Pos[2] >= 1
  BY <1>1, CellNumbers DEF Shape
<1>4. CASE Depth = 0
  BY <1>1, <1>3, <1>4, Where, SlotNumbers DEF Offset, First, IsData
<1>5. CASE Depth = 1
  <2>1. Offset = Direct + Entries * (Pos[1] - Direct - 1) + Pos[2] - 1
    BY <1>3, <1>5, Where DEF Offset
  <2>2. Pos[1] > Direct /\ Pos[1] <= Direct + Indirect /\ Pos[2] # 0
    BY <1>1, <1>3, <1>5, Where, SlotNumbers DEF IsData
  <2>3. First(Pos) = Direct + Entries * (Pos[1] - Direct - 1) + (Pos[2] - 1) * 1
    <3>1. ~(Pos[1] <= Direct)
      BY <2>2, <1>3, SlotNumbers
    <3> QED BY <3>1, <2>2 DEF First, Before
  <2>4. Entries * (Pos[1] - Direct - 1) \in Nat
    BY <2>2, <1>3, Times, SlotNumbers
  <2> DEFINE u == Entries * (Pos[1] - Direct - 1)
  <2>5. Offset = Direct + u + Pos[2] - 1 /\ First(Pos) = Direct + u + (Pos[2] - 1) * 1 /\ u \in Nat
    BY <2>1, <2>3, <2>4
  <2> HIDE DEF u
  <2>6. Offset = First(Pos)
    BY <2>5, <1>3, SlotNumbers
  <2> QED BY <2>6, <1>2
<1>6. CASE Depth = 2
  <2> DEFINE w == Direct + Indirect * Entries
                   + (Pos[1] - Direct - Indirect - 1) * Entries * Entries
  <2> DEFINE v == (Pos[2] - 1) * Entries
  <2>1. Offset = w + v + Pos[3] - 1
    BY <1>3, <1>6, Where DEF Offset
  <2>2. Pos[1] > Direct + Indirect /\ Pos[2] # 0 /\ Pos[3] # 0
    BY <1>3, <1>6, Where
  <2>3. First(Pos) = w + v + (Pos[3] - 1) * 1
    BY <2>2, <1>3, SlotNumbers DEF First, Before
  <2>4. w \in Nat /\ v \in Nat
    <3>1. /\ Pos[1] - Direct - Indirect - 1 \in Nat /\ Pos[2] - 1 \in Nat
          /\ Indirect * Entries \in Nat
      BY <2>2, <1>3, SlotNumbers, Times
    <3>2. (Pos[1] - Direct - Indirect - 1) * Entries \in Nat
      BY <3>1, SlotNumbers, Times
    <3>3. (Pos[1] - Direct - Indirect - 1) * Entries * Entries \in Nat
      BY <3>2, SlotNumbers, Times
    <3>4. v \in Nat
      BY <3>1, SlotNumbers, Times
    <3> DEFINE x == Indirect * Entries
    <3> DEFINE y == (Pos[1] - Direct - Indirect - 1) * Entries * Entries
    <3>5. x \in Nat /\ y \in Nat /\ w = Direct + x + y
      BY <3>1, <3>3
    <3> HIDE DEF x, y, w, v
    <3> QED BY <3>4, <3>5, SlotNumbers
  <2> HIDE DEF w, v
  <2>5. Offset = First(Pos)
    BY <2>1, <2>3, <2>4, <1>3
  <2> QED BY <2>5, <1>2
<1>7. Depth \in 0 .. 2
  BY <1>3, Where
<1> QED BY <1>4, <1>5, <1>6, <1>7

LEMMA Moves ==
  ASSUME Typed, OnPath
  PROVE  /\ at' = Advance(at) =>
              /\ at' \in Seq(Nat) /\ Len(at') = Len(at) /\ Depth' = Depth
              /\ \A i \in 1 .. Len(at) : at'[i] = IF i = Len(at) THEN at[i] + 1 ELSE at[i]
              /\ Pos' = Forth(Pos)
         /\ at' = Append(at, 1) /\ Depth # 2 =>
              /\ at' \in Seq(Nat) /\ Len(at') = Len(at) + 1 /\ Depth' = Depth + 1
              /\ \A i \in 1 .. Len(at) : at'[i] = at[i]
              /\ at'[Len(at) + 1] = 1
              /\ Pos' = Down(Pos)
         /\ at' = Advance(Pop(at)) /\ Depth # 0 =>
              /\ at' \in Seq(Nat) /\ Len(at') = Len(at) - 1 /\ Depth' = Depth - 1
              /\ \A i \in 1 .. Len(at) - 1 :
                   at'[i] = IF i = Len(at) - 1 THEN at[i] + 1 ELSE at[i]
              /\ Pos' = Out(Pos)
<1>1. /\ at \in Seq(Nat) /\ Len(at) \in 1 .. 3 /\ Len(at) = Depth + 1 /\ Depth \in 0 .. 2
  BY Where DEF Typed
<1>2. ASSUME at' = Advance(at)
      PROVE  /\ at' \in Seq(Nat) /\ Len(at') = Len(at) /\ Depth' = Depth
             /\ \A i \in 1 .. Len(at) : at'[i] = IF i = Len(at) THEN at[i] + 1 ELSE at[i]
             /\ Pos' = Forth(Pos)
  <2>1. /\ at' \in Seq(Nat) /\ Len(at') = Len(at)
        /\ \A i \in 1 .. Len(at) : at'[i] = IF i = Len(at) THEN at[i] + 1 ELSE at[i]
    BY <1>1, <1>2, Paths
  <2>2. Depth' = Depth
    BY <2>1 DEF Depth
  <2>3. Pos' = Forth(Pos)
    <3>1. Pos' = <<at'[1], IF Len(at) >= 2 THEN at'[2] ELSE 0, IF Len(at) = 3 THEN at'[3] ELSE 0>>
      BY <2>1 DEF Pos
    <3>2. CASE Len(at) = 1
      BY <3>1, <3>2, <2>1, <1>1, Where DEF Forth
    <3>3. CASE Len(at) = 2
      BY <3>1, <3>3, <2>1, <1>1, Where DEF Forth
    <3>4. CASE Len(at) = 3
      BY <3>1, <3>4, <2>1, <1>1, Where DEF Forth
    <3> QED BY <3>2, <3>3, <3>4, <1>1
  <2> QED BY <2>1, <2>2, <2>3
<1>3. ASSUME at' = Append(at, 1), Depth # 2
      PROVE  /\ at' \in Seq(Nat) /\ Len(at') = Len(at) + 1 /\ Depth' = Depth + 1
             /\ \A i \in 1 .. Len(at) : at'[i] = at[i]
             /\ at'[Len(at) + 1] = 1
             /\ Pos' = Down(Pos)
  <2>1. /\ at' \in Seq(Nat) /\ Len(at') = Len(at) + 1
        /\ \A i \in 1 .. Len(at) : at'[i] = at[i]
        /\ at'[Len(at) + 1] = 1
    BY <1>1, <1>3, Paths
  <2>2. Depth' = Depth + 1
    BY <2>1, <1>1 DEF Depth
  <2>3. Pos' = Down(Pos)
    <3>1. Pos' = <<at'[1], IF Len(at) + 1 >= 2 THEN at'[2] ELSE 0,
                   IF Len(at) + 1 = 3 THEN at'[3] ELSE 0>>
      BY <2>1 DEF Pos
    <3>2. CASE Len(at) = 1
      BY <3>1, <3>2, <2>1, <1>1, Where DEF Down
    <3>3. CASE Len(at) = 2
      BY <3>1, <3>3, <2>1, <1>1, Where DEF Down
    <3> QED BY <3>2, <3>3, <1>1, <1>3
  <2> QED BY <2>1, <2>2, <2>3
<1>4. ASSUME at' = Advance(Pop(at)), Depth # 0
      PROVE  /\ at' \in Seq(Nat) /\ Len(at') = Len(at) - 1 /\ Depth' = Depth - 1
             /\ \A i \in 1 .. Len(at) - 1 :
                  at'[i] = IF i = Len(at) - 1 THEN at[i] + 1 ELSE at[i]
             /\ Pos' = Out(Pos)
  <2>1. /\ Pop(at) \in Seq(Nat) /\ Len(Pop(at)) = Len(at) - 1
        /\ \A i \in 1 .. Len(at) - 1 : Pop(at)[i] = at[i]
    BY <1>1, Popped
  <2>2. /\ at' \in Seq(Nat) /\ Len(at') = Len(at) - 1
        /\ \A i \in 1 .. Len(at) - 1 :
             at'[i] = IF i = Len(at) - 1 THEN at[i] + 1 ELSE at[i]
    <3>1. Len(Pop(at)) \in 1 .. 3
      BY <2>1, <1>1, <1>4
    <3> DEFINE s == Pop(at)
    <3>2. s \in Seq(Nat) /\ Len(s) \in 1 .. 3 /\ at' = Advance(s)
      BY <3>1, <2>1, <1>4
    <3>3. /\ Len(s) = Len(at) - 1 /\ \A i \in 1 .. Len(s) : s[i] = at[i]
      BY <2>1
    <3> HIDE DEF s
    <3>4. /\ at' \in Seq(Nat) /\ Len(at') = Len(s)
          /\ \A i \in 1 .. Len(s) : at'[i] = IF i = Len(s) THEN s[i] + 1 ELSE s[i]
      BY <3>2, Paths
    <3> QED BY <3>3, <3>4
  <2>3. Depth' = Depth - 1
    BY <2>2, <1>1 DEF Depth
  <2>4. Pos' = Out(Pos)
    <3>1. Pos' = <<at'[1], IF Len(at) - 1 >= 2 THEN at'[2] ELSE 0,
                   IF Len(at) - 1 = 3 THEN at'[3] ELSE 0>>
      BY <2>2 DEF Pos
    <3>2. CASE Len(at) = 2
      BY <3>1, <3>2, <2>2, <1>1, Where DEF Out
    <3>3. CASE Len(at) = 3
      BY <3>1, <3>3, <2>2, <1>1, Where DEF Out
    <3> QED BY <3>2, <3>3, <1>1, <1>4
  <2> QED BY <2>2, <2>3, <2>4
<1> QED BY <1>2, <1>3, <1>4

LEMMA Started ==
  ASSUME at' = << 1 >>
  PROVE  /\ at' \in Seq(Nat) /\ Len(at') = 1 /\ at'[1] = 1 /\ Depth' = 0
         /\ Pos' = <<1, 0, 0>> /\ First(Pos') = 0
<1>1. at' \in Seq(Nat) /\ Len(at') = 1 /\ at'[1] = 1
  OBVIOUS
<1>2. Depth' = 0 /\ Pos' = <<1, 0, 0>>
  BY <1>1 DEF Depth, Pos
<1>3. First(<<1, 0, 0>>) = 0
  <2>1. CASE Direct >= 1
    BY <2>1, SlotNumbers DEF First
  <2>2. CASE Direct = 0 /\ Indirect >= 1
    BY <2>2, SlotNumbers DEF First, Before
  <2>3. CASE Direct = 0 /\ Indirect = 0
    BY <2>3, SlotNumbers DEF First, Before
  <2> QED BY <2>1, <2>2, <2>3, SlotNumbers
<1> QED BY <1>1, <1>2, <1>3

LEMMA Words ==
  ASSUME Typed, OnPath, ~Idle, ~LoopDone
  PROVE  /\ OldBlock \in Block \cup {Unknown} /\ Named(OldBlock) \subseteq Block
         /\ \A b \in Block : /\ AddrWith(b) \in [Files -> [1 .. Slots -> Block]]
                             /\ TabsWith(b) \in Seq(Table) /\ Len(TabsWith(b)) = Depth
<1>1. /\ Depth \in 0 .. 2 /\ Pos[1] = at[1] /\ op.file \in Files
      /\ Depth = 0 => Here \in 1 .. Slots
      /\ Depth # 0 => Here \in 1 .. Entries
      /\ addr \in [Files -> [1 .. Slots -> Block]] /\ tabs \in Seq(Table) /\ Len(tabs) = Depth
  <2>1. /\ Pos[1] \in Nat /\ Pos[2] \in Nat /\ Pos[3] \in Nat /\ Pos[1] >= 1
    BY Where, Numbers
  <2>2. ~(Here > IF Depth = 0 THEN Slots ELSE Entries)
    BY DEF LoopDone
  <2>3. /\ Depth \in 0 .. 2 /\ Pos[1] = at[1] /\ Here \in Nat /\ Here >= 1
    BY <2>1, Where, SlotNumbers
  <2>4. /\ Depth = 0 => Here \in 1 .. Slots
        /\ Depth # 0 => Here \in 1 .. Entries
    BY <2>2, <2>3, SlotNumbers
  <2>5. /\ op.file \in Files
        /\ addr \in [Files -> [1 .. Slots -> Block]] /\ tabs \in Seq(Table) /\ Len(tabs) = Depth
    BY DEF Typed
  <2> QED BY <2>3, <2>4, <2>5
<1>2. OldBlock \in Block \cup {Unknown}
  <2>1. CASE Depth = 0
    BY <2>1, <1>1 DEF OldBlock
  <2>2. CASE Depth # 0
    <3>1. tabs[Depth] \in Table
      BY <2>2, <1>1
    <3> QED BY <3>1, <2>2, <1>1 DEF OldBlock, Table
  <2> QED BY <2>1, <2>2
<1>3. Named(OldBlock) \subseteq Block
  BY <1>2 DEF Named
<1>4. ASSUME NEW b \in Block
      PROVE  /\ AddrWith(b) \in [Files -> [1 .. Slots -> Block]]
             /\ TabsWith(b) \in Seq(Table) /\ Len(TabsWith(b)) = Depth
  <2>1. AddrWith(b) \in [Files -> [1 .. Slots -> Block]]
    <3>1. Depth = 0 => [addr[op.file] EXCEPT ![Here] = b] \in [1 .. Slots -> Block]
      BY <1>1
    <3>2. Depth = 0 => AddrWith(b) = [addr EXCEPT ![op.file] = [addr[op.file] EXCEPT ![Here] = b]]
      BY DEF AddrWith
    <3> QED BY <3>1, <3>2, <1>1 DEF AddrWith
  <2>2. TabsWith(b) \in Seq(Table) /\ Len(TabsWith(b)) = Depth
    <3>1. CASE Depth = 0
      BY <3>1, <1>1 DEF TabsWith
    <3>2. CASE Depth # 0
      <4>1. tabs[Depth] \in Table
        BY <3>2, <1>1
      <4>2. [tabs[Depth] EXCEPT ![Here] = b] \in Table
        BY <4>1, <3>2, <1>1 DEF Table
      <4>3. TabsWith(b) = [tabs EXCEPT ![Depth] = [tabs[Depth] EXCEPT ![Here] = b]]
        BY <3>2 DEF TabsWith
      <4> HIDE DEF Table
      <4> QED BY <4>2, <4>3, <3>2, <1>1
    <3> QED BY <3>1, <3>2
  <2> QED BY <2>1, <2>2
<1> QED BY <1>2, <1>3, <1>4

LEMMA VisitShape ==
  ASSUME Shape, VisitData
  PROVE  Shape'
<1>0. /\ Typed /\ OnPath /\ Progress /\ Wants
      /\ ~Idle /\ ~LoopDone /\ AtData
      /\ left' = left - 1 /\ at' = Advance(at) /\ UNCHANGED <<size, damaged, op, blks>>
  BY DEF Shape, VisitData
<1>1. /\ Pos \in Cell /\ IsData(Pos) /\ left \in Nat /\ left >= 1
      /\ Total \in 0 .. MaxSize /\ First(Pos) \in Nat /\ First(Pos) = Total - left
      /\ Here \in Nat /\ Here >= 1 /\ Here <= IF Depth = 0 THEN Slots ELSE Entries
  BY <1>0, InLoop
<1>2. Offset \in 0 .. MaxSize - 1
  BY <1>0, Offsets
<1>3. /\ Depth \in 0 .. 2 /\ Len(at) = Depth + 1 /\ Here = at[Len(at)]
      /\ at' \in Seq(Nat) /\ Len(at') = Len(at) /\ Depth' = Depth
      /\ \A i \in 1 .. Len(at) : at'[i] = IF i = Len(at) THEN at[i] + 1 ELSE at[i]
      /\ Pos' = Forth(Pos)
  BY <1>0, Where, Moves DEF Here
<1>4. Typed'
  <2>1. /\ Named(OldBlock) \subseteq Block
        /\ \A b \in Block : /\ AddrWith(b) \in [Files -> [1 .. Slots -> Block]]
                            /\ TabsWith(b) \in Seq(Table) /\ Len(TabsWith(b)) = Depth
    BY <1>0, Words
  <2>2. /\ size' \in [Files -> 0 .. MaxSize] /\ damaged' \in [Files -> BOOLEAN]
        /\ op' \in [kind : {"idle", "remove", "rewrite", "write", "read"},
                    file : Files, want : 0 .. MaxSize]
        /\ blks' \in Seq(Block) /\ Len(blks') = Depth'
        /\ at' \in Seq(Nat) /\ Len(at') \in 1 .. 3
    BY <1>0, <1>3 DEF Typed
  <2>3. left' \in 0 .. MaxSize
    <3>1. left \in 0 .. MaxSize
      BY <1>0 DEF Typed
    <3> QED BY <3>1, <1>0, <1>1, SlotNumbers
  <2>4. /\ NoData \in Datum /\ <<op.file, Offset>> \in Datum /\ Blank \in Table
    <3>1. op.file \in Files
      BY <1>0 DEF Typed
    <3> QED BY <3>1, <1>2 DEF Datum, Blank, Table
  <2>5. /\ free' \subseteq Block /\ content' \in [Block -> [tab : Table, data : Datum]]
        /\ addr' \in [Files -> [1 .. Slots -> Block]]
        /\ tabs' \in Seq(Table) /\ Len(tabs') = Depth
        /\ buf' \in [0 .. MaxSize - 1 -> Datum]
    <3>0. /\ free \subseteq Block /\ content \in [Block -> [tab : Table, data : Datum]]
          /\ addr \in [Files -> [1 .. Slots -> Block]]
          /\ tabs \in Seq(Table) /\ Len(tabs) = Depth
          /\ buf \in [0 .. MaxSize - 1 -> Datum]
      BY <1>0 DEF Typed
    <3>1. ASSUME \E b \in Named(OldBlock) : buf' = [buf EXCEPT ![Offset] = content[b].data],
                 UNCHANGED <<free, content, addr, tabs>>
          PROVE  <2>5!:
      <4>1. PICK b \in Block : buf' = [buf EXCEPT ![Offset] = content[b].data]
        BY <2>1, <3>1
      <4>2. content[b].data \in Datum
        BY <3>0
      <4> QED BY <4>1, <4>2, <3>0, <3>1
    <3>2. ASSUME NEW b \in Named(OldBlock), Release(b), UNCHANGED <<addr, tabs, buf>>
          PROVE  <2>5!:
      <4>1. b \in Block /\ Junk \in [tab : Table, data : Datum]
        BY <2>1, <2>4 DEF Junk
      <4>2. free' = free \cup {b} /\ content' = [content EXCEPT ![b] = Junk]
        BY <3>2 DEF Release
      <4> QED BY <4>1, <4>2, <3>0, <3>2
    <3>3. ASSUME NEW b \in Block, Allocate(b), addr' = AddrWith(b), tabs' = TabsWith(b),
                 content' = [content EXCEPT ![b] = DataBlock(<<op.file, Offset>>)],
                 UNCHANGED buf
          PROVE  <2>5!:
      <4>1. DataBlock(<<op.file, Offset>>) \in [tab : Table, data : Datum]
        BY <2>4 DEF DataBlock
      <4>2. free' \subseteq free
        BY <3>3 DEF Allocate
      <4> QED BY <4>1, <4>2, <2>1, <3>0, <3>3
    <3> QED BY <1>0, <3>1, <3>2, <3>3 DEF VisitData
  <2> QED BY <2>2, <2>3, <2>5, <1>3 DEF Typed
<1>5. OnPath'
  <2>1. ~Idle'
    BY <1>0 DEF Idle
  <2>2. /\ at[1] \in 1 .. Slots + 1
        /\ Len(at) >= 2 => at[1] \in Direct + 1 .. Slots
        /\ Len(at) = 3 => at[1] > Direct + Indirect /\ at[2] \in 1 .. Entries + 1 /\ at[2] <= Entries
    BY <1>0 DEF OnPath
  <2>3. /\ at'[1] = IF Len(at) = 1 THEN Here + 1 ELSE at[1]
        /\ Len(at) = 2 => at'[2] = Here + 1
        /\ Len(at) = 3 => at'[2] = at[2] /\ at'[3] = Here + 1
    BY <1>3
  <2> QED BY <2>1, <2>2, <2>3, <1>1, <1>3, SlotNumbers DEF OnPath
<1>6. Progress'
  <2>1. Total' = Total
    BY <1>0 DEF Total, Freeing
  <2>2. First(Pos') = First(Pos) + 1
    BY <1>1, <1>3, ForthFirst
  <2>3. \A p \in Cell : Above(p, Pos') => First(p) < Total'
    <3>1. \A p \in Cell : Above(p, Pos) => First(p) < Total
      BY <1>0 DEF Progress
    <3> QED BY <3>1, <2>1, <1>1, <1>3, ForthPassed
  <2>4. left <= Total
    BY <1>0 DEF Progress
  <2>5. left' <= Total' /\ IF left' = 0 THEN First(Pos') >= Total' ELSE First(Pos') = Total' - left'
    BY <2>1, <2>2, <2>4, <1>0, <1>1
  <2> QED BY <2>3, <2>5 DEF Progress
<1>7. Wants'
  BY <1>0 DEF Wants
<1> QED BY <1>4, <1>5, <1>6, <1>7 DEF Shape

LEMMA OpenShape ==
  ASSUME Shape, OpenIndex
  PROVE  Shape'
<1>0. /\ Typed /\ OnPath /\ Progress /\ Wants
      /\ ~Idle /\ ~LoopDone /\ ~AtData
      /\ at' = Append(at, 1) /\ UNCHANGED <<content, size, damaged, op, left, buf>>
  BY DEF Shape, OpenIndex
<1>1. /\ Pos \in Cell /\ ~IsData(Pos) /\ left \in Nat /\ left >= 1
      /\ Total \in 0 .. MaxSize /\ First(Pos) \in Nat
      /\ First(Pos) = Total - left /\ First(Pos) < Total
      /\ Here \in Nat /\ Here >= 1 /\ Here <= IF Depth = 0 THEN Slots ELSE Entries
  BY <1>0, InLoop
<1>2. Depth \in 0 .. 1 /\ at[1] > Direct /\ at[1] <= Slots /\ (Depth = 1 => at[1] > Direct + Indirect)
  <2>1. /\ Pos[1] \in Nat /\ Pos[2] \in Nat /\ Pos[3] \in Nat /\ Pos[1] >= 1 /\ Pos[1] <= Slots
        /\ Pos[2] # 0 => Pos[1] > Direct
        /\ Pos[3] # 0 => Pos[1] > Direct + Indirect
    BY <1>1, CellNumbers
  <2>2. Depth \in 0 .. 2 /\ Pos[1] = at[1] /\ (Pos[2] = 0 <=> Depth = 0) /\ (Pos[3] = 0 <=> Depth # 2)
    BY <1>0, Where
  <2> QED BY <2>1, <2>2, <1>1, SlotNumbers DEF IsData
<1>3. /\ Len(at) = Depth + 1 /\ Here = at[Len(at)]
      /\ at' \in Seq(Nat) /\ Len(at') = Len(at) + 1 /\ Depth' = Depth + 1
      /\ \A i \in 1 .. Len(at) : at'[i] = at[i]
      /\ at'[Len(at) + 1] = 1
      /\ Pos' = Down(Pos)
  BY <1>0, <1>2, Where, Moves DEF Here
<1>4. Typed'
  <2>1. /\ Named(OldBlock) \subseteq Block
        /\ \A b \in Block : /\ AddrWith(b) \in [Files -> [1 .. Slots -> Block]]
                            /\ TabsWith(b) \in Seq(Table) /\ Len(TabsWith(b)) = Depth
    BY <1>0, Words
  <2>2. /\ content' \in [Block -> [tab : Table, data : Datum]]
        /\ size' \in [Files -> 0 .. MaxSize] /\ damaged' \in [Files -> BOOLEAN]
        /\ op' \in [kind : {"idle", "remove", "rewrite", "write", "read"},
                    file : Files, want : 0 .. MaxSize]
        /\ left' \in 0 .. MaxSize /\ buf' \in [0 .. MaxSize - 1 -> Datum]
    BY <1>0 DEF Typed
  <2>3. PICK b \in Block :
          /\ \/ op.kind = "write" /\ Allocate(b)
             \/ op.kind # "write" /\ b \in Named(OldBlock) /\ UNCHANGED free
          /\ addr' = AddrWith(b)
          /\ tabs' = Append(TabsWith(b), content[b].tab)
          /\ blks' = Append(blks, b)
    BY DEF OpenIndex
  <2>4. content[b].tab \in Table /\ blks \in Seq(Block) /\ Len(blks) = Depth /\ free \subseteq Block
    BY <1>0 DEF Typed
  <2>5. free' \subseteq Block
    BY <2>3, <2>4 DEF Allocate
  <2>6. tabs' \in Seq(Table) /\ Len(tabs') = Depth + 1
    BY <2>1, <2>3, <2>4, AppendProperties
  <2>7. blks' \in Seq(Block) /\ Len(blks') = Depth + 1
    BY <2>3, <2>4, AppendProperties
  <2>8. addr' \in [Files -> [1 .. Slots -> Block]]
    BY <2>1, <2>3
  <2>9. Len(at') \in 1 .. 3
    BY <1>2, <1>3
  <2> QED BY <2>2, <2>5, <2>6, <2>7, <2>8, <2>9, <1>3 DEF Typed
<1>5. OnPath'
  <2>1. ~Idle'
    BY <1>0 DEF Idle
  <2>2. /\ at[1] \in 1 .. Slots + 1
        /\ at'[1] = at[1]
        /\ Len(at') = 2 => at'[2] = 1
        /\ Len(at') = 3 => at'[2] = Here /\ at'[3] = 1 /\ Depth = 1
        /\ Len(at') >= 2 /\ Len(at') = Depth + 2
    BY <1>0, <1>2, <1>3 DEF OnPath
  <2> QED BY <2>1, <2>2, <1>1, <1>2, SlotNumbers DEF OnPath
<1>6. Progress'
  <2>1. Total' = Total
    BY <1>0 DEF Total, Freeing
  <2>2. First(Pos') = First(Pos)
    BY <1>1, <1>3, DownFirst
  <2>3. \A p \in Cell : Above(p, Pos') => First(p) < Total'
    <3>1. \A p \in Cell : Above(p, Pos) => First(p) < Total
      BY <1>0 DEF Progress
    <3> QED BY <3>1, <2>1, <1>1, <1>3, DownPassed
  <2>4. left <= Total
    BY <1>0 DEF Progress
  <2> QED BY <2>1, <2>2, <2>3, <2>4, <1>0, <1>1 DEF Progress
<1>7. Wants'
  BY <1>0 DEF Wants
<1> QED BY <1>4, <1>5, <1>6, <1>7 DEF Shape

(* A loop that is left has no data blocks to come.                         *)
LEMMA LoopLeft ==
  ASSUME Shape, ~Idle, LoopDone
  PROVE  /\ left = 0 \/ (Depth = 0 /\ Pos[1] = Slots + 1) \/ (Depth # 0 /\ Spent(Pos))
         /\ left = 0 => First(Pos) >= Total
         /\ left # 0 => First(Pos) = Total - left /\ left >= 1
         /\ First(Pos) \in Nat /\ left \in Nat /\ Total \in 0 .. MaxSize /\ left <= Total
<1>0. Typed /\ OnPath /\ Progress
  BY DEF Shape
<1>1. left \in Nat /\ Total \in 0 .. MaxSize /\ First(Pos) \in Nat
  <2>1. left \in 0 .. MaxSize /\ size[op.file] \in 0 .. MaxSize /\ op.want \in 0 .. MaxSize
    BY <1>0 DEF Typed
  <2> QED BY <2>1, <1>0, Where, FirstSplit, SlotNumbers DEF Total
<1>2. left = 0 \/ (Depth = 0 /\ Pos[1] = Slots + 1) \/ (Depth # 0 /\ Spent(Pos))
  <2>1. /\ Pos[1] \in Nat /\ Pos[2] \in Nat /\ Pos[3] \in Nat
        /\ Pos[1] <= Slots + 1 /\ Pos[2] <= Entries + 1 /\ Pos[3] <= Entries + 1
    BY <1>0, Where, Numbers
  <2>2. left = 0 \/ Here > IF Depth = 0 THEN Slots ELSE Entries
    BY DEF LoopDone
  <2> QED BY <2>1, <2>2, <1>0, Where, SlotNumbers DEF Spent
<1> QED BY <1>0, <1>1, <1>2 DEF Progress

LEMMA CloseShape ==
  ASSUME Shape, CloseIndex
  PROVE  Shape'
<1>0. /\ Typed /\ OnPath /\ Progress /\ Wants
      /\ ~Idle /\ LoopDone /\ Depth > 0
      /\ at' = Advance(Pop(at)) /\ tabs' = Pop(tabs) /\ blks' = Pop(blks)
      /\ UNCHANGED <<size, addr, damaged, op, left, buf>>
  BY DEF Shape, CloseIndex
<1>1. /\ left = 0 \/ Spent(Pos)
      /\ left = 0 => First(Pos) >= Total
      /\ left # 0 => First(Pos) = Total - left /\ left >= 1
      /\ First(Pos) \in Nat /\ left \in Nat /\ Total \in 0 .. MaxSize /\ left <= Total
  BY <1>0, LoopLeft
<1>2. /\ Depth \in 1 .. 2 /\ Len(at) = Depth + 1
      /\ IsPos(Pos) /\ Pos[2] # 0 /\ Pos[1] <= Slots
      /\ at' \in Seq(Nat) /\ Len(at') = Len(at) - 1 /\ Depth' = Depth - 1
      /\ \A i \in 1 .. Len(at) - 1 : at'[i] = IF i = Len(at) - 1 THEN at[i] + 1 ELSE at[i]
      /\ Pos' = Out(Pos)
  BY <1>0, Where, Moves
<1>3. blks[Depth] \in Block /\ tabs[Depth] \in Table
  BY <1>0, <1>2 DEF Typed
<1>4. Typed'
  <2>1. /\ size' \in [Files -> 0 .. MaxSize] /\ damaged' \in [Files -> BOOLEAN]
        /\ addr' \in [Files -> [1 .. Slots -> Block]]
        /\ op' \in [kind : {"idle", "remove", "rewrite", "write", "read"},
                    file : Files, want : 0 .. MaxSize]
        /\ left' \in 0 .. MaxSize /\ buf' \in [0 .. MaxSize - 1 -> Datum]
    BY <1>0 DEF Typed
  <2>2. tabs' \in Seq(Table) /\ Len(tabs') = Depth - 1
    <3>1. tabs \in Seq(Table) /\ Len(tabs) \in 1 .. 3 /\ Len(tabs) = Depth
      BY <1>0, <1>2 DEF Typed
    <3> QED BY <3>1, <1>0, Popped
  <2>3. blks' \in Seq(Block) /\ Len(blks') = Depth - 1
    <3>1. blks \in Seq(Block) /\ Len(blks) \in 1 .. 3 /\ Len(blks) = Depth
      BY <1>0, <1>2 DEF Typed
    <3> QED BY <3>1, <1>0, Popped
  <2>4. free' \subseteq Block /\ content' \in [Block -> [tab : Table, data : Datum]]
    <3>1. free \subseteq Block /\ content \in [Block -> [tab : Table, data : Datum]]
      BY <1>0 DEF Typed
    <3>2. NoData \in Datum /\ Blank \in Table
      BY DEF Datum, Blank, Table
    <3>3. Junk \in [tab : Table, data : Datum] /\ IndexBlock(tabs[Depth]) \in [tab : Table, data : Datum]
      BY <3>2, <1>3 DEF Junk, IndexBlock
    <3>4. \/ content' = [content EXCEPT ![blks[Depth]] = IndexBlock(tabs[Depth])] /\ free' = free
          \/ Release(blks[Depth])
          \/ UNCHANGED <<free, content>>
      BY DEF CloseIndex
    <3> QED BY <3>1, <3>3, <3>4, <1>3 DEF Release
  <2>5. Len(at') \in 1 .. 3
    BY <1>2
  <2> QED BY <2>1, <2>2, <2>3, <2>4, <2>5, <1>2 DEF Typed
<1>5. OnPath'
  <2>1. ~Idle'
    BY <1>0 DEF Idle
  <2>2. /\ at[1] \in Direct + 1 .. Slots
        /\ Depth = 2 => at[1] > Direct + Indirect /\ at[2] \in 1 .. Entries + 1 /\ at[2] <= Entries
    BY <1>0, <1>2 DEF OnPath
  <2>3. /\ Depth = 1 => at'[1] = at[1] + 1 /\ Len(at') = 1
        /\ Depth = 2 => at'[1] = at[1] /\ at'[2] = at[2] + 1 /\ Len(at') = 2
    BY <1>2
  <2> QED BY <2>1, <2>2, <2>3, <1>2, SlotNumbers DEF OnPath
<1>6. Progress'
  <2>1. Total' = Total
    BY <1>0 DEF Total, Freeing
  <2>2. /\ First(Pos') >= First(Pos) /\ First(Pos') \in Nat
        /\ Spent(Pos) => First(Pos') = First(Pos)
    BY <1>2, OutFirst, FirstSplit
  <2>3. \A p \in Cell : Above(p, Pos') => First(p) < Total'
    <3>1. \A p \in Cell : Above(p, Pos) => First(p) < Total
      BY <1>0 DEF Progress
    <3> QED BY <3>1, <2>1, <1>2, OutAbove
  <2>4. left' <= Total' /\ IF left' = 0 THEN First(Pos') >= Total' ELSE First(Pos') = Total' - left'
    <3>1. CASE left = 0
      <4>1. First(Pos) >= Total
        BY <3>1, <1>1
      <4>2. First(Pos') >= Total
        BY <4>1, <2>2, <1>1, SlotNumbers
      <4> QED BY <4>2, <3>1, <2>1, <1>0, <1>1
    <3>2. CASE left # 0
      BY <3>2, <2>1, <2>2, <1>0, <1>1
    <3> QED BY <3>1, <3>2
  <2> QED BY <2>3, <2>4 DEF Progress
<1>7. Wants'
  BY <1>0 DEF Wants
<1> QED BY <1>4, <1>5, <1>6, <1>7 DEF Shape

(* The steps that put a traversal to its beginning.                        *)
LEMMA BeginShape ==
  ASSUME Shape, NEW n \in 0 .. MaxSize, Begin(n),
         free' \subseteq Block, content' = content,
         size' \in [Files -> 0 .. MaxSize], addr' \in [Files -> [1 .. Slots -> Block]],
         damaged' \in [Files -> BOOLEAN],
         op' \in [kind : {"idle", "remove", "rewrite", "write", "read"},
                  file : Files, want : 0 .. MaxSize],
         buf' \in [0 .. MaxSize - 1 -> Datum],
         Idle' => n = 0, ~Idle' => n = Total', Wants'
  PROVE  Shape'
<1>1. /\ left' = n /\ at' = <<1>> /\ tabs' = <<>> /\ blks' = <<>>
  BY DEF Begin
<1>2. /\ at' \in Seq(Nat) /\ Len(at') = 1 /\ at'[1] = 1 /\ Depth' = 0
      /\ Pos' = <<1, 0, 0>> /\ First(Pos') = 0
  BY <1>1, Started
<1>3. Typed'
  BY <1>1, <1>2 DEF Typed, Shape
<1>4. OnPath'
  BY <1>1, <1>2, SlotNumbers DEF OnPath
<1>5. Progress'
  <2>1. \A p \in Cell : ~Above(p, Pos')
    BY <1>2 DEF Above
  <2> QED BY <2>1, <1>1, <1>2, SlotNumbers DEF Progress
<1> QED BY <1>3, <1>4, <1>5 DEF Shape

LEMMA Boxes ==
  /\ NoBuffer \in [0 .. MaxSize - 1 -> Datum]
  /\ NoOp \in [kind : {"idle", "remove", "rewrite", "write", "read"},
               file : Files, want : 0 .. MaxSize]
  /\ NoOp.kind = "idle" /\ [i \in 1 .. Slots |-> Boot] \in [1 .. Slots -> Block]
<1>1. NoBuffer \in [0 .. MaxSize - 1 -> Datum]
  BY DEF NoBuffer, Datum
<1>2. (CHOOSE f \in Files : TRUE) \in Files
  BY FilesAssumption
<1>3. 0 \in 0 .. MaxSize /\ Boot \in Block
  BY SlotNumbers DEF Block
<1> QED BY <1>1, <1>2, <1>3 DEF NoOp

LEMMA InitShape ==
  ASSUME Init
  PROVE  Shape
<1>1. /\ free = Zone /\ content = [b \in Block |-> Junk] /\ size = [f \in Files |-> 0]
      /\ addr = [f \in Files |-> [i \in 1 .. Slots |-> Boot]]
      /\ damaged = [f \in Files |-> FALSE] /\ op = NoOp
      /\ left = 0 /\ at = <<1>> /\ tabs = <<>> /\ blks = <<>> /\ buf = NoBuffer
  BY DEF Init
<1>2. Idle /\ op.kind = "idle"
  BY <1>1, Boxes DEF Idle
<1>3. at \in Seq(Nat) /\ Len(at) = 1 /\ at[1] = 1 /\ Depth = 0
  BY <1>1 DEF Depth
<1>4. Typed
  <2>1. Junk \in [tab : Table, data : Datum]
    BY DEF Junk, Blank, NoData, Table, Datum
  <2>2. content \in [Block -> [tab : Table, data : Datum]] /\ free \subseteq Block
    BY <2>1, <1>1 DEF Block
  <2>3. size \in [Files -> 0 .. MaxSize] /\ left \in 0 .. MaxSize
    BY <1>1, SlotNumbers
  <2> QED BY <2>2, <2>3, <1>1, <1>3, Boxes DEF Typed
<1>5. OnPath
  BY <1>1, <1>3, SlotNumbers DEF OnPath
<1>6. Progress /\ Wants
  BY <1>2 DEF Progress, Wants
<1> QED BY <1>4, <1>5, <1>6 DEF Shape

LEMMA StepShape ==
  ASSUME Shape, [Next]_vars
  PROVE  Shape'
<1>0. Typed
  BY DEF Shape
<1>1. CASE VisitData
  BY <1>1, VisitShape
<1>2. CASE OpenIndex
  BY <1>2, OpenShape
<1>3. CASE CloseIndex
  BY <1>3, CloseShape
<1>4. CASE WriteFails
  <2>1. /\ op' = NoOp /\ Begin(0) /\ damaged' = [damaged EXCEPT ![op.file] = TRUE]
        /\ UNCHANGED <<free, content, size, addr, buf>>
    BY <1>4 DEF WriteFails
  <2>2. Idle' /\ Wants'
    BY <2>1, Boxes DEF Idle, Wants
  <2>3. /\ free' \subseteq Block /\ size' \in [Files -> 0 .. MaxSize]
        /\ addr' \in [Files -> [1 .. Slots -> Block]]
        /\ damaged' \in [Files -> BOOLEAN] /\ buf' \in [0 .. MaxSize - 1 -> Datum]
    BY <2>1, <1>0 DEF Typed
  <2>4. 0 \in 0 .. MaxSize
    BY SlotNumbers
  <2> QED BY <2>1, <2>2, <2>3, <2>4, Boxes, BeginShape
<1>5. CASE FreeingDone
  <2>1. /\ op' = IF op.kind = "rewrite" THEN [op EXCEPT !.kind = "write"] ELSE NoOp
        /\ Begin(op.want) /\ size' = [size EXCEPT ![op.file] = op.want]
        /\ damaged' = [damaged EXCEPT ![op.file] = FALSE]
        /\ addr' = [addr EXCEPT ![op.file] = [i \in 1 .. Slots |-> Boot]]
        /\ UNCHANGED <<free, content, buf>> /\ op.kind \in {"remove", "rewrite"}
    BY <1>5 DEF FreeingDone, Freeing
  <2>2. /\ op.want \in 0 .. MaxSize /\ op.file \in Files
        /\ op.kind = "remove" => op.want = 0
    BY <1>0 DEF Typed, Shape, Wants
  <2>3. /\ free' \subseteq Block /\ size' \in [Files -> 0 .. MaxSize]
        /\ addr' \in [Files -> [1 .. Slots -> Block]]
        /\ damaged' \in [Files -> BOOLEAN] /\ buf' \in [0 .. MaxSize - 1 -> Datum]
        /\ size'[op.file] = op.want
    BY <2>1, <2>2, <1>0, Boxes DEF Typed
  <2>4. CASE op.kind = "rewrite"
    <3>1. /\ op' \in [kind : {"idle", "remove", "rewrite", "write", "read"},
                      file : Files, want : 0 .. MaxSize]
          /\ op'.kind = "write" /\ op'.file = op.file /\ op'.want = op.want
      BY <2>1, <2>4, <1>0 DEF Typed
    <3>2. ~Idle' /\ Total' = op.want /\ Wants'
      BY <3>1, <2>3 DEF Idle, Total, Freeing, Wants
    <3> QED BY <3>1, <3>2, <2>1, <2>2, <2>3, BeginShape
  <2>5. CASE op.kind = "remove"
    <3>1. op' = NoOp /\ Idle' /\ Wants'
      BY <2>1, <2>5, Boxes DEF Idle, Wants
    <3> QED BY <3>1, <2>1, <2>2, <2>3, <2>5, Boxes, BeginShape
  <2> QED BY <2>1, <2>4, <2>5
<1>6. CASE Finish
  <2>1. /\ op' = NoOp /\ Begin(0) /\ buf' = NoBuffer
        /\ UNCHANGED <<free, content, size, addr, damaged>>
    BY <1>6 DEF Finish
  <2>2. Idle' /\ Wants'
    BY <2>1, Boxes DEF Idle, Wants
  <2>3. /\ free' \subseteq Block /\ size' \in [Files -> 0 .. MaxSize]
        /\ addr' \in [Files -> [1 .. Slots -> Block]] /\ damaged' \in [Files -> BOOLEAN]
    BY <2>1, <1>0 DEF Typed
  <2>4. 0 \in 0 .. MaxSize
    BY SlotNumbers
  <2> QED BY <2>1, <2>2, <2>3, <2>4, Boxes, BeginShape
<1>7. ASSUME NEW f \in Files, NEW n \in 0 .. MaxSize,
             \/ StartFreeing(f, "remove", 0) /\ n = 0
             \/ StartFreeing(f, "rewrite", n)
      PROVE  Shape'
  <2>1. PICK kind \in {"remove", "rewrite"} :
          /\ op' = [kind |-> kind, file |-> f, want |-> n] /\ (kind = "remove" => n = 0)
    BY <1>7 DEF StartFreeing
  <2>2. Begin(size[f]) /\ UNCHANGED <<free, content, size, addr, damaged, buf>>
    BY <1>7 DEF StartFreeing
  <2>3. /\ op' \in [kind : {"idle", "remove", "rewrite", "write", "read"},
                    file : Files, want : 0 .. MaxSize]
        /\ op'.kind \in {"remove", "rewrite"} /\ op'.file = f
        /\ op'.kind = "remove" => op'.want = 0
    BY <2>1
  <2>4. ~Idle' /\ Total' = size[f] /\ Wants'
    BY <2>2, <2>3 DEF Idle, Total, Freeing, Wants
  <2>5. /\ free' \subseteq Block /\ size' \in [Files -> 0 .. MaxSize]
        /\ addr' \in [Files -> [1 .. Slots -> Block]] /\ size[f] \in 0 .. MaxSize
        /\ damaged' \in [Files -> BOOLEAN] /\ buf' \in [0 .. MaxSize - 1 -> Datum]
    BY <2>2, <1>0 DEF Typed
  <2> QED BY <2>2, <2>3, <2>4, <2>5, BeginShape
<1>8. ASSUME NEW f \in Files, StartRead(f)
      PROVE  Shape'
  <2>1. /\ op' = [kind |-> "read", file |-> f, want |-> size[f]] /\ buf' = NoBuffer
        /\ Begin(size[f]) /\ UNCHANGED <<free, content, size, addr, damaged>>
    BY <1>8 DEF StartRead
  <2>2. /\ free' \subseteq Block /\ size' \in [Files -> 0 .. MaxSize]
        /\ addr' \in [Files -> [1 .. Slots -> Block]] /\ size[f] \in 0 .. MaxSize
        /\ damaged' \in [Files -> BOOLEAN]
    BY <2>1, <1>0 DEF Typed
  <2>3. /\ op' \in [kind : {"idle", "remove", "rewrite", "write", "read"},
                    file : Files, want : 0 .. MaxSize]
        /\ op'.kind = "read" /\ op'.file = f /\ op'.want = size[f]
    BY <2>1, <2>2
  <2>4. ~Idle' /\ Total' = size[f] /\ Wants'
    BY <2>1, <2>3 DEF Idle, Total, Freeing, Wants
  <2> QED BY <2>1, <2>2, <2>3, <2>4, Boxes, BeginShape
<1>9. CASE UNCHANGED vars
  BY <1>9 DEF vars, Shape, Typed, OnPath, Progress, Wants, Idle, Depth, Total, Freeing, Pos
<1>10. 0 \in 0 .. MaxSize
  BY SlotNumbers
<1> QED BY <1>1, <1>2, <1>3, <1>4, <1>5, <1>6, <1>7, <1>8, <1>9, <1>10 DEF Next, Step

(* Every variable keeps its type, whatever clients do after a failed write *)
(* and whatever order the list hands blocks out in: the loops stay within  *)
(* the tables and each copy has its block.                                 *)
THEOREM TypeCorrect == Spec => []TypeOK
<1>1. Init => Shape
  BY InitShape
<1>2. Shape /\ [Next]_vars => Shape'
  BY StepShape
<1>3. Shape => TypeOK
  <2> SUFFICES ASSUME Shape PROVE TypeOK
    OBVIOUS
  <2>1. /\ Typed /\ Depth \in 0 .. 2
    BY Where DEF Shape
  <2> QED BY <2>1 DEF Typed, TypeOK, Table, Datum
<1> QED BY <1>1, <1>2, <1>3, PTL DEF Spec

-----------------------------------------------------------------------------
(* What a step does to the ownership of blocks, in general.                *)

(* Nothing moves: files may only lose places together with their state.    *)
LEMMA Stay ==
  ASSUME Pool, free' = free,
         \A f \in Files : \A p \in Owned(f)' :
           /\ p \in Owned(f) /\ Word(f, p)' = Word(f, p)
           /\ IsData(p) => content'[Word(f, p)].data = content[Word(f, p)].data,
         (\A f \in Files : ~damaged'[f]) =>
           \A f \in Files : ~damaged[f] /\ Owned(f)' = Owned(f)
  PROVE  Pool'
<1>1. Kept'
  BY DEF Pool, Kept
<1>2. Apart'
  BY DEF Pool, Apart
<1>3. DataKept'
  BY DEF Pool, DataKept
<1>4. Covered'
  BY DEF Pool, Covered
<1> QED BY <1>1, <1>2, <1>3, <1>4 DEF Pool

(* One place gives its block up.                                           *)
LEMMA Give ==
  ASSUME Pool, NEW g \in Files, NEW c \in Owned(g),
         free' = free \cup {Word(g, c)}, damaged' = damaged,
         \A f \in Files : Owned(f)' = IF f = g THEN Owned(f) \ {c} ELSE Owned(f),
         \A f \in Files : \A p \in Owned(f)' : Word(f, p)' = Word(f, p),
         \A b \in Zone : b # Word(g, c) => content'[b].data = content[b].data
  PROVE  Pool'
<1>1. \A f \in Files : \A p \in Owned(f)' :
        p \in Owned(f) /\ Word(f, p) \in Zone \ free /\ Word(f, p) # Word(g, c)
  BY DEF Pool, Kept, Apart
<1>2. Word(g, c) \in Zone
  BY DEF Pool, Kept
<1>3. Kept'
  BY <1>1, <1>2 DEF Pool, Kept
<1>4. Apart'
  BY <1>1 DEF Pool, Apart
<1>5. DataKept'
  BY <1>1 DEF Pool, DataKept
<1>6. Covered'
  <2> SUFFICES ASSUME \A f \in Files : ~damaged[f], NEW b \in Zone \ free'
               PROVE  \E f \in Files : \E p \in Owned(f)' : Word(f, p)' = b
    BY DEF Covered
  <2>1. PICK f \in Files : \E p \in Owned(f) : Word(f, p) = b
    BY DEF Pool, Covered
  <2>2. PICK p \in Owned(f) : Word(f, p) = b
    BY <2>1
  <2>3. ~(f = g /\ p = c)
    BY <2>2
  <2>4. p \in Owned(f)'
    BY <2>3
  <2> QED BY <2>2, <2>4
<1> QED BY <1>3, <1>4, <1>5, <1>6 DEF Pool

(* One place gets a block that was free.                                   *)
LEMMA Take ==
  ASSUME Pool, NEW g \in Files, NEW c, c \notin Owned(g), NEW b \in free,
         free' = free \ {b}, damaged' = damaged,
         \A f \in Files : Owned(f)' = IF f = g THEN Owned(f) \cup {c} ELSE Owned(f),
         Word(g, c)' = b,
         \A f \in Files : \A p \in Owned(f) : Word(f, p)' = Word(f, p),
         \A x \in Zone : x # b => content'[x].data = content[x].data,
         IsData(c) => content'[b].data = <<g, First(c)>>
  PROVE  Pool'
<1>1. \A f \in Files : \A p \in Owned(f) :
        Word(f, p)' = Word(f, p) /\ Word(f, p) \in Zone \ free /\ Word(f, p) # b
  BY DEF Pool, Kept
<1>2. b \in Zone
  BY DEF Pool, Kept
<1>3. \A f \in Files : \A p \in Owned(f)' : p \in Owned(f) \/ (f = g /\ p = c)
  OBVIOUS
<1>4. Kept'
  BY <1>1, <1>2, <1>3 DEF Pool, Kept
<1>5. Apart'
  BY <1>1, <1>3 DEF Pool, Apart
<1>6. DataKept'
  BY <1>1, <1>3 DEF Pool, DataKept
<1>7. Covered'
  <2> SUFFICES ASSUME \A f \in Files : ~damaged[f], NEW x \in Zone \ free'
               PROVE  \E f \in Files : \E p \in Owned(f)' : Word(f, p)' = x
    BY DEF Covered
  <2>1. CASE x = b
    BY <2>1
  <2>2. CASE x # b
    <3>1. PICK f \in Files : \E p \in Owned(f) : Word(f, p) = x
      BY <2>2 DEF Pool, Covered
    <3>2. PICK p \in Owned(f) : Word(f, p) = x
      BY <3>1
    <3>3. p \in Owned(f)' /\ Word(f, p)' = x
      BY <3>2
    <3> QED BY <3>3
  <2> QED BY <2>1, <2>2
<1> QED BY <1>4, <1>5, <1>6, <1>7 DEF Pool

-----------------------------------------------------------------------------
(* The index blocks on the way to a place.                                 *)

Outer(p) == <<p[1], 0, 0>>
Middle(p) == <<p[1], p[2], 0>>

LEMMA AboveNotPassed ==
  ASSUME NEW p \in Cell, NEW P, IsPos(P), Above(p, P)
  PROVE  ~Passed(p, P)
<1>1. P[1] \in Nat /\ P[2] \in Nat /\ P[3] \in Nat
  BY Numbers
<1>2. p[1] \in Nat /\ p[2] \in Nat /\ p[3] \in Nat
  BY CellNumbers
<1> QED BY <1>1, <1>2 DEF Above, Passed

LEMMA OnTheWay ==
  ASSUME NEW p \in Cell, p[2] # 0,
         NEW r \in {Outer(p)} \cup (IF p[3] # 0 THEN {Middle(p)} ELSE {})
  PROVE  /\ r \in Cell /\ ~IsData(r) /\ First(r) <= First(p)
         /\ \A P : IsPos(P) => /\ Passed(r, P) => Passed(p, P)
                               /\ Passed(p, P) \/ Above(p, P) => Passed(r, P) \/ Above(r, P)
<1>1. /\ p[1] \in Nat /\ p[2] \in Nat /\ p[3] \in Nat /\ p = <<p[1], p[2], p[3]>>
      /\ p[1] >= 1 /\ p[1] <= Slots /\ p[2] <= Entries /\ p[3] <= Entries
      /\ p[1] > Direct /\ (p[3] # 0 => p[1] > Direct + Indirect)
  BY CellNumbers
<1>2. r[1] = p[1] /\ r[3] = 0 /\ (r[2] = 0 \/ (r[2] = p[2] /\ p[3] # 0)) /\ r = <<r[1], r[2], r[3]>>
  BY DEF Outer, Middle
<1>3. r \in Cell /\ ~IsData(r)
  BY <1>1, <1>2, SlotNumbers DEF Cell, IsData
<1>4. First(r) <= First(p)
  <2>1. ~Passed(p, r) /\ ~Above(p, r)
    BY <1>1, <1>2 DEF Passed, Above
  <2>2. First(p) >= First(r) /\ First(p) \in Nat /\ First(r) \in Nat
    BY <2>1, <1>3, AheadAfter, CellIsPos, FirstSplit
  <2> QED BY <2>2
<1>5. ASSUME NEW P, IsPos(P)
      PROVE  /\ Passed(r, P) => Passed(p, P)
             /\ Passed(p, P) \/ Above(p, P) => Passed(r, P) \/ Above(r, P)
  <2>1. P[1] \in Nat /\ P[2] \in Nat /\ P[3] \in Nat
    BY <1>5, Numbers
  <2>2. Passed(r, P) => Passed(p, P)
    BY <2>1, <1>1, <1>2 DEF Passed
  <2>3. Passed(p, P) \/ Above(p, P) => Passed(r, P) \/ Above(r, P)
    BY <2>1, <1>1, <1>2 DEF Passed, Above
  <2> QED BY <2>2, <2>3
<1> QED BY <1>3, <1>4, <1>5

WayFact ==
  Shape => \A f \in Files : \A p \in Owned(f) :
             /\ p[2] # 0 => Outer(p) \in Owned(f)
             /\ p[3] # 0 => Middle(p) \in Owned(f) /\ Outer(p) \in Owned(f)

LEMMA OwnedOnTheWay == WayFact
<1> SUFFICES ASSUME Shape, NEW f \in Files, NEW p \in Owned(f), p[2] # 0
             PROVE  /\ Outer(p) \in Owned(f)
                    /\ p[3] # 0 => Middle(p) \in Owned(f)
  <2>1. \A p \in Cell : p[3] # 0 => p[2] # 0
    BY DEF Cell
  <2>2. \A f \in Files : Owned(f) \subseteq Cell
    BY DEF Owned
  <2> QED BY <2>1, <2>2 DEF WayFact
<1>1. /\ p \in Cell /\ ~damaged[f] /\ First(p) < size[f] /\ IsPos(Pos) /\ size[f] \in Nat
  BY Where, SlotNumbers DEF Owned, Typed, Shape
<1>2. ASSUME NEW r \in {Outer(p)} \cup (IF p[3] # 0 THEN {Middle(p)} ELSE {})
      PROVE  r \in Owned(f)
  <2>1. /\ r \in Cell /\ First(r) <= First(p) /\ First(r) \in Nat /\ First(p) \in Nat
        /\ Passed(r, Pos) => Passed(p, Pos)
        /\ Passed(p, Pos) \/ Above(p, Pos) => Passed(r, Pos) \/ Above(r, Pos)
    BY <1>1, OnTheWay, CellIsPos, FirstSplit
  <2>2. First(r) < size[f]
    BY <2>1, <1>1
  <2> QED BY <2>1, <2>2, <1>1 DEF Owned
<1> QED BY <1>2

LEMMA OwnedOnTheWayNext == WayFact'
BY OwnedOnTheWay, PTL

-----------------------------------------------------------------------------
(* Where no copy matters, words are read from the blocks.                  *)

Plain(f, p) ==
  IF p[2] = 0 THEN addr[f][p[1]]
  ELSE IF p[3] = 0 THEN content[addr[f][p[1]]].tab[p[2]]
       ELSE content[content[addr[f][p[1]]].tab[p[2]]].tab[p[3]]

PlainFact ==
  Shape /\ Copies =>
    \A f \in Files : \A p \in Cell :
      ~damaged[f] /\ (op.kind # "write" \/ Depth = 0 \/ f # op.file)
        => Word(f, p) = Plain(f, p)

LEMMA PlainWords == PlainFact
<1> SUFFICES ASSUME Shape, Copies, NEW f \in Files, NEW p \in Cell, ~damaged[f],
                    op.kind # "write" \/ Depth = 0 \/ f # op.file
             PROVE  Word(f, p) = Plain(f, p)
  BY DEF PlainFact
<1>0. Typed /\ OnPath
  BY DEF Shape
<1>1. CASE InCopy(f) /\ Depth # 0
  <2>1. /\ Sound /\ f = op.file /\ Depth \in 1 .. 2 /\ op.kind # "write"
        /\ Pos[1] = at[1] /\ Pos[2] = at[2] /\ (Pos[3] # 0 => Depth = 2)
    BY <1>0, <1>1, Where DEF InCopy, Sound
  <2>2. tabs[1] = content[addr[f][at[1]]].tab
    BY <2>1 DEF Copies
  <2>3. Depth = 2 => tabs[2] = content[tabs[1][at[2]]].tab
    BY <2>1 DEF Copies
  <2>4. Tab1(f, p) = content[addr[f][p[1]]].tab
    BY <2>1, <2>2 DEF Tab1
  <2>5. Tab2(f, p) = content[content[addr[f][p[1]]].tab[p[2]]].tab
    <3>1. Word2(f, p) = content[addr[f][p[1]]].tab[p[2]]
      BY <2>4 DEF Word2
    <3>2. CASE InCopy(f) /\ Pos[3] # 0 /\ p[1] = Pos[1] /\ p[2] = Pos[2]
      BY <3>2, <2>1, <2>2, <2>3 DEF Tab2
    <3>3. CASE ~(InCopy(f) /\ Pos[3] # 0 /\ p[1] = Pos[1] /\ p[2] = Pos[2])
      BY <3>1, <3>3 DEF Tab2
    <3> QED BY <3>2, <3>3
  <2> QED BY <2>4, <2>5 DEF Word, Word2, Plain
<1>2. CASE ~InCopy(f)
  BY <1>2 DEF Word, Word2, Tab1, Tab2, Plain
<1>3. CASE Depth = 0
  <2>1. Pos[2] = 0 /\ Pos[3] = 0
    <3>1. /\ Pos[2] = 0 <=> Depth = 0
          /\ Pos[3] = 0 <=> Depth # 2
      BY <1>0, Where, Zenon
    <3> QED BY <3>1, <1>3
  <2> QED BY <2>1 DEF Word, Word2, Tab1, Tab2, Plain
<1> QED BY <1>1, <1>2, <1>3

LEMMA PlainWordsNext == PlainFact'
BY PlainWords, PTL

(* A block that changes leaves the words alone that are not in it.         *)
LEMMA PlainStays ==
  ASSUME content \in [Block -> [tab : Table, data : Datum]], NEW b, NEW x,
         content' = [content EXCEPT ![b] = x], NEW f \in Files, NEW p \in Cell,
         addr'[f][p[1]] = addr[f][p[1]],
         p[2] # 0 => Plain(f, Outer(p)) \in Block \ {b},
         p[3] # 0 => Plain(f, Middle(p)) \in Block \ {b}
  PROVE  Plain(f, p)' = Plain(f, p)
<1>1. \A y \in Block \ {b} : content'[y] = content[y]
  OBVIOUS
<1>2. Plain(f, Outer(p)) = addr[f][p[1]]
  <2>1. Outer(p)[1] = p[1] /\ Outer(p)[2] = 0
    BY DEF Outer
  <2> QED BY <2>1, Zenon DEF Plain
<1>3. p[2] # 0 => Plain(f, Middle(p)) = content[addr[f][p[1]]].tab[p[2]]
  <2>1. Middle(p)[1] = p[1] /\ Middle(p)[2] = p[2] /\ Middle(p)[3] = 0
    BY DEF Middle
  <2> QED BY <2>1, Zenon DEF Plain
<1>4. p[3] # 0 => p[2] # 0
  BY CellNumbers
<1>5. p[2] # 0 => content'[addr[f][p[1]]].tab = content[addr[f][p[1]]].tab
  BY <1>1, <1>2
<1>6. p[3] # 0 => /\ content[addr[f][p[1]]].tab[p[2]] \in Block \ {b}
                  /\ p[2] # 0
  BY <1>3, <1>4
<1>7. p[3] # 0 => content'[content[addr[f][p[1]]].tab[p[2]]].tab
                    = content[content[addr[f][p[1]]].tab[p[2]]].tab
  BY <1>1, <1>6
<1>8. CASE p[2] = 0
  BY <1>8, Zenon DEF Plain
<1>9. CASE p[2] # 0 /\ p[3] = 0
  <2>1. Plain(f, p) = content[addr[f][p[1]]].tab[p[2]]
    BY <1>9, Zenon DEF Plain
  <2>2. Plain(f, p)' = content'[addr'[f][p[1]]].tab[p[2]]
    BY <1>9, Zenon DEF Plain
  <2> QED BY <1>5, <1>9, <2>1, <2>2, Zenon
<1>10. CASE p[2] # 0 /\ p[3] # 0
  <2>1. Plain(f, p) = content[content[addr[f][p[1]]].tab[p[2]]].tab[p[3]]
    BY <1>10, Zenon DEF Plain
  <2>2. Plain(f, p)' = content'[content'[addr'[f][p[1]]].tab[p[2]]].tab[p[3]]
    BY <1>10, Zenon DEF Plain
  <2> QED BY <1>5, <1>7, <1>10, <2>1, <2>2, Zenon
<1> QED BY <1>8, <1>9, <1>10

-----------------------------------------------------------------------------
(* The places a file owns, as the traversal moves.                         *)

LEMMA TotalSize ==
  ASSUME Shape, ~Idle
  PROVE  Total = size[op.file] /\ op.kind \in {"remove", "rewrite", "write", "read"}
<1>1. op.kind \in {"remove", "rewrite", "write", "read"}
  BY DEF Shape, Typed, Idle
<1> QED BY <1>1 DEF Shape, Wants, Total, Freeing

LEMMA HereOwned ==
  ASSUME Shape, Sound, ~LoopDone
  PROVE  /\ Pos \in Cell /\ op.file \in Files /\ OldBlock = Word(op.file, Pos)
         /\ op.kind = "write" => Pos \notin Owned(op.file)
         /\ op.kind # "write" => Pos \in Owned(op.file)
<1>0. /\ Typed /\ OnPath /\ ~Idle /\ ~damaged[op.file] /\ op.file \in Files
  BY DEF Shape, Sound, Typed
<1>1. Pos \in Cell /\ First(Pos) < size[op.file]
  BY <1>0, InLoop, TotalSize
<1>2. ~Passed(Pos, Pos) /\ ~Above(Pos, Pos)
  BY <1>1, ForthPassed, DownPassed
<1>3. OldBlock = Word(op.file, Pos)
  <2>1. CASE Depth = 0
    BY <2>1, <1>0, Where DEF OldBlock, Word
  <2>2. CASE Depth = 1
    BY <2>2, <1>0, Where DEF OldBlock, Word, Word2, Tab1, InCopy
  <2>3. CASE Depth = 2
    BY <2>3, <1>0, Where DEF OldBlock, Word, Tab2, InCopy
  <2> QED BY <2>1, <2>2, <2>3, <1>0, Where
<1>4. op.kind = "write" => Pos \notin Owned(op.file)
  BY <1>2 DEF Owned
<1>5. op.kind # "write" => Pos \in Owned(op.file)
  BY <1>0, <1>1, <1>2 DEF Owned
<1> QED BY <1>0, <1>1, <1>3, <1>4, <1>5

LEMMA OpenOwned ==
  ASSUME Shape, Sound, NEW c \in Cell, Above(c, Pos)
  PROVE  c \in Owned(op.file)
<1>1. /\ Typed /\ OnPath /\ ~Idle /\ ~damaged[op.file] /\ IsPos(Pos)
      /\ \A p \in Cell : Above(p, Pos) => First(p) < Total
  BY Where DEF Shape, Sound, Progress
<1>2. First(c) < size[op.file] /\ ~Passed(c, Pos)
  BY <1>1, TotalSize, AboveNotPassed
<1> QED BY <1>1, <1>2 DEF Owned

LEMMA OpenBlocks ==
  ASSUME Shape, Copies, Sound, Depth # 0
  PROVE  /\ Node(Pos) \in Owned(op.file) /\ Word(op.file, Node(Pos)) = blks[Depth]
         /\ Depth = 2 => /\ Outer(Pos) \in Owned(op.file) /\ Outer(Pos) # Node(Pos)
                         /\ Word(op.file, Outer(Pos)) = blks[1]
<1>0. /\ Typed /\ OnPath /\ ~Idle /\ Depth \in 1 .. 2 /\ IsPos(Pos)
      /\ Pos[2] # 0 /\ Pos[1] <= Slots /\ Pos[1] = at[1] /\ Pos[2] = at[2]
      /\ Pos[3] = 0 <=> Depth # 2
  BY Where DEF Shape, Sound
<1>1. Node(Pos) \in Cell /\ Above(Node(Pos), Pos)
  BY <1>0, NodePlace
<1>2. Node(Pos) \in Owned(op.file)
  BY <1>1, OpenOwned
<1>3. Depth = 1 => Word(op.file, Node(Pos)) = blks[1]
  <2>1. Depth = 1 => Node(Pos) = <<Pos[1], 0, 0>>
    BY <1>0 DEF Node
  <2> QED BY <2>1, <1>0 DEF Word, Copies
<1>4. ASSUME Depth = 2
      PROVE  /\ Word(op.file, Node(Pos)) = blks[2]
             /\ Outer(Pos) \in Owned(op.file) /\ Outer(Pos) # Node(Pos)
             /\ Word(op.file, Outer(Pos)) = blks[1]
  <2>1. Node(Pos) = <<Pos[1], Pos[2], 0>>
    BY <1>0, <1>4 DEF Node
  <2>2. Word(op.file, Node(Pos)) = tabs[1][Pos[2]]
    BY <2>1, <1>0 DEF Word, Word2, Tab1, InCopy
  <2>3. Outer(Pos) \in Cell /\ Above(Outer(Pos), Pos)
    <3>1. Pos[1] \in Nat /\ Pos[1] >= 1
      BY <1>0, Numbers
    <3> QED BY <3>1, <1>0, SlotNumbers DEF Outer, Cell, Above
  <2>4. Outer(Pos) \in Owned(op.file)
    BY <2>3, OpenOwned
  <2>5. Word(op.file, Outer(Pos)) = addr[op.file][at[1]]
    BY <1>0 DEF Outer, Word
  <2>6. Outer(Pos) # Node(Pos)
    BY <2>1, <1>0 DEF Outer
  <2> QED BY <2>2, <2>4, <2>5, <2>6, <1>0, <1>4 DEF Copies
<1> QED BY <1>0, <1>2, <1>3, <1>4

LEMMA VisitOwned ==
  ASSUME Shape, VisitData, NEW f \in Files
  PROVE  Owned(f)' = IF f = op.file /\ ~damaged[f] /\ Freeing THEN Owned(f) \ {Pos}
                     ELSE IF f = op.file /\ ~damaged[f] /\ op.kind = "write"
                     THEN Owned(f) \cup {Pos} ELSE Owned(f)
<1>0. /\ Typed /\ OnPath /\ ~Idle /\ ~LoopDone /\ AtData /\ at' = Advance(at)
      /\ size' = size /\ damaged' = damaged /\ op' = op /\ (Freeing' <=> Freeing)
  BY DEF Shape, VisitData, Freeing
<1>1. /\ Pos \in Cell /\ IsData(Pos) /\ First(Pos) < size[op.file] /\ Pos' = Forth(Pos)
  BY <1>0, InLoop, TotalSize, Moves
<1>2. \A p \in Cell : /\ Passed(p, Pos') <=> Passed(p, Pos) \/ p = Pos
                      /\ Above(p, Pos') <=> Above(p, Pos)
  BY <1>1, ForthPassed
<1>3. Owned(f)' =
        {p \in Cell : /\ ~damaged[f]
                      /\ First(p) < size[f]
                      /\ Freeing /\ op.file = f => ~Passed(p, Pos')
                      /\ op.kind = "write" /\ op.file = f => Passed(p, Pos') \/ Above(p, Pos')}
  BY <1>0 DEF Owned
<1>4. ~(Freeing /\ op.kind = "write")
  BY DEF Freeing
<1> HIDE DEF Pos
<1> QED BY <1>1, <1>2, <1>3, <1>4 DEF Owned

LEMMA OpenOwnedNext ==
  ASSUME Shape, OpenIndex, NEW f \in Files
  PROVE  Owned(f)' = IF f = op.file /\ ~damaged[f] /\ op.kind = "write"
                     THEN Owned(f) \cup {Pos} ELSE Owned(f)
<1>0. /\ Typed /\ OnPath /\ ~Idle /\ ~LoopDone /\ ~AtData /\ at' = Append(at, 1)
      /\ size' = size /\ damaged' = damaged /\ op' = op /\ (Freeing' <=> Freeing)
  BY DEF Shape, OpenIndex, Freeing
<1>1. Pos \in Cell /\ ~IsData(Pos) /\ First(Pos) < size[op.file]
  BY <1>0, InLoop, TotalSize
<1>2. Pos' = Down(Pos)
  <2>1. Depth # 2
    BY <1>0, <1>1, DownFirst, Where
  <2> QED BY <2>1, <1>0, Moves
<1>3. \A p \in Cell : /\ Passed(p, Pos') <=> Passed(p, Pos)
                      /\ Above(p, Pos') <=> Above(p, Pos) \/ p = Pos
  BY <1>1, <1>2, DownPassed
<1>4. Owned(f)' =
        {p \in Cell : /\ ~damaged[f]
                      /\ First(p) < size[f]
                      /\ Freeing /\ op.file = f => ~Passed(p, Pos')
                      /\ op.kind = "write" /\ op.file = f => Passed(p, Pos') \/ Above(p, Pos')}
  BY <1>0 DEF Owned
<1>5. ~(Freeing /\ op.kind = "write")
  BY DEF Freeing
<1> QED BY <1>1, <1>3, <1>4, <1>5 DEF Owned

(* Needed places a closed index block leaves behind have been passed.      *)
LEMMA ClosePassed ==
  ASSUME Shape, CloseIndex
  PROVE  /\ Pos' = Out(Pos) /\ Node(Pos) \in Cell /\ First(Node(Pos)) < size[op.file]
         /\ ~IsData(Node(Pos)) /\ Above(Node(Pos), Pos) /\ ~Passed(Node(Pos), Pos)
         /\ \A p \in Cell : Above(p, Pos') <=> Above(p, Pos) /\ p # Node(Pos)
         /\ \A p \in Cell : First(p) < size[op.file] =>
              (Passed(p, Pos') <=> Passed(p, Pos) \/ p = Node(Pos))
<1>0. /\ Typed /\ OnPath /\ ~Idle /\ LoopDone /\ Depth # 0 /\ at' = Advance(Pop(at))
      /\ \A p \in Cell : Above(p, Pos) => First(p) < Total
      /\ size[op.file] \in Nat
  BY SlotNumbers DEF Shape, CloseIndex, Progress, Typed
<1>1. /\ IsPos(Pos) /\ Pos[2] # 0 /\ Pos[1] <= Slots /\ Pos' = Out(Pos)
  BY <1>0, Where, Moves
<1>2. /\ Node(Pos) \in Cell /\ ~IsData(Node(Pos)) /\ Above(Node(Pos), Pos) /\ ~Passed(Node(Pos), Pos)
  BY <1>1, NodePlace
<1>3. First(Node(Pos)) < size[op.file]
  BY <1>0, <1>2, TotalSize
<1>4. \A p \in Cell : Above(p, Pos') <=> Above(p, Pos) /\ p # Node(Pos)
  BY <1>1, OutAbove
<1>5. ASSUME NEW p \in Cell, First(p) < size[op.file]
      PROVE  Passed(p, Pos') <=> Passed(p, Pos) \/ p = Node(Pos)
  <2>1. Spent(Pos) \/ First(Pos) >= size[op.file]
    BY <1>0, LoopLeft, TotalSize
  <2>2. First(p) \in Nat /\ First(Pos) \in Nat
    BY <1>1, CellIsPos, FirstSplit
  <2>3. Spent(Pos) \/ First(p) < First(Pos)
    BY <2>1, <2>2, <1>0, <1>5
  <2> QED BY <2>3, <1>1, OutPassed
<1> QED BY <1>1, <1>2, <1>3, <1>4, <1>5

LEMMA CloseOwned ==
  ASSUME Shape, CloseIndex, NEW f \in Files
  PROVE  Owned(f)' = IF f = op.file /\ ~damaged[f] /\ Freeing
                     THEN Owned(f) \ {Node(Pos)} ELSE Owned(f)
<1>0. size' = size /\ damaged' = damaged /\ op' = op /\ (Freeing' <=> Freeing)
  BY DEF CloseIndex, Freeing
<1>1. /\ Node(Pos) \in Cell /\ Above(Node(Pos), Pos)
      /\ \A p \in Cell : Above(p, Pos') <=> Above(p, Pos) /\ p # Node(Pos)
      /\ \A p \in Cell : First(p) < size[op.file] =>
           (Passed(p, Pos') <=> Passed(p, Pos) \/ p = Node(Pos))
  BY ClosePassed
<1>2. Owned(f)' =
        {p \in Cell : /\ ~damaged[f]
                      /\ First(p) < size[f]
                      /\ Freeing /\ op.file = f => ~Passed(p, Pos')
                      /\ op.kind = "write" /\ op.file = f => Passed(p, Pos') \/ Above(p, Pos')}
  BY <1>0 DEF Owned
<1>3. ~(Freeing /\ op.kind = "write")
  BY DEF Freeing
<1> QED BY <1>1, <1>2, <1>3 DEF Owned

-----------------------------------------------------------------------------
(* Steps that read or give up blocks.                                      *)

LEMMA ReadStep ==
  ASSUME Shape, Held, Shape', Copies', op.kind # "write",
         UNCHANGED <<free, content, addr, size, damaged, op>>,
         \A f \in Files : Owned(f)' = Owned(f)
  PROVE  Pool'
<1>1. \A f \in Files : \A p \in Owned(f) : p \in Cell /\ ~damaged[f]
  BY DEF Owned
<1>2. ASSUME NEW f \in Files, NEW p \in Owned(f)
      PROVE  Word(f, p)' = Word(f, p)
  <2>1. Word(f, p) = Plain(f, p)
    BY <1>1, PlainWords DEF PlainFact, Held
  <2>2. Word(f, p)' = Plain(f, p)'
    <3>1. ~damaged'[f] /\ op'.kind # "write" /\ p \in Cell
      BY <1>1
    <3> QED BY <3>1, PlainWordsNext DEF PlainFact
  <2>3. Plain(f, p)' = Plain(f, p)
    BY DEF Plain
  <2> QED BY <2>1, <2>2, <2>3
<1> QED BY <1>2, Stay DEF Held

LEMMA FreeStep ==
  ASSUME Shape, Held, Shape', Copies', op.kind # "write",
         NEW c \in Owned(op.file), Release(Word(op.file, c)),
         UNCHANGED <<addr, size, damaged, op>>,
         \A f \in Files : Owned(f)' = IF f = op.file THEN Owned(f) \ {c} ELSE Owned(f)
  PROVE  Pool'
<1> DEFINE b == Word(op.file, c)
<1>0. /\ Pool /\ op.file \in Files
      /\ content \in [Block -> [tab : Table, data : Datum]]
      /\ free' = free \cup {b} /\ content' = [content EXCEPT ![b] = Junk]
  BY DEF Held, Shape, Typed, Release
<1>1. \A f \in Files : \A p \in Owned(f) : p \in Cell /\ ~damaged[f] /\ Word(f, p) \in Block
  BY <1>0 DEF Owned, Pool, Kept, Block
<1>2. \A f \in Files : \A p \in Owned(f)' : p \in Owned(f) /\ Word(f, p) # b
  BY <1>0 DEF Pool, Apart
<1>3. \A f \in Files : \A p \in Owned(f) : Word(f, p) = Plain(f, p)
  BY <1>1, PlainWords DEF PlainFact, Held
<1>4. \A f \in Files : \A p \in Owned(f)' :
        /\ p[2] # 0 => Outer(p) \in Owned(f)'
        /\ p[3] # 0 => Middle(p) \in Owned(f)'
  BY OwnedOnTheWayNext DEF WayFact
<1> HIDE DEF b
<1>5. ASSUME NEW f \in Files, NEW p \in Owned(f)'
      PROVE  Word(f, p)' = Word(f, p)
  <2>1. p \in Owned(f) /\ p \in Cell
    BY <1>1, <1>2
  <2>2. /\ p[2] # 0 => Plain(f, Outer(p)) \in Block \ {b}
        /\ p[3] # 0 => Plain(f, Middle(p)) \in Block \ {b}
    BY <1>1, <1>2, <1>3, <1>4
  <2>3. Plain(f, p)' = Plain(f, p)
    BY <2>1, <2>2, <1>0, PlainStays
  <2>4. Word(f, p)' = Plain(f, p)'
    <3>1. ~damaged'[f] /\ op'.kind # "write"
      BY <2>1, <1>1
    <3> QED BY <3>1, <2>1, PlainWordsNext DEF PlainFact
  <2> QED BY <2>1, <2>3, <2>4, <1>3
<1>6. \A x \in Zone : x # b => content'[x].data = content[x].data
  BY <1>0 DEF Block
<1> QED BY <1>0, <1>5, <1>6, Give DEF b

LEMMA VisitRead ==
  ASSUME Shape, Held, VisitData, op.kind = "read"
  PROVE  Held'
<1>0. /\ Typed /\ OnPath /\ ~Idle /\ ~LoopDone /\ AtData /\ at' = Advance(at)
      /\ UNCHANGED <<free, content, addr, tabs, size, damaged, op, blks>>
      /\ \E b \in Named(OldBlock) : buf' = [buf EXCEPT ![Offset] = content[b].data]
  BY DEF Shape, VisitData, Freeing
<1>1. Shape'
  BY VisitShape
<1>2. /\ Depth' = Depth /\ Depth \in 0 .. 2 /\ Len(at) = Depth + 1
      /\ \A i \in 1 .. Depth : at'[i] = at[i]
      /\ Pos' = Forth(Pos)
  BY <1>0, Where, Moves
<1>3. Alive'
  BY <1>0 DEF Held, Alive, Freeing
<1>4. Copies'
  <2>1. Sound' <=> Sound
    BY <1>0 DEF Sound, Idle
  <2>2. (Depth >= 1 => at'[1] = at[1]) /\ (Depth = 2 => at'[2] = at[2])
    BY <1>2
  <2> QED BY <2>1, <2>2, <1>0, <1>2 DEF Held, Copies
<1>5. \A f \in Files : Owned(f)' = Owned(f)
  BY VisitOwned DEF Freeing
<1>6. Pool'
  BY <1>0, <1>1, <1>4, <1>5, ReadStep
<1>7. Fetched'
  <2> SUFFICES ASSUME Sound, NEW p \in Cell, IsData(p), Passed(p, Pos'), First(p) < size[op.file]
               PROVE  buf'[First(p)] = <<op.file, First(p)>>
    BY <1>0 DEF Fetched, Sound, Idle
  <2>1. /\ Pos \in Cell /\ OldBlock = Word(op.file, Pos) /\ Pos \in Owned(op.file)
        /\ op.file \in Files /\ IsData(Pos)
    BY <1>0, HereOwned, InLoop
  <2>2. OldBlock \in Zone /\ content[OldBlock].data = <<op.file, First(Pos)>>
    BY <2>1 DEF Held, Pool, Kept, DataKept
  <2>3. Named(OldBlock) = {OldBlock}
    BY <2>2, ZoneAssumption DEF Named, Unknown
  <2>4. Offset = First(Pos) /\ Offset \in 0 .. MaxSize - 1
    BY <1>0, Offsets
  <2>5. /\ buf \in [0 .. MaxSize - 1 -> Datum]
        /\ buf' = [buf EXCEPT ![First(Pos)] = <<op.file, First(Pos)>>]
    BY <2>2, <2>3, <2>4, <1>0 DEF Typed
  <2>6. CASE p = Pos
    BY <2>4, <2>5, <2>6
  <2>7. CASE p # Pos
    <3>1. Passed(p, Pos)
      BY <2>1, <2>7, <1>2, ForthPassed
    <3>2. First(p) < First(Pos) /\ First(p) \in Nat
      BY <3>1, <2>1, PassedBefore, CellIsPos, FirstSplit
    <3>3. buf[First(p)] = <<op.file, First(p)>>
      BY <3>1, <1>0 DEF Held, Fetched
    <3>4. First(p) \in 0 .. MaxSize - 1 /\ First(p) # First(Pos)
      BY <3>2, <2>4, SlotNumbers
    <3> QED BY <3>3, <3>4, <2>5
  <2> QED BY <2>6, <2>7
<1> QED BY <1>3, <1>4, <1>6, <1>7 DEF Held

LEMMA VisitFree ==
  ASSUME Shape, Held, VisitData, Freeing
  PROVE  Held'
<1>0. /\ Typed /\ OnPath /\ ~Idle /\ ~LoopDone /\ AtData /\ at' = Advance(at)
      /\ UNCHANGED <<addr, tabs, size, damaged, op, blks, buf>>
      /\ op.kind # "write" /\ op.kind # "read" /\ Sound /\ Copies /\ Pool
  BY DEF Shape, VisitData, Freeing, Held, Alive, Sound
<1>1. Shape'
  BY VisitShape
<1>2. /\ Depth' = Depth /\ Depth \in 0 .. 2 /\ Len(at) = Depth + 1
      /\ \A i \in 1 .. Depth : at'[i] = at[i]
  BY <1>0, Where, Moves
<1>3. Alive' /\ Fetched'
  BY <1>0 DEF Held, Alive, Fetched, Freeing
<1>4. /\ Pos \in Cell /\ OldBlock = Word(op.file, Pos) /\ Pos \in Owned(op.file)
      /\ op.file \in Files /\ IsData(Pos)
  BY <1>0, HereOwned, InLoop
<1>5. Release(Word(op.file, Pos))
  <2>1. OldBlock \in Zone
    BY <1>0, <1>4 DEF Pool, Kept
  <2>2. Named(OldBlock) = {OldBlock}
    BY <2>1, ZoneAssumption DEF Named, Unknown
  <2> QED BY <2>2, <1>0, <1>4 DEF VisitData
<1>6. Copies'
  <2>1. Sound' <=> Sound
    BY <1>0 DEF Sound, Idle
  <2>2. (Depth >= 1 => at'[1] = at[1]) /\ (Depth = 2 => at'[2] = at[2])
    BY <1>2
  <2>3. \A d \in 1 .. Depth : content'[blks[d]] = content[blks[d]]
    <3>1. \A d \in 1 .. Depth : \E q \in Owned(op.file) : q # Pos /\ Word(op.file, q) = blks[d]
      <4>1. Depth # 0 => Node(Pos) # Pos /\ Outer(Pos) # Pos
        <5>1. Depth # 0 => ~IsData(Node(Pos)) /\ Pos[2] # 0
          BY <1>0, Where, NodePlace
        <5> QED BY <5>1, <1>4 DEF Outer
      <4> QED BY <4>1, <1>0, <1>2, OpenBlocks
    <3>2. \A d \in 1 .. Depth : blks[d] # Word(op.file, Pos)
      BY <3>1, <1>0, <1>4 DEF Pool, Apart
    <3>3. \A d \in 1 .. Depth : blks[d] \in Block
      BY <1>0 DEF Typed
    <3> QED BY <3>2, <3>3, <1>0, <1>5 DEF Release, Typed
  <2> QED BY <2>1, <2>2, <2>3, <1>0, <1>2 DEF Copies
<1>7. \A f \in Files : Owned(f)' = IF f = op.file THEN Owned(f) \ {Pos} ELSE Owned(f)
  <2>1. ~damaged[op.file]
    BY <1>0 DEF Sound
  <2> QED BY <2>1, VisitOwned
<1>8. Pool'
  BY <1>0, <1>1, <1>4, <1>5, <1>6, <1>7, FreeStep
<1> QED BY <1>3, <1>6, <1>8 DEF Held

-----------------------------------------------------------------------------
(* Steps that write.                                                       *)

(* The words of a place are in the inode and in the tables on the way.     *)
LEMMA SameWord ==
  ASSUME NEW f, NEW p,
         addr'[f][p[1]] = addr[f][p[1]],
         p[2] # 0 => Tab1(f, p)'[p[2]] = Tab1(f, p)[p[2]],
         p[3] # 0 => Tab2(f, p)'[p[3]] = Tab2(f, p)[p[3]]
  PROVE  Word(f, p)' = Word(f, p)
BY DEF Word, Word2

(* What a write knows of the places of all files: their blocks are not     *)
(* free, and the file written has those it has passed or opened.           *)
LEMMA Writing ==
  ASSUME Shape, Held, ~Idle, op.kind = "write"
  PROVE  /\ Typed /\ OnPath /\ Sound /\ Copies /\ Pool /\ op.file \in Files /\ InCopy(op.file)
         /\ free \subseteq Zone /\ Zone \subseteq Block
         /\ \A f \in Files : \A p \in Owned(f) :
              /\ p \in Cell /\ ~damaged[f] /\ Word(f, p) \in Zone \ free
              /\ p[2] # 0 => Outer(p) \in Owned(f)
              /\ p[3] # 0 => p[2] # 0 /\ Outer(p) \in Owned(f) /\ Middle(p) \in Owned(f)
              /\ f # op.file => Word(f, p) = Plain(f, p)
         /\ \A p \in Owned(op.file) : Passed(p, Pos) \/ Above(p, Pos)
<1>1. /\ Typed /\ OnPath /\ Sound /\ Copies /\ Pool /\ op.file \in Files /\ InCopy(op.file)
  BY DEF Shape, Typed, Held, Alive, Sound, InCopy
<1>2. free \subseteq Zone /\ Zone \subseteq Block
  BY <1>1 DEF Pool, Kept, Block
<1>3. ASSUME NEW f \in Files, NEW p \in Owned(f)
      PROVE  /\ p \in Cell /\ ~damaged[f] /\ Word(f, p) \in Zone \ free
             /\ p[2] # 0 => Outer(p) \in Owned(f)
             /\ p[3] # 0 => p[2] # 0 /\ Outer(p) \in Owned(f) /\ Middle(p) \in Owned(f)
             /\ f # op.file => Word(f, p) = Plain(f, p)
  <2>1. p \in Cell /\ ~damaged[f]
    BY DEF Owned
  <2>2. Word(f, p) \in Zone \ free
    BY <1>1 DEF Pool, Kept
  <2>3. f # op.file => Word(f, p) = Plain(f, p)
    BY <2>1, <1>1, PlainWords DEF PlainFact
  <2>4. p[3] # 0 => p[2] # 0
    BY <2>1 DEF Cell
  <2> QED BY <2>1, <2>2, <2>3, <2>4, OwnedOnTheWay DEF WayFact
<1>4. \A p \in Owned(op.file) : Passed(p, Pos) \/ Above(p, Pos)
  BY DEF Owned
<1> QED BY <1>1, <1>2, <1>3, <1>4

(* The files that are not written.                                         *)
LEMMA OtherWords ==
  ASSUME Shape, Held, Shape', Copies', ~Idle, op.kind = "write", UNCHANGED <<size, damaged, op>>,
         NEW b, NEW x, content' = [content EXCEPT ![b] = x],
         NEW f \in Files, f # op.file, addr'[f] = addr[f], NEW p \in Owned(f),
         \A q \in Owned(f) : Word(f, q) # b
  PROVE  Word(f, p)' = Word(f, p)
<1>1. /\ p \in Cell /\ ~damaged[f] /\ Word(f, p) = Plain(f, p)
      /\ p[2] # 0 => Plain(f, Outer(p)) \in Block \ {b}
      /\ p[3] # 0 => Plain(f, Middle(p)) \in Block \ {b}
  BY Writing
<1>2. content \in [Block -> [tab : Table, data : Datum]]
  BY DEF Shape, Typed
<1>3. Plain(f, p)' = Plain(f, p)
  BY <1>1, <1>2, PlainStays
<1>4. Word(f, p)' = Plain(f, p)'
  BY <1>1, PlainWordsNext DEF PlainFact
<1> QED BY <1>1, <1>3, <1>4

LEMMA VisitWrite ==
  ASSUME Shape, Held, VisitData, op.kind = "write"
  PROVE  Held'
<1>0. /\ ~Idle /\ ~LoopDone /\ AtData /\ at' = Advance(at) /\ ~Freeing
      /\ UNCHANGED <<size, damaged, op, blks, buf>>
  BY DEF VisitData, Freeing
<1>1. PICK b \in Block :
        /\ Allocate(b) /\ addr' = AddrWith(b) /\ tabs' = TabsWith(b)
        /\ content' = [content EXCEPT ![b] = DataBlock(<<op.file, Offset>>)]
  BY <1>0 DEF VisitData, Freeing
<1>a. PICK g \in Files : g = op.file
  BY DEF Shape, Typed
<1>2. /\ Typed /\ OnPath /\ Sound /\ Copies /\ Pool /\ g \in Files /\ InCopy(g)
      /\ free \subseteq Zone /\ Zone \subseteq Block
      /\ \A f \in Files : \A p \in Owned(f) :
           /\ p \in Cell /\ ~damaged[f] /\ Word(f, p) \in Zone \ free
           /\ p[2] # 0 => Outer(p) \in Owned(f)
           /\ p[3] # 0 => p[2] # 0 /\ Outer(p) \in Owned(f) /\ Middle(p) \in Owned(f)
      /\ \A p \in Owned(g) : Passed(p, Pos) \/ Above(p, Pos)
  BY <1>0, <1>a, Writing
<1>3. b \in free /\ free' = free \ {b}
  BY <1>1, <1>2, ChoiceAssumption DEF Allocate
<1>4. /\ Depth' = Depth /\ Depth \in 0 .. 2 /\ Len(at) = Depth + 1
      /\ \A i \in 1 .. Depth : at'[i] = at[i]
      /\ Pos' = Forth(Pos)
  BY <1>0, <1>2, Where, Moves
<1>5. Shape'
  BY VisitShape
<1>6. /\ Pos \in Cell /\ IsData(Pos) /\ Offset = First(Pos) /\ Pos \notin Owned(g)
      /\ Here \in Nat /\ Here >= 1 /\ Here <= IF Depth = 0 THEN Slots ELSE Entries
  BY <1>0, <1>a, <1>2, HereOwned, InLoop, Offsets
<1>7. /\ addr \in [Files -> [1 .. Slots -> Block]] /\ tabs \in Seq(Table) /\ Len(tabs) = Depth
      /\ content \in [Block -> [tab : Table, data : Datum]]
      /\ Depth # 0 => tabs[Depth] \in Table /\ Here \in 1 .. Entries
  <2>1. Depth # 0 => Depth \in 1 .. Depth
    BY <1>4
  <2> QED BY <2>1, <1>2, <1>6, SlotNumbers DEF Typed
<1>8. /\ Depth # 0 => addr' = addr
      /\ Depth = 0 => tabs' = tabs
      /\ Depth = 0 => \A f \in Files : \A i \in 1 .. Slots :
                        addr'[f][i] = IF f = g /\ i = Here THEN b ELSE addr[f][i]
      /\ Depth # 0 => \A d \in 1 .. Depth : \A i \in 1 .. Entries :
                        tabs'[d][i] = IF d = Depth /\ i = Here THEN b ELSE tabs[d][i]
  <2>1. CASE Depth = 0
    BY <2>1, <1>a, <1>1, <1>2, <1>7 DEF AddrWith, TabsWith
  <2>2. CASE Depth # 0
    <3>1. tabs' = [tabs EXCEPT ![Depth] = [tabs[Depth] EXCEPT ![Here] = b]] /\ addr' = addr
      BY <2>2, <1>1 DEF AddrWith, TabsWith
    <3>2. \A i \in 1 .. Entries :
            [tabs[Depth] EXCEPT ![Here] = b][i] = IF i = Here THEN b ELSE tabs[Depth][i]
      BY <2>2, <1>7 DEF Table
    <3>3. \A d \in 1 .. Depth :
            tabs'[d] = IF d = Depth THEN [tabs[Depth] EXCEPT ![Here] = b] ELSE tabs[d]
      BY <3>1, <1>4, <1>7
    <3> QED BY <3>1, <3>2, <3>3, <2>2
  <2> QED BY <2>1, <2>2
<1>9. Depth = 2 => tabs'[1] = tabs[1]
  <2>1. Depth = 2 => tabs' = [tabs EXCEPT ![2] = [tabs[2] EXCEPT ![Here] = b]]
    BY <1>1 DEF TabsWith
  <2> QED BY <2>1, <1>7
<1>10. Alive' /\ Fetched'
  BY <1>0 DEF Held, Alive, Fetched, Freeing
<1>11. Copies'
  <2>1. (Depth >= 1 => at'[1] = at[1]) /\ (Depth = 2 => at'[2] = at[2])
    BY <1>4
  <2> QED BY <2>1, <1>0, <1>2, <1>4, <1>8, <1>9 DEF Copies
<1>12. \A f \in Files : Owned(f)' = IF f = g THEN Owned(f) \cup {Pos} ELSE Owned(f)
  BY <1>0, <1>a, <1>2, VisitOwned DEF Sound
<1>13. /\ Pos[1] \in Nat /\ Pos[2] \in Nat /\ Pos[3] \in Nat /\ Pos[1] >= 1 /\ Pos[1] <= Slots
       /\ Depth = 0 => Here = Pos[1] /\ Pos[2] = 0 /\ Pos[3] = 0
       /\ Depth = 1 => Here = Pos[2] /\ Pos[2] # 0 /\ Pos[3] = 0
       /\ Depth = 2 => Here = Pos[3] /\ Pos[2] # 0 /\ Pos[3] # 0
       /\ Depth = 0 => Pos' = <<Pos[1] + 1, 0, 0>>
       /\ Depth = 1 => Pos' = <<Pos[1], Pos[2] + 1, 0>>
       /\ Depth = 2 => Pos' = <<Pos[1], Pos[2], Pos[3] + 1>>
  BY <1>2, <1>4, <1>6, CellNumbers, Where DEF Forth
<1>14. InCopy(g)'
  BY <1>0, <1>a DEF InCopy, Idle
<1>15. \A y \in Block : y # b => content'[y] = content[y]
  BY <1>1, <1>7
<1>16. ASSUME NEW p \in Owned(g)
       PROVE  Word(g, p)' = Word(g, p)
  <2>1. /\ p[1] \in Nat /\ p[2] \in Nat /\ p[3] \in Nat /\ p[1] >= 1 /\ p[1] <= Slots
        /\ p[2] <= Entries /\ p[3] <= Entries /\ (p[3] # 0 => p[2] # 0)
        /\ Passed(p, Pos) \/ Above(p, Pos)
    BY <1>2, CellNumbers
  <2>2. addr'[g][p[1]] = addr[g][p[1]]
    <3>1. CASE Depth = 0
      <4>1. p[1] # Pos[1]
        BY <2>1, <3>1, <1>13 DEF Passed, Above
      <4> QED BY <4>1, <2>1, <3>1, <1>2, <1>8, <1>13
    <3>2. CASE Depth # 0
      BY <3>2, <1>8
    <3> QED BY <3>1, <3>2
  <2>3. p[2] # 0 => addr[g][p[1]] \in Zone \ free
    <3>1. Word(g, Outer(p)) = addr[g][p[1]]
      BY DEF Word, Outer
    <3> QED BY <3>1, <1>2
  <2>4. p[2] # 0 => Tab1(g, p)'[p[2]] = Tab1(g, p)[p[2]]
    <3> SUFFICES ASSUME p[2] # 0 PROVE Tab1(g, p)'[p[2]] = Tab1(g, p)[p[2]]
      OBVIOUS
    <3>1. CASE Depth # 0 /\ p[1] = Pos[1]
      <4>1. Tab1(g, p) = tabs[1] /\ Tab1(g, p)' = tabs'[1]
        <5>1. Tab1(g, p) = tabs[1]
          BY <3>1, <1>2, <1>4, <1>13 DEF Tab1
        <5>2. Pos'[2] # 0 /\ p[1] = Pos'[1]
          BY <3>1, <1>4, <1>13
        <5>3. Tab1(g, p)' = tabs'[1]
          BY <5>2, <1>14 DEF Tab1
        <5> QED BY <5>1, <5>3
      <4>2. CASE Depth = 2
        BY <4>1, <4>2, <1>9
      <4>3. CASE Depth = 1
        <5>1. p[2] # Pos[2]
          BY <4>3, <3>1, <2>1, <1>13 DEF Passed, Above
        <5>2. p[2] \in 1 .. Entries
          BY <2>1, SlotNumbers
        <5> QED BY <4>1, <4>3, <5>1, <5>2, <1>8, <1>13
      <4> QED BY <4>2, <4>3, <3>1, <1>4
    <3>2. CASE Depth = 0 \/ p[1] # Pos[1]
      <4>1. Tab1(g, p) = content[addr[g][p[1]]].tab
        BY <3>2, <1>13 DEF Tab1
      <4>2. ~(Pos'[2] # 0 /\ p[1] = Pos'[1])
        BY <3>2, <1>4, <1>13
      <4>3. Tab1(g, p)' = content'[addr'[g][p[1]]].tab
        BY <4>2 DEF Tab1
      <4> QED BY <4>1, <4>3, <2>2, <2>3, <1>2, <1>3, <1>15
    <3> QED BY <3>1, <3>2
  <2>5. p[3] # 0 => Tab2(g, p)'[p[3]] = Tab2(g, p)[p[3]]
    <3> SUFFICES ASSUME p[3] # 0 PROVE Tab2(g, p)'[p[3]] = Tab2(g, p)[p[3]]
      OBVIOUS
    <3>0. p[2] # 0 /\ Word2(g, p)' = Word2(g, p) /\ Word2(g, p) \in Zone \ free
      <4>1. p[2] # 0 /\ Word2(g, p)' = Word2(g, p)
        BY <2>1, <2>4 DEF Word2
      <4>2. Word(g, Middle(p)) = Word2(g, p)
        BY <4>1 DEF Word, Word2, Tab1, Middle
      <4> QED BY <4>1, <4>2, <1>2
    <3>1. CASE Depth = 2 /\ p[1] = Pos[1] /\ p[2] = Pos[2]
      <4>1. p[3] # Pos[3] /\ p[3] \in 1 .. Entries
        BY <3>1, <2>1, <1>13, SlotNumbers DEF Passed, Above
      <4>2. Tab2(g, p) = tabs[2] /\ Tab2(g, p)' = tabs'[2]
        <5>1. Tab2(g, p) = tabs[2]
          BY <3>1, <1>2, <1>13 DEF Tab2
        <5>2. Pos'[3] # 0 /\ p[1] = Pos'[1] /\ p[2] = Pos'[2]
          BY <3>1, <1>13
        <5>3. Tab2(g, p)' = tabs'[2]
          BY <5>2, <1>14 DEF Tab2
        <5> QED BY <5>1, <5>3
      <4> QED BY <3>1, <4>1, <4>2, <1>8, <1>13
    <3>2. CASE ~(Depth = 2 /\ p[1] = Pos[1] /\ p[2] = Pos[2])
      <4>1. Tab2(g, p) = content[Word2(g, p)].tab
        BY <3>2, <1>4, <1>13 DEF Tab2
      <4>2. ~(Pos'[3] # 0 /\ p[1] = Pos'[1] /\ p[2] = Pos'[2])
        BY <3>2, <1>4, <1>13
      <4>3. Tab2(g, p)' = content'[Word2(g, p)'].tab
        BY <4>2 DEF Tab2
      <4> QED BY <4>1, <4>3, <3>0, <1>2, <1>3, <1>15
    <3> QED BY <3>1, <3>2
  <2> QED BY <2>2, <2>4, <2>5, SameWord
<1>b. PICK c \in Cell : c = Pos
  BY <1>6
<1>17. Word(g, c)' = b
  <2>1. CASE Depth = 0
    BY <2>1, <1>b, <1>2, <1>8, <1>13, SlotNumbers DEF Word
  <2>2. CASE Depth = 1
    <3>1. Pos'[2] # 0 /\ c[1] = Pos'[1]
      BY <2>2, <1>13, <1>b
    <3>2. Tab1(g, c)' = tabs'[1]
      BY <3>1, <1>14 DEF Tab1
    <3>3. Word(g, c)' = tabs'[1][c[2]]
      BY <3>2, <2>2, <1>13, <1>b DEF Word, Word2
    <3> QED BY <3>3, <2>2, <1>7, <1>8, <1>13, <1>b
  <2>3. CASE Depth = 2
    <3>1. Pos'[3] # 0 /\ c[1] = Pos'[1] /\ c[2] = Pos'[2]
      BY <2>3, <1>13, <1>b
    <3>2. Tab2(g, c)' = tabs'[2]
      BY <3>1, <1>14 DEF Tab2
    <3>3. Word(g, c)' = tabs'[2][c[3]]
      BY <3>2, <2>3, <1>13, <1>b DEF Word
    <3> QED BY <3>3, <2>3, <1>7, <1>8, <1>13, <1>b
  <2> QED BY <2>1, <2>2, <2>3, <1>4
<1>18. ASSUME NEW f \in Files, f # g, NEW p \in Owned(f)
       PROVE  Word(f, p)' = Word(f, p)
  <2>1. addr'[f] = addr[f]
    BY <1>a, <1>1, <1>2, <1>7, <1>18 DEF AddrWith
  <2>2. \A q \in Owned(f) : Word(f, q) # b
    BY <1>2, <1>3
  <2> QED BY <2>1, <2>2, <1>0, <1>1, <1>5, <1>11, <1>18, <1>a, OtherWords
<1>19. \A x \in Zone : x # b => content'[x].data = content[x].data
  BY <1>2, <1>15
<1>20. content'[b].data = <<g, First(Pos)>>
  BY <1>a, <1>1, <1>6, <1>7 DEF DataBlock
<1>21. Pool'
  BY <1>0, <1>2, <1>3, <1>6, <1>12, <1>16, <1>17, <1>18, <1>19, <1>20, <1>b, Take
<1> QED BY <1>10, <1>11, <1>21 DEF Held

LEMMA OpenOther ==
  ASSUME Shape, Held, OpenIndex, op.kind # "write"
  PROVE  Held'
<1>0. /\ Typed /\ OnPath /\ ~Idle /\ ~LoopDone /\ ~AtData /\ at' = Append(at, 1)
      /\ UNCHANGED <<content, size, damaged, op, left, buf>>
      /\ Alive /\ Pool /\ Copies /\ Fetched
  BY DEF Shape, OpenIndex, Held
<1>1. PICK b \in Block :
        /\ b \in Named(OldBlock) /\ free' = free /\ addr' = AddrWith(b)
        /\ tabs' = Append(TabsWith(b), content[b].tab) /\ blks' = Append(blks, b)
  BY DEF OpenIndex
<1>2. Shape'
  BY OpenShape
<1>3. /\ Pos \in Cell /\ ~IsData(Pos) /\ Pos' = Down(Pos)
      /\ Depth \in 0 .. 1 /\ Depth' = Depth + 1 /\ Len(at) = Depth + 1
      /\ \A i \in 1 .. Depth + 1 : at'[i] = at[i]
      /\ Here = at[Depth + 1] /\ Here \in Nat /\ Here >= 1
      /\ Here <= IF Depth = 0 THEN Slots ELSE Entries
  <2>1. Pos \in Cell /\ ~IsData(Pos)
    BY <1>0, InLoop
  <2>2. Depth # 2 /\ Depth \in 0 .. 2 /\ Len(at) = Depth + 1
    BY <2>1, <1>0, DownFirst, Where
  <2> QED BY <2>1, <2>2, <1>0, InLoop, Moves DEF Here
<1>4. /\ addr \in [Files -> [1 .. Slots -> Block]] /\ op.file \in Files
      /\ blks \in Seq(Block) /\ Len(blks) = Depth /\ tabs \in Seq(Table) /\ Len(tabs) = Depth
      /\ Depth = 1 => tabs[1] \in Table
  <2>1. Depth = 1 => 1 \in 1 .. Depth
    OBVIOUS
  <2> QED BY <2>1, <1>0 DEF Typed
<1>5. addr' = addr
  <2>1. CASE Depth = 0
    <3>1. OldBlock = addr[op.file][Here] /\ OldBlock \in Block
      <4>1. Here \in 1 .. Slots
        BY <2>1, <1>3, SlotNumbers
      <4> QED BY <4>1, <2>1, <1>4 DEF OldBlock
    <3>2. b = OldBlock
      BY <3>1, <1>1, ZoneAssumption DEF Named, Unknown, Block, Boot
    <3>3. [addr EXCEPT ![op.file][Here] = addr[op.file][Here]] = addr
      BY <1>4
    <3> QED BY <3>1, <3>2, <3>3, <2>1, <1>1 DEF AddrWith
  <2>2. CASE Depth # 0
    BY <2>2, <1>1 DEF AddrWith
  <2> QED BY <2>1, <2>2
<1>6. Alive'
  BY <1>0 DEF Alive, Freeing
<1>7. Copies'
  <2> SUFFICES ASSUME Sound
               PROVE  /\ blks'[1] = addr[op.file][at[1]]
                      /\ Depth = 1 => blks'[2] = tabs'[1][at[2]]
                      /\ \A d \in 1 .. Depth + 1 : tabs'[d] = content[blks'[d]].tab
    BY <1>0, <1>3, <1>5 DEF Copies, Sound, Idle
  <2>1. OldBlock = Word(op.file, Pos) /\ Pos \in Owned(op.file)
    BY <1>0, HereOwned
  <2>2. b = OldBlock
    <3>1. OldBlock \in Zone
      BY <2>1, <1>0, <1>4 DEF Pool, Kept
    <3> QED BY <3>1, <1>1, ZoneAssumption DEF Named, Unknown
  <2>3. TabsWith(b) = tabs
    <3>1. CASE Depth = 0
      BY <3>1 DEF TabsWith
    <3>2. CASE Depth = 1
      <4>1. OldBlock = tabs[1][Here]
        BY <3>2 DEF OldBlock
      <4>2. [tabs EXCEPT ![1][Here] = tabs[1][Here]] = tabs
        BY <3>2, <1>3, <1>4 DEF Table
      <4> QED BY <3>2, <4>1, <4>2, <2>2 DEF TabsWith
    <3> QED BY <3>1, <3>2, <1>3
  <2>4. /\ tabs' = Append(tabs, content[b].tab) /\ blks' = Append(blks, b)
        /\ content[b].tab \in Table
    BY <2>3, <1>0, <1>1 DEF Typed
  <2>5. /\ \A d \in 1 .. Depth : tabs'[d] = tabs[d] /\ blks'[d] = blks[d]
        /\ tabs'[Depth + 1] = content[b].tab /\ blks'[Depth + 1] = b
    BY <2>4, <1>4, AppendProperties
  <2>6. /\ Depth = 1 => blks[1] = addr[op.file][at[1]]
        /\ \A d \in 1 .. Depth : tabs[d] = content[blks[d]].tab
    BY <1>0, <1>3 DEF Copies
  <2>7. CASE Depth = 0
    BY <2>2, <2>5, <2>6, <2>7, <1>3 DEF OldBlock
  <2>8. CASE Depth = 1
    BY <2>2, <2>5, <2>6, <2>8, <1>3 DEF OldBlock
  <2> QED BY <2>7, <2>8, <1>3
<1>8. \A f \in Files : Owned(f)' = Owned(f)
  BY OpenOwnedNext
<1>9. Pool'
  BY <1>0, <1>1, <1>2, <1>5, <1>7, <1>8, ReadStep
<1>10. Fetched'
  <2>1. \A p \in Cell : Passed(p, Pos') <=> Passed(p, Pos)
    BY <1>3, DownPassed
  <2> QED BY <2>1, <1>0 DEF Fetched, Sound, Idle
<1> QED BY <1>6, <1>7, <1>9, <1>10 DEF Held

LEMMA OpenWrite ==
  ASSUME Shape, Held, OpenIndex, op.kind = "write"
  PROVE  Held'
<1>0. /\ ~Idle /\ ~LoopDone /\ ~AtData /\ at' = Append(at, 1) /\ ~Freeing
      /\ UNCHANGED <<content, size, damaged, op, left, buf>>
  BY DEF OpenIndex, Freeing
<1>1. PICK b \in Block :
        /\ Allocate(b) /\ addr' = AddrWith(b)
        /\ tabs' = Append(TabsWith(b), content[b].tab) /\ blks' = Append(blks, b)
  BY DEF OpenIndex
<1>a. PICK g \in Files : g = op.file
  BY DEF Shape, Typed
<1>2. /\ Typed /\ OnPath /\ Sound /\ Copies /\ Pool /\ InCopy(g)
      /\ free \subseteq Zone /\ Zone \subseteq Block
      /\ \A f \in Files : \A p \in Owned(f) :
           /\ p \in Cell /\ ~damaged[f] /\ Word(f, p) \in Zone \ free
           /\ p[2] # 0 => Outer(p) \in Owned(f)
           /\ p[3] # 0 => p[2] # 0 /\ Outer(p) \in Owned(f) /\ Middle(p) \in Owned(f)
      /\ \A p \in Owned(g) : Passed(p, Pos) \/ Above(p, Pos)
  BY <1>0, <1>a, Writing
<1>3. b \in free /\ free' = free \ {b}
  BY <1>1, <1>2, ChoiceAssumption DEF Allocate
<1>4. Shape'
  BY OpenShape
<1>5. /\ Pos \in Cell /\ ~IsData(Pos) /\ Pos' = Down(Pos) /\ Pos \notin Owned(g)
      /\ Depth \in 0 .. 1 /\ Depth' = Depth + 1 /\ Len(at) = Depth + 1
      /\ \A i \in 1 .. Depth + 1 : at'[i] = at[i]
      /\ Here = at[Depth + 1] /\ Here \in Nat /\ Here >= 1
      /\ Here <= IF Depth = 0 THEN Slots ELSE Entries
  <2>1. Pos \in Cell /\ ~IsData(Pos)
    BY <1>0, InLoop
  <2>2. Depth # 2 /\ Depth \in 0 .. 2 /\ Len(at) = Depth + 1
    BY <2>1, <1>2, DownFirst, Where
  <2> QED BY <2>1, <2>2, <1>0, <1>a, <1>2, InLoop, HereOwned, Moves DEF Here
<1>6. /\ addr \in [Files -> [1 .. Slots -> Block]]
      /\ content \in [Block -> [tab : Table, data : Datum]] /\ content[b].tab \in Table
      /\ blks \in Seq(Block) /\ Len(blks) = Depth /\ tabs \in Seq(Table) /\ Len(tabs) = Depth
      /\ Depth = 1 => tabs[1] \in Table
  <2>1. Depth = 1 => 1 \in 1 .. Depth
    OBVIOUS
  <2> QED BY <2>1, <1>2 DEF Typed
<1>7. /\ Depth = 1 => addr' = addr
      /\ Depth = 0 => \A f \in Files : \A i \in 1 .. Slots :
                        addr'[f][i] = IF f = g /\ i = Here THEN b ELSE addr[f][i]
      /\ Depth = 1 => \A i \in 1 .. Entries :
                        tabs'[1][i] = IF i = Here THEN b ELSE tabs[1][i]
      /\ blks'[Depth + 1] = b /\ (Depth = 1 => blks'[1] = blks[1])
  <2>1. TabsWith(b) \in Seq(Table) /\ Len(TabsWith(b)) = Depth
    BY <1>0, <1>2, Words
  <2>2. blks'[Depth + 1] = b /\ (Depth = 1 => blks'[1] = blks[1])
    BY <1>1, <1>6, AppendProperties
  <2>3. Depth = 1 => tabs'[1] = TabsWith(b)[1]
    BY <2>1, <1>1, <1>6, AppendProperties
  <2>4. Depth = 0 => \A f \in Files : \A i \in 1 .. Slots :
                       addr'[f][i] = IF f = g /\ i = Here THEN b ELSE addr[f][i]
    BY <1>a, <1>1, <1>6 DEF AddrWith
  <2>5. Depth = 1 => addr' = addr
    BY <1>1 DEF AddrWith
  <2>6. Depth = 1 => \A i \in 1 .. Entries :
                       tabs'[1][i] = IF i = Here THEN b ELSE tabs[1][i]
    <3>1. Depth = 1 => TabsWith(b)[1] = [tabs[1] EXCEPT ![Here] = b]
      BY <1>6 DEF TabsWith
    <3>2. Depth = 1 => \A i \in 1 .. Entries :
            [tabs[1] EXCEPT ![Here] = b][i] = IF i = Here THEN b ELSE tabs[1][i]
      BY <1>6 DEF Table
    <3> QED BY <3>1, <3>2, <2>3
  <2> QED BY <2>2, <2>4, <2>5, <2>6
<1>8. Alive' /\ Fetched'
  BY <1>0 DEF Held, Alive, Fetched, Freeing
<1>9. /\ Pos[1] \in Nat /\ Pos[2] \in Nat /\ Pos[3] = 0 /\ Pos[1] >= 1 /\ Pos[1] <= Slots
      /\ Pos[1] = at[1] /\ (Depth = 1 => Pos[2] = at[2])
      /\ Depth = 0 => Here = Pos[1] /\ Pos[2] = 0
      /\ Depth = 1 => Here = Pos[2] /\ Pos[2] # 0 /\ Pos[2] <= Entries
      /\ Depth = 0 => Pos' = <<Pos[1], 1, 0>>
      /\ Depth = 1 => Pos' = <<Pos[1], Pos[2], 1>>
  BY <1>2, <1>5, CellNumbers, Where DEF Down
<1>10. Copies'
  <2>1. op'.kind = "write" /\ op'.file = g /\ at'[1] = at[1] /\ (Depth = 1 => at'[2] = at[2])
    BY <1>0, <1>a, <1>5
  <2>2. blks'[1] = addr'[g][at[1]]
    <3>1. CASE Depth = 0
      BY <3>1, <1>7, <1>9
    <3>2. CASE Depth = 1
      BY <3>2, <1>a, <1>2, <1>7 DEF Copies
    <3> QED BY <3>1, <3>2, <1>5
  <2>3. Depth = 1 => blks'[2] = tabs'[1][at[2]]
    BY <1>7, <1>9
  <2> QED BY <2>1, <2>2, <2>3, <1>5 DEF Copies
<1>11. \A f \in Files : Owned(f)' = IF f = g THEN Owned(f) \cup {Pos} ELSE Owned(f)
  BY <1>0, <1>a, <1>2, OpenOwnedNext DEF Sound
<1>12. InCopy(g)'
  BY <1>0, <1>a DEF InCopy, Idle
<1>13. ASSUME NEW p \in Owned(g)
       PROVE  Word(g, p)' = Word(g, p)
  <2>1. /\ p[1] \in Nat /\ p[2] \in Nat /\ p[3] \in Nat /\ p[1] >= 1 /\ p[1] <= Slots
        /\ p[2] <= Entries /\ p[3] <= Entries /\ (p[3] # 0 => p[2] # 0)
        /\ Passed(p, Pos) \/ Above(p, Pos)
    BY <1>2, CellNumbers
  <2>2. Depth = 0 => p[1] # Pos[1]
    BY <2>1, <1>9 DEF Passed, Above
  <2>3. Depth = 1 /\ p[1] = Pos[1] => p[2] # Pos[2]
    BY <2>1, <1>9 DEF Passed, Above
  <2>4. addr'[g][p[1]] = addr[g][p[1]]
    BY <2>1, <2>2, <1>5, <1>7, <1>9
  <2>5. p[2] # 0 => Tab1(g, p)'[p[2]] = Tab1(g, p)[p[2]]
    <3> SUFFICES ASSUME p[2] # 0 PROVE Tab1(g, p)'[p[2]] = Tab1(g, p)[p[2]]
      OBVIOUS
    <3>1. CASE Depth = 1 /\ p[1] = Pos[1]
      <4>1. Tab1(g, p) = tabs[1]
        BY <3>1, <1>2, <1>9 DEF Tab1
      <4>2. Pos'[2] # 0 /\ p[1] = Pos'[1]
        BY <3>1, <1>9
      <4>3. Tab1(g, p)' = tabs'[1]
        BY <4>2, <1>12 DEF Tab1
      <4>4. p[2] \in 1 .. Entries
        BY <2>1, SlotNumbers
      <4> QED BY <4>1, <4>3, <4>4, <3>1, <2>3, <1>7, <1>9
    <3>2. CASE p[1] # Pos[1]
      <4>1. Tab1(g, p) = content[addr[g][p[1]]].tab
        BY <3>2 DEF Tab1
      <4>2. p[1] # Pos'[1]
        BY <3>2, <1>5, <1>9
      <4>3. Tab1(g, p)' = content'[addr'[g][p[1]]].tab
        BY <4>2 DEF Tab1
      <4> QED BY <4>1, <4>3, <2>4, <1>0
    <3> QED BY <3>1, <3>2, <2>2, <1>5
  <2>6. p[3] # 0 => Tab2(g, p)'[p[3]] = Tab2(g, p)[p[3]]
    <3> SUFFICES ASSUME p[3] # 0 PROVE Tab2(g, p)'[p[3]] = Tab2(g, p)[p[3]]
      OBVIOUS
    <3>1. Word2(g, p)' = Word2(g, p)
      BY <2>1, <2>5 DEF Word2
    <3>2. Tab2(g, p) = content[Word2(g, p)].tab
      BY <1>9 DEF Tab2
    <3>3. ~(Pos'[3] # 0 /\ p[1] = Pos'[1] /\ p[2] = Pos'[2])
      BY <2>3, <1>5, <1>9
    <3>4. Tab2(g, p)' = content'[Word2(g, p)'].tab
      BY <3>3 DEF Tab2
    <3> QED BY <3>1, <3>2, <3>4, <1>0
  <2> QED BY <2>4, <2>5, <2>6, SameWord
<1>b. PICK c \in Cell : c = Pos
  BY <1>5
<1>14. Word(g, c)' = b
  <2>1. CASE Depth = 0
    BY <2>1, <1>b, <1>7, <1>9, SlotNumbers DEF Word
  <2>2. CASE Depth = 1
    <3>1. Pos'[2] # 0 /\ c[1] = Pos'[1]
      BY <2>2, <1>9, <1>b
    <3>2. Tab1(g, c)' = tabs'[1]
      BY <3>1, <1>12 DEF Tab1
    <3>3. Word(g, c)' = tabs'[1][c[2]]
      BY <3>2, <2>2, <1>9, <1>b DEF Word, Word2
    <3>4. c[2] = Here /\ c[2] \in 1 .. Entries
      BY <2>2, <1>9, <1>b, SlotNumbers
    <3> QED BY <3>3, <3>4, <2>2, <1>7
  <2> QED BY <2>1, <2>2, <1>5
<1>15. ASSUME NEW f \in Files, f # g, NEW p \in Owned(f)
       PROVE  Word(f, p)' = Word(f, p)
  <2>1. addr'[f] = addr[f]
    BY <1>a, <1>1, <1>2, <1>6, <1>15 DEF AddrWith
  <2>2. content' = [content EXCEPT ![b] = content[b]] /\ \A q \in Owned(f) : Word(f, q) # b
    BY <1>0, <1>2, <1>3, <1>6
  <2> QED BY <2>1, <2>2, <1>a, <1>0, <1>4, <1>10, <1>15, OtherWords
<1>16. Pool'
  BY <1>0, <1>2, <1>3, <1>5, <1>11, <1>13, <1>14, <1>15, <1>b, Take
<1> QED BY <1>8, <1>10, <1>16 DEF Held

(* The block a table that is torn down was read from.                      *)
LEMMA Closing ==
  ASSUME Shape, Held, CloseIndex
  PROVE  /\ Typed /\ OnPath /\ ~Idle /\ Depth \in 1 .. 2 /\ Depth' = Depth - 1
         /\ at' = Advance(Pop(at)) /\ tabs' = Pop(tabs) /\ blks' = Pop(blks)
         /\ UNCHANGED <<size, addr, damaged, op, left, buf>>
         /\ Pos[2] # 0 /\ (Pos[3] = 0 <=> Depth = 1) /\ Pos[1] = at[1] /\ Pos[2] = at[2]
         /\ Pos' = IF Depth = 1 THEN <<Pos[1] + 1, 0, 0>> ELSE <<Pos[1], Pos[2] + 1, 0>>
         /\ Pos[1] \in Nat /\ Pos[2] \in Nat
         /\ Depth = 2 => at'[1] = at[1] /\ tabs'[1] = tabs[1] /\ blks'[1] = blks[1]
         /\ blks[Depth] \in Block /\ tabs[Depth] \in Table
<1>0. /\ Typed /\ OnPath /\ ~Idle /\ LoopDone /\ Depth > 0
      /\ at' = Advance(Pop(at)) /\ tabs' = Pop(tabs) /\ blks' = Pop(blks)
      /\ UNCHANGED <<size, addr, damaged, op, left, buf>>
  BY DEF Shape, CloseIndex
<1>1. /\ Depth \in 1 .. 2 /\ Len(at) = Depth + 1 /\ IsPos(Pos)
      /\ Pos[2] # 0 /\ (Pos[3] = 0 <=> Depth = 1) /\ Pos[1] = at[1] /\ Pos[2] = at[2]
      /\ Depth' = Depth - 1 /\ Pos' = Out(Pos)
      /\ \A i \in 1 .. Len(at) - 1 : at'[i] = IF i = Len(at) - 1 THEN at[i] + 1 ELSE at[i]
  BY <1>0, Where, Moves
<1>2. Pos' = IF Depth = 1 THEN <<Pos[1] + 1, 0, 0>> ELSE <<Pos[1], Pos[2] + 1, 0>>
  BY <1>1 DEF Out
<1>3. Depth = 2 => at'[1] = at[1]
  BY <1>1
<1>4. Depth = 2 => tabs'[1] = tabs[1] /\ blks'[1] = blks[1]
  <2> SUFFICES ASSUME Depth = 2 PROVE tabs'[1] = tabs[1] /\ blks'[1] = blks[1]
    OBVIOUS
  <2>1. /\ tabs \in Seq(Table) /\ Len(tabs) = 2 /\ Len(tabs) \in 1 .. 3
        /\ blks \in Seq(Block) /\ Len(blks) = 2 /\ Len(blks) \in 1 .. 3
    BY <1>0 DEF Typed
  <2>2. \A i \in 1 .. Len(tabs) - 1 : Pop(tabs)[i] = tabs[i]
    BY <2>1, Popped
  <2>3. \A i \in 1 .. Len(blks) - 1 : Pop(blks)[i] = blks[i]
    BY <2>1, Popped
  <2> QED BY <2>1, <2>2, <2>3, <1>0
<1>5. blks[Depth] \in Block /\ tabs[Depth] \in Table
  BY <1>0, <1>1 DEF Typed
<1> QED BY <1>0, <1>1, <1>2, <1>3, <1>4, <1>5, Numbers

LEMMA CloseRead ==
  ASSUME Shape, Held, CloseIndex, op.kind = "read"
  PROVE  Held'
<1>0. /\ Typed /\ OnPath /\ ~Idle /\ Depth \in 1 .. 2 /\ Depth' = Depth - 1
      /\ UNCHANGED <<free, content, size, addr, damaged, op, left, buf>>
      /\ Depth = 2 => at'[1] = at[1] /\ tabs'[1] = tabs[1] /\ blks'[1] = blks[1]
      /\ Alive /\ Pool /\ Copies /\ Fetched
  BY Closing DEF CloseIndex, Freeing, Held
<1>1. Shape'
  BY CloseShape
<1>2. Alive'
  BY <1>0 DEF Alive, Freeing
<1>3. Copies'
  BY <1>0 DEF Copies, Sound, Idle
<1>4. \A f \in Files : Owned(f)' = Owned(f)
  BY CloseOwned DEF Freeing
<1>5. Pool'
  BY <1>0, <1>1, <1>3, <1>4, ReadStep
<1>6. Fetched'
  <2>1. ~IsData(Node(Pos)) /\ \A p \in Cell : First(p) < size[op.file] =>
          (Passed(p, Pos') <=> Passed(p, Pos) \/ p = Node(Pos))
    BY ClosePassed
  <2>2. \A p \in Cell : IsData(p) /\ First(p) < size[op.file] =>
          (Passed(p, Pos') => Passed(p, Pos))
    BY <2>1
  <2> QED BY <2>2, <1>0 DEF Fetched, Sound, Idle
<1> QED BY <1>2, <1>3, <1>5, <1>6 DEF Held

LEMMA CloseFree ==
  ASSUME Shape, Held, CloseIndex, Freeing
  PROVE  Held'
<1>0. /\ Typed /\ OnPath /\ ~Idle /\ Depth \in 1 .. 2 /\ Depth' = Depth - 1
      /\ UNCHANGED <<size, addr, damaged, op, left, buf>>
      /\ Depth = 2 => at'[1] = at[1] /\ tabs'[1] = tabs[1] /\ blks'[1] = blks[1]
      /\ Alive /\ Pool /\ Copies /\ Sound /\ op.kind # "write" /\ op.kind # "read"
  BY Closing DEF Freeing, Held, Alive, Sound
<1>1. Shape'
  BY CloseShape
<1>2. Alive' /\ Fetched'
  BY <1>0 DEF Alive, Fetched, Freeing
<1>3. /\ Node(Pos) \in Owned(op.file) /\ Word(op.file, Node(Pos)) = blks[Depth]
      /\ Depth = 2 => /\ Outer(Pos) \in Owned(op.file) /\ Outer(Pos) # Node(Pos)
                      /\ Word(op.file, Outer(Pos)) = blks[1]
      /\ op.file \in Files
  BY <1>0, OpenBlocks DEF Typed
<1>4. Release(blks[Depth])
  BY <1>0 DEF CloseIndex
<1>5. Copies'
  <2>1. Depth = 2 => content'[blks[1]] = content[blks[1]]
    <3>1. Depth = 2 => blks[1] # blks[2]
      BY <1>0, <1>3 DEF Pool, Apart
    <3>2. Depth = 2 => blks[1] \in Block
      <4>1. Depth = 2 => blks \in Seq(Block) /\ Len(blks) = 2
        BY <1>0 DEF Typed
      <4> QED BY <4>1
    <3> QED BY <3>1, <3>2, <1>0, <1>4 DEF Release, Typed
  <2> QED BY <2>1, <1>0 DEF Copies, Sound, Idle
<1>6. \A f \in Files : Owned(f)' = IF f = op.file THEN Owned(f) \ {Node(Pos)} ELSE Owned(f)
  BY <1>0, CloseOwned DEF Sound
<1>7. Pool'
  BY <1>0, <1>1, <1>3, <1>4, <1>5, <1>6, FreeStep
<1> QED BY <1>2, <1>5, <1>7 DEF Held

LEMMA CloseWrite ==
  ASSUME Shape, Held, CloseIndex, op.kind = "write"
  PROVE  Held'
<1>0. /\ ~Idle /\ Depth \in 1 .. 2 /\ Depth' = Depth - 1 /\ ~Freeing
      /\ UNCHANGED <<free, size, addr, damaged, op, left, buf>>
      /\ Pos[2] # 0 /\ (Pos[3] = 0 <=> Depth = 1) /\ Pos[1] = at[1] /\ Pos[2] = at[2]
      /\ Pos' = IF Depth = 1 THEN <<Pos[1] + 1, 0, 0>> ELSE <<Pos[1], Pos[2] + 1, 0>>
      /\ Pos[1] \in Nat /\ Pos[2] \in Nat
      /\ Depth = 2 => at'[1] = at[1] /\ tabs'[1] = tabs[1] /\ blks'[1] = blks[1]
      /\ blks[Depth] \in Block /\ tabs[Depth] \in Table
  BY Closing DEF CloseIndex, Freeing
<1>a. PICK g \in Files : g = op.file
  BY DEF Shape, Typed
<1>b. PICK b \in Block : b = blks[Depth]
  BY <1>0
<1>1. content' = [content EXCEPT ![b] = IndexBlock(tabs[Depth])]
  <2>1. content' = [content EXCEPT ![blks[Depth]] = IndexBlock(tabs[Depth])]
    BY DEF CloseIndex, Freeing
  <2> QED BY <2>1, <1>b
<1>2. /\ Typed /\ OnPath /\ Sound /\ Copies /\ Pool /\ InCopy(g)
      /\ free \subseteq Zone /\ Zone \subseteq Block
      /\ \A f \in Files : \A p \in Owned(f) :
           /\ p \in Cell /\ ~damaged[f] /\ Word(f, p) \in Zone \ free
           /\ p[2] # 0 => Outer(p) \in Owned(f)
           /\ p[3] # 0 => p[2] # 0 /\ Outer(p) \in Owned(f) /\ Middle(p) \in Owned(f)
  BY <1>0, <1>a, Writing
<1>3. Shape'
  BY CloseShape
<1>4. Node(Pos) \in Owned(g) /\ Word(g, Node(Pos)) = b /\ ~IsData(Node(Pos))
  BY <1>0, <1>a, <1>b, <1>2, OpenBlocks, ClosePassed
<1>c. PICK c \in Cell : c = Node(Pos)
  BY <1>2, <1>4
<1>5. /\ \A f \in Files : \A p \in Owned(f) : Word(f, p) = b => f = g /\ p = c
      /\ c = IF Depth = 1 THEN <<Pos[1], 0, 0>> ELSE <<Pos[1], Pos[2], 0>>
      /\ ~IsData(c)
  BY <1>0, <1>2, <1>4, <1>c DEF Pool, Apart, Node
<1>6. Alive' /\ Fetched'
  BY <1>0 DEF Held, Alive, Fetched, Freeing
<1>7. Copies'
  BY <1>0, <1>2 DEF Copies, Sound, Idle
<1>8. \A f \in Files : Owned(f)' = Owned(f)
  BY <1>0, CloseOwned
<1>9. content \in [Block -> [tab : Table, data : Datum]]
  BY <1>2 DEF Typed
<1>10. /\ \A y \in Block : y # b => content'[y] = content[y]
       /\ content'[b].tab = tabs[Depth]
  BY <1>1, <1>9 DEF IndexBlock
<1>11. InCopy(g)'
  BY <1>0, <1>a DEF InCopy, Idle
<1>12. Depth = 1 => b = addr[g][Pos[1]]
  BY <1>0, <1>a, <1>b, <1>2 DEF Copies
<1>13. Depth = 2 => b = tabs[1][Pos[2]]
  BY <1>0, <1>a, <1>b, <1>2 DEF Copies
<1>14. ASSUME NEW p \in Owned(g)
       PROVE  Word(g, p)' = Word(g, p)
  <2>1. /\ p \in Cell /\ p[1] \in Nat /\ p[2] \in Nat /\ p[3] \in Nat /\ (p[3] # 0 => p[2] # 0)
    BY <1>2, CellNumbers
  <2>2. p[2] # 0 /\ ~(Depth = 1 /\ p[1] = Pos[1]) => addr[g][p[1]] \in Block \ {b}
    <3>1. Word(g, Outer(p)) = addr[g][p[1]]
      BY DEF Word, Outer
    <3>2. p[2] # 0 /\ ~(Depth = 1 /\ p[1] = Pos[1]) => Outer(p) # c
      BY <1>0, <1>5 DEF Outer
    <3> QED BY <3>1, <3>2, <1>2, <1>5
  <2>3. p[2] # 0 => Tab1(g, p)'[p[2]] = Tab1(g, p)[p[2]]
    <3> SUFFICES ASSUME p[2] # 0 PROVE Tab1(g, p)' = Tab1(g, p)
      OBVIOUS
    <3>1. CASE p[1] = Pos[1] /\ Depth = 1
      <4>1. Tab1(g, p) = tabs[1]
        BY <3>1, <1>0, <1>2 DEF Tab1
      <4>2. Tab1(g, p)' = content'[addr'[g][p[1]]].tab
        <5>1. Pos'[2] = 0
          BY <3>1, <1>0
        <5> QED BY <5>1 DEF Tab1
      <4> QED BY <4>1, <4>2, <3>1, <1>0, <1>10, <1>12
    <3>2. CASE p[1] = Pos[1] /\ Depth = 2
      <4>1. Tab1(g, p) = tabs[1]
        BY <3>2, <1>0, <1>2 DEF Tab1
      <4>2. Pos'[2] # 0 /\ p[1] = Pos'[1]
        BY <3>2, <1>0
      <4>3. Tab1(g, p)' = tabs'[1]
        BY <4>2, <1>11 DEF Tab1
      <4> QED BY <4>1, <4>3, <3>2, <1>0
    <3>3. CASE p[1] # Pos[1]
      <4>1. Tab1(g, p) = content[addr[g][p[1]]].tab
        BY <3>3 DEF Tab1
      <4>2. ~(Pos'[2] # 0 /\ p[1] = Pos'[1])
        BY <3>3, <1>0
      <4>3. Tab1(g, p)' = content'[addr'[g][p[1]]].tab
        BY <4>2 DEF Tab1
      <4> QED BY <4>1, <4>3, <3>3, <2>2, <1>0, <1>10
    <3> QED BY <3>1, <3>2, <3>3, <1>0
  <2>4. p[3] # 0 => Tab2(g, p)'[p[3]] = Tab2(g, p)[p[3]]
    <3> SUFFICES ASSUME p[3] # 0 PROVE Tab2(g, p)' = Tab2(g, p)
      OBVIOUS
    <3>1. Word2(g, p)' = Word2(g, p)
      BY <2>1, <2>3 DEF Word2
    <3>2. Tab2(g, p)' = content'[Word2(g, p)].tab
      <4>1. Pos'[3] = 0
        BY <1>0
      <4>2. Tab2(g, p)' = content'[Word2(g, p)'].tab
        BY <4>1 DEF Tab2
      <4> QED BY <4>2, <3>1
    <3>3. CASE Depth = 2 /\ p[1] = Pos[1] /\ p[2] = Pos[2]
      <4>1. Tab2(g, p) = tabs[2]
        BY <3>3, <1>0, <1>2 DEF Tab2
      <4>2. Word2(g, p) = tabs[1][Pos[2]]
        BY <3>3, <1>0, <1>2 DEF Word2, Tab1
      <4> QED BY <4>1, <4>2, <3>2, <3>3, <1>10, <1>13
    <3>4. CASE ~(Depth = 2 /\ p[1] = Pos[1] /\ p[2] = Pos[2])
      <4>1. Tab2(g, p) = content[Word2(g, p)].tab
        BY <3>4, <1>0 DEF Tab2
      <4>2. Word(g, Middle(p)) = Word2(g, p)
        BY <2>1 DEF Word, Word2, Tab1, Middle
      <4>3. Middle(p) # c
        BY <3>4, <2>1, <1>0, <1>5 DEF Middle
      <4>4. Word2(g, p) \in Block \ {b}
        BY <4>2, <4>3, <2>1, <1>2, <1>5
      <4> QED BY <4>1, <4>4, <3>2, <1>10
    <3> QED BY <3>3, <3>4
  <2> QED BY <2>3, <2>4, <1>0, SameWord
<1>15. ASSUME NEW f \in Files, f # g, NEW p \in Owned(f)
       PROVE  Word(f, p)' = Word(f, p)
  <2>1. \A q \in Owned(f) : Word(f, q) # b
    BY <1>5, <1>15
  <2> QED BY <2>1, <1>a, <1>0, <1>1, <1>3, <1>7, <1>15, OtherWords
<1>16. ASSUME NEW f \in Files, NEW p \in Owned(f), IsData(p)
       PROVE  content'[Word(f, p)].data = content[Word(f, p)].data
  <2>1. Word(f, p) \in Block /\ Word(f, p) # b
    BY <1>2, <1>5, <1>16
  <2> QED BY <2>1, <1>10
<1>17. Pool'
  BY <1>0, <1>2, <1>8, <1>14, <1>15, <1>16, Stay
<1> QED BY <1>6, <1>7, <1>17 DEF Held

-----------------------------------------------------------------------------
(* Steps that begin or end an operation.                                   *)

(* A traversal that has come to its end has passed every place in use.     *)
LEMMA AllPassed ==
  ASSUME Shape, TraversalDone, NEW p \in Cell, First(p) < size[op.file]
  PROVE  Passed(p, Pos)
<1>1. /\ Typed /\ OnPath /\ ~Idle /\ LoopDone /\ Depth = 0 /\ size[op.file] \in Nat
  BY SlotNumbers DEF Shape, Typed, TraversalDone
<1>2. IsPos(Pos) /\ Pos[2] = 0 /\ Pos[3] = 0
  BY <1>1, Where
<1>3. Pos[1] = Slots + 1 \/ First(Pos) >= size[op.file]
  BY <1>1, LoopLeft, TotalSize
<1>4. CASE Pos[1] = Slots + 1
  BY <1>4, CellNumbers, SlotNumbers DEF Passed
<1>5. CASE First(Pos) >= size[op.file]
  <2>1. First(p) \in Nat /\ First(Pos) \in Nat
    BY <1>2, CellIsPos, FirstSplit
  <2>2. ~(First(p) >= First(Pos))
    BY <2>1, <1>1, <1>5
  <2>3. ~Above(p, Pos)
    BY <1>2 DEF Above
  <2> QED BY <2>2, <2>3, <1>2, AheadAfter
<1> QED BY <1>3, <1>4, <1>5

(* Where words are read from the blocks before and after, nothing moves.   *)
LEMMA Swap ==
  ASSUME Shape, Held, Shape', Copies', free' = free, content' = content,
         \A f \in Files : \A p \in Owned(f)' :
           /\ p \in Owned(f) /\ addr'[f] = addr[f]
           /\ op.kind # "write" \/ Depth = 0 \/ f # op.file,
         Depth' = 0,
         (\A f \in Files : ~damaged'[f]) =>
           \A f \in Files : ~damaged[f] /\ Owned(f)' = Owned(f)
  PROVE  Pool'
<1>1. ASSUME NEW f \in Files, NEW p \in Owned(f)'
      PROVE  p \in Owned(f) /\ Word(f, p)' = Word(f, p)
  <2>1. p \in Owned(f) /\ p \in Cell /\ ~damaged[f] /\ ~damaged'[f]
    <3>1. p \in Owned(f)
      OBVIOUS
    <3> QED BY <3>1, <1>1 DEF Owned
  <2>2. Word(f, p) = Plain(f, p)
    BY <2>1, PlainWords DEF PlainFact, Held
  <2>3. Word(f, p)' = Plain(f, p)'
    <3>1. PlainFact'
      BY PlainWordsNext, Zenon
    <3> QED BY <3>1, <2>1, Zenon DEF PlainFact
  <2>4. Plain(f, p)' = Plain(f, p)
    BY DEF Plain
  <2> QED BY <2>1, <2>2, <2>3, <2>4
<1> QED BY <1>1, Stay DEF Held

LEMMA Restart ==
  ASSUME at' = << 1 >>
  PROVE  /\ Depth' = 0 /\ Copies' /\ \A p \in Cell : ~Passed(p, Pos') /\ ~Above(p, Pos')
<1>1. Depth' = 0 /\ Pos' = <<1, 0, 0>>
  BY Started
<1>2. Copies'
  BY <1>1 DEF Copies
<1>3. \A p \in Cell : ~Passed(p, Pos') /\ ~Above(p, Pos')
  BY <1>1, CellNumbers DEF Passed, Above
<1> QED BY <1>1, <1>2, <1>3

LEMMA FailHeld ==
  ASSUME Shape, Held, WriteFails, Shape'
  PROVE  Held'
<1>1. /\ op.kind = "write" /\ ~Freeing /\ op' = NoOp /\ at' = <<1>>
      /\ damaged' = [damaged EXCEPT ![op.file] = TRUE]
      /\ UNCHANGED <<free, content, size, addr, buf>>
      /\ damaged \in [Files -> BOOLEAN] /\ op.file \in Files
  BY DEF WriteFails, Freeing, Begin, Shape, Typed
<1>2. op'.kind = "idle" /\ ~Freeing'
  BY <1>1, Boxes DEF Freeing
<1>3. Depth' = 0 /\ Copies'
  BY <1>1, Restart
<1>4. Alive' /\ Fetched'
  BY <1>2 DEF Alive, Fetched
<1>5. ASSUME NEW f \in Files, NEW p \in Owned(f)'
      PROVE  p \in Owned(f) /\ f # op.file
  <2>1. p \in Cell /\ ~damaged'[f] /\ First(p) < size[f]
    BY <1>1 DEF Owned
  <2>2. f # op.file /\ ~damaged[f]
    BY <2>1, <1>1
  <2> QED BY <2>1, <2>2 DEF Owned
<1>6. damaged'[op.file]
  BY <1>1
<1>7. Pool'
  BY <1>1, <1>3, <1>5, <1>6, Swap
<1> QED BY <1>3, <1>4, <1>7 DEF Held

LEMMA FreedHeld ==
  ASSUME Shape, Held, FreeingDone, Shape'
  PROVE  Held'
<1>0. Freeing /\ ~Idle /\ Sound /\ Copies /\ Pool /\ Typed /\ op.kind # "write" /\ op.kind # "read"
  BY DEF FreeingDone, Freeing, Idle, Held, Alive, Sound, Shape
<1>1. TraversalDone
  <2>1. SUFFICES ASSUME BadNumber PROVE FALSE
    BY DEF FreeingDone
  <2>2. OldBlock = Word(op.file, Pos) /\ Pos \in Owned(op.file) /\ op.file \in Files
    BY <2>1, <1>0, HereOwned DEF BadNumber
  <2>3. OldBlock \in Zone
    BY <2>2, <1>0 DEF Pool, Kept
  <2> QED BY <2>1, <2>3, ZoneAssumption DEF BadNumber, Unknown
<1>2. /\ op' = IF op.kind = "rewrite" THEN [op EXCEPT !.kind = "write"] ELSE NoOp
      /\ at' = <<1>> /\ size' = [size EXCEPT ![op.file] = op.want]
      /\ damaged' = [damaged EXCEPT ![op.file] = FALSE]
      /\ addr' = [addr EXCEPT ![op.file] = [i \in 1 .. Slots |-> Boot]]
      /\ UNCHANGED <<free, content, buf>>
      /\ op.kind \in {"remove", "rewrite"} /\ (op.kind = "remove" => op.want = 0)
      /\ damaged \in [Files -> BOOLEAN] /\ op.file \in Files /\ ~damaged[op.file]
      /\ size \in [Files -> 0 .. MaxSize] /\ addr \in [Files -> [1 .. Slots -> Block]]
      /\ op \in [kind : {"idle", "remove", "rewrite", "write", "read"},
                 file : Files, want : 0 .. MaxSize]
  BY <1>0 DEF FreeingDone, Freeing, Begin, Typed, Shape, Wants, Sound
<1>3. damaged' = damaged
  BY <1>2
<1>4. /\ op'.kind = "write" => op'.file = op.file
      /\ op'.kind \in {"idle", "write"} /\ ~Freeing'
      /\ op.kind = "rewrite" => op'.kind = "write" /\ op'.file = op.file
  BY <1>2, Boxes DEF Freeing
<1>5. /\ Depth' = 0 /\ Copies' /\ \A p \in Cell : ~Passed(p, Pos') /\ ~Above(p, Pos')
  BY <1>2, Restart
<1>6. Alive' /\ Fetched'
  BY <1>2, <1>3, <1>4 DEF Alive, Fetched
<1>7. Owned(op.file) = {}
  <2>1. \A p \in Cell : First(p) < size[op.file] => Passed(p, Pos)
    BY <1>1, AllPassed
  <2> QED BY <2>1, <1>0 DEF Owned
<1>8. PICK g \in Files : g = op.file
  BY <1>2
<1>9. Owned(g)' = {}
  <2>1. CASE op.kind = "rewrite"
    <3>1. op'.kind = "write" /\ op'.file = g
      BY <2>1, <1>4, <1>8
    <3> QED BY <3>1, <1>5 DEF Owned
  <2>2. CASE op.kind = "remove"
    <3>1. size'[g] = 0
      BY <2>2, <1>2, <1>8
    <3>2. \A p \in Cell : ~(First(p) < 0)
      BY CellIsPos, FirstSplit
    <3> QED BY <3>1, <3>2 DEF Owned
  <2> QED BY <2>1, <2>2, <1>2
<1>10. ASSUME NEW f \in Files, f # g
       PROVE  Owned(f)' = Owned(f) /\ addr'[f] = addr[f]
  <2>1. size'[f] = size[f] /\ addr'[f] = addr[f] /\ damaged'[f] = damaged[f]
    BY <1>2, <1>8, <1>10
  <2>2. op'.kind = "write" => op'.file # f
    BY <1>4, <1>8, <1>10
  <2> QED BY <2>1, <2>2, <1>4, <1>8, <1>10 DEF Owned
<1>11. \A f \in Files : Owned(f)' = Owned(f)
  BY <1>7, <1>8, <1>9, <1>10
<1>12. \A f \in Files : \A p \in Owned(f)' : p \in Owned(f) /\ addr'[f] = addr[f]
  BY <1>9, <1>10, <1>11
<1>13. Pool'
  BY <1>0, <1>2, <1>3, <1>5, <1>11, <1>12, Swap
<1> QED BY <1>5, <1>6, <1>13 DEF Held

LEMMA FinishHeld ==
  ASSUME Shape, Held, Finish, Shape'
  PROVE  Held'
<1>1. /\ ~Freeing /\ op' = NoOp /\ at' = <<1>>
      /\ UNCHANGED <<free, content, size, addr, damaged>>
      /\ op.kind = "read" \/ (op.kind = "write" /\ TraversalDone)
  <2>1. op.kind \in {"idle", "remove", "rewrite", "write", "read"}
    BY DEF Shape, Typed
  <2> QED BY <2>1 DEF Finish, Freeing, Begin, BadNumber, TraversalDone, Idle
<1>2. op'.kind = "idle" /\ ~Freeing'
  BY <1>1, Boxes DEF Freeing
<1>3. Depth' = 0 /\ Copies'
  BY <1>1, Restart
<1>4. Alive' /\ Fetched'
  BY <1>2 DEF Alive, Fetched
<1>5. ASSUME NEW f \in Files
      PROVE  Owned(f)' = Owned(f)
  <2>1. Owned(f)' = {p \in Cell : ~damaged[f] /\ First(p) < size[f]}
    BY <1>1, <1>2 DEF Owned
  <2>2. op.kind = "write" /\ op.file = f => \A p \in Cell : First(p) < size[f] => Passed(p, Pos)
    BY <1>1, AllPassed
  <2> QED BY <2>1, <2>2, <1>1 DEF Owned
<1>6. op.kind # "write" \/ Depth = 0
  BY <1>1 DEF TraversalDone
<1>7. Pool'
  <2>1. \A f \in Files : \A p \in Owned(f)' : p \in Owned(f) /\ addr'[f] = addr[f]
    BY <1>1, <1>5
  <2> QED BY <2>1, <1>1, <1>3, <1>5, <1>6, Swap
<1> QED BY <1>3, <1>4, <1>7 DEF Held

LEMMA StartHeld ==
  ASSUME Shape, Held, Idle, Shape', at' = << 1 >>,
         UNCHANGED <<free, content, size, addr, damaged>>,
         op'.kind \in {"remove", "rewrite", "read"},
         op'.kind # "read" => ~damaged[op'.file]
  PROVE  Held'
<1>1. op.kind = "idle" /\ ~Freeing
  BY DEF Idle, Freeing
<1>2. /\ Depth' = 0 /\ Copies' /\ \A p \in Cell : ~Passed(p, Pos') /\ ~Above(p, Pos')
  BY Restart
<1>3. Alive'
  BY DEF Alive, Freeing
<1>4. Fetched'
  BY <1>2 DEF Fetched
<1>5. \A f \in Files : Owned(f)' = Owned(f)
  BY <1>1, <1>2 DEF Owned
<1>6. Pool'
  BY <1>1, <1>2, <1>5, Swap
<1> QED BY <1>2, <1>3, <1>4, <1>6 DEF Held

LEMMA InitHeld ==
  ASSUME Init
  PROVE  Held
<1>1. /\ free = Zone /\ size = [f \in Files |-> 0] /\ damaged = [f \in Files |-> FALSE]
      /\ op = NoOp /\ op.kind = "idle" /\ at = <<1>>
  BY Boxes DEF Init
<1>2. \A f \in Files : Owned(f) = {}
  <2>1. \A p \in Cell : ~(First(p) < 0)
    BY CellIsPos, FirstSplit
  <2> QED BY <2>1, <1>1 DEF Owned
<1>3. Pool
  BY <1>1, <1>2 DEF Pool, Kept, Apart, DataKept, Covered
<1>4. Alive /\ Copies /\ Fetched
  BY <1>1 DEF Alive, Freeing, Copies, Sound, Idle, Fetched
<1> QED BY <1>3, <1>4 DEF Held

LEMMA StepHeld ==
  ASSUME ~ReuseDamaged, Shape, Held, [Next]_vars
  PROVE  Held'
<1>0. Shape'
  BY StepShape
<1>1. CASE VisitData
  <2>1. op.kind \in {"remove", "rewrite", "write", "read"}
    BY <1>1, TotalSize DEF VisitData
  <2> QED BY <2>1, <1>1, VisitRead, VisitFree, VisitWrite DEF Freeing
<1>2. CASE OpenIndex
  BY <1>2, OpenOther, OpenWrite
<1>3. CASE CloseIndex
  <2>1. op.kind \in {"remove", "rewrite", "write", "read"}
    BY <1>3, TotalSize DEF CloseIndex
  <2> QED BY <2>1, <1>3, CloseRead, CloseFree, CloseWrite DEF Freeing
<1>4. CASE WriteFails
  BY <1>0, <1>4, FailHeld
<1>5. CASE FreeingDone
  BY <1>0, <1>5, FreedHeld
<1>6. CASE Finish
  BY <1>0, <1>6, FinishHeld
<1>7. ASSUME NEW f \in Files, NEW kind \in {"remove", "rewrite"}, NEW n, StartFreeing(f, kind, n)
      PROVE  Held'
  <2>1. /\ Idle /\ at' = <<1>> /\ UNCHANGED <<free, content, size, addr, damaged>>
        /\ op'.kind = kind /\ op'.file = f /\ ~damaged[f]
    BY <1>7 DEF StartFreeing, Begin, MayUse
  <2> QED BY <2>1, <1>0, StartHeld
<1>8. ASSUME NEW f \in Files, StartRead(f)
      PROVE  Held'
  <2>1. /\ Idle /\ at' = <<1>> /\ UNCHANGED <<free, content, size, addr, damaged>>
        /\ op'.kind = "read"
    BY <1>8 DEF StartRead, Begin
  <2> QED BY <2>1, <1>0, StartHeld
<1>9. CASE UNCHANGED vars
  <2>1. /\ UNCHANGED <<free, content, size, addr, damaged, op, left, at, tabs, blks, buf>>
    BY <1>9 DEF vars
  <2>2. /\ Pos' = Pos /\ Depth' = Depth /\ (Idle' <=> Idle) /\ (Freeing' <=> Freeing)
    BY <2>1 DEF Pos, Depth, Idle, Freeing
  <2>3. /\ \A f \in Files : Owned(f)' = Owned(f)
        /\ \A f \in Files : \A p \in Cell : Word(f, p)' = Word(f, p)
    <3>1. \A f \in Files : Owned(f)' = Owned(f)
      BY <2>1, <2>2 DEF Owned
    <3>2. \A f : InCopy(f)' <=> InCopy(f)
      BY <2>1, <2>2 DEF InCopy
    <3>3. ASSUME NEW f \in Files, NEW p \in Cell
          PROVE  Word(f, p)' = Word(f, p)
      <4>1. Word2(f, p)' = Word2(f, p)
        BY <2>1, <2>2, <3>2 DEF Word2, Tab1
      <4>2. Tab2(f, p)' = Tab2(f, p)
        BY <2>1, <2>2, <3>2, <4>1 DEF Tab2
      <4> QED BY <2>1, <4>1, <4>2 DEF Word
    <3> QED BY <3>1, <3>3
  <2>4. Pool'
    <3>1. \A f \in Files : Owned(f) \subseteq Cell
      BY DEF Owned
    <3> QED BY <3>1, <2>1, <2>3, Stay DEF Held
  <2>5. Alive' /\ Copies' /\ Fetched'
    BY <2>1, <2>2 DEF Held, Alive, Copies, Fetched, Sound
  <2> QED BY <2>4, <2>5 DEF Held
<1> QED BY <1>1, <1>2, <1>3, <1>4, <1>5, <1>6, <1>7, <1>8, <1>9 DEF Next, Step

-----------------------------------------------------------------------------
(* The places of the on-disk format are the data cells, in order.          *)

LEMMA Division ==
  ASSUME NEW n \in Nat, NEW d \in Nat, d >= 1
  PROVE  /\ n \div d \in Nat /\ n % d \in Nat /\ n % d < d
         /\ n = d * (n \div d) + (n % d)
OBVIOUS

(* Quotient and remainder are the only ones.                               *)
LEMMA OneQuotient ==
  ASSUME NEW d \in Nat, NEW q \in Nat, NEW r \in Nat, r < d,
         NEW i \in Nat, NEW j \in Nat, j < d, d * q + r = d * i + j
  PROVE  q = i /\ r = j
<1>1. /\ q * d \in Nat /\ i * d \in Nat /\ q * d = d * q /\ i * d = d * i
      /\ (q + 1) * d = q * d + d /\ (i + 1) * d = i * d + d
  BY Times
<1>2. ~(q + 1 <= i)
  <2> SUFFICES ASSUME q + 1 <= i PROVE FALSE
    OBVIOUS
  <2>1. (q + 1) * d <= i * d
    BY TimesMonotone
  <2> DEFINE x == q * d
  <2> DEFINE y == i * d
  <2>2. x \in Nat /\ y \in Nat /\ x + d <= y /\ x + r = y + j
    BY <1>1, <2>1
  <2> HIDE DEF x, y
  <2> QED BY <2>2
<1>3. ~(i + 1 <= q)
  <2> SUFFICES ASSUME i + 1 <= q PROVE FALSE
    OBVIOUS
  <2>1. (i + 1) * d <= q * d
    BY TimesMonotone
  <2> DEFINE x == q * d
  <2> DEFINE y == i * d
  <2>2. x \in Nat /\ y \in Nat /\ y + d <= x /\ x + r = y + j
    BY <1>1, <2>1
  <2> HIDE DEF x, y
  <2> QED BY <2>2
<1>4. q = i
  BY <1>2, <1>3
<1> DEFINE x == d * q
<1>5. x \in Nat /\ x + r = x + j
  BY <1>4, <1>1
<1> HIDE DEF x
<1> QED BY <1>4, <1>5

(* The cell of the k-th data block.                                        *)
CellOf(k) ==
  LET l1 == k - Direct
      l2 == l1 - Indirect * Entries
      area == Entries * Entries
  IN CASE l1 < 0 -> <<k + 1, 0, 0>>
       [] l1 >= 0 /\ l2 < 0 ->
            <<Direct + 1 + (l1 \div Entries), 1 + (l1 % Entries), 0>>
       [] l2 >= 0 ->
            <<Direct + Indirect + 1 + (l2 \div area),
              1 + ((l2 % area) \div Entries), 1 + (l2 % Entries)>>

Path(p) == IF p[2] = 0 THEN <<p[1]>>
           ELSE IF p[3] = 0 THEN <<p[1], p[2]>> ELSE <<p[1], p[2], p[3]>>

LEMMA PlaceIsCell ==
  ASSUME NEW k \in 0 .. MaxSize - 1
  PROVE  /\ CellOf(k) \in Cell /\ IsData(CellOf(k)) /\ First(CellOf(k)) = k
         /\ Place(k) = Path(CellOf(k))
<1> DEFINE E == Entries
<1> DEFINE l1 == k - Direct
<1> DEFINE v == Indirect * E
<1> DEFINE l2 == l1 - v
<1> DEFINE area == E * E
<1>0. /\ E \in Nat /\ E >= 1 /\ Direct \in Nat /\ Indirect \in Nat /\ Secondary \in Nat
      /\ Slots = Direct + Indirect + Secondary /\ k \in Nat /\ v \in Nat /\ area \in Nat
      /\ area >= 1
  <2>1. 1 * E <= E * E
    BY SlotNumbers, TimesMonotone
  <2>2. E * E \in Nat /\ v \in Nat
    BY SlotNumbers, Times
  <2> QED BY <2>1, <2>2, SlotNumbers DEF Slots
<1>1. CASE l1 < 0
  <2>0. ~(l1 >= 0) /\ ~(l2 >= 0)
    <3> HIDE DEF v
    <3> QED BY <1>0, <1>1
  <2>1. CellOf(k) = <<k + 1, 0, 0>> /\ Place(k) = <<k + 1>>
    BY <2>0, <1>1 DEF CellOf, Place
  <2>2. CellOf(k) \in Cell /\ IsData(CellOf(k))
    BY <2>1, <1>1, <1>0 DEF Cell, IsData
  <2> QED BY <2>1, <2>2, <1>0, <1>1 DEF First, Path
<1>2. CASE l1 >= 0 /\ l2 < 0
  <2> DEFINE a == l1 \div E
  <2> DEFINE b == l1 % E
  <2>1. l1 \in Nat /\ ~(l1 < 0) /\ ~(l2 >= 0)
    BY <1>0, <1>2
  <2>2. /\ CellOf(k) = <<Direct + 1 + a, 1 + b, 0>> /\ Place(k) = <<Direct + 1 + a, 1 + b>>
    BY <2>1, <1>2 DEF CellOf, Place
  <2>3. a \in Nat /\ b \in Nat /\ b < E /\ l1 = E * a + b
    BY <2>1, <1>0, Division
  <2> HIDE DEF a, b
  <2>4. E * a \in Nat /\ E * a = a * E
    BY <2>3, <1>0, Times
  <2>5. a < Indirect
    <3> SUFFICES ASSUME Indirect <= a PROVE FALSE
      BY <2>3, <1>0
    <3>1. Indirect * E <= a * E
      BY <2>3, <1>0, TimesMonotone
    <3> DEFINE x == E * a
    <3>2. x \in Nat /\ v <= x /\ l1 = x + b /\ l1 - v < 0 /\ l1 \in Nat
      BY <3>1, <2>1, <2>3, <2>4, <1>2
    <3> HIDE DEF x, v, l1
    <3> QED BY <3>2, <2>3, <1>0
  <2>6. CellOf(k) \in Cell /\ IsData(CellOf(k))
    BY <2>2, <2>3, <2>5, <1>0 DEF Cell, IsData
  <2>7. First(CellOf(k)) = k
    <3>1. First(CellOf(k)) = Direct + E * (Direct + 1 + a - Direct - 1) + Before(1 + b, 1)
      BY <2>2, <2>3, <2>5, <1>0 DEF First
    <3>2. Direct + 1 + a - Direct - 1 = a /\ Before(1 + b, 1) = b
      BY <2>3, <1>0 DEF Before
    <3> DEFINE x == E * a
    <3>3. x \in Nat /\ First(CellOf(k)) = Direct + x + b /\ k - Direct = x + b
      BY <3>1, <3>2, <2>3, <2>4
    <3> HIDE DEF x
    <3> QED BY <3>3, <2>3, <1>0
  <2> QED BY <2>2, <2>3, <2>6, <2>7, <1>0 DEF Path
<1>3. CASE l2 >= 0
  <2> DEFINE a == l2 \div area
  <2> DEFINE r == l2 % area
  <2> DEFINE b == r \div E
  <2> DEFINE c == l2 % E
  <2>1. l2 \in Nat /\ ~(l2 < 0) /\ ~(l1 < 0)
    BY <1>0, <1>3
  <2>2. /\ CellOf(k) = <<Direct + Indirect + 1 + a, 1 + b, 1 + c>>
        /\ Place(k) = <<Direct + Indirect + 1 + a, 1 + b, 1 + c>>
    BY <2>1, <1>3 DEF CellOf, Place
  <2>3. a \in Nat /\ r \in Nat /\ r < area /\ l2 = area * a + r
    BY <2>1, <1>0, Division
  <2>4. b \in Nat /\ r % E \in Nat /\ r % E < E /\ r = E * b + (r % E)
    BY <2>3, <1>0, Division
  <2>5. c \in Nat /\ c < E /\ l2 \div E \in Nat /\ l2 = E * (l2 \div E) + c
    BY <2>1, <1>0, Division
  <2> DEFINE rr == r % E
  <2> DEFINE z == l2 \div E
  <2> HIDE DEF a, r, b, c, l2, rr, z
  <2>6. c = rr
    <3>1. /\ rr \in Nat /\ rr < E /\ r = E * b + rr
          /\ z \in Nat /\ l2 = E * z + c
      BY <2>4, <2>5 DEF rr, z
    <3>2. E * a \in Nat /\ area * a = E * (E * a)
      BY <2>3, <1>0, Times
    <3> DEFINE y == E * a
    <3>3. y \in Nat /\ l2 = E * y + (E * b + rr)
      BY <3>1, <3>2, <2>3
    <3> HIDE DEF y
    <3>4. y + b \in Nat /\ E * (y + b) + rr = E * z + c
      <4>1. E * (y + b) = E * y + E * b /\ E * y \in Nat /\ E * b \in Nat /\ y + b \in Nat
        BY <3>3, <2>4, <1>0, Times
      <4> DEFINE s == E * y
      <4> DEFINE t == E * b
      <4>2. s \in Nat /\ t \in Nat /\ l2 = s + (t + rr) /\ E * (y + b) = s + t
        BY <4>1, <3>3
      <4> HIDE DEF s, t
      <4>3. E * (y + b) + rr = l2
        BY <4>2, <3>1
      <4> QED BY <4>1, <4>3, <3>1
    <3> DEFINE q == y + b
    <3>5. q \in Nat /\ E * q + rr = E * z + c /\ rr \in Nat /\ z \in Nat /\ c \in Nat
          /\ rr < E /\ c < E /\ E \in Nat
      BY <3>1, <3>4, <2>5, <1>0
    <3> HIDE DEF q
    <3>6. \A d, m, i, s, j \in Nat : s < d /\ j < d /\ d * m + s = d * i + j => s = j
      BY OneQuotient
    <3> HIDE DEF E
    <3> QED BY <3>5, <3>6
  <2>7. r = E * b + c /\ c \in Nat /\ c < E
    BY <2>4, <2>6 DEF rr
  <2>8. b < E
    <3> SUFFICES ASSUME E <= b PROVE FALSE
      BY <2>4, <1>0
    <3>1. E * E <= b * E /\ b * E = E * b /\ E * b \in Nat
      BY <2>4, <1>0, TimesMonotone, Times
    <3> DEFINE x == E * b
    <3>2. x \in Nat /\ area <= x /\ r = x + c /\ area \in Nat
      BY <3>1, <2>7, <1>0
    <3> HIDE DEF x, area
    <3> QED BY <3>2, <2>3, <2>7
  <2>9. a < Secondary
    <3> SUFFICES ASSUME Secondary <= a PROVE FALSE
      BY <2>3, <1>0
    <3>1. Secondary * area <= a * area /\ a * area = area * a /\ area * a \in Nat
      BY <2>3, <1>0, TimesMonotone, Times
    <3>2. MaxSize <= Direct + v + Secondary * E * E
      BY SlotsAssumption
    <3>3. Secondary * E * E = Secondary * area /\ Secondary * area \in Nat
      BY <1>0, Times
    <3> DEFINE x == area * a
    <3> DEFINE y == Secondary * area
    <3>4. /\ x \in Nat /\ y \in Nat /\ y <= x /\ l2 = x + r /\ l2 = k - Direct - v
          /\ MaxSize <= Direct + v + y /\ v \in Nat
      BY <3>1, <3>2, <3>3, <2>3, <1>0 DEF l2
    <3> HIDE DEF x, y, v
    <3> QED BY <3>4, <2>3, <1>0, SlotNumbers
  <2>10. CellOf(k) \in Cell /\ IsData(CellOf(k))
    BY <2>2, <2>3, <2>4, <2>7, <2>8, <2>9, <1>0 DEF Cell, IsData
  <2>11. First(CellOf(k)) = k
    <3>1. First(CellOf(k)) = Direct + v + (Direct + Indirect + 1 + a - Direct - Indirect - 1) * E * E
                             + Before(1 + b, E) + Before(1 + c, 1)
      BY <2>2, <2>3, <1>0 DEF First
    <3>2. /\ Direct + Indirect + 1 + a - Direct - Indirect - 1 = a
          /\ Before(1 + b, E) = b * E /\ Before(1 + c, 1) = c
      BY <2>3, <2>4, <2>7, <1>0 DEF Before
    <3>3. a * E * E = area * a /\ b * E = E * b /\ area * a \in Nat /\ E * b \in Nat
      BY <2>3, <2>4, <1>0, Times
    <3> DEFINE x == area * a
    <3> DEFINE y == E * b
    <3>4. /\ x \in Nat /\ y \in Nat /\ v \in Nat /\ First(CellOf(k)) = Direct + v + x + y + c
          /\ l2 = x + (y + c) /\ l2 = k - Direct - v
      BY <3>1, <3>2, <3>3, <2>3, <2>7, <1>0 DEF l2
    <3> HIDE DEF x, y, v
    <3> QED BY <3>4, <2>7, <1>0
  <2> QED BY <2>2, <2>4, <2>7, <2>10, <2>11, <1>0 DEF Path
<1>4. l1 < 0 \/ (l1 >= 0 /\ l2 < 0) \/ l2 >= 0
  BY <1>0
<1> QED BY <1>1, <1>2, <1>3, <1>4, Zenon

(* No two data cells begin at the same offset.                             *)
LEMMA OneCell ==
  ASSUME NEW p \in Cell, NEW q \in Cell, IsData(p), IsData(q), First(p) = First(q)
  PROVE  p = q
<1>1. /\ p = <<p[1], p[2], p[3]>> /\ p[1] \in Nat /\ p[2] \in Nat /\ p[3] \in Nat
      /\ q = <<q[1], q[2], q[3]>> /\ q[1] \in Nat /\ q[2] \in Nat /\ q[3] \in Nat
      /\ p[2] # 0 => p[1] > Direct
      /\ p[3] # 0 => p[1] > Direct + Indirect /\ p[2] >= 1
      /\ q[2] # 0 => q[1] > Direct
      /\ q[3] # 0 => q[1] > Direct + Indirect /\ q[2] >= 1
  BY CellNumbers
<1>2. First(p) \in Nat /\ First(q) \in Nat
  BY CellIsPos, FirstSplit
<1>3. ~Passed(p, q) /\ ~Passed(q, p)
  BY <1>2, CellIsPos, PassedBefore
<1>4. p[1] = q[1]
  BY <1>1, <1>3 DEF Passed
<1>5. p[2] = q[2]
  BY <1>1, <1>3, <1>4, SlotNumbers DEF Passed, IsData
<1>6. p[3] = q[3]
  BY <1>1, <1>3, <1>4, <1>5, SlotNumbers DEF Passed, IsData
<1> QED BY <1>1, <1>4, <1>5, <1>6

LEMMA Prefix ==
  ASSUME NEW s \in Seq(Nat), NEW t \in Seq(Nat), Len(t) <= Len(s),
         \A i \in 1 .. Len(t) : t[i] = s[i]
  PROVE  SubSeq(s, 1, Len(t)) = t
<1> DEFINE n == Len(t)
<1>1. n \in Nat /\ \A i \in 1 .. n : s[i] \in Nat
  OBVIOUS
<1> HIDE DEF n
<1>2. /\ SubSeq(s, 1, n) \in Seq(Nat) /\ Len(SubSeq(s, 1, n)) = IF 1 <= n THEN n - 1 + 1 ELSE 0
      /\ \A i \in 1 .. n - 1 + 1 : SubSeq(s, 1, n)[i] = s[1 + i - 1]
  BY <1>1, SubSeqProperties
<1>3. SubSeq(s, 1, n) \in Seq(Nat) /\ Len(SubSeq(s, 1, n)) = n
  BY <1>1, <1>2
<1>4. \A i \in 1 .. n : SubSeq(s, 1, n)[i] = t[i]
  BY <1>1, <1>2 DEF n
<1> DEFINE u == SubSeq(s, 1, n)
<1>5. u \in Seq(Nat) /\ Len(u) = Len(t) /\ \A i \in 1 .. Len(u) : u[i] = t[i]
  BY <1>3, <1>4 DEF n
<1> HIDE DEF u
<1>6. u = t
  BY <1>5, SeqEqual
<1> QED BY <1>6 DEF u, n

LEMMA Prefixes ==
  ASSUME NEW a \in Nat, NEW b \in Nat, NEW c \in Nat
  PROVE  /\ SubSeq(<<a>>, 1, 1) = <<a>>
         /\ SubSeq(<<a, b>>, 1, 1) = <<a>> /\ SubSeq(<<a, b>>, 1, 2) = <<a, b>>
         /\ SubSeq(<<a, b, c>>, 1, 1) = <<a>> /\ SubSeq(<<a, b, c>>, 1, 2) = <<a, b>>
         /\ SubSeq(<<a, b, c>>, 1, 3) = <<a, b, c>>
<1> DEFINE s == <<a>>
<1> DEFINE t == <<a, b>>
<1> DEFINE u == <<a, b, c>>
<1>1. /\ s \in Seq(Nat) /\ Len(s) = 1 /\ s[1] = a
      /\ t \in Seq(Nat) /\ Len(t) = 2 /\ t[1] = a /\ t[2] = b
      /\ u \in Seq(Nat) /\ Len(u) = 3 /\ u[1] = a /\ u[2] = b /\ u[3] = c
  OBVIOUS
<1> HIDE DEF s, t, u
<1>2. /\ \A i \in 1 .. Len(s) : s[i] = t[i] /\ s[i] = u[i]
      /\ \A i \in 1 .. Len(t) : t[i] = u[i]
  BY <1>1
<1>3. SubSeq(s, 1, Len(s)) = s /\ SubSeq(t, 1, Len(s)) = s /\ SubSeq(u, 1, Len(s)) = s
  BY <1>1, <1>2, Prefix
<1>4. SubSeq(t, 1, Len(t)) = t /\ SubSeq(u, 1, Len(t)) = t /\ SubSeq(u, 1, Len(u)) = u
  BY <1>1, <1>2, Prefix
<1>5. /\ SubSeq(s, 1, 1) = s /\ SubSeq(t, 1, 1) = s /\ SubSeq(t, 1, 2) = t
      /\ SubSeq(u, 1, 1) = s /\ SubSeq(u, 1, 2) = t /\ SubSeq(u, 1, 3) = u
  BY <1>1, <1>3, <1>4
<1> QED BY <1>5 DEF s, t, u

(* The places the format gives a file are the cells that start before its  *)
(* end, and BlockAt reads the word there.                                  *)
LEMMA PlacesOf ==
  ASSUME NEW f \in Files, size[f] \in 0 .. MaxSize
  PROVE  /\ \A s \in Places(f) : \E p \in Cell : s = Path(p) /\ First(p) < size[f]
         /\ \A p \in Cell : First(p) < size[f] => Path(p) \in Places(f)
<1>0. \A k \in 0 .. size[f] - 1 : k \in 0 .. MaxSize - 1 /\ k \in Nat
  BY SlotNumbers
<1>1. ASSUME NEW k \in 0 .. size[f] - 1, NEW d \in 1 .. Len(Place(k))
      PROVE  \E p \in Cell : SubSeq(Place(k), 1, d) = Path(p) /\ First(p) < size[f]
  <2> DEFINE q == CellOf(k)
  <2>1. q \in Cell /\ IsData(q) /\ First(q) = k /\ Place(k) = Path(q)
    BY <1>0, PlaceIsCell
  <2> HIDE DEF q
  <2>2. /\ q = <<q[1], q[2], q[3]>> /\ q[1] \in Nat /\ q[2] \in Nat /\ q[3] \in Nat
        /\ q[3] # 0 => q[2] # 0
    BY <2>1, CellNumbers
  <2>3. First(q) < size[f] /\ First(q) \in Nat /\ size[f] \in Nat
    BY <2>1, <1>0, SlotNumbers
  <2>4. d \in Nat /\ d >= 1 /\ d <= Len(Path(q))
    <3>1. Len(Path(q)) \in Nat
      BY <2>2 DEF Path
    <3> QED BY <2>1, <3>1
  <2>5. CASE q[2] = 0
    <3>1. Path(q) = <<q[1]>> /\ d = 1
      BY <2>4, <2>5 DEF Path
    <3>2. SubSeq(<<q[1]>>, 1, 1) = <<q[1]>>
      BY <2>2, Prefixes
    <3> QED BY <3>1, <3>2, <2>1, <2>3
  <2>6. CASE q[2] # 0 /\ q[3] = 0
    <3>1. Path(q) = <<q[1], q[2]>> /\ d \in 1 .. 2
      BY <2>4, <2>6 DEF Path
    <3>2. SubSeq(<<q[1], q[2]>>, 1, 1) = <<q[1]>> /\ SubSeq(<<q[1], q[2]>>, 1, 2) = <<q[1], q[2]>>
      BY <2>2, Prefixes
    <3>3. Outer(q) \in Cell /\ First(Outer(q)) <= First(q) /\ Path(Outer(q)) = <<q[1]>>
      BY <2>1, <2>6, OnTheWay DEF Path, Outer
    <3>4. First(Outer(q)) < size[f]
      BY <3>3, <2>3, CellIsPos, FirstSplit
    <3>5. CASE d = 1
      BY <3>1, <3>2, <3>3, <3>4, <3>5, <2>1
    <3>6. CASE d = 2
      BY <3>1, <3>2, <3>6, <2>1, <2>3
    <3> QED BY <3>1, <3>5, <3>6
  <2>7. CASE q[2] # 0 /\ q[3] # 0
    <3>1. Path(q) = <<q[1], q[2], q[3]>> /\ d \in 1 .. 3
      BY <2>4, <2>7 DEF Path
    <3>2. /\ SubSeq(<<q[1], q[2], q[3]>>, 1, 1) = <<q[1]>>
          /\ SubSeq(<<q[1], q[2], q[3]>>, 1, 2) = <<q[1], q[2]>>
          /\ SubSeq(<<q[1], q[2], q[3]>>, 1, 3) = <<q[1], q[2], q[3]>>
      BY <2>2, Prefixes
    <3>3. /\ Outer(q) \in Cell /\ First(Outer(q)) <= First(q) /\ Path(Outer(q)) = <<q[1]>>
          /\ Middle(q) \in Cell /\ First(Middle(q)) <= First(q)
          /\ Path(Middle(q)) = <<q[1], q[2]>>
      BY <2>1, <2>7, OnTheWay DEF Path, Outer, Middle
    <3>4. First(Outer(q)) < size[f] /\ First(Middle(q)) < size[f]
      BY <3>3, <2>3, CellIsPos, FirstSplit
    <3>5. CASE d = 1
      BY <3>1, <3>2, <3>3, <3>4, <3>5, <2>1
    <3>6. CASE d = 2
      BY <3>1, <3>2, <3>3, <3>4, <3>6, <2>1
    <3>7. CASE d = 3
      BY <3>1, <3>2, <3>7, <2>1, <2>3
    <3> QED BY <3>1, <3>5, <3>6, <3>7
  <2> QED BY <2>2, <2>5, <2>6, <2>7
<1>2. ASSUME NEW p \in Cell, First(p) < size[f]
      PROVE  Path(p) \in Places(f)
  <2> DEFINE k == First(p)
  <2> DEFINE q == CellOf(k)
  <2>0. k \in 0 .. size[f] - 1
    BY <1>2, CellIsPos, FirstSplit, SlotNumbers
  <2>1. q \in Cell /\ IsData(q) /\ First(q) = k /\ Place(k) = Path(q)
    BY <2>0, <1>0, PlaceIsCell
  <2> HIDE DEF q
  <2>2. /\ p = <<p[1], p[2], p[3]>> /\ p[1] \in Nat /\ p[2] \in Nat /\ p[3] \in Nat
        /\ p[1] >= 1 /\ p[1] <= Slots /\ p[2] <= Entries /\ p[3] <= Entries
        /\ p[2] # 0 => p[1] > Direct
        /\ p[3] # 0 => p[1] > Direct + Indirect /\ p[2] >= 1
    BY CellNumbers
  <2> DEFINE leaf == IF IsData(p) THEN p
                     ELSE IF p[1] <= Direct + Indirect THEN <<p[1], 1, 0>>
                     ELSE IF p[2] = 0 THEN <<p[1], 1, 1>> ELSE <<p[1], p[2], 1>>
  <2>3. leaf \in Cell /\ IsData(leaf) /\ First(leaf) = First(p)
    <3>1. CASE IsData(p)
      BY <3>1
    <3>2. CASE ~IsData(p) /\ p[1] <= Direct + Indirect
      <4>1. p[1] > Direct /\ p[2] = 0 /\ leaf = <<p[1], 1, 0>>
        BY <3>2, <2>2, SlotNumbers DEF IsData
      <4>2. leaf \in Cell /\ IsData(leaf)
        BY <4>1, <3>2, <2>2, SlotNumbers DEF Cell, IsData
      <4>3. Before(1, 1) = 0 /\ Before(0, 1) = 0
        BY DEF Before
      <4>4. /\ First(leaf) = Direct + Entries * (p[1] - Direct - 1) + Before(1, 1)
            /\ First(p) = Direct + Entries * (p[1] - Direct - 1) + Before(0, 1)
        BY <4>1, <3>2, <2>2, SlotNumbers DEF First
      <4> QED BY <4>2, <4>3, <4>4
    <3>3. CASE ~IsData(p) /\ p[1] > Direct + Indirect
      <4>1. p[3] = 0 /\ leaf = <<p[1], IF p[2] = 0 THEN 1 ELSE p[2], 1>>
        BY <3>3, <2>2, SlotNumbers DEF IsData
      <4>2. leaf \in Cell /\ IsData(leaf)
        BY <4>1, <3>3, <2>2, SlotNumbers DEF Cell, IsData
      <4>3. Before(1, 1) = 0 /\ Before(0, 1) = 0 /\ Before(0, Entries) = 0 /\ Before(1, Entries) = 0
        <5>1. 0 * Entries = 0
          BY SlotNumbers
        <5> QED BY <5>1 DEF Before
      <4>4. /\ First(leaf) = Direct + Indirect * Entries
                  + (p[1] - Direct - Indirect - 1) * Entries * Entries
                  + Before(IF p[2] = 0 THEN 1 ELSE p[2], Entries) + Before(1, 1)
            /\ First(p) = Direct + Indirect * Entries
                  + (p[1] - Direct - Indirect - 1) * Entries * Entries
                  + Before(p[2], Entries) + Before(0, 1)
        BY <4>1, <3>3, <2>2, SlotNumbers DEF First
      <4> QED BY <4>2, <4>3, <4>4
    <3> QED BY <3>1, <3>2, <3>3, <2>2, SlotNumbers
  <2>4. q = leaf
    BY <2>1, <2>3, OneCell
  <2>5. q[1] = p[1] /\ (p[2] # 0 => q[2] = p[2]) /\ (p[3] # 0 => q[3] = p[3] /\ p[2] # 0)
    BY <2>4, <2>2 DEF IsData
  <2>6. \E d \in 1 .. Len(Path(q)) : Path(p) = SubSeq(Path(q), 1, d)
    <3>0. /\ q = <<q[1], q[2], q[3]>> /\ q[1] \in Nat /\ q[2] \in Nat /\ q[3] \in Nat
          /\ q[3] # 0 => q[2] # 0
      BY <2>1, CellNumbers
    <3>1. /\ SubSeq(<<q[1]>>, 1, 1) = <<q[1]>>
          /\ SubSeq(<<q[1], q[2]>>, 1, 1) = <<q[1]>>
          /\ SubSeq(<<q[1], q[2]>>, 1, 2) = <<q[1], q[2]>>
          /\ SubSeq(<<q[1], q[2], q[3]>>, 1, 1) = <<q[1]>>
          /\ SubSeq(<<q[1], q[2], q[3]>>, 1, 2) = <<q[1], q[2]>>
          /\ SubSeq(<<q[1], q[2], q[3]>>, 1, 3) = <<q[1], q[2], q[3]>>
      BY <3>0, Prefixes
    <3>2. CASE q[2] = 0
      <4>1. Path(q) = <<q[1]>> /\ Path(p) = <<q[1]>> /\ Len(Path(q)) = 1
        BY <3>2, <2>5 DEF Path
      <4> QED BY <4>1, <3>1
    <3>3. CASE q[2] # 0 /\ q[3] = 0
      <4>1. /\ Path(q) = <<q[1], q[2]>> /\ 1 \in 1 .. Len(Path(q)) /\ 2 \in 1 .. Len(Path(q))
            /\ Path(p) = <<q[1]>> \/ Path(p) = <<q[1], q[2]>>
        BY <3>3, <2>5 DEF Path
      <4> QED BY <4>1, <3>1, Zenon
    <3>4. CASE q[2] # 0 /\ q[3] # 0
      <4>1. /\ Path(q) = <<q[1], q[2], q[3]>>
            /\ 1 \in 1 .. Len(Path(q)) /\ 2 \in 1 .. Len(Path(q)) /\ 3 \in 1 .. Len(Path(q))
            /\ \/ Path(p) = <<q[1]>>
               \/ Path(p) = <<q[1], q[2]>>
               \/ Path(p) = <<q[1], q[2], q[3]>>
        BY <3>4, <2>5 DEF Path
      <4> QED BY <4>1, <3>1, Zenon
    <3> QED BY <3>2, <3>3, <3>4
  <2>7. Path(p) \in {SubSeq(Place(k), 1, d) : d \in 1 .. Len(Place(k))}
    BY <2>1, <2>6
  <2> HIDE DEF k
  <2> QED BY <2>0, <2>7 DEF Places
<1>3. ASSUME NEW s \in Places(f)
      PROVE  \E p \in Cell : s = Path(p) /\ First(p) < size[f]
  <2>1. PICK k \in 0 .. size[f] - 1 : s \in {SubSeq(Place(k), 1, d) : d \in 1 .. Len(Place(k))}
    BY DEF Places
  <2>2. PICK d \in 1 .. Len(Place(k)) : s = SubSeq(Place(k), 1, d)
    BY <2>1
  <2> QED BY <2>2, <1>1
<1> QED BY <1>2, <1>3

LEMMA BlockAtPath ==
  ASSUME NEW f \in Files, NEW p \in Cell
  PROVE  BlockAt(f, Path(p)) = Plain(f, p)
<1>1. p[2] = 0 => p[3] = 0
  BY CellNumbers
<1>2. CASE p[2] = 0
  <2>1. Path(p) = <<p[1]>> /\ Len(Path(p)) = 1 /\ Path(p)[1] = p[1]
    BY <1>2 DEF Path
  <2> QED BY <2>1, <1>2 DEF BlockAt, Plain
<1>3. CASE p[2] # 0 /\ p[3] = 0
  <2>1. Len(Path(p)) = 2 /\ Path(p)[1] = p[1] /\ Path(p)[2] = p[2]
    BY <1>3 DEF Path
  <2> QED BY <2>1, <1>3 DEF BlockAt, Plain
<1>4. CASE p[2] # 0 /\ p[3] # 0
  <2>1. Len(Path(p)) = 3 /\ Path(p)[1] = p[1] /\ Path(p)[2] = p[2] /\ Path(p)[3] = p[3]
    BY <1>4 DEF Path
  <2> QED BY <2>1, <1>4 DEF BlockAt, Plain
<1> QED BY <1>1, <1>2, <1>3, <1>4

(* A file no write is in the middle of owns exactly its places.            *)
LEMMA SettledOwns ==
  ASSUME Shape, Copies, NEW f \in Files, Settled(f)
  PROVE  /\ size[f] \in 0 .. MaxSize
         /\ \A p \in Cell : First(p) < size[f] =>
              p \in Owned(f) /\ Word(f, p) = BlockAt(f, Path(p))
<1>1. size[f] \in 0 .. MaxSize
  BY DEF Shape, Typed
<1>2. ~damaged[f] /\ (op.kind = "idle" \/ op.file # f \/ op.kind = "read")
  BY DEF Settled, Idle
<1>3. ASSUME NEW p \in Cell, First(p) < size[f]
      PROVE  p \in Owned(f) /\ Word(f, p) = BlockAt(f, Path(p))
  <2>1. p \in Owned(f)
    BY <1>2, <1>3 DEF Owned, Freeing
  <2>2. Word(f, p) = Plain(f, p)
    BY <1>2, PlainWords DEF PlainFact
  <2> QED BY <2>1, <2>2, BlockAtPath
<1> QED BY <1>1, <1>3

-----------------------------------------------------------------------------
(* What follows from the invariant.                                        *)

LEMMA HeldFilesDisjoint ==
  ASSUME Shape, Held
  PROVE  FilesDisjoint
<1>0. Kept /\ Apart /\ Copies
  BY DEF Held, Pool
<1>1. ASSUME NEW f \in Files, Settled(f), NEW s \in Places(f)
      PROVE  \E p \in Owned(f) : s = Path(p) /\ BlockAt(f, s) = Word(f, p)
  <2>1. PICK p \in Cell : s = Path(p) /\ First(p) < size[f]
    BY <1>0, <1>1, SettledOwns, PlacesOf
  <2> QED BY <2>1, <1>0, <1>1, SettledOwns
<1>2. ASSUME NEW f \in Files, Settled(f), NEW g \in Files, Settled(g),
             NEW s \in Places(f), NEW t \in Places(g)
      PROVE  /\ BlockAt(f, s) \in Zone \ free
             /\ BlockAt(f, s) = BlockAt(g, t) => f = g /\ s = t
  <2>1. PICK p \in Owned(f) : s = Path(p) /\ BlockAt(f, s) = Word(f, p)
    BY <1>1, <1>2
  <2>2. PICK q \in Owned(g) : t = Path(q) /\ BlockAt(g, t) = Word(g, q)
    BY <1>1, <1>2
  <2>3. Word(f, p) \in Zone \ free /\ (Word(f, p) = Word(g, q) => f = g /\ p = q)
    BY <1>0 DEF Kept, Apart
  <2> QED BY <2>1, <2>2, <2>3
<1> QED BY <1>2 DEF FilesDisjoint

LEMMA HeldNothingLost ==
  ASSUME Shape, Held
  PROVE  NothingLost
<1> SUFFICES ASSUME Idle, \A f \in Files : ~damaged[f]
             PROVE  Zone = free \cup UNION {{BlockAt(f, p) : p \in Places(f)} : f \in Files}
  BY DEF NothingLost
<1> DEFINE InFiles == UNION {{BlockAt(f, p) : p \in Places(f)} : f \in Files}
<1>0. Kept /\ Covered /\ Copies /\ FilesDisjoint
  BY HeldFilesDisjoint DEF Held, Pool
<1>1. \A f \in Files : Settled(f)
  BY DEF Settled
<1>2. ASSUME NEW b \in InFiles PROVE b \in Zone
  <2>0. PICK f \in Files : b \in {BlockAt(f, p) : p \in Places(f)}
    BY <1>2
  <2>1. PICK s \in Places(f) : b = BlockAt(f, s)
    BY <2>0
  <2>2. f \in {h \in Files : Settled(h)}
    BY <1>1
  <2> QED BY <1>0, <2>1, <2>2 DEF FilesDisjoint
<1>3. ASSUME NEW b \in Zone \ free PROVE b \in InFiles
  <2>0. PICK f \in Files : \E p \in Owned(f) : Word(f, p) = b
    BY <1>0 DEF Covered
  <2>1. PICK p \in Owned(f) : Word(f, p) = b
    BY <2>0
  <2>2. p \in Cell /\ First(p) < size[f]
    BY DEF Owned
  <2>3. Path(p) \in Places(f) /\ BlockAt(f, Path(p)) = b
    BY <2>1, <2>2, <1>0, <1>1, SettledOwns, PlacesOf
  <2> QED BY <2>3
<1>4. free \subseteq Zone
  BY <1>0 DEF Kept
<1> HIDE DEF InFiles
<1>5. Zone = free \cup InFiles
  BY <1>2, <1>3, <1>4
<1> QED BY <1>5 DEF InFiles

LEMMA HeldFreesOnlyHeld ==
  ASSUME Shape, Held
  PROVE  FreesOnlyHeld
<1> SUFFICES ASSUME Freeing
             PROVE  /\ ~LoopDone => OldBlock \in Zone \ free
                    /\ LoopDone /\ Depth > 0 => blks[Depth] \in Zone \ free
  BY DEF FreesOnlyHeld
<1>0. Kept /\ Copies /\ Sound /\ op.kind # "write" /\ op.file \in Files
  BY DEF Held, Pool, Alive, Sound, Freeing, Idle, Shape, Typed
<1>1. ~LoopDone => OldBlock \in Zone \ free
  BY <1>0, HereOwned DEF Kept
<1>2. Depth > 0 => blks[Depth] \in Zone \ free
  <2>1. Depth > 0 => Depth # 0
    OBVIOUS
  <2> QED BY <2>1, <1>0, OpenBlocks DEF Kept
<1> QED BY <1>1, <1>2

LEMMA HeldReadBack ==
  ASSUME Shape, Held
  PROVE  ReadBack
<1> SUFFICES ASSUME op.kind = "read", TraversalDone, ~damaged[op.file],
                    NEW k \in 0 .. size[op.file] - 1
             PROVE  buf[k] = <<op.file, k>>
  BY DEF ReadBack
<1>0. Fetched /\ Sound /\ size[op.file] \in 0 .. MaxSize
  BY DEF Held, Sound, TraversalDone, Shape, Typed
<1>1. k \in 0 .. MaxSize - 1 /\ k < size[op.file]
  BY <1>0, SlotNumbers
<1>2. CellOf(k) \in Cell /\ IsData(CellOf(k)) /\ First(CellOf(k)) = k
  BY <1>1, PlaceIsCell
<1>3. Passed(CellOf(k), Pos)
  BY <1>1, <1>2, AllPassed
<1> QED BY <1>0, <1>1, <1>2, <1>3 DEF Fetched

(* Both parts of the invariant hold for clients that keep away from files  *)
(* whose write has failed.                                                 *)
LEMMA Invariant ==
  ASSUME ~ReuseDamaged
  PROVE  Spec => [](Shape /\ Held)
<1>1. Init => Shape /\ Held
  BY InitShape, InitHeld
<1>2. Shape /\ Held /\ [Next]_vars => (Shape /\ Held)'
  BY StepShape, StepHeld
<1> QED BY <1>1, <1>2, PTL DEF Spec

-----------------------------------------------------------------------------
(* The theorems.  Each is about clients that neither remove nor write      *)
(* again a file whose last write ran out of blocks; for others the code    *)
(* breaks the free list, as the run boot_sector_freed shows.               *)

(* No two places of settled files share a block, nor does the free list    *)
(* have it: alloc_block, write_file's write-back and free_inode_blocks     *)
(* together keep the trees apart for every size of the zone, every shape   *)
(* of the inode, and every order in which blocks are handed out.           *)
THEOREM FilesApart ==
  ASSUME ~ReuseDamaged
  PROVE  Spec => []FilesDisjoint
<1>1. Shape /\ Held => FilesDisjoint
  BY HeldFilesDisjoint
<1> QED BY <1>1, Invariant, PTL

(* Between operations every block of the zone is free or in a file, as     *)
(* long as no write has failed: index blocks are given back as data blocks *)
(* are, and write_file asks for no block it does not put into the tree.    *)
THEOREM NothingIsLost ==
  ASSUME ~ReuseDamaged
  PROVE  Spec => []NothingLost
<1>1. Shape /\ Held => NothingLost
  BY HeldNothingLost
<1> QED BY <1>1, Invariant, PTL

(* free_inode_blocks gives up only blocks in use: what FreeList requires   *)
(* of its clients, in every state in which free_block may be called.       *)
THEOREM ReleasesHeld ==
  ASSUME ~ReuseDamaged
  PROVE  Spec => []FreesOnlyHeld
<1>1. Shape /\ Held => FreesOnlyHeld
  BY HeldFreesOnlyHeld
<1> QED BY <1>1, Invariant, PTL

(* read_file returns each block of the last write_file at its offset,      *)
(* through direct, indirect and secondary slots alike.                     *)
THEOREM ReadsBack ==
  ASSUME ~ReuseDamaged
  PROVE  Spec => []ReadBack
<1>1. Shape /\ Held => ReadBack
  BY HeldReadBack
<1> QED BY <1>1, Invariant, PTL

(* The boot sector gets into the free list only through a file whose write *)
(* has failed: with clients that leave such files alone it never does.     *)
THEOREM BootSectorSafe ==
  ASSUME ~ReuseDamaged
  PROVE  Spec => []BootSectorKept
<1>1. Shape /\ Held => BootSectorKept
  <2>1. Held => free \subseteq Zone
    BY DEF Held, Pool, Kept
  <2>2. Boot \notin Zone
    BY ZoneAssumption DEF Boot
  <2> QED BY <2>1, <2>2 DEF BootSectorKept
<1> QED BY <1>1, Invariant, PTL
=============================================================================
