------------------------------ MODULE VfsProofs ------------------------------
(***************************************************************************)
(* Proofs about Vfs, for any number of inodes, names, files and blocks and *)
(* any interleaving of commands with failing writes.                       *)
(*                                                                         *)
(* Argument.  The invariant is Sure: the disk is Tidy, until a command is  *)
(* handed the inode of the root, which makes it Astray; after that only    *)
(* format goes on, and makes it Tidy again.  Tidy joins four things.  The  *)
(* disk is Healthy: entries have inodes in use, each inode but the root    *)
(* has one entry at most and none leads back to the root, no directory has *)
(* two entries of one name, and one whose last write failed has no block.  *)
(* The working directory is a stack of directories from the root, each an  *)
(* entry of the one before; a removal refuses to take one of them, and     *)
(* with one entry for each inode a subtree cannot reach one otherwise. The *)
(* blocks free and those of undamaged inodes are all there are, where the  *)
(* sum over the inodes is a fold whose value changes with one inode at a   *)
(* time.  And there are no more inodes in use that no stack ends at than   *)
(* there are directories that did not get a block for their entries.       *)
(*                                                                         *)
(* Every command is built from a few steps on one disk: an entry added or  *)
(* taken away, a node stored or freed, a subtree emptied.  The lemmas      *)
(* follow these, and a command is a chain of them.                         *)
(*                                                                         *)
(* For the properties of steps, and for the refinement of NameTree, Effect *)
(* says what a step can have done to the disk: nothing, an inode without a *)
(* name, one leaf more (NewLeaf), one leaf or empty directory less         *)
(* (LeafDropped), a directory emptied and then dropped or not              *)
(* (TreePruned), a new leaf and an old one dropped (FileRenamed), or a     *)
(* format.  What a user sees are trails: a path of names with the stack of *)
(* inodes it leads along.  An inode has one trail at most, since it has    *)
(* one entry, and Listing, which goes down level by level, finds exactly   *)
(* those trails (Shown): a stack is never longer than there are inodes.    *)
(* So one entry added shows one path, one entry removed hides one path,    *)
(* and a directory emptied hides what is under it; types and contents of   *)
(* the rest stay.  Directories have no contents (Bare), so that removing   *)
(* one loses none.                                                         *)
(***************************************************************************)
EXTENDS Vfs, FiniteSetTheorems, WellFoundedInduction, SequenceTheorems, TLAPS

-----------------------------------------------------------------------------
(* Sums over sets of inodes.                                               *)

Total(f, S) == FoldFunctionOnSet(+, 0, f, S)
Some(s) == CHOOSE x \in s : TRUE
IsSum(g, f, S) ==
  g = [s \in SUBSET S |-> IF s = {} THEN 0 ELSE f[Some(s)] + g[s \ {Some(s)}]]

LEMMA Smallest ==
  ASSUME NEW S, IsFiniteSet(S), NEW B, B \subseteq SUBSET S, B # {}
  PROVE  \E s \in B : \A t \in SUBSET s : t # s => t \notin B
<1>1. IsWellFoundedOn(StrictSubsetOrdering(S), SUBSET S)
  BY FS_StrictSubsetOrderingWellFounded, FS_FiniteSubsetsOfFinite
<1>2. PICK s \in B : \A t \in B : ~(<<t, s>> \in StrictSubsetOrdering(S))
  BY <1>1, WFMin
<1>3. \A t \in SUBSET s : t # s => t \notin B
  BY <1>2 DEF StrictSubsetOrdering
<1> QED BY <1>2, <1>3

LEMMA Somewhere ==
  ASSUME NEW s, s # {}
  PROVE  Some(s) \in s
BY DEF Some

LEMMA SumAt ==
  ASSUME NEW S, NEW f, NEW g, IsSum(g, f, S), NEW s \in SUBSET S
  PROVE  g[s] = IF s = {} THEN 0 ELSE f[Some(s)] + g[s \ {Some(s)}]
<1> DEFINE F(r) == IF r = {} THEN 0 ELSE f[Some(r)] + g[r \ {Some(r)}]
<1>1. g = [r \in SUBSET S |-> F(r)]
  BY DEF IsSum
<1> HIDE DEF F
<1>2. g[s] = F(s)
  BY <1>1
<1> QED BY <1>2 DEF F

LEMMA SumsAgree ==
  ASSUME NEW S, IsFiniteSet(S), NEW R, NEW f, NEW g, NEW h, IsSum(g, f, S), IsSum(h, f, R),
         NEW s \in SUBSET S, s \subseteq R
  PROVE  g[s] = h[s]
<1> DEFINE B == {t \in SUBSET s : g[t] # h[t]}
<1> SUFFICES ASSUME g[s] # h[s] PROVE FALSE
  OBVIOUS
<1>1. B \subseteq SUBSET S /\ B # {}
  OBVIOUS
<1> HIDE DEF B
<1>2. PICK t \in B : \A r \in SUBSET t : r # t => r \notin B
  BY <1>1, Smallest
<1>3. t \in SUBSET s /\ t \in SUBSET S /\ t \in SUBSET R
  BY DEF B
<1>4. CASE t = {}
  BY <1>2, <1>3, <1>4, SumAt DEF B
<1>5. CASE t # {}
  <2>1. Some(t) \in t
    BY <1>5, Somewhere
  <2> DEFINE r == t \ {Some(t)}
  <2>2. r \in SUBSET s /\ r \notin B
    BY <1>2, <1>3, <2>1
  <2>3. g[r] = h[r]
    BY <2>2 DEF B
  <2>4. g[t] = f[Some(t)] + g[r] /\ h[t] = f[Some(t)] + h[r]
    BY <1>3, <1>5, SumAt
  <2> QED BY <1>2, <2>3, <2>4 DEF B
<1> QED BY <1>4, <1>5

LEMMA TotalIs ==
  ASSUME NEW S, NEW f
  PROVE  Total(f, S) = (CHOOSE g : IsSum(g, f, S))[S]
BY DEF Total, FoldFunctionOnSet, MapThenFoldSet, IsSum, Some

LEMMA SumOf ==
  ASSUME NEW S, IsFiniteSet(S), NEW f, NEW g, IsSum(g, f, S)
  PROVE  Total(f, S) = g[S]
<1> DEFINE h == CHOOSE h : IsSum(h, f, S)
<1>1. IsSum(h, f, S)
  OBVIOUS
<1> HIDE DEF h
<1>2. h[S] = g[S]
  BY <1>1, SumsAgree
<1>3. Total(f, S) = h[S]
  BY TotalIs DEF h
<1> QED BY <1>2, <1>3

LEMMA SumsExist ==
  ASSUME NEW S, IsFiniteSet(S), NEW f
  PROVE  \E g : IsSum(g, f, S)
<1> DEFINE B == {t \in SUBSET S : ~\E g : IsSum(g, f, t)}
<1> SUFFICES ASSUME B # {} PROVE FALSE
  OBVIOUS
<1>0. B \subseteq SUBSET S
  OBVIOUS
<1> HIDE DEF B
<1>1. PICK t \in B : \A r \in SUBSET t : r # t => r \notin B
  BY <1>0, Smallest
<1>2. t \in SUBSET S /\ ~\E g : IsSum(g, f, t)
  BY <1>1 DEF B
<1>3. \A r \in SUBSET t : IsFiniteSet(r)
  BY <1>2, FS_Subset
<1>4. ASSUME NEW r \in SUBSET t, r # t
      PROVE  Total(f, r) = IF r = {} THEN 0 ELSE f[Some(r)] + Total(f, r \ {Some(r)})
  <2>1. PICK g : IsSum(g, f, r)
    BY <1>1, <1>2, <1>4 DEF B
  <2>2. Total(f, r) = g[r]
    BY <1>3, <2>1, SumOf
  <2>3. CASE r = {}
    BY <2>1, <2>2, <2>3, SumAt
  <2>4. CASE r # {}
    <3> DEFINE q == r \ {Some(r)}
    <3>1. q \in SUBSET r /\ q # r
      BY <2>4, Somewhere
    <3>2. PICK h : IsSum(h, f, q)
      BY <1>1, <1>2, <1>4, <3>1 DEF B
    <3>3. Total(f, q) = h[q]
      BY <1>3, <3>1, <3>2, SumOf
    <3>4. g[q] = h[q]
      BY <1>3, <2>1, <3>1, <3>2, SumsAgree
    <3>5. g[r] = f[Some(r)] + g[q]
      BY <2>1, <2>4, SumAt
    <3> QED BY <2>2, <2>4, <3>3, <3>4, <3>5
  <2> QED BY <2>3, <2>4
<1> DEFINE g == [r \in SUBSET t |->
                   IF r # t THEN Total(f, r)
                   ELSE IF t = {} THEN 0 ELSE f[Some(t)] + Total(f, t \ {Some(t)})]
<1>5. ASSUME NEW r \in SUBSET t
      PROVE  g[r] = IF r = {} THEN 0 ELSE f[Some(r)] + g[r \ {Some(r)}]
  <2>1. r # {} => r \ {Some(r)} \in SUBSET t /\ r \ {Some(r)} # t
    BY Somewhere
  <2> QED BY <1>4, <2>1
<1>6. g = [r \in SUBSET t |-> IF r = {} THEN 0 ELSE f[Some(r)] + g[r \ {Some(r)}]]
  BY <1>5
<1> QED BY <1>2, <1>6 DEF IsSum

LEMMA TotalSteps ==
  ASSUME NEW S, IsFiniteSet(S), NEW f
  PROVE  Total(f, S) = IF S = {} THEN 0 ELSE f[Some(S)] + Total(f, S \ {Some(S)})
<1>1. PICK g : IsSum(g, f, S)
  BY SumsExist
<1>2. Total(f, S) = g[S]
  BY <1>1, SumOf
<1>3. CASE S = {}
  BY <1>1, <1>2, <1>3, SumAt
<1>4. CASE S # {}
  <2> DEFINE q == S \ {Some(S)}
  <2>1. IsFiniteSet(q)
    BY FS_Subset
  <2>2. PICK h : IsSum(h, f, q)
    BY <2>1, SumsExist
  <2>3. Total(f, q) = h[q]
    BY <2>1, <2>2, SumOf
  <2>4. g[q] = h[q]
    BY <1>1, <2>2, SumsAgree
  <2>5. g[S] = f[Some(S)] + g[q]
    BY <1>1, <1>4, SumAt
  <2> QED BY <1>2, <1>4, <2>3, <2>4, <2>5
<1> QED BY <1>3, <1>4

LEMMA TotalSame ==
  ASSUME NEW S, IsFiniteSet(S), NEW f, NEW g, \A x \in S : f[x] = g[x]
  PROVE  Total(f, S) = Total(g, S)
<1> DEFINE B == {t \in SUBSET S : Total(f, t) # Total(g, t)}
<1> SUFFICES ASSUME B # {} PROVE FALSE
  OBVIOUS
<1>1. B \subseteq SUBSET S
  OBVIOUS
<1> HIDE DEF B
<1>2. PICK t \in B : \A r \in SUBSET t : r # t => r \notin B
  BY <1>1, Smallest
<1>3. t \in SUBSET S /\ Total(f, t) # Total(g, t) /\ IsFiniteSet(t)
  BY <1>2, FS_Subset DEF B
<1>4. t # {}
  BY <1>3, TotalSteps
<1>5. Some(t) \in t
  BY <1>4, Somewhere
<1> DEFINE r == t \ {Some(t)}
<1>6. Total(f, r) = Total(g, r)
  BY <1>2, <1>3, <1>5 DEF B
<1>7. Total(f, t) = f[Some(t)] + Total(f, r) /\ Total(g, t) = g[Some(t)] + Total(g, r)
  BY <1>3, <1>4, TotalSteps
<1> QED BY <1>3, <1>5, <1>6, <1>7

LEMMA TotalNat ==
  ASSUME NEW S, IsFiniteSet(S), NEW f, \A x \in S : f[x] \in Nat
  PROVE  Total(f, S) \in Nat
<1> DEFINE B == {t \in SUBSET S : Total(f, t) \notin Nat}
<1> SUFFICES ASSUME B # {} PROVE FALSE
  OBVIOUS
<1>1. B \subseteq SUBSET S
  OBVIOUS
<1> HIDE DEF B
<1>2. PICK t \in B : \A r \in SUBSET t : r # t => r \notin B
  BY <1>1, Smallest
<1>3. t \in SUBSET S /\ Total(f, t) \notin Nat /\ IsFiniteSet(t)
  BY <1>2, FS_Subset DEF B
<1>4. t # {}
  <2>1. t = {} => Total(f, t) = 0
    BY <1>3, TotalSteps
  <2> QED BY <1>3, <2>1
<1>5. Some(t) \in t
  BY <1>4, Somewhere
<1> DEFINE r == t \ {Some(t)}
<1>6. Total(f, r) \in Nat
  BY <1>2, <1>3, <1>5 DEF B
<1>7. Total(f, t) = f[Some(t)] + Total(f, r)
  BY <1>3, <1>4, TotalSteps
<1> QED BY <1>3, <1>5, <1>6, <1>7

LEMMA TotalPick ==
  ASSUME NEW S, IsFiniteSet(S), NEW f, \A x \in S : f[x] \in Nat, NEW x \in S
  PROVE  Total(f, S) = f[x] + Total(f, S \ {x})
<1> DEFINE Bad(t) == \E y \in t : Total(f, t) # f[y] + Total(f, t \ {y})
           B == {t \in SUBSET S : Bad(t)}
<1> SUFFICES ASSUME B # {} PROVE FALSE
  OBVIOUS
<1>1. B \subseteq SUBSET S
  OBVIOUS
<1> HIDE DEF B
<1>2. PICK t \in B : \A r \in SUBSET t : r # t => r \notin B
  BY <1>1, Smallest
<1>3. t \in SUBSET S /\ Bad(t) /\ IsFiniteSet(t)
  BY <1>2, FS_Subset DEF B
<1>4. PICK y \in t : Total(f, t) # f[y] + Total(f, t \ {y})
  BY <1>3
<1> DEFINE z == Some(t)
           r == t \ {z}
           q == t \ {y}
           p == r \ {y}
<1>5. z \in t /\ t # {}
  BY Somewhere
<1>6. Total(f, t) = f[z] + Total(f, r)
  BY <1>3, <1>5, TotalSteps
<1>7. y # z
  BY <1>4, <1>6
<1> HIDE DEF z
<1>8. r \notin B /\ q \notin B /\ r \in SUBSET S /\ q \in SUBSET S /\ y \in r /\ z \in q
  BY <1>2, <1>3, <1>5, <1>7
<1>9. Total(f, r) = f[y] + Total(f, p)
  BY <1>8 DEF B
<1>10. Total(f, q) = f[z] + Total(f, q \ {z})
  BY <1>8 DEF B
<1>11. q \ {z} = p
  OBVIOUS
<1>12. Total(f, p) \in Nat /\ f[y] \in Nat /\ f[z] \in Nat
  <2>1. p \in SUBSET S /\ y \in S /\ z \in S
    BY <1>3, <1>5
  <2>2. IsFiniteSet(p)
    BY <2>1, FS_Subset
  <2>3. \A u \in p : f[u] \in Nat
    BY <2>1
  <2>4. Total(f, p) \in Nat
    BY <2>2, <2>3, TotalNat
  <2> QED BY <2>1, <2>4
<1>13. Total(f, t) = f[y] + Total(f, q)
  <2> HIDE DEF p, q, r
  <2>1. Total(f, q) = f[z] + Total(f, p)
    BY <1>10, <1>11
  <2> QED BY <1>6, <1>9, <2>1, <1>12
<1> QED BY <1>4, <1>13

LEMMA TotalParts ==
  ASSUME NEW S, IsFiniteSet(S), NEW f, \A x \in S : f[x] \in Nat, NEW R \in SUBSET S
  PROVE  Total(f, S) = Total(f, R) + Total(f, S \ R)
<1> DEFINE B == {t \in SUBSET R : Total(f, S) # Total(f, R \ t) + Total(f, (S \ R) \cup t)}
<1> SUFFICES ASSUME Total(f, S) # Total(f, R) + Total(f, S \ R) PROVE FALSE
  OBVIOUS
<1>1. B \subseteq SUBSET R /\ IsFiniteSet(R)
  BY FS_Subset
<1>2. B # {}
  <2>1. {} \in B
    <3>1. R \ {} = R /\ (S \ R) \cup {} = S \ R
      OBVIOUS
    <3> QED BY <3>1
  <2> QED BY <2>1
<1> HIDE DEF B
<1>3. R \notin B
  <2>1. R \ R = {} /\ (S \ R) \cup R = S
    OBVIOUS
  <2>2. Total(f, R \ R) = 0
    BY <2>1, FS_EmptySet, TotalSteps
  <2>3. Total(f, S) \in Nat
    BY TotalNat
  <2> QED BY <2>1, <2>2, <2>3 DEF B
<1> DEFINE C == {R \ t : t \in B}
<1>4. C \subseteq SUBSET R /\ C # {}
  <2>1. PICK t : t \in B
    BY <1>2
  <2>2. R \ t \in C
    BY <2>1
  <2>3. \A c \in C : c \in SUBSET R
    OBVIOUS
  <2> QED BY <2>2, <2>3
<1> HIDE DEF C
<1>5. PICK c \in C : \A r \in SUBSET c : r # c => r \notin C
  BY <1>1, <1>4, Smallest
<1>6. PICK t \in B : c = R \ t
  BY <1>5 DEF C
<1>7. t \subseteq R /\ t # R
  BY <1>1, <1>3, <1>6
<1>8. PICK x \in R : x \notin t
  BY <1>7
<1> DEFINE u == t \cup {x}
<1>9. u \notin B /\ u \in SUBSET R
  <2>1. R \ u \in SUBSET c /\ R \ u # c
    BY <1>6, <1>8
  <2>2. R \ u \notin C
    BY <1>5, <2>1
  <2> QED BY <2>2, <1>7, <1>8 DEF C
<1>10. Total(f, S) = Total(f, R \ u) + Total(f, (S \ R) \cup u)
  BY <1>9 DEF B
<1>11. IsFiniteSet(R \ t) /\ IsFiniteSet((S \ R) \cup u) /\ IsFiniteSet(R \ u) /\ IsFiniteSet((S \ R) \cup t)
  <2>1. R \ t \in SUBSET S /\ (S \ R) \cup u \in SUBSET S /\ R \ u \in SUBSET S /\ (S \ R) \cup t \in SUBSET S
    BY <1>7, <1>8
  <2> QED BY <2>1, FS_Subset
<1>12. Total(f, R \ t) = f[x] + Total(f, R \ u)
  <2>1. x \in R \ t /\ (R \ t) \ {x} = R \ u
    BY <1>8
  <2>2. \A y \in R \ t : f[y] \in Nat
    OBVIOUS
  <2> QED BY <1>11, <2>1, <2>2, TotalPick
<1>13. Total(f, (S \ R) \cup u) = f[x] + Total(f, (S \ R) \cup t)
  <2>1. x \in (S \ R) \cup u /\ ((S \ R) \cup u) \ {x} = (S \ R) \cup t
    BY <1>8
  <2>2. \A y \in (S \ R) \cup u : f[y] \in Nat
    BY <1>7
  <2> QED BY <1>11, <2>1, <2>2, TotalPick
<1>14. Total(f, R \ u) \in Nat /\ Total(f, (S \ R) \cup t) \in Nat /\ f[x] \in Nat
  <2>1. (\A y \in R \ u : f[y] \in Nat) /\ \A y \in (S \ R) \cup t : f[y] \in Nat
    BY <1>7
  <2> QED BY <1>11, <2>1, TotalNat
<1>15. Total(f, S) = Total(f, R \ t) + Total(f, (S \ R) \cup t)
  <2> HIDE DEF u
  <2> QED BY <1>10, <1>12, <1>13, <1>14
<1> QED BY <1>6, <1>15 DEF B
LEMMA Induct ==
  ASSUME NEW T, 0 \in T, \A n \in Nat : n \in T => n + 1 \in T
  PROVE  Nat \subseteq T
<1> SUFFICES ASSUME Nat \ T # {} PROVE FALSE
  OBVIOUS
<1> DEFINE R == OpToRel(<, Nat)
<1>1. \A x, y \in Nat : x < y => <<x, y>> \in R
  BY DEF OpToRel
<1> HIDE DEF R
<1>2. IsWellFoundedOn(R, Nat)
  BY NatLessThanWellFounded DEF R
<1>3. PICK x \in Nat \ T : \A y \in Nat \ T : ~(<<y, x>> \in R)
  BY <1>2, WFMin
<1>4. x # 0 /\ x - 1 \in Nat /\ x - 1 < x /\ (x - 1) + 1 = x
  BY <1>3
<1>5. x - 1 \in T
  BY <1>1, <1>3, <1>4
<1> QED BY <1>3, <1>4, <1>5


-----------------------------------------------------------------------------
(* What a disk is whose root was not handed out, and one whose root was.   *)

Entry == [name : Names \cup Special, inode : Inode]
Node == [type : {"none", "dir", "normal", "char"}, entries : Seq(Entry), data : Data \cup {Empty}]
Typed(d) ==
  d \in [node : [Inode -> Node], free : Nat, damaged : SUBSET Inode, reissued : {{}}]

Astray(d) == "reissued" \in DOMAIN d /\ d.reissued = {Root}

(* Only directories have entries, and inodes that are not in use are blank.*)
Plain(d) ==
  /\ \A i \in Inode : d.node[i].type # "dir" => d.node[i].entries = <<>>
  /\ \A i \in Unused(d) : d.node[i] = Blank("none") /\ i \notin d.damaged

(* What EntriesSound says, of any disk.                                    *)
Named(d) ==
  \A i \in Inode : \A k \in DOMAIN d.node[i].entries :
    /\ d.node[i].entries[k].inode # Root
    /\ d.node[d.node[i].entries[k].inode].type # "none"
Once(d) ==
  \A i, j \in Inode :
    \A k \in DOMAIN d.node[i].entries, l \in DOMAIN d.node[j].entries :
      d.node[i].entries[k].inode = d.node[j].entries[l].inode => i = j /\ k = l
Distinct(d) ==
  \A i \in Inode : \A k, l \in DOMAIN d.node[i].entries :
    d.node[i].entries[k].name = d.node[i].entries[l].name => k = l

Healthy(d) ==
  /\ Typed(d) /\ Plain(d) /\ Named(d) /\ Once(d) /\ Distinct(d)
  /\ d.node[Root].type = "dir"

(* A stack of inodes from the root down.                                   *)
OnTree(d, s) ==
  /\ s \in Seq(Inode) /\ Len(s) > 0 /\ s[1] = Root
  /\ \A k \in 1 .. Len(s) - 1 : s[k + 1] \in Children(d, s[k])

LEMMA NodeIs ==
  ASSUME NEW d, Typed(d), NEW i \in Inode
  PROVE  /\ d.node[i] \in Node
         /\ d.node[i].type \in {"none", "dir", "normal", "char"}
         /\ d.node[i].data \in Data \cup {Empty}
         /\ d.node[i].entries \in Seq(Entry)
         /\ Len(d.node[i].entries) \in Nat
         /\ DOMAIN d.node[i].entries = 1 .. Len(d.node[i].entries)
         /\ \A k \in DOMAIN d.node[i].entries :
              /\ d.node[i].entries[k].inode \in Inode
              /\ d.node[i].entries[k].name \in Names \cup Special
              /\ d.node[i].entries[k] \in Entry
<1>1. d.node[i] \in Node
  BY DEF Typed
<1> DEFINE s == d.node[i].entries
<1>2. s \in Seq(Entry) /\ d.node[i].data \in Data \cup {Empty}
      /\ d.node[i].type \in {"none", "dir", "normal", "char"}
  BY <1>1 DEF Node
<1> HIDE DEF s
<1>3. Len(s) \in Nat /\ DOMAIN s = 1 .. Len(s) /\ \A k \in DOMAIN s : s[k] \in Entry
  BY <1>2
<1>4. \A e \in Entry : e.inode \in Inode /\ e.name \in Names \cup Special
  BY DEF Entry
<1> QED BY <1>1, <1>2, <1>3, <1>4 DEF s

LEMMA ChildIs ==
  ASSUME NEW d, Typed(d), NEW i \in Inode, NEW j
  PROVE  /\ j \in Children(d, i) <=> \E k \in DOMAIN d.node[i].entries : d.node[i].entries[k].inode = j
         /\ j \in Children(d, i) => j \in Inode
<1>1. j \in Children(d, i) <=> \E k \in DOMAIN d.node[i].entries : d.node[i].entries[k].inode = j
  BY DEF Children, Range
<1>2. ASSUME NEW k \in DOMAIN d.node[i].entries PROVE d.node[i].entries[k].inode \in Inode
  BY NodeIs
<1> QED BY <1>1, <1>2

LEMMA ParentIsDir ==
  ASSUME NEW d, Healthy(d), NEW i \in Inode, NEW j \in Children(d, i)
  PROVE  /\ IsDir(d, i) /\ j # Root /\ j \in Inode /\ d.node[j].type # "none"
         /\ d.node[i].entries # <<>>
<1>1. PICK k \in DOMAIN d.node[i].entries : d.node[i].entries[k].inode = j
  BY ChildIs DEF Healthy
<1>2. d.node[i].entries # <<>>
  BY <1>1
<1> QED BY <1>1, <1>2, ChildIs DEF Healthy, Plain, Named, IsDir

LEMMA OneParent ==
  ASSUME NEW d, Healthy(d), NEW i \in Inode, NEW j \in Inode, NEW c, c \in Children(d, i), c \in Children(d, j)
  PROVE  i = j
<1>1. PICK k \in DOMAIN d.node[i].entries : d.node[i].entries[k].inode = c
  BY ChildIs DEF Healthy
<1>2. PICK l \in DOMAIN d.node[j].entries : d.node[j].entries[l].inode = c
  BY ChildIs DEF Healthy
<1> QED BY <1>1, <1>2 DEF Healthy, Once

LEMMA MatchIs ==
  ASSUME NEW d, Typed(d), NEW i \in Inode, NEW name, NEW e
  PROVE  e \in Matches(d, i, name) <=>
           \E k \in DOMAIN d.node[i].entries : e = d.node[i].entries[k] /\ e.name = name
BY DEF Matches, Range
-----------------------------------------------------------------------------
(* Paths.                                                                  *)

Path == [abs : BOOLEAN, segs : Seq(Segments)]
Start(path) == IF path.abs THEN <<Root>> ELSE cwd
Move(d, before, seg, toDir) ==
  CASE before = <<>> -> <<>>
    [] before # <<>> /\ seg = "." -> before
    [] before # <<>> /\ seg = ".." -> Up(before)
    [] OTHER -> Enter(d, before, seg, toDir)
IsTrace(g, n, d, path, toDir) ==
  g = [k \in 0 .. n |->
         IF k = 0 THEN Start(path) ELSE Move(d, g[k - 1], path.segs[k], toDir)]

LEMMA TraceAt ==
  ASSUME NEW g, NEW n \in Nat, NEW d, NEW path, NEW toDir, IsTrace(g, n, d, path, toDir)
  PROVE  /\ DOMAIN g = 0 .. n
         /\ g[0] = Start(path)
         /\ \A k \in 1 .. n : g[k] = Move(d, g[k - 1], path.segs[k], toDir)
<1> DEFINE F(k) == IF k = 0 THEN Start(path) ELSE Move(d, g[k - 1], path.segs[k], toDir)
<1>1. g = [k \in 0 .. n |-> F(k)]
  BY DEF IsTrace
<1> HIDE DEF F
<1>2. DOMAIN g = 0 .. n /\ \A k \in 0 .. n : g[k] = F(k)
  BY <1>1
<1>3. 0 \in 0 .. n /\ \A k \in 1 .. n : k \in 0 .. n /\ k # 0
  OBVIOUS
<1> QED BY <1>2, <1>3 DEF F

LEMMA TraceExists ==
  ASSUME NEW d, NEW path, NEW toDir
  PROVE  \A n \in Nat : \E g : IsTrace(g, n, d, path, toDir)
<1> DEFINE T == {n \in Nat : \E g : IsTrace(g, n, d, path, toDir)}
<1>1. 0 \in T
  <2> DEFINE g == [k \in 0 .. 0 |-> Start(path)]
  <2>1. g = [k \in 0 .. 0 |->
               IF k = 0 THEN Start(path) ELSE Move(d, g[k - 1], path.segs[k], toDir)]
    OBVIOUS
  <2> QED BY <2>1 DEF IsTrace
<1>2. ASSUME NEW n \in Nat, n \in T PROVE n + 1 \in T
  <2>1. PICK g : IsTrace(g, n, d, path, toDir)
    BY <1>2
  <2> DEFINE h == [k \in 0 .. n + 1 |->
                     IF k = n + 1 THEN Move(d, g[n], path.segs[k], toDir) ELSE g[k]]
             F(k) == IF k = 0 THEN Start(path) ELSE Move(d, h[k - 1], path.segs[k], toDir)
  <2>2. ASSUME NEW k \in 0 .. n + 1 PROVE h[k] = F(k)
    <3>1. CASE k = n + 1
      <4>1. h[k - 1] = g[n] /\ k # 0
        BY <3>1
      <4> QED BY <3>1, <4>1
    <3>2. CASE k # n + 1 /\ k = 0
      BY <2>1, <3>2, TraceAt
    <3>3. CASE k # n + 1 /\ k # 0
      <4>1. k \in 1 .. n /\ k - 1 \in 0 .. n + 1 /\ k - 1 # n + 1
        BY <3>3
      <4>2. h[k] = g[k] /\ h[k - 1] = g[k - 1]
        BY <4>1, <3>3
      <4>3. g[k] = Move(d, g[k - 1], path.segs[k], toDir)
        BY <2>1, <4>1, TraceAt
      <4> HIDE DEF h
      <4> QED BY <3>3, <4>2, <4>3
    <3> QED BY <3>1, <3>2, <3>3
  <2>3. h = [k \in 0 .. n + 1 |-> F(k)]
    BY <2>2
  <2> HIDE DEF h
  <2>4. IsTrace(h, n + 1, d, path, toDir)
    BY <2>3 DEF IsTrace
  <2> QED BY <2>4
<1> HIDE DEF T
<1>3. Nat \subseteq T
  BY <1>1, <1>2, Induct
<1> QED BY <1>3 DEF T

LEMMA TraceSteps ==
  ASSUME NEW d, NEW path \in Path, NEW toDir
  PROVE  /\ Len(path.segs) \in Nat
         /\ DOMAIN Trace(d, path, toDir) = 0 .. Len(path.segs)
         /\ Trace(d, path, toDir)[0] = Start(path)
         /\ \A k \in 1 .. Len(path.segs) :
              Trace(d, path, toDir)[k] = Move(d, Trace(d, path, toDir)[k - 1], path.segs[k], toDir)
<1> DEFINE n == Len(path.segs)
           g == CHOOSE g : IsTrace(g, n, d, path, toDir)
<1>1. n \in Nat
  BY DEF Path
<1>2. IsTrace(g, n, d, path, toDir)
  BY <1>1, TraceExists
<1>3. Trace(d, path, toDir) = g
  BY DEF Trace, IsTrace, Start, Move
<1> HIDE DEF g
<1> QED BY <1>1, <1>2, <1>3, TraceAt

(* Where a walk can be.                                                    *)
LEMMA OnTreeIs ==
  ASSUME NEW d, Healthy(d), NEW s, OnTree(d, s)
  PROVE  /\ s \in Seq(Inode) /\ Len(s) \in Nat \ {0} /\ DOMAIN s = 1 .. Len(s) /\ s # <<>>
         /\ Last(s) = s[Len(s)] /\ Last(s) \in Inode
         /\ \A k \in 1 .. Len(s) : s[k] \in Inode /\ d.node[s[k]].type # "none"
         /\ \A k \in 2 .. Len(s) : s[k] \in Children(d, s[k - 1]) /\ s[k] # Root
         /\ \A k \in 1 .. Len(s) - 1 : IsDir(d, s[k])
<1>1. /\ s \in Seq(Inode) /\ Len(s) \in Nat \ {0} /\ DOMAIN s = 1 .. Len(s) /\ s # <<>>
      /\ \A k \in 1 .. Len(s) : s[k] \in Inode
  BY DEF OnTree
<1>2. Last(s) = s[Len(s)] /\ Last(s) \in Inode
  BY <1>1 DEF Last
<1>3. ASSUME NEW k \in 2 .. Len(s)
      PROVE  /\ s[k] \in Children(d, s[k - 1]) /\ s[k] # Root /\ d.node[s[k]].type # "none"
             /\ IsDir(d, s[k - 1])
  <2>1. k - 1 \in 1 .. Len(s) - 1 /\ k - 1 \in 1 .. Len(s) /\ (k - 1) + 1 = k
    BY <1>1
  <2>2. s[k] \in Children(d, s[k - 1]) /\ s[k - 1] \in Inode
    BY <1>1, <2>1 DEF OnTree
  <2> QED BY <2>2, ParentIsDir
<1>4. d.node[s[1]].type # "none"
  BY DEF OnTree, Healthy
<1>5. ASSUME NEW k \in 1 .. Len(s) PROVE d.node[s[k]].type # "none"
  <2>1. k = 1 \/ k \in 2 .. Len(s)
    BY <1>1
  <2> QED BY <2>1, <1>3, <1>4
<1>6. ASSUME NEW k \in 1 .. Len(s) - 1 PROVE IsDir(d, s[k])
  <2>1. k + 1 \in 2 .. Len(s) /\ (k + 1) - 1 = k
    BY <1>1
  <2> QED BY <2>1, <1>3
<1> QED BY <1>1, <1>2, <1>3, <1>5, <1>6

LEMMA UpOnTree ==
  ASSUME NEW d, Healthy(d), NEW s, OnTree(d, s)
  PROVE  /\ OnTree(d, Up(s))
         /\ IsDir(d, Last(s)) => IsDir(d, Last(Up(s)))
<1>1. /\ s \in Seq(Inode) /\ Len(s) \in Nat \ {0}
      /\ \A k \in 1 .. Len(s) - 1 : IsDir(d, s[k])
  BY OnTreeIs
<1>2. CASE Len(s) > 1
  <2>1. Up(s) = SubSeq(s, 1, Len(s) - 1)
    BY <1>2 DEF Up, Front
  <2> DEFINE t == SubSeq(s, 1, Len(s) - 1)
  <2>2. t \in Seq(Inode) /\ Len(t) = Len(s) - 1 /\ \A k \in 1 .. Len(s) - 1 : t[k] = s[k]
    BY <1>1, <1>2
  <2> HIDE DEF t
  <2>3. OnTree(d, t)
    BY <1>1, <1>2, <2>2 DEF OnTree
  <2>4. IsDir(d, Last(t))
    BY <1>1, <1>2, <2>2 DEF Last
  <2> QED BY <2>1, <2>3, <2>4 DEF t
<1>3. CASE ~(Len(s) > 1)
  BY <1>3 DEF Up
<1> QED BY <1>2, <1>3

LEMMA Found ==
  ASSUME NEW d, Typed(d), NEW i \in Inode, NEW name, Matches(d, i, name) # {}
  PROVE  /\ (CHOOSE e \in Matches(d, i, name) : TRUE) \in Matches(d, i, name)
         /\ (CHOOSE e \in Matches(d, i, name) : TRUE).inode \in Children(d, i)
<1> DEFINE e == CHOOSE e \in Matches(d, i, name) : TRUE
<1>1. e \in Matches(d, i, name)
  OBVIOUS
<1> HIDE DEF e
<1>2. PICK k \in DOMAIN d.node[i].entries : e = d.node[i].entries[k]
  BY <1>1, MatchIs
<1>3. e.inode \in Children(d, i)
  BY <1>2, ChildIs
<1> QED BY <1>1, <1>3 DEF e

LEMMA EnterOnTree ==
  ASSUME NEW d, Healthy(d), NEW s, OnTree(d, s), NEW name, NEW toDir \in BOOLEAN,
         Enter(d, s, name, toDir) # <<>>
  PROVE  /\ OnTree(d, Enter(d, s, name, toDir))
         /\ toDir => IsDir(d, Last(Enter(d, s, name, toDir)))
<1>1. s \in Seq(Inode) /\ Len(s) \in Nat \ {0} /\ Last(s) = s[Len(s)] /\ Last(s) \in Inode
  BY OnTreeIs
<1> DEFINE M == Matches(d, Last(s), name)
           x == (CHOOSE e \in M : TRUE).inode
           t == Append(s, x)
<1>2. M # {} /\ (toDir => IsDir(d, x)) /\ Enter(d, s, name, toDir) = t
  BY DEF Enter
<1> HIDE DEF M
<1>3. x \in Children(d, Last(s)) /\ x \in Inode
  <2>1. x \in Children(d, Last(s))
    BY <1>1, <1>2, Found DEF M, Healthy
  <2> QED BY <2>1, <1>1, ParentIsDir
<1> HIDE DEF x
<1>4. /\ t \in Seq(Inode) /\ Len(t) = Len(s) + 1 /\ t[Len(s) + 1] = x
      /\ \A k \in 1 .. Len(s) : t[k] = s[k]
  BY <1>1, <1>3
<1> HIDE DEF t
<1>5. ASSUME NEW k \in 1 .. Len(t) - 1 PROVE t[k + 1] \in Children(d, t[k])
  <2>1. CASE k = Len(s)
    BY <1>1, <1>3, <1>4, <2>1
  <2>2. CASE k # Len(s)
    <3>1. k \in 1 .. Len(s) - 1 /\ k \in 1 .. Len(s) /\ k + 1 \in 1 .. Len(s)
      BY <1>1, <1>4, <2>2
    <3> QED BY <3>1, <1>4 DEF OnTree
  <2> QED BY <2>1, <2>2
<1>6. OnTree(d, t)
  BY <1>1, <1>4, <1>5 DEF OnTree
<1>7. Last(t) = x
  BY <1>1, <1>4 DEF Last
<1> QED BY <1>2, <1>6, <1>7

LEMMA MoveOnTree ==
  ASSUME NEW d, Healthy(d), NEW s, OnTree(d, s), NEW name, NEW toDir \in BOOLEAN,
         Move(d, s, name, toDir) # <<>>
  PROVE  /\ OnTree(d, Move(d, s, name, toDir))
         /\ toDir /\ IsDir(d, Last(s)) => IsDir(d, Last(Move(d, s, name, toDir)))
<1>1. s # <<>>
  BY OnTreeIs
<1>2. CASE name = "."
  <2>1. Move(d, s, name, toDir) = s
    BY <1>1, <1>2 DEF Move
  <2> QED BY <2>1
<1>3. CASE name = ".."
  <2>1. Move(d, s, name, toDir) = Up(s)
    BY <1>1, <1>3 DEF Move
  <2> QED BY <2>1, UpOnTree
<1>4. CASE name # "." /\ name # ".."
  <2>1. Move(d, s, name, toDir) = Enter(d, s, name, toDir)
    BY <1>1, <1>4 DEF Move
  <2> QED BY <2>1, EnterOnTree
<1> QED BY <1>2, <1>3, <1>4

AtHome(d) == OnTree(d, cwd) /\ IsDir(d, Last(cwd))

LEMMA StartOnTree ==
  ASSUME NEW d, Healthy(d), AtHome(d), NEW path
  PROVE  OnTree(d, Start(path)) /\ IsDir(d, Last(Start(path)))
<1>1. CASE path.abs
  <2>1. Start(path) = <<Root>>
    BY <1>1 DEF Start
  <2>2. OnTree(d, <<Root>>)
    BY InodeAssumption DEF OnTree
  <2>3. IsDir(d, Last(<<Root>>))
    BY DEF IsDir, Last, Healthy
  <2> QED BY <2>1, <2>2, <2>3
<1>2. CASE ~path.abs
  BY <1>2 DEF Start, AtHome
<1> QED BY <1>1, <1>2

LEMMA TraceOnTree ==
  ASSUME NEW d, Healthy(d), AtHome(d), NEW path \in Path, NEW toDir \in BOOLEAN
  PROVE  \A k \in 0 .. Len(path.segs) :
           Trace(d, path, toDir)[k] # <<>> =>
             /\ OnTree(d, Trace(d, path, toDir)[k])
             /\ toDir => IsDir(d, Last(Trace(d, path, toDir)[k]))
<1> DEFINE g == Trace(d, path, toDir)
           n == Len(path.segs)
           OK(s) == s # <<>> => OnTree(d, s) /\ (toDir => IsDir(d, Last(s)))
           T == {k \in Nat : k \in 0 .. n => OK(g[k])}
<1>1. /\ n \in Nat /\ g[0] = Start(path)
      /\ \A k \in 1 .. n : g[k] = Move(d, g[k - 1], path.segs[k], toDir)
  BY TraceSteps
<1> HIDE DEF g, n
<1>2. 0 \in T
  BY <1>1, StartOnTree
<1>3. ASSUME NEW k \in Nat, k \in T PROVE k + 1 \in T
  <2> SUFFICES ASSUME k + 1 \in 0 .. n, g[k + 1] # <<>> PROVE OK(g[k + 1])
    OBVIOUS
  <2>1. k \in 0 .. n /\ k + 1 \in 1 .. n /\ (k + 1) - 1 = k
    BY <1>1
  <2>2. g[k + 1] = Move(d, g[k], path.segs[k + 1], toDir)
    BY <1>1, <2>1
  <2>3. g[k] # <<>>
    BY <2>2 DEF Move
  <2>4. OnTree(d, g[k]) /\ (toDir => IsDir(d, Last(g[k])))
    BY <1>3, <2>1, <2>3
  <2> QED BY <2>2, <2>4, MoveOnTree
<1> HIDE DEF T
<1>4. Nat \subseteq T
  BY <1>2, <1>3, Induct
<1>5. \A k \in 0 .. n : OK(g[k])
  BY <1>1, <1>4 DEF T
<1> QED BY <1>5 DEF g, n

LEMMA WalkOnTree ==
  ASSUME NEW d, Healthy(d), AtHome(d), NEW path \in Path, NEW toDir \in BOOLEAN,
         Walk(d, path, toDir) # <<>>
  PROVE  /\ OnTree(d, Walk(d, path, toDir))
         /\ toDir => IsDir(d, Last(Walk(d, path, toDir)))
<1>1. Len(path.segs) \in 0 .. Len(path.segs)
  BY TraceSteps
<1> QED BY <1>1, TraceOnTree DEF Walk
-----------------------------------------------------------------------------
(* write_file.                                                             *)

LEMMA Ceiling ==
  ASSUME NEW l \in Nat, NEW p \in Nat \ {0}
  PROVE  /\ (l + p - 1) \div p \in Nat
         /\ l <= ((l + p - 1) \div p) * p
         /\ ((l + p - 1) \div p) * p < l + p
         /\ l = 0 => (l + p - 1) \div p = 0
<1>1. l + p - 1 \in Nat
  OBVIOUS
<1> DEFINE a == l + p - 1
           q == a \div p
<1>2. q \in Nat /\ p * q <= a /\ a < p * q + p
  BY <1>1
<1>3. p * q = q * p
  BY <1>2
<1>4. l = 0 => q = 0
  BY <1>2
<1> QED BY <1>2, <1>3, <1>4

LEMMA SizeIs ==
  ASSUME NEW n, n \in Node
  PROVE  /\ Size(n) \in Nat
         /\ n.type = "dir" => /\ Len(n.entries) <= Size(n) * PerBlock
                              /\ Size(n) * PerBlock < Len(n.entries) + PerBlock
         /\ n.entries = <<>> /\ n.data = Empty => Size(n) = 0
<1>0. Len(n.entries) \in Nat /\ n.data \in Data \cup {Empty} /\ PerBlock \in Nat \ {0}
  BY BlockAssumption DEF Node
<1>1. CASE n.type = "dir" \/ n.entries # <<>>
  <2> DEFINE l == Len(n.entries)
             q == (l + PerBlock - 1) \div PerBlock
  <2>1. Size(n) = q
    BY <1>1 DEF Size
  <2>3. n.entries = <<>> => l = 0
    OBVIOUS
  <2> HIDE DEF l
  <2>2. q \in Nat /\ l <= q * PerBlock /\ q * PerBlock < l + PerBlock
    BY <1>0, Ceiling DEF l
  <2>4. l = 0 => q = 0
    BY <1>0
  <2> QED BY <1>0, <2>1, <2>2, <2>3, <2>4 DEF l
<1>2. CASE n.type # "dir" /\ n.entries = <<>> /\ n.data = Empty
  BY <1>2 DEF Size
<1>3. CASE n.type # "dir" /\ n.entries = <<>> /\ n.data # Empty
  <2>1. Size(n) = BlocksOf[n.data]
    BY <1>3 DEF Size
  <2>2. BlocksOf[n.data] \in Nat
    BY <1>0, <1>3, DataAssumption
  <2> QED BY <1>3, <2>1, <2>2
<1> QED BY <1>1, <1>2, <1>3

LEMMA BlankIs ==
  ASSUME NEW type \in {"none", "dir", "normal", "char"}
  PROVE  /\ Blank(type) \in Node /\ Size(Blank(type)) = 0
         /\ Blank(type).type = type /\ Blank(type).entries = <<>> /\ Blank(type).data = Empty
<1>1. Blank(type) \in Node
  BY DEF Blank, Node
<1> QED BY <1>1, SizeIs DEF Blank

LEMMA CutIs ==
  ASSUME NEW n, n \in Node, NEW room \in Nat
  PROVE  /\ Cut(n, room) \in Node
         /\ Cut(n, room).type = n.type /\ Cut(n, room).data = n.data
         /\ \A k \in DOMAIN Cut(n, room).entries :
              k \in DOMAIN n.entries /\ Cut(n, room).entries[k] = n.entries[k]
<1> DEFINE s == n.entries
           m == IF Len(s) < room * PerBlock THEN Len(s) ELSE room * PerBlock
           t == SubSeq(s, 1, m)
<1>1. s \in Seq(Entry) /\ Len(s) \in Nat /\ m \in Nat /\ m <= Len(s)
  BY BlockAssumption DEF Node
<1>2. Cut(n, room) = [n EXCEPT !.entries = t]
  BY DEF Cut
<1> HIDE DEF m, s
<1>3. t \in Seq(Entry) /\ DOMAIN t = 1 .. m /\ \A k \in 1 .. m : t[k] = s[k]
  BY <1>1
<1>4. DOMAIN s = 1 .. Len(s)
  BY <1>1
<1>5. \A k \in DOMAIN t : k \in DOMAIN s /\ t[k] = s[k]
  BY <1>1, <1>3, <1>4
<1> HIDE DEF t
<1> QED BY <1>2, <1>3, <1>5 DEF Node, s

(* One inode of a disk is changed.                                         *)
OnlyAt(d, e, i, n) ==
  e.node[i] = n /\ \A j \in Inode : j # i => e.node[j] = d.node[j]

With(d, i, n, free, damaged) ==
  [node |-> [d.node EXCEPT ![i] = n], free |-> free, damaged |-> damaged,
   reissued |-> d.reissued]

LEMMA WithIs ==
  ASSUME NEW d, Typed(d), NEW i \in Inode, NEW n, n \in Node, NEW free \in Nat,
         NEW damaged \in SUBSET Inode, NEW e, e = With(d, i, n, free, damaged)
  PROVE  Typed(e) /\ OnlyAt(d, e, i, n) /\ e.free = free /\ e.damaged = damaged
<1> DEFINE m == [d.node EXCEPT ![i] = n]
<1>1. m \in [Inode -> Node] /\ m[i] = n /\ \A j \in Inode : j # i => m[j] = d.node[j]
  BY DEF Typed
<1>2. e = [node |-> m, free |-> free, damaged |-> damaged, reissued |-> d.reissued]
  BY DEF With
<1> HIDE DEF m
<1> QED BY <1>1, <1>2 DEF Typed, OnlyAt

(* The ways in which the operators write it.                               *)
Renewed(d, i, n) == [d EXCEPT !.node[i] = n]
Stored(d, i, n, free) == [d EXCEPT !.node[i] = n, !.free = free]
Broken(d, i, n, free, damaged) ==
  [d EXCEPT !.node[i] = n, !.free = free, !.damaged = damaged]

LEMMA ExceptIs ==
  ASSUME NEW d, Typed(d), NEW i, NEW n, NEW free, NEW damaged
  PROVE  /\ Renewed(d, i, n) = With(d, i, n, d.free, d.damaged)
         /\ Stored(d, i, n, free) = With(d, i, n, free, d.damaged)
         /\ Broken(d, i, n, free, damaged) = With(d, i, n, free, damaged)
<1>1. [d EXCEPT !.node[i] = n] = With(d, i, n, d.free, d.damaged)
  BY DEF With, Typed
<1> DEFINE e == [d EXCEPT !.node[i] = n]
<1>2. /\ [d EXCEPT !.node[i] = n, !.free = free] = [e EXCEPT !.free = free]
      /\ [d EXCEPT !.node[i] = n, !.free = free, !.damaged = damaged]
           = [[e EXCEPT !.free = free] EXCEPT !.damaged = damaged]
  BY DEF Typed
<1>3. /\ e \in [node : {e.node}, free : {d.free}, damaged : {d.damaged}, reissued : {d.reissued}]
      /\ e.node = [d.node EXCEPT ![i] = n]
  BY <1>1 DEF With
<1> HIDE DEF e
<1> DEFINE f == [e EXCEPT !.free = free]
<1>4. f = [node |-> e.node, free |-> free, damaged |-> d.damaged, reissued |-> d.reissued]
  BY <1>3
<1>5. f \in [node : {e.node}, free : {free}, damaged : {d.damaged}, reissued : {d.reissued}]
  BY <1>4
<1> HIDE DEF f
<1>6. [f EXCEPT !.damaged = damaged]
        = [node |-> e.node, free |-> free, damaged |-> damaged, reissued |-> d.reissued]
  BY <1>5
<1>7. f = With(d, i, n, free, d.damaged)
  BY <1>3, <1>4 DEF With
<1>8. [f EXCEPT !.damaged = damaged] = With(d, i, n, free, damaged)
  BY <1>3, <1>6 DEF With
<1> QED BY <1>1, <1>2, <1>7, <1>8 DEF e, f, Renewed, Stored, Broken

(* The blocks a file can have: its own and the free ones.                  *)
Room(d, i) == d.free + Size(d.node[i])

LEMMA StoreIs ==
  ASSUME NEW d, Typed(d), NEW i \in Inode, NEW n, n \in Node, NEW r, r = Store(d, i, n)
  PROVE  /\ r.ok \in BOOLEAN /\ Room(d, i) \in Nat
         /\ r.ok <=> Size(n) <= Room(d, i)
         /\ Typed(r.disk)
         /\ r.ok => /\ OnlyAt(d, r.disk, i, n)
                    /\ r.disk.free = Room(d, i) - Size(n)
                    /\ r.disk.damaged = d.damaged
         /\ ~r.ok => /\ OnlyAt(d, r.disk, i, Cut(n, Room(d, i)))
                     /\ r.disk.free = 0
                     /\ r.disk.damaged = d.damaged \cup {i}
<1>1. Size(n) \in Nat /\ Room(d, i) \in Nat
  BY SizeIs, NodeIs DEF Typed, Room
<1>2. /\ d = [node |-> d.node, free |-> d.free, damaged |-> d.damaged, reissued |-> d.reissued]
      /\ d.damaged \in SUBSET Inode
  BY DEF Typed
<1>3. CASE Size(n) <= Room(d, i)
  <2>1. r = Done([d EXCEPT !.node[i] = n, !.free = Room(d, i) - Size(n)])
    BY <1>3 DEF Store, Held, Room
  <2>2. Room(d, i) - Size(n) \in Nat
    BY <1>1, <1>3
  <2>3. r.ok = TRUE /\ r.disk = [d EXCEPT !.node[i] = n, !.free = Room(d, i) - Size(n)]
    BY <2>1 DEF Done
  <2> DEFINE f == Room(d, i) - Size(n)
  <2>4. f \in Nat /\ r.disk = Stored(d, i, n, f)
    BY <2>2, <2>3 DEF Stored
  <2> HIDE DEF f
  <2>5. f \in Nat /\ r.disk = With(d, i, n, f, d.damaged)
    BY <2>4, ExceptIs
  <2>6. Typed(r.disk) /\ OnlyAt(d, r.disk, i, n) /\ r.disk.free = f /\ r.disk.damaged = d.damaged
    BY <1>2, <2>5, WithIs
  <2>7. Typed(r.disk) /\ OnlyAt(d, r.disk, i, n) /\ r.disk.free = Room(d, i) - Size(n)
        /\ r.disk.damaged = d.damaged
    BY <2>6 DEF f
  <2> QED BY <1>1, <1>3, <2>3, <2>7
<1>4. CASE ~(Size(n) <= Room(d, i))
  <2>1. r = Thrown([d EXCEPT !.node[i] = Cut(n, Room(d, i)), !.free = 0, !.damaged = @ \cup {i}])
    BY <1>4 DEF Store, Held, Room
  <2>2. Cut(n, Room(d, i)) \in Node
    BY <1>1, CutIs
  <2>3. r.ok = FALSE /\ r.disk = [d EXCEPT !.node[i] = Cut(n, Room(d, i)), !.free = 0, !.damaged = @ \cup {i}]
    BY <2>1 DEF Thrown
  <2> DEFINE c == Cut(n, Room(d, i))
             s == d.damaged \cup {i}
             z == 0
  <2>4. /\ c \in Node /\ s \in SUBSET Inode /\ z = 0
        /\ r.disk = Broken(d, i, c, z, s)
    BY <1>2, <2>2, <2>3 DEF Broken
  <2> HIDE DEF c, s, z
  <2>5. c \in Node /\ s \in SUBSET Inode /\ r.disk = With(d, i, c, 0, s)
    BY <2>4, ExceptIs
  <2>6. Typed(r.disk) /\ OnlyAt(d, r.disk, i, c) /\ r.disk.free = 0 /\ r.disk.damaged = s
    BY <2>5, WithIs
  <2>7. Typed(r.disk) /\ OnlyAt(d, r.disk, i, Cut(n, Room(d, i))) /\ r.disk.free = 0
        /\ r.disk.damaged = d.damaged \cup {i}
    BY <2>6 DEF c, s
  <2> QED BY <1>1, <1>4, <2>3, <2>7
<1> QED BY <1>3, <1>4
-----------------------------------------------------------------------------
(* Disks that stay healthy.                                                *)

(* The entries of one sequence are some of another's.                      *)
Part(s, t) ==
  \E f \in [DOMAIN s -> DOMAIN t] :
    /\ \A k \in DOMAIN s : s[k] = t[f[k]]
    /\ \A k, l \in DOMAIN s : f[k] = f[l] => k = l

LEMMA Less ==
  ASSUME NEW d, Healthy(d), NEW e, Typed(e), Plain(e), e.node[Root].type = "dir",
         \A i \in Inode : Part(e.node[i].entries, d.node[i].entries),
         \A i \in Inode : \A j \in Children(e, i) : e.node[j].type # "none"
  PROVE  Healthy(e)
<1>1. Named(e)
  <2> SUFFICES ASSUME NEW i \in Inode, NEW k \in DOMAIN e.node[i].entries
               PROVE  /\ e.node[i].entries[k].inode # Root
                      /\ e.node[e.node[i].entries[k].inode].type # "none"
    BY DEF Named
  <2>1. PICK f \in [DOMAIN e.node[i].entries -> DOMAIN d.node[i].entries] :
          \A l \in DOMAIN e.node[i].entries : e.node[i].entries[l] = d.node[i].entries[f[l]]
    BY DEF Part
  <2>2. e.node[i].entries[k].inode # Root
    BY <2>1 DEF Healthy, Named
  <2>3. e.node[i].entries[k].inode \in Children(e, i)
    BY ChildIs
  <2> QED BY <2>2, <2>3
<1>2. Once(e)
  <2> SUFFICES ASSUME NEW i \in Inode, NEW j \in Inode,
                      NEW k \in DOMAIN e.node[i].entries, NEW l \in DOMAIN e.node[j].entries,
                      e.node[i].entries[k].inode = e.node[j].entries[l].inode
               PROVE  i = j /\ k = l
    BY DEF Once
  <2>1. PICK f \in [DOMAIN e.node[i].entries -> DOMAIN d.node[i].entries] :
          /\ \A m \in DOMAIN e.node[i].entries : e.node[i].entries[m] = d.node[i].entries[f[m]]
          /\ \A m, n \in DOMAIN e.node[i].entries : f[m] = f[n] => m = n
    BY DEF Part
  <2>2. PICK g \in [DOMAIN e.node[j].entries -> DOMAIN d.node[j].entries] :
          \A m \in DOMAIN e.node[j].entries : e.node[j].entries[m] = d.node[j].entries[g[m]]
    BY DEF Part
  <2>3. i = j /\ f[k] = g[l]
    BY <2>1, <2>2 DEF Healthy, Once
  <2>4. d.node[i].entries[f[k]].inode = d.node[i].entries[f[l]].inode
    BY <2>1, <2>3
  <2>5. f[k] = f[l]
    <3>1. Once(d)
      BY DEF Healthy
    <3>2. l \in DOMAIN e.node[i].entries
      BY <2>3
    <3>3. f[k] \in DOMAIN d.node[i].entries /\ f[l] \in DOMAIN d.node[i].entries
      BY <2>1, <3>2
    <3>4. \A a, b \in DOMAIN d.node[i].entries :
            d.node[i].entries[a].inode = d.node[i].entries[b].inode => a = b
      BY <3>1 DEF Once
    <3> QED BY <2>4, <3>3, <3>4
  <2> QED BY <2>1, <2>3, <2>5
<1>3. Distinct(e)
  <2> SUFFICES ASSUME NEW i \in Inode, NEW k \in DOMAIN e.node[i].entries,
                      NEW l \in DOMAIN e.node[i].entries,
                      e.node[i].entries[k].name = e.node[i].entries[l].name
               PROVE  k = l
    BY DEF Distinct
  <2>1. PICK f \in [DOMAIN e.node[i].entries -> DOMAIN d.node[i].entries] :
          /\ \A m \in DOMAIN e.node[i].entries : e.node[i].entries[m] = d.node[i].entries[f[m]]
          /\ \A m, n \in DOMAIN e.node[i].entries : f[m] = f[n] => m = n
    BY DEF Part
  <2>2. f[k] = f[l]
    BY <2>1 DEF Healthy, Distinct
  <2> QED BY <2>1, <2>2
<1> QED BY <1>1, <1>2, <1>3 DEF Healthy

LEMMA Parts ==
  /\ \A s : Part(s, s)
  /\ \A t : Part(<<>>, t)
<1>1. ASSUME NEW s PROVE Part(s, s)
  <2> DEFINE f == [k \in DOMAIN s |-> k]
  <2>1. /\ f \in [DOMAIN s -> DOMAIN s] /\ \A k \in DOMAIN s : s[k] = s[f[k]]
        /\ \A k, l \in DOMAIN s : f[k] = f[l] => k = l
    OBVIOUS
  <2> HIDE DEF f
  <2> QED BY <2>1 DEF Part
<1>2. ASSUME NEW t PROVE Part(<<>>, t)
  <2> DEFINE f == [k \in {} |-> k]
  <2>1. DOMAIN <<>> = {} /\ f \in [{} -> DOMAIN t]
    OBVIOUS
  <2> HIDE DEF f
  <2> QED BY <2>1 DEF Part
<1> QED BY <1>1, <1>2

(* One entry more.                                                         *)
Longer(s, t, x) ==
  /\ Len(t) = Len(s) + 1 /\ DOMAIN s = 1 .. Len(s) /\ DOMAIN t = 1 .. Len(s) + 1
  /\ t[Len(s) + 1] = x /\ \A k \in DOMAIN s : t[k] = s[k]

LEMMA More ==
  ASSUME NEW d, Healthy(d), NEW e, Typed(e), NEW dir \in Inode, IsDir(d, dir),
         NEW i \in Inode, i # Root, d.node[i].type # "none",
         \A j \in Inode : i \notin Children(d, j),
         NEW name, Matches(d, dir, name) = {},
         NEW n, n.type = "dir", OnlyAt(d, e, dir, n),
         Longer(d.node[dir].entries, n.entries, [name |-> name, inode |-> i]),
         e.damaged \subseteq d.damaged \cup {dir}
  PROVE  Healthy(e)
<1> DEFINE s == d.node[dir].entries
           m == Len(s) + 1
<1>0. Len(s) \in Nat
  BY NodeIs DEF Healthy
<1>1. /\ DOMAIN s = 1 .. Len(s) /\ DOMAIN e.node[dir].entries = 1 .. m
      /\ e.node[dir].entries[m].name = name /\ e.node[dir].entries[m].inode = i
      /\ \A k \in 1 .. Len(s) : e.node[dir].entries[k] = s[k]
      /\ m \in DOMAIN e.node[dir].entries /\ m \notin DOMAIN s
  BY <1>0, SMTT(30) DEF OnlyAt, Longer
<1>2. ASSUME NEW j \in Inode, NEW k \in DOMAIN e.node[j].entries
      PROVE  \/ j = dir /\ k = m /\ e.node[j].entries[k].inode = i
             \/ /\ k \in DOMAIN d.node[j].entries /\ e.node[j].entries[k] = d.node[j].entries[k]
                /\ e.node[j].entries[k].inode # i
  <2>1. CASE j = dir /\ k = m
    BY <1>1, <2>1
  <2>2. CASE ~(j = dir /\ k = m)
    <3>1. k \in DOMAIN d.node[j].entries /\ e.node[j].entries[k] = d.node[j].entries[k]
      <4>1. CASE j # dir
        BY <4>1 DEF OnlyAt
      <4>2. CASE j = dir
        <5>1. k \in 1 .. Len(s)
          BY <1>0, <1>1, <2>2, <4>2, SMTT(30)
        <5> QED BY <1>1, <4>2, <5>1
      <4> QED BY <4>1, <4>2
    <3>2. d.node[j].entries[k].inode \in Children(d, j)
      BY <3>1, ChildIs DEF Healthy
    <3> QED BY <3>1, <3>2
  <2> QED BY <2>1, <2>2
<1> HIDE DEF s, m
<1>3. \A j \in Inode : e.node[j].type = d.node[j].type
  BY DEF OnlyAt, IsDir
<1>4. Plain(e)
  <2>1. \A j \in Inode : e.node[j].type # "dir" => e.node[j].entries = <<>>
    BY DEF OnlyAt, Healthy, Plain
  <2>2. ASSUME NEW j \in Unused(e) PROVE e.node[j] = Blank("none") /\ j \notin e.damaged
    <3>1. j \in Inode /\ j \in Unused(d) /\ j # dir
      BY <1>3 DEF Unused, IsDir
    <3> QED BY <3>1 DEF OnlyAt, Healthy, Plain
  <2> QED BY <2>1, <2>2 DEF Plain
<1>5. Named(e)
  <2> SUFFICES ASSUME NEW j \in Inode, NEW k \in DOMAIN e.node[j].entries
               PROVE  /\ e.node[j].entries[k].inode # Root
                      /\ e.node[e.node[j].entries[k].inode].type # "none"
    BY DEF Named
  <2>1. e.node[j].entries[k].inode \in Inode
    BY NodeIs
  <2>2. CASE e.node[j].entries[k].inode = i
    BY <1>3, <2>2
  <2>3. CASE e.node[j].entries[k].inode # i
    <3>1. k \in DOMAIN d.node[j].entries /\ e.node[j].entries[k] = d.node[j].entries[k]
      BY <1>2, <2>3
    <3>2. /\ d.node[j].entries[k].inode # Root
          /\ d.node[d.node[j].entries[k].inode].type # "none"
      BY <3>1 DEF Healthy, Named
    <3> QED BY <1>3, <2>1, <3>1, <3>2
  <2> QED BY <2>2, <2>3
<1>6. Once(e)
  <2> SUFFICES ASSUME NEW a \in Inode, NEW b \in Inode,
                      NEW k \in DOMAIN e.node[a].entries, NEW l \in DOMAIN e.node[b].entries,
                      e.node[a].entries[k].inode = e.node[b].entries[l].inode
               PROVE  a = b /\ k = l
    BY DEF Once
  <2>1. CASE a = dir /\ k = m /\ e.node[a].entries[k].inode = i
    BY <1>2, <2>1
  <2>2. CASE k \in DOMAIN d.node[a].entries /\ e.node[a].entries[k] = d.node[a].entries[k]
             /\ e.node[a].entries[k].inode # i
    <3>1. l \in DOMAIN d.node[b].entries /\ e.node[b].entries[l] = d.node[b].entries[l]
      BY <1>2, <2>2
    <3> QED BY <2>2, <3>1 DEF Healthy, Once
  <2> QED BY <1>2, <2>1, <2>2
<1>7. Distinct(e)
  <2> SUFFICES ASSUME NEW a \in Inode,
                      NEW k \in DOMAIN e.node[a].entries, NEW l \in DOMAIN e.node[a].entries,
                      e.node[a].entries[k].name = e.node[a].entries[l].name
               PROVE  k = l
    BY DEF Distinct
  <2>1. ASSUME NEW p \in DOMAIN d.node[dir].entries PROVE d.node[dir].entries[p].name # name
    <3> DEFINE x == d.node[dir].entries[p]
    <3>1. x.name = name => x \in Matches(d, dir, name)
      BY DEF Matches, Range
    <3> QED BY <3>1
  <2>2. CASE a = dir /\ (k = m \/ l = m)
    BY <1>1, <1>2, <2>1, <2>2
  <2>3. CASE ~(a = dir /\ (k = m \/ l = m))
    <3>1. /\ k \in DOMAIN d.node[a].entries /\ e.node[a].entries[k] = d.node[a].entries[k]
          /\ l \in DOMAIN d.node[a].entries /\ e.node[a].entries[l] = d.node[a].entries[l]
      BY <1>2, <2>3
    <3> QED BY <3>1 DEF Healthy, Distinct
  <2> QED BY <2>2, <2>3
<1>8. e.node[Root].type = "dir"
  BY <1>3, InodeAssumption DEF Healthy
<1> QED BY <1>4, <1>5, <1>6, <1>7, <1>8 DEF Healthy
-----------------------------------------------------------------------------
(* Blocks: those of sound inodes and the free ones are all there are, as   *)
(* long as no write has failed, and never more.                            *)

Holding(d) == [i \in Inode |-> Held(d, i)]
Used(d) == Total(Holding(d), Inode \ d.damaged)
Balanced(d) ==
  /\ d.free + Used(d) <= Blocks
  /\ d.damaged = {} => d.free + Used(d) = Blocks

LEMMA HoldingIs ==
  ASSUME NEW d, Typed(d)
  PROVE  /\ \A i \in Inode : Holding(d)[i] = Size(d.node[i]) /\ Holding(d)[i] \in Nat
         /\ \A S \in SUBSET Inode : IsFiniteSet(S) /\ Total(Holding(d), S) \in Nat
         /\ IsFiniteSet(Inode \ d.damaged) /\ Used(d) \in Nat
<1>1. ASSUME NEW i \in Inode PROVE Holding(d)[i] = Size(d.node[i]) /\ Holding(d)[i] \in Nat
  <2>1. Holding(d)[i] = Size(d.node[i])
    BY DEF Holding, Held
  <2> QED BY <2>1, NodeIs, SizeIs
<1>2. ASSUME NEW S \in SUBSET Inode PROVE IsFiniteSet(S) /\ Total(Holding(d), S) \in Nat
  <2>1. IsFiniteSet(S)
    BY FS_Subset, InodeAssumption
  <2> QED BY <1>1, <2>1, TotalNat
<1>3. Inode \ d.damaged \in SUBSET Inode
  OBVIOUS
<1> QED BY <1>1, <1>2, <1>3 DEF Used

LEMMA UsedWithout ==
  ASSUME NEW d, Typed(d), NEW i \in Inode \ d.damaged
  PROVE  /\ Used(d) = Size(d.node[i]) + Total(Holding(d), (Inode \ d.damaged) \ {i})
         /\ Total(Holding(d), (Inode \ d.damaged) \ {i}) \in Nat
<1>1. \A x \in Inode \ d.damaged : Holding(d)[x] \in Nat
  BY HoldingIs
<1>2. Used(d) = Holding(d)[i] + Total(Holding(d), (Inode \ d.damaged) \ {i})
  BY <1>1, HoldingIs, TotalPick DEF Used
<1>3. (Inode \ d.damaged) \ {i} \in SUBSET Inode
  OBVIOUS
<1> QED BY <1>2, <1>3, HoldingIs

LEMMA OthersSame ==
  ASSUME NEW d, Typed(d), NEW e, Typed(e), NEW S \in SUBSET Inode,
         \A j \in S : Size(e.node[j]) = Size(d.node[j])
  PROVE  Total(Holding(e), S) = Total(Holding(d), S)
<1>1. \A j \in S : Holding(e)[j] = Holding(d)[j]
  BY HoldingIs
<1> QED BY <1>1, HoldingIs, TotalSame

LEMMA BalanceAt ==
  ASSUME NEW d, Typed(d), Balanced(d), NEW e, Typed(e), NEW i \in Inode \ d.damaged,
         NEW n, OnlyAt(d, e, i, n),
         \/ e.damaged = d.damaged /\ e.free + Size(n) = d.free + Size(d.node[i])
         \/ e.damaged = d.damaged \cup {i} /\ e.free = 0
  PROVE  Balanced(e)
<1> DEFINE rest == Total(Holding(d), (Inode \ d.damaged) \ {i})
<1>1. Used(d) = Size(d.node[i]) + rest /\ rest \in Nat
  BY UsedWithout
<1>2. Total(Holding(e), (Inode \ d.damaged) \ {i}) = rest
  <2>1. \A j \in (Inode \ d.damaged) \ {i} : Size(e.node[j]) = Size(d.node[j])
    BY DEF OnlyAt
  <2> QED BY <2>1, OthersSame
<1> HIDE DEF rest
<1>3. /\ Size(d.node[i]) \in Nat /\ Size(e.node[i]) \in Nat /\ e.node[i] = n
      /\ d.free \in Nat /\ e.free \in Nat /\ Blocks \in Nat
  BY NodeIs, SizeIs, BlockAssumption DEF OnlyAt, Typed
<1>4. CASE e.damaged = d.damaged /\ e.free + Size(n) = d.free + Size(d.node[i])
  <2>1. Used(e) = Size(n) + rest
    BY <1>2, <1>3, <1>4, UsedWithout
  <2> QED BY <1>1, <1>3, <1>4, <2>1 DEF Balanced
<1>5. CASE e.damaged = d.damaged \cup {i} /\ e.free = 0
  <2>1. Inode \ e.damaged = (Inode \ d.damaged) \ {i}
    BY <1>5
  <2>2. Used(e) = rest
    BY <1>2, <2>1 DEF Used
  <2> QED BY <1>1, <1>3, <1>5, <2>2 DEF Balanced
<1> QED BY <1>4, <1>5

LEMMA FreeBound ==
  ASSUME NEW d, Typed(d), Balanced(d)
  PROVE  d.free \in 0 .. Blocks
<1>1. Used(d) \in Nat /\ d.free \in Nat /\ Blocks \in Nat
  BY HoldingIs, BlockAssumption DEF Typed
<1> QED BY <1>1 DEF Balanced
-----------------------------------------------------------------------------
(* Where the working directory stays.                                      *)

LEMMA StaysOnTree ==
  ASSUME NEW d, Healthy(d), NEW s, OnTree(d, s), NEW e,
         \A k \in 1 .. Len(s) - 1 : s[k + 1] \in Children(e, s[k])
  PROVE  OnTree(e, s)
BY DEF OnTree

LEMMA StaysHome ==
  ASSUME NEW d, Healthy(d), AtHome(d), NEW e,
         \A k \in 1 .. Len(cwd) - 1 : cwd[k + 1] \in Children(e, cwd[k]),
         IsDir(e, Last(cwd))
  PROVE  AtHome(e)
BY StaysOnTree DEF AtHome

LEMMA SameChildren ==
  ASSUME NEW d, NEW e, NEW i, d.node[i] = e.node[i]
  PROVE  Children(d, i) = Children(e, i) /\ (IsDir(d, i) <=> IsDir(e, i))
BY DEF Children, IsDir
-----------------------------------------------------------------------------
(* _touch.                                                                 *)

(* A new inode and its entry, or the inode without the entry.              *)
Grew(d, e, ok, i, dir, name, type) ==
  /\ i \in Unused(d) /\ dir \in Inode /\ IsDir(d, dir) /\ i # dir /\ i # Root
  /\ Matches(d, dir, name) = {}
  /\ e.node[i] = Blank(type)
  /\ \A j \in Inode : j # i /\ j # dir => e.node[j] = d.node[j]
  /\ ok => /\ Longer(d.node[dir].entries, e.node[dir].entries, [name |-> name, inode |-> i])
           /\ e.node[dir].type = "dir" /\ e.node[dir].data = d.node[dir].data
           /\ e.damaged = d.damaged
  /\ ~ok => e.node[dir] = d.node[dir] /\ e.free = 0 /\ e.damaged = d.damaged \cup {dir}

LEMMA Fresh ==
  ASSUME NEW d, Healthy(d), NEW i \in Unused(d)
  PROVE  /\ i \in Inode /\ i # Root /\ i \notin d.damaged /\ d.node[i] = Blank("none")
         /\ Children(d, i) = {} /\ \A j \in Inode : i \notin Children(d, j)
<1>1. i \in Inode /\ d.node[i].type = "none"
  BY DEF Unused
<1>2. i # Root
  BY <1>1 DEF Healthy
<1>3. d.node[i] = Blank("none") /\ i \notin d.damaged
  BY DEF Healthy, Plain
<1>4. Children(d, i) = {}
  BY <1>3, BlankIs DEF Children, Range
<1>5. \A j \in Inode : i \notin Children(d, j)
  BY <1>1, ParentIsDir
<1> QED BY <1>1, <1>2, <1>3, <1>4, <1>5

LEMMA Born ==
  ASSUME NEW d, Healthy(d), NEW i \in Unused(d), NEW type \in {"dir", "normal", "char"},
         NEW e, e = [d EXCEPT !.node[i] = Blank(type)]
  PROVE  /\ Healthy(e) /\ OnlyAt(d, e, i, Blank(type)) /\ e.free = d.free /\ e.damaged = d.damaged
         /\ \A j \in Inode : Children(e, j) = Children(d, j)
         /\ Balanced(d) => Balanced(e)
<1>1. /\ i \in Inode /\ i # Root /\ i \notin d.damaged /\ d.node[i] = Blank("none")
      /\ Children(d, i) = {} /\ \A j \in Inode : i \notin Children(d, j)
  BY Fresh
<1>2. Typed(d) /\ d.free \in Nat /\ d.damaged \in SUBSET Inode
      /\ d = [node |-> d.node, free |-> d.free, damaged |-> d.damaged, reissued |-> d.reissued]
  BY DEF Healthy, Typed
<1>3. /\ Blank(type) \in Node /\ Size(Blank(type)) = 0 /\ Size(Blank("none")) = 0
      /\ Blank(type).type = type /\ Blank(type).entries = <<>> /\ Blank("none").entries = <<>>
  BY BlankIs
<1>4. e = With(d, i, Blank(type), d.free, d.damaged)
  BY <1>2, ExceptIs DEF Renewed
<1>5. Typed(e) /\ OnlyAt(d, e, i, Blank(type)) /\ e.free = d.free /\ e.damaged = d.damaged
  BY <1>1, <1>2, <1>3, <1>4, WithIs
<1>6. \A j \in Inode : Children(e, j) = Children(d, j)
  BY <1>1, <1>3, <1>5 DEF OnlyAt, Children
<1>7. Plain(e)
  <2>1. \A j \in Inode : e.node[j].type # "dir" => e.node[j].entries = <<>>
    BY <1>3, <1>5 DEF OnlyAt, Healthy, Plain
  <2>2. ASSUME NEW j \in Unused(e) PROVE e.node[j] = Blank("none") /\ j \notin e.damaged
    <3>1. j \in Inode /\ j # i
      BY <1>3, <1>5, <2>2 DEF OnlyAt, Unused
    <3>2. j \in Unused(d) /\ e.node[j] = d.node[j]
      BY <1>5, <2>2, <3>1 DEF OnlyAt, Unused
    <3> QED BY <1>5, <3>2 DEF Healthy, Plain
  <2> QED BY <2>1, <2>2 DEF Plain
<1>8. \A j \in Inode : Part(e.node[j].entries, d.node[j].entries)
  BY <1>3, <1>5, Parts DEF OnlyAt
<1>9. ASSUME NEW j \in Inode, NEW c \in Children(e, j) PROVE e.node[c].type # "none"
  <2>1. c \in Children(d, j)
    BY <1>6
  <2>2. c \in Inode /\ d.node[c].type # "none"
    BY <2>1, ParentIsDir
  <2> QED BY <1>3, <1>5, <2>2 DEF OnlyAt
<1>10. e.node[Root].type = "dir"
  BY <1>1, <1>5, InodeAssumption DEF OnlyAt, Healthy
<1>11. Healthy(e)
  BY <1>5, <1>7, <1>8, <1>9, <1>10, Less
<1>12. Balanced(d) => Balanced(e)
  <2>1. e.free + Size(Blank(type)) = d.free + Size(d.node[i])
    BY <1>1, <1>3, <1>5
  <2> QED BY <1>1, <1>2, <1>5, <2>1, BalanceAt
<1> QED BY <1>5, <1>6, <1>11, <1>12

(* Cut at the room there is, a directory keeps what it had.                *)
LEMMA CutKeeps ==
  ASSUME NEW n, n \in Node, n.type = "dir", NEW m, m \in Node, m.type = "dir",
         NEW x, Longer(n.entries, m.entries, x), m.data = n.data,
         NEW room \in Nat, Size(n) <= room, ~(Size(m) <= room)
  PROVE  Cut(m, room) = n
<1> DEFINE s == n.entries
           t == m.entries
<1>1. /\ s \in Seq(Entry) /\ t \in Seq(Entry) /\ Len(s) \in Nat /\ Len(t) = Len(s) + 1
      /\ \A k \in 1 .. Len(s) : t[k] = s[k]
  BY DEF Node, Longer
<1>2. /\ Size(n) \in Nat /\ Size(m) \in Nat /\ PerBlock \in Nat \ {0}
      /\ Len(s) <= Size(n) * PerBlock /\ Size(m) * PerBlock < Len(t) + PerBlock
  BY SizeIs, BlockAssumption
<1>3. room * PerBlock = Len(s)
  <2> DEFINE a == Size(n)
             b == Size(m)
             l == Len(s)
  <2>1. /\ a \in Nat /\ b \in Nat /\ l \in Nat /\ PerBlock \in Nat \ {0} /\ a <= room /\ room < b
        /\ l <= a * PerBlock /\ b * PerBlock < l + 1 + PerBlock
    BY <1>1, <1>2
  <2> HIDE DEF a, b, l
  <2>2. a * PerBlock <= room * PerBlock
    BY <2>1
  <2>3. room * PerBlock + PerBlock <= b * PerBlock
    BY <2>1
  <2>4. room * PerBlock = l
    <3> DEFINE u == a * PerBlock
               v == room * PerBlock
               w == b * PerBlock
    <3>1. u \in Nat /\ v \in Nat /\ w \in Nat
      BY <2>1
    <3>2. l <= u /\ u <= v /\ v + PerBlock <= w /\ w < l + 1 + PerBlock
      BY <2>1, <2>2, <2>3
    <3> HIDE DEF u, v, w
    <3>3. v = l
      BY <2>1, <3>1, <3>2
    <3> QED BY <3>3 DEF v
  <2> QED BY <2>4 DEF l
<1>4. Cut(m, room) = [m EXCEPT !.entries = SubSeq(t, 1, Len(s))]
  <2> DEFINE q == IF Len(m.entries) < room * PerBlock THEN Len(m.entries) ELSE room * PerBlock
  <2>1. q = Len(s)
    BY <1>1, <1>3
  <2>2. Cut(m, room) = [m EXCEPT !.entries = SubSeq(m.entries, 1, q)]
    BY DEF Cut
  <2> HIDE DEF q
  <2> QED BY <2>1, <2>2
<1>5. SubSeq(t, 1, Len(s)) = s
  <2> HIDE DEF s, t
  <2> QED BY <1>1
<1>6. n = [type |-> "dir", entries |-> s, data |-> n.data]
      /\ m = [type |-> "dir", entries |-> t, data |-> n.data]
  BY DEF Node
<1> HIDE DEF s, t
<1> QED BY <1>4, <1>5, <1>6

WithEntries(n, s) == [n EXCEPT !.entries = s]

LEMMA WithEntriesIs ==
  ASSUME NEW n, n \in Node, NEW s \in Seq(Entry), NEW m, m = WithEntries(n, s)
  PROVE  m \in Node /\ m.type = n.type /\ m.data = n.data /\ m.entries = s
BY DEF Node, WithEntries

LEMMA LinkedIs ==
  ASSUME NEW d, Healthy(d), NEW dir \in Inode, IsDir(d, dir), NEW i \in Unused(d),
         NEW name \in Names \cup Special, Matches(d, dir, name) = {},
         NEW type \in {"dir", "normal"}, NEW r, r = Linked(d, dir, name, i, type)
  PROVE  /\ r.ok \in BOOLEAN /\ Healthy(r.disk)
         /\ Grew(d, r.disk, r.ok, i, dir, name, type)
         /\ Balanced(d) /\ dir \notin d.damaged => Balanced(r.disk)
<1> DEFINE b == [d EXCEPT !.node[i] = Blank(type)]
           x == [name |-> name, inode |-> i]
           m == [b.node[dir] EXCEPT !.entries = Append(d.node[dir].entries, x)]
           room == Room(b, dir)
<1>2. /\ Healthy(b) /\ OnlyAt(d, b, i, Blank(type)) /\ b.free = d.free /\ b.damaged = d.damaged
      /\ Balanced(d) => Balanced(b)
  BY Born
<1>3. /\ i \in Inode /\ i # Root /\ i \notin d.damaged /\ \A j \in Inode : i \notin Children(d, j)
      /\ d.node[i] = Blank("none") /\ \A j \in Inode : Children(b, j) = Children(d, j)
  BY Fresh, Born
<1>1. r = Store(b, dir, m)
  <2>1. d.reissued \cup ({i} \ Unused(d)) = d.reissued
    OBVIOUS
  <2>2. [d EXCEPT !.node[i] = Blank(type), !.reissued = @ \cup ({i} \ Unused(d))] = b
    <3>1. [d EXCEPT !.node[i] = Blank(type), !.reissued = @ \cup ({i} \ Unused(d))]
            = [b EXCEPT !.reissued = d.reissued]
      BY <2>1 DEF Healthy, Typed
    <3>2. b \in [node : {b.node}, free : {b.free}, damaged : {b.damaged}, reissued : {d.reissued}]
      BY DEF Healthy, Typed
    <3> HIDE DEF b
    <3>3. [b EXCEPT !.reissued = d.reissued] = b
      BY <3>2
    <3> QED BY <3>1, <3>3
  <2> QED BY <2>2 DEF Linked
<1> HIDE DEF b
<1>4. i # dir /\ b.node[dir] = d.node[dir] /\ b.node[i] = Blank(type)
  <2>1. i # dir
    BY DEF Unused, IsDir
  <2> QED BY <2>1, <1>2 DEF OnlyAt
<1>5. b.node[dir] \in Node /\ b.node[dir].type = "dir" /\ d.node[dir] \in Node
  BY <1>2, <1>4, NodeIs DEF Healthy, IsDir
<1>6. /\ m \in Node /\ m.type = "dir" /\ m.data = b.node[dir].data
      /\ Longer(b.node[dir].entries, m.entries, x)
  <2> DEFINE s == b.node[dir].entries
             t == Append(s, x)
  <2>1. s \in Seq(Entry) /\ x \in Entry
    BY <1>3, <1>5 DEF Node, Entry
  <2>2. m = WithEntries(b.node[dir], t)
    BY <1>4 DEF WithEntries
  <2> HIDE DEF s, x
  <2>3. t \in Seq(Entry) /\ Longer(s, t, x)
    BY <2>1 DEF Longer
  <2> HIDE DEF t, m
  <2>4. m \in Node /\ m.type = "dir" /\ m.data = b.node[dir].data /\ m.entries = t
    BY <1>5, <2>2, <2>3, WithEntriesIs
  <2> QED BY <2>3, <2>4 DEF s
<1> HIDE DEF m
<1>7. Typed(b)
  BY <1>2 DEF Healthy
<1>8. /\ r.ok \in BOOLEAN /\ room \in Nat
      /\ r.ok <=> Size(m) <= room
      /\ Typed(r.disk)
      /\ r.ok => /\ OnlyAt(b, r.disk, dir, m) /\ r.disk.free = room - Size(m)
                 /\ r.disk.damaged = b.damaged
      /\ ~r.ok => /\ OnlyAt(b, r.disk, dir, Cut(m, room)) /\ r.disk.free = 0
                  /\ r.disk.damaged = b.damaged \cup {dir}
  BY <1>1, <1>6, <1>7, StoreIs
<1>9. ~r.ok => Cut(m, room) = b.node[dir]
  <2>1. Size(b.node[dir]) \in Nat /\ b.free \in Nat
    BY <1>5, <1>7, SizeIs DEF Typed
  <2>2. Size(b.node[dir]) <= room
    BY <2>1 DEF Room
  <2> QED BY <1>5, <1>6, <1>8, <2>2, CutKeeps
<1>10. Matches(b, dir, name) = {}
  BY <1>4 DEF Matches
<1>11. Grew(d, r.disk, r.ok, i, dir, name, type)
  <2>1. r.disk.node[i] = Blank(type)
    BY <1>3, <1>4, <1>8 DEF OnlyAt
  <2>2. \A j \in Inode : j # i /\ j # dir => r.disk.node[j] = d.node[j]
    BY <1>2, <1>8 DEF OnlyAt
  <2>3. r.ok => /\ Longer(d.node[dir].entries, r.disk.node[dir].entries, x)
                /\ r.disk.node[dir].type = "dir" /\ r.disk.node[dir].data = d.node[dir].data
                /\ r.disk.damaged = d.damaged
    BY <1>2, <1>4, <1>6, <1>8 DEF OnlyAt
  <2>4. ~r.ok => r.disk.node[dir] = d.node[dir] /\ r.disk.free = 0 /\ r.disk.damaged = d.damaged \cup {dir}
    BY <1>2, <1>4, <1>8, <1>9 DEF OnlyAt
  <2> HIDE DEF x
  <2>5. r.ok => Longer(d.node[dir].entries, r.disk.node[dir].entries, [name |-> name, inode |-> i])
    BY <2>3 DEF x
  <2> QED BY <1>3, <1>4, <2>1, <2>2, <2>3, <2>4, <2>5 DEF Grew
<1>12. Healthy(r.disk)
  <2>1. CASE r.ok
    <3>1. IsDir(b, dir) /\ b.node[i].type # "none" /\ \A j \in Inode : i \notin Children(b, j)
      BY <1>3, <1>4, <1>5, BlankIs DEF IsDir
    <3>2. OnlyAt(b, r.disk, dir, m) /\ r.disk.damaged \subseteq b.damaged \cup {dir}
      BY <1>8, <2>1
    <3>3. Longer(b.node[dir].entries, m.entries, [name |-> name, inode |-> i])
      BY <1>6
    <3> HIDE DEF x, room
    <3> QED BY <1>2, <1>3, <1>6, <1>8, <1>10, <3>1, <3>2, <3>3, More
  <2>2. CASE ~r.ok
    <3>1. OnlyAt(b, r.disk, dir, b.node[dir]) /\ r.disk.damaged = b.damaged \cup {dir}
      BY <1>8, <1>9, <2>2
    <3>2. \A j \in Inode : r.disk.node[j] = b.node[j]
      BY <3>1 DEF OnlyAt
    <3>3. Plain(r.disk)
      <4>1. \A j \in Inode : r.disk.node[j].type # "dir" => r.disk.node[j].entries = <<>>
        BY <1>2, <3>2 DEF Healthy, Plain
      <4>2. ASSUME NEW j \in Unused(r.disk)
            PROVE  r.disk.node[j] = Blank("none") /\ j \notin r.disk.damaged
        <5>1. j \in Unused(b) /\ j # dir /\ j \in Inode
          BY <1>5, <3>2 DEF Unused
        <5> QED BY <1>2, <3>1, <3>2, <5>1 DEF Healthy, Plain
      <4> QED BY <4>1, <4>2 DEF Plain
    <3>4. \A j \in Inode : Part(r.disk.node[j].entries, b.node[j].entries)
      BY <3>2, Parts
    <3>5. ASSUME NEW j \in Inode, NEW c \in Children(r.disk, j) PROVE r.disk.node[c].type # "none"
      <4>1. c \in Children(b, j)
        BY <3>2 DEF Children
      <4> QED BY <1>2, <3>2, <4>1, ParentIsDir
    <3>6. r.disk.node[Root].type = "dir"
      BY <1>2, <3>2, InodeAssumption DEF Healthy
    <3> QED BY <1>2, <1>8, <3>3, <3>4, <3>5, <3>6, Less
  <2> QED BY <1>8, <2>1, <2>2
<1>13. ASSUME Balanced(d), dir \notin d.damaged PROVE Balanced(r.disk)
  <2>1. Balanced(b) /\ dir \in Inode \ b.damaged
    BY <1>2, <1>13
  <2>2. CASE r.ok
    <3>1. r.disk.free + Size(m) = b.free + Size(b.node[dir])
      <4>1. Size(m) \in Nat
        BY <1>6, SizeIs
      <4> QED BY <1>8, <2>2, <4>1 DEF Room
    <3> QED BY <1>7, <1>8, <2>1, <2>2, <3>1, BalanceAt
  <2>3. CASE ~r.ok
    <3> DEFINE c == Cut(m, room)
    <3>1. OnlyAt(b, r.disk, dir, c) /\ r.disk.free = 0 /\ r.disk.damaged = b.damaged \cup {dir}
      BY <1>8, <2>3
    <3> HIDE DEF c
    <3> QED BY <1>7, <1>8, <2>1, <3>1, BalanceAt
  <2> QED BY <1>8, <2>2, <2>3
<1> QED BY <1>8, <1>11, <1>12, <1>13

LEMMA LongerChildren ==
  ASSUME NEW d, Typed(d), NEW e, Typed(e), NEW dir \in Inode, NEW x,
         Longer(d.node[dir].entries, e.node[dir].entries, x)
  PROVE  /\ Children(e, dir) = Children(d, dir) \cup {x.inode}
         /\ \A name : Matches(e, dir, name) = Matches(d, dir, name) \cup {y \in {x} : y.name = name}
<1> DEFINE s == d.node[dir].entries
           t == e.node[dir].entries
<1>1. Len(s) \in Nat /\ Longer(s, t, x)
  BY NodeIs
<1> SUFFICES /\ {y.inode : y \in Range(t)} = {y.inode : y \in Range(s)} \cup {x.inode}
             /\ \A name : {y \in Range(t) : y.name = name}
                            = {y \in Range(s) : y.name = name} \cup {y \in {x} : y.name = name}
  BY DEF Children, Matches
<1> HIDE DEF s, t
<1>2. Range(t) = Range(s) \cup {x}
  <2>1. ASSUME NEW k \in DOMAIN t PROVE t[k] = x \/ (k \in DOMAIN s /\ t[k] = s[k])
    <3>1. k = Len(s) + 1 \/ k \in 1 .. Len(s)
      BY <1>1 DEF Longer
    <3> QED BY <1>1, <3>1 DEF Longer
  <2>2. \A k \in DOMAIN s : k \in DOMAIN t /\ t[k] = s[k]
    BY <1>1 DEF Longer
  <2>3. Len(s) + 1 \in DOMAIN t /\ t[Len(s) + 1] = x
    BY <1>1 DEF Longer
  <2> QED BY <2>1, <2>2, <2>3 DEF Range
<1> QED BY <1>2

LEMMA GrewIs ==
  ASSUME NEW d, Healthy(d), NEW e, Healthy(e), NEW ok, NEW i, NEW dir, NEW name,
         NEW type \in {"dir", "normal"}, Grew(d, e, ok, i, dir, name, type)
  PROVE  /\ i \in Inode /\ dir \in Inode
         /\ \A j \in Inode : j # i /\ j # dir => Children(e, j) = Children(d, j)
         /\ Children(d, i) = {} /\ Children(e, i) = {}
         /\ ok => Children(e, dir) = Children(d, dir) \cup {i}
         /\ ~ok => Children(e, dir) = Children(d, dir)
         /\ \A j \in Inode : j # i => e.node[j].type = d.node[j].type
<1>1. i \in Inode /\ dir \in Inode /\ i # dir /\ i \in Unused(d)
  BY DEF Grew, Unused
<1>2. \A j \in Inode : j # i /\ j # dir => Children(e, j) = Children(d, j)
  BY DEF Grew, Children
<1>3. Children(d, i) = {}
  BY <1>1, Fresh
<1>4. Children(e, i) = {}
  <2>1. e.node[i].entries = <<>>
    BY BlankIs DEF Grew
  <2> QED BY <2>1 DEF Children, Range
<1>5. ok => Children(e, dir) = Children(d, dir) \cup {i}
  <2> DEFINE x == [name |-> name, inode |-> i]
  <2>1. ok => Longer(d.node[dir].entries, e.node[dir].entries, x)
    BY DEF Grew
  <2>2. x.inode = i
    OBVIOUS
  <2> HIDE DEF x
  <2> QED BY <1>1, <2>1, <2>2, LongerChildren DEF Healthy
<1>6. ~ok => Children(e, dir) = Children(d, dir)
  BY DEF Grew, Children
<1>7. \A j \in Inode : j # i => e.node[j].type = d.node[j].type
  BY DEF Grew, IsDir
<1> QED BY <1>1, <1>2, <1>3, <1>4, <1>5, <1>6, <1>7

LEMMA GrewTree ==
  ASSUME NEW d, Healthy(d), NEW e, Healthy(e), NEW ok, NEW i, NEW dir, NEW name,
         NEW type \in {"dir", "normal"}, Grew(d, e, ok, i, dir, name, type)
  PROVE  /\ \A s : OnTree(d, s) => OnTree(e, s)
         /\ \A j \in Inode : IsDir(d, j) => IsDir(e, j)
         /\ AtHome(d) => AtHome(e)
<1>1. \A j \in Inode : Children(d, j) \subseteq Children(e, j)
  BY GrewIs
<1>2. i \in Unused(d)
  BY DEF Grew
<1>3. \A j \in Inode : IsDir(d, j) => IsDir(e, j)
  <2>1. ~IsDir(d, i)
    BY <1>2 DEF Unused, IsDir
  <2> QED BY <2>1, GrewIs DEF IsDir
<1>4. ASSUME NEW s, OnTree(d, s) PROVE OnTree(e, s)
  <2>1. \A k \in 1 .. Len(s) - 1 : s[k + 1] \in Children(e, s[k])
    <3>1. \A k \in 1 .. Len(s) - 1 : k \in 1 .. Len(s)
      BY <1>4, OnTreeIs
    <3>2. \A k \in 1 .. Len(s) : s[k] \in Inode
      BY <1>4, OnTreeIs
    <3> QED BY <1>1, <1>4, <3>1, <3>2 DEF OnTree
  <2> QED BY <1>4, <2>1, StaysOnTree
<1>5. AtHome(d) => AtHome(e)
  BY <1>3, <1>4, OnTreeIs DEF AtHome
<1> QED BY <1>3, <1>4, <1>5

(* Walks on two disks that go the same way.                                *)
Follows(d, strictD, e, strictE) ==
  \A s : OnTree(e, s) => \A name \in Segments :
    Enter(e, s, name, strictE) # <<>> => Enter(d, s, name, strictD) = Enter(e, s, name, strictE)

LEMMA SameWalk ==
  ASSUME NEW d, NEW e, Healthy(e), AtHome(e), NEW strictD \in BOOLEAN, NEW strictE \in BOOLEAN,
         Follows(d, strictD, e, strictE), NEW path \in Path
  PROVE  /\ \A k \in 0 .. Len(path.segs) : Trace(e, path, strictE)[k] # <<>> =>
              Trace(d, path, strictD)[k] = Trace(e, path, strictE)[k]
         /\ Walk(e, path, strictE) # <<>> => Walk(d, path, strictD) = Walk(e, path, strictE)
<1> DEFINE f == Trace(d, path, strictD)
           g == Trace(e, path, strictE)
           n == Len(path.segs)
           T == {k \in Nat : k \in 0 .. n => (g[k] # <<>> => f[k] = g[k])}
<1>1. /\ n \in Nat /\ g[0] = Start(path) /\ f[0] = Start(path)
      /\ \A k \in 1 .. n : g[k] = Move(e, g[k - 1], path.segs[k], strictE)
      /\ \A k \in 1 .. n : f[k] = Move(d, f[k - 1], path.segs[k], strictD)
  BY TraceSteps
<1>2. \A k \in 0 .. n : g[k] # <<>> => OnTree(e, g[k])
  BY TraceOnTree
<1>3. \A k \in 1 .. n : path.segs[k] \in Segments
  BY DEF Path
<1> HIDE DEF f, g, n
<1>4. 0 \in T
  BY <1>1
<1>5. ASSUME NEW k \in Nat, k \in T PROVE k + 1 \in T
  <2> SUFFICES ASSUME k + 1 \in 0 .. n, g[k + 1] # <<>> PROVE f[k + 1] = g[k + 1]
    OBVIOUS
  <2>1. k \in 0 .. n /\ k + 1 \in 1 .. n /\ (k + 1) - 1 = k
    BY <1>1
  <2> DEFINE s == g[k]
             name == path.segs[k + 1]
  <2>2. g[k + 1] = Move(e, s, name, strictE) /\ f[k + 1] = Move(d, f[k], name, strictD)
    BY <1>1, <2>1
  <2>3. s # <<>>
    BY <2>2 DEF Move
  <2>4. f[k] = s /\ OnTree(e, s) /\ name \in Segments
    BY <1>2, <1>3, <1>5, <2>1, <2>3
  <2> HIDE DEF s, name
  <2>5. Move(e, s, name, strictE) # <<>> => Move(d, s, name, strictD) = Move(e, s, name, strictE)
    <3>1. CASE name = "." \/ name = ".."
      BY <2>3, <3>1 DEF Move
    <3>2. CASE name # "." /\ name # ".."
      <4>1. Move(e, s, name, strictE) = Enter(e, s, name, strictE)
            /\ Move(d, s, name, strictD) = Enter(d, s, name, strictD)
        BY <2>3, <3>2 DEF Move
      <4> QED BY <2>4, <4>1 DEF Follows
    <3> QED BY <3>1, <3>2
  <2> QED BY <2>2, <2>4, <2>5
<1> HIDE DEF T
<1>6. Nat \subseteq T
  BY <1>4, <1>5, Induct
<1>7. \A k \in 0 .. n : g[k] # <<>> => f[k] = g[k]
  BY <1>1, <1>6 DEF T
<1>8. n \in 0 .. n
  BY <1>1
<1>9. Walk(e, path, strictE) = g[n] /\ Walk(d, path, strictD) = f[n]
  BY DEF Walk, f, g, n
<1> QED BY <1>7, <1>8, <1>9 DEF f, g, n

LEMMA StrictWalk ==
  ASSUME NEW d, Healthy(d), AtHome(d), NEW path \in Path, Walk(d, path, TRUE) # <<>>
  PROVE  Walk(d, path, FALSE) = Walk(d, path, TRUE)
<1>1. Follows(d, FALSE, d, TRUE)
  BY DEF Follows, Enter
<1> QED BY <1>1, SameWalk

LEMMA GrewWalk ==
  ASSUME NEW d, Healthy(d), AtHome(d), NEW e, Healthy(e), NEW ok, NEW i, NEW dir, NEW name,
         NEW type \in {"dir", "normal"}, Grew(d, e, ok, i, dir, name, type),
         NEW path \in Path, Walk(d, path, FALSE) # <<>>
  PROVE  Walk(e, path, FALSE) = Walk(d, path, FALSE)
<1>1. ASSUME NEW s, OnTree(d, s), NEW seg \in Segments, Enter(d, s, seg, FALSE) # <<>>
      PROVE  Enter(e, s, seg, FALSE) = Enter(d, s, seg, FALSE)
  <2> DEFINE c == Last(s)
  <2>1. c \in Inode /\ d.node[c].type # "none"
    BY <1>1, OnTreeIs
  <2>2. Matches(d, c, seg) # {}
    BY <1>1 DEF Enter
  <2> HIDE DEF c
  <2>3. c # i
    BY <2>1 DEF Grew, Unused
  <2>4. Matches(e, c, seg) = Matches(d, c, seg)
    <3>1. CASE c # dir
      BY <2>1, <2>3, <3>1 DEF Grew, Matches
    <3>2. CASE c = dir /\ ~ok
      BY <3>2 DEF Grew, Matches
    <3>3. CASE c = dir /\ ok
      <4> DEFINE x == [name |-> name, inode |-> i]
      <4>1. Longer(d.node[dir].entries, e.node[dir].entries, x) /\ x.name = name
        BY <3>3 DEF Grew
      <4> HIDE DEF x
      <4>2. Matches(e, dir, seg) = Matches(d, dir, seg) \cup {y \in {x} : y.name = seg}
        BY <2>1, <3>3, <4>1, LongerChildren DEF Healthy
      <4>3. name # seg
        BY <2>2, <3>3 DEF Grew
      <4> QED BY <3>3, <4>1, <4>2, <4>3
    <3> QED BY <3>1, <3>2, <3>3
  <2> QED BY <2>2, <2>4 DEF Enter, c
<1>2. Follows(e, FALSE, d, FALSE)
  BY <1>1 DEF Follows
<1> QED BY <1>2, SameWalk

LEMMA SameDepth ==
  ASSUME NEW d, Healthy(d), NEW s, OnTree(d, s), NEW t, OnTree(d, t),
         NEW k \in 1 .. Len(s), NEW l \in 1 .. Len(t), s[k] = t[l]
  PROVE  k = l
<1> DEFINE T == {m \in Nat : m \in 1 .. Len(s) => \A n \in 1 .. Len(t) : s[m] = t[n] => m = n}
<1>1. /\ Len(s) \in Nat /\ Len(t) \in Nat /\ s[1] = Root /\ t[1] = Root
      /\ \A m \in 2 .. Len(s) : s[m] \in Children(d, s[m - 1]) /\ s[m] # Root
      /\ \A m \in 2 .. Len(t) : t[m] \in Children(d, t[m - 1]) /\ t[m] # Root
      /\ \A m \in 1 .. Len(s) : s[m] \in Inode
      /\ \A m \in 1 .. Len(t) : t[m] \in Inode
  BY OnTreeIs DEF OnTree
<1>2. 0 \in T
  OBVIOUS
<1>3. ASSUME NEW m \in Nat, m \in T PROVE m + 1 \in T
  <2> SUFFICES ASSUME m + 1 \in 1 .. Len(s), NEW n \in 1 .. Len(t), s[m + 1] = t[n]
               PROVE  m + 1 = n
    OBVIOUS
  <2>1. CASE m = 0
    <3>1. n \notin 2 .. Len(t)
      BY <1>1, <2>1
    <3> QED BY <1>1, <2>1, <3>1
  <2>2. CASE m # 0
    <3>1. m + 1 \in 2 .. Len(s) /\ m \in 1 .. Len(s) /\ (m + 1) - 1 = m
      BY <1>1, <2>2
    <3>2. n \in 2 .. Len(t) /\ n - 1 \in 1 .. Len(t)
      BY <1>1, <3>1
    <3>3. s[m] = t[n - 1]
      <4>1. s[m + 1] \in Children(d, s[m]) /\ s[m] \in Inode
        BY <1>1, <3>1
      <4>2. t[n] \in Children(d, t[n - 1]) /\ t[n - 1] \in Inode
        BY <1>1, <3>2
      <4> QED BY <4>1, <4>2, OneParent
    <3>4. m = n - 1
      BY <1>3, <3>1, <3>2, <3>3
    <3> QED BY <3>2, <3>4
  <2> QED BY <2>1, <2>2
<1> HIDE DEF T
<1>4. Nat \subseteq T
  BY <1>2, <1>3, Induct
<1>5. k \in T /\ k \in 1 .. Len(s)
  BY <1>1, <1>4
<1> QED BY <1>5 DEF T
-----------------------------------------------------------------------------
(* _rmfile.                                                                *)

Shrunk(s, t, k) ==
  /\ t \in Seq(Entry) /\ Len(t) = Len(s) - 1 /\ DOMAIN t = 1 .. Len(s) - 1
  /\ \A j \in 1 .. Len(s) - 1 : t[j] = IF j < k THEN s[j] ELSE s[j + 1]

LEMMA RemoveAtIs ==
  ASSUME NEW s \in Seq(Entry), NEW k \in DOMAIN s
  PROVE  Shrunk(s, RemoveAt(s, k), k)
<1> DEFINE a == SubSeq(s, 1, k - 1)
           b == SubSeq(s, k + 1, Len(s))
           t == a \o b
<1>1. k \in 1 .. Len(s) /\ Len(s) \in Nat
  OBVIOUS
<1>2. /\ a \in Seq(Entry) /\ Len(a) = k - 1 /\ \A j \in 1 .. k - 1 : a[j] = s[j]
  BY <1>1
<1>3. /\ b \in Seq(Entry) /\ Len(b) = Len(s) - k /\ \A j \in 1 .. Len(s) - k : b[j] = s[k + j]
  BY <1>1
<1> HIDE DEF a, b
<1>4. t \in Seq(Entry) /\ Len(t) = Len(s) - 1
  BY <1>1, <1>2, <1>3
<1>5. \A j \in 1 .. Len(s) - 1 : t[j] = IF j < k THEN s[j] ELSE s[j + 1]
  <2> SUFFICES ASSUME NEW j \in 1 .. Len(s) - 1 PROVE t[j] = IF j < k THEN s[j] ELSE s[j + 1]
    OBVIOUS
  <2>1. CASE j < k
    BY <1>1, <1>2, <1>3, <2>1
  <2>2. CASE ~(j < k)
    <3>1. j - (k - 1) \in 1 .. Len(s) - k /\ k + (j - (k - 1)) = j + 1
      BY <1>1, <2>2
    <3>2. t[j] = b[j - (k - 1)]
      BY <1>1, <1>2, <1>3, <2>2
    <3> QED BY <1>3, <2>2, <3>1, <3>2
  <2> QED BY <2>1, <2>2
<1>6. RemoveAt(s, k) = t
  BY DEF RemoveAt, a, b
<1>7. DOMAIN t = 1 .. Len(s) - 1
  BY <1>4
<1> HIDE DEF t
<1> QED BY <1>4, <1>5, <1>6, <1>7 DEF Shrunk

LEMMA ShrunkPart ==
  ASSUME NEW s \in Seq(Entry), NEW k \in DOMAIN s, NEW t, Shrunk(s, t, k)
  PROVE  /\ Part(t, s)
         /\ \A x : x \in Range(t) <=> \E j \in DOMAIN s : j # k /\ x = s[j]
<1>1. k \in 1 .. Len(s) /\ Len(s) \in Nat /\ DOMAIN s = 1 .. Len(s)
  OBVIOUS
<1> DEFINE F(j) == IF j < k THEN j ELSE j + 1
           f == [j \in DOMAIN t |-> F(j)]
<1>2. DOMAIN t = 1 .. Len(s) - 1
  BY DEF Shrunk
<1>3. ASSUME NEW j \in DOMAIN t PROVE F(j) \in DOMAIN s /\ t[j] = s[F(j)] /\ F(j) # k
  BY <1>1, <1>2, <1>3 DEF Shrunk
<1>4. \A j, l \in DOMAIN t : F(j) = F(l) => j = l
  BY <1>1, <1>2
<1>5. Part(t, s)
  <2>1. f \in [DOMAIN t -> DOMAIN s] /\ \A j \in DOMAIN t : f[j] = F(j)
    BY <1>3
  <2> HIDE DEF f, F
  <2> QED BY <1>3, <1>4, <2>1 DEF Part
<1>6. ASSUME NEW j \in DOMAIN s, j # k PROVE s[j] \in Range(t)
  <2>1. CASE j < k
    <3>1. j \in DOMAIN t /\ t[j] = s[j]
      BY <1>1, <1>2, <2>1 DEF Shrunk
    <3> QED BY <3>1 DEF Range
  <2>2. CASE ~(j < k)
    <3>1. j - 1 \in DOMAIN t /\ ~(j - 1 < k) /\ (j - 1) + 1 = j
      BY <1>1, <1>2, <1>6, <2>2
    <3>2. t[j - 1] = s[j]
      BY <1>2, <3>1 DEF Shrunk
    <3> QED BY <3>1, <3>2 DEF Range
  <2> QED BY <2>1, <2>2
<1>7. ASSUME NEW x \in Range(t) PROVE \E j \in DOMAIN s : j # k /\ x = s[j]
  BY <1>3 DEF Range
<1> QED BY <1>5, <1>6, <1>7

LEMMA WithoutIs ==
  ASSUME NEW d, Healthy(d), NEW dir \in Inode, NEW target \in Children(d, dir),
         NEW t, t = Without(d.node[dir].entries, target)
  PROVE  /\ t \in Seq(Entry) /\ Len(t) = Len(d.node[dir].entries) - 1
         /\ Part(t, d.node[dir].entries)
         /\ {x.inode : x \in Range(t)} = Children(d, dir) \ {target}
         /\ \A x : x \in Range(t) <=> x \in Range(d.node[dir].entries) /\ x.inode # target
<1> DEFINE s == d.node[dir].entries
           k == CHOOSE k \in DOMAIN s : s[k].inode = target
<1>1. s \in Seq(Entry) /\ Len(s) \in Nat
  BY NodeIs DEF Healthy
<1>2. k \in DOMAIN s /\ s[k].inode = target
  <2>1. \E l \in DOMAIN s : s[l].inode = target
    BY ChildIs DEF Healthy
  <2> QED BY <2>1
<1>3. \A l \in DOMAIN s : s[l].inode = target => l = k
  BY <1>2 DEF Healthy, Once
<1>4. t = RemoveAt(s, k)
  BY DEF Without
<1>5. Children(d, dir) = {x.inode : x \in Range(s)}
  BY DEF Children
<1> HIDE DEF s, k
<1>6. Shrunk(s, t, k)
  BY <1>1, <1>2, <1>4, RemoveAtIs
<1>7. Part(t, s) /\ \A x : x \in Range(t) <=> \E j \in DOMAIN s : j # k /\ x = s[j]
  BY <1>1, <1>2, <1>6, ShrunkPart
<1>8. \A x : x \in Range(t) <=> x \in Range(s) /\ x.inode # target
  BY <1>2, <1>3, <1>7 DEF Range
<1>9. {x.inode : x \in Range(t)} = Children(d, dir) \ {target}
  BY <1>5, <1>8
<1> QED BY <1>6, <1>7, <1>8, <1>9 DEF Shrunk, s

Blanked(d, target, free) == [d EXCEPT !.node[target] = Blank("none"), !.free = free]

(* An inode without name and entries is given back.                        *)
LEMMA BlankedIs ==
  ASSUME NEW d, Healthy(d), NEW target \in Inode \ d.damaged, target # Root,
         d.node[target].entries = <<>>, \A j \in Inode : target \notin Children(d, j),
         NEW e, e = Blanked(d, target, d.free + Size(d.node[target]))
  PROVE  /\ Healthy(e) /\ OnlyAt(d, e, target, Blank("none")) /\ e.damaged = d.damaged
         /\ \A j \in Inode : Children(e, j) = Children(d, j)
         /\ Balanced(d) => Balanced(e)
         /\ e.free = d.free + Size(d.node[target])
<1>1. Typed(d) /\ d.free \in Nat /\ d.damaged \in SUBSET Inode
      /\ d = [node |-> d.node, free |-> d.free, damaged |-> d.damaged, reissued |-> d.reissued]
  BY DEF Healthy, Typed
<1>2. /\ Blank("none") \in Node /\ Size(Blank("none")) = 0
      /\ Blank("none").type = "none" /\ Blank("none").entries = <<>>
  BY BlankIs
<1> DEFINE free == d.free + Size(d.node[target])
<1>3. Size(d.node[target]) \in Nat
  BY <1>1, NodeIs, SizeIs
<1>4. free \in Nat
  BY <1>1, <1>3
<1>5. e = Blanked(d, target, free)
  OBVIOUS
<1> HIDE DEF free
<1>6. e = With(d, target, Blank("none"), free, d.damaged)
  BY <1>1, <1>5 DEF With, Blanked
<1>7. Typed(e) /\ OnlyAt(d, e, target, Blank("none")) /\ e.free = free /\ e.damaged = d.damaged
  BY <1>1, <1>2, <1>4, <1>6, WithIs
<1>8. \A j \in Inode : Children(e, j) = Children(d, j)
  BY <1>2, <1>7 DEF OnlyAt, Children
<1>9. Plain(e)
  <2>1. \A j \in Inode : e.node[j].type # "dir" => e.node[j].entries = <<>>
    BY <1>2, <1>7 DEF OnlyAt, Healthy, Plain
  <2>2. ASSUME NEW j \in Unused(e) PROVE e.node[j] = Blank("none") /\ j \notin e.damaged
    <3>1. CASE j = target
      BY <1>7, <3>1 DEF OnlyAt
    <3>2. CASE j # target
      <4>1. j \in Unused(d) /\ e.node[j] = d.node[j]
        BY <1>7, <2>2, <3>2 DEF OnlyAt, Unused
      <4> QED BY <1>7, <4>1 DEF Healthy, Plain
    <3> QED BY <3>1, <3>2
  <2> QED BY <2>1, <2>2 DEF Plain
<1>10. \A j \in Inode : Part(e.node[j].entries, d.node[j].entries)
  BY <1>2, <1>7, Parts DEF OnlyAt
<1>11. ASSUME NEW j \in Inode, NEW c \in Children(e, j) PROVE e.node[c].type # "none"
  <2>1. c \in Children(d, j) /\ c # target
    BY <1>8
  <2>2. c \in Inode /\ d.node[c].type # "none"
    BY <2>1, ParentIsDir
  <2> QED BY <1>7, <2>1, <2>2 DEF OnlyAt
<1>12. e.node[Root].type = "dir"
  BY <1>7, InodeAssumption DEF OnlyAt, Healthy
<1>13. Healthy(e)
  BY <1>7, <1>9, <1>10, <1>11, <1>12, Less
<1>14. ASSUME Balanced(d) PROVE Balanced(e)
  <2>1. e.free + Size(Blank("none")) = d.free + Size(d.node[target])
    BY <1>2, <1>3, <1>4, <1>7 DEF free
  <2> QED BY <1>1, <1>7, <1>14, <2>1, BalanceAt
<1> QED BY <1>7, <1>8, <1>13, <1>14 DEF free

(* The entry goes and then the inode.                                      *)
Gone(d, e, dir, target) ==
  /\ e.node[target] = Blank("none")
  /\ \A j \in Inode : j # dir /\ j # target => e.node[j] = d.node[j]
  /\ \A x : x \in Range(e.node[dir].entries) <=>
              x \in Range(d.node[dir].entries) /\ x.inode # target
  /\ e.node[dir].type = d.node[dir].type /\ e.node[dir].data = d.node[dir].data
  /\ Children(e, dir) = Children(d, dir) \ {target} /\ Children(e, target) = {}
  /\ e.damaged = d.damaged

LEMMA FewerBlocks ==
  ASSUME NEW n, n \in Node, NEW m, m \in Node, n.type = "dir", m.type = "dir",
         Len(m.entries) <= Len(n.entries)
  PROVE  Size(m) <= Size(n)
<1> DEFINE a == Size(m)
           b == Size(n)
           k == Len(m.entries)
           l == Len(n.entries)
<1>1. /\ a \in Nat /\ b \in Nat /\ k \in Nat /\ l \in Nat /\ PerBlock \in Nat \ {0}
      /\ a * PerBlock < k + PerBlock /\ l <= b * PerBlock /\ k <= l
  BY SizeIs, BlockAssumption DEF Node
<1> HIDE DEF a, b, k, l
<1>2. a <= b
  <2> SUFFICES ASSUME b + 1 <= a PROVE FALSE
    BY <1>1
  <2>1. b * PerBlock + PerBlock <= a * PerBlock
    BY <1>1
  <2> DEFINE u == a * PerBlock
             v == b * PerBlock
  <2>2. u \in Nat /\ v \in Nat
    BY <1>1
  <2>3. v + PerBlock <= u /\ u < k + PerBlock /\ l <= v
    BY <1>1, <2>1
  <2> HIDE DEF u, v
  <2> QED BY <1>1, <2>2, <2>3
<1> QED BY <1>2 DEF a, b

LEMMA UnlinkedIs ==
  ASSUME NEW d, Healthy(d), NEW stack, OnTree(d, stack), Len(stack) > 1,
         d.node[Last(stack)].entries = <<>>,
         Last(stack) \notin d.damaged,
         stack[Len(stack) - 1] \notin d.damaged,
         NEW e, e = Unlinked(d, stack)
  PROVE  /\ Healthy(e) /\ Gone(d, e, stack[Len(stack) - 1], Last(stack))
         /\ Balanced(d) => Balanced(e)
<1> DEFINE target == Last(stack)
           dir == stack[Len(stack) - 1]
           rest == Without(d.node[dir].entries, target)
           m == WithEntries(d.node[dir], rest)
           r == Store(d, dir, m)
           b == r.disk
<1>1. /\ target \in Inode /\ dir \in Inode /\ target \in Children(d, dir) /\ target # dir
      /\ target # Root
  <2>1. /\ Len(stack) \in 2 .. Len(stack) /\ Len(stack) - 1 \in 1 .. Len(stack)
        /\ target = stack[Len(stack)] /\ target \in Inode
    BY OnTreeIs
  <2>2. target \in Children(d, dir) /\ target # Root /\ dir \in Inode
    BY <2>1, OnTreeIs
  <2>3. target # dir
    BY <2>1, SameDepth
  <2> QED BY <2>1, <2>2, <2>3
<1>2. target \notin d.damaged /\ dir \notin d.damaged /\ d.node[target].entries = <<>>
  OBVIOUS
<1>3. e = [b EXCEPT !.node[target] = Blank("none"), !.free = @ + Held(d, target)]
  BY DEF Unlinked, WithEntries
<1> HIDE DEF target, dir
<1>4. IsDir(d, dir) /\ d.node[dir] \in Node /\ Typed(d)
  BY <1>1, ParentIsDir, NodeIs DEF Healthy
<1>5. /\ rest \in Seq(Entry) /\ Len(rest) = Len(d.node[dir].entries) - 1
      /\ Part(rest, d.node[dir].entries)
      /\ {x.inode : x \in Range(rest)} = Children(d, dir) \ {target}
      /\ \A x : x \in Range(rest) <=> x \in Range(d.node[dir].entries) /\ x.inode # target
  BY <1>1, WithoutIs
<1> HIDE DEF rest
<1>6. /\ m \in Node /\ m.type = d.node[dir].type /\ m.entries = rest /\ m.type = "dir"
      /\ m.data = d.node[dir].data
  BY <1>4, <1>5, WithEntriesIs DEF IsDir
<1> HIDE DEF m
<1>7. Size(m) <= Size(d.node[dir]) /\ Size(m) \in Nat /\ Size(d.node[dir]) \in Nat /\ d.free \in Nat
  <2>1. Len(d.node[dir].entries) \in Nat /\ Len(rest) <= Len(d.node[dir].entries)
    BY <1>4, <1>5 DEF Node
  <2> QED BY <1>4, <1>6, <2>1, FewerBlocks, SizeIs DEF IsDir, Typed
<1>8. /\ r.ok /\ Typed(b) /\ OnlyAt(d, b, dir, m) /\ b.damaged = d.damaged
      /\ b.free + Size(m) = d.free + Size(d.node[dir])
  <2>1. /\ r.ok <=> Size(m) <= Room(d, dir)
        /\ Typed(b) /\ Room(d, dir) \in Nat
        /\ r.ok => /\ OnlyAt(d, b, dir, m) /\ b.free = Room(d, dir) - Size(m)
                   /\ b.damaged = d.damaged
    BY <1>1, <1>4, <1>6, StoreIs
  <2>2. r.ok
    BY <1>7, <2>1 DEF Room
  <2> QED BY <1>7, <2>1, <2>2 DEF Room
<1> HIDE DEF r
<1>9. /\ b.node[target] = d.node[target]
      /\ Children(b, dir) = Children(d, dir) \ {target}
      /\ \A j \in Inode : j # dir => Children(b, j) = Children(d, j)
      /\ \A j \in Inode : b.node[j].type = d.node[j].type
  <2>1. Children(b, dir) = {x.inode : x \in Range(rest)}
    BY <1>6, <1>8 DEF OnlyAt, Children
  <2> QED BY <1>1, <1>4, <1>5, <1>6, <1>8, <2>1 DEF OnlyAt, Children
<1>10. \A j \in Inode : target \notin Children(b, j)
  BY <1>1, <1>9, OneParent
<1>11. Healthy(b)
  <2>1. \A j \in Inode : Part(b.node[j].entries, d.node[j].entries)
    BY <1>5, <1>6, <1>8, Parts DEF OnlyAt
  <2>2. ASSUME NEW j \in Inode, NEW c \in Children(b, j) PROVE b.node[c].type # "none"
    <3>1. c \in Children(d, j)
      BY <1>9
    <3> QED BY <1>9, <3>1, ParentIsDir
  <2>3. Plain(b)
    <3>1. \A j \in Inode : b.node[j].type # "dir" => b.node[j].entries = <<>>
      BY <1>6, <1>8 DEF OnlyAt, Healthy, Plain
    <3>2. ASSUME NEW j \in Unused(b) PROVE b.node[j] = Blank("none") /\ j \notin b.damaged
      <4>1. j \in Unused(d) /\ j # dir /\ j \in Inode
        BY <1>4, <1>9 DEF Unused, IsDir
      <4> QED BY <1>8, <4>1 DEF OnlyAt, Healthy, Plain
    <3> QED BY <3>1, <3>2 DEF Plain
  <2>4. b.node[Root].type = "dir"
    BY <1>9, InodeAssumption DEF Healthy
  <2> QED BY <1>8, <2>1, <2>2, <2>3, <2>4, Less
<1>12. ASSUME Balanced(d) PROVE Balanced(b)
  BY <1>1, <1>2, <1>4, <1>8, <1>12, BalanceAt
<1>13. e = Blanked(b, target, b.free + Size(b.node[target]))
  BY <1>3, <1>9 DEF Blanked, Held
<1>14. /\ Healthy(e) /\ OnlyAt(b, e, target, Blank("none")) /\ e.damaged = b.damaged
       /\ \A j \in Inode : Children(e, j) = Children(b, j)
       /\ Balanced(b) => Balanced(e)
  BY <1>1, <1>2, <1>8, <1>9, <1>10, <1>11, <1>13, BlankedIs
<1>15. Gone(d, e, dir, target)
  <2>1. e.node[target] = Blank("none") /\ \A j \in Inode : j # dir /\ j # target => e.node[j] = d.node[j]
    BY <1>8, <1>14 DEF OnlyAt
  <2>2. e.node[dir] = m
    BY <1>1, <1>8, <1>14 DEF OnlyAt
  <2>3. Children(e, dir) = Children(d, dir) \ {target}
    BY <1>1, <1>9, <1>14
  <2>4. Children(e, target) = {}
    BY <2>1, BlankIs DEF Children, Range
  <2> QED BY <1>5, <1>6, <1>8, <1>14, <2>1, <2>2, <2>3, <2>4 DEF Gone
<1> QED BY <1>12, <1>14, <1>15 DEF target, dir
-----------------------------------------------------------------------------
(* remove_recurse.                                                         *)

(* The inodes at most n + 1 levels below i.                                *)
Nearer(d, R) == R \cup UNION {Children(d, j) : j \in R}
IsReached(g, n, d, i) ==
  g = [m \in 0 .. n |-> IF m = 0 THEN Children(d, i) ELSE Nearer(d, g[m - 1])]

LEMMA ReachedAt ==
  ASSUME NEW g, NEW n \in Nat, NEW d, NEW i, IsReached(g, n, d, i)
  PROVE  /\ DOMAIN g = 0 .. n /\ g[0] = Children(d, i)
         /\ \A m \in 1 .. n : g[m] = Nearer(d, g[m - 1])
<1> DEFINE F(m) == IF m = 0 THEN Children(d, i) ELSE Nearer(d, g[m - 1])
<1>1. g = [m \in 0 .. n |-> F(m)]
  BY DEF IsReached
<1> HIDE DEF F
<1>2. DOMAIN g = 0 .. n /\ \A m \in 0 .. n : g[m] = F(m)
  BY <1>1
<1>3. 0 \in 0 .. n /\ \A m \in 1 .. n : m \in 0 .. n /\ m # 0
  OBVIOUS
<1> QED BY <1>2, <1>3 DEF F

LEMMA ReachedExists ==
  ASSUME NEW d, NEW i
  PROVE  \A n \in Nat : \E g : IsReached(g, n, d, i)
<1> DEFINE T == {n \in Nat : \E g : IsReached(g, n, d, i)}
<1>1. 0 \in T
  <2> DEFINE g == [m \in 0 .. 0 |-> Children(d, i)]
  <2>1. g = [m \in 0 .. 0 |-> IF m = 0 THEN Children(d, i) ELSE Nearer(d, g[m - 1])]
    OBVIOUS
  <2> QED BY <2>1 DEF IsReached
<1>2. ASSUME NEW n \in Nat, n \in T PROVE n + 1 \in T
  <2>1. PICK g : IsReached(g, n, d, i)
    BY <1>2
  <2> DEFINE h == [m \in 0 .. n + 1 |-> IF m = n + 1 THEN Nearer(d, g[n]) ELSE g[m]]
             F(m) == IF m = 0 THEN Children(d, i) ELSE Nearer(d, h[m - 1])
  <2>2. ASSUME NEW m \in 0 .. n + 1 PROVE h[m] = F(m)
    <3>1. CASE m = n + 1
      <4>1. h[m - 1] = g[n] /\ m # 0
        BY <3>1
      <4> QED BY <3>1, <4>1
    <3>2. CASE m # n + 1 /\ m = 0
      BY <2>1, <3>2, ReachedAt
    <3>3. CASE m # n + 1 /\ m # 0
      <4>1. m \in 1 .. n /\ m - 1 \in 0 .. n + 1 /\ m - 1 # n + 1
        BY <3>3
      <4>2. h[m] = g[m] /\ h[m - 1] = g[m - 1]
        BY <4>1, <3>3
      <4>3. g[m] = Nearer(d, g[m - 1])
        BY <2>1, <4>1, ReachedAt
      <4> HIDE DEF h
      <4> QED BY <3>3, <4>2, <4>3
    <3> QED BY <3>1, <3>2, <3>3
  <2>3. h = [m \in 0 .. n + 1 |-> F(m)]
    BY <2>2
  <2> HIDE DEF h
  <2>4. IsReached(h, n + 1, d, i)
    BY <2>3 DEF IsReached
  <2> QED BY <2>4
<1> HIDE DEF T
<1>3. Nat \subseteq T
  BY <1>1, <1>2, Induct
<1> QED BY <1>3 DEF T

LEMMA BelowIs ==
  ASSUME NEW d, NEW i
  PROVE  \E g : IsReached(g, Cardinality(Inode), d, i) /\ Below(d, i) = g[Cardinality(Inode)]
<1> DEFINE n == Cardinality(Inode)
           g == CHOOSE g : IsReached(g, n, d, i)
<1>1. n \in Nat
  BY FS_CardinalityType, InodeAssumption
<1>2. IsReached(g, n, d, i)
  BY <1>1, ReachedExists
<1>3. Below(d, i) = g[n]
  BY DEF Below, IsReached, Nearer
<1> QED BY <1>2, <1>3

(* What is below has its parent there or in i.                             *)
LEMMA BelowHasParent ==
  ASSUME NEW d, Healthy(d), NEW i \in Inode
  PROVE  /\ Below(d, i) \subseteq Inode
         /\ \A c \in Below(d, i) : \E p \in Below(d, i) \cup {i} : p \in Inode /\ c \in Children(d, p)
         /\ Root \notin Below(d, i)
         /\ Children(d, i) \subseteq Below(d, i)
<1> DEFINE n == Cardinality(Inode)
<1>1. PICK g : IsReached(g, n, d, i) /\ Below(d, i) = g[n]
  BY BelowIs
<1>2. n \in Nat
  BY FS_CardinalityType, InodeAssumption
<1> HIDE DEF n
<1>3. g[0] = Children(d, i) /\ \A m \in 1 .. n : g[m] = Nearer(d, g[m - 1])
  BY <1>1, <1>2, ReachedAt
<1>4. ASSUME NEW p \in Inode PROVE Children(d, p) \subseteq Inode
  BY ParentIsDir
<1> DEFINE OK(R) == /\ R \subseteq Inode /\ Children(d, i) \subseteq R
                    /\ \A c \in R : \E p \in R \cup {i} : p \in Inode /\ c \in Children(d, p)
           T == {m \in Nat : m \in 0 .. n => OK(g[m])}
<1>5. 0 \in T
  BY <1>3, <1>4
<1>6. ASSUME NEW m \in Nat, m \in T PROVE m + 1 \in T
  <2> SUFFICES ASSUME m + 1 \in 0 .. n PROVE OK(g[m + 1])
    OBVIOUS
  <2>1. m \in 0 .. n /\ m + 1 \in 1 .. n /\ (m + 1) - 1 = m
    BY <1>2
  <2>2. g[m + 1] = Nearer(d, g[m]) /\ OK(g[m])
    BY <1>3, <1>6, <2>1
  <2> DEFINE R == g[m]
  <2>3. OK(R) /\ g[m + 1] = R \cup UNION {Children(d, j) : j \in R}
    BY <2>2 DEF Nearer
  <2> HIDE DEF R
  <2> QED BY <1>4, <2>3
<1> HIDE DEF T
<1>7. Nat \subseteq T
  BY <1>5, <1>6, Induct
<1>8. OK(g[n])
  BY <1>2, <1>7 DEF T
<1>9. ASSUME Root \in g[n] PROVE FALSE
  <2>1. PICK p \in Inode : Root \in Children(d, p)
    BY <1>8, <1>9
  <2> QED BY <2>1, ParentIsDir
<1> QED BY <1>1, <1>8, <1>9

LEMMA TotalZero ==
  ASSUME NEW S, IsFiniteSet(S), NEW f, \A x \in S : f[x] = 0
  PROVE  Total(f, S) = 0
<1> DEFINE B == {t \in SUBSET S : Total(f, t) # 0}
<1> SUFFICES ASSUME B # {} PROVE FALSE
  OBVIOUS
<1>1. B \subseteq SUBSET S
  OBVIOUS
<1> HIDE DEF B
<1>2. PICK t \in B : \A r \in SUBSET t : r # t => r \notin B
  BY <1>1, Smallest
<1>3. t \in SUBSET S /\ Total(f, t) # 0 /\ IsFiniteSet(t)
  BY <1>2, FS_Subset DEF B
<1>4. t # {}
  <2>1. t = {} => Total(f, t) = 0
    BY <1>3, TotalSteps
  <2> QED BY <1>3, <2>1
<1>5. Some(t) \in t
  BY <1>4, Somewhere
<1> DEFINE r == t \ {Some(t)}
<1>6. Total(f, r) = 0
  BY <1>2, <1>3, <1>5 DEF B
<1>7. Total(f, t) = f[Some(t)] + Total(f, r)
  BY <1>3, <1>4, TotalSteps
<1> QED BY <1>3, <1>5, <1>6, <1>7

(* Directory i is empty, and what was below it is not in use.              *)
Cleared(d, e, i) ==
  /\ \A j \in Inode : j \notin Below(d, i) /\ j # i => e.node[j] = d.node[j]
  /\ \A j \in Below(d, i) \ {i} : e.node[j] = Blank("none")
  /\ e.node[i].entries = <<>> /\ e.node[i].type = "dir" /\ e.node[i].data = d.node[i].data
  /\ e.damaged = d.damaged

LEMMA EmptiedParts ==
  ASSUME NEW d, Healthy(d), NEW i \in Inode, IsDir(d, i), NEW e, e = Emptied(d, i)
  PROVE  /\ Typed(e) /\ Cleared(d, e, i)
         /\ e.free = d.free + Total(Holding(d), Below(d, i) \cup {i})
<1> DEFINE gone == Below(d, i)
           freed == Total(Holding(d), gone \cup {i})
           F(j) == CASE j = i -> [d.node[j] EXCEPT !.entries = <<>>]
                     [] j \in gone \ {i} -> Blank("none")
                     [] OTHER -> d.node[j]
           m == [j \in Inode |-> F(j)]
<1>1. /\ Typed(d) /\ d.free \in Nat /\ d.damaged \in SUBSET Inode
      /\ d = [node |-> d.node, free |-> d.free, damaged |-> d.damaged, reissued |-> d.reissued]
  BY DEF Healthy, Typed
<1>2. gone \subseteq Inode
  BY BelowHasParent
<1>3. freed \in Nat
  <2>1. gone \cup {i} \in SUBSET Inode
    BY <1>2
  <2> HIDE DEF gone
  <2> QED BY <1>1, <2>1, HoldingIs
<1>4. e = [d EXCEPT !.node = m, !.free = @ + freed]
  BY DEF Emptied, Holding, Total
<1> HIDE DEF freed, gone
<1>5. ASSUME NEW j \in Inode
      PROVE  /\ F(j) \in Node
             /\ j = i => F(j).entries = <<>> /\ F(j).type = "dir" /\ F(j).data = d.node[j].data
             /\ j \in gone \ {i} => F(j) = Blank("none")
             /\ j \notin gone /\ j # i => F(j) = d.node[j]
  <2>0. d.node[j] \in Node /\ Blank("none") \in Node
    BY <1>1, NodeIs, BlankIs
  <2>1. CASE j = i
    <3> DEFINE n == WithEntries(d.node[j], <<>>)
    <3>1. F(j) = n
      BY <2>1 DEF WithEntries
    <3>2. <<>> \in Seq(Entry)
      OBVIOUS
    <3> HIDE DEF F, n
    <3>3. n \in Node /\ n.type = d.node[j].type /\ n.data = d.node[j].data /\ n.entries = <<>>
      BY <2>0, <3>2, WithEntriesIs DEF n
    <3> QED BY <2>1, <3>1, <3>3 DEF IsDir
  <2>2. CASE j # i
    BY <2>0, <2>2
  <2> QED BY <2>1, <2>2
<1> HIDE DEF F
<1>6. m \in [Inode -> Node] /\ \A j \in Inode : m[j] = F(j)
  BY <1>5
<1> HIDE DEF m
<1>7. e = [node |-> m, free |-> d.free + freed, damaged |-> d.damaged, reissued |-> d.reissued]
  BY <1>1, <1>4
<1>8. Typed(e) /\ e.node = m /\ e.free = d.free + freed /\ e.damaged = d.damaged
  BY <1>1, <1>3, <1>6, <1>7 DEF Typed
<1>9. Cleared(d, e, i)
  BY <1>2, <1>5, <1>6, <1>8 DEF Cleared, gone
<1> QED BY <1>8, <1>9 DEF freed, gone

LEMMA EmptiedIs ==
  ASSUME NEW d, Healthy(d), NEW i \in Inode \ d.damaged, IsDir(d, i),
         Below(d, i) \cap d.damaged = {}, NEW e, e = Emptied(d, i)
  PROVE  Healthy(e) /\ Cleared(d, e, i) /\ (Balanced(d) => Balanced(e))
<1> DEFINE gone == Below(d, i)
           all == gone \cup {i}
<1>1. /\ Typed(e) /\ Cleared(d, e, i) /\ e.free = d.free + Total(Holding(d), all)
  BY EmptiedParts
<1>2. /\ gone \subseteq Inode /\ Root \notin gone /\ gone \cap d.damaged = {}
      /\ \A c \in gone : \E p \in all : p \in Inode /\ c \in Children(d, p)
      /\ Children(d, i) \subseteq gone
  BY BelowHasParent
<1>3. /\ \A j \in Inode : j \notin all => e.node[j] = d.node[j]
      /\ \A j \in gone \ {i} : e.node[j] = Blank("none")
      /\ e.node[i].entries = <<>> /\ e.node[i].type = "dir" /\ e.node[i].data = d.node[i].data
      /\ e.damaged = d.damaged
  BY <1>1 DEF Cleared
<1> HIDE DEF gone
<1>4. /\ Blank("none").entries = <<>> /\ Blank("none").type = "none"
      /\ Size(Blank("none")) = 0
  BY BlankIs
<1>5. Plain(e)
  <2>1. ASSUME NEW j \in Inode, e.node[j].type # "dir" PROVE e.node[j].entries = <<>>
    BY <1>3, <1>4, <2>1 DEF Healthy, Plain
  <2>2. ASSUME NEW j \in Unused(e) PROVE e.node[j] = Blank("none") /\ j \notin e.damaged
    <3>1. j \in Inode /\ e.node[j].type = "none" /\ j # i
      BY <1>3 DEF Unused
    <3>2. CASE j \in gone
      BY <1>2, <1>3, <3>1, <3>2
    <3>3. CASE j \notin gone
      <4>1. e.node[j] = d.node[j] /\ j \in Unused(d)
        BY <1>3, <3>1, <3>3 DEF Unused
      <4> QED BY <1>3, <4>1 DEF Healthy, Plain
    <3> QED BY <3>2, <3>3
  <2> QED BY <2>1, <2>2 DEF Plain
<1>6. \A j \in Inode : Part(e.node[j].entries, d.node[j].entries)
  BY <1>3, <1>4, Parts
<1>7. ASSUME NEW p \in Inode, NEW c \in Children(e, p) PROVE e.node[c].type # "none"
  <2>1. p \notin all
    <3>1. p \in all => e.node[p].entries = <<>>
      BY <1>3, <1>4
    <3>2. e.node[p].entries # <<>>
      BY DEF Children, Range
    <3> QED BY <3>1, <3>2
  <2>2. c \in Children(d, p)
    BY <1>3, <2>1 DEF Children
  <2>3. c \in Inode /\ d.node[c].type # "none"
    BY <2>2, ParentIsDir
  <2>4. c \notin gone
    <3> SUFFICES ASSUME c \in gone PROVE FALSE
      OBVIOUS
    <3>1. PICK q \in all : q \in Inode /\ c \in Children(d, q)
      BY <1>2
    <3> QED BY <2>1, <2>2, <3>1, OneParent
  <2> QED BY <1>3, <2>3, <2>4
<1>8. e.node[Root].type = "dir"
  BY <1>2, <1>3, InodeAssumption DEF Healthy
<1>9. Healthy(e)
  BY <1>1, <1>5, <1>6, <1>7, <1>8, Less
<1>10. ASSUME Balanced(d) PROVE Balanced(e)
  <2> DEFINE S == Inode \ d.damaged
             rest == S \ all
  <2>1. S \in SUBSET Inode /\ all \in SUBSET S /\ rest \in SUBSET Inode /\ all \in SUBSET Inode
    BY <1>2
  <2>2. Typed(d)
    BY DEF Healthy
  <2> HIDE DEF all
  <2>3. Total(Holding(d), S) = Total(Holding(d), all) + Total(Holding(d), rest)
    BY <2>1, <2>2, HoldingIs, TotalParts
  <2>4. Total(Holding(e), S) = Total(Holding(e), all) + Total(Holding(e), rest)
    BY <1>1, <2>1, HoldingIs, TotalParts
  <2>5. Total(Holding(e), rest) = Total(Holding(d), rest)
    BY <1>1, <1>3, <2>1, <2>2, OthersSame
  <2>6. Total(Holding(e), all) = 0
    <3>1. ASSUME NEW j \in all PROVE Size(e.node[j]) = 0
      <4>1. CASE j = i
        <5>1. e.node[i] \in Node /\ Len(e.node[i].entries) = 0
          BY <1>1, <1>3, NodeIs
        <5>2. Size(e.node[i]) = (0 + PerBlock - 1) \div PerBlock
          BY <1>3, <5>1 DEF Size
        <5> QED BY <4>1, <5>2, BlockAssumption, Ceiling
      <4>2. CASE j # i
        BY <1>3, <1>4, <4>2 DEF all
      <4> QED BY <4>1, <4>2
    <3>2. \A j \in all : Holding(e)[j] = 0
      BY <1>1, <2>1, <3>1, HoldingIs
    <3> QED BY <1>1, <2>1, <3>2, HoldingIs, TotalZero
  <2>7. /\ Total(Holding(d), all) \in Nat /\ Total(Holding(d), rest) \in Nat /\ d.free \in Nat
        /\ Blocks \in Nat
    BY <2>1, <2>2, HoldingIs, BlockAssumption DEF Typed
  <2>8. Used(d) = Total(Holding(d), S) /\ Used(e) = Total(Holding(e), S)
    BY <1>3 DEF Used
  <2> QED BY <1>1, <1>3, <1>10, <2>3, <2>4, <2>5, <2>6, <2>7, <2>8 DEF Balanced
<1> QED BY <1>1, <1>9, <1>10

-----------------------------------------------------------------------------
(* Inodes that cannot be reached.                                          *)

LEMMA EndOf ==
  ASSUME NEW d, Healthy(d), NEW s, OnTree(d, s)
  PROVE  /\ Len(s) \in Nat /\ Len(s) \in 1 .. Len(s) /\ s[Len(s)] = Last(s)
         /\ Last(s) \in Inode /\ Last(s) \in Range(s)
<1>1. /\ Len(s) \in Nat \ {0} /\ DOMAIN s = 1 .. Len(s) /\ Last(s) = s[Len(s)]
      /\ Last(s) \in Inode
  BY OnTreeIs
<1>2. Len(s) \in DOMAIN s
  BY <1>1
<1> QED BY <1>1, <1>2 DEF Range

(* A stack without i holds nothing that is below i.                        *)
LEMMA NotBelow ==
  ASSUME NEW d, Healthy(d), NEW i \in Inode, NEW s, OnTree(d, s), NEW n \in 1 .. Len(s),
         \A k \in 1 .. n : s[k] # i
  PROVE  s[n] \notin Below(d, i)
<1> DEFINE T == {k \in Nat : k \in 1 .. n => s[k] \notin Below(d, i)}
<1>0. /\ Len(s) \in Nat /\ \A k \in 1 .. Len(s) : s[k] \in Inode
      /\ \A k \in 2 .. Len(s) : s[k] \in Children(d, s[k - 1])
  BY OnTreeIs
<1>1. /\ Len(s) \in Nat /\ n \in Nat /\ n <= Len(s) /\ s[1] = Root
      /\ \A k \in 1 .. Len(s) : s[k] \in Inode
      /\ \A k \in 2 .. Len(s) : s[k] \in Children(d, s[k - 1])
  BY <1>0 DEF OnTree
<1>2. 0 \in T
  OBVIOUS
<1>3. ASSUME NEW k \in Nat, k \in T PROVE k + 1 \in T
  <2> SUFFICES ASSUME k + 1 \in 1 .. n, s[k + 1] \in Below(d, i) PROVE FALSE
    OBVIOUS
  <2>1. CASE k = 0
    BY <1>1, <2>1, BelowHasParent
  <2>2. CASE k # 0
    <3>1. k \in 1 .. n /\ k \in 1 .. Len(s) /\ k + 1 \in 2 .. Len(s) /\ (k + 1) - 1 = k
      BY <1>1, <2>2
    <3>2. /\ s[k + 1] \in Children(d, s[k]) /\ s[k] \in Inode /\ s[k] # i
          /\ s[k] \notin Below(d, i)
      BY <1>1, <1>3, <3>1
    <3>3. PICK p \in Below(d, i) \cup {i} : p \in Inode /\ s[k + 1] \in Children(d, p)
      BY BelowHasParent
    <3> QED BY <3>2, <3>3, OneParent
  <2> QED BY <2>1, <2>2
<1> HIDE DEF T
<1>4. Nat \subseteq T
  BY <1>2, <1>3, Induct
<1>5. n \in T /\ n \in 1 .. n
  BY <1>1, <1>4
<1> QED BY <1>5 DEF T

(* No inode is twice on a stack.                                           *)
LEMMA ShortStack ==
  ASSUME NEW d, Healthy(d), NEW s, OnTree(d, s)
  PROVE  Len(s) <= Cardinality(Inode)
<1> DEFINE n == Len(s)
           S == 1 .. n
<1>1. n \in Nat /\ DOMAIN s = S /\ s \in Seq(Inode)
  BY OnTreeIs
<1>2. s \in [S -> Inode]
  BY <1>1
<1>3. IsFiniteSet(Inode) /\ Cardinality(Inode) \in Nat
  BY InodeAssumption, FS_CardinalityType
<1>4. IsFiniteSet(S) /\ Cardinality(S) = n
  <2> HIDE DEF n
  <2>1. /\ IsFiniteSet(1 .. n)
        /\ Cardinality(1 .. n) = IF 1 > n THEN 0 ELSE n - 1 + 1
    BY <1>1, FS_Interval
  <2> QED BY <1>1, <2>1
<1>5. ASSUME Cardinality(Inode) < n PROVE FALSE
  <2>1. PICK k, l \in S : k # l /\ s[k] = s[l]
    <3> HIDE DEF S, n
    <3> QED BY <1>2, <1>3, <1>4, <1>5, FS_PigeonHole
  <2> QED BY <2>1, SameDepth
<1> HIDE DEF n
<1>6. n <= Cardinality(Inode)
  BY <1>1, <1>3, <1>5
<1> QED BY <1>6 DEF n

(* Of two inodes on a stack the later one is below the earlier one.        *)
LEMMA BelowReach ==
  ASSUME NEW d, Healthy(d), NEW s, OnTree(d, s), NEW k \in 1 .. Len(s), NEW l \in 1 .. Len(s), k < l
  PROVE  s[l] \in Below(d, s[k])
<1> DEFINE n == Cardinality(Inode)
           i == s[k]
<1>1. PICK g : IsReached(g, n, d, i) /\ Below(d, i) = g[n]
  BY BelowIs
<1>2. n \in Nat /\ Len(s) <= n
  BY FS_CardinalityType, InodeAssumption, ShortStack
<1> HIDE DEF n, i
<1>3. g[0] = Children(d, i) /\ \A m \in 1 .. n : g[m] = Nearer(d, g[m - 1])
  BY <1>1, <1>2, ReachedAt
<1>4. /\ Len(s) \in Nat /\ k \in Nat /\ l \in Nat
      /\ \A x \in 2 .. Len(s) : s[x] \in Children(d, s[x - 1])
  BY OnTreeIs
<1> DEFINE T == {m \in Nat : m <= n =>
                    \A x \in k + 1 .. Len(s) : x <= k + 1 + m => s[x] \in g[m]}
<1>5. 0 \in T
  <2> SUFFICES ASSUME NEW x \in k + 1 .. Len(s), x <= k + 1 + 0 PROVE s[x] \in g[0]
    OBVIOUS
  <2>1. x = k + 1 /\ x \in 2 .. Len(s) /\ x - 1 = k
    BY <1>4
  <2> QED BY <1>3, <1>4, <2>1 DEF i
<1>6. ASSUME NEW m \in Nat, m \in T PROVE m + 1 \in T
  <2> SUFFICES ASSUME m + 1 <= n, NEW x \in k + 1 .. Len(s), x <= k + 1 + (m + 1)
               PROVE  s[x] \in g[m + 1]
    OBVIOUS
  <2>1. m <= n /\ m + 1 \in 1 .. n /\ (m + 1) - 1 = m
    BY <1>2
  <2>2. g[m + 1] = Nearer(d, g[m])
    BY <1>3, <2>1
  <2>3. CASE x <= k + 1 + m
    <3>1. s[x] \in g[m]
      BY <1>6, <2>1, <2>3
    <3> QED BY <2>2, <3>1 DEF Nearer
  <2>4. CASE ~(x <= k + 1 + m)
    <3>1. x \in 2 .. Len(s) /\ x - 1 \in k + 1 .. Len(s) /\ x - 1 <= k + 1 + m
      BY <1>4, <2>4
    <3>2. s[x] \in Children(d, s[x - 1]) /\ s[x - 1] \in g[m]
      BY <1>4, <1>6, <2>1, <3>1
    <3> DEFINE R == g[m]
               p == s[x - 1]
               c == s[x]
    <3>3. c \in Children(d, p) /\ p \in R
      BY <3>2
    <3> HIDE DEF R, p, c
    <3>4. c \in Nearer(d, R)
      BY <3>3 DEF Nearer
    <3> QED BY <2>2, <3>4 DEF R, c
  <2> QED BY <2>3, <2>4
<1> HIDE DEF T
<1>7. Nat \subseteq T
  BY <1>5, <1>6, Induct
<1>8. n \in T
  BY <1>2, <1>7
<1>9. l \in k + 1 .. Len(s) /\ l <= k + 1 + n
  BY <1>2, <1>4
<1>10. s[l] \in g[n]
  BY <1>2, <1>8, <1>9 DEF T
<1> QED BY <1>1, <1>10 DEF i

(* Inodes in use that no stack leads to, and directories a write to which  *)
(* has failed.                                                             *)
Leads(d, x) == \E s \in Seq(Inode) : OnTree(d, s) /\ Last(s) = x
Lost(d) == {x \in Inode : d.node[x].type # "none" /\ ~Leads(d, x)}
Hurt(d) == {i \in d.damaged : IsDir(d, i)}
Counted(d) == Cardinality(Lost(d)) <= Cardinality(Hurt(d))

LEMMA LostFinite ==
  ASSUME NEW d, Typed(d)
  PROVE  /\ Lost(d) \in SUBSET Inode /\ IsFiniteSet(Lost(d)) /\ Cardinality(Lost(d)) \in Nat
         /\ Hurt(d) \in SUBSET Inode /\ IsFiniteSet(Hurt(d)) /\ Cardinality(Hurt(d)) \in Nat
<1>1. Lost(d) \in SUBSET Inode /\ Hurt(d) \in SUBSET Inode
  BY DEF Lost, Hurt, Typed
<1>2. IsFiniteSet(Lost(d)) /\ IsFiniteSet(Hurt(d))
  BY <1>1, InodeAssumption, FS_Subset
<1> QED BY <1>1, <1>2, FS_CardinalityType

LEMMA NoMoreLost ==
  ASSUME NEW d, Typed(d), Counted(d), NEW e, Typed(e), Lost(e) \subseteq Lost(d), Hurt(d) \subseteq Hurt(e)
  PROVE  Counted(e)
<1>1. /\ IsFiniteSet(Lost(d)) /\ Cardinality(Lost(d)) \in Nat /\ Cardinality(Hurt(d)) \in Nat
      /\ IsFiniteSet(Hurt(e)) /\ Cardinality(Hurt(e)) \in Nat /\ Cardinality(Lost(e)) \in Nat
  BY LostFinite
<1>2. Cardinality(Lost(e)) <= Cardinality(Lost(d))
  BY <1>1, FS_Subset
<1>3. Cardinality(Hurt(d)) <= Cardinality(Hurt(e))
  BY <1>1, FS_Subset
<1> QED BY <1>1, <1>2, <1>3 DEF Counted

LEMMA OneMoreLost ==
  ASSUME NEW d, Typed(d), Counted(d), NEW e, Typed(e), NEW i, Lost(e) \subseteq Lost(d) \cup {i},
         NEW dir, dir \notin Hurt(d), Hurt(d) \cup {dir} \subseteq Hurt(e)
  PROVE  Counted(e)
<1>1. /\ IsFiniteSet(Lost(d)) /\ Cardinality(Lost(d)) \in Nat
      /\ IsFiniteSet(Hurt(d)) /\ Cardinality(Hurt(d)) \in Nat
      /\ IsFiniteSet(Hurt(e)) /\ Cardinality(Hurt(e)) \in Nat /\ Cardinality(Lost(e)) \in Nat
  BY LostFinite
<1> DEFINE L == Lost(d) \cup {i}
           H == Hurt(d) \cup {dir}
<1>2. IsFiniteSet(L) /\ Cardinality(L) <= Cardinality(Lost(d)) + 1 /\ Cardinality(L) \in Nat
  <2>1. IsFiniteSet(L) /\ Cardinality(L) = IF i \in Lost(d) THEN Cardinality(Lost(d)) ELSE Cardinality(Lost(d)) + 1
    BY <1>1, FS_AddElement
  <2> HIDE DEF L
  <2> QED BY <1>1, <2>1
<1>3. Cardinality(H) = Cardinality(Hurt(d)) + 1 /\ IsFiniteSet(H)
  BY <1>1, FS_AddElement
<1>4. Lost(e) \in SUBSET L /\ H \in SUBSET Hurt(e)
  OBVIOUS
<1> HIDE DEF L, H
<1>5. Cardinality(Lost(e)) <= Cardinality(L)
  BY <1>2, <1>4, FS_Subset
<1>6. Cardinality(H) <= Cardinality(Hurt(e))
  BY <1>1, <1>4, FS_Subset
<1> QED BY <1>1, <1>2, <1>3, <1>5, <1>6 DEF Counted

(* A stack on which nothing has changed.                                   *)
LEMMA StillLeads ==
  ASSUME NEW d, Healthy(d), NEW e, NEW s, OnTree(d, s),
         \A k \in 1 .. Len(s) - 1 : s[k + 1] \in Children(e, s[k])
  PROVE  Leads(e, Last(s))
<1>1. OnTree(e, s) /\ s \in Seq(Inode)
  BY StaysOnTree, OnTreeIs
<1> QED BY <1>1 DEF Leads

LEMMA ClearedLost ==
  ASSUME NEW d, Healthy(d), Counted(d), NEW i \in Inode, IsDir(d, i),
         Below(d, i) \cap d.damaged = {}, NEW e, Healthy(e), Cleared(d, e, i)
  PROVE  Counted(e)
<1>1. ASSUME NEW x \in Lost(e) PROVE x \in Lost(d)
  <2>1. x \in Inode /\ e.node[x].type # "none" /\ ~Leads(e, x)
    BY DEF Lost
  <2>2. x \notin Below(d, i) \ {i}
    BY <2>1, BlankIs DEF Cleared
  <2>3. d.node[x].type # "none"
    BY <2>1, <2>2 DEF Cleared, IsDir
  <2>4. ASSUME Leads(d, x) PROVE FALSE
    <3>1. PICK s \in Seq(Inode) : OnTree(d, s) /\ Last(s) = x
      BY <2>4 DEF Leads
    <3>2. /\ Len(s) \in Nat /\ Len(s) \in 1 .. Len(s) /\ s[Len(s)] = x
          /\ \A k \in 1 .. Len(s) : s[k] \in Inode
      BY <3>1, EndOf, OnTreeIs
    <3>3. ASSUME NEW k \in 1 .. Len(s) - 1 PROVE s[k] # i
      <4> SUFFICES ASSUME s[k] = i PROVE FALSE
        OBVIOUS
      <4>1. k \in 1 .. Len(s) /\ k < Len(s)
        BY <3>2
      <4> DEFINE l == Len(s)
      <4>2. l \in 1 .. Len(s) /\ k < l /\ s[l] = x
        BY <3>2, <4>1
      <4> HIDE DEF l
      <4>3. CASE x = i
        BY <3>1, <4>1, <4>2, <4>3, SameDepth
      <4>4. CASE x # i
        <5>1. s[l] \in Below(d, s[k])
          BY <3>1, <4>1, <4>2, BelowReach
        <5> QED BY <2>2, <4>2, <4>4, <5>1
      <4> QED BY <4>3, <4>4
    <3>4. ASSUME NEW k \in 1 .. Len(s) - 1 PROVE s[k + 1] \in Children(e, s[k])
      <4>1. k \in 1 .. Len(s) /\ \A m \in 1 .. k : m \in 1 .. Len(s) - 1
        BY <3>2
      <4>2. s[k] \notin Below(d, i) /\ s[k] # i /\ s[k] \in Inode
        BY <3>1, <3>2, <3>3, <4>1, NotBelow
      <4>3. e.node[s[k]] = d.node[s[k]]
        BY <4>2 DEF Cleared
      <4>4. s[k + 1] \in Children(d, s[k])
        BY <3>1 DEF OnTree
      <4> QED BY <4>3, <4>4 DEF Children
    <3>5. Leads(e, x)
      BY <3>1, <3>4, StillLeads
    <3> QED BY <2>1, <3>5
  <2> QED BY <2>1, <2>3, <2>4 DEF Lost
<1>2. ASSUME NEW j \in Hurt(d) PROVE j \in Hurt(e)
  <2>1. j \in d.damaged /\ IsDir(d, j) /\ j \in Inode
    BY DEF Hurt, Healthy, Typed
  <2> QED BY <2>1 DEF Cleared, Hurt, IsDir
<1> QED BY <1>1, <1>2, NoMoreLost DEF Healthy

LEMMA GoneLost ==
  ASSUME NEW d, Healthy(d), Counted(d), NEW dir \in Inode, NEW target \in Inode \ d.damaged,
         d.node[target].entries = <<>>, NEW e, Healthy(e), Gone(d, e, dir, target)
  PROVE  Counted(e)
<1>1. ASSUME NEW x \in Lost(e) PROVE x \in Lost(d)
  <2>1. x \in Inode /\ e.node[x].type # "none" /\ ~Leads(e, x)
    BY DEF Lost
  <2>2. x # target
    BY <2>1, BlankIs DEF Gone
  <2>3. d.node[x].type # "none"
    BY <2>1, <2>2 DEF Gone
  <2>4. ASSUME Leads(d, x) PROVE FALSE
    <3>1. PICK s \in Seq(Inode) : OnTree(d, s) /\ Last(s) = x
      BY <2>4 DEF Leads
    <3>2. /\ Len(s) \in Nat /\ Len(s) \in 1 .. Len(s) /\ s[Len(s)] = x
          /\ \A k \in 1 .. Len(s) : s[k] \in Inode
      BY <3>1, EndOf, OnTreeIs
    <3>3. ASSUME NEW k \in 1 .. Len(s) - 1
          PROVE  s[k + 1] \in Children(d, s[k]) /\ s[k] # target /\ s[k] \in Inode
      <4>1. s[k + 1] \in Children(d, s[k]) /\ s[k] \in Inode
        BY <3>1, <3>2 DEF OnTree
      <4>2. d.node[s[k]].entries # <<>>
        BY <4>1, ParentIsDir
      <4> QED BY <4>1, <4>2
    <3>4. ASSUME NEW k \in 1 .. Len(s) - 1 PROVE s[k + 1] \in Children(e, s[k])
      <4>1. s[k + 1] # target
        <5>1. k + 1 = Len(s) \/ k + 1 \in 1 .. Len(s) - 1
          BY <3>2
        <5> QED BY <2>2, <3>2, <3>3, <5>1
      <4>2. CASE s[k] = dir
        BY <3>3, <4>1, <4>2 DEF Gone
      <4>3. CASE s[k] # dir
        <5>1. e.node[s[k]] = d.node[s[k]]
          BY <3>3, <4>3 DEF Gone
        <5> QED BY <3>3, <5>1 DEF Children
      <4> QED BY <4>2, <4>3
    <3>5. Leads(e, x)
      BY <3>1, <3>4, StillLeads
    <3> QED BY <2>1, <3>5
  <2> QED BY <2>1, <2>3, <2>4 DEF Lost
<1>2. ASSUME NEW j \in Hurt(d) PROVE j \in Hurt(e)
  <2>1. j \in d.damaged /\ IsDir(d, j) /\ j \in Inode /\ j # target
    BY DEF Hurt, Healthy, Typed
  <2> QED BY <2>1 DEF Gone, Hurt, IsDir
<1> QED BY <1>1, <1>2, NoMoreLost DEF Healthy

LEMMA GrewLost ==
  ASSUME NEW d, Healthy(d), Counted(d), NEW e, Healthy(e), NEW ok, NEW i, NEW dir, NEW name,
         NEW type \in {"dir", "normal"}, Grew(d, e, ok, i, dir, name, type),
         dir \notin d.damaged, Leads(d, dir)
  PROVE  Counted(e)
<1>1. i \in Inode /\ dir \in Inode /\ i \in Unused(d) /\ IsDir(d, dir) /\ i # dir
  BY DEF Grew, Unused
<1>2. /\ \A s : OnTree(d, s) => OnTree(e, s)
      /\ \A j \in Inode : IsDir(d, j) => IsDir(e, j)
  BY GrewTree
<1>3. ASSUME NEW x, Leads(d, x) PROVE Leads(e, x)
  BY <1>2, <1>3 DEF Leads
<1>4. ASSUME NEW x \in Lost(e) PROVE x \in Lost(d) \/ x = i
  <2>1. x \in Inode /\ e.node[x].type # "none" /\ ~Leads(e, x)
    BY DEF Lost
  <2>2. x # i => d.node[x].type # "none"
    BY <2>1, GrewIs
  <2> QED BY <1>3, <2>1, <2>2 DEF Lost
<1>5. d.damaged \subseteq e.damaged
  BY DEF Grew
<1>6. ASSUME NEW j \in Hurt(d) PROVE j \in Hurt(e)
  <2>1. j \in d.damaged /\ IsDir(d, j) /\ j \in Inode
    BY DEF Hurt, Healthy, Typed
  <2> QED BY <1>2, <1>5, <2>1 DEF Hurt
<1>7. CASE ok
  <2>1. i \notin Lost(e)
    <3>1. PICK s \in Seq(Inode) : OnTree(d, s) /\ Last(s) = dir
      BY DEF Leads
    <3> DEFINE t == Append(s, i)
    <3>2. i \in Children(e, dir)
      <4> DEFINE x == [name |-> name, inode |-> i]
      <4>1. Longer(d.node[dir].entries, e.node[dir].entries, x) /\ x.inode = i
        BY <1>7 DEF Grew
      <4> HIDE DEF x
      <4>2. Children(e, dir) = Children(d, dir) \cup {x.inode}
        BY <1>1, <4>1, LongerChildren DEF Healthy
      <4> QED BY <4>1, <4>2
    <3>3. /\ OnTree(e, s) /\ Len(s) \in Nat \ {0} /\ s[Len(s)] = dir
      BY <1>2, <3>1, OnTreeIs
    <3>4. /\ t \in Seq(Inode) /\ Len(t) = Len(s) + 1 /\ t[Len(s) + 1] = i
          /\ \A k \in 1 .. Len(s) : t[k] = s[k]
      BY <1>1, <3>1, <3>3
    <3> HIDE DEF t
    <3>5. ASSUME NEW k \in 1 .. Len(t) - 1 PROVE t[k + 1] \in Children(e, t[k])
      <4>1. CASE k = Len(s)
        BY <3>2, <3>3, <3>4, <4>1
      <4>2. CASE k # Len(s)
        <5>1. k \in 1 .. Len(s) - 1 /\ k \in 1 .. Len(s) /\ k + 1 \in 1 .. Len(s)
          BY <3>3, <3>4, <4>2
        <5> QED BY <3>3, <3>4, <5>1 DEF OnTree
      <4> QED BY <4>1, <4>2
    <3>6. OnTree(e, t)
      BY <3>3, <3>4, <3>5 DEF OnTree
    <3>7. Last(t) = i
      BY <3>3, <3>4 DEF Last
    <3> QED BY <3>4, <3>6, <3>7 DEF Leads, Lost
  <2>2. Lost(e) \subseteq Lost(d) /\ Hurt(d) \subseteq Hurt(e)
    BY <1>4, <1>6, <2>1
  <2> QED BY <2>2, NoMoreLost DEF Healthy
<1>8. CASE ~ok
  <2>1. dir \in Hurt(e) /\ dir \notin Hurt(d)
    BY <1>1, <1>2, <1>8 DEF Grew, Hurt
  <2>2. Lost(e) \subseteq Lost(d) \cup {i} /\ Hurt(d) \cup {dir} \subseteq Hurt(e)
    BY <1>4, <1>6, <2>1
  <2> QED BY <2>1, <2>2, OneMoreLost DEF Healthy
<1> QED BY <1>7, <1>8

LEMMA SameLost ==
  ASSUME NEW d, Healthy(d), Counted(d), NEW e, Typed(e), d.damaged \subseteq e.damaged,
         \A j \in Inode : /\ e.node[j].entries = d.node[j].entries
                           /\ e.node[j].type = d.node[j].type
  PROVE  Counted(e)
<1>1. \A j \in Inode : Children(e, j) = Children(d, j)
  BY DEF Children
<1>2. ASSUME NEW x, Leads(d, x) PROVE Leads(e, x)
  <2>1. PICK s \in Seq(Inode) : OnTree(d, s) /\ Last(s) = x
    BY <1>2 DEF Leads
  <2>2. \A k \in 1 .. Len(s) : s[k] \in Inode
    BY <2>1, OnTreeIs
  <2>3. \A k \in 1 .. Len(s) - 1 : k \in 1 .. Len(s) /\ s[k + 1] \in Children(d, s[k])
    <3>1. Len(s) \in Nat
      BY <2>1, OnTreeIs
    <3> QED BY <2>1, <3>1 DEF OnTree
  <2>4. \A k \in 1 .. Len(s) - 1 : s[k + 1] \in Children(e, s[k])
    BY <1>1, <2>2, <2>3
  <2> QED BY <2>1, <2>4, StillLeads
<1>3. Lost(e) \subseteq Lost(d)
  BY <1>2 DEF Lost
<1>4. Hurt(d) \subseteq Hurt(e)
  BY DEF Hurt, IsDir, Healthy, Typed
<1> QED BY <1>3, <1>4, NoMoreLost DEF Healthy
-----------------------------------------------------------------------------
(* The parts of commands.                                                  *)

LEMMA ParentPathIs ==
  ASSUME NEW path \in Path
  PROVE  ParentPath(path) \in Path /\ LastName(path) \in Names \cup Special
<1> DEFINE s == path.segs
<1>1. s \in Seq(Segments) /\ Len(s) \in Nat /\ path.abs \in BOOLEAN
      /\ path = [abs |-> path.abs, segs |-> s]
  BY DEF Path
<1>2. ParentPath(path) \in Path
  <2>1. CASE Len(s) <= 1
    <3>1. ParentPath(path) = [abs |-> FALSE, segs |-> <<>>]
      BY <2>1 DEF ParentPath
    <3> QED BY <3>1 DEF Path
  <2>2. CASE ~(Len(s) <= 1)
    <3> DEFINE f == SubSeq(s, 1, Len(s) - 1)
    <3>1. f \in Seq(Segments)
      BY <1>1, <2>2
    <3>2. ParentPath(path) = [path EXCEPT !.segs = f]
      BY <2>2 DEF ParentPath, Front
    <3> HIDE DEF f
    <3>3. ParentPath(path) = [abs |-> path.abs, segs |-> f]
      BY <1>1, <3>2
    <3> HIDE DEF s
    <3> QED BY <1>1, <3>1, <3>3 DEF Path
  <2> QED BY <2>1, <2>2
<1>3. LastName(path) \in Names \cup Special
  <2>1. CASE s = <<>>
    BY <2>1 DEF LastName, Special
  <2>2. CASE s # <<>>
    <3>1. s[Len(s)] \in Segments /\ LastName(path) = s[Len(s)]
      BY <1>1, <2>2 DEF LastName, Last
    <3> QED BY <3>1 DEF Segments, Special
  <2> QED BY <2>1, <2>2
<1> QED BY <1>2, <1>3

(* What a call leaves.                                                     *)
Sane(r) ==
  r.ok \in BOOLEAN /\ Healthy(r.disk) /\ AtHome(r.disk) /\ Balanced(r.disk) /\ Counted(r.disk)

LEMMA ThrownIs ==
  ASSUME NEW d, Healthy(d), AtHome(d), Balanced(d), Counted(d)
  PROVE  /\ Sane(Thrown(d)) /\ Thrown(d).disk = d /\ Thrown(d).ok = FALSE
         /\ Sane(Done(d)) /\ Done(d).disk = d /\ Done(d).ok = TRUE
BY DEF Sane, Thrown, Done

(* A new entry with its inode, which may have been filled since; an inode  *)
(* whose entry could not be written; and what a call leaves that makes one.*)
Leaf(d, e, i, type) ==
  \E b : \E dir \in Inode, name \in Names \cup Special :
    /\ Healthy(b) /\ Leads(d, dir) /\ Grew(d, b, TRUE, i, dir, name, type)
    /\ \A j \in Inode : e.node[j].entries = b.node[j].entries /\ e.node[j].type = b.node[j].type
    /\ \A j \in Inode : j # i => e.node[j] = b.node[j]
    /\ type = "dir" => e.node[i] = b.node[i]
    /\ e.damaged \subseteq b.damaged \cup {i}
Stub(d, e) ==
  \E i \in Inode, dir \in Inode, name \in Names \cup Special, type \in {"dir", "normal"} :
    Grew(d, e, FALSE, i, dir, name, type)
Made(d, r, i, type) ==
  IF r.ok THEN Leaf(d, r.disk, i, type)
  ELSE \/ r.disk = d
       \/ r.disk.free = 0 /\ (Stub(d, r.disk) \/ Leaf(d, r.disk, i, type))

LEMMA ResultIs ==
  ASSUME NEW d
  PROVE  Done(d).disk = d /\ Done(d).ok = TRUE /\ Thrown(d).disk = d /\ Thrown(d).ok = FALSE
BY DEF Done, Thrown

(* A disk whose root was handed out stays one, whatever a command does to  *)
(* it afterwards.                                                          *)
LEMMA AstrayFrom ==
  ASSUME NEW d, Typed(d), Root \notin Unused(d), NEW n, NEW e,
         e = [d EXCEPT !.node[Root] = n, !.reissued = @ \cup ({Root} \ Unused(d))]
  PROVE  Astray(e)
<1>1. d.reissued \cup ({Root} \ Unused(d)) = {Root}
  BY DEF Typed
<1>2. "reissued" \in DOMAIN e /\ e.reissued = d.reissued \cup ({Root} \ Unused(d))
  BY DEF Typed
<1> QED BY <1>1, <1>2 DEF Astray

LEMMA AstrayPut ==
  ASSUME NEW d, Astray(d), NEW i, NEW n, NEW free, NEW damaged
  PROVE  /\ Astray(Stored(d, i, n, free)) /\ Astray(Broken(d, i, n, free, damaged))
BY DEF Astray, Stored, Broken

LEMMA AstrayStore ==
  ASSUME NEW d, Astray(d), NEW i, NEW n
  PROVE  Astray(Store(d, i, n).disk)
<1> DEFINE r == Store(d, i, n)
           room == d.free + Held(d, i)
<1>1. \/ r = Done(Stored(d, i, n, room - Size(n)))
      \/ r = Thrown(Broken(d, i, Cut(n, room), 0, d.damaged \cup {i}))
  BY DEF Store, Stored, Broken
<1>2. \/ r.disk = Stored(d, i, n, room - Size(n))
      \/ r.disk = Broken(d, i, Cut(n, room), 0, d.damaged \cup {i})
  BY <1>1, ResultIs
<1> QED BY <1>2, AstrayPut

LEMMA AstrayRemoved ==
  ASSUME NEW d, Astray(d), NEW path, NEW asDir
  PROVE  Astray(Removed(d, path, asDir).disk)
<1> DEFINE stack == Walk(d, path, asDir)
           dir == stack[Len(stack) - 1]
           target == Last(stack)
           n == [d.node[dir] EXCEPT !.entries = Without(d.node[dir].entries, target)]
           b == Store(d, dir, n).disk
           free == b.free + Held(d, target)
<1>1. Unlinked(d, stack) = Stored(b, target, Blank("none"), free)
  BY DEF Unlinked, Stored
<1>2. Astray(b)
  BY AstrayStore
<1>3. Removed(d, path, asDir) = Done(Unlinked(d, stack)) \/ Removed(d, path, asDir) = Thrown(d)
  BY DEF Removed
<1> HIDE DEF b, free, target, stack
<1>4. Astray(Unlinked(d, stack))
  BY <1>1, <1>2, AstrayPut
<1> QED BY <1>3, <1>4, ResultIs

LEMMA LinkedAstray ==
  ASSUME NEW d, Healthy(d), NEW dir, NEW name, NEW type
  PROVE  Astray(Linked(d, dir, name, Root, type).disk)
<1> DEFINE b == [d EXCEPT !.node[Root] = Blank(type), !.reissued = @ \cup ({Root} \ Unused(d))]
           n == [b.node[dir] EXCEPT
                   !.entries = Append(d.node[dir].entries, [name |-> name, inode |-> Root])]
<1>1. Linked(d, dir, name, Root, type) = Store(b, dir, n)
  BY DEF Linked
<1>2. Astray(b)
  <2>1. Root \notin Unused(d) /\ Typed(d)
    BY DEF Healthy, Unused
  <2> DEFINE x == Blank(type)
  <2>2. b = [d EXCEPT !.node[Root] = x, !.reissued = @ \cup ({Root} \ Unused(d))]
    OBVIOUS
  <2> HIDE DEF b, x
  <2> QED BY <2>1, <2>2, AstrayFrom
<1> HIDE DEF b, n
<1> QED BY <1>1, <1>2, AstrayStore

(* _touch can make the entry: the name fits and is new in the directory    *)
(* that the stack ends at.                                                 *)
Possible(d, parents, name) ==
  /\ name \notin TooLong
  /\ parents # <<>>
  /\ IsDir(d, Last(parents))
  /\ NameFree(d, Last(parents), name)

LEMMA TouchedAt ==
  ASSUME NEW d, Healthy(d), AtHome(d), Balanced(d), Counted(d), NEW path \in Path,
         Walk(d, ParentPath(path), FALSE) # <<>>
           => Last(Walk(d, ParentPath(path), FALSE)) \notin d.damaged,
         NEW type \in {"dir", "normal"}, NEW t \in Touched(d, path, type), ~Astray(t.res.disk),
         NEW parents, parents = Walk(d, ParentPath(path), TRUE),
         NEW name, name = LastName(path)
  PROVE  /\ Sane(t.res)
         /\ Possible(d, parents, name) =>
              /\ Last(parents) \in Inode /\ Leads(d, Last(parents))
              /\ Grew(d, t.res.disk, t.res.ok, t.inode, Last(parents), name, type)
         /\ ~Possible(d, parents, name) => t.res = Thrown(d)
<1> DEFINE dir == Last(parents)
<1>1. ParentPath(path) \in Path /\ name \in Names \cup Special
  BY ParentPathIs
<1>2. CASE Possible(d, parents, name)
  <2>1. PICK i \in Unused(d) : t = [res |-> Linked(d, dir, name, i, type), inode |-> i]
    <3>1. PICK i \in Issued(d) : t = [res |-> Linked(d, dir, name, i, type), inode |-> i]
      BY <1>2 DEF Touched, Possible
    <3>2. t.res = Linked(d, dir, name, i, type)
      BY <3>1
    <3> HIDE DEF dir
    <3>3. i # Root
      BY <3>2, LinkedAstray
    <3>4. i \in Unused(d)
      BY <3>3 DEF Issued
    <3> QED BY <3>1, <3>4
  <2>2. OnTree(d, parents) /\ Walk(d, ParentPath(path), FALSE) = parents
    BY <1>1, <1>2, WalkOnTree, StrictWalk DEF Possible
  <2>3. dir \in Inode /\ dir \notin d.damaged
    BY <1>2, <2>2, OnTreeIs DEF Possible
  <2> DEFINE r == Linked(d, dir, name, i, type)
  <2>4. t.res = r /\ t.inode = i
    BY <2>1
  <2>5. IsDir(d, dir) /\ Matches(d, dir, name) = {}
    BY <1>2 DEF NameFree, Possible
  <2> HIDE DEF dir, r
  <2>6. /\ r.ok \in BOOLEAN /\ Healthy(r.disk)
        /\ Grew(d, r.disk, r.ok, i, dir, name, type)
        /\ Balanced(r.disk)
    BY <1>1, <2>3, <2>5, LinkedIs DEF r
  <2>7. AtHome(r.disk)
    BY <2>6, GrewTree
  <2>8. Leads(d, dir)
    BY <2>2, OnTreeIs DEF Leads, dir
  <2>9. Counted(r.disk)
    BY <2>3, <2>6, <2>8, GrewLost
  <2> QED BY <1>1, <1>2, <2>3, <2>4, <2>6, <2>7, <2>8, <2>9 DEF Sane, dir
<1>3. CASE ~Possible(d, parents, name)
  <2>1. t = [res |-> Thrown(d), inode |-> Root]
    BY <1>3 DEF Touched, Possible
  <2>2. t.res = Thrown(d)
    BY <2>1
  <2> QED BY <1>3, <2>2, ThrownIs
<1> QED BY <1>2, <1>3

LEMMA TouchedIs ==
  ASSUME NEW d, Healthy(d), AtHome(d), Balanced(d), Counted(d), NEW path \in Path,
         Walk(d, ParentPath(path), FALSE) # <<>>
           => Last(Walk(d, ParentPath(path), FALSE)) \notin d.damaged,
         NEW type \in {"dir", "normal"}, NEW t \in Touched(d, path, type), ~Astray(t.res.disk)
  PROVE  /\ Sane(t.res)
         /\ \/ t.res = Thrown(d)
            \/ \E dir \in Inode, name \in Names \cup Special :
                 Leads(d, dir) /\ Grew(d, t.res.disk, t.res.ok, t.inode, dir, name, type)
<1> DEFINE parents == Walk(d, ParentPath(path), TRUE)
           name == LastName(path)
<1>1. name \in Names \cup Special
  BY ParentPathIs
<1>2. /\ Sane(t.res)
      /\ Possible(d, parents, name) =>
           /\ Last(parents) \in Inode /\ Leads(d, Last(parents))
           /\ Grew(d, t.res.disk, t.res.ok, t.inode, Last(parents), name, type)
      /\ ~Possible(d, parents, name) => t.res = Thrown(d)
  BY TouchedAt
<1> QED BY <1>1, <1>2

LEMMA GoneHome ==
  ASSUME NEW d, Healthy(d), AtHome(d), NEW e, NEW dir \in Inode, NEW target \in Inode,
         Gone(d, e, dir, target), \A k \in 1 .. Len(cwd) : cwd[k] # target
  PROVE  AtHome(e)
<1>1. /\ Len(cwd) \in Nat \ {0} /\ Last(cwd) = cwd[Len(cwd)]
      /\ \A k \in 1 .. Len(cwd) : cwd[k] \in Inode
      /\ \A k \in 1 .. Len(cwd) - 1 : cwd[k + 1] \in Children(d, cwd[k])
  BY OnTreeIs DEF AtHome, OnTree
<1>2. ASSUME NEW j \in Inode, j # target
      PROVE  Children(e, j) = Children(d, j) \ {target} \/ Children(e, j) = Children(d, j)
  BY <1>2 DEF Gone, Children
<1>3. \A k \in 1 .. Len(cwd) - 1 : cwd[k + 1] \in Children(e, cwd[k])
  <2> SUFFICES ASSUME NEW k \in 1 .. Len(cwd) - 1 PROVE cwd[k + 1] \in Children(e, cwd[k])
    OBVIOUS
  <2>1. k \in 1 .. Len(cwd) /\ k + 1 \in 1 .. Len(cwd)
    BY <1>1
  <2> QED BY <1>1, <1>2, <2>1
<1>4. IsDir(e, Last(cwd))
  <2>1. Last(cwd) \in Inode /\ Last(cwd) # target /\ IsDir(d, Last(cwd))
    BY <1>1 DEF AtHome
  <2> QED BY <2>1 DEF Gone, IsDir
<1> QED BY <1>3, <1>4, StaysHome

(* The last inode of a stack is gone, and its entry.                       *)
Dropped(d, e, s) ==
  /\ OnTree(d, s) /\ Len(s) > 1 /\ d.node[Last(s)].entries = <<>>
  /\ Gone(d, e, s[Len(s) - 1], Last(s))

LEMMA RemovedIs ==
  ASSUME NEW d, Healthy(d), AtHome(d), Balanced(d), Counted(d), NEW path \in Path, NEW asDir \in BOOLEAN,
         NEW stack, stack = Walk(d, path, asDir), Range(stack) \cap d.damaged = {},
         ~asDir /\ stack # <<>> => ~IsDir(d, Last(stack)),
         NEW r, r = Removed(d, path, asDir)
  PROVE  /\ Sane(r)
         /\ r = Thrown(d) \/ (r.ok /\ Dropped(d, r.disk, stack))
         /\ Len(stack) > 1 /\ (asDir => /\ Last(stack) # Last(cwd)
                                        /\ d.node[Last(stack)].entries = <<>>)
              => r # Thrown(d)
<1> DEFINE possible == /\ Len(stack) > 1
                       /\ asDir => /\ Last(stack) # Last(cwd)
                                   /\ d.node[Last(stack)].entries = <<>>
<1>1. CASE possible
  <2>1. r = Done(Unlinked(d, stack))
    BY <1>1 DEF Removed
  <2>2. stack # <<>>
    BY <1>1
  <2>3. OnTree(d, stack) /\ (asDir => IsDir(d, Last(stack)))
    BY <2>2, WalkOnTree
  <2> DEFINE target == Last(stack)
             dir == stack[Len(stack) - 1]
  <2>4. target \in Inode /\ dir \in Inode /\ target \notin d.damaged /\ dir \notin d.damaged
    <3>1. /\ Len(stack) \in Nat /\ DOMAIN stack = 1 .. Len(stack) /\ target = stack[Len(stack)]
          /\ \A k \in 1 .. Len(stack) : stack[k] \in Inode
      BY <2>3, OnTreeIs
    <3>2. Len(stack) \in DOMAIN stack /\ Len(stack) - 1 \in DOMAIN stack
      BY <1>1, <3>1
    <3>3. target \in Range(stack) /\ dir \in Range(stack)
      BY <3>1, <3>2 DEF Range
    <3> QED BY <3>1, <3>2, <3>3
  <2>5. d.node[target].entries = <<>>
    <3>1. CASE asDir
      BY <1>1, <3>1
    <3>2. CASE ~asDir
      BY <2>2, <2>4, <3>2 DEF Healthy, Plain, IsDir
    <3> QED BY <3>1, <3>2
  <2>6. ASSUME NEW k \in 1 .. Len(cwd) PROVE cwd[k] # target
    <3>1. /\ Len(cwd) \in Nat /\ Last(cwd) = cwd[Len(cwd)]
          /\ \A m \in 1 .. Len(cwd) : cwd[m] \in Inode
          /\ \A m \in 2 .. Len(cwd) : cwd[m] \in Children(d, cwd[m - 1])
          /\ \A m \in 1 .. Len(cwd) - 1 : IsDir(d, cwd[m])
          /\ IsDir(d, Last(cwd))
      BY OnTreeIs DEF AtHome
    <3>2. CASE ~asDir
      <4>1. ~IsDir(d, target)
        BY <2>2, <3>2
      <4>2. IsDir(d, cwd[k])
        <5>1. k = Len(cwd) \/ k \in 1 .. Len(cwd) - 1
          BY <3>1
        <5> QED BY <3>1, <5>1
      <4> QED BY <4>1, <4>2
    <3>3. CASE asDir /\ k = Len(cwd)
      BY <1>1, <3>1, <3>3
    <3>4. CASE k # Len(cwd)
      <4>1. k + 1 \in 2 .. Len(cwd) /\ (k + 1) - 1 = k
        BY <3>1, <3>4
      <4>2. cwd[k + 1] \in Children(d, cwd[k]) /\ cwd[k] \in Inode
        BY <3>1, <4>1
      <4>3. d.node[cwd[k]].entries # <<>>
        BY <4>2, ParentIsDir
      <4> QED BY <2>5, <4>3
    <3> QED BY <3>2, <3>3, <3>4
  <2> DEFINE e == Unlinked(d, stack)
  <2>7. Healthy(e) /\ Gone(d, e, dir, target) /\ Balanced(e)
    BY <1>1, <2>3, <2>4, <2>5, UnlinkedIs
  <2>10. r.ok /\ r.disk = e
    BY <2>1, ResultIs
  <2> HIDE DEF e
  <2>8. AtHome(e) /\ Counted(e)
    <3> HIDE DEF dir, target
    <3> QED BY <2>4, <2>5, <2>6, <2>7, GoneHome, GoneLost
  <2>9. Sane(r)
    BY <2>1, <2>7, <2>8, ThrownIs DEF e
  <2>11. Dropped(d, r.disk, stack)
    BY <1>1, <2>3, <2>5, <2>7, <2>10 DEF Dropped
  <2>12. r # Thrown(d)
    BY <2>10, ResultIs
  <2> QED BY <2>9, <2>10, <2>11, <2>12
<1>2. CASE ~possible
  <2>1. r = Thrown(d)
    BY <1>2 DEF Removed
  <2> QED BY <1>2, <2>1, ThrownIs
<1> QED BY <1>1, <1>2

LEMMA NewFileIs ==
  ASSUME NEW d, Healthy(d), NEW e, NEW i, NEW dir, NEW name, NEW type \in {"dir", "normal"},
         Grew(d, e, TRUE, i, dir, name, type)
  PROVE  i \in Inode \ e.damaged /\ e.node[i].type = type /\ e.damaged = d.damaged
<1>1. i \in Unused(d) /\ e.node[i] = Blank(type) /\ e.damaged = d.damaged
  BY DEF Grew
<1> QED BY <1>1, Fresh, BlankIs

LEMMA LeafIs ==
  ASSUME NEW d, NEW b, Healthy(b), NEW dir \in Inode, Leads(d, dir), NEW name \in Names \cup Special,
         NEW i, NEW type, Grew(d, b, TRUE, i, dir, name, type), NEW e,
         \A j \in Inode : e.node[j].entries = b.node[j].entries /\ e.node[j].type = b.node[j].type,
         \A j \in Inode : j # i => e.node[j] = b.node[j], type = "dir" => e.node[i] = b.node[i],
         e.damaged \subseteq b.damaged \cup {i}
  PROVE  Leaf(d, e, i, type)
BY DEF Leaf

LEMMA MadeIs ==
  ASSUME NEW d, Healthy(d), NEW path \in Path, NEW type \in {"dir", "normal"}, NEW t, Sane(t.res),
         \/ t.res = Thrown(d)
         \/ \E dir \in Inode, name \in Names \cup Special :
              Leads(d, dir) /\ Grew(d, t.res.disk, t.res.ok, t.inode, dir, name, type)
  PROVE  Made(d, t.res, t.inode, type)
<1> DEFINE e == t.res.disk
<1>1. Healthy(e) /\ t.res.ok \in BOOLEAN
  BY DEF Sane
<1>2. CASE t.res = Thrown(d)
  BY <1>2 DEF Made, Thrown
<1>3. CASE t.res # Thrown(d)
  <2>1. PICK dir \in Inode, name \in Names \cup Special :
          Leads(d, dir) /\ Grew(d, e, t.res.ok, t.inode, dir, name, type)
    BY <1>3
  <2>2. CASE t.res.ok
    <3>1. Grew(d, e, TRUE, t.inode, dir, name, type)
      BY <2>1, <2>2 DEF Grew
    <3> HIDE DEF e
    <3>2. Leaf(d, e, t.inode, type)
      BY <1>1, <2>1, <3>1, LeafIs
    <3> QED BY <2>2, <3>2 DEF Made, e
  <2>3. CASE ~t.res.ok
    <3>1. Grew(d, e, FALSE, t.inode, dir, name, type) /\ e.free = 0 /\ t.inode \in Inode
      BY <2>1, <2>3 DEF Grew, Unused
    <3>2. Stub(d, e)
      BY <3>1 DEF Stub
    <3> QED BY <2>3, <3>1, <3>2 DEF Made
  <2> QED BY <1>1, <2>2, <2>3
<1> QED BY <1>2, <1>3

(* A path that does not go up again behind a name leads to the same place  *)
(* when what it names has been emptied.                                    *)
Hit(d, i, name) == (CHOOSE x \in Matches(d, i, name) : TRUE).inode
Begins(s, t) == Len(s) <= Len(t) /\ \A j \in 1 .. Len(s) : t[j] = s[j]

LEMMA BeginsAgain ==
  ASSUME NEW r, NEW s, NEW t, Len(r) \in Nat, Len(s) \in Nat, Len(t) \in Nat,
         Begins(r, s), Begins(s, t)
  PROVE  Begins(r, t)
<1> DEFINE a == Len(r)
           b == Len(s)
           c == Len(t)
<1>1. /\ a \in Nat /\ b \in Nat /\ c \in Nat /\ a <= b /\ b <= c
      /\ \A j \in 1 .. a : s[j] = r[j]
      /\ \A j \in 1 .. b : t[j] = s[j]
  BY DEF Begins
<1> HIDE DEF a, b, c
<1>2. a <= c /\ \A j \in 1 .. a : t[j] = r[j]
  BY <1>1
<1> QED BY <1>2 DEF Begins, a, c

LEMMA EnterIs ==
  ASSUME NEW d, Healthy(d), NEW s, OnTree(d, s), NEW name, NEW toDir, Enter(d, s, name, toDir) # <<>>
  PROVE  /\ Begins(s, Enter(d, s, name, toDir)) /\ Len(Enter(d, s, name, toDir)) = Len(s) + 1
         /\ Enter(d, s, name, toDir)[Len(s) + 1] = Hit(d, Last(s), name)
<1>1. s \in Seq(Inode) /\ Len(s) \in Nat \ {0} /\ Last(s) = s[Len(s)] /\ Last(s) \in Inode
  BY OnTreeIs
<1> DEFINE M == Matches(d, Last(s), name)
           x == (CHOOSE e \in M : TRUE).inode
           t == Append(s, x)
<1>2. M # {} /\ Enter(d, s, name, toDir) = t
  BY DEF Enter
<1> HIDE DEF M
<1>3. x \in Children(d, Last(s)) /\ x \in Inode
  <2>1. x \in Children(d, Last(s))
    BY <1>1, <1>2, Found DEF M, Healthy
  <2> QED BY <2>1, <1>1, ParentIsDir
<1> HIDE DEF x
<1>4. /\ t \in Seq(Inode) /\ Len(t) = Len(s) + 1 /\ t[Len(s) + 1] = x
      /\ \A k \in 1 .. Len(s) : t[k] = s[k]
  BY <1>1, <1>3
<1> HIDE DEF t
<1>5. Begins(s, t)
  BY <1>1, <1>4 DEF Begins
<1> QED BY <1>2, <1>4, <1>5 DEF x, M, Hit

LEMMA TraceWhole ==
  ASSUME NEW d, NEW path \in Path, NEW toDir, Walk(d, path, toDir) # <<>>
  PROVE  \A k \in 0 .. Len(path.segs) : Trace(d, path, toDir)[k] # <<>>
<1> DEFINE g == Trace(d, path, toDir)
           n == Len(path.segs)
           T == {j \in Nat : j <= n => g[n - j] # <<>>}
<1>1. /\ n \in Nat
      /\ \A k \in 1 .. n : g[k] = Move(d, g[k - 1], path.segs[k], toDir)
  BY TraceSteps
<1>2. g[n] # <<>>
  BY DEF Walk
<1> HIDE DEF g, n
<1>3. 0 \in T
  BY <1>1, <1>2
<1>4. ASSUME NEW j \in Nat, j \in T PROVE j + 1 \in T
  <2> SUFFICES ASSUME j + 1 <= n PROVE g[n - (j + 1)] # <<>>
    OBVIOUS
  <2> DEFINE k == n - j
  <2>1. k \in 1 .. n /\ k - 1 = n - (j + 1) /\ j <= n
    BY <1>1
  <2>2. g[k] # <<>>
    BY <1>4, <2>1
  <2> HIDE DEF k
  <2>3. g[k] = Move(d, g[k - 1], path.segs[k], toDir)
    BY <1>1, <2>1
  <2>4. g[k - 1] # <<>>
    BY <2>2, <2>3 DEF Move
  <2> QED BY <2>1, <2>4
<1> HIDE DEF T
<1>5. Nat \subseteq T
  BY <1>3, <1>4, Induct
<1>6. ASSUME NEW k \in 0 .. n PROVE g[k] # <<>>
  <2>1. n - k \in Nat /\ n - k <= n /\ n - (n - k) = k
    BY <1>1
  <2>2. n - k \in T
    BY <1>5, <2>1
  <2> QED BY <2>1, <2>2 DEF T
<1> QED BY <1>6 DEF g, n

LEMMA OnlyGrows ==
  ASSUME NEW d, Healthy(d), AtHome(d), NEW path \in Path, ~Winding(path), Walk(d, path, FALSE) # <<>>,
         NEW k \in 1 .. Len(path.segs), path.segs[k] \in Names
  PROVE  Begins(Trace(d, path, FALSE)[k], Walk(d, path, FALSE))
<1> DEFINE g == Trace(d, path, FALSE)
           n == Len(path.segs)
           T == {j \in Nat : k + j <= n => Begins(g[k], g[k + j])}
<1>1. /\ n \in Nat
      /\ \A m \in 1 .. n : g[m] = Move(d, g[m - 1], path.segs[m], FALSE)
      /\ \A m \in 0 .. n : g[m] # <<>> /\ OnTree(d, g[m])
  BY TraceSteps, TraceWhole, TraceOnTree, ZenonT(60)
<1>2. DOMAIN path.segs = 1 .. n
  BY DEF Path
<1>3. ASSUME NEW m \in 1 .. n, k < m PROVE path.segs[m] # ".."
  BY <1>2, <1>3 DEF Winding
<1>4. Walk(d, path, FALSE) = g[n]
  BY DEF Walk
<1> HIDE DEF g, n
<1>5. k \in 1 .. n
  BY DEF n
<1>6. 0 \in T
  <2>1. k \in 0 .. n /\ k + 0 = k
    BY <1>1, <1>5
  <2>2. Len(g[k]) \in Nat
    BY <1>1, <2>1, OnTreeIs
  <2>3. Begins(g[k], g[k])
    BY <2>2 DEF Begins
  <2> QED BY <2>1, <2>3
<1>7. ASSUME NEW j \in Nat, j \in T PROVE j + 1 \in T
  <2> SUFFICES ASSUME k + (j + 1) <= n PROVE Begins(g[k], g[k + (j + 1)])
    OBVIOUS
  <2> DEFINE m == k + (j + 1)
             b == g[m - 1]
             a == g[m]
             seg == path.segs[m]
  <2>1. m \in 1 .. n /\ m - 1 = k + j /\ k < m /\ m - 1 \in 0 .. n /\ k + j <= n /\ k \in 0 .. n
    BY <1>1, <1>5
  <2>2. Begins(g[k], b)
    BY <1>7, <2>1
  <2>3. OnTree(d, b) /\ b # <<>> /\ a # <<>> /\ a = Move(d, b, seg, FALSE) /\ seg # ".."
        /\ OnTree(d, g[k]) /\ OnTree(d, a)
    <3>1. m \in 0 .. n
      BY <1>1, <2>1
    <3> QED BY <1>1, <1>3, <2>1, <3>1
  <2> HIDE DEF a, b, seg, m
  <2>4. CASE seg = "."
    <3>1. a = b
      BY <2>3, <2>4 DEF Move
    <3> QED BY <2>2, <3>1 DEF a, m
  <2>5. CASE seg # "."
    <3>1. a = Enter(d, b, seg, FALSE)
      BY <2>3, <2>5 DEF Move
    <3>2. Begins(b, a)
      BY <2>3, <3>1, EnterIs
    <3>3. Len(a) \in Nat /\ Len(b) \in Nat /\ Len(g[k]) \in Nat
      BY <2>3, OnTreeIs
    <3>4. Begins(g[k], a)
      BY <2>2, <3>2, <3>3, BeginsAgain
    <3> QED BY <3>4 DEF a, m
  <2> QED BY <2>4, <2>5
<1> HIDE DEF T
<1>8. Nat \subseteq T
  BY <1>6, <1>7, Induct
<1>9. n - k \in T /\ k + (n - k) = n /\ n <= n
  BY <1>1, <1>5, <1>8
<1>10. Begins(g[k], g[n])
  BY <1>1, <1>9 DEF T
<1> QED BY <1>4, <1>10 DEF g

LEMMA SameAgain ==
  ASSUME NEW d, NEW path \in Path, NEW stack, NEW e, Healthy(d), AtHome(d), ~Winding(path),
         stack = Walk(d, path, FALSE), stack # <<>>, IsDir(d, Last(stack)),
         Cleared(d, e, Last(stack))
  PROVE  Walk(e, path, TRUE) = stack
<1> DEFINE g == Trace(d, path, FALSE)
           h == Trace(e, path, TRUE)
           n == Len(path.segs)
           i == Last(stack)
           z == Len(stack)
           T == {k \in Nat : k <= n => h[k] = g[k]}
<1>1. /\ n \in Nat /\ h[0] = Start(path) /\ g[0] = Start(path)
      /\ \A m \in 1 .. n : g[m] = Move(d, g[m - 1], path.segs[m], FALSE)
      /\ \A m \in 1 .. n : h[m] = Move(e, h[m - 1], path.segs[m], TRUE)
      /\ \A m \in 0 .. n : g[m] # <<>> /\ OnTree(d, g[m])
  BY TraceSteps, TraceWhole, TraceOnTree, ZenonT(60)
<1>2. stack = g[n] /\ Walk(e, path, TRUE) = h[n]
  BY DEF Walk
<1>3. ASSUME NEW m \in 1 .. n, path.segs[m] \in Names PROVE Begins(g[m], stack)
  BY <1>3, OnlyGrows
<1>4. \A m \in 1 .. n : path.segs[m] \in Segments
  BY DEF Path
<1> HIDE DEF g, h, n
<1>5. /\ OnTree(d, stack) /\ z \in Nat /\ stack[z] = i /\ z \in 1 .. z
      /\ \A k \in 1 .. z : stack[k] \in Inode
      /\ \A k \in 1 .. z - 1 : IsDir(d, stack[k])
      /\ i \in Inode
  <2>1. n \in 0 .. n
    BY <1>1
  <2>2. OnTree(d, stack)
    BY <1>1, <1>2, <2>1
  <2> QED BY <2>2, OnTreeIs, EndOf
<1> HIDE DEF z
<1>6. ASSUME NEW m \in 1 .. z, m < z
      PROVE  e.node[stack[m]] = d.node[stack[m]]
  <2>1. \A k \in 1 .. m : stack[k] # i
    <3> SUFFICES ASSUME NEW k \in 1 .. m, stack[k] = i PROVE FALSE
      OBVIOUS
    <3>1. k \in 1 .. z /\ k # z
      BY <1>5, <1>6
    <3>2. k \in 1 .. Len(stack) /\ z \in 1 .. Len(stack)
      BY <1>5, <3>1 DEF z
    <3>3. k = z
      <4> DEFINE t == stack
      <4>1. OnTree(d, t) /\ t[k] = t[z] /\ k \in 1 .. Len(t) /\ z \in 1 .. Len(t)
        BY <1>5, <3>2
      <4> HIDE DEF z, t
      <4> QED BY <4>1, SameDepth
    <3> QED BY <3>1, <3>3
  <2> HIDE DEF i
  <2>2. stack[m] \notin Below(d, i)
    <3>1. m \in 1 .. Len(stack)
      BY DEF z
    <3> QED BY <1>5, <2>1, <3>1, NotBelow
  <2>3. stack[m] # i /\ stack[m] \in Inode
    <3>1. m \in 1 .. m
      BY <1>5
    <3> QED BY <1>5, <2>1, <3>1
  <2> QED BY <2>2, <2>3 DEF Cleared, i
<1>7. ASSUME NEW m \in 1 .. z PROVE m # 1 => IsDir(e, stack[m])
  <2>1. CASE m = z
    BY <1>5, <2>1 DEF Cleared, IsDir
  <2>2. CASE m # z
    <3>1. m \in 1 .. z - 1 /\ m < z
      BY <1>5, <2>2
    <3> QED BY <1>5, <1>6, <3>1 DEF IsDir
  <2> QED BY <2>1, <2>2
<1>8. 0 \in T
  BY <1>1
<1>9. ASSUME NEW k \in Nat, k \in T PROVE k + 1 \in T
  <2> SUFFICES ASSUME k + 1 <= n PROVE h[k + 1] = g[k + 1]
    OBVIOUS
  <2> DEFINE m == k + 1
             b == g[k]
             a == g[m]
             seg == path.segs[m]
  <2>1. m \in 1 .. n /\ m - 1 = k /\ k \in 0 .. n /\ m \in 0 .. n /\ k <= n
    BY <1>1
  <2>2. h[k] = b
    BY <1>9, <2>1
  <2>3. /\ OnTree(d, b) /\ b # <<>> /\ a # <<>> /\ seg \in Segments
        /\ a = Move(d, b, seg, FALSE) /\ h[m] = Move(e, b, seg, TRUE)
    BY <1>1, <1>4, <2>1, <2>2
  <2>4. seg \in Names => Begins(a, stack)
    BY <1>3, <2>1
  <2> HIDE DEF a, b, seg, m
  <2>5. CASE seg = "." \/ seg = ".."
    <3>1. h[m] = a
      BY <2>3, <2>5 DEF Move
    <3> QED BY <3>1 DEF a, m
  <2>6. CASE ~(seg = "." \/ seg = "..")
    <3> DEFINE c == Last(b)
               l == Len(b)
               M == Matches(d, c, seg)
               x == (CHOOSE y \in M : TRUE).inode
    <3>1. seg \in Names
      BY <2>3, <2>6 DEF Segments
    <3>2. a = Enter(d, b, seg, FALSE) /\ h[m] = Enter(e, b, seg, TRUE)
      BY <2>3, <2>6 DEF Move
    <3>3. Begins(b, a) /\ Len(a) = l + 1 /\ a[l + 1] = x
      <4> HIDE DEF x, l
      <4>1. /\ Begins(b, Enter(d, b, seg, FALSE)) /\ Len(Enter(d, b, seg, FALSE)) = Len(b) + 1
            /\ Enter(d, b, seg, FALSE)[Len(b) + 1] = Hit(d, c, seg)
        BY <2>3, <3>2, EnterIs
      <4> QED BY <3>2, <4>1 DEF x, l, Hit, M
    <3>4. l \in Nat \ {0} /\ c = b[l]
      BY <2>3, OnTreeIs
    <3>5. M # {} /\ a = Append(b, x)
      BY <2>3, <3>2 DEF Enter
    <3> HIDE DEF l, x, M
    <3>6. l < z /\ l \in 1 .. z /\ l + 1 \in 1 .. z /\ l + 1 # 1
          /\ l + 1 \in 1 .. Len(a) /\ l \in 1 .. Len(a) /\ l \in 1 .. Len(b)
      <4>1. l + 1 <= z /\ z \in Nat
        BY <1>5, <2>4, <3>1, <3>3 DEF Begins, z
      <4> QED BY <3>3, <3>4, <4>1 DEF l
    <3>7. stack[l] = c /\ stack[l + 1] = x
      <4>1. stack[l] = a[l] /\ stack[l + 1] = a[l + 1]
        BY <2>4, <3>1, <3>6 DEF Begins
      <4>2. a[l] = b[l]
        BY <3>3, <3>6 DEF Begins
      <4> QED BY <3>3, <3>4, <4>1, <4>2
    <3>8. e.node[c] = d.node[c] /\ IsDir(e, x)
      BY <1>6, <1>7, <3>6, <3>7
    <3>9. Matches(e, c, seg) = M
      BY <3>8 DEF Matches, M
    <3>10. Enter(e, b, seg, TRUE) = Append(b, x)
      BY <3>5, <3>8, <3>9 DEF Enter, x, M
    <3>11. h[m] = a
      BY <3>2, <3>5, <3>10
    <3> QED BY <3>11 DEF a, m
  <2> QED BY <2>5, <2>6
<1> HIDE DEF T
<1>10. Nat \subseteq T
  BY <1>8, <1>9, Induct
<1>11. n \in T /\ n <= n
  BY <1>1, <1>10
<1>12. h[n] = g[n]
  BY <1>11 DEF T
<1> QED BY <1>2, <1>12

LEMMA HeldWhere ==
  ASSUME NEW d, Healthy(d), AtHome(d), NEW s, OnTree(d, s), ~HoldsCwd(s)
  PROVE  \A k \in 1 .. Len(cwd) : cwd[k] # Last(s)
<1> SUFFICES ASSUME NEW k \in 1 .. Len(cwd), cwd[k] = Last(s) PROVE FALSE
  OBVIOUS
<1> DEFINE l == Len(s)
           t == cwd
<1>1. l \in 1 .. Len(s) /\ l \in Nat /\ s[l] = t[k] /\ OnTree(d, t) /\ Len(t) \in Nat
      /\ k \in 1 .. Len(t)
  BY EndOf, OnTreeIs DEF AtHome
<1> HIDE DEF l, t
<1>2. l = k
  BY <1>1, SameDepth
<1>3. k <= Len(t)
  BY <1>1
<1> QED BY <1>2, <1>3 DEF HoldsCwd, l, t

(* rm of a directory: it is emptied, and then removed unless the path does *)
(* not lead to it any more.                                                *)
Pruned(d, r, s, path) ==
  \E e : /\ Healthy(e) /\ OnTree(d, s) /\ IsDir(d, Last(s)) /\ Cleared(d, e, Last(s))
         /\ (r.ok /\ Dropped(e, r.disk, s)) \/ (r.disk = e /\ Winding(path))

LEMMA RmTreeIs ==
  ASSUME Healthy(disk), AtHome(disk), Balanced(disk), Counted(disk), NEW path \in Path,
         NEW stack, stack = Walk(disk, path, FALSE), stack # <<>>, IsDir(disk, Last(stack)),
         Range(stack) \cap disk.damaged = {}, Below(disk, Last(stack)) \cap disk.damaged = {},
         NEW r, r = RmTree(stack, path)
  PROVE  Sane(r) /\ (r = Thrown(disk) \/ Pruned(disk, r, stack, path))
<1>1. CASE HoldsCwd(stack)
  BY <1>1, ThrownIs DEF RmTree
<1>2. CASE ~HoldsCwd(stack)
  <2> DEFINE d == disk
             i == Last(stack)
             e == Emptied(d, i)
  <2>1. r = Removed(e, path, TRUE)
    BY <1>2 DEF RmTree
  <2>2. OnTree(d, stack)
    BY WalkOnTree
  <2>3. i \in Inode \ d.damaged
    <3>1. i \in Inode /\ i \in Range(stack)
      BY <2>2, EndOf
    <3> QED BY <3>1
  <2>4. Healthy(e) /\ Cleared(d, e, i) /\ Balanced(e) /\ Counted(e)
    BY <2>3, EmptiedIs, ClearedLost
  <2>5. \A k \in 1 .. Len(cwd) : cwd[k] # i
    BY <1>2, <2>2, HeldWhere
  <2> HIDE DEF e
  <2>6. AtHome(e)
    <3>1. \A k \in 1 .. Len(cwd) : cwd[k] \in Inode /\ e.node[cwd[k]] = d.node[cwd[k]]
      <4>1. \A k \in 1 .. Len(cwd) : cwd[k] \in Inode
        BY OnTreeIs DEF AtHome
      <4>2. \A k \in 1 .. Len(cwd) : cwd[k] \notin Below(d, i)
        <5> SUFFICES ASSUME NEW k \in 1 .. Len(cwd) PROVE cwd[k] \notin Below(d, i)
          OBVIOUS
        <5>1. Len(cwd) \in Nat /\ OnTree(d, cwd)
          BY OnTreeIs DEF AtHome
        <5>2. \A m \in 1 .. k : m \in 1 .. Len(cwd)
          BY <5>1
        <5> QED BY <2>3, <2>5, <5>1, <5>2, NotBelow
      <4> QED BY <2>4, <2>5, <4>1, <4>2 DEF Cleared
    <3>2. \A k \in 1 .. Len(cwd) - 1 : cwd[k + 1] \in Children(e, cwd[k])
      <4> SUFFICES ASSUME NEW k \in 1 .. Len(cwd) - 1 PROVE cwd[k + 1] \in Children(e, cwd[k])
        OBVIOUS
      <4>1. k \in 1 .. Len(cwd) /\ cwd[k + 1] \in Children(d, cwd[k])
        BY OnTreeIs DEF AtHome, OnTree
      <4> QED BY <3>1, <4>1 DEF Children
    <3>3. IsDir(e, Last(cwd))
      <4>1. Last(cwd) = cwd[Len(cwd)] /\ Len(cwd) \in 1 .. Len(cwd) /\ IsDir(d, Last(cwd))
        BY OnTreeIs DEF AtHome
      <4> QED BY <3>1, <4>1 DEF IsDir
    <3> QED BY <3>2, <3>3, StaysHome
  <2>7. Follows(d, FALSE, e, TRUE)
    <3> SUFFICES ASSUME NEW s, OnTree(e, s), NEW name \in Segments, Enter(e, s, name, TRUE) # <<>>
                 PROVE  Enter(d, s, name, FALSE) = Enter(e, s, name, TRUE)
      BY DEF Follows
    <3> DEFINE c == Last(s)
    <3>1. c \in Inode
      BY <2>4, OnTreeIs
    <3>2. Matches(e, c, name) # {}
      BY DEF Enter
    <3> HIDE DEF c
    <3>3. e.node[c].entries # <<>>
      BY <3>2 DEF Matches, Range
    <3>4. e.node[c] = d.node[c]
      BY <2>4, <3>1, <3>3, BlankIs DEF Cleared
    <3>5. Matches(e, c, name) = Matches(d, c, name)
      BY <3>4 DEF Matches
    <3> QED BY <3>2, <3>5 DEF Enter, c
  <2> DEFINE again == Walk(e, path, TRUE)
  <2>8. again # <<>> => again = stack
    BY <2>4, <2>6, <2>7, SameWalk
  <2>9. Range(again) \cap e.damaged = {}
    <3>1. Range(<<>>) = {}
      BY DEF Range
    <3>2. e.damaged = d.damaged
      BY <2>4 DEF Cleared
    <3> QED BY <2>8, <3>1, <3>2
  <2> HIDE DEF again
  <2>10. again = Walk(e, path, TRUE)
    BY DEF again
  <2>11. TRUE \in BOOLEAN
    OBVIOUS
  <2>13. /\ Sane(r)
         /\ r = Thrown(e) \/ (r.ok /\ Dropped(e, r.disk, again))
         /\ Len(again) > 1 /\ Last(again) # Last(cwd) /\ e.node[Last(again)].entries = <<>>
              => r # Thrown(e)
    BY <2>1, <2>4, <2>6, <2>9, <2>10, <2>11, RemovedIs
  <2>14. CASE r = Thrown(e)
    <3>1. Winding(path)
      <4> SUFFICES ASSUME ~Winding(path) PROVE FALSE
        OBVIOUS
      <4>1. again = stack
        <5> DEFINE t == stack
        <5>1. /\ Healthy(d) /\ AtHome(d) /\ t = Walk(d, path, FALSE) /\ t # <<>>
              /\ IsDir(d, Last(t)) /\ Cleared(d, e, Last(t))
          BY <2>4
        <5> HIDE DEF d, t
        <5>2. Walk(e, path, TRUE) = t
          BY <5>1, SameAgain
        <5> QED BY <2>10, <5>2 DEF t
      <4>2. Last(cwd) # i /\ Root # i
        <5>1. Last(cwd) = cwd[Len(cwd)] /\ Len(cwd) \in 1 .. Len(cwd) /\ cwd[1] = Root
              /\ 1 \in 1 .. Len(cwd)
          BY OnTreeIs, EndOf DEF AtHome, OnTree
        <5> QED BY <2>5, <5>1
      <4>3. Len(stack) > 1
        <5>1. stack[1] = Root /\ stack[Len(stack)] = i /\ Len(stack) \in Nat /\ Len(stack) > 0
          BY <2>2, EndOf DEF OnTree
        <5> DEFINE t == stack
        <5>2. t[1] = Root /\ t[Len(t)] = i /\ Len(t) \in Nat /\ Len(t) > 0
          BY <5>1
        <5> HIDE DEF i, t
        <5>3. Len(t) > 1
          BY <4>2, <5>2
        <5> QED BY <5>3 DEF t
      <4>4. e.node[i].entries = <<>>
        BY <2>4 DEF Cleared
      <4> QED BY <2>13, <2>14, <4>1, <4>2, <4>3, <4>4
    <3>2. r.disk = e
      BY <2>14, ResultIs
    <3> QED BY <2>2, <2>4, <2>13, <3>1, <3>2 DEF Pruned
  <2>15. CASE r.ok /\ Dropped(e, r.disk, again)
    <3>1. again # <<>>
      BY <2>15, OnTreeIs, <2>4 DEF Dropped
    <3>2. again = stack
      BY <2>8, <3>1 DEF again
    <3> QED BY <2>2, <2>4, <2>13, <2>15, <3>2 DEF Pruned
  <2> QED BY <2>13, <2>14, <2>15
<1> QED BY <1>1, <1>2

(* Contents are put into a new file.                                       *)
LEMMA FilledIs ==
  ASSUME NEW d, Healthy(d), AtHome(d), Balanced(d), Counted(d), NEW i \in Inode \ d.damaged,
         d.node[i].type = "normal", NEW n, n \in Node, n.type = "normal", n.entries = <<>>,
         NEW r, r = Store(d, i, n)
  PROVE  /\ Sane(r) /\ Sane(Done(r.disk))
         /\ \A j \in Inode : /\ r.disk.node[j].entries = d.node[j].entries
                             /\ r.disk.node[j].type = d.node[j].type
                             /\ j # i => r.disk.node[j] = d.node[j]
         /\ r.disk.damaged \subseteq d.damaged \cup {i}
         /\ r.ok => r.disk.damaged = d.damaged /\ r.disk.node[i] = n
         /\ ~r.ok => r.disk.free = 0
<1> DEFINE e == r.disk
           c == Cut(n, Room(d, i))
<1>0. Typed(d) /\ d.node[i].entries = <<>>
  BY DEF Healthy, Plain
<1>1. /\ r.ok \in BOOLEAN /\ Room(d, i) \in Nat
      /\ r.ok <=> Size(n) <= Room(d, i)
      /\ Typed(e)
      /\ r.ok => OnlyAt(d, e, i, n) /\ e.free = Room(d, i) - Size(n) /\ e.damaged = d.damaged
      /\ ~r.ok => OnlyAt(d, e, i, c) /\ e.free = 0 /\ e.damaged = d.damaged \cup {i}
  BY <1>0, StoreIs
<1>2. c \in Node /\ c.type = "normal" /\ c.entries = <<>>
  <2>1. /\ c \in Node /\ c.type = n.type
        /\ \A k \in DOMAIN c.entries : k \in DOMAIN n.entries
    BY <1>1, CutIs
  <2> HIDE DEF c
  <2>2. c.entries \in Seq(Entry)
    BY <2>1 DEF Node
  <2>3. DOMAIN n.entries = {}
    OBVIOUS
  <2> DEFINE s == c.entries
  <2>4. s \in Seq(Entry) /\ DOMAIN s = {}
    BY <2>1, <2>2, <2>3
  <2> HIDE DEF s
  <2>5. s = <<>>
    BY <2>4
  <2> QED BY <2>1, <2>5 DEF s
<1> HIDE DEF e, c
<1>3. PICK m : m \in Node /\ m.type = "normal" /\ m.entries = <<>> /\ OnlyAt(d, e, i, m)
  BY <1>1, <1>2
<1>4. /\ \A j \in Inode : e.node[j].entries = d.node[j].entries /\ e.node[j].type = d.node[j].type
      /\ \A j \in Inode : j # i => e.node[j] = d.node[j]
  BY <1>0, <1>3 DEF OnlyAt
<1>5. \A j \in Inode : Children(e, j) = Children(d, j)
  BY <1>4 DEF Children
<1>6. Healthy(e)
  <2>1. Plain(e)
    <3>1. \A j \in Inode : e.node[j].type # "dir" => e.node[j].entries = <<>>
      BY <1>4 DEF Healthy, Plain
    <3>2. ASSUME NEW j \in Unused(e) PROVE e.node[j] = Blank("none") /\ j \notin e.damaged
      <4>1. j \in Inode /\ j \in Unused(d) /\ j # i
        BY <1>4 DEF Unused
      <4>2. e.node[j] = d.node[j] /\ e.damaged \subseteq d.damaged \cup {i}
        BY <1>1, <1>3, <4>1 DEF OnlyAt
      <4> QED BY <4>1, <4>2 DEF Healthy, Plain
    <3> QED BY <3>1, <3>2 DEF Plain
  <2>2. \A j \in Inode : Part(e.node[j].entries, d.node[j].entries)
    BY <1>4, Parts
  <2>3. ASSUME NEW j \in Inode, NEW x \in Children(e, j) PROVE e.node[x].type # "none"
    <3>1. x \in Inode /\ d.node[x].type # "none"
      BY <1>5, ParentIsDir
    <3> QED BY <1>4, <3>1
  <2>4. e.node[Root].type = "dir"
    BY <1>4, InodeAssumption DEF Healthy
  <2>5. Typed(e)
    BY <1>1
  <2> QED BY <2>1, <2>2, <2>3, <2>4, <2>5, Less
<1>7. AtHome(e)
  <2>1. \A k \in 1 .. Len(cwd) : cwd[k] \in Inode
    BY OnTreeIs DEF AtHome
  <2>2. \A k \in 1 .. Len(cwd) - 1 : k \in 1 .. Len(cwd) /\ cwd[k + 1] \in Children(d, cwd[k])
    BY OnTreeIs DEF AtHome, OnTree
  <2>3. \A k \in 1 .. Len(cwd) - 1 : cwd[k + 1] \in Children(e, cwd[k])
    BY <1>5, <2>1, <2>2
  <2>4. Last(cwd) \in Inode /\ IsDir(d, Last(cwd))
    BY OnTreeIs DEF AtHome
  <2> QED BY <1>4, <2>3, <2>4, StaysHome DEF IsDir
<1>8. Balanced(e)
  <2>1. Size(n) \in Nat
    BY SizeIs
  <2>2. CASE r.ok
    <3>1. e.free + Size(n) = d.free + Size(d.node[i])
      BY <1>1, <2>1, <2>2 DEF Room
    <3> QED BY <1>0, <1>1, <2>2, <3>1, BalanceAt
  <2>3. CASE ~r.ok
    BY <1>0, <1>1, <2>3, BalanceAt
  <2> QED BY <1>1, <2>2, <2>3
<1>9. Counted(e)
  BY <1>1, <1>4, SameLost
<1>10. Sane(r) /\ Sane(Done(e))
  BY <1>1, <1>6, <1>7, <1>8, <1>9, ThrownIs DEF Sane, e
<1> QED BY <1>1, <1>4, <1>10 DEF OnlyAt, e

(* A new file with contents, as cp and upload make it.                     *)
LEMMA FillIs ==
  ASSUME NEW x \in Data \cup {Empty}, NEW n, n = [Blank("normal") EXCEPT !.data = x]
  PROVE  n \in Node /\ n.type = "normal" /\ n.entries = <<>> /\ n.data = x
<1>1. n = [type |-> "normal", entries |-> <<>>, data |-> x]
  BY DEF Blank
<1>2. <<>> \in Seq(Entry) /\ "normal" \in {"none", "dir", "normal", "char"}
  OBVIOUS
<1>3. n.type = "normal" /\ n.entries = <<>> /\ n.data = x
  BY <1>1
<1> DEFINE v == [type |-> "normal", entries |-> <<>>, data |-> x]
<1>4. v \in Node
  BY <1>2 DEF Node
<1> QED BY <1>1, <1>3, <1>4

(* Once the root was handed out, an upload does not take that back.        *)
LEMMA UploadedAstray ==
  ASSUME NEW t, NEW data, NEW r, r = Uploaded(t, data), Astray(t.res.disk)
  PROVE  Astray(r.disk)
<1> DEFINE n == [Blank("normal") EXCEPT !.data = data]
           w == Store(t.res.disk, t.inode, n).disk
<1>1. \/ r = t.res
      \/ r = Thrown(t.res.disk)
      \/ r = Done(w)
  BY DEF Uploaded
<1>2. Astray(w)
  BY AstrayStore
<1> HIDE DEF n, w
<1>3. CASE r = t.res
  BY <1>3
<1>4. CASE r = Thrown(t.res.disk)
  <2>1. r.disk = t.res.disk
    BY <1>4, ResultIs
  <2> QED BY <2>1
<1>5. CASE r = Done(w)
  <2>1. r.disk = w
    BY <1>5, ResultIs
  <2> QED BY <1>2, <2>1
<1> QED BY <1>1, <1>3, <1>4, <1>5

LEMMA UploadedIs ==
  ASSUME NEW d, Healthy(d), AtHome(d), Balanced(d), Counted(d), NEW path \in Path,
         Walk(d, ParentPath(path), FALSE) # <<>>
           => Last(Walk(d, ParentPath(path), FALSE)) \notin d.damaged,
         NEW t \in Touched(d, path, "normal"), NEW data \in Data, NEW r, r = Uploaded(t, data),
         ~Astray(r.disk)
  PROVE  /\ Sane(r)
         /\ \/ Made(d, r, t.inode, "normal")
            \/ data \in TooLarge /\ Leaf(d, r.disk, t.inode, "normal")
<1>6. ~Astray(t.res.disk)
  BY UploadedAstray
<1>1. /\ Sane(t.res)
      /\ \/ t.res = Thrown(d)
         \/ \E dir \in Inode, name \in Names \cup Special :
              Leads(d, dir) /\ Grew(d, t.res.disk, t.res.ok, t.inode, dir, name, "normal")
  BY <1>6, TouchedIs
<1> DEFINE e == t.res.disk
<1>2. Healthy(e) /\ AtHome(e) /\ Balanced(e) /\ Counted(e) /\ t.res.ok \in BOOLEAN
  BY <1>1 DEF Sane
<1>0. Made(d, t.res, t.inode, "normal")
  BY <1>1, MadeIs
<1>3. CASE ~t.res.ok
  BY <1>0, <1>1, <1>3 DEF Uploaded
<1>4. CASE t.res.ok /\ data \in TooLarge
  <2>1. r = Thrown(e)
    BY <1>4 DEF Uploaded
  <2>2. Sane(r) /\ r.disk = e
    BY <1>2, <2>1, ThrownIs
  <2> QED BY <1>0, <1>4, <2>2 DEF Made
<1>5. CASE t.res.ok /\ data \notin TooLarge
  <2> DEFINE n == [Blank("normal") EXCEPT !.data = data]
             s == Store(e, t.inode, n)
  <2>1. r = Done(s.disk)
    BY <1>5 DEF Uploaded
  <2>0. t.res # Thrown(d)
    BY <1>5, ThrownIs
  <2>9. PICK dir \in Inode, name \in Names \cup Special :
          Leads(d, dir) /\ Grew(d, e, TRUE, t.inode, dir, name, "normal")
    BY <1>1, <1>5, <2>0
  <2>2. t.inode \in Inode \ e.damaged /\ e.node[t.inode].type = "normal"
    BY <2>9, NewFileIs
  <2>3. n \in Node /\ n.type = "normal" /\ n.entries = <<>>
    BY FillIs
  <2> HIDE DEF n, e
  <2>4. /\ Sane(Done(s.disk))
        /\ \A j \in Inode : s.disk.node[j].entries = e.node[j].entries
                            /\ s.disk.node[j].type = e.node[j].type
        /\ \A j \in Inode : j # t.inode => s.disk.node[j] = e.node[j]
        /\ s.disk.damaged \subseteq e.damaged \cup {t.inode}
    BY <1>2, <2>2, <2>3, FilledIs
  <2> DEFINE x == s.disk
             i == t.inode
  <2> HIDE DEF s
  <2>5. r.ok /\ r.disk = x
    BY <2>1, ResultIs
  <2> HIDE DEF x, i
  <2>6. Leaf(d, x, i, "normal")
    BY <1>2, <2>4, <2>9, LeafIs DEF x, i
  <2> QED BY <2>1, <2>4, <2>5, <2>6 DEF Made, x, i
<1> QED BY <1>2, <1>3, <1>4, <1>5

(* A copy was made, and the source can still be found.                     *)
Copy(d, e, from) ==
  /\ Walk(d, from, FALSE) # <<>>
  /\ Walk(e, from, FALSE) = Walk(d, from, FALSE)
  /\ ~IsDir(e, Last(Walk(d, from, FALSE)))
  /\ e.damaged = d.damaged
  /\ d.node[Last(Walk(d, from, FALSE))].type = "normal"

LEMMA CopiedIs ==
  ASSUME NEW d, Healthy(d), AtHome(d), Balanced(d), Counted(d), NEW from \in Path, NEW to \in Path,
         Walk(d, ParentPath(to), FALSE) # <<>>
           => Last(Walk(d, ParentPath(to), FALSE)) \notin d.damaged,
         NEW r \in Copied(d, from, to), ~Astray(r.disk)
  PROVE  /\ Sane(r) /\ (r.ok => Copy(d, r.disk, from))
         /\ \E i : /\ Made(d, r, i, "normal")
                   /\ r.ok => /\ i \in Inode \ r.disk.damaged
                              /\ r.disk.node[i].data = d.node[Last(Walk(d, from, FALSE))].data
<1> DEFINE source == Walk(d, from, FALSE)
           last == Last(source)
<1>1. CASE source = <<>> \/ d.node[last].type # "normal"
  <2>1. r = Thrown(d)
    BY <1>1 DEF Copied
  <2>2. Made(d, r, Root, "normal") /\ r.ok = FALSE
    BY <2>1, ResultIs DEF Made
  <2> QED BY <2>1, <2>2, ThrownIs
<1>2. CASE ~(source = <<>> \/ d.node[last].type # "normal")
  <2> DEFINE n == [Blank("normal") EXCEPT !.data = d.node[last].data]
  <2>1. PICK t \in Touched(d, to, "normal") :
          r = IF t.res.ok THEN Store(t.res.disk, t.inode, n) ELSE t.res
    BY <1>2 DEF Copied
  <2>2. OnTree(d, source) /\ last \in Inode /\ d.node[last].type = "normal"
    BY <1>2, WalkOnTree, OnTreeIs
  <2>3. n \in Node /\ n.type = "normal" /\ n.entries = <<>> /\ n.data = d.node[last].data
    <3>1. d.node[last].data \in Data \cup {Empty}
      BY <2>2, NodeIs DEF Healthy
    <3> QED BY <3>1, FillIs
  <2>4. /\ Sane(t.res)
        /\ \/ t.res = Thrown(d)
           \/ \E dir \in Inode, name \in Names \cup Special :
                Leads(d, dir) /\ Grew(d, t.res.disk, t.res.ok, t.inode, dir, name, "normal")
    <3> HIDE DEF n
    <3>1. ~Astray(t.res.disk)
      <4>1. r = t.res \/ r = Store(t.res.disk, t.inode, n)
        BY <2>1
      <4> QED BY <4>1, AstrayStore
    <3> QED BY <3>1, TouchedIs
  <2> DEFINE b == t.res.disk
             i == t.inode
  <2>5. Healthy(b) /\ AtHome(b) /\ Balanced(b) /\ Counted(b) /\ t.res.ok \in BOOLEAN
    BY <2>4 DEF Sane
  <2>6. CASE ~t.res.ok
    <3>1. Made(d, r, i, "normal") /\ r.ok \in BOOLEAN /\ ~r.ok
      BY <2>1, <2>4, <2>6, MadeIs DEF Sane
    <3> QED BY <2>1, <2>4, <2>6, <3>1
  <2>7. CASE t.res.ok
    <3>1. t.res # Thrown(d)
      BY <2>7, ThrownIs
    <3>2. PICK dir \in Inode, name \in Names \cup Special :
            Leads(d, dir) /\ Grew(d, b, TRUE, i, dir, name, "normal")
      BY <2>4, <2>7, <3>1
    <3>3. i \in Inode \ b.damaged /\ b.node[i].type = "normal" /\ b.damaged = d.damaged
      BY <3>2, NewFileIs
    <3>4. r = Store(b, i, n)
      BY <2>1, <2>7
    <3> HIDE DEF n
    <3>5. /\ Sane(r)
          /\ \A j \in Inode : /\ r.disk.node[j].entries = b.node[j].entries
                              /\ r.disk.node[j].type = b.node[j].type
          /\ \A j \in Inode : j # i => r.disk.node[j] = b.node[j]
          /\ r.disk.damaged \subseteq b.damaged \cup {i}
          /\ r.ok => r.disk.damaged = b.damaged /\ r.disk.node[i] = n
          /\ ~r.ok => r.disk.free = 0
      BY <2>3, <2>5, <3>3, <3>4, FilledIs, SMTT(30)
    <3>6. Walk(b, from, FALSE) = source
      BY <1>2, <2>5, <3>2, GrewWalk
    <3>7. Follows(r.disk, FALSE, b, FALSE)
      <4> SUFFICES ASSUME NEW s, OnTree(b, s), NEW seg \in Segments
                   PROVE  Enter(r.disk, s, seg, FALSE) = Enter(b, s, seg, FALSE)
        BY DEF Follows
      <4>1. Last(s) \in Inode
        BY <2>5, OnTreeIs
      <4>2. Matches(r.disk, Last(s), seg) = Matches(b, Last(s), seg)
        BY <3>5, <4>1 DEF Matches
      <4> QED BY <4>2 DEF Enter
    <3>8. Walk(r.disk, from, FALSE) = source
      <4> DEFINE q == r.disk
      <4>1. source # <<>> /\ Walk(b, from, FALSE) = source /\ Follows(q, FALSE, b, FALSE)
            /\ FALSE \in BOOLEAN
        BY <1>2, <3>6, <3>7
      <4> HIDE DEF b, source, q
      <4>2. Walk(q, from, FALSE) = source
        BY <2>5, <4>1, SameWalk
      <4> QED BY <4>2 DEF q
    <3>9. ~IsDir(r.disk, last)
      <4>1. last # i
        BY <2>2, <3>2 DEF Grew, Unused
      <4>2. b.node[last].type = "normal"
        BY <2>2, <3>2, <4>1 DEF Grew, IsDir
      <4> QED BY <2>2, <3>5, <4>2 DEF IsDir
    <3>10. r.ok => Copy(d, r.disk, from)
      BY <1>2, <3>3, <3>5, <3>8, <3>9 DEF Copy
    <3>11. Made(d, r, i, "normal")
      <4> DEFINE x == r.disk
      <4> HIDE DEF x, i, b
      <4>1. Leaf(d, x, i, "normal")
        BY <2>5, <3>2, <3>5, LeafIs DEF x
      <4> QED BY <3>5, <4>1 DEF Made, x
    <3>12. r.ok => i \in Inode \ r.disk.damaged /\ r.disk.node[i].data = d.node[last].data
      BY <2>3, <3>3, <3>5
    <3> QED BY <3>5, <3>10, <3>11, <3>12
  <2> QED BY <2>5, <2>6, <2>7
<1> QED BY <1>1, <1>2

(* A file has got a second entry, with the same contents, and lost its     *)
(* first.                                                                  *)
Renamed(d, e, s) ==
  \E b, i : /\ Healthy(b) /\ OnTree(d, s) /\ d.node[Last(s)].type = "normal"
            /\ Leaf(d, b, i, "normal") /\ i \in Inode \ b.damaged
            /\ b.node[i].data = d.node[Last(s)].data
            /\ Dropped(b, e, s)

LEMMA MovedIs ==
  ASSUME NEW d, Healthy(d), AtHome(d), Balanced(d), Counted(d), NEW from \in Path, NEW to \in Path,
         Walk(d, ParentPath(to), FALSE) # <<>>
           => Last(Walk(d, ParentPath(to), FALSE)) \notin d.damaged,
         Range(Walk(d, from, FALSE)) \cap d.damaged = {},
         NEW r \in Moved(d, from, to), ~Astray(r.disk)
  PROVE  /\ Sane(r)
         /\ \/ ~r.ok /\ \E i : Made(d, r, i, "normal")
            \/ r.ok /\ Renamed(d, r.disk, Walk(d, from, FALSE))
<1>1. PICK c \in Copied(d, from, to) : r = IF c.ok THEN Removed(c.disk, from, FALSE) ELSE c
  BY DEF Moved
<1>2. /\ Sane(c) /\ (c.ok => Copy(d, c.disk, from))
      /\ \E i : /\ Made(d, c, i, "normal")
                /\ c.ok => /\ i \in Inode \ c.disk.damaged
                           /\ c.disk.node[i].data = d.node[Last(Walk(d, from, FALSE))].data
  <2>1. ~Astray(c.disk)
    BY <1>1, AstrayRemoved
  <2> QED BY <2>1, CopiedIs
<1>3. CASE ~c.ok
  BY <1>1, <1>2, <1>3
<1>4. CASE c.ok
  <2> DEFINE stack == Walk(d, from, FALSE)
  <2>1. /\ stack = Walk(c.disk, from, FALSE) /\ Range(stack) \cap c.disk.damaged = {}
        /\ ~IsDir(c.disk, Last(stack)) /\ r = Removed(c.disk, from, FALSE)
    BY <1>1, <1>2, <1>4 DEF Copy
  <2>2. Healthy(c.disk) /\ AtHome(c.disk) /\ Balanced(c.disk) /\ Counted(c.disk) /\ FALSE \in BOOLEAN
    BY <1>2 DEF Sane
  <2>3. OnTree(d, stack) /\ d.node[Last(stack)].type = "normal" /\ FALSE \in BOOLEAN
    BY <1>2, <1>4, WalkOnTree DEF Copy
  <2>4. Len(stack) > 1
    <3>1. stack[1] = Root /\ stack[Len(stack)] = Last(stack) /\ Len(stack) \in Nat /\ Len(stack) > 0
      BY <2>3, EndOf DEF OnTree
    <3>2. Last(stack) # Root
      BY <2>3 DEF Healthy
    <3> HIDE DEF stack
    <3> QED BY <3>1, <3>2
  <2>5. PICK i : /\ Made(d, c, i, "normal") /\ i \in Inode \ c.disk.damaged
                 /\ c.disk.node[i].data = d.node[Last(stack)].data
    BY <1>2, <1>4
  <2> DEFINE b == c.disk
  <2>6. Leaf(d, b, i, "normal")
    BY <1>4, <2>5 DEF Made
  <2> HIDE DEF stack, b
  <2>7. Sane(r) /\ r.ok /\ Dropped(b, r.disk, stack)
    <3>1. /\ stack = Walk(b, from, FALSE) /\ Range(stack) \cap b.damaged = {}
          /\ ~IsDir(b, Last(stack)) /\ r = Removed(b, from, FALSE)
          /\ Healthy(b) /\ AtHome(b) /\ Balanced(b) /\ Counted(b)
      BY <2>1, <2>2 DEF b
    <3> QED BY <2>3, <2>4, <3>1, RemovedIs
  <2>8. Renamed(d, r.disk, stack)
    BY <2>2, <2>3, <2>5, <2>6, <2>7 DEF Renamed, b
  <2> QED BY <2>7, <2>8 DEF stack
<1> QED BY <1>2, <1>3, <1>4 DEF Sane
-----------------------------------------------------------------------------
(* The inductive invariant.                                                *)

Seated == cwd \in Seq(Inode) /\ cwd # <<>> /\ rc \in {0, -1}
Tidy ==
  Healthy(disk) /\ AtHome(disk) /\ Balanced(disk) /\ Counted(disk) /\ rc \in {0, -1}

LEMMA FormattedIs ==
  ASSUME NEW d \in FormattedDisks
  PROVE  /\ Healthy(d) /\ OnTree(d, << Root >>) /\ IsDir(d, Root) /\ Balanced(d)
         /\ Counted(d) /\ d.damaged = {}
<1>1. PICK dev \in Inode, tty \in Inode :
        dev # Root /\ tty # Root /\ dev # tty /\ d = Formatted(dev, tty)
  BY DEF FormattedDisks
<1> DEFINE toDev == [name |-> "dev", inode |-> dev]
           toTty == [name |-> "tty1", inode |-> tty]
           F(i) == CASE i = Root -> WithEntries(Blank("dir"), <<toDev>>)
                     [] i = dev -> WithEntries(Blank("dir"), <<toTty>>)
                     [] i = tty -> Blank("char")
                     [] OTHER -> Blank("none")
           m == [i \in Inode |-> F(i)]
<1>2. d = [node |-> m, free |-> Blocks - 2, damaged |-> {}, reissued |-> {}]
  BY <1>1 DEF Formatted, WithEntries
<1>3. Root \in Inode /\ Blocks - 2 \in Nat
  BY InodeAssumption, BlockAssumption
<1>4. d.node = m /\ d.free = Blocks - 2 /\ d.damaged = {}
  BY <1>2
<1>5. toDev \in Entry /\ toTty \in Entry
  BY <1>1, NamesAssumption DEF Entry
<1>6. /\ <<toDev>> \in Seq(Entry) /\ DOMAIN <<toDev>> = {1} /\ <<toDev>>[1].inode = dev
      /\ Len(<<toDev>>) = 1
      /\ <<toTty>> \in Seq(Entry) /\ DOMAIN <<toTty>> = {1} /\ <<toTty>>[1].inode = tty
      /\ Len(<<toTty>>) = 1
  <2>1. toDev.inode = dev /\ toTty.inode = tty
    OBVIOUS
  <2> HIDE DEF toDev, toTty
  <2> QED BY <1>5, <2>1
<1> HIDE DEF toDev, toTty
<1> DEFINE s == <<toDev>>
           t == <<toTty>>
<1>7. /\ s \in Seq(Entry) /\ DOMAIN s = {1} /\ s[1].inode = dev /\ Len(s) = 1
      /\ t \in Seq(Entry) /\ DOMAIN t = {1} /\ t[1].inode = tty /\ Len(t) = 1
  BY <1>6
<1>8. /\ m[Root] = WithEntries(Blank("dir"), s) /\ m[dev] = WithEntries(Blank("dir"), t)
      /\ m[tty] = Blank("char") /\ \A i \in Inode \ {Root, dev, tty} : m[i] = Blank("none")
  BY <1>1, <1>3
<1> HIDE DEF m, s, t
<1>9. /\ m[Root] \in Node /\ m[Root].type = "dir" /\ m[Root].entries = s
      /\ m[dev] \in Node /\ m[dev].type = "dir" /\ m[dev].entries = t
      /\ m[tty] \in Node /\ m[tty].type = "char" /\ m[tty].entries = <<>>
      /\ Size(m[tty]) = 0 /\ Blank("none").entries = <<>> /\ Size(Blank("none")) = 0
      /\ Blank("none").type = "none" /\ Blank("none") \in Node
  <2>1. /\ Blank("dir") \in Node /\ Blank("dir").type = "dir" /\ Blank("char") \in Node
        /\ Blank("char").type = "char" /\ Blank("char").entries = <<>> /\ Size(Blank("char")) = 0
        /\ Blank("none").entries = <<>> /\ Size(Blank("none")) = 0
        /\ Blank("none").type = "none" /\ Blank("none") \in Node
    BY BlankIs
  <2> QED BY <1>7, <1>8, <2>1, WithEntriesIs
<1>10. ASSUME NEW i \in Inode
       PROVE  \/ i = Root \/ i = dev \/ (i = tty /\ m[i].entries = <<>>)
              \/ (m[i] = Blank("none") /\ i # tty /\ m[i].entries = <<>>)
  BY <1>8, <1>9
<1>11. Typed(d)
  <2>1. \A i \in Inode : m[i] \in Node
    BY <1>8, <1>9
  <2>2. m \in [Inode -> Node]
    BY <2>1 DEF m
  <2> QED BY <1>2, <1>3, <2>2 DEF Typed
<1>12. ASSUME NEW i \in Inode, NEW k \in DOMAIN m[i].entries
       PROVE  k = 1 /\ ((i = Root /\ m[i].entries[k].inode = dev)
                        \/ (i = dev /\ m[i].entries[k].inode = tty))
  <2>1. DOMAIN <<>> = {}
    OBVIOUS
  <2>2. i = Root \/ i = dev
    BY <1>10, <2>1
  <2> QED BY <1>7, <1>9, <2>2
<1>13. Plain(d)
  <2>1. \A i \in Inode : d.node[i].type # "dir" => d.node[i].entries = <<>>
    BY <1>4, <1>9, <1>10
  <2>2. \A i \in Unused(d) : d.node[i] = Blank("none") /\ i \notin d.damaged
    BY <1>1, <1>4, <1>9, <1>10 DEF Unused
  <2> QED BY <2>1, <2>2 DEF Plain
<1>14. Named(d) /\ Once(d) /\ Distinct(d)
  <2>1. Named(d)
    BY <1>1, <1>4, <1>9, <1>12 DEF Named
  <2>2. Once(d)
    BY <1>1, <1>4, <1>12 DEF Once
  <2>3. Distinct(d)
    BY <1>4, <1>12 DEF Distinct
  <2> QED BY <2>1, <2>2, <2>3
<1>15. Healthy(d)
  BY <1>4, <1>9, <1>11, <1>13, <1>14 DEF Healthy
<1>16. OnTree(d, << Root >>) /\ IsDir(d, Root)
  BY <1>3, <1>4, <1>9 DEF OnTree, IsDir
<1>17. Balanced(d)
  <2> DEFINE H == Holding(d)
             A == Inode \ {Root}
             B == A \ {dev}
  <2>1. /\ IsFiniteSet(Inode) /\ IsFiniteSet(A) /\ IsFiniteSet(B)
        /\ \A i \in Inode : H[i] = Size(m[i]) /\ H[i] \in Nat
    BY <1>4, <1>11, InodeAssumption, FS_Subset, HoldingIs
  <2>2. H[Root] = 1 /\ H[dev] = 1
    <3>1. (1 + PerBlock - 1) \div PerBlock = 1
      BY BlockAssumption
    <3>2. Size(m[Root]) = (Len(s) + PerBlock - 1) \div PerBlock
      BY <1>9 DEF Size
    <3>3. Size(m[dev]) = (Len(t) + PerBlock - 1) \div PerBlock
      BY <1>9 DEF Size
    <3>4. Size(m[Root]) = 1 /\ Size(m[dev]) = 1
      BY <1>7, <3>1, <3>2, <3>3
    <3> QED BY <1>1, <1>3, <2>1, <3>4
  <2>3. \A i \in B : H[i] = 0
    BY <1>9, <1>10, <2>1
  <2>4. Total(H, Inode) = H[Root] + Total(H, A)
    BY <1>3, <2>1, TotalPick
  <2>5. Total(H, A) = H[dev] + Total(H, B)
    BY <1>1, <2>1, TotalPick
  <2>6. Total(H, B) = 0
    BY <2>1, <2>3, TotalZero
  <2>7. Inode \ d.damaged = Inode
    BY <1>4
  <2>8. Used(d) = 2
    BY <2>2, <2>4, <2>5, <2>6, <2>7 DEF Used
  <2> QED BY <1>3, <1>4, <2>8, BlockAssumption DEF Balanced
<1>18. Counted(d)
  <2>1. dev \in Children(d, Root) /\ tty \in Children(d, dev)
    BY <1>1, <1>3, <1>4, <1>7, <1>9, <1>11, ChildIs
  <2>2. Last(<< Root >>) = Root /\ Last(<< Root, dev >>) = dev /\ Last(<< Root, dev, tty >>) = tty
    BY DEF Last
  <2>3. Leads(d, Root)
    <3> DEFINE u == << Root >>
    <3>1. u \in Seq(Inode) /\ OnTree(d, u) /\ Last(u) = Root
      BY <1>3, <1>16, <2>2
    <3> QED BY <3>1 DEF Leads
  <2>4. Leads(d, dev)
    <3> DEFINE u == << Root, dev >>
    <3>1. u \in Seq(Inode) /\ Len(u) = 2 /\ u[1] = Root /\ u[2] = dev /\ Last(u) = dev
      BY <1>1, <1>3, <2>2
    <3> HIDE DEF u
    <3>2. \A k \in 1 .. Len(u) - 1 : u[k + 1] \in Children(d, u[k])
      <4>1. \A k \in 1 .. Len(u) - 1 : k = 1
        BY <3>1
      <4> QED BY <2>1, <3>1, <4>1
    <3> QED BY <3>1, <3>2 DEF Leads, OnTree
  <2>5. Leads(d, tty)
    <3> DEFINE u == << Root, dev, tty >>
    <3>1. /\ u \in Seq(Inode) /\ Len(u) = 3 /\ u[1] = Root /\ u[2] = dev /\ u[3] = tty
          /\ Last(u) = tty
      BY <1>1, <1>3, <2>2
    <3> HIDE DEF u
    <3>2. \A k \in 1 .. Len(u) - 1 : u[k + 1] \in Children(d, u[k])
      <4>1. \A k \in 1 .. Len(u) - 1 : k = 1 \/ k = 2
        BY <3>1
      <4> QED BY <2>1, <3>1, <4>1
    <3> QED BY <3>1, <3>2 DEF Leads, OnTree
  <2>6. Lost(d) = {}
    <3>1. ASSUME NEW x \in Lost(d) PROVE FALSE
      <4>1. x \in Inode /\ m[x].type # "none" /\ ~Leads(d, x)
        BY <1>4 DEF Lost
      <4> QED BY <1>9, <1>10, <2>3, <2>4, <2>5, <4>1
    <3> QED BY <3>1
  <2>7. Cardinality(Lost(d)) = 0 /\ Cardinality(Hurt(d)) \in Nat
    BY <1>11, <2>6, FS_EmptySet, LostFinite
  <2> QED BY <2>7 DEF Counted
<1> QED BY <1>4, <1>15, <1>16, <1>17, <1>18

(* What a command leaves, and what can have happened to the disk.          *)
Leaves(r) == disk' = r.disk /\ rc' = IF r.ok THEN 0 ELSE -1

NewStub == rc' = -1 /\ disk'.free = 0 /\ Stub(disk, disk')
NewLeaf ==
  /\ \E i : \E type \in {"dir", "normal"} : Leaf(disk, disk', i, type)
  /\ rc' = -1 => disk'.free = 0 \/ \E p \in Paths, x \in TooLarge : Upload(p, x)
LeafDropped ==
  \E s : /\ rc' = 0 /\ Dropped(disk, disk', s)
         /\ IsDir(disk, Last(s)) \/ \E p \in Paths : Rm(p)
TreePruned ==
  \E p \in Paths : \E r, s : Rm(p) /\ Leaves(r) /\ r.ok \in BOOLEAN /\ Pruned(disk, r, s, p)
FileRenamed == rc' = 0 /\ \E s : Renamed(disk, disk', s)
Effect ==
  disk' = disk \/ NewStub \/ NewLeaf \/ LeafDropped \/ TreePruned \/ FileRenamed \/ Format

LEMMA LeavesIs ==
  ASSUME NEW r, Sane(r), Leaves(r), UNCHANGED cwd
  PROVE  Tidy'
<1>1. Healthy(r.disk) /\ AtHome(r.disk) /\ Balanced(r.disk) /\ Counted(r.disk)
  BY DEF Sane
<1>2. Healthy(disk') /\ Balanced(disk') /\ Counted(disk')
  BY <1>1 DEF Leaves
<1>3. AtHome(disk)'
  BY <1>1 DEF AtHome, Leaves
<1>4. rc' \in {0, -1}
  BY DEF Leaves
<1> QED BY <1>2, <1>3, <1>4 DEF Tidy

LEMMA MadeEffect ==
  ASSUME NEW r, Sane(r), Leaves(r), NEW i, NEW type \in {"dir", "normal"}, Made(disk, r, i, type)
  PROVE  Effect
<1>1. r.ok \in BOOLEAN
  BY DEF Sane
<1>2. CASE r.ok
  <2>1. Leaf(disk, disk', i, type) /\ rc' = 0
    BY <1>2 DEF Made, Leaves
  <2> QED BY <2>1 DEF Effect, NewLeaf
<1>3. CASE ~r.ok /\ r.disk = disk
  BY <1>3 DEF Effect, Leaves
<1>4. CASE ~r.ok /\ r.disk # disk
  <2>1. disk'.free = 0 /\ rc' = -1 /\ (Stub(disk, disk') \/ Leaf(disk, disk', i, type))
    BY <1>4 DEF Made, Leaves
  <2> QED BY <2>1 DEF Effect, NewLeaf, NewStub
<1> QED BY <1>1, <1>2, <1>3, <1>4

(* The inodes that a path is looked up in.                                 *)
LEMMA LookedIs ==
  ASSUME NEW path \in Path, Sound(Looked(path)), Walk(disk, path, FALSE) # <<>>
  PROVE  Last(Walk(disk, path, FALSE)) \notin disk.damaged
<1> DEFINE g == Trace(disk, path, FALSE)
           n == Len(path.segs)
<1>0. n \in Nat /\ DOMAIN g = 0 .. n
  BY TraceSteps
<1> HIDE DEF g, n
<1>1. n \in DOMAIN g
  BY <1>0
<1>2. Walk(disk, path, FALSE) \in Range(Trace(disk, path, FALSE))
  BY <1>1 DEF Walk, Range, g, n
<1>3. Last(Walk(disk, path, FALSE)) \in Looked(path)
  BY <1>2 DEF Looked
<1> QED BY <1>3 DEF Sound

LEMMA FormatTidies == Format => Tidy'
<1> SUFFICES ASSUME Format PROVE Tidy'
  OBVIOUS
<1>1. disk' \in FormattedDisks /\ cwd' = << Root >> /\ rc' = 0
  BY DEF Format
<1>2. PICK d \in FormattedDisks : disk' = d
  BY <1>1
<1>3. Healthy(d) /\ OnTree(d, << Root >>) /\ IsDir(d, Root) /\ Balanced(d) /\ Counted(d)
  BY FormattedIs
<1>4. Last(<< Root >>) = Root
  BY DEF Last
<1> QED BY <1>1, <1>2, <1>3, <1>4 DEF Tidy, AtHome

LEMMA StepIs == Tidy /\ [Next]_vars /\ ~Astray(disk') => Tidy' /\ Effect
<1> SUFFICES ASSUME Tidy, [Next]_vars, ~Astray(disk') PROVE Tidy' /\ Effect
  OBVIOUS
<1>1. Healthy(disk) /\ AtHome(disk) /\ Balanced(disk) /\ Counted(disk)
  BY DEF Tidy
<1>2. Paths \subseteq Path
  BY PathAssumption DEF Path
<1>3. ASSUME NEW p \in Paths, NEW type \in {"dir", "normal"}, MakeFile(p, type)
      PROVE  Tidy' /\ Effect
  <2>1. p \in Path /\ ParentPath(p) \in Path
    BY <1>2, ParentPathIs
  <2>2. Walk(disk, ParentPath(p), FALSE) # <<>>
          => Last(Walk(disk, ParentPath(p), FALSE)) \notin disk.damaged
    BY <1>3, <2>1, LookedIs DEF MakeFile
  <2>3. PICK t \in Touched(disk, p, type) : Leaves(t.res) /\ UNCHANGED cwd
    BY <1>3 DEF MakeFile, Command, Leaves
  <2>4. /\ Sane(t.res)
        /\ \/ t.res = Thrown(disk)
           \/ \E dir \in Inode, name \in Names \cup Special :
                Leads(disk, dir) /\ Grew(disk, t.res.disk, t.res.ok, t.inode, dir, name, type)
    <3>1. ~Astray(t.res.disk)
      BY <2>3 DEF Leaves
    <3> QED BY <1>1, <2>1, <2>2, <3>1, TouchedIs
  <2>5. Made(disk, t.res, t.inode, type)
    BY <1>1, <2>1, <2>4, MadeIs
  <2> QED BY <2>3, <2>4, <2>5, LeavesIs, MadeEffect
<1>4. ASSUME NEW p \in Paths, Mkdir(p) PROVE Tidy' /\ Effect
  BY <1>3, <1>4 DEF Mkdir
<1>5. ASSUME NEW p \in Paths, Touch(p) PROVE Tidy' /\ Effect
  BY <1>3, <1>5 DEF Touch
<1>6. ASSUME NEW p \in Paths, Rmdir(p) PROVE Tidy' /\ Effect
  <2> DEFINE r == Removed(disk, p, TRUE)
             stack == Walk(disk, p, TRUE)
  <2>1. Range(stack) \cap disk.damaged = {} /\ TRUE \in BOOLEAN /\ UNCHANGED cwd /\ Leaves(r)
    BY <1>6 DEF Rmdir, Sound, Command, Leaves
  <2>2. Sane(r) /\ (r = Thrown(disk) \/ (r.ok /\ Dropped(disk, r.disk, stack)))
    <3> HIDE DEF r
    <3>1. r = Removed(disk, p, TRUE)
      BY DEF r
    <3> QED BY <1>1, <1>2, <2>1, <3>1, RemovedIs
  <2>3. stack # <<>> => IsDir(disk, Last(stack))
    BY <1>1, <1>2, <2>1, WalkOnTree
  <2> HIDE DEF r, stack
  <2>4. CASE r = Thrown(disk)
    <3>1. disk' = disk
      BY <2>1, <2>4, ResultIs DEF Leaves
    <3> QED BY <2>1, <2>2, <3>1, LeavesIs DEF Effect
  <2>5. CASE r.ok /\ Dropped(disk, r.disk, stack)
    <3>1. stack # <<>>
      BY <1>1, <2>5, OnTreeIs DEF Dropped
    <3>2. LeafDropped
      BY <2>1, <2>3, <2>5, <3>1 DEF LeafDropped, Leaves
    <3> QED BY <2>1, <2>2, <3>2, LeavesIs DEF Effect
  <2> QED BY <2>2, <2>4, <2>5
<1>7. ASSUME NEW p \in Paths, Rm(p) PROVE Tidy' /\ Effect
  <2> DEFINE stack == Walk(disk, p, FALSE)
             r == CASE stack = <<>> -> Thrown(disk)
                    [] stack # <<>> /\ IsDir(disk, Last(stack)) -> RmTree(stack, p)
                    [] OTHER -> Removed(disk, p, FALSE)
  <2>1. /\ Range(stack) \cap disk.damaged = {}
        /\ stack # <<>> => Below(disk, Last(stack)) \cap disk.damaged = {}
        /\ Leaves(r) /\ UNCHANGED cwd
    BY <1>7 DEF Rm, Sound, Command, Leaves
  <2>2. p \in Path
    BY <1>2
  <2>3. ASSUME r = Thrown(disk) PROVE Tidy' /\ Effect
    <3> HIDE DEF r
    <3>1. disk' = disk /\ Sane(r)
      BY <1>1, <2>1, <2>3, ThrownIs DEF Leaves
    <3> QED BY <2>1, <3>1, LeavesIs DEF Effect
  <2>4. CASE stack = <<>>
    BY <2>3, <2>4
  <2>5. CASE stack # <<>> /\ IsDir(disk, Last(stack))
    <3>1. r = RmTree(stack, p)
      BY <2>5
    <3> HIDE DEF r
    <3>2. Sane(r) /\ (r = Thrown(disk) \/ Pruned(disk, r, stack, p))
      BY <1>1, <2>1, <2>2, <2>5, <3>1, RmTreeIs
    <3> HIDE DEF stack
    <3>3. ASSUME Pruned(disk, r, stack, p) PROVE Tidy' /\ Effect
      <4>1. TreePruned
        BY <1>7, <2>1, <3>2, <3>3 DEF TreePruned, Sane
      <4> QED BY <2>1, <3>2, <4>1, LeavesIs DEF Effect
    <3> QED BY <2>3, <3>2, <3>3
  <2>6. CASE stack # <<>> /\ ~IsDir(disk, Last(stack))
    <3>1. r = Removed(disk, p, FALSE) /\ FALSE \in BOOLEAN
      BY <2>6
    <3> HIDE DEF r
    <3>2. Sane(r) /\ (r = Thrown(disk) \/ (r.ok /\ Dropped(disk, r.disk, stack)))
      BY <1>1, <2>1, <2>2, <2>6, <3>1, RemovedIs
    <3> HIDE DEF stack
    <3>3. ASSUME r.ok, Dropped(disk, r.disk, stack) PROVE Tidy' /\ Effect
      <4>1. LeafDropped
        BY <1>7, <2>1, <3>3 DEF LeafDropped, Leaves
      <4> QED BY <2>1, <3>2, <4>1, LeavesIs DEF Effect
    <3> QED BY <2>3, <3>2, <3>3
  <2> QED BY <2>4, <2>5, <2>6
<1>8. ASSUME NEW p \in Paths, Cd(p) PROVE Tidy' /\ Effect
  <2> DEFINE stack == Walk(disk, p, TRUE)
  <2>1. disk' = disk /\ rc' \in {0, -1} /\ cwd' = IF stack = <<>> THEN cwd ELSE stack
    BY <1>8 DEF Cd
  <2>2. p \in Path /\ TRUE \in BOOLEAN
    BY <1>2
  <2>3. stack # <<>> => OnTree(disk, stack) /\ IsDir(disk, Last(stack))
    BY <1>1, <2>2, WalkOnTree
  <2> HIDE DEF stack
  <2>4. AtHome(disk)'
    BY <1>1, <2>1, <2>3 DEF AtHome
  <2> QED BY <1>1, <2>1, <2>4 DEF Tidy, Effect
<1>9. ASSUME NEW p \in Paths, NEW q \in Paths, Cp(p, q) PROVE Tidy' /\ Effect
  <2>1. p \in Path /\ q \in Path /\ ParentPath(q) \in Path
    BY <1>2, ParentPathIs
  <2>2. Sound(Looked(ParentPath(q)))
    BY <1>9 DEF Cp, Sound
  <2>3. Walk(disk, ParentPath(q), FALSE) # <<>>
          => Last(Walk(disk, ParentPath(q), FALSE)) \notin disk.damaged
    BY <2>1, <2>2, LookedIs
  <2>4. PICK r \in Copied(disk, p, q) : Leaves(r) /\ UNCHANGED cwd
    BY <1>9 DEF Cp, Command, Leaves
  <2>5. Sane(r) /\ \E i : Made(disk, r, i, "normal")
    <3>1. ~Astray(r.disk)
      BY <2>4 DEF Leaves
    <3> QED BY <1>1, <2>1, <2>3, <3>1, CopiedIs
  <2> QED BY <2>4, <2>5, LeavesIs, MadeEffect
<1>10. ASSUME NEW p \in Paths, NEW q \in Paths, Mv(p, q) PROVE Tidy' /\ Effect
  <2>1. p \in Path /\ q \in Path /\ ParentPath(q) \in Path
    BY <1>2, ParentPathIs
  <2>2. Sound(Looked(ParentPath(q))) /\ Range(Walk(disk, p, FALSE)) \cap disk.damaged = {}
    BY <1>10 DEF Mv, Sound
  <2>3. Walk(disk, ParentPath(q), FALSE) # <<>>
          => Last(Walk(disk, ParentPath(q), FALSE)) \notin disk.damaged
    BY <2>1, <2>2, LookedIs
  <2>4. PICK r \in Moved(disk, p, q) : Leaves(r) /\ UNCHANGED cwd
    BY <1>10 DEF Mv, Command, Leaves
  <2>5. /\ Sane(r)
        /\ \/ ~r.ok /\ \E i : Made(disk, r, i, "normal")
           \/ r.ok /\ Renamed(disk, r.disk, Walk(disk, p, FALSE))
    <3>1. ~Astray(r.disk)
      BY <2>4 DEF Leaves
    <3> QED BY <1>1, <2>1, <2>2, <2>3, <2>4, <3>1, MovedIs
  <2>6. CASE \E i : Made(disk, r, i, "normal")
    BY <2>4, <2>5, <2>6, LeavesIs, MadeEffect
  <2>7. CASE r.ok /\ Renamed(disk, r.disk, Walk(disk, p, FALSE))
    <3>1. FileRenamed
      BY <2>4, <2>7 DEF FileRenamed, Leaves
    <3> QED BY <2>4, <2>5, <3>1, LeavesIs DEF Effect
  <2> QED BY <2>5, <2>6, <2>7
<1>11. ASSUME NEW p \in Paths, NEW data \in Data, Upload(p, data) PROVE Tidy' /\ Effect
  <2>1. p \in Path /\ ParentPath(p) \in Path
    BY <1>2, ParentPathIs
  <2>2. Walk(disk, ParentPath(p), FALSE) # <<>>
          => Last(Walk(disk, ParentPath(p), FALSE)) \notin disk.damaged
    BY <1>11, <2>1, LookedIs DEF Upload
  <2>3. PICK t \in Touched(disk, p, "normal") : Leaves(Uploaded(t, data)) /\ UNCHANGED cwd
    BY <1>11 DEF Upload, Command, Leaves
  <2> DEFINE r == Uploaded(t, data)
  <2>4. /\ Sane(r)
        /\ \/ Made(disk, r, t.inode, "normal")
           \/ data \in TooLarge /\ Leaf(disk, r.disk, t.inode, "normal")
    <3>1. ~Astray(r.disk)
      BY <2>3 DEF Leaves
    <3> HIDE DEF r
    <3>2. r = Uploaded(t, data)
      BY DEF r
    <3> QED BY <1>1, <2>1, <2>2, <3>1, <3>2, UploadedIs
  <2>5. Leaves(r) /\ UNCHANGED cwd
    BY <2>3
  <2> HIDE DEF r
  <2>6. CASE Made(disk, r, t.inode, "normal")
    BY <2>4, <2>5, <2>6, LeavesIs, MadeEffect
  <2>7. CASE data \in TooLarge /\ Leaf(disk, r.disk, t.inode, "normal")
    <3>1. NewLeaf
      BY <1>11, <2>5, <2>7 DEF NewLeaf, Leaves
    <3> QED BY <2>4, <2>5, <3>1, LeavesIs DEF Effect
  <2> QED BY <2>4, <2>6, <2>7
<1>12. ASSUME Format PROVE Tidy' /\ Effect
  BY <1>12, FormatTidies DEF Effect
<1>13. CASE UNCHANGED vars
  BY <1>13 DEF vars, Tidy, AtHome, Effect
<1> QED BY <1>4, <1>5, <1>6, <1>7, <1>8, <1>9, <1>10, <1>11, <1>12, <1>13 DEF Next

LEMMA TidyInit == Init => Tidy
<1> SUFFICES ASSUME Init PROVE Tidy
  OBVIOUS
<1>1. disk \in FormattedDisks /\ cwd = << Root >> /\ rc = 0
  BY DEF Init
<1>2. Healthy(disk) /\ OnTree(disk, << Root >>) /\ IsDir(disk, Root) /\ Balanced(disk)
      /\ Counted(disk)
  BY <1>1, FormattedIs
<1>3. Last(<< Root >>) = Root
  BY DEF Last
<1> QED BY <1>1, <1>2, <1>3 DEF Tidy, AtHome

(* Once the root was handed out, the disk can only be formatted.           *)
LEMMA AstrayEnds ==
  ASSUME Astray(disk), [Next]_vars
  PROVE  UNCHANGED vars \/ Format
<1>1. \A x : ~Sound(x)
  BY DEF Sound, Astray
<1>2. ASSUME NEW p \in Paths
      PROVE  ~Mkdir(p) /\ ~Touch(p) /\ ~Rmdir(p) /\ ~Rm(p) /\ ~Cd(p)
  BY <1>1 DEF Mkdir, Touch, MakeFile, Rmdir, Rm, Cd
<1>3. ASSUME NEW p \in Paths, NEW q \in Paths
      PROVE  ~Cp(p, q) /\ ~Mv(p, q)
  BY <1>1 DEF Cp, Mv
<1>4. ASSUME NEW p \in Paths, NEW data \in Data
      PROVE  ~Upload(p, data)
  BY <1>1 DEF Upload
<1> QED BY <1>2, <1>3, <1>4 DEF Next

(* A step to a disk whose root was handed out is none of cd's or format's. *)
LEMMA SeatKept ==
  ASSUME Tidy, [Next]_vars, Astray(disk')
  PROVE  Seated'
<1>1. Healthy(disk) /\ cwd \in Seq(Inode) /\ cwd # <<>> /\ rc \in {0, -1}
  BY DEF Tidy, AtHome, OnTree
<1>2. disk' # disk
  BY <1>1 DEF Astray, Healthy, Typed
<1>3. ~Format
  BY FormatTidies DEF Tidy, Astray, Healthy, Typed
<1>4. ASSUME NEW o, Command(o), UNCHANGED cwd PROVE Seated'
  BY <1>1, <1>4 DEF Command, Seated
<1>5. ASSUME NEW p \in Paths, Mkdir(p) \/ Touch(p) \/ Rmdir(p) \/ Rm(p) PROVE Seated'
  BY <1>4, <1>5 DEF Mkdir, Touch, MakeFile, Rmdir, Rm
<1>6. ASSUME NEW p \in Paths PROVE ~Cd(p)
  BY <1>2 DEF Cd
<1>7. ASSUME NEW p \in Paths, NEW q \in Paths, Cp(p, q) \/ Mv(p, q) PROVE Seated'
  BY <1>4, <1>7 DEF Cp, Mv
<1>8. ASSUME NEW p \in Paths, NEW data \in Data, Upload(p, data) PROVE Seated'
  BY <1>4, <1>8 DEF Upload
<1> QED BY <1>2, <1>3, <1>5, <1>6, <1>7, <1>8 DEF Next, vars

Sure == Tidy \/ (Astray(disk) /\ Seated)

LEMMA SureIs == Sure /\ disk.reissued = {} => Tidy
BY DEF Sure, Astray

LEMMA SureAlways == Spec => []Sure
<1>1. Sure /\ [Next]_vars => Sure'
  <2> SUFFICES ASSUME Sure, [Next]_vars PROVE Sure'
    OBVIOUS
  <2>1. CASE Tidy /\ ~Astray(disk')
    BY <2>1, StepIs DEF Sure
  <2>2. CASE Tidy /\ Astray(disk')
    BY <2>2, SeatKept DEF Sure
  <2>3. CASE Astray(disk) /\ Seated
    <3>1. CASE UNCHANGED vars
      BY <2>3, <3>1 DEF Sure, Seated, vars
    <3>2. CASE Format
      BY <3>2, FormatTidies DEF Sure
    <3> QED BY <2>3, <3>1, <3>2, AstrayEnds
  <2> QED BY <2>1, <2>2, <2>3 DEF Sure
<1> QED BY <1>1, TidyInit, PTL DEF Spec, Sure

(* What a disk is made of, and that there are never more free blocks than  *)
(* the data zone has, whatever the commands and however they fail.         *)
THEOREM TypeCorrect == Spec => []TypeOK
<1>1. Tidy => TypeOK
  <2> SUFFICES ASSUME Tidy PROVE TypeOK
    OBVIOUS
  <2>1. Typed(disk) /\ Balanced(disk) /\ OnTree(disk, cwd) /\ rc \in {0, -1}
    BY DEF Tidy, Healthy, AtHome
  <2>2. disk.free \in 0 .. Blocks
    BY <2>1, FreeBound
  <2>3. DOMAIN disk.node = Inode /\ disk.damaged \subseteq Inode
    BY <2>1 DEF Typed
  <2>4. cwd \in Seq(Inode) /\ cwd # <<>>
    BY <2>1 DEF OnTree
  <2>5. ASSUME NEW i \in Inode
        PROVE  /\ disk.node[i].type \in {"none", "dir", "normal", "char"}
               /\ disk.node[i].data \in Data \cup {Empty}
               /\ \A e \in Range(disk.node[i].entries) :
                    e.name \in Names \cup Special /\ e.inode \in Inode
    BY <2>1, NodeIs DEF Range
  <2>6. disk.reissued = {}
    BY <2>1 DEF Typed
  <2> QED BY <2>1, <2>2, <2>3, <2>4, <2>5, <2>6 DEF TypeOK
<1>2. Astray(disk) /\ Seated => TypeOK
  BY DEF Astray, Seated, TypeOK
<1> QED BY <1>1, <1>2, SureAlways, PTL DEF Sure

(* Removing one file never takes another one's inode: until the root       *)
(* itself is handed out, no two entries of the disk have the same inode,   *)
(* none has the root or an inode not in use.  That the root is not named   *)
(* before needs that alloc_inode hands out no other inode in use, rm       *)
(* refuses the root, and format names it nowhere.                          *)
THEOREM EntriesUnique == Spec => []EntriesSound
<1>1. Tidy => EntriesSound
  <2> SUFFICES ASSUME Tidy, NEW i \in Inode, NEW j \in Inode,
                      NEW k \in DOMAIN disk.node[i].entries,
                      NEW l \in DOMAIN disk.node[j].entries
               PROVE  /\ disk.node[i].entries[k].inode \in InUse \ {Root}
                      /\ disk.node[i].entries[k].inode = disk.node[j].entries[l].inode
                           => i = j /\ k = l
    BY DEF EntriesSound
  <2>1. Healthy(disk)
    BY DEF Tidy
  <2>2. disk.node[i].entries[k].inode \in Inode
    BY <2>1, NodeIs DEF Healthy
  <2> QED BY <2>1, <2>2 DEF Healthy, Named, Once, InUse
<1>2. Sure => EntriesSound
  BY <1>1, SureIs DEF EntriesSound
<1> QED BY <1>2, SureAlways, PTL

(* The working directory is a path of directories from the root, whatever  *)
(* was removed and whatever failed since cd entered it, until the root's   *)
(* inode itself is handed out.                                             *)
THEOREM CwdStays == Spec => []CwdOnTree
<1>1. Tidy => CwdOnTree
  <2> SUFFICES ASSUME Tidy PROVE CwdOnTree
    OBVIOUS
  <2>1. Healthy(disk) /\ OnTree(disk, cwd) /\ IsDir(disk, Last(cwd))
    BY DEF Tidy, AtHome
  <2>2. /\ Last(cwd) = cwd[Len(cwd)] /\ Len(cwd) \in Nat
        /\ \A k \in 1 .. Len(cwd) - 1 : IsDir(disk, cwd[k])
    BY <2>1, OnTreeIs
  <2>3. \A k \in 1 .. Len(cwd) : IsDir(disk, cwd[k])
    <3> SUFFICES ASSUME NEW k \in 1 .. Len(cwd) PROVE IsDir(disk, cwd[k])
      OBVIOUS
    <3>1. k = Len(cwd) \/ k \in 1 .. Len(cwd) - 1
      BY <2>2
    <3> QED BY <2>1, <2>2, <3>1
  <2> QED BY <2>1, <2>3 DEF CwdOnTree, OnTree
<1>2. Sure => CwdOnTree
  BY <1>1, SureIs DEF CwdOnTree
<1> QED BY <1>2, SureAlways, PTL

(* As long as no write has failed and the root's inode was not handed out, *)
(* every block is free or held by a file of the size it has: no command    *)
(* loses a block or gives one twice.                                       *)
THEOREM BlocksBalanced == Spec => []BlocksBalance
<1>1. Tidy => BlocksBalance
  <2> SUFFICES ASSUME Tidy, disk.damaged = {} PROVE disk.free + Total(Holding(disk), Inode) = Blocks
    BY DEF BlocksBalance, Total, Holding
  <2>1. Inode \ disk.damaged = Inode
    OBVIOUS
  <2> QED BY <2>1 DEF Tidy, Balanced, Used
<1>2. Sure => BlocksBalance
  BY <1>1, SureIs DEF BlocksBalance
<1> QED BY <1>2, SureAlways, PTL

(* Until the root's inode is handed out, every inode in use can be found   *)
(* from the root, but for one new inode for each directory that did not    *)
(* get a block for its entry: no other way for a command to fail leaves an *)
(* inode that nobody can free.                                             *)
THEOREM LeaksCounted == Spec => []NoInodeLeaked
<1>1. Tidy => NoInodeLeaked
  <2> SUFFICES ASSUME Tidy PROVE NoInodeLeaked
    OBVIOUS
  <2>1. Healthy(disk) /\ Typed(disk) /\ Counted(disk)
    BY DEF Tidy, Healthy
  <2>2. ASSUME NEW x \in InUse \ Reachable PROVE x \in Lost(disk)
    <3>1. x \in Inode /\ disk.node[x].type # "none" /\ x # Root /\ x \notin Below(disk, Root)
      BY DEF InUse, Reachable
    <3>2. ASSUME Leads(disk, x) PROVE FALSE
      <4>1. PICK s \in Seq(Inode) : OnTree(disk, s) /\ Last(s) = x
        BY <3>2 DEF Leads
      <4> DEFINE l == Len(s)
      <4>2. l \in Nat /\ l \in 1 .. Len(s) /\ s[l] = x
        BY <2>1, <4>1, EndOf
      <4>3. s[1] = Root /\ l # 1 /\ 1 \in 1 .. Len(s) /\ 1 < l
        BY <3>1, <4>1, <4>2 DEF OnTree
      <4> HIDE DEF l
      <4>4. s[l] \in Below(disk, s[1])
        BY <2>1, <4>1, <4>2, <4>3, BelowReach
      <4> QED BY <3>1, <4>2, <4>3, <4>4
    <3> QED BY <3>1, <3>2 DEF Lost
  <2>3. /\ IsFiniteSet(Lost(disk)) /\ Cardinality(Lost(disk)) \in Nat
        /\ Cardinality(Hurt(disk)) \in Nat
    BY <2>1, LostFinite
  <2>4. IsFiniteSet(InUse \ Reachable) /\ Cardinality(InUse \ Reachable) <= Cardinality(Lost(disk))
    BY <2>2, <2>3, FS_Subset
  <2>5. Cardinality(InUse \ Reachable) \in Nat
    BY <2>4, FS_CardinalityType
  <2>6. Cardinality(Lost(disk)) <= Cardinality({i \in disk.damaged : IsDir(disk, i)})
    BY <2>1 DEF Counted, Hurt
  <2>7. Hurt(disk) = {i \in disk.damaged : IsDir(disk, i)}
    BY DEF Hurt
  <2> QED BY <2>3, <2>4, <2>5, <2>6, <2>7 DEF NoInodeLeaked
<1>2. Sure => NoInodeLeaked
  BY <1>1, SureIs DEF NoInodeLeaked
<1> QED BY <1>2, SureAlways, PTL

(* rm that empties a directory and does not find it again.                 *)
LEMMA PrunedFails ==
  ASSUME TreePruned, rc' = -1
  PROVE  RmWinding
<1>1. PICK p \in Paths : \E r, s : Rm(p) /\ Leaves(r) /\ r.ok \in BOOLEAN /\ Pruned(disk, r, s, p)
  BY DEF TreePruned
<1>2. PICK r, s : Rm(p) /\ Leaves(r) /\ r.ok \in BOOLEAN /\ Pruned(disk, r, s, p)
  BY <1>1
<1>3. ~r.ok
  BY <1>2 DEF Leaves
<1>4. Winding(p)
  BY <1>2, <1>3 DEF Pruned
<1> QED BY <1>2, <1>4 DEF RmWinding

(* A command that fails leaves no trace unless it filled the disk, the     *)
(* contents were too large, it is rm of a path that winds, or it was       *)
(* handed the root as its new inode.                                       *)
THEOREM FailsCleanly == Spec => FailureIsClean
<1> DEFINE Clean ==
             rc' = -1 => \/ disk' = disk
                         \/ disk'.reissued # {}
                         \/ disk'.free = 0
                         \/ \E p \in Paths, d \in TooLarge : Upload(p, d)
                         \/ RmWinding
<1>1. ASSUME Tidy, [Next]_vars, rc' = -1, ~Astray(disk') PROVE Clean
  <2>1. Effect
    BY <1>1, StepIs
  <2>2. ~LeafDropped /\ ~FileRenamed /\ ~Format
    BY <1>1 DEF LeafDropped, FileRenamed, Format
  <2>3. CASE NewStub \/ NewLeaf \/ disk' = disk
    BY <1>1, <2>3 DEF NewStub, NewLeaf
  <2>4. CASE TreePruned
    BY <1>1, <2>4, PrunedFails
  <2> QED BY <2>1, <2>2, <2>3, <2>4 DEF Effect
<1>2. ASSUME Astray(disk), [Next]_vars, rc' = -1 PROVE Clean
  BY <1>2, AstrayEnds DEF Format, vars
<1>3. Astray(disk') => disk'.reissued # {}
  BY DEF Astray
<1>4. Sure /\ [Next]_vars => [Clean]_vars
  BY <1>1, <1>2, <1>3 DEF Sure
<1> QED BY <1>4, SureAlways, PTL DEF Spec, FailureIsClean
-----------------------------------------------------------------------------
(* What a disk shows: the paths of names from the root and the inodes they *)
(* lead to.  A trail is such a path with the stack of inodes along it.     *)

Link(name, i) == [name |-> name, inode |-> i]
Has(d, i, name, j) == Link(name, j) \in Range(d.node[i].entries)
Word == Seq(Names \cup Special)

Trail(d, p, s) ==
  /\ p \in Word /\ s \in Seq(Inode) /\ Len(s) = Len(p) + 1 /\ s[1] = Root
  /\ \A k \in 1 .. Len(p) : Has(d, s[k], p[k], s[k + 1])
Spot(p, i) == [path |-> p, inode |-> i]
Shown(d) ==
  {x \in [path : Word, inode : Inode] : \E s : Trail(d, x.path, s) /\ Last(s) = x.inode}

LEMMA HasIs ==
  ASSUME NEW d, NEW i \in Inode, Typed(d)
  PROVE  /\ \A name, j : Has(d, i, name, j) <=>
              \E k \in DOMAIN d.node[i].entries : /\ d.node[i].entries[k].name = name
                                                  /\ d.node[i].entries[k].inode = j
         /\ \A name, j : Has(d, i, name, j) =>
              name \in Names \cup Special /\ j \in Inode /\ j \in Children(d, i)
         /\ \A j \in Children(d, i) : \E name \in Names \cup Special : Has(d, i, name, j)
<1> DEFINE s == d.node[i].entries
<1>1. \A k \in DOMAIN s : s[k].inode \in Inode /\ s[k].name \in Names \cup Special /\ s[k] \in Entry
  BY NodeIs
<1>2. \A x \in Entry : x = Link(x.name, x.inode)
  BY DEF Entry, Link
<1>3. \A name, j : Link(name, j).name = name /\ Link(name, j).inode = j
  BY DEF Link
<1>4. ASSUME NEW name, NEW j
      PROVE  Has(d, i, name, j) <=> \E k \in DOMAIN s : s[k].name = name /\ s[k].inode = j
  <2>1. ASSUME Has(d, i, name, j) PROVE \E k \in DOMAIN s : s[k].name = name /\ s[k].inode = j
    <3>1. PICK k \in DOMAIN s : Link(name, j) = s[k]
      BY <2>1 DEF Has, Range
    <3> QED BY <1>3, <3>1
  <2>2. ASSUME NEW k \in DOMAIN s, s[k].name = name, s[k].inode = j PROVE Has(d, i, name, j)
    <3>1. s[k] = Link(name, j)
      BY <1>1, <1>2, <2>2
    <3> QED BY <3>1 DEF Has, Range
  <2> QED BY <2>1, <2>2
<1>5. \A j : j \in Children(d, i) <=> \E k \in DOMAIN s : s[k].inode = j
  BY ChildIs
<1> HIDE DEF s
<1>6. /\ \A name, j : Has(d, i, name, j) =>
              name \in Names \cup Special /\ j \in Inode /\ j \in Children(d, i)
      /\ \A j \in Children(d, i) : \E name \in Names \cup Special : Has(d, i, name, j)
  BY <1>1, <1>4, <1>5
<1> QED BY <1>4, <1>6 DEF s

(* In a directory a name has one inode, and an inode one name.             *)
LEMMA HasOne ==
  ASSUME NEW d, NEW i \in Inode, Healthy(d)
  PROVE  /\ \A name, j, k : Has(d, i, name, j) /\ Has(d, i, name, k) => j = k
         /\ \A name, other, j : Has(d, i, name, j) /\ Has(d, i, other, j) => name = other
<1> DEFINE s == d.node[i].entries
<1>1. \A name, j : Has(d, i, name, j) <=> \E k \in DOMAIN s : s[k].name = name /\ s[k].inode = j
  BY HasIs DEF Healthy
<1>2. \A k, l \in DOMAIN s : s[k].name = s[l].name => k = l
  BY DEF Healthy, Distinct
<1>3. \A k, l \in DOMAIN s : s[k].inode = s[l].inode => k = l
  BY DEF Healthy, Once
<1> HIDE DEF s
<1> QED BY <1>1, <1>2, <1>3

LEMMA TrailIs ==
  ASSUME NEW d, NEW p, NEW s, Healthy(d), Trail(d, p, s)
  PROVE  /\ OnTree(d, s) /\ p \in Word /\ Len(p) \in Nat /\ Len(s) = Len(p) + 1
         /\ \A k \in 1 .. Len(s) : s[k] \in Inode
         /\ \A k \in 1 .. Len(p) : Has(d, s[k], p[k], s[k + 1]) /\ k \in 1 .. Len(s) /\ k + 1 \in 1 .. Len(s)
         /\ s[Len(s)] = Last(s) /\ Len(s) \in 1 .. Len(s)
<1>1. /\ p \in Word /\ s \in Seq(Inode) /\ Len(p) \in Nat /\ Len(s) = Len(p) + 1 /\ s[1] = Root
      /\ \A k \in 1 .. Len(s) : s[k] \in Inode
  BY DEF Trail, Word
<1>2. \A k \in 1 .. Len(p) : Has(d, s[k], p[k], s[k + 1]) /\ k \in 1 .. Len(s) /\ k + 1 \in 1 .. Len(s)
  BY <1>1 DEF Trail
<1>3. \A k \in 1 .. Len(p) : s[k + 1] \in Children(d, s[k])
  BY <1>1, <1>2, HasIs DEF Healthy
<1>4. Len(s) - 1 = Len(p) /\ Len(s) > 0
  BY <1>1
<1>5. OnTree(d, s)
  BY <1>1, <1>3, <1>4 DEF OnTree
<1>6. s[Len(s)] = Last(s) /\ Len(s) \in 1 .. Len(s)
  BY <1>5, EndOf
<1> QED BY <1>1, <1>2, <1>5, <1>6

LEMMA TrailExists ==
  ASSUME NEW d, NEW s, Healthy(d), OnTree(d, s)
  PROVE  \E p : Trail(d, p, s)
<1> DEFINE n == Len(s) - 1
           Name(k) == CHOOSE name \in Names \cup Special : Has(d, s[k], name, s[k + 1])
           p == [k \in 1 .. n |-> Name(k)]
<1>1. /\ n \in Nat /\ Len(s) = n + 1 /\ s \in Seq(Inode) /\ s[1] = Root
      /\ \A k \in 1 .. n : k \in 1 .. Len(s)
      /\ \A k \in 1 .. Len(s) : s[k] \in Inode
  BY OnTreeIs DEF OnTree
<1>2. \A k \in 1 .. n : s[k + 1] \in Children(d, s[k])
  BY DEF OnTree
<1> HIDE DEF n
<1>3. ASSUME NEW k \in 1 .. n
      PROVE  Name(k) \in Names \cup Special /\ Has(d, s[k], Name(k), s[k + 1])
  <2>1. \E name \in Names \cup Special : Has(d, s[k], name, s[k + 1])
    BY <1>1, <1>2, HasIs DEF Healthy
  <2> QED BY <2>1
<1> HIDE DEF Name
<1>4. p \in Word /\ Len(p) = n /\ \A k \in 1 .. n : p[k] = Name(k)
  BY <1>1, <1>3 DEF Word
<1> HIDE DEF p
<1>5. Trail(d, p, s)
  BY <1>1, <1>3, <1>4 DEF Trail
<1> QED BY <1>5

(* Equal names lead to equal inodes.                                       *)
LEMMA SameNames ==
  ASSUME NEW d, NEW p, NEW s, NEW q, NEW t, NEW n \in Nat, Healthy(d), Trail(d, p, s), Trail(d, q, t),
         n <= Len(p), n <= Len(q), \A k \in 1 .. n : p[k] = q[k]
  PROVE  \A k \in 1 .. n + 1 : s[k] = t[k]
<1> DEFINE T == {k \in Nat : k <= n => s[k + 1] = t[k + 1]}
           a == Len(p)
           b == Len(q)
<1>1. /\ \A k \in 1 .. a : Has(d, s[k], p[k], s[k + 1]) /\ s[k] \in Inode
      /\ \A k \in 1 .. b : Has(d, t[k], q[k], t[k + 1])
      /\ s[1] = Root /\ t[1] = Root /\ a \in Nat /\ b \in Nat /\ n <= a /\ n <= b
  BY TrailIs DEF Trail
<1> HIDE DEF a, b
<1>2. 0 \in T
  BY <1>1
<1>3. ASSUME NEW k \in Nat, k \in T PROVE k + 1 \in T
  <2> SUFFICES ASSUME k + 1 <= n PROVE s[(k + 1) + 1] = t[(k + 1) + 1]
    OBVIOUS
  <2> DEFINE l == k + 1
  <2>1. l \in 1 .. a /\ l \in 1 .. b /\ l \in 1 .. n /\ s[l] = t[l]
    BY <1>1, <1>3
  <2> HIDE DEF l
  <2>2. Has(d, s[l], p[l], s[l + 1]) /\ Has(d, s[l], p[l], t[l + 1]) /\ s[l] \in Inode
    BY <1>1, <2>1
  <2>3. s[l + 1] = t[l + 1]
    BY <2>2, HasOne
  <2> QED BY <2>3 DEF l
<1> HIDE DEF T
<1>4. Nat \subseteq T
  BY <1>2, <1>3, Induct
<1> SUFFICES ASSUME NEW k \in 1 .. n + 1 PROVE s[k] = t[k]
  OBVIOUS
<1>5. k - 1 \in T /\ k - 1 <= n /\ (k - 1) + 1 = k
  BY <1>4
<1> QED BY <1>5 DEF T

(* One inode, one trail.                                                   *)
LEMMA SameTrail ==
  ASSUME NEW d, NEW p, NEW s, NEW q, NEW t, Healthy(d), Trail(d, p, s), Trail(d, q, t),
         NEW k \in 1 .. Len(s), NEW l \in 1 .. Len(t), s[k] = t[l]
  PROVE  /\ k = l /\ \A m \in 1 .. k : s[m] = t[m]
         /\ \A m \in 1 .. k - 1 : p[m] = q[m]
<1> DEFINE a == Len(p)
           b == Len(q)
           T == {m \in Nat : m < k => s[k - m] = t[k - m]}
<1>1. OnTree(d, s) /\ OnTree(d, t)
  BY TrailIs
<1>2. k = l
  BY <1>1, SameDepth
<1>3. /\ a \in Nat /\ b \in Nat /\ Len(s) = a + 1 /\ Len(t) = b + 1
      /\ \A m \in 1 .. a : Has(d, s[m], p[m], s[m + 1]) /\ s[m] \in Inode
      /\ \A m \in 1 .. b : Has(d, t[m], q[m], t[m + 1]) /\ t[m] \in Inode
  BY TrailIs
<1> HIDE DEF a, b
<1>4. k \in Nat /\ 1 <= k /\ k <= a + 1 /\ k <= b + 1
  BY <1>2, <1>3
<1>5. \A m \in 1 .. a : s[m + 1] \in Children(d, s[m])
  BY <1>3, HasIs DEF Healthy
<1>6. \A m \in 1 .. b : t[m + 1] \in Children(d, t[m])
  BY <1>3, HasIs DEF Healthy
<1>7. 0 \in T
  BY <1>2, <1>4
<1>8. ASSUME NEW m \in Nat, m \in T PROVE m + 1 \in T
  <2> SUFFICES ASSUME m + 1 < k PROVE s[k - (m + 1)] = t[k - (m + 1)]
    OBVIOUS
  <2> DEFINE j == k - (m + 1)
  <2>1. j \in 1 .. a /\ j \in 1 .. b /\ j + 1 = k - m /\ m < k
    BY <1>3, <1>4
  <2>2. s[j + 1] = t[j + 1]
    BY <1>8, <2>1
  <2> HIDE DEF j
  <2>3. s[j + 1] \in Children(d, s[j]) /\ s[j + 1] \in Children(d, t[j]) /\ s[j] \in Inode /\ t[j] \in Inode
    BY <1>3, <1>5, <1>6, <2>1, <2>2
  <2>4. s[j] = t[j]
    BY <2>3, OneParent
  <2> QED BY <2>4 DEF j
<1> HIDE DEF T
<1>9. Nat \subseteq T
  BY <1>7, <1>8, Induct
<1>10. ASSUME NEW m \in 1 .. k PROVE s[m] = t[m]
  <2>1. k - m \in T /\ k - m < k /\ k - (k - m) = m
    BY <1>4, <1>9
  <2> QED BY <2>1 DEF T
<1>11. ASSUME NEW m \in 1 .. k - 1 PROVE p[m] = q[m]
  <2>1. m \in 1 .. k /\ m + 1 \in 1 .. k /\ m \in 1 .. a /\ m \in 1 .. b
    BY <1>3, <1>4
  <2>2. Has(d, s[m], p[m], s[m + 1]) /\ Has(d, s[m], q[m], s[m + 1]) /\ s[m] \in Inode
    BY <1>3, <1>10, <2>1
  <2> QED BY <2>2, HasOne
<1> QED BY <1>2, <1>10, <1>11

LEMMA SpotIs ==
  ASSUME NEW p, NEW i
  PROVE  Spot(p, i).path = p /\ Spot(p, i).inode = i
BY DEF Spot

LEMMA ShownIs ==
  ASSUME NEW d, Healthy(d)
  PROVE  /\ \A p, i : Spot(p, i) \in Shown(d) <=> \E s : Trail(d, p, s) /\ Last(s) = i
         /\ \A x \in Shown(d) : /\ x = Spot(x.path, x.inode) /\ x.path \in Word /\ x.inode \in Inode
                                /\ Leads(d, x.inode)
                                /\ \E s : Trail(d, x.path, s) /\ Last(s) = x.inode
<1>1. ASSUME NEW p, NEW i, NEW s, Trail(d, p, s), Last(s) = i PROVE Spot(p, i) \in Shown(d)
  <2>1. p \in Word /\ i \in Inode
    <3>1. p \in Word /\ OnTree(d, s)
      BY <1>1, TrailIs
    <3> QED BY <1>1, <3>1, OnTreeIs
  <2> QED BY <1>1, <2>1 DEF Shown, Spot
<1>2. ASSUME NEW x \in Shown(d)
      PROVE  /\ x = Spot(x.path, x.inode) /\ x.path \in Word /\ x.inode \in Inode
             /\ Leads(d, x.inode)
             /\ \E s : Trail(d, x.path, s) /\ Last(s) = x.inode
  <2>1. /\ x \in [path : Word, inode : Inode]
        /\ \E s : Trail(d, x.path, s) /\ Last(s) = x.inode
    BY DEF Shown
  <2>2. PICK s : Trail(d, x.path, s) /\ Last(s) = x.inode
    BY <2>1
  <2>3. OnTree(d, s) /\ s \in Seq(Inode)
    BY <2>2, TrailIs DEF OnTree
  <2>4. Leads(d, x.inode)
    BY <2>2, <2>3 DEF Leads
  <2>5. x = Spot(x.path, x.inode) /\ x.path \in Word /\ x.inode \in Inode
    BY <2>1 DEF Spot
  <2> QED BY <2>1, <2>4, <2>5
<1>3. ASSUME NEW p, NEW i, Spot(p, i) \in Shown(d) PROVE \E s : Trail(d, p, s) /\ Last(s) = i
  BY <1>2, <1>3, SpotIs
<1> QED BY <1>1, <1>2, <1>3

LEMMA TrailKept ==
  ASSUME NEW d, NEW e, NEW p, NEW s, Trail(d, p, s),
         \A k \in 1 .. Len(p) : Has(d, s[k], p[k], s[k + 1]) => Has(e, s[k], p[k], s[k + 1])
  PROVE  Trail(e, p, s)
BY DEF Trail

LEMMA OneTrail ==
  ASSUME NEW d, NEW p, NEW s, NEW q, NEW t, Healthy(d), Trail(d, p, s), Trail(d, q, t)
  PROVE  /\ p = q => s = t
         /\ Last(s) = Last(t) => p = q
<1> DEFINE a == Len(p)
           b == Len(q)
<1>1. /\ a \in Nat /\ b \in Nat /\ Len(s) = a + 1 /\ Len(t) = b + 1 /\ p \in Word /\ q \in Word
      /\ s \in Seq(Inode) /\ t \in Seq(Inode) /\ Len(s) \in 1 .. Len(s) /\ Len(t) \in 1 .. Len(t)
      /\ s[Len(s)] = Last(s) /\ t[Len(t)] = Last(t)
  BY TrailIs DEF Trail
<1>2. ASSUME p = q PROVE s = t
  <2>1. \A k \in 1 .. a + 1 : s[k] = t[k]
    <3>1. a \in Nat /\ a <= Len(p) /\ a <= Len(q) /\ \A k \in 1 .. a : p[k] = q[k]
      BY <1>1, <1>2
    <3> HIDE DEF a
    <3> QED BY <3>1, SameNames
  <2> HIDE DEF a, b
  <2>2. Len(s) = a + 1 /\ Len(t) = a + 1
    BY <1>1, <1>2 DEF a, b
  <2> QED BY <1>1, <2>1, <2>2
<1>3. ASSUME Last(s) = Last(t) PROVE p = q
  <2> DEFINE m == Len(s)
             n == Len(t)
  <2>1. m \in 1 .. Len(s) /\ n \in 1 .. Len(t) /\ s[m] = t[n]
    BY <1>1, <1>3
  <2> HIDE DEF m, n
  <2>2. m = n /\ \A k \in 1 .. m - 1 : p[k] = q[k]
    BY <2>1, SameTrail
  <2>3. m = a + 1 /\ n = b + 1
    BY <1>1 DEF m, n
  <2>4. p \in Seq(Names \cup Special) /\ q \in Seq(Names \cup Special)
    BY <1>1 DEF Word
  <2> HIDE DEF a, b
  <2>5. a = b
    <3>1. a \in Nat /\ b \in Nat /\ a + 1 = b + 1
      <4>1. m = n
        BY <2>2
      <4> QED BY <1>1, <2>3, <4>1
    <3> QED BY <3>1
  <2>6. Len(p) = a /\ Len(q) = a
    BY <2>5 DEF a, b
  <2> QED BY <1>1, <2>2, <2>3, <2>4, <2>5, <2>6
<1> QED BY <1>2, <1>3

LEMMA TrailAppend ==
  ASSUME NEW d, NEW p, NEW s, NEW name, NEW j, Healthy(d), Trail(d, p, s), Has(d, Last(s), name, j)
  PROVE  /\ Trail(d, Append(p, name), Append(s, j)) /\ Last(Append(s, j)) = j
         /\ Len(Append(p, name)) = Len(p) + 1
<1> DEFINE n == Len(p)
           q == Append(p, name)
           t == Append(s, j)
<1>1. /\ n \in Nat /\ Len(s) = n + 1 /\ p \in Seq(Names \cup Special) /\ s \in Seq(Inode) /\ s[1] = Root
      /\ \A k \in 1 .. n : Has(d, s[k], p[k], s[k + 1])
      /\ s[n + 1] = Last(s) /\ Last(s) \in Inode
  <2>1. OnTree(d, s) /\ Len(p) \in Nat /\ Len(s) = Len(p) + 1 /\ s[Len(s)] = Last(s)
    BY TrailIs
  <2> QED BY <2>1, OnTreeIs DEF Trail, Word
<1>2. name \in Names \cup Special /\ j \in Inode
  BY <1>1, HasIs DEF Healthy
<1>3. /\ q \in Seq(Names \cup Special) /\ t \in Seq(Inode) /\ Len(q) = n + 1 /\ Len(t) = n + 2
      /\ \A k \in 1 .. n : q[k] = p[k]
      /\ q[n + 1] = name /\ t[n + 2] = j /\ \A k \in 1 .. n + 1 : t[k] = s[k]
  BY <1>1, <1>2
<1> HIDE DEF q, t, n
<1>4. ASSUME NEW k \in 1 .. n + 1 PROVE Has(d, t[k], q[k], t[k + 1])
  <2>1. CASE k \in 1 .. n
    <3>1. k + 1 \in 1 .. n + 1 /\ k \in 1 .. n + 1
      BY <1>1, <2>1
    <3>2. t[k] = s[k] /\ t[k + 1] = s[k + 1] /\ q[k] = p[k]
      BY <1>3, <2>1, <3>1
    <3> QED BY <1>1, <2>1, <3>2
  <2>2. CASE k = n + 1
    <3>1. t[k] = Last(s) /\ q[k] = name /\ t[k + 1] = j
      <4>1. k \in 1 .. n + 1 /\ k + 1 = n + 2
        BY <1>1, <2>2
      <4> QED BY <1>1, <1>3, <2>2, <4>1
    <3> QED BY <3>1
  <2> QED BY <1>1, <2>1, <2>2
<1>5. t[1] = Root
  BY <1>1, <1>3
<1>6. Trail(d, q, t)
  <2>1. Len(t) = Len(q) + 1
    BY <1>1, <1>3
  <2> QED BY <1>3, <1>4, <1>5, <2>1 DEF Trail, Word
<1>7. Last(t) = j
  BY <1>1, <1>3 DEF Last
<1> QED BY <1>3, <1>6, <1>7 DEF q, t, n

LEMMA TrailCut ==
  ASSUME NEW d, NEW p, NEW s, NEW n \in Nat, Healthy(d), Trail(d, p, s), n <= Len(p)
  PROVE  \E q, t : /\ Trail(d, q, t) /\ Len(q) = n /\ Last(t) = s[n + 1] /\ q = SubSeq(p, 1, n)
                   /\ \A k \in 1 .. n : q[k] = p[k]
<1> DEFINE q == SubSeq(p, 1, n)
           t == SubSeq(s, 1, n + 1)
           m == Len(p)
<1>1. /\ m \in Nat /\ n <= m /\ Len(s) = m + 1 /\ p \in Seq(Names \cup Special) /\ s \in Seq(Inode)
      /\ s[1] = Root /\ \A k \in 1 .. m : Has(d, s[k], p[k], s[k + 1])
  BY TrailIs DEF Trail, Word
<1>2. /\ q \in Seq(Names \cup Special) /\ Len(q) = n /\ \A k \in 1 .. n : q[k] = p[k]
      /\ t \in Seq(Inode) /\ Len(t) = n + 1 /\ \A k \in 1 .. n + 1 : t[k] = s[k]
  BY <1>1
<1> HIDE DEF m
<1>3. q = SubSeq(p, 1, n)
  OBVIOUS
<1> HIDE DEF q, t
<1>4. ASSUME NEW k \in 1 .. n PROVE Has(d, t[k], q[k], t[k + 1])
  <2>1. k \in 1 .. m /\ k \in 1 .. n + 1 /\ k + 1 \in 1 .. n + 1
    BY <1>1
  <2> QED BY <1>1, <1>2, <2>1
<1>5. 1 \in 1 .. n + 1
  OBVIOUS
<1>6. Trail(d, q, t) /\ Last(t) = s[n + 1]
  BY <1>1, <1>2, <1>4, <1>5 DEF Trail, Word, Last
<1> QED BY <1>2, <1>3, <1>6

(* One entry more, for an inode without entries: one path more.            *)
Adds(d, e, dir, name, i) ==
  /\ \A j \in Inode : \A n, c : Has(e, j, n, c) <=> Has(d, j, n, c) \/ (j = dir /\ n = name /\ c = i)
  /\ Children(e, i) = {}
  /\ \A c : ~Has(d, dir, name, c)

LEMMA ShownMore ==
  ASSUME NEW d, NEW e, NEW q, NEW t, NEW dir, NEW name, NEW i, Healthy(d), Healthy(e), Trail(d, q, t),
         Last(t) = dir, Adds(d, e, dir, name, i), NEW new, new = Spot(Append(q, name), i)
  PROVE  /\ Shown(e) = Shown(d) \cup {new}
         /\ \A x \in Shown(d) : x.path # new.path /\ x.inode # i
         /\ Spot(q, dir) \in Shown(d)
<1> DEFINE p == Append(q, name)
           s == Append(t, i)
<1>0. dir \in Inode /\ OnTree(d, t) /\ new.path = p /\ new.inode = i
  BY TrailIs, OnTreeIs, SpotIs
<1>1. ASSUME NEW r, NEW u, Trail(d, r, u) PROVE Trail(e, r, u)
  <2>1. \A k \in 1 .. Len(r) : u[k] \in Inode
    BY <1>1, TrailIs
  <2> QED BY <1>1, <2>1, TrailKept DEF Adds
<1>2. Has(e, dir, name, i)
  BY <1>0 DEF Adds
<1>3. Trail(e, p, s) /\ Last(s) = i
  BY <1>1, <1>2, TrailAppend
<1>4. Shown(d) \cup {new} \subseteq Shown(e)
  <2>1. new \in Shown(e)
    BY <1>3, ShownIs
  <2>2. ASSUME NEW x \in Shown(d) PROVE x \in Shown(e)
    <3>1. x = Spot(x.path, x.inode)
      BY ShownIs
    <3>2. PICK u : Trail(d, x.path, u) /\ Last(u) = x.inode
      BY ShownIs
    <3>3. Trail(e, x.path, u)
      BY <1>1, <3>2
    <3> QED BY <3>1, <3>2, <3>3, ShownIs
  <2> QED BY <2>1, <2>2
<1>5. ASSUME NEW x \in Shown(e) PROVE x \in Shown(d) \cup {new}
  <2>1. x = Spot(x.path, x.inode)
    BY ShownIs
  <2>2. PICK u : Trail(e, x.path, u) /\ Last(u) = x.inode
    BY ShownIs
  <2> DEFINE r == x.path
             m == Len(r)
  <2>3. /\ m \in Nat /\ Len(u) = m + 1 /\ u[Len(u)] = Last(u)
        /\ \A k \in 1 .. m : Has(e, u[k], r[k], u[k + 1]) /\ u[k] \in Inode
    BY <2>2, TrailIs
  <2>4. CASE \A k \in 1 .. m : Has(d, u[k], r[k], u[k + 1])
    <3>1. Trail(d, r, u)
      BY <2>2, <2>4, TrailKept
    <3> QED BY <2>1, <2>2, <3>1, ShownIs
  <2>5. CASE ~ \A k \in 1 .. m : Has(d, u[k], r[k], u[k + 1])
    <3> HIDE DEF m, r
    <3>1. PICK k \in 1 .. m : ~Has(d, u[k], r[k], u[k + 1])
      BY <2>5
    <3>2. u[k + 1] = i
      BY <2>3, <3>1 DEF Adds
    <3>3. k = m
      <4> SUFFICES ASSUME k # m PROVE FALSE
        OBVIOUS
      <4>1. k + 1 \in 1 .. m
        BY <2>3, <3>1
      <4>2. Has(e, i, r[k + 1], u[(k + 1) + 1]) /\ i \in Inode
        BY <2>3, <3>2, <4>1
      <4>3. u[(k + 1) + 1] \in Children(e, i)
        BY <4>2, HasIs DEF Healthy
      <4> QED BY <4>3 DEF Adds
    <3>4. Last(u) = Last(s)
      BY <1>3, <2>3, <3>2, <3>3
    <3> HIDE DEF p, s
    <3>5. r = p
      BY <1>3, <2>2, <3>4, OneTrail DEF r
    <3> QED BY <1>3, <2>1, <2>2, <3>4, <3>5 DEF r, p
  <2> QED BY <2>4, <2>5
<1>6. ASSUME NEW x \in Shown(d) PROVE x.path # p /\ x.inode # i
  <2>1. x.path # p
    <3> SUFFICES ASSUME x.path = p PROVE FALSE
      OBVIOUS
    <3>1. PICK u : Trail(d, p, u)
      BY ShownIs, ZenonT(60)
    <3> DEFINE n == Len(q)
    <3>2. /\ n \in Nat /\ Len(t) = n + 1 /\ t[Len(t)] = dir
          /\ q \in Seq(Names \cup Special)
      BY TrailIs DEF Word
    <3>3. name \in Names \cup Special
      BY <1>0, <1>2, HasIs DEF Healthy
    <3>4. /\ Len(p) = n + 1 /\ p[n + 1] = name /\ \A k \in 1 .. n : p[k] = q[k]
      BY <3>2, <3>3
    <3>5. \A k \in 1 .. Len(p) : Has(d, u[k], p[k], u[k + 1])
      BY <3>1, TrailIs
    <3> HIDE DEF p
    <3>6. n \in Nat /\ n <= Len(p) /\ n <= Len(q) /\ \A k \in 1 .. n : p[k] = q[k]
      BY <3>2, <3>4
    <3> HIDE DEF n
    <3>7. \A k \in 1 .. n + 1 : u[k] = t[k]
      BY <3>1, <3>6, SameNames
    <3>8. n + 1 \in 1 .. Len(p) /\ n + 1 \in 1 .. n + 1
      BY <3>2, <3>4
    <3>9. u[n + 1] = dir /\ Has(d, u[n + 1], name, u[(n + 1) + 1])
      BY <3>2, <3>4, <3>5, <3>7, <3>8
    <3> QED BY <3>9 DEF Adds
  <2>2. x.inode # i
    <3> SUFFICES ASSUME x.inode = i PROVE FALSE
      OBVIOUS
    <3>1. PICK u : Trail(d, x.path, u) /\ Last(u) = i
      BY ShownIs
    <3>2. Trail(e, x.path, u)
      BY <1>1, <3>1
    <3> HIDE DEF p, s
    <3>3. x.path = p
      BY <1>3, <3>1, <3>2, OneTrail
    <3> QED BY <2>1, <3>3
  <2> QED BY <2>1, <2>2
<1>7. Spot(q, dir) \in Shown(d)
  BY ShownIs
<1> QED BY <1>0, <1>4, <1>5, <1>6, <1>7

(* No path changes with the entries.                                       *)
LEMMA ShownSame ==
  ASSUME NEW d, NEW e, Healthy(d), Healthy(e), \A j \in Inode : e.node[j].entries = d.node[j].entries
  PROVE  Shown(e) = Shown(d)
<1>1. \A j \in Inode : \A n, c : Has(e, j, n, c) <=> Has(d, j, n, c)
  BY DEF Has
<1>2. ASSUME NEW p, NEW s, Trail(d, p, s) PROVE Trail(e, p, s)
  <2>1. \A k \in 1 .. Len(p) : s[k] \in Inode
    BY <1>2, TrailIs
  <2> QED BY <1>1, <1>2, <2>1, TrailKept
<1>3. ASSUME NEW p, NEW s, Trail(e, p, s) PROVE Trail(d, p, s)
  <2>1. \A k \in 1 .. Len(p) : s[k] \in Inode
    BY <1>3, TrailIs
  <2> QED BY <1>1, <1>3, <2>1, TrailKept
<1> QED BY <1>2, <1>3 DEF Shown

(* An emptied directory: what is under it is gone.                         *)
Under(q, p) == Len(p) > Len(q) /\ SubSeq(p, 1, Len(q)) = q

LEMMA ShownLess ==
  ASSUME NEW d, NEW e, NEW q, NEW t, NEW i, Healthy(d), Healthy(e), Trail(d, q, t), Last(t) = i,
         Cleared(d, e, i)
  PROVE  /\ Shown(e) = {x \in Shown(d) : ~Under(q, x.path)}
         /\ Spot(q, i) \in Shown(e) /\ Spot(q, i) \in Shown(d)
         /\ \A x \in Shown(e) : x.inode = i \/ e.node[x.inode] = d.node[x.inode]
<1>0. i \in Inode /\ OnTree(d, t)
  BY TrailIs, OnTreeIs
<1>1. \A j \in Inode : j # i /\ j \notin Below(d, i) => e.node[j] = d.node[j]
  BY DEF Cleared
<1>2. \A j \in Inode : e.node[j].entries = <<>> \/ e.node[j] = d.node[j]
  BY <1>1, BlankIs DEF Cleared
<1>3. \A j \in Inode : \A n, c : Has(e, j, n, c) => Has(d, j, n, c) /\ j # i
  <2>1. \A x : x \notin Range(<<>>)
    BY DEF Range
  <2> QED BY <1>2, <2>1 DEF Has, Cleared
<1>4. ASSUME NEW p, NEW s, Trail(e, p, s) PROVE Trail(d, p, s) /\ \A k \in 1 .. Len(p) : s[k] # i
  <2>1. \A k \in 1 .. Len(p) : s[k] \in Inode /\ Has(e, s[k], p[k], s[k + 1])
    BY <1>4, TrailIs
  <2> QED BY <1>3, <1>4, <2>1, TrailKept
<1>5. ASSUME NEW p, NEW s, Trail(d, p, s), \A k \in 1 .. Len(p) : s[k] # i
      PROVE  Trail(e, p, s) /\ (Last(s) = i \/ e.node[Last(s)] = d.node[Last(s)])
  <2> DEFINE m == Len(p)
  <2>1. /\ \A k \in 1 .. m : s[k] \in Inode /\ k \in 1 .. Len(s)
        /\ OnTree(d, s) /\ m \in Nat /\ Len(s) = m + 1 /\ s[Len(s)] = Last(s)
        /\ Len(s) \in 1 .. Len(s) /\ s[Len(s)] \in Inode
    BY <1>5, TrailIs
  <2> HIDE DEF m
  <2>2. ASSUME NEW k \in 1 .. m PROVE e.node[s[k]] = d.node[s[k]]
    <3>1. \A l \in 1 .. k : s[l] # i
      <4>1. \A l \in 1 .. k : l \in 1 .. m
        BY <2>1
      <4> QED BY <1>5, <4>1 DEF m
    <3>2. s[k] \notin Below(d, i)
      BY <1>0, <2>1, <3>1, NotBelow
    <3>3. s[k] # i
      BY <1>5 DEF m
    <3> QED BY <1>1, <2>1, <3>2, <3>3
  <2>3. Trail(e, p, s)
    BY <1>5, <2>2, TrailKept DEF Has, m
  <2>4. ASSUME Last(s) # i PROVE e.node[Last(s)] = d.node[Last(s)]
    <3> DEFINE n == Len(s)
    <3>1. \A l \in 1 .. n : s[l] # i
      <4>1. \A l \in 1 .. n : l = n \/ l \in 1 .. m
        BY <2>1
      <4> QED BY <1>5, <2>1, <2>4, <4>1 DEF m
    <3>2. n \in 1 .. Len(s)
      BY <2>1
    <3> HIDE DEF n
    <3>3. s[n] \notin Below(d, i)
      BY <1>0, <2>1, <3>1, <3>2, NotBelow
    <3>4. s[n] = Last(s) /\ s[n] \in Inode
      BY <2>1 DEF n
    <3> QED BY <1>1, <2>4, <3>3, <3>4
  <2> QED BY <2>3, <2>4
<1>6. ASSUME NEW p, NEW s, Trail(d, p, s)
      PROVE  Under(q, p) <=> \E k \in 1 .. Len(p) : s[k] = i
  <2> DEFINE m == Len(p)
             n == Len(q)
             z == Len(t)
  <2>1. /\ m \in Nat /\ n \in Nat /\ Len(s) = m + 1 /\ z = n + 1 /\ t[z] = i /\ z \in 1 .. Len(t)
        /\ p \in Seq(Names \cup Special) /\ q \in Seq(Names \cup Special)
    BY <1>6, TrailIs DEF Word
  <2>2. ASSUME Under(q, p) PROVE \E k \in 1 .. m : s[k] = i
    <3>1. m > n /\ \A k \in 1 .. n : p[k] = q[k]
      <4>1. m > n /\ SubSeq(p, 1, n) = q
        BY <2>2 DEF Under
      <4>2. \A k \in 1 .. n : SubSeq(p, 1, n)[k] = p[k]
        BY <2>1, <4>1
      <4> QED BY <4>1, <4>2
    <3>2. n \in Nat /\ n <= Len(p) /\ n <= Len(q)
      BY <2>1, <3>1
    <3> HIDE DEF n
    <3>3. \A k \in 1 .. n + 1 : s[k] = t[k]
      BY <1>6, <3>1, <3>2, SameNames
    <3> HIDE DEF m, z
    <3>4. n + 1 \in 1 .. m /\ s[n + 1] = i
      BY <2>1, <3>1, <3>3
    <3> QED BY <3>4
  <2>3. ASSUME NEW k \in 1 .. m, s[k] = i PROVE Under(q, p)
    <3>1. k \in 1 .. Len(s)
      BY <2>1
    <3> HIDE DEF z
    <3>2. k = z /\ \A j \in 1 .. k - 1 : p[j] = q[j]
      BY <1>6, <2>1, <2>3, <3>1, SameTrail
    <3> DEFINE r == SubSeq(p, 1, n)
    <3>3. m > n /\ \A j \in 1 .. n : p[j] = q[j]
      <4> HIDE DEF m, n
      <4> QED BY <2>1, <2>3, <3>2
    <3>4. r \in Seq(Names \cup Special) /\ Len(r) = n /\ \A j \in 1 .. n : r[j] = p[j]
      BY <2>1, <3>3
    <3> HIDE DEF r
    <3>5. r = q
      BY <2>1, <3>3, <3>4
    <3> QED BY <3>3, <3>5 DEF Under, r
  <2> QED BY <2>2, <2>3
<1>7. ASSUME NEW x \in Shown(e) PROVE x \in Shown(d) /\ ~Under(q, x.path)
  <2>1. x = Spot(x.path, x.inode)
    BY ShownIs
  <2>2. PICK s : Trail(e, x.path, s) /\ Last(s) = x.inode
    BY ShownIs
  <2> DEFINE p == x.path
  <2> HIDE DEF p
  <2>3. Trail(d, p, s) /\ \A k \in 1 .. Len(p) : s[k] # i
    BY <1>4, <2>2 DEF p
  <2>4. ~Under(q, p)
    BY <1>6, <2>3
  <2> QED BY <2>1, <2>2, <2>3, <2>4, ShownIs DEF p
<1>8. ASSUME NEW x \in Shown(d), ~Under(q, x.path)
      PROVE  x \in Shown(e) /\ (x.inode = i \/ e.node[x.inode] = d.node[x.inode])
  <2>1. x = Spot(x.path, x.inode)
    BY ShownIs
  <2>2. PICK s : Trail(d, x.path, s) /\ Last(s) = x.inode
    BY ShownIs
  <2> DEFINE p == x.path
  <2> HIDE DEF p
  <2>3. \A k \in 1 .. Len(p) : s[k] # i
    BY <1>6, <1>8, <2>2 DEF p
  <2>4. Trail(e, p, s) /\ (Last(s) = i \/ e.node[Last(s)] = d.node[Last(s)])
    BY <1>5, <2>2, <2>3 DEF p
  <2> QED BY <2>1, <2>2, <2>4, ShownIs DEF p
<1>9. Spot(q, i) \in Shown(d) /\ ~Under(q, q)
  <2>1. Spot(q, i) \in Shown(d) /\ Len(q) \in Nat
    BY ShownIs, TrailIs
  <2> QED BY <2>1 DEF Under
<1>10. Spot(q, i) \in Shown(e)
  BY <1>8, <1>9, SpotIs
<1> QED BY <1>7, <1>8, <1>9, <1>10

LEMMA OneSpot ==
  ASSUME NEW d, Healthy(d), NEW x \in Shown(d), NEW y \in Shown(d)
  PROVE  x.inode = y.inode \/ x.path = y.path => x = y
<1>1. x = Spot(x.path, x.inode) /\ y = Spot(y.path, y.inode)
  BY ShownIs
<1>2. PICK s : Trail(d, x.path, s) /\ Last(s) = x.inode
  BY ShownIs
<1>3. PICK t : Trail(d, y.path, t) /\ Last(t) = y.inode
  BY ShownIs
<1> DEFINE p == x.path
           q == y.path
<1>4. Trail(d, p, s) /\ Trail(d, q, t)
  BY <1>2, <1>3
<1> HIDE DEF p, q
<1>5. (p = q => s = t) /\ (Last(s) = Last(t) => p = q)
  BY <1>4, OneTrail
<1> QED BY <1>1, <1>2, <1>3, <1>5 DEF p, q

(* What is read at an inode stays, and no directory has contents.          *)
Intact(d, e, j) ==
  /\ e.node[j].type = d.node[j].type /\ e.node[j].data = d.node[j].data
  /\ j \in e.damaged => j \in d.damaged \/ IsDir(d, j)
Bare(d) == \A j \in Inode : IsDir(d, j) => d.node[j].data = Empty

LEMMA BlankData ==
  ASSUME NEW type
  PROVE  /\ Blank(type).data = Empty /\ Blank(type).type = type /\ Blank(type).entries = <<>>
BY DEF Blank

(* An inode whose entry was not written: nothing of it is seen.            *)
LEMMA StubShows ==
  ASSUME NEW d, NEW e, Healthy(d), Healthy(e), Stub(d, e)
  PROVE  /\ Shown(e) = Shown(d) /\ \A x \in Shown(d) : Intact(d, e, x.inode)
         /\ Bare(d) => Bare(e)
<1>1. PICK i \in Inode, dir \in Inode, name \in Names \cup Special, type \in {"dir", "normal"} :
        Grew(d, e, FALSE, i, dir, name, type)
  BY DEF Stub
<1>2. /\ i \in Unused(d) /\ IsDir(d, dir) /\ e.node[i] = Blank(type)
      /\ \A j \in Inode : j # i => e.node[j] = d.node[j]
      /\ e.damaged = d.damaged \cup {dir}
  BY <1>1 DEF Grew
<1>3. e.node[i].entries = d.node[i].entries
  BY <1>2, Fresh, BlankData
<1>4. Shown(e) = Shown(d)
  BY <1>2, <1>3, ShownSame
<1>5. ASSUME NEW x \in Shown(d) PROVE Intact(d, e, x.inode)
  <2>1. x.inode \in Inode /\ Leads(d, x.inode)
    BY ShownIs
  <2>2. d.node[x.inode].type # "none"
    BY <2>1, OnTreeIs, EndOf DEF Leads
  <2>3. x.inode # i
    BY <1>2, <2>2 DEF Unused
  <2> QED BY <1>2, <2>1, <2>3 DEF Intact
<1>6. Bare(d) => Bare(e)
  BY <1>2, BlankData DEF Bare, IsDir
<1> QED BY <1>4, <1>5, <1>6

(* A new path.                                                             *)
Shows(d, e, q, dir, name, i, type) ==
  /\ Shown(e) = Shown(d) \cup {Spot(Append(q, name), i)}
  /\ \A x \in Shown(d) : x.path # Append(q, name) /\ x.inode # i /\ Intact(d, e, x.inode)
  /\ Spot(q, dir) \in Shown(d) /\ IsDir(d, dir) /\ name \in Names \cup Special
  /\ e.node[i].type = type

(* The same for an entry in a given directory.                             *)
LeafAt(d, e, i, type, dir, name) ==
  \E b : /\ Healthy(b) /\ Grew(d, b, TRUE, i, dir, name, type)
         /\ \A j \in Inode : e.node[j].entries = b.node[j].entries /\ e.node[j].type = b.node[j].type
         /\ \A j \in Inode : j # i => e.node[j] = b.node[j]
         /\ type = "dir" => e.node[i] = b.node[i]
         /\ e.damaged \subseteq b.damaged \cup {i}

LEMMA LeafAtShows ==
  ASSUME NEW d, NEW e, NEW i, NEW type, NEW dir \in Inode, NEW name \in Names \cup Special,
         Healthy(d), Healthy(e), LeafAt(d, e, i, type, dir, name),
         NEW q, NEW stack, Trail(d, q, stack), Last(stack) = dir
  PROVE  Shows(d, e, q, dir, name, i, type) /\ (Bare(d) => Bare(e))
<1>1. PICK b :
        /\ Healthy(b) /\ Grew(d, b, TRUE, i, dir, name, type)
        /\ \A j \in Inode : e.node[j].entries = b.node[j].entries /\ e.node[j].type = b.node[j].type
        /\ \A j \in Inode : j # i => e.node[j] = b.node[j]
        /\ type = "dir" => e.node[i] = b.node[i]
        /\ e.damaged \subseteq b.damaged \cup {i}
  BY DEF LeafAt
<1> DEFINE x == [name |-> name, inode |-> i]
<1>2. /\ i \in Unused(d) /\ i \in Inode /\ IsDir(d, dir) /\ i # dir /\ Matches(d, dir, name) = {}
      /\ b.node[i] = Blank(type) /\ b.damaged = d.damaged
      /\ \A j \in Inode : j # i /\ j # dir => b.node[j] = d.node[j]
      /\ Longer(d.node[dir].entries, b.node[dir].entries, x)
      /\ b.node[dir].type = "dir" /\ b.node[dir].data = d.node[dir].data
  BY <1>1 DEF Grew, Unused
<1> HIDE DEF x
<1>3. x = Link(name, i)
  BY DEF x, Link
<1>4. \A n, c : Has(b, dir, n, c) <=> Has(d, dir, n, c) \/ (n = name /\ c = i)
  <2> DEFINE s == d.node[dir].entries
             t == b.node[dir].entries
  <2>1. Len(s) \in Nat /\ Longer(s, t, x)
    BY <1>2, NodeIs DEF Healthy
  <2> HIDE DEF s, t
  <2>2. \A y : y \in Range(t) <=> y \in Range(s) \/ y = x
    <3>1. ASSUME NEW k \in DOMAIN t PROVE t[k] = x \/ (k \in DOMAIN s /\ t[k] = s[k])
      <4>1. k = Len(s) + 1 \/ k \in 1 .. Len(s)
        BY <2>1 DEF Longer
      <4> QED BY <2>1, <4>1 DEF Longer
    <3>2. \A k \in DOMAIN s : k \in DOMAIN t /\ t[k] = s[k]
      BY <2>1 DEF Longer
    <3>3. Len(s) + 1 \in DOMAIN t /\ t[Len(s) + 1] = x
      BY <2>1 DEF Longer
    <3> QED BY <3>1, <3>2, <3>3 DEF Range
  <2>3. \A n, c : Link(n, c) = x <=> n = name /\ c = i
    BY <1>3 DEF Link
  <2> QED BY <2>2, <2>3 DEF Has, s, t
<1>5. \A c : ~Has(d, dir, name, c)
  <2>1. \A c : Link(name, c).name = name
    BY DEF Link
  <2> QED BY <1>2, <2>1 DEF Has, Matches
<1>6. \A n, c : ~Has(b, i, n, c) /\ ~Has(d, i, n, c)
  <2>1. b.node[i].entries = <<>> /\ d.node[i].entries = <<>>
    BY <1>2, Fresh, BlankData
  <2> QED BY <2>1 DEF Has, Range
<1>7. Adds(d, e, dir, name, i)
  <2>1. ASSUME NEW j \in Inode, NEW n, NEW c
        PROVE  Has(e, j, n, c) <=> Has(d, j, n, c) \/ (j = dir /\ n = name /\ c = i)
    <3>1. Has(e, j, n, c) <=> Has(b, j, n, c)
      BY <1>1 DEF Has
    <3>2. j # i /\ j # dir => (Has(b, j, n, c) <=> Has(d, j, n, c))
      BY <1>2 DEF Has
    <3> QED BY <1>2, <1>4, <1>6, <3>1, <3>2
  <2>2. Children(e, i) = {}
    <3>1. e.node[i].entries = <<>>
      BY <1>1, <1>2, BlankData
    <3> QED BY <3>1 DEF Children, Range
  <2> QED BY <1>5, <2>1, <2>2 DEF Adds
<1> DEFINE new == Spot(Append(q, name), i)
<1>8. new.path = Append(q, name)
  BY SpotIs
<1> HIDE DEF new
<1>9. new = Spot(Append(q, name), i)
  BY DEF new
<1>10. /\ Shown(e) = Shown(d) \cup {new}
       /\ \A y \in Shown(d) : y.path # new.path /\ y.inode # i
       /\ Spot(q, dir) \in Shown(d)
  BY <1>7, <1>9, ShownMore
<1>11. ASSUME NEW y \in Shown(d) PROVE Intact(d, e, y.inode)
  <2>1. y.inode \in Inode /\ y.inode # i
    BY <1>10, ShownIs
  <2> QED BY <1>1, <1>2, <2>1 DEF Intact, IsDir
<1>12. e.node[i].type = type
  BY <1>1, <1>2, BlankData
<1>13. Bare(d) => Bare(e)
  <2> SUFFICES ASSUME Bare(d), NEW j \in Inode, IsDir(e, j) PROVE e.node[j].data = Empty
    BY DEF Bare
  <2>1. CASE j = i
    BY <1>1, <1>2, <1>12, <2>1, BlankData DEF IsDir
  <2>2. CASE j # i
    BY <1>1, <1>2, <2>2 DEF IsDir, Bare
  <2> QED BY <2>1, <2>2
<1>14. Shows(d, e, q, dir, name, i, type)
  BY <1>2, <1>8, <1>9, <1>10, <1>11, <1>12 DEF Shows
<1> QED BY <1>13, <1>14

LEMMA LeafShows ==
  ASSUME NEW d, NEW e, NEW i, NEW type, Healthy(d), Healthy(e), Leaf(d, e, i, type)
  PROVE  /\ \E q, dir, name : Shows(d, e, q, dir, name, i, type)
         /\ Bare(d) => Bare(e)
<1>1. PICK dir \in Inode, name \in Names \cup Special :
        Leads(d, dir) /\ LeafAt(d, e, i, type, dir, name)
  BY DEF Leaf, LeafAt
<1>2. PICK t : OnTree(d, t) /\ Last(t) = dir
  BY <1>1 DEF Leads
<1>3. PICK q : Trail(d, q, t)
  BY <1>2, TrailExists
<1> QED BY <1>1, <1>2, <1>3, LeafAtShows

(* A path that is gone.                                                    *)
Hides(d, e, q, i) ==
  /\ Shown(d) = Shown(e) \cup {Spot(q, i)} /\ q # <<>> /\ q \in Word
  /\ \A x \in Shown(e) : x.path # q /\ x.inode # i /\ Intact(d, e, x.inode)
  /\ \A x \in Shown(d) : ~Under(q, x.path)

LEMMA DropShows ==
  ASSUME NEW d, NEW e, NEW s, Healthy(d), Healthy(e), Dropped(d, e, s)
  PROVE  /\ \E q : Hides(d, e, q, Last(s))
         /\ Bare(d) => Bare(e)
<1> DEFINE n == Len(s)
           i == Last(s)
           dir == s[n - 1]
<1>1. /\ OnTree(d, s) /\ n > 1 /\ d.node[i].entries = <<>> /\ Gone(d, e, dir, i)
      /\ n \in Nat /\ n \in 1 .. Len(s) /\ s[n] = i /\ i \in Inode
  BY EndOf DEF Dropped
<1>2. PICK p : Trail(d, p, s)
  BY <1>1, TrailExists
<1>3. n = Len(p) + 1 /\ Len(p) \in Nat /\ p \in Seq(Names \cup Special)
  BY <1>2, TrailIs DEF Word
<1> DEFINE m == Len(p) - 1
           name == p[n - 1]
<1>4. PICK q, t : /\ Trail(d, q, t) /\ Len(q) = m /\ Last(t) = s[m + 1] /\ q = SubSeq(p, 1, m)
                  /\ \A k \in 1 .. m : q[k] = p[k]
  <2>1. m \in Nat /\ m <= Len(p)
    BY <1>1, <1>3
  <2> HIDE DEF m
  <2> QED BY <1>2, <2>1, TrailCut
<1>5. Last(t) = dir /\ n - 1 \in 1 .. Len(p) /\ s[n - 1] = dir /\ (n - 1) + 1 = n /\ m + 1 = n - 1
      /\ n - 1 = Len(p)
  BY <1>1, <1>3, <1>4
<1>6. Append(q, name) = p
  <2>1. q \in Seq(Names \cup Special)
    BY <1>4 DEF Trail, Word
  <2>2. name \in Names \cup Special
    BY <1>3, <1>5
  <2> DEFINE a == Append(q, name)
  <2>3. a \in Seq(Names \cup Special) /\ Len(a) = m + 1 /\ a[m + 1] = name /\ \A k \in 1 .. m : a[k] = q[k]
    BY <1>4, <2>1, <2>2
  <2> HIDE DEF a
  <2>4. \A k \in 1 .. Len(p) : a[k] = p[k]
    <3> SUFFICES ASSUME NEW k \in 1 .. Len(p) PROVE a[k] = p[k]
      OBVIOUS
    <3>1. k = m + 1 \/ k \in 1 .. m
      BY <1>3
    <3> QED BY <1>4, <1>5, <2>3, <3>1
  <2>5. a = p
    BY <1>3, <2>3, <2>4
  <2> QED BY <2>5 DEF a
<1>7. Has(d, dir, name, i) /\ dir \in Inode
  <2>1. \A k \in 1 .. Len(p) : Has(d, s[k], p[k], s[k + 1]) /\ s[k] \in Inode
    BY <1>2, TrailIs
  <2> HIDE DEF i, name
  <2>2. Has(d, s[n - 1], p[n - 1], s[(n - 1) + 1]) /\ s[n - 1] \in Inode
    BY <1>5, <2>1
  <2> QED BY <1>1, <1>5, <2>2 DEF name
<1>8. dir # i
  <2>1. Range(<<>>) = {}
    BY DEF Range
  <2> QED BY <1>1, <1>7, <2>1 DEF Has
<1>9. /\ \A j \in Inode : j # i /\ j # dir => e.node[j] = d.node[j]
      /\ \A x : x \in Range(e.node[dir].entries) <=> x \in Range(d.node[dir].entries) /\ x.inode # i
      /\ e.node[i] = Blank("none") /\ e.damaged = d.damaged
      /\ e.node[dir].type = d.node[dir].type /\ e.node[dir].data = d.node[dir].data
  BY <1>1 DEF Gone
<1> HIDE DEF n, i, dir, m, name
<1>10. Adds(e, d, dir, name, i)
  <2>0. \A a, c : Link(a, c).inode = c
    BY DEF Link
  <2>1. \A a, c : Has(e, dir, a, c) <=> Has(d, dir, a, c) /\ c # i
    BY <1>9, <2>0 DEF Has
  <2>2. \A a : Has(d, dir, a, i) <=> a = name
    BY <1>7, HasOne
  <2>3. \A a, c : ~Has(e, i, a, c) /\ ~Has(d, i, a, c)
    <3>1. e.node[i].entries = <<>> /\ d.node[i].entries = <<>>
      BY <1>1, <1>9, BlankData
    <3> QED BY <3>1 DEF Has, Range
  <2>4. ASSUME NEW j \in Inode, NEW a, NEW c
        PROVE  Has(d, j, a, c) <=> Has(e, j, a, c) \/ (j = dir /\ a = name /\ c = i)
    <3>1. j # i /\ j # dir => (Has(d, j, a, c) <=> Has(e, j, a, c))
      BY <1>9 DEF Has
    <3>2. CASE j = dir
      <4>1. Has(d, dir, a, c) <=> Has(e, dir, a, c) \/ (a = name /\ c = i)
        BY <2>1, <2>2
      <4> QED BY <3>2, <4>1
    <3>3. CASE j # dir
      BY <2>3, <3>1, <3>3
    <3> QED BY <3>2, <3>3
  <2>5. Children(d, i) = {}
    <3>1. d.node[i].entries = <<>>
      BY <1>1
    <3> QED BY <3>1 DEF Children, Range
  <2>6. \A c : ~Has(e, dir, name, c)
    <3> SUFFICES ASSUME NEW c, Has(e, dir, name, c) PROVE FALSE
      OBVIOUS
    <3>1. Has(d, dir, name, c) /\ c # i
      BY <2>1
    <3> QED BY <1>7, <3>1, HasOne
  <2> QED BY <2>4, <2>5, <2>6 DEF Adds
<1>11. Trail(e, q, t)
  <2>1. ASSUME NEW k \in 1 .. Len(q) PROVE Has(e, t[k], q[k], t[k + 1])
    <3>1. /\ Has(d, t[k], q[k], t[k + 1]) /\ t[k] \in Inode /\ k + 1 \in 1 .. Len(t) /\ OnTree(d, t)
          /\ Len(q) \in Nat /\ Len(t) = Len(q) + 1
      BY <1>4, TrailIs
    <3>2. t[k + 1] # i
      <4> SUFFICES ASSUME t[k + 1] = i PROVE FALSE
        OBVIOUS
      <4>1. k + 1 = n
        <5> DEFINE l == k + 1
        <5>1. l \in 1 .. Len(t) /\ t[l] = s[n] /\ n \in 1 .. Len(s)
          BY <1>1, <3>1
        <5> HIDE DEF l
        <5>2. l = n
          BY <1>1, <3>1, <5>1, SameDepth
        <5> QED BY <5>2 DEF l
      <4>2. Len(q) = m /\ m + 1 = n - 1 /\ k <= Len(q) /\ n \in Nat
        BY <1>1, <1>4, <1>5, <3>1
      <4> HIDE DEF n, m
      <4> QED BY <3>1, <4>1, <4>2
    <3> QED BY <1>10, <3>1, <3>2 DEF Adds
  <2> QED BY <1>4, <2>1, TrailKept
<1> DEFINE old == Spot(p, i)
<1>12. old = Spot(Append(q, name), i) /\ old.path = p
  BY <1>6, SpotIs
<1> HIDE DEF old
<1>13. /\ Shown(d) = Shown(e) \cup {old}
       /\ \A x \in Shown(e) : x.path # p /\ x.inode # i
  <2>1. /\ Shown(d) = Shown(e) \cup {old}
        /\ \A x \in Shown(e) : x.path # old.path /\ x.inode # i
    BY <1>5, <1>10, <1>11, <1>12, ShownMore
  <2> QED BY <1>12, <2>1
<1>14. ASSUME NEW x \in Shown(e) PROVE Intact(d, e, x.inode)
  <2>1. x.inode \in Inode /\ x.inode # i
    BY <1>13, ShownIs
  <2> QED BY <1>9, <2>1 DEF Intact
<1>15. ASSUME NEW x \in Shown(d), Under(p, x.path) PROVE FALSE
  <2> DEFINE r == x.path
             l == Len(p)
  <2>1. PICK u : Trail(d, r, u)
    BY ShownIs
  <2>2. Len(r) \in Nat /\ \A k \in 1 .. Len(r) : Has(d, u[k], r[k], u[k + 1])
    BY <2>1, TrailIs
  <2> HIDE DEF r, l
  <2>3. l \in Nat /\ l <= Len(r) /\ l < Len(r) /\ SubSeq(r, 1, l) = p
    BY <1>3, <1>15, <2>2 DEF Under, r, l
  <2>4. PICK v, w : Trail(d, v, w) /\ Last(w) = u[l + 1] /\ v = SubSeq(r, 1, l)
    BY <2>1, <2>3, TrailCut
  <2>5. v = p /\ w = s
    <3>1. v = p
      BY <2>3, <2>4
    <3> QED BY <1>2, <2>4, <3>1, OneTrail
  <2>6. u[l + 1] = i
    BY <2>4, <2>5 DEF i
  <2>7. l + 1 \in 1 .. Len(r)
    BY <2>2, <2>3
  <2>8. Has(d, i, r[l + 1], u[(l + 1) + 1])
    BY <2>2, <2>6, <2>7
  <2>9. Range(<<>>) = {}
    BY DEF Range
  <2> QED BY <1>1, <2>8, <2>9 DEF Has
<1>16. Bare(d) => Bare(e)
  <2>1. ~IsDir(e, i)
    BY <1>9, BlankData DEF IsDir
  <2> QED BY <1>1, <1>7, <1>9, <2>1 DEF Bare, IsDir
<1>17. p # <<>> /\ p \in Word
  BY <1>1, <1>3 DEF Word, n
<1>18. Hides(d, e, p, i)
  BY <1>12, <1>13, <1>14, <1>15, <1>17 DEF Hides, old
<1> QED BY <1>16, <1>18 DEF i

(* A directory without what was in it.                                     *)
Keeps(d, e, q, i) ==
  /\ Shown(e) = {x \in Shown(d) : ~Under(q, x.path)}
  /\ Spot(q, i) \in Shown(e) /\ Spot(q, i) \in Shown(d) /\ IsDir(d, i)
  /\ \A x \in Shown(e) : Intact(d, e, x.inode)

LEMMA ClearShows ==
  ASSUME NEW d, NEW e, NEW s, Healthy(d), Healthy(e), OnTree(d, s), IsDir(d, Last(s)),
         Cleared(d, e, Last(s))
  PROVE  /\ \E q : Keeps(d, e, q, Last(s))
         /\ Bare(d) => Bare(e)
<1> DEFINE i == Last(s)
<1>1. PICK q : Trail(d, q, s)
  BY TrailExists
<1>2. i \in Inode
  BY EndOf
<1>3. Last(s) = i
  OBVIOUS
<1> HIDE DEF i
<1>4. /\ Shown(e) = {x \in Shown(d) : ~Under(q, x.path)}
      /\ Spot(q, i) \in Shown(e) /\ Spot(q, i) \in Shown(d)
      /\ \A x \in Shown(e) : x.inode = i \/ e.node[x.inode] = d.node[x.inode]
  BY <1>1, <1>3, ShownLess
<1>5. /\ e.node[i].type = "dir" /\ e.node[i].data = d.node[i].data /\ e.damaged = d.damaged
      /\ \A j \in Inode : j \notin Below(d, i) /\ j # i => e.node[j] = d.node[j]
      /\ \A j \in Below(d, i) \ {i} : e.node[j] = Blank("none")
  BY <1>3 DEF Cleared
<1>6. IsDir(d, i)
  BY <1>3
<1>7. \A x \in Shown(e) : Intact(d, e, x.inode)
  BY <1>4, <1>5, <1>6 DEF Intact, IsDir
<1>8. Bare(d) => Bare(e)
  <2> SUFFICES ASSUME Bare(d), NEW j \in Inode, IsDir(e, j) PROVE e.node[j].data = Empty
    BY DEF Bare
  <2>1. CASE j = i
    BY <1>2, <1>5, <1>6, <2>1 DEF Bare
  <2>2. CASE j # i
    <3>1. j \notin Below(d, i)
      BY <1>5, <2>2, BlankData DEF IsDir
    <3> QED BY <1>5, <2>2, <3>1 DEF Bare, IsDir
  <2> QED BY <2>1, <2>2
<1> QED BY <1>3, <1>4, <1>6, <1>7, <1>8 DEF Keeps

(* Listing finds what a disk shows, level by level.                        *)
Further(d, above) ==
  above \cup UNION {{[path |-> Append(x.path, e.name), inode |-> e.inode] :
                       e \in Range(d.node[x.inode].entries)} : x \in above}
IsLevel(g, n, d) ==
  g = [m \in 0 .. n |-> IF m = 0 THEN {[path |-> <<>>, inode |-> Root]} ELSE Further(d, g[m - 1])]

LEMMA LevelAt ==
  ASSUME NEW g, NEW n \in Nat, NEW d, IsLevel(g, n, d)
  PROVE  /\ g[0] = {Spot(<<>>, Root)}
         /\ \A m \in 1 .. n : g[m] = Further(d, g[m - 1])
<1> DEFINE F(m) == IF m = 0 THEN {[path |-> <<>>, inode |-> Root]} ELSE Further(d, g[m - 1])
<1>1. g = [m \in 0 .. n |-> F(m)]
  BY DEF IsLevel
<1> HIDE DEF F
<1>2. \A m \in 0 .. n : g[m] = F(m)
  BY <1>1
<1>3. 0 \in 0 .. n /\ \A m \in 1 .. n : m \in 0 .. n /\ m # 0
  OBVIOUS
<1>4. g[0] = F(0) /\ F(0) = {[path |-> <<>>, inode |-> Root]}
  BY <1>2, <1>3 DEF F
<1> QED BY <1>2, <1>3, <1>4 DEF F, Spot

LEMMA LevelExists ==
  ASSUME NEW d
  PROVE  \A n \in Nat : \E g : IsLevel(g, n, d)
<1> DEFINE T == {n \in Nat : \E g : IsLevel(g, n, d)}
           first == {[path |-> <<>>, inode |-> Root]}
<1>1. 0 \in T
  <2> DEFINE g == [m \in 0 .. 0 |-> first]
  <2>1. g = [m \in 0 .. 0 |-> IF m = 0 THEN first ELSE Further(d, g[m - 1])]
    OBVIOUS
  <2> QED BY <2>1 DEF IsLevel
<1>2. ASSUME NEW n \in Nat, n \in T PROVE n + 1 \in T
  <2>1. PICK g : IsLevel(g, n, d)
    BY <1>2
  <2> DEFINE h == [m \in 0 .. n + 1 |-> IF m = n + 1 THEN Further(d, g[n]) ELSE g[m]]
             F(m) == IF m = 0 THEN first ELSE Further(d, h[m - 1])
  <2>2. ASSUME NEW m \in 0 .. n + 1 PROVE h[m] = F(m)
    <3>1. CASE m = n + 1
      <4>1. h[m - 1] = g[n] /\ m # 0
        BY <3>1
      <4> QED BY <3>1, <4>1
    <3>2. CASE m # n + 1 /\ m = 0
      BY <2>1, <3>2, LevelAt DEF Spot
    <3>3. CASE m # n + 1 /\ m # 0
      <4>1. m \in 1 .. n /\ m - 1 \in 0 .. n + 1 /\ m - 1 # n + 1
        BY <3>3
      <4>2. h[m] = g[m] /\ h[m - 1] = g[m - 1]
        BY <4>1, <3>3
      <4>3. g[m] = Further(d, g[m - 1])
        BY <2>1, <4>1, LevelAt
      <4> HIDE DEF h
      <4> QED BY <3>3, <4>2, <4>3
    <3> QED BY <3>1, <3>2, <3>3
  <2>3. h = [m \in 0 .. n + 1 |-> F(m)]
    BY <2>2
  <2> HIDE DEF h
  <2>4. IsLevel(h, n + 1, d)
    BY <2>3 DEF IsLevel
  <2> QED BY <2>4
<1> HIDE DEF T
<1>3. Nat \subseteq T
  BY <1>1, <1>2, Induct
<1> QED BY <1>3 DEF T

LEMMA FurtherIs ==
  ASSUME NEW d, NEW L, NEW y, Healthy(d), \A x \in L : x.inode \in Inode
  PROVE  y \in Further(d, L) <=>
           \/ y \in L
           \/ \E x \in L : \E n, c : Has(d, x.inode, n, c) /\ y = Spot(Append(x.path, n), c)
<1> DEFINE R(x) == Range(d.node[x.inode].entries)
<1>1. y \in Further(d, L) <=>
        \/ y \in L
        \/ \E x \in L : \E e \in R(x) : y = Spot(Append(x.path, e.name), e.inode)
  BY DEF Further, Spot
<1>2. ASSUME NEW x \in L, NEW e \in R(x) PROVE e = Link(e.name, e.inode)
  <2>1. x.inode \in Inode
    OBVIOUS
  <2>2. e \in Entry
    BY <2>1, NodeIs DEF Healthy, Range
  <2> QED BY <2>2 DEF Entry, Link
<1>3. \A n, c : Link(n, c).name = n /\ Link(n, c).inode = c
  BY DEF Link
<1>4. ASSUME NEW x \in L
      PROVE  (\E e \in R(x) : y = Spot(Append(x.path, e.name), e.inode)) <=>
               \E n, c : Has(d, x.inode, n, c) /\ y = Spot(Append(x.path, n), c)
  <2>1. ASSUME NEW e \in R(x), y = Spot(Append(x.path, e.name), e.inode)
        PROVE  \E n, c : Has(d, x.inode, n, c) /\ y = Spot(Append(x.path, n), c)
    <3>1. Has(d, x.inode, e.name, e.inode)
      BY <1>2 DEF Has
    <3> QED BY <2>1, <3>1
  <2>2. ASSUME NEW n, NEW c, Has(d, x.inode, n, c), y = Spot(Append(x.path, n), c)
        PROVE  \E e \in R(x) : y = Spot(Append(x.path, e.name), e.inode)
    <3>1. Link(n, c) \in R(x)
      BY <2>2 DEF Has
    <3> QED BY <1>3, <2>2, <3>1
  <2> QED BY <2>1, <2>2
<1> QED BY <1>1, <1>4

LEMMA LevelIs ==
  ASSUME NEW d, NEW g, NEW n \in Nat, Healthy(d), IsLevel(g, n, d)
  PROVE  g[n] = {x \in Shown(d) : Len(x.path) <= n}
<1> DEFINE S(m) == {x \in Shown(d) : Len(x.path) <= m}
           T == {m \in Nat : m <= n => g[m] = S(m)}
<1>1. g[0] = {Spot(<<>>, Root)} /\ \A m \in 1 .. n : g[m] = Further(d, g[m - 1])
  BY LevelAt
<1>2. 0 \in T
  <2>1. ASSUME NEW x \in Shown(d), Len(x.path) <= 0 PROVE x = Spot(<<>>, Root)
    <3>1. PICK s : Trail(d, x.path, s) /\ Last(s) = x.inode
      BY ShownIs
    <3> DEFINE p == x.path
    <3>2. /\ p \in Seq(Names \cup Special) /\ Len(p) \in Nat /\ Len(s) = Len(p) + 1 /\ s[1] = Root
          /\ s[Len(s)] = Last(s)
      BY <3>1, TrailIs DEF Word, OnTree
    <3>3. x = Spot(p, x.inode) /\ Last(s) = x.inode /\ Len(p) <= 0
      BY <2>1, <3>1, ShownIs
    <3> HIDE DEF p
    <3>4. Len(p) = 0 /\ p = <<>>
      BY <3>2, <3>3
    <3>5. Last(s) = Root
      BY <3>2, <3>4
    <3> QED BY <3>3, <3>4, <3>5
  <2>2. Spot(<<>>, Root) \in Shown(d) /\ Len(Spot(<<>>, Root).path) <= 0
    <3> DEFINE e == <<>>
               s == <<Root>>
    <3>1. e \in Seq(Names \cup Special) /\ Len(e) = 0
      OBVIOUS
    <3>2. s \in Seq(Inode) /\ Len(s) = 1 /\ s[1] = Root
      BY InodeAssumption
    <3> HIDE DEF e, s
    <3>3. Trail(d, e, s) /\ Last(s) = Root
      BY <3>1, <3>2 DEF Trail, Word, Last
    <3>4. Spot(e, Root) \in Shown(d) /\ Len(Spot(e, Root).path) <= 0
      BY <3>1, <3>3, ShownIs, SpotIs
    <3> QED BY <3>4 DEF e
  <2> QED BY <1>1, <2>1, <2>2
<1>3. ASSUME NEW m \in Nat, m \in T PROVE m + 1 \in T
  <2> SUFFICES ASSUME m + 1 <= n PROVE g[m + 1] = S(m + 1)
    OBVIOUS
  <2> DEFINE L == S(m)
  <2>1. m + 1 \in 1 .. n /\ (m + 1) - 1 = m /\ m <= n
    OBVIOUS
  <2>2. g[m + 1] = Further(d, L)
    BY <1>1, <1>3, <2>1
  <2>3. \A x \in L : x.inode \in Inode
    BY ShownIs
  <2>4. ASSUME NEW y \in Further(d, L) PROVE y \in S(m + 1)
    <3>1. CASE y \in L
      <4>1. y \in Shown(d) /\ Len(y.path) <= m /\ y.path \in Word
        BY <3>1, ShownIs
      <4>2. Len(y.path) \in Nat
        BY <4>1 DEF Word
      <4> QED BY <4>1, <4>2
    <3>2. CASE y \notin L
      <4> HIDE DEF L
      <4>1. PICK x \in L : \E a, c : Has(d, x.inode, a, c) /\ y = Spot(Append(x.path, a), c)
        BY <2>3, <3>2, FurtherIs
      <4>2. PICK a, c : Has(d, x.inode, a, c) /\ y = Spot(Append(x.path, a), c)
        BY <4>1
      <4>3. x \in Shown(d) /\ Len(x.path) <= m
        BY DEF L
      <4>4. PICK s : Trail(d, x.path, s) /\ Last(s) = x.inode
        BY <4>3, ShownIs
      <4> DEFINE p == x.path
                 q == Append(p, a)
                 t == Append(s, c)
      <4>5. Trail(d, p, s) /\ Has(d, Last(s), a, c) /\ Len(p) \in Nat /\ Len(p) <= m
        BY <4>2, <4>3, <4>4, TrailIs
      <4> HIDE DEF p
      <4>6. Trail(d, q, t) /\ Last(t) = c /\ Len(q) = Len(p) + 1
        BY <4>5, TrailAppend
      <4>7. y = Spot(q, c)
        BY <4>2 DEF p
      <4> HIDE DEF q, t
      <4>8. y \in Shown(d) /\ y.path = q
        BY <4>6, <4>7, ShownIs, SpotIs
      <4>9. Len(q) <= m + 1
        BY <4>5, <4>6
      <4> QED BY <4>8, <4>9
    <3> QED BY <3>1, <3>2
  <2>5. ASSUME NEW y \in S(m + 1) PROVE y \in Further(d, L)
    <3>1. CASE y \in L
      <4> HIDE DEF L
      <4> QED BY <2>3, <3>1, FurtherIs
    <3>2. CASE y \notin L
      <4>1. PICK u : Trail(d, y.path, u) /\ Last(u) = y.inode
        BY ShownIs
      <4> DEFINE r == y.path
      <4>2. /\ Len(r) \in Nat /\ Len(u) = Len(r) + 1 /\ r \in Seq(Names \cup Special)
            /\ u[Len(u)] = Last(u)
            /\ \A k \in 1 .. Len(r) : Has(d, u[k], r[k], u[k + 1])
        BY <4>1, TrailIs DEF Word
      <4>3. Len(r) = m + 1
        BY <3>2, <4>2
      <4>4. y = Spot(r, y.inode)
        BY ShownIs
      <4> HIDE DEF r, L
      <4>5. m \in Nat /\ m <= Len(r) /\ Trail(d, r, u)
        BY <4>1, <4>3 DEF r
      <4>6. PICK p, t : /\ Trail(d, p, t) /\ Len(p) = m /\ Last(t) = u[m + 1]
                        /\ \A k \in 1 .. m : p[k] = r[k]
        BY <4>5, TrailCut
      <4> DEFINE x == Spot(p, Last(t))
                 a == r[m + 1]
                 c == y.inode
                 q == Append(p, a)
                 i == Last(t)
      <4>7. x \in Shown(d) /\ x.path = p /\ x.inode = i
        BY <4>6, ShownIs, SpotIs
      <4>8. x \in L
        BY <4>6, <4>7 DEF L
      <4>9. Has(d, i, a, c)
        <5>1. m + 1 \in 1 .. Len(r) /\ Len(u) = m + 2 /\ (m + 1) + 1 = m + 2
          BY <4>2, <4>3
        <5>2. Has(d, u[m + 1], r[m + 1], u[(m + 1) + 1])
          BY <4>2, <5>1
        <5> QED BY <4>1, <4>2, <4>6, <5>1, <5>2
      <4>10. q = r
        <5>1. p \in Seq(Names \cup Special)
          BY <4>6 DEF Trail, Word
        <5>2. a \in Names \cup Special
          BY <4>2, <4>3
        <5>3. q \in Seq(Names \cup Special) /\ Len(q) = m + 1 /\ q[m + 1] = a
              /\ \A k \in 1 .. m : q[k] = p[k]
          BY <4>6, <5>1, <5>2
        <5> HIDE DEF q
        <5>4. \A k \in 1 .. m + 1 : q[k] = r[k]
          <6> SUFFICES ASSUME NEW k \in 1 .. m + 1 PROVE q[k] = r[k]
            OBVIOUS
          <6>1. k = m + 1 \/ k \in 1 .. m
            OBVIOUS
          <6> QED BY <4>6, <5>3, <6>1
        <5> QED BY <4>2, <4>3, <5>3, <5>4
      <4> HIDE DEF x, a, c, q, i
      <4>11. y = Spot(q, c) /\ q = Append(x.path, a) /\ Has(d, x.inode, a, c)
        <5>1. q = Append(p, a)
          BY DEF q
        <5> QED BY <4>4, <4>7, <4>9, <4>10, <5>1 DEF c
      <4> QED BY <2>3, <4>8, <4>11, FurtherIs
    <3> QED BY <3>1, <3>2
  <2> QED BY <2>2, <2>4, <2>5
<1> HIDE DEF T
<1>4. n \in T /\ n <= n
  <2>1. Nat \subseteq T
    BY <1>2, <1>3, Induct
  <2> QED BY <2>1
<1> QED BY <1>4 DEF T

LEMMA ListingIs == Healthy(disk) => Listing = Shown(disk)
<1> SUFFICES ASSUME Healthy(disk) PROVE Listing = Shown(disk)
  OBVIOUS
<1> DEFINE n == Cardinality(Inode)
           g == CHOOSE g : IsLevel(g, n, disk)
<1>1. n \in Nat
  BY FS_CardinalityType, InodeAssumption
<1>2. IsLevel(g, n, disk)
  BY <1>1, LevelExists
<1>3. Listing = g[n]
  BY DEF Listing, IsLevel, Further
<1> HIDE DEF n, g
<1>4. g[n] = {x \in Shown(disk) : Len(x.path) <= n}
  BY <1>1, <1>2, LevelIs
<1>5. ASSUME NEW x \in Shown(disk) PROVE Len(x.path) <= n
  <2>1. PICK s : Trail(disk, x.path, s)
    BY ShownIs
  <2> DEFINE l == Len(x.path)
  <2>2. OnTree(disk, s) /\ l \in Nat /\ Len(s) = l + 1
    BY <2>1, TrailIs
  <2>3. Len(s) <= n
    BY <2>2, ShortStack DEF n
  <2> HIDE DEF l, n
  <2>4. l <= n
    BY <1>1, <2>2, <2>3
  <2> QED BY <2>4 DEF l
<1> QED BY <1>3, <1>4, <1>5
-----------------------------------------------------------------------------
(* The tree of names that a disk shows.                                    *)

Labelled(p, type) == [path |-> p, type |-> type]
Seen(d, x) == Labelled(x.path, d.node[x.inode].type)
NodesOf(d) == {Seen(d, x) : x \in Shown(d)}

LEMMA SeenIs ==
  ASSUME NEW d, NEW x
  PROVE  Seen(d, x).path = x.path /\ Seen(d, x).type = d.node[x.inode].type
BY DEF Seen, Labelled

LEMMA SeenSame ==
  ASSUME NEW d, NEW e, NEW x, Intact(d, e, x.inode)
  PROVE  Seen(e, x) = Seen(d, x)
BY DEF Intact, Seen, Labelled

LEMMA NodesSame ==
  ASSUME NEW d, NEW e, Shown(e) = Shown(d), \A x \in Shown(d) : Intact(d, e, x.inode)
  PROVE  NodesOf(e) = NodesOf(d)
<1>1. \A x \in Shown(d) : Seen(e, x) = Seen(d, x)
  BY SeenSame
<1> QED BY <1>1 DEF NodesOf

LEMMA NodesMore ==
  ASSUME NEW d, NEW e, NEW q, NEW dir, NEW name, NEW i, NEW type, Healthy(d),
         Shows(d, e, q, dir, name, i, type), NEW n, n = Labelled(Append(q, name), type)
  PROVE  /\ NodesOf(e) = NodesOf(d) \cup {n} /\ n \notin NodesOf(d)
         /\ n.type = type /\ n.path = Append(q, name) /\ n.path # <<>>
         /\ \A m \in NodesOf(d) : m.path # n.path
         /\ n.path[Len(n.path)] \in Names \cup Special
         /\ SubSeq(n.path, 1, Len(n.path) - 1) = q
         /\ \E m \in NodesOf(d) : m.path = q /\ m.type = "dir"
<1> DEFINE new == Spot(Append(q, name), i)
<1>1. /\ new.path = Append(q, name) /\ new.inode = i
      /\ Spot(q, dir).path = q /\ Spot(q, dir).inode = dir
  BY SpotIs
<1> HIDE DEF new
<1>2. /\ Shown(e) = Shown(d) \cup {new}
      /\ \A x \in Shown(d) : x.path # new.path /\ x.inode # i /\ Intact(d, e, x.inode)
      /\ Spot(q, dir) \in Shown(d) /\ IsDir(d, dir) /\ name \in Names \cup Special
      /\ e.node[i].type = type
  BY <1>1 DEF Shows, new
<1>3. Seen(e, new) = n /\ n.path = new.path /\ n.type = type
  BY <1>1, <1>2 DEF Seen, Labelled
<1>4. \A x \in Shown(d) : Seen(e, x) = Seen(d, x) /\ Seen(d, x).path = x.path
  BY <1>2, SeenSame, SeenIs
<1>5. NodesOf(e) = NodesOf(d) \cup {n}
  BY <1>2, <1>3, <1>4 DEF NodesOf
<1>6. \A m \in NodesOf(d) : m.path # n.path
  BY <1>2, <1>3, <1>4 DEF NodesOf
<1>7. q \in Seq(Names \cup Special)
  BY <1>1, <1>2, ShownIs DEF Word
<1> DEFINE p == Append(q, name)
<1>8. p # <<>> /\ p[Len(p)] \in Names \cup Special /\ SubSeq(p, 1, Len(p) - 1) = q
  <2>1. /\ p \in Seq(Names \cup Special) /\ Len(p) = Len(q) + 1 /\ p[Len(q) + 1] = name
        /\ \A k \in 1 .. Len(q) : p[k] = q[k]
        /\ Len(q) \in Nat
    BY <1>2, <1>7
  <2> HIDE DEF p
  <2> DEFINE r == SubSeq(p, 1, Len(p) - 1)
             l == Len(q)
  <2>2. Len(p) = l + 1 /\ l \in Nat /\ Len(p) - 1 = l
    BY <2>1
  <2>3. r \in Seq(Names \cup Special) /\ Len(r) = l /\ \A k \in 1 .. l : r[k] = p[k]
    BY <2>1, <2>2
  <2> HIDE DEF r
  <2>4. r = q
    BY <1>7, <2>1, <2>3
  <2>5. p # <<>>
    BY <2>1
  <2>6. p[Len(p)] \in Names \cup Special
    BY <1>2, <2>1
  <2> QED BY <2>4, <2>5, <2>6 DEF r
<1>9. \E m \in NodesOf(d) : m.path = q /\ m.type = "dir"
  <2>1. Seen(d, Spot(q, dir)).path = q /\ Seen(d, Spot(q, dir)).type = "dir"
    BY <1>1, <1>2, SeenIs DEF IsDir
  <2> QED BY <1>2, <2>1 DEF NodesOf
<1> HIDE DEF p
<1>10. n.path = p
  BY <1>1, <1>3 DEF p
<1>11. n \notin NodesOf(d)
  BY <1>6
<1> QED BY <1>3, <1>5, <1>6, <1>8, <1>9, <1>10, <1>11 DEF p

(* A path and what is under it.                                            *)
LEMMA UnderIs ==
  ASSUME NEW p \in Word, NEW q \in Word
  PROVE  (Len(p) >= Len(q) /\ SubSeq(p, 1, Len(q)) = q) <=> (p = q \/ Under(q, p))
<1> DEFINE m == Len(p)
           n == Len(q)
           r == SubSeq(p, 1, n)
<1>1. m \in Nat /\ n \in Nat /\ p \in Seq(Names \cup Special) /\ q \in Seq(Names \cup Special)
  BY DEF Word
<1>2. m >= n => r \in Seq(Names \cup Special) /\ Len(r) = n /\ \A k \in 1 .. n : r[k] = p[k]
  BY <1>1
<1> HIDE DEF r
<1>3. ASSUME p = q PROVE m >= n /\ r = q
  <2>1. m = n /\ m >= n
    BY <1>1, <1>3
  <2>2. \A k \in 1 .. n : r[k] = q[k]
    BY <1>2, <1>3, <2>1
  <2> QED BY <1>1, <1>2, <2>1, <2>2
<1>4. ASSUME m >= n, r = q, ~(m > n) PROVE p = q
  <2>1. m = n
    BY <1>1, <1>4
  <2>2. \A k \in 1 .. n : p[k] = q[k]
    BY <1>2, <1>4
  <2> QED BY <1>1, <2>1, <2>2
<1>5. Under(q, p) <=> m > n /\ r = q
  BY DEF Under, r
<1>6. m > n => m >= n
  BY <1>1
<1> HIDE DEF m, n
<1> QED BY <1>3, <1>4, <1>5, <1>6 DEF m, n, r

LEMMA NodesFewer ==
  ASSUME NEW d, NEW e, NEW q, NEW i, Healthy(d), Healthy(e), Hides(d, e, q, i),
         NEW m, m = Labelled(q, d.node[i].type)
  PROVE  /\ NodesOf(d) = NodesOf(e) \cup {m} /\ m \notin NodesOf(e)
         /\ m.path = q /\ q # <<>> /\ m.type = d.node[i].type
         /\ \A n \in NodesOf(d) : n.path \in Word /\ ~Under(q, n.path)
         /\ \A n \in NodesOf(d) : n.path = q => n = m
         /\ q \in Word
<1> DEFINE old == Spot(q, i)
<1>1. old.path = q /\ old.inode = i
  BY SpotIs
<1> HIDE DEF old
<1>2. /\ Shown(d) = Shown(e) \cup {old} /\ q # <<>> /\ q \in Word
      /\ \A x \in Shown(e) : x.path # q /\ x.inode # i /\ Intact(d, e, x.inode)
      /\ \A x \in Shown(d) : ~Under(q, x.path)
  BY DEF Hides, old
<1>3. Seen(d, old) = m /\ m.path = q /\ m.type = d.node[i].type
  BY <1>1 DEF Seen, Labelled
<1>4. \A x \in Shown(e) : Seen(e, x) = Seen(d, x)
  BY <1>2, SeenSame
<1>5. \A x : Seen(d, x).path = x.path /\ Seen(e, x).path = x.path
  BY SeenIs
<1>6. NodesOf(d) = NodesOf(e) \cup {m}
  BY <1>2, <1>3, <1>4 DEF NodesOf
<1>7. \A n \in NodesOf(e) : n.path # q
  BY <1>2, <1>5 DEF NodesOf
<1>8. \A n \in NodesOf(d) : n.path \in Word /\ ~Under(q, n.path)
  <2>1. \A x \in Shown(d) : x.path \in Word
    BY ShownIs
  <2> QED BY <1>2, <1>5, <2>1 DEF NodesOf
<1> QED BY <1>2, <1>3, <1>6, <1>7, <1>8

LEMMA NodesKept ==
  ASSUME NEW d, NEW e, NEW q, NEW i, Healthy(d), Healthy(e), Keeps(d, e, q, i)
  PROVE  /\ NodesOf(e) = {n \in NodesOf(d) : ~Under(q, n.path)}
         /\ \E n \in NodesOf(d) : n.path = q /\ n.type = "dir"
         /\ \A n \in NodesOf(d) : n.path \in Word
<1>1. /\ Shown(e) = {x \in Shown(d) : ~Under(q, x.path)}
      /\ Spot(q, i) \in Shown(e) /\ Spot(q, i) \in Shown(d) /\ IsDir(d, i)
      /\ \A x \in Shown(e) : Intact(d, e, x.inode)
  BY DEF Keeps
<1>2. \A x \in Shown(e) : Seen(e, x) = Seen(d, x)
  BY <1>1, SeenSame
<1>3. \A x : Seen(d, x).path = x.path /\ Seen(e, x).path = x.path
  BY SeenIs
<1>4. NodesOf(e) = {n \in NodesOf(d) : ~Under(q, n.path)}
  <2>1. ASSUME NEW n \in NodesOf(e) PROVE n \in NodesOf(d) /\ ~Under(q, n.path)
    <3>1. PICK x \in Shown(e) : n = Seen(e, x)
      BY DEF NodesOf
    <3> QED BY <1>1, <1>2, <1>3, <3>1 DEF NodesOf
  <2>2. ASSUME NEW n \in NodesOf(d), ~Under(q, n.path) PROVE n \in NodesOf(e)
    <3>1. PICK x \in Shown(d) : n = Seen(d, x)
      BY DEF NodesOf
    <3>2. x \in Shown(e)
      BY <1>1, <1>3, <2>2, <3>1
    <3> QED BY <1>2, <3>1, <3>2 DEF NodesOf
  <2> QED BY <2>1, <2>2
<1>5. \E n \in NodesOf(d) : n.path = q /\ n.type = "dir"
  <2>1. Seen(d, Spot(q, i)).path = q /\ Seen(d, Spot(q, i)).type = "dir"
    BY <1>1, SeenIs, SpotIs DEF IsDir
  <2> QED BY <1>1, <2>1 DEF NodesOf
<1>6. \A n \in NodesOf(d) : n.path \in Word
  <2>1. \A x \in Shown(d) : x.path \in Word
    BY ShownIs
  <2> QED BY <1>3, <2>1 DEF NodesOf
<1> QED BY <1>4, <1>5, <1>6

(* The steps of NameTree between two trees.                                *)
TakenIn(a) == {n.path : n \in a}
DirsIn(a) == {n.path : n \in {m \in a : m.type = "dir"}}
LeafOf(a, n) ==
  /\ n.path # <<>> /\ n.path \notin TakenIn(a)
  /\ n.path[Len(n.path)] \in Names \cup Special
  /\ SubSeq(n.path, 1, Len(n.path) - 1) \in DirsIn(a)
Prefixed(a, q) == {m \in a : Len(m.path) >= Len(q) /\ SubSeq(m.path, 1, Len(q)) = q}
Creates(a, b) ==
  /\ a \ b = {}
  /\ \E n \in b \ a : b \ a = {n} /\ LeafOf(a, n) /\ n.type \in {"dir", "normal"}
Removes(a, b) ==
  b \ a = {} /\ \E n \in a \ b : n.path # <<>> /\ a \ b = Prefixed(a, n.path)
Clears(a, b) ==
  b \ a = {} /\ \E q \in DirsIn(a) : a \ b = {m \in a : Under(q, m.path)}
Renames(a, b) ==
  \E n \in b \ a, m \in a \ b :
    b \ a = {n} /\ LeafOf(a, n) /\ a \ b = {m} /\ n.type = "normal" /\ m.type = "normal"

LEMMA LeafSteps ==
  ASSUME NEW d, NEW e, NEW i, NEW type \in {"dir", "normal"}, Healthy(d), Healthy(e),
         Leaf(d, e, i, type)
  PROVE  Creates(NodesOf(d), NodesOf(e))
<1>1. PICK q, dir, name : Shows(d, e, q, dir, name, i, type)
  BY LeafShows
<1> DEFINE n == Labelled(Append(q, name), type)
           a == NodesOf(d)
           b == NodesOf(e)
<1>2. n = Labelled(Append(q, name), type)
  OBVIOUS
<1> HIDE DEF n
<1>3. /\ b = a \cup {n} /\ n \notin a /\ n.type = type /\ n.path # <<>>
      /\ \A m \in a : m.path # n.path
      /\ n.path[Len(n.path)] \in Names \cup Special
      /\ SubSeq(n.path, 1, Len(n.path) - 1) = q
      /\ \E m \in a : m.path = q /\ m.type = "dir"
  BY <1>1, <1>2, NodesMore
<1> HIDE DEF a, b
<1>4. LeafOf(a, n)
  BY <1>3 DEF LeafOf, TakenIn, DirsIn
<1>5. a \ b = {} /\ b \ a = {n} /\ n \in b \ a
  BY <1>3
<1>6. Creates(a, b)
  BY <1>3, <1>4, <1>5 DEF Creates
<1> QED BY <1>6 DEF a, b

LEMMA DropSteps ==
  ASSUME NEW d, NEW e, NEW s, Healthy(d), Healthy(e), Dropped(d, e, s)
  PROVE  Removes(NodesOf(d), NodesOf(e))
<1> DEFINE i == Last(s)
<1>1. PICK q : Hides(d, e, q, i)
  BY DropShows
<1> DEFINE m == Labelled(q, d.node[i].type)
           a == NodesOf(d)
           b == NodesOf(e)
<1> HIDE DEF i
<1>2. m = Labelled(q, d.node[i].type)
  OBVIOUS
<1> HIDE DEF m
<1>3. /\ a = b \cup {m} /\ m \notin b /\ m.path = q /\ q # <<>> /\ q \in Word
      /\ \A n \in a : n.path \in Word /\ ~Under(q, n.path)
      /\ \A n \in a : n.path = q => n = m
  BY <1>1, <1>2, NodesFewer
<1> HIDE DEF a, b
<1>4. Prefixed(a, q) = {m}
  <2>1. \A n \in a : (Len(n.path) >= Len(q) /\ SubSeq(n.path, 1, Len(q)) = q) <=> n = m
    <3> SUFFICES ASSUME NEW n \in a
                 PROVE  (Len(n.path) >= Len(q) /\ SubSeq(n.path, 1, Len(q)) = q) <=> n = m
      OBVIOUS
    <3> DEFINE p == n.path
    <3>1. p \in Word /\ ~Under(q, p) /\ (p = q <=> n = m)
      BY <1>3
    <3> HIDE DEF p
    <3>2. (Len(p) >= Len(q) /\ SubSeq(p, 1, Len(q)) = q) <=> (p = q \/ Under(q, p))
      BY <1>3, <3>1, UnderIs
    <3> QED BY <3>1, <3>2 DEF p
  <2>2. m \in a
    BY <1>3
  <2> QED BY <2>1, <2>2 DEF Prefixed
<1>5. b \ a = {} /\ a \ b = {m} /\ m \in a \ b
  BY <1>3
<1>6. Removes(a, b)
  BY <1>3, <1>4, <1>5 DEF Removes
<1> QED BY <1>6 DEF a, b

LEMMA ClearSteps ==
  ASSUME NEW d, NEW e, NEW s, Healthy(d), Healthy(e), OnTree(d, s), IsDir(d, Last(s)),
         Cleared(d, e, Last(s))
  PROVE  Clears(NodesOf(d), NodesOf(e))
<1> DEFINE i == Last(s)
           a == NodesOf(d)
           b == NodesOf(e)
<1>1. PICK q : Keeps(d, e, q, i)
  BY ClearShows
<1> HIDE DEF i
<1>2. /\ b = {n \in a : ~Under(q, n.path)}
      /\ \E n \in a : n.path = q /\ n.type = "dir"
  BY <1>1, NodesKept
<1> HIDE DEF a, b
<1>3. q \in DirsIn(a) /\ b \ a = {} /\ a \ b = {m \in a : Under(q, m.path)}
  BY <1>2 DEF DirsIn
<1>4. Clears(a, b)
  BY <1>3 DEF Clears
<1> QED BY <1>4 DEF a, b

(* rm of a directory that can be found again.                              *)
LEMMA PruneSteps ==
  ASSUME NEW d, NEW b, NEW e, NEW s, Healthy(d), Healthy(b), Healthy(e), OnTree(d, s),
         IsDir(d, Last(s)), Cleared(d, b, Last(s)), Dropped(b, e, s)
  PROVE  Removes(NodesOf(d), NodesOf(e))
<1> DEFINE i == Last(s)
           A == NodesOf(d)
           B == NodesOf(b)
           C == NodesOf(e)
<1>1. PICK q : Keeps(d, b, q, i)
  BY ClearShows
<1>2. PICK p : Hides(b, e, p, i)
  BY DropShows
<1> HIDE DEF i
<1>3. p = q
  <2>1. Spot(q, i) \in Shown(b) /\ Spot(p, i) \in Shown(b)
    BY <1>1, <1>2 DEF Keeps, Hides
  <2>2. Spot(q, i).inode = i /\ Spot(p, i).inode = i /\ Spot(q, i).path = q /\ Spot(p, i).path = p
    BY SpotIs
  <2>3. Spot(q, i) = Spot(p, i)
    BY <2>1, <2>2, OneSpot
  <2> QED BY <2>2, <2>3
<1>4. /\ B = {n \in A : ~Under(q, n.path)} /\ \A n \in A : n.path \in Word
  BY <1>1, NodesKept
<1> DEFINE m == Labelled(q, b.node[i].type)
<1>5. m = Labelled(q, b.node[i].type) /\ Hides(b, e, q, i)
  BY <1>2, <1>3
<1> HIDE DEF m
<1>6. /\ B = C \cup {m} /\ m \notin C /\ m.path = q /\ q # <<>> /\ q \in Word
      /\ \A n \in B : n.path = q => n = m
  BY <1>5, NodesFewer
<1> HIDE DEF A, B, C
<1>7. A \ C = Prefixed(A, q)
  <2>1. ASSUME NEW n \in A
        PROVE  n \notin C <=> Len(n.path) >= Len(q) /\ SubSeq(n.path, 1, Len(q)) = q
    <3> DEFINE r == n.path
    <3>1. r \in Word
      BY <1>4
    <3> HIDE DEF r
    <3>2. (Len(r) >= Len(q) /\ SubSeq(r, 1, Len(q)) = q) <=> (r = q \/ Under(q, r))
      BY <1>6, <3>1, UnderIs
    <3>3. n \in C <=> n \in B /\ n # m
      BY <1>6
    <3>4. n \in B <=> ~Under(q, r)
      BY <1>4 DEF r
    <3>5. m \in B
      BY <1>6
    <3>6. n = m => r = q
      BY <1>6 DEF r
    <3>7. n \in B /\ r = q => n = m
      BY <1>6 DEF r
    <3>8. ~Under(q, q)
      BY <1>4, <1>6, <3>5
    <3>9. n \notin C <=> (r = q \/ Under(q, r))
      BY <3>3, <3>4, <3>6, <3>7, <3>8
    <3> QED BY <3>2, <3>9 DEF r
  <2> QED BY <2>1 DEF Prefixed
<1>8. C \ A = {} /\ m \in A \ C
  BY <1>4, <1>6
<1>9. Removes(A, C)
  BY <1>6, <1>7, <1>8 DEF Removes
<1> QED BY <1>9 DEF A, C

LEMMA RenameSteps ==
  ASSUME NEW d, NEW e, NEW s, Healthy(d), Healthy(e), Renamed(d, e, s)
  PROVE  Renames(NodesOf(d), NodesOf(e))
<1> DEFINE j == Last(s)
           A == NodesOf(d)
           C == NodesOf(e)
<1>1. PICK b, i : /\ Healthy(b) /\ OnTree(d, s) /\ d.node[j].type = "normal"
                  /\ Leaf(d, b, i, "normal") /\ Dropped(b, e, s)
  BY DEF Renamed
<1> DEFINE B == NodesOf(b)
<1>2. PICK q, dir, name : Shows(d, b, q, dir, name, i, "normal")
  BY <1>1, LeafShows
<1>3. PICK p : Hides(b, e, p, j)
  BY <1>1, DropShows
<1>4. PICK r : Spot(r, j) \in Shown(d)
  <2>1. PICK r : Trail(d, r, s)
    BY <1>1, TrailExists
  <2>2. Spot(r, j) \in Shown(d)
    BY <2>1, ShownIs
  <2> QED BY <2>2
<1> HIDE DEF j
<1>5. p = r /\ p # Append(q, name) /\ b.node[j].type = "normal"
  <2>1. /\ Spot(r, j).inode = j /\ Spot(p, j).inode = j /\ Spot(r, j).path = r
        /\ Spot(p, j).path = p
    BY SpotIs
  <2>2. Spot(r, j) \in Shown(b) /\ r # Append(q, name) /\ Intact(d, b, j)
    BY <1>2, <1>4, <2>1 DEF Shows
  <2>3. Spot(p, j) \in Shown(b)
    BY <1>3 DEF Hides
  <2>4. Spot(r, j) = Spot(p, j)
    BY <1>1, <2>1, <2>2, <2>3, OneSpot
  <2> QED BY <1>1, <2>1, <2>2, <2>4 DEF Intact
<1> DEFINE n == Labelled(Append(q, name), "normal")
           m == Labelled(p, b.node[j].type)
<1>6. n = Labelled(Append(q, name), "normal") /\ m = Labelled(p, b.node[j].type)
  OBVIOUS
<1> HIDE DEF n, m
<1>7. /\ B = A \cup {n} /\ n \notin A /\ n.type = "normal" /\ n.path # <<>>
      /\ n.path = Append(q, name)
      /\ \A k \in A : k.path # n.path
      /\ n.path[Len(n.path)] \in Names \cup Special
      /\ SubSeq(n.path, 1, Len(n.path) - 1) = q
      /\ \E k \in A : k.path = q /\ k.type = "dir"
  BY <1>2, <1>6, NodesMore
<1>8. B = C \cup {m} /\ m \notin C /\ m.path = p /\ m.type = "normal"
  BY <1>1, <1>3, <1>5, <1>6, NodesFewer
<1> HIDE DEF A, B, C
<1>9. LeafOf(A, n)
  BY <1>7 DEF LeafOf, TakenIn, DirsIn
<1>10. n # m
  BY <1>5, <1>7, <1>8
<1>11. C \ A = {n} /\ A \ C = {m}
  BY <1>7, <1>8, <1>10
<1>12. Renames(A, C)
  BY <1>7, <1>8, <1>9, <1>11 DEF Renames
<1> QED BY <1>12 DEF A, C

(* What a formatted disk shows.                                            *)
FirstTree == {[path |-> <<>>, type |-> "dir"], [path |-> <<"dev">>, type |-> "dir"],
              [path |-> <<"dev", "tty1">>, type |-> "char"]}

LEMMA FormattedShows ==
  ASSUME NEW d \in FormattedDisks
  PROVE  NodesOf(d) = FirstTree /\ Bare(d)
<1>1. PICK dev \in Inode, tty \in Inode :
        dev # Root /\ tty # Root /\ dev # tty /\ d = Formatted(dev, tty)
  BY DEF FormattedDisks
<1> DEFINE toDev == [name |-> "dev", inode |-> dev]
           toTty == [name |-> "tty1", inode |-> tty]
           F(i) == CASE i = Root -> WithEntries(Blank("dir"), <<toDev>>)
                     [] i = dev -> WithEntries(Blank("dir"), <<toTty>>)
                     [] i = tty -> Blank("char")
                     [] OTHER -> Blank("none")
           m == [i \in Inode |-> F(i)]
<1>2. d = [node |-> m, free |-> Blocks - 2, damaged |-> {}, reissued |-> {}]
  BY <1>1 DEF Formatted, WithEntries
<1>3. Root \in Inode /\ d.node = m /\ Healthy(d)
  BY <1>2, InodeAssumption, FormattedIs
<1>4. toDev = Link("dev", dev) /\ toTty = Link("tty1", tty)
  BY DEF Link
<1> HIDE DEF toDev, toTty
<1> DEFINE u == <<toDev>>
           v == <<toTty>>
<1>5. Range(u) = {toDev} /\ Range(v) = {toTty} /\ Range(<<>>) = {}
  <2>1. DOMAIN u = {1} /\ u[1] = toDev /\ DOMAIN v = {1} /\ v[1] = toTty /\ DOMAIN <<>> = {}
    OBVIOUS
  <2> HIDE DEF u, v
  <2> QED BY <2>1 DEF Range
<1>6. /\ m[Root] = WithEntries(Blank("dir"), u) /\ m[dev] = WithEntries(Blank("dir"), v)
      /\ m[tty] = Blank("char") /\ \A i \in Inode \ {Root, dev, tty} : m[i] = Blank("none")
  BY <1>1, <1>3
<1> HIDE DEF u, v, m
<1>7. /\ m[Root].type = "dir" /\ m[Root].entries = u /\ m[Root].data = Empty
      /\ m[dev].type = "dir" /\ m[dev].entries = v /\ m[dev].data = Empty
      /\ m[tty].type = "char" /\ m[tty].entries = <<>>
      /\ \A i \in Inode \ {Root, dev, tty} : m[i].type = "none"
  BY <1>6, BlankData DEF WithEntries, Blank
<1>8. Has(d, Root, "dev", dev) /\ Has(d, dev, "tty1", tty)
  BY <1>3, <1>4, <1>5, <1>7 DEF Has
<1> DEFINE p0 == <<>>
           p1 == <<"dev">>
           p2 == <<"dev", "tty1">>
<1>9. p1 = Append(p0, "dev") /\ p2 = Append(p1, "tty1")
  OBVIOUS
<1>10. Trail(d, p0, << Root >>) /\ Last(<< Root >>) = Root
  <2>1. << Root >> \in Seq(Inode) /\ Len(<< Root >>) = 1 /\ << Root >>[1] = Root
    BY <1>3
  <2>2. p0 \in Seq(Names \cup Special) /\ Len(p0) = 0
    OBVIOUS
  <2> HIDE DEF p0
  <2> QED BY <2>1, <2>2 DEF Trail, Word, Last
<1> HIDE DEF p0, p1, p2
<1>11. PICK s0 : Trail(d, p0, s0) /\ Last(s0) = Root
  BY <1>10
<1>12. PICK s1 : Trail(d, p1, s1) /\ Last(s1) = dev
  <2> DEFINE p == Append(p0, "dev")
             s == Append(s0, dev)
  <2>1. Trail(d, p, s) /\ Last(s) = dev
    BY <1>3, <1>8, <1>11, TrailAppend
  <2>2. p = p1
    BY <1>9
  <2> HIDE DEF p, s
  <2> QED BY <2>1, <2>2
<1>13. PICK s2 : Trail(d, p2, s2) /\ Last(s2) = tty
  <2> DEFINE p == Append(p1, "tty1")
             s == Append(s1, tty)
  <2>1. Trail(d, p, s) /\ Last(s) = tty
    BY <1>3, <1>8, <1>12, TrailAppend
  <2>2. p = p2
    BY <1>9
  <2> HIDE DEF p, s
  <2> QED BY <2>1, <2>2
<1> DEFINE x0 == Spot(p0, Root)
           x1 == Spot(p1, dev)
           x2 == Spot(p2, tty)
<1>14. x0 \in Shown(d) /\ x1 \in Shown(d) /\ x2 \in Shown(d)
  BY <1>3, <1>11, <1>12, <1>13, ShownIs
<1>15. /\ x0.path = p0 /\ x0.inode = Root /\ x1.path = p1 /\ x1.inode = dev
       /\ x2.path = p2 /\ x2.inode = tty
  BY SpotIs
<1> HIDE DEF x0, x1, x2
<1>16. ASSUME NEW x \in Shown(d) PROVE x \in {x0, x1, x2}
  <2>1. x.inode \in Inode /\ Leads(d, x.inode)
    BY <1>3, ShownIs
  <2>2. d.node[x.inode].type # "none"
    BY <1>3, <2>1, OnTreeIs, EndOf DEF Leads
  <2>3. x.inode \in {Root, dev, tty}
    BY <1>3, <1>7, <2>1, <2>2
  <2> QED BY <1>3, <1>14, <1>15, <2>3, OneSpot
<1>17. Seen(d, x0) = Labelled(p0, "dir") /\ Seen(d, x1) = Labelled(p1, "dir")
       /\ Seen(d, x2) = Labelled(p2, "char")
  BY <1>3, <1>7, <1>15 DEF Seen
<1>18. NodesOf(d) = {Labelled(p0, "dir"), Labelled(p1, "dir"), Labelled(p2, "char")}
  BY <1>14, <1>16, <1>17 DEF NodesOf
<1>19. FirstTree = {Labelled(p0, "dir"), Labelled(p1, "dir"), Labelled(p2, "char")}
  BY DEF FirstTree, Labelled, p0, p1, p2
<1>20. Bare(d)
  BY <1>3, <1>7 DEF Bare, IsDir
<1> QED BY <1>18, <1>19, <1>20
-----------------------------------------------------------------------------
(* What can be read.                                                       *)

Open(d, x) == IsDir(d, x.inode) \/ x.inode \notin d.damaged
Read(d, x) == [path |-> x.path, data |-> d.node[x.inode].data]
View(d) == {Read(d, x) : x \in {y \in Shown(d) : Open(d, y)}}
ContentsOf(d) == {v.data : v \in View(d)}

LEMMA ReadableIs == Healthy(disk) => Readable = View(disk) /\ Contents = ContentsOf(disk)
<1> SUFFICES ASSUME Healthy(disk) PROVE Readable = View(disk)
  BY DEF Contents, ContentsOf
<1>1. Listing = Shown(disk)
  BY ListingIs
<1> QED BY <1>1 DEF Readable, View, Read, Open

LEMMA ViewKept ==
  ASSUME NEW d, NEW e, NEW x \in Shown(d), x \in Shown(e), Intact(d, e, x.inode), Open(d, x)
  PROVE  Open(e, x) /\ Read(e, x) = Read(d, x) /\ Read(d, x) \in View(e)
<1>1. Open(e, x) /\ Read(e, x) = Read(d, x)
  BY DEF Open, Read, Intact, IsDir
<1> QED BY <1>1 DEF View

LEMMA ViewGrows ==
  ASSUME NEW d, NEW e, Shown(d) \subseteq Shown(e), \A x \in Shown(d) : Intact(d, e, x.inode)
  PROVE  View(d) \subseteq View(e)
<1> SUFFICES ASSUME NEW x \in Shown(d), Open(d, x) PROVE Read(d, x) \in View(e)
  BY DEF View
<1> QED BY ViewKept

LEMMA ContentsGrow ==
  ASSUME NEW d, NEW e, View(d) \subseteq View(e)
  PROVE  ContentsOf(d) \subseteq ContentsOf(e)
BY DEF ContentsOf

LEMMA StubReads ==
  ASSUME NEW d, NEW e, Healthy(d), Healthy(e), Stub(d, e)
  PROVE  View(d) \subseteq View(e)
<1>1. Shown(e) = Shown(d) /\ \A x \in Shown(d) : Intact(d, e, x.inode)
  BY StubShows
<1> QED BY <1>1, ViewGrows

LEMMA LeafReads ==
  ASSUME NEW d, NEW e, NEW i, NEW type, Healthy(d), Healthy(e), Leaf(d, e, i, type)
  PROVE  View(d) \subseteq View(e)
<1>1. PICK q, dir, name : Shows(d, e, q, dir, name, i, type)
  BY LeafShows
<1>2. Shown(d) \subseteq Shown(e) /\ \A x \in Shown(d) : Intact(d, e, x.inode)
  BY <1>1 DEF Shows
<1> QED BY <1>2, ViewGrows

(* What has no contents of its own can go.                                 *)
LEMMA DropReads ==
  ASSUME NEW d, NEW e, NEW s, Healthy(d), Healthy(e), Dropped(d, e, s),
         Open(d, Spot(<<>>, Last(s))) => d.node[Last(s)].data \in ContentsOf(e)
  PROVE  ContentsOf(d) \subseteq ContentsOf(e)
<1> DEFINE i == Last(s)
<1>1. PICK q : Hides(d, e, q, i)
  BY DropShows
<1>2. Open(d, Spot(<<>>, i)) => d.node[i].data \in ContentsOf(e)
  OBVIOUS
<1> HIDE DEF i
<1>3. Shown(d) = Shown(e) \cup {Spot(q, i)} /\ \A x \in Shown(e) : Intact(d, e, x.inode)
  BY <1>1 DEF Hides
<1>4. \A x : Read(d, x).data = d.node[x.inode].data
  BY DEF Read
<1>5. ASSUME NEW x \in Shown(d), Open(d, x) PROVE Read(d, x).data \in ContentsOf(e)
  <2>1. CASE x \in Shown(e)
    <3>1. Read(d, x) \in View(e)
      BY <1>3, <1>5, <2>1, ViewKept
    <3> QED BY <3>1 DEF ContentsOf
  <2>2. CASE x \notin Shown(e)
    <3>1. x.inode = i
      BY <1>3, <2>2, SpotIs
    <3>2. Open(d, Spot(<<>>, i))
      BY <1>5, <3>1, SpotIs DEF Open
    <3> QED BY <1>2, <1>4, <3>1, <3>2
  <2> QED BY <2>1, <2>2
<1> QED BY <1>5 DEF ContentsOf, View

LEMMA EmptyRead ==
  ASSUME NEW d, Healthy(d), Bare(d)
  PROVE  Empty \in ContentsOf(d)
<1> DEFINE s == << Root >>
<1>1. s \in Seq(Inode) /\ Len(s) = 1 /\ s[1] = Root /\ Last(s) = Root
  BY InodeAssumption DEF Last
<1> HIDE DEF s
<1>2. OnTree(d, s)
  BY <1>1 DEF OnTree
<1>3. PICK q : Trail(d, q, s)
  BY <1>2, TrailExists
<1> DEFINE x == Spot(q, Root)
<1>4. x \in Shown(d) /\ x.inode = Root
  BY <1>1, <1>3, ShownIs, SpotIs
<1> HIDE DEF x
<1>5. IsDir(d, Root) /\ d.node[Root].data = Empty
  BY InodeAssumption DEF Healthy, Bare, IsDir
<1>6. Open(d, x) /\ Read(d, x).data = Empty
  BY <1>4, <1>5 DEF Open, Read
<1> QED BY <1>4, <1>6 DEF ContentsOf, View

LEMMA RenameReads ==
  ASSUME NEW d, NEW e, NEW s, Healthy(d), Healthy(e), Renamed(d, e, s)
  PROVE  ContentsOf(d) \subseteq ContentsOf(e)
<1> DEFINE j == Last(s)
<1>1. PICK b, i : /\ Healthy(b) /\ OnTree(d, s) /\ d.node[j].type = "normal"
                  /\ Leaf(d, b, i, "normal") /\ i \in Inode \ b.damaged
                  /\ b.node[i].data = d.node[j].data
                  /\ Dropped(b, e, s)
  BY DEF Renamed
<1>2. PICK q, dir, name : Shows(d, b, q, dir, name, i, "normal")
  BY <1>1, LeafShows
<1>3. PICK p : Hides(b, e, p, j)
  BY <1>1, DropShows
<1>4. PICK r : Trail(d, r, s)
  BY <1>1, TrailExists
<1> DEFINE old == Spot(r, j)
           new == Spot(Append(q, name), i)
<1>5. old \in Shown(d) /\ old.inode = j /\ new.inode = i
  BY <1>4, ShownIs, SpotIs
<1>6. /\ Shown(b) = Shown(d) \cup {new} /\ i # j /\ Intact(d, b, j)
  BY <1>2, <1>5 DEF Shows
<1>7. /\ Shown(b) = Shown(e) \cup {Spot(p, j)} /\ Spot(p, j).inode = j
      /\ \A x \in Shown(e) : Intact(b, e, x.inode)
  BY <1>3, SpotIs DEF Hides
<1> HIDE DEF old, new, j
<1>8. new \in Shown(e) /\ Open(b, new)
  BY <1>1, <1>5, <1>6, <1>7 DEF Open
<1>9. Read(b, new) \in View(e) /\ Read(b, new).data = b.node[i].data
  BY <1>5, <1>6, <1>7, <1>8, ViewKept DEF Read
<1>10. b.node[j].data \in ContentsOf(e)
  BY <1>1, <1>6, <1>9 DEF ContentsOf, Intact
<1>11. ContentsOf(b) \subseteq ContentsOf(e)
  BY <1>1, <1>10, DropReads DEF j
<1>12. ContentsOf(d) \subseteq ContentsOf(b)
  BY <1>1, LeafReads, ContentsGrow
<1> QED BY <1>11, <1>12

-----------------------------------------------------------------------------
(* What steps do to what is seen.                                          *)

LEMMA Pieces ==
  ASSUME Tidy, [Next]_vars, ~Astray(disk')
  PROVE  Healthy(disk) /\ Healthy(disk') /\ Effect
BY StepIs DEF Tidy

LEMMA BareStep ==
  ASSUME Tidy, Bare(disk), [Next]_vars, ~Astray(disk')
  PROVE  Bare(disk')
<1>1. Healthy(disk) /\ Healthy(disk') /\ Effect
  BY Pieces
<1>2. CASE NewStub
  BY <1>1, <1>2, StubShows DEF NewStub
<1>3. CASE NewLeaf
  BY <1>1, <1>3, LeafShows DEF NewLeaf
<1>4. CASE LeafDropped
  BY <1>1, <1>4, DropShows DEF LeafDropped
<1>5. CASE TreePruned
  <2>1. PICK p, r, s : Leaves(r) /\ r.ok \in BOOLEAN /\ Pruned(disk, r, s, p)
    BY <1>5 DEF TreePruned
  <2>2. PICK e : /\ Healthy(e) /\ OnTree(disk, s) /\ IsDir(disk, Last(s)) /\ Cleared(disk, e, Last(s))
                 /\ (r.ok /\ Dropped(e, r.disk, s)) \/ r.disk = e
    BY <2>1 DEF Pruned
  <2>3. Bare(e)
    BY <1>1, <2>2, ClearShows
  <2>4. disk' = r.disk
    BY <2>1 DEF Leaves
  <2> QED BY <1>1, <2>2, <2>3, <2>4, DropShows
<1>6. CASE FileRenamed
  <2>1. PICK s : Renamed(disk, disk', s)
    BY <1>6 DEF FileRenamed
  <2>2. PICK b, i : Healthy(b) /\ Leaf(disk, b, i, "normal") /\ Dropped(b, disk', s)
    BY <2>1 DEF Renamed
  <2>3. Bare(b)
    BY <1>1, <2>2, LeafShows
  <2> QED BY <1>1, <2>2, <2>3, DropShows
<1>7. CASE Format
  BY <1>7, FormattedShows DEF Format
<1>8. CASE disk' = disk
  BY <1>8
<1> QED BY <1>1, <1>2, <1>3, <1>4, <1>5, <1>6, <1>7, <1>8 DEF Effect

LEMMA BareAlways == Spec => [](disk.reissued = {} => Bare(disk))
<1> DEFINE B == disk.reissued = {} => Bare(disk)
<1>1. Init => B
  BY FormattedShows DEF Init
<1>2. ASSUME Sure, B, [Next]_vars PROVE B'
  <2> SUFFICES ASSUME disk'.reissued = {} PROVE Bare(disk')
    OBVIOUS
  <2>1. ~Astray(disk')
    BY DEF Astray
  <2>2. CASE Tidy
    <3>1. Bare(disk)
      BY <1>2, <2>2 DEF Tidy, Healthy, Typed
    <3> QED BY <1>2, <2>1, <2>2, <3>1, BareStep
  <2>3. CASE Astray(disk)
    <3>1. Format
      BY <1>2, <2>1, <2>3, AstrayEnds DEF vars
    <3> QED BY <3>1, FormattedShows DEF Format
  <2> QED BY <1>2, <2>2, <2>3 DEF Sure
<1> QED BY <1>1, <1>2, SureAlways, PTL DEF Spec

(* What can be read before and after a step.                               *)
LEMMA ReadableSteps ==
  ASSUME Tidy, [Next]_vars, ~Astray(disk')
  PROVE  /\ Readable = View(disk) /\ Contents = ContentsOf(disk)
         /\ Readable' = View(disk') /\ Contents' = ContentsOf(disk')
<1>1. Healthy(disk) /\ Healthy(disk)'
  BY Pieces
<1>2. Readable = View(disk) /\ Contents = ContentsOf(disk)
  BY <1>1, ReadableIs
<1>3. (Healthy(disk) => Readable = View(disk) /\ Contents = ContentsOf(disk))'
  BY ReadableIs, PTL
<1> QED BY <1>1, <1>2, <1>3

(* A command that fails takes nothing away: all files are still there,     *)
(* under their names and with their contents, also when the directory for  *)
(* a new entry could not be written.  Only rm of a path that winds and a   *)
(* command handed the root are different.                                  *)
THEOREM FailsSafely == Spec => FailureLosesNothing
<1> DEFINE Safe == rc' = -1 => \/ disk' = disk
                               \/ disk'.reissued # {}
                               \/ Readable \subseteq Readable'
                               \/ RmWinding
<1>1. ASSUME Tidy, [Next]_vars, rc' = -1, ~Astray(disk') PROVE Safe
  <2>1. Healthy(disk) /\ Healthy(disk') /\ Effect
    BY <1>1, Pieces
  <2>2. Readable = View(disk) /\ Readable' = View(disk')
    BY <1>1, ReadableSteps
  <2>3. ~LeafDropped /\ ~FileRenamed /\ ~Format
    BY <1>1 DEF LeafDropped, FileRenamed, Format
  <2>4. CASE NewStub
    <3>1. View(disk) \subseteq View(disk')
      BY <2>1, <2>4, StubReads DEF NewStub
    <3> QED BY <2>2, <3>1
  <2>5. CASE NewLeaf
    <3>1. View(disk) \subseteq View(disk')
      BY <2>1, <2>5, LeafReads DEF NewLeaf
    <3> QED BY <2>2, <3>1
  <2>6. CASE TreePruned
    BY <1>1, <2>6, PrunedFails
  <2>7. CASE disk' = disk
    BY <2>7
  <2> QED BY <2>1, <2>3, <2>4, <2>5, <2>6, <2>7 DEF Effect
<1>2. ASSUME Astray(disk), [Next]_vars, rc' = -1 PROVE Safe
  BY <1>2, AstrayEnds DEF Format, vars
<1>3. Astray(disk') => disk'.reissued # {}
  BY DEF Astray
<1> HIDE DEF Safe
<1>4. ASSUME rc' # -1 PROVE Safe
  BY <1>4 DEF Safe
<1>5. ASSUME disk'.reissued # {} PROVE Safe
  BY <1>5 DEF Safe
<1>6. Sure /\ [Next]_vars => [Safe]_vars
  BY <1>1, <1>2, <1>3, <1>4, <1>5 DEF Sure
<1> QED BY <1>6, SureAlways, PTL DEF Spec, FailureLosesNothing, Safe

(* Only rm, format and a command handed the root as its new inode destroy  *)
(* contents: rmdir takes away what is empty, and mv, however it ends,      *)
(* removes the source only when a copy exists that can be read.            *)
THEOREM ContentsKept == Spec => OnlyRmLosesContents
<1> DEFINE Keep == \/ disk' = disk
                   \/ disk'.reissued # {}
                   \/ Contents \subseteq Contents'
                   \/ Format
                   \/ \E p \in Paths : Rm(p)
<1>1. ASSUME Tidy, Bare(disk), [Next]_vars, ~Astray(disk') PROVE Keep
  <2>1. Healthy(disk) /\ Healthy(disk') /\ Effect /\ Bare(disk) /\ Bare(disk')
    BY <1>1, Pieces, BareStep
  <2>2. Contents = ContentsOf(disk) /\ Contents' = ContentsOf(disk')
    BY <1>1, ReadableSteps
  <2>3. CASE NewStub
    <3>1. ContentsOf(disk) \subseteq ContentsOf(disk')
      BY <2>1, <2>3, StubReads, ContentsGrow DEF NewStub
    <3> QED BY <2>2, <3>1
  <2>4. CASE NewLeaf
    <3>1. ContentsOf(disk) \subseteq ContentsOf(disk')
      BY <2>1, <2>4, LeafReads, ContentsGrow DEF NewLeaf
    <3> QED BY <2>2, <3>1
  <2>5. CASE LeafDropped
    <3>1. PICK s : /\ Dropped(disk, disk', s)
                   /\ IsDir(disk, Last(s)) \/ \E p \in Paths : Rm(p)
      BY <2>5 DEF LeafDropped
    <3>2. CASE IsDir(disk, Last(s))
      <4>1. Last(s) \in Inode
        BY <2>1, <3>1, OnTreeIs DEF Dropped
      <4>2. disk.node[Last(s)].data = Empty
        BY <2>1, <3>2, <4>1 DEF Bare
      <4>3. Empty \in ContentsOf(disk')
        BY <2>1, EmptyRead
      <4>4. ContentsOf(disk) \subseteq ContentsOf(disk')
        BY <2>1, <3>1, <4>2, <4>3, DropReads
      <4> QED BY <2>2, <4>4
    <3> QED BY <3>1, <3>2
  <2>6. CASE FileRenamed
    <3>1. ContentsOf(disk) \subseteq ContentsOf(disk')
      BY <2>1, <2>6, RenameReads DEF FileRenamed
    <3> QED BY <2>2, <3>1
  <2>7. CASE TreePruned
    BY <2>7 DEF TreePruned
  <2> QED BY <2>1, <2>3, <2>4, <2>5, <2>6, <2>7 DEF Effect
<1>2. ASSUME Astray(disk), [Next]_vars PROVE Keep
  BY <1>2, AstrayEnds DEF vars
<1>3. Astray(disk') => Keep
  BY DEF Astray
<1>4. Tidy => disk.reissued = {}
  BY DEF Tidy, Healthy, Typed
<1> HIDE DEF Keep
<1>5. Sure /\ (disk.reissued = {} => Bare(disk)) /\ [Next]_vars => [Keep]_vars
  BY <1>1, <1>2, <1>3, <1>4 DEF Sure
<1> QED BY <1>5, SureAlways, BareAlways, PTL DEF Spec, OnlyRmLosesContents, Keep
-----------------------------------------------------------------------------
(* The commands implement NameTree.                                        *)

LEMMA NodesAre ==
  Healthy(disk) => {[path |-> x.path, type |-> disk.node[x.inode].type] : x \in Listing} = NodesOf(disk)
<1> SUFFICES ASSUME Healthy(disk)
             PROVE  {[path |-> x.path, type |-> disk.node[x.inode].type] : x \in Listing} = NodesOf(disk)
  OBVIOUS
<1>1. Listing = Shown(disk)
  BY ListingIs
<1> QED BY <1>1 DEF NodesOf, Seen, Labelled

LEMMA EffectSteps ==
  ASSUME Tidy, [Next]_vars, ~Astray(disk'), NEW a, a = NodesOf(disk), NEW b, b = NodesOf(disk')
  PROVE  a = b \/ Creates(a, b) \/ Removes(a, b) \/ Clears(a, b) \/ Renames(a, b) \/ b = FirstTree
<1>1. Healthy(disk) /\ Healthy(disk') /\ Effect
  BY Pieces
<1>2. CASE NewStub
  <2>1. Shown(disk') = Shown(disk) /\ \A x \in Shown(disk) : Intact(disk, disk', x.inode)
    BY <1>1, <1>2, StubShows DEF NewStub
  <2> QED BY <2>1, NodesSame
<1>3. CASE NewLeaf
  BY <1>1, <1>3, LeafSteps DEF NewLeaf
<1>4. CASE LeafDropped
  BY <1>1, <1>4, DropSteps DEF LeafDropped
<1>5. CASE TreePruned
  <2>1. PICK p, r, s : Leaves(r) /\ r.ok \in BOOLEAN /\ Pruned(disk, r, s, p)
    BY <1>5 DEF TreePruned
  <2>2. PICK e : /\ Healthy(e) /\ OnTree(disk, s) /\ IsDir(disk, Last(s)) /\ Cleared(disk, e, Last(s))
                 /\ (r.ok /\ Dropped(e, r.disk, s)) \/ r.disk = e
    BY <2>1 DEF Pruned
  <2>3. disk' = r.disk
    BY <2>1 DEF Leaves
  <2>4. CASE Dropped(e, r.disk, s)
    BY <1>1, <2>2, <2>3, <2>4, PruneSteps
  <2>5. CASE r.disk = e
    BY <1>1, <2>2, <2>3, <2>5, ClearSteps
  <2> QED BY <2>2, <2>4, <2>5
<1>6. CASE FileRenamed
  BY <1>1, <1>6, RenameSteps DEF FileRenamed
<1>7. CASE Format
  BY <1>7, FormattedShows DEF Format
<1>8. CASE disk' = disk
  BY <1>8
<1> QED BY <1>1, <1>2, <1>3, <1>4, <1>5, <1>6, <1>7, <1>8 DEF Effect

(* The commands implement the tree of names, also those that fail: each    *)
(* adds one leaf, removes what hangs on one name, empties one directory,   *)
(* renames one file, formats, or changes no name at all; or, handed the    *)
(* root as its new inode, makes the whole tree vanish.                     *)
THEOREM ImplementsTree == Spec => TreeSpec
<1> DEFINE M == {[path |-> x.path, type |-> disk.node[x.inode].type] : x \in Listing}
           N == IF disk.reissued # {} THEN {} ELSE M
<1>0. (Tidy => N = M) /\ (Tidy => N = M)'
  <2>1. Tidy => N = M
    BY DEF Tidy, Healthy, Typed
  <2>2. (Tidy => N = M)'
    BY DEF Tidy, Healthy, Typed
  <2> QED BY <2>1, <2>2
<1>1. Init => Tree!Init
  <2> SUFFICES ASSUME Init PROVE Tree!Init
    OBVIOUS
  <2>1. Tidy /\ Healthy(disk) /\ disk \in FormattedDisks
    BY TidyInit DEF Init, Tidy
  <2>2. N = NodesOf(disk) /\ NodesOf(disk) = FirstTree
    BY <1>0, <2>1, NodesAre, FormattedShows
  <2> QED BY <2>2 DEF Tree!Init, FirstTree
<1>2. ASSUME Tidy, [Next]_vars, ~Astray(disk') PROVE [Tree!Next]_N
  <2>1. Healthy(disk) /\ Healthy(disk)' /\ Tidy'
    BY <1>2, Pieces, StepIs
  <2>2. N = NodesOf(disk)
    BY <1>0, <1>2, <2>1, NodesAre
  <2>3. (Healthy(disk) => M = NodesOf(disk))'
    BY NodesAre, PTL
  <2>4. N' = NodesOf(disk')
    BY <1>0, <2>1, <2>3
  <2>5. PICK a : a = N
    OBVIOUS
  <2>6. PICK b : b = N'
    OBVIOUS
  <2>7. a = b \/ Creates(a, b) \/ Removes(a, b) \/ Clears(a, b) \/ Renames(a, b) \/ b = FirstTree
    <3>1. a = NodesOf(disk) /\ b = NodesOf(disk')
      BY <2>2, <2>4, <2>5, <2>6
    <3> HIDE DEF N, M
    <3> QED BY <1>2, <3>1, EffectSteps
  <2> HIDE DEF N
  <2>8. Tree!Added = b \ a /\ Tree!Gone = a \ b
    BY <2>5, <2>6 DEF Tree!Added, Tree!Gone, N
  <2>9. Tree!Taken = TakenIn(a) /\ Tree!Directories = DirsIn(a)
    BY <2>5 DEF Tree!Taken, Tree!Directories, TakenIn, DirsIn, N
  <2>10. ASSUME NEW n, LeafOf(a, n) PROVE Tree!IsLeaf(n)
    BY <2>9, <2>10 DEF LeafOf, Tree!IsLeaf
  <2>11. CASE a = b
    BY <2>5, <2>6, <2>11
  <2>12. CASE Creates(a, b)
    <3>1. Tree!Create
      BY <2>8, <2>10, <2>12 DEF Creates, Tree!Create
    <3> QED BY <3>1 DEF Tree!Next
  <2>13. CASE Removes(a, b)
    <3>1. \A n : Prefixed(a, n.path) =
            {m \in N : Len(m.path) >= Len(n.path) /\ SubSeq(m.path, 1, Len(n.path)) = n.path}
      BY <2>5 DEF Prefixed
    <3>2. Tree!IsSubtree(a \ b)
      BY <2>13, <3>1 DEF Removes, Tree!IsSubtree, N
    <3>3. Tree!Remove
      BY <2>8, <2>13, <3>2 DEF Removes, Tree!Remove
    <3> QED BY <3>3 DEF Tree!Next
  <2>14. CASE Clears(a, b)
    <3>1. PICK q \in DirsIn(a) : a \ b = {m \in a : Under(q, m.path)}
      BY <2>14 DEF Clears
    <3>2. a \ b = {m \in N : Len(m.path) > Len(q) /\ SubSeq(m.path, 1, Len(q)) = q}
      BY <2>5, <3>1 DEF Under
    <3>3. Tree!Clear
      BY <2>8, <2>9, <2>14, <3>2 DEF Clears, Tree!Clear, N
    <3> QED BY <3>3 DEF Tree!Next
  <2>15. CASE Renames(a, b)
    <3>1. Tree!Rename
      BY <2>8, <2>10, <2>15 DEF Renames, Tree!Rename
    <3> QED BY <3>1 DEF Tree!Next
  <2>16. CASE b = FirstTree
    <3>1. Tree!Reset
      BY <2>6, <2>16 DEF Tree!Reset, FirstTree, N
    <3> QED BY <3>1 DEF Tree!Next
  <2> QED BY <2>7, <2>11, <2>12, <2>13, <2>14, <2>15, <2>16
<1>3. ASSUME Astray(disk') PROVE Tree!Next
  <2>1. N' = {}
    BY <1>3 DEF Astray
  <2> QED BY <2>1 DEF Tree!Next, Tree!Vanish
<1>4. ASSUME Astray(disk), [Next]_vars PROVE [Tree!Next]_N
  <2>1. CASE UNCHANGED vars
    <3>1. N' = N
      BY <2>1 DEF vars, Listing
    <3> QED BY <3>1
  <2>2. CASE Format
    <3>1. Tidy' /\ disk' \in FormattedDisks
      BY <2>2, FormatTidies DEF Format
    <3>2. (Healthy(disk) => M = NodesOf(disk))'
      BY NodesAre, PTL
    <3>3. N' = FirstTree
      BY <1>0, <3>1, <3>2, FormattedShows DEF Tidy
    <3> QED BY <3>3 DEF Tree!Next, Tree!Reset, FirstTree
  <2> QED BY <1>4, <2>1, <2>2, AstrayEnds
<1> HIDE DEF N, M
<1>5. Sure /\ [Next]_vars => [Tree!Next]_N
  BY <1>2, <1>3, <1>4 DEF Sure
<1> QED BY <1>1, <1>5, SureAlways, PTL DEF Spec, TreeSpec, Tree!Spec, N, M
=============================================================================
