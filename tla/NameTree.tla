------------------------------ MODULE NameTree ------------------------------
(***************************************************************************)
(* What the user of the V6++ file system shell sees: a tree of names.      *)
(* Commands add a leaf to a directory, remove a file or a whole directory, *)
(* rename a file, empty a directory, or start afresh; whatever else        *)
(* happens, in particular in a command that fails half way, changes        *)
(* nothing or adds one leaf.  The tree can vanish as a whole, and then     *)
(* only starting afresh helps.                                             *)
(* Vfs implements it on inodes and directory entries.                      *)
(***************************************************************************)
EXTENDS Integers, Sequences

CONSTANTS Names,     \* names an entry can have
          Fresh      \* the tree of a formatted disk

VARIABLE nodes       \* a set of [path, type]: names from the root on

Taken == {n.path : n \in nodes}
Directories == {n.path : n \in {m \in nodes : m.type = "dir"}}

(* What a step adds and takes away.                                        *)
Added == nodes' \ nodes
Gone == nodes \ nodes'

(* One leaf under a new name in a directory that is there.                 *)
IsLeaf(n) ==
  /\ n.path # <<>>
  /\ n.path \notin Taken
  /\ n.path[Len(n.path)] \in Names
  /\ SubSeq(n.path, 1, Len(n.path) - 1) \in Directories

(* A file or a directory with all that is below it, but not the root.      *)
IsSubtree(S) ==
  \E n \in S :
    /\ n.path # <<>>
    /\ S = {m \in nodes : Len(m.path) >= Len(n.path)
                           /\ SubSeq(m.path, 1, Len(n.path)) = n.path}

Init == nodes = Fresh

Nothing == UNCHANGED nodes

Create ==
  /\ Gone = {}
  /\ \E n \in Added : Added = {n} /\ IsLeaf(n) /\ n.type \in {"dir", "normal"}

Remove ==
  /\ Added = {}
  /\ IsSubtree(Gone)

(* A directory stays but loses all that is below it.                       *)
Clear ==
  /\ Added = {}
  /\ \E d \in Directories :
       Gone = {m \in nodes : Len(m.path) > Len(d) /\ SubSeq(m.path, 1, Len(d)) = d}

(* Files only, and never onto a name that exists.                          *)
Rename ==
  \E n \in Added, m \in Gone :
    /\ Added = {n} /\ IsLeaf(n)
    /\ Gone = {m}
    /\ n.type = "normal" /\ m.type = "normal"

Reset == nodes' = Fresh

(* A command took the root itself for something new.                       *)
Vanish == nodes' = {}

Next == Nothing \/ Create \/ Remove \/ Clear \/ Rename \/ Reset \/ Vanish

Spec == Init /\ [][Next]_nodes
=============================================================================
