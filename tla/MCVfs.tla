-------------------------------- MODULE MCVfs -------------------------------
(* TLC instance of Vfs: two names, paths of up to three segments, contents *)
(* of one and of two blocks.                                               *)
EXTENDS Vfs, TLC

CONSTANTS root, n1, n2, n3

MCInode == {root, n1, n2, n3}
MCSymmetry == Permutations(MCInode \ {root})

MCNames == {"dev", "tty1"}
MCPaths ==
  {[abs |-> TRUE, segs |-> s] :
     s \in {<<>>, <<"dev">>, <<"tty1">>, <<"dev", "dev">>, <<"dev", "tty1">>,
            <<"dev", "tty1", "..">>}}
  \cup
  {[abs |-> FALSE, segs |-> s] :
     s \in {<<".">>, <<"..">>, <<"dev">>, <<"tty1">>}}

MCData == {"small", "large"}
MCBlocksOf == [d \in MCData |-> IF d = "small" THEN 1 ELSE 2]

(* Fewer paths for the tree of names: the root, two names in it, a name    *)
(* below one of them, the parent and a name relative to the working        *)
(* directory.                                                              *)
MCTreePaths ==
  {[abs |-> TRUE, segs |-> s] :
     s \in {<<>>, <<"dev">>, <<"tty1">>, <<"dev", "dev">>, <<"dev", "tty1">>,
            <<"dev", "tty1", "..">>}}
  \cup {[abs |-> FALSE, segs |-> s] : s \in {<<"..">>, <<"tty1">>}}

(* For the tree of names one size of files is enough to fill the disk; the *)
(* other contents are too large for any file.                              *)
MCTreeData == {"large", "huge"}
MCTreeBlocksOf == [d \in MCTreeData |-> IF d = "large" THEN 2 ELSE 9]
MCTreeTooLarge == {"huge"}
=============================================================================
