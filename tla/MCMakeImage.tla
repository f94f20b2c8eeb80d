----------------------------- MODULE MCMakeImage -----------------------------
(* Host directories put together from folders in folders, a /dev and a     *)
(* /dev/tty1 of their own, also as a folder, a name and contents that do   *)
(* not fit, and, all in all, more than the disk holds.                     *)
EXTENDS MakeImage, FiniteSetsExt, TLC

CONSTANTS root, n1, n2, n3, n4, n5

MCInode == {root, n1, n2, n3, n4, n5}
MCSymmetry == Permutations(MCInode \ {root})

MCNames == {"dev", "tty1", "a", "b", "long"}
MCTooLong == {"long"}
MCData == {"small", "large", "huge"}
MCBlocksOf == [d \in MCData |-> CASE d = "small" -> 1 [] d = "large" -> 3 [] d = "huge" -> 9]
MCTooLarge == {"huge"}

At(path, data) == [path |-> path, data |-> data]
Dir(path) == At(path, "folder")

Candidates ==
  {Dir(<<"a">>), Dir(<<"a", "b">>), At(<<"a", "b", "a">>, "small"),
   At(<<"a", "a">>, "huge"), At(<<"a", "a">>, "large"),
   Dir(<<"dev">>), At(<<"dev", "tty1">>, "small"), At(<<"dev", "a">>, "small"),
   Dir(<<"dev", "tty1">>), At(<<"dev", "tty1", "a">>, "small"),
   Dir(<<"long">>), At(<<"long", "a">>, "small"), At(<<"b">>, "large")}

(* Those of three and of four entries, each in a folder that is there.     *)
MCHosts ==
  {h \in UNION {kSubset(n, Candidates) : n \in 3 .. 4} :
     \A e \in h : /\ Len(e.path) = 1 \/ Dir(Front(e.path)) \in h
                  /\ \A f \in h : e.path = f.path => e = f}

(* Two options and the words that tell the cases of the scanner apart: the *)
(* options, an unknown one, dashes alone, a number, a negative number bare *)
(* and quoted, quotes alone.                                               *)
MCOptions == {"image", "rootfs"}

Dashed(name, text) == [dashed |-> TRUE, name |-> name, text |-> text]
Plain(text) == [dashed |-> FALSE, name |-> text, text |-> text]

MCWords ==
  {Dashed("image", "--image"), Dashed("rootfs", "-rootfs"), Dashed("x", "--x"),
   Dashed("", "--"), Plain("5"), Plain("-5"), Plain("")}

MCTypes == {"free", "str", "uint", "char"}

(* .+, [1-9]\d*|0 and .? on the texts above.                               *)
MCMatches == [t \in MCTypes |->
  CASE t \in {"free", "str"} -> {"5", "-5"}
    [] t = "uint" -> {"5"}
    [] t = "char" -> {"5", ""}]

MCRules ==
  {[o \in MCOptions |-> IF o = "image" THEN [type |-> t, show |-> s]
                        ELSE [type |-> "str", show |-> "free"]] :
     t \in MCTypes \cup {"opt_only"}, s \in {"free", "once", "strict"}}
    \cup {MakeRules}
=============================================================================
