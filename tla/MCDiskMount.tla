----------------------------- MODULE MCDiskMount -----------------------------
(* Five data blocks behind tables of two, and files that together want    *)
(* more.  Damaged images are not loaded, so one payload is enough.         *)
EXTENDS DiskMount, TLC

CONSTANTS f1, f2

MCFiles == {f1, f2}
Twins == Permutations(MCFiles)
MCPayloads == {<<3>>}
=============================================================================
