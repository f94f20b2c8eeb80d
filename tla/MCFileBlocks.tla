---------------------------- MODULE MCFileBlocks ----------------------------
(* TLC instance of FileBlocks: inodes with one slot of each kind and index *)
(* blocks of two entries, on seven data blocks, so that one file can reach *)
(* the secondary slot and two files run out of blocks.  The contents of    *)
(* free blocks are alike, so one order of handing them out stands for all. *)
EXTENDS FileBlocks, FiniteSetsExt

(* For one file with two slots of each kind: its largest size takes all.   *)
MCDeepZone == 1 .. 22

MCChoice(S) == IF S = {} THEN {} ELSE {Min(S)}
=============================================================================
