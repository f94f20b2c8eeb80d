----------------------------- MODULE MCFreeList -----------------------------
(* TLC instance of FreeList: a data zone of four blocks behind two system  *)
(* blocks and before one swap block, tables of two entries, so that two    *)
(* tables get spilled.  The one file payload, taken for a table, names a   *)
(* system block and a data block.                                          *)
EXTENDS FreeList

MCPayloads == {<<1, 3>>}
=============================================================================
