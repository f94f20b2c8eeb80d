----------------------------- MODULE BlockPool -----------------------------
(***************************************************************************)
(* What the block allocator of a V6++ disk promises to its callers         *)
(* (Disk::alloc_block, Disk::free_block and the block loop of              *)
(* FileSystem::format, v6pp_disk.hpp lines 129 to 138): a set of free      *)
(* blocks of the data zone.  An allocation takes any one of them and fails *)
(* only when there is none; a block that is given back becomes free again. *)
(* How the set is stored is the business of FreeList, which refines this.  *)
(***************************************************************************)
EXTENDS Integers

CONSTANT Zone          \* the blocks of the data zone

VARIABLES free,        \* the blocks nobody uses
          ret          \* what the last allocation returned, -1 for a failure

vars == <<free, ret>>

Failure == -1

Init == free = {} /\ ret = Failure

Allocate(b) ==
  /\ b \in free
  /\ ret' = b
  /\ free' = free \ {b}

OutOfBlocks ==
  /\ free = {}
  /\ ret' = Failure
  /\ UNCHANGED free

Release(b) ==
  /\ b \notin free
  /\ free' = free \cup {b}
  /\ UNCHANGED ret

(* Formatting forgets the free list before it releases every block. *)
Forget ==
  /\ free' = {}
  /\ UNCHANGED ret

Next ==
  \/ \E b \in Zone : Allocate(b) \/ Release(b)
  \/ OutOfBlocks
  \/ Forget

Spec == Init /\ [][Next]_vars
=============================================================================
