----------------------------- MODULE InodePool -----------------------------
(***************************************************************************)
(* What the inode allocator of a V6++ disk gives its callers               *)
(* (Disk::alloc_inode, Disk::free_inode): any inode that is not in use, a  *)
(* failure only when there is none, and, as an accident of formatting, at  *)
(* times the root directory's inode, which is always in use.  Formatting   *)
(* gives the inodes back one by one.  InodeTable refines this.             *)
(***************************************************************************)
EXTENDS Integers

CONSTANTS Root,        \* the root directory's inode
          Others       \* all the other inodes

VARIABLES free,        \* the inodes nobody uses
          ret          \* what the last allocation returned, -1 for a failure

vars == <<free, ret>>

Failure == -1

Init == free = Others /\ ret = Failure

Allocate(i) ==
  /\ i \in free
  /\ ret' = i
  /\ free' = free \ {i}

AllocateRoot ==
  /\ ret' = Root
  /\ UNCHANGED free

OutOfInodes ==
  /\ free = {}
  /\ ret' = Failure
  /\ UNCHANGED free

Release(i) ==
  /\ i \notin free
  /\ free' = free \cup {i}
  /\ UNCHANGED ret

Next ==
  \/ \E i \in Others : Allocate(i) \/ Release(i)
  \/ AllocateRoot
  \/ OutOfInodes

Spec == Init /\ [][Next]_vars
=============================================================================
