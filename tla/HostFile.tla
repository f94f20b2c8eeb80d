------------------------------ MODULE HostFile ------------------------------
(***************************************************************************)
(* Disk on top of FstreamFile on top of std::fstream, when the host's      *)
(* reads and writes may fail: read_blocks and write_blocks, load and       *)
(* update, and the error state that FstreamFile keeps beside the stream's. *)
(*                                                                         *)
(* A request is a seek, a transfer and a look at good(); error() resets    *)
(* both error states.  The fstream (libstdc++, external) writes a block    *)
(* into its buffer and the buffer to the host at the next seek; a transfer *)
(* of a kilobyte or more goes to the host directly.  A flush that fails    *)
(* leaves the buffer as it is.                                             *)
(*                                                                         *)
(* The superblock and the inodes are one sector each here.                 *)
(***************************************************************************)

CONSTANTS Blocks,     \* blocks of the data zone
          Data        \* what a block can hold

VARIABLES
  image,     \* what the host holds, per sector
  pending,   \* the fstream's buffer: what it holds for at most one block
  failed,    \* the fstream's failbit or badbit
  is_good_,  \* FstreamFile
  mem,       \* superblock_ and inodes_: "unread", "changed" or as read
  owner,     \* who owns the Disk: "FileSystem" or a "test" of testimage
  job,       \* the running call: "load", "read", "write", "update"; or "none"
  at,        \* the sector it asks the file for
  data,      \* what "write" writes there
  stage,     \* of that request: "seek", "transfer" or "check"; or "none"
  result,    \* of the last call: "none" while one runs, else "true" or "false"
  got,       \* what the last read found
  ended,     \* how the program ended, "not yet" while it runs
  told,      \* ghost: what each block holds by the writes that returned true
  fault      \* ghost: the host failed during the current or last call

stream == <<image, pending, failed, is_good_>>
request == <<job, at, data>>
vars == <<stream, mem, owner, request, stage, result, got, ended, told, fault>>

Meta == {"superblock", "inodes"}
Sector == Blocks \cup Meta

Reads == job \in {"load", "read"}
Writes == job \in {"update", "write"}

(* What a read of the stream would find: the buffer is before the host.    *)
Through(s) == IF s \in DOMAIN pending THEN pending[s] ELSE image[s]
Buffer(s, d) == [x \in {s} |-> d]
EmptyBuffer == [x \in {} |-> "made"]

(* The host does what it is asked, or fails.                               *)
Host(ok) == fault' = (fault \/ ~ok)

-----------------------------------------------------------------------------
(* FstreamFile, one request.                                               *)

Sought ==
  /\ stage' = "transfer"
  /\ UNCHANGED <<is_good_, mem, owner, request, result, got, ended, told>>

(* seekg and seekp: one position for both.  On a failed stream nothing     *)
(* happens; the flag is not touched.                                       *)
Flush(ok) ==
  /\ stage = "seek"
  /\ ~failed /\ DOMAIN pending # {}
  /\ Host(ok)
  /\ IF ok THEN /\ image' = [s \in Sector |-> Through(s)]
                /\ pending' = EmptyBuffer
                /\ UNCHANGED failed
           ELSE failed' = TRUE /\ UNCHANGED <<image, pending>>
  /\ Sought

Seek ==
  /\ stage = "seek"
  /\ failed \/ DOMAIN pending = {}
  /\ Sought
  /\ UNCHANGED <<image, pending, failed, fault>>

Transferred ==
  /\ stage' = "check"
  /\ UNCHANGED <<owner, request, result, ended, told>>

(* On a failed stream read and write only set the flag.                    *)
NoTransfer ==
  /\ stage = "transfer"
  /\ failed
  /\ is_good_' = FALSE
  /\ Transferred
  /\ UNCHANGED <<image, pending, failed, mem, got, fault>>

(* read.                                                                   *)
Read(ok) ==
  /\ stage = "transfer"
  /\ ~failed
  /\ Reads
  /\ Host(ok)
  /\ failed' = ~ok
  /\ is_good_' = (is_good_ /\ ok)
  /\ mem' = IF job = "load" /\ ok THEN [mem EXCEPT ![at] = image[at]] ELSE mem
  /\ got' = IF job = "read" /\ ok THEN image[at] ELSE got
  /\ Transferred
  /\ UNCHANGED <<image, pending>>

(* write of a block.                                                       *)
WriteBuffered ==
  /\ stage = "transfer"
  /\ ~failed
  /\ job = "write"
  /\ pending' = Buffer(at, data)
  /\ Transferred
  /\ UNCHANGED <<image, failed, is_good_, mem, got, fault>>

(* write of the superblock or the inodes.                                  *)
WriteDirect(ok) ==
  /\ stage = "transfer"
  /\ ~failed
  /\ job = "update"
  /\ Host(ok)
  /\ \/ image' = [image EXCEPT ![at] = IF ok THEN mem[at] ELSE "torn"]
     \/ ~ok /\ UNCHANGED image
  /\ failed' = ~ok
  /\ is_good_' = (is_good_ /\ ok)
  /\ Transferred
  /\ UNCHANGED <<pending, mem, got>>

-----------------------------------------------------------------------------
(* Disk.                                                                   *)

Idle == job = "none" /\ ended = "not yet"

Call(what, where) ==
  /\ job' = what
  /\ at' = where
  /\ stage' = "seek"
  /\ result' = "none"
  /\ fault' = FALSE

(* read_blocks and write_blocks.                                           *)
ReadBlocks(b) ==
  /\ Idle
  /\ Call("read", b)
  /\ UNCHANGED <<stream, mem, owner, data, got, ended, told>>

WriteBlocks(b, d) ==
  /\ Idle
  /\ Call("write", b)
  /\ data' = d
  /\ UNCHANGED <<stream, mem, owner, got, ended, told>>

(* The allocators change the copies in memory.                             *)
Change ==
  /\ Idle
  /\ mem' = [s \in Meta |-> "changed"]
  /\ UNCHANGED <<stream, owner, request, stage, result, got, ended, told, fault>>

Update == Call("update", "superblock")

(* ~Disk.                                                                  *)
Destroy ==
  /\ Idle
  /\ Update
  /\ UNCHANGED <<stream, mem, owner, data, got, ended, told>>

(* Good: load and update go on to the inodes, ...                          *)
CheckNext ==
  /\ stage = "check" /\ is_good_
  /\ at = "superblock"
  /\ at' = "inodes"
  /\ stage' = "seek"
  /\ UNCHANGED <<stream, mem, owner, job, data, result, got, ended, told, fault>>

Answer(value) ==
  /\ job' = "none"
  /\ stage' = "none"
  /\ result' = value
  /\ UNCHANGED <<mem, owner, at, data, got, fault>>

(* ... or the call has done what it should.                                *)
CheckDone ==
  /\ stage = "check" /\ is_good_
  /\ at # "superblock"
  /\ Answer("true")
  /\ told' = IF job = "write" THEN [told EXCEPT ![at] = data] ELSE told
  /\ ended' = IF job = "update" THEN "saved" ELSE ended
  /\ UNCHANGED stream

(* FstreamFile::error.                                                     *)
Error ==
  /\ is_good_' = TRUE
  /\ failed' = FALSE
  /\ UNCHANGED <<image, pending>>

Bad == stage = "check" /\ ~is_good_

(* read_blocks and write_blocks return false, and every caller goes on.    *)
ReturnFalse ==
  /\ Bad /\ job \in {"read", "write"}
  /\ Error
  /\ Answer("false")
  /\ UNCHANGED <<told, ended>>

(* load throws.  FileSystem's constructor passes on a runtime_error and    *)
(* does not destroy the Disk it made; ...                                  *)
OpenFails ==
  /\ Bad /\ job = "load" /\ owner = "FileSystem"
  /\ Error
  /\ Answer("false")
  /\ ended' = "load failed"
  /\ UNCHANGED told

(* ... the Disk of a test is destroyed.                                    *)
TestFails ==
  /\ Bad /\ job = "load" /\ owner = "test"
  /\ Error
  /\ Update
  /\ UNCHANGED <<mem, owner, data, got, ended, told>>

(* update throws out of the destructor: std::terminate.                    *)
UpdateThrows ==
  /\ Bad /\ job = "update"
  /\ Error
  /\ Answer("false")
  /\ ended' = "terminated"
  /\ UNCHANGED told

(* A Disk just made, in load.                                              *)
Init ==
  /\ image = [s \in Sector |-> "made"]
  /\ pending = EmptyBuffer /\ failed = FALSE /\ is_good_ = TRUE
  /\ mem = [s \in Meta |-> "unread"]
  /\ owner \in {"FileSystem", "test"}
  /\ job = "load" /\ at = "superblock" /\ data = "made"
  /\ stage = "seek"
  /\ result = "none" /\ got = "nothing" /\ ended = "not yet"
  /\ told = [b \in Blocks |-> "made"]
  /\ fault = FALSE

Requests ==
  \/ Seek \/ NoTransfer \/ WriteBuffered
  \/ \E ok \in BOOLEAN : Flush(ok) \/ Read(ok) \/ WriteDirect(ok)
Outcomes ==
  CheckNext \/ CheckDone \/ ReturnFalse \/ OpenFails \/ TestFails \/ UpdateThrows
Commands ==
  \/ \E b \in Blocks : ReadBlocks(b)
  \/ \E b \in Blocks, d \in Data : WriteBlocks(b, d)
  \/ Change \/ Destroy
Next == Requests \/ Outcomes \/ Commands

Spec == Init /\ [][Next]_vars

-----------------------------------------------------------------------------
(* Properties.                                                             *)

(* A call that was told of a failure had one while it ran, and the other   *)
(* way round: no error is carried from one call to the next in the two     *)
(* places that keep it (fstream_file.cpp 26-44, 80-91).  A block write     *)
(* that fails late shows in the call after it.                             *)
ReportsItsOwnFault == result # "none" => (result = "false" <=> fault)

(* A write that returned false has written nothing, and the earlier one    *)
(* whose flush failed in it is not lost: a read that returns true finds    *)
(* what the last write that returned true wrote, whatever failed between.  *)
ReadsWhatWasWritten ==
  /\ \A b \in Blocks : told[b] = Through(b) \/ (job = "write" /\ at = b)
  /\ job = "read" /\ stage = "check" /\ is_good_ => got = told[at]

(* A program whose destructor returned has every block write that returned *)
(* true, the superblock and the inodes with the host: nothing is left for  *)
(* the unchecked close in ~FstreamFile.                                    *)
SavedMeansSaved ==
  ended = "saved" =>
    /\ \A b \in Blocks : image[b] = told[b]
    /\ \A s \in Meta : image[s] = mem[s]

(* When load fails, FileSystem saves nothing it has not read: the image's  *)
(* inodes survive a read error because the constructor leaves the Disk     *)
(* behind undestroyed (v6pp_vfs.cpp 61-71).                                *)
UnreadNotSaved ==
  owner = "FileSystem" => \A s \in Meta : image[s] # "unread"
=============================================================================
