--------------------------- MODULE HostFileProofs ---------------------------
(***************************************************************************)
(* HostFile: what the error states and the buffer have to do with each     *)
(* other at every stage of a request, and what follows for the callers.    *)
(* For any number of blocks, calls and failures of the host.  And the      *)
(* frame of the test programs: where their copy of an image is.            *)
(***************************************************************************)
EXTENDS HostFile, Integers, TLAPS

Contents == Data \cup {"made"}

TypeOK ==
  /\ DOMAIN image = Sector
  /\ pending = EmptyBuffer \/ \E b \in Blocks, d \in Contents : pending = Buffer(b, d)
  /\ failed \in BOOLEAN /\ is_good_ \in BOOLEAN
  /\ mem \in [Meta -> {"unread", "changed", "made"}]
  /\ owner \in {"FileSystem", "test"}
  /\ job \in {"load", "read", "write", "update", "none"}
  /\ job \in {"load", "update"} => at \in Meta
  /\ job \in {"read", "write"} => at \in Blocks
  /\ job = "load" => \A s \in Meta : image[s] = "made"
  /\ data \in Contents
  /\ stage \in {"seek", "transfer", "check", "none"}
  /\ told \in [Blocks -> Contents]
  /\ fault \in BOOLEAN

(* How far the request has come, and what the error states say of it.      *)
Errors ==
  /\ stage = "none" <=> job = "none"
  /\ stage # "none" => result = "none" /\ ended = "not yet"
  /\ stage # "check" => is_good_
  /\ stage \in {"none", "seek"} => ~failed
  /\ stage = "seek" => ~fault
  /\ stage \in {"transfer", "check"} => (fault <=> failed)
  /\ stage = "check" => (is_good_ <=> ~failed)
  /\ stage = "none" => (result = "false" <=> fault)

(* What the blocks hold.                                                   *)
BlocksKept ==
  /\ \A b \in Blocks :
       told[b] = Through(b) \/ (job = "write" /\ at = b /\ stage = "check" /\ is_good_)
  /\ stage = "transfer" /\ ~failed => DOMAIN pending = {}
  /\ job = "write" /\ stage = "check" /\ is_good_ => Through(at) = data
  /\ job = "read" /\ stage = "check" /\ is_good_ => got = told[at]

(* How far load and update have come.                                      *)
MetaRead ==
  /\ owner = "FileSystem" =>
       /\ \A s \in Meta : image[s] # "unread"
       /\ ended = "not yet" /\ job # "load" => \A s \in Meta : mem[s] # "unread"
       /\ job = "load" /\ at = "inodes" => mem["superblock"] # "unread"
       /\ job = "load" /\ stage = "check" /\ is_good_ => mem[at] # "unread"

MetaSaved ==
  /\ job = "update" /\ at = "inodes" =>
       image["superblock"] = mem["superblock"] /\ DOMAIN pending = {}
  /\ job = "update" /\ stage = "check" /\ is_good_ =>
       image[at] = mem[at] /\ DOMAIN pending = {}
  /\ ended = "saved" =>
       DOMAIN pending = {} /\ \A s \in Meta : image[s] = mem[s]

IInv == TypeOK /\ Errors /\ BlocksKept /\ MetaRead /\ MetaSaved

(* Blocks of the data zone are not where the superblock and the inodes are.*)
BlocksApart == Blocks \cap Meta = {}

-----------------------------------------------------------------------------
(* The buffer as a function.                                               *)
LEMMA BufferFacts ==
  /\ DOMAIN EmptyBuffer = {}
  /\ \A s, d : DOMAIN Buffer(s, d) = {s} /\ Buffer(s, d)[s] = d
BY DEF EmptyBuffer, Buffer

LEMMA BufferedBlock == TypeOK => DOMAIN pending \subseteq Blocks
<1>1. CASE pending = EmptyBuffer
  BY <1>1, BufferFacts
<1>2. CASE \E b \in Blocks, d \in Contents : pending = Buffer(b, d)
  <2>1. PICK b \in Blocks, d \in Contents : pending = Buffer(b, d)
    BY <1>2
  <2>2. DOMAIN Buffer(b, d) = {b}
    BY BufferFacts
  <2> QED BY <2>1, <2>2
<1> QED BY <1>1, <1>2 DEF TypeOK

LEMMA MetaUnbuffered ==
  ASSUME BlocksApart, TypeOK
  PROVE  \A s \in Meta : Through(s) = image[s]
BY BufferedBlock DEF Through, BlocksApart

(* A flush that succeeds changes nothing for a reader.                     *)
LEMMA FlushKeeps ==
  ASSUME Flush(TRUE)
  PROVE  /\ DOMAIN pending' = {}
         /\ \A s \in Sector : Through(s)' = Through(s) /\ image'[s] = Through(s)
<1>1. image' = [s \in Sector |-> Through(s)] /\ pending' = EmptyBuffer
  BY DEF Flush
<1> QED BY <1>1, BufferFacts DEF Through

(* Every action keeps the values in their types.                           *)
LEMMA TypeStep ==
  ASSUME BlocksApart, IInv, Next
  PROVE  TypeOK'
<1> USE DEF IInv, TypeOK, Errors, Sector, Meta
<1>1. CASE Seek
  BY <1>1 DEF Seek, Sought, request
<1>2. CASE \E ok \in BOOLEAN : Flush(ok)
  <2>1. PICK ok \in BOOLEAN : Flush(ok)
    BY <1>2
  <2>2. CASE ok
    <3>1. Flush(TRUE)
      BY <2>1, <2>2
    <3>2. \A s \in Meta : image'[s] = image[s]
      BY <3>1, FlushKeeps, MetaUnbuffered
    <3> QED BY <3>1, <3>2 DEF Flush, Sought, Host, request
  <2>3. CASE ~ok
    BY <2>1, <2>3 DEF Flush, Sought, Host, request
  <2> QED BY <2>1, <2>2, <2>3
<1>3. CASE NoTransfer
  BY <1>3 DEF NoTransfer, Transferred, request
<1>4. CASE \E ok \in BOOLEAN : Read(ok)
  <2>1. PICK ok \in BOOLEAN : Read(ok)
    BY <1>4
  <2> QED BY <2>1 DEF Read, Reads, Transferred, Host, request
<1>5. CASE WriteBuffered
  BY <1>5 DEF WriteBuffered, Transferred, request
<1>6. CASE \E ok \in BOOLEAN : WriteDirect(ok)
  <2>1. PICK ok \in BOOLEAN : WriteDirect(ok)
    BY <1>6
  <2> QED BY <2>1 DEF WriteDirect, Transferred, Host, request
<1>7. CASE \E b \in Blocks : ReadBlocks(b)
  <2>1. PICK b \in Blocks : ReadBlocks(b)
    BY <1>7
  <2> QED BY <2>1 DEF ReadBlocks, Idle, Call, stream
<1>8. CASE \E b \in Blocks, d \in Data : WriteBlocks(b, d)
  <2>1. PICK b \in Blocks, d \in Data : WriteBlocks(b, d)
    BY <1>8
  <2> QED BY <2>1 DEF WriteBlocks, Idle, Call, stream, Contents
<1>9. CASE Change
  BY <1>9 DEF Change, Idle, stream, request
<1>10. CASE Destroy
  BY <1>10 DEF Destroy, Idle, Update, Call, stream
<1>11. CASE CheckNext
  BY <1>11 DEF CheckNext, stream, BlocksApart
<1>12. CASE CheckDone
  BY <1>12 DEF CheckDone, Answer, stream
<1>13. CASE ReturnFalse
  BY <1>13 DEF ReturnFalse, Bad, Error, Answer
<1>14. CASE OpenFails
  BY <1>14 DEF OpenFails, Bad, Error, Answer
<1>15. CASE TestFails
  BY <1>15 DEF TestFails, Bad, Error, Update, Call
<1>16. CASE UpdateThrows
  BY <1>16 DEF UpdateThrows, Bad, Error, Answer
<1> QED
  BY <1>1, <1>2, <1>3, <1>4, <1>5, <1>6, <1>7, <1>8,
     <1>9, <1>10, <1>11, <1>12, <1>13, <1>14, <1>15, <1>16
  DEF Next, Requests, Outcomes, Commands

(* The two error states, the ghost of the host's failures and the stage of *)
(* the request keep in step.                                               *)
LEMMA ErrorsStep ==
  ASSUME BlocksApart, IInv, Next
  PROVE  Errors'
<1> USE DEF IInv, TypeOK, Errors
<1>1. CASE Seek
  BY <1>1 DEF Seek, Sought, request
<1>2. CASE \E ok \in BOOLEAN : Flush(ok)
  <2>1. PICK ok \in BOOLEAN : Flush(ok)
    BY <1>2
  <2> QED BY <2>1 DEF Flush, Sought, Host, request
<1>3. CASE NoTransfer
  BY <1>3 DEF NoTransfer, Transferred, request
<1>4. CASE \E ok \in BOOLEAN : Read(ok)
  <2>1. PICK ok \in BOOLEAN : Read(ok)
    BY <1>4
  <2> QED BY <2>1 DEF Read, Reads, Transferred, Host, request
<1>5. CASE WriteBuffered
  BY <1>5 DEF WriteBuffered, Transferred, request
<1>6. CASE \E ok \in BOOLEAN : WriteDirect(ok)
  <2>1. PICK ok \in BOOLEAN : WriteDirect(ok)
    BY <1>6
  <2> QED BY <2>1 DEF WriteDirect, Transferred, Host, request
<1>7. CASE \E b \in Blocks : ReadBlocks(b)
  <2>1. PICK b \in Blocks : ReadBlocks(b)
    BY <1>7
  <2> QED BY <2>1 DEF ReadBlocks, Idle, Call, stream
<1>8. CASE \E b \in Blocks, d \in Data : WriteBlocks(b, d)
  <2>1. PICK b \in Blocks, d \in Data : WriteBlocks(b, d)
    BY <1>8
  <2> QED BY <2>1 DEF WriteBlocks, Idle, Call, stream
<1>9. CASE Change
  BY <1>9 DEF Change, Idle, stream, request
<1>10. CASE Destroy
  BY <1>10 DEF Destroy, Idle, Update, Call, stream
<1>11. CASE CheckNext
  BY <1>11 DEF CheckNext, stream
<1>12. CASE CheckDone
  BY <1>12 DEF CheckDone, Answer, stream
<1>13. CASE ReturnFalse
  BY <1>13 DEF ReturnFalse, Bad, Error, Answer
<1>14. CASE OpenFails
  BY <1>14 DEF OpenFails, Bad, Error, Answer
<1>15. CASE TestFails
  BY <1>15 DEF TestFails, Bad, Error, Update, Call
<1>16. CASE UpdateThrows
  BY <1>16 DEF UpdateThrows, Bad, Error, Answer
<1> QED
  BY <1>1, <1>2, <1>3, <1>4, <1>5, <1>6, <1>7, <1>8,
     <1>9, <1>10, <1>11, <1>12, <1>13, <1>14, <1>15, <1>16
  DEF Next, Requests, Outcomes, Commands

(* The buffer and the host together hold what was reported written.        *)
LEMMA BlocksStep ==
  ASSUME BlocksApart, IInv, Next
  PROVE  BlocksKept'
<1> USE DEF IInv, TypeOK, Errors, BlocksKept, BlocksApart, Through, Sector, Meta
<1>1. CASE Seek
  BY <1>1, BufferFacts DEF Seek, Sought, request
<1>2. CASE \E ok \in BOOLEAN : Flush(ok)
  <2>1. PICK ok \in BOOLEAN : Flush(ok)
    BY <1>2
  <2>2. CASE ok
    <3>1. Flush(TRUE)
      BY <2>1, <2>2
    <3>2. DOMAIN pending' = {} /\ \A b \in Blocks : Through(b)' = Through(b)
      BY <3>1, FlushKeeps
    <3> HIDE DEF Through
    <3> QED BY <3>1, <3>2 DEF Flush, Sought, Host, request
  <2>3. CASE ~ok
    BY <2>1, <2>3 DEF Flush, Sought, Host, request
  <2> QED BY <2>1, <2>2, <2>3
<1>3. CASE NoTransfer
  BY <1>3, BufferFacts DEF NoTransfer, Transferred, request
<1>4. CASE \E ok \in BOOLEAN : Read(ok)
  <2>1. PICK ok \in BOOLEAN : Read(ok)
    BY <1>4
  <2> QED BY <2>1, BufferFacts DEF Read, Reads, Transferred, Host, request
<1>5. CASE WriteBuffered
  <2>1. DOMAIN pending = {} /\ DOMAIN pending' = {at} /\ pending'[at] = data
    BY <1>5, BufferFacts DEF WriteBuffered
  <2>2. Through(at)' = data
    BY <1>5, <2>1 DEF WriteBuffered, Transferred, request
  <2>3. \A b \in Blocks \ {at} : Through(b)' = Through(b)
    BY <1>5, <2>1 DEF WriteBuffered
  <2> QED BY <1>5, <2>2, <2>3 DEF WriteBuffered, Transferred, request
<1>6. CASE \E ok \in BOOLEAN : WriteDirect(ok)
  <2>1. PICK ok \in BOOLEAN : WriteDirect(ok)
    BY <1>6
  <2>2. \A b \in Blocks : Through(b)' = Through(b)
    BY <2>1 DEF WriteDirect
  <2> QED BY <2>1, <2>2 DEF WriteDirect, Transferred, Host, request
<1>7. CASE \E b \in Blocks : ReadBlocks(b)
  <2>1. PICK b \in Blocks : ReadBlocks(b)
    BY <1>7
  <2> QED BY <2>1, BufferFacts DEF ReadBlocks, Idle, Call, stream
<1>8. CASE \E b \in Blocks, d \in Data : WriteBlocks(b, d)
  <2>1. PICK b \in Blocks, d \in Data : WriteBlocks(b, d)
    BY <1>8
  <2> QED BY <2>1, BufferFacts DEF WriteBlocks, Idle, Call, stream
<1>9. CASE Change
  BY <1>9, BufferFacts DEF Change, Idle, stream, request
<1>10. CASE Destroy
  BY <1>10, BufferFacts DEF Destroy, Idle, Update, Call, stream
<1>11. CASE CheckNext
  BY <1>11, BufferFacts DEF CheckNext, stream
<1>12. CASE CheckDone
  BY <1>12, BufferFacts DEF CheckDone, Answer, stream
<1>13. CASE ReturnFalse
  BY <1>13, BufferFacts DEF ReturnFalse, Bad, Error, Answer
<1>14. CASE OpenFails
  BY <1>14, BufferFacts DEF OpenFails, Bad, Error, Answer
<1>15. CASE TestFails
  BY <1>15, BufferFacts DEF TestFails, Bad, Error, Update, Call
<1>16. CASE UpdateThrows
  BY <1>16, BufferFacts DEF UpdateThrows, Bad, Error, Answer
<1> QED
  BY <1>1, <1>2, <1>3, <1>4, <1>5, <1>6, <1>7, <1>8,
     <1>9, <1>10, <1>11, <1>12, <1>13, <1>14, <1>15, <1>16
  DEF Next, Requests, Outcomes, Commands

(* FileSystem has read what it may write.                                  *)
LEMMA MetaReadStep ==
  ASSUME BlocksApart, IInv, Next
  PROVE  MetaRead'
<1> USE DEF IInv, TypeOK, Errors, BlocksKept, MetaRead, BlocksApart, Through, Sector, Meta
<1>1. CASE Seek
  BY <1>1, BufferFacts DEF Seek, Sought, request
<1>2. CASE \E ok \in BOOLEAN : Flush(ok)
  <2>1. PICK ok \in BOOLEAN : Flush(ok)
    BY <1>2
  <2>2. \A s \in Meta : image'[s] = image[s]
    <3>1. CASE ok
      <4>1. Flush(TRUE)
        BY <2>1, <3>1
      <4> QED BY <4>1, FlushKeeps, MetaUnbuffered
    <3>2. CASE ~ok
      BY <2>1, <3>2 DEF Flush
    <3> QED BY <3>1, <3>2
  <2> QED BY <2>1, <2>2 DEF Flush, Sought, Host, request
<1>3. CASE NoTransfer
  BY <1>3, BufferFacts DEF NoTransfer, Transferred, request
<1>4. CASE \E ok \in BOOLEAN : Read(ok)
  <2>1. PICK ok \in BOOLEAN : Read(ok)
    BY <1>4
  <2> QED BY <2>1, BufferFacts DEF Read, Reads, Transferred, Host, request
<1>5. CASE WriteBuffered
  BY <1>5, BufferFacts DEF WriteBuffered, Transferred, request
<1>6. CASE \E ok \in BOOLEAN : WriteDirect(ok)
  <2>1. PICK ok \in BOOLEAN : WriteDirect(ok)
    BY <1>6
  <2>2. owner = "FileSystem" => \A s \in Meta : mem[s] # "unread" /\ image'[s] # "unread"
    BY <2>1 DEF WriteDirect
  <2> QED BY <2>1, <2>2 DEF WriteDirect, Transferred, Host, request
<1>7. CASE \E b \in Blocks : ReadBlocks(b)
  <2>1. PICK b \in Blocks : ReadBlocks(b)
    BY <1>7
  <2> QED BY <2>1, BufferFacts DEF ReadBlocks, Idle, Call, stream
<1>8. CASE \E b \in Blocks, d \in Data : WriteBlocks(b, d)
  <2>1. PICK b \in Blocks, d \in Data : WriteBlocks(b, d)
    BY <1>8
  <2> QED BY <2>1, BufferFacts DEF WriteBlocks, Idle, Call, stream
<1>9. CASE Change
  BY <1>9, BufferFacts DEF Change, Idle, stream, request
<1>10. CASE Destroy
  BY <1>10, BufferFacts DEF Destroy, Idle, Update, Call, stream
<1>11. CASE CheckNext
  BY <1>11, BufferFacts DEF CheckNext, stream
<1>12. CASE CheckDone
  BY <1>12, BufferFacts DEF CheckDone, Answer, stream
<1>13. CASE ReturnFalse
  BY <1>13, BufferFacts DEF ReturnFalse, Bad, Error, Answer
<1>14. CASE OpenFails
  BY <1>14, BufferFacts DEF OpenFails, Bad, Error, Answer
<1>15. CASE TestFails
  BY <1>15, BufferFacts DEF TestFails, Bad, Error, Update, Call
<1>16. CASE UpdateThrows
  BY <1>16, BufferFacts DEF UpdateThrows, Bad, Error, Answer
<1> QED
  BY <1>1, <1>2, <1>3, <1>4, <1>5, <1>6, <1>7, <1>8,
     <1>9, <1>10, <1>11, <1>12, <1>13, <1>14, <1>15, <1>16
  DEF Next, Requests, Outcomes, Commands

(* update leaves nothing in the buffer.                                    *)
LEMMA MetaSavedStep ==
  ASSUME BlocksApart, IInv, Next
  PROVE  MetaSaved'
<1> USE DEF IInv, TypeOK, Errors, BlocksKept, MetaSaved, BlocksApart, Through, Sector, Meta
<1>1. CASE Seek
  BY <1>1, BufferFacts DEF Seek, Sought, request
<1>2. CASE \E ok \in BOOLEAN : Flush(ok)
  <2>1. PICK ok \in BOOLEAN : Flush(ok)
    BY <1>2
  <2> QED BY <2>1, BufferFacts DEF Flush, Sought, Host, request
<1>3. CASE NoTransfer
  BY <1>3, BufferFacts DEF NoTransfer, Transferred, request
<1>4. CASE \E ok \in BOOLEAN : Read(ok)
  <2>1. PICK ok \in BOOLEAN : Read(ok)
    BY <1>4
  <2> QED BY <2>1, BufferFacts DEF Read, Reads, Transferred, Host, request
<1>5. CASE WriteBuffered
  BY <1>5, BufferFacts DEF WriteBuffered, Transferred, request
<1>6. CASE \E ok \in BOOLEAN : WriteDirect(ok)
  <2>1. PICK ok \in BOOLEAN : WriteDirect(ok)
    BY <1>6
  <2> QED BY <2>1, BufferFacts DEF WriteDirect, Transferred, Host, request
<1>7. CASE \E b \in Blocks : ReadBlocks(b)
  <2>1. PICK b \in Blocks : ReadBlocks(b)
    BY <1>7
  <2> QED BY <2>1, BufferFacts DEF ReadBlocks, Idle, Call, stream
<1>8. CASE \E b \in Blocks, d \in Data : WriteBlocks(b, d)
  <2>1. PICK b \in Blocks, d \in Data : WriteBlocks(b, d)
    BY <1>8
  <2> QED BY <2>1, BufferFacts DEF WriteBlocks, Idle, Call, stream
<1>9. CASE Change
  BY <1>9, BufferFacts DEF Change, Idle, stream, request
<1>10. CASE Destroy
  BY <1>10, BufferFacts DEF Destroy, Idle, Update, Call, stream
<1>11. CASE CheckNext
  BY <1>11, BufferFacts DEF CheckNext, stream
<1>12. CASE CheckDone
  BY <1>12, BufferFacts DEF CheckDone, Answer, stream
<1>13. CASE ReturnFalse
  BY <1>13, BufferFacts DEF ReturnFalse, Bad, Error, Answer
<1>14. CASE OpenFails
  BY <1>14, BufferFacts DEF OpenFails, Bad, Error, Answer
<1>15. CASE TestFails
  BY <1>15, BufferFacts DEF TestFails, Bad, Error, Update, Call
<1>16. CASE UpdateThrows
  BY <1>16, BufferFacts DEF UpdateThrows, Bad, Error, Answer
<1> QED
  BY <1>1, <1>2, <1>3, <1>4, <1>5, <1>6, <1>7, <1>8,
     <1>9, <1>10, <1>11, <1>12, <1>13, <1>14, <1>15, <1>16
  DEF Next, Requests, Outcomes, Commands

LEMMA Stutter ==
  ASSUME IInv, UNCHANGED vars
  PROVE  IInv'
BY ZenonT(60) DEF IInv, TypeOK, Errors, BlocksKept, MetaRead, MetaSaved, Through, vars,
       stream, request

LEMMA InitInv == Init => IInv
<1> SUFFICES ASSUME Init PROVE IInv
  OBVIOUS
<1>1. TypeOK
  BY DEF Init, TypeOK, Sector, Meta, Contents
<1>2. Errors
  BY DEF Init, Errors
<1>3. BlocksKept /\ MetaSaved
  BY BufferFacts DEF Init, BlocksKept, MetaSaved, Through, Sector
<1>4. MetaRead
  BY DEF Init, MetaRead, Sector, Meta
<1> QED BY <1>1, <1>2, <1>3, <1>4 DEF IInv

LEMMA Invariant ==
  ASSUME BlocksApart
  PROVE  Spec => []IInv
<1>1. IInv /\ [Next]_vars => IInv'
  <2> SUFFICES ASSUME IInv, [Next]_vars PROVE IInv'
    OBVIOUS
  <2>1. CASE Next
    BY <2>1, TypeStep, ErrorsStep, BlocksStep, MetaReadStep, MetaSavedStep DEF IInv
  <2>2. CASE UNCHANGED vars
    BY <2>2, Stutter
  <2> QED BY <2>1, <2>2
<1> QED BY InitInv, <1>1, PTL DEF Spec

-----------------------------------------------------------------------------
(* FstreamFile keeps an error beside the stream's own, and error() is to   *)
(* clear both: no call reports a failure that was not its own, or hides    *)
(* one that was.                                                           *)
THEOREM OwnFaultsReported ==
  ASSUME BlocksApart
  PROVE  Spec => []ReportsItsOwnFault
<1>1. IInv => ReportsItsOwnFault
  BY DEF IInv, Errors, ReportsItsOwnFault
<1> QED BY Invariant, <1>1, PTL

(* read_blocks after any number of write_blocks, some of which failed:     *)
(* what comes back is what the last successful write wrote, although its   *)
(* block may be in the buffer, or have failed to reach the host once.      *)
THEOREM WrittenIsRead ==
  ASSUME BlocksApart
  PROVE  Spec => []ReadsWhatWasWritten
<1>1. IInv => ReadsWhatWasWritten
  BY DEF IInv, BlocksKept, ReadsWhatWasWritten
<1> QED BY Invariant, <1>1, PTL

(* ~Disk returns only after update has brought everything to the host.     *)
THEOREM SavedIsComplete ==
  ASSUME BlocksApart
  PROVE  Spec => []SavedMeansSaved
<1>1. IInv => SavedMeansSaved
  BY DEF IInv, Errors, BlocksKept, MetaSaved, Through, SavedMeansSaved
<1> QED BY Invariant, <1>1, PTL

(* FileSystem never writes a superblock or inodes that it has not read.    *)
THEOREM NothingUnreadSaved ==
  ASSUME BlocksApart
  PROVE  Spec => []UnreadNotSaved
<1>1. IInv => UnreadNotSaved
  BY DEF IInv, MetaRead, UnreadNotSaved
<1> QED BY Invariant, <1>1, PTL

-----------------------------------------------------------------------------
(* The frame of the test programs: where their copy of an image is, for    *)
(* any number of tests, of runs and of interrupts, at whatever moment they *)
(* come.                                                                   *)
CONSTANT Tests
VARIABLES copy, destroy, created, refresh, test, test_at, test_result, found, threw

Harness == INSTANCE TestHarness
             WITH at <- test_at, result <- test_result, before <- found

HarnessTypeOK ==
  /\ destroy \in BOOLEAN /\ created \in BOOLEAN /\ threw \in BOOLEAN
  /\ refresh \in [Harness!Test -> BOOLEAN]
  /\ test \in 1 .. Tests + 1
  /\ test_at \in {"off", "begin", "run", "refresh", "copy"}

(* A copy is made only where there is none.                                *)
RoomForCopy ==
  /\ test_at = "begin" /\ ~created => copy = "none"
  /\ test_at = "copy" => copy = "none"
  /\ test_result # "copy exists"
  /\ test_at # "off" => test_result = "none"

(* Without the option to destroy it the copy is missing only before the    *)
(* first test and between the halves of a refresh.                         *)
KeptUnlessDestroyed ==
  /\ test_at = "begin" /\ test > 1 => created
  /\ test_at \in {"run", "refresh", "copy"} => created /\ test \in Harness!Test
  /\ ~destroy /\ created /\ test_at \in {"begin", "run", "refresh"} => copy # "none"

(* What the next test will find.                                           *)
FreshNext ==
  test_at = "begin" /\ created /\ copy # "none"
    /\ (test = 1 \/ (refresh[test - 1] /\ ~threw)) => copy = "fresh"

HarnessInv ==
  /\ HarnessTypeOK /\ RoomForCopy /\ KeptUnlessDestroyed /\ FreshNext
  /\ Harness!CopyGoneOrKept /\ Harness!RefreshedStartFresh

-----------------------------------------------------------------------------
(* The next test.                                                          *)
LEMMA NextTest ==
  ASSUME Tests \in Nat
  PROVE  /\ 1 \in 1 .. Tests + 1
         /\ \A t \in Harness!Test : t + 1 \in 1 .. Tests + 1 /\ t + 1 # 1 /\ (t + 1) - 1 = t
         /\ \A t \in 1 .. Tests + 1 : t \notin Harness!Test /\ Tests > 0 => t > 1
BY DEF Harness!Test

LEMMA HarnessInit == ASSUME Tests \in Nat PROVE Harness!Init => HarnessInv
<1> SUFFICES ASSUME Harness!Init PROVE HarnessInv
  OBVIOUS
<1>1. HarnessTypeOK
  BY NextTest DEF Harness!Init, HarnessTypeOK
<1>2. RoomForCopy /\ KeptUnlessDestroyed /\ FreshNext
  BY DEF Harness!Init, RoomForCopy, KeptUnlessDestroyed, FreshNext
<1>3. Harness!CopyGoneOrKept /\ Harness!RefreshedStartFresh
  BY DEF Harness!Init, Harness!CopyGoneOrKept, Harness!RefreshedStartFresh
<1> QED BY <1>1, <1>2, <1>3 DEF HarnessInv

LEMMA HarnessStep ==
  ASSUME Tests \in Nat, HarnessInv, Harness!Next
  PROVE  HarnessInv'
<1> USE DEF HarnessInv, HarnessTypeOK, RoomForCopy, KeptUnlessDestroyed, FreshNext,
            Harness!CopyGoneOrKept, Harness!RefreshedStartFresh
<1> USE NextTest
<1>1. CASE Harness!Start
  <2>1. HarnessTypeOK'
    BY <1>1 DEF Harness!Start
  <2>2. RoomForCopy' /\ FreshNext'
    BY <1>1 DEF Harness!Start
  <2>3. KeptUnlessDestroyed'
    <3>1. ~created' /\ test_at' = "begin"
      BY <1>1 DEF Harness!Start
    <3>2. test' = 1
      BY <1>1 DEF Harness!Start
    <3>3. ~(test' > 1)
      BY ONLY <3>2
    <3> QED BY <3>1, <3>3
  <2>4. Harness!CopyGoneOrKept' /\ Harness!RefreshedStartFresh'
    BY <1>1 DEF Harness!Start
  <2> QED BY <2>1, <2>2, <2>3, <2>4
<1>2. CASE Harness!CopyFirst
  BY <1>2 DEF Harness!CopyFirst, Harness!Terminate, Harness!Stays
<1>3. CASE Harness!OpenFails
  <2>1. HarnessTypeOK'
    BY <1>3 DEF Harness!OpenFails, Harness!Terminate, Harness!Stays
  <2>2. RoomForCopy'
    BY <1>3 DEF Harness!OpenFails, Harness!Terminate, Harness!Stays
  <2>3. KeptUnlessDestroyed'
    <3>1. destroy /\ created
      BY <1>3 DEF Harness!OpenFails
    <3>2. destroy' /\ created' /\ test_at' \in {"begin", "off"}
      BY <1>3, <3>1 DEF Harness!OpenFails, Harness!Terminate, Harness!Stays
    <3> QED BY <3>2
  <2>4. FreshNext'
    BY <1>3 DEF Harness!OpenFails, Harness!Terminate, Harness!Stays
  <2>5. Harness!CopyGoneOrKept' /\ Harness!RefreshedStartFresh'
    BY <1>3 DEF Harness!OpenFails, Harness!Terminate, Harness!Stays
  <2> QED BY <2>1, <2>2, <2>3, <2>4, <2>5
<1>4. CASE Harness!BeginTest
  BY <1>4 DEF Harness!BeginTest, Harness!Stays
<1>5. CASE \E exception \in BOOLEAN : Harness!EndTest(exception)
  <2>1. HarnessTypeOK'
    BY <1>5 DEF Harness!EndTest, Harness!Stays
  <2>2. RoomForCopy'
    BY <1>5 DEF Harness!EndTest, Harness!Stays
  <2>3. KeptUnlessDestroyed'
    BY <1>5 DEF Harness!EndTest, Harness!Stays
  <2>4. FreshNext'
    BY <1>5 DEF Harness!EndTest, Harness!Stays
  <2>5. Harness!CopyGoneOrKept' /\ Harness!RefreshedStartFresh'
    BY <1>5 DEF Harness!EndTest, Harness!Stays
  <2> QED BY <2>1, <2>2, <2>3, <2>4, <2>5
<1>6. CASE Harness!TestDies
  BY <1>6 DEF Harness!TestDies, Harness!Terminate, Harness!Stays
<1>7. CASE Harness!RefreshDestroy
  BY <1>7 DEF Harness!RefreshDestroy, Harness!Stays
<1>8. CASE Harness!RefreshCopy
  BY <1>8 DEF Harness!RefreshCopy, Harness!Terminate, Harness!Stays
<1>9. CASE Harness!Return
  BY <1>9 DEF Harness!Return, Harness!Terminate, Harness!Stays
<1>10. CASE Harness!Interrupt
  BY <1>10 DEF Harness!Interrupt
<1> QED
  BY <1>1, <1>2, <1>3, <1>4, <1>5, <1>6, <1>7, <1>8, <1>9, <1>10 DEF Harness!Next

LEMMA HarnessInvariant ==
  ASSUME Tests \in Nat
  PROVE  Harness!Spec => []HarnessInv
<1>1. HarnessInv /\ UNCHANGED Harness!vars => HarnessInv'
  <2> SUFFICES ASSUME HarnessInv, UNCHANGED Harness!vars PROVE HarnessInv'
    OBVIOUS
  <2>1. HarnessTypeOK' /\ RoomForCopy' /\ KeptUnlessDestroyed'
    BY DEF HarnessInv, HarnessTypeOK, RoomForCopy, KeptUnlessDestroyed, Harness!vars, Harness!Test
  <2>2. FreshNext' /\ Harness!CopyGoneOrKept' /\ Harness!RefreshedStartFresh'
    BY DEF HarnessInv, FreshNext, Harness!CopyGoneOrKept, Harness!RefreshedStartFresh, Harness!vars
  <2> QED BY <2>1, <2>2 DEF HarnessInv
<1>2. HarnessInv /\ [Harness!Next]_(Harness!vars) => HarnessInv'
  BY <1>1, HarnessStep
<1> QED BY HarnessInit, <1>2, PTL DEF Harness!Spec

-----------------------------------------------------------------------------
(* copy_file never finds a file in its place, wherever SIGINT strikes and  *)
(* however the tests before ended.                                         *)
THEOREM NeverInTheWay ==
  ASSUME Tests \in Nat
  PROVE  Harness!Spec => []Harness!CopyNeverInTheWay
<1>1. HarnessInv => Harness!CopyNeverInTheWay
  BY DEF HarnessInv, RoomForCopy, Harness!CopyNeverInTheWay
<1> QED BY HarnessInvariant, <1>1, PTL

(* A main that returns has removed the copy, or, with save_on_exit, kept   *)
(* it through every refresh and interrupt.                                 *)
THEOREM GoneOrKept ==
  ASSUME Tests \in Nat
  PROVE  Harness!Spec => []Harness!CopyGoneOrKept
<1>1. HarnessInv => Harness!CopyGoneOrKept
  BY DEF HarnessInv
<1> QED BY HarnessInvariant, <1>1, PTL

(* The first test of a run, and every test after one that returned and     *)
(* asked for a refresh, begins on a copy that no test has changed.         *)
THEOREM StartFresh ==
  ASSUME Tests \in Nat
  PROVE  Harness!Spec => []Harness!RefreshedStartFresh
<1>1. HarnessInv => Harness!RefreshedStartFresh
  BY DEF HarnessInv
<1> QED BY HarnessInvariant, <1>1, PTL

=============================================================================
