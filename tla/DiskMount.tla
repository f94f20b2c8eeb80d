------------------------------ MODULE DiskMount ------------------------------
(***************************************************************************)
(* What is in memory and what is on the image: Disk::load, Disk::update,   *)
(* the destructor that calls it, and a program that stops without it.      *)
(*                                                                         *)
(* load copies the superblock and the inodes into memory; every command    *)
(* changes the copies, and update writes them back, the superblock first,  *)
(* when the Disk is destroyed.  Data blocks and spilled tables of the free *)
(* list are written at once, so that the image of a running session mixes  *)
(* old metadata with new blocks.  A crash keeps that mixture.              *)
(*                                                                         *)
(* A file is the sequence of its data blocks, with 0 for those a write     *)
(* that ran out of blocks left unallocated; its index blocks are left to   *)
(* FileBlocks, names and directories to Vfs.  The image starts as made by  *)
(* makeimage: formatted, and saved by an orderly end.                      *)
(*                                                                         *)
(* Restriction: a file with such a 0 is not written or removed again, in   *)
(* this session or a later one; freeing block 0 is what FileBlocks shows   *)
(* to ruin the free list.                                                  *)
(***************************************************************************)
EXTENDS Integers, Sequences

CONSTANTS DiskBlocks, FirstData, EndData, Cap,  \* as in FreeList
          Payloads,   \* what file data reads as when taken for a table
          Files,      \* the inodes of files
          MaxBlocks,  \* bound: blocks in a file
          MaxSessions,\* bound: times the image is loaded
          MaxCommands \* bound: writes and removals in a session

ASSUME ListAssumption ==       \* what FreeList assumes
  /\ DiskBlocks \in Nat /\ FirstData \in Nat /\ EndData \in Nat
  /\ 0 < FirstData /\ FirstData <= EndData /\ EndData <= DiskBlocks
  /\ Cap \in Nat /\ Cap >= 2
  /\ Payloads \subseteq Seq(Nat)

ASSUME BoundsAssumption ==
  MaxBlocks \in Nat /\ MaxSessions \in Nat /\ MaxCommands \in Nat

VARIABLES
  s_free, content, links,  \* as in FreeList
  ret,        \* a block allocated and not yet written, otherwise NoBlock
  files,      \* memory: the blocks each inode names
  task,       \* the write_file or _rmfile in progress: the file, the blocks
              \* it is to have, and whether its old ones are gone
  phase,      \* "closed", "open", or "saving": update is between its writes
  img,        \* the image's superblock and inodes: s_free, files and, ghost,
              \* links
  sessions,   \* how often the image was loaded
  commands,   \* how many commands the session has run
  unflushed,  \* the last block write, [at, old], while std::fstream may
              \* still hold it in its buffer; <<>> if there is none
  kept,       \* ghost: what each file of the image held at the last end
  touched,    \* ghost: the files the session has freed or written
  low,        \* ghost: the fewest spilled tables linked in this session
  lost        \* ghost: why the image may no longer be sound, "nothing" if it is

metadata == <<s_free, links, files>>
ghosts == <<kept, touched, low, lost>>
counters == <<sessions, commands>>
vars == <<s_free, content, ret, links, files, task, phase, img, unflushed,
          counters, ghosts>>

Owned(fs) == (UNION {{fs[f][i] : i \in DOMAIN fs[f]} : f \in Files}) \ {0}
InHand == IF ret = -1 THEN {} ELSE {ret}

(* The list of the running session.                                        *)
Memory == INSTANCE FreeList
            WITH cursor <- EndData, held <- Owned(files) \cup InHand

Block == Memory!Block

(* What the blocks of the image read as if the buffered write is lost.     *)
Unwritten == IF unflushed = <<>> THEN content
             ELSE [content EXCEPT ![unflushed.at] = unflushed.old]

(* The lists load would find now: with the buffered write, and without.    *)
Image == INSTANCE FreeList
           WITH cursor <- EndData, held <- Owned(img.files),
                s_free <- img.s_free, links <- img.links
Torn == INSTANCE FreeList
          WITH cursor <- EndData, held <- Owned(img.files),
               s_free <- img.s_free, links <- img.links,
               content <- Unwritten

-----------------------------------------------------------------------------
(* Opening.                                                                *)

(* Faulty: the inodes are not read.                                        *)
LoadNoInodes ==
  /\ phase = "closed"
  /\ lost = "nothing"
  /\ sessions < MaxSessions
  /\ sessions' = sessions + 1
  /\ phase' = "open"
  /\ s_free' = img.s_free
  /\ links' = img.links
  /\ touched' = {}
  /\ low' = Len(img.links)
  /\ UNCHANGED <<content, ret, files, task, img, commands, unflushed, kept, lost>>

(* Disk::load: the superblock, then the inodes.                            *)
Load ==
  /\ phase = "closed"
  /\ lost = "nothing"   \* bound: damaged images are not used further
  /\ sessions < MaxSessions
  /\ sessions' = sessions + 1
  /\ phase' = "open"
  /\ s_free' = img.s_free
  /\ links' = img.links
  /\ files' = img.files
  /\ touched' = {}
  /\ low' = Len(img.links)
  /\ UNCHANGED <<content, ret, task, img, commands, unflushed, kept, lost>>

-----------------------------------------------------------------------------
(* Commands: write_file to n blocks, or for n = 0 _rmfile.                 *)

(* A block write: the seek before it flushes the one before.               *)
Write(b, old) == unflushed' = [at |-> b, old |-> old]

Lowest(a, b) == IF a < b THEN a ELSE b

(* The wanted size stays, with slots of 0 where no block was allocated.    *)
CutShort(blocks, size) ==
  [i \in 1 .. size |-> IF i <= Len(blocks) THEN blocks[i] ELSE 0]

Whole(f) == \A i \in DOMAIN files[f] : files[f][i] # 0

Begin(f, n) ==
  /\ phase = "open"
  /\ task = <<>>
  /\ Whole(f)          \* restriction: see above
  /\ commands < MaxCommands
  /\ commands' = commands + 1
  /\ task' = [file |-> f, size |-> n, empty |-> FALSE]
  /\ touched' = touched \cup {f}
  /\ UNCHANGED <<metadata, content, ret, phase, img, sessions, unflushed,
                 kept, low, lost>>

(* free_inode_blocks: one block at a time to the list.  free_block writes  *)
(* to the image when it spills the table.                                  *)
FreeOld ==
  /\ task # <<>> /\ ~task.empty
  /\ LET f == task.file IN
     IF files[f] = <<>>
     THEN /\ task' = [task EXCEPT !.empty = TRUE]
          /\ UNCHANGED <<metadata, content, unflushed>>
     ELSE LET b == Head(files[f]) IN
          /\ Memory!FreeBlock(b)
          /\ files' = [files EXCEPT ![f] = Tail(@)]
          /\ IF links' # links THEN Write(b, content[b]) ELSE UNCHANGED unflushed
          /\ UNCHANGED task
  /\ UNCHANGED <<ret, phase, img, counters, ghosts>>

(* The traversal asks for a block; without one the write fails, and the    *)
(* inode keeps its size.                                                   *)
Take ==
  /\ task # <<>> /\ task.empty /\ ret = -1
  /\ Len(files[task.file]) < task.size
  /\ Memory!AllocBlock
  /\ IF ret' \in Block
     THEN UNCHANGED <<task, files>>
     ELSE /\ task' = <<>>
          /\ files' = [files EXCEPT ![task.file] = CutShort(@, task.size)]
  /\ low' = Lowest(low, Len(links'))
  /\ UNCHANGED <<phase, img, counters, unflushed, kept, touched, lost>>

(* ... and writes the data to it at once.                                  *)
Put(p) ==
  /\ ret # -1
  /\ content' = [content EXCEPT ![ret] = p]
  /\ files' = [files EXCEPT ![task.file] = Append(@, ret)]
  /\ Write(ret, content[ret])
  /\ ret' = -1
  /\ UNCHANGED <<s_free, links, task, phase, img, counters, ghosts>>

Finish ==
  /\ task # <<>> /\ task.empty /\ ret = -1
  /\ Len(files[task.file]) = task.size
  /\ task' = <<>>
  /\ UNCHANGED <<metadata, content, ret, phase, img, unflushed, counters,
                 ghosts>>

-----------------------------------------------------------------------------
(* The end of a session, and a stop before it.                             *)

(* Faulty: the superblock overtakes the buffered block.                    *)
SaveSuperblockUnflushed ==
  /\ phase = "open"
  /\ task = <<>>
  /\ img' = [img EXCEPT !.s_free = s_free, !.links = links]
  /\ phase' = "saving"
  /\ UNCHANGED <<metadata, content, ret, task, unflushed, counters, ghosts>>

(* Faulty: the superblock is written only if its table changed its length. *)
SaveSuperblockLazily ==
  /\ phase = "open"
  /\ task = <<>>
  /\ img' = IF Len(s_free) = Len(img.s_free) THEN img
            ELSE [img EXCEPT !.s_free = s_free, !.links = links]
  /\ unflushed' = <<>>
  /\ phase' = "saving"
  /\ UNCHANGED <<metadata, content, ret, task, counters, ghosts>>

(* Disk::update, called by ~Disk: the superblock,                          *)
SaveSuperblock ==
  /\ phase = "open"
  /\ task = <<>>
  /\ img' = [img EXCEPT !.s_free = s_free, !.links = links]
  /\ unflushed' = <<>>
  /\ phase' = "saving"
  /\ UNCHANGED <<metadata, content, ret, task, counters, ghosts>>

Contents(fs) == [f \in Files |-> [i \in DOMAIN fs[f] |-> content[fs[f][i]]]]
NoFiles == [f \in Files |-> <<>>]

(* The process ends: nothing of the memory is left.                        *)
Forget ==
  /\ phase' = "closed"
  /\ s_free' = <<>>
  /\ links' = <<>>
  /\ files' = NoFiles
  /\ task' = <<>>
  /\ ret' = -1
  /\ unflushed' = <<>>
  /\ commands' = 0
  /\ touched' = {}
  /\ low' = 0

(* then the inodes.                                                        *)
SaveInodes ==
  /\ phase = "saving"
  /\ img' = [img EXCEPT !.files = files]
  /\ kept' = Contents(files)
  /\ Forget
  /\ UNCHANGED <<content, sessions, lost>>

(* The program is killed or ends without running ~Disk, as it does when    *)
(* the shell's asker throws.  A write still buffered may be lost.          *)
Crash ==
  /\ phase # "closed"
  /\ content' \in {content, Unwritten}
  /\ lost' = CASE phase = "saving" -> "list and inodes of two sessions"
               [] low < Len(img.links) -> "a table the old list needs"
               [] OTHER -> "nothing"
  /\ kept' = [f \in Files |-> [i \in DOMAIN img.files[f] |-> content'[img.files[f][i]]]]
  /\ Forget
  /\ UNCHANGED <<img, sessions>>

-----------------------------------------------------------------------------
(* The block loop of format over a blank image, block by block.            *)
Formatted[n \in FirstData - 1 .. EndData - 1] ==
  IF n < FirstData
  THEN [table |-> <<>>, links |-> <<>>, content |-> [b \in Block |-> <<>>]]
  ELSE LET was == Formatted[n - 1]
           table == IF was.table = <<>> THEN <<0>> ELSE was.table
       IN IF Len(table) < Cap
          THEN [was EXCEPT !.table = Append(table, n)]
          ELSE [table |-> <<n>>, links |-> Append(was.links, n),
                content |-> [was.content EXCEPT ![n] = table]]

Init ==
  LET made == Formatted[EndData - 1] IN
  /\ img = [s_free |-> made.table, links |-> made.links, files |-> NoFiles]
  /\ content = made.content
  /\ s_free = <<>> /\ links = <<>> /\ files = NoFiles
  /\ ret = -1
  /\ task = <<>>
  /\ phase = "closed"
  /\ sessions = 0 /\ commands = 0
  /\ unflushed = <<>>
  /\ kept = NoFiles
  /\ touched = {}
  /\ low = 0
  /\ lost = "nothing"

Next ==
  \/ Load
  \/ \E f \in Files, n \in 0 .. MaxBlocks : Begin(f, n)
  \/ FreeOld
  \/ Take
  \/ \E p \in Payloads : Put(p)
  \/ Finish
  \/ SaveSuperblock
  \/ SaveInodes
  \/ Crash

Spec == Init /\ [][Next]_vars

-----------------------------------------------------------------------------
(* Properties.                                                             *)

TypeOK ==
  /\ s_free \in Seq(Nat) /\ links \in Seq(Block)
  /\ content \in [Block -> Seq(Nat)]
  /\ files \in [Files -> Seq(Block)]
  /\ ret \in Memory!DataZone \cup {-1}
  /\ phase \in {"closed", "open", "saving"}
  /\ img \in [s_free : Seq(Nat), links : Seq(Block), files : [Files -> Seq(Block)]]
  /\ kept \in [Files -> Seq(Seq(Nat))]
  /\ touched \subseteq Files
  /\ low \in Nat

(* Session after session, what a run loads, works on and saves is a free   *)
(* list with every block that no file owns, once (v6pp_disk.cpp 75-99 and  *)
(* 124-144).                                                               *)
SessionSound ==
  phase # "closed" => Memory!ChainIntact /\ Memory!FreePartition

(* Between sessions the same holds of the image, also after a crash, as    *)
(* long as the lost session had not used up a table that was linked when   *)
(* it began: files may grow and shrink, tables be spilled into the blocks  *)
(* of saved files, and the old superblock still finds its list.  A table   *)
(* that was taken is the one thing a crash of a session cannot give back   *)
(* (Disk::alloc_block 293-305 hands out the block that held it).           *)
CrashKeepsList ==
  (phase = "closed" /\ lost = "nothing") \/ (phase = "open" /\ low = Len(img.links))
    => /\ Image!ChainIntact /\ Image!FreePartition
       /\ Torn!ChainIntact /\ Torn!FreePartition

(* At any moment of a session, whatever was written at once and whichever  *)
(* write is still buffered, a crash leaves the files the session has not   *)
(* touched as they were saved: the image's inodes still name their blocks  *)
(* and nothing was written there.                                          *)
UntouchedSurvive ==
  \A f \in Files \ touched :
    \A i \in DOMAIN img.files[f] :
      /\ content[img.files[f][i]] = kept[f][i]
      /\ Unwritten[img.files[f][i]] = kept[f][i]

(* A crash between the two writes of update pairs the new list with the    *)
(* old inodes.  The list is whole, no file the session left alone has a    *)
(* block in it, and the blocks it misses are those of the files written.   *)
HalfSavedSparesOthers ==
  phase = "saving" =>
    /\ Torn!ChainIntact
    /\ \A f \in Files \ touched : \A i \in DOMAIN img.files[f] :
         img.files[f][i] \notin Torn!FreeSet
    /\ Image!DataZone \ (Torn!FreeSet \cup Owned(img.files))
         \subseteq UNION {{files[f][i] : i \in DOMAIN files[f]} : f \in touched}
=============================================================================
