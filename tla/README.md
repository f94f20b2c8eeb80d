# Verification of the V6++ file system wizard

The repository is a tool that edits disk images of the teaching operating
system Unix V6++: it formats an image, keeps a tree of directories in it and
copies files between the image and the host.  An image is 20160 blocks of 512
bytes: boot sector and kernel, a superblock, an inode area, a data zone and a
swap zone.  One process works on one image, in one thread.  So nothing here
races; what is hard is that **the data structures are old, in place and long
lived**: the free-block list is stored inside free blocks, the list of free
inodes is an incomplete cache, three nested loops with callbacks read, write
and free the same index blocks, errors leave operations half done, and part of
the state reaches the image only when the program ends.

Paths below are relative to `src/`; `v6pp_disk.cpp` and `v6pp_vfs.cpp` are in
`src/fs/v6pp/`.

## 1. Inventory

| Component | State | Operations | Status |
|---|---|---|---|
| Free block list (`v6pp_disk.cpp` 285-341) | `s_nfree_`, `s_free_[100]` in the superblock; tables spilled into free blocks | `alloc_block`, `free_block`, block loop of `format` | modelled: `BlockPool`, `FreeList` |
| Inode table (`v6pp_disk.cpp` 350-410) | `ialloc_` of every inode; `s_ninode_`, `s_inode_[100]` | `alloc_inode`, `free_inode`, inode loop of `format` | modelled: `InodePool`, `InodeTable` |
| File blocks (`v6pp_disk.cpp` 240-283, 412-570) | per inode `d_size_` and ten slots; index blocks; data blocks; loop variables | `read_file`, `write_file`, `free_inode_blocks`, `traverse_blocks_over_inode` | modelled: `FileBlocks` |
| Disk format (`v6pp_vfs.cpp` 422-471) | all of the above | `format` | modelled: loops and root inode in `FreeList` and `InodeTable`, the result in `Vfs` |
| Disk layout (`defines.hpp`, `v6pp_superblock.hpp`) | constants | - | modelled: `DiskLayout`, with theorems |
| Directory tree and commands (`v6pp_vfs.cpp`) | directory entries, `inode_idx_stack_` (working directory) | `cd mkdir rmdir touch rm cp mv ls upload download`, `_pwalk`, `_touch`, `_rmfile`, `_getcwd`, `read_inode_directory` | modelled: `NameTree`, `Vfs`; not the commands that change nothing (`ls`, `pwd`, `download`) |
| Mount, update, crash (`v6pp_disk.cpp` 38-144) | superblock and inodes in memory against those on the image | constructor, `load`, `update`, destructor | modelled: `DiskMount`, `Lifecycle` |
| Argument parser (`argparse.cpp`) | rules, parsed values | `accept` | modelled: `ArgParse`, run as a part of `MakeImage`, proved |
| Image builder (`makeimage.cpp`, `alterimage.cpp`) | an image file | one-shot programs | modelled: `Lifecycle` (stages), `MakeImage` (the copying of a directory), proved |
| Interactive shell (`v6pp-fs-local.cpp`, `commands.inc`) | the open `FileSystem` | the loop of `cli`, questions, the constructor of `FileSystem` | partly: `Lifecycle`; the splitting of lines is left out |
| Host file access (`fstream_file.cpp`) | `is_good_`; state and buffer of `std::fstream` | `read`, `write`, `seek`, `error` | modelled: `HostFile`, proved |
| Test programs (`testimage.cpp`, `testvfs.cpp`) | the copy of an image | `REG_TEST`, refresh, handlers | partly: the frame in `TestHarness`, proved; not the tests |
| Utilities (strings, time, exceptions) | none | - | not modelled |

How they interact, from the top: a shell line becomes a `FileSystem` command;
the command walks a path by reading directories with `read_file`, takes or
returns inodes (`alloc_inode`, `free_inode`) and rewrites directories with
`write_file`; `write_file` first gives up all blocks (`free_inode_blocks`) and
then allocates new ones; both run `traverse_blocks_over_inode` with different
callbacks, and the callbacks call `alloc_block` and `free_block`, which read
and write blocks of the same image.  Errors are exceptions that travel up to
the command, with nothing undone on the way.  The superblock and the inodes
are copies in memory that the destructor of `Disk` writes, through an
`FstreamFile` that holds an error state beside that of the `std::fstream`.
`makeimage` chains three `Disk`s on one file and drives the commands itself.

What makes each component correct:

* *Free block list.*  Every block of the data zone is held by a client or
  listed once.  The chain of tables always ends in the sentinel, and no table
  in it is overwritten.  Allocation fails only when nothing is free.
* *Inode table.*  No inode is handed out twice without a free in between.
  A number dropped because the table was full is found again.
* *File blocks.*  Two files never share a block; a block is freed once, and
  only if it is in use; what is read is what was written, in its place; a
  failed write hurts no other file; operations end.
* *Directory tree.*  Until the root's inode is handed out (finding 1), every
  entry names an inode in use, every inode in use but the root is named once,
  the working directory exists, a failed command leaks nothing.
* *Mount and crash.*  What the next run loads agrees with the blocks.
* *Programs on an image.*  What makes, repairs, rolls back and keeps an image,
  over any sequence of programs.
* *Image builder.*  What it could copy is there, at its place; nothing else is.
* *Argument parser.*  Accepted lines are those the documented rules allow and
  those that break them only by repeating a strict option (section 5).
* *Host files.*  A failed transfer is reported by the call it belongs to, and
  nothing reported as written is lost.

The hazards, each at its line and with the properties that catch it, are in
`PROJECT.json`.

## 2. Modules

Faulty variants, marked `Faulty` in a comment, stand before the definition
they deviate from.  They are not part of any specification: they are the bugs
that the properties have been shown to catch.

### BlockPool: what the allocator promises

A set of free blocks: `Allocate` takes any, `OutOfBlocks` happens only when
there is none, `Release` gives one back, `Forget` is the reset a format starts
with.

### FreeList: how it is kept

State: `s_free` is the used prefix of `s_free_` (its length is `s_nfree_`),
`content[b]` is what block `b` reads as when its first 101 words are copied
over the superblock's table, `ret` the result of the last `alloc_block`,
`cursor` the loop variable of `format`.  Two ghosts: `held`, the blocks that
are not free, and `links`, the blocks that hold spilled tables.

| Definition | Code |
|---|---|
| `Exhausted`, `TakeEntry`, `TakeLink`, `TakeSentinel` | the cases of `alloc_block`, the range check after them in `Result` |
| `FreeBlock`, `TableToExtend` | `free_block` |
| `Alloc`, `Free` | the callbacks that call them |
| `WriteBlock` | `write_blocks` on a block a file owns; the data may look like a table (`Payloads`) |
| `FormatBegin`, `FormatStep` | `superblock_.format()` and the loop over the data zone |

The clients are disciplined: they free and write only what they hold.
`FileBlocks` is the client, and its `FreesOnlyHeld` is that very assumption,
so the two modules together do not assume it.  The one case where the client
breaks it is finding 2 below.

### InodeTable

`ialloc` is the set of inodes marked in use, `s_inode` the used prefix of the
table, `owned` (ghost) the inodes handed out and not freed.  `FindFreeInodes`
is the scan: the first `InodeCap` free inodes behind the root, ascending, given
by that characterisation and not by its loop.  `alloc_inode` scans before it
takes an entry if the table is empty and again if that emptied the table
(`Filled`, twice in `TakeInode`).

`InodePool` is what callers may rely on: any inode not in use, failure only
when there is none, and at times the root.  `PoolSpec` maps its free set to the
inodes behind the root without `ialloc_`, whatever the table holds.

### FileBlocks

Sizes are counted in blocks.  An inode's ten slots are one function `addr`;
`Level` tells a slot's kind.  The position in the three nested loops is one
path `at`, outermost loop first; `tabs` and `blks` are the index blocks on that
path: the copies in `idx_block_l2` and `idx_block_l1` and the numbers they were
read from.  Each loop body is a step:

| Action | Code |
|---|---|
| `StartFreeing`, `StartRead` | entry of `free_inode_blocks` (alone or from `write_file`) and of `read_file` |
| `VisitData` | a data block: allocation, process and teardown callback |
| `OpenIndex` | an index block: allocation, then read into the copy |
| `CloseIndex` | `indirect_block_teardown_`: written back by a write, freed by freeing, nothing for a read |
| `WriteFails` | `alloc_block` returned -1: exception, `failure_handler_`, out of `write_file` |
| `BadNumber` | a word that names no block of the disk ends a traversal by an exception; `free_inode_blocks` clears the inode all the same |
| `FreeingDone` | the inode is cleared; a rewrite sets `d_size_` and goes on to allocate |
| `Finish` | a read or write ends |

Allocation and release are those of `BlockPool`, on a set that client errors
may extend by block 0.  A released block has unknown contents (`Junk`): the
free list may have spilled a table into it.  An unknown word read as a block
number names any block of the data zone, `Boot` (which stands for every block
outside it) or nothing at all.  `damaged` marks files whose last write ran out
of blocks.  `ReuseDamaged` says whether clients remove or rewrite such files;
with FALSE they may still read them.

The data of a block is the pair of file and offset it was written for: enough
to tell a block in the wrong place from one in the right place.

### NameTree: what the user sees

A set of names with types.  A step creates a leaf in a directory that is there,
removes a file or a directory with all below it, empties a directory, renames a
file to a new name, starts afresh, or does nothing.  And the tree can `Vanish`
as a whole, when a command takes the root itself for something new; then only
starting afresh helps.

### Vfs: the commands

State: `disk`, a record of `node` (per inode type, entries, contents), `free`
(how many blocks are left) and two ghosts, `damaged` (inodes whose last write
ran out of blocks) and `reissued` (the root, once it was handed out); `cwd` is `inode_idx_stack_`, `rc` what the last command
returned.  A command is one step, since the program has one thread and no
command starts before the last one has returned, but it is put together as in
the code from calls that each take a disk and return the disk they leave and
whether they threw:

| Definition | Code |
|---|---|
| `Walk`, `Trace`, `Enter`, `Up` | `_pwalk`: absolute and relative paths, `.`, `..`, the directory check |
| `Store`, `Cut` | `write_file`: old blocks given up, new ones allocated, the size kept when they run out |
| `Touched`, `NameFree`, `Linked` | `_touch`, one outcome per inode `alloc_inode` may return |
| `Removed`, `Unlinked` | `_rmfile` |
| `Emptied`, `HoldsCwd`, `RmTree` | the directory part of `rm`, answered with yes |
| `Copied`, `Moved`, `Uploaded` | the bodies of `cp`, `mv`, `upload` |
| `Mkdir` ... `Format` | the commands: outcome to `rc`, exception to -1 |

It stands on the modules below it: `InodePool` says that any unused inode may
be returned and the root, in use, as well (`Issued`, finding 1), `FileBlocks`
that a write succeeds as long as there are blocks and what a failed one leaves.
When `_touch` gets the root, `Linked` does to it what the code does: its type
is set, its blocks are those of an empty file, and the directory gets an entry
for it, which is the root itself when the new name was to stand there.  Such a
disk has no tree any more, and what its commands do is not followed further:
only `Format` is possible on it.  With real numbers this is the hundredth
allocation after a format; the model allows it at every allocation.  The
properties hold as long as `reissued` is empty, and those of steps name the
command that is handed the root as an exception.  Assumed, and not checked
here:

* Users keep away from what a full disk damaged (`Sound`): paths do not lead
  through damaged inodes and do not remove them.  What happens otherwise is
  finding 2.
* The contents of a file that a path leads through never read as an entry of
  the name searched: `_pwalk` reads files as directories without a check.
* Directories stay within six blocks, so `Size` needs no index blocks for them.
* Answering no to a question, wrong argument counts, adjacent delimiters and
  host files that do not open return before anything is changed.

### DiskMount: memory and image

The free list of a session (`Memory`), of the image as it is (`Image`) and of
the image without the write `std::fstream` may still hold in its buffer
(`Torn`) are three instances of `FreeList`, each with its own superblock.
`content` is shared: blocks are written at once.  A file is the list of its
data blocks.

| Definition | Code |
|---|---|
| `Load` | `Disk::load`: superblock and inodes become the image's |
| `Begin`, `FreeOld`, `Take`, `Put`, `Finish` | `write_file` and `_rmfile`: one block freed, allocated or written per step, so that a crash may fall between any two |
| `SaveSuperblock`, `SaveInodes` | the two writes of `update` |
| `Crash` | killed, or out of the program without `~Disk`; the buffered block write happens or not |

A write that runs out of blocks leaves the wanted size, with 0 for each block
that was not allocated (`CutShort`).  To remove or rewrite such a file would
give block 0 to the free list; the module is restricted to users who leave it
alone (`Whole` in the guard of `Begin`), in the session it was written in and
in every later one, after a crash or an orderly end.  The file stays on the
image and keeps the blocks it got.  `FileBlocks` without that restriction shows
what happens otherwise (finding 2).

`lost` says that an image may have become unsound, by one of the two ways the
properties leave open; such an image is not loaded again (finding that out
would need an fsck, which the code does not have).

### Lifecycle: the programs

An image is its size, the layout words of its superblock, and the *version* of
its free list, its inodes and its data zone; version 0 was never written.  It
is sound when the three are of one version.  The programs are `makeimage` in
its stages, `alterimage`, and the shell with its questions, its only regular
way out (`Quit`), the end of input, which at the prompt loops for ever
(`Spin`) and in a question throws (`BadPipe`), and being killed at any point.
A format at opening leaves the root on the stack of directories twice; the
shell then dies at its first prompt, where `_getcwd` finds no entry for the
root in the root (`FirstPrompt`).  `alterimage` patches a file of any size.
Two details of `load` and `update` carry the properties: they read and write
inodes at the place the superblock names, so with a blank layout nothing is
read or written there (`Loaded`, `Updated`).

### ArgParse and MakeImage

`ArgParse` is the loop of `accept`, one action per way an iteration can go.
What a regular expression matches is the constant `Matching`.  `Valid` is the
reference definition, by positions and appearances and without a scanner, with
the rules that `argparse.hpp` states: an option of mode `once` or `strict`
appears at most once.  The parser differs from it in one way, which
`AcceptsValid` names: a line that is not valid because a strict option comes
again and for no other reason (`OnlyRepeatsStrict`) is accepted.

`MakeImage` extends `Vfs` and instances `ArgParse`: it parses, formats, and
walks a host directory as `trav_local` does, with `Mkdir` and `Upload` of `Vfs`
as its steps and a stack of what each `directory_iterator` has still to yield.
Like `Vfs`, it does not follow a build that has damaged a *directory* on a full
disk or was handed the root's inode, which with real numbers comes at some
98 entries (`Leave`).

### HostFile

`Disk` on `FstreamFile` on libstdc++'s `std::fstream` when transfers fail.  A
request is a seek, which flushes the buffer, a transfer, and the look at
`good()`; each may fail if it reaches the host.  External and assumed: a block
goes to the buffer, larger transfers to the host at once, and a failed flush
keeps the buffer.

### TestHarness

The frame of the test programs: which copy a test runs on.  Assumed of POSIX:
an open file whose name is removed can still be used, and a handler stays
installed.

### DiskLayout

The numbers of `defines.hpp`, and the zones computed from them as the
superblock's initialisers do.

### Proof modules

`FreeListProofs`, `InodeTableProofs`, `FileBlocksProofs`, `DiskMountProofs`,
`VfsProofs`, `MakeImageProofs`, `LifecycleProofs` and `HostFileProofs` hold the
theorems, see section 4.  `MakeImageProofs` extends `VfsProofs`, whose lemmas
it needs for the commands.  `HostFileProofs` also has the theorems about
`TestHarness`, which it instances under names of its own.  `HostFile` and
`TestHarness` have no run: all that is said of them is proved.

## 3. What TLC checks

| Run | Instance | Shows |
|---|---|---|
| `free_list` | 7 blocks, data zone 2..5, tables of 2, payload `<<1, 3>>` | 465,704 states: the chain of tables, the partition of the zone, data held by clients, the refinement of `BlockPool`, and that a format ends with the whole zone free |
| `inode_table` | inodes 1..6, table of 3 | 9,620 states: no double allocation, failure only when full, the root is the only exception, the refinement of `InodePool` |
| `inode_root_reissued` | same | finding 1, by counterexample |
| `file_blocks` | 2 files, 7 blocks, one slot of each kind, 2 entries per index block, sizes 0..4 | 290,839 states: files stay apart and readable through writes, rewrites, removals and failed writes |
| `file_blocks_deep` | 1 file, two slots of each kind, 22 blocks, sizes 0..14 | 4,119 states: what is read is what was written, in its place, for every size up to the largest the slots allow |
| `boot_sector_freed` | as `file_blocks`, `ReuseDamaged` | finding 2, by counterexample |
| `vfs` | root and 3 inodes, 3 blocks, 2 entries per block, 2 names, 10 paths, files of 1 and 2 blocks | 57,023 states: entries, inodes, blocks and the working directory agree after every command until one is handed the root; what commands that fail may leave behind |
| `vfs_tree` | same disk, 8 paths, a file of 2 blocks and one too large | 14,029 states: the refinement of `NameTree`, the tree that vanishes included |
| `disk_mount` | 5 data blocks, tables of 2, 2 files of up to 3 blocks, 3 sessions of 2 commands | 206,208 states: sessions follow one another soundly, also past a write that ran out of blocks; what a crash at any step leaves |
| `lifecycle` | 4 programs, 4 versions, 8 kinds of image to begin with | 6,796 states: which images are sound after which programs |
| `opening_formats` | same | finding 3, by counterexample |
| `make_image` | root and 5 inodes, 5 blocks, 70 host directories of 3 or 4 entries; command lines of up to 4 words of 7 kinds under 16 sets of rules | 161,526 states: valid lines are accepted, and no others but those that repeat a strict option; the image is a faithful copy as far as it fits |

*Why the bounds are enough.*  Tables of two entries on four data blocks give
the empty table, the sentinel table, a full one, one spill and two spills in a
chain; payload `<<1, 3>>` is a well-formed table of a block outside and one
inside the zone, so file data mistaken for a table does harm.  A data zone
that begins at 2 and ends before the disk does makes both ends of `format`'s
loop observable.  Six inodes with a table of three make the scan come back
full, short and empty.  Seven blocks hold one file of the largest size
(4 data blocks, 1 + 2 index blocks) and nothing else, so every two files
compete, and a write can fail at every kind of allocation.
In `file_blocks` the pool hands out its smallest block (`MCChoice`).  No
property mentions a particular block and the model compares numbers only for
equality, so a different order gives the same behaviours up to a renaming of
blocks as long as block contents do not differ; those of free blocks are all
`Junk`.  In `vfs` the root and three inodes give the tree a depth of three, one file
beside a directory below the root, and allocation failures.  With three blocks
and two entries per block the first entry of a new directory and the third of
an old one need a block, which lets `_touch` run out between `alloc_inode` and
the write of the parent, and `cp`, `mv` and `upload` in the copy.  The root may
be handed out at every allocation, before and after failed writes.  The paths
include names used as directory, as file and not at all, `.`, `..`, and one
that goes up again behind a name.  The inodes behind the root are symmetric:
they are compared for equality only, and the run has no liveness property.
`vfs_tree` has fewer paths because its property looks at the whole tree twice
per step.
`MaxSize` is at most the largest size the slots allow, which `write_file`
enforces (lines 256-258), and bounds nothing else.

In `disk_mount` five data blocks and tables of two make two spilled tables
after a format; a session of two commands can take a table and spill a new one
into the block of a file saved before, which is what its crash properties are
about, and three sessions let one that follows a crash be saved and loaded
again.  The two files are symmetric.  In `lifecycle` four programs are enough
for a `makeimage` that is killed, a session that is killed, one that formats
and quits, and one that shows the result; `MaxVersion` and `MaxRuns` cut only
the number of changes, and `LifecycleProofs` holds without regard to their
values.  In `make_image` the host directories contain folders in folders, a
`/dev` and a `/dev/tty1` of their own beside those `format` makes (the latter as
a file and as a folder with a file in it, which has nowhere to go), a name that
is too long and contents that are too large; one file
takes more blocks than are left after two folders, and three inodes are left
for four entries, so that each command can fail in each of its ways, and a
build can come to its last unused inode (that it does while there are blocks,
that blocks run out while there are inodes, and that files and directories get
damaged, has been checked).  Four words are two options with their parameters, or one too many of
anything; 7 kinds of word tell the branches of the scanner apart, and the 16
rule sets are every type and every appearance rule for one option beside a
free one, and `makeimage`'s own.

`CHECK_DEADLOCK` is on where the program can always start another operation,
and in `make_image`, where it shows that the walk of a host directory always
gets to its end.  It is off in `disk_mount`, `lifecycle` and `opening_formats`,
in which the number of sessions and programs is bounded and the system may
stop.

*Fairness.*  `WF(FormatStep)` in `FreeList` and `WF(Step)` in `FileBlocks`:
both are loops of one thread that calls nothing that waits, so a step that can
be taken is taken.  No fairness is assumed of the starting of operations.
`OperationsEnd` thus says that the loops end by their own bounds, the remaining
size, or the exception when blocks run out.

## 4. What is proved

For every value of the constants that the modules' assumptions allow (any
layout with `0 < FirstData <= EndData <= DiskBlocks`, any capacity of at least
2, any file data; any number of inodes and any inode table):

* `FreeListProofs`: `TypeCorrect`, `ChainCorrect`, `PartitionCorrect`,
  `HeldDataSafe`, `Refinement`.
* `InodeTableProofs`: `TypeCorrect`, `TableCorrect`, `RootOnly`,
  `FailureMeansFull`, `Refinement`.
* `FileBlocksProofs`: `TypeCorrect`, for any numbers of slots of each kind, any
  number of entries in an index block, any finite zone, any files, and every
  order in which blocks are handed out.  For clients that leave a file alone
  whose write has failed (`~ReuseDamaged`): `FilesApart`, `NothingIsLost`,
  `ReleasesHeld`, `ReadsBack`, and `BootSectorSafe`.  For other clients the
  last is false (finding 2), and with it the rest.
* `DiskMountProofs`: `TypeCorrect`, `SessionsSound`, `CrashesKeepList`,
  `UntouchedSafe`, `HalfSavedSafe`, for any layout and capacity as in
  `FreeListProofs`, any files, any number of sessions and commands of users
  who leave files alone whose write has failed.
* `VfsProofs`: `TypeCorrect`, `EntriesUnique`, `CwdStays`, `BlocksBalanced`,
  `LeaksCounted`; of the steps `FailsCleanly`, `FailsSafely`, `ContentsKept`;
  and `ImplementsTree`, the refinement of `NameTree`.  For any finite set of
  inodes, any names and paths, any files and number of blocks, and every order
  in which inodes are handed out; until a command is handed the root, or, for
  steps and refinement, with that command named.
* `LifecycleProofs`: `TypeCorrect`, `MadeImagesSound`, `SessionsKeepSound`,
  `FormatRepairs`, `RollsBack`, `ForeignTreesKept`, for any number of programs
  and changes.
* `HostFileProofs`: `OwnFaultsReported`, `WrittenIsRead`, `SavedIsComplete`,
  `NothingUnreadSaved`, for any set of blocks that are not called `"superblock"`
  or `"inodes"` (`BlocksApart`) and any data.
  About `TestHarness`: `NeverInTheWay`, `GoneOrKept`, `StartFresh`, for any
  number of tests.
* `MakeImageProofs`: `LinesSorted` (`AcceptsValid`), for any options, types,
  rules and words and lines of any length; `BuildsFaithfully`
  (`BuiltFaithfully`) and `HoldsNothingElse` (`NothingElse`), for any directory
  of the host, yielded in any order, as long as the build is not handed the
  root's inode.
* At the end of `DiskMountProofs`, about `DiskLayout`: `RealFreeList` and
  `RealInodeTable` are the theorems above for the numbers of the code (16976 data blocks, 6576 inodes, tables of
  100), which meet the assumptions; `CommentedSwapIsData`, see section 5.

The argument for the free list.  The invariant is `IInv`, the conjunction
`TypeOK /\ ChainIntact /\ FreePartition /\ FormatProgress`, and none of the
parts is inductive alone.  That every block is listed once (`FreePartition`)
survives `TakeLink` only because the block handed out still holds the table
that was spilled into it, which is `ChainIntact`; that in turn survives
`WriteBlock` only because clients write blocks they hold, and a block in the
chain is listed and so not held, which is `FreePartition`.  Both survive
`FormatStep` only because `cursor` has not been listed yet, which is
`FormatProgress`.  The step lemmas have one case per action; those that change
the table are reduced to what happens to the chain: a new last entry
(`FreeBlock` with room), a new last table (spill), a last entry less
(`TakeEntry`), a last table less (`TakeLink`), the chain emptied
(`TakeSentinel`).  `Refinement` maps each of these to a step of `BlockPool`
with `free <- FreeSet`; that a failing allocation means an empty pool is where
`NoneLost` and the sentinel are needed.

The argument for inodes.  `IInv` is `TypeOK /\ TableSound /\ FlagsAgree /\
FormatProgress`.  A scan finds only inodes not marked in use, and
`FlagsAgree` makes owned inodes marked, so a refilled table lists none of
them; `free_inode` appends a number that was owned, which by `TableSound` is
not listed; `format` appends `cursor`, and by `FormatProgress` all listed are
smaller.  `FailsOnlyWhenFull` needs the characterisation of the scan: an empty
result is not full, so it covers every free inode.  `Refinement` puts these
together: an allocation takes a member of the abstract free set or the root, a
failure means that the set is empty, and a freed inode joins it or, when it is
the root or was not marked, changes nothing.

The argument for file blocks.  The invariant is `Shape /\ Held`.  `Shape` is
about the traversal alone: the path `at` is that of a place, `tabs` and `blks`
are as long as it, and the blocks still to come and those behind it, computed
by `First` from the path, add up to the size.  It needs nothing from `Held` and
gives `TypeOK` for all clients.  `Held` is `Alive /\ Pool /\ Copies /\
Fetched`.  `Pool` says which places of a file own a block in the middle of an
operation (those not yet passed when freeing, those passed and the open index
blocks when writing), that no two places own the same block, that owned and
free are all there is, and that an owned data block holds what was last written
there.  `Copies` says that the numbers of the
open index blocks are those at their places in the tree and, except in a write,
that the copies agree with the disk; in a write the words of the file are those
of the copies.  Without it nothing could be said of `CloseIndex`, which writes
a copy back or frees the block it came from.  `Fetched` relates the buffer of a
read to the places passed.  A failed write drops its file out of `Pool`: its
blocks are lost, but no other file's.  `ReleasesHeld` is the assumption that
`FreeList` makes of its clients, discharged for every inode layout.

The argument for mount and crash.  Three free lists, two sets of files and a
write in a buffer share one disk.  `Good` says of a list, given as a value,
that its tables are well formed, that the blocks they were spilled to still
hold them, and that with the blocks of given files it covers the data zone
once; lemmas say what each operation of the list does to `Good`.  Tables are
taken in the opposite order to that in which they were spilled, so that as
long as `low`, the shortest chain of the session, has kept a table, memory and
image go on from it together, and the blocks that hold it are written by
neither.  The invariant is `Shaped /\ Phases /\ Running /\ Saved`: `Phases`
relates phase, command and buffered write, `Running` says that the list in
memory is good with the files in memory and the blocks in hand, `Saved` that on
the image the files own different blocks (`Apart`, which a slot of 0 is no part of), untouched files own there
what they own in memory and hold their data (`FilesKept`), linked tables not
yet taken are as they were (`TablesKept`) and the list saved is complete
(`ListKept`).  The buffered write enters because `Torn` undoes it: it must be
one to a block that nothing saved relies on.  A format fills a list of unknown length by the
recursive function `Formatted`; that its result is good is shown by induction
over the sets of cursors for which it is, through the least element of the
others.

The argument for the commands.  The invariant is `Sure`: the disk is `Tidy`, or
it is `Astray`, its root handed out, and then only `Format` is possible, after
which it is `Tidy` again.  A step of any other command leaves a disk that is
astray or a tidy one, so the lemmas about commands assume that the disk they
leave is not astray.  `Tidy` has four parts.
`Healthy`: every entry names an inode in use, an inode other than the root has
one entry at most and the root has none, names in a directory differ, and one
whose last write failed has no entries' block left over.  `AtHome`: the working
directory is a stack of directories, each an entry of the one before.  That
`rm`, which frees a whole subtree, never takes one of them is not local: the
command refuses if the stack of the working directory passes through its
target (`HoldsCwd`), and since an inode has only one entry, the stack can enter
the subtree through the target alone.  `Balanced` adds up the blocks of the
inodes by a fold; a lemma says that the sum changes by what one inode changes.
`Counted` bounds the inodes in use that no stack ends at by the directories
whose write failed, the ghost set of which can grow only with an inode lost.
A command is a chain of calls on one disk, and the lemmas follow the calls.

For the properties of steps, `StepIs` reduces the commands to what they can do
(`Effect`): nothing, an inode without a name, one leaf more, one leaf less, a
directory emptied and then dropped or not, one file renamed, a format.
`FailsCleanly` and the sorting out of `RmWinding` come from there.  What a user
sees is `Listing`, which goes down level by level for as many levels as there
are inodes.  In a healthy disk that is enough (no stack of the tree has an inode
twice), and it finds one path for each inode that is reached, its trail; so an
entry added shows one path, an entry removed hides one path, and emptying a
directory hides just what is under it.  From this follow `FailsSafely`,
`ContentsKept` (which also needs that directories hold no contents, `Bare`) and,
one case for each effect and each action of `NameTree`, `ImplementsTree`.

The argument for `Lifecycle`.  The properties speak of the image when a program
has ended; what makes them inductive is what is prepared while one runs.
`IInv` is `WellTyped /\ Prepared /\ Kept`: `Prepared` says of each stage what
memory and image must hold for the save at its end to come out sound (for
`makeimage` that the layout is ours from its first `Disk` on, for a session on
a sound image that list, inodes and zone are of one version), `Kept` the
properties themselves once the program has ended.

The argument for `HostFile`.  Two error states, a buffer and a request in three
stages have to stay in step.  `Errors` relates `is_good_`, the stream's state,
the ghost `fault` and the stage; from it follows that both states are clear
between calls.  `BlocksKept` says that for each block buffer and host together
hold what was last reported written, but for the block being written;
`MetaRead` and `MetaSaved` follow `load` and `update` from the superblock to
the inodes.  The invariant was model-checked with two blocks before it was
proved.

The argument for `TestHarness`: a copy exists only where it is due, and where
one is about to be made there is none.

The argument for `MakeImage`, which has two halves.  While the line is scanned,
`Parsing` says of the words that have been passed by (`Passed`) what
`Acceptable`, that is `Valid` or `OnlyRepeatsStrict`, says of all words: a parameter stands behind an option that takes it
(`PassedPlaced`), an option has what its type asks for (`PassedTyped`) and
appears as often as it may in mode `once` (`PassedOnce`); it has given its value to the results
(`PassedRead`).  What makes it inductive is `NotTaken`: the word the scanner has
come to is not the parameter of the option before it, although the scanner does
not look back.  `BadWords` then says that every word which is refused makes
the line unacceptable, and `AllPassed` that a line passed by to its end is
acceptable.

While the image is built the invariant is `BuildInv`: the disk is `Astray`, and
no command is followed any more, or the walk is `Going`.  Then the disk is
`Tidy`, and the working directory never leaves the root, so an absolute path of names is
walked along the trail of these names (`NamesWalk`).  Each running call of
`trav_local` has a set of entries to yield; together (`Spread`) they hold no
entry twice and none that lies below another.  An entry is `Pending` when it or
a folder above it is still to be yielded.  As long as no directory has lost its
block (`Whole`), the disk is `Settled`: an entry that is not pending is on it,
or has failed and is `Pardoned`; and a pending one is not on it, except where
`format` made one.  The last part carries the induction: it leaves a command on
an entry nothing to fail by but a long name, contents too large, or a parent that failed for one of these.  `Outcome`, from the lemmas of
`VfsProofs`, says what a command may do to the tree of names.  No condition on
free blocks is needed: a command that runs out of them either damages a
directory, and the build is no longer followed, or cuts contents short.

In preparing this proof two faults of the property itself came to light, which
the instance had been too small to show.  `BuiltFaithfully` excused every
failure on a disk without a free block, which is never needed; and it did not
excuse what a host folder `/dev/tty1` holds, whose `mkdir` fails because the
name is a device and whose files cannot be placed.  The property says both now,
and the instance has such a folder.

Only model-checked: the two liveness properties, `OperationsEnd` and
`FormatFreesAll` (the prover does not handle liveness under fairness).

## 5. Findings

1. *The root inode is handed out as free* (`inode_root_reissued`).
   `format` frees inodes from the root on, so the root is the first entry of
   the table, and then marks it in use.  `alloc_inode` takes entries without
   looking at `ialloc_`: the allocation that takes the last entry returns
   inode 1.  With the real capacity that is the hundredth allocation after a
   format.  `OnlyRootReissued` (checked and proved) says that this is the only
   way an inode in use is handed out.  In `Vfs` and `MakeImage` it may happen at
   every allocation; what they promise, they promise until then.
2. *The boot sector becomes a free block* (`boot_sector_freed`).  A write that
   runs out of blocks leaves `d_size_` at the wanted size and slots at 0.
   Removing or rewriting the file walks `d_size_` and calls `free_block(0)`.
   `free_block` accepts 0, and the next allocations may give the boot sector to
   a file.

3. *Formatting at opening is lost* (`opening_formats`).  A file of the wrong
   size is resized and, after a yes, formatted; the constructor then calls
   `load`, which reads the superblock and the inodes of the file, zeros or those
   of the old image, over the new ones in memory, while the data zone keeps
   what the format wrote.  And the root is now on the stack of directories
   twice, by `format` and by the end of the constructor (line 73): the shell
   dies at its first prompt (`FirstPrompt`).  Only a second `format` in a new
   session helps; that it always does is `FormatHeals`.

A comment that the theorem `CommentedSwapIsData` contradicts: `defines.hpp`
68-69 puts swapping at sectors 1024 to 2183 and files from 2184 on.  By the
superblock the data zone is 1024 to 17999, all of it on the free list, and
swapping begins at 18000.

Observations on the edge of what documents say, so that they are exceptions in
properties and not findings:

* `rm a/b/..` empties `a`, can then no longer walk the path and fails with
  `a` still there (`RmWinding` in `Vfs`, `Clear` in `NameTree`).
* When `_touch` cannot write the parent, the new inode stays in use without a
  name (`NoInodeLeaked` counts them).
* `upload` returns 0 when the blocks run out, and leaves an empty file when the
  host file is too large.
* In `_touch` the parent of `/x` is the empty path, which is the working
  directory and not the root (`ParentPath`).
* `argparse.hpp` 56 says of `apshow_strict`: "allow once only".  The parser
  (`argparse.cpp` 69) refuses a repetition for `apshow_once` alone, and with a
  strict option twice it takes the last value.  Code and documentation differ
  here.  `Valid` is the documented rule; `AcceptsValid` says that the parser
  departs from it for such lines (`OnlyRepeatsStrict`) and for no others.
* A negative number is taken for an option and not for a parameter
  (`argparse.cpp` 75), although there is a type for real numbers; quoted it
  gets through.
* A bare dash, or a parameter of quotes only, makes the parser ask an empty
  string for its last character, which is undefined (`WithoutContent`,
  `OnlyQuotes`).
* A unit test that asks for a new copy gets none if it ends by an exception
  (`testimage.cpp` 148): `RefreshedStartFresh` is about tests that return.
* A test whose `load` fails still runs `~Disk` and saves inodes it never read
  to the copy (`TestFails`); `FileSystem` does not (`UnreadNotSaved`).
* `makeimage` reports an error for a host directory `dev`, since `format` made
  one; its files are copied all the same (`BuiltFaithfully`).
* `_touch` accepts the names `.`, `..` and the empty one; no path reaches
  them, so only `rm` of the directory removes them.

## 6. Not modelled, and why

Single bytes of files and the last, partial block of a file: no property
depends on them.  Permissions, times and user numbers: set, never read.
`traverse_inode_tree` is a stub.  What a caller of `read_blocks` does with a
buffer after a failed read, whose result no caller looks at: `HostFile` says
that the failure is reported, the state after it is unspecified.  A flush that
writes a part of a block.  The contents of boot sector and kernel.  The
splitting of lines and paths into words, the commands that change nothing
(`ls`, `pwd`, `download`, `testblock`, `testdisk`), and the tests of
`testimage` and `testvfs` themselves: pure computation or output.  String,
time and exception utilities have no control worth a model.

## 7. Plan

Done: `BlockPool`, `FreeList`, `InodePool`, `InodeTable`, `FileBlocks`,
`DiskMount`, `NameTree`, `Vfs`, `Lifecycle`, `HostFile`, `TestHarness`,
`DiskLayout`, `ArgParse`, `MakeImage`, all with proofs: every invariant and
every safety property of steps that a run checks is a theorem.  Next, in this
order:

1. `RmWinding` and `Clear`: the exact outcome of `rm` along a path that winds
   through what it removes.
2. The allocation tests of `testimage` as a client of `FreeList` and
   `InodeTable` together; the splitting of lines in `v6pp-fs-local.cpp`.
