-------------------------------- MODULE Vfs ---------------------------------
(***************************************************************************)
(* The directory tree of a V6++ disk image and the commands on it:         *)
(* v6pp::FileSystem.                                                       *)
(*                                                                         *)
(* Below this module are the inode table, which hands out any inode that   *)
(* is not in use and, once after a format, the root (InodeTable), and the  *)
(* files, whose writes succeed as long as blocks are left (FileBlocks).    *)
(* A command is one step, as the program has one thread, but a command is  *)
(* many calls, each can fail, and nothing is undone.  The operators below  *)
(* follow those calls: they take a disk and return the disk afterwards and *)
(* whether an exception was thrown.                                        *)
(***************************************************************************)
EXTENDS Integers, Sequences, FiniteSets, Functions, SequencesExt

CONSTANTS Inode,       \* the inodes
          Root,        \* IDX_ROOT_INODE
          Names,       \* names of entries in the model
          TooLong,     \* those that do not fit into DirectoryEntry::name_
          Paths,       \* the paths users type
          Data,        \* what host files contain
          BlocksOf,    \* how many blocks that takes, index blocks included
          TooLarge,    \* contents beyond FSIZE_MAX
          PerBlock,    \* directory entries per block (16)
          Blocks       \* blocks of the data zone (16976)

Special == {"", ".", ".."}
Segments == Names \cup {".", ".."}

ASSUME InodeAssumption == IsFiniteSet(Inode) /\ Root \in Inode /\ Cardinality(Inode) >= 3
ASSUME NamesAssumption ==
  {"dev", "tty1"} \subseteq Names /\ Names \cap Special = {} /\ TooLong \subseteq Names
ASSUME PathAssumption == Paths \subseteq [abs : BOOLEAN, segs : Seq(Segments)]
ASSUME DataAssumption == BlocksOf \in [Data -> Nat \ {0}] /\ TooLarge \subseteq Data
ASSUME BlockAssumption == PerBlock \in Nat \ {0} /\ Blocks \in Nat /\ Blocks >= 2

VARIABLES
  disk,    \* the disk, see Disk below
  cwd,     \* inode_idx_stack_: the working directory and those above it
  rc       \* what the last command returned

vars == <<disk, cwd, rc>>

(* A disk: its inodes; how many blocks are free; as ghosts, the inodes     *)
(* whose last write ran out of blocks (damaged) and those handed out while *)
(* they were in use (reissued).                                            *)
(* An inode: its type, "none" when ialloc_ = 0; the entries of a directory *)
(* and the contents of a file.  file_type_ outlives free_inode in the code *)
(* but is not read before the next owner sets it.                          *)
Empty == "empty"
Blank(type) == [type |-> type, entries |-> <<>>, data |-> Empty]
IsDir(d, i) == d.node[i].type = "dir"

(* Blocks an inode needs.                                                  *)
Size(n) ==
  CASE n.type = "dir" \/ n.entries # <<>> ->
         (Len(n.entries) + PerBlock - 1) \div PerBlock
    [] n.type # "dir" /\ n.entries = <<>> /\ n.data = Empty -> 0
    [] OTHER -> BlocksOf[n.data]

Children(d, i) == {e.inode : e \in Range(d.node[i].entries)}

Below(d, i) ==
  LET reached[n \in 0 .. Cardinality(Inode)] ==
        IF n = 0 THEN Children(d, i)
        ELSE LET nearer == reached[n - 1]
             IN nearer \cup UNION {Children(d, j) : j \in nearer}
  IN reached[Cardinality(Inode)]

(* The result of a call that can throw.                                    *)
Done(d) == [disk |-> d, ok |-> TRUE]
Thrown(d) == [disk |-> d, ok |-> FALSE]

-----------------------------------------------------------------------------
(* _pwalk: the stack of inodes along a path, <<>> for an exception.  A file*)
(* on the way is read as a directory, in which no name is found.           *)

Matches(d, i, name) == {e \in Range(d.node[i].entries) : e.name = name}

(* A superfluous ".." is swallowed.                                        *)
Up(stack) == IF Len(stack) > 1 THEN Front(stack) ELSE stack

Enter(d, stack, name, toDir) ==
  LET found == Matches(d, Last(stack), name)
      target == (CHOOSE e \in found : TRUE).inode
  IN IF found = {} \/ (toDir /\ ~IsDir(d, target)) THEN <<>>
     ELSE Append(stack, target)

(* The stack after each segment.                                           *)
Trace(d, path, toDir) ==
  LET stack[k \in 0 .. Len(path.segs)] ==
        IF k = 0 THEN IF path.abs THEN <<Root>> ELSE cwd
        ELSE LET before == stack[k - 1]
             IN CASE before = <<>> -> <<>>
                  [] before # <<>> /\ path.segs[k] = "." -> before
                  [] before # <<>> /\ path.segs[k] = ".." -> Up(before)
                  [] OTHER -> Enter(d, before, path.segs[k], toDir)
  IN stack

Walk(d, path, toDir) == Trace(d, path, toDir)[Len(path.segs)]

(* _touch splits a path at its last delimiter.  What is before it is empty *)
(* in "/x", and an empty path names the working directory.                 *)
ParentPath(path) ==
  IF Len(path.segs) <= 1 THEN [abs |-> FALSE, segs |-> <<>>]
  ELSE [path EXCEPT !.segs = Front(@)]

LastName(path) == IF path.segs = <<>> THEN "" ELSE Last(path.segs)

-----------------------------------------------------------------------------
(* write_file: give up the old blocks, then allocate.  Without enough of   *)
(* them the inode has its new size but only the blocks that were left.     *)

Held(d, i) == Size(d.node[i])

(* Faulty: what does not fit as a whole is not written at all.             *)
CutToNothing(n, room) == [n EXCEPT !.entries = <<>>]

Cut(n, room) ==
  [n EXCEPT !.entries = SubSeq(@, 1, IF Len(@) < room * PerBlock THEN Len(@)
                                     ELSE room * PerBlock)]

(* Faulty: success is taken for granted.                                   *)
StoreBlindly(d, i, n) ==
  Done([d EXCEPT !.node[i] = n, !.free = @ + Held(d, i) - Size(n)])

Store(d, i, n) ==
  LET room == d.free + Held(d, i)
  IN IF Size(n) <= room
     THEN Done([d EXCEPT !.node[i] = n, !.free = room - Size(n)])
     ELSE Thrown([d EXCEPT !.node[i] = Cut(n, room), !.free = 0,
                           !.damaged = @ \cup {i}])

-----------------------------------------------------------------------------
(* _touch: a set of outcomes, one per inode that alloc_inode may return.   *)

Unused(d) == {i \in Inode : d.node[i].type = "none"}

(* format lists the root as free with the rest, and alloc_inode hands it   *)
(* out when no other inode is listed.  How many that are is left open; up  *)
(* to then alloc_inode does not fail.                                      *)
Issued(d) == Unused(d) \cup {Root}

(* Faulty: a name may be used twice.                                       *)
NameFreeAlways(d, dir, name) == TRUE
NameFree(d, dir, name) == Matches(d, dir, name) = {}

(* The directory's entries were read before the inode was claimed.         *)
Linked(d, dir, name, i, type) ==
  LET born == [d EXCEPT !.node[i] = Blank(type), !.reissued = @ \cup ({i} \ Unused(d))]
      entries == Append(d.node[dir].entries, [name |-> name, inode |-> i])
  IN Store(born, dir, [born.node[dir] EXCEPT !.entries = entries])

Touched(d, path, type) ==
  LET parents == Walk(d, ParentPath(path), TRUE)
      name == LastName(path)
      possible == /\ name \notin TooLong
                  /\ parents # <<>>
                  /\ IsDir(d, Last(parents))
                  /\ NameFree(d, Last(parents), name)
  IN IF possible
     THEN {[res |-> Linked(d, Last(parents), name, i, type), inode |-> i] : i \in Issued(d)}
     ELSE {[res |-> Thrown(d), inode |-> Root]}

-----------------------------------------------------------------------------
(* _rmfile on the stack of a file: the entry goes, then blocks and inode.  *)

(* A directory's entries but for that of an inode.                         *)
Without(entries, i) ==
  RemoveAt(entries, CHOOSE k \in DOMAIN entries : entries[k].inode = i)

(* Faulty: the parent is not written back; the blocks are kept.            *)
UnlinkedInMemory(d, stack) ==
  [d EXCEPT !.node[Last(stack)] = Blank("none"), !.free = @ + Held(d, Last(stack))]

UnlinkedKeepingBlocks(d, stack) ==
  LET target == Last(stack)
      dir == stack[Len(stack) - 1]
      rest == Without(d.node[dir].entries, target)
  IN [Store(d, dir, [d.node[dir] EXCEPT !.entries = rest]).disk
        EXCEPT !.node[target] = Blank("none")]

Unlinked(d, stack) ==
  LET target == Last(stack)
      dir == stack[Len(stack) - 1]
      rest == Without(d.node[dir].entries, target)
  IN [Store(d, dir, [d.node[dir] EXCEPT !.entries = rest]).disk
        EXCEPT !.node[target] = Blank("none"), !.free = @ + Held(d, target)]

Removed(d, path, asDir) ==
  LET stack == Walk(d, path, asDir)
      possible == /\ Len(stack) > 1
                  /\ asDir => /\ Last(stack) # Last(cwd)
                              /\ d.node[Last(stack)].entries = <<>>
  IN IF possible THEN Done(Unlinked(d, stack)) ELSE Thrown(d)

(* Faulty: only the directory itself is emptied.                           *)
EmptiedAtTop(d, i) ==
  [d EXCEPT !.node[i].entries = <<>>, !.free = @ + Held(d, i)]

(* remove_recurse: everything below a directory is freed and it is empty.  *)
Emptied(d, i) ==
  LET gone == Below(d, i)
      freed == FoldFunctionOnSet(+, 0, [j \in Inode |-> Held(d, j)], gone \cup {i})
  IN [d EXCEPT !.node = [j \in Inode |->
                           CASE j = i -> [@[j] EXCEPT !.entries = <<>>]
                             [] j \in gone \ {i} -> Blank("none")
                             [] OTHER -> @[j]],
               !.free = @ + freed]

-----------------------------------------------------------------------------
(* Faulty: the destination is made before the source is looked at.         *)
CopiedUnchecked(d, from, to) ==
  {LET source == Walk(t.res.disk, from, FALSE)
   IN IF ~t.res.ok \/ source = <<>> \/ d.node[Last(source)].type # "normal"
      THEN Thrown(t.res.disk)
      ELSE Store(t.res.disk, t.inode,
                 [Blank("normal") EXCEPT !.data = d.node[Last(source)].data]) :
     t \in Touched(d, to, "normal")}

(* The body of cp and the first part of mv.                                *)
Copied(d, from, to) ==
  LET source == Walk(d, from, FALSE)
  IN IF source = <<>> \/ d.node[Last(source)].type # "normal" THEN {Thrown(d)}
     ELSE {IF t.res.ok
           THEN Store(t.res.disk, t.inode,
                      [Blank("normal") EXCEPT !.data = d.node[Last(source)].data])
           ELSE t.res : t \in Touched(d, to, "normal")}

(* Faulty: mv goes on when the copy failed.                                *)
MovedAnyway(d, from, to) ==
  {Removed(c.disk, from, FALSE) : c \in Copied(d, from, to)}

Moved(d, from, to) ==
  {IF c.ok THEN Removed(c.disk, from, FALSE) ELSE c : c \in Copied(d, from, to)}

-----------------------------------------------------------------------------
(* Commands.  A user who has filled the disk keeps away from what the full *)
(* disk damaged: the inodes a path is looked up in are sound.              *)
(* Bound: once the root was handed out there is no tree any more, and the  *)
(* user formats the disk.                                                  *)

Looked(path) == {Last(stack) : stack \in Range(Trace(disk, path, FALSE)) \ {<<>>}}
Sound(inodes) == disk.reissued = {} /\ inodes \cap disk.damaged = {}

Command(outcomes) ==
  \E o \in outcomes : disk' = o.disk /\ rc' = IF o.ok THEN 0 ELSE -1

MakeFile(path, type) ==
  /\ Sound(Looked(ParentPath(path)))
  /\ Command({t.res : t \in Touched(disk, path, type)})
  /\ UNCHANGED cwd

Mkdir(path) == MakeFile(path, "dir")
Touch(path) == MakeFile(path, "normal")

Rmdir(path) ==
  /\ Sound(Looked(path) \cup Range(Walk(disk, path, TRUE)))
  /\ Command({Removed(disk, path, TRUE)})
  /\ UNCHANGED cwd

(* Faulty: only the working directory itself is protected.                 *)
HoldsCwdOnlyLast(stack) == Last(stack) = Last(cwd)

(* The directory is the working directory or above it.                     *)
HoldsCwd(stack) == Len(cwd) >= Len(stack) /\ cwd[Len(stack)] = Last(stack)

(* rm of a directory, confirmed by the user.                               *)
RmTree(stack, path) ==
  IF HoldsCwd(stack) THEN Thrown(disk)
  ELSE Removed(Emptied(disk, Last(stack)), path, TRUE)

Rm(path) ==
  LET stack == Walk(disk, path, FALSE)
  IN /\ Sound(Looked(path) \cup Range(stack))
     /\ stack # <<>> => Sound(Below(disk, Last(stack)))
     /\ Command({CASE stack = <<>> -> Thrown(disk)
                   [] stack # <<>> /\ IsDir(disk, Last(stack)) -> RmTree(stack, path)
                   [] OTHER -> Removed(disk, path, FALSE)})
     /\ UNCHANGED cwd

Cp(from, to) ==
  /\ Sound(Looked(from) \cup Looked(ParentPath(to)))
  /\ Command(Copied(disk, from, to))
  /\ UNCHANGED cwd

Mv(from, to) ==
  /\ Sound(Looked(from) \cup Range(Walk(disk, from, FALSE)) \cup Looked(ParentPath(to)))
  /\ Command(Moved(disk, from, to))
  /\ UNCHANGED cwd

(* upload: the file is made first; contents that are too large leave it    *)
(* empty, and blocks that run out are not reported.                        *)
Uploaded(t, data) ==
  CASE ~t.res.ok -> t.res
    [] t.res.ok /\ data \in TooLarge -> Thrown(t.res.disk)
    [] OTHER ->
         Done(Store(t.res.disk, t.inode, [Blank("normal") EXCEPT !.data = data]).disk)

Upload(path, data) ==
  /\ Sound(Looked(ParentPath(path)))
  /\ Command({Uploaded(t, data) : t \in Touched(disk, path, "normal")})
  /\ UNCHANGED cwd

Cd(path) ==
  LET stack == Walk(disk, path, TRUE)
  IN /\ Sound(Looked(path))
     /\ cwd' = IF stack = <<>> THEN cwd ELSE stack
     /\ rc' = IF stack = <<>> THEN -1 ELSE 0
     /\ UNCHANGED disk

(* A formatted disk: /dev and /dev/tty1.                                   *)
Formatted(dev, tty) ==
  [node |-> [i \in Inode |->
     CASE i = Root -> [Blank("dir") EXCEPT !.entries = <<[name |-> "dev", inode |-> dev]>>]
       [] i = dev -> [Blank("dir") EXCEPT !.entries = <<[name |-> "tty1", inode |-> tty]>>]
       [] i = tty -> Blank("char")
       [] OTHER -> Blank("none")],
   free |-> Blocks - 2,
   damaged |-> {},
   reissued |-> {}]

FormattedDisks ==
  {Formatted(dt[1], dt[2]) :
     dt \in {p \in (Inode \ {Root}) \X (Inode \ {Root}) : p[1] # p[2]}}

Format ==
  /\ disk' \in FormattedDisks
  /\ cwd' = <<Root>>
  /\ rc' = 0

Init ==
  /\ disk \in FormattedDisks
  /\ cwd = <<Root>>
  /\ rc = 0

Next ==
  \/ \E p \in Paths :
       \/ Mkdir(p) \/ Touch(p) \/ Rmdir(p) \/ Rm(p) \/ Cd(p)
       \/ \E q \in Paths : Cp(p, q) \/ Mv(p, q)
       \/ \E data \in Data : Upload(p, data)
  \/ Format

Spec == Init /\ [][Next]_vars

-----------------------------------------------------------------------------
(* Properties.                                                             *)

InUse == {i \in Inode : disk.node[i].type # "none"}
Reachable == {Root} \cup Below(disk, Root)

TypeOK ==
  /\ cwd \in Seq(Inode) /\ cwd # <<>>
  /\ rc \in {0, -1}
  /\ disk.reissued \subseteq {Root}
  /\ disk.reissued = {} =>
     /\ DOMAIN disk.node = Inode
     /\ \A i \in Inode :
          /\ disk.node[i].type \in {"none", "dir", "normal", "char"}
          /\ disk.node[i].data \in Data \cup {Empty}
          /\ \A e \in Range(disk.node[i].entries) :
               e.name \in Names \cup Special /\ e.inode \in Inode
     /\ disk.free \in 0 .. Blocks
     /\ disk.damaged \subseteq Inode

(* Until the root itself is handed out as a new inode, every entry names   *)
(* an inode in use, no inode has two entries and the root has none:        *)
(* removing one file never takes another one's inode.                      *)
EntriesSound ==
  disk.reissued = {} => \A i, j \in Inode :
    \A k \in DOMAIN disk.node[i].entries, l \in DOMAIN disk.node[j].entries :
      LET e == disk.node[i].entries[k]
          f == disk.node[j].entries[l]
      IN /\ e.inode \in InUse \ {Root}
         /\ e.inode = f.inode => i = j /\ k = l

(* An inode in use can be reached from the root; the exception is the one  *)
(* inode whose entry did not get a block, once for each such directory.    *)
NoInodeLeaked ==
  disk.reissued = {} =>
    Cardinality(InUse \ Reachable)
      <= Cardinality({i \in disk.damaged : IsDir(disk, i)})

(* The working directory, whatever was removed since, is a path of         *)
(* directories from the root ("the directory removed must not be the       *)
(* current directory or above it", v6pp_vfs.cpp 172).                      *)
CwdOnTree ==
  disk.reissued = {} =>
  /\ cwd[1] = Root
  /\ \A k \in 1 .. Len(cwd) : IsDir(disk, cwd[k])
  /\ \A k \in 1 .. Len(cwd) - 1 : cwd[k + 1] \in Children(disk, cwd[k])

(* Every block is free or held by a file of the size it has, as long as no *)
(* write failed.                                                           *)
BlocksBalance ==
  disk.reissued = {} /\ disk.damaged = {} =>
    disk.free + FoldFunctionOnSet(+, 0, [i \in Inode |-> Held(disk, i)], Inode) = Blocks

(* What can be read, and under which names.                                *)
Listing ==
  LET level[n \in 0 .. Cardinality(Inode)] ==
        IF n = 0 THEN {[path |-> <<>>, inode |-> Root]}
        ELSE LET above == level[n - 1]
             IN above \cup
                UNION {{[path |-> Append(x.path, e.name), inode |-> e.inode] :
                          e \in Range(disk.node[x.inode].entries)} : x \in above}
  IN level[Cardinality(Inode)]

Readable ==
  {[path |-> x.path, data |-> disk.node[x.inode].data] :
     x \in {y \in Listing : IsDir(disk, y.inode) \/ y.inode \notin disk.damaged}}

Contents == {x.data : x \in Readable}

(* A path that names something and then goes up again.  rm of such a path  *)
(* empties the directory, cannot find it by that path any more, and fails  *)
(* with the directory still there (v6pp_vfs.cpp 205-207).                  *)
Winding(path) ==
  \E k, l \in DOMAIN path.segs : k < l /\ path.segs[k] \in Names /\ path.segs[l] = ".."
RmWinding == \E p \in Paths : Winding(p) /\ Rm(p)

(* A command that fails takes nothing away: all files are still there,     *)
(* under their names and with their contents, also when the directory that *)
(* was to get a new entry could not be written.  The exceptions are        *)
(* RmWinding and the command that is handed the root as its new inode.     *)
FailureLosesNothing ==
  [][rc' = -1 => \/ disk' = disk
                 \/ disk'.reissued # {}
                 \/ Readable \subseteq Readable'
                 \/ RmWinding]_vars

(* A command that fails leaves no trace unless it filled the disk, was     *)
(* handed the root, had contents too large for a file, or is RmWinding.    *)
FailureIsClean ==
  [][rc' = -1 => \/ disk' = disk
                 \/ disk'.reissued # {}
                 \/ disk'.free = 0
                 \/ \E p \in Paths, d \in TooLarge : Upload(p, d)
                 \/ RmWinding]_vars

(* Only rm, format and the command that is handed the root destroy         *)
(* contents.  In particular mv, however it ends, removes the source only   *)
(* when a sound copy exists.                                               *)
OnlyRmLosesContents ==
  [][\/ disk' = disk
     \/ disk'.reissued # {}
     \/ Contents \subseteq Contents'
     \/ Format
     \/ \E p \in Paths : Rm(p)]_vars

(* The commands implement the tree of names, also those that fail; with    *)
(* the root's inode handed out the tree is gone.                           *)
Tree ==
  INSTANCE NameTree WITH
    Names <- Names \cup Special,
    Fresh <- {[path |-> <<>>, type |-> "dir"], [path |-> <<"dev">>, type |-> "dir"],
              [path |-> <<"dev", "tty1">>, type |-> "char"]},
    nodes <- IF disk.reissued # {} THEN {}
             ELSE {[path |-> x.path, type |-> disk.node[x.inode].type] : x \in Listing}
TreeSpec == Tree!Spec
=============================================================================
