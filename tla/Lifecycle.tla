------------------------------ MODULE Lifecycle ------------------------------
(***************************************************************************)
(* The life of an image file: made by makeimage, patched by alterimage,    *)
(* opened, formatted, changed and saved by the shell v6pp-fs-local, and    *)
(* left by runs that were killed or whose input ended.                     *)
(*                                                                         *)
(* An image is reduced to its four parts and each part to the version it   *)
(* is of: the layout words of the superblock, its free lists, the inodes,  *)
(* and the directories and spilled tables in the data zone.  Version 0 is  *)
(* what was never written (zeros on the image, garbage in memory).  The    *)
(* parts make a file system when they are of one version.                  *)
(*                                                                         *)
(* What the parts hold, and which crashes are harmless, is the matter of   *)
(* Vfs and DiskMount; here every change before the save outdates the rest. *)
(***************************************************************************)
EXTENDS Integers

CONSTANTS MaxVersion,  \* bound: versions made by the shell's format and changes
          MaxRuns      \* bound: programs started

ASSUME BoundsAssumption == MaxVersion \in Nat /\ MaxRuns \in Nat

VARIABLES
  image,   \* the file: size, layout, list, inodes, zone
  mem,     \* the Disk of the running program: layout, list, inodes
  at,      \* where the running program is, "idle" when none runs
  answer,  \* the last yes to a question about formatting: "none", "at
           \* opening" or "at prompt"
  version, \* the latest version of anything
  runs,    \* programs started
  start,   \* ghost: the image when the latest program started
  ended    \* ghost: how the latest program ended, "not yet" while it runs

vars == <<image, mem, at, answer, version, runs, start, ended>>

(* A Disk object that was not loaded: the superblock has its initialisers, *)
(* the inodes have none.                                                   *)
Unloaded == [layout |-> "ours", list |-> 0, inodes |-> 0]

Zeros == [size |-> "right", layout |-> "blank", list |-> 0, inodes |-> 0, zone |-> 0]

Sound(i) == /\ i.size = "right" /\ i.layout = "ours"
            /\ i.list # 0 /\ i.list = i.inodes /\ i.list = i.zone

-----------------------------------------------------------------------------
(* Operations of the Disk and of FileSystem on an image.                   *)

(* Disk::load: p_off_inodes_ and p_size_inodes_ are those just read.  With *)
(* a blank layout nothing is read over the inodes.                         *)
Loaded(disk, i) ==
  [layout |-> i.layout, list |-> i.list,
   inodes |-> IF i.layout = "ours" THEN i.inodes ELSE disk.inodes]

(* Faulty: the inodes are written whatever the layout says; they are not.  *)
UpdatedAlways(disk, i) ==
  [i EXCEPT !.layout = disk.layout, !.list = disk.list, !.inodes = disk.inodes]
UpdatedListOnly(disk, i) == [i EXCEPT !.layout = disk.layout, !.list = disk.list]

(* Disk::update, by the destructor; of the inodes likewise.                *)
Updated(disk, i) ==
  [i EXCEPT !.layout = disk.layout, !.list = disk.list,
            !.inodes = IF disk.layout = "ours" THEN disk.inodes ELSE @]

(* Faulty: superblock_.format() leaves the layout as it was.               *)
FormatKeepingLayoutAs(v) ==
  /\ mem' = [layout |-> mem.layout, list |-> v, inodes |-> v]
  /\ image' = [image EXCEPT !.zone = v]
  /\ version' = v

(* FileSystem::format after a yes.                                         *)
FormatAs(v) ==
  /\ mem' = [layout |-> "ours", list |-> v, inodes |-> v]
  /\ image' = [image EXCEPT !.zone = v]
  /\ version' = v

(* A command that changes files: allocates and frees in memory, writes     *)
(* blocks.  Without a free list it cannot get a block, and on parts that   *)
(* do not belong together it makes the data zone that of no version.       *)
ChangeAs(v) ==
  /\ mem.list # 0
  /\ mem' = [mem EXCEPT !.list = v,
                        !.inodes = IF mem.inodes = 0 THEN 0 ELSE v]
  /\ image' = [image EXCEPT !.zone =
                 IF mem.list = mem.inodes /\ mem.list = image.zone THEN v ELSE 0]
  /\ version' = v

ShellAt == {"asked at opening", "first prompt", "prompt", "asked to format",
            "asked to remove", "spinning"}
MakeAt == {"make: binaries", "make: format", "make: formatted", "make: rootfs"}

NextVersion == version + 1
MoreVersions == version < MaxVersion

Starting ==
  /\ at = "idle"
  /\ runs < MaxRuns
  /\ runs' = runs + 1
  /\ start' = image
  /\ ended' = "not yet"
  /\ answer' = "none"

Ending(how) ==
  /\ at' = "idle"
  /\ ended' = how
  /\ mem' = Unloaded

-----------------------------------------------------------------------------
(* v6pp-fs-local: the constructor of FileSystem.                           *)

OpenRightSize ==
  /\ Starting
  /\ image.size = "right"
  /\ mem' = Loaded(Unloaded, image)
  /\ at' = "prompt"
  /\ UNCHANGED <<image, version>>

OpenWrongSize ==
  /\ Starting
  /\ image.size = "wrong"
  /\ image' = [image EXCEPT !.size = "right"]
  /\ mem' = Unloaded
  /\ at' = "asked at opening"
  /\ UNCHANGED version

OpenFails ==
  /\ at = "idle"
  /\ image.size = "absent"
  /\ Starting
  /\ UNCHANGED <<image, mem, at, version>>

(* After the question of format: if it was yes the disk in memory is new,  *)
(* and then load reads the image over it in either case.  Format has put   *)
(* the root on the stack of directories and the constructor puts it there  *)
(* once more.                                                              *)
FormatAtOpening ==
  /\ at = "asked at opening"
  /\ answer' = "at opening"
  /\ image' = [image EXCEPT !.zone = NextVersion]
  /\ version' = NextVersion
  /\ mem' = Loaded([layout |-> "ours", list |-> NextVersion, inodes |-> NextVersion],
                   image')
  /\ at' = "first prompt"
  /\ UNCHANGED <<runs, start, ended>>

NoFormatAtOpening ==
  /\ at = "asked at opening"
  /\ mem' = Loaded(mem, image)
  /\ at' = "prompt"
  /\ UNCHANGED <<image, answer, version, runs, start, ended>>

-----------------------------------------------------------------------------
(* v6pp-fs-local: the loop of cli.                                         *)

(* The prompt names the directory: with the root twice on the stack        *)
(* _getcwd looks for the root among the root's entries, and its            *)
(* runtime_error nobody catches.                                           *)
FirstPrompt ==
  /\ at = "first prompt"
  /\ Ending("no prompt")
  /\ UNCHANGED <<image, answer, version, runs, start>>

(* format and the removal of a directory ask first.                        *)
Ask(question) ==
  /\ at = "prompt"
  /\ at' = question
  /\ UNCHANGED <<image, mem, answer, version, runs, start, ended>>

Format ==
  /\ at = "asked to format"
  /\ MoreVersions
  /\ FormatAs(NextVersion)
  /\ answer' = "at prompt"
  /\ at' = "prompt"
  /\ UNCHANGED <<runs, start, ended>>

(* Commands that change something, the removal after its question.         *)
Change ==
  /\ at \in {"prompt", "asked to remove"}
  /\ MoreVersions
  /\ ChangeAs(NextVersion)
  /\ at' = "prompt"
  /\ UNCHANGED <<answer, runs, start, ended>>

(* Commands that fail or change nothing, and questions answered no.        *)
Nothing ==
  /\ at \in {"asked to format", "asked to remove"}
  /\ at' = "prompt"
  /\ UNCHANGED <<image, mem, answer, version, runs, start, ended>>

(* The only way out of the loop; main returns and ~Disk saves.             *)
Quit ==
  /\ at = "prompt"
  /\ image' = Updated(mem, image)
  /\ Ending("quit")
  /\ UNCHANGED <<answer, version, runs, start>>

(* At the prompt the end of the input reads as an empty line, an unknown   *)
(* command, and so does every line after it.                               *)
InputEnds ==
  /\ at = "prompt"
  /\ at' = "spinning"
  /\ UNCHANGED <<image, mem, answer, version, runs, start, ended>>

Spin ==
  /\ at = "spinning"
  /\ UNCHANGED vars

(* Faulty: the exception unwinds through main, and ~Disk saves.            *)
BadPipeUnwinds ==
  /\ at \in {"asked at opening", "asked to format", "asked to remove"}
  /\ image' = Updated(mem, image)
  /\ Ending("bad pipe")
  /\ UNCHANGED <<answer, version, runs, start>>

(* In a question it makes asker throw a runtime_error nobody catches.      *)
BadPipe ==
  /\ at \in {"asked at opening", "asked to format", "asked to remove"}
  /\ Ending("bad pipe")
  /\ UNCHANGED <<image, answer, version, runs, start>>

Killed ==
  /\ at # "idle"
  /\ Ending(IF at \in ShellAt THEN "killed" ELSE "make killed")
  /\ UNCHANGED <<image, answer, version, runs, start>>

-----------------------------------------------------------------------------
(* makeimage: main calls one stage after the other.                        *)

(* prepare_diskfile truncates the file and extends it with zeros.          *)
MakePrepare ==
  /\ Starting
  /\ image' = Zeros
  /\ at' = "make: binaries"
  /\ mem' = Unloaded
  /\ UNCHANGED version

(* write_binaries: a Disk that is not loaded, destroyed also when a file   *)
(* is missing; then the runtime_error ends the program.                    *)
MakeBinaries ==
  /\ at = "make: binaries"
  /\ image' = Updated(mem, image)
  /\ \/ at' = "make: format" /\ UNCHANGED <<mem, ended>>
     \/ Ending("missing file")
  /\ UNCHANGED <<answer, version, runs, start>>

(* Faulty: without an asker of its own the default one answers "".         *)
MakeFormatUnasked ==
  /\ at = "make: format"
  /\ mem' = Loaded(Unloaded, image)
  /\ at' = "make: formatted"
  /\ UNCHANGED <<image, version, answer, runs, start, ended>>

(* format_diskfile: a FileSystem whose asker says y ...                    *)
MakeFormat ==
  /\ at = "make: format"
  /\ FormatAs(NextVersion)
  /\ at' = "make: formatted"
  /\ UNCHANGED <<answer, runs, start, ended>>

(* ... and which is destroyed; write_rootfs opens the next.                *)
MakeReopen ==
  /\ at = "make: formatted"
  /\ image' = Updated(mem, image)
  /\ mem' = Loaded(Unloaded, image')
  /\ at' = "make: rootfs"
  /\ UNCHANGED <<answer, version, runs, start, ended>>

(* mkdir and upload, for each entry of the host's directory.               *)
MakeRootfs ==
  /\ at = "make: rootfs"
  /\ MoreVersions
  /\ ChangeAs(NextVersion)
  /\ UNCHANGED <<at, answer, runs, start, ended>>

MakeEnds ==
  /\ at = "make: rootfs"
  /\ image' = Updated(mem, image)
  /\ Ending("made")
  /\ UNCHANGED <<answer, version, runs, start>>

-----------------------------------------------------------------------------
(* alterimage: bytes 836 to 1023 of the superblock become the initialisers *)
(* of a file of any size.                                                  *)
Alter ==
  /\ Starting
  /\ image.size # "absent"
  /\ image' = [image EXCEPT !.layout = "ours"]
  /\ at' = "idle"
  /\ UNCHANGED <<mem, version>>

(* No file; all zeros; another system's image, whose superblock has no     *)
(* layout words; ours; ours with a tail cut off, or a tail too many.       *)
Init ==
  /\ image \in {[Zeros EXCEPT !.size = "absent"], Zeros,
                [Zeros EXCEPT !.size = "wrong"]} \cup
               [size : {"right"}, layout : {"blank", "ours"}, list : {1},
                inodes : {1}, zone : {1}] \cup
               [size : {"wrong"}, layout : {"ours"}, list : {1},
                inodes : {1}, zone : {0, 1}] \cup
               {[size |-> "wrong", layout |-> "ours", list |-> 1, inodes |-> 0,
                 zone |-> 0]}
  /\ mem = Unloaded
  /\ at = "idle"
  /\ answer = "none"
  /\ version = 1
  /\ runs = 0
  /\ start = image
  /\ ended = "not yet"

Opening == OpenRightSize \/ OpenWrongSize \/ OpenFails \/ FormatAtOpening
             \/ NoFormatAtOpening
Shell == \/ FirstPrompt
         \/ \E q \in {"asked to format", "asked to remove"} : Ask(q)
         \/ Format \/ Change \/ Nothing \/ Quit \/ InputEnds \/ Spin \/ BadPipe
Make == MakeBinaries \/ MakeFormat \/ MakeReopen \/ MakeRootfs \/ MakeEnds

Next == Opening \/ Shell \/ MakePrepare \/ Make \/ Alter \/ Killed

Spec == Init /\ [][Next]_vars

-----------------------------------------------------------------------------
(* Properties.                                                             *)

Versions == 0 .. version

TypeOK ==
  /\ image \in [size : {"absent", "wrong", "right"}, layout : {"blank", "ours"},
                list : Versions, inodes : Versions, zone : Versions]
  /\ mem \in [layout : {"blank", "ours"}, list : Versions, inodes : Versions]
  /\ at \in ShellAt \cup MakeAt \cup {"idle"}
  /\ answer \in {"none", "at opening", "at prompt"}
  /\ runs \in 0 .. MaxRuns
  /\ at = "idle" => mem = Unloaded

(* Whatever file it finds or does not find, a makeimage that gets to its   *)
(* end leaves a sound image, although its first Disk saves what it never   *)
(* loaded and the layout it loads next exists only because of that         *)
(* (makeimage.cpp 130-140).                                                *)
MadeSound == ended = "made" => Sound(image)

(* An image that was sound stays so through every session that ends with   *)
(* quit.                                                                   *)
QuitKeepsSound == ended = "quit" /\ Sound(start) => Sound(image)

(* The format command repairs any image the shell can open, once the       *)
(* session is saved: blank ones, other systems', cut ones, and those a     *)
(* makeimage or a session left half done.                                  *)
FormatHeals == ended = "quit" /\ answer = "at prompt" => Sound(image)

(* A session that is killed, that waits for a line after the end of its    *)
(* input or that ends by an exception, the asker's or the first prompt's,  *)
(* has saved nothing at all:                                               *)
(* superblock and inodes are the old ones.  If it changed nothing, a sound *)
(* image is still sound.                                                   *)
UnsavedRollsBack ==
  at \in ShellAt \/ ended \in {"bad pipe", "no prompt", "killed"} =>
    /\ image = [start EXCEPT !.size = "right", !.zone = image.zone]
    /\ image.zone = start.zone /\ Sound(start) => Sound(image)

(* A session on an image without our layout, saved or not, leaves its      *)
(* inodes and its layout alone until a format: alterimage can still make   *)
(* its tree readable.                                                      *)
ForeignTreeKept ==
  start.layout = "blank" /\ answer # "at prompt"
    /\ (at \in ShellAt \/ ended \in {"quit", "killed", "bad pipe", "no prompt"})
  => image.layout = "blank" /\ image.inodes = start.inodes

(* What the comments at v6pp_vfs.cpp 45-46 and v6pp_vfs.hpp 39 say: an     *)
(* image of the wrong size is formatted, if the user agrees.  The session  *)
(* then works on the file system that was made.                            *)
OpeningFormats ==
  at = "first prompt" => mem.list = version /\ mem.inodes = version
=============================================================================
