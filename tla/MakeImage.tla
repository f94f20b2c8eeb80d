------------------------------ MODULE MakeImage ------------------------------
(***************************************************************************)
(* makeimage: main gives the command line to ArgParseRule::accept, and,    *)
(* when that returns 0, makes an image and copies a directory of the host  *)
(* to it with the commands of Vfs: every subdirectory is made, then        *)
(* entered; every other file is uploaded; what the commands return is      *)
(* ignored.                                                                *)
(*                                                                         *)
(* The other programs begin with accept too, each with its own rules, and  *)
(* end there when it fails: Rules holds any rules, those of makeimage      *)
(* among them.  The stages before write_rootfs are those of Lifecycle;     *)
(* they leave the image that Vfs starts with.                              *)
(*                                                                         *)
(* The host directory is a set of entries, the order in which              *)
(* directory_iterator yields them is any.                                  *)
(***************************************************************************)
EXTENDS Vfs

CONSTANTS Options, Types, Matching, Words, Rules, MaxWords,  \* as in ArgParse
          Hosts   \* host directories: sets of records [path, data], where the
                  \* data of a directory is Folder

Folder == "folder"

(* Every entry lies in the host directory itself or in a folder of it.     *)
ASSUME HostAssumption ==
  /\ Folder \notin Data
  /\ \A h \in Hosts :
       /\ h \subseteq [path : Seq(Names), data : Data \cup {Folder}]
       /\ \A e, f \in h : e.path = f.path => e = f
       /\ \A e \in h : /\ e.path # <<>>
                       /\ Len(e.path) = 1
                            \/ [path |-> Front(e.path), data |-> Folder] \in h

(* The values of ArgParseTyperule: those of Types, and "opt_only".  "free" *)
(* is one of Types whose parameter may be missing.                         *)
ASSUME WordAssumption ==
  /\ "free" \in Types /\ "opt_only" \notin Types
  /\ Words \subseteq [dashed : BOOLEAN, name : STRING, text : STRING]
  /\ Matching \in [Types -> SUBSET STRING]
  /\ Rules \subseteq [Options -> [type : Types \cup {"opt_only"},
                                  show : {"free", "once", "strict"}]]
  /\ Options \subseteq STRING
  /\ "" \notin Options

VARIABLES
  argv, rule, argi, result, status,  \* of ArgParse
  stage,   \* "parsing", "building" or "over"
  host,    \* the host directory
  todo,    \* the running calls of trav_local, innermost last: what each
           \* directory_iterator has still to yield
  failed   \* ghost: the entries whose command returned -1

parsing == <<argv, rule, argi, result, status>>
building == <<vars, host, todo, failed>>
allVars == <<parsing, stage, building>>

Parser == INSTANCE ArgParse

(* image, kernel, boot and rootfs, without which nothing is made.          *)
MakeRules == [o \in Options |-> [type |-> "str", show |-> "strict"]]

Entries(h, dir) == {e \in h : Len(e.path) = Len(dir) + 1 /\ Front(e.path) = dir}
In(dir) == Entries(host, dir)

-----------------------------------------------------------------------------
(* The command line.                                                       *)
Parse ==
  /\ stage = "parsing"
  /\ Parser!Next
  /\ UNCHANGED <<stage, building>>

(* The error is printed and main returns -1; or another program goes on.   *)
ParseEnds ==
  /\ stage = "parsing"
  /\ \/ status \in {"refused", "aborted"}
     \/ status = "accepted" /\ rule # MakeRules
  /\ stage' = "over"
  /\ UNCHANGED <<parsing, building>>

(* write_binaries formats the disk; the words and what they mean are not   *)
(* needed any more.                                                        *)
Build ==
  /\ stage = "parsing"
  /\ status = "accepted" /\ rule = MakeRules
  /\ stage' = "building"
  /\ argv' = <<>> /\ argi' = 1 /\ result' = [o \in {} |-> ""]
  /\ host' \in Hosts
  /\ todo' = <<Entries(host', <<>>)>>
  /\ Format
  /\ UNCHANGED <<rule, status, failed>>

-----------------------------------------------------------------------------
(* write_rootfs.                                                           *)

Absolute(path) == [abs |-> TRUE, segs |-> path]

Yield(e) == stage = "building" /\ todo # <<>> /\ e \in Last(todo)
Rest(e) == Append(Front(todo), Last(todo) \ {e})

Note(e) == failed' = IF rc' = -1 THEN failed \cup {e} ELSE failed

(* Faulty: the path passed on is that below the host directory's name.     *)
UploadAtTop(e) ==
  /\ Yield(e) /\ e.data # Folder
  /\ Upload(Absolute(<<Last(e.path)>>), e.data)
  /\ todo' = Rest(e)
  /\ Note(e)
  /\ UNCHANGED <<parsing, stage, host>>

UploadEntry(e) ==
  /\ Yield(e) /\ e.data # Folder
  /\ Upload(Absolute(e.path), e.data)
  /\ todo' = Rest(e)
  /\ Note(e)
  /\ UNCHANGED <<parsing, stage, host>>

(* Faulty: a folder that cannot be made is not entered.                    *)
EnterIfMade(e) ==
  /\ Yield(e) /\ e.data = Folder
  /\ Mkdir(Absolute(e.path))
  /\ todo' = IF rc' = 0 THEN Append(Rest(e), In(e.path)) ELSE Rest(e)
  /\ Note(e)
  /\ UNCHANGED <<parsing, stage, host>>

EnterFolder(e) ==
  /\ Yield(e) /\ e.data = Folder
  /\ Mkdir(Absolute(e.path))
  /\ todo' = Append(Rest(e), In(e.path))
  /\ Note(e)
  /\ UNCHANGED <<parsing, stage, host>>

Return ==
  /\ todo # <<>> /\ Last(todo) = {}
  /\ todo' = Front(todo)
  /\ UNCHANGED <<parsing, stage, vars, host, failed>>

(* Bound: once the full disk has damaged a directory, or the root was      *)
(* handed out, looking things up is not modelled (see Vfs), and the build  *)
(* is not followed further.                                                *)
Leave ==
  /\ todo # <<>>
  /\ disk.reissued # {} \/ \E i \in disk.damaged : IsDir(disk, i)
  /\ todo' = <<>>
  /\ UNCHANGED <<parsing, stage, vars, host, failed>>

(* The walk is over; a walk that cannot go on is a deadlock.               *)
Finished ==
  /\ stage = "building"
  /\ todo = <<>>
  /\ stage' = "over"
  /\ UNCHANGED <<parsing, building>>

Over == stage = "over" /\ UNCHANGED allVars

MakeInit ==
  /\ Parser!Init
  /\ stage = "parsing"
  /\ disk = "none" /\ cwd = <<>> /\ rc = 0
  /\ host = {} /\ todo = <<>> /\ failed = {}

MakeNext ==
  \/ Parse \/ ParseEnds \/ Build
  \/ \E e \in host : UploadEntry(e) \/ EnterFolder(e)
  \/ Return \/ Leave \/ Finished
  \/ Over

MakeSpec == MakeInit /\ [][MakeNext]_allVars

-----------------------------------------------------------------------------
(* Properties.                                                             *)

Ended ==
  /\ stage = "over" /\ host # {}
  /\ disk.reissued = {} /\ ~ \E i \in disk.damaged : IsDir(disk, i)

(* accept (argparse.cpp 48-120) accepts exactly the command lines that are *)
(* valid by argparse.hpp, stated without a scanner, and those that differ  *)
(* from a valid one only in that a strict option comes again, which        *)
(* argparse.hpp 56 forbids; whatever the order of options and however      *)
(* options and parameters touch each other.  It returns each option that   *)
(* appears with the value of its last appearance, and no other.            *)
AcceptsValid == stage = "parsing" => Parser!AcceptsValid /\ Parser!LastWins

(* The image's tree in the terms of the host's.                            *)
Image ==
  {[path |-> x.path,
    data |-> IF IsDir(disk, x.inode) THEN Folder ELSE disk.node[x.inode].data] :
     x \in {y \in Listing : y.path # <<>>}}
CutShort == {x.path : x \in {y \in Listing : y.inode \in disk.damaged}}
Own == {[path |-> <<"dev">>, data |-> Folder], [path |-> <<"dev", "tty1">>, data |-> Empty]}

(* A command had a reason to fail: the name is taken, is below /dev/tty1,  *)
(* which is no directory, or is too long, or the contents are too large.   *)
Overlong(path) == Range(path) \cap TooLong # {}
Excused(e) ==
  \/ e.path = <<"dev">> \/ IsPrefix(<<"dev", "tty1">>, e.path)
  \/ Overlong(e.path)
  \/ e.data \in TooLarge

(* At the end, unless the root's inode was handed out on the way, every    *)
(* entry of the host whose own command succeeded is on the image, at its   *)
(* place and with its contents, also below a folder whose mkdir failed     *)
(* because it was there, as /dev is (makeimage.cpp 139 reports an error    *)
(* for it); files that got too few blocks apart.  And only commands with a *)
(* reason to fail have failed.                                             *)
BuiltFaithfully ==
  Ended => /\ \A e \in host \ failed : e \in Image \/ e.path \in CutShort
           /\ \A e \in failed : Excused(e)

(* Nothing is put anywhere else: as long as the root's inode was not handed *)
(* out, the image holds only entries of the host and what format made,     *)
(* /dev and /dev/tty1 as it made them.  A file that failed for its size    *)
(* stays behind empty.                                                     *)
NothingElse ==
  stage = "building" /\ disk.reissued = {} =>
  /\ {x.path : x \in Image} \subseteq {e.path : e \in host \cup Own}
  /\ \A o \in Own : o \in Image \/ o.path \in CutShort
=============================================================================
