--------------------------- MODULE LifecycleProofs ---------------------------
(***************************************************************************)
(* Proofs of the invariants of Lifecycle, for any number of versions and   *)
(* of programs started.                                                    *)
(*                                                                         *)
(* What the invariants say of a program that has ended is prepared while   *)
(* it runs: Prepared collects what holds at each place of makeimage and of *)
(* the shell.                                                              *)
(***************************************************************************)
EXTENDS Lifecycle, TLAPS

(* What update would save now is sound.                                    *)
SoundToSave ==
  /\ image.size = "right"
  /\ mem.layout = "ours"
  /\ mem.list # 0 /\ mem.list = mem.inodes /\ mem.list = image.zone

InShell == at \in ShellAt
Opened == at \in ShellAt \ {"asked at opening"}

(* Nothing but the size and the data zone changes before the save.         *)
NotSaved ==
  /\ image.size = "right"
  /\ image.layout = start.layout
  /\ image.list = start.list
  /\ image.inodes = start.inodes

Images(v) == [size : {"absent", "wrong", "right"}, layout : {"blank", "ours"},
              list : 0 .. v, inodes : 0 .. v, zone : 0 .. v]
Disks(v) == [layout : {"blank", "ours"}, list : 0 .. v, inodes : 0 .. v]

Rest ==
  /\ at \in ShellAt \cup MakeAt \cup {"idle"}
  /\ answer \in {"none", "at opening", "at prompt"}
  /\ runs \in 0 .. MaxRuns
  /\ version \in Nat
  /\ ended # "not yet" => at = "idle"

Clean == at = "idle" => mem = Unloaded

WellTyped ==
  /\ image \in Images(version)
  /\ mem \in Disks(version)
  /\ start \in Images(version)
  /\ Rest
  /\ Clean

Prepared ==
  /\ at \in {"make: binaries", "make: format"} => image.size = "right"
  /\ at \in {"make: formatted", "make: rootfs"} => SoundToSave
  /\ at = "asked at opening" => start.size = "wrong" /\ answer = "none"
  /\ InShell => NotSaved
  /\ InShell /\ (Sound(start) \/ answer = "at prompt") => SoundToSave
  /\ Opened /\ start.layout = "blank" /\ answer # "at prompt"
       => mem.layout = "blank"

Kept ==
  /\ MadeSound
  /\ QuitKeepsSound
  /\ FormatHeals
  /\ ended \in {"bad pipe", "no prompt", "killed"} => NotSaved
  /\ ended = "quit" /\ start.layout = "blank" /\ answer # "at prompt"
       => image.layout = "blank" /\ image.inodes = start.inodes

IInv == WellTyped /\ Prepared /\ Kept

-----------------------------------------------------------------------------
(* One step per action, and under it one per part of the invariant.        *)

LEMMA Growing ==
  ASSUME NEW v \in Nat
  PROVE  /\ v + 1 \in Nat /\ v + 1 # 0 /\ v + 1 \in 0 .. v + 1
         /\ 0 .. v \subseteq 0 .. v + 1
         /\ 0 \in 0 .. v
  OBVIOUS

LEMMA NewlyMade ==
  ASSUME NEW v \in Nat
  PROVE  Unloaded \in Disks(v) /\ Zeros \in Images(v)
  BY Growing DEF Unloaded, Zeros, Disks, Images

LEMMA LoadedIsDisk ==
  ASSUME NEW v, NEW disk \in Disks(v), NEW i \in Images(v)
  PROVE  Loaded(disk, i) \in Disks(v)
  BY DEF Loaded, Disks, Images

LEMMA UpdatedIsImage ==
  ASSUME NEW v, NEW disk \in Disks(v), NEW i \in Images(v)
  PROVE  Updated(disk, i) \in Images(v)
  BY DEF Updated, Disks, Images

LEMMA Older ==
  ASSUME NEW v \in Nat
  PROVE  /\ Images(v) \subseteq Images(v + 1) /\ Disks(v) \subseteq Disks(v + 1)
         /\ \A i \in Images(v) : [i EXCEPT !.zone = v + 1] \in Images(v + 1)
<1>1. Images(v) \subseteq Images(v + 1)
  BY Growing DEF Images
<1>2. Disks(v) \subseteq Disks(v + 1)
  BY Growing DEF Disks
<1>3. \A i \in Images(v) : [i EXCEPT !.zone = v + 1] \in Images(v + 1)
  BY Growing DEF Images
<1> QED
  BY <1>1, <1>2, <1>3

LEMMA StartingCounts ==
  ASSUME runs \in 0 .. MaxRuns, Starting
  PROVE  runs' \in 0 .. MaxRuns
<1>1. runs < MaxRuns /\ runs' = runs + 1
  BY DEF Starting
<1> QED
  BY <1>1, BoundsAssumption

LEMMA InitEstablishes == Init => IInv
<1> SUFFICES ASSUME Init PROVE IInv
  OBVIOUS
<1>1. image \in Images(version) /\ start \in Images(version)
  <2>1. version = 1 /\ version \in Nat
    BY DEF Init
  <2>2. 0 \in 0 .. version /\ 1 \in 0 .. version
    BY <2>1
  <2>3. Zeros \in Images(1)
    BY NewlyMade
  <2>4. \A x \in {"absent", "wrong"} : [Zeros EXCEPT !.size = x] \in Images(1)
    BY <2>3 DEF Images
  <2>5. image \in Images(1)
    <3>1. CASE image \in {[Zeros EXCEPT !.size = "absent"], Zeros,
                          [Zeros EXCEPT !.size = "wrong"]}
      BY <3>1, <2>3, <2>4
    <3>2. CASE image \in [size : {"right"}, layout : {"blank", "ours"},
                          list : {1}, inodes : {1}, zone : {1}]
      BY <3>2, <2>2 DEF Images
    <3>3. CASE image \in [size : {"wrong"}, layout : {"ours"}, list : {1},
                          inodes : {1}, zone : {0, 1}]
      BY <3>3, <2>2 DEF Images
    <3>4. CASE image = [size |-> "wrong", layout |-> "ours", list |-> 1,
                        inodes |-> 0, zone |-> 0]
      BY <3>4, <2>2 DEF Images
    <3> QED
      BY <3>1, <3>2, <3>3, <3>4 DEF Init
  <2> QED
    BY <2>1, <2>5 DEF Init
<1>2. mem \in Disks(version)
  BY NewlyMade DEF Init
<1>3. Rest /\ Clean
  <2>1. 0 \in 0 .. MaxRuns
    BY BoundsAssumption
  <2> QED
    BY <2>1 DEF Init, Rest, Clean
<1>4. Prepared
  BY DEF Init, Prepared, InShell, Opened, ShellAt
<1>5. Kept
  BY DEF Init, Kept, MadeSound, QuitKeepsSound, FormatHeals
<1> QED
  BY <1>1, <1>2, <1>3, <1>4, <1>5 DEF IInv, WellTyped

LEMMA StepPreserves == IInv /\ [Next]_vars => IInv'
<1> SUFFICES ASSUME IInv, [Next]_vars PROVE IInv'
  OBVIOUS
<1> USE DEF IInv
<1>1. /\ version \in Nat /\ image \in Images(version) /\ mem \in Disks(version)
      /\ start \in Images(version)
  BY DEF WellTyped, Rest
<1>2. CASE OpenRightSize
  <2>1. image' \in Images(version')
    BY <1>1, <1>2 DEF OpenRightSize, Starting
  <2>2. mem' \in Disks(version')
    BY <1>1, <1>2, NewlyMade, LoadedIsDisk DEF OpenRightSize, Starting
  <2>3. start' \in Images(version')
    BY <1>1, <1>2 DEF OpenRightSize, Starting
  <2>4. runs' \in 0 .. MaxRuns
    BY <1>2, StartingCounts DEF OpenRightSize, WellTyped, Rest
  <2>5. Rest'
    BY <1>1, <1>2, <2>4 DEF WellTyped, Rest, ShellAt, MakeAt, OpenRightSize,
           Starting
  <2>6. Clean'
    BY <1>1, <1>2 DEF WellTyped, Rest, Clean, ShellAt, MakeAt, OpenRightSize,
           Starting
  <2>7. Prepared'
    BY <1>1, <1>2 DEF WellTyped, Rest, Images, Disks, Prepared, NotSaved,
           Sound, SoundToSave, InShell, Opened, ShellAt, MakeAt,
           OpenRightSize, Starting, Loaded, Unloaded
  <2>8. Kept'
    BY <1>1, <1>2 DEF WellTyped, Rest, Images, Disks, Prepared, NotSaved,
           Sound, SoundToSave, InShell, Opened, ShellAt, MakeAt, Kept,
           MadeSound, QuitKeepsSound, FormatHeals, OpenRightSize, Starting,
           Loaded, Unloaded
  <2> QED
    BY <2>1, <2>2, <2>3, <2>5, <2>6, <2>7, <2>8 DEF WellTyped
<1>3. CASE OpenWrongSize
  <2>1. image' \in Images(version')
    BY <1>1, <1>3 DEF OpenWrongSize, Starting, Images
  <2>2. mem' \in Disks(version')
    BY <1>1, <1>3, NewlyMade DEF OpenWrongSize, Starting
  <2>3. start' \in Images(version')
    BY <1>1, <1>3 DEF OpenWrongSize, Starting
  <2>4. runs' \in 0 .. MaxRuns
    BY <1>3, StartingCounts DEF OpenWrongSize, WellTyped, Rest
  <2>5. Rest'
    BY <1>1, <1>3, <2>4 DEF WellTyped, Rest, ShellAt, MakeAt, OpenWrongSize,
           Starting
  <2>6. Clean'
    BY <1>1, <1>3 DEF WellTyped, Rest, Clean, ShellAt, MakeAt, OpenWrongSize,
           Starting
  <2>7. Prepared'
    BY <1>1, <1>3 DEF WellTyped, Rest, Images, Disks, Prepared, NotSaved,
           Sound, SoundToSave, InShell, Opened, ShellAt, MakeAt,
           OpenWrongSize, Starting, Unloaded
  <2>8. Kept'
    BY <1>1, <1>3 DEF WellTyped, Rest, Images, Disks, Prepared, NotSaved,
           Sound, SoundToSave, InShell, Opened, ShellAt, MakeAt, Kept,
           MadeSound, QuitKeepsSound, FormatHeals, OpenWrongSize, Starting,
           Unloaded
  <2> QED
    BY <2>1, <2>2, <2>3, <2>5, <2>6, <2>7, <2>8 DEF WellTyped
<1>4. CASE OpenFails
  <2>1. image' \in Images(version')
    BY <1>1, <1>4 DEF OpenFails, Starting
  <2>2. mem' \in Disks(version')
    BY <1>1, <1>4 DEF OpenFails, Starting
  <2>3. start' \in Images(version')
    BY <1>1, <1>4 DEF OpenFails, Starting
  <2>4. runs' \in 0 .. MaxRuns
    BY <1>4, StartingCounts DEF OpenFails, WellTyped, Rest
  <2>5. Rest'
    BY <1>1, <1>4, <2>4 DEF WellTyped, Rest, ShellAt, MakeAt, OpenFails,
           Starting
  <2>6. Clean'
    BY <1>1, <1>4 DEF WellTyped, Rest, Clean, ShellAt, MakeAt, OpenFails,
           Starting
  <2>7. Prepared'
    BY <1>1, <1>4 DEF WellTyped, Rest, Images, Disks, Prepared, NotSaved,
           Sound, SoundToSave, InShell, Opened, ShellAt, MakeAt, OpenFails,
           Starting
  <2>8. Kept'
    BY <1>1, <1>4 DEF WellTyped, Rest, Images, Disks, Prepared, NotSaved,
           Sound, SoundToSave, InShell, Opened, ShellAt, MakeAt, Kept,
           MadeSound, QuitKeepsSound, FormatHeals, OpenFails, Starting
  <2> QED
    BY <2>1, <2>2, <2>3, <2>5, <2>6, <2>7, <2>8 DEF WellTyped
<1>5. CASE FormatAtOpening
  <2>1. version' = version + 1
    BY <1>5 DEF FormatAtOpening, NextVersion
  <2>2. image' \in Images(version')
    BY <1>1, <1>5, <2>1, Older DEF FormatAtOpening, NextVersion
  <2>3. mem' \in Disks(version')
    BY <1>1, <1>5, <2>1, <2>2, Growing DEF FormatAtOpening, NextVersion,
           Loaded, Images, Disks
  <2>4. start' \in Images(version')
    BY <1>1, <1>5, <2>1, Older DEF FormatAtOpening, NextVersion
  <2>5. Rest'
    BY <1>1, <1>5, <2>1, Growing DEF WellTyped, Rest, ShellAt, MakeAt,
           FormatAtOpening, NextVersion
  <2>6. Clean'
    BY <1>1, <1>5, <2>1 DEF WellTyped, Rest, Clean, ShellAt, MakeAt,
           FormatAtOpening, NextVersion
  <2>7. Prepared'
    BY <1>1, <1>5, <2>1, Growing DEF WellTyped, Rest, Images, Disks,
           Prepared, NotSaved, Sound, SoundToSave, InShell, Opened, ShellAt,
           MakeAt, FormatAtOpening, Loaded, NextVersion
  <2>8. Kept'
    BY <1>1, <1>5, <2>1, Growing DEF WellTyped, Rest, Images, Disks,
           Prepared, NotSaved, Sound, SoundToSave, InShell, Opened, ShellAt,
           MakeAt, Kept, MadeSound, QuitKeepsSound, FormatHeals,
           FormatAtOpening, Loaded, NextVersion
  <2> QED
    BY <2>2, <2>3, <2>4, <2>5, <2>6, <2>7, <2>8 DEF WellTyped
<1>6. CASE NoFormatAtOpening
  <2>1. image' \in Images(version')
    BY <1>1, <1>6 DEF NoFormatAtOpening
  <2>2. mem' \in Disks(version')
    BY <1>1, <1>6, LoadedIsDisk DEF NoFormatAtOpening
  <2>3. start' \in Images(version')
    BY <1>1, <1>6 DEF NoFormatAtOpening
  <2>4. Rest'
    BY <1>1, <1>6 DEF WellTyped, Rest, ShellAt, MakeAt, NoFormatAtOpening
  <2>5. Clean'
    BY <1>1, <1>6 DEF WellTyped, Rest, Clean, ShellAt, MakeAt,
           NoFormatAtOpening
  <2>6. Prepared'
    BY <1>1, <1>6 DEF WellTyped, Rest, Images, Disks, Prepared, NotSaved,
           Sound, SoundToSave, InShell, Opened, ShellAt, MakeAt,
           NoFormatAtOpening, Loaded
  <2>7. Kept'
    BY <1>1, <1>6 DEF WellTyped, Rest, Images, Disks, Prepared, NotSaved,
           Sound, SoundToSave, InShell, Opened, ShellAt, MakeAt, Kept,
           MadeSound, QuitKeepsSound, FormatHeals, NoFormatAtOpening, Loaded
  <2> QED
    BY <2>1, <2>2, <2>3, <2>4, <2>5, <2>6, <2>7 DEF WellTyped
<1>7. CASE \E q \in {"asked to format", "asked to remove"} : Ask(q)
  <2>1. image' \in Images(version')
    BY <1>1, <1>7 DEF Ask
  <2>2. mem' \in Disks(version')
    BY <1>1, <1>7 DEF Ask
  <2>3. start' \in Images(version')
    BY <1>1, <1>7 DEF Ask
  <2>4. Rest'
    BY <1>1, <1>7 DEF WellTyped, Rest, ShellAt, MakeAt, Ask
  <2>5. Clean'
    BY <1>1, <1>7 DEF WellTyped, Rest, Clean, ShellAt, MakeAt, Ask
  <2>6. Prepared'
    BY <1>1, <1>7 DEF WellTyped, Rest, Images, Disks, Prepared, NotSaved,
           Sound, SoundToSave, InShell, Opened, ShellAt, MakeAt, Ask
  <2>7. Kept'
    BY <1>1, <1>7 DEF WellTyped, Rest, Images, Disks, Prepared, NotSaved,
           Sound, SoundToSave, InShell, Opened, ShellAt, MakeAt, Kept,
           MadeSound, QuitKeepsSound, FormatHeals, Ask
  <2> QED
    BY <2>1, <2>2, <2>3, <2>4, <2>5, <2>6, <2>7 DEF WellTyped
<1>8. CASE Format
  <2>1. version' = version + 1
    BY <1>8 DEF Format, FormatAs, NextVersion, MoreVersions
  <2>2. image' \in Images(version')
    BY <1>1, <1>8, <2>1, Older DEF Format, FormatAs, NextVersion, MoreVersions
  <2>3. mem' \in Disks(version')
    BY <1>1, <1>8, <2>1, Growing, Older DEF Format, FormatAs, NextVersion,
           MoreVersions, Disks
  <2>4. start' \in Images(version')
    BY <1>1, <1>8, <2>1, Older DEF Format, FormatAs, NextVersion, MoreVersions
  <2>5. Rest'
    BY <1>1, <1>8, <2>1, Growing DEF WellTyped, Rest, ShellAt, MakeAt,
           Format, FormatAs, NextVersion, MoreVersions
  <2>6. Clean'
    BY <1>1, <1>8, <2>1 DEF WellTyped, Rest, Clean, ShellAt, MakeAt, Format,
           FormatAs, NextVersion, MoreVersions
  <2>7. Prepared'
    BY <1>1, <1>8, <2>1, Growing DEF WellTyped, Rest, Images, Disks,
           Prepared, NotSaved, Sound, SoundToSave, InShell, Opened, ShellAt,
           MakeAt, Format, FormatAs, NextVersion, MoreVersions
  <2>8. Kept'
    BY <1>1, <1>8, <2>1, Growing DEF WellTyped, Rest, Images, Disks,
           Prepared, NotSaved, Sound, SoundToSave, InShell, Opened, ShellAt,
           MakeAt, Kept, MadeSound, QuitKeepsSound, FormatHeals, Format,
           FormatAs, NextVersion, MoreVersions
  <2> QED
    BY <2>2, <2>3, <2>4, <2>5, <2>6, <2>7, <2>8 DEF WellTyped
<1>9. CASE Change
  <2>1. version' = version + 1
    BY <1>9 DEF Change, ChangeAs, NextVersion, MoreVersions
  <2>2. image' \in Images(version')
    BY <1>1, <1>9, <2>1, Growing DEF Change, ChangeAs, NextVersion,
           MoreVersions, Images
  <2>3. mem' \in Disks(version')
    BY <1>1, <1>9, <2>1, Growing, Older DEF Change, ChangeAs, NextVersion,
           MoreVersions, Disks
  <2>4. start' \in Images(version')
    BY <1>1, <1>9, <2>1, Older DEF Change, ChangeAs, NextVersion, MoreVersions
  <2>5. Rest'
    BY <1>1, <1>9, <2>1, Growing DEF WellTyped, Rest, ShellAt, MakeAt,
           Change, ChangeAs, NextVersion, MoreVersions
  <2>6. Clean'
    BY <1>1, <1>9, <2>1 DEF WellTyped, Rest, Clean, ShellAt, MakeAt, Change,
           ChangeAs, NextVersion, MoreVersions
  <2>7. Prepared'
    BY <1>1, <1>9, <2>1, Growing DEF WellTyped, Rest, Images, Disks,
           Prepared, NotSaved, Sound, SoundToSave, InShell, Opened, ShellAt,
           MakeAt, Change, ChangeAs, NextVersion, MoreVersions
  <2>8. Kept'
    BY <1>1, <1>9, <2>1, Growing DEF WellTyped, Rest, Images, Disks,
           Prepared, NotSaved, Sound, SoundToSave, InShell, Opened, ShellAt,
           MakeAt, Kept, MadeSound, QuitKeepsSound, FormatHeals, Change,
           ChangeAs, NextVersion, MoreVersions
  <2> QED
    BY <2>2, <2>3, <2>4, <2>5, <2>6, <2>7, <2>8 DEF WellTyped
<1>10. CASE Nothing
  <2>1. image' \in Images(version')
    BY <1>1, <1>10 DEF Nothing
  <2>2. mem' \in Disks(version')
    BY <1>1, <1>10 DEF Nothing
  <2>3. start' \in Images(version')
    BY <1>1, <1>10 DEF Nothing
  <2>4. Rest'
    BY <1>1, <1>10 DEF WellTyped, Rest, ShellAt, MakeAt, Nothing
  <2>5. Clean'
    BY <1>1, <1>10 DEF WellTyped, Rest, Clean, ShellAt, MakeAt, Nothing
  <2>6. Prepared'
    BY <1>1, <1>10 DEF WellTyped, Rest, Images, Disks, Prepared, NotSaved,
           Sound, SoundToSave, InShell, Opened, ShellAt, MakeAt, Nothing
  <2>7. Kept'
    BY <1>1, <1>10 DEF WellTyped, Rest, Images, Disks, Prepared, NotSaved,
           Sound, SoundToSave, InShell, Opened, ShellAt, MakeAt, Kept,
           MadeSound, QuitKeepsSound, FormatHeals, Nothing
  <2> QED
    BY <2>1, <2>2, <2>3, <2>4, <2>5, <2>6, <2>7 DEF WellTyped
<1>11. CASE Quit
  <2>1. image' \in Images(version')
    BY <1>1, <1>11, UpdatedIsImage DEF Quit, Ending
  <2>2. mem' \in Disks(version')
    BY <1>1, <1>11, NewlyMade DEF Quit, Ending
  <2>3. start' \in Images(version')
    BY <1>1, <1>11 DEF Quit, Ending
  <2>4. Rest'
    BY <1>1, <1>11 DEF WellTyped, Rest, ShellAt, MakeAt, Quit, Ending
  <2>5. Clean'
    BY <1>1, <1>11 DEF WellTyped, Rest, Clean, ShellAt, MakeAt, Quit, Ending
  <2>6. Prepared'
    BY <1>1, <1>11 DEF WellTyped, Rest, Images, Disks, Prepared, NotSaved,
           Sound, SoundToSave, InShell, Opened, ShellAt, MakeAt, Quit,
           Updated, Ending, Unloaded
  <2>7. Kept'
    BY <1>1, <1>11 DEF WellTyped, Rest, Images, Disks, Prepared, NotSaved,
           Sound, SoundToSave, InShell, Opened, ShellAt, MakeAt, Kept,
           MadeSound, QuitKeepsSound, FormatHeals, Quit, Updated, Ending,
           Unloaded
  <2> QED
    BY <2>1, <2>2, <2>3, <2>4, <2>5, <2>6, <2>7 DEF WellTyped
<1>12. CASE InputEnds
  <2>1. image' \in Images(version')
    BY <1>1, <1>12 DEF InputEnds
  <2>2. mem' \in Disks(version')
    BY <1>1, <1>12 DEF InputEnds
  <2>3. start' \in Images(version')
    BY <1>1, <1>12 DEF InputEnds
  <2>4. Rest'
    BY <1>1, <1>12 DEF WellTyped, Rest, ShellAt, MakeAt, InputEnds
  <2>5. Clean'
    BY <1>1, <1>12 DEF WellTyped, Rest, Clean, ShellAt, MakeAt, InputEnds
  <2>6. Prepared'
    BY <1>1, <1>12 DEF WellTyped, Rest, Images, Disks, Prepared, NotSaved,
           Sound, SoundToSave, InShell, Opened, ShellAt, MakeAt, InputEnds
  <2>7. Kept'
    BY <1>1, <1>12 DEF WellTyped, Rest, Images, Disks, Prepared, NotSaved,
           Sound, SoundToSave, InShell, Opened, ShellAt, MakeAt, Kept,
           MadeSound, QuitKeepsSound, FormatHeals, InputEnds
  <2> QED
    BY <2>1, <2>2, <2>3, <2>4, <2>5, <2>6, <2>7 DEF WellTyped
<1>13. CASE Spin
  <2>1. image' \in Images(version')
    BY <1>1, <1>13 DEF Spin, vars
  <2>2. mem' \in Disks(version')
    BY <1>1, <1>13 DEF Spin, vars
  <2>3. start' \in Images(version')
    BY <1>1, <1>13 DEF Spin, vars
  <2>4. Rest'
    BY <1>1, <1>13 DEF WellTyped, Rest, ShellAt, MakeAt, Spin, vars
  <2>5. Clean'
    BY <1>1, <1>13 DEF WellTyped, Rest, Clean, ShellAt, MakeAt, Spin, vars
  <2>6. Prepared'
    BY <1>1, <1>13 DEF WellTyped, Rest, Images, Disks, Prepared, NotSaved,
           Sound, SoundToSave, InShell, Opened, ShellAt, MakeAt, Spin, vars
  <2>7. Kept'
    BY <1>1, <1>13 DEF WellTyped, Rest, Images, Disks, Prepared, NotSaved,
           Sound, SoundToSave, InShell, Opened, ShellAt, MakeAt, Kept,
           MadeSound, QuitKeepsSound, FormatHeals, Spin, vars
  <2> QED
    BY <2>1, <2>2, <2>3, <2>4, <2>5, <2>6, <2>7 DEF WellTyped
<1>14. CASE BadPipe
  <2>1. image' \in Images(version')
    BY <1>1, <1>14 DEF BadPipe, Ending
  <2>2. mem' \in Disks(version')
    BY <1>1, <1>14, NewlyMade DEF BadPipe, Ending
  <2>3. start' \in Images(version')
    BY <1>1, <1>14 DEF BadPipe, Ending
  <2>4. Rest'
    BY <1>1, <1>14 DEF WellTyped, Rest, ShellAt, MakeAt, BadPipe, Ending
  <2>5. Clean'
    BY <1>1, <1>14 DEF WellTyped, Rest, Clean, ShellAt, MakeAt, BadPipe,
           Ending
  <2>6. Prepared'
    BY <1>1, <1>14 DEF WellTyped, Rest, Images, Disks, Prepared, NotSaved,
           Sound, SoundToSave, InShell, Opened, ShellAt, MakeAt, BadPipe,
           Ending, Unloaded
  <2>7. Kept'
    BY <1>1, <1>14 DEF WellTyped, Rest, Images, Disks, Prepared, NotSaved,
           Sound, SoundToSave, InShell, Opened, ShellAt, MakeAt, Kept,
           MadeSound, QuitKeepsSound, FormatHeals, BadPipe, Ending, Unloaded
  <2> QED
    BY <2>1, <2>2, <2>3, <2>4, <2>5, <2>6, <2>7 DEF WellTyped
<1>15. CASE MakePrepare
  <2>1. image' \in Images(version')
    BY <1>1, <1>15, NewlyMade DEF MakePrepare, Starting
  <2>2. mem' \in Disks(version')
    BY <1>1, <1>15, NewlyMade DEF MakePrepare, Starting
  <2>3. start' \in Images(version')
    BY <1>1, <1>15 DEF MakePrepare, Starting
  <2>4. runs' \in 0 .. MaxRuns
    BY <1>15, StartingCounts DEF MakePrepare, WellTyped, Rest
  <2>5. Rest'
    BY <1>1, <1>15, <2>4 DEF WellTyped, Rest, ShellAt, MakeAt, MakePrepare,
           Starting
  <2>6. Clean'
    BY <1>1, <1>15 DEF WellTyped, Rest, Clean, ShellAt, MakeAt, MakePrepare,
           Starting
  <2>7. Prepared'
    BY <1>1, <1>15 DEF WellTyped, Rest, Images, Disks, Prepared, NotSaved,
           Sound, SoundToSave, InShell, Opened, ShellAt, MakeAt, MakePrepare,
           Starting, Zeros, Unloaded
  <2>8. Kept'
    BY <1>1, <1>15 DEF WellTyped, Rest, Images, Disks, Prepared, NotSaved,
           Sound, SoundToSave, InShell, Opened, ShellAt, MakeAt, Kept,
           MadeSound, QuitKeepsSound, FormatHeals, MakePrepare, Starting,
           Zeros, Unloaded
  <2> QED
    BY <2>1, <2>2, <2>3, <2>5, <2>6, <2>7, <2>8 DEF WellTyped
<1>16. CASE MakeBinaries
  <2>1. image' \in Images(version')
    BY <1>1, <1>16, UpdatedIsImage DEF MakeBinaries, Ending
  <2>2. mem' \in Disks(version')
    BY <1>1, <1>16, NewlyMade DEF MakeBinaries, Ending
  <2>3. start' \in Images(version')
    BY <1>1, <1>16 DEF MakeBinaries, Ending
  <2>4. Rest'
    BY <1>1, <1>16 DEF WellTyped, Rest, ShellAt, MakeAt, MakeBinaries, Ending
  <2>5. Clean'
    BY <1>1, <1>16 DEF WellTyped, Rest, Clean, ShellAt, MakeAt, MakeBinaries,
           Ending
  <2>6. Prepared'
    BY <1>1, <1>16 DEF WellTyped, Rest, Images, Disks, Prepared, NotSaved,
           Sound, SoundToSave, InShell, Opened, ShellAt, MakeAt, MakeBinaries,
           Updated, Ending, Unloaded
  <2>7. Kept'
    BY <1>1, <1>16 DEF WellTyped, Rest, Images, Disks, Prepared, NotSaved,
           Sound, SoundToSave, InShell, Opened, ShellAt, MakeAt, Kept,
           MadeSound, QuitKeepsSound, FormatHeals, MakeBinaries, Updated,
           Ending, Unloaded
  <2> QED
    BY <2>1, <2>2, <2>3, <2>4, <2>5, <2>6, <2>7 DEF WellTyped
<1>17. CASE MakeFormat
  <2>1. version' = version + 1
    BY <1>17 DEF MakeFormat, FormatAs, NextVersion
  <2>2. image' \in Images(version')
    BY <1>1, <1>17, <2>1, Older DEF MakeFormat, FormatAs, NextVersion
  <2>3. mem' \in Disks(version')
    BY <1>1, <1>17, <2>1, Growing, Older DEF MakeFormat, FormatAs,
           NextVersion, Disks
  <2>4. start' \in Images(version')
    BY <1>1, <1>17, <2>1, Older DEF MakeFormat, FormatAs, NextVersion
  <2>5. Rest'
    BY <1>1, <1>17, <2>1, Growing DEF WellTyped, Rest, ShellAt, MakeAt,
           MakeFormat, FormatAs, NextVersion
  <2>6. Clean'
    BY <1>1, <1>17, <2>1 DEF WellTyped, Rest, Clean, ShellAt, MakeAt,
           MakeFormat, FormatAs, NextVersion
  <2>7. Prepared'
    BY <1>1, <1>17, <2>1, Growing DEF WellTyped, Rest, Images, Disks,
           Prepared, NotSaved, Sound, SoundToSave, InShell, Opened, ShellAt,
           MakeAt, MakeFormat, FormatAs, NextVersion
  <2>8. Kept'
    BY <1>1, <1>17, <2>1, Growing DEF WellTyped, Rest, Images, Disks,
           Prepared, NotSaved, Sound, SoundToSave, InShell, Opened, ShellAt,
           MakeAt, Kept, MadeSound, QuitKeepsSound, FormatHeals, MakeFormat,
           FormatAs, NextVersion
  <2> QED
    BY <2>2, <2>3, <2>4, <2>5, <2>6, <2>7, <2>8 DEF WellTyped
<1>18. CASE MakeReopen
  <2>1. image' \in Images(version')
    BY <1>1, <1>18, UpdatedIsImage DEF MakeReopen
  <2>2. mem' \in Disks(version')
    BY <1>1, <1>18, NewlyMade, LoadedIsDisk, <2>1 DEF MakeReopen
  <2>3. start' \in Images(version')
    BY <1>1, <1>18 DEF MakeReopen
  <2>4. Rest'
    BY <1>1, <1>18 DEF WellTyped, Rest, ShellAt, MakeAt, MakeReopen
  <2>5. Clean'
    BY <1>1, <1>18 DEF WellTyped, Rest, Clean, ShellAt, MakeAt, MakeReopen
  <2>6. Prepared'
    BY <1>1, <1>18 DEF WellTyped, Rest, Images, Disks, Prepared, NotSaved,
           Sound, SoundToSave, InShell, Opened, ShellAt, MakeAt, MakeReopen,
           Updated, Loaded, Unloaded
  <2>7. Kept'
    BY <1>1, <1>18 DEF WellTyped, Rest, Images, Disks, Prepared, NotSaved,
           Sound, SoundToSave, InShell, Opened, ShellAt, MakeAt, Kept,
           MadeSound, QuitKeepsSound, FormatHeals, MakeReopen, Updated,
           Loaded, Unloaded
  <2> QED
    BY <2>1, <2>2, <2>3, <2>4, <2>5, <2>6, <2>7 DEF WellTyped
<1>19. CASE MakeRootfs
  <2>1. version' = version + 1
    BY <1>19 DEF MakeRootfs, ChangeAs, NextVersion, MoreVersions
  <2>2. image' \in Images(version')
    BY <1>1, <1>19, <2>1, Growing DEF MakeRootfs, ChangeAs, NextVersion,
           MoreVersions, Images
  <2>3. mem' \in Disks(version')
    BY <1>1, <1>19, <2>1, Growing, Older DEF MakeRootfs, ChangeAs,
           NextVersion, MoreVersions, Disks
  <2>4. start' \in Images(version')
    BY <1>1, <1>19, <2>1, Older DEF MakeRootfs, ChangeAs, NextVersion,
           MoreVersions
  <2>5. Rest'
    BY <1>1, <1>19, <2>1, Growing DEF WellTyped, Rest, ShellAt, MakeAt,
           MakeRootfs, ChangeAs, NextVersion, MoreVersions
  <2>6. Clean'
    BY <1>1, <1>19, <2>1 DEF WellTyped, Rest, Clean, ShellAt, MakeAt,
           MakeRootfs, ChangeAs, NextVersion, MoreVersions
  <2>7. Prepared'
    BY <1>1, <1>19, <2>1, Growing DEF WellTyped, Rest, Images, Disks,
           Prepared, NotSaved, Sound, SoundToSave, InShell, Opened, ShellAt,
           MakeAt, MakeRootfs, ChangeAs, NextVersion, MoreVersions
  <2>8. Kept'
    BY <1>1, <1>19, <2>1, Growing DEF WellTyped, Rest, Images, Disks,
           Prepared, NotSaved, Sound, SoundToSave, InShell, Opened, ShellAt,
           MakeAt, Kept, MadeSound, QuitKeepsSound, FormatHeals, MakeRootfs,
           ChangeAs, NextVersion, MoreVersions
  <2> QED
    BY <2>2, <2>3, <2>4, <2>5, <2>6, <2>7, <2>8 DEF WellTyped
<1>20. CASE MakeEnds
  <2>1. image' \in Images(version')
    BY <1>1, <1>20, UpdatedIsImage DEF MakeEnds, Ending
  <2>2. mem' \in Disks(version')
    BY <1>1, <1>20, NewlyMade DEF MakeEnds, Ending
  <2>3. start' \in Images(version')
    BY <1>1, <1>20 DEF MakeEnds, Ending
  <2>4. Rest'
    BY <1>1, <1>20 DEF WellTyped, Rest, ShellAt, MakeAt, MakeEnds, Ending
  <2>5. Clean'
    BY <1>1, <1>20 DEF WellTyped, Rest, Clean, ShellAt, MakeAt, MakeEnds,
           Ending
  <2>6. Prepared'
    BY <1>1, <1>20 DEF WellTyped, Rest, Images, Disks, Prepared, NotSaved,
           Sound, SoundToSave, InShell, Opened, ShellAt, MakeAt, MakeEnds,
           Updated, Ending, Unloaded
  <2>7. Kept'
    BY <1>1, <1>20 DEF WellTyped, Rest, Images, Disks, Prepared, NotSaved,
           Sound, SoundToSave, InShell, Opened, ShellAt, MakeAt, Kept,
           MadeSound, QuitKeepsSound, FormatHeals, MakeEnds, Updated, Ending,
           Unloaded
  <2> QED
    BY <2>1, <2>2, <2>3, <2>4, <2>5, <2>6, <2>7 DEF WellTyped
<1>21. CASE Alter
  <2>1. image' \in Images(version')
    BY <1>1, <1>21 DEF Alter, Starting, Images
  <2>2. mem' \in Disks(version')
    BY <1>1, <1>21 DEF Alter, Starting
  <2>3. start' \in Images(version')
    BY <1>1, <1>21 DEF Alter, Starting
  <2>4. runs' \in 0 .. MaxRuns
    BY <1>21, StartingCounts DEF Alter, WellTyped, Rest
  <2>5. Rest'
    BY <1>1, <1>21, <2>4 DEF WellTyped, Rest, ShellAt, MakeAt, Alter, Starting
  <2>6. Clean'
    BY <1>1, <1>21 DEF WellTyped, Rest, Clean, ShellAt, MakeAt, Alter,
           Starting
  <2>7. Prepared'
    BY <1>1, <1>21 DEF WellTyped, Rest, Images, Disks, Prepared, NotSaved,
           Sound, SoundToSave, InShell, Opened, ShellAt, MakeAt, Alter,
           Starting
  <2>8. Kept'
    BY <1>1, <1>21 DEF WellTyped, Rest, Images, Disks, Prepared, NotSaved,
           Sound, SoundToSave, InShell, Opened, ShellAt, MakeAt, Kept,
           MadeSound, QuitKeepsSound, FormatHeals, Alter, Starting
  <2> QED
    BY <2>1, <2>2, <2>3, <2>5, <2>6, <2>7, <2>8 DEF WellTyped
<1>22. CASE Killed
  <2>1. image' \in Images(version')
    BY <1>1, <1>22 DEF Killed, Ending
  <2>2. mem' \in Disks(version')
    BY <1>1, <1>22, NewlyMade DEF Killed, Ending
  <2>3. start' \in Images(version')
    BY <1>1, <1>22 DEF Killed, Ending
  <2>4. Rest'
    BY <1>1, <1>22 DEF WellTyped, Rest, ShellAt, MakeAt, Killed, Ending
  <2>5. Clean'
    BY <1>1, <1>22 DEF WellTyped, Rest, Clean, ShellAt, MakeAt, Killed, Ending
  <2>6. Prepared'
    BY <1>1, <1>22 DEF WellTyped, Rest, Images, Disks, Prepared, NotSaved,
           Sound, SoundToSave, InShell, Opened, ShellAt, MakeAt, Killed,
           Ending, Unloaded
  <2>7. Kept'
    BY <1>1, <1>22 DEF WellTyped, Rest, Images, Disks, Prepared, NotSaved,
           Sound, SoundToSave, InShell, Opened, ShellAt, MakeAt, Kept,
           MadeSound, QuitKeepsSound, FormatHeals, Killed, Ending, Unloaded
  <2> QED
    BY <2>1, <2>2, <2>3, <2>4, <2>5, <2>6, <2>7 DEF WellTyped
<1>24. CASE FirstPrompt
  <2>1. image' \in Images(version')
    BY <1>1, <1>24 DEF FirstPrompt, Ending
  <2>2. mem' \in Disks(version')
    BY <1>1, <1>24, NewlyMade DEF FirstPrompt, Ending
  <2>3. start' \in Images(version')
    BY <1>1, <1>24 DEF FirstPrompt, Ending
  <2>4. Rest'
    BY <1>1, <1>24 DEF WellTyped, Rest, ShellAt, MakeAt, FirstPrompt, Ending
  <2>5. Clean'
    BY <1>1, <1>24 DEF WellTyped, Rest, Clean, ShellAt, MakeAt, FirstPrompt,
           Ending
  <2>6. Prepared'
    BY <1>1, <1>24 DEF WellTyped, Rest, Images, Disks, Prepared, NotSaved,
           Sound, SoundToSave, InShell, Opened, ShellAt, MakeAt, FirstPrompt,
           Ending, Unloaded
  <2>7. Kept'
    BY <1>1, <1>24 DEF WellTyped, Rest, Images, Disks, Prepared, NotSaved,
           Sound, SoundToSave, InShell, Opened, ShellAt, MakeAt, Kept,
           MadeSound, QuitKeepsSound, FormatHeals, FirstPrompt, Ending, Unloaded
  <2> QED
    BY <2>1, <2>2, <2>3, <2>4, <2>5, <2>6, <2>7 DEF WellTyped
<1>23. CASE UNCHANGED vars
  BY <1>23, ZenonT(60) DEF vars, WellTyped, Rest, Clean, Prepared, Kept, MadeSound,
       QuitKeepsSound, FormatHeals, NotSaved, Sound, SoundToSave, InShell, Opened
<1> QED
  BY <1>2, <1>3, <1>4, <1>5, <1>6, <1>7, <1>8, <1>9, <1>10, <1>11, <1>12,
           <1>13, <1>14, <1>15, <1>16, <1>17, <1>18, <1>19, <1>20, <1>21,
           <1>22, <1>23, <1>24
     DEF Next, Opening, Shell, Make

-----------------------------------------------------------------------------
THEOREM Invariance == Spec => []IInv
<1>1. IInv /\ [Next]_vars => IInv'
  BY StepPreserves
<1> QED
  BY InitEstablishes, <1>1, PTL DEF Spec

(* Whatever the files found and the ends of the programs, the parts of an  *)
(* image and of the memory are of versions that exist, and no memory       *)
(* outlives its program.                                                   *)
THEOREM TypeCorrect == Spec => []TypeOK
<1>1. IInv => TypeOK
  BY DEF IInv, WellTyped, Rest, Clean, Images, Disks, TypeOK, Versions
<1> QED
  BY Invariance, <1>1, PTL

(* makeimage leaves a sound image whenever it gets to its end.             *)
THEOREM MadeImagesSound == Spec => []MadeSound
<1>1. IInv => MadeSound
  BY DEF IInv, Kept
<1> QED
  BY Invariance, <1>1, PTL

(* A session on a sound image that ends with quit leaves it sound.         *)
THEOREM SessionsKeepSound == Spec => []QuitKeepsSound
<1>1. IInv => QuitKeepsSound
  BY DEF IInv, Kept
<1> QED
  BY Invariance, <1>1, PTL

(* The format command, once saved, repairs any image that opens.           *)
THEOREM FormatRepairs == Spec => []FormatHeals
<1>1. IInv => FormatHeals
  BY DEF IInv, Kept
<1> QED
  BY Invariance, <1>1, PTL

(* A session that is killed or thrown out has saved neither superblock nor *)
(* inodes.                                                                 *)
THEOREM RollsBack == Spec => []UnsavedRollsBack
<1>1. ASSUME IInv, at \in ShellAt \/ ended \in {"bad pipe", "no prompt", "killed"}
      PROVE  NotSaved
  BY <1>1 DEF IInv, Prepared, Kept, InShell
<1>2. ASSUME IInv, NotSaved
      PROVE  image = [start EXCEPT !.size = "right", !.zone = image.zone]
  BY <1>2 DEF IInv, WellTyped, Images, NotSaved
<1>3. ASSUME NotSaved, image.zone = start.zone, Sound(start)
      PROVE  Sound(image)
  BY <1>3 DEF NotSaved, Sound
<1>4. IInv => UnsavedRollsBack
  BY <1>1, <1>2, <1>3 DEF UnsavedRollsBack
<1> QED
  BY Invariance, <1>4, PTL

(* A foreign layout and its inodes survive every session that does not     *)
(* format.                                                                 *)
THEOREM ForeignTreesKept == Spec => []ForeignTreeKept
<1>1. IInv => ForeignTreeKept
  BY DEF IInv, Prepared, Kept, InShell, NotSaved, ForeignTreeKept
<1> QED
  BY Invariance, <1>1, PTL

=============================================================================
