----------------------------- MODULE TestHarness -----------------------------
(***************************************************************************)
(* The frame of testimage and testvfs: REG_TEST, main, the SIGINT handler  *)
(* and the exit handler.  Tests run on a copy of an image; the copy is     *)
(* made before the first test, renewed after a test that asks for it and   *)
(* removed at the end, unless it is to be kept.                            *)
(*                                                                         *)
(* A test is what it does to the copy and how it ends; SIGINT arrives at   *)
(* any time, removes the copy, and the program goes on.                    *)
(***************************************************************************)
EXTENDS Integers

CONSTANT Tests   \* number of REG_TESTs

VARIABLES
  copy,       \* the copy: "none", "fresh" or "used"
  destroy,    \* __destroy_copy_on_exit
  created,    \* __image_created
  refresh,    \* the third argument of each REG_TEST
  test,       \* the REG_TEST main has come to
  at,         \* where in it: "begin", "run", "refresh", "copy", or "off"
  result,     \* ghost: how the program ended: "none" while it runs
  before,     \* ghost: the copy as the running test found it
  threw       \* ghost: the test before ended with a caught exception

vars == <<copy, destroy, created, refresh, test, at, result, before, threw>>

Test == 1 .. Tests

-----------------------------------------------------------------------------
(* main up to the first REG_TEST.  A copy left by an earlier run goes.     *)
Start ==
  /\ at = "off"
  /\ destroy' \in BOOLEAN
  /\ refresh' \in [Test -> BOOLEAN]
  /\ created' = FALSE
  /\ copy' = "none"
  /\ test' = 1
  /\ at' = "begin"
  /\ result' = "none"
  /\ before' = "none"
  /\ threw' = FALSE

Stays == UNCHANGED <<destroy, refresh>>

(* An exception that REG_TEST does not catch ends the program without the  *)
(* exit handler.                                                           *)
Terminate(why) ==
  /\ at' = "off"
  /\ result' = why
  /\ UNCHANGED <<created, test, before, threw>>
  /\ Stays

(* copy_image for the first test; copy_file does not overwrite.            *)
CopyFirst ==
  /\ at = "begin" /\ test \in Test /\ ~created
  /\ IF copy = "none"
     THEN /\ copy' = "fresh" /\ created' = TRUE
          /\ UNCHANGED <<test, at, result, before, threw>> /\ Stays
     ELSE UNCHANGED copy /\ Terminate("copy exists")

(* The constructor of Disk cannot open the copy: an exception REG_TEST     *)
(* catches; that of FileSystem throws one it does not.                     *)
OpenFails ==
  /\ at = "begin" /\ test \in Test /\ created
  /\ copy = "none"
  /\ UNCHANGED copy
  /\ \/ /\ test' = test + 1
        /\ threw' = TRUE
        /\ UNCHANGED <<at, result, created, before>> /\ Stays
     \/ Terminate("cannot open")

BeginTest ==
  /\ at = "begin" /\ test \in Test /\ created
  /\ copy # "none"
  /\ at' = "run"
  /\ before' = copy
  /\ UNCHANGED <<copy, created, test, result, threw>> /\ Stays

(* The tester returns, or throws; ~Disk has saved to the copy, if it is    *)
(* still there.  Only the first way leads to the refresh.                  *)
EndTest(exception) ==
  /\ at = "run"
  /\ copy' = IF copy = "none" THEN "none" ELSE "used"
  /\ IF refresh[test] /\ ~exception
     THEN at' = "refresh" /\ UNCHANGED test
     ELSE at' = "begin" /\ test' = test + 1
  /\ threw' = exception
  /\ UNCHANGED <<created, result, before>> /\ Stays

(* Another exception: stdin at its end.                                    *)
TestDies ==
  /\ at = "run"
  /\ copy' = IF copy = "none" THEN "none" ELSE "used"
  /\ Terminate("test died")

(* refresh_image: destroy_image, then copy_image.                          *)
RefreshDestroy ==
  /\ at = "refresh"
  /\ copy' = "none"
  /\ at' = "copy"
  /\ UNCHANGED <<created, test, result, before, threw>> /\ Stays

RefreshCopy ==
  /\ at = "copy"
  /\ IF copy = "none"
     THEN /\ copy' = "fresh" /\ at' = "begin" /\ test' = test + 1
          /\ UNCHANGED <<created, result, before, threw>> /\ Stays
     ELSE UNCHANGED copy /\ Terminate("copy exists")

(* main returns: exit_handler.                                             *)
Return ==
  /\ at = "begin" /\ test \notin Test
  /\ copy' = IF destroy THEN "none" ELSE copy
  /\ Terminate("returned")

(* interrupt_handler removes the copy and returns.  The file a test has    *)
(* open lives on without its name.                                         *)
Interrupt ==
  /\ at # "off"
  /\ copy' = IF destroy THEN "none" ELSE copy
  /\ UNCHANGED <<destroy, created, refresh, test, at, result, before, threw>>

Init ==
  /\ copy = "none"
  /\ destroy = FALSE
  /\ created = FALSE
  /\ refresh = [t \in Test |-> FALSE]
  /\ test = 1
  /\ at = "off"
  /\ result = "none"
  /\ before = "none"
  /\ threw = FALSE

Next ==
  \/ Start \/ CopyFirst \/ OpenFails \/ BeginTest
  \/ \E exception \in BOOLEAN : EndTest(exception)
  \/ TestDies \/ RefreshDestroy \/ RefreshCopy \/ Return \/ Interrupt

Spec == Init /\ [][Next]_vars

-----------------------------------------------------------------------------
(* Properties.                                                             *)

(* No way through the program meets a copy where it is about to make one:  *)
(* copy_file would throw, and nothing catches that.                        *)
CopyNeverInTheWay == result # "copy exists"

(* When main returns, the copy is gone or kept as the option says; it is   *)
(* kept only if no interrupt took it, and if there was a test to make it.  *)
CopyGoneOrKept ==
  result = "returned" =>
    /\ destroy => copy = "none"
    /\ ~destroy /\ Tests > 0 => copy # "none"

(* The first test of every run, whatever earlier runs and interrupts left, *)
(* and every test after one that returned and was refreshed, starts on the *)
(* original's contents.                                                    *)
RefreshedStartFresh ==
  at = "run" /\ (test = 1 \/ (refresh[test - 1] /\ ~threw)) => before = "fresh"
=============================================================================
