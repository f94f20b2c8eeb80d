------------------------------- MODULE ArgParse -------------------------------
(***************************************************************************)
(* ArgParseRule::accept: one pass over the words of a command line, with a *)
(* rule for each option of what parameter it takes and how often it may    *)
(* appear.  One action per way an iteration of the loop can go.            *)
(*                                                                         *)
(* A word is what the scanner sees of it: whether it begins with a dash,   *)
(* what follows its dashes, and its text without surrounding quotes.  What *)
(* the regular expressions match is a constant.                            *)
(***************************************************************************)
EXTENDS Integers, Sequences

CONSTANTS Options,    \* names of options that have a rule
          Types,      \* single-parameter types, each with its expression
          Matching,    \* the texts the expression of a type matches
          Words,      \* records [dashed, name, text]
          Rules,      \* sets of rules, [Options -> [type, show]]
          MaxWords    \* bound: words of a command line

VARIABLES
  argv,    \* the words behind the program's name
  rule,    \* typerule_ and showrule_
  argi,    \* the word the loop has come to
  result,  \* the map the caller passed: the options seen, with their values
  status   \* "scanning", "accepted" (0), "refused" (-1) or "aborted"

vars == <<argv, rule, argi, result, status>>

Word == argv[argi]
Name == Word.name
Scanning == status = "scanning" /\ argi <= Len(argv)

HasParam == argi < Len(argv) /\ ~argv[argi + 1].dashed

Knows(o) == o \in Options
Given(o) == o \in DOMAIN result
MayLackParam(o) == rule[o].type \in {"free", "opt_only"}

Assign(o, value) ==
  result' = [p \in DOMAIN result \cup {o} |-> IF p = o THEN value ELSE result[p]]

Refuse ==
  /\ status' = "refused"
  /\ UNCHANGED <<argv, rule, argi, result>>

Abort ==
  /\ status' = "aborted"
  /\ UNCHANGED <<argv, rule, argi, result>>

-----------------------------------------------------------------------------
(* The loop.                                                               *)

ExcessParameter == Scanning /\ ~Word.dashed /\ Refuse

(* The loop that strips the dashes asks an empty string for its last       *)
(* character, which is undefined: it ends, or a checking build aborts.     *)
WithoutContent ==
  /\ Scanning /\ Word.dashed
  /\ Name = ""
  /\ Refuse \/ Abort

Unrecognized ==
  /\ Scanning /\ Word.dashed
  /\ Name # "" /\ ~Knows(Name)
  /\ Refuse

Repeats(o) == rule[o].show = "once" /\ Given(o)

Duplicate ==
  /\ Scanning /\ Word.dashed /\ Knows(Name)
  /\ Repeats(Name)
  /\ Refuse

(* The word is an option that may appear here.                             *)
AtOption == Scanning /\ Word.dashed /\ Knows(Name) /\ ~Repeats(Name)

MissingParameter ==
  /\ AtOption
  /\ ~HasParam
  /\ ~MayLackParam(Name)
  /\ Refuse

TakeBare ==
  /\ AtOption
  /\ ~HasParam
  /\ MayLackParam(Name)
  /\ Assign(Name, "")
  /\ argi' = argi + 1
  /\ UNCHANGED <<argv, rule, status>>

Fits(type, text) == type \in Types /\ text \in Matching[type]

(* Quotes alone leave nothing to strip from: as with the dashes.           *)
OnlyQuotes == AtOption /\ HasParam /\ argv[argi + 1].text = "" /\ Abort

BadParameter ==
  /\ AtOption
  /\ HasParam
  /\ ~Fits(rule[Name].type, argv[argi + 1].text)
  /\ Refuse

TakeParam ==
  /\ AtOption
  /\ HasParam
  /\ Fits(rule[Name].type, argv[argi + 1].text)
  /\ Assign(Name, argv[argi + 1].text)
  /\ argi' = argi + 2
  /\ UNCHANGED <<argv, rule, status>>

(* Faulty: the check of the strict options stops short of them.            *)
MissedNever == FALSE

Missed == \E o \in Options : rule[o].show = "strict" /\ ~Given(o)

(* After the loop.                                                         *)
CheckStrict ==
  /\ status = "scanning" /\ argi > Len(argv)
  /\ status' = IF Missed THEN "refused" ELSE "accepted"
  /\ UNCHANGED <<argv, rule, argi, result>>

Init ==
  /\ argv \in UNION {[1 .. n -> Words] : n \in 0 .. MaxWords}
  /\ rule \in Rules
  /\ argi = 1
  /\ result = [o \in {} |-> ""]
  /\ status = "scanning"

Next ==
  \/ ExcessParameter \/ WithoutContent \/ Unrecognized \/ Duplicate
  \/ MissingParameter \/ TakeBare \/ OnlyQuotes \/ BadParameter \/ TakeParam
  \/ CheckStrict

-----------------------------------------------------------------------------
(* What a valid command line is by argparse.hpp 20-58, without a scanner.  *)

Positions == 1 .. Len(argv)
IsOption(k) == argv[k].dashed
TakesNext(k) == k < Len(argv) /\ ~IsOption(k + 1)
Appearances(o) == {k \in Positions : IsOption(k) /\ argv[k].name = o}

(* Each word without a dash belongs to the option before it.               *)
ParamsPlaced == \A k \in Positions : ~IsOption(k) => k > 1 /\ IsOption(k - 1)

(* Each option has a rule, and a parameter where and as its type says.     *)
OptionsTyped ==
  \A k \in Positions : IsOption(k) =>
    /\ Knows(argv[k].name)
    /\ IF TakesNext(k) THEN Fits(rule[argv[k].name].type, argv[k + 1].text)
       ELSE MayLackParam(argv[k].name)

OnceAtMost(shows) ==
  \A o \in Options : rule[o].show \in shows =>
    \A k, l \in Appearances(o) : k = l

StrictPresent == \A o \in Options : rule[o].show = "strict" => Appearances(o) # {}

(* "once" is "allow no more than once", "strict" is "allow once only"      *)
(* (argparse.hpp 55-56).                                                   *)
Valid == ParamsPlaced /\ OptionsTyped /\ OnceAtMost({"once", "strict"}) /\ StrictPresent

(* Not valid, but only for an option of mode strict that appears again.    *)
OnlyRepeatsStrict ==
  /\ ~Valid
  /\ ParamsPlaced /\ OptionsTyped /\ OnceAtMost({"once"}) /\ StrictPresent

ValueAt(k) == IF TakesNext(k) THEN argv[k + 1].text ELSE ""

-----------------------------------------------------------------------------
(* Properties.                                                             *)

(* The single pass (argparse.cpp 53-117) accepts every valid command line  *)
(* and no other, whatever the order of options and however parameters and  *)
(* options touch each other; with one exception: the search for duplicates *)
(* (argparse.cpp 69) leaves out the options of mode strict, so a line that *)
(* only repeats such options is accepted against argparse.hpp 56.          *)
AcceptsValid ==
  /\ status = "accepted" => Valid \/ OnlyRepeatsStrict
  /\ status = "refused" => ~Valid /\ ~OnlyRepeatsStrict

(* What the callers read: each option that appears, with the value of its  *)
(* last appearance (argparse.hpp 50-51), and no other.                     *)
LastWins ==
  status = "accepted" =>
    \A o \in Options :
      /\ Given(o) <=> Appearances(o) # {}
      /\ \A k \in Appearances(o) :
           (\A l \in Appearances(o) : l <= k) => result[o] = ValueAt(k)

=============================================================================
