-------------------------- MODULE MakeImageProofs ---------------------------
(***************************************************************************)
(* Proofs about MakeImage, for any command line and rules, and for any     *)
(* directory of the host, in whatever order its entries are yielded: as    *)
(* long as the build does not come to the inode of the root, which         *)
(* alloc_inode hands out after about a hundred others.                     *)
(*                                                                         *)
(* Argument.  While the line is scanned, Parsing: the words passed by are  *)
(* as a valid line demands, repeated options of mode strict apart, each    *)
(* result is the value of the last option that was passed, and the word    *)
(* the scanner has come to is not the parameter of the option before.  So  *)
(* a refused word makes the line invalid for another reason than those     *)
(* repetitions, and a line passed by whole is Acceptable: it has no other  *)
(* fault.                                                                  *)
(*                                                                         *)
(* While the image is built, BuildInv: the root was handed out, and no     *)
(* command is followed any more, or the walk is Going.  Then the disk is   *)
(* Tidy (VfsProofs) and the working directory the root, so that the absolute path of an entry   *)
(* leads along the trail of its names.  The running calls of trav_local    *)
(* hold sets of entries of which none lies below another; an entry is      *)
(* Pending when it is in one of them or below a member.  As long as no     *)
(* directory has lost its block, the disk is Settled: an entry that is not *)
(* Pending is on the disk or failed for a reason, and one that is Pending  *)
(* is not there yet.  The latter is what makes a command succeed for every *)
(* entry that has no reason to fail, and the parent of an entry is yielded *)
(* before it.  Outcome says what one command may do to the tree of names.  *)
(***************************************************************************)
EXTENDS MakeImage, VfsProofs

-----------------------------------------------------------------------------
(* The command line.  What the scanner has passed is as a valid line       *)
(* demands, and the word it has come to does not belong to the option      *)
(* before it.                                                              *)

Passed(k) == k \in Parser!Positions /\ k < argi

LineTyped ==
  /\ argv \in Seq(Words) /\ rule \in Rules
  /\ argi \in Nat /\ argi >= 1 /\ argi <= Len(argv) + 1

PassedPlaced == \A k : Passed(k) /\ ~Parser!IsOption(k) => k > 1 /\ Parser!IsOption(k - 1)

PassedTyped ==
  \A k : Passed(k) /\ Parser!IsOption(k) =>
    /\ argv[k].name \in Options
    /\ IF Parser!TakesNext(k) THEN Parser!Fits(rule[argv[k].name].type, argv[k + 1].text)
       ELSE Parser!MayLackParam(argv[k].name)

PassedOnce ==
  \A o \in Options : rule[o].show = "once" =>
    \A k, l \in Parser!Appearances(o) : Passed(k) /\ Passed(l) => k = l

(* result has the options passed, each with its last value so far.         *)
PassedRead ==
  \A o \in Options :
    /\ Parser!Given(o) <=> \E k \in Parser!Appearances(o) : Passed(k)
    /\ \A k \in Parser!Appearances(o) :
         Passed(k) /\ (\A l \in Parser!Appearances(o) : Passed(l) => l <= k)
           => result[o] = Parser!ValueAt(k)

NotTaken == \A k : Passed(k) /\ Parser!IsOption(k) /\ k + 1 = argi => ~Parser!TakesNext(k)

Scanned == PassedPlaced /\ PassedTyped /\ PassedOnce /\ PassedRead /\ NotTaken

(* Valid, or but for the options of mode strict that appear again.         *)
Acceptable ==
  /\ Parser!ParamsPlaced /\ Parser!OptionsTyped
  /\ Parser!OnceAtMost({"once"}) /\ Parser!StrictPresent

Sorted == (status = "accepted" => Acceptable) /\ (status = "refused" => ~Acceptable)

Parsing ==
  /\ LineTyped
  /\ status \in {"scanning", "accepted", "refused", "aborted"}
  /\ status = "scanning" => Scanned
  /\ Sorted /\ Parser!LastWins

LEMMA PositionsAre ==
  ASSUME LineTyped
  PROVE  /\ Len(argv) \in Nat /\ argi \in Nat
         /\ \A k : k \in Parser!Positions <=> k \in Nat /\ k >= 1 /\ k <= Len(argv)
         /\ argi \in Parser!Positions <=> argi <= Len(argv)
         /\ \A k : Passed(k) <=> k \in Nat /\ k >= 1 /\ k < argi
BY DEF LineTyped, Passed, Parser!Positions

LEMMA ParserInit == Parser!Init => Parsing
<1> SUFFICES ASSUME Parser!Init PROVE Parsing
  OBVIOUS
<1>1. PICK n \in 0 .. MaxWords : argv \in [1 .. n -> Words]
  BY DEF Parser!Init
<1>2. /\ argi = 1 /\ status = "scanning" /\ rule \in Rules
      /\ result = [o \in {} |-> ""]
  BY DEF Parser!Init
<1>3. LineTyped
  <2>1. n \in Nat
    OBVIOUS
  <2>2. argv \in Seq(Words) /\ Len(argv) = n
    BY <1>1, <2>1
  <2> QED BY <1>2, <2>1, <2>2 DEF LineTyped
<1>4. \A k : ~Passed(k)
  BY <1>2, <1>3, PositionsAre
<1>5. \A o : ~Parser!Given(o)
  BY <1>2 DEF Parser!Given
<1>6. Scanned
  BY <1>4, <1>5 DEF Scanned, PassedPlaced, PassedTyped, PassedOnce, PassedRead, NotTaken
<1> QED BY <1>2, <1>3, <1>6 DEF Parsing, Sorted, Parser!LastWins

(* A word that a valid line cannot have where the scanner is.              *)
LEMMA BadWords ==
  ASSUME LineTyped, Scanned, Parser!Scanning
  PROVE  /\ ~Parser!Word.dashed => ~Parser!ParamsPlaced
         /\ Parser!Word.dashed /\ ~Parser!Knows(Parser!Name) => ~Parser!OptionsTyped
         /\ Parser!Word.dashed /\ Parser!Knows(Parser!Name) /\ Parser!Repeats(Parser!Name)
              => ~Parser!OnceAtMost({"once"})
         /\ Parser!AtOption /\ ~Parser!HasParam /\ ~Parser!MayLackParam(Parser!Name)
              => ~Parser!OptionsTyped
         /\ Parser!AtOption /\ Parser!HasParam
            /\ ~Parser!Fits(rule[Parser!Name].type, argv[argi + 1].text)
              => ~Parser!OptionsTyped
<1>1. /\ Len(argv) \in Nat /\ argi \in Nat /\ argi \in Parser!Positions
      /\ \A k : k \in Parser!Positions <=> k \in Nat /\ k >= 1 /\ k <= Len(argv)
      /\ \A k : Passed(k) <=> k \in Nat /\ k >= 1 /\ k < argi
  BY PositionsAre DEF Parser!Scanning
<1>2. /\ Parser!Word.dashed <=> Parser!IsOption(argi)
      /\ Parser!Name = argv[argi].name
  BY DEF Parser!Word, Parser!Name, Parser!IsOption
<1>3. Parser!HasParam <=> Parser!TakesNext(argi)
  BY DEF Parser!HasParam, Parser!TakesNext, Parser!IsOption
<1>4. ~Parser!Word.dashed => ~Parser!ParamsPlaced
  <2> SUFFICES ASSUME ~Parser!IsOption(argi), Parser!ParamsPlaced PROVE FALSE
    BY <1>2
  <2>1. argi > 1 /\ Parser!IsOption(argi - 1)
    BY <1>1 DEF Parser!ParamsPlaced
  <2>2. Passed(argi - 1) /\ (argi - 1) + 1 = argi /\ argi - 1 < Len(argv)
    BY <1>1, <2>1
  <2>3. ~Parser!TakesNext(argi - 1)
    BY <2>1, <2>2 DEF Scanned, NotTaken
  <2> QED BY <2>2, <2>3 DEF Parser!TakesNext
<1>5. Parser!Word.dashed /\ ~Parser!Knows(Parser!Name) => ~Parser!OptionsTyped
  BY <1>1, <1>2 DEF Parser!OptionsTyped
<1>6. ASSUME Parser!Word.dashed, Parser!Knows(Parser!Name), Parser!Repeats(Parser!Name)
      PROVE  ~Parser!OnceAtMost({"once"})
  <2> DEFINE o == Parser!Name
  <2>1. o \in Options /\ rule[o].show = "once" /\ Parser!Given(o)
    BY <1>6 DEF Parser!Repeats, Parser!Knows
  <2>2. PICK k \in Parser!Appearances(o) : Passed(k)
    BY <2>1 DEF Scanned, PassedRead
  <2>3. argi \in Parser!Appearances(o)
    BY <1>1, <1>2, <1>6 DEF Parser!Appearances
  <2>4. k # argi
    BY <1>1, <2>2
  <2> HIDE DEF o
  <2> QED BY <2>1, <2>2, <2>3, <2>4 DEF Parser!OnceAtMost
<1>7. Parser!AtOption /\ ~Parser!HasParam /\ ~Parser!MayLackParam(Parser!Name)
        => ~Parser!OptionsTyped
  BY <1>1, <1>2, <1>3 DEF Parser!OptionsTyped, Parser!AtOption
<1>8. Parser!AtOption /\ Parser!HasParam
        /\ ~Parser!Fits(rule[Parser!Name].type, argv[argi + 1].text)
      => ~Parser!OptionsTyped
  BY <1>1, <1>2, <1>3 DEF Parser!OptionsTyped, Parser!AtOption
<1> QED BY <1>4, <1>5, <1>6, <1>7, <1>8

(* At the end the line is valid, but for strict options that are missing.  *)
LEMMA AllPassed ==
  ASSUME LineTyped, Scanned, argi > Len(argv)
  PROVE  /\ Parser!ParamsPlaced /\ Parser!OptionsTyped /\ Parser!OnceAtMost({"once"})
         /\ Parser!StrictPresent <=> ~Parser!Missed
         /\ \A o \in Options :
              /\ Parser!Given(o) <=> Parser!Appearances(o) # {}
              /\ \A k \in Parser!Appearances(o) :
                   (\A l \in Parser!Appearances(o) : l <= k) => result[o] = Parser!ValueAt(k)
<1>1. \A k : k \in Parser!Positions <=> Passed(k)
  BY PositionsAre DEF LineTyped
<1>2. \A o : \A k \in Parser!Appearances(o) : Passed(k)
  BY <1>1 DEF Parser!Appearances
<1>3. Parser!ParamsPlaced
  BY <1>1 DEF Scanned, PassedPlaced, Parser!ParamsPlaced
<1>4. Parser!OptionsTyped
  BY <1>1 DEF Scanned, PassedTyped, Parser!OptionsTyped, Parser!Knows
<1>5. Parser!OnceAtMost({"once"})
  BY <1>2 DEF Scanned, PassedOnce, Parser!OnceAtMost
<1>6. \A o \in Options :
        /\ Parser!Given(o) <=> Parser!Appearances(o) # {}
        /\ \A k \in Parser!Appearances(o) :
             (\A l \in Parser!Appearances(o) : l <= k) => result[o] = Parser!ValueAt(k)
  BY <1>2 DEF Scanned, PassedRead
<1>7. Parser!StrictPresent <=> ~Parser!Missed
  BY <1>6 DEF Parser!StrictPresent, Parser!Missed
<1> QED BY <1>3, <1>4, <1>5, <1>6, <1>7

(* What is said of the line only depends on the line.                      *)
LEMMA SameWords ==
  ASSUME argv' = argv, rule' = rule
  PROVE  /\ Parser!Positions' = Parser!Positions
         /\ \A k : Parser!IsOption(k)' <=> Parser!IsOption(k)
         /\ \A k : Parser!TakesNext(k)' <=> Parser!TakesNext(k)
         /\ \A p : Parser!Appearances(p)' = Parser!Appearances(p)
         /\ \A k : Parser!ValueAt(k)' = Parser!ValueAt(k)
         /\ \A p : Parser!MayLackParam(p)' <=> Parser!MayLackParam(p)
         /\ Acceptable' <=> Acceptable
<1>1. Parser!Positions' = Parser!Positions
  BY DEF Parser!Positions
<1>2. \A k : Parser!IsOption(k)' <=> Parser!IsOption(k)
  BY DEF Parser!IsOption
<1>3. \A k : Parser!TakesNext(k)' <=> Parser!TakesNext(k)
  BY DEF Parser!IsOption, Parser!TakesNext
<1>4. \A p : Parser!Appearances(p)' = Parser!Appearances(p)
  BY DEF Parser!IsOption, Parser!Positions, Parser!Appearances
<1>5. \A k : Parser!ValueAt(k)' = Parser!ValueAt(k)
  BY DEF Parser!IsOption, Parser!TakesNext, Parser!ValueAt
<1>6. \A p : Parser!MayLackParam(p)' <=> Parser!MayLackParam(p)
  BY DEF Parser!MayLackParam
<1>7. Acceptable' <=> Acceptable
  BY DEF Acceptable, Parser!ParamsPlaced, Parser!OptionsTyped, Parser!OnceAtMost,
         Parser!StrictPresent, Parser!Positions, Parser!IsOption, Parser!TakesNext,
         Parser!Appearances, Parser!MayLackParam, Parser!Fits, Parser!Knows
<1> QED BY <1>1, <1>2, <1>3, <1>4, <1>5, <1>6, <1>7

(* An option is taken, without a parameter or with the next word.          *)
LEMMA TakeStep ==
  ASSUME LineTyped, Scanned, Parser!AtOption,
         NEW n, n \in {1, 2}, Parser!HasParam => n = 2, n = 2 => Parser!HasParam,
         IF Parser!HasParam THEN Parser!Fits(rule[Parser!Name].type, argv[argi + 1].text)
                            ELSE Parser!MayLackParam(Parser!Name),
         Parser!Assign(Parser!Name, Parser!ValueAt(argi)),
         argi' = argi + n, UNCHANGED <<argv, rule>>
  PROVE  LineTyped' /\ Scanned'
<1> DEFINE o == Parser!Name
<1>1. /\ Len(argv) \in Nat /\ argi \in Nat /\ argi >= 1 /\ argi <= Len(argv)
      /\ argi \in Parser!Positions
      /\ \A k : k \in Parser!Positions <=> k \in Nat /\ k >= 1 /\ k <= Len(argv)
      /\ \A k : Passed(k) <=> k \in Nat /\ k >= 1 /\ k < argi
  BY PositionsAre DEF Parser!AtOption, Parser!Scanning, LineTyped
<1>2. /\ Parser!IsOption(argi) /\ o = argv[argi].name /\ o \in Options
      /\ ~(rule[o].show = "once" /\ Parser!Given(o))
  BY DEF Parser!AtOption, Parser!Word, Parser!Name, Parser!IsOption, Parser!Knows, Parser!Repeats
<1>3. n = 2 <=> Parser!TakesNext(argi)
  BY DEF Parser!HasParam, Parser!TakesNext, Parser!IsOption
<1>4. n = 2 => argi + 1 <= Len(argv) /\ ~Parser!IsOption(argi + 1)
  BY <1>1, <1>3 DEF Parser!TakesNext
<1>5. n \in Nat /\ (n = 1 \/ n = 2)
  OBVIOUS
<1> HIDE DEF o
<1>6. LineTyped'
  <2>1. argi' \in Nat /\ argi' >= 1 /\ argi' <= Len(argv) + 1
    BY <1>1, <1>4, <1>5
  <2> QED BY <2>1 DEF LineTyped
<1>7. /\ Parser!Positions' = Parser!Positions
      /\ \A k : Parser!IsOption(k)' <=> Parser!IsOption(k)
      /\ \A k : Parser!TakesNext(k)' <=> Parser!TakesNext(k)
      /\ \A p : Parser!Appearances(p)' = Parser!Appearances(p)
      /\ \A k : Parser!ValueAt(k)' = Parser!ValueAt(k)
      /\ \A p : Parser!MayLackParam(p)' <=> Parser!MayLackParam(p)
      /\ \A p : Parser!Given(p)' <=> Parser!Given(p) \/ p = o
      /\ argv' = argv /\ rule' = rule
      /\ result' = [p \in DOMAIN result \cup {o} |-> IF p = o THEN Parser!ValueAt(argi) ELSE result[p]]
  <2>1. argv' = argv /\ rule' = rule
    OBVIOUS
  <2>2. result' = [p \in DOMAIN result \cup {o} |-> IF p = o THEN Parser!ValueAt(argi) ELSE result[p]]
    BY DEF Parser!Assign, o
  <2>3. \A p : Parser!Given(p)' <=> Parser!Given(p) \/ p = o
    BY <2>2 DEF Parser!Given
  <2> QED BY <2>1, <2>2, <2>3, SameWords
<1>8. \A k : Passed(k)' <=> k \in Nat /\ k >= 1 /\ k < argi + n
  <2>1. (LineTyped => \A k : Passed(k) <=> k \in Nat /\ k >= 1 /\ k < argi)'
    BY PositionsAre, PTL
  <2> QED BY <1>6, <2>1
<1>9. \A k : Passed(k)' <=> Passed(k) \/ k = argi \/ (n = 2 /\ k = argi + 1)
  BY <1>1, <1>5, <1>8
<1>10. \A k \in Parser!Positions : Parser!IsOption(k) /\ Passed(k)' => Passed(k) \/ k = argi
  BY <1>4, <1>9
<1>11. PassedPlaced'
  <2> SUFFICES ASSUME NEW k, Passed(k)', ~Parser!IsOption(k) PROVE k > 1 /\ Parser!IsOption(k - 1)
    BY <1>7 DEF PassedPlaced
  <2>1. CASE Passed(k)
    BY <2>1 DEF Scanned, PassedPlaced
  <2>2. CASE n = 2 /\ k = argi + 1
    <3>1. k - 1 = argi /\ k > 1
      BY <1>1, <2>2
    <3> QED BY <1>2, <3>1
  <2> QED BY <1>2, <1>9, <2>1, <2>2
<1>12. PassedTyped'
  <2> SUFFICES ASSUME NEW k, Passed(k)', Parser!IsOption(k)
               PROVE  /\ argv[k].name \in Options
                      /\ IF Parser!TakesNext(k)
                         THEN Parser!Fits(rule[argv[k].name].type, argv[k + 1].text)
                         ELSE Parser!MayLackParam(argv[k].name)
    BY <1>7 DEF PassedTyped, Parser!Fits
  <2>1. CASE Passed(k)
    BY <2>1 DEF Scanned, PassedTyped
  <2>2. CASE k = argi
    BY <1>2, <1>3, <2>2 DEF o
  <2> QED BY <1>4, <1>9, <2>1, <2>2
<1>13. \A p : \A k \in Parser!Appearances(p) :
         /\ Passed(k)' => Passed(k) \/ k = argi
         /\ k = argi => p = o
  BY <1>2, <1>10 DEF Parser!Appearances
<1>14. PICK here : here = argi /\ here \in Parser!Appearances(o) /\ Passed(here)' /\ ~Passed(here)
  <2>1. PICK here : here = argi
    OBVIOUS
  <2>2. here \in Parser!Appearances(o)
    BY <1>1, <1>2, <2>1 DEF Parser!Appearances
  <2>3. Passed(here)' /\ ~Passed(here)
    BY <1>1, <1>9, <2>1
  <2> QED BY <2>1, <2>2, <2>3
<1>15. PassedOnce'
  <2> SUFFICES ASSUME NEW p \in Options, rule[p].show = "once",
                      NEW k \in Parser!Appearances(p), NEW l \in Parser!Appearances(p),
                      Passed(k)', Passed(l)'
               PROVE  k = l
    BY <1>7 DEF PassedOnce
  <2>1. CASE p = o
    <3>1. ~Parser!Given(o)
      BY <1>2, <2>1
    <3>2. ~Passed(k) /\ ~Passed(l)
      BY <1>2, <2>1, <3>1 DEF Scanned, PassedRead
    <3> QED BY <1>13, <3>2
  <2>2. CASE p # o
    <3>1. Passed(k) /\ Passed(l)
      BY <1>13, <2>2
    <3> QED BY <3>1 DEF Scanned, PassedOnce
  <2> QED BY <2>1, <2>2
<1>16. PassedRead'
  <2> SUFFICES ASSUME NEW p \in Options
               PROVE  /\ Parser!Given(p)' <=> \E k \in Parser!Appearances(p) : Passed(k)'
                      /\ \A k \in Parser!Appearances(p) :
                           Passed(k)' /\ (\A l \in Parser!Appearances(p) : Passed(l)' => l <= k)
                             => result'[p] = Parser!ValueAt(k)
    BY <1>7 DEF PassedRead
  <2>1. Parser!Given(p)' <=> \E k \in Parser!Appearances(p) : Passed(k)'
    <3>1. Parser!Given(p) <=> \E k \in Parser!Appearances(p) : Passed(k)
      BY DEF Scanned, PassedRead
    <3> QED BY <1>7, <1>9, <1>13, <1>14, <3>1
  <2>2. ASSUME NEW k \in Parser!Appearances(p), Passed(k)',
               \A l \in Parser!Appearances(p) : Passed(l)' => l <= k
        PROVE  result'[p] = Parser!ValueAt(k)
    <3>1. CASE p = o
      <4>1. argi <= k
        BY <1>14, <2>2, <3>1
      <4>2. k = argi
        BY <1>1, <1>13, <2>2, <4>1
      <4> QED BY <1>7, <3>1, <4>2
    <3>2. CASE p # o
      <4>1. \A l \in Parser!Appearances(p) : Passed(l)' <=> Passed(l)
        BY <1>9, <1>13, <3>2
      <4>2. Passed(k) /\ \A l \in Parser!Appearances(p) : Passed(l) => l <= k
        BY <2>2, <4>1
      <4>3. result[p] = Parser!ValueAt(k) /\ Parser!Given(p)
        BY <4>2 DEF Scanned, PassedRead
      <4>4. p \in DOMAIN result
        BY <4>3 DEF Parser!Given
      <4> QED BY <1>7, <3>2, <4>3, <4>4
    <3> QED BY <3>1, <3>2
  <2> QED BY <2>1, <2>2
<1>17. NotTaken'
  <2> SUFFICES ASSUME NEW k, Passed(k)', Parser!IsOption(k), k + 1 = argi + n
               PROVE  ~Parser!TakesNext(k)
    BY <1>7 DEF NotTaken
  <2>1. k \in Nat
    BY <1>8
  <2>2. k = argi + n - 1
    BY <1>1, <1>5, <2>1
  <2>3. n = 1 /\ k = argi
    BY <1>1, <1>4, <1>5, <2>2
  <2> QED BY <1>3, <2>3
<1> QED BY <1>6, <1>11, <1>12, <1>15, <1>16, <1>17 DEF Scanned

(* The word is no option, or one that may not stand here: the line is      *)
(* not Acceptable.                                                         *)
LEMMA RefuseStep ==
  ASSUME Parsing, Parser!Refuse, status = "scanning", ~Acceptable
  PROVE  Parsing'
<1>1. LineTyped' /\ status' = "refused" /\ argv' = argv /\ rule' = rule
  BY DEF Parser!Refuse, Parsing, LineTyped
<1>2. Acceptable' <=> Acceptable
  BY <1>1, SameWords
<1> QED BY <1>1, <1>2 DEF Parsing, Sorted, Parser!LastWins

LEMMA AbortStep ==
  ASSUME Parsing, Parser!Abort
  PROVE  Parsing'
<1>1. LineTyped' /\ status' = "aborted"
  BY DEF Parser!Abort, Parsing, LineTyped
<1> QED BY <1>1 DEF Parsing, Sorted, Parser!LastWins

LEMMA SameParsing ==
  ASSUME Parsing, UNCHANGED parsing
  PROVE  Parsing'
<1>1. argv' = argv /\ rule' = rule /\ argi' = argi /\ result' = result /\ status' = status
  BY DEF parsing
<1>2. \A k : Passed(k)' <=> Passed(k)
  BY <1>1 DEF Passed, Parser!Positions
<1>3. \A p : Parser!Given(p)' <=> Parser!Given(p)
  BY <1>1 DEF Parser!Given
<1>4. LineTyped' /\ status' \in {"scanning", "accepted", "refused", "aborted"}
  BY <1>1 DEF Parsing, LineTyped
<1>5. ASSUME status = "scanning" PROVE Scanned'
  <2>1. Scanned
    BY <1>5 DEF Parsing
  <2>2. PassedPlaced'
    BY <1>1, <1>2, <2>1, SameWords DEF Scanned, PassedPlaced
  <2>3. PassedTyped'
    BY <1>1, <1>2, <2>1, SameWords DEF Scanned, PassedTyped, Parser!Fits
  <2>4. PassedOnce'
    BY <1>1, <1>2, <2>1, SameWords DEF Scanned, PassedOnce
  <2>5. PassedRead'
    BY <1>1, <1>2, <1>3, <2>1, SameWords DEF Scanned, PassedRead
  <2>6. NotTaken'
    BY <1>1, <1>2, <2>1, SameWords DEF Scanned, NotTaken
  <2> QED BY <2>2, <2>3, <2>4, <2>5, <2>6 DEF Scanned
<1>6. Sorted' /\ Parser!LastWins'
  BY <1>1, <1>3, SameWords DEF Parsing, Sorted, Parser!LastWins
<1> QED BY <1>1, <1>4, <1>5, <1>6 DEF Parsing

LEMMA OptionsNamed == "" \notin Options /\ "free" \in Types /\ "opt_only" \notin Types
BY WordAssumption

LEMMA ParserStep ==
  ASSUME Parsing, Parser!Next
  PROVE  Parsing'
<1>1. LineTyped
  BY DEF Parsing
<1>2. ASSUME status = "scanning" PROVE Scanned
  BY <1>2 DEF Parsing
<1>3. CASE Parser!ExcessParameter
  <2>1. Parser!Scanning /\ ~Parser!Word.dashed /\ Parser!Refuse /\ status = "scanning"
    BY <1>3 DEF Parser!ExcessParameter, Parser!Scanning
  <2>2. ~Acceptable
    BY <1>1, <1>2, <2>1, BadWords DEF Acceptable
  <2> QED BY <2>1, <2>2, RefuseStep
<1>4. CASE Parser!WithoutContent \/ Parser!Unrecognized
  <2>1. /\ Parser!Scanning /\ Parser!Word.dashed /\ status = "scanning"
        /\ ~Parser!Knows(Parser!Name) /\ (Parser!Refuse \/ Parser!Abort)
    BY <1>4, OptionsNamed
       DEF Parser!WithoutContent, Parser!Unrecognized, Parser!Scanning, Parser!Knows
  <2>2. ~Acceptable
    BY <1>1, <1>2, <2>1, BadWords DEF Acceptable
  <2> QED BY <2>1, <2>2, RefuseStep, AbortStep
<1>5. CASE Parser!Duplicate
  <2>1. /\ Parser!Scanning /\ Parser!Word.dashed /\ status = "scanning" /\ Parser!Refuse
        /\ Parser!Knows(Parser!Name) /\ Parser!Repeats(Parser!Name)
    BY <1>5 DEF Parser!Duplicate, Parser!Scanning
  <2>2. ~Acceptable
    BY <1>1, <1>2, <2>1, BadWords DEF Acceptable
  <2> QED BY <2>1, <2>2, RefuseStep
<1>6. CASE Parser!MissingParameter \/ Parser!BadParameter
  <2>1. /\ Parser!AtOption /\ Parser!Scanning /\ status = "scanning" /\ Parser!Refuse
        /\ \/ ~Parser!HasParam /\ ~Parser!MayLackParam(Parser!Name)
           \/ Parser!HasParam /\ ~Parser!Fits(rule[Parser!Name].type, argv[argi + 1].text)
    BY <1>6 DEF Parser!MissingParameter, Parser!BadParameter, Parser!AtOption, Parser!Scanning
  <2>2. ~Acceptable
    BY <1>1, <1>2, <2>1, BadWords DEF Acceptable
  <2> QED BY <2>1, <2>2, RefuseStep
<1>7. CASE Parser!TakeBare
  <2>1. /\ Parser!AtOption /\ status = "scanning" /\ ~Parser!HasParam
        /\ Parser!MayLackParam(Parser!Name) /\ Parser!Assign(Parser!Name, "")
        /\ argi' = argi + 1 /\ UNCHANGED <<argv, rule>> /\ status' = "scanning"
    BY <1>7 DEF Parser!TakeBare, Parser!AtOption, Parser!Scanning
  <2>2. Parser!ValueAt(argi) = ""
    BY <2>1 DEF Parser!ValueAt, Parser!TakesNext, Parser!HasParam, Parser!IsOption
  <2>3. Parser!Assign(Parser!Name, Parser!ValueAt(argi))
    BY <2>1, <2>2
  <2>4. 1 \in {1, 2} /\ 1 # 2
    OBVIOUS
  <2>5. LineTyped' /\ Scanned'
    BY <1>1, <1>2, <2>1, <2>3, <2>4, TakeStep
  <2> QED BY <2>1, <2>5 DEF Parsing, Sorted, Parser!LastWins
<1>8. CASE Parser!TakeParam
  <2>1. /\ Parser!AtOption /\ status = "scanning" /\ Parser!HasParam
        /\ Parser!Fits(rule[Parser!Name].type, argv[argi + 1].text)
        /\ Parser!Assign(Parser!Name, argv[argi + 1].text)
        /\ argi' = argi + 2 /\ UNCHANGED <<argv, rule>> /\ status' = "scanning"
    BY <1>8 DEF Parser!TakeParam, Parser!AtOption, Parser!Scanning
  <2>2. Parser!ValueAt(argi) = argv[argi + 1].text
    BY <2>1 DEF Parser!ValueAt, Parser!TakesNext, Parser!HasParam, Parser!IsOption
  <2>3. Parser!Assign(Parser!Name, Parser!ValueAt(argi))
    BY <2>1, <2>2
  <2>4. 2 \in {1, 2}
    OBVIOUS
  <2>5. LineTyped' /\ Scanned'
    BY <1>1, <1>2, <2>1, <2>3, <2>4, TakeStep
  <2> QED BY <2>1, <2>5 DEF Parsing, Sorted, Parser!LastWins
<1>9. CASE Parser!OnlyQuotes
  BY <1>9, AbortStep DEF Parser!OnlyQuotes
<1>10. CASE Parser!CheckStrict
  <2>1. /\ status = "scanning" /\ argi > Len(argv)
        /\ status' = IF Parser!Missed THEN "refused" ELSE "accepted"
        /\ argv' = argv /\ rule' = rule /\ argi' = argi /\ result' = result
    BY <1>10 DEF Parser!CheckStrict
  <2>2. /\ Acceptable <=> ~Parser!Missed
        /\ \A o \in Options :
              /\ Parser!Given(o) <=> Parser!Appearances(o) # {}
              /\ \A k \in Parser!Appearances(o) :
                   (\A l \in Parser!Appearances(o) : l <= k) => result[o] = Parser!ValueAt(k)
    BY <1>1, <1>2, <2>1, AllPassed DEF Acceptable
  <2>3. Acceptable' <=> Acceptable
    BY <2>1, SameWords
  <2>4. LineTyped' /\ status' \in {"accepted", "refused"}
    BY <1>1, <2>1 DEF LineTyped
  <2>5. Sorted'
    BY <2>1, <2>2, <2>3 DEF Sorted
  <2>6. Parser!LastWins'
    BY <2>1, <2>2, SameWords DEF Parser!LastWins, Parser!Given
  <2> QED BY <2>4, <2>5, <2>6 DEF Parsing
<1> QED BY <1>3, <1>4, <1>5, <1>6, <1>7, <1>8, <1>9, <1>10 DEF Parser!Next

LineSound == stage = "parsing" => Parsing

LEMMA AcceptableIs == Acceptable <=> Parser!Valid \/ Parser!OnlyRepeatsStrict
<1>1. Parser!OnceAtMost({"once", "strict"}) => Parser!OnceAtMost({"once"})
  BY DEF Parser!OnceAtMost
<1> QED BY <1>1 DEF Acceptable, Parser!Valid, Parser!OnlyRepeatsStrict

(* accept accepts exactly the command lines that are valid by argparse.hpp *)
(* and those that differ from a valid one only in that a strict option     *)
(* appears again (argparse.cpp 69), and returns each option with the value *)
(* of its last appearance: for any options, rules and words and lines of   *)
(* any length.                                                             *)
THEOREM LinesSorted == MakeSpec => []AcceptsValid
<1>1. MakeInit => LineSound
  BY ParserInit DEF MakeInit, LineSound
<1>2. LineSound /\ [MakeNext]_allVars => LineSound'
  <2> SUFFICES ASSUME LineSound, [MakeNext]_allVars, stage' = "parsing" PROVE Parsing'
    BY DEF LineSound
  <2>1. CASE Parse
    BY <2>1, ParserStep DEF Parse, LineSound
  <2>2. CASE ~Parse
    <3>1. stage = "parsing" /\ UNCHANGED parsing
      BY <2>2 DEF MakeNext, ParseEnds, Build, UploadEntry, EnterFolder, Return, Leave, Finished,
                  Over, Yield, allVars
    <3>2. Parsing
      BY <3>1 DEF LineSound
    <3> QED BY <3>1, <3>2, SameParsing
  <2> QED BY <2>1, <2>2
<1>3. LineSound => AcceptsValid
  BY AcceptableIs DEF LineSound, Parsing, Sorted, Parser!AcceptsValid, AcceptsValid
<1> QED BY <1>1, <1>2, <1>3, PTL DEF MakeSpec

-----------------------------------------------------------------------------
(* Absolute paths of names.                                                *)

LEMMA NamesAreNew == "." \notin Names /\ ".." \notin Names
BY NamesAssumption DEF Special

LEMMA AbsoluteIs ==
  ASSUME NEW p \in Seq(Names)
  PROVE  /\ Absolute(p) \in Path /\ Absolute(p).abs = TRUE /\ Absolute(p).segs = p
         /\ p \in Word
<1>1. p \in Seq(Segments) /\ p \in Word
  <2>1. Len(p) \in Nat /\ p \in [1 .. Len(p) -> Names]
    OBVIOUS
  <2>2. p \in [1 .. Len(p) -> Segments] /\ p \in [1 .. Len(p) -> Names \cup Special]
    BY <2>1 DEF Segments
  <2> QED BY <2>1, <2>2 DEF Word
<1> QED BY <1>1 DEF Absolute, Path

(* A walk along names is a trail, and a trail to a directory is walked.    *)
LEMMA NamesWalk ==
  ASSUME NEW d, Healthy(d), NEW p \in Seq(Names), NEW s, s = Walk(d, Absolute(p), TRUE)
  PROVE  /\ s # <<>> => Trail(d, p, s)
         /\ \A t : Trail(d, p, t) /\ IsDir(d, Last(t)) => s # <<>>
<1> DEFINE path == Absolute(p)
           n == Len(p)
           g == Trace(d, path, TRUE)
           head(k) == SubSeq(p, 1, k)
<1>1. /\ n \in Nat /\ g[0] = <<Root>> /\ s = g[n]
      /\ \A k \in 1 .. n : g[k] = Move(d, g[k - 1], p[k], TRUE)
  <2>1. path \in Path /\ path.abs = TRUE /\ path.segs = p
    BY AbsoluteIs
  <2> HIDE DEF path
  <2>2. /\ Len(path.segs) \in Nat /\ g[0] = Start(path)
        /\ \A k \in 1 .. Len(path.segs) : g[k] = Move(d, g[k - 1], path.segs[k], TRUE)
    <3> HIDE DEF head
    <3>1. \A strict : /\ Len(path.segs) \in Nat
                      /\ Trace(d, path, strict)[0] = Start(path)
                      /\ \A k \in 1 .. Len(path.segs) :
                           Trace(d, path, strict)[k]
                             = Move(d, Trace(d, path, strict)[k - 1], path.segs[k], strict)
      BY <2>1, TraceSteps
    <3> QED BY <3>1
  <2>3. s = g[Len(path.segs)]
    BY DEF path, Walk
  <2>4. Start(path) = << Root >>
    BY <2>1 DEF Start
  <2> QED BY <2>1, <2>2, <2>3, <2>4
<1> HIDE DEF path, g
<1>2. /\ \A k \in 1 .. n : p[k] \in Names /\ p[k] # "." /\ p[k] # ".."
      /\ head(0) = <<>> /\ head(n) = p /\ \A k \in 0 .. n - 1 : head(k + 1) = Append(head(k), p[k + 1])
      /\ \A k \in 0 .. n : head(k) \in Seq(Names) /\ Len(head(k)) = k
      /\ \A k \in 0 .. n : \A j \in 1 .. k : head(k)[j] = p[j]
  <2>1. \A k \in 1 .. n : p[k] \in Names
    OBVIOUS
  <2>2. head(0) = <<>> /\ head(n) = p
    BY <1>1
  <2>3. \A k \in 0 .. n : /\ head(k) \in Seq(Names) /\ Len(head(k)) = k
                          /\ \A j \in 1 .. k : head(k)[j] = p[j]
    BY <1>1
  <2>4. ASSUME NEW k \in 0 .. n - 1 PROVE head(k + 1) = Append(head(k), p[k + 1])
    BY <1>1
  <2> QED BY <2>1, <2>2, <2>3, <2>4, NamesAreNew
<1> HIDE DEF head
<1> DEFINE T == {k \in Nat : k <= n /\ g[k] # <<>> => Trail(d, head(k), g[k])}
<1>3. 0 \in T
  <2>1. <<Root>> \in Seq(Inode) /\ Len(<<Root>>) = 1 /\ <<Root>>[1] = Root
    BY InodeAssumption
  <2>2. <<>> \in Word /\ Len(<<>>) = 0
    BY DEF Word
  <2>3. Trail(d, <<>>, <<Root>>)
    BY <2>1, <2>2 DEF Trail
  <2> QED BY <1>1, <1>2, <2>3
<1>4. ASSUME NEW k \in Nat, k + 1 <= n, g[k] # <<>>
      PROVE  /\ k <= n /\ k \in 0 .. n - 1 /\ k \in 0 .. n /\ k + 1 \in 1 .. n /\ (k + 1) - 1 = k
             /\ g[k + 1] = Enter(d, g[k], p[k + 1], TRUE)
  <2>1. k <= n /\ k \in 0 .. n - 1 /\ k \in 0 .. n /\ k + 1 \in 1 .. n /\ (k + 1) - 1 = k
    BY <1>1, <1>4
  <2>2. g[k + 1] = Move(d, g[k], p[k + 1], TRUE)
    BY <1>1, <2>1
  <2> QED BY <1>2, <1>4, <2>1, <2>2 DEF Move
<1>5. ASSUME NEW k \in Nat, k \in T PROVE k + 1 \in T
  <2> SUFFICES ASSUME k + 1 <= n, g[k + 1] # <<>> PROVE Trail(d, head(k + 1), g[k + 1])
    OBVIOUS
  <2>1. g[k] # <<>>
    <3>1. k + 1 \in 1 .. n /\ (k + 1) - 1 = k
      BY <1>1
    <3>2. g[k + 1] = Move(d, g[k], p[k + 1], TRUE)
      BY <1>1, <3>1
    <3> QED BY <3>2 DEF Move
  <2>2. /\ k <= n /\ k \in 0 .. n - 1 /\ k \in 0 .. n
        /\ g[k + 1] = Enter(d, g[k], p[k + 1], TRUE)
    BY <1>4, <2>1
  <2>3. Trail(d, head(k), g[k])
    BY <1>5, <2>1, <2>2
  <2>4. Last(g[k]) \in Inode
    BY <2>3, TrailIs, OnTreeIs
  <2> DEFINE M == Matches(d, Last(g[k]), p[k + 1])
             x == CHOOSE e \in M : TRUE
  <2>5. M # {} /\ g[k + 1] = Append(g[k], x.inode)
    BY <2>2 DEF Enter
  <2>6. x \in M
    BY <2>5
  <2> HIDE DEF M, x
  <2>7. x \in Range(d.node[Last(g[k])].entries) /\ x.name = p[k + 1]
    BY <2>6 DEF M, Matches
  <2>8. Has(d, Last(g[k]), p[k + 1], x.inode)
    BY <2>4, <2>7, HasIs, MatchIs DEF Healthy, Range
  <2>9. Trail(d, Append(head(k), p[k + 1]), Append(g[k], x.inode))
    BY <2>3, <2>8, TrailAppend
  <2> QED BY <1>2, <2>2, <2>5, <2>9
<1>6. Nat \subseteq T
  <2> HIDE DEF T
  <2> QED BY <1>3, <1>5, Induct
<1>7. s # <<>> => Trail(d, p, s)
  <2>1. n \in T /\ n <= n
    BY <1>1, <1>6
  <2>2. g[n] # <<>> => Trail(d, head(n), g[n])
    BY <2>1
  <2> QED BY <1>1, <1>2, <2>2
<1>8. ASSUME NEW t, Trail(d, p, t), IsDir(d, Last(t)) PROVE s # <<>>
  <2> DEFINE U == {k \in Nat : k <= n => g[k] # <<>>}
  <2>1. /\ OnTree(d, t) /\ Len(t) = n + 1
        /\ \A k \in 1 .. n : Has(d, t[k], p[k], t[k + 1]) /\ t[k] \in Inode
    BY <1>1, <1>8, TrailIs
  <2>2. \A k \in 1 .. n : IsDir(d, t[k + 1])
    <3>1. \A k \in 1 .. Len(t) - 1 : IsDir(d, t[k])
      BY <2>1, OnTreeIs
    <3>2. IsDir(d, t[n + 1])
      BY <1>8, <2>1, OnTreeIs
    <3>3. ASSUME NEW k \in 1 .. n PROVE k + 1 = n + 1 \/ k + 1 \in 1 .. n
      BY <1>1
    <3>4. Len(t) - 1 = n
      BY <1>1, <2>1
    <3> QED BY <3>1, <3>2, <3>3, <3>4
  <2>3. 0 \in U
    <3>1. << Root >> # <<>>
      OBVIOUS
    <3> QED BY <1>1, <3>1
  <2>4. ASSUME NEW k \in Nat, k \in U PROVE k + 1 \in U
    <3> SUFFICES ASSUME k + 1 <= n PROVE g[k + 1] # <<>>
      OBVIOUS
    <3>1. k <= n
      BY <1>1
    <3>2. g[k] # <<>>
      BY <2>4, <3>1
    <3>3. /\ k \in 0 .. n /\ k + 1 \in 1 .. n
          /\ g[k + 1] = Enter(d, g[k], p[k + 1], TRUE)
      BY <1>4, <3>2
    <3>4. Trail(d, head(k), g[k]) /\ Len(head(k)) = k /\ \A j \in 1 .. k : head(k)[j] = p[j]
      BY <1>2, <1>6, <3>1, <3>2, <3>3
    <3>5. \A j \in 1 .. k + 1 : g[k][j] = t[j]
      <4>1. k <= Len(p) /\ k <= Len(head(k))
        BY <3>1, <3>4
      <4>2. \A j \in 1 .. k : head(k)[j] = p[j]
        BY <3>4
      <4> QED BY <1>8, <3>4, <4>1, <4>2, SameNames
    <3>6. Last(g[k]) = t[k + 1] /\ Last(g[k]) \in Inode
      <4>1. Len(g[k]) = k + 1 /\ g[k][Len(g[k])] = Last(g[k]) /\ Len(g[k]) \in 1 .. Len(g[k])
        BY <3>4, TrailIs
      <4>2. Last(g[k]) \in Inode
        BY <3>4, TrailIs, OnTreeIs
      <4> QED BY <3>5, <4>1, <4>2
    <3> DEFINE i == t[k + 1]
               j == t[k + 2]
               M == Matches(d, i, p[k + 1])
    <3>7. Has(d, i, p[k + 1], j) /\ IsDir(d, j) /\ i \in Inode
      <4>1. (k + 1) + 1 = k + 2
        OBVIOUS
      <4> QED BY <2>1, <2>2, <3>3, <4>1
    <3>8. \A e \in M : e.inode = j
      <4> SUFFICES ASSUME NEW e \in M PROVE e.inode = j
        OBVIOUS
      <4>1. e \in Range(d.node[i].entries) /\ e.name = p[k + 1]
        BY DEF Matches
      <4> HIDE DEF i, j
      <4>2. Has(d, i, p[k + 1], e.inode)
        BY <3>7, <4>1, HasIs, MatchIs DEF Healthy, Range
      <4> QED BY <3>7, <4>2, HasOne
    <3>9. M # {}
      <4>1. Link(p[k + 1], j) \in Range(d.node[i].entries) /\ Link(p[k + 1], j).name = p[k + 1]
        BY <3>7 DEF Has, Link
      <4> QED BY <4>1 DEF Matches
    <3>10. (CHOOSE e \in M : TRUE).inode = j
      BY <3>8, <3>9
    <3> HIDE DEF j, i
    <3>11. Enter(d, g[k], p[k + 1], TRUE) = Append(g[k], j)
      <4>1. Last(g[k]) = i
        BY <3>6 DEF i
      <4>2. IsDir(d, (CHOOSE e \in M : TRUE).inode)
        BY <3>7, <3>10
      <4> QED BY <3>9, <3>10, <4>1, <4>2 DEF Enter
    <3>12. Append(g[k], j) # <<>>
      <4>1. g[k] \in Seq(Inode)
        BY <3>4 DEF Trail
      <4> QED BY <4>1
    <3> QED BY <3>3, <3>11, <3>12
  <2>5. Nat \subseteq U
    <3> HIDE DEF U
    <3> QED BY <2>3, <2>4, Induct
  <2>6. n \in U /\ n <= n
    BY <1>1, <2>5
  <2> QED BY <1>1, <2>6
<1> QED BY <1>7, <1>8

-----------------------------------------------------------------------------
(* What mkdir and upload do to the tree of names.                          *)

Taken(d, p) == \E y \in Shown(d) : y.path = p
DirAt(d, p) == \E y \in Shown(d) : y.path = p /\ IsDir(d, y.inode)
Whole(d) == ~ \E i \in d.damaged : IsDir(d, i)

Refusable(d, p) ==
  Last(p) \in TooLong \/ ~DirAt(d, Front(p)) \/ Taken(d, p)

Holds(d, e) ==
  /\ Unused(e) \subseteq Unused(d) /\ d.damaged \subseteq e.damaged
  /\ \A j \in Inode : IsDir(d, j) => IsDir(e, j)

Placed(d, e, p, i) ==
  /\ i \in Inode /\ Shown(e) = Shown(d) \cup {Spot(p, i)}
  /\ \A y \in Shown(d) : y.path # p /\ Intact(d, e, y.inode)

(* The result of a command that is to make p, of that type and contents:   *)
(* it is refused, or has lost what it made together with the directory, or *)
(* has put it in its place.                                                *)
Outcome(d, r, p, type, x) ==
  /\ Sane(r) /\ Holds(d, r.disk)
  /\ \/ ~r.ok /\ r.disk = d /\ Refusable(d, p)
     \/ /\ ~Whole(r.disk) /\ Shown(r.disk) = Shown(d)
        /\ \A y \in Shown(d) : Intact(d, r.disk, y.inode)
     \/ \E i : /\ Placed(d, r.disk, p, i) /\ r.disk.node[i].type = type
               /\ r.ok /\ type = "normal" => r.disk.node[i].data = x \/ i \in r.disk.damaged
               /\ ~r.ok => x \in TooLarge

LEMMA AppendIs ==
  ASSUME NEW S, NEW s \in Seq(S), NEW x \in S
  PROVE  /\ Append(s, x) \in Seq(S) /\ Len(Append(s, x)) = Len(s) + 1 /\ Len(s) \in Nat
         /\ \A k \in 1 .. Len(s) : Append(s, x)[k] = s[k]
         /\ Append(s, x)[Len(s) + 1] = x
OBVIOUS

LEMMA SameSeq ==
  ASSUME NEW S, NEW s \in Seq(S), NEW t \in Seq(S), Len(s) = Len(t),
         \A k \in 1 .. Len(s) : s[k] = t[k]
  PROVE  s = t
<1>1. s \in [1 .. Len(s) -> S] /\ t \in [1 .. Len(s) -> S]
  OBVIOUS
<1> QED BY <1>1

LEMMA EndsOf ==
  ASSUME NEW p \in Seq(Names), p # <<>>
  PROVE  /\ Front(p) \in Seq(Names) /\ Last(p) \in Names /\ p = Append(Front(p), Last(p))
         /\ Len(p) \in Nat \ {0} /\ Len(Front(p)) = Len(p) - 1
         /\ \A k \in 1 .. Len(p) - 1 : Front(p)[k] = p[k]
         /\ Last(p) = p[Len(p)] /\ Last(p) \in Range(p)
<1>1. Len(p) \in Nat \ {0} /\ p \in [1 .. Len(p) -> Names]
  OBVIOUS
<1>2. Last(p) = p[Len(p)] /\ Len(p) \in 1 .. Len(p)
  BY <1>1 DEF Last
<1>3. Last(p) \in Names /\ Last(p) \in Range(p)
  BY <1>1, <1>2 DEF Range
<1>4. /\ Front(p) \in Seq(Names) /\ Len(Front(p)) = Len(p) - 1
      /\ \A k \in 1 .. Len(p) - 1 : Front(p)[k] = p[k]
  BY <1>1 DEF Front
<1>5. p = Append(Front(p), Last(p))
  <2> DEFINE f == Front(p)
             l == Last(p)
  <2>1. f \in Seq(Names) /\ Len(f) = Len(p) - 1 /\ l = p[Len(p)] /\ l \in Names
        /\ \A k \in 1 .. Len(p) - 1 : f[k] = p[k]
    BY <1>2, <1>3, <1>4
  <2> HIDE DEF f, l
  <2> DEFINE a == Append(f, l)
  <2>2. /\ a \in Seq(Names) /\ Len(a) = Len(f) + 1
        /\ \A k \in 1 .. Len(f) : a[k] = f[k]
        /\ a[Len(f) + 1] = l
    BY <2>1, AppendIs
  <2> HIDE DEF a
  <2>3. Len(a) = Len(p) /\ \A k \in 1 .. Len(p) : a[k] = p[k]
    BY <1>1, <2>1, <2>2
  <2>4. p = a
    BY <2>2, <2>3, SameSeq
  <2> QED BY <2>4 DEF a, f, l
<1> QED BY <1>1, <1>2, <1>3, <1>4, <1>5

LEMMA AtRoot ==
  ASSUME NEW d, Healthy(d), cwd = << Root >>
  PROVE  AtHome(d) /\ Trail(d, <<>>, cwd)
<1>1. cwd \in Seq(Inode) /\ Len(cwd) = 1 /\ cwd[1] = Root /\ Last(cwd) = Root
  BY InodeAssumption DEF Last
<1>2. OnTree(d, cwd)
  BY <1>1 DEF OnTree
<1>3. <<>> \in Word /\ Len(<<>>) = 0
  BY DEF Word
<1> QED BY <1>1, <1>2, <1>3 DEF Trail, AtHome, IsDir, Healthy

(* The directory that _touch looks up.                                     *)
LEMMA ParentWalk ==
  ASSUME NEW d, Healthy(d), cwd = << Root >>, NEW p \in Seq(Names), p # <<>>,
         NEW parents, parents = Walk(d, ParentPath(Absolute(p)), TRUE)
  PROVE  /\ LastName(Absolute(p)) = Last(p)
         /\ parents # <<>> => Trail(d, Front(p), parents)
         /\ \A t : Trail(d, Front(p), t) /\ IsDir(d, Last(t)) => parents # <<>>
<1>1. Absolute(p) \in Path /\ Absolute(p).segs = p /\ Len(p) \in Nat \ {0}
  BY AbsoluteIs, EndsOf
<1>2. LastName(Absolute(p)) = Last(p)
  BY <1>1 DEF LastName
<1>3. CASE Len(p) <= 1
  <2> DEFINE here == [abs |-> FALSE, segs |-> <<>>]
  <2>1. here \in Path /\ here.abs = FALSE /\ here.segs = <<>>
    BY DEF Path
  <2>2. ParentPath(Absolute(p)) = here
    BY <1>1, <1>3 DEF ParentPath
  <2> HIDE DEF here
  <2>3. \A strict : Len(here.segs) = 0 /\ Trace(d, here, strict)[0] = Start(here)
    BY <2>1, TraceSteps
  <2>4. parents = cwd
    BY <2>1, <2>2, <2>3 DEF Walk, Start
  <2>5. Front(p) = <<>>
    BY <1>1, <1>3, EndsOf
  <2>6. cwd # <<>>
    OBVIOUS
  <2> QED BY <1>2, <2>4, <2>5, <2>6, AtRoot
<1>4. CASE Len(p) > 1
  <2>1. ParentPath(Absolute(p)) = Absolute(Front(p))
    <3>1. ParentPath(Absolute(p)) = [Absolute(p) EXCEPT !.segs = Front(@)]
      BY <1>1, <1>4 DEF ParentPath
    <3> QED BY <3>1 DEF Absolute
  <2>2. Front(p) \in Seq(Names)
    BY EndsOf
  <2> DEFINE q == Front(p)
  <2> HIDE DEF q
  <2>3. parents = Walk(d, Absolute(q), TRUE) /\ q \in Seq(Names)
    BY <2>1, <2>2 DEF q
  <2>4. /\ parents # <<>> => Trail(d, q, parents)
        /\ \A t : Trail(d, q, t) /\ IsDir(d, Last(t)) => parents # <<>>
    BY <2>3, NamesWalk
  <2>5. parents # <<>> => Trail(d, Front(p), parents)
    BY <2>4 DEF q
  <2>6. \A t : Trail(d, Front(p), t) /\ IsDir(d, Last(t)) => parents # <<>>
    <3> HIDE DEF IsDir, Last, Trail
    <3>1. q = Front(p)
      BY DEF q
    <3> QED BY <2>4, <3>1
  <2> QED BY <1>2, <2>5, <2>6
<1>5. Len(p) <= 1 \/ Len(p) > 1
  BY <1>1
<1> QED BY <1>3, <1>4, <1>5

LEMMA TouchIs ==
  ASSUME NEW d, Healthy(d), AtHome(d), Balanced(d), Counted(d), cwd = << Root >>,
         NEW p \in Seq(Names), p # <<>>,
         Walk(d, ParentPath(Absolute(p)), FALSE) # <<>>
           => Last(Walk(d, ParentPath(Absolute(p)), FALSE)) \notin d.damaged,
         NEW type \in {"dir", "normal"}, NEW t \in Touched(d, Absolute(p), type),
         ~Astray(t.res.disk)
  PROVE  /\ Sane(t.res)
         /\ \/ t.res = Thrown(d) /\ Refusable(d, p)
            \/ \E dir \in Inode : \E s :
                 /\ Trail(d, Front(p), s) /\ Last(s) = dir
                 /\ Grew(d, t.res.disk, t.res.ok, t.inode, dir, Last(p), type)
<1> DEFINE path == Absolute(p)
           parents == Walk(d, ParentPath(path), TRUE)
<1>1. /\ LastName(path) = Last(p)
      /\ parents # <<>> => Trail(d, Front(p), parents)
      /\ \A s : Trail(d, Front(p), s) /\ IsDir(d, Last(s)) => parents # <<>>
  BY ParentWalk
<1>2. path \in Path
  BY AbsoluteIs
<1> HIDE DEF path
<1>3. /\ Walk(d, ParentPath(path), FALSE) # <<>>
           => Last(Walk(d, ParentPath(path), FALSE)) \notin d.damaged
      /\ t \in Touched(d, path, type)
  BY DEF path
<1> DEFINE name == Last(p)
<1>4. name = LastName(path)
  BY <1>1
<1> HIDE DEF parents, name
<1>5. parents = Walk(d, ParentPath(path), TRUE)
  BY DEF parents
<1>6. /\ Sane(t.res)
      /\ Possible(d, parents, name) =>
           /\ Last(parents) \in Inode /\ Leads(d, Last(parents))
           /\ Grew(d, t.res.disk, t.res.ok, t.inode, Last(parents), name, type)
      /\ ~Possible(d, parents, name) => t.res = Thrown(d)
  BY <1>2, <1>3, <1>4, <1>5, TouchedAt
<1>7. CASE Possible(d, parents, name)
  <2>1. parents # <<>>
    BY <1>7 DEF Possible
  <2> QED BY <1>1, <1>6, <1>7, <2>1 DEF name
<1>8. CASE ~Possible(d, parents, name)
  <2>1. CASE parents = <<>>
    <3>1. ~DirAt(d, Front(p))
      <4> SUFFICES ASSUME NEW y \in Shown(d), y.path = Front(p), IsDir(d, y.inode) PROVE FALSE
        BY DEF DirAt
      <4>1. PICK s : Trail(d, y.path, s) /\ Last(s) = y.inode
        BY ShownIs
      <4> QED BY <1>1, <2>1, <4>1
    <3> QED BY <1>6, <1>8, <3>1 DEF Refusable
  <2>2. CASE parents # <<>> /\ ~NameFree(d, Last(parents), name)
    <3>1. Trail(d, Front(p), parents) /\ Last(parents) \in Inode
      BY <1>1, <2>2, TrailIs, OnTreeIs
    <3>2. PICK e \in Matches(d, Last(parents), name) : TRUE
      BY <2>2 DEF NameFree
    <3>3. Has(d, Last(parents), name, e.inode)
      BY <3>1, <3>2, HasIs, MatchIs DEF Healthy
    <3> DEFINE longer == Append(parents, e.inode)
               q == Append(Front(p), name)
    <3>4. Trail(d, q, longer) /\ Last(longer) = e.inode
      BY <3>1, <3>3, TrailAppend
    <3>5. q = p
      BY EndsOf DEF name
    <3> HIDE DEF longer, q
    <3>6. Spot(p, e.inode) \in Shown(d)
      BY <3>4, <3>5, ShownIs
    <3>7. Taken(d, p)
      BY <3>6, SpotIs DEF Taken
    <3> QED BY <1>6, <1>8, <3>7 DEF Refusable
  <2>3. CASE parents # <<>> /\ ~IsDir(d, Last(parents))
    <3>1. Trail(d, Front(p), parents)
      BY <1>1, <2>3
    <3>2. ~DirAt(d, Front(p))
      <4> SUFFICES ASSUME NEW y \in Shown(d), y.path = Front(p), IsDir(d, y.inode) PROVE FALSE
        BY DEF DirAt
      <4>1. PICK s : Trail(d, y.path, s) /\ Last(s) = y.inode
        BY ShownIs
      <4>2. s = parents
        BY <3>1, <4>1, OneTrail
      <4> QED BY <2>3, <4>1, <4>2
    <3> QED BY <1>6, <1>8, <3>2 DEF Refusable
  <2>4. CASE name \in TooLong
    BY <1>6, <1>8, <2>4 DEF Refusable, name
  <2> QED BY <1>8, <2>1, <2>2, <2>3, <2>4 DEF Possible
<1> QED BY <1>7, <1>8

(* mkdir, and upload as long as it has not come to the contents.           *)
LEMMA GrewOutcome ==
  ASSUME NEW d, Healthy(d), NEW r, Sane(r), NEW p \in Seq(Names), p # <<>>,
         NEW type \in {"dir", "normal"}, NEW i, NEW x, NEW dir \in Inode, NEW s,
         Trail(d, Front(p), s), Last(s) = dir, Grew(d, r.disk, r.ok, i, dir, Last(p), type)
  PROVE  /\ Holds(d, r.disk)
         /\ ~r.ok => Outcome(d, r, p, type, x)
         /\ r.ok => LeafAt(d, r.disk, i, type, dir, Last(p))
<1> DEFINE e == r.disk
           name == Last(p)
<1>1. Healthy(e) /\ r.ok \in BOOLEAN
  BY DEF Sane
<1>2. name \in Names \cup Special
  BY EndsOf
<1> HIDE DEF e, name
<1>3. Grew(d, e, r.ok, i, dir, name, type)
  BY DEF e, name
<1>4. Holds(d, e)
  <2>1. /\ \A j \in Inode : IsDir(d, j) => IsDir(e, j)
        /\ \A j \in Inode : j # i => e.node[j].type = d.node[j].type
    BY <1>1, <1>3, GrewTree, GrewIs
  <2>2. e.node[i].type = type
    BY <1>3, BlankData DEF Grew
  <2>3. Unused(e) \subseteq Unused(d)
    BY <2>1, <2>2 DEF Unused
  <2>4. d.damaged \subseteq e.damaged
    BY <1>1, <1>3 DEF Grew
  <2> QED BY <2>1, <2>3, <2>4 DEF Holds
<1>5. ASSUME ~r.ok PROVE Outcome(d, r, p, type, x)
  <2>1. Grew(d, e, FALSE, i, dir, name, type)
    BY <1>1, <1>3, <1>5
  <2>2. Stub(d, e)
    <3>1. i \in Inode
      BY <2>1 DEF Grew, Unused
    <3> QED BY <1>2, <2>1, <3>1 DEF Stub
  <2>3. Shown(e) = Shown(d) /\ \A y \in Shown(d) : Intact(d, e, y.inode)
    BY <1>1, <2>2, StubShows
  <2>4. dir \in e.damaged /\ IsDir(e, dir)
    BY <1>4, <2>1 DEF Grew, Holds
  <2> QED BY <1>4, <2>3, <2>4 DEF Outcome, Whole, e
<1>6. ASSUME r.ok PROVE LeafAt(d, e, i, type, dir, name)
  <2>1. Grew(d, e, TRUE, i, dir, name, type)
    BY <1>1, <1>3, <1>6
  <2> QED BY <1>1, <2>1 DEF LeafAt
<1> QED BY <1>4, <1>5, <1>6 DEF e, name

(* The new name stands in its place.                                       *)
LEMMA LeafPlaced ==
  ASSUME NEW d, NEW e, NEW p \in Seq(Names), NEW i \in Inode, NEW type, NEW dir \in Inode, NEW s,
         Healthy(d), Healthy(e), p # <<>>,
         Trail(d, Front(p), s), Last(s) = dir, LeafAt(d, e, i, type, dir, Last(p))
  PROVE  Placed(d, e, p, i) /\ e.node[i].type = type
<1> DEFINE q == Front(p)
           name == Last(p)
<1>1. p = Append(q, name) /\ name \in Names \cup Special
  BY EndsOf
<1> HIDE DEF q, name
<1>2. Trail(d, q, s) /\ LeafAt(d, e, i, type, dir, name)
  BY DEF q, name
<1>3. Shows(d, e, q, dir, name, i, type)
  BY <1>1, <1>2, LeafAtShows
<1> DEFINE a == Append(q, name)
<1>4. /\ Shown(e) = Shown(d) \cup {Spot(a, i)}
      /\ \A y \in Shown(d) : y.path # a /\ Intact(d, e, y.inode)
      /\ e.node[i].type = type
  BY <1>3 DEF Shows
<1>5. a = p
  BY <1>1
<1> HIDE DEF a
<1> QED BY <1>4, <1>5 DEF Placed

LEMMA MkdirOutcome ==
  ASSUME NEW d, Healthy(d), AtHome(d), Balanced(d), Counted(d), cwd = << Root >>,
         NEW p \in Seq(Names), p # <<>>,
         Walk(d, ParentPath(Absolute(p)), FALSE) # <<>>
           => Last(Walk(d, ParentPath(Absolute(p)), FALSE)) \notin d.damaged,
         NEW x, NEW t \in Touched(d, Absolute(p), "dir"), ~Astray(t.res.disk)
  PROVE  Outcome(d, t.res, p, "dir", x)
<1>1. /\ Sane(t.res)
      /\ \/ t.res = Thrown(d) /\ Refusable(d, p)
         \/ \E dir \in Inode : \E s :
              /\ Trail(d, Front(p), s) /\ Last(s) = dir
              /\ Grew(d, t.res.disk, t.res.ok, t.inode, dir, Last(p), "dir")
  BY TouchIs
<1>2. CASE t.res = Thrown(d) /\ Refusable(d, p)
  <2>1. ~t.res.ok /\ t.res.disk = d
    BY <1>2, ResultIs
  <2> QED BY <1>1, <1>2, <2>1 DEF Outcome, Holds
<1>3. ASSUME NEW dir \in Inode, NEW s, Trail(d, Front(p), s), Last(s) = dir,
             Grew(d, t.res.disk, t.res.ok, t.inode, dir, Last(p), "dir")
      PROVE  Outcome(d, t.res, p, "dir", x)
  <2>1. t.res.ok \in BOOLEAN /\ Healthy(t.res.disk)
    BY <1>1 DEF Sane
  <2>2. /\ Holds(d, t.res.disk)
        /\ ~t.res.ok => Outcome(d, t.res, p, "dir", x)
        /\ t.res.ok => LeafAt(d, t.res.disk, t.inode, "dir", dir, Last(p))
    BY <1>1, <1>3, GrewOutcome
  <2>3. ASSUME t.res.ok PROVE Outcome(d, t.res, p, "dir", x)
    <3>1. t.inode \in Inode
      BY <1>3 DEF Grew, Unused
    <3>2. Placed(d, t.res.disk, p, t.inode) /\ t.res.disk.node[t.inode].type = "dir"
      BY <1>3, <2>1, <2>2, <2>3, <3>1, LeafPlaced
    <3>3. "dir" # "normal"
      OBVIOUS
    <3> QED BY <1>1, <2>2, <2>3, <3>2, <3>3 DEF Outcome
  <2> QED BY <2>1, <2>2, <2>3
<1> QED BY <1>1, <1>2, <1>3

LEMMA UploadOutcome ==
  ASSUME NEW d, Healthy(d), AtHome(d), Balanced(d), Counted(d), cwd = << Root >>,
         NEW p \in Seq(Names), p # <<>>,
         Walk(d, ParentPath(Absolute(p)), FALSE) # <<>>
           => Last(Walk(d, ParentPath(Absolute(p)), FALSE)) \notin d.damaged,
         NEW x \in Data, NEW t \in Touched(d, Absolute(p), "normal"), NEW r, r = Uploaded(t, x),
         ~Astray(r.disk)
  PROVE  Outcome(d, r, p, "normal", x)
<1>0. ~Astray(t.res.disk)
  BY UploadedAstray
<1>1. /\ Sane(t.res)
      /\ \/ t.res = Thrown(d) /\ Refusable(d, p)
         \/ \E dir \in Inode : \E s :
              /\ Trail(d, Front(p), s) /\ Last(s) = dir
              /\ Grew(d, t.res.disk, t.res.ok, t.inode, dir, Last(p), "normal")
  BY <1>0, TouchIs
<1>2. t.res.ok \in BOOLEAN /\ Healthy(t.res.disk)
  BY <1>1 DEF Sane
<1>3. CASE t.res = Thrown(d) /\ Refusable(d, p)
  <2>1. ~t.res.ok /\ t.res.disk = d
    BY <1>3, ResultIs
  <2>2. r = t.res
    BY <2>1 DEF Uploaded
  <2> QED BY <1>1, <1>3, <2>1, <2>2 DEF Outcome, Holds
<1>4. ASSUME NEW dir \in Inode, NEW s, Trail(d, Front(p), s), Last(s) = dir,
             Grew(d, t.res.disk, t.res.ok, t.inode, dir, Last(p), "normal")
      PROVE  Outcome(d, r, p, "normal", x)
  <2> DEFINE b == t.res.disk
             i == t.inode
  <2>1. /\ Holds(d, b)
        /\ ~t.res.ok => Outcome(d, t.res, p, "normal", x)
        /\ t.res.ok => LeafAt(d, b, i, "normal", dir, Last(p))
    BY <1>1, <1>4, GrewOutcome
  <2>2. CASE ~t.res.ok
    <3>1. r = t.res
      BY <2>2 DEF Uploaded
    <3> QED BY <2>1, <2>2, <3>1
  <2>3. i \in Inode
    BY <1>4 DEF Grew, Unused
  <2>4. CASE t.res.ok /\ x \in TooLarge
    <3>1. r = Thrown(b)
      BY <2>4 DEF Uploaded
    <3>2. Sane(r) /\ ~r.ok /\ r.disk = b
      <4>1. Healthy(b) /\ AtHome(b) /\ Balanced(b) /\ Counted(b)
        BY <1>1 DEF Sane
      <4> HIDE DEF b
      <4>2. Sane(Thrown(b)) /\ Thrown(b).disk = b /\ Thrown(b).ok = FALSE
        BY <4>1, ThrownIs
      <4> QED BY <3>1, <4>2
    <3>3. Placed(d, b, p, i) /\ b.node[i].type = "normal"
      BY <1>2, <1>4, <2>1, <2>3, <2>4, LeafPlaced
    <3> QED BY <2>1, <2>4, <3>2, <3>3 DEF Outcome
  <2>5. CASE t.res.ok /\ x \notin TooLarge
    <3> DEFINE n == [Blank("normal") EXCEPT !.data = x]
               w == Store(b, i, n)
    <3>1. r = Done(w.disk)
      BY <2>5 DEF Uploaded
    <3>2. n \in Node /\ n.type = "normal" /\ n.entries = <<>> /\ n.data = x
      BY FillIs
    <3>3. Grew(d, b, TRUE, i, dir, Last(p), "normal")
      BY <1>2, <1>4, <2>5
    <3>4. i \in Inode \ b.damaged /\ b.node[i].type = "normal" /\ b.damaged = d.damaged
      BY <1>2, <3>3, NewFileIs
    <3>5. Healthy(b) /\ AtHome(b) /\ Balanced(b) /\ Counted(b)
      BY <1>1 DEF Sane
    <3> HIDE DEF n, w, b, i
    <3>6. w = Store(b, i, n)
      BY DEF w
    <3>7. /\ Sane(w) /\ Sane(Done(w.disk))
          /\ \A j \in Inode : /\ w.disk.node[j].entries = b.node[j].entries
                              /\ w.disk.node[j].type = b.node[j].type
                              /\ j # i => w.disk.node[j] = b.node[j]
          /\ w.disk.damaged \subseteq b.damaged \cup {i}
          /\ w.ok => w.disk.node[i] = n
      BY <3>2, <3>4, <3>5, <3>6, FilledIs
    <3>8. /\ b.damaged \subseteq w.disk.damaged
          /\ ~w.ok => i \in w.disk.damaged
      <4>1. Typed(b)
        BY <3>5 DEF Healthy
      <4>2. /\ w.ok \in BOOLEAN
            /\ w.ok => w.disk.damaged = b.damaged
            /\ ~w.ok => w.disk.damaged = b.damaged \cup {i}
        BY <3>2, <3>4, <3>6, <4>1, StoreIs, SMTT(30)
      <4> QED BY <4>2
    <3> DEFINE e == w.disk
    <3>9. Healthy(e) /\ r.ok /\ r.disk = e /\ Sane(r)
      BY <3>1, <3>7, ResultIs DEF Sane
    <3>10. LeafAt(d, e, i, "normal", dir, Last(p))
      <4>1. "normal" # "dir"
        OBVIOUS
      <4> QED BY <3>3, <3>5, <3>7, <4>1 DEF LeafAt
    <3>11. Placed(d, e, p, i) /\ e.node[i].type = "normal"
      BY <1>4, <2>3, <3>9, <3>10, LeafPlaced DEF i
    <3>12. e.node[i].data = x \/ i \in e.damaged
      BY <3>2, <3>7, <3>8, <3>9 DEF Sane
    <3>13. Holds(d, e)
      BY <2>1, <3>7, <3>8 DEF Holds, Unused, IsDir, b
    <3> QED BY <3>9, <3>11, <3>12, <3>13 DEF Outcome
  <2> QED BY <1>2, <2>2, <2>4, <2>5
<1> QED BY <1>1, <1>3, <1>4

-----------------------------------------------------------------------------
(* The host's entries and the calls of trav_local.                         *)

LEMMA EntryIs ==
  ASSUME NEW h \in Hosts, NEW e \in h
  PROVE  /\ e.path \in Seq(Names) /\ e.path # <<>> /\ Len(e.path) \in Nat \ {0}
         /\ e.data \in Data \cup {Folder} /\ e = [path |-> e.path, data |-> e.data]
         /\ \A f \in h : e.path = f.path => e = f
         /\ Len(e.path) > 1 =>
              \E f \in h : f.path = Front(e.path) /\ f.data = Folder
<1>1. h \subseteq [path : Seq(Names), data : Data \cup {Folder}]
  BY HostAssumption
<1>2. e \in [path : Seq(Names), data : Data \cup {Folder}]
  BY <1>1
<1>3. /\ e.path \in Seq(Names) /\ e.data \in Data \cup {Folder}
      /\ e = [path |-> e.path, data |-> e.data]
  BY <1>2
<1>4. /\ \A f \in h : e.path = f.path => e = f
      /\ e.path # <<>>
      /\ Len(e.path) = 1 \/ [path |-> Front(e.path), data |-> Folder] \in h
  BY HostAssumption
<1>5. Len(e.path) \in Nat \ {0}
  BY <1>3, <1>4
<1>6. ASSUME Len(e.path) > 1 PROVE \E f \in h : f.path = Front(e.path) /\ f.data = Folder
  <2> DEFINE f == [path |-> Front(e.path), data |-> Folder]
  <2>1. f.path = Front(e.path) /\ f.data = Folder
    OBVIOUS
  <2>2. Len(e.path) # 1
    <3> DEFINE n == Len(e.path)
    <3>1. n > 1 /\ n \in Nat
      BY <1>5, <1>6
    <3> HIDE DEF n
    <3>2. n # 1
      BY <3>1
    <3> QED BY <3>2 DEF n
  <2>3. f \in h
    BY <1>4, <2>2
  <2> HIDE DEF f
  <2> QED BY <2>1, <2>3
<1> QED BY <1>3, <1>4, <1>5, <1>6

LEMMA EntriesAre ==
  ASSUME NEW h \in Hosts, NEW q \in Seq(Names), NEW e \in h
  PROVE  e \in Entries(h, q) <=> Len(e.path) = Len(q) + 1 /\ Begins(q, e.path)
<1> DEFINE p == e.path
           front == Front(p)
<1>1. p \in Seq(Names) /\ p # <<>> /\ Len(p) \in Nat \ {0} /\ Len(q) \in Nat
  BY EntryIs
<1>2. e \in Entries(h, q) <=> Len(p) = Len(q) + 1 /\ front = q
  BY DEF Entries
<1> HIDE DEF p
<1>3. /\ front \in Seq(Names) /\ Len(front) = Len(p) - 1
      /\ \A k \in 1 .. Len(p) - 1 : front[k] = p[k]
  BY <1>1, EndsOf
<1> HIDE DEF front
<1>4. ASSUME Len(p) = Len(q) + 1 PROVE front = q <=> Begins(q, p)
  <2>1. Len(front) = Len(q) /\ \A k \in 1 .. Len(q) : front[k] = p[k]
    BY <1>1, <1>3, <1>4
  <2>2. ASSUME Begins(q, p) PROVE front = q
    <3>1. \A k \in 1 .. Len(front) : front[k] = q[k]
      BY <2>1, <2>2 DEF Begins
    <3> QED BY <1>3, <2>1, <3>1, SameSeq
  <2>3. ASSUME front = q PROVE Begins(q, p)
    <3>1. Len(q) <= Len(p)
      BY <1>1, <1>4
    <3>2. \A k \in 1 .. Len(q) : p[k] = q[k]
      BY <2>1, <2>3
    <3> QED BY <3>1, <3>2 DEF Begins
  <2> QED BY <2>2, <2>3
<1> QED BY <1>2, <1>4 DEF p

(* Whatever lies below a directory lies in one of its entries.             *)
LEMMA Reaches ==
  ASSUME NEW h \in Hosts, NEW q \in Seq(Names)
  PROVE  \A f \in h : Len(q) < Len(f.path) /\ Begins(q, f.path) =>
           \E c \in Entries(h, q) : Begins(c.path, f.path)
<1>1. Len(q) \in Nat
  OBVIOUS
<1> DEFINE S(n) == \A f \in h : Len(f.path) = Len(q) + n + 1 /\ Begins(q, f.path) =>
                     \E c \in Entries(h, q) : Begins(c.path, f.path)
           T == {n \in Nat : S(n)}
<1>2. 0 \in T
  <2> SUFFICES ASSUME NEW f \in h, Len(f.path) = Len(q) + 0 + 1, Begins(q, f.path)
               PROVE  \E c \in Entries(h, q) : Begins(c.path, f.path)
    OBVIOUS
  <2>1. Len(f.path) = Len(q) + 1
    BY <1>1
  <2>2. f \in Entries(h, q)
    BY <2>1, EntriesAre
  <2>3. Begins(f.path, f.path)
    BY EntryIs DEF Begins
  <2> QED BY <2>2, <2>3
<1>3. ASSUME NEW n \in Nat, n \in T PROVE n + 1 \in T
  <2> SUFFICES ASSUME NEW f \in h, Len(f.path) = Len(q) + (n + 1) + 1, Begins(q, f.path)
               PROVE  \E c \in Entries(h, q) : Begins(c.path, f.path)
    OBVIOUS
  <2> DEFINE p == f.path
             front == Front(p)
  <2>1. p \in Seq(Names) /\ p # <<>> /\ Len(p) \in Nat \ {0}
    BY EntryIs
  <2>2. Len(p) > 1 /\ Len(p) - 1 = Len(q) + n + 1
    BY <1>1, <2>1
  <2>3. PICK g \in h : g.path = front
    BY <2>2, EntryIs
  <2>4. Begins(q, p)
    OBVIOUS
  <2> HIDE DEF p
  <2>5. /\ front \in Seq(Names) /\ Len(front) = Len(p) - 1
        /\ \A k \in 1 .. Len(p) - 1 : front[k] = p[k]
    BY <2>1, EndsOf
  <2> HIDE DEF front
  <2>6. Begins(front, p)
    BY <2>1, <2>5 DEF Begins
  <2>7. Len(q) <= Len(front) /\ \A k \in 1 .. Len(q) : k \in 1 .. Len(p) - 1
    BY <1>1, <2>2, <2>5
  <2>8. Begins(q, front)
    BY <2>4, <2>5, <2>7 DEF Begins
  <2>9. S(n)
    BY <1>3
  <2>10. PICK c \in Entries(h, q) : Begins(c.path, front)
    BY <2>2, <2>3, <2>5, <2>8, <2>9
  <2>11. Len(c.path) \in Nat
    BY EntryIs DEF Entries
  <2>12. Begins(c.path, p)
    BY <2>1, <2>5, <2>6, <2>10, <2>11, BeginsAgain
  <2> QED BY <2>12 DEF p
<1>4. Nat \subseteq T
  <2> HIDE DEF T
  <2> QED BY <1>2, <1>3, Induct
<1> SUFFICES ASSUME NEW f \in h, Len(q) < Len(f.path), Begins(q, f.path)
             PROVE  \E c \in Entries(h, q) : Begins(c.path, f.path)
  OBVIOUS
<1> DEFINE m == Len(f.path) - Len(q) - 1
<1>5. m \in Nat /\ Len(f.path) = Len(q) + m + 1
  BY <1>1, EntryIs
<1> HIDE DEF m
<1>6. S(m)
  BY <1>4, <1>5
<1> QED BY <1>5, <1>6

(* What is still to be done, as a set: an entry is pending when it, or a   *)
(* folder it lies in, has not been yielded yet.                            *)
Pending(T, e) == \E f \in T : Begins(f.path, e.path)
Spread(h, T) == T \subseteq h /\ \A e, f \in T : Begins(f.path, e.path) => e = f

After(h, T, e) == (T \ {e}) \cup Entries(h, e.path)

LEMMA StartSpread ==
  ASSUME NEW h \in Hosts
  PROVE  /\ Spread(h, Entries(h, <<>>))
         /\ \A e \in h : Pending(Entries(h, <<>>), e)
<1>1. <<>> \in Seq(Names) /\ Len(<<>>) = 0
  OBVIOUS
<1>2. ASSUME NEW e \in h PROVE Pending(Entries(h, <<>>), e)
  <2>1. Len(<<>>) < Len(e.path) /\ Begins(<<>>, e.path)
    BY EntryIs DEF Begins
  <2> QED BY <1>1, <2>1, Reaches DEF Pending
<1>3. ASSUME NEW e \in Entries(h, <<>>), NEW f \in Entries(h, <<>>), Begins(f.path, e.path)
      PROVE  e = f
  <2>1. e \in h /\ f \in h
    BY DEF Entries
  <2>2. Len(e.path) = Len(f.path)
    BY <2>1, EntryIs DEF Entries
  <2>3. f.path = e.path
    BY <1>3, <2>1, <2>2, EntryIs, SameSeq DEF Begins
  <2> QED BY <2>1, <2>3, EntryIs
<1> QED BY <1>2, <1>3 DEF Spread, Entries

(* An entry that is yielded: it is not pending any more, all others are as *)
(* they were, and the folder it lies in has been yielded before.           *)
LEMMA TakeIs ==
  ASSUME NEW h \in Hosts, NEW T, Spread(h, T), NEW e \in T,
         NEW U, U = After(h, T, e)
  PROVE  /\ Spread(h, U) /\ Entries(h, e.path) \cap T = {}
         /\ Pending(T, e) /\ ~Pending(U, e)
         /\ \A f \in h : f # e => (Pending(U, f) <=> Pending(T, f))
         /\ \A f \in h : Len(e.path) > 1 /\ f.path = Front(e.path) => ~Pending(T, f)
<1> DEFINE W == Entries(h, e.path)
<1>1. e \in h /\ T \subseteq h /\ W \subseteq h /\ \A f, g \in T : Begins(g.path, f.path) => f = g
  BY DEF Spread, Entries
<1>2. \A f \in h : f.path \in Seq(Names) /\ Len(f.path) \in Nat \ {0}
  BY EntryIs
<1>3. \A c \in W : Len(c.path) = Len(e.path) + 1 /\ Begins(e.path, c.path)
  BY <1>1, <1>2, EntriesAre
<1> HIDE DEF W
<1>4. W \cap T = {}
  <2> SUFFICES ASSUME NEW c \in W, c \in T PROVE FALSE
    OBVIOUS
  <2>1. c = e
    BY <1>1, <1>3
  <2> QED BY <1>1, <1>2, <1>3, <2>1
<1>5. \A f \in h : Begins(f.path, f.path)
  BY <1>2 DEF Begins
<1>6. ASSUME NEW f \in h, NEW g \in h, Begins(f.path, g.path), Begins(g.path, f.path)
      PROVE  f = g
  <2>1. Len(f.path) = Len(g.path)
    BY <1>2, <1>6 DEF Begins
  <2>2. f.path = g.path
    BY <1>2, <1>6, <2>1, SameSeq DEF Begins
  <2> QED BY <2>2, EntryIs
<1>7. ASSUME NEW c \in W, NEW f \in T \ {e} PROVE ~Begins(f.path, c.path) /\ ~Begins(c.path, f.path)
  <2>1. f \in h /\ c \in h /\ ~Begins(e.path, f.path) /\ ~Begins(f.path, e.path)
    BY <1>1
  <2>2. ASSUME Begins(c.path, f.path) PROVE FALSE
    <3>1. Begins(e.path, f.path)
      BY <1>1, <1>2, <1>3, <2>1, <2>2, BeginsAgain
    <3> QED BY <2>1, <3>1
  <2>3. ASSUME Begins(f.path, c.path) PROVE FALSE
    <3>1. CASE Len(f.path) <= Len(e.path)
      <4>1. \A k \in 1 .. Len(f.path) : k \in 1 .. Len(e.path)
        BY <1>1, <1>2, <2>1, <3>1
      <4>2. Begins(f.path, e.path)
        BY <1>3, <2>3, <3>1, <4>1 DEF Begins
      <4> QED BY <2>1, <4>2
    <3>2. CASE ~(Len(f.path) <= Len(e.path))
      <4>1. Len(f.path) = Len(c.path)
        BY <1>1, <1>2, <1>3, <2>1, <2>3, <3>2 DEF Begins
      <4>2. Begins(c.path, f.path)
        BY <1>2, <2>1, <2>3, <4>1 DEF Begins
      <4> QED BY <2>2, <4>2
    <3> QED BY <3>1, <3>2
  <2> QED BY <2>2, <2>3
<1>8. ASSUME NEW c \in W, NEW f \in W, Begins(c.path, f.path) PROVE c = f
  <2>1. Len(c.path) = Len(f.path) /\ c \in h /\ f \in h
    BY <1>1, <1>3
  <2>2. Begins(f.path, c.path)
    BY <1>2, <1>8, <2>1 DEF Begins
  <2> QED BY <1>6, <1>8, <2>1, <2>2
<1>9. U = (T \ {e}) \cup W
  BY DEF W, After
<1>10. Spread(h, U)
  <2>1. ASSUME NEW f \in U, NEW g \in U, Begins(g.path, f.path) PROVE f = g
    BY <1>1, <1>7, <1>8, <1>9, <2>1
  <2> QED BY <1>1, <1>9, <2>1 DEF Spread
<1>11. Pending(T, e)
  BY <1>1, <1>5 DEF Pending
<1>12. ~Pending(U, e)
  <2> SUFFICES ASSUME NEW f \in U, Begins(f.path, e.path) PROVE FALSE
    BY DEF Pending
  <2>1. CASE f \in T \ {e}
    BY <1>1, <2>1
  <2>2. CASE f \in W
    BY <1>1, <1>2, <1>3, <2>2 DEF Begins
  <2> QED BY <1>9, <2>1, <2>2
<1>13. ASSUME NEW f \in h, f # e PROVE Pending(U, f) <=> Pending(T, f)
  <2>1. ASSUME NEW g \in U, Begins(g.path, f.path) PROVE Pending(T, f)
    <3>1. CASE g \in T
      BY <2>1, <3>1 DEF Pending
    <3>2. CASE g \in W
      <4>1. Begins(e.path, f.path)
        BY <1>1, <1>2, <1>3, <2>1, <3>2, BeginsAgain
      <4> QED BY <4>1 DEF Pending
    <3> QED BY <1>9, <2>1, <3>1, <3>2
  <2>2. ASSUME NEW g \in T, Begins(g.path, f.path) PROVE Pending(U, f)
    <3>1. CASE g # e
      BY <1>9, <2>2, <3>1 DEF Pending
    <3>2. CASE g = e
      <4>1. Len(e.path) <= Len(f.path)
        BY <2>2, <3>2 DEF Begins
      <4>2. CASE Len(e.path) < Len(f.path)
        <5>1. PICK c \in Entries(h, e.path) : Begins(c.path, f.path)
          BY <1>1, <1>2, <2>2, <3>2, <4>2, Reaches
        <5> QED BY <1>9, <5>1 DEF Pending, W
      <4>3. CASE Len(e.path) = Len(f.path)
        <5>1. Begins(f.path, e.path)
          BY <1>1, <1>2, <2>2, <3>2, <4>3 DEF Begins
        <5> QED BY <1>1, <1>6, <1>13, <2>2, <3>2, <5>1
      <4> QED BY <1>1, <1>2, <4>1, <4>2, <4>3
    <3> QED BY <3>1, <3>2
  <2> QED BY <2>1, <2>2 DEF Pending
<1>14. ASSUME NEW f \in h, Len(e.path) > 1, f.path = Front(e.path) PROVE ~Pending(T, f)
  <2> SUFFICES ASSUME NEW g \in T, Begins(g.path, f.path) PROVE FALSE
    BY DEF Pending
  <2>1. /\ Len(f.path) = Len(e.path) - 1
        /\ \A k \in 1 .. Len(e.path) - 1 : f.path[k] = e.path[k]
    BY <1>1, <1>2, <1>14, EndsOf, EntryIs
  <2>2. Begins(f.path, e.path)
    BY <1>1, <1>2, <2>1 DEF Begins
  <2>3. Begins(g.path, e.path)
    BY <1>1, <1>2, <2>2, BeginsAgain
  <2>4. g = e
    BY <1>1, <2>3
  <2> QED BY <1>1, <1>2, <2>1, <2>4 DEF Begins
<1> QED BY <1>4, <1>10, <1>11, <1>12, <1>13, <1>14 DEF W

(* The running calls of trav_local, one set of entries each.               *)
All(s) == UNION {s[k] : k \in 1 .. Len(s)}
Apart(s) == \A j, k \in 1 .. Len(s) : j # k => s[j] \cap s[k] = {}
Kept(s, e) == Append(Front(s), Last(s) \ {e})
Begun(s, W) == Append(s, W)
Calls(h, s) == s \in Seq(SUBSET h) /\ Apart(s)

LEMMA FrontIs ==
  ASSUME NEW S, NEW s \in Seq(S), s # <<>>
  PROVE  /\ Front(s) \in Seq(S) /\ Len(Front(s)) = Len(s) - 1
         /\ \A k \in 1 .. Len(s) - 1 : Front(s)[k] = s[k]
<1>1. Len(s) \in Nat \ {0} /\ s \in [1 .. Len(s) -> S]
  OBVIOUS
<1> QED BY <1>1 DEF Front

LEMMA OneCall ==
  ASSUME NEW h, NEW W \in SUBSET h
  PROVE  Calls(h, << W >>) /\ All(<< W >>) = W
<1>1. Len(<< W >>) = 1 /\ << W >>[1] = W /\ << W >> \in Seq(SUBSET h)
  OBVIOUS
<1> DEFINE s == << W >>
<1> HIDE DEF s
<1>2. Len(s) = 1 /\ s[1] = W /\ s \in Seq(SUBSET h)
  BY <1>1 DEF s
<1>3. \A k \in 1 .. Len(s) : k = 1
  BY <1>2
<1>4. 1 \in 1 .. Len(s)
  BY <1>2
<1>5. Calls(h, s)
  BY <1>2, <1>3 DEF Calls, Apart
<1>6. All(s) = W
  BY <1>2, <1>3, <1>4 DEF All
<1> QED BY <1>5, <1>6 DEF s

(* The last call yields e.                                                 *)
LEMMA RestIs ==
  ASSUME NEW h, NEW s, Calls(h, s), s # <<>>, NEW e \in Last(s),
         NEW t, t = Kept(s, e)
  PROVE  Calls(h, t) /\ All(t) = All(s) \ {e} /\ e \in All(s)
<1> DEFINE n == Len(s)
<1>1. s \in Seq(SUBSET h) /\ n \in Nat \ {0} /\ Last(s) = s[n] /\ s[n] \in SUBSET h
  BY DEF Calls, Last
<1> DEFINE W == Last(s) \ {e}
           f == Front(s)
<1>2. f \in Seq(SUBSET h) /\ Len(f) = n - 1 /\ \A k \in 1 .. n - 1 : f[k] = s[k]
  <2> DEFINE S == SUBSET h
  <2>1. s \in Seq(S) /\ s # <<>>
    BY <1>1
  <2> HIDE DEF S
  <2>2. f \in Seq(S) /\ Len(f) = n - 1 /\ \A k \in 1 .. n - 1 : f[k] = s[k]
    BY <2>1, FrontIs
  <2> QED BY <2>2 DEF S
<1>3. W \in SUBSET h /\ W = s[n] \ {e} /\ e \in s[n]
  BY <1>1
<1> HIDE DEF W, f
<1>4. t = Append(f, W)
  BY DEF W, f, Kept
<1>5. /\ t \in Seq(SUBSET h) /\ Len(t) = Len(f) + 1
      /\ \A k \in 1 .. Len(f) : t[k] = f[k]
      /\ t[Len(f) + 1] = W
  <2> DEFINE S == SUBSET h
  <2>1. f \in Seq(S) /\ W \in S
    BY <1>2, <1>3
  <2> HIDE DEF S
  <2> DEFINE a == Append(f, W)
  <2>2. /\ a \in Seq(S) /\ Len(a) = Len(f) + 1
        /\ \A k \in 1 .. Len(f) : a[k] = f[k]
        /\ a[Len(f) + 1] = W
    BY <2>1, AppendIs
  <2>3. t = a
    BY <1>4
  <2> HIDE DEF a
  <2> QED BY <2>2, <2>3 DEF S
<1>6. Len(t) = n /\ t[n] = W /\ \A k \in 1 .. n - 1 : t[k] = s[k]
  BY <1>1, <1>2, <1>5
<1>7. \A k \in 1 .. n : k = n \/ k \in 1 .. n - 1
  BY <1>1
<1>8. \A k \in 1 .. n : k # n => e \notin s[k]
  <2>1. n \in 1 .. n
    BY <1>1
  <2> QED BY <1>3, <2>1 DEF Calls, Apart
<1>9. \A k \in 1 .. n : t[k] = s[k] \ {e}
  BY <1>3, <1>6, <1>7, <1>8
<1>10. Calls(h, t)
  BY <1>5, <1>6, <1>9 DEF Calls, Apart
<1>11. All(t) = All(s) \ {e}
  BY <1>6, <1>9 DEF All
<1>12. e \in All(s)
  BY <1>1, <1>3 DEF All
<1> QED BY <1>10, <1>11, <1>12

(* Another call begins.                                                    *)
LEMMA PushIs ==
  ASSUME NEW h, NEW s, Calls(h, s), NEW W \in SUBSET h, W \cap All(s) = {},
         NEW t, t = Begun(s, W)
  PROVE  Calls(h, t) /\ All(t) = All(s) \cup W
<1> DEFINE n == Len(s)
<1>1. s \in Seq(SUBSET h) /\ n \in Nat
  BY DEF Calls
<1>2. /\ t \in Seq(SUBSET h) /\ Len(t) = n + 1
      /\ \A k \in 1 .. n : t[k] = s[k]
      /\ t[n + 1] = W
  <2> DEFINE a == Append(s, W)
             S == SUBSET h
  <2>1. s \in Seq(S) /\ W \in S
    BY <1>1
  <2> HIDE DEF S
  <2>2. /\ a \in Seq(S) /\ Len(a) = n + 1
        /\ \A k \in 1 .. n : a[k] = s[k]
        /\ a[n + 1] = W
    BY <2>1, AppendIs
  <2>3. t = a
    BY DEF Begun
  <2> HIDE DEF a
  <2> QED BY <2>2, <2>3 DEF S
<1>3. \A k \in 1 .. n + 1 : k = n + 1 \/ k \in 1 .. n
  BY <1>1
<1>4. \A k \in 1 .. n : k \in 1 .. n + 1 /\ k # n + 1
  BY <1>1
<1>5. n + 1 \in 1 .. n + 1
  BY <1>1
<1>6. \A k \in 1 .. n : t[k] \cap W = {}
  BY <1>2 DEF All
<1>7. Apart(t)
  <2> SUFFICES ASSUME NEW j \in 1 .. n + 1, NEW k \in 1 .. n + 1, j # k PROVE t[j] \cap t[k] = {}
    BY <1>2 DEF Apart
  <2>1. CASE j \in 1 .. n /\ k \in 1 .. n
    BY <1>2, <2>1 DEF Calls, Apart
  <2>2. CASE j = n + 1 \/ k = n + 1
    BY <1>2, <1>3, <1>6, <2>2
  <2> QED BY <1>3, <2>1, <2>2
<1>8. All(t) = All(s) \cup W
  <2>1. \A x : x \in All(t) => x \in All(s) \cup W
    BY <1>2, <1>3 DEF All
  <2>2. \A x : x \in All(s) \cup W => x \in All(t)
    BY <1>2, <1>4, <1>5 DEF All
  <2> QED BY <2>1, <2>2
<1> QED BY <1>2, <1>7, <1>8 DEF Calls

(* The last call has nothing more to yield and returns.                    *)
LEMMA PopIs ==
  ASSUME NEW h, NEW s, Calls(h, s), s # <<>>, Last(s) = {}, NEW t, t = Front(s)
  PROVE  Calls(h, t) /\ All(t) = All(s)
<1> DEFINE n == Len(s)
<1>1. s \in Seq(SUBSET h) /\ n \in Nat \ {0} /\ s[n] = {}
  BY DEF Calls, Last
<1>2. t \in Seq(SUBSET h) /\ Len(t) = n - 1 /\ \A k \in 1 .. n - 1 : t[k] = s[k]
  <2> DEFINE S == SUBSET h
  <2>1. s \in Seq(S) /\ s # <<>>
    BY <1>1
  <2> HIDE DEF S
  <2>2. t \in Seq(S) /\ Len(t) = n - 1 /\ \A k \in 1 .. n - 1 : t[k] = s[k]
    BY <2>1, FrontIs
  <2> QED BY <2>2 DEF S
<1>3. \A k \in 1 .. n : k = n \/ k \in 1 .. n - 1
  BY <1>1
<1>4. \A k \in 1 .. n - 1 : k \in 1 .. n
  BY <1>1
<1>5. Apart(t)
  BY <1>2, <1>4 DEF Calls, Apart
<1>6. All(t) = All(s)
  <2>1. \A x : x \in All(t) => x \in All(s)
    BY <1>2, <1>4 DEF All
  <2>2. \A x : x \in All(s) => x \in All(t)
    BY <1>1, <1>2, <1>3 DEF All
  <2> QED BY <2>1, <2>2
<1> QED BY <1>2, <1>5, <1>6 DEF Calls

-----------------------------------------------------------------------------
(* What has been done of the host directory.                               *)

(* The entry is on the disk, at its place and with its contents, unless    *)
(* they were cut short.                                                    *)
On(d, e) ==
  \E y \in Shown(d) : /\ y.path = e.path
                      /\ IsDir(d, y.inode) <=> e.data = Folder
                      /\ \/ e.data = Folder \/ d.node[y.inode].data = e.data
                         \/ y.inode \in d.damaged

Tty == <<"dev", "tty1">>
OwnPath(p) == p = <<"dev">> \/ p = Tty

Pardoned(d, e) ==
  \/ e.path = <<"dev">> \/ IsPrefix(Tty, e.path)
  \/ Overlong(e.path)
  \/ e.data \in TooLarge

(* What format made is there.                                              *)
Framed(d) ==
  /\ \E y \in Shown(d) : y.path = <<"dev">> /\ IsDir(d, y.inode)
  /\ \E y \in Shown(d) : /\ y.path = Tty /\ d.node[y.inode].type = "char"
                         /\ d.node[y.inode].data = Empty

OnlyHost(d, h) ==
  \A y \in Shown(d) : y.path = <<>> \/ OwnPath(y.path) \/ \E e \in h : e.path = y.path

(* With T still to be yielded and F failed: what has been yielded is done, *)
(* what has not is not there.                                              *)
Settled(d, h, T, F) ==
  /\ \A e \in h : ~Pending(T, e) => e \in F \/ On(d, e)
  /\ \A e \in F : Pardoned(d, e)
  /\ \A e \in h : Pending(T, e) /\ Taken(d, e.path) => OwnPath(e.path)

LEMMA TtyIs ==
  ASSUME NEW p \in Seq(Names)
  PROVE  IsPrefix(Tty, p) <=> Len(p) >= 2 /\ p[1] = "dev" /\ p[2] = "tty1"
<1>1. Len(p) \in Nat /\ Len(Tty) = 2 /\ Tty[1] = "dev" /\ Tty[2] = "tty1" /\ Tty \in Seq(Names)
  <2>1. "dev" \in Names /\ "tty1" \in Names
    BY NamesAssumption
  <2> QED BY <2>1 DEF Tty
<1>2. SubSeq(Tty, 1, 2) = Tty
  BY <1>1
<1>3. IsPrefix(Tty, p) <=> 2 <= Len(p) /\ Tty = SubSeq(p, 1, 2)
  BY <1>1, <1>2 DEF IsPrefix
<1>4. ASSUME 2 <= Len(p) PROVE Tty = SubSeq(p, 1, 2) <=> p[1] = "dev" /\ p[2] = "tty1"
  <2> DEFINE s == SubSeq(p, 1, 2)
  <2>1. s \in Seq(Names) /\ Len(s) = 2 /\ s[1] = p[1] /\ s[2] = p[2]
    BY <1>1, <1>4
  <2> HIDE DEF s
  <2>2. \A k \in 1 .. 2 : k = 1 \/ k = 2
    OBVIOUS
  <2>3. ASSUME p[1] = "dev", p[2] = "tty1" PROVE Tty = s
    <3>1. Len(Tty) = Len(s) /\ \A k \in 1 .. Len(Tty) : Tty[k] = s[k]
      BY <1>1, <2>1, <2>2, <2>3
    <3> QED BY <1>1, <2>1, <3>1, SameSeq
  <2>4. ASSUME Tty = s PROVE p[1] = "dev" /\ p[2] = "tty1"
    BY <1>1, <2>1, <2>4
  <2> QED BY <2>3, <2>4 DEF s
<1>5. 2 <= Len(p) <=> Len(p) >= 2
  BY <1>1
<1> QED BY <1>3, <1>4, <1>5

LEMMA DevIs ==
  ASSUME NEW p, p = <<"dev">>
  PROVE  p \in Seq(Names) /\ Len(p) = 1
<1>1. "dev" \in Names
  BY NamesAssumption
<1> QED BY <1>1

LEMMA OwnIs ==
  ASSUME NEW e, OwnPath(e.path), NEW d
  PROVE  Pardoned(d, e)
<1>1. CASE e.path = <<"dev">>
  BY <1>1 DEF Pardoned
<1>2. CASE e.path = Tty
  <2>1. "dev" \in Names /\ "tty1" \in Names
    BY NamesAssumption
  <2>2. Tty \in Seq(Names) /\ Len(Tty) = 2 /\ Tty[1] = "dev" /\ Tty[2] = "tty1"
    BY <2>1 DEF Tty
  <2>3. IsPrefix(Tty, Tty)
    <3>1. Len(Tty) >= 2
      BY <2>2
    <3> QED BY <2>2, <3>1, TtyIs
  <2> QED BY <1>2, <2>3 DEF Pardoned
<1> QED BY <1>1, <1>2 DEF OwnPath

LEMMA RootShown ==
  ASSUME NEW d, Healthy(d)
  PROVE  Spot(<<>>, Root) \in Shown(d) /\ IsDir(d, Root)
<1> DEFINE s == << Root >>
<1>1. s \in Seq(Inode) /\ Len(s) = 1 /\ s[1] = Root /\ Last(s) = Root
  BY InodeAssumption DEF Last
<1>2. <<>> \in Word /\ Len(<<>>) = 0
  BY DEF Word
<1> HIDE DEF s
<1>3. Trail(d, <<>>, s)
  BY <1>1, <1>2 DEF Trail
<1> QED BY <1>1, <1>3, ShownIs DEF Healthy, IsDir

(* A command that is refused had a reason: its entry's name, or that of a  *)
(* folder above, is taken by format or too long.                           *)
LEMMA RefusedFor ==
  ASSUME NEW d, Healthy(d), NEW h \in Hosts, NEW T, Spread(h, T), NEW e \in T, NEW F,
         Settled(d, h, T, F), Framed(d), Refusable(d, e.path)
  PROVE  Pardoned(d, e)
<1> DEFINE p == e.path
<1>1. e \in h /\ p \in Seq(Names) /\ p # <<>> /\ Len(p) \in Nat \ {0}
  BY EntryIs DEF Spread
<1>2. /\ Front(p) \in Seq(Names) /\ Len(Front(p)) = Len(p) - 1
      /\ \A k \in 1 .. Len(p) - 1 : Front(p)[k] = p[k]
      /\ Last(p) \in Range(p)
  BY <1>1, EndsOf
<1>0. PICK U : U = After(h, T, e)
  OBVIOUS
<1>3. CASE Last(p) \in TooLong
  BY <1>2, <1>3 DEF Pardoned, Overlong
<1>4. CASE Taken(d, p)
  <2>1. Pending(T, e)
    BY <1>0, TakeIs
  <2>2. OwnPath(p)
    BY <1>1, <1>4, <2>1 DEF Settled
  <2> QED BY <2>2, OwnIs
<1>6. CASE ~DirAt(d, Front(p))
  <2>1. CASE Len(p) = 1
    <3>1. Front(p) = <<>>
      BY <1>2, <2>1
    <3> QED BY <1>6, <3>1, RootShown, SpotIs DEF DirAt
  <2>2. CASE Len(p) > 1
    <3>1. PICK f \in h : f.path = Front(p) /\ f.data = Folder
      BY <1>1, <2>2, EntryIs
    <3>2. ~Pending(T, f)
      BY <1>0, <2>2, <3>1, TakeIs
    <3>3. CASE On(d, f)
      BY <1>6, <3>1, <3>3 DEF On, DirAt
    <3>4. CASE f \in F
      <4>1. Pardoned(d, f)
        BY <3>4 DEF Settled
      <4>2. CASE f.path = <<"dev">>
        BY <1>6, <3>1, <4>2 DEF Framed, DirAt
      <4>3. CASE IsPrefix(Tty, f.path)
        <5> DEFINE q == Front(p)
        <5>1. IsPrefix(Tty, q) /\ q \in Seq(Names) /\ Len(q) = Len(p) - 1
              /\ \A k \in 1 .. Len(p) - 1 : q[k] = p[k]
          BY <1>2, <3>1, <4>3
        <5> HIDE DEF q, p
        <5>2. Len(q) >= 2 /\ q[1] = "dev" /\ q[2] = "tty1"
          BY <5>1, TtyIs
        <5>3. Len(p) >= 2 /\ 1 \in 1 .. Len(p) - 1 /\ 2 \in 1 .. Len(p) - 1
          BY <1>1, <5>1, <5>2
        <5>4. IsPrefix(Tty, p)
          BY <1>1, <5>1, <5>2, <5>3, TtyIs
        <5> QED BY <5>4 DEF Pardoned, p
      <4>4. CASE Overlong(f.path)
        <5> DEFINE q == Front(p)
        <5>1. Overlong(q) /\ q \in Seq(Names) /\ Len(q) = Len(p) - 1
              /\ \A k \in 1 .. Len(p) - 1 : q[k] = p[k]
          BY <1>2, <3>1, <4>4
        <5> HIDE DEF q, p
        <5>2. PICK k \in 1 .. Len(q) : q[k] \in TooLong
          BY <5>1 DEF Overlong, Range
        <5>3. k \in 1 .. Len(p) - 1 /\ k \in DOMAIN p
          BY <1>1, <5>1
        <5>4. p[k] \in Range(p) /\ p[k] \in TooLong
          BY <5>1, <5>2, <5>3 DEF Range
        <5>5. Overlong(p)
          BY <5>4 DEF Overlong
        <5> QED BY <5>5 DEF Pardoned, p
      <4>5. CASE f.data \in TooLarge
        BY <3>1, <4>5, HostAssumption, DataAssumption
      <4> QED BY <4>1, <4>2, <4>3, <4>4, <4>5 DEF Pardoned
    <3> QED BY <3>2, <3>3, <3>4 DEF Settled
  <2>3. Len(p) = 1 \/ Len(p) > 1
    <3> DEFINE n == Len(p)
    <3>1. n \in Nat \ {0}
      BY <1>1
    <3> HIDE DEF n
    <3>2. n = 1 \/ n > 1
      BY <3>1
    <3> QED BY <3>2 DEF n
  <2> QED BY <2>1, <2>2, <2>3
<1> QED BY <1>3, <1>4, <1>6 DEF Refusable

(* What stood on the disk stands there still.                              *)
LEMMA StillOn ==
  ASSUME NEW d, NEW r, Holds(d, r), Shown(d) \subseteq Shown(r),
         \A y \in Shown(d) : Intact(d, r, y.inode)
  PROVE  /\ \A e : On(d, e) => On(r, e)
         /\ Framed(d) => Framed(r)
<1>1. ASSUME NEW e, On(d, e) PROVE On(r, e)
  <2>1. PICK y \in Shown(d) :
             /\ y.path = e.path
             /\ IsDir(d, y.inode) <=> e.data = Folder
             /\ \/ e.data = Folder \/ d.node[y.inode].data = e.data
                \/ y.inode \in d.damaged
    BY <1>1 DEF On
  <2>2. y \in Shown(r) /\ (IsDir(r, y.inode) <=> IsDir(d, y.inode))
        /\ r.node[y.inode].data = d.node[y.inode].data
        /\ (y.inode \in d.damaged => y.inode \in r.damaged)
    BY <2>1 DEF Intact, IsDir, Holds
  <2> QED BY <2>1, <2>2 DEF On
<1>2. Framed(d) => Framed(r)
  BY DEF Framed, Intact, IsDir
<1> QED BY <1>1, <1>2

LEMMA StillPardoned ==
  ASSUME NEW d, NEW r, Holds(d, r), NEW e, Pardoned(d, e)
  PROVE  Pardoned(r, e)
BY DEF Pardoned, Holds

LEMMA StillBroken ==
  ASSUME NEW d, Healthy(d), NEW r, Holds(d, r), ~Whole(d)
  PROVE  ~Whole(r)
<1>1. PICK i \in d.damaged : IsDir(d, i)
  BY DEF Whole
<1>2. i \in Inode
  BY DEF Healthy, Typed
<1> QED BY <1>1, <1>2 DEF Whole, Holds

Kind(e) == IF e.data = Folder THEN "dir" ELSE "normal"
FailedAfter(F, r, e) == IF r.ok THEN F ELSE F \cup {e}

(* One entry further: the command has had its outcome, what it was for is  *)
(* not pending any more.                                                   *)
LEMMA SettledStep ==
  ASSUME NEW d, Healthy(d), NEW h \in Hosts, NEW T, Spread(h, T), NEW e \in T, NEW F,
         NEW type, type = Kind(e),
         NEW r, Outcome(d, r, e.path, type, e.data),
         Whole(d) => Settled(d, h, T, F), Framed(d), OnlyHost(d, h),
         NEW U, U = After(h, T, e), NEW G, G = FailedAfter(F, r, e)
  PROVE  /\ Framed(r.disk) /\ OnlyHost(r.disk, h)
         /\ Whole(r.disk) => Settled(r.disk, h, U, G)
<1> DEFINE b == r.disk
           p == e.path
<1>1. e \in h /\ p \in Seq(Names) /\ Healthy(b) /\ Holds(d, b)
  BY EntryIs DEF Spread, Outcome, Sane
<1>2. /\ Pending(T, e) /\ ~Pending(U, e)
      /\ \A f \in h : f # e => (Pending(U, f) <=> Pending(T, f))
      /\ \A f \in h : e.path = f.path => e = f
  <2>1. \A f \in h : e.path = f.path => e = f
    BY <1>1, EntryIs
  <2>2. /\ h \in Hosts /\ Spread(h, T) /\ e \in T
        /\ U = After(h, T, e)
    OBVIOUS
  <2>3. /\ Pending(T, e) /\ ~Pending(U, e)
        /\ \A f \in h : f # e => (Pending(U, f) <=> Pending(T, f))
    BY ONLY <2>2, TakeIs
  <2> QED BY <2>1, <2>3
<1>3. ASSUME \A f \in h : f # e /\ On(d, f) => On(b, f),
             \A f \in h : f # e /\ Taken(b, f.path) => Taken(d, f.path),
             Whole(b) => (e \in G \/ On(b, e)) /\ (e \in G \ F => Pardoned(b, e)), Whole(b)
      PROVE  Settled(b, h, U, G)
  <2>1. Settled(d, h, T, F)
    BY <1>1, <1>3, StillBroken
  <2>2. G \subseteq F \cup {e} /\ F \subseteq G
    BY DEF FailedAfter
  <2>3. \A f \in h : ~Pending(U, f) => f \in G \/ On(b, f)
    BY <1>2, <1>3, <2>1, <2>2 DEF Settled
  <2>4. \A f \in G : Pardoned(b, f)
    <3> SUFFICES ASSUME NEW f \in G PROVE Pardoned(b, f)
      OBVIOUS
    <3>1. CASE f \in F
      BY <1>1, <2>1, <3>1, StillPardoned DEF Settled
    <3>2. CASE f \notin F
      BY <1>3, <2>2, <3>2
    <3> QED BY <3>1, <3>2
  <2>5. \A f \in h : Pending(U, f) /\ Taken(b, f.path) => OwnPath(f.path)
    BY <1>2, <1>3, <2>1 DEF Settled
  <2> QED BY <2>3, <2>4, <2>5 DEF Settled
<1>4. CASE ~r.ok /\ b = d /\ Refusable(d, p)
  <2>1. e \in G /\ (Whole(b) => Pardoned(b, e))
    BY <1>1, <1>4, RefusedFor DEF FailedAfter
  <2>2. Whole(b) => Settled(b, h, U, G)
    BY <1>3, <1>4, <2>1
  <2> QED BY <1>4, <2>2
<1>5. CASE /\ ~Whole(b) /\ Shown(b) = Shown(d)
           /\ \A y \in Shown(d) : Intact(d, b, y.inode)
  <2>1. Framed(b)
    BY <1>1, <1>5, StillOn
  <2>2. OnlyHost(b, h)
    BY <1>5 DEF OnlyHost
  <2> QED BY <1>5, <2>1, <2>2
<1>6. ASSUME NEW i, Placed(d, b, p, i), b.node[i].type = type,
             r.ok /\ type = "normal" => b.node[i].data = e.data \/ i \in b.damaged,
             ~r.ok => e.data \in TooLarge
      PROVE  /\ Framed(b) /\ OnlyHost(b, h)
             /\ Whole(b) => Settled(b, h, U, G)
  <2>1. /\ Shown(b) = Shown(d) \cup {Spot(p, i)}
        /\ \A y \in Shown(d) : y.path # p /\ Intact(d, b, y.inode)
    BY <1>6 DEF Placed
  <2>2. Spot(p, i).path = p /\ Spot(p, i).inode = i
    BY SpotIs
  <2>3. /\ Framed(b)
        /\ \A f : On(d, f) => On(b, f)
    BY <1>1, <2>1, StillOn
  <2>4. OnlyHost(b, h)
    BY <1>1, <2>1, <2>2 DEF OnlyHost
  <2>5. \A f \in h : f # e /\ Taken(b, f.path) => Taken(d, f.path)
    BY <1>2, <2>1, <2>2 DEF Taken
  <2>6. CASE r.ok
    <3>1. IsDir(b, i) <=> e.data = Folder
      BY <1>6 DEF IsDir, Kind
    <3>2. e.data = Folder \/ b.node[i].data = e.data \/ i \in b.damaged
      BY <1>6, <2>6 DEF Kind
    <3>3. On(b, e)
      BY <2>1, <2>2, <3>1, <3>2 DEF On
    <3>4. G = F
      BY <2>6 DEF FailedAfter
    <3> QED BY <1>3, <2>3, <2>4, <2>5, <3>3, <3>4
  <2>7. CASE ~r.ok
    <3>1. Pardoned(b, e) /\ e \in G
      BY <1>6, <2>7 DEF Pardoned, FailedAfter
    <3> QED BY <1>3, <2>3, <2>4, <2>5, <3>1
  <2> QED BY <2>6, <2>7
<1> QED BY <1>4, <1>5, <1>6 DEF Outcome

-----------------------------------------------------------------------------
(* Along the steps of makeimage.                                           *)

Walking(d, h, s, F) ==
  /\ h \in Hosts /\ Calls(h, s) /\ Spread(h, All(s))
  /\ Framed(d) /\ OnlyHost(d, h)
  /\ Whole(d) => Settled(d, h, All(s), F)

(* Until the root is handed out, and once it was.                          *)
Going == Tidy /\ cwd = << Root >> /\ Walking(disk, host, todo, failed)

BuildInv ==
  /\ stage \in {"parsing", "building", "over"}
  /\ stage = "parsing" => host = {} /\ failed = {}
  /\ stage # "building" => todo = <<>>
  /\ stage = "building" \/ host # {} => Going \/ Astray(disk)

LEMMA FileIsEnd ==
  ASSUME NEW h \in Hosts, NEW e \in h, e.data # Folder
  PROVE  Entries(h, e.path) = {}
<1> SUFFICES ASSUME NEW c \in Entries(h, e.path) PROVE FALSE
  OBVIOUS
<1>1. c \in h /\ Len(c.path) = Len(e.path) + 1 /\ Front(c.path) = e.path
  BY DEF Entries
<1>2. Len(c.path) > 1
  <2> DEFINE n == Len(e.path)
  <2>1. n \in Nat \ {0}
    BY EntryIs
  <2> HIDE DEF n
  <2>2. n + 1 > 1
    BY <2>1
  <2> QED BY <1>1, <2>2 DEF n
<1>3. PICK f \in h : f.path = Front(c.path) /\ f.data = Folder
  BY <1>1, <1>2, EntryIs
<1>4. f = e
  BY <1>1, <1>3, EntryIs
<1> QED BY <1>3, <1>4

(* The calls go on, and the one for a folder begins.                       *)
CallsAfter(h, s, e) ==
  IF e.data = Folder THEN Begun(Kept(s, e), Entries(h, e.path)) ELSE Kept(s, e)

LEMMA CallsStep ==
  ASSUME NEW h \in Hosts, NEW s, Calls(h, s), s # <<>>, Spread(h, All(s)), NEW e \in Last(s),
         NEW t, t = CallsAfter(h, s, e)
  PROVE  /\ e \in All(s) /\ e \in h
         /\ Calls(h, t) /\ All(t) = After(h, All(s), e)
<1>0. PICK rest : rest = Kept(s, e)
  OBVIOUS
<1>1. Calls(h, rest) /\ All(rest) = All(s) \ {e} /\ e \in All(s)
  BY <1>0, RestIs
<1>2. e \in h
  BY <1>1 DEF Spread
<1> DEFINE W == Entries(h, e.path)
<1>3. CASE e.data # Folder
  <2>1. W = {}
    BY <1>2, <1>3, FileIsEnd
  <2>2. t = rest
    BY <1>0, <1>3 DEF CallsAfter
  <2> QED BY <1>1, <1>2, <2>1, <2>2 DEF After
<1>4. CASE e.data = Folder
  <2>1. W \in SUBSET h
    BY DEF Entries
  <2>2. PICK U : U = After(h, All(s), e)
    OBVIOUS
  <2>3. W \cap All(s) = {}
    BY <1>1, <2>2, TakeIs
  <2> HIDE DEF W
  <2>4. W \cap All(rest) = {} /\ t = Begun(rest, W)
    BY <1>0, <1>1, <1>4, <2>3 DEF CallsAfter, W
  <2>5. Calls(h, t) /\ All(t) = All(rest) \cup W
    BY <1>1, <2>1, <2>4, PushIs
  <2> QED BY <1>1, <1>2, <2>5 DEF W, After
<1> QED BY <1>3, <1>4

LEMMA CommandStep ==
  ASSUME Tidy, cwd = << Root >>, Walking(disk, host, todo, failed), todo # <<>>,
         NEW e \in Last(todo), NEW r, Outcome(disk, r, e.path, Kind(e), e.data), Leaves(r),
         UNCHANGED cwd, host' = host, Note(e), todo' = CallsAfter(host, todo, e)
  PROVE  Going'
<1>1. Tidy' /\ cwd' = << Root >>
  <2>1. Sane(r)
    BY DEF Outcome
  <2> QED BY <2>1, LeavesIs
<1>2. PICK d, h, s, F, t, G : d = disk /\ h = host /\ s = todo /\ F = failed /\ t = todo' /\ G = failed'
  OBVIOUS
<1>3. /\ h \in Hosts /\ Calls(h, s) /\ Spread(h, All(s)) /\ Framed(d) /\ OnlyHost(d, h)
      /\ Whole(d) => Settled(d, h, All(s), F)
      /\ Healthy(d)
  BY <1>2 DEF Walking, Tidy
<1>4. /\ e \in All(s) /\ e \in h
      /\ Calls(h, t) /\ All(t) = After(h, All(s), e)
  <2>1. s # <<>> /\ e \in Last(s) /\ t = CallsAfter(h, s, e)
    BY <1>2
  <2> QED BY ONLY <1>3, <2>1, CallsStep
<1>5. G = FailedAfter(F, r, e)
  <2>1. rc' = IF r.ok THEN 0 ELSE -1
    BY DEF Leaves
  <2>2. failed' = IF rc' = -1 THEN failed \cup {e} ELSE failed
    BY DEF Note
  <2> QED BY <1>2, <2>1, <2>2 DEF FailedAfter
<1>6. Outcome(d, r, e.path, Kind(e), e.data) /\ disk' = r.disk
  BY <1>2 DEF Leaves
<1> DEFINE U == All(t)
<1>7. /\ Framed(r.disk) /\ OnlyHost(r.disk, h)
      /\ Whole(r.disk) => Settled(r.disk, h, U, G)
  <2>1. PICK type : type = Kind(e)
    OBVIOUS
  <2> DEFINE T == All(s)
  <2>2. Spread(h, T) /\ e \in T /\ (Whole(d) => Settled(d, h, T, F)) /\ U = After(h, T, e)
    BY <1>3, <1>4
  <2> HIDE DEF T, U
  <2> QED BY ONLY <1>3, <1>5, <1>6, <2>1, <2>2, SettledStep
<1>8. Spread(h, U)
  <2> DEFINE T == All(s)
  <2>1. Spread(h, T) /\ e \in T /\ U = After(h, T, e)
    BY <1>3, <1>4
  <2> HIDE DEF T, U
  <2> QED BY ONLY <1>3, <2>1, TakeIs
<1>9. Walking(r.disk, h, t, G)
  BY <1>3, <1>4, <1>7, <1>8 DEF Walking
<1> QED BY <1>1, <1>2, <1>6, <1>9 DEF Going

LEMMA FormatWalks ==
  ASSUME NEW d \in FormattedDisks, NEW h \in Hosts, NEW s, s = << Entries(h, <<>>) >>
  PROVE  Walking(d, h, s, {})
<1> DEFINE W == Entries(h, <<>>)
<1>1. W \in SUBSET h
  BY DEF Entries
<1>2. Calls(h, s) /\ All(s) = W
  BY <1>1, OneCall
<1>3. Spread(h, W) /\ \A e \in h : Pending(W, e)
  BY StartSpread
<1>4. Healthy(d) /\ NodesOf(d) = FirstTree
  BY FormattedIs, FormattedShows
<1>5. \A y \in Shown(d) : y.path = <<>> \/ OwnPath(y.path)
  <2> SUFFICES ASSUME NEW y \in Shown(d) PROVE y.path = <<>> \/ OwnPath(y.path)
    OBVIOUS
  <2>1. Seen(d, y) \in FirstTree
    BY <1>4 DEF NodesOf
  <2>2. Seen(d, y).path \in {<<>>, <<"dev">>, Tty}
    BY <2>1 DEF FirstTree, Tty
  <2> QED BY <2>2, SeenIs DEF OwnPath
<1>6. \A j \in Inode : d.node[j].data = Empty
  <2>1. PICK dev \in Inode \ {Root}, tty \in Inode \ {Root} : dev # tty /\ d = Formatted(dev, tty)
    BY DEF FormattedDisks
  <2> SUFFICES ASSUME NEW j \in Inode PROVE d.node[j].data = Empty
    OBVIOUS
  <2>2. d.node[j] = CASE j = Root -> [Blank("dir") EXCEPT !.entries = << [name |-> "dev", inode |-> dev] >>]
                      [] j = dev -> [Blank("dir") EXCEPT !.entries = << [name |-> "tty1", inode |-> tty] >>]
                      [] j = tty -> Blank("char")
                      [] OTHER -> Blank("none")
    BY <2>1 DEF Formatted
  <2>3. \A type, x : [Blank(type) EXCEPT !.entries = x].data = Empty
    BY DEF Blank
  <2> QED BY <2>2, <2>3, BlankData
<1>7. Framed(d)
  <2>1. \A n \in FirstTree : \E y \in Shown(d) : Seen(d, y) = n
    BY <1>4 DEF NodesOf
  <2>2. /\ [path |-> <<"dev">>, type |-> "dir"] \in FirstTree
        /\ [path |-> Tty, type |-> "char"] \in FirstTree
    BY DEF FirstTree, Tty
  <2>3. PICK y \in Shown(d) : Seen(d, y) = [path |-> <<"dev">>, type |-> "dir"]
    BY <2>1, <2>2
  <2>4. PICK z \in Shown(d) : Seen(d, z) = [path |-> Tty, type |-> "char"]
    BY <2>1, <2>2
  <2>5. y.path = <<"dev">> /\ IsDir(d, y.inode)
    BY <2>3, SeenIs DEF IsDir
  <2>6. z.path = Tty /\ d.node[z.inode].type = "char" /\ d.node[z.inode].data = Empty
    BY <1>4, <1>6, <2>4, SeenIs, ShownIs
  <2> QED BY <2>5, <2>6 DEF Framed
<1>8. Settled(d, h, W, {})
  <2>1. \A e \in h : Taken(d, e.path) => OwnPath(e.path)
    BY <1>5, EntryIs DEF Taken
  <2> QED BY <1>3, <2>1 DEF Settled
<1> QED BY <1>2, <1>3, <1>5, <1>7, <1>8 DEF Walking, OnlyHost

(* No command is followed once the root was handed out.                    *)
LEMMA AstrayBuilds ==
  ASSUME Astray(disk), NEW e
  PROVE  ~UploadEntry(e) /\ ~EnterFolder(e)
<1>1. \A x : ~Sound(x)
  BY DEF Sound, Astray
<1> QED BY <1>1 DEF UploadEntry, EnterFolder, Upload, Mkdir, MakeFile

LEMMA UploadStep ==
  ASSUME BuildInv, ~Astray(disk'), NEW e \in host, UploadEntry(e)
  PROVE  Going'
<1>1. /\ stage = "building" /\ todo # <<>> /\ e \in Last(todo) /\ e.data # Folder
      /\ Upload(Absolute(e.path), e.data) /\ todo' = Rest(e) /\ Note(e) /\ host' = host
  BY DEF UploadEntry, Yield
<1>2. Tidy /\ cwd = << Root >> /\ Walking(disk, host, todo, failed)
  BY <1>1, AstrayBuilds DEF BuildInv, Going
<1>3. Healthy(disk) /\ AtHome(disk) /\ Balanced(disk) /\ Counted(disk)
  BY <1>2 DEF Tidy
<1>4. e.path \in Seq(Names) /\ e.path # <<>> /\ e.data \in Data
  <2>1. host \in Hosts
    BY <1>2 DEF Walking
  <2> QED BY <1>1, <2>1, EntryIs
<1> DEFINE path == Absolute(e.path)
<1>5. path \in Path
  BY <1>4, AbsoluteIs
<1> HIDE DEF path
<1>6. /\ Sound(Looked(ParentPath(path))) /\ UNCHANGED cwd
      /\ Command({Uploaded(t, e.data) : t \in Touched(disk, path, "normal")})
  BY <1>1 DEF Upload, path
<1>7. PICK t \in Touched(disk, path, "normal") :
           LET r == Uploaded(t, e.data) IN disk' = r.disk /\ rc' = IF r.ok THEN 0 ELSE -1
  BY <1>6 DEF Command
<1>8. PICK r : r = Uploaded(t, e.data)
  OBVIOUS
<1>9. Leaves(r)
  BY <1>7, <1>8 DEF Leaves
<1>10. Walk(disk, ParentPath(path), FALSE) # <<>>
         => Last(Walk(disk, ParentPath(path), FALSE)) \notin disk.damaged
  <2>1. ParentPath(path) \in Path
    BY <1>5, ParentPathIs
  <2> QED BY <1>6, <2>1, LookedIs
<1>11. Outcome(disk, r, e.path, "normal", e.data)
  <2>1. ~Astray(r.disk)
    BY <1>9 DEF Leaves
  <2> QED BY <1>2, <1>3, <1>4, <1>8, <1>10, <2>1, UploadOutcome DEF path
<1>12. Kind(e) = "normal" /\ todo' = CallsAfter(host, todo, e)
  BY <1>1 DEF Kind, CallsAfter, Kept, Rest
<1> QED BY <1>1, <1>2, <1>6, <1>9, <1>11, <1>12, CommandStep

LEMMA FolderStep ==
  ASSUME BuildInv, ~Astray(disk'), NEW e \in host, EnterFolder(e)
  PROVE  Going'
<1>1. /\ stage = "building" /\ todo # <<>> /\ e \in Last(todo) /\ e.data = Folder
      /\ Mkdir(Absolute(e.path)) /\ todo' = Append(Rest(e), In(e.path)) /\ Note(e) /\ host' = host
  BY DEF EnterFolder, Yield
<1>2. Tidy /\ cwd = << Root >> /\ Walking(disk, host, todo, failed)
  BY <1>1, AstrayBuilds DEF BuildInv, Going
<1>3. Healthy(disk) /\ AtHome(disk) /\ Balanced(disk) /\ Counted(disk)
  BY <1>2 DEF Tidy
<1>4. e.path \in Seq(Names) /\ e.path # <<>>
  <2>1. host \in Hosts
    BY <1>2 DEF Walking
  <2> QED BY <2>1, EntryIs
<1> DEFINE path == Absolute(e.path)
<1>5. path \in Path
  BY <1>4, AbsoluteIs
<1> HIDE DEF path
<1>6. /\ Sound(Looked(ParentPath(path))) /\ UNCHANGED cwd
      /\ Command({t.res : t \in Touched(disk, path, "dir")})
  BY <1>1 DEF Mkdir, MakeFile, path
<1>7. PICK t \in Touched(disk, path, "dir") : disk' = t.res.disk /\ rc' = IF t.res.ok THEN 0 ELSE -1
  BY <1>6 DEF Command
<1>8. PICK r : r = t.res
  OBVIOUS
<1>9. Leaves(r)
  BY <1>7, <1>8 DEF Leaves
<1>10. Walk(disk, ParentPath(path), FALSE) # <<>>
         => Last(Walk(disk, ParentPath(path), FALSE)) \notin disk.damaged
  <2>1. ParentPath(path) \in Path
    BY <1>5, ParentPathIs
  <2> QED BY <1>6, <2>1, LookedIs
<1>11. Outcome(disk, t.res, e.path, "dir", e.data)
  <2>1. ~Astray(t.res.disk)
    BY <1>7
  <2> QED BY <1>2, <1>3, <1>4, <1>10, <2>1, MkdirOutcome DEF path
<1>12. Outcome(disk, r, e.path, Kind(e), e.data) /\ todo' = CallsAfter(host, todo, e)
  <2>1. Kind(e) = "dir"
    BY <1>1 DEF Kind
  <2>2. todo' = CallsAfter(host, todo, e)
    BY <1>1 DEF CallsAfter, Kept, Begun, Rest, In
  <2> QED BY <1>8, <1>11, <2>1, <2>2
<1> QED BY <1>1, <1>2, <1>6, <1>9, <1>12, CommandStep

LEMMA BuildInit == MakeInit => BuildInv
BY DEF MakeInit, BuildInv

LEMMA BuildStep == BuildInv /\ [MakeNext]_allVars => BuildInv'
<1> SUFFICES ASSUME BuildInv, [MakeNext]_allVars PROVE BuildInv'
  OBVIOUS
<1>1. ASSUME UNCHANGED vars, Tidy PROVE Tidy'
  BY <1>1 DEF vars, Tidy, AtHome
<1>2. ASSUME UNCHANGED building, stage' \in {"parsing", "building", "over"},
             stage' = "parsing" => stage = "parsing",
             stage' # "building" => todo = <<>>, stage' = "building" => stage = "building"
      PROVE  BuildInv'
  <2>1. UNCHANGED << disk, cwd, rc, host, todo, failed >>
    BY <1>2 DEF building, vars
  <2>2. Tidy => Tidy'
    BY <1>1, <2>1 DEF vars
  <2>3. Going => Going'
    BY <2>1, <2>2 DEF Going
  <2> QED BY <1>2, <2>1, <2>3 DEF BuildInv
<1>3. CASE Parse \/ Over \/ UNCHANGED allVars
  <2>1. UNCHANGED << stage, building >>
    BY <1>3 DEF Parse, Over, allVars
  <2> QED BY <1>2, <2>1 DEF BuildInv
<1>4. CASE ParseEnds
  <2>1. stage = "parsing" /\ stage' = "over" /\ UNCHANGED building
    BY <1>4 DEF ParseEnds
  <2> QED BY <1>2, <2>1 DEF BuildInv
<1>5. CASE Finished
  <2>1. stage = "building" /\ todo = <<>> /\ stage' = "over" /\ UNCHANGED building
    BY <1>5 DEF Finished
  <2> QED BY <1>2, <2>1 DEF BuildInv
<1>6. CASE Build
  <2>1. /\ stage = "parsing" /\ stage' = "building" /\ host' \in Hosts
        /\ todo' = << Entries(host', <<>>) >> /\ Format /\ failed' = failed
    BY <1>6 DEF Build
  <2>2. disk' \in FormattedDisks /\ cwd' = << Root >> /\ failed' = {}
    BY <2>1 DEF Format, BuildInv
  <2>3. Tidy'
    <3>1. Format => Init'
      BY DEF Format, Init
    <3>2. Init' => Tidy'
      BY TidyInit, PTL
    <3> QED BY <2>1, <3>1, <3>2
  <2>4. Walking(disk', host', todo', {})
    BY <2>1, <2>2, FormatWalks
  <2> QED BY <2>1, <2>2, <2>3, <2>4 DEF BuildInv, Going
<1>7. CASE \E e \in host : UploadEntry(e) \/ EnterFolder(e)
  <2>1. PICK e \in host : UploadEntry(e) \/ EnterFolder(e)
    BY <1>7
  <2>2. stage = "building" /\ stage' = stage
    BY <2>1 DEF UploadEntry, EnterFolder, Yield
  <2>3. Going' \/ Astray(disk')
    BY <2>1, UploadStep, FolderStep
  <2> QED BY <2>2, <2>3 DEF BuildInv
<1>8. CASE Return
  <2>1. /\ todo # <<>> /\ Last(todo) = {} /\ todo' = Front(todo)
        /\ stage' = stage /\ host' = host /\ failed' = failed /\ UNCHANGED vars
    BY <1>8 DEF Return
  <2>2. stage = "building" /\ disk' = disk /\ (Going \/ Astray(disk))
    BY <2>1 DEF BuildInv, vars
  <2>3. ASSUME Going PROVE Going'
    <3>1. Tidy' /\ cwd' = << Root >>
      BY <1>1, <2>1, <2>3 DEF vars, Going
    <3>2. Calls(host, todo)
      BY <2>3 DEF Going, Walking
    <3>3. Calls(host, todo') /\ All(todo') = All(todo)
      BY <2>1, <3>2, PopIs
    <3> QED BY <2>1, <2>2, <2>3, <3>1, <3>3 DEF Going, Walking
  <2> QED BY <2>1, <2>2, <2>3 DEF BuildInv
<1>9. CASE Leave
  <2>1. /\ todo # <<>>
        /\ disk.reissued # {} \/ ~Whole(disk)
        /\ todo' = <<>>
        /\ stage' = stage /\ host' = host /\ failed' = failed /\ UNCHANGED vars
    BY <1>9 DEF Leave, Whole
  <2>2. stage = "building" /\ disk' = disk /\ (Going \/ Astray(disk))
    BY <2>1 DEF BuildInv, vars
  <2>3. ASSUME Going PROVE Going'
    <3>1. Tidy' /\ cwd' = << Root >>
      BY <1>1, <2>1, <2>3 DEF vars, Going
    <3>2. Calls(host, <<>>) /\ All(<<>>) = {}
      <4>1. \A k \in 1 .. Len(<<>>) : FALSE
        OBVIOUS
      <4>2. <<>> \in Seq(SUBSET host)
        OBVIOUS
      <4> QED BY <4>1, <4>2 DEF Calls, Apart, All
    <3>3. ~Whole(disk)
      <4>1. disk.reissued = {}
        BY <2>3 DEF Going, Tidy, Healthy, Typed
      <4> QED BY <2>1, <4>1
    <3>4. Walking(disk, host, <<>>, failed)
      BY <2>3, <3>2, <3>3 DEF Going, Walking, Spread
    <3> QED BY <2>1, <2>2, <3>1, <3>4 DEF Going
  <2> QED BY <2>1, <2>2, <2>3 DEF BuildInv
<1> QED BY <1>3, <1>4, <1>5, <1>6, <1>7, <1>8, <1>9 DEF MakeNext

LEMMA BuildAlways == MakeSpec => []BuildInv
BY BuildInit, BuildStep, PTL DEF MakeSpec

(* What the properties call the image.                                     *)
LEMMA ImageIs ==
  ASSUME Healthy(disk)
  PROVE  /\ \A y \in Shown(disk) : y.path # <<>> =>
              [path |-> y.path, data |-> IF IsDir(disk, y.inode) THEN Folder
                                         ELSE disk.node[y.inode].data] \in Image
         /\ \A x \in Image : \E y \in Shown(disk) : y.path # <<>> /\ y.path = x.path
         /\ \A y \in Shown(disk) : y.inode \in disk.damaged => y.path \in CutShort
<1>1. Listing = Shown(disk)
  BY ListingIs
<1> QED BY <1>1 DEF Image, CutShort

(* What is there and no folder above it was lost is on the image.          *)
LEMMA OnImage ==
  ASSUME Healthy(disk), NEW h \in Hosts, NEW e \in h, On(disk, e)
  PROVE  e \in Image \/ e.path \in CutShort
<1>1. e.path # <<>> /\ e = [path |-> e.path, data |-> e.data]
  BY EntryIs
<1>2. PICK y \in Shown(disk) :
           /\ y.path = e.path
           /\ IsDir(disk, y.inode) <=> e.data = Folder
           /\ \/ e.data = Folder \/ disk.node[y.inode].data = e.data
              \/ y.inode \in disk.damaged
  BY DEF On
<1>3. CASE y.inode \in disk.damaged
  BY <1>2, <1>3, ImageIs
<1>4. CASE y.inode \notin disk.damaged
  <2> DEFINE x == IF IsDir(disk, y.inode) THEN Folder ELSE disk.node[y.inode].data
  <2>1. x = e.data
    BY <1>2, <1>4
  <2>2. [path |-> y.path, data |-> x] \in Image
    BY <1>1, <1>2, ImageIs
  <2> HIDE DEF x
  <2> QED BY <1>1, <1>2, <2>1, <2>2
<1> QED BY <1>3, <1>4

-----------------------------------------------------------------------------
(* At every moment of the build, as long as the root's inode was not       *)
(* handed out, the image holds nothing but entries of the host's directory *)
(* and what format made, which stays as it was made: for any directory of  *)
(* the host.                                                               *)
THEOREM HoldsNothingElse == MakeSpec => []NothingElse
<1>1. BuildInv => NothingElse
  <2> SUFFICES ASSUME BuildInv, stage = "building", disk.reissued = {} PROVE NothingElse
    BY DEF NothingElse
  <2>0. Going
    BY DEF BuildInv, Astray
  <2>1. Healthy(disk) /\ OnlyHost(disk, host) /\ Framed(disk)
    BY <2>0 DEF Going, Walking, Tidy
  <2>2. \A o : o \in Own <=> o = [path |-> <<"dev">>, data |-> Folder] \/ o = [path |-> Tty, data |-> Empty]
    BY DEF Own, Tty
  <2>3. ASSUME NEW x \in Image PROVE x.path \in {e.path : e \in host \cup Own}
    <3>1. PICK y \in Shown(disk) : y.path # <<>> /\ y.path = x.path
      BY <2>1, ImageIs
    <3>2. CASE \E e \in host : e.path = x.path
      BY <3>2
    <3>3. CASE OwnPath(x.path)
      <4>1. \E o \in Own : o.path = x.path
        <5>1. [path |-> <<"dev">>, data |-> Folder].path = <<"dev">> /\ [path |-> Tty, data |-> Empty].path = Tty
          OBVIOUS
        <5> QED BY <2>2, <3>3, <5>1 DEF OwnPath
      <4> QED BY <4>1
    <3> QED BY <2>1, <3>1, <3>2, <3>3 DEF OnlyHost
  <2>4. [path |-> <<"dev">>, data |-> Folder] \in Image
    <3>1. PICK y \in Shown(disk) : y.path = <<"dev">> /\ IsDir(disk, y.inode)
      BY <2>1 DEF Framed
    <3>2. y.path # <<>>
      BY <3>1
    <3> QED BY <2>1, <3>1, <3>2, ImageIs
  <2>5. [path |-> Tty, data |-> Empty] \in Image
    <3>1. PICK y \in Shown(disk) : /\ y.path = Tty /\ disk.node[y.inode].type = "char"
                                  /\ disk.node[y.inode].data = Empty
      BY <2>1 DEF Framed
    <3>2. y.path # <<>> /\ ~IsDir(disk, y.inode)
      BY <3>1 DEF Tty, IsDir
    <3> QED BY <2>1, <3>1, <3>2, ImageIs
  <2> QED BY <2>2, <2>3, <2>4, <2>5 DEF NothingElse
<1> QED BY <1>1, BuildAlways, PTL

(* When the build is over, the root's inode was not handed out on the way  *)
(* and the full disk has lost no directory, every entry whose command      *)
(* succeeded is in its place, and each one that failed had a reason to: in *)
(* whatever order directory_iterator yielded them.                         *)
THEOREM BuildsFaithfully == MakeSpec => []BuiltFaithfully
<1>1. BuildInv => BuiltFaithfully
  <2> SUFFICES ASSUME BuildInv, Ended
               PROVE  /\ \A e \in host \ failed : e \in Image \/ e.path \in CutShort
                      /\ \A e \in failed : Excused(e)
    BY DEF BuiltFaithfully
  <2>1. stage = "over" /\ host # {} /\ disk.reissued = {} /\ Whole(disk)
    BY DEF Ended, Whole
  <2>2. Healthy(disk) /\ host \in Hosts /\ todo = <<>> /\ Settled(disk, host, All(todo), failed)
    BY <2>1 DEF BuildInv, Going, Astray, Walking, Tidy
  <2>3. \A e \in host : ~Pending(All(todo), e)
    <3>1. \A k \in 1 .. Len(<<>>) : FALSE
      OBVIOUS
    <3> QED BY <2>2, <3>1 DEF Pending, All
  <2>4. \A e \in host \ failed : On(disk, e)
    BY <2>2, <2>3 DEF Settled
  <2>5. \A e \in failed : Excused(e)
    BY <2>2 DEF Settled, Pardoned, Excused, Tty
  <2> QED BY <2>2, <2>4, <2>5, OnImage
<1> QED BY <1>1, BuildAlways, PTL
=============================================================================
