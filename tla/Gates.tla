-------------------------------- MODULE Gates --------------------------------
(***************************************************************************)
(* The four gates over filled scorecards                                   *)
(* (scripts/research/src/review/gates.ts, with what review/scores.ts       *)
(* refuses to read), as operators.  A clip is named by its shot and its    *)
(* attempt; a code is its place in the shuffled packet, so the un-blinding *)
(* key is a sequence of clips.                                             *)
(***************************************************************************)
EXTENDS TestSet, Lists

CONSTANTS
  Rater,
  None      \* a verdict that was left blank, or a file that is not there

ASSUME GatesAssumption == IsFiniteSet(Rater) /\ None \notin Rater

VARIABLE series  \* the test set the harness was built with

Shots == Ids(series.shots)
ShotIds == ToSet(Shots)

-----------------------------------------------------------------------------
(* The scorecards.  A card has a row for every code of its packet, and yes *)
(* is the codes marked publishable; a sequence card has a row per rater.   *)

Codes(packet) == DOMAIN packet

Readable(card) == card.yes # None

\* The raters any row speaks for.
RatersOf(cards) == {r \in Rater : cards[r] # None}

\* No card, a blank verdict, a code this packet never issued, or a sample that
\* only some raters scored.
Refused(key, cards, sequenceCard) ==
  \/ RatersOf(cards) = {}
  \/ \E r \in RatersOf(cards) :
       \/ ~Readable(cards[r])
       \/ ~(Codes(cards[r].packet) \subseteq Codes(key))
  \/ \E r, q \in RatersOf(cards) : Codes(cards[r].packet) # Codes(cards[q].packet)
  \/ ~Readable(sequenceCard)

-----------------------------------------------------------------------------
(* evaluateGates.                                                          *)

\* Mutant: half of the votes are enough.
Agrees_Half(yes, all) == all > 0 /\ 2 * yes >= all

\* At least two thirds of the votes.
Agrees(yes, all) == all > 0 /\ 3 * yes >= 2 * all

\* The samples two raters disagree about.
Differed(cards, r, q) ==
  (cards[r].yes \ cards[q].yes) \cup (cards[q].yes \ cards[r].yes)

\* worstDisagreement above disagreementCeiling, a fifth of the samples.
Miscalibrated(cards) ==
  \E r, q \in RatersOf(cards) :
    5 * Cardinality(Differed(cards, r, q)) > Cardinality(Codes(cards[r].packet))

\* The codes that passed: those with votes, and enough of them.
Passed(cards) ==
  LET scored == UNION {Codes(cards[r].packet) : r \in RatersOf(cards)} IN
  {c \in scored :
     LET votes == {r \in RatersOf(cards) : c \in Codes(cards[r].packet)} IN
     Agrees(Cardinality({r \in votes : c \in cards[r].yes}), Cardinality(votes))}

FirstPass(key, cards) ==
  LET passed == {key[c] : c \in Passed(cards)}
  IN  {s \in ShotIds : [shot |-> s, attempt |-> 1] \in passed}

Unresolved(key, cards) ==
  ShotIds \ {key[c].shot : c \in Passed(cards)}

\* Mutant: the threshold is rounded down.
FirstPassThreshold_Floor == (3 * Len(Shots)) \div 4

\* Three quarters of the frozen set, rounded up.
FirstPassThreshold == (3 * Len(Shots) + 3) \div 4

\* Consecutive shots are consecutive in rank, whatever the order of the list.
StoryOrder ==
  LET sorted == Sorted([i \in DOMAIN Shots |-> series.shots[i].rank])
  IN  [n \in DOMAIN Shots |-> Shots[sorted[n]]]

\* The loop over the ordered shots, whose run starts over at a first pass.
ThreeInARow(first) ==
  LET order == StoryOrder
      run[i \in 0..Len(order)] ==
        IF i = 0 THEN 0 ELSE IF order[i] \in first THEN 0 ELSE run[i - 1] + 1
  IN  \E i \in DOMAIN run : run[i] >= 3

\* describeClustering has something to say.
Clustered(first) ==
  \/ ThreeInARow(first)
  \/ \E scene \in ToSet(series.scenes) :
       LET shots == {s.id : s \in ShotsOfScene(series, scene)}
       IN  2 * Cardinality(shots \ first) > Cardinality(shots)

GateOutcomes(key, cards, sequenceCard) ==
  LET first == FirstPass(key, cards) IN
  [A |-> Cardinality(first) >= FirstPassThreshold,
   B |-> Unresolved(key, cards) = {},
   C |-> ~Clustered(first),
   D |-> Agrees(Cardinality(sequenceCard.yes), Cardinality(sequenceCard.raters))]

Verdict(key, cards, sequenceCard) ==
  IF Refused(key, cards, sequenceCard) THEN "refused"
  ELSE IF Cardinality(RatersOf(cards)) < 3 \/ Miscalibrated(cards) THEN "invalid_scorecard"
  ELSE LET outcomes == GateOutcomes(key, cards, sequenceCard) IN
       IF \A g \in DOMAIN outcomes : outcomes[g] THEN "passed" ELSE "failed"
=============================================================================
