------------------------------ MODULE MCReview ------------------------------
(* Instances of Review for TLC: the frozen set of thirty shots.            *)
EXTENDS Review

CONSTANTS ann, ben, cai

(***************************************************************************)
(* The frozen set, and a copy of it in which two shots have changed places *)
(* in the list and kept their ranks, which the schema refuses.             *)
(***************************************************************************)
OutOfOrder ==
  [MidnightNoodleRun EXCEPT !.shots =
     [i \in 1..30 |-> IF i = 6 THEN @[11] ELSE IF i = 11 THEN @[6] ELSE @[i]]]

SomeSets == {MidnightNoodleRun, OutOfOrder}

\* A shuffle that moves every clip.
Rotation == [n \in 1..30 |-> [c \in 1..n |-> (c % n) + 1]]

\* A paid trial of two shots, and the whole set.
TrialThenAll == {{5, 25}, 1..30}

\* Every shot is delivered at first except for the ones named.
Late == <<FALSE, TRUE>>
Never == <<FALSE>>
Fate(late, never) ==
  [s \in 1..30 |-> IF s \in late THEN Late ELSE IF s \in never THEN Never ELSE <<TRUE>>]

SevenApart == {1, 4, 7, 10, 13, 16, 19}

(***************************************************************************)
(* Seven late shots are as many as Gate A allows and eight are too many;   *)
(* three in a row, and five of the nine on the rooftop, fail Gate C; and a *)
(* shot that is never delivered fails Gate B.                              *)
(***************************************************************************)
SomeFates ==
  {Fate(SevenApart, {}), Fate(SevenApart \cup {25}, {}), Fate({5, 6, 7}, {}),
   Fate({22, 24, 26, 28, 30}, {}), Fate({2}, {25})}

\* The raters reject some clips, and one of them thinks otherwise of others.
Taste(rejected, other) ==
  [r \in Rater |->
     LET good == 1..30 \ rejected IN
     IF r = cai THEN (good \ other) \cup (other \ good) ELSE good]

\* A fifth of the thirty clips is six.
SomeTastes ==
  {Taste({}, {}), Taste({3}, 1..6), Taste({}, 1..7), Taste({12, 13, 14}, {})}

\* Two are enough of three and not of two.
AnnAndCai == {{ann, cai}}
AllOrTwo == {<<ann, ben, cai>>, <<ann, ben>>}
=============================================================================
