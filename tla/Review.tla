------------------------------- MODULE Review -------------------------------
(***************************************************************************)
(* The blind review of a run (scripts/research/src/review/packet.ts,       *)
(* cli/review.ts).  "review build" shuffles the clips delivered so far     *)
(* under codes, overwrites the scorecards with blank ones and the          *)
(* un-blinding key last; raters fill cards for a packet they were handed,  *)
(* and file them into the directory whenever they are done; the run may    *)
(* deliver more clips in between and the packet may be built again.        *)
(* "review score" only reads, so it is the operator Verdict of Gates over  *)
(* the files there are.                                                    *)
(*                                                                         *)
(* The runner stops at the first delivered take of a shot (decide.ts), so  *)
(* a shot has one clip, and what a rater thinks of it is a fixed opinion.  *)
(***************************************************************************)
EXTENDS Gates, Economics

CONSTANTS
  Candidates,  \* test sets the harness might have been given
  Shuffle,    \* Shuffle[n] is the order the run's seed gives n clips
  Batches,    \* the shots one "generate" may be run for
  Fates,      \* what may become of the attempts of each shot
  Tastes,     \* which shots' clips each rater may find publishable
  Willing,    \* the raters who may be willing to publish the sequence
  RaterLists  \* the --raters a build may be given, in order

\* What a shot's attempts may come to: no take is bought after a delivered one.
StopsAtDelivery(outcomes) ==
  outcomes \in Seq(BOOLEAN) /\ \A n \in DOMAIN outcomes : outcomes[n] => n = Len(outcomes)

\* A rater named twice would be asked the sequence question twice, and the
\* scoring would refuse the card ("answered twice"): nobody is named twice.
ASSUME ReviewAssumption ==
  /\ \A n \in 1..30 : Shuffle[n] \in [1..n -> 1..n] /\ IsInjective(Shuffle[n])
  /\ \A set \in Candidates :
       /\ set.shots \in Seq(ToSet(set.shots)) /\ \A s \in ToSet(set.shots) : s.rank \in Nat
       /\ \A f \in Fates : \A s \in ToSet(Ids(set.shots)) : StopsAtDelivery(f[s])
  /\ Tastes \subseteq [Rater -> SUBSET Nat]
  /\ Willing \subseteq SUBSET Rater
  /\ RaterLists \subseteq Seq(Rater) \ {<<>>} /\ \A raters \in RaterLists : IsInjective(raters)
  /\ None \notin [raters : SUBSET Rater, yes : (SUBSET Rater) \cup {None}]

VARIABLES
  log,           \* attempts.jsonl
  card,          \* review/scorecard-<rater>.csv
  sequenceCard,  \* review/sequence-scorecard.csv
  key,           \* review-key/mapping.json
  issued,        \* the packets a rater was handed a card for
  fate, taste, willing  \* what the providers and the raters will turn out to say

world == <<series, fate, taste, willing>>
vars == <<log, card, sequenceCard, key, issued, world>>

\* A set the schema refuses stops the harness before it has done anything.
Init ==
  /\ series \in Candidates /\ Accepted(series)
  /\ log = <<>>
  /\ card = [r \in Rater |-> None]
  /\ sequenceCard = None
  /\ key = None
  /\ issued = [r \in Rater |-> {}]
  /\ fate \in Fates /\ taste \in Tastes /\ willing \in Willing

-----------------------------------------------------------------------------
\* The records one process leaves for a shot it had not come to before.
RecordsOf(s) ==
  [n \in DOMAIN fate[s] |-> [shot |-> s, attempt |-> n, delivered |-> fate[s][n]]]

\* A "generate" over some of the shots, which skips those already dealt with.
\* It is one step, and a shot whose attempts an earlier process had begun is
\* not resumed here: module ExperimentRun interrupts a run between attempts.
Generate(batch) ==
  LET todo == Kept(Shots, {s \in batch : AttemptsOf(log, s) = {}})
      after[n \in 0..Len(todo)] ==
        IF n = 0 THEN log ELSE after[n - 1] \o RecordsOf(todo[n])
  IN
  /\ todo # <<>>
  /\ log' = after[Len(todo)]
  /\ UNCHANGED <<card, sequenceCard, key, issued, world>>

-----------------------------------------------------------------------------
(* review build.                                                           *)

Delivered == Kept(log, {r \in ToSet(log) : r.delivered})

\* The clips in the order of their codes.
PacketOf(clips) ==
  [c \in DOMAIN clips |->
    LET r == clips[Shuffle[Len(clips)][c]] IN
    [shot |-> r.shot, attempt |-> r.attempt]]

Packet == PacketOf(Delivered)

\* The accepted takes in story order, which Gate D is asked about.
SequenceOf ==
  LET clips == ToSet(Delivered)
      shots == Kept(Shots, {r.shot : r \in clips})
      takes(s) == {r \in clips : r.shot = s}
  IN [i \in DOMAIN shots |->
        [shot |-> shots[i], attempt |-> Min({r.attempt : r \in takes(shots[i])})]]

BlankCards(raters) ==
  /\ card' = [r \in Rater |-> IF r \in raters THEN [packet |-> Packet, yes |-> None] ELSE card[r]]
  /\ issued' = [r \in Rater |-> IF r \in raters THEN issued[r] \cup {Packet} ELSE issued[r]]

BlankSequenceCard(raters) == sequenceCard' = [raters |-> raters, yes |-> None]

Build(raters) ==
  /\ Delivered # <<>>
  /\ BlankCards(ToSet(raters))
  /\ BlankSequenceCard(ToSet(raters))
  /\ key' = Packet
  /\ UNCHANGED <<log, world>>

\* The process dies: some of the cards are new, and the key is not.
BuildDies(raters) ==
  /\ Delivered # <<>>
  /\ \E n \in DOMAIN raters :
       /\ BlankCards(ToSet(SubSeq(raters, 1, n)))
       /\ \/ n = Len(raters) /\ BlankSequenceCard(ToSet(raters))
          \/ UNCHANGED sequenceCard
  /\ UNCHANGED <<log, key, world>>

-----------------------------------------------------------------------------
\* A rater files the card of a packet they were handed, over what is there.
FillCard(r) ==
  /\ \E p \in issued[r] :
       card' = [card EXCEPT ![r] =
         [packet |-> p, yes |-> {c \in Codes(p) : p[c].shot \in taste[r]}]]
  /\ UNCHANGED <<log, sequenceCard, key, issued, world>>

FillSequenceCard ==
  /\ sequenceCard # None
  /\ sequenceCard' = [sequenceCard EXCEPT !.yes = willing \cap sequenceCard.raters]
  /\ UNCHANGED <<log, card, key, issued, world>>

Next ==
  \/ \E batch \in Batches : Generate(batch)
  \/ \E raters \in RaterLists : Build(raters) \/ BuildDies(raters)
  \/ \E r \in Rater : FillCard(r)
  \/ FillSequenceCard

Spec == Init /\ [][Next]_vars

-----------------------------------------------------------------------------
(* The gates as docs/research/consistency-gate.md defines them, over what  *)
(* the raters think of the clips themselves.                               *)

\* Sections 3.1 and 4: two thirds of the raters.
TwoThirds(yes, all) == 3 * Cardinality(yes) >= 2 * Cardinality(all)

\* Those who filed a card or were handed one.
Voters == RatersOf(card)

\* The delivered take of a shot is publishable, and it was the first attempt.
Publishable(s) ==
  (\E r \in AttemptsOf(log, s) : r.delivered) /\ TwoThirds({r \in Voters : s \in taste[r]}, Voters)

PublishableFirst(s) ==
  Publishable(s) /\ \E r \in AttemptsOf(log, s) : r.delivered /\ r.attempt = 1

Earned ==
  [A |-> 100 * Cardinality({s \in ShotIds : PublishableFirst(s)}) >= 75 * Cardinality(ShotIds),
   B |-> \A s \in ShotIds : Publishable(s),
   C |-> /\ \A first, last \in ToSet(series.shots) :
              LET between == {s \in ToSet(series.shots) : s.rank \in first.rank..last.rank}
              IN  Cardinality(between) = 3 => \E s \in between : PublishableFirst(s.id)
         /\ \A scene \in {s.scene : s \in ToSet(series.shots)} :
              LET shots == {s.id : s \in ShotsOfScene(series, scene)}
                  failed == {s \in shots : ~PublishableFirst(s)}
              IN Cardinality(failed) <= Cardinality(shots \ failed),
   D |-> sequenceCard # None /\ TwoThirds(willing \cap sequenceCard.raters, sequenceCard.raters)]

\* Section 5: two raters differ on more than a fifth of the clips.
Uncalibrated ==
  \E r, q \in Voters :
    100 * Cardinality({c \in Codes(key) : (key[c].shot \in taste[r]) # (key[c].shot \in taste[q])})
      > 20 * Cardinality(Codes(key))

Scored == IF key = None THEN "refused" ELSE Verdict(key, card, sequenceCard)

-----------------------------------------------------------------------------
(* Properties.                                                             *)

(***************************************************************************)
(* A run is never passed by mistake: whatever builds were repeated or died *)
(* and whichever packets the filed cards belong to, "passed" means that    *)
(* three raters agree that the clips of the run themselves meet the four   *)
(* definitions.                                                            *)
(***************************************************************************)
PassIsEarned ==
  Scored = "passed" =>
    /\ Cardinality(Voters) >= 3 /\ ~Uncalibrated
    /\ \A g \in DOMAIN Earned : Earned[g]

(***************************************************************************)
(* When three or more cards are all of the packet the key describes and    *)
(* the run has not gone on, each gate is what its definition says, and the *)
(* verdict is withheld exactly when the raters differ too much.  Cards of  *)
(* an earlier packet are not covered: the codes of a rebuilt packet mean   *)
(* other clips once the log has grown, although packet.ts says they still  *)
(* mean the same ones.                                                     *)
(***************************************************************************)
GatesAreAsDefined ==
  (/\ key = Packet /\ Scored # "refused" /\ Cardinality(Voters) >= 3
   /\ \A r \in Voters : card[r].packet = key) =>
    /\ (Scored = "invalid_scorecard") = Uncalibrated
    /\ Scored # "invalid_scorecard" => GateOutcomes(key, card, sequenceCard) = Earned

RankOf(shot) == (CHOOSE s \in ToSet(series.shots) : s.id = shot).rank

PercentilesAreObserved ==
  LET sample == AttemptsPerResolvedShot(log, Shots)
      atMost(v) == Cardinality({i \in DOMAIN sample : sample[i] <= v})
      reaching(p) == {v \in ToSet(sample) : 100 * atMost(v) >= p * Len(sample)}
  IN sample # <<>> => \A p \in {50, 95} : Percentile(sample, p) = Min(reaching(p))

(***************************************************************************)
(* The two reports on a run do not contradict each other.  A shot the      *)
(* gates call a first pass is one the economics call so, one the economics *)
(* call unresolved fails Gate B, and Gate D is asked about exactly the     *)
(* takes whose cost is counted, in story order.  The percentiles are       *)
(* observations: the least one that p% of the sample do not exceed.        *)
(***************************************************************************)
ReportsAgree ==
  /\ Scored \in {"passed", "failed"} /\ key = Packet
       /\ (\A r \in Voters : card[r].packet = key) =>
       /\ FirstPass(key, card) \subseteq FirstPassShots(log, Shots)
       /\ UnresolvedShots(log, Shots) \subseteq Unresolved(key, card)
  /\ LET takes == SequenceOf IN
     /\ {t.shot : t \in ToSet(takes)} = ResolvedShots(log, Shots)
     /\ \A i \in DOMAIN takes : takes[i].attempt = AcceptedTake(log, takes[i].shot).attempt
     /\ \A i \in 2..Len(takes) : RankOf(takes[i - 1].shot) < RankOf(takes[i].shot)
  /\ PercentilesAreObserved

=============================================================================
