------------------------------ MODULE TestSet ------------------------------
(***************************************************************************)
(* The frozen test set of the experiment: what the schema accepts          *)
(* (scripts/research/src/testset/schema.ts) and the one set there is       *)
(* (testset/midnight-noodle-run.ts).  Of a character and of a scene only   *)
(* the id is kept, and of a shot what the rules and the gates look at.     *)
(***************************************************************************)
EXTENDS Integers, Sequences, SequencesExt, FiniteSets

Ids(shots) == [i \in DOMAIN shots |-> shots[i].id]

\* The shotsOfScene of the schema.
ShotsOfScene(set, scene) == {s \in ToSet(set.shots) : s.scene = scene}

-----------------------------------------------------------------------------
(* testSeriesSchema.                                                       *)

Ascending(shots) == \A i \in 2..Len(shots) : shots[i].rank > shots[i - 1].rank

\* Who is in frame is known, and whoever speaks is in frame.
WellFormed(shot, set) ==
  /\ shot.scene \in ToSet(set.scenes)
  /\ ToSet(shot.characters) \subseteq ToSet(set.characters) /\ Len(shot.characters) <= 4
  /\ shot.speakers \subseteq ToSet(shot.characters)

CoverageRequirements == {"close_up", "wide", "dialogue", "action", "multi_character"}

\* The requirements a shot meets: a two-hander is whoever is in frame.
Meets(shot) ==
  {shot.framing, shot.beat} \cup IF Len(shot.characters) >= 2 THEN {"multi_character"} ELSE {}

MissingCoverage(shots) == CoverageRequirements \ UNION {Meets(s) : s \in ToSet(shots)}

\* Mutant: the order of the list is trusted.
Accepted_AnyOrder(set) ==
  /\ Len(set.characters) \in 2..4 /\ Len(set.scenes) = 3 /\ Len(set.shots) \in 20..30
  /\ IsInjective(set.characters) /\ IsInjective(set.scenes) /\ IsInjective(Ids(set.shots))
  /\ \A s \in ToSet(set.shots) : WellFormed(s, set)
  /\ MissingCoverage(set.shots) = {}

Accepted(set) ==
  /\ Len(set.characters) \in 2..4 /\ Len(set.scenes) = 3 /\ Len(set.shots) \in 20..30
  /\ IsInjective(set.characters) /\ IsInjective(set.scenes) /\ IsInjective(Ids(set.shots))
  /\ Ascending(set.shots)
  /\ \A s \in ToSet(set.shots) : WellFormed(s, set)
  /\ MissingCoverage(set.shots) = {}

-----------------------------------------------------------------------------
(* The frozen set.                                                         *)

Shot(number, scene, framing, beat, characters, speakers) ==
  [id |-> number, scene |-> scene, rank |-> 100 * number, framing |-> framing,
   beat |-> beat, characters |-> characters, speakers |-> speakers]

\* Scene 1: market alley.
Alley == <<
  Shot(1, "alley", "wide", "establishing", <<>>, {}),
  Shot(2, "alley", "wide", "establishing", <<"rio">>, {}),
  Shot(3, "alley", "medium", "action", <<"rio">>, {}),
  Shot(4, "alley", "close_up", "reaction", <<"rio">>, {}),
  Shot(5, "alley", "medium", "action", <<"rio">>, {}),
  Shot(6, "alley", "wide", "action", <<"rio">>, {}),
  Shot(7, "alley", "close_up", "dialogue", <<"rio">>, {"rio"}),
  Shot(8, "alley", "medium", "dialogue", <<"rio", "hale">>, {"hale", "rio"}),
  Shot(9, "alley", "close_up", "reaction", <<"hale">>, {}),
  Shot(10, "alley", "wide", "action", <<"rio", "hale">>, {})>>

\* Scene 2: noodle counter interior.
Counter == <<
  Shot(11, "counter", "wide", "establishing", <<>>, {}),
  Shot(12, "counter", "medium", "action", <<"mika">>, {}),
  Shot(13, "counter", "close_up", "action", <<"mika">>, {}),
  Shot(14, "counter", "medium", "dialogue", <<"mika", "rio">>, {"mika", "rio"}),
  Shot(15, "counter", "close_up", "dialogue", <<"rio">>, {"rio"}),
  Shot(16, "counter", "close_up", "dialogue", <<"mika">>, {"mika"}),
  Shot(17, "counter", "medium", "reaction", <<"rio", "mika">>, {}),
  Shot(18, "counter", "wide", "action", <<"rio", "mika">>, {}),
  Shot(19, "counter", "close_up", "action", <<"mika">>, {}),
  Shot(20, "counter", "medium", "dialogue", <<"mika">>, {"mika"}),
  Shot(21, "counter", "wide", "action", <<"rio">>, {})>>

\* Scene 3: rooftop overlook.
Rooftop == <<
  Shot(22, "rooftop", "wide", "establishing", <<>>, {}),
  Shot(23, "rooftop", "medium", "action", <<"rio">>, {}),
  Shot(24, "rooftop", "wide", "action", <<"rio">>, {}),
  Shot(25, "rooftop", "medium", "dialogue", <<"rio", "hale">>, {"rio", "hale"}),
  Shot(26, "rooftop", "close_up", "dialogue", <<"hale">>, {"hale"}),
  Shot(27, "rooftop", "close_up", "reaction", <<"rio">>, {}),
  Shot(28, "rooftop", "medium", "action", <<"rio", "hale", "mika">>, {}),
  Shot(29, "rooftop", "close_up", "reaction", <<"mika">>, {}),
  Shot(30, "rooftop", "wide", "reaction", <<"rio", "mika", "hale">>, {})>>

MidnightNoodleRun ==
  [characters |-> <<"rio", "mika", "hale">>,
   scenes |-> <<"alley", "counter", "rooftop">>,
   shots |-> Alley \o Counter \o Rooftop]

\* It is parsed by the schema when the harness is loaded.
ASSUME FrozenSetIsAccepted == Accepted(MidnightNoodleRun)
=============================================================================
