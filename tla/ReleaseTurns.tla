---------------------------- MODULE ReleaseTurns ----------------------------
(***************************************************************************)
(* What release steps promise whoever starts several of them at once: they *)
(* take turns.  Each brings the one database forward by files of its own   *)
(* release, in the order of the sources and of the versions, as far as it  *)
(* gets; it leaves with success only if there was nothing more to do, and  *)
(* with a refusal only if there is a reason for it in the database.        *)
(***************************************************************************)
EXTENDS Integers, Sequences, SequencesExt

CONSTANTS Migrator, Sources, ReleaseOf, FilesOf, None

VARIABLES
  executed, \* the migrations the database has executed, in order
  turn,     \* who is at work on it
  outcome   \* how a release step left, "none" before that

Files(m, i) == FilesOf[ReleaseOf[m]][Sources[i]]

Executed(i, f) ==
  [source |-> Sources[i], version |-> f.version, checksum |-> f.content] \in ToSet(executed)

Of(i) == {e \in ToSet(executed) : e.source = Sources[i]}

Complete(m, i) == \A f \in Files(m, i) : Executed(i, f)

Init ==
  /\ executed = <<>>
  /\ turn = None
  /\ outcome = [m \in Migrator |-> "none"]

Enter(m) ==
  /\ turn = None /\ outcome[m] = "none"
  /\ turn' = m
  /\ UNCHANGED <<executed, outcome>>

\* A file above all that its source has executed, when everything the release
\* puts before it is there.
Apply(m) ==
  /\ turn = m
  /\ \E i \in DOMAIN Sources : \E f \in Files(m, i) :
       /\ \A e \in Of(i) : e.version < f.version
       /\ \A j \in 1..(i - 1) : Complete(m, j)
       /\ \A g \in Files(m, i) : g.version < f.version => Executed(i, g)
       /\ executed' = Append(executed,
            [source |-> Sources[i], version |-> f.version, checksum |-> f.content])
  /\ UNCHANGED <<turn, outcome>>

\* The reasons there are for leaving with an outcome.
Deserved(m, o) ==
  CASE o = "applied" -> \A i \in DOMAIN Sources : Complete(m, i)
    [] o = "checksum_mismatch" ->
         \E i \in DOMAIN Sources : \E f \in Files(m, i) : \E e \in Of(i) :
           f.version = e.version /\ f.content # e.checksum
    [] o = "out_of_order" ->
         \E i \in DOMAIN Sources : \E f \in Files(m, i) : \E e \in Of(i) :
           f.version < e.version /\ ~Executed(i, f)
    [] OTHER -> o \in {"failed", "died"}

Leave(m) ==
  /\ turn = m
  /\ turn' = None
  /\ \E o \in {"applied", "checksum_mismatch", "out_of_order", "failed", "died"} :
       Deserved(m, o) /\ outcome' = [outcome EXCEPT ![m] = o]
  /\ UNCHANGED executed

Next == \E m \in Migrator : Enter(m) \/ Apply(m) \/ Leave(m)

Spec == Init /\ [][Next]_<<executed, turn, outcome>>
=============================================================================
