---------------------------- MODULE ShotAttempts ----------------------------
(***************************************************************************)
(* What a run of the experiment leaves for whoever reads its log: a shot   *)
(* is tried again only while everything it came to was worth another try,  *)
(* a bounded number of times, and its attempts are numbered in the order   *)
(* they are written.  So a delivered take is the last of its shot.         *)
(***************************************************************************)
EXTENDS Integers, Sequences

CONSTANTS
  Planned,  \* the shots
  Most      \* the attempts a shot may be allowed

VARIABLES
  allowed,  \* the attempts it is allowed in this run
  history   \* the attempts of all shots, each with what it came to

Of(s) == {i \in DOMAIN history : history[i].shot = s}

Init == allowed \in 1..Most /\ history = <<>>

\* The next number of a shot that has its numbers in the order of its attempts.
Follows(s, number) ==
  IF Of(s) = {} THEN number = 1
  ELSE \E last \in Of(s) :
         (\A i \in Of(s) : i <= last) /\ number = history[last].attempt + 1

Try(s) ==
  /\ \A i \in Of(s) : history[i].came = "to be tried again"
  /\ \E number \in 1..allowed, came \in {"to be tried again", "to nothing", "delivered"} :
       /\ Follows(s, number)
       /\ history' = Append(history, [shot |-> s, attempt |-> number, came |-> came])
  /\ UNCHANGED allowed

Next == \E s \in Planned : Try(s)

Spec == Init /\ [][Next]_<<allowed, history>>
=============================================================================
