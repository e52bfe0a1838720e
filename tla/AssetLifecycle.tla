--------------------------- MODULE AssetLifecycle ---------------------------
(***************************************************************************)
(* What an asset promises whoever records its id: it is reserved once,     *)
(* settled at most once, and a usable one names for ever the bytes that    *)
(* were verified to be what was declared.                                  *)
(***************************************************************************)
CONSTANTS Asset, Declaration, Body, Fits(_, _), None

VARIABLES
  declared, \* what an asset was reserved for, None before that
  outcome   \* None while open, "rejected", or the verified bytes

Init ==
  /\ declared = [a \in Asset |-> None]
  /\ outcome = [a \in Asset |-> None]

Reserve(a) ==
  /\ declared[a] = None
  /\ \E d \in Declaration : declared' = [declared EXCEPT ![a] = d]
  /\ UNCHANGED outcome

Settle(a) ==
  /\ declared[a] # None /\ outcome[a] = None
  /\ \E o \in {b \in Body : Fits(b, declared[a])} \cup {"rejected"} :
       outcome' = [outcome EXCEPT ![a] = o]
  /\ UNCHANGED declared

Next == \E a \in Asset : Reserve(a) \/ Settle(a)

Spec == Init /\ [][Next]_<<declared, outcome>>
=============================================================================
