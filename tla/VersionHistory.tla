--------------------------- MODULE VersionHistory ---------------------------
(***************************************************************************)
(* What the cast promises its clients: each character has one history that *)
(* only grows at its end, and whoever extends it has read it to the end.   *)
(***************************************************************************)
EXTENDS Naturals, Sequences

CONSTANTS Character, Content

VARIABLE history \* [Character -> Seq([content, readVersion])]

Init == history = [ch \in Character |-> <<>>]

\* The first version creates the character and is written on top of nothing.
Extend(ch) ==
  \E x \in Content :
    history' = [history EXCEPT ![ch] =
      Append(@, [content |-> x, readVersion |-> Len(@)])]

Next == \E ch \in Character : Extend(ch)

Spec == Init /\ [][Next]_history
=============================================================================
