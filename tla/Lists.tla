-------------------------------- MODULE Lists --------------------------------
(***************************************************************************)
(* The two operations of JavaScript arrays the research harness builds its *)
(* reports with, Array.prototype.filter and Array.prototype.sort.          *)
(***************************************************************************)
EXTENDS Integers, Sequences, FiniteSets

\* filter: the entries that are in S, in the order of the list.
Kept(list, S) ==
  LET kept[n \in 0..Len(list)] ==
        IF n = 0 THEN <<>>
        ELSE IF list[n] \in S THEN Append(kept[n - 1], list[n]) ELSE kept[n - 1]
  IN  kept[Len(list)]

\* sort puts an entry behind those with a smaller key, and is stable.
Before(keys, i) ==
  {j \in DOMAIN keys : keys[j] < keys[i] \/ (keys[j] = keys[i] /\ j < i)}

\* The indexes of a list in the order of their keys.
Sorted(keys) ==
  LET place == [i \in DOMAIN keys |-> 1 + Cardinality(Before(keys, i))]
  IN  [n \in DOMAIN keys |-> CHOOSE i \in DOMAIN keys : place[i] = n]
=============================================================================
