----------------------------- MODULE MCSeriesRow -----------------------------
(* Instances of SeriesRow for TLC.                                         *)
EXTENDS SeriesRow, TLC

CONSTANTS left, right, wa, wb, drama

\* Two tabs of the members of one workspace.
Shared == {<<left, wa>>, <<right, wa>>}
Libraries == [t \in Tab |-> wa]

Symmetry == Permutations({left, right})
=============================================================================
