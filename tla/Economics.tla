------------------------------ MODULE Economics ------------------------------
(***************************************************************************)
(* What the report counts in the log of a run                              *)
(* (scripts/research/src/stats/economics.ts, stats/percentiles.ts), as     *)
(* operators over its records [shot, attempt, delivered].  Money and       *)
(* latencies are summed the same way and left out.                         *)
(***************************************************************************)
EXTENDS Lists, SequencesExt

AttemptsOf(log, s) == {r \in ToSet(log) : r.shot = s}

ResolvedShots(log, planned) ==
  {s \in ToSet(planned) : \E r \in AttemptsOf(log, s) : r.delivered}

UnresolvedShots(log, planned) == ToSet(planned) \ ResolvedShots(log, planned)

FirstPassShots(log, planned) ==
  {s \in ToSet(planned) : \E r \in AttemptsOf(log, s) : r.attempt = 1 /\ r.delivered}

\* The earliest delivered take of a shot is the footage that is paid for.
AcceptedTake(log, s) ==
  CHOOSE r \in AttemptsOf(log, s) :
    r.delivered /\ \A q \in AttemptsOf(log, s) : q.delivered => r.attempt <= q.attempt

AttemptsPerResolvedShot(log, planned) ==
  LET resolved == Kept(planned, ResolvedShots(log, planned)) IN
  [i \in DOMAIN resolved |-> Cardinality(AttemptsOf(log, resolved[i]))]

\* The value at rank ceil(p/100 * n) of the sorted sample.
Percentile(values, p) == values[Sorted(values)[(p * Len(values) + 99) \div 100]]
=============================================================================
