------------------------- MODULE ExperimentRunProofs -------------------------
(* Theorems about a paid experiment run, for every test set, every set of  *)
(* environments, failures and renders, and any number of processes started *)
(* over the log and interrupted.                                           *)
EXTENDS ExperimentRun, FiniteSetTheorems, SequenceTheorems, WellFoundedInduction, TLAPS

-----------------------------------------------------------------------------
(* Extremes of sets of numbers.                                            *)

LEMMA LeastNatural ==
  ASSUME NEW T \in SUBSET Nat, T # {}
  PROVE  \E x \in T : \A y \in T : x <= y
<1>1. OpToRel(<, Nat) = {p \in Nat \X Nat : p[1] < p[2]}
  BY DEF OpToRel
<1>2. PICK x \in T : \A y \in T : ~ (<<y, x>> \in OpToRel(<, Nat))
  BY NatLessThanWellFounded, WFMin
<1>3. ASSUME NEW y \in T
      PROVE  x <= y
  <2>1. ~ (<<y, x>> \in {p \in Nat \X Nat : p[1] < p[2]})
    BY <1>1, <1>2
  <2>2. QED
    BY <2>1
<1>4. QED
  BY <1>3

\* Induction over the natural numbers, stated of the set of those that have a property.
LEMMA NaturalsAreReached ==
  ASSUME NEW P \in SUBSET Nat, 0 \in P, \A n \in P : n + 1 \in P
  PROVE  P = Nat
<1>1. SUFFICES ASSUME Nat \ P # {}
               PROVE  FALSE
  OBVIOUS
<1>2. PICK n \in Nat \ P : \A m \in Nat \ P : n <= m
  BY <1>1, LeastNatural
<1>3. n # 0 /\ n - 1 \in Nat
  BY <1>2
<1>4. n - 1 \in P
  BY <1>2, <1>3
<1>5. QED
  BY <1>2, <1>3, <1>4

LEMMA GreatestNumber ==
  ASSUME NEW S \in SUBSET Int, IsFiniteSet(S), S # {}
  PROVE  \E x \in S : \A y \in S : y <= x
<1>1. PICK f : f \in Bijection(1..Cardinality(S), S)
  BY FS_CardinalityType DEF ExistsBijection
<1>2. Cardinality(S) \in Nat /\ Cardinality(S) # 0
  BY FS_CardinalityType, FS_EmptySet
<1>3. /\ f \in [1..Cardinality(S) -> S]
      /\ \A x \in S : \E i \in 1..Cardinality(S) : f[i] = x
  BY <1>1 DEF Bijection, Surjection
<1>9. \A i \in 1..Cardinality(S) : f[i] \in Int
  <2>1. \A i \in 1..Cardinality(S) : f[i] \in S
    BY <1>3
  <2>2. QED
    BY <2>1
<1> DEFINE P == {n \in Nat : n + 1 <= Cardinality(S) =>
                   \E k \in 1..(n + 1) : \A j \in 1..(n + 1) : f[j] <= f[k]}
<1>4. 0 \in P
  <2>1. 1 <= Cardinality(S) => f[1] \in Int
    BY <1>2, <1>9
  <2>2. QED
    BY <2>1, <1>2
<1>5. ASSUME NEW n \in P
      PROVE  n + 1 \in P
  <2>1. SUFFICES ASSUME n + 2 <= Cardinality(S)
                 PROVE  \E k \in 1..(n + 2) : \A j \in 1..(n + 2) : f[j] <= f[k]
    OBVIOUS
  <2>2. PICK k \in 1..(n + 1) : \A j \in 1..(n + 1) : f[j] <= f[k]
    BY <1>2, <2>1
  <2>3. \A j \in 1..(n + 2) : f[j] \in Int
    BY <1>2, <1>9, <2>1
  <2>4. CASE f[n + 2] <= f[k]
    <3>1. \A j \in 1..(n + 2) : j \in 1..(n + 1) \/ j = n + 2
      OBVIOUS
    <3>2. QED
      BY <2>2, <2>4, <3>1
  <2>5. CASE f[k] < f[n + 2]
    <3>1. \A j \in 1..(n + 2) : j \in 1..(n + 1) \/ j = n + 2
      OBVIOUS
    <3>2. \A j \in 1..(n + 2) : f[j] <= f[n + 2]
      BY <2>2, <2>3, <2>5, <3>1
    <3>3. QED
      BY <3>2
  <2>6. QED
    BY <2>3, <2>4, <2>5
<1>6. P = Nat
  <2> HIDE DEF P
  <2>1. P \subseteq Nat
    BY DEF P
  <2>2. QED
    BY <1>4, <1>5, <2>1, NaturalsAreReached
<1>7. PICK k \in 1..Cardinality(S) : \A j \in 1..Cardinality(S) : f[j] <= f[k]
  <2>1. Cardinality(S) - 1 \in P
    BY <1>2, <1>6
  <2>2. QED
    BY <1>2, <2>1
<1>8. QED
  BY <1>3, <1>7

-----------------------------------------------------------------------------
(* What a log of records cost, as the runner sums it.                      *)

\* f[n] is what the first n records cost, for the first m of them.
Totals(s, m, f) ==
  /\ f[0] = 0
  /\ \A n \in 1..m : f[n] = f[n - 1] + CostOf(s[n])

LEMMA CostIsNatural ==
  ASSUME NEW r, r.cost \in Nat \cup {None}
  PROVE  CostOf(r) \in Nat
BY DEF CostOf

LEMMA TotalsExist ==
  ASSUME NEW R, NEW s \in Seq(R), \A r \in R : r.cost \in Nat \cup {None}
  PROVE  \E f \in [0..Len(s) -> Nat] : Totals(s, Len(s), f)
<1> DEFINE P == {m \in Nat : m <= Len(s) =>
                   \E f \in [0..m -> Nat] : Totals(s, m, f)}
<1>1. 0 \in P
  <2> DEFINE g == [n \in 0..0 |-> 0]
  <2>1. g \in [0..0 -> Nat] /\ Totals(s, 0, g)
    BY DEF Totals
  <2> HIDE DEF g
  <2>2. QED
    BY <2>1
<1>2. ASSUME NEW m \in P
      PROVE  m + 1 \in P
  <2>1. SUFFICES ASSUME m + 1 <= Len(s)
                 PROVE  \E f \in [0..(m + 1) -> Nat] : Totals(s, m + 1, f)
    OBVIOUS
  <2>9. m \in Nat /\ Len(s) \in Nat /\ m <= Len(s)
    BY <2>1
  <2>2. PICK f \in [0..m -> Nat] : Totals(s, m, f)
    BY <2>9
  <2> HIDE DEF P
  <2>3. s[m + 1] \in R
    BY <2>1, <2>9
  <2>4. CostOf(s[m + 1]) \in Nat
    BY <2>3, CostIsNatural
  <2> DEFINE g == [n \in 0..(m + 1) |-> IF n = m + 1 THEN f[m] + CostOf(s[m + 1]) ELSE f[n]]
  <2>5. g \in [0..(m + 1) -> Nat]
    BY <2>4, <2>9
  <2>6. g[0] = 0
    BY <2>2, <2>9 DEF Totals
  <2>7. \A n \in 1..(m + 1) : g[n] = g[n - 1] + CostOf(s[n])
    <3>1. ASSUME NEW n \in 1..m
          PROVE  g[n] = g[n - 1] + CostOf(s[n])
      BY <2>2, <2>9, <3>1 DEF Totals
    <3>2. g[m + 1] = g[m] + CostOf(s[m + 1]) /\ (m + 1) - 1 = m
      BY <2>9
    <3>3. \A n \in 1..(m + 1) : n \in 1..m \/ n = m + 1
      BY <2>9
    <3> HIDE DEF g
    <3>4. QED
      BY <3>1, <3>2, <3>3
  <2> HIDE DEF g
  <2>8. QED
    BY <2>5, <2>6, <2>7 DEF Totals
<1>3. P = Nat
  <2> HIDE DEF P
  <2>1. P \subseteq Nat
    BY DEF P
  <2>2. QED
    BY <1>1, <1>2, <2>1, NaturalsAreReached
<1> HIDE DEF P
<1>4. Len(s) \in P
  BY <1>3
<1>5. QED
  BY <1>4 DEF P

\* Two functions that sum the first m records in this way agree.
LEMMA TotalsAgree ==
  ASSUME NEW m \in Nat, NEW s, NEW f, NEW g, Totals(s, m, f), Totals(s, m, g)
  PROVE  f[m] = g[m]
<1> DEFINE P == {n \in Nat : n <= m => f[n] = g[n]}
<1>1. 0 \in P
  BY DEF Totals
<1>2. ASSUME NEW n \in P
      PROVE  n + 1 \in P
  <2>1. SUFFICES ASSUME n + 1 <= m
                 PROVE  f[n + 1] = g[n + 1]
    OBVIOUS
  <2>2. n \in Nat /\ f[n] = g[n] /\ n + 1 \in 1..m /\ (n + 1) - 1 = n
    BY <2>1
  <2> HIDE DEF P
  <2>3. f[n + 1] = f[n] + CostOf(s[n + 1]) /\ g[n + 1] = g[n] + CostOf(s[n + 1])
    BY <2>2 DEF Totals
  <2>4. QED
    BY <2>2, <2>3
<1>3. P = Nat
  <2> HIDE DEF P
  <2>1. P \subseteq Nat
    BY DEF P
  <2>2. QED
    BY <1>1, <1>2, <2>1, NaturalsAreReached
<1>4. QED
  BY <1>3

\* The sum the model defines by recursion is such a function.
LEMMA CostIsTheTotal ==
  ASSUME NEW R, NEW s \in Seq(R), \A r \in R : r.cost \in Nat \cup {None}
  PROVE  \E f \in [0..Len(s) -> Nat] : Totals(s, Len(s), f) /\ Cost(s) = f[Len(s)]
<1> DEFINE Sums(f) == f = [n \in 0..Len(s) |-> IF n = 0 THEN 0 ELSE f[n - 1] + CostOf(s[n])]
<1>1. PICK f \in [0..Len(s) -> Nat] : Totals(s, Len(s), f)
  BY TotalsExist
<1>2. Sums(f)
  BY <1>1 DEF Totals
<1>3. Sums(CHOOSE g : Sums(g))
  BY <1>2
<1> DEFINE g == CHOOSE g : Sums(g)
<1>4. Cost(s) = g[Len(s)]
  BY DEF Cost
<1>5. Totals(s, Len(s), g)
  <2> HIDE DEF g
  <2>1. g = [n \in 0..Len(s) |-> IF n = 0 THEN 0 ELSE g[n - 1] + CostOf(s[n])]
    BY <1>3 DEF g
  <2> HIDE DEF Sums
  <2>2. \A n \in 0..Len(s) : g[n] = IF n = 0 THEN 0 ELSE g[n - 1] + CostOf(s[n])
    BY <2>1
  <2>3. QED
    BY <2>2 DEF Totals
<1> HIDE DEF g
<1>6. Len(s) \in Nat /\ g[Len(s)] = f[Len(s)]
  BY <1>1, <1>5, TotalsAgree
<1>7. QED
  BY <1>1, <1>4, <1>6

LEMMA CostOfLog ==
  ASSUME NEW R, NEW s \in Seq(R), \A r \in R : r.cost \in Nat \cup {None}
  PROVE  /\ Cost(s) \in Nat
         /\ \A r \in R : Cost(Append(s, r)) = Cost(s) + CostOf(r)
<1>1. PICK f \in [0..Len(s) -> Nat] : Totals(s, Len(s), f) /\ Cost(s) = f[Len(s)]
  BY CostIsTheTotal
<1>2. ASSUME NEW r \in R
      PROVE  Cost(Append(s, r)) = Cost(s) + CostOf(r)
  <2> DEFINE t == Append(s, r)
  <2>1. /\ t \in Seq(R) /\ Len(t) = Len(s) + 1 /\ t[Len(t)] = r
        /\ \A n \in 1..Len(s) : t[n] = s[n]
    OBVIOUS
  <2> HIDE DEF t
  <2>2. PICK g \in [0..Len(t) -> Nat] : Totals(t, Len(t), g) /\ Cost(t) = g[Len(t)]
    BY <2>1, CostIsTheTotal
  <2>3. Len(s) \in Nat /\ Totals(s, Len(s), g)
    BY <2>1, <2>2 DEF Totals
  <2>4. g[Len(s)] = f[Len(s)]
    BY <1>1, <2>3, TotalsAgree
  <2>5. g[Len(t)] = g[Len(s)] + CostOf(r)
    BY <2>1, <2>2 DEF Totals
  <2>6. QED
    BY <1>1, <2>2, <2>4, <2>5 DEF t
<1>3. QED
  BY <1>1, <1>2

LEMMA CostOfNothing ==
  ASSUME NEW R, NEW s \in Seq(R), \A r \in R : r.cost \in Nat \cup {None}, Len(s) = 0
  PROVE  Cost(s) = 0
<1>1. PICK f \in [0..Len(s) -> Nat] : Totals(s, Len(s), f) /\ Cost(s) = f[Len(s)]
  BY CostIsTheTotal
<1>2. QED
  BY <1>1 DEF Totals

-----------------------------------------------------------------------------
(* What the harness makes of a failure and of a render.                    *)

\* Only what is transient is retried: a moderated request never is.
LEMMA RetryableIsTransient ==
  ASSUME NEW r, r.outcome = "failed" => r.seen \in Observation, Retryable(r)
  PROVE  r.outcome = "failed" /\ Transient(r.seen)
<1> DEFINE seen == r.seen
<1>1. /\ r.outcome = "failed" /\ seen \in Observation
      /\ Disposition[ClassOf(seen)] = "retry_with_backoff"
  BY DEF Retryable
<1> HIDE DEF seen
<1>2. ClassOf(seen) \in {"network", "rate_limited", "provider_unavailable", "timeout", "authentication",
                         "quota_exhausted", "invalid_input", "moderation_rejected", "unknown"}
  BY <1>1 DEF ClassOf, Observation, ClassOfStatus
<1>3. ClassOf(seen) \in {"network", "rate_limited", "provider_unavailable"}
  BY <1>1, <1>2 DEF Disposition
<1>4. Transient(seen)
  BY <1>1, <1>3 DEF ClassOf, Observation, ClassOfStatus, Transient
<1>5. QED
  BY <1>1, <1>4 DEF seen

LEMMA EstimateIsNatural ==
  ASSUME env \in Environments
  PROVE  UnitPrice(env) \in Nat /\ Estimate(env) \in Nat
<1>1. env.price \in Nat \cup {None}
  BY ExperimentAssumption DEF Environment
<1>2. UnitPrice(env) \in Nat /\ MaxShotSeconds(env.tier) \in Nat
  BY <1>1 DEF UnitPrice, MaxShotSeconds
<1>3. \A x, y \in Nat : x * y \in Nat
  OBVIOUS
<1>4. QED
  BY <1>2, <1>3 DEF Estimate

LEMMA QuantityIsNatural ==
  ASSUME env \in Environments, NEW render \in Renders, Measurable(render)
  PROVE  Quantity(env, render) \in Nat \cup {None}
<1>1. /\ env.unit \in {"output_second", "generated_frame", "request", "compute_second"}
      /\ render.frames \in Nat \cup {None} /\ render.compute \in Nat \cup {None}
      /\ Seconds(render) \in Nat \cup {None} /\ FrameRate(render) \in Nat \cup {None}
  BY ExperimentAssumption DEF Environment, Seconds, FrameRate
<1>2. Seconds(render) \in Nat /\ FrameRate(render) \in Nat
  BY <1>1 DEF Measurable
<1>3. \A x, y \in Nat : x * y \in Nat
  OBVIOUS
<1>4. Seconds(render) * FrameRate(render) \in Nat
  BY <1>2, <1>3
<1>5. QED
  BY <1>1, <1>2, <1>4 DEF Quantity

LEMMA PricesAreNatural ==
  ASSUME env \in Environments
  PROVE  Prices \subseteq Nat
<1>1. ASSUME NEW r \in Renders, Measurable(r), Quantity(env, r) # None
      PROVE  Quantity(env, r) * UnitPrice(env) \in Nat
  <2>1. Quantity(env, r) \in Nat /\ UnitPrice(env) \in Nat
    BY <1>1, QuantityIsNatural, EstimateIsNatural
  <2>2. \A x, y \in Nat : x * y \in Nat
    OBVIOUS
  <2>3. QED
    BY <2>1, <2>2
<1>2. QED
  BY <1>1 DEF Prices

\* The dearest render exceeds its estimate by no less than any other, nor than nothing.
LEMMA Overrun ==
  ASSUME env \in Environments
  PROVE  LET most == Max({c - Estimate(env) : c \in Prices} \cup {0})
         IN  most \in Nat /\ \A c \in Prices : c - Estimate(env) <= most
<1> DEFINE B == {r \in Renders : Measurable(r) /\ Quantity(env, r) # None}
           f == [r \in B |-> Quantity(env, r) * UnitPrice(env) - Estimate(env)]
           T == {c - Estimate(env) : c \in Prices}
<1>1. IsFiniteSet(B)
  BY ExperimentAssumption, FS_Subset
<1>2. f \in Surjection(B, T)
  BY DEF Surjection, Prices
<1>3. IsFiniteSet(T)
  BY <1>1, <1>2, FS_Surjection
<1>4. T \subseteq Int
  BY PricesAreNatural, EstimateIsNatural
<1> HIDE DEF T
<1>5. IsFiniteSet(T \cup {0}) /\ T \cup {0} \subseteq Int /\ T \cup {0} # {}
  BY <1>3, <1>4, FS_AddElement
<1>6. \E x \in T \cup {0} : \A y \in T \cup {0} : x >= y
  BY <1>5, GreatestNumber
<1>7. Max(T \cup {0}) \in T \cup {0} /\ \A y \in T \cup {0} : Max(T \cup {0}) >= y
  BY <1>6 DEF Max
<1>8. QED
  BY <1>4, <1>7 DEF T

-----------------------------------------------------------------------------
(* The attempts of a shot.                                                 *)

LEMMA LogIsSequence ==
  ASSUME TypeOK
  PROVE  /\ Len(log) \in Nat /\ DOMAIN log = 1..Len(log)
         /\ \A i \in DOMAIN log : log[i] \in Record
         /\ Len(tasks) \in Nat /\ DOMAIN tasks = 1..Len(tasks)
BY DEF TypeOK

LEMMA PlacesAreFinite ==
  ASSUME TypeOK, NEW P \in SUBSET DOMAIN log
  PROVE  IsFiniteSet(P) /\ Cardinality(P) \in Nat
<1>1. IsFiniteSet(1..Len(log)) /\ P \subseteq 1..Len(log)
  BY LogIsSequence, FS_Interval
<1>2. QED
  BY <1>1, FS_Subset, FS_CardinalityType

LEMMA LastPlace ==
  ASSUME TypeOK, NEW shot, Mine(shot) # {}
  PROVE  \E last \in Mine(shot) : \A i \in Mine(shot) : i <= last
<1>1. Mine(shot) \subseteq DOMAIN log /\ Mine(shot) \subseteq Int
  BY LogIsSequence DEF Mine
<1>2. IsFiniteSet(Mine(shot))
  BY <1>1, PlacesAreFinite
<1>3. QED
  BY <1>1, <1>2, GreatestNumber

\* Attempts are numbered in the order of the log, up to how many there are.
LEMMA NumbersAscend ==
  ASSUME TypeOK, NumbersFollowTheLog, NEW shot \in ToSet(Shots), NEW j \in Mine(shot)
  PROVE  /\ log[j].attempt \in 1..Cardinality(Mine(shot))
         /\ \A i \in Mine(shot) : i < j => log[i].attempt < log[j].attempt
         /\ (\A i \in Mine(shot) : i <= j) => log[j].attempt = Cardinality(Mine(shot))
<1> DEFINE UpTo(k) == {i \in Mine(shot) : i <= k}
<1>1. /\ Mine(shot) \subseteq DOMAIN log /\ \A k \in Mine(shot) : k \in Nat
      /\ \A k \in Mine(shot) : log[k].attempt = Cardinality(UpTo(k))
  <2>1. Mine(shot) \subseteq DOMAIN log /\ \A k \in Mine(shot) : k \in Nat
    BY LogIsSequence DEF Mine
  <2>2. QED
    BY <2>1 DEF NumbersFollowTheLog
<1>2. \A k \in Mine(shot) : IsFiniteSet(UpTo(k)) /\ Cardinality(UpTo(k)) \in Nat
  BY <1>1, PlacesAreFinite
<1>3. IsFiniteSet(Mine(shot)) /\ Cardinality(Mine(shot)) \in Nat
  BY <1>1, PlacesAreFinite
<1>4. Cardinality(UpTo(j)) <= Cardinality(Mine(shot))
  BY <1>3, FS_Subset
<1>5. Cardinality(UpTo(j)) # 0
  <2>1. j \in UpTo(j)
    BY <1>1
  <2>2. QED
    BY <1>2, <2>1, FS_EmptySet
<1>6. ASSUME NEW i \in Mine(shot), i < j
      PROVE  Cardinality(UpTo(i)) < Cardinality(UpTo(j))
  <2>1. UpTo(i) \in SUBSET UpTo(j) /\ j \in UpTo(j) /\ j \notin UpTo(i)
    BY <1>1, <1>6
  <2> HIDE DEF UpTo
  <2>2. Cardinality(UpTo(i)) <= Cardinality(UpTo(j)) /\ Cardinality(UpTo(i)) # Cardinality(UpTo(j))
    BY <1>2, <2>1, FS_Subset
  <2>3. QED
    BY <1>2, <2>2
<1>7. ASSUME \A i \in Mine(shot) : i <= j
      PROVE  UpTo(j) = Mine(shot)
  BY <1>7
<1> HIDE DEF UpTo
<1>8. QED
  BY <1>1, <1>2, <1>3, <1>4, <1>5, <1>6, <1>7

LEMMA NextNumberFollows ==
  ASSUME TypeOK, NumbersFollowTheLog, NEW shot \in ToSet(Shots)
  PROVE  NextAttemptNumber(shot) = Cardinality(Mine(shot)) + 1
<1> DEFINE N == {log[i].attempt : i \in Mine(shot)} \cup {0}
<1>1. Mine(shot) \subseteq DOMAIN log /\ Cardinality(Mine(shot)) \in Nat
  BY PlacesAreFinite DEF Mine
<1>2. N \subseteq Nat /\ \A n \in N : n <= Cardinality(Mine(shot))
  BY <1>1, NumbersAscend
<1>3. Cardinality(Mine(shot)) \in N
  <2>1. CASE Mine(shot) = {}
    BY <2>1, FS_EmptySet
  <2>2. CASE Mine(shot) # {}
    BY <2>2, LastPlace, NumbersAscend
  <2>3. QED
    BY <2>1, <2>2
<1> HIDE DEF N
<1>4. Max(N) = Cardinality(Mine(shot))
  <2>1. Max(N) \in N /\ \A n \in N : Max(N) >= n
    BY <1>2, <1>3 DEF Max
  <2>2. Max(N) \in Nat /\ Max(N) <= Cardinality(Mine(shot)) /\ Max(N) >= Cardinality(Mine(shot))
    BY <1>2, <1>3, <2>1
  <2>3. QED
    BY <1>1, <2>2
<1>5. QED
  BY <1>4 DEF NextAttemptNumber, N

\* If every attempt but the last was followed because it could be retried, a
\* shot that needs something has room for an attempt, and all of its attempts
\* could be retried.
LEMMA NeedIsRetryable ==
  ASSUME TypeOK, NumbersFollowTheLog, NEW shot \in ToSet(Shots), ~NeedsNothing(shot),
         \A i, j \in Mine(shot) : i < j => Retryable(log[i])
  PROVE  /\ Cardinality(Mine(shot)) < env.maxAttempts
         /\ \A i \in Mine(shot) : Retryable(log[i])
<1>1. /\ Mine(shot) \subseteq DOMAIN log /\ Cardinality(Mine(shot)) \in Nat
      /\ env.maxAttempts \in 1..4
  BY PlacesAreFinite, ExperimentAssumption DEF Mine, TypeOK, Environment
<1>2. CASE Mine(shot) = {}
  BY <1>1, <1>2, FS_EmptySet
<1>3. CASE Mine(shot) # {}
  <2>1. Cardinality(Mine(shot)) < env.maxAttempts /\ Retryable(Latest(shot))
    BY <1>1, <1>3 DEF NeedsNothing
  <2>2. PICK last \in Mine(shot) : \A i \in Mine(shot) : i <= last
    BY <1>3, LastPlace
  <2>3. \A i \in Mine(shot) : log[i].attempt \in Nat /\ log[i].attempt <= log[last].attempt
    BY <1>1, <2>2, NumbersAscend
  <2> DEFINE Greatest(i) == i \in Mine(shot) /\ \A j \in Mine(shot) : log[j].attempt <= log[i].attempt
             k == CHOOSE i \in Mine(shot) : \A j \in Mine(shot) : log[j].attempt <= log[i].attempt
  <2>4. Greatest(k)
    BY <2>2, <2>3
  <2>5. Retryable(log[k])
    BY <2>1 DEF Latest
  <2> HIDE DEF k
  <2>6. \A i \in Mine(shot) : ~(k < i)
    <3>1. ASSUME NEW i \in Mine(shot), k < i
          PROVE  FALSE
      <4>1. k \in Mine(shot) /\ log[i].attempt <= log[k].attempt
        BY <2>4
      <4>2. log[k].attempt < log[i].attempt
        BY <3>1, <4>1, NumbersAscend
      <4>3. QED
        BY <2>3, <4>1, <4>2
    <3>2. QED
      BY <3>1
  <2>7. \A i \in Mine(shot) : i < k \/ i = k
    BY <2>4, <2>6, LogIsSequence DEF Mine
  <2>8. QED
    BY <2>1, <2>4, <2>5, <2>7
<1>4. QED
  BY <1>2, <1>3

LEMMA ShotIsNext ==
  ASSUME TypeOK, todo # {}
  PROVE  Min(todo) \in todo /\ Shot \in ToSet(Shots)
<1>1. todo \subseteq DOMAIN Shots /\ todo \subseteq Nat
  BY ExperimentAssumption DEF TypeOK
<1>2. Min(todo) \in todo
  BY <1>1, LeastNatural DEF Min
<1>3. QED
  BY <1>1, <1>2 DEF Shot, ToSet

-----------------------------------------------------------------------------
(* The inductive invariant.                                                *)

UnderWay == pc \in {"submit", "poll", "deliver", "append"}

\* An attempt followed by another of its shot could be retried.
LogOK ==
  /\ NumbersFollowTheLog
  /\ \A i \in DOMAIN log : log[i].outcome = "failed" => log[i].seen \in Observation
  /\ \A i, j \in DOMAIN log : i < j /\ log[i].shot = log[j].shot => Retryable(log[i])

\* The attempt under way is the next of a shot that has room for it, and was
\* begun over a log that could be read.
AttemptOK ==
  /\ torn => pc = "idle"
  /\ interrupts <= MaxInterrupts + starts
  /\ pc # "idle" => interrupts < MaxInterrupts + starts
  /\ UnderWay =>
       /\ todo # {}
       /\ attempt.number = Cardinality(Mine(Shot)) + 1 /\ attempt.number <= env.maxAttempts
       /\ \A i \in Mine(Shot) : Retryable(log[i])
  /\ pc = "append" =>
       /\ record.shot = Shot /\ record.attempt = attempt.number /\ record.task = attempt.task
       /\ record.outcome = "failed" => record.seen \in Observation

\* A process knows what the log cost, and reserves the estimate of its attempt.
SpendOK ==
  /\ OverrunIsOneAttempt
  /\ pc # "idle" => spent = Cost(log)
  /\ UnderWay /\ env.cap # None => spent + Estimate(env) <= env.cap
  /\ pc = "append" => record.cost \in Prices \cup {None}

NamedOnce ==
  /\ \A i \in DOMAIN log : log[i].task # None =>
       tasks[log[i].task].shot = log[i].shot /\ tasks[log[i].task].attempt = log[i].attempt
  /\ \A i, j \in DOMAIN log : log[i].task = log[j].task /\ log[i].task # None => i = j

\* How many tasks the attempt under way may have bought that no record names.
Pending ==
  IF \/ pc \in {"poll", "deliver"}
     \/ pc = "append" /\ (record.task # None \/ ClassOf(record.seen) \in Unanswered)
  THEN 1 ELSE 0

TaskOK ==
  /\ NamedOnce
  /\ pc = "submit" => attempt.task = None
  /\ pc \in {"poll", "deliver"} => attempt.task # None
  /\ UnderWay /\ attempt.task # None =>
       /\ tasks[attempt.task].shot = Shot /\ tasks[attempt.task].attempt = attempt.number
       /\ \A i \in DOMAIN log : log[i].task # attempt.task
  /\ Cardinality(Unnamed) <= Pending + Cardinality(Unanswering) + interrupts

Inv == TypeOK /\ LogOK /\ AttemptOK /\ SpendOK /\ TaskOK

LEMMA InitInv == Init => Inv
<1> SUFFICES ASSUME Init PROVE Inv
  OBVIOUS
<1>1. TypeOK
  <2>1. <<>> \in Seq(Record) /\ <<>> \in Seq(Task) /\ MaxStarts \in Nat /\ MaxInterrupts \in Nat
    BY ExperimentAssumption
  <2>2. /\ env \in Environments /\ log \in Seq(Record) /\ tasks \in Seq(Task)
        /\ torn \in BOOLEAN /\ todo \subseteq DOMAIN Shots /\ spent \in Nat
    BY <2>1 DEF Init
  <2>3. /\ pc = "idle" /\ attempt = None /\ record = None /\ result = "none"
        /\ starts \in 0..MaxStarts /\ interrupts \in 0..(MaxInterrupts + MaxStarts)
    BY <2>1 DEF Init
  <2>4. QED
    BY <2>2, <2>3 DEF TypeOK
<1>2. DOMAIN log = {} /\ DOMAIN tasks = {} /\ \A shot : Mine(shot) = {}
  BY DEF Init, Mine
<1>3. LogOK
  <2>1. env.maxAttempts \in 1..4 /\ \A shot : Cardinality(Mine(shot)) = 0
    BY <1>1, <1>2, FS_EmptySet, ExperimentAssumption DEF TypeOK, Environment
  <2>2. QED
    BY <1>2, <2>1 DEF LogOK, NumbersFollowTheLog
<1>4. AttemptOK
  BY ExperimentAssumption DEF Init, AttemptOK, UnderWay
<1>5. SpendOK
  <2>1. log \in Seq(Record) /\ Len(log) = 0 /\ \A r \in Record : r.cost \in Nat \cup {None}
    BY <1>1 DEF Init, TypeOK, Record
  <2>2. Cost(log) = 0
    BY <2>1, CostOfNothing
  <2>3. env \in Environments /\ (env.cap # None => env.cap \in Nat)
    BY ExperimentAssumption DEF Init, Environment
  <2>4. OverrunIsOneAttempt
    BY <2>2, <2>3, Overrun DEF OverrunIsOneAttempt, Logged
  <2>5. QED
    BY <2>4 DEF Init, SpendOK, UnderWay
<1>6. TaskOK
  <2>1. Unnamed = {} /\ Unanswering = {}
    BY <1>2 DEF Unnamed, Unanswering
  <2>2. QED
    BY <1>2, <2>1, FS_EmptySet DEF Init, TaskOK, NamedOnce, Pending, UnderWay
<1>7. QED
  BY <1>1, <1>3, <1>4, <1>5, <1>6 DEF Inv

-----------------------------------------------------------------------------
(* Steps that leave the log alone.                                         *)

\* A step may at most buy the task of the attempt under way.
MayBuy == tasks' = tasks \/ (UnderWay /\ tasks' = Bought)

LEMMA MayBuyKeeps ==
  ASSUME Inv, UNCHANGED <<env, log>>, MayBuy
  PROVE  /\ env' \in Environments /\ log' \in Seq(Record') /\ Record \subseteq Record'
         /\ tasks' \in Seq(Task) /\ Len(tasks') \in Nat /\ 1..Len(tasks) \subseteq 1..Len(tasks')
         /\ \A t \in 1..Len(tasks) : tasks'[t] = tasks[t]
         /\ tasks' = Bought =>
              /\ Len(tasks') = Len(tasks) + 1 /\ tasks'[Len(tasks')].shot = Shot
              /\ tasks'[Len(tasks')].attempt = attempt.number
<1>1. /\ TypeOK /\ Len(tasks) \in Nat
      /\ UnderWay => /\ Shot \in ToSet(Shots) /\ attempt.number \in 1..4
  BY LogIsSequence, ShotIsNext DEF Inv, AttemptOK, UnderWay, TypeOK
<1>2. tasks \in Seq(Task) /\ env' \in Environments
  BY <1>1 DEF TypeOK
<1>3. UnderWay => [shot |-> Shot, attempt |-> attempt.number] \in Task
  BY <1>1 DEF Task
<1>4. /\ tasks' \in Seq(Task) /\ Len(tasks') \in Nat /\ 1..Len(tasks) \subseteq 1..Len(tasks')
      /\ \A t \in 1..Len(tasks) : tasks'[t] = tasks[t]
      /\ tasks' = Bought =>
              /\ Len(tasks') = Len(tasks) + 1 /\ tasks'[Len(tasks')].shot = Shot
              /\ tasks'[Len(tasks')].attempt = attempt.number
  BY <1>1, <1>2, <1>3 DEF MayBuy, Bought
<1>5. Record \subseteq Record'
  BY <1>4 DEF Record
<1>6. log' \in Seq(Record')
  BY <1>1, <1>5 DEF TypeOK
<1>7. QED
  BY <1>2, <1>4, <1>5, <1>6

LEMMA MayBuyUnnamed ==
  ASSUME Inv, UNCHANGED <<env, log>>, MayBuy
  PROVE  /\ Unanswering' = Unanswering /\ Cardinality(Unanswering) \in Nat
         /\ Cardinality(Unnamed) \in Nat
         /\ tasks' = tasks => Unnamed' = Unnamed
         /\ tasks' = Bought => Cardinality(Unnamed') = Cardinality(Unnamed) + 1
         /\ \A i \in DOMAIN log : log[i].task # Len(tasks) + 1
<1>1. TypeOK
  BY DEF Inv
<1>2. Unanswering \subseteq DOMAIN log /\ Unanswering' = Unanswering
  BY DEF Unanswering
<1>3. IsFiniteSet(Unnamed) /\ Cardinality(Unnamed) \in Nat /\ Unnamed \subseteq 1..Len(tasks)
  <2>1. Unnamed \subseteq 1..Len(tasks) /\ IsFiniteSet(1..Len(tasks))
    BY <1>1, LogIsSequence, FS_Interval DEF Unnamed
  <2>2. QED
    BY <2>1, FS_Subset, FS_CardinalityType
<1>4. \A i \in DOMAIN log : log[i].task # Len(tasks) + 1
  BY <1>1, LogIsSequence, ExperimentAssumption DEF Record
<1>5. ASSUME tasks' = Bought
      PROVE  Cardinality(Unnamed') = Cardinality(Unnamed) + 1
  <2>1. tasks \in Seq(Task) /\ Len(tasks) \in Nat
    BY <1>1, LogIsSequence DEF TypeOK
  <2>2. DOMAIN tasks' = DOMAIN tasks \cup {Len(tasks) + 1}
    BY <1>5, <2>1 DEF Bought
  <2>3. Unnamed' = Unnamed \cup {Len(tasks) + 1} /\ Len(tasks) + 1 \notin Unnamed
    BY <1>3, <1>4, <2>1, <2>2 DEF Unnamed
  <2>4. QED
    BY <1>3, <2>3, FS_AddElement
<1>6. QED
  BY <1>1, <1>2, <1>3, <1>4, <1>5, PlacesAreFinite DEF Unnamed

\* What the log says of itself, of the tasks and of the spend stays true.
LEMMA MayBuyKeepsLog ==
  ASSUME Inv, UNCHANGED <<env, log>>, MayBuy
  PROVE  /\ LogOK' /\ NamedOnce' /\ OverrunIsOneAttempt' /\ Cost(log)' = Cost(log)
         /\ Prices' = Prices /\ Estimate(env)' = Estimate(env)
         /\ \A shot : Mine(shot)' = Mine(shot) /\ NeedsNothing(shot)' = NeedsNothing(shot)
<1>1. /\ Cost(log)' = Cost(log) /\ Prices' = Prices /\ Estimate(env)' = Estimate(env)
      /\ \A shot : Mine(shot)' = Mine(shot)
  BY DEF Mine, Prices, Quantity, UnitPrice, Estimate
<1>2. \A shot : NeedsNothing(shot)' = NeedsNothing(shot)
  BY <1>1 DEF NeedsNothing, Latest
<1>3. OverrunIsOneAttempt'
  BY <1>1 DEF Inv, SpendOK, OverrunIsOneAttempt, Logged
<1>4. LogOK'
  BY <1>1 DEF Inv, LogOK, NumbersFollowTheLog
<1>5. NamedOnce'
  <2>1. \A i \in DOMAIN log : log[i].task # None => log[i].task \in 1..Len(tasks)
    BY LogIsSequence DEF Inv, Record
  <2>2. QED
    BY <2>1, MayBuyKeeps DEF Inv, TaskOK, NamedOnce
<1>6. QED
  BY <1>1, <1>2, <1>3, <1>4, <1>5

Counted == starts \in Nat /\ interrupts \in Nat /\ MaxStarts \in Nat /\ MaxInterrupts \in Nat

LEMMA CountersAreNatural ==
  ASSUME TypeOK
  PROVE  Counted
<1>1. MaxStarts \in Nat /\ MaxInterrupts \in Nat
  BY ExperimentAssumption
<1>2. QED
  BY <1>1 DEF TypeOK, Counted

LEMMA NothingBought ==
  ASSUME UNCHANGED <<log, tasks>>
  PROVE  MayBuy /\ Unnamed' = Unnamed /\ Unanswering' = Unanswering
<1>1. MayBuy
  BY DEF MayBuy
<1>2. Unnamed' = Unnamed
  BY DEF Unnamed
<1>3. Unanswering' = Unanswering
  BY DEF Unanswering
<1>4. QED
  BY <1>1, <1>2, <1>3

\* A process ends: at most the task under way is left unnamed, and counted.
LEMMA EndedInv ==
  ASSUME Inv, NEW how \in {"none", "finished", "stopped", "interrupted", "unreadable"}, Ended(how),
         UNCHANGED <<env, log, spent>>, MayBuy, torn' \in BOOLEAN,
         starts' \in 0..MaxStarts, interrupts' \in Nat, interrupts' <= MaxInterrupts + starts',
         Cardinality(Unnamed') <= Cardinality(Unanswering') + interrupts'
  PROVE  Inv'
<1>1. TypeOK
  BY DEF Inv
<1>2. TypeOK'
  <2>1. interrupts' \in 0..(MaxInterrupts + MaxStarts)
    BY <1>1, CountersAreNatural DEF Counted
  <2>2. QED
    BY <1>1, <2>1, MayBuyKeeps DEF Ended, TypeOK
<1>3. LogOK'
  BY MayBuyKeepsLog
<1>4. AttemptOK'
  BY DEF Ended, AttemptOK, UnderWay
<1>5. SpendOK'
  BY MayBuyKeepsLog DEF Ended, SpendOK, UnderWay
<1>6. TaskOK'
  <2>1. Pending' = 0 /\ pc' = "idle"
    BY DEF Ended, Pending
  <2>2. Cardinality(Unnamed') \in Nat /\ Cardinality(Unanswering') \in Nat
    BY <1>1, MayBuyUnnamed DEF MayBuy
  <2>3. QED
    BY <2>1, <2>2, MayBuyKeepsLog DEF TaskOK, UnderWay
<1>7. QED
  BY <1>2, <1>3, <1>4, <1>5, <1>6 DEF Inv

\* How many tasks no record names, seen from where the process is.
LEMMA UnnamedNow ==
  ASSUME Inv
  PROVE  /\ Cardinality(Unnamed) <= Pending + Cardinality(Unanswering) + interrupts
         /\ Pending \in {0, 1} /\ (pc \in {"idle", "decide", "submit"} => Pending = 0)
         /\ Cardinality(Unnamed) \in Nat /\ Cardinality(Unanswering) \in Nat /\ Counted
<1>1. TypeOK
  BY DEF Inv
<1>2. IsFiniteSet(Unnamed) /\ Cardinality(Unnamed) \in Nat
  <2>1. Unnamed \subseteq 1..Len(tasks) /\ IsFiniteSet(1..Len(tasks))
    BY <1>1, LogIsSequence, FS_Interval DEF Unnamed
  <2>2. QED
    BY <2>1, FS_Subset, FS_CardinalityType
<1>3. Cardinality(Unanswering) \in Nat
  BY <1>1, PlacesAreFinite DEF Unanswering
<1>4. QED
  BY <1>1, <1>2, <1>3, CountersAreNatural DEF Inv, TaskOK, Pending

LEMMA EndingsInv ==
  ASSUME Inv, \/ StartUnreadable \/ Finish \/ StopAtCap \/ Interrupt
              \/ \E render \in Renders : DeliveryRefused(render)
  PROVE  Inv'
<1>1. TypeOK /\ Counted /\ starts <= MaxStarts /\ interrupts <= MaxInterrupts + starts
  BY CountersAreNatural DEF Inv, TypeOK, AttemptOK
<1>2. CASE StartUnreadable
  <2>1. UNCHANGED <<env, log, spent, torn, tasks, interrupts>> /\ Ended("unreadable")
        /\ starts' = starts + 1 /\ starts' \in 0..MaxStarts /\ pc = "idle"
    BY <1>1, <1>2 DEF StartUnreadable, Counted
  <2>2. MayBuy /\ Unnamed' = Unnamed /\ Unanswering' = Unanswering
    BY <2>1, NothingBought
  <2>3. QED
    BY <1>1, <2>1, <2>2, UnnamedNow, EndedInv DEF Counted, TypeOK
<1>3. CASE Finish \/ StopAtCap
  <2>1. UNCHANGED <<env, log, spent, torn, tasks, interrupts, starts>>
        /\ (Ended("finished") \/ Ended("stopped")) /\ pc = "decide"
    BY <1>3 DEF Finish, StopAtCap, bounds
  <2>2. MayBuy /\ Unnamed' = Unnamed /\ Unanswering' = Unanswering
    BY <2>1, NothingBought
  <2>3. QED
    BY <1>1, <2>1, <2>2, UnnamedNow, EndedInv DEF Counted, TypeOK
<1>4. CASE Interrupt
  <2>6. UNCHANGED <<env, log, spent, starts>> /\ Ended("interrupted")
        /\ interrupts' = interrupts + 1 /\ interrupts < MaxInterrupts
        /\ (tasks' = tasks \/ (pc = "submit" /\ tasks' = Bought))
    BY <1>4, Zenon DEF Interrupt
  <2>1. UNCHANGED <<env, log, spent, starts>> /\ Ended("interrupted")
        /\ interrupts' = interrupts + 1 /\ interrupts' <= MaxInterrupts
        /\ (tasks' = tasks \/ (pc = "submit" /\ tasks' = Bought))
    BY <1>1, <2>6 DEF Counted
  <2>5. torn' \in BOOLEAN
    BY <1>1, <1>4 DEF Interrupt, TypeOK
  <2>2. MayBuy
    BY <2>1 DEF MayBuy, UnderWay
  <2>3. Cardinality(Unnamed') <= Cardinality(Unanswering') + interrupts'
    BY <2>1, <2>2, UnnamedNow, MayBuyUnnamed DEF Counted
  <2>4. QED
    BY <1>1, <2>1, <2>2, <2>3, <2>5, EndedInv DEF Counted
<1>5. CASE \E render \in Renders : DeliveryRefused(render)
  <2>1. UNCHANGED <<env, log, spent, torn, tasks, starts>> /\ Ended("interrupted")
        /\ interrupts' = interrupts + 1 /\ pc # "idle"
    BY <1>5 DEF DeliveryRefused
  <2>2. MayBuy /\ Unnamed' = Unnamed /\ Unanswering' = Unanswering
    BY <2>1, NothingBought
  <2>3. interrupts' <= MaxInterrupts + starts'
    BY <1>1, <2>1 DEF Inv, AttemptOK, Counted
  <2>4. QED
    BY <1>1, <2>1, <2>2, <2>3, UnnamedNow, EndedInv DEF Counted, TypeOK
<1>6. QED
  BY <1>2, <1>3, <1>4, <1>5

-----------------------------------------------------------------------------
(* Steps of a process that leave the log alone.                            *)

LEMMA LogCost ==
  ASSUME TypeOK
  PROVE  /\ Cost(log) \in Nat
         /\ \A r \in Record : Cost(Append(log, r)) = Cost(log) + CostOf(r)
<1>1. log \in Seq(Record) /\ \A r \in Record : r.cost \in Nat \cup {None}
  BY DEF TypeOK, Record
<1>2. QED
  BY <1>1, CostOfLog

LEMMA StartInv ==
  ASSUME Inv, NEW only, Start(only)
  PROVE  Inv'
<1>1. TypeOK /\ Counted /\ pc = "idle" /\ pc' = "decide" /\ ~torn /\ starts < MaxStarts
  BY CountersAreNatural DEF Inv, Start, GoTo
<1>2. /\ starts' = starts + 1 /\ spent' = Cost(log) /\ result' = "none"
      /\ todo' = {i \in DOMAIN Shots : Shots[i] \in only}
      /\ UNCHANGED <<env, log, torn, tasks, attempt, record, interrupts>>
  BY DEF Start
<1>3. MayBuy /\ Unnamed' = Unnamed /\ Unanswering' = Unanswering
  BY <1>2, NothingBought
<1>4. TypeOK'
  <2>1. starts' \in 0..MaxStarts
    BY <1>1, <1>2 DEF Counted
  <2>2. spent' \in Nat
    BY <1>1, <1>2, LogCost
  <2>3. QED
    BY <1>1, <1>2, <1>3, <2>1, <2>2, MayBuyKeeps DEF TypeOK
<1>5. AttemptOK'
  BY <1>1, <1>2 DEF Inv, AttemptOK, UnderWay, Counted
<1>6. SpendOK'
  BY <1>1, <1>2, <1>3, MayBuyKeepsLog DEF SpendOK, UnderWay
<1>7. TaskOK'
  BY <1>1, <1>2, <1>3, MayBuyKeepsLog, UnnamedNow DEF TaskOK, UnderWay, Pending
<1>8. QED
  BY <1>2, <1>3, <1>4, <1>5, <1>6, <1>7, MayBuyKeepsLog DEF Inv

LEMMA SkipInv ==
  ASSUME Inv, Skip
  PROVE  Inv'
<1>1. TypeOK /\ Counted /\ pc = "decide"
  BY CountersAreNatural DEF Inv, Skip
<1>2. /\ todo' \subseteq todo
      /\ UNCHANGED <<env, log, torn, tasks, pc, spent, attempt, record, result, starts, interrupts>>
  BY DEF Skip, bounds
<1>3. MayBuy /\ Unnamed' = Unnamed /\ Unanswering' = Unanswering
  BY <1>2, NothingBought
<1>4. TypeOK'
  BY <1>1, <1>2, <1>3, MayBuyKeeps DEF TypeOK
<1>5. AttemptOK'
  BY <1>1, <1>2 DEF Inv, AttemptOK, UnderWay
<1>6. SpendOK'
  BY <1>1, <1>2, <1>3, MayBuyKeepsLog DEF Inv, SpendOK, UnderWay
<1>7. TaskOK'
  BY <1>1, <1>2, <1>3, MayBuyKeepsLog, UnnamedNow DEF TaskOK, UnderWay, Pending
<1>8. QED
  BY <1>2, <1>3, <1>4, <1>5, <1>6, <1>7, MayBuyKeepsLog DEF Inv

\* An attempt begins only for a shot that has room for it, within the cap.
LEMMA BeginInv ==
  ASSUME Inv, Begin
  PROVE  Inv'
<1>1. TypeOK /\ Counted /\ LogOK /\ pc = "decide" /\ pc' = "submit" /\ todo # {}
      /\ ~NeedsNothing(Shot) /\ ~WouldPassCap /\ Shot \in ToSet(Shots)
  BY CountersAreNatural, ShotIsNext DEF Inv, Begin, GoTo
<1>2. /\ attempt' = [number |-> NextAttemptNumber(Shot), task |-> None]
      /\ UNCHANGED <<env, log, torn, tasks, todo, spent, record, result, starts, interrupts>>
  BY DEF Begin, bounds
<1>3. MayBuy /\ Unnamed' = Unnamed /\ Unanswering' = Unanswering
  BY <1>2, NothingBought
<1>4. /\ NextAttemptNumber(Shot) = Cardinality(Mine(Shot)) + 1
      /\ Cardinality(Mine(Shot)) \in Nat /\ Cardinality(Mine(Shot)) < env.maxAttempts
      /\ \A i \in Mine(Shot) : Retryable(log[i])
  <2>1. NumbersFollowTheLog /\ \A i, j \in Mine(Shot) : i < j => Retryable(log[i])
    BY <1>1 DEF LogOK, Mine
  <2>2. Cardinality(Mine(Shot)) \in Nat
    BY <1>1, PlacesAreFinite DEF Mine
  <2>3. QED
    BY <1>1, <2>1, <2>2, NextNumberFollows, NeedIsRetryable
<1>5. env.maxAttempts \in 1..4 /\ attempt' \in [number : 1..4, task : 1..Len(tasks) \cup {None}]
  <2>1. env.maxAttempts \in 1..4
    BY <1>1, ExperimentAssumption DEF TypeOK, Environment
  <2>2. QED
    BY <1>2, <1>4, <2>1
<1>6. TypeOK'
  BY <1>1, <1>2, <1>3, <1>5, MayBuyKeeps DEF TypeOK
<1>7. AttemptOK'
  <2>1. Shot' = Shot /\ Mine(Shot)' = Mine(Shot)
    BY <1>2 DEF Shot, Mine
  <2>2. attempt'.number = Cardinality(Mine(Shot)) + 1 /\ attempt'.number <= env.maxAttempts
    BY <1>2, <1>4, <1>5
  <2>3. ~torn /\ interrupts < MaxInterrupts + starts
    BY <1>1 DEF Inv, AttemptOK
  <2>4. QED
    BY <1>1, <1>2, <1>4, <2>1, <2>2, <2>3 DEF Inv, AttemptOK
<1>8. SpendOK'
  <2>1. env.cap # None => spent + Estimate(env) <= env.cap
    <3>1. spent \in Nat /\ Estimate(env) \in Nat /\ (env.cap # None => env.cap \in Nat)
      BY <1>1, EstimateIsNatural, ExperimentAssumption DEF TypeOK, Environment
    <3>2. QED
      BY <1>1, <3>1 DEF WouldPassCap
  <2>2. QED
    BY <1>1, <1>2, <1>3, <2>1, MayBuyKeepsLog DEF Inv, SpendOK
<1>9. TaskOK'
  BY <1>1, <1>2, <1>3, MayBuyKeepsLog, UnnamedNow DEF TaskOK, UnderWay, Pending
<1>10. QED
  BY <1>2, <1>3, <1>6, <1>7, <1>8, <1>9, MayBuyKeepsLog DEF Inv

\* What an attempt under way keeps while it goes from one await to the next.
LEMMA AttemptGoesOn ==
  ASSUME Inv, UnderWay, UnderWay', UNCHANGED <<env, log, torn, todo, spent, starts, interrupts>>,
         MayBuy, attempt'.number = attempt.number
  PROVE  /\ Shot' = Shot /\ LogOK' /\ NamedOnce'
         /\ ~torn' /\ interrupts' < MaxInterrupts + starts' /\ interrupts' <= MaxInterrupts + starts'
         /\ todo' # {} /\ attempt'.number = Cardinality(Mine(Shot)')+ 1
         /\ attempt'.number <= env'.maxAttempts /\ \A i \in Mine(Shot)' : Retryable(log'[i])
         /\ OverrunIsOneAttempt' /\ spent' = Cost(log)' /\ Prices' = Prices
         /\ env'.cap # None => spent' + Estimate(env)' <= env'.cap
<1>1. Shot' = Shot /\ Mine(Shot)' = Mine(Shot)
  BY DEF Shot, Mine
<1>2. UnderWay => pc # "idle" /\ pc \in {"submit", "poll", "deliver", "append"}
  BY DEF UnderWay
<1>3. /\ ~torn /\ interrupts < MaxInterrupts + starts /\ interrupts <= MaxInterrupts + starts
      /\ todo # {} /\ attempt.number = Cardinality(Mine(Shot)) + 1
      /\ attempt.number <= env.maxAttempts /\ \A i \in Mine(Shot) : Retryable(log[i])
  BY <1>2 DEF Inv, AttemptOK
<1>4. spent = Cost(log) /\ (env.cap # None => spent + Estimate(env) <= env.cap)
  BY <1>2 DEF Inv, SpendOK
<1>5. QED
  BY <1>1, <1>3, <1>4, MayBuyKeepsLog

LEMMA SubmitInv ==
  ASSUME Inv, Submit
  PROVE  Inv'
<1>1. TypeOK /\ Counted /\ pc = "submit" /\ pc' = "poll" /\ UnderWay /\ UnderWay'
  BY CountersAreNatural DEF Inv, Submit, GoTo, UnderWay
<1>2. /\ tasks' = Bought /\ attempt' = [attempt EXCEPT !.task = Len(tasks')]
      /\ UNCHANGED <<env, log, torn, todo, spent, record, result, starts, interrupts>>
  BY DEF Submit, bounds
<1>3. MayBuy
  BY <1>1, <1>2 DEF MayBuy
<1>4. /\ Len(tasks) \in Nat /\ Len(tasks') = Len(tasks) + 1
      /\ tasks'[Len(tasks')].shot = Shot /\ tasks'[Len(tasks')].attempt = attempt.number
  BY <1>1, <1>2, <1>3, MayBuyKeeps, LogIsSequence
<1>5. /\ attempt' \in [number : 1..4, task : 1..Len(tasks') \cup {None}]
      /\ attempt'.number = attempt.number /\ attempt'.task = Len(tasks')
  <2>1. attempt \in [number : 1..4, task : 1..Len(tasks) \cup {None}]
    BY <1>1 DEF TypeOK
  <2>2. QED
    BY <1>2, <1>4, <2>1
<1>6. TypeOK'
  BY <1>1, <1>2, <1>3, <1>5, MayBuyKeeps DEF TypeOK
<1>7. AttemptOK'
  BY <1>1, <1>2, <1>3, <1>5, AttemptGoesOn DEF AttemptOK
<1>8. SpendOK'
  BY <1>1, <1>2, <1>3, <1>5, AttemptGoesOn DEF SpendOK
<1>9. TaskOK'
  <2>1. Cardinality(Unnamed') <= Pending' + Cardinality(Unanswering') + interrupts'
    BY <1>1, <1>2, <1>3, UnnamedNow, MayBuyUnnamed DEF Pending, Counted
  <2>2. Len(tasks') # None /\ \A i \in DOMAIN log : log[i].task # Len(tasks')
    BY <1>2, <1>3, <1>4, MayBuyUnnamed, ExperimentAssumption
  <2>3. QED
    BY <1>1, <1>2, <1>3, <1>4, <1>5, <2>1, <2>2, AttemptGoesOn DEF TaskOK
<1>10. QED
  BY <1>1, <1>2, <1>3, <1>5, <1>6, <1>7, <1>8, <1>9, AttemptGoesOn DEF Inv

LEMMA PollFindsSuccessInv ==
  ASSUME Inv, PollFindsSuccess
  PROVE  Inv'
<1>1. TypeOK /\ Counted /\ pc = "poll" /\ pc' = "deliver" /\ UnderWay /\ UnderWay'
  BY CountersAreNatural DEF Inv, PollFindsSuccess, GoTo, UnderWay
<1>2. UNCHANGED <<env, log, torn, tasks, todo, spent, attempt, record, result, starts, interrupts>>
  BY DEF PollFindsSuccess, bounds
<1>3. MayBuy /\ Unnamed' = Unnamed /\ Unanswering' = Unanswering
  BY <1>2, NothingBought
<1>4. TypeOK'
  BY <1>1, <1>2, <1>3, MayBuyKeeps DEF TypeOK
<1>5. AttemptOK'
  BY <1>1, <1>2, <1>3, AttemptGoesOn DEF AttemptOK
<1>6. SpendOK'
  BY <1>1, <1>2, <1>3, AttemptGoesOn DEF SpendOK
<1>7. TaskOK'
  BY <1>1, <1>2, <1>3, AttemptGoesOn, UnnamedNow DEF Inv, TaskOK, Pending
<1>8. QED
  BY <1>1, <1>2, <1>3, <1>4, <1>5, <1>6, <1>7, AttemptGoesOn DEF Inv

\* An attempt has become a record, and whatever it bought is named or unanswered.
LEMMA RecordedInv ==
  ASSUME Inv, pc \in {"submit", "poll", "deliver"}, pc' = "append",
         UNCHANGED <<env, log, torn, todo, spent, attempt, result, starts, interrupts>>,
         NEW outcome \in {"succeeded", "failed"}, NEW seen \in Observation \cup {None},
         NEW cost \in Prices \cup {None}, outcome = "failed" => seen \in Observation,
         record' = [shot |-> Shot, attempt |-> attempt.number, task |-> attempt.task,
                    outcome |-> outcome, seen |-> seen, cost |-> cost],
         \/ tasks' = tasks
         \/ pc = "submit" /\ ClassOf(seen) \in Unanswered /\ tasks' = Bought
  PROVE  Inv'
<1>1. TypeOK /\ Counted /\ UnderWay /\ UnderWay' /\ MayBuy /\ Shot \in ToSet(Shots)
  BY CountersAreNatural, ShotIsNext DEF Inv, AttemptOK, MayBuy, UnderWay
<1>2. attempt \in [number : 1..4, task : 1..Len(tasks) \cup {None}]
  BY <1>1 DEF TypeOK, UnderWay
<1>3. record' \in Record'
  <2>1. cost \in Nat \cup {None}
    BY <1>1, PricesAreNatural DEF TypeOK
  <2>2. record' \in Record
    BY <1>1, <1>2, <2>1 DEF Record
  <2>3. QED
    BY <1>1, <2>2, MayBuyKeeps
<1>4. attempt' \in [number : 1..4, task : 1..Len(tasks') \cup {None}]
  BY <1>1, <1>2, MayBuyKeeps
<1>5. TypeOK'
  BY <1>1, <1>3, <1>4, MayBuyKeeps DEF TypeOK
<1>6. /\ record'.shot = Shot /\ record'.attempt = attempt.number /\ record'.task = attempt.task
      /\ record'.outcome = outcome /\ record'.seen = seen /\ record'.cost = cost
  OBVIOUS
<1>7. AttemptOK'
  BY <1>1, <1>6, AttemptGoesOn DEF AttemptOK
<1>8. SpendOK'
  BY <1>1, <1>6, AttemptGoesOn DEF SpendOK
<1>9. TaskOK'
  <2>1. Cardinality(Unnamed') <= Pending' + Cardinality(Unanswering') + interrupts'
    <3>1. CASE pc = "submit" /\ tasks' = tasks
      BY <1>1, <3>1, UnnamedNow, MayBuyUnnamed DEF Pending, Counted
    <3>2. CASE pc = "submit" /\ ClassOf(seen) \in Unanswered /\ tasks' = Bought
      <4>1. Pending' = 1
        BY <1>6, <3>2 DEF Pending
      <4>2. QED
        BY <1>1, <3>2, <4>1, UnnamedNow, MayBuyUnnamed DEF Counted
    <3>3. CASE pc \in {"poll", "deliver"} /\ tasks' = tasks
      <4>1. Pending' = 1
        BY <1>6, <3>3 DEF Inv, TaskOK, Pending
      <4>2. QED
        BY <1>1, <3>3, <4>1, UnnamedNow, MayBuyUnnamed DEF Counted
    <3>4. QED
      BY <3>1, <3>2, <3>3
  <2>2. attempt.task # None =>
          /\ tasks'[attempt.task].shot = Shot /\ tasks'[attempt.task].attempt = attempt.number
          /\ \A i \in DOMAIN log : log[i].task # attempt.task
    BY <1>1, <1>2, MayBuyKeeps DEF Inv, TaskOK
  <2>3. QED
    BY <1>1, <2>1, <2>2, AttemptGoesOn DEF TaskOK
<1>10. QED
  BY <1>1, <1>5, <1>7, <1>8, <1>9, AttemptGoesOn DEF Inv

LEMMA FailuresInv ==
  ASSUME Inv, \/ \E seen \in Observed[env.provider, "submit"] : SubmitFails(seen)
              \/ \E seen \in Observed[env.provider, "poll"] : PollFails(seen)
              \/ PollPastDeadline \/ DeliverNothing
  PROVE  Inv'
<1>1. /\ Observed[env.provider, "submit"] \subseteq Observation
      /\ Observed[env.provider, "poll"] \subseteq Observation
  <2>1. env.provider \in {"offline", "replicate"}
    BY ExperimentAssumption DEF Inv, TypeOK, Environment
  <2>2. QED
    BY <2>1, ExperimentAssumption
<1>2. NoneInTime \in Observation /\ NoResult \in Observation
  BY DEF Observation, NoneInTime, NoResult
<1>3. PICK seen \in Observation : \/ SubmitFails(seen) \/ PollFails(seen)
                                  \/ PollPastDeadline /\ seen = NoneInTime
                                  \/ DeliverNothing /\ seen = NoResult
  BY <1>1, <1>2
<1>4. /\ pc \in {"submit", "poll", "deliver"} /\ pc' = "append" /\ record' = Failed(seen)
      /\ UNCHANGED <<env, log, torn, todo, spent, attempt, result, starts, interrupts>>
  BY <1>3 DEF SubmitFails, PollFails, PollPastDeadline, DeliverNothing, GoTo, bounds
<1>5. \/ tasks' = tasks
      \/ pc = "submit" /\ ClassOf(seen) \in Unanswered /\ tasks' = Bought
  BY <1>3 DEF SubmitFails, PollFails, PollPastDeadline, DeliverNothing, GoTo
<1>6. QED
  BY <1>4, <1>5, RecordedInv DEF Failed

LEMMA DeliverInv ==
  ASSUME Inv, NEW render \in Renders, Deliver(render)
  PROVE  Inv'
<1> DEFINE quantity == Quantity(env, render)
           cost == IF quantity = None THEN None ELSE quantity * UnitPrice(env)
<1>1. /\ pc = "deliver" /\ pc' = "append" /\ Measurable(render) /\ tasks' = tasks
      /\ record' = Succeeded(cost)
      /\ UNCHANGED <<env, log, torn, todo, spent, attempt, result, starts, interrupts>>
  BY DEF Deliver, GoTo, bounds
<1>2. cost \in Prices \cup {None}
  BY <1>1 DEF Prices
<1> HIDE DEF cost
<1>3. QED
  BY <1>1, <1>2, RecordedInv DEF Succeeded

-----------------------------------------------------------------------------
(* The attempt under way is logged.                                        *)

Place == Len(log) + 1

\* What becomes of the log when the record is appended.
LEMMA SettledLog ==
  ASSUME Inv, Settle
  PROVE  /\ TypeOK /\ pc = "append" /\ pc' = "decide" /\ UnderWay
         /\ record \in Record /\ record.shot = Shot
         /\ UNCHANGED <<env, torn, tasks, result, starts, interrupts>>
         /\ Place \in Nat /\ Place \notin DOMAIN log /\ DOMAIN log' = DOMAIN log \cup {Place}
         /\ \A i \in DOMAIN log : log'[i] = log[i] /\ i \in Nat /\ i < Place
         /\ log'[Place] = record /\ log' \in Seq(Record)
         /\ \A shot : /\ Mine(shot) \subseteq DOMAIN log
                      /\ Mine(shot)' = IF shot = Shot THEN Mine(shot) \cup {Place} ELSE Mine(shot)
<1>1. /\ TypeOK /\ pc = "append" /\ pc' = "decide" /\ UnderWay /\ log' = Append(log, record)
      /\ UNCHANGED <<env, torn, tasks, result, starts, interrupts>>
  BY DEF Inv, Settle, GoTo, UnderWay, bounds
<1>2. log \in Seq(Record) /\ record \in Record /\ record.shot = Shot /\ Len(log) \in Nat
      /\ DOMAIN log = 1..Len(log)
  BY <1>1, LogIsSequence DEF Inv, TypeOK, AttemptOK
<1>3. /\ Place \in Nat /\ Place \notin DOMAIN log /\ DOMAIN log' = DOMAIN log \cup {Place}
      /\ \A i \in DOMAIN log : log'[i] = log[i] /\ i \in Nat /\ i < Place
      /\ log'[Place] = record /\ log' \in Seq(Record)
  BY <1>1, <1>2 DEF Place
<1>4. ASSUME NEW shot
      PROVE  /\ Mine(shot) \subseteq DOMAIN log
             /\ Mine(shot)' = IF shot = Shot THEN Mine(shot) \cup {Place} ELSE Mine(shot)
  <2>1. Mine(shot)' = {i \in DOMAIN log' : log'[i].shot = shot}
    BY DEF Mine
  <2>2. QED
    BY <1>2, <1>3, <2>1 DEF Mine
<1>5. QED
  BY <1>1, <1>2, <1>3, <1>4

LEMMA SettleLogOK ==
  ASSUME Inv, Settle
  PROVE  LogOK'
<1>1. LogOK /\ AttemptOK /\ NumbersFollowTheLog
  BY DEF Inv, LogOK
<1>2. /\ record.attempt = Cardinality(Mine(Shot)) + 1 /\ record.attempt <= env.maxAttempts
      /\ \A i \in Mine(Shot) : Retryable(log[i])
      /\ record.outcome = "failed" => record.seen \in Observation
  BY <1>1, SettledLog DEF AttemptOK
<1>3. ASSUME NEW shot \in ToSet(Shots)
      PROVE  /\ Cardinality(Mine(shot)') <= env.maxAttempts
             /\ \A i \in Mine(shot)' :
                  log'[i].attempt = Cardinality({j \in Mine(shot)' : j <= i})
  <2>1. /\ Cardinality(Mine(shot)) <= env.maxAttempts
        /\ \A i \in Mine(shot) : log[i].attempt = Cardinality({j \in Mine(shot) : j <= i})
        /\ Mine(shot) \subseteq DOMAIN log
    BY <1>1, SettledLog DEF NumbersFollowTheLog
  <2>2. CASE shot # Shot
    BY <2>1, <2>2, SettledLog
  <2>3. CASE shot = Shot
    <3>1. Mine(shot)' = Mine(shot) \cup {Place} /\ Place \notin Mine(shot)
      BY <2>1, <2>3, SettledLog
    <3>2. Cardinality(Mine(shot)') = Cardinality(Mine(shot)) + 1
      BY <2>1, <3>1, SettledLog, PlacesAreFinite, FS_AddElement
    <3>3. \A i \in Mine(shot) : {j \in Mine(shot)' : j <= i} = {j \in Mine(shot) : j <= i}
      BY <2>1, <3>1, SettledLog
    <3>4. {j \in Mine(shot)' : j <= Place} = Mine(shot)'
      BY <2>1, <3>1, SettledLog
    <3>5. log'[Place].attempt = Cardinality({j \in Mine(shot)' : j <= Place})
      BY <1>2, <2>3, <3>2, <3>4, SettledLog
    <3>6. ASSUME NEW i \in Mine(shot)
          PROVE  log'[i].attempt = Cardinality({j \in Mine(shot)' : j <= i})
      BY <2>1, <3>3, SettledLog
    <3>7. \A i \in Mine(shot)' : log'[i].attempt = Cardinality({j \in Mine(shot)' : j <= i})
      BY <3>1, <3>5, <3>6
    <3>8. QED
      BY <1>2, <2>3, <3>2, <3>7
  <2>4. QED
    BY <2>2, <2>3
<1>4. NumbersFollowTheLog'
  BY <1>3, SettledLog DEF NumbersFollowTheLog
<1>5. \A i \in DOMAIN log' : log'[i].outcome = "failed" => log'[i].seen \in Observation
  BY <1>1, <1>2, SettledLog DEF LogOK
<1>6. ASSUME NEW i \in DOMAIN log', NEW j \in DOMAIN log', i < j, log'[i].shot = log'[j].shot
      PROVE  Retryable(log'[i])
  <2>1. i \in DOMAIN log /\ log'[i] = log[i]
    BY <1>6, SettledLog
  <2>2. CASE j = Place
    <3>1. i \in Mine(Shot)
      BY <1>6, <2>1, <2>2, SettledLog DEF Mine
    <3>2. QED
      BY <1>2, <2>1, <3>1
  <2>3. CASE j # Place
    <3>1. j \in DOMAIN log /\ log'[j] = log[j]
      BY <2>3, SettledLog
    <3>2. QED
      BY <1>1, <1>6, <2>1, <3>1 DEF LogOK
  <2>4. QED
    BY <2>2, <2>3
<1>7. QED
  BY <1>4, <1>5, <1>6 DEF LogOK

\* The overrun of the cap is that of the attempt just logged, if any.
LEMMA SettleSpendOK ==
  ASSUME Inv, Settle
  PROVE  SpendOK' /\ spent' \in Nat
<1>1. /\ spent' = spent + CostOf(record) /\ log' = Append(log, record)
      /\ pc' = "decide" /\ env' = env /\ record \in Record /\ env \in Environments
  BY SettledLog DEF Settle, TypeOK
<1>2. /\ spent = Cost(log) /\ record.cost \in Prices \cup {None}
      /\ env.cap # None => spent + Estimate(env) <= env.cap
  BY SettledLog DEF Inv, SpendOK
<1>3. Cost(log') = spent' /\ spent \in Nat
  BY <1>1, <1>2, SettledLog, LogCost
<1>4. Prices' = Prices /\ Estimate(env)' = Estimate(env) /\ Prices \subseteq Nat
  BY <1>1, PricesAreNatural DEF Prices, Quantity, UnitPrice, Estimate
<1>5. CostOf(record) \in Nat /\ (CostOf(record) # 0 => CostOf(record) \in Prices)
  BY <1>2, <1>4 DEF CostOf
<1>6. OverrunIsOneAttempt'
  <2> DEFINE most == Max({c - Estimate(env) : c \in Prices} \cup {0})
  <2>1. most \in Nat /\ (\A c \in Prices : c - Estimate(env) <= most) /\ most' = most
    BY <1>1, <1>4, Overrun
  <2>2. Estimate(env) \in Nat /\ (env.cap # None => env.cap \in Nat)
    BY <1>1, EstimateIsNatural, ExperimentAssumption DEF Environment
  <2> HIDE DEF most
  <2>3. env.cap # None => spent + CostOf(record) <= env.cap + most
    <3>1. SUFFICES ASSUME env.cap # None
                   PROVE  spent + CostOf(record) <= env.cap + most
      OBVIOUS
    <3>2. CASE CostOf(record) = 0
      BY <1>2, <1>3, <2>1, <2>2, <3>1, <3>2
    <3>3. CASE CostOf(record) # 0
      BY <1>2, <1>3, <1>5, <2>1, <2>2, <3>1, <3>3
    <3>4. QED
      BY <3>2, <3>3
  <2>4. QED
    BY <1>1, <1>3, <2>1, <2>3 DEF OverrunIsOneAttempt, Logged, most
<1>7. QED
  BY <1>1, <1>3, <1>5, <1>6 DEF SpendOK, UnderWay

\* A task is named by the record of its attempt, or the record is unanswered.
LEMMA SettleTaskOK ==
  ASSUME Inv, Settle
  PROVE  TaskOK'
<1>1. TaskOK /\ AttemptOK /\ NamedOnce
  BY DEF Inv, TaskOK
<1>2. record.shot = Shot /\ record.attempt = attempt.number /\ record.task = attempt.task
  BY <1>1, SettledLog DEF AttemptOK
<1>3. record.task # None =>
        /\ tasks[record.task].shot = record.shot /\ tasks[record.task].attempt = record.attempt
        /\ \A i \in DOMAIN log : log[i].task # record.task
  BY <1>1, <1>2, SettledLog DEF TaskOK
<1>4. NamedOnce'
  <2>1. \A i \in DOMAIN log' : log'[i].task # None =>
          /\ tasks[log'[i].task].shot = log'[i].shot
          /\ tasks[log'[i].task].attempt = log'[i].attempt
    BY <1>1, <1>3, SettledLog DEF NamedOnce
  <2>2. \A i, j \in DOMAIN log' : log'[i].task = log'[j].task /\ log'[i].task # None => i = j
    BY <1>1, <1>3, SettledLog DEF NamedOnce
  <2>3. QED
    BY <2>1, <2>2, SettledLog DEF NamedOnce
<1>5. IsFiniteSet(Unnamed) /\ IsFiniteSet(Unanswering) /\ Unanswering \subseteq DOMAIN log
      /\ DOMAIN tasks = 1..Len(tasks) /\ Len(tasks) \in Nat /\ Unnamed \subseteq DOMAIN tasks
  <2>1. Unnamed \subseteq 1..Len(tasks) /\ IsFiniteSet(1..Len(tasks)) /\ DOMAIN tasks = 1..Len(tasks)
        /\ Len(tasks) \in Nat
    BY SettledLog, LogIsSequence, FS_Interval DEF Unnamed
  <2>2. IsFiniteSet(Unnamed)
    BY <2>1, FS_Subset
  <2>3. Unanswering \subseteq DOMAIN log
    BY DEF Unanswering
  <2>4. QED
    BY <2>1, <2>2, <2>3, SettledLog, PlacesAreFinite
<1>6. /\ Unnamed' = Unnamed \ {record.task}
      /\ Unanswering' = IF record.task = None /\ ClassOf(record.seen) \in Unanswered
                        THEN Unanswering \cup {Place} ELSE Unanswering
  <2>1. {log'[i].task : i \in DOMAIN log'} = {log[i].task : i \in DOMAIN log} \cup {record.task}
    BY SettledLog
  <2>2. Unnamed' = Unnamed \ {record.task}
    BY <2>1, SettledLog DEF Unnamed
  <2>3. Unanswering' = {i \in DOMAIN log' : log'[i].task = None /\ ClassOf(log'[i].seen) \in Unanswered}
    BY DEF Unanswering
  <2>4. Unanswering' = IF record.task = None /\ ClassOf(record.seen) \in Unanswered
                       THEN Unanswering \cup {Place} ELSE Unanswering
    BY <2>3, SettledLog DEF Unanswering
  <2>5. QED
    BY <2>2, <2>4
<1>7. record.task # None => record.task \in Unnamed
  BY <1>3, <1>5, SettledLog DEF Unnamed, Record
<1>8. Cardinality(Unnamed') <= Cardinality(Unanswering') + interrupts
  <2>1. /\ Cardinality(Unnamed) <= Pending + Cardinality(Unanswering) + interrupts
        /\ Cardinality(Unnamed) \in Nat /\ Cardinality(Unanswering) \in Nat /\ interrupts \in Nat
    BY UnnamedNow DEF Counted
  <2>2. CASE record.task # None
    <3>1. Cardinality(Unnamed') = Cardinality(Unnamed) - 1
      BY <1>5, <1>6, <1>7, <2>2, FS_RemoveElement
    <3>2. Pending = 1 /\ Unanswering' = Unanswering
      BY <1>6, <2>2, SettledLog DEF Pending
    <3>3. QED
      BY <2>1, <3>1, <3>2
  <2>3. CASE record.task = None
    <3>1. Unnamed' = Unnamed
      <4>1. None \notin Unnamed
        BY <1>5, ExperimentAssumption
      <4>2. QED
        BY <1>6, <2>3, <4>1
    <3>2. CASE ClassOf(record.seen) \in Unanswered
      <4>1. Cardinality(Unanswering') = Cardinality(Unanswering) + 1
        BY <1>5, <1>6, <2>3, <3>2, SettledLog, FS_AddElement
      <4>2. Pending = 1
        BY <3>2, SettledLog DEF Pending
      <4>3. QED
        BY <2>1, <3>1, <4>1, <4>2
    <3>3. CASE ClassOf(record.seen) \notin Unanswered
      <4>1. Pending = 0 /\ Unanswering' = Unanswering
        BY <1>6, <2>3, <3>3, SettledLog DEF Pending
      <4>2. QED
        BY <2>1, <3>1, <4>1
    <3>4. QED
      BY <3>2, <3>3
  <2>4. QED
    BY <2>2, <2>3
<1>9. Pending' = 0 /\ pc' = "decide" /\ interrupts' = interrupts
  BY SettledLog DEF Pending
<1>10. Cardinality(Unanswering') \in Nat /\ interrupts \in Nat
  <2>1. IsFiniteSet(Unanswering')
    BY <1>5, <1>6, FS_AddElement
  <2>2. QED
    BY <2>1, FS_CardinalityType, UnnamedNow DEF Counted
<1>11. QED
  BY <1>4, <1>8, <1>9, <1>10 DEF TaskOK, UnderWay

LEMMA SettleInv ==
  ASSUME Inv, Settle
  PROVE  Inv'
<1>1. /\ attempt' = None /\ record' = None /\ todo' \subseteq todo /\ spent' \in Nat
  BY SettleSpendOK DEF Settle
<1>2. TypeOK'
  <2>1. Record' = Record
    BY SettledLog DEF Record
  <2>2. QED
    BY <1>1, <2>1, SettledLog DEF TypeOK
<1>3. AttemptOK'
  BY SettledLog DEF Inv, AttemptOK, UnderWay
<1>4. QED
  BY <1>2, <1>3, SettleLogOK, SettleSpendOK, SettleTaskOK DEF Inv

LEMMA NextInv == Inv /\ [Next]_vars => Inv'
<1> SUFFICES ASSUME Inv, [Next]_vars
             PROVE  Inv'
  OBVIOUS
<1>1. CASE Operator
  BY <1>1, StartInv, EndingsInv DEF Operator
<1>2. CASE Runner
  <2>1. CASE \E render \in Renders : Deliver(render) \/ DeliveryRefused(render)
    BY <2>1, DeliverInv, EndingsInv
  <2>2. QED
    BY <1>2, <2>1, EndingsInv, SkipInv, BeginInv, SubmitInv, FailuresInv, SettleInv DEF Runner
<1>3. CASE Answer
  BY <1>3, PollFindsSuccessInv, FailuresInv DEF Answer
<1>4. CASE Interrupt
  BY <1>4, EndingsInv
<1>5. CASE UNCHANGED vars
  <2>1. UNCHANGED <<env, log, torn, tasks, pc, todo, spent, attempt, record, result, starts, interrupts>>
    BY <1>5 DEF vars
  <2>2. MayBuy /\ Unnamed' = Unnamed /\ Unanswering' = Unanswering
    BY <2>1, NothingBought
  <2>3. Shot' = Shot /\ Pending' = Pending
    BY <2>1 DEF Shot, Pending
  <2>4. TypeOK' /\ LogOK'
    BY <2>1, <2>2, MayBuyKeeps, MayBuyKeepsLog DEF Inv, TypeOK
  <2>5. AttemptOK'
    BY <2>1, <2>2, <2>3, MayBuyKeepsLog DEF Inv, AttemptOK, UnderWay
  <2>6. SpendOK'
    BY <2>1, <2>2, MayBuyKeepsLog DEF Inv, SpendOK, UnderWay
  <2>7. TaskOK'
    BY <2>1, <2>2, <2>3, MayBuyKeepsLog DEF Inv, TaskOK, UnderWay
  <2>8. QED
    BY <2>4, <2>5, <2>6, <2>7 DEF Inv
<1>6. QED
  BY <1>1, <1>2, <1>3, <1>4, <1>5 DEF Next

-----------------------------------------------------------------------------
(* The theorems.                                                           *)

(***************************************************************************)
(* The inductive invariant holds of every run of the harness.              *)
(***************************************************************************)
THEOREM InvAlways == Spec => []Inv
BY InitInv, NextInv, PTL DEF Spec

(***************************************************************************)
(* Every variable of the runner, the log and the provider has its type.    *)
(***************************************************************************)
THEOREM TypeCorrect == Spec => []TypeOK
<1>1. Inv => TypeOK
  BY DEF Inv
<1>2. QED
  BY <1>1, InvAlways, PTL

(***************************************************************************)
(* Over all processes of a run, the logged spend passes the cap by no more *)
(* than one attempt cost beyond its estimate.                              *)
(***************************************************************************)
THEOREM CapIsPassedOnce == Spec => []OverrunIsOneAttempt
<1>1. Inv => OverrunIsOneAttempt
  BY DEF Inv, SpendOK
<1>2. QED
  BY <1>1, InvAlways, PTL

(***************************************************************************)
(* The attempts of a shot are logged as 1, 2 and so on up to maxAttempts.  *)
(***************************************************************************)
THEOREM AttemptsAreCounted == Spec => []NumbersFollowTheLog
<1>1. Inv => NumbersFollowTheLog
  BY DEF Inv, LogOK
<1>2. QED
  BY <1>1, InvAlways, PTL

(***************************************************************************)
(* Every bought task is named by one record, of its own shot and number,   *)
(* but for the one under way, unanswered requests and interruptions.       *)
(***************************************************************************)
THEOREM TasksAreNamed == Spec => []TasksAreAccountedFor
<1>1. ASSUME Inv
      PROVE  TasksAreAccountedFor
  <2>1. Cardinality(Unnamed) <= (IF pc \in {"idle", "decide"} THEN 0 ELSE 1)
                                 + Cardinality(Unanswering) + interrupts
    BY <1>1, UnnamedNow DEF Counted
  <2>2. NamedOnce
    BY <1>1 DEF Inv, TaskOK
  <2>3. QED
    BY <2>1, <2>2 DEF TasksAreAccountedFor, NamedOnce
<1>2. QED
  BY <1>1, InvAlways, PTL

LEMMA PurchaseIsDue ==
  ASSUME Inv, [Next]_vars, Len(tasks') > Len(tasks)
  PROVE  ~torn /\ \A i \in Mine(Last(tasks').shot) : log[i].outcome = "failed" /\ Transient(log[i].seen)
<1>1. TypeOK /\ Len(tasks) \in Nat
  BY LogIsSequence DEF Inv
<1>2. pc = "submit" /\ tasks' = Bought
  <2> DEFINE Buys == pc = "submit" /\ tasks' = Bought
  <2>1. Operator => tasks' = tasks
    BY DEF Operator, Start, StartUnreadable
  <2>2. Runner => tasks' = tasks \/ Buys
    BY DEF Runner, Finish, Skip, StopAtCap, Begin, Submit, PollPastDeadline, Deliver,
           DeliveryRefused, DeliverNothing, Settle, GoTo
  <2>3. Answer => tasks' = tasks \/ Buys
    BY DEF Answer, PollFindsSuccess, SubmitFails, PollFails, GoTo
  <2>4. Interrupt => tasks' = tasks \/ Buys
    BY DEF Interrupt
  <2>5. UNCHANGED vars => tasks' = tasks
    BY DEF vars
  <2>6. tasks' # tasks
    BY <1>1
  <2> HIDE DEF Buys
  <2>7. Buys
    BY <2>1, <2>2, <2>3, <2>4, <2>5, <2>6 DEF Next
  <2>8. QED
    BY <2>7 DEF Buys
<1>3. UnderWay /\ MayBuy
  BY <1>2 DEF UnderWay, MayBuy
<1>4. Last(tasks').shot = Shot
  <2>1. tasks \in Seq(Task) /\ Shot \in ToSet(Shots) /\ attempt.number \in 1..4
    BY <1>1, <1>2, <1>3, ShotIsNext DEF Inv, AttemptOK, TypeOK
  <2>2. [shot |-> Shot, attempt |-> attempt.number] \in Task
    BY <2>1 DEF Task
  <2>3. QED
    BY <1>2, <2>1, <2>2 DEF Bought, Last
<1>5. ~torn /\ \A i \in Mine(Shot) : Retryable(log[i])
  BY <1>2, <1>3 DEF Inv, AttemptOK
<1>6. ASSUME NEW i \in Mine(Shot)
      PROVE  log[i].outcome = "failed" /\ Transient(log[i].seen)
  <2>1. log[i].outcome = "failed" => log[i].seen \in Observation
    BY DEF Inv, LogOK, Mine
  <2>2. QED
    BY <1>5, <2>1, RetryableIsTransient
<1>7. QED
  BY <1>4, <1>5, <1>6

(***************************************************************************)
(* A paid task is bought only over a readable log, for a shot of which all *)
(* that was seen may be retried.                                           *)
(***************************************************************************)
THEOREM TasksAreBoughtWhenDue == Spec => PurchasesAreDue
<1>1. Inv /\ [Next]_vars =>
        [Len(tasks') > Len(tasks) =>
           /\ ~torn
           /\ \A i \in Mine(Last(tasks').shot) :
                log[i].outcome = "failed" /\ Transient(log[i].seen)]_vars
  BY PurchaseIsDue
<1>2. QED
  BY <1>1, InvAlways, PTL DEF Spec, PurchasesAreDue
-----------------------------------------------------------------------------
(* The log as its readers take it.                                         *)

\* What the history of a run names an attempt.
Try == [shot : ToSet(Shots), attempt : 1..4,
        came : {"to be tried again", "to nothing", "delivered"}]

TryOf(r) == [shot |-> r.shot, attempt |-> r.attempt, came |-> Came(r)]

LEMMA RecordsAreTries ==
  ASSUME NEW r \in Record
  PROVE  TryOf(r) \in Try
<1>1. Came(r) \in {"to be tried again", "to nothing", "delivered"}
  BY DEF Came
<1>2. QED
  BY <1>1 DEF TryOf, Try, Record

LEMMA HistoryIsTheLog ==
  ASSUME Inv
  PROVE  /\ historyBar \in Seq(Try) /\ Len(historyBar) = Len(log) /\ Len(log) \in Nat
         /\ DOMAIN historyBar = 1..Len(log) /\ DOMAIN log = 1..Len(log)
         /\ \A i \in 1..Len(log) : historyBar[i] = TryOf(log[i])
         /\ \A s : Abstract!Of(s) = Mine(s)
<1>1. log \in Seq(Record) /\ Len(log) \in Nat /\ DOMAIN log = 1..Len(log)
  BY LogIsSequence DEF Inv, TypeOK
<1>2. PICK n \in Nat : n = Len(log)
  BY <1>1
<1>3. \A i \in 1..n : log[i] \in Record
  BY <1>1, <1>2
<1>4. historyBar = [i \in 1..n |-> TryOf(log[i])]
  BY <1>1, <1>2 DEF historyBar, TryOf
<1>5. \A i \in 1..n : TryOf(log[i]) \in Try
  BY <1>3, RecordsAreTries
<1>6. historyBar \in [1..n -> Try]
  BY <1>4, <1>5
<1>7. historyBar \in Seq(Try) /\ Len(historyBar) = n
  BY <1>6
<1>8. ASSUME NEW s
      PROVE  Abstract!Of(s) = Mine(s)
  <2>1. \A i \in 1..n : historyBar[i].shot = log[i].shot
    BY <1>4 DEF TryOf
  <2>2. Abstract!Of(s) = {i \in DOMAIN historyBar : historyBar[i].shot = s}
    BY DEF Abstract!Of
  <2>3. QED
    BY <1>1, <1>2, <1>6, <2>1, <2>2 DEF Mine
<1>9. QED
  BY <1>1, <1>2, <1>4, <1>6, <1>7, <1>8

\* The history goes on by the record a process appends.
LEMMA HistoryGoesOn ==
  ASSUME Inv, Settle
  PROVE  historyBar' = Append(historyBar, TryOf(record))
<1>1. PICK n \in Nat : n = Len(log)
  BY HistoryIsTheLog
<1>2. log \in Seq(Record) /\ record \in Record /\ log' = Append(log, record)
  BY SettledLog DEF Settle, Inv, TypeOK
<1>3. /\ DOMAIN log' = 1..(n + 1) /\ log'[n + 1] = record
      /\ \A i \in 1..n : log'[i] = log[i]
  BY <1>1, <1>2
<1>4. /\ historyBar \in Seq(Try) /\ Len(historyBar) = n
      /\ \A i \in 1..n : historyBar[i] = TryOf(log[i])
  BY <1>1, HistoryIsTheLog
<1>5. historyBar' = [i \in 1..(n + 1) |-> TryOf(log'[i])]
  BY <1>3 DEF historyBar, TryOf, Came
<1>6. PICK h \in Seq(Try), e \in Try, k \in [1..(n + 1) -> Try] :
        /\ h = historyBar /\ e = TryOf(record)
        /\ k = [i \in 1..(n + 1) |-> IF i = n + 1 THEN e ELSE h[i]]
  <2>1. TryOf(record) \in Try
    BY <1>2, RecordsAreTries
  <2>2. \A i \in 1..(n + 1) : i # n + 1 => historyBar[i] \in Try
    BY <1>4
  <2>3. QED
    BY <1>4, <2>1, <2>2
<1>7. Append(h, e) = k
  <2>1. k \in Seq(Try) /\ Len(k) = n + 1
    BY <1>6
  <2>2. Append(h, e) \in Seq(Try) /\ Len(Append(h, e)) = n + 1
    BY <1>4, <1>6
  <2>3. \A i \in 1..(n + 1) : Append(h, e)[i] = k[i]
    BY <1>4, <1>6
  <2>4. QED
    BY <2>1, <2>2, <2>3, SeqEqual
<1>8. \A i \in 1..(n + 1) : TryOf(log'[i]) = IF i = n + 1 THEN e ELSE h[i]
  <2>1. ASSUME NEW i \in 1..(n + 1), i # n + 1
        PROVE  TryOf(log'[i]) = h[i]
    <3>1. i \in 1..n
      BY <2>1
    <3>2. QED
      BY <1>3, <1>4, <1>6, <3>1
  <2>2. QED
    BY <1>3, <1>6, <2>1
<1>9. QED
  BY <1>5, <1>6, <1>7, <1>8

\* The number of the attempt under way follows the latest of its shot.
LEMMA NumberFollows ==
  ASSUME Inv, NEW shot \in ToSet(Shots)
  PROVE  Abstract!Follows(shot, Cardinality(Mine(shot)) + 1)
<1>1. Abstract!Of(shot) = Mine(shot)
  BY HistoryIsTheLog
<1>2. TypeOK /\ NumbersFollowTheLog
  BY DEF Inv, LogOK
<1>3. CASE Mine(shot) = {}
  BY <1>1, <1>3, FS_EmptySet DEF Abstract!Follows
<1>4. CASE Mine(shot) # {}
  <2>1. PICK last \in Mine(shot) : \A i \in Mine(shot) : i <= last
    BY <1>2, <1>4, LastPlace
  <2>2. log[last].attempt = Cardinality(Mine(shot))
    BY <1>2, <2>1, NumbersAscend
  <2>3. historyBar[last].attempt = log[last].attempt
    BY <2>1 DEF historyBar, Mine
  <2>4. QED
    BY <1>1, <1>4, <2>1, <2>2, <2>3 DEF Abstract!Follows
<1>5. QED
  BY <1>3, <1>4

LEMMA NumberAllowed ==
  ASSUME Inv, Settle
  PROVE  record.attempt \in 1..env.maxAttempts
<1>1. record.attempt \in 1..4 /\ env.maxAttempts \in 1..4
  BY SettledLog, ExperimentAssumption DEF TypeOK, Record, Environment
<1>2. PICK number \in 1..4, most \in 1..4 : number = record.attempt /\ most = env.maxAttempts
  BY <1>1
<1>3. number <= most
  BY <1>2, SettledLog DEF Inv, AttemptOK
<1>4. number \in 1..most
  BY <1>3
<1>5. QED
  BY <1>2, <1>4, Zenon

LEMMA SettleTries ==
  ASSUME Inv, Settle
  PROVE  Abstract!Next
<1>1. Shot \in ToSet(Shots) /\ TypeOK /\ UnderWay
  BY SettledLog, ShotIsNext DEF Inv, AttemptOK
<1>2. /\ record.shot = Shot /\ record.attempt = Cardinality(Mine(Shot)) + 1
      /\ record.attempt <= env.maxAttempts
      /\ \A i \in Mine(Shot) : Retryable(log[i])
  BY SettledLog DEF Inv, AttemptOK
<1>3. ASSUME NEW i \in Mine(Shot)
      PROVE  historyBar[i].came = "to be tried again"
  <2>1. i \in DOMAIN log /\ (log[i].outcome = "failed" => log[i].seen \in Observation)
    BY DEF Inv, LogOK, Mine
  <2>2. log[i].outcome = "failed" /\ Transient(log[i].seen)
    BY <1>2, <2>1, RetryableIsTransient
  <2>3. Came(log[i]) = "to be tried again"
    BY <2>2 DEF Came
  <2>4. QED
    BY <2>1, <2>3 DEF historyBar
<1>4. PICK came \in {"to be tried again", "to nothing", "delivered"} :
        TryOf(record) = [shot |-> Shot, attempt |-> record.attempt, came |-> came]
  <2>1. Came(record) \in {"to be tried again", "to nothing", "delivered"}
    BY DEF Came
  <2>2. QED
    BY <1>2, <2>1 DEF TryOf
<1>5. historyBar' = Append(historyBar,
        [shot |-> Shot, attempt |-> record.attempt, came |-> came])
  BY <1>4, HistoryGoesOn
<1>6. Abstract!Of(Shot) = Mine(Shot) /\ env' = env
  BY HistoryIsTheLog, SettledLog
<1>7. record.attempt \in 1..env.maxAttempts
  BY NumberAllowed
<1>8. Abstract!Follows(Shot, record.attempt)
  BY <1>1, <1>2, NumberFollows
<1>9. Abstract!Try(Shot)
  BY <1>3, <1>5, <1>6, <1>7, <1>8 DEF Abstract!Try
<1>10. QED
  BY <1>1, <1>9 DEF Abstract!Next

(***************************************************************************)
(* The processes of a run, interrupted and resumed, leave one history of   *)
(* attempts at each shot: one more only while all that came of it may be   *)
(* tried again, and never after a delivered one (decideShotAction of       *)
(* runner/decide.ts, under runExperiment of runner/run.ts).                *)
(***************************************************************************)
THEOREM LogIsAHistory == Spec => ImplementsShotAttempts
<1>1. Init => Abstract!Init
  <2>1. SUFFICES ASSUME Init
                 PROVE  Abstract!Init
    OBVIOUS
  <2>2. env.maxAttempts \in 1..4
    BY <2>1, ExperimentAssumption DEF Init, Environment
  <2>3. historyBar = <<>>
    BY <2>1 DEF Init, historyBar
  <2>4. QED
    BY <2>2, <2>3 DEF Abstract!Init
<1>2. ASSUME Inv, Inv', [Next]_vars
      PROVE  [Abstract!Next]_<<env.maxAttempts, historyBar>>
  <2>1. CASE Settle
    BY <1>2, <2>1, SettleTries
  <2>2. CASE UNCHANGED <<env, log>>
    BY <2>2 DEF historyBar, Came
  <2>3. Operator => UNCHANGED <<env, log>>
    BY DEF Operator, Start, StartUnreadable
  <2>4. Runner => Settle \/ UNCHANGED <<env, log>>
    BY DEF Runner, Finish, Skip, StopAtCap, Begin, Submit, PollPastDeadline, Deliver,
           DeliveryRefused, DeliverNothing
  <2>5. Answer => UNCHANGED <<env, log>>
    BY DEF Answer, PollFindsSuccess, SubmitFails, PollFails
  <2>6. Interrupt => UNCHANGED <<env, log>>
    BY DEF Interrupt
  <2>7. UNCHANGED vars => UNCHANGED <<env, log>>
    BY DEF vars
  <2>8. QED
    BY <1>2, <2>1, <2>2, <2>3, <2>4, <2>5, <2>6, <2>7 DEF Next
<1>3. QED
  BY InvAlways, <1>1, <1>2, PTL DEF Spec, ImplementsShotAttempts, Abstract!Spec
=============================================================================
