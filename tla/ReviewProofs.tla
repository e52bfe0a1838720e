---------------------------- MODULE ReviewProofs ----------------------------
(* Theorems about the blind review, for any test sets, raters and fates.   *)
EXTENDS Review, FiniteSetTheorems, SequenceTheorems, TLAPS

-----------------------------------------------------------------------------
(* Recursive functions.                                                    *)

\* Induction over the natural numbers, stated of the set of those that have a property.
LEMMA NaturalsAreReached ==
  ASSUME NEW P \in SUBSET Nat, 0 \in P, \A n \in P : n + 1 \in P
  PROVE  P = Nat
<1>1. SUFFICES ASSUME Nat \ P # {}
               PROVE  FALSE
  OBVIOUS
<1>2. PICK n \in Nat \ P : \A m \in Nat \ P : ~(m < n)
  <2>1. IsWellFoundedOn(OpToRel(<, Nat), Nat)
    BY NatLessThanWellFounded
  <2>2. PICK n \in Nat \ P : \A m \in Nat \ P : ~(<<m, n>> \in OpToRel(<, Nat))
    BY <1>1, <2>1, WFMin
  <2>3. QED
    BY <2>2 DEF OpToRel
<1>3. n # 0 /\ n - 1 \in Nat /\ n - 1 < n
  BY <1>2
<1>4. n - 1 \in P
  BY <1>2, <1>3
<1>5. QED
  BY <1>2, <1>3, <1>4

\* What holds of 0 and is handed from each number to the next holds up to a bound.
LEMMA UpTo ==
  ASSUME NEW m \in Nat, NEW Q, 0 \in Q, \A n \in 1..m : n - 1 \in Q => n \in Q
  PROVE  0..m \subseteq Q
<1> DEFINE P == {n \in Nat : n <= m => n \in Q}
<1>1. 0 \in P
  OBVIOUS
<1>2. \A n \in P : n + 1 \in P
  <2> SUFFICES ASSUME NEW n \in P, n + 1 <= m
               PROVE  n + 1 \in Q
    OBVIOUS
  <2>1. n + 1 \in 1..m /\ (n + 1) - 1 = n /\ n \in Q
    OBVIOUS
  <2>2. QED
    BY <2>1
<1>3. P = Nat
  <2> HIDE DEF P
  <2>1. P \subseteq Nat
    BY DEF P
  <2>2. QED
    BY <1>1, <1>2, <2>1, NaturalsAreReached
<1>4. QED
  BY <1>3

\* A step for each number, and the function that follows them from a base.
Steps(T, m, step) == step \in [1..m -> [T -> T]]

Follows(T, base, m, step, g) ==
  g \in [0..m -> T] /\ g[0] = base /\ \A n \in 1..m : g[n] = step[n][g[n - 1]]

LEMMA Iteration ==
  ASSUME NEW T, NEW base \in T, NEW m \in Nat, NEW step, Steps(T, m, step)
  PROVE  \E g : Follows(T, base, m, step, g)
<1> DEFINE Q == {k \in 0..m : \E g : Follows(T, base, k, step, g)}
<1>1. 0 \in Q
  <2> DEFINE g == [n \in 0..0 |-> base]
  <2>1. Follows(T, base, 0, step, g)
    BY DEF Follows
  <2> HIDE DEF g
  <2>2. QED
    BY <2>1
<1>2. ASSUME NEW k \in 1..m, k - 1 \in Q
      PROVE  k \in Q
  <2>1. PICK f : Follows(T, base, k - 1, step, f)
    BY <1>2
  <2> DEFINE g == [n \in 0..k |-> IF n = k THEN step[k][f[k - 1]] ELSE f[n]]
  <2>2. f[k - 1] \in T /\ step[k] \in [T -> T]
    BY <2>1 DEF Follows, Steps
  <2>3. g \in [0..k -> T]
    BY <2>1, <2>2 DEF Follows
  <2>4. /\ g[0] = f[0] /\ g[k] = step[k][f[k - 1]] /\ g[k - 1] = f[k - 1]
        /\ \A n \in 1..(k - 1) : g[n] = f[n] /\ g[n - 1] = f[n - 1]
    OBVIOUS
  <2> HIDE DEF g
  <2>5. \A n \in 1..k : n \in 1..(k - 1) \/ n = k
    OBVIOUS
  <2>6. Follows(T, base, k, step, g)
    BY <2>1, <2>3, <2>4, <2>5 DEF Follows
  <2>7. QED
    BY <2>6
<1>3. 0..m \subseteq Q
  <2> HIDE DEF Q
  <2>1. QED
    BY <1>1, <1>2, UpTo
<1>4. m \in Q
  BY <1>3
<1>5. QED
  BY <1>4

\* Two functions that start together and step together are one.
InStep(m, f, g) == f[0] = g[0] /\ \A n \in 1..m : f[n - 1] = g[n - 1] => f[n] = g[n]

Alike(m, f, g) == \A n \in 0..m : f[n] = g[n]

LEMMA SameSteps ==
  ASSUME NEW m \in Nat, NEW f, NEW g, InStep(m, f, g)
  PROVE  Alike(m, f, g)
<1> DEFINE Q == {n \in 0..m : f[n] = g[n]}
<1>1. 0 \in Q
  BY DEF InStep
<1>2. \A n \in 1..m : n - 1 \in Q => n \in Q
  BY DEF InStep
<1>3. 0..m \subseteq Q
  <2> HIDE DEF Q
  <2>1. QED
    BY <1>1, <1>2, UpTo
<1>4. QED
  BY <1>3 DEF Alike

-----------------------------------------------------------------------------
(* Array.prototype.filter.                                                 *)

\* What filter has kept of the first n entries.
Filters(list, S, g) ==
  /\ g[0] = <<>>
  /\ \A n \in 1..Len(list) :
       g[n] = IF list[n] \in S THEN Append(g[n - 1], list[n]) ELSE g[n - 1]

LEMMA KeptIsFiltered ==
  ASSUME NEW T, NEW list \in Seq(T), NEW S
  PROVE  \E g \in [0..Len(list) -> Seq(T)] : Filters(list, S, g) /\ Kept(list, S) = g[Len(list)]
<1>0. PICK m \in Nat : m = Len(list)
  OBVIOUS
<1> DEFINE step == [n \in 1..m |-> [v \in Seq(T) |-> IF list[n] \in S THEN Append(v, list[n]) ELSE v]]
           Rec(g) == g = [n \in 0..m |->
                            IF n = 0 THEN <<>>
                            ELSE IF list[n] \in S THEN Append(g[n - 1], list[n]) ELSE g[n - 1]]
<1>1. \A n \in 1..m : list[n] \in T
  BY <1>0
<1>2. step \in [1..m -> [Seq(T) -> Seq(T)]]
  <2>1. \A n \in 1..m : \A v \in Seq(T) : Append(v, list[n]) \in Seq(T)
    BY <1>1
  <2>2. \A n \in 1..m : \A v \in Seq(T) :
          (IF list[n] \in S THEN Append(v, list[n]) ELSE v) \in Seq(T)
    BY <2>1
  <2>3. \A n \in 1..m :
          [v \in Seq(T) |-> IF list[n] \in S THEN Append(v, list[n]) ELSE v] \in [Seq(T) -> Seq(T)]
    BY <2>2
  <2>4. QED
    BY <2>3
<1>3. PICK f \in [0..m -> Seq(T)] : f[0] = <<>> /\ \A n \in 1..m : f[n] = step[n][f[n - 1]]
  <2>1. <<>> \in Seq(T) /\ Steps(Seq(T), m, step)
    BY <1>2 DEF Steps
  <2> HIDE DEF step
  <2>2. PICK f : Follows(Seq(T), <<>>, m, step, f)
    BY <2>1, Iteration
  <2>3. QED
    BY <2>2 DEF Follows
<1>4. \A n \in 1..m : f[n] = IF list[n] \in S THEN Append(f[n - 1], list[n]) ELSE f[n - 1]
  <2>1. \A n \in 1..m : f[n - 1] \in Seq(T)
    BY <1>1
  <2>2. QED
    BY <1>3, <2>1
<1>5. Rec(f)
  <2>1. \A n \in 0..m : n # 0 => n \in 1..m
    BY <1>1
  <2>2. \A n \in 0..m :
          f[n] = IF n = 0 THEN <<>>
                 ELSE IF list[n] \in S THEN Append(f[n - 1], list[n]) ELSE f[n - 1]
    BY <1>3, <1>4, <2>1
  <2>3. f = [n \in 0..m |-> f[n]]
    OBVIOUS
  <2>4. QED
    BY <2>2, <2>3
<1> DEFINE g == CHOOSE h : Rec(h)
<1>6. Rec(g)
  BY <1>5
<1>7. Kept(list, S) = g[m]
  BY <1>0 DEF Kept
<1> HIDE DEF g
<1>8. g[0] = <<>> /\ \A n \in 1..m : g[n] = IF list[n] \in S THEN Append(g[n - 1], list[n]) ELSE g[n - 1]
  <2>1. \A n \in 0..m :
          g[n] = IF n = 0 THEN <<>>
                 ELSE IF list[n] \in S THEN Append(g[n - 1], list[n]) ELSE g[n - 1]
    BY <1>6
  <2>2. QED
    BY <1>1, <2>1
<1>9. \A n \in 0..m : f[n] = g[n]
  <2>1. InStep(m, f, g)
    BY <1>3, <1>4, <1>8 DEF InStep
  <2>2. QED
    BY <2>1, SameSteps DEF Alike
<1>10. f[m] = g[m]
  BY <1>1, <1>9
<1>11. QED
  BY <1>0, <1>3, <1>4, <1>7, <1>10, <1>8 DEF Filters

\* Where the entries that filter keeps come from: it drops no entry of S and keeps the order.
Picks(list, S, kept, e) ==
  /\ e \in [1..Len(kept) -> 1..Len(list)]
  /\ \A i \in 1..Len(kept) : list[e[i]] \in S /\ kept[i] = list[e[i]]
  /\ \A i, j \in 1..Len(kept) : i < j => e[i] < e[j]
  /\ \A n \in 1..Len(list) : list[n] \in S => \E i \in 1..Len(kept) : e[i] = n

LEMMA KeptPicks ==
  ASSUME NEW T, NEW list \in Seq(T), NEW S
  PROVE  /\ Kept(list, S) \in Seq(T)
         /\ \E e : Picks(list, S, Kept(list, S), e)
<1>0. PICK m \in Nat : m = Len(list)
  OBVIOUS
<1>1. \A n \in 1..m : list[n] \in T
  BY <1>0
<1>2. PICK g \in [0..m -> Seq(T)] : Filters(list, S, g) /\ Kept(list, S) = g[m]
  BY <1>0, KeptIsFiltered
<1> DEFINE Good(k, e) ==
             /\ e \in [1..Len(g[k]) -> 1..k]
             /\ \A i \in 1..Len(g[k]) : list[e[i]] \in S /\ g[k][i] = list[e[i]]
             /\ \A i, j \in 1..Len(g[k]) : i < j => e[i] < e[j]
             /\ \A n \in 1..k : list[n] \in S => \E i \in 1..Len(g[k]) : e[i] = n
           Q == {k \in 0..m : \E e : Good(k, e)}
<1>3. 0 \in Q
  <2>1. g[0] = <<>> /\ Len(g[0]) = 0
    BY <1>2 DEF Filters
  <2> DEFINE e == [i \in 1..0 |-> 0]
  <2>2. Good(0, e)
    BY <2>1
  <2> HIDE DEF e, Good
  <2>3. 0 \in 0..m /\ \E d : Good(0, d)
    BY <1>1, <2>2
  <2>4. QED
    BY <2>3
<1>4. ASSUME NEW k \in 1..m, k - 1 \in Q
      PROVE  k \in Q
  <2>1. PICK e : Good(k - 1, e)
    BY <1>4
  <2>2. /\ g[k - 1] \in Seq(T) /\ k \in Nat /\ k - 1 \in Nat /\ k - 1 < k /\ Len(g[k - 1]) \in Nat
        /\ g[k] = IF list[k] \in S THEN Append(g[k - 1], list[k]) ELSE g[k - 1]
        /\ list[k] \in T
    BY <1>0, <1>1, <1>2 DEF Filters
  <2>3. \E d : Good(k, d)
    <3>1. CASE list[k] \notin S
      <4>1. g[k] = g[k - 1]
        BY <2>2, <3>1
      <4>2. \A n \in 1..k : n \in 1..(k - 1) \/ n = k
        BY <2>2
      <4>3. e \in [1..Len(g[k]) -> 1..k]
        BY <2>1, <2>2, <4>1
      <4>4. Good(k, e)
        BY <2>1, <3>1, <4>1, <4>2, <4>3
      <4>5. QED
        BY <4>4
    <3>2. CASE list[k] \in S
      <4>0. PICK l \in Nat : l = Len(g[k - 1])
        BY <2>2
      <4> DEFINE d == [i \in 1..(l + 1) |-> IF i = l + 1 THEN k ELSE e[i]]
      <4>1. /\ Len(g[k]) = l + 1 /\ g[k][l + 1] = list[k]
            /\ \A i \in 1..l : g[k][i] = g[k - 1][i]
        BY <2>2, <3>2, <4>0
      <4>2. \A i \in 1..l : e[i] \in 1..(k - 1)
        BY <2>1, <4>0
      <4>3. /\ \A i \in 1..(l + 1) : d[i] = IF i = l + 1 THEN k ELSE e[i]
            /\ \A i \in 1..(l + 1) : i \in 1..l \/ i = l + 1
        OBVIOUS
      <4>4. d \in [1..(l + 1) -> 1..k]
        <5>1. \A i \in 1..(l + 1) : (IF i = l + 1 THEN k ELSE e[i]) \in 1..k
          BY <2>2, <4>2, <4>3
        <5>2. QED
          BY <5>1
      <4>5. \A n \in 1..k : n \in 1..(k - 1) \/ n = k
        BY <2>2
      <4> HIDE DEF d
      <4>6. \A i \in 1..l : d[i] = e[i]
        BY <4>3
      <4>7. d[l + 1] = k
        BY <4>3
      <4>8. \A i \in 1..(l + 1) : list[d[i]] \in S /\ g[k][i] = list[d[i]]
        BY <2>1, <3>2, <4>0, <4>1, <4>3, <4>6, <4>7
      <4>9. \A i, j \in 1..(l + 1) : i < j => d[i] < d[j]
        <5> SUFFICES ASSUME NEW i \in 1..(l + 1), NEW j \in 1..(l + 1), i < j
                     PROVE  d[i] < d[j]
          OBVIOUS
        <5>1. i \in 1..l /\ (j \in 1..l \/ j = l + 1)
          OBVIOUS
        <5>2. QED
          BY <2>1, <2>2, <4>0, <4>2, <4>6, <4>7, <5>1
      <4>10. \A n \in 1..k : list[n] \in S => \E i \in 1..(l + 1) : d[i] = n
        <5> SUFFICES ASSUME NEW n \in 1..k, list[n] \in S
                     PROVE  \E i \in 1..(l + 1) : d[i] = n
          OBVIOUS
        <5>1. CASE n = k
          BY <4>7, <5>1
        <5>2. CASE n \in 1..(k - 1)
          <6>1. PICK i \in 1..l : e[i] = n
            BY <2>1, <4>0, <5>2
          <6>2. QED
            BY <4>6, <6>1, i \in 1..(l + 1)
        <5>3. QED
          BY <4>5, <5>1, <5>2
      <4>11. Good(k, d)
        BY <4>1, <4>4, <4>8, <4>9, <4>10
      <4> HIDE DEF Good
      <4>12. QED
        BY <4>11
    <3>3. QED
      BY <3>1, <3>2
  <2> HIDE DEF Good
  <2>4. QED
    BY <2>2, <2>3, <1>4
<1>5. 0..m \subseteq Q
  <2> HIDE DEF Q
  <2>1. QED
    BY <1>1, <1>3, <1>4, UpTo
<1>6. m \in Q
  <2> HIDE DEF Q
  <2>1. QED
    BY <1>5
<1>7. PICK e : Good(m, e)
  BY <1>6
<1>8. Picks(list, S, g[m], e)
  BY <1>0, <1>7 DEF Picks
<1>9. g[m] \in Seq(T)
  OBVIOUS
<1>10. QED
  BY <1>2, <1>8, <1>9

\* The entries kept are those of S.
LEMMA KeptEntries ==
  ASSUME NEW T, NEW list \in Seq(T), NEW S
  PROVE  ToSet(Kept(list, S)) = ToSet(list) \cap S
<1> DEFINE kept == Kept(list, S)
<1>1. kept \in Seq(T)
  BY KeptPicks
<1>2. PICK e : Picks(list, S, kept, e)
  BY KeptPicks
<1>3. DOMAIN kept = 1..Len(kept) /\ DOMAIN list = 1..Len(list)
  BY <1>1
<1> HIDE DEF kept
<1>4. ToSet(kept) \subseteq ToSet(list) \cap S
  BY <1>2, <1>3 DEF Picks, ToSet
<1>5. ToSet(list) \cap S \subseteq ToSet(kept)
  <2>1. SUFFICES ASSUME NEW n \in 1..Len(list), list[n] \in S
                 PROVE  list[n] \in ToSet(kept)
    BY <1>3 DEF ToSet
  <2>2. PICK i \in 1..Len(kept) : e[i] = n
    BY <1>2, <2>1 DEF Picks
  <2>3. kept[i] = list[n]
    BY <1>2, <2>2 DEF Picks
  <2>4. QED
    BY <1>3, <2>3 DEF ToSet
<1>6. QED
  BY <1>4, <1>5 DEF kept

\* A list that begins with another.
Extends(T, head, list) == \E rest \in Seq(T) : list = head \o rest

LEMMA ExtendsItself ==
  ASSUME NEW T, NEW head \in Seq(T)
  PROVE  Extends(T, head, head)
<1>1. head \o <<>> = head /\ <<>> \in Seq(T)
  BY ConcatEmptySeq
<1>2. QED
  BY <1>1 DEF Extends

LEMMA ExtendsByOne ==
  ASSUME NEW T, NEW head \in Seq(T), NEW list, Extends(T, head, list), NEW e \in T
  PROVE  Extends(T, head, Append(list, e))
<1>1. PICK rest \in Seq(T) : list = head \o rest
  BY DEF Extends
<1>2. <<e>> \in Seq(T)
  OBVIOUS
<1>3. rest \o <<e>> \in Seq(T) /\ head \o rest \in Seq(T)
  BY <1>2, ConcatProperties
<1>4. Append(head \o rest, e) = (head \o rest) \o <<e>>
  BY <1>3, AppendIsConcat
<1>5. (head \o rest) \o <<e>> = head \o (rest \o <<e>>)
  BY <1>2, ConcatAssociative
<1>6. QED
  BY <1>1, <1>3, <1>4, <1>5 DEF Extends

\* What is kept of a longer list begins with what was kept of the list.
LEMMA KeptOfLonger ==
  ASSUME NEW T, NEW list \in Seq(T), NEW more \in Seq(T), NEW S, NEW R,
         \A n \in 1..Len(list) : list[n] \in S <=> list[n] \in R
  PROVE  Extends(T, Kept(list, S), Kept(list \o more, R))
<1> DEFINE longer == list \o more
<1>0. PICK m \in Nat, l \in Nat : m = Len(list) /\ l = Len(longer)
  OBVIOUS
<1>1. /\ longer \in Seq(T) /\ m <= l
      /\ \A n \in 1..m : longer[n] = list[n]
      /\ \A n \in 1..l : longer[n] \in T
  BY <1>0
<1>2. PICK f \in [0..m -> Seq(T)] : Filters(list, S, f) /\ Kept(list, S) = f[m]
  BY <1>0, KeptIsFiltered
<1> HIDE DEF longer
<1>3. PICK g \in [0..l -> Seq(T)] : Filters(longer, R, g) /\ Kept(longer, R) = g[l]
  BY <1>0, <1>1, KeptIsFiltered
<1>4. f[m] = g[m]
  <2>1. InStep(m, f, g)
    <3>1. f[0] = g[0]
      BY <1>2, <1>3 DEF Filters
    <3>2. ASSUME NEW n \in 1..m, f[n - 1] = g[n - 1]
          PROVE  f[n] = g[n]
      <4>1. n \in 1..Len(list) /\ n \in 1..Len(longer)
        BY <1>0, <1>1
      <4>2. longer[n] = list[n] /\ (list[n] \in S <=> list[n] \in R)
        BY <1>1, <4>1
      <4>3. f[n] = IF list[n] \in S THEN Append(f[n - 1], list[n]) ELSE f[n - 1]
        BY <1>2, <4>1 DEF Filters
      <4>4. g[n] = IF longer[n] \in R THEN Append(g[n - 1], longer[n]) ELSE g[n - 1]
        BY <1>3, <4>1 DEF Filters
      <4>5. QED
        BY <3>2, <4>2, <4>3, <4>4
    <3>3. QED
      BY <3>1, <3>2 DEF InStep
  <2>2. Alike(m, f, g)
    BY <2>1, SameSteps
  <2>3. QED
    BY <2>2 DEF Alike
<1>5. PICK head \in Seq(T) : head = f[m]
  OBVIOUS
<1> DEFINE Q == {n \in 0..l : n >= m => Extends(T, head, g[n])}
<1>6. Extends(T, head, g[m])
  BY <1>4, <1>5, ExtendsItself
<1>7. ASSUME NEW n \in 1..l, n - 1 \in Q
      PROVE  n \in Q
  <2>1. SUFFICES ASSUME n >= m, n # m
                 PROVE  Extends(T, head, g[n])
    BY <1>6
  <2>2. Extends(T, head, g[n - 1])
    BY <1>7, <2>1
  <2>3. g[n] = IF longer[n] \in R THEN Append(g[n - 1], longer[n]) ELSE g[n - 1]
    BY <1>0, <1>3 DEF Filters
  <2>4. longer[n] \in T
    BY <1>1
  <2>5. QED
    BY <2>2, <2>3, <2>4, ExtendsByOne
<1>8. 0 \in Q
  BY <1>6
<1>9. 0..l \subseteq Q
  <2> HIDE DEF Q
  <2>1. QED
    BY <1>7, <1>8, UpTo
<1>10. l \in Q
  <2> HIDE DEF Q
  <2>1. QED
    BY <1>9
<1>11. Extends(T, head, g[l])
  BY <1>1, <1>10
<1>12. QED
  BY <1>2, <1>3, <1>5, <1>11 DEF longer

LEMMA ExtendsKeeps ==
  ASSUME NEW T, NEW head \in Seq(T), NEW list, Extends(T, head, list)
  PROVE  /\ list \in Seq(T) /\ Len(head) <= Len(list)
         /\ \A n \in 1..Len(head) : list[n] = head[n]
         /\ Len(list) = Len(head) => list = head
<1>1. PICK rest \in Seq(T) : list = head \o rest
  BY DEF Extends
<1>2. /\ list \in Seq(T) /\ Len(list) = Len(head) + Len(rest)
      /\ Len(head) \in Nat /\ Len(rest) \in Nat
      /\ \A n \in 1..Len(head) : list[n] = head[n]
  BY <1>1
<1>3. ASSUME Len(list) = Len(head)
      PROVE  list = head
  BY <1>2, <1>3, SeqEqual
<1>4. QED
  BY <1>2, <1>3

LEMMA ExtendsFurther ==
  ASSUME NEW T, NEW a \in Seq(T), NEW b \in Seq(T), NEW c, Extends(T, a, b), Extends(T, b, c)
  PROVE  Extends(T, a, c)
<1>1. PICK r \in Seq(T) : b = a \o r
  BY DEF Extends
<1>2. PICK s \in Seq(T) : c = b \o s
  BY DEF Extends
<1>3. r \o s \in Seq(T)
  BY ConcatProperties
<1>4. (a \o r) \o s = a \o (r \o s)
  BY ConcatAssociative
<1>5. QED
  BY <1>1, <1>2, <1>3, <1>4 DEF Extends

-----------------------------------------------------------------------------
(* Array.prototype.sort.                                                   *)

\* Of two entries one is before the other, and so is everything before it.
LEMMA BeforeIsTotal ==
  ASSUME NEW m \in Nat, NEW keys \in [1..m -> Nat], NEW i \in 1..m, NEW j \in 1..m
  PROVE  /\ i \notin Before(keys, i)
         /\ i # j => i \in Before(keys, j) \/ j \in Before(keys, i)
         /\ i \in Before(keys, j) => Before(keys, i) \subseteq Before(keys, j)
  BY DEF Before

\* As many entries are before an entry as its place says.
LEMMA SortedPlaces ==
  ASSUME NEW m \in Nat, NEW keys \in [1..m -> Nat], NEW n \in 1..m
  PROVE  /\ Sorted(keys)[n] \in 1..m
         /\ Cardinality(Before(keys, Sorted(keys)[n])) = n - 1
<1> DEFINE place == [i \in 1..m |-> 1 + Cardinality(Before(keys, i))]
<1>1. IsFiniteSet(1..m) /\ Cardinality(1..m) = m
  BY FS_Interval
<1>2. \A i \in 1..m : Before(keys, i) \subseteq 1..m
  BY DEF Before
<1>3. \A i \in 1..m : IsFiniteSet(Before(keys, i)) /\ Cardinality(Before(keys, i)) \in Nat
  BY <1>1, <1>2, FS_Subset, FS_CardinalityType
<1>4. ASSUME NEW i \in 1..m, NEW S \in SUBSET (1..m), Before(keys, i) \cup {i} \subseteq S
      PROVE  Cardinality(Before(keys, i)) + 1 <= Cardinality(S)
  <2>1. Cardinality(Before(keys, i) \cup {i}) = Cardinality(Before(keys, i)) + 1
    BY <1>3, BeforeIsTotal, FS_AddElement
  <2>2. IsFiniteSet(S)
    BY <1>1, FS_Subset
  <2>3. Cardinality(Before(keys, i) \cup {i}) <= Cardinality(S)
    BY <1>4, <2>2, FS_Subset
  <2>4. QED
    BY <2>1, <2>3
<1>5. place \in [1..m -> 1..m]
  <2>1. \A i \in 1..m : Cardinality(Before(keys, i)) + 1 <= m
    BY <1>1, <1>2, <1>4
  <2>2. ASSUME NEW i \in 1..m
        PROVE  1 + Cardinality(Before(keys, i)) \in 1..m
    <3>1. PICK c \in Nat : c = Cardinality(Before(keys, i))
      BY <1>3
    <3>2. QED
      BY <2>1, <3>1
  <2>3. QED
    BY <2>2
<1>6. ASSUME NEW i \in 1..m, NEW j \in 1..m, place[i] = place[j]
      PROVE  i = j
  <2>1. \A k, l \in 1..m : k \in Before(keys, l) => place[k] < place[l]
    <3> SUFFICES ASSUME NEW k \in 1..m, NEW l \in 1..m, k \in Before(keys, l)
                 PROVE  place[k] < place[l]
      OBVIOUS
    <3>1. Before(keys, k) \cup {k} \subseteq Before(keys, l)
      BY BeforeIsTotal
    <3>2. Cardinality(Before(keys, k)) + 1 <= Cardinality(Before(keys, l))
      BY <1>2, <1>4, <3>1
    <3>3. QED
      BY <1>3, <3>2
  <2>2. place[i] \in Int /\ place[j] \in Int
    BY <1>5
  <2> HIDE DEF place
  <2>3. i \notin Before(keys, j) /\ j \notin Before(keys, i)
    BY <1>6, <2>1, <2>2
  <2>4. QED
    BY <2>3, BeforeIsTotal
<1>7. \E i \in 1..m : place[i] = n
  <2> HIDE DEF place
  <2>1. place \in Injection(1..m, 1..m)
    <3>1. \A i, j \in 1..m : place[i] = place[j] => i = j
      BY <1>6
    <3>2. QED
      BY <1>5, <3>1 DEF Injection, IsInjective
  <2>2. place \in Surjection(1..m, 1..m)
    BY <1>1, <2>1, FS_Injection
  <2>3. QED
    BY <2>2 DEF Surjection
<1>8. Sorted(keys)[n] = CHOOSE i \in 1..m : place[i] = n
  BY DEF Sorted
<1>9. Sorted(keys)[n] \in 1..m /\ place[Sorted(keys)[n]] = n
  <2> HIDE DEF place
  <2>1. QED
    BY <1>7, <1>8
<1>10. QED
  <2>1. PICK i \in 1..m : i = Sorted(keys)[n]
    BY <1>9
  <2>2. PICK c \in Nat : c = Cardinality(Before(keys, i))
    BY <1>3
  <2>3. 1 + c = n
    BY <1>9, <2>1, <2>2
  <2>4. QED
    BY <2>1, <2>2, <2>3

-----------------------------------------------------------------------------
(* The invariant.                                                          *)

Record == [shot : ShotIds, attempt : Nat, delivered : BOOLEAN]

\* The test set is one the schema accepted, and what is to come was decided.
WorldOK ==
  /\ series \in Candidates /\ Accepted(series)
  /\ fate \in Fates /\ taste \in Tastes /\ willing \in Willing

\* Every record is an attempt of its shot, and no attempt is recorded twice.
Recorded(list) ==
  /\ list \in Seq(Record)
  /\ \A i \in 1..Len(list) :
       /\ list[i].attempt \in 1..Len(fate[list[i].shot])
       /\ list[i].delivered = fate[list[i].shot][list[i].attempt]
  /\ \A i, j \in 1..Len(list) :
       list[i].shot = list[j].shot /\ list[i].attempt = list[j].attempt => i = j

\* A packet was built of the clips that had been delivered by then.
AsBuilt(p) == \E clips \in Seq(Record) : Extends(Record, clips, Delivered) /\ p = PacketOf(clips)

PacketsOK ==
  /\ key = None \/ AsBuilt(key)
  /\ issued = [r \in Rater |-> issued[r]]
  /\ \A r \in Rater : \A p \in issued[r] : AsBuilt(p)

\* A card is of a packet its rater was handed, and blank or in their own opinion.
Opinion(p, good) == {c \in Codes(p) : p[c].shot \in good}

CardsOK ==
  /\ card = [r \in Rater |-> card[r]]
  /\ \A r \in Rater :
       card[r] = None \/ \E p \in issued[r] : \E yes \in {None, Opinion(p, taste[r])} :
         card[r] = [packet |-> p, yes |-> yes]

\* The key is written last, so where there is one there is a sequence card.
SequenceCardOK ==
  /\ sequenceCard = None \/ \E raters \in (SUBSET Rater) \ {{}} :
       \E yes \in {None, willing \cap raters} : sequenceCard = [raters |-> raters, yes |-> yes]
  /\ key # None => sequenceCard # None

Inv == WorldOK /\ Recorded(log) /\ PacketsOK /\ CardsOK /\ SequenceCardOK

-----------------------------------------------------------------------------
(* The test set.                                                           *)

\* The shots are a list that names every shot of the set once.
LEMMA ShotsAreListed ==
  ASSUME WorldOK
  PROVE  /\ Shots \in Seq(ShotIds) /\ Len(Shots) \in 20..30
         /\ DOMAIN Shots = 1..Len(Shots) /\ IsInjective(Shots)
         /\ Len(series.shots) = Len(Shots)
         /\ \A i \in 1..Len(Shots) : Shots[i] = series.shots[i].id
         /\ \A s \in ShotIds : \E i \in 1..Len(Shots) : Shots[i] = s
<1>1. series.shots \in Seq(ToSet(series.shots)) /\ Len(series.shots) \in 20..30
  BY ReviewAssumption DEF WorldOK, Accepted
<1>2. PICK n \in 20..30 : n = Len(series.shots) /\ DOMAIN series.shots = 1..n
  BY <1>1, LenProperties
<1>3. Shots = [i \in 1..n |-> series.shots[i].id]
  BY <1>2 DEF Shots, Ids
<1>4. DOMAIN Shots = 1..n /\ \A i \in 1..n : Shots[i] \in ShotIds
  BY <1>3 DEF ShotIds, ToSet
<1>5. Shots \in Seq(ShotIds) /\ Len(Shots) = n
  <2>1. Shots \in [1..n -> ShotIds] /\ n \in Nat
    BY <1>3, <1>4
  <2>2. QED
    BY <2>1
<1>6. IsInjective(Shots)
  BY DEF WorldOK, Accepted, Shots
<1>7. QED
  BY <1>2, <1>3, <1>4, <1>5, <1>6 DEF ShotIds, ToSet

LEMMA ShotIdsAreCounted ==
  ASSUME WorldOK
  PROVE  IsFiniteSet(ShotIds) /\ Cardinality(ShotIds) = Len(Shots)
<1>1. PICK n \in 20..30 : n = Len(Shots)
  BY ShotsAreListed
<1>2. Shots \in [1..n -> ShotIds] /\ IsInjective(Shots)
      /\ \A s \in ShotIds : \E i \in 1..n : Shots[i] = s
  BY <1>1, ShotsAreListed
<1>3. Shots \in Bijection(1..n, ShotIds)
  BY <1>2 DEF Bijection, Injection, Surjection
<1>4. ExistsBijection(1..n, ShotIds)
  BY <1>3 DEF ExistsBijection
<1>5. IsFiniteSet(1..n) /\ Cardinality(1..n) = n
  <2>1. n \in Nat
    OBVIOUS
  <2>2. IsFiniteSet(1..n) /\ Cardinality(1..n) = IF 1 > n THEN 0 ELSE n - 1 + 1
    BY <2>1, FS_Interval
  <2>3. QED
    BY <2>2
<1>6. QED
  BY <1>1, <1>4, <1>5, FS_Bijection

\* A shot has one delivered attempt at most, its last.
LEMMA ShotsEndAtDelivery ==
  ASSUME WorldOK, NEW s \in ShotIds
  PROVE  /\ fate[s] \in Seq(BOOLEAN)
         /\ \A n \in 1..Len(fate[s]) : fate[s][n] => n = Len(fate[s])
<1>1. s \in ToSet(Ids(series.shots))
  BY DEF ShotIds, Shots
<1>2. StopsAtDelivery(fate[s])
  BY <1>1, ReviewAssumption DEF WorldOK
<1>3. QED
  BY <1>2 DEF StopsAtDelivery

-----------------------------------------------------------------------------
(* The log.                                                                *)

LEMMA RecordsAreTyped ==
  ASSUME WorldOK, NEW s \in ShotIds
  PROVE  /\ RecordsOf(s) \in Seq(Record) /\ Len(RecordsOf(s)) = Len(fate[s])
         /\ \A n \in 1..Len(fate[s]) :
              RecordsOf(s)[n] = [shot |-> s, attempt |-> n, delivered |-> fate[s][n]]
<1>1. PICK k \in Nat : k = Len(fate[s]) /\ DOMAIN fate[s] = 1..k
  BY ShotsEndAtDelivery
<1>2. fate[s] \in [1..k -> BOOLEAN]
  BY <1>1, ShotsEndAtDelivery
<1>3. RecordsOf(s) = [n \in 1..k |-> [shot |-> s, attempt |-> n, delivered |-> fate[s][n]]]
  BY <1>1 DEF RecordsOf
<1>4. \A n \in 1..k : [shot |-> s, attempt |-> n, delivered |-> fate[s][n]] \in Record
  BY <1>2 DEF Record
<1>5. RecordsOf(s) \in [1..k -> Record]
  BY <1>3, <1>4
<1>6. RecordsOf(s) \in Seq(Record) /\ Len(RecordsOf(s)) = k
  BY <1>5
<1>7. QED
  BY <1>1, <1>3, <1>6

\* The records of one process, of a shot the log has nothing of.
LEMMA RecordsAreNew ==
  ASSUME WorldOK, NEW list, Recorded(list), NEW s \in ShotIds,
         \A i \in 1..Len(list) : list[i].shot # s
  PROVE  /\ Recorded(list \o RecordsOf(s))
         /\ Extends(Record, list, list \o RecordsOf(s))
         /\ \A i \in 1..Len(list \o RecordsOf(s)) :
              (list \o RecordsOf(s))[i].shot = s \/
              \E j \in 1..Len(list) : (list \o RecordsOf(s))[i].shot = list[j].shot
<1>1. PICK m \in Nat : m = Len(list)
  BY DEF Recorded
<1>2. PICK k \in Nat : k = Len(fate[s]) /\ DOMAIN fate[s] = 1..k
  BY ShotsEndAtDelivery
<1>4. PICK more \in Seq(Record) :
        /\ more = RecordsOf(s) /\ Len(more) = k
        /\ \A n \in 1..k : more[n] = [shot |-> s, attempt |-> n, delivered |-> fate[s][n]]
  BY <1>2, RecordsAreTyped
<1>5. PICK longer \in Seq(Record) :
        /\ longer = list \o more /\ Len(longer) = m + k
        /\ \A i \in 1..m : longer[i] = list[i]
        /\ \A i \in 1..k : longer[m + i] = more[i]
  <2>1. list \in Seq(Record)
    BY DEF Recorded
  <2>2. /\ list \o more \in Seq(Record) /\ Len(list \o more) = Len(list) + Len(more)
        /\ \A i \in 1..(Len(list) + Len(more)) :
             (list \o more)[i] = IF i <= Len(list) THEN list[i] ELSE more[i - Len(list)]
    BY <2>1, ConcatProperties
  <2>3. PICK longer \in Seq(Record) : longer = list \o more
    BY <2>2
  <2>4. Len(longer) = m + k /\ \A i \in 1..(m + k) :
          longer[i] = IF i <= m THEN list[i] ELSE more[i - m]
    BY <1>1, <1>4, <2>2, <2>3
  <2>5. \A i \in 1..m : longer[i] = list[i]
    BY <2>4
  <2>6. \A i \in 1..k : longer[m + i] = more[i]
    <3> SUFFICES ASSUME NEW i \in 1..k
                 PROVE  longer[m + i] = more[i]
      OBVIOUS
    <3>1. m + i \in 1..(m + k) /\ ~(m + i <= m) /\ (m + i) - m = i
      OBVIOUS
    <3>2. QED
      BY <2>4, <3>1
  <2>7. QED
    BY <2>3, <2>4, <2>5, <2>6
<1>6. \A i \in 1..(m + k) : i \in 1..m \/ (i - m \in 1..k /\ i = m + (i - m))
  OBVIOUS
<1>7. ASSUME NEW i \in 1..(m + k), i \notin 1..m
      PROVE  longer[i].shot = s /\ longer[i].attempt = i - m /\ longer[i].delivered = fate[s][i - m]
  BY <1>4, <1>5, <1>6, <1>7
<1>8. \A i \in 1..m : longer[i].shot # s
  BY <1>1, <1>5
<1>9. Recorded(longer)
  <2>1. ASSUME NEW i \in 1..(m + k)
        PROVE  /\ longer[i].attempt \in 1..Len(fate[longer[i].shot])
               /\ longer[i].delivered = fate[longer[i].shot][longer[i].attempt]
    <3>1. CASE i \in 1..m
      BY <1>1, <1>5, <3>1 DEF Recorded
    <3>2. CASE i \notin 1..m
      BY <1>2, <1>6, <1>7, <3>2
    <3>3. QED
      BY <3>1, <3>2
  <2>2. ASSUME NEW i \in 1..(m + k), NEW j \in 1..(m + k),
               longer[i].shot = longer[j].shot, longer[i].attempt = longer[j].attempt
        PROVE  i = j
    <3>1. CASE i \in 1..m /\ j \in 1..m
      BY <1>1, <1>5, <2>2, <3>1 DEF Recorded
    <3>2. CASE i \notin 1..m /\ j \notin 1..m
      BY <1>7, <2>2, <3>2
    <3>3. CASE ~(i \in 1..m <=> j \in 1..m)
      BY <1>7, <1>8, <2>2, <3>3
    <3>4. QED
      BY <3>1, <3>2, <3>3
  <2>3. QED
    BY <1>5, <2>1, <2>2 DEF Recorded
<1>10. Extends(Record, list, longer)
  BY <1>4, <1>5 DEF Extends
<1>11. \A i \in 1..Len(longer) :
         longer[i].shot = s \/ \E j \in 1..Len(list) : longer[i].shot = list[j].shot
  BY <1>1, <1>5, <1>7
<1>12. QED
  BY <1>4, <1>5, <1>9, <1>10, <1>11

\* What "generate" leaves: a log that goes on from the one there was.
LEMMA GenerateGoesOn ==
  ASSUME WorldOK, Recorded(log), NEW batch, Generate(batch)
  PROVE  Recorded(log') /\ Extends(Record, log, log')
<1> DEFINE todo == Kept(Shots, {s \in batch : AttemptsOf(log, s) = {}})
           Rec(a) == a = [n \in 0..Len(todo) |->
                            IF n = 0 THEN log ELSE a[n - 1] \o RecordsOf(todo[n])]
           after == CHOOSE a : Rec(a)
<1>1. log' = after[Len(todo)]
  BY DEF Generate
<1>2. /\ todo \in Seq(ShotIds)
      /\ \A n \in 1..Len(todo) : AttemptsOf(log, todo[n]) = {}
      /\ \A i, j \in 1..Len(todo) : todo[i] = todo[j] => i = j
  <2>1. Shots \in Seq(ShotIds) /\ IsInjective(Shots) /\ DOMAIN Shots = 1..Len(Shots)
    BY ShotsAreListed
  <2>2. todo \in Seq(ShotIds)
    BY <2>1, KeptPicks
  <2>3. PICK e : Picks(Shots, {s \in batch : AttemptsOf(log, s) = {}}, todo, e)
    BY <2>1, KeptPicks
  <2> HIDE DEF todo
  <2>4. \A n \in 1..Len(todo) : AttemptsOf(log, todo[n]) = {}
    BY <2>3 DEF Picks
  <2>5. ASSUME NEW i \in 1..Len(todo), NEW j \in 1..Len(todo), todo[i] = todo[j]
        PROVE  i = j
    <3>1. e[i] \in 1..Len(Shots) /\ e[j] \in 1..Len(Shots) /\ Shots[e[i]] = Shots[e[j]]
      BY <2>3, <2>5 DEF Picks
    <3>2. e[i] = e[j]
      BY <2>1, <3>1 DEF IsInjective
    <3>3. PICK l \in Nat : l = Len(todo)
      BY <2>2
    <3>4. i \in 1..l /\ j \in 1..l /\ (i < j => e[i] < e[j]) /\ (j < i => e[j] < e[i])
      BY <2>3, <3>3 DEF Picks
    <3>5. e[i] \in Int /\ e[j] \in Int
      BY <2>1, <3>1
    <3>6. QED
      BY <3>2, <3>4, <3>5
  <2>6. QED
    BY <2>2, <2>4, <2>5
<1> HIDE DEF todo
<1>3. PICK m \in Nat : m = Len(todo)
  BY <1>2
<1>4. \A n \in 1..m : todo[n] \in ShotIds
  BY <1>2, <1>3
<1>5. \A n \in 1..m : RecordsOf(todo[n]) \in Seq(Record)
  BY <1>4, RecordsAreTyped
<1>6. Rec(after)
  <2> DEFINE step == [n \in 1..m |-> [v \in Seq(Record) |-> v \o RecordsOf(todo[n])]]
  <2>1. Steps(Seq(Record), m, step)
    <3>1. \A n \in 1..m : \A v \in Seq(Record) : v \o RecordsOf(todo[n]) \in Seq(Record)
      BY <1>5, ConcatProperties
    <3>2. QED
      BY <3>1 DEF Steps
  <2>2. log \in Seq(Record)
    BY DEF Recorded
  <2>3. PICK f : Follows(Seq(Record), log, m, step, f)
    <3> HIDE DEF step
    <3>1. QED
      BY <2>1, <2>2, Iteration
  <2>4. \A n \in 1..m : f[n] = f[n - 1] \o RecordsOf(todo[n])
    <3>1. \A n \in 1..m : f[n] = step[n][f[n - 1]] /\ f[n - 1] \in Seq(Record)
      <4> HIDE DEF step
      <4>1. QED
        BY <2>3 DEF Follows
    <3>2. \A n \in 1..m : \A v \in Seq(Record) : step[n][v] = v \o RecordsOf(todo[n])
      OBVIOUS
    <3> HIDE DEF step
    <3>3. QED
      BY <3>1, <3>2
  <2>5. \A n \in 0..m : f[n] = IF n = 0 THEN log ELSE f[n - 1] \o RecordsOf(todo[n])
    <3>1. \A n \in 0..m : n # 0 => n \in 1..m
      OBVIOUS
    <3>2. f[0] = log
      <4> HIDE DEF step
      <4>1. QED
        BY <2>3 DEF Follows
    <3>3. QED
      BY <2>4, <3>1, <3>2
  <2>6. f = [n \in 0..m |-> f[n]]
    BY <2>3 DEF Follows
  <2>7. Rec(f)
    BY <1>3, <2>5, <2>6
  <2>8. QED
    BY <2>7
<1> HIDE DEF after
<1>7. after[0] = log /\ \A n \in 1..m : after[n] = after[n - 1] \o RecordsOf(todo[n])
  <2>1. \A n \in 0..m : after[n] = IF n = 0 THEN log ELSE after[n - 1] \o RecordsOf(todo[n])
    BY <1>3, <1>6
  <2>2. 0 \in 0..m /\ \A n \in 1..m : n \in 0..m /\ n # 0
    OBVIOUS
  <2> HIDE DEF Rec
  <2>3. after[0] = log
    BY <2>1, <2>2
  <2>4. \A n \in 1..m : after[n] = after[n - 1] \o RecordsOf(todo[n])
    BY <2>1, <2>2
  <2>5. QED
    BY <2>3, <2>4
<1> DEFINE Good(n) ==
             /\ Recorded(after[n]) /\ Extends(Record, log, after[n])
             /\ \A i \in 1..Len(after[n]) :
                  \/ \E j \in 1..Len(log) : after[n][i].shot = log[j].shot
                  \/ \E k \in 1..n : after[n][i].shot = todo[k]
           Q == {n \in 0..m : Good(n)}
<1>8. 0 \in Q
  <2>1. Extends(Record, log, log)
    BY ExtendsItself DEF Recorded
  <2>2. Good(0)
    BY <1>7, <2>1
  <2> HIDE DEF Good
  <2>3. QED
    BY <2>2
<1>9. ASSUME NEW n \in 1..m, n - 1 \in Q
      PROVE  n \in Q
  <2>1. PICK list : list = after[n - 1]
    OBVIOUS
  <2>2. PICK s \in ShotIds : s = todo[n]
    BY <1>4
  <2>3. /\ Recorded(list) /\ Extends(Record, log, list)
        /\ \A i \in 1..Len(list) :
             \/ \E j \in 1..Len(log) : list[i].shot = log[j].shot
             \/ \E k \in 1..(n - 1) : list[i].shot = todo[k]
    BY <1>9, <2>1
  <2>4. \A i \in 1..Len(list) : list[i].shot # s
    <3>1. \A j \in 1..Len(log) : log[j].shot # s
      <4>1. AttemptsOf(log, s) = {}
        BY <1>2, <1>3, <2>2
      <4>2. DOMAIN log = 1..Len(log)
        BY DEF Recorded
      <4>3. QED
        BY <4>1, <4>2 DEF AttemptsOf, ToSet
    <3>2. \A k \in 1..(n - 1) : todo[k] # s
      <4> SUFFICES ASSUME NEW k \in 1..(n - 1), todo[k] = s
                   PROVE  FALSE
        OBVIOUS
      <4>1. k \in 1..Len(todo) /\ n \in 1..Len(todo) /\ k # n
        BY <1>3
      <4>2. QED
        BY <1>2, <2>2, <4>1
    <3>3. QED
      BY <2>3, <3>1, <3>2
  <2>5. after[n] = list \o RecordsOf(s)
    BY <1>7, <2>1, <2>2
  <2>6. /\ Recorded(after[n]) /\ Extends(Record, list, after[n])
        /\ \A i \in 1..Len(after[n]) :
             after[n][i].shot = s \/ \E j \in 1..Len(list) : after[n][i].shot = list[j].shot
    BY <2>3, <2>4, <2>5, RecordsAreNew
  <2>7. Extends(Record, log, after[n])
    <3>1. log \in Seq(Record) /\ list \in Seq(Record)
      BY <2>3 DEF Recorded
    <3>2. QED
      BY <2>3, <2>6, <3>1, ExtendsFurther
  <2>8. ASSUME NEW i \in 1..Len(after[n])
        PROVE  \/ \E j \in 1..Len(log) : after[n][i].shot = log[j].shot
               \/ \E k \in 1..n : after[n][i].shot = todo[k]
    <3>1. CASE after[n][i].shot = s
      BY <2>2, <3>1, n \in 1..n
    <3>2. CASE \E j \in 1..Len(list) : after[n][i].shot = list[j].shot
      <4>1. \A k \in 1..(n - 1) : k \in 1..n
        OBVIOUS
      <4>2. QED
        BY <2>3, <3>2, <4>1
    <3>3. QED
      BY <2>6, <3>1, <3>2
  <2>9. Good(n)
    BY <2>6, <2>7, <2>8
  <2> HIDE DEF Good
  <2>10. QED
    BY <2>9
<1>10. 0..m \subseteq Q
  <2> HIDE DEF Q
  <2>1. QED
    BY <1>8, <1>9, UpTo
<1>11. Good(m)
  <2> HIDE DEF Good
  <2>1. QED
    BY <1>10
<1>12. QED
  BY <1>1, <1>3, <1>11

-----------------------------------------------------------------------------
(* The delivered clips.                                                    *)

\* Clips no two of which are of one shot.
OneEach(clips) ==
  /\ clips \in Seq(Record)
  /\ \A i, j \in 1..Len(clips) : clips[i].shot = clips[j].shot => i = j

LEMMA DeliveredOnce ==
  ASSUME WorldOK, Recorded(log)
  PROVE  OneEach(Delivered) /\ ToSet(Delivered) = {r \in ToSet(log) : r.delivered}
<1> DEFINE S == {r \in ToSet(log) : r.delivered}
<1>1. log \in Seq(Record)
  BY DEF Recorded
<1>2. Delivered = Kept(log, S)
  BY DEF Delivered
<1>3. Delivered \in Seq(Record)
  BY <1>1, <1>2, KeptPicks
<1>4. PICK e : Picks(log, S, Delivered, e)
  BY <1>1, <1>2, KeptPicks
<1>5. ASSUME NEW i \in 1..Len(Delivered), NEW j \in 1..Len(Delivered),
             Delivered[i].shot = Delivered[j].shot
      PROVE  i = j
  <2>1. PICK l \in Nat, m \in Nat : l = Len(Delivered) /\ m = Len(log)
    BY <1>1, <1>3
  <2>2. /\ e[i] \in 1..m /\ log[e[i]] = Delivered[i] /\ Delivered[i].delivered
        /\ e[j] \in 1..m /\ log[e[j]] = Delivered[j] /\ Delivered[j].delivered
    BY <1>4, <2>1 DEF Picks
  <2>3. PICK s \in ShotIds : s = Delivered[i].shot /\ s = Delivered[j].shot
    <3>1. Delivered[i] \in Record
      BY <1>3, ElementOfSeq
    <3>2. QED
      BY <1>5, <3>1 DEF Record
  <2>4. /\ Delivered[i].attempt \in 1..Len(fate[s]) /\ fate[s][Delivered[i].attempt]
        /\ Delivered[j].attempt \in 1..Len(fate[s]) /\ fate[s][Delivered[j].attempt]
    <3>1. \A k \in 1..m : /\ log[k].attempt \in 1..Len(fate[log[k].shot])
                         /\ log[k].delivered = fate[log[k].shot][log[k].attempt]
      BY <2>1 DEF Recorded
    <3>2. /\ Delivered[i].attempt \in 1..Len(fate[Delivered[i].shot])
          /\ Delivered[i].delivered = fate[Delivered[i].shot][Delivered[i].attempt]
      BY <2>2, <3>1
    <3>3. /\ Delivered[j].attempt \in 1..Len(fate[Delivered[j].shot])
          /\ Delivered[j].delivered = fate[Delivered[j].shot][Delivered[j].attempt]
      BY <2>2, <3>1
    <3>4. QED
      BY <2>2, <2>3, <3>2, <3>3
  <2>5. Delivered[i].attempt = Delivered[j].attempt
    BY <2>4, ShotsEndAtDelivery
  <2>6. e[i] = e[j]
    BY <1>5, <2>1, <2>2, <2>5 DEF Recorded
  <2>7. (i < j => e[i] < e[j]) /\ (j < i => e[j] < e[i])
    BY <1>4 DEF Picks
  <2>8. i \in 1..l /\ j \in 1..l
    BY <2>1
  <2>9. QED
    BY <2>2, <2>6, <2>7, <2>8
<1>6. ToSet(Delivered) = S
  BY <1>1, <1>2, KeptEntries
<1>7. QED
  BY <1>3, <1>5, <1>6 DEF OneEach

\* A longer log has the same clips first.
LEMMA DeliveredGoesOn ==
  ASSUME Recorded(log), Record' = Record, Extends(Record, log, log')
  PROVE  Extends(Record, Delivered, Delivered')
<1> DEFINE S == {r \in ToSet(log) : r.delivered}
           R == {r \in ToSet(log') : r.delivered}
<1>1. PICK more \in Seq(Record) : log' = log \o more
  BY DEF Extends
<1>2. log \in Seq(Record) /\ DOMAIN log = 1..Len(log)
  BY DEF Recorded
<1>3. log' \in Seq(Record) /\ DOMAIN log' = 1..Len(log') /\ Len(log) <= Len(log')
      /\ \A n \in 1..Len(log) : log'[n] = log[n]
  BY <1>2, ExtendsKeeps
<1>4. ASSUME NEW n \in 1..Len(log)
      PROVE  log[n] \in S <=> log[n] \in R
  <2>1. n \in DOMAIN log /\ n \in DOMAIN log'
    BY <1>2, <1>3
  <2>2. log[n] \in ToSet(log) /\ log[n] \in ToSet(log')
    BY <1>3, <2>1 DEF ToSet
  <2>3. QED
    BY <2>2
<1>5. Delivered = Kept(log, S) /\ Delivered' = Kept(log \o more, R)
  BY <1>1 DEF Delivered
<1> HIDE DEF S, R
<1>6. QED
  BY <1>2, <1>4, <1>5, KeptOfLonger

LEMMA ShotsBoundClips ==
  ASSUME WorldOK, NEW clips, OneEach(clips)
  PROVE  Len(clips) \in 0..Len(Shots)
<1>1. PICK n \in Nat : n = Len(clips)
  BY DEF OneEach
<1>2. clips \in [1..n -> Record]
  BY <1>1 DEF OneEach
<1> DEFINE f == [i \in 1..n |-> clips[i].shot]
<1>3. f \in [1..n -> ShotIds]
  BY <1>2 DEF Record
<1>4. f \in Injection(1..n, ShotIds)
  BY <1>1, <1>3 DEF OneEach, Injection, IsInjective
<1>5. Cardinality(1..n) <= Len(Shots)
  BY <1>4, ShotIdsAreCounted, FS_Injection
<1>6. Cardinality(1..n) = n
  BY FS_Interval
<1>7. QED
  BY <1>1, <1>5, <1>6, ShotsAreListed

\* What a packet says of a record.
Clip(r) == [shot |-> r.shot, attempt |-> r.attempt]

\* A packet names each of its clips once.
LEMMA PacketsList ==
  ASSUME WorldOK, NEW clips, OneEach(clips)
  PROVE  /\ DOMAIN PacketOf(clips) = 1..Len(clips)
         /\ \A c \in 1..Len(clips) : \E i \in 1..Len(clips) : PacketOf(clips)[c] = Clip(clips[i])
         /\ \A i \in 1..Len(clips) : \E c \in 1..Len(clips) : PacketOf(clips)[c] = Clip(clips[i])
         /\ \A c, d \in 1..Len(clips) :
              PacketOf(clips)[c].shot = PacketOf(clips)[d].shot => c = d
<1>1. PICK n \in Nat : n = Len(clips) /\ DOMAIN clips = 1..n
  BY DEF OneEach
<1>2. n <= 30
  <2>1. PICK k \in 20..30 : k = Len(Shots)
    BY ShotsAreListed
  <2>2. n \in 0..k
    BY <1>1, <2>1, ShotsBoundClips
  <2>3. QED
    BY <2>2
<1>3. PICK shuffle : shuffle = Shuffle[n]
  OBVIOUS
<1>4. n # 0 => shuffle \in [1..n -> 1..n] /\ IsInjective(shuffle)
  <2>1. n # 0 => n \in 1..30
    BY <1>2
  <2>2. \A k \in 1..30 : Shuffle[k] \in [1..k -> 1..k] /\ IsInjective(Shuffle[k])
    BY ReviewAssumption
  <2>3. QED
    BY <1>3, <2>1, <2>2
<1>5. \A c \in 1..n : shuffle[c] \in 1..n
  <2> SUFFICES ASSUME NEW c \in 1..n
               PROVE  shuffle[c] \in 1..n
    OBVIOUS
  <2>1. n # 0
    OBVIOUS
  <2>2. QED
    BY <1>4, <2>1
<1>6. \A c, d \in 1..n : shuffle[c] = shuffle[d] => c = d
  <2> SUFFICES ASSUME NEW c \in 1..n, NEW d \in 1..n, shuffle[c] = shuffle[d]
               PROVE  c = d
    OBVIOUS
  <2>1. n # 0
    OBVIOUS
  <2>2. QED
    BY <1>4, <2>1 DEF IsInjective
<1>7. \A i \in 1..n : \E c \in 1..n : shuffle[c] = i
  <2>1. CASE n = 0
    BY <2>1
  <2>2. CASE n # 0
    <3>1. shuffle \in Injection(1..n, 1..n)
      BY <1>4, <2>2 DEF Injection
    <3>2. IsFiniteSet(1..n)
      BY FS_Interval
    <3>3. shuffle \in Surjection(1..n, 1..n)
      BY <3>1, <3>2, FS_Injection
    <3>4. QED
      BY <3>3 DEF Surjection
  <2>3. QED
    BY <2>1, <2>2
<1>8. PacketOf(clips) = [c \in 1..n |-> Clip(clips[shuffle[c]])]
  BY <1>1, <1>3 DEF PacketOf, Clip
<1>9. ASSUME NEW c \in 1..n, NEW d \in 1..n, PacketOf(clips)[c].shot = PacketOf(clips)[d].shot
      PROVE  c = d
  <2>1. clips[shuffle[c]].shot = clips[shuffle[d]].shot
    BY <1>8, <1>9 DEF Clip
  <2>2. shuffle[c] = shuffle[d]
    BY <1>1, <1>5, <2>1 DEF OneEach
  <2>3. QED
    BY <1>6, <2>2
<1>10. PICK p : p = PacketOf(clips)
  OBVIOUS
<1>11. DOMAIN p = 1..n /\ \A c \in 1..n : p[c] = Clip(clips[shuffle[c]])
  BY <1>8, <1>10
<1>12. \A c \in 1..n : \E i \in 1..n : p[c] = Clip(clips[i])
  BY <1>5, <1>11
<1>13. \A i \in 1..n : \E c \in 1..n : p[c] = Clip(clips[i])
  BY <1>7, <1>11
<1>14. QED
  BY <1>1, <1>9, <1>10, <1>11, <1>12, <1>13

\* Every packet there is, is one of clips of different shots that come first among those delivered.
LEMMA PacketsAreOld ==
  ASSUME WorldOK, Recorded(log), NEW p, AsBuilt(p)
  PROVE  \E clips : /\ OneEach(clips) /\ p = PacketOf(clips)
                    /\ Len(clips) <= Len(Delivered)
                    /\ Len(clips) = Len(Delivered) => p = Packet
<1>1. PICK clips \in Seq(Record) : Extends(Record, clips, Delivered) /\ p = PacketOf(clips)
  BY DEF AsBuilt
<1>2. /\ OneEach(Delivered) /\ Len(clips) <= Len(Delivered)
      /\ \A n \in 1..Len(clips) : Delivered[n] = clips[n]
      /\ Len(Delivered) = Len(clips) => Delivered = clips
  BY <1>1, DeliveredOnce, ExtendsKeeps
<1>3. PICK l \in Nat, m \in Nat : l = Len(clips) /\ m = Len(Delivered) /\ l <= m
  BY <1>2 DEF OneEach
<1>4. OneEach(clips)
  <2>1. ASSUME NEW i \in 1..l, NEW j \in 1..l, clips[i].shot = clips[j].shot
        PROVE  i = j
    <3>1. i \in 1..m /\ j \in 1..m
      BY <1>3
    <3>2. Delivered[i].shot = Delivered[j].shot
      BY <1>2, <1>3, <2>1
    <3>3. QED
      BY <1>2, <1>3, <3>1, <3>2 DEF OneEach
  <2>2. QED
    BY <1>3, <2>1 DEF OneEach
<1>5. QED
  BY <1>1, <1>2, <1>4 DEF Packet

-----------------------------------------------------------------------------
(* The invariant is kept.                                                  *)

LEMMA SameWorld ==
  ASSUME UNCHANGED world
  PROVE  /\ series' = series /\ fate' = fate /\ taste' = taste /\ willing' = willing
         /\ Shots' = Shots /\ ShotIds' = ShotIds /\ Record' = Record /\ WorldOK' = WorldOK
<1>1. series' = series /\ fate' = fate /\ taste' = taste /\ willing' = willing
  BY DEF world
<1>2. Shots' = Shots
  BY <1>1 DEF Shots
<1>3. ShotIds' = ShotIds
  BY <1>2 DEF ShotIds
<1>4. Record' = Record
  BY <1>3 DEF Record
<1>5. WorldOK' = WorldOK
  BY <1>1 DEF WorldOK
<1>6. QED
  BY <1>1, <1>2, <1>3, <1>4, <1>5

LEMMA RecordedStays ==
  ASSUME UNCHANGED world, Recorded(log')
  PROVE  Recorded(log)'
<1>1. Record' = Record /\ fate' = fate
  BY SameWorld
<1>2. QED
  BY <1>1 DEF Recorded

\* A packet that was built stays one, whatever "generate" adds to the log.
LEMMA AsBuiltStays ==
  ASSUME UNCHANGED world, Recorded(log), Extends(Record, log, log'),
         WorldOK, NEW p, AsBuilt(p)
  PROVE  AsBuilt(p)'
<1>1. Record' = Record
  BY SameWorld
<1>2. PICK clips \in Seq(Record) : Extends(Record, clips, Delivered) /\ p = PacketOf(clips)
  BY DEF AsBuilt
<1>3. Delivered \in Seq(Record)
  BY DeliveredOnce DEF OneEach
<1>4. Extends(Record, Delivered, Delivered')
  BY <1>1, DeliveredGoesOn
<1>5. Extends(Record, clips, Delivered')
  BY <1>2, <1>3, <1>4, ExtendsFurther
<1>6. QED
  BY <1>1, <1>2, <1>5 DEF AsBuilt, PacketOf

LEMMA PacketIsAsBuilt ==
  ASSUME WorldOK, Recorded(log)
  PROVE  AsBuilt(Packet)
<1>1. Delivered \in Seq(Record)
  BY DeliveredOnce DEF OneEach
<1>2. Extends(Record, Delivered, Delivered)
  BY <1>1, ExtendsItself
<1>3. QED
  BY <1>1, <1>2 DEF AsBuilt, Packet

LEMMA RatersAreListed ==
  ASSUME NEW raters \in RaterLists
  PROVE  /\ raters \in Seq(Rater) /\ ToSet(raters) \in (SUBSET Rater) \ {{}}
         /\ \A n \in DOMAIN raters : ToSet(SubSeq(raters, 1, n)) \subseteq Rater
<1>1. raters \in Seq(Rater) /\ raters # <<>>
  BY ReviewAssumption
<1>2. PICK m \in Nat : m = Len(raters) /\ DOMAIN raters = 1..m
  BY <1>1, LenProperties
<1>3. \A i \in 1..m : raters[i] \in Rater
  BY <1>1, <1>2
<1>4. m # 0
  BY <1>1, <1>2, EmptySeq
<1>5. raters[1] \in ToSet(raters) /\ ToSet(raters) \subseteq Rater
  BY <1>2, <1>3, <1>4 DEF ToSet
<1>6. ASSUME NEW n \in 1..m
      PROVE  ToSet(SubSeq(raters, 1, n)) \subseteq Rater
  <2>1. SubSeq(raters, 1, n) = [i \in 1..n |-> raters[1 + i - 1]]
    BY <1>1, <1>2, SubSeqProperties
  <2>2. \A i \in 1..n : 1 + i - 1 \in 1..m
    OBVIOUS
  <2>3. QED
    BY <1>3, <2>1, <2>2 DEF ToSet
<1>7. QED
  BY <1>1, <1>2, <1>5, <1>6

LEMMA InitInv == Init => Inv
<1> SUFFICES ASSUME Init
             PROVE  Inv
  OBVIOUS
<1>1. WorldOK
  BY DEF Init, WorldOK
<1>2. Recorded(log)
  <2>1. log = <<>>
    BY DEF Init
  <2>2. QED
    BY <2>1 DEF Recorded
<1>3. PacketsOK /\ CardsOK /\ SequenceCardOK
  BY DEF Init, PacketsOK, CardsOK, SequenceCardOK
<1>4. QED
  BY <1>1, <1>2, <1>3 DEF Inv

\* Steps that leave the packets there were where they are.
LEMMA PacketsStay ==
  ASSUME Inv, UNCHANGED <<key, issued, world>>, Extends(Record, log, log')
  PROVE  PacketsOK'
<1>1. \A p : AsBuilt(p) => AsBuilt(p)'
  BY AsBuiltStays DEF Inv
<1>2. PICK k : k = key
  OBVIOUS
<1>3. k = None \/ AsBuilt(k)
  BY <1>2 DEF Inv, PacketsOK
<1>4. (key = None \/ AsBuilt(key))'
  <2>1. k = None \/ AsBuilt(k)'
    BY <1>1, <1>3
  <2>2. k = key'
    BY <1>2
  <2>3. QED
    BY <2>1, <2>2
<1>5. \A r \in Rater : \A p \in issued[r] : AsBuilt(p)'
  BY <1>1 DEF Inv, PacketsOK
<1>6. issued' = [r \in Rater |-> issued'[r]]
  BY DEF Inv, PacketsOK
<1>7. QED
  BY <1>4, <1>5, <1>6 DEF PacketsOK

\* The cards "review build" blanks are of the packet that was built.
LEMMA BlankCardsStay ==
  ASSUME Inv, NEW raters \in SUBSET Rater, BlankCards(raters), UNCHANGED <<log, world>>,
         key' = key \/ key' = Packet
  PROVE  PacketsOK' /\ CardsOK'
<1>1. log \in Seq(Record)
  BY DEF Inv, Recorded
<1>2. Extends(Record, log, log')
  BY <1>1, ExtendsItself
<1>3. \A p : AsBuilt(p) => AsBuilt(p)'
  BY <1>2, AsBuiltStays DEF Inv
<1>4. PICK built : built = Packet /\ AsBuilt(built)
  BY PacketIsAsBuilt DEF Inv
<1>5. /\ issued' = [r \in Rater |-> IF r \in raters THEN issued[r] \cup {built} ELSE issued[r]]
      /\ card' = [r \in Rater |-> IF r \in raters THEN [packet |-> built, yes |-> None] ELSE card[r]]
  BY <1>4 DEF BlankCards
<1>6. \A r \in Rater : \A p \in issued'[r] : AsBuilt(p)'
  BY <1>3, <1>4, <1>5 DEF Inv, PacketsOK
<1>7. (key = None \/ AsBuilt(key))'
  <2>1. PICK k : k = key'
    OBVIOUS
  <2>2. k = None \/ AsBuilt(k)
    <3>1. k = key \/ k = built
      BY <1>4, <2>1
    <3>2. key = None \/ AsBuilt(key)
      BY DEF Inv, PacketsOK
    <3>3. QED
      BY <1>4, <3>1, <3>2
  <2>3. k = None \/ AsBuilt(k)'
    BY <1>3, <2>2
  <2>4. QED
    BY <2>1, <2>3
<1>8. issued' = [r \in Rater |-> issued'[r]]
  BY <1>5
<1>9. PacketsOK'
  BY <1>6, <1>7, <1>8 DEF PacketsOK
<1>10. CardsOK'
  <2>1. taste' = taste
    BY SameWorld
  <2>2. card' = [r \in Rater |-> card'[r]]
    BY <1>5
  <2>3. ASSUME NEW r \in Rater
        PROVE  (card[r] = None \/ \E p \in issued[r] : \E yes \in {None, Opinion(p, taste[r])} :
                 card[r] = [packet |-> p, yes |-> yes])'
    <3>1. CASE r \in raters
      <4>1. card'[r] = [packet |-> built, yes |-> None] /\ built \in issued'[r]
        BY <1>5, <3>1
      <4>2. QED
        BY <4>1
    <3>2. CASE r \notin raters
      <4>1. card'[r] = card[r] /\ issued'[r] = issued[r]
        BY <1>5, <3>2
      <4>2. card[r] = None \/ \E p \in issued[r] : \E yes \in {None, Opinion(p, taste[r])} :
              card[r] = [packet |-> p, yes |-> yes]
        BY DEF Inv, CardsOK
      <4>3. QED
        BY <2>1, <4>1, <4>2 DEF Opinion, Codes
    <3>3. QED
      BY <3>1, <3>2
  <2>4. QED
    BY <2>2, <2>3 DEF CardsOK
<1>11. QED
  BY <1>9, <1>10

LEMMA BlankSequenceCardStays ==
  ASSUME NEW raters \in (SUBSET Rater) \ {{}}, BlankSequenceCard(raters)
  PROVE  SequenceCardOK'
<1>1. sequenceCard' = [raters |-> raters, yes |-> None]
  BY DEF BlankSequenceCard
<1>2. sequenceCard' # None
  <2>1. [raters |-> raters, yes |-> None] \in [raters : SUBSET Rater, yes : (SUBSET Rater) \cup {None}]
    OBVIOUS
  <2>2. QED
    BY <1>1, <2>1, ReviewAssumption
<1>3. QED
  BY <1>1, <1>2 DEF SequenceCardOK

LEMMA GenerateInv ==
  ASSUME Inv, NEW batch, Generate(batch)
  PROVE  Inv'
<1>1. UNCHANGED <<card, sequenceCard, key, issued, world>>
  BY DEF Generate
<1>2. Recorded(log') /\ Extends(Record, log, log')
  BY GenerateGoesOn DEF Inv
<1>3. WorldOK' /\ Recorded(log)'
  BY <1>1, <1>2, SameWorld, RecordedStays DEF Inv
<1>4. PacketsOK'
  BY <1>1, <1>2, PacketsStay
<1>5. CardsOK' /\ SequenceCardOK'
  <2>1. taste' = taste /\ willing' = willing
    BY <1>1, SameWorld
  <2>2. QED
    BY <1>1, <2>1 DEF Inv, CardsOK, SequenceCardOK, Opinion, Codes
<1>6. QED
  BY <1>3, <1>4, <1>5 DEF Inv

LEMMA SameLog ==
  ASSUME Inv, UNCHANGED <<log, world>>
  PROVE  WorldOK' /\ Recorded(log)' /\ Extends(Record, log, log')
<1>1. log \in Seq(Record)
  BY DEF Inv, Recorded
<1>2. QED
  BY <1>1, SameWorld, RecordedStays, ExtendsItself DEF Inv

LEMMA BuildInv ==
  ASSUME Inv, NEW raters \in RaterLists, Build(raters)
  PROVE  Inv'
<1>1. ToSet(raters) \in (SUBSET Rater) \ {{}}
  BY RatersAreListed
<1>2. WorldOK' /\ Recorded(log)'
  BY SameLog DEF Build
<1>3. PacketsOK' /\ CardsOK'
  BY <1>1, BlankCardsStay DEF Build
<1>4. SequenceCardOK'
  BY <1>1, BlankSequenceCardStays DEF Build
<1>5. QED
  BY <1>2, <1>3, <1>4 DEF Inv

LEMMA BuildDiesInv ==
  ASSUME Inv, NEW raters \in RaterLists, BuildDies(raters)
  PROVE  Inv'
<1>1. PICK n \in DOMAIN raters :
        /\ BlankCards(ToSet(SubSeq(raters, 1, n)))
        /\ \/ n = Len(raters) /\ BlankSequenceCard(ToSet(raters))
           \/ UNCHANGED sequenceCard
  BY DEF BuildDies
<1>2. UNCHANGED <<log, key, world>>
  BY DEF BuildDies
<1>3. ToSet(SubSeq(raters, 1, n)) \in SUBSET Rater /\ ToSet(raters) \in (SUBSET Rater) \ {{}}
  BY RatersAreListed
<1>4. WorldOK' /\ Recorded(log)'
  BY <1>2, SameLog
<1>5. PacketsOK' /\ CardsOK'
  BY <1>1, <1>2, <1>3, BlankCardsStay
<1>6. SequenceCardOK'
  <2>1. CASE BlankSequenceCard(ToSet(raters))
    BY <1>3, <2>1, BlankSequenceCardStays
  <2>2. CASE UNCHANGED sequenceCard
    <3>1. willing' = willing /\ key' = key
      BY <1>2, SameWorld
    <3>2. QED
      BY <2>2, <3>1 DEF Inv, SequenceCardOK
  <2>3. QED
    BY <1>1, <2>1, <2>2
<1>7. QED
  BY <1>4, <1>5, <1>6 DEF Inv

LEMMA FillCardInv ==
  ASSUME Inv, NEW r \in Rater, FillCard(r)
  PROVE  Inv'
<1>1. PICK p \in issued[r] : card' = [card EXCEPT ![r] = [packet |-> p, yes |-> Opinion(p, taste[r])]]
  BY DEF FillCard, Opinion
<1>2. UNCHANGED <<log, sequenceCard, key, issued, world>>
  BY DEF FillCard
<1>3. WorldOK' /\ Recorded(log)' /\ Extends(Record, log, log')
  BY <1>2, SameLog
<1>4. PacketsOK'
  BY <1>2, <1>3, PacketsStay
<1>5. taste' = taste /\ willing' = willing
  BY <1>2, SameWorld
<1>6. card = [q \in Rater |-> card[q]]
  BY DEF Inv, CardsOK
<1>7. card' = [q \in Rater |-> IF q = r THEN [packet |-> p, yes |-> Opinion(p, taste[r])] ELSE card[q]]
  BY <1>1, <1>6
<1>8. CardsOK'
  <2>1. ASSUME NEW q \in Rater
        PROVE  (card[q] = None \/ \E s \in issued[q] : \E yes \in {None, Opinion(s, taste[q])} :
                 card[q] = [packet |-> s, yes |-> yes])'
    <3>1. CASE q = r
      BY <1>2, <1>5, <1>7, <3>1 DEF Opinion, Codes
    <3>2. CASE q # r
      <4>1. card'[q] = card[q]
        BY <1>7, <3>2
      <4>2. QED
        BY <1>2, <1>5, <4>1 DEF Inv, CardsOK, Opinion, Codes
    <3>3. QED
      BY <3>1, <3>2
  <2>2. card' = [q \in Rater |-> card'[q]]
    BY <1>7
  <2>3. QED
    BY <2>1, <2>2 DEF CardsOK
<1>9. SequenceCardOK'
  BY <1>2, <1>5 DEF Inv, SequenceCardOK
<1>10. QED
  BY <1>3, <1>4, <1>8, <1>9 DEF Inv

LEMMA FillSequenceCardInv ==
  ASSUME Inv, FillSequenceCard
  PROVE  Inv'
<1>1. UNCHANGED <<log, card, key, issued, world>> /\ sequenceCard # None
      /\ sequenceCard' = [sequenceCard EXCEPT !.yes = willing \cap sequenceCard.raters]
  BY DEF FillSequenceCard
<1>2. WorldOK' /\ Recorded(log)' /\ Extends(Record, log, log')
  BY <1>1, SameLog
<1>3. PacketsOK'
  BY <1>1, <1>2, PacketsStay
<1>4. taste' = taste /\ willing' = willing
  BY <1>1, SameWorld
<1>5. CardsOK'
  BY <1>1, <1>4 DEF Inv, CardsOK, Opinion, Codes
<1>6. SequenceCardOK'
  <2>1. PICK raters \in (SUBSET Rater) \ {{}} :
          \E yes \in {None, willing \cap raters} : sequenceCard = [raters |-> raters, yes |-> yes]
    BY <1>1 DEF Inv, SequenceCardOK
  <2>2. sequenceCard' = [raters |-> raters, yes |-> willing \cap raters]
    BY <1>1, <2>1
  <2>3. [raters |-> raters, yes |-> willing \cap raters]
          \in [raters : SUBSET Rater, yes : (SUBSET Rater) \cup {None}]
    BY <2>1
  <2>4. sequenceCard' # None
    BY <2>2, <2>3, ReviewAssumption
  <2>5. QED
    BY <1>4, <2>2, <2>4 DEF SequenceCardOK
<1>7. QED
  BY <1>2, <1>3, <1>5, <1>6 DEF Inv

LEMMA StutterInv ==
  ASSUME Inv, UNCHANGED vars
  PROVE  Inv'
<1>1. UNCHANGED <<log, card, sequenceCard, key, issued, world>>
  BY DEF vars
<1>2. WorldOK' /\ Recorded(log)' /\ Extends(Record, log, log')
  BY <1>1, SameLog
<1>3. PacketsOK'
  BY <1>1, <1>2, PacketsStay
<1>4. taste' = taste /\ willing' = willing
  BY <1>1, SameWorld
<1>5. CardsOK' /\ SequenceCardOK'
  BY <1>1, <1>4 DEF Inv, CardsOK, SequenceCardOK, Opinion, Codes
<1>6. QED
  BY <1>2, <1>3, <1>5 DEF Inv

\* The log names attempts of shots once each; the key, and every packet a rater
\* was handed, is of the clips some beginning of the log had delivered; a filed
\* card is of such a packet and says what its rater thinks of those clips.
THEOREM InvAlways == Spec => []Inv
<1>1. Init => Inv
  BY InitInv
<1>2. Inv /\ [Next]_vars => Inv'
  <2> SUFFICES ASSUME Inv, [Next]_vars
               PROVE  Inv'
    OBVIOUS
  <2>1. ASSUME NEW batch \in Batches, Generate(batch)
        PROVE  Inv'
    BY <2>1, GenerateInv
  <2>2. ASSUME NEW raters \in RaterLists, Build(raters)
        PROVE  Inv'
    BY <2>2, BuildInv
  <2>3. ASSUME NEW raters \in RaterLists, BuildDies(raters)
        PROVE  Inv'
    BY <2>3, BuildDiesInv
  <2>4. ASSUME NEW r \in Rater, FillCard(r)
        PROVE  Inv'
    BY <2>4, FillCardInv
  <2>5. CASE FillSequenceCard
    BY <2>5, FillSequenceCardInv
  <2>6. CASE UNCHANGED vars
    BY <2>6, StutterInv
  <2>7. QED
    BY <2>1, <2>2, <2>3, <2>4, <2>5, <2>6 DEF Next
<1>3. QED
  BY <1>1, <1>2, PTL DEF Spec

-----------------------------------------------------------------------------
(* The arithmetic of the gates.                                            *)

LEMMA VotersAreFinite ==
  IsFiniteSet(Voters) /\ Cardinality(Voters) \in Nat /\ (Voters # {} => Cardinality(Voters) > 0)
<1>1. IsFiniteSet(Voters)
  BY GatesAssumption, FS_Subset DEF Voters, RatersOf
<1>2. Cardinality(Voters) \in Nat
  BY <1>1, FS_CardinalityType
<1>3. Voters # {} => Cardinality(Voters) # 0
  BY <1>1, FS_EmptySet
<1>4. QED
  BY <1>1, <1>2, <1>3

\* Three quarters of the set, rounded up, is 75 % of it.
LEMMA ThresholdIsThreeQuarters ==
  ASSUME WorldOK, NEW k \in Nat
  PROVE  k >= FirstPassThreshold <=> 100 * k >= 75 * Cardinality(ShotIds)
<1>1. PICK n \in 20..30 : n = Len(Shots) /\ n = Cardinality(ShotIds)
  BY ShotsAreListed, ShotIdsAreCounted
<1>2. k >= (3 * n + 3) \div 4 <=> 100 * k >= 75 * n
  <2>1. (3 * n + 3) \div 4 \in Int /\ 4 * ((3 * n + 3) \div 4) <= 3 * n + 3
        /\ 3 * n + 3 < 4 * ((3 * n + 3) \div 4) + 4
    OBVIOUS
  <2>2. PICK q \in Int : q = (3 * n + 3) \div 4
    BY <2>1
  <2>3. QED
    BY <2>1, <2>2
<1>3. QED
  BY <1>1, <1>2 DEF FirstPassThreshold

LEMMA AgreesIsTwoThirds ==
  ASSUME NEW all, IsFiniteSet(all), all # {}, NEW yes \in SUBSET all
  PROVE  Agrees(Cardinality(yes), Cardinality(all)) <=> TwoThirds(yes, all)
<1>1. Cardinality(all) \in Nat /\ Cardinality(all) # 0
  BY FS_CardinalityType, FS_EmptySet
<1>2. QED
  BY <1>1 DEF Agrees, TwoThirds

LEMMA RanksAreNumbers ==
  ASSUME WorldOK
  PROVE  \A i \in 1..Len(Shots) : series.shots[i].rank \in Nat
<1>1. DOMAIN series.shots = 1..Len(Shots)
  <2>1. DOMAIN Shots = DOMAIN series.shots
    BY DEF Shots, Ids
  <2>2. QED
    BY <2>1, ShotsAreListed
<1>2. \A i \in 1..Len(Shots) : series.shots[i] \in ToSet(series.shots)
  BY <1>1 DEF ToSet
<1>3. \A s \in ToSet(series.shots) : s.rank \in Nat
  <2>1. series \in Candidates
    BY DEF WorldOK
  <2>2. QED
    BY <2>1, ReviewAssumption
<1>4. QED
  BY <1>2, <1>3

LEMMA RanksAscend ==
  ASSUME WorldOK
  PROVE  \A i, j \in 1..Len(Shots) :
           i < j => /\ series.shots[i].rank \in Nat /\ series.shots[j].rank \in Nat
                    /\ series.shots[i].rank < series.shots[j].rank
<1>1. PICK m \in 20..30 : m = Len(Shots) /\ m = Len(series.shots)
  BY ShotsAreListed
<1>2. PICK rank : \A i \in 1..m : rank[i] = series.shots[i].rank
  <2> DEFINE rank == [i \in 1..m |-> series.shots[i].rank]
  <2>1. \A i \in 1..m : rank[i] = series.shots[i].rank
    OBVIOUS
  <2> HIDE DEF rank
  <2>2. QED
    BY <2>1
<1>3. \A i \in 2..m : rank[i] > rank[i - 1]
  <2>1. Ascending(series.shots)
    BY DEF WorldOK, Accepted
  <2>2. \A i \in 2..m : i \in 1..m /\ i - 1 \in 1..m
    OBVIOUS
  <2>3. QED
    BY <1>1, <1>2, <2>1, <2>2 DEF Ascending
<1>4. \A i \in 1..m : rank[i] \in Nat
  BY <1>1, <1>2, RanksAreNumbers
<1>5. \A i \in 1..m : \A j \in 1..m : i < j => rank[i] < rank[j]
  <2> SUFFICES ASSUME NEW i \in 1..m
               PROVE  \A j \in 1..m : i < j => rank[i] < rank[j]
    OBVIOUS
  <2> DEFINE Q == {j \in 0..m : i < j => rank[i] < rank[j]}
  <2>1. 0 \in Q
    OBVIOUS
  <2>2. ASSUME NEW j \in 1..m, j - 1 \in Q
        PROVE  j \in Q
    <3> SUFFICES ASSUME i < j
                 PROVE  rank[i] < rank[j]
      OBVIOUS
    <3>1. j \in 2..m /\ j - 1 \in 1..m
      OBVIOUS
    <3>2. rank[j - 1] < rank[j] /\ rank[j - 1] \in Nat /\ rank[j] \in Nat /\ rank[i] \in Nat
      BY <1>3, <1>4, <3>1
    <3>3. i = j - 1 \/ i < j - 1
      OBVIOUS
    <3>4. i < j - 1 => rank[i] < rank[j - 1]
      BY <2>2
    <3>5. QED
      BY <3>2, <3>3, <3>4
  <2>3. 0..m \subseteq Q
    <3>1. m \in Nat
      OBVIOUS
    <3> HIDE DEF Q
    <3>2. QED
      BY <2>1, <2>2, <3>1, UpTo
  <2>4. QED
    BY <2>3
<1>6. QED
  BY <1>1, <1>2, <1>4, <1>5

\* Since the schema refuses a list that is not in the order of ranks, sorting changes nothing.
LEMMA StoryOrderIsTheList ==
  ASSUME WorldOK
  PROVE  StoryOrder = Shots
<1>1. PICK m \in Nat : m = Len(Shots) /\ DOMAIN Shots = 1..m /\ DOMAIN series.shots = 1..m
  <2>1. PICK m \in 20..30 : m = Len(Shots)
    BY ShotsAreListed
  <2>2. m \in Nat /\ DOMAIN Shots = DOMAIN series.shots
    BY DEF Shots, Ids
  <2>3. DOMAIN Shots = 1..m
    BY <2>1, ShotsAreListed
  <2>4. QED
    BY <2>1, <2>2, <2>3
<1>2. PICK keys : keys = [i \in 1..m |-> series.shots[i].rank]
  OBVIOUS
<1>3. keys \in [1..m -> Nat] /\ \A i, j \in 1..m : i < j => keys[i] < keys[j]
  <2>1. \A i \in 1..m : keys[i] \in Nat
    BY <1>1, <1>2, RanksAreNumbers
  <2>2. \A i, j \in 1..m : i < j => keys[i] < keys[j]
    BY <1>1, <1>2, RanksAscend
  <2>3. QED
    BY <1>2, <2>1, <2>2
<1>4. \A n \in 1..m : Sorted(keys)[n] = n
  <2> SUFFICES ASSUME NEW n \in 1..m
               PROVE  Sorted(keys)[n] = n
    OBVIOUS
  <2>1. PICK k \in 1..m : k = Sorted(keys)[n] /\ Cardinality(Before(keys, k)) = n - 1
    BY <1>3, SortedPlaces
  <2>2. Before(keys, k) = 1..(k - 1)
    <3>1. ASSUME NEW j \in 1..m
          PROVE  (keys[j] < keys[k] \/ (keys[j] = keys[k] /\ j < k)) <=> j < k
      <4>1. keys[j] \in Nat /\ keys[k] \in Nat
        BY <1>3
      <4>2. (j < k => keys[j] < keys[k]) /\ (k < j => keys[k] < keys[j]) /\ (j < k \/ j = k \/ k < j)
        BY <1>3
      <4>3. QED
        BY <4>1, <4>2
    <3>2. Before(keys, k) = {j \in 1..m : j < k}
      BY <1>3, <3>1 DEF Before
    <3>3. QED
      BY <3>2
  <2>3. Cardinality(1..(k - 1)) = k - 1
    <3>1. Cardinality(1..(k - 1)) = IF 1 > k - 1 THEN 0 ELSE (k - 1) - 1 + 1
      BY FS_Interval
    <3>2. QED
      BY <3>1
  <2>4. QED
    BY <2>1, <2>2, <2>3
<1>5. StoryOrder = [n \in 1..m |-> Shots[Sorted(keys)[n]]]
  BY <1>1, <1>2 DEF StoryOrder
<1>6. StoryOrder = [n \in 1..m |-> Shots[n]]
  BY <1>4, <1>5
<1>7. Shots = [n \in 1..m |-> Shots[n]]
  BY <1>1 DEF Shots, Ids
<1>8. QED
  BY <1>6, <1>7

\* The shots whose rank is between those of two shots.
Between(first, last) == {s \in ToSet(series.shots) : s.rank \in first.rank..last.rank}

\* They are the ones listed between the two.
LEMMA BetweenIsListed ==
  ASSUME WorldOK, NEW i \in 1..Len(Shots), NEW k \in 1..Len(Shots)
  PROVE  /\ Between(series.shots[i], series.shots[k]) = {series.shots[j] : j \in i..k}
         /\ Cardinality(Between(series.shots[i], series.shots[k])) = IF i > k THEN 0 ELSE k - i + 1
<1>1. PICK m \in 20..30 : m = Len(Shots) /\ DOMAIN series.shots = 1..m
  <2>1. DOMAIN Shots = DOMAIN series.shots
    BY DEF Shots, Ids
  <2>2. QED
    BY <2>1, ShotsAreListed
<1>2. i \in 1..m /\ k \in 1..m
  BY <1>1
<1>3. PICK shots : shots = series.shots
  OBVIOUS
<1>4. ASSUME NEW j \in 1..m
      PROVE  shots[j].rank \in shots[i].rank..shots[k].rank <=> j \in i..k
  <2>1. PICK a \in Nat, b \in Nat, c \in Nat :
          a = shots[i].rank /\ b = shots[j].rank /\ c = shots[k].rank
    BY <1>1, <1>2, <1>3, RanksAreNumbers
  <2>2. (i < j => a < b) /\ (j < i => b < a) /\ (j < k => b < c) /\ (k < j => c < b)
    BY <1>1, <1>2, <1>3, <2>1, RanksAscend
  <2>3. (i = j => a = b) /\ (j = k => b = c)
    BY <2>1
  <2>4. b \in a..c <=> j \in i..k
    BY <1>2, <2>2, <2>3
  <2>5. QED
    BY <2>1, <2>4
<1>5. i..k \subseteq 1..m
  BY <1>2
<1>6. ToSet(shots) = {shots[j] : j \in 1..m}
  BY <1>1, <1>3 DEF ToSet
<1>7. Between(shots[i], shots[k]) = {shots[j] : j \in i..k}
  <2>1. \A j \in i..k : shots[j] \in Between(shots[i], shots[k])
    BY <1>3, <1>4, <1>5, <1>6 DEF Between
  <2>2. ASSUME NEW s \in Between(shots[i], shots[k])
        PROVE  \E j \in i..k : s = shots[j]
    <3>1. PICK j \in 1..m : s = shots[j]
      BY <1>3, <1>6 DEF Between
    <3>2. j \in i..k
      BY <1>4, <3>1 DEF Between
    <3>3. QED
      BY <3>1, <3>2
  <2>3. QED
    BY <2>1, <2>2
<1>8. Cardinality({shots[j] : j \in i..k}) = IF i > k THEN 0 ELSE k - i + 1
  <2>1. \A j, l \in 1..m : shots[j] = shots[l] => j = l
    <3>1. \A j \in 1..m : Shots[j] = shots[j].id
      BY <1>1, <1>3, ShotsAreListed
    <3>2. \A j, l \in 1..m : Shots[j] = Shots[l] => j = l
      BY <1>1, ShotsAreListed DEF IsInjective
    <3>3. QED
      BY <3>1, <3>2
  <2> DEFINE f == [j \in i..k |-> shots[j]]
  <2>2. f \in Bijection(i..k, {shots[j] : j \in i..k})
    BY <1>5, <2>1 DEF Bijection, Injection, Surjection, IsInjective
  <2>3. ExistsBijection(i..k, {shots[j] : j \in i..k})
    <3> HIDE DEF f
    <3>1. QED
      BY <2>2 DEF ExistsBijection
  <2>4. IsFiniteSet(i..k) /\ Cardinality(i..k) = IF i > k THEN 0 ELSE k - i + 1
    <3>1. i \in Int /\ k \in Int
      BY <1>2
    <3>2. QED
      BY <3>1, FS_Interval
  <2>5. Cardinality(i..k) = Cardinality({shots[j] : j \in i..k})
    BY <2>3, <2>4, FS_Bijection
  <2>6. QED
    BY <2>4, <2>5
<1>9. QED
  BY <1>3, <1>7, <1>8

\* The run of failures reaches three where three shots in a row have failed.
LEMMA RunsOfThree ==
  ASSUME WorldOK, NEW first
  PROVE  ThreeInARow(first) <=>
           \E i \in 1..(Len(Shots) - 2) : \A j \in i..(i + 2) : Shots[j] \notin first
<1>1. PICK m \in Nat : m = Len(Shots)
  <2>1. PICK m \in 20..30 : m = Len(Shots)
    BY ShotsAreListed
  <2>2. QED
    BY <2>1
<1>2. PICK order : order = StoryOrder /\ order = Shots
  BY StoryOrderIsTheList
<1> DEFINE step == [n \in 1..m |-> [v \in Nat |-> IF order[n] \in first THEN 0 ELSE v + 1]]
           Rec(f) == f = [i \in 0..m |->
                            IF i = 0 THEN 0 ELSE IF order[i] \in first THEN 0 ELSE f[i - 1] + 1]
           run == CHOOSE f : Rec(f)
<1>3. ThreeInARow(first) <=> \E i \in DOMAIN run : run[i] >= 3
  BY <1>1, <1>2 DEF ThreeInARow
<1>4. Steps(Nat, m, step)
  BY DEF Steps
<1>5. PICK f : Follows(Nat, 0, m, step, f)
  <2> HIDE DEF step
  <2>1. QED
    BY <1>4, Iteration
<1>6. Rec(f)
  <2>1. \A n \in 0..m : n # 0 => n \in 1..m
    OBVIOUS
  <2>2. \A n \in 1..m : f[n] = step[n][f[n - 1]] /\ f[n - 1] \in Nat
    <3> HIDE DEF step
    <3>1. \A n \in 1..m : n - 1 \in 0..m
      OBVIOUS
    <3>2. QED
      BY <1>5, <3>1 DEF Follows
  <2>3. \A n \in 1..m : \A v \in Nat : step[n][v] = IF order[n] \in first THEN 0 ELSE v + 1
    OBVIOUS
  <2> HIDE DEF step
  <2>4. \A n \in 1..m : f[n] = IF order[n] \in first THEN 0 ELSE f[n - 1] + 1
    BY <2>2, <2>3
  <2>5. f[0] = 0 /\ f = [n \in 0..m |-> f[n]]
    BY <1>5 DEF Follows
  <2>6. \A n \in 0..m : f[n] = IF n = 0 THEN 0 ELSE IF order[n] \in first THEN 0 ELSE f[n - 1] + 1
    BY <2>1, <2>4, <2>5
  <2>7. QED
    BY <2>5, <2>6
<1>7. Rec(run)
  BY <1>6
<1> HIDE DEF run
<1>8. /\ DOMAIN run = 0..m /\ run[0] = 0
      /\ \A n \in 1..m : run[n] = IF order[n] \in first THEN 0 ELSE run[n - 1] + 1
  <2>1. DOMAIN run = 0..m
    BY <1>7
  <2>2. \A n \in 0..m : run[n] = IF n = 0 THEN 0 ELSE IF order[n] \in first THEN 0 ELSE run[n - 1] + 1
    BY <1>7
  <2>3. 0 \in 0..m /\ \A n \in 1..m : n \in 0..m /\ n # 0
    OBVIOUS
  <2> HIDE DEF Rec
  <2>4. run[0] = 0
    BY <2>2, <2>3
  <2>5. \A n \in 1..m : run[n] = IF order[n] \in first THEN 0 ELSE run[n - 1] + 1
    BY <2>2, <2>3
  <2>6. QED
    BY <2>1, <2>4, <2>5
<1>9. \A n \in 0..m : run[n] \in Nat
  <2> DEFINE Q == {n \in 0..m : run[n] \in Nat}
  <2>1. 0 \in Q
    BY <1>8
  <2>2. \A n \in 1..m : n - 1 \in Q => n \in Q
    BY <1>8
  <2>3. 0..m \subseteq Q
    <3> HIDE DEF Q
    <3>1. QED
      BY <2>1, <2>2, UpTo
  <2>4. QED
    BY <2>3
<1> HIDE DEF Rec
<1>10. ASSUME NEW i \in 0..m, run[i] >= 3
       PROVE  i - 2 \in 1..(m - 2) /\ \A j \in (i - 2)..i : order[j] \notin first
  <2>1. i \in 1..m /\ order[i] \notin first /\ run[i - 1] >= 2
    <3>1. i # 0
      BY <1>8, <1>10
    <3>2. i \in 1..m /\ i - 1 \in 0..m
      BY <3>1
    <3>3. QED
      BY <1>8, <1>9, <1>10, <3>2
  <2>2. i - 1 \in 1..m /\ order[i - 1] \notin first /\ run[i - 2] >= 1
    <3>1. i - 1 # 0
      BY <1>8, <2>1
    <3>2. i - 1 \in 1..m /\ i - 2 \in 0..m /\ (i - 1) - 1 = i - 2
      BY <2>1, <3>1
    <3>3. QED
      BY <1>8, <1>9, <2>1, <3>2
  <2>3. i - 2 \in 1..m /\ order[i - 2] \notin first
    <3>1. i - 2 # 0
      BY <1>8, <2>2
    <3>2. i - 2 \in 1..m
      BY <2>2, <3>1
    <3>3. QED
      BY <1>8, <2>2, <3>2
  <2>4. \A j \in (i - 2)..i : j = i - 2 \/ j = i - 1 \/ j = i
    OBVIOUS
  <2>5. QED
    BY <2>1, <2>2, <2>3, <2>4
<1>11. ASSUME NEW i \in 1..(m - 2), \A j \in i..(i + 2) : order[j] \notin first
       PROVE  i + 2 \in 0..m /\ run[i + 2] >= 3
  <2>1. /\ order[i] \notin first /\ order[i + 1] \notin first /\ order[i + 2] \notin first
        /\ i \in 1..m /\ i + 1 \in 1..m /\ i + 2 \in 1..m /\ i - 1 \in 0..m
        /\ (i + 1) - 1 = i /\ (i + 2) - 1 = i + 1
    BY <1>11
  <2>2. run[i] = run[i - 1] + 1
    BY <1>8, <2>1
  <2>3. run[i + 1] = run[i] + 1
    BY <1>8, <2>1
  <2>4. run[i + 2] = run[i + 1] + 1
    BY <1>8, <2>1
  <2>5. QED
    BY <1>9, <2>1, <2>2, <2>3, <2>4
<1>12. ThreeInARow(first) <=> \E i \in 0..m : run[i] >= 3
  BY <1>3, <1>8
<1>13. (\E i \in 0..m : run[i] >= 3) <=> \E i \in 1..(m - 2) : \A j \in i..(i + 2) : order[j] \notin first
  <2>1. ASSUME NEW i \in 0..m, run[i] >= 3
        PROVE  \E k \in 1..(m - 2) : \A j \in k..(k + 2) : order[j] \notin first
    <3>1. PICK k \in 1..(m - 2) : k = i - 2
      BY <1>10, <2>1
    <3>2. k + 2 = i
      BY <3>1
    <3>3. QED
      BY <1>10, <2>1, <3>1, <3>2
  <2>2. QED
    BY <1>11, <2>1
<1>14. QED
  BY <1>1, <1>2, <1>12, <1>13

\* Three in a row are the shots of three consecutive ranks.
LEMMA ThreeConsecutiveRanks ==
  ASSUME WorldOK, NEW first
  PROVE  ThreeInARow(first) <=>
           ~(\A a, c \in ToSet(series.shots) :
               Cardinality(Between(a, c)) = 3 => \E s \in Between(a, c) : s.id \in first)
<1>1. PICK m \in 20..30 : m = Len(Shots) /\ DOMAIN series.shots = 1..m
  <2>1. DOMAIN Shots = DOMAIN series.shots
    BY DEF Shots, Ids
  <2>2. QED
    BY <2>1, ShotsAreListed
<1>2. PICK shots : shots = series.shots /\ ToSet(series.shots) = {shots[j] : j \in 1..m}
  BY <1>1 DEF ToSet
<1>3. \A j \in 1..m : Shots[j] = shots[j].id
  BY <1>1, <1>2, ShotsAreListed
<1>4. ASSUME NEW i \in 1..m, NEW k \in 1..m
      PROVE  /\ Between(shots[i], shots[k]) = {shots[j] : j \in i..k}
             /\ Cardinality(Between(shots[i], shots[k])) = IF i > k THEN 0 ELSE k - i + 1
  <2>1. shots = series.shots /\ i \in 1..Len(Shots) /\ k \in 1..Len(Shots)
    BY <1>1, <1>2
  <2>2. /\ Between(series.shots[i], series.shots[k]) = {series.shots[j] : j \in i..k}
        /\ Cardinality(Between(series.shots[i], series.shots[k])) = IF i > k THEN 0 ELSE k - i + 1
    BY <2>1, BetweenIsListed
  <2>3. QED
    BY <2>1, <2>2
<1>5. ASSUME NEW i \in 1..(m - 2), \A j \in i..(i + 2) : Shots[j] \notin first
      PROVE  \E a, c \in ToSet(series.shots) :
               Cardinality(Between(a, c)) = 3 /\ \A s \in Between(a, c) : s.id \notin first
  <2>1. i \in 1..m /\ i + 2 \in 1..m /\ i..(i + 2) \subseteq 1..m
    OBVIOUS
  <2>2. Cardinality(Between(shots[i], shots[i + 2])) = 3
    <3>1. Cardinality(Between(shots[i], shots[i + 2])) = IF i > i + 2 THEN 0 ELSE (i + 2) - i + 1
      BY <1>4, <2>1
    <3>2. QED
      BY <3>1
  <2>3. ASSUME NEW s \in Between(shots[i], shots[i + 2])
        PROVE  s.id \notin first
    <3>1. Between(shots[i], shots[i + 2]) = {shots[j] : j \in i..(i + 2)}
      BY <1>4, <2>1
    <3>2. PICK j \in i..(i + 2) : s = shots[j]
      BY <3>1
    <3>3. s.id = Shots[j]
      BY <1>3, <2>1, <3>2
    <3>4. QED
      BY <1>5, <3>3
  <2>4. shots[i] \in ToSet(series.shots) /\ shots[i + 2] \in ToSet(series.shots)
    BY <1>2, <2>1
  <2>5. QED
    BY <2>2, <2>3, <2>4
<1>6. ASSUME NEW a \in ToSet(series.shots), NEW c \in ToSet(series.shots),
             Cardinality(Between(a, c)) = 3, \A s \in Between(a, c) : s.id \notin first
      PROVE  \E i \in 1..(m - 2) : \A j \in i..(i + 2) : Shots[j] \notin first
  <2>1. PICK i \in 1..m, k \in 1..m : a = shots[i] /\ c = shots[k]
    BY <1>2
  <2>2. 3 = IF i > k THEN 0 ELSE k - i + 1
    BY <1>4, <1>6, <2>1
  <2>3. k = i + 2 /\ i \in 1..(m - 2) /\ i..(i + 2) \subseteq 1..m
    BY <2>2
  <2>4. ASSUME NEW j \in i..(i + 2)
        PROVE  shots[j].id \notin first
    <3>1. Between(shots[i], shots[k]) = {shots[l] : l \in i..k}
      BY <1>4
    <3>2. shots[j] \in Between(shots[i], shots[k])
      BY <2>3, <3>1
    <3>3. QED
      BY <1>6, <2>1, <3>2
  <2>5. QED
    BY <1>3, <2>3, <2>4
<1>7. ThreeInARow(first) <=>
        \E i \in 1..(m - 2) : \A j \in i..(i + 2) : Shots[j] \notin first
  BY <1>1, RunsOfThree
<1>8. QED
  BY <1>5, <1>6, <1>7

\* Most of the shots of a scene failed, or they did not.
LEMMA ScenesByMajority ==
  ASSUME WorldOK, NEW first \in SUBSET ShotIds
  PROVE  (\E scene \in ToSet(series.scenes) :
            LET shots == {s.id : s \in ShotsOfScene(series, scene)}
            IN  2 * Cardinality(shots \ first) > Cardinality(shots))
         <=> ~(\A scene \in {s.scene : s \in ToSet(series.shots)} :
                 LET shots == {s.id : s \in ShotsOfScene(series, scene)}
                     failed == {s \in shots : s \notin first}
                 IN Cardinality(failed) <= Cardinality(shots \ failed))
<1> DEFINE ids(scene) == {s.id : s \in ShotsOfScene(series, scene)}
<1>1. ASSUME NEW scene
      PROVE  /\ IsFiniteSet(ids(scene))
             /\ Cardinality(ids(scene) \ first) \in Nat
             /\ Cardinality(ids(scene) \cap first) \in Nat
             /\ Cardinality(ids(scene)) =
                  Cardinality(ids(scene) \ first) + Cardinality(ids(scene) \cap first)
  <2>1. ids(scene) \subseteq ShotIds
    <3>1. ASSUME NEW s \in ToSet(series.shots)
          PROVE  s.id \in ShotIds
      <4>1. PICK i \in DOMAIN series.shots : s = series.shots[i]
        BY <3>1 DEF ToSet
      <4>2. DOMAIN Shots = DOMAIN series.shots /\ Shots[i] = s.id
        BY <4>1 DEF Shots, Ids
      <4>3. QED
        BY <4>1, <4>2 DEF ShotIds, ToSet
    <3>2. QED
      BY <3>1 DEF ShotsOfScene
  <2> HIDE DEF ids
  <2>2. IsFiniteSet(ids(scene))
    BY <2>1, ShotIdsAreCounted, FS_Subset
  <2>3. IsFiniteSet(ids(scene) \ first) /\ IsFiniteSet(ids(scene) \cap first)
    BY <2>2, FS_Subset
  <2>4. Cardinality(ids(scene) \ first) = Cardinality(ids(scene)) - Cardinality(ids(scene) \cap first)
    BY <2>2, FS_Difference
  <2>5. /\ Cardinality(ids(scene)) \in Nat /\ Cardinality(ids(scene) \ first) \in Nat
        /\ Cardinality(ids(scene) \cap first) \in Nat
    BY <2>2, <2>3, FS_CardinalityType
  <2>6. QED
    BY <2>2, <2>4, <2>5
<1>2. ASSUME NEW scene
      PROVE  (2 * Cardinality(ids(scene) \ first) > Cardinality(ids(scene)))
             <=> Cardinality(ids(scene) \ first) > Cardinality(ids(scene) \cap first)
  <2>1. PICK a \in Nat, b \in Nat :
          /\ a = Cardinality(ids(scene) \ first) /\ b = Cardinality(ids(scene) \cap first)
          /\ Cardinality(ids(scene)) = a + b
    BY <1>1
  <2> HIDE DEF ids
  <2>2. QED
    BY <2>1
<1>3. ASSUME NEW scene
      PROVE  LET failed == {s \in ids(scene) : s \notin first}
             IN  failed = ids(scene) \ first /\ ids(scene) \ failed = ids(scene) \cap first
  BY Zenon
<1>4. {s.scene : s \in ToSet(series.shots)} \subseteq ToSet(series.scenes)
  BY DEF WorldOK, Accepted, WellFormed
<1>5. ASSUME NEW scene, Cardinality(ids(scene) \ first) > Cardinality(ids(scene) \cap first)
      PROVE  scene \in {s.scene : s \in ToSet(series.shots)}
  <2>1. Cardinality(ids(scene) \ first) # 0
    <3>1. PICK a \in Nat, b \in Nat :
            a = Cardinality(ids(scene) \ first) /\ b = Cardinality(ids(scene) \cap first)
      BY <1>1
    <3> HIDE DEF ids
    <3>2. QED
      BY <1>5, <3>1
  <2>2. ids(scene) \ first # {}
    BY <2>1, FS_EmptySet
  <2>3. ShotsOfScene(series, scene) # {}
    BY <2>2
  <2>4. QED
    BY <2>3 DEF ShotsOfScene
<1>6. (\E scene \in ToSet(series.scenes) : 2 * Cardinality(ids(scene) \ first) > Cardinality(ids(scene)))
      <=> \E scene \in {s.scene : s \in ToSet(series.shots)} :
            Cardinality(ids(scene) \ first) > Cardinality(ids(scene) \cap first)
  <2> HIDE DEF ids
  <2>1. QED
    BY <1>2, <1>4, <1>5
<1>7. \A scene : (Cardinality(ids(scene) \ first) > Cardinality(ids(scene) \cap first))
                 <=> ~(Cardinality(ids(scene) \ first) <= Cardinality(ids(scene) \cap first))
  <2> SUFFICES ASSUME NEW scene
               PROVE  (Cardinality(ids(scene) \ first) > Cardinality(ids(scene) \cap first))
                      <=> ~(Cardinality(ids(scene) \ first) <= Cardinality(ids(scene) \cap first))
    OBVIOUS
  <2>1. PICK a \in Nat, b \in Nat :
          a = Cardinality(ids(scene) \ first) /\ b = Cardinality(ids(scene) \cap first)
    BY <1>1
  <2> HIDE DEF ids
  <2>2. QED
    BY <2>1
<1>8. QED
  BY <1>3, <1>6, <1>7, Zenon

-----------------------------------------------------------------------------
(* Cards that are all of the packet the key describes.                     *)

\* Every voter has filed their opinion of the clips delivered so far.
Agreed ==
  /\ key = Packet /\ Voters # {}
  /\ \A r \in Voters : card[r] = [packet |-> Packet, yes |-> Opinion(Packet, taste[r])]
  /\ \E raters \in (SUBSET Rater) \ {{}} :
       sequenceCard = [raters |-> raters, yes |-> willing \cap raters]

LEMMA ReadableCards ==
  ASSUME Inv, Scored # "refused"
  PROVE  /\ key # None /\ AsBuilt(key) /\ Voters # {}
         /\ \A r \in Voters : \E p \in issued[r] :
              AsBuilt(p) /\ card[r] = [packet |-> p, yes |-> Opinion(p, taste[r])]
         /\ \A r, q \in Voters : Codes(card[r].packet) = Codes(card[q].packet)
         /\ \A r \in Voters : Codes(card[r].packet) \subseteq Codes(key)
         /\ \E raters \in (SUBSET Rater) \ {{}} :
              sequenceCard = [raters |-> raters, yes |-> willing \cap raters]
<1>1. key # None /\ Scored = Verdict(key, card, sequenceCard)
  BY DEF Scored
<1>2. ~Refused(key, card, sequenceCard)
  BY <1>1 DEF Verdict
<1>3. /\ Voters # {} /\ \A r \in Voters : card[r].yes # None
      /\ \A r, q \in Voters : Codes(card[r].packet) = Codes(card[q].packet)
      /\ \A r \in Voters : Codes(card[r].packet) \subseteq Codes(key)
      /\ sequenceCard.yes # None
  BY <1>2 DEF Refused, Readable, Voters
<1>4. ASSUME NEW r \in Voters
      PROVE  \E p \in issued[r] :
               AsBuilt(p) /\ card[r] = [packet |-> p, yes |-> Opinion(p, taste[r])]
  <2>1. r \in Rater /\ card[r] # None
    BY DEF Voters, RatersOf
  <2>2. PICK p \in issued[r] : \E yes \in {None, Opinion(p, taste[r])} :
          card[r] = [packet |-> p, yes |-> yes]
    BY <2>1 DEF Inv, CardsOK
  <2>3. card[r] = [packet |-> p, yes |-> Opinion(p, taste[r])]
    BY <1>3, <2>2
  <2>4. AsBuilt(p)
    BY <2>1 DEF Inv, PacketsOK
  <2>5. QED
    BY <2>3, <2>4
<1>5. \E raters \in (SUBSET Rater) \ {{}} :
        sequenceCard = [raters |-> raters, yes |-> willing \cap raters]
  BY <1>1, <1>3 DEF Inv, SequenceCardOK
<1>6. QED
  BY <1>1, <1>3, <1>4, <1>5 DEF Inv, PacketsOK

LEMMA AgreedCards ==
  ASSUME Agreed, NEW r \in Voters
  PROVE  card[r].packet = Packet /\ card[r].yes = Opinion(Packet, taste[r])
<1>1. card[r] = [packet |-> Packet, yes |-> Opinion(Packet, taste[r])]
  BY DEF Agreed
<1>2. QED
  BY <1>1

LEMMA CardsOfTheKeyAgree ==
  ASSUME Inv, key = Packet, Scored # "refused", \A r \in Voters : card[r].packet = key
  PROVE  Agreed
<1>1. \A r \in Voters : card[r] = [packet |-> Packet, yes |-> Opinion(Packet, taste[r])]
  <2> SUFFICES ASSUME NEW r \in Voters
               PROVE  card[r] = [packet |-> Packet, yes |-> Opinion(Packet, taste[r])]
    OBVIOUS
  <2>1. PICK p \in issued[r] : card[r] = [packet |-> p, yes |-> Opinion(p, taste[r])]
    BY ReadableCards
  <2>2. card[r].packet = p
    BY <2>1
  <2>3. p = Packet
    BY <2>2
  <2>4. QED
    BY <2>1, <2>3
<1>2. QED
  BY <1>1, ReadableCards DEF Agreed

\* The packet has the delivered clips, each once.
LEMMA PacketOfTheRun ==
  ASSUME WorldOK, Recorded(log)
  PROVE  /\ Codes(Packet) = 1..Len(Delivered) /\ Len(Delivered) \in Nat
         /\ \A c \in Codes(Packet) : \E r \in ToSet(log) : r.delivered /\ Packet[c] = Clip(r)
         /\ \A r \in ToSet(log) : r.delivered => \E c \in Codes(Packet) : Packet[c] = Clip(r)
<1>1. OneEach(Delivered) /\ ToSet(Delivered) = {r \in ToSet(log) : r.delivered}
  BY DeliveredOnce
<1>2. PICK m \in Nat : m = Len(Delivered) /\ DOMAIN Delivered = 1..m
  BY <1>1 DEF OneEach
<1>3. /\ DOMAIN Packet = 1..m
      /\ \A c \in 1..m : \E i \in 1..m : Packet[c] = Clip(Delivered[i])
      /\ \A i \in 1..m : \E c \in 1..m : Packet[c] = Clip(Delivered[i])
  BY <1>1, <1>2, PacketsList DEF Packet
<1>4. ToSet(Delivered) = {Delivered[i] : i \in 1..m}
  BY <1>2 DEF ToSet
<1>5. ASSUME NEW c \in 1..m
      PROVE  \E r \in ToSet(log) : r.delivered /\ Packet[c] = Clip(r)
  <2>1. PICK i \in 1..m : Packet[c] = Clip(Delivered[i])
    BY <1>3
  <2>2. Delivered[i] \in {r \in ToSet(log) : r.delivered}
    BY <1>1, <1>4
  <2>3. QED
    BY <2>1, <2>2
<1>6. ASSUME NEW r \in ToSet(log), r.delivered
      PROVE  \E c \in 1..m : Packet[c] = Clip(r)
  <2>1. r \in ToSet(Delivered)
    BY <1>1, <1>6
  <2>2. PICK i \in 1..m : r = Delivered[i]
    BY <1>4, <2>1
  <2>3. QED
    BY <1>3, <2>2
<1>7. QED
  BY <1>2, <1>3, <1>5, <1>6 DEF Codes

\* The codes that pass are those of clips that two thirds of the voters like.
LEMMA PassedCodes ==
  ASSUME Inv, Agreed
  PROVE  Passed(card) =
           {c \in Codes(Packet) : TwoThirds({r \in Voters : Packet[c].shot \in taste[r]}, Voters)}
<1>1. \A r \in Voters : card[r].packet = Packet /\ card[r].yes = Opinion(Packet, taste[r])
  BY AgreedCards
<1>2. UNION {Codes(card[r].packet) : r \in Voters} = Codes(Packet)
  BY <1>1 DEF Agreed
<1>3. ASSUME NEW c \in Codes(Packet)
      PROVE  LET votes == {r \in Voters : c \in Codes(card[r].packet)} IN
             Agrees(Cardinality({r \in votes : c \in card[r].yes}), Cardinality(votes))
             <=> TwoThirds({r \in Voters : Packet[c].shot \in taste[r]}, Voters)
  <2> DEFINE votes == {r \in Voters : c \in Codes(card[r].packet)}
             yes == {r \in Voters : Packet[c].shot \in taste[r]}
  <2>1. votes = Voters
    BY <1>1
  <2>2. {r \in votes : c \in card[r].yes} = yes
    BY <1>1, <2>1 DEF Opinion
  <2>3. Agrees(Cardinality(yes), Cardinality(Voters)) <=> TwoThirds(yes, Voters)
    <3>1. IsFiniteSet(Voters) /\ Voters # {} /\ yes \in SUBSET Voters
      BY VotersAreFinite DEF Agreed
    <3> HIDE DEF yes
    <3>2. QED
      BY <3>1, AgreesIsTwoThirds
  <2>4. QED
    BY <2>1, <2>2, <2>3, Zenon
<1>4. QED
  BY <1>2, <1>3 DEF Passed, Voters

LEMMA GatesLookAtTheClips ==
  ASSUME Inv, Agreed
  PROVE  /\ FirstPass(key, card) = {s \in ShotIds : PublishableFirst(s)}
         /\ Unresolved(key, card) = {s \in ShotIds : ~Publishable(s)}
<1> DEFINE Liked(s) == TwoThirds({r \in Voters : s \in taste[r]}, Voters)
<1>1. WorldOK /\ Recorded(log) /\ key = Packet
  BY DEF Inv, Agreed
<1>2. Passed(card) = {c \in Codes(Packet) : Liked(Packet[c].shot)}
  BY PassedCodes
<1>3. \A s : Publishable(s) <=> (\E r \in ToSet(log) : r.shot = s /\ r.delivered) /\ Liked(s)
  BY DEF Publishable, AttemptsOf
<1>4. \A s : PublishableFirst(s) <=>
               Publishable(s) /\ \E r \in ToSet(log) : r.shot = s /\ r.delivered /\ r.attempt = 1
  BY DEF PublishableFirst, AttemptsOf
<1> HIDE DEF Liked
<1>5. ASSUME NEW s \in ShotIds
      PROVE  s \in {Packet[c].shot : c \in Passed(card)} <=> Publishable(s)
  <2>1. ASSUME NEW c \in Passed(card), Packet[c].shot = s
        PROVE  Publishable(s)
    <3>1. c \in Codes(Packet) /\ Liked(s)
      BY <1>2, <2>1
    <3>2. PICK r \in ToSet(log) : r.delivered /\ Packet[c] = Clip(r)
      BY <1>1, <3>1, PacketOfTheRun
    <3>3. r.shot = s
      BY <2>1, <3>2 DEF Clip
    <3>4. QED
      BY <1>3, <3>1, <3>2, <3>3
  <2>2. ASSUME Publishable(s)
        PROVE  \E c \in Passed(card) : Packet[c].shot = s
    <3>1. PICK r \in ToSet(log) : r.shot = s /\ r.delivered
      BY <1>3, <2>2
    <3>2. PICK c \in Codes(Packet) : Packet[c] = Clip(r)
      BY <1>1, <3>1, PacketOfTheRun
    <3>3. Packet[c].shot = s
      BY <3>1, <3>2 DEF Clip
    <3>4. c \in Passed(card)
      BY <1>2, <1>3, <2>2, <3>3
    <3>5. QED
      BY <3>3, <3>4
  <2>3. QED
    BY <2>1, <2>2
<1>6. ASSUME NEW s \in ShotIds
      PROVE  [shot |-> s, attempt |-> 1] \in {Packet[c] : c \in Passed(card)} <=> PublishableFirst(s)
  <2>1. ASSUME NEW c \in Passed(card), Packet[c] = [shot |-> s, attempt |-> 1]
        PROVE  PublishableFirst(s)
    <3>1. c \in Codes(Packet) /\ Packet[c].shot = s
      BY <1>2, <2>1
    <3>2. PICK r \in ToSet(log) : r.delivered /\ Packet[c] = Clip(r)
      BY <1>1, <3>1, PacketOfTheRun
    <3>3. r.shot = s /\ r.attempt = 1
      BY <2>1, <3>2 DEF Clip
    <3>4. Publishable(s)
      BY <1>5, <2>1, <3>1
    <3>5. QED
      BY <1>4, <3>2, <3>3, <3>4
  <2>2. ASSUME PublishableFirst(s)
        PROVE  \E c \in Passed(card) : Packet[c] = [shot |-> s, attempt |-> 1]
    <3>1. PICK r \in ToSet(log) : r.shot = s /\ r.delivered /\ r.attempt = 1
      BY <1>4, <2>2
    <3>2. PICK c \in Codes(Packet) : Packet[c] = Clip(r)
      BY <1>1, <3>1, PacketOfTheRun
    <3>3. Packet[c] = [shot |-> s, attempt |-> 1] /\ Packet[c].shot = s
      BY <3>1, <3>2 DEF Clip
    <3>4. c \in Passed(card)
      BY <1>2, <1>3, <1>4, <2>2, <3>3
    <3>5. QED
      BY <3>3, <3>4
  <2>3. QED
    BY <2>1, <2>2
<1>7. FirstPass(key, card) = {s \in ShotIds : PublishableFirst(s)}
  BY <1>1, <1>6 DEF FirstPass
<1>8. Unresolved(key, card) = {s \in ShotIds : ~Publishable(s)}
  BY <1>1, <1>5 DEF Unresolved
<1>9. QED
  BY <1>7, <1>8

\* A fifth of the samples is a fifth of the clips.
LEMMA MiscalibratedIs ==
  ASSUME Inv, Agreed
  PROVE  Miscalibrated(card) <=> Uncalibrated
<1>1. ASSUME NEW r \in Voters, NEW q \in Voters
      PROVE  5 * Cardinality(Differed(card, r, q)) > Cardinality(Codes(card[r].packet))
             <=> 100 * Cardinality({c \in Codes(key) : (key[c].shot \in taste[r]) # (key[c].shot \in taste[q])})
                   > 20 * Cardinality(Codes(key))
  <2>1. /\ card[r].packet = Packet /\ card[r].yes = Opinion(Packet, taste[r])
        /\ card[q].yes = Opinion(Packet, taste[q]) /\ key = Packet
    BY AgreedCards DEF Agreed
  <2>2. Differed(card, r, q) =
          {c \in Codes(key) : (key[c].shot \in taste[r]) # (key[c].shot \in taste[q])}
    <3>1. \A c : c \in card[r].yes <=> c \in Codes(key) /\ key[c].shot \in taste[r]
      BY <2>1 DEF Opinion
    <3>2. \A c : c \in card[q].yes <=> c \in Codes(key) /\ key[c].shot \in taste[q]
      BY <2>1 DEF Opinion
    <3>3. \A c : c \in Differed(card, r, q) <=>
                 c \in Codes(key) /\ (key[c].shot \in taste[r]) # (key[c].shot \in taste[q])
      BY <3>1, <3>2 DEF Differed
    <3>4. QED
      BY <3>3
  <2>3. IsFiniteSet(Codes(Packet)) /\ Cardinality(Codes(Packet)) \in Nat
    <3>1. Codes(Packet) = 1..Len(Delivered) /\ Len(Delivered) \in Nat
      BY PacketOfTheRun DEF Inv
    <3>2. IsFiniteSet(Codes(Packet))
      BY <3>1, FS_Interval
    <3>3. QED
      BY <3>2, FS_CardinalityType
  <2>4. Differed(card, r, q) \subseteq Codes(Packet)
    BY <2>1, <2>2
  <2>5. Cardinality(Differed(card, r, q)) \in Nat
    BY <2>3, <2>4, FS_Subset, FS_CardinalityType
  <2>6. PICK d \in Nat, n \in Nat :
          d = Cardinality(Differed(card, r, q)) /\ n = Cardinality(Codes(Packet))
    BY <2>3, <2>5
  <2>7. 5 * d > n <=> 100 * d > 20 * n
    OBVIOUS
  <2>8. QED
    BY <2>1, <2>2, <2>6, <2>7
<1>2. QED
  BY <1>1 DEF Miscalibrated, Uncalibrated, Voters

LEMMA OutcomesAreEarned ==
  ASSUME Inv, Agreed
  PROVE  GateOutcomes(key, card, sequenceCard) = Earned
<1> DEFINE first == {s \in ShotIds : PublishableFirst(s)}
<1>1. FirstPass(key, card) = first /\ Unresolved(key, card) = {s \in ShotIds : ~Publishable(s)}
  BY GatesLookAtTheClips
<1>2. WorldOK
  BY DEF Inv
<1>3. first \in SUBSET ShotIds /\ Cardinality(first) \in Nat
  <2>1. first \subseteq ShotIds
    OBVIOUS
  <2> HIDE DEF first
  <2>2. IsFiniteSet(first)
    BY <1>2, <2>1, ShotIdsAreCounted, FS_Subset
  <2>3. QED
    BY <2>1, <2>2, FS_CardinalityType
<1>4. Cardinality(first) >= FirstPassThreshold <=> 100 * Cardinality(first) >= 75 * Cardinality(ShotIds)
  <2> HIDE DEF first
  <2>1. QED
    BY <1>2, <1>3, ThresholdIsThreeQuarters
<1>5. Unresolved(key, card) = {} <=> \A s \in ShotIds : Publishable(s)
  BY <1>1
<1>6. ~ThreeInARow(first) <=>
        \A a, c \in ToSet(series.shots) :
          Cardinality(Between(a, c)) = 3 => \E s \in Between(a, c) : s.id \in first
  <2> HIDE DEF first
  <2>1. QED
    BY <1>2, ThreeConsecutiveRanks
<1>7. ~ThreeInARow(first) <=>
        \A a, c \in ToSet(series.shots) :
          Cardinality(Between(a, c)) = 3 => \E s \in Between(a, c) : PublishableFirst(s.id)
  <2>1. \A s \in ToSet(series.shots) : s.id \in ShotIds
    <3>1. DOMAIN Shots = DOMAIN series.shots /\ \A i \in DOMAIN Shots : Shots[i] = series.shots[i].id
      BY DEF Shots, Ids
    <3>2. QED
      BY <3>1 DEF ShotIds, ToSet
  <2>2. \A a, c : \A s \in Between(a, c) : s.id \in first <=> PublishableFirst(s.id)
    BY <2>1 DEF Between
  <2> HIDE DEF first
  <2>3. QED
    BY <1>6, <2>2
<1>8. (\E scene \in ToSet(series.scenes) :
          LET shots == {s.id : s \in ShotsOfScene(series, scene)}
          IN  2 * Cardinality(shots \ first) > Cardinality(shots))
      <=> ~(\A scene \in {s.scene : s \in ToSet(series.shots)} :
              LET shots == {s.id : s \in ShotsOfScene(series, scene)}
                  failed == {s \in shots : ~PublishableFirst(s)}
              IN Cardinality(failed) <= Cardinality(shots \ failed))
  <2>1. ASSUME NEW scene
        PROVE  LET shots == {s.id : s \in ShotsOfScene(series, scene)}
               IN  {s \in shots : s \notin first} = {s \in shots : ~PublishableFirst(s)}
    <3>1. \A s \in ToSet(series.shots) : s.id \in ShotIds
      <4>1. SUFFICES ASSUME NEW i \in DOMAIN series.shots
                     PROVE  series.shots[i].id \in ShotIds
        BY DEF ToSet
      <4>2. DOMAIN Shots = DOMAIN series.shots /\ Shots[i] = series.shots[i].id
        BY DEF Shots, Ids
      <4>3. QED
        BY <4>2 DEF ShotIds, ToSet
    <3>2. \A s \in {s.id : s \in ShotsOfScene(series, scene)} : s \in ShotIds
      BY <3>1 DEF ShotsOfScene
    <3>3. QED
      BY <3>2
  <2> HIDE DEF first
  <2>2. QED
    BY <1>2, <1>3, <2>1, ScenesByMajority
<1>9. ~Clustered(first) <=> Earned.C
  <2> HIDE DEF first
  <2>1. QED
    BY <1>7, <1>8, Zenon DEF Clustered, Earned, Between
<1>10. Agrees(Cardinality(sequenceCard.yes), Cardinality(sequenceCard.raters)) <=> Earned.D
  <2>1. PICK raters \in (SUBSET Rater) \ {{}} :
          sequenceCard = [raters |-> raters, yes |-> willing \cap raters]
    BY DEF Agreed
  <2>2. sequenceCard # None
    <3>1. [raters |-> raters, yes |-> willing \cap raters]
            \in [raters : SUBSET Rater, yes : (SUBSET Rater) \cup {None}]
      BY <2>1
    <3>2. QED
      BY <2>1, <3>1, ReviewAssumption
  <2>3. IsFiniteSet(raters)
    BY GatesAssumption, FS_Subset
  <2>4. Agrees(Cardinality(willing \cap raters), Cardinality(raters))
        <=> TwoThirds(willing \cap raters, raters)
    BY <2>3, AgreesIsTwoThirds
  <2>5. QED
    BY <2>1, <2>2, <2>4 DEF Earned
<1>11. GateOutcomes(key, card, sequenceCard) =
         [A |-> Cardinality(first) >= FirstPassThreshold, B |-> Unresolved(key, card) = {},
          C |-> ~Clustered(first),
          D |-> Agrees(Cardinality(sequenceCard.yes), Cardinality(sequenceCard.raters))]
  <2> HIDE DEF first
  <2>1. QED
    BY <1>1 DEF GateOutcomes
<1>12. Earned.A <=> 100 * Cardinality(first) >= 75 * Cardinality(ShotIds)
  BY DEF Earned
<1>13. Earned.B <=> \A s \in ShotIds : Publishable(s)
  BY DEF Earned
<1>14. Earned = [A |-> Earned.A, B |-> Earned.B, C |-> Earned.C, D |-> Earned.D]
  BY DEF Earned
<1>15. /\ Earned.A \in BOOLEAN /\ Earned.B \in BOOLEAN /\ Earned.C \in BOOLEAN
       /\ Earned.D \in BOOLEAN
  BY DEF Earned
<1>16. QED
  <2> HIDE DEF first
  <2>1. (Cardinality(first) >= FirstPassThreshold) = Earned.A
    BY <1>4, <1>12, <1>15
  <2>2. (Unresolved(key, card) = {}) = Earned.B
    BY <1>5, <1>13, <1>15
  <2>3. (~Clustered(first)) = Earned.C
    BY <1>9, <1>15
  <2>4. Agrees(Cardinality(sequenceCard.yes), Cardinality(sequenceCard.raters)) = Earned.D
    BY <1>10, <1>15 DEF Agrees
  <2>5. QED
    BY <1>11, <1>14, <2>1, <2>2, <2>3, <2>4, Zenon

-----------------------------------------------------------------------------
(* The gates.                                                              *)

\* What the score says is what the cards and the sequence card make of it.
LEMMA ScoreOfAgreed ==
  ASSUME Inv, Agreed, Scored # "refused", Cardinality(Voters) >= 3
  PROVE  /\ Scored = "invalid_scorecard" <=> Uncalibrated
         /\ Scored = "passed" => \A g \in DOMAIN Earned : Earned[g]
<1>1. Scored = Verdict(key, card, sequenceCard) /\ ~Refused(key, card, sequenceCard)
  BY DEF Scored, Verdict
<1>2. ~(Cardinality(Voters) < 3)
  BY VotersAreFinite
<1>3. PICK outcomes : outcomes = GateOutcomes(key, card, sequenceCard)
  OBVIOUS
<1>4. Scored = IF Uncalibrated THEN "invalid_scorecard"
               ELSE IF \A g \in DOMAIN outcomes : outcomes[g] THEN "passed" ELSE "failed"
  BY <1>1, <1>2, <1>3, MiscalibratedIs DEF Verdict, Voters
<1>5. Scored = "invalid_scorecard" <=> Uncalibrated
  BY <1>4
<1>6. Scored = "passed" => \A g \in DOMAIN outcomes : outcomes[g]
  BY <1>4
<1>7. outcomes = Earned
  BY <1>3, OutcomesAreEarned
<1>8. QED
  BY <1>5, <1>6, <1>7

LEMMA InvGates == Inv => GatesAreAsDefined
<1> SUFFICES ASSUME Inv, key = Packet, Scored # "refused", Cardinality(Voters) >= 3,
                    \A r \in Voters : card[r].packet = key
             PROVE  /\ (Scored = "invalid_scorecard") = Uncalibrated
                    /\ GateOutcomes(key, card, sequenceCard) = Earned
  BY DEF GatesAreAsDefined
<1>1. Agreed
  BY CardsOfTheKeyAgree
<1>2. Scored = "invalid_scorecard" <=> Uncalibrated
  BY <1>1, ScoreOfAgreed
<1>3. (Scored = "invalid_scorecard") = Uncalibrated
  BY <1>2 DEF Uncalibrated
<1>4. QED
  BY <1>1, <1>3, OutcomesAreEarned

\* A packet whose passed codes name every shot is of the whole run, and so is each card.
LEMMA GateBNeedsTheRun ==
  ASSUME Inv, Scored # "refused", Unresolved(key, card) = {}
  PROVE  key = Packet /\ \A r \in Voters : card[r].packet = key
<1>1. WorldOK /\ Recorded(log)
  BY DEF Inv
<1>2. PICK n \in Nat : n = Len(Shots) /\ n = Cardinality(ShotIds)
  <2>1. PICK n \in 20..30 : n = Len(Shots)
    BY <1>1, ShotsAreListed
  <2>2. QED
    BY <1>1, <2>1, ShotIdsAreCounted
<1>3. PICK m \in Nat : m = Len(Delivered) /\ m <= n
  <2>1. OneEach(Delivered)
    BY <1>1, DeliveredOnce
  <2>2. Len(Delivered) \in 0..n
    BY <1>1, <1>2, <2>1, ShotsBoundClips
  <2>3. QED
    BY <1>2, <2>2
<1>4. ASSUME NEW p, AsBuilt(p)
      PROVE  \E clips : /\ OneEach(clips) /\ p = PacketOf(clips) /\ Codes(p) = 1..Len(clips)
                        /\ Len(clips) \in 0..m
                        /\ Len(clips) = m => p = Packet
  <2>1. PICK clips : /\ OneEach(clips) /\ p = PacketOf(clips) /\ Len(clips) <= m
                     /\ Len(clips) = m => p = Packet
    BY <1>1, <1>3, <1>4, PacketsAreOld
  <2>2. Codes(p) = 1..Len(clips)
    BY <1>1, <2>1, PacketsList DEF Codes
  <2>3. Len(clips) \in 0..n
    BY <1>1, <1>2, <2>1, ShotsBoundClips
  <2>4. Len(clips) \in 0..m
    BY <2>1, <2>3, <1>3
  <2>5. QED
    BY <2>1, <2>2, <2>4
<1>5. PICK clips : /\ OneEach(clips) /\ key = PacketOf(clips) /\ Codes(key) = 1..Len(clips)
                   /\ Len(clips) \in 0..m
                   /\ Len(clips) = m => key = Packet
  <2>1. PICK k : k = key /\ AsBuilt(k)
    BY ReadableCards
  <2>2. QED
    BY <1>4, <2>1
<1>6. PICK k \in 0..m : k = Len(clips)
  BY <1>5
<1>7. \A c \in 1..k : key[c].shot \in ShotIds
  <2>1. \A c \in 1..k : \E i \in 1..k : key[c] = Clip(clips[i])
    <3>1. \A c \in 1..Len(clips) : \E i \in 1..Len(clips) : PacketOf(clips)[c] = Clip(clips[i])
      BY <1>1, <1>5, PacketsList
    <3>2. QED
      BY <1>5, <1>6, <3>1
  <2>2. \A i \in 1..k : clips[i] \in Record
    BY <1>5, <1>6, ElementOfSeq DEF OneEach
  <2>3. \A i \in 1..k : Clip(clips[i]).shot \in ShotIds
    BY <2>2 DEF Clip, Record
  <2>4. QED
    BY <2>1, <2>3
<1>8. ASSUME NEW r \in Voters
      PROVE  /\ card[r].packet = Packet
             /\ n <= k
  <2>1. PICK p \in issued[r] : AsBuilt(p) /\ card[r] = [packet |-> p, yes |-> Opinion(p, taste[r])]
    BY <1>8, ReadableCards
  <2>2. card[r].packet = p
    BY <2>1
  <2>3. PICK l \in 0..m : Codes(p) = 1..l /\ (l = m => p = Packet)
    BY <1>4, <2>1
  <2>4. 1..l \subseteq 1..k
    BY <1>5, <1>6, <2>2, <2>3, ReadableCards
  <2>5. Passed(card) \subseteq 1..l
    <3>1. \A q \in Voters : Codes(card[q].packet) = 1..l
      BY <2>2, <2>3, ReadableCards
    <3>2. Passed(card) \subseteq UNION {Codes(card[q].packet) : q \in Voters}
      BY DEF Passed, Voters
    <3>3. QED
      BY <3>1, <3>2
  <2> DEFINE shot == [c \in 1..l |-> key[c].shot]
  <2>6. shot \in Surjection(1..l, ShotIds)
    <3>1. shot \in [1..l -> ShotIds]
      BY <1>7, <2>4
    <3>2. ASSUME NEW s \in ShotIds
          PROVE  \E c \in 1..l : shot[c] = s
      <4>1. PICK c \in Passed(card) : key[c].shot = s
        BY DEF Unresolved
      <4>2. QED
        BY <2>5, <4>1
    <3>3. QED
      BY <3>1, <3>2 DEF Surjection
  <2> HIDE DEF shot
  <2>7. IsFiniteSet(1..l) /\ Cardinality(1..l) = l
    <3>1. l \in Nat
      OBVIOUS
    <3>2. IsFiniteSet(1..l) /\ Cardinality(1..l) = IF 1 > l THEN 0 ELSE l - 1 + 1
      BY <3>1, FS_Interval
    <3>3. QED
      BY <3>1, <3>2
  <2>8. n <= l
    BY <1>2, <2>6, <2>7, FS_Surjection
  <2>9. l = m
    BY <1>3, <2>3, <2>8
  <2>10. n <= k
    <3>1. l = 0 \/ l \in 1..l
      BY <2>3
    <3>2. l <= k
      BY <1>6, <2>3, <2>4, <3>1
    <3>3. QED
      BY <1>2, <1>6, <2>3, <2>8, <3>2
  <2>11. QED
    BY <2>2, <2>3, <2>9, <2>10
<1>9. Voters # {}
  BY ReadableCards
<1>10. k = m
  BY <1>2, <1>3, <1>6, <1>8, <1>9
<1>11. key = Packet
  BY <1>5, <1>6, <1>10
<1>12. QED
  BY <1>8, <1>11

LEMMA InvPass == Inv => PassIsEarned
<1> SUFFICES ASSUME Inv, Scored = "passed"
             PROVE  /\ Cardinality(Voters) >= 3 /\ ~Uncalibrated
                    /\ \A g \in DOMAIN Earned : Earned[g]
  BY DEF PassIsEarned
<1>1. Scored # "refused" /\ Scored # "invalid_scorecard"
  OBVIOUS
<1>2. Scored = Verdict(key, card, sequenceCard)
  BY DEF Scored
<1>3. ~(Cardinality(Voters) < 3) /\ GateOutcomes(key, card, sequenceCard).B
  <2>1. PICK outcomes : outcomes = GateOutcomes(key, card, sequenceCard)
    OBVIOUS
  <2>2. /\ ~(Cardinality(Voters) < 3)
        /\ \A g \in DOMAIN outcomes : outcomes[g]
    BY <1>2, <2>1 DEF Verdict, Voters
  <2>3. "B" \in DOMAIN outcomes
    BY <2>1 DEF GateOutcomes
  <2>4. QED
    BY <2>1, <2>2, <2>3
<1>4. Cardinality(Voters) >= 3
  BY <1>3, VotersAreFinite
<1>5. Unresolved(key, card) = {}
  BY <1>3 DEF GateOutcomes
<1>6. Agreed
  BY <1>1, <1>5, GateBNeedsTheRun, CardsOfTheKeyAgree
<1>7. QED
  BY <1>1, <1>4, <1>6, ScoreOfAgreed

\* A run is never passed by mistake: "review score" says so only when three raters
\* agree that the clips of the run themselves meet the four definitions.
THEOREM PassIsEarnedAlways == Spec => []PassIsEarned
<1>1. Inv => PassIsEarned
  BY InvPass
<1>2. QED
  BY <1>1, InvAlways, PTL

\* Over cards that are all of the packet the key describes, while the run has not
\* gone on, each gate is its definition and a verdict is withheld when it must be.
THEOREM GatesAreAsDefinedAlways == Spec => []GatesAreAsDefined
<1>1. Inv => GatesAreAsDefined
  BY InvGates
<1>2. QED
  BY <1>1, InvAlways, PTL

-----------------------------------------------------------------------------
(* The two reports.                                                        *)

LEMMA MinIsLeast ==
  ASSUME NEW S \in SUBSET Nat, NEW x \in S, \A y \in S : x <= y
  PROVE  Min(S) = x
<1>1. Min(S) \in S /\ \A y \in S : Min(S) <= y
  BY DEF Min
<1>2. Min(S) <= x /\ x <= Min(S) /\ x \in Nat /\ Min(S) \in Nat
  BY <1>1
<1>3. QED
  BY <1>2

\* The least value that a share of the sample does not exceed.
Observed(values, value, q) ==
  value = Min({v \in ToSet(values) : 100 * Cardinality({i \in DOMAIN values : values[i] <= v}) >= q})

\* The value at a rank of the sorted sample is the least that so many do not exceed.
LEMMA RankedValueIsLeast ==
  ASSUME NEW m \in Nat, NEW values \in [1..m -> Nat],
         NEW q \in Nat, q >= 1, q <= 100 * m
  PROVE  Observed(values, values[Sorted(values)[(q + 99) \div 100]], q)
<1> DEFINE atMost(v) == {i \in 1..m : values[i] <= v}
           reaching == {v \in ToSet(values) : 100 * Cardinality(atMost(v)) >= q}
<1>0. IsFiniteSet(1..m)
  BY FS_Interval
<1>1. PICK k \in 1..m : k = (q + 99) \div 100 /\ 100 * k >= q /\ 100 * (k - 1) < q
  <2>1. (q + 99) \div 100 \in Int /\ 100 * ((q + 99) \div 100) <= q + 99
        /\ q + 99 < 100 * ((q + 99) \div 100) + 100
    OBVIOUS
  <2>2. PICK k \in Int : k = (q + 99) \div 100
    BY <2>1
  <2>3. k \in 1..m /\ 100 * k >= q /\ 100 * (k - 1) < q
    BY <2>1, <2>2
  <2>4. QED
    BY <2>2, <2>3
<1>2. PICK n \in 1..m : n = Sorted(values)[k] /\ Cardinality(Before(values, n)) = k - 1
  BY SortedPlaces
<1>3. PICK v0 \in Nat : v0 = values[n]
  OBVIOUS
<1>4. \A v : IsFiniteSet(atMost(v)) /\ Cardinality(atMost(v)) \in Nat
  <2> SUFFICES ASSUME NEW v
               PROVE  IsFiniteSet(atMost(v)) /\ Cardinality(atMost(v)) \in Nat
    OBVIOUS
  <2>1. atMost(v) \subseteq 1..m
    OBVIOUS
  <2> HIDE DEF atMost
  <2>2. IsFiniteSet(atMost(v))
    BY <2>1, FS_Interval, FS_Subset
  <2>3. QED
    BY <2>2, FS_CardinalityType
<1>5. v0 \in reaching
  <2>1. Before(values, n) \cup {n} \subseteq atMost(v0)
    BY <1>3 DEF Before
  <2>2. IsFiniteSet(Before(values, n)) /\ n \notin Before(values, n)
    <3>1. Before(values, n) \subseteq 1..m
      BY DEF Before
    <3>2. QED
      BY <1>0, <3>1, BeforeIsTotal, FS_Subset
  <2>3. Cardinality(Before(values, n) \cup {n}) = Cardinality(Before(values, n)) + 1
    BY <2>2, FS_AddElement
  <2> HIDE DEF atMost
  <2>4. Cardinality(Before(values, n) \cup {n}) <= Cardinality(atMost(v0))
    BY <1>4, <2>1, FS_Subset
  <2>5. PICK c \in Nat : c = Cardinality(atMost(v0))
    BY <1>4
  <2>6. k <= c
    BY <1>2, <2>3, <2>4, <2>5
  <2>7. 100 * c >= q
    BY <1>1, <2>6
  <2>8. v0 \in ToSet(values)
    BY <1>3 DEF ToSet
  <2>9. QED
    BY <2>5, <2>7, <2>8
<1>6. ASSUME NEW v \in reaching
      PROVE  v0 <= v
  <2>1. v \in Nat
    BY DEF ToSet
  <2>2. ASSUME v < v0
        PROVE  FALSE
    <3>1. atMost(v) \subseteq Before(values, n)
      <4> SUFFICES ASSUME NEW i \in 1..m, values[i] <= v
                   PROVE  i \in Before(values, n)
        OBVIOUS
      <4>1. values[i] < values[n]
        BY <1>3, <2>1, <2>2
      <4>2. QED
        BY <4>1 DEF Before
    <3>2. IsFiniteSet(Before(values, n))
      <4>1. Before(values, n) \subseteq 1..m
        BY DEF Before
      <4>2. QED
        BY <1>0, <4>1, FS_Subset
    <3>3. 100 * Cardinality(atMost(v)) >= q
      OBVIOUS
    <3> HIDE DEF atMost
    <3>4. Cardinality(atMost(v)) <= k - 1
      BY <1>2, <3>1, <3>2, FS_Subset
    <3>5. PICK c \in Nat : c = Cardinality(atMost(v))
      BY <1>4
    <3>6. QED
      BY <1>1, <3>3, <3>4, <3>5
  <2>3. QED
    BY <2>1, <2>2
<1>7. reaching \in SUBSET Nat
  BY DEF ToSet
<1>8. Min(reaching) = v0
  <2> HIDE DEF reaching
  <2>1. QED
    BY <1>5, <1>6, <1>7, MinIsLeast
<1>9. DOMAIN values = 1..m
  OBVIOUS
<1>10. QED
  BY <1>1, <1>2, <1>3, <1>8, <1>9 DEF Observed

\* How many attempts each resolved shot took.
LEMMA SampleOfTheRun ==
  ASSUME WorldOK, Recorded(log)
  PROVE  \E m \in Nat : /\ AttemptsPerResolvedShot(log, Shots) \in [1..m -> Nat]
                        /\ Len(AttemptsPerResolvedShot(log, Shots)) = m
<1> DEFINE resolved == Kept(Shots, ResolvedShots(log, Shots))
<1>1. resolved \in Seq(ShotIds)
  BY ShotsAreListed, KeptPicks
<1>2. PICK m \in Nat : DOMAIN resolved = 1..m
  BY <1>1, LenProperties
<1>3. ASSUME NEW s
      PROVE  Cardinality(AttemptsOf(log, s)) \in Nat
  <2>1. PICK k \in Nat : k = Len(log) /\ DOMAIN log = 1..k
    BY DEF Recorded
  <2>2. IsFiniteSet({log[i] : i \in 1..k})
    <3>1. IsFiniteSet(1..k)
      BY FS_Interval
    <3> DEFINE f == [i \in 1..k |-> log[i]]
    <3>2. f \in Surjection(1..k, {log[i] : i \in 1..k})
      BY DEF Surjection
    <3> HIDE DEF f
    <3>3. QED
      BY <3>1, <3>2, FS_Surjection
  <2>3. AttemptsOf(log, s) \subseteq {log[i] : i \in 1..k}
    BY <2>1 DEF AttemptsOf, ToSet
  <2>4. QED
    BY <2>2, <2>3, FS_Subset, FS_CardinalityType
<1>4. AttemptsPerResolvedShot(log, Shots) = [i \in 1..m |-> Cardinality(AttemptsOf(log, resolved[i]))]
  BY <1>2 DEF AttemptsPerResolvedShot
<1> HIDE DEF resolved
<1>5. AttemptsPerResolvedShot(log, Shots) \in [1..m -> Nat]
  BY <1>3, <1>4
<1>6. Len(AttemptsPerResolvedShot(log, Shots)) = m
  BY <1>5
<1>7. QED
  BY <1>5, <1>6

LEMMA InvPercentiles == Inv => PercentilesAreObserved
<1> SUFFICES ASSUME Inv
             PROVE  PercentilesAreObserved
  OBVIOUS
<1> DEFINE sample == AttemptsPerResolvedShot(log, Shots)
<1>1. PICK m \in Nat : sample \in [1..m -> Nat] /\ Len(sample) = m
  BY SampleOfTheRun DEF Inv
<1>2. ASSUME sample # <<>>, NEW p \in {50, 95}
      PROVE  Observed(sample, Percentile(sample, p), p * Len(sample))
  <2> HIDE DEF sample
  <2>1. m # 0
    <3>1. sample \in Seq(Nat)
      BY <1>1
    <3>2. QED
      BY <1>1, <1>2, <3>1, EmptySeq
  <2>2. PICK q \in Nat : q = p * m
    OBVIOUS
  <2>3. q >= 1 /\ q <= 100 * m
    BY <2>1, <2>2
  <2>4. Observed(sample, sample[Sorted(sample)[(q + 99) \div 100]], q)
    BY <1>1, <2>3, RankedValueIsLeast
  <2>5. QED
    BY <1>1, <2>2, <2>4 DEF Percentile
<1>3. QED
  BY <1>2, Zenon DEF PercentilesAreObserved, Observed

\* The shots are told apart by their ids, so the rank of each is its own.
LEMMA RankOfShot ==
  ASSUME WorldOK, NEW j \in 1..Len(Shots)
  PROVE  RankOf(Shots[j]) = series.shots[j].rank
<1>1. DOMAIN series.shots = 1..Len(Shots) /\ \A i \in 1..Len(Shots) : Shots[i] = series.shots[i].id
  <2>1. DOMAIN Shots = DOMAIN series.shots
    BY DEF Shots, Ids
  <2>2. QED
    BY <2>1, ShotsAreListed
<1>2. series.shots[j] \in ToSet(series.shots) /\ series.shots[j].id = Shots[j]
  BY <1>1 DEF ToSet
<1>3. ASSUME NEW s \in ToSet(series.shots), s.id = Shots[j]
      PROVE  s = series.shots[j]
  <2>1. PICK i \in 1..Len(Shots) : s = series.shots[i]
    BY <1>1 DEF ToSet
  <2>2. Shots[i] = Shots[j]
    BY <1>1, <1>3, <2>1
  <2>3. i = j
    BY <2>2, ShotsAreListed DEF IsInjective
  <2>4. QED
    BY <2>1, <2>3
<1>4. (CHOOSE s \in ToSet(series.shots) : s.id = Shots[j]) = series.shots[j]
  BY <1>2, <1>3
<1>5. QED
  BY <1>4 DEF RankOf

\* The sequence is the delivered take of each shot that has one.
LEMMA SequenceIsOfTakes ==
  ASSUME WorldOK, Recorded(log)
  PROVE  LET takes == SequenceOf IN
         /\ {t.shot : t \in ToSet(takes)} = ResolvedShots(log, Shots)
         /\ \A i \in DOMAIN takes : takes[i].attempt = AcceptedTake(log, takes[i].shot).attempt
         /\ \A i \in 2..Len(takes) : RankOf(takes[i - 1].shot) < RankOf(takes[i].shot)
<1>1. PICK clips : clips = ToSet(Delivered)
  OBVIOUS
<1>2. PICK S : S = {r.shot : r \in clips}
  OBVIOUS
<1>3. PICK shots : shots = Kept(Shots, S)
  OBVIOUS
<1>4. /\ clips = {r \in ToSet(log) : r.delivered} /\ clips \subseteq Record
      /\ \A r, q \in clips : r.shot = q.shot => r = q
  <2>1. OneEach(Delivered) /\ clips = {r \in ToSet(log) : r.delivered}
    BY <1>1, DeliveredOnce
  <2>2. PICK m \in Nat : m = Len(Delivered) /\ DOMAIN Delivered = 1..m
    BY <2>1 DEF OneEach
  <2>3. \A i \in 1..m : Delivered[i] \in Record
    BY <2>1, <2>2, ElementOfSeq DEF OneEach
  <2>4. clips = {Delivered[i] : i \in 1..m}
    BY <1>1, <2>2 DEF ToSet
  <2>5. clips \subseteq Record
    BY <2>3, <2>4
  <2>6. \A i, j \in 1..m : Delivered[i].shot = Delivered[j].shot => i = j
    BY <2>1, <2>2 DEF OneEach
  <2>7. \A r, q \in clips : r.shot = q.shot => r = q
    BY <2>4, <2>6
  <2>8. QED
    BY <2>1, <2>5, <2>7
<1>5. shots \in Seq(ShotIds) /\ Shots \in Seq(ShotIds)
  BY <1>3, ShotsAreListed, KeptPicks
<1>6. PICK l \in Nat : l = Len(shots) /\ DOMAIN shots = 1..l
  BY <1>5, LenProperties
<1>7. PICK e : Picks(Shots, S, shots, e)
  BY <1>3, <1>5, KeptPicks
<1>8. PICK least : least = [i \in 1..l |-> Min({r.attempt : r \in {q \in clips : q.shot = shots[i]}})]
  OBVIOUS
<1>9. SequenceOf = [i \in 1..l |-> [shot |-> shots[i], attempt |-> least[i]]]
  BY <1>1, <1>2, <1>3, <1>6, <1>8 DEF SequenceOf
<1>10. PICK takes : takes = SequenceOf
  OBVIOUS
<1>11. /\ DOMAIN takes = 1..l
       /\ \A i \in 1..l : takes[i].shot = shots[i] /\ takes[i].attempt = least[i]
  BY <1>9, <1>10
<1>12. Len(takes) = l
  <2>1. takes \in [1..l -> {takes[i] : i \in 1..l}]
    BY <1>9, <1>10
  <2>2. QED
    BY <2>1
<1>13. {t.shot : t \in ToSet(takes)} = ResolvedShots(log, Shots)
  <2>1. {t.shot : t \in ToSet(takes)} = ToSet(shots)
    BY <1>6, <1>11 DEF ToSet
  <2>2. ToSet(shots) = ToSet(Shots) \cap S
    BY <1>3, <1>5, KeptEntries
  <2>3. ToSet(Shots) \cap S = ResolvedShots(log, Shots)
    BY <1>2, <1>4 DEF ResolvedShots, AttemptsOf
  <2>4. QED
    BY <2>1, <2>2, <2>3
<1>14. ASSUME NEW i \in 1..l
       PROVE  takes[i].attempt = AcceptedTake(log, takes[i].shot).attempt
  <2>1. PICK s : s = shots[i] /\ s \in S
    BY <1>6, <1>7 DEF Picks
  <2>2. PICK r \in clips : r.shot = s
    BY <1>2, <2>1
  <2>3. {q \in clips : q.shot = s} = {r}
    BY <1>4, <2>2
  <2>4. r.attempt \in Nat
    BY <1>4, <2>2 DEF Record
  <2>5. least[i] = r.attempt
    <3>1. {q.attempt : q \in {q \in clips : q.shot = s}} = {r.attempt}
      BY <2>3
    <3>2. Min({r.attempt}) = r.attempt
      BY <2>4, MinIsLeast
    <3>3. least[i] = Min({q.attempt : q \in {q \in clips : q.shot = s}})
      BY <1>8, <2>1
    <3>4. QED
      BY <3>1, <3>2, <3>3
  <2>6. r \in AttemptsOf(log, s) /\ r.delivered
    BY <1>4, <2>2 DEF AttemptsOf
  <2>7. \A q \in AttemptsOf(log, s) : q.delivered => q = r
    BY <1>4, <2>2 DEF AttemptsOf
  <2>8. AcceptedTake(log, s) = r
    BY <2>4, <2>6, <2>7 DEF AcceptedTake
  <2>9. QED
    BY <1>11, <2>1, <2>5, <2>8
<1>15. ASSUME NEW i \in 2..l
       PROVE  RankOf(takes[i - 1].shot) < RankOf(takes[i].shot)
  <2>1. i \in 1..l /\ i - 1 \in 1..l /\ i - 1 < i
    OBVIOUS
  <2>2. /\ e[i - 1] \in 1..Len(Shots) /\ e[i] \in 1..Len(Shots) /\ e[i - 1] < e[i]
        /\ shots[i - 1] = Shots[e[i - 1]] /\ shots[i] = Shots[e[i]]
    BY <1>6, <1>7, <2>1 DEF Picks
  <2>3. PICK j \in 1..Len(Shots), k \in 1..Len(Shots) : j = e[i - 1] /\ k = e[i]
    BY <2>2
  <2>4. RankOf(Shots[j]) = series.shots[j].rank /\ RankOf(Shots[k]) = series.shots[k].rank
    BY RankOfShot
  <2>5. series.shots[j].rank < series.shots[k].rank
    BY <2>2, <2>3, RanksAscend
  <2>6. QED
    BY <1>11, <2>1, <2>2, <2>3, <2>4, <2>5
<1>16. QED
  BY <1>10, <1>11, <1>12, <1>13, <1>14, <1>15

LEMMA InvReports == Inv => ReportsAgree
<1> SUFFICES ASSUME Inv
             PROVE  ReportsAgree
  OBVIOUS
<1>1. ASSUME Scored \in {"passed", "failed"}, key = Packet, \A r \in Voters : card[r].packet = key
      PROVE  /\ FirstPass(key, card) \subseteq FirstPassShots(log, Shots)
             /\ UnresolvedShots(log, Shots) \subseteq Unresolved(key, card)
  <2>1. Agreed
    BY <1>1, CardsOfTheKeyAgree
  <2>2. /\ FirstPass(key, card) = {s \in ShotIds : PublishableFirst(s)}
        /\ Unresolved(key, card) = {s \in ShotIds : ~Publishable(s)}
    BY <2>1, GatesLookAtTheClips
  <2>3. FirstPass(key, card) \subseteq FirstPassShots(log, Shots)
    BY <2>2 DEF PublishableFirst, FirstPassShots, ShotIds
  <2>4. UnresolvedShots(log, Shots) \subseteq Unresolved(key, card)
    BY <2>2 DEF Publishable, UnresolvedShots, ResolvedShots, ShotIds
  <2>5. QED
    BY <2>3, <2>4
<1>2. PercentilesAreObserved
  BY InvPercentiles
<1>3. QED
  BY <1>1, <1>2, SequenceIsOfTakes DEF Inv, ReportsAgree

\* The gates and the economics never contradict each other about a run, Gate D is
\* asked about the takes whose cost is counted, and the percentiles are observations.
THEOREM ReportsAgreeAlways == Spec => []ReportsAgree
<1>1. Inv => ReportsAgree
  BY InvReports
<1>2. QED
  BY <1>1, InvAlways, PTL

=============================================================================
