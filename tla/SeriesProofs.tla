---------------------------- MODULE SeriesProofs ----------------------------
(* Theorems about the series library, for any number of tabs and series.   *)
EXTENDS SeriesRow, TLAPS

(***************************************************************************)
(* What a tab may hold of a series: no revision above the committed one,   *)
(* and none at all of a series its user does not reach.  A series that was *)
(* created stays where it is, so such knowledge is never falsified.        *)
(***************************************************************************)
Reached(t, s) == BelongsToCaller(t, HomeOf[t], s)

Known(t, s, n) == n <= revision[s] /\ (n > 0 => Reached(t, s))

(***************************************************************************)
(* What is known at each statement of a rename.  The lock is what makes    *)
(* the revision of "commit" the one the caller sent, until it commits.     *)
(***************************************************************************)
PatchOK(t, s) ==
  LET p == patch[<<t, s>>] IN
  p # None =>
    /\ Reached(t, s)
    /\ p.revision <= revision[s]
    /\ p.step \in {"classify", "stale", "renamed"} => p.revision < revision[s]
    /\ p.step = "commit" => rowLock[s] = <<t, s>> /\ p.revision = revision[s]

RowOK(t, s) ==
  /\ Known(t, s, shown[<<t, s>>])
  /\ Known(t, s, saved[<<t, s>>])
  /\ editing[<<t, s>>] => Reached(t, s)

(***************************************************************************)
(* What the page will show next, unless it is asked to read again or has   *)
(* been lost, is not older than what its rows were told they saved.        *)
(***************************************************************************)
PageOK(t, s) ==
  /\ read[t] # None => Known(t, s, read[t][s])
  /\ ~asked[t] /\ ~broken[t] =>
       saved[<<t, s>>] <= (IF read[t] = None THEN shown[<<t, s>>] ELSE read[t][s])

Inv ==
  /\ TypeOK
  /\ \A t \in Tab, s \in Series : PatchOK(t, s) /\ RowOK(t, s) /\ PageOK(t, s)

LEMMA InitInv == Init => Inv
<1> SUFFICES ASSUME Init PROVE Inv
  OBVIOUS
<1>1. TypeOK
  BY SeriesApiAssumption DEF Init, SeriesInit, TypeOK
<1>2. ASSUME NEW t \in Tab, NEW s \in Series
      PROVE  PatchOK(t, s) /\ RowOK(t, s) /\ PageOK(t, s)
  <2>1. /\ patch[<<t, s>>] = None /\ shown[<<t, s>>] = 0 /\ saved[<<t, s>>] = 0
        /\ ~editing[<<t, s>>] /\ read[t] = None /\ revision[s] = 0
    BY DEF Init, SeriesInit, Row
  <2>2. QED
    BY <2>1 DEF PatchOK, RowOK, PageOK, Known
<1>3. QED
  BY <1>1, <1>2 DEF Inv

-----------------------------------------------------------------------------
(* What a step of the server leaves true of the rows and pages.            *)

\* No series moves, and the revision of one that exists only grows.
Grows ==
  \A s \in Series : home[s] # None => home'[s] = home[s] /\ revision'[s] >= revision[s]

LEMMA ReachedKept ==
  ASSUME TypeOK, Grows, NEW t \in Tab, NEW s \in Series, Reached(t, s)
  PROVE  Reached(t, s)' /\ home[s] # None
BY SeriesApiAssumption DEF Grows, Reached, BelongsToCaller

LEMMA KnownKept ==
  ASSUME TypeOK, TypeOK', Grows, NEW t \in Tab, NEW s \in Series, NEW n \in Nat, Known(t, s, n)
  PROVE  Known(t, s, n)'
<1>1. CASE n = 0
  BY <1>1 DEF Known, TypeOK
<1>2. CASE n > 0
  BY <1>2, ReachedKept DEF Known, Grows, TypeOK
<1>3. QED
  BY <1>1, <1>2

LEMMA RowsAndPagesKept ==
  ASSUME Inv, TypeOK', Grows, UNCHANGED <<row, page>>
  PROVE  \A t \in Tab, s \in Series : RowOK(t, s)' /\ PageOK(t, s)'
<1> SUFFICES ASSUME NEW t \in Tab, NEW s \in Series PROVE RowOK(t, s)' /\ PageOK(t, s)'
  OBVIOUS
<1>1. TypeOK /\ RowOK(t, s) /\ PageOK(t, s) /\ <<t, s>> \in Row
  BY DEF Inv, Row
<1>2. shown' = shown /\ saved' = saved /\ editing' = editing
      /\ read' = read /\ asked' = asked /\ broken' = broken
  BY DEF row, page
<1>3. shown[<<t, s>>] \in Nat /\ saved[<<t, s>>] \in Nat /\ (read[t] # None => read[t][s] \in Nat)
  BY <1>1 DEF TypeOK
<1>4. RowOK(t, s)'
  BY <1>1, <1>2, <1>3, KnownKept, ReachedKept DEF RowOK
<1>5. PageOK(t, s)'
  BY <1>1, <1>2, <1>3, KnownKept DEF PageOK
<1>6. QED
  BY <1>4, <1>5

\* A request that a step leaves alone keeps what is known of it.
LEMMA PatchKept ==
  ASSUME TypeOK, TypeOK', Grows, NEW t \in Tab, NEW s \in Series, PatchOK(t, s),
         patch'[<<t, s>>] = patch[<<t, s>>],
         At(<<t, s>>, "commit") => rowLock'[s] = rowLock[s] /\ revision'[s] = revision[s]
  PROVE  PatchOK(t, s)'
<1> SUFFICES ASSUME patch[<<t, s>>] # None PROVE PatchOK(t, s)'
  BY DEF PatchOK
<1>1. patch[<<t, s>>] \in Patch
  BY DEF TypeOK, Row
<1>2. Reached(t, s)' /\ home[s] # None
  BY ReachedKept DEF PatchOK
<1>3. revision'[s] >= revision[s] /\ revision[s] \in Nat /\ revision'[s] \in Nat
  BY <1>2 DEF Grows, TypeOK
<1>4. QED
  BY <1>1, <1>2, <1>3 DEF PatchOK, At, Patch

-----------------------------------------------------------------------------
(* One lemma per action of the api.                                        *)

\* A step of request r on the server changes the entry of r and its lock.
LEMMA OtherPatches ==
  ASSUME Inv, TypeOK', Grows, NEW r \in Row,
         \A q \in Row \ {r} : patch'[q] = patch[q],
         \A s \in Series : rowLock[s] \notin {r, None} =>
           rowLock'[s] = rowLock[s] /\ revision'[s] = revision[s]
  PROVE  \A t \in Tab, s \in Series : <<t, s>> # r => PatchOK(t, s)'
<1> SUFFICES ASSUME NEW t \in Tab, NEW s \in Series, <<t, s>> # r PROVE PatchOK(t, s)'
  OBVIOUS
<1>1. <<t, s>> \in Row \ {r} /\ TypeOK /\ PatchOK(t, s)
  BY DEF Inv, Row
<1>2. At(<<t, s>>, "commit") => rowLock[s] \notin {r, None}
  BY <1>1, SeriesApiAssumption DEF PatchOK, At, Row
<1>3. QED
  BY <1>1, <1>2, PatchKept

LEMMA StepType ==
  ASSUME TypeOK, NEW r \in Row, patch[r] # None,
         NEW x \in {"claim", "classify", "commit", "renamed", "stale", "missing", "failed", "lost"},
         Becomes(r, x)
  PROVE  /\ patch' \in [Row -> Patch \cup {None}]
         /\ patch'[r] = [patch[r] EXCEPT !.step = x]
         /\ patch'[r].step = x
         /\ patch'[r].revision = patch[r].revision
         /\ \A q \in Row \ {r} : patch'[q] = patch[q]
<1>1. patch[r] \in Patch
  BY DEF TypeOK
<1>2. patch' = [patch EXCEPT ![r] = [patch[r] EXCEPT !.step = x]]
  BY DEF Becomes, TypeOK
<1>3. [patch[r] EXCEPT !.step = x] \in Patch
  BY <1>1 DEF Patch
<1>4. QED
  BY <1>1, <1>2, <1>3 DEF TypeOK, Patch

LEMMA ClaimInv ==
  ASSUME Inv, NEW r \in Row, Claim(r), UNCHANGED <<row, page>>
  PROVE  Inv'
<1>1. TypeOK /\ patch[r] # None /\ patch[r] \in Patch
  BY DEF Inv, Claim, At, TypeOK
<1>2. PICK t \in Tab, s \in Series : r = <<t, s>>
  BY DEF Row
<1>3. PatchOK(t, s)
  BY DEF Inv
<1>4. UNCHANGED <<home, revision>>
  BY DEF Claim
<1>5. Grows
  BY <1>1, <1>4 DEF Grows, TypeOK
<1>6. CASE Matches(r) /\ rowLock[r[2]] = None
           /\ rowLock' = [rowLock EXCEPT ![r[2]] = r] /\ Becomes(r, "commit")
  <2>1. TypeOK'
    BY <1>1, <1>2, <1>4, <1>6, StepType DEF TypeOK, row, page
  <2>2. PatchOK(t, s)'
    BY <1>1, <1>2, <1>3, <1>4, <1>6, <2>1, StepType
    DEF PatchOK, Matches, TypeOK, Reached, BelongsToCaller
  <2>3. \A t2 \in Tab, s2 \in Series : PatchOK(t2, s2)'
    <3>1. /\ \A q \in Row \ {r} : patch'[q] = patch[q]
          /\ \A q \in Series : rowLock[q] \notin {r, None} => rowLock'[q] = rowLock[q]
      BY <1>1, <1>6, StepType DEF TypeOK
    <3>2. QED
      BY <1>2, <1>4, <1>5, <2>1, <2>2, <3>1, OtherPatches
  <2>4. QED
    BY <1>5, <2>1, <2>3, RowsAndPagesKept DEF Inv
<1>7. CASE ~Matches(r) /\ Becomes(r, "classify") /\ UNCHANGED rowLock
  <2>1. TypeOK'
    BY <1>1, <1>2, <1>4, <1>7, StepType DEF TypeOK, row, page
  <2>2. revision[s] # patch[r].revision
    BY <1>1, <1>2, <1>3, <1>7 DEF Matches, PatchOK, Reached
  <2>3. PatchOK(t, s)'
    <3>1. patch'[r].step = "classify" /\ patch'[r].revision = patch[r].revision
      BY <1>1, <1>7, StepType
    <3>2. Reached(t, s) /\ patch[r].revision <= revision[s]
      BY <1>1, <1>2, <1>3 DEF PatchOK
    <3>3. Reached(t, s)'
      BY <1>1, <1>5, <3>2, ReachedKept
    <3>4. patch[r].revision \in Nat /\ revision[s] \in Nat
      BY <1>1 DEF TypeOK, Patch
    <3>5. patch[r].revision < revision'[s] /\ patch[r].revision <= revision'[s]
      BY <1>4, <2>2, <3>2, <3>4
    <3>6. QED
      BY <1>2, <3>1, <3>3, <3>5 DEF PatchOK
  <2>4. \A t2 \in Tab, s2 \in Series : PatchOK(t2, s2)'
    <3>1. \A q \in Row \ {r} : patch'[q] = patch[q]
      BY <1>1, <1>7, StepType
    <3>2. QED
      BY <1>2, <1>4, <1>5, <1>7, <2>1, <2>3, <3>1, OtherPatches
  <2>5. QED
    BY <1>5, <2>1, <2>4, RowsAndPagesKept DEF Inv
<1>8. QED
  BY <1>6, <1>7 DEF Claim

LEMMA ClassifyInv ==
  ASSUME Inv, NEW r \in Row, Classify(r), UNCHANGED <<row, page>>
  PROVE  Inv'
<1>1. TypeOK /\ patch[r] # None /\ patch[r] \in Patch /\ patch[r].step = "classify"
  BY DEF Inv, Classify, At, TypeOK
<1>2. PICK t \in Tab, s \in Series : r = <<t, s>>
  BY DEF Row
<1>3. PatchOK(t, s)
  BY DEF Inv
<1>4. UNCHANGED <<home, revision, rowLock>>
  BY DEF Classify
<1>5. PICK x \in {"stale", "missing"} : Becomes(r, x)
  BY DEF Classify
<1>6. Grows
  BY <1>1, <1>4 DEF Grows, TypeOK
<1>7. TypeOK'
  BY <1>1, <1>2, <1>4, <1>5, StepType DEF TypeOK, row, page
<1>8. PatchOK(t, s)'
  BY <1>1, <1>2, <1>3, <1>4, <1>5, <1>7, StepType
  DEF PatchOK, TypeOK, Reached, BelongsToCaller, Patch
<1>9. \A t2 \in Tab, s2 \in Series : PatchOK(t2, s2)'
  <2>1. \A q \in Row \ {r} : patch'[q] = patch[q]
    BY <1>1, <1>5, StepType
  <2>2. QED
    BY <1>2, <1>4, <1>6, <1>7, <1>8, <2>1, OtherPatches
<1>10. QED
  BY <1>6, <1>7, <1>9, RowsAndPagesKept DEF Inv

LEMMA CommitRenameInv ==
  ASSUME Inv, NEW r \in Row, CommitRename(r), UNCHANGED <<row, page>>
  PROVE  Inv'
<1>1. TypeOK /\ patch[r] # None /\ patch[r] \in Patch /\ patch[r].step = "commit"
  BY DEF Inv, CommitRename, At, TypeOK
<1>2. PICK t \in Tab, s \in Series : r = <<t, s>>
  BY DEF Row
<1>3. PatchOK(t, s) /\ rowLock[s] = r /\ patch[r].revision = revision[s] /\ Reached(t, s)
  BY <1>1, <1>2 DEF Inv, PatchOK
<1>4. /\ home' = home
      /\ revision' = [revision EXCEPT ![s] = @ + 1]
      /\ rowLock' = [rowLock EXCEPT ![s] = None]
  BY <1>2 DEF CommitRename
<1>5. PICK x \in {"renamed", "failed", "lost"} : Becomes(r, x)
  BY DEF CommitRename
<1>6. Grows
  BY <1>1, <1>4 DEF Grows, TypeOK
<1>7. TypeOK'
  <2>1. patch' \in [Row -> Patch \cup {None}]
    BY <1>1, <1>5, StepType
  <2>2. revision' \in [Series -> Nat] /\ rowLock' \in [Series -> Row \cup {None}]
    BY <1>1, <1>4 DEF TypeOK
  <2>3. QED
    BY <1>1, <1>4, <2>1, <2>2 DEF TypeOK, row, page
<1>8. PatchOK(t, s)'
  <2>1. Reached(t, s)'
    BY <1>1, <1>3, <1>6, ReachedKept
  <2>2. patch'[r].step = x /\ patch'[r].revision = revision[s] /\ revision'[s] = revision[s] + 1
    BY <1>1, <1>3, <1>4, <1>5, StepType DEF TypeOK
  <2>3. QED
    BY <1>1, <1>2, <2>1, <2>2 DEF PatchOK, TypeOK
<1>9. \A q \in Series : rowLock[q] \notin {r, None} =>
        rowLock'[q] = rowLock[q] /\ revision'[q] = revision[q]
  BY <1>1, <1>3, <1>4 DEF TypeOK
<1>10. \A t2 \in Tab, s2 \in Series : PatchOK(t2, s2)'
  <2>1. \A q \in Row \ {r} : patch'[q] = patch[q]
    BY <1>1, <1>5, StepType
  <2>2. QED
    BY <1>2, <1>6, <1>7, <1>8, <1>9, <2>1, OtherPatches
<1>11. QED
  BY <1>6, <1>7, <1>10, RowsAndPagesKept DEF Inv

LEMMA FailRenameInv ==
  ASSUME Inv, NEW r \in Row, FailRename(r), UNCHANGED <<row, page>>
  PROVE  Inv'
<1>1. TypeOK /\ patch[r] # None /\ patch[r] \in Patch
  BY DEF Inv, FailRename, At, TypeOK
<1>2. PICK t \in Tab, s \in Series : r = <<t, s>>
  BY DEF Row
<1>3. PatchOK(t, s)
  BY DEF Inv
<1>4. /\ UNCHANGED <<home, revision>>
      /\ rowLock' = [rowLock EXCEPT ![s] = IF @ = r THEN None ELSE @]
  BY <1>2 DEF FailRename
<1>5. PICK x \in {"failed", "lost"} : Becomes(r, x)
  BY DEF FailRename
<1>6. Grows
  BY <1>1, <1>4 DEF Grows, TypeOK
<1>7. TypeOK'
  BY <1>1, <1>2, <1>4, <1>5, StepType DEF TypeOK, row, page
<1>8. PatchOK(t, s)'
  BY <1>1, <1>2, <1>3, <1>4, <1>5, <1>7, StepType
  DEF PatchOK, TypeOK, Reached, BelongsToCaller, Patch
<1>9. \A q \in Series : rowLock[q] \notin {r, None} =>
        rowLock'[q] = rowLock[q] /\ revision'[q] = revision[q]
  BY <1>1, <1>4 DEF TypeOK
<1>10. \A t2 \in Tab, s2 \in Series : PatchOK(t2, s2)'
  <2>1. \A q \in Row \ {r} : patch'[q] = patch[q]
    BY <1>1, <1>5, StepType
  <2>2. QED
    BY <1>2, <1>6, <1>7, <1>8, <1>9, <2>1, OtherPatches
<1>11. QED
  BY <1>6, <1>7, <1>10, RowsAndPagesKept DEF Inv

LEMMA ServeInv ==
  ASSUME Inv, NEW r \in Row, Serve(r)
  PROVE  Inv'
BY ClaimInv, ClassifyInv, CommitRenameInv, FailRenameInv DEF Serve

-----------------------------------------------------------------------------
(* One lemma per action of the row, the create form and the page.          *)

\* A step of the browser that sends nothing leaves the requests as they are.
LEMMA PatchesKept ==
  ASSUME Inv, UNCHANGED apiVars
  PROVE  \A t \in Tab, s \in Series : PatchOK(t, s)'
BY DEF Inv, PatchOK, apiVars, Reached, BelongsToCaller

LEMMA StartEditingInv ==
  ASSUME Inv, NEW r \in Row, StartEditing(r)
  PROVE  Inv'
<1>1. TypeOK'
  BY DEF Inv, TypeOK, StartEditing, apiVars, page
<1>2. ASSUME NEW t \in Tab, NEW s \in Series
      PROVE  RowOK(t, s)' /\ PageOK(t, s)'
  <2>1. RowOK(t, s) /\ PageOK(t, s) /\ <<t, s>> \in Row /\ TypeOK
    BY DEF Inv, Row
  <2>2. UNCHANGED <<home, revision, shown, saved, read, asked, broken>>
    BY DEF StartEditing, apiVars, page
  <2>3. editing'[<<t, s>>] => editing[<<t, s>>] \/ shown[<<t, s>>] > 0
    BY <2>1 DEF StartEditing, TypeOK
  <2>4. QED
    BY <2>1, <2>2, <2>3 DEF RowOK, PageOK, Known, Reached, BelongsToCaller
<1>3. QED
  BY <1>1, <1>2, PatchesKept DEF Inv, StartEditing

LEMMA StopEditingInv ==
  ASSUME Inv, NEW r \in Row, StopEditing(r)
  PROVE  Inv'
<1>1. TypeOK'
  BY DEF Inv, TypeOK, StopEditing, Close, apiVars, page
<1>2. ASSUME NEW t \in Tab, NEW s \in Series
      PROVE  RowOK(t, s)' /\ PageOK(t, s)'
  <2>1. RowOK(t, s) /\ PageOK(t, s) /\ <<t, s>> \in Row /\ TypeOK
    BY DEF Inv, Row
  <2>2. UNCHANGED <<home, revision, shown, saved, read, asked, broken>>
    BY DEF StopEditing, apiVars, page
  <2>3. editing'[<<t, s>>] => editing[<<t, s>>]
    BY <2>1 DEF StopEditing, Close, TypeOK
  <2>4. QED
    BY <2>1, <2>2, <2>3 DEF RowOK, PageOK, Known, Reached, BelongsToCaller
<1>3. QED
  BY <1>1, <1>2, PatchesKept DEF Inv, StopEditing

\* The revision sent is one the page showed: committed, and never to be taken back.
LEMMA SubmitInv ==
  ASSUME Inv, NEW r \in Row, Submit(r)
  PROVE  Inv'
<1>1. TypeOK
  BY DEF Inv
<1>2. PICK t \in Tab, s \in Series : r = <<t, s>>
  BY DEF Row
<1>3. UNCHANGED <<home, revision, rowLock, shown, editing, saved, read, asked, broken>>
  BY DEF Submit, page
<1> DEFINE p == [step |-> "claim", revision |-> shown[r], seen |-> seed[r]]
<1>4. p \in Patch /\ patch' = [patch EXCEPT ![r] = p]
  BY <1>1 DEF Submit, TypeOK, Patch
<1>5. TypeOK'
  BY <1>1, <1>3, <1>4 DEF TypeOK, Submit, page
<1>6. PatchOK(t, s)'
  <2>1. RowOK(t, s) /\ editing[r]
    BY DEF Inv, Submit
  <2>2. Reached(t, s) /\ shown[r] <= revision[s]
    BY <1>2, <2>1 DEF RowOK, Known
  <2>3. Reached(t, s)' /\ shown[r] <= revision'[s]
    BY <1>3, <2>2 DEF Reached, BelongsToCaller
  <2>4. patch'[r] = p
    BY <1>1, <1>4 DEF TypeOK
  <2>5. QED
    BY <1>2, <2>3, <2>4 DEF PatchOK
<1>7. \A q \in Row \ {r} : patch'[q] = patch[q]
  BY <1>1, <1>4 DEF TypeOK
<1>8. Grows
  BY <1>1, <1>3 DEF Grows, TypeOK
<1>9. \A t2 \in Tab, s2 \in Series : PatchOK(t2, s2)'
  BY <1>2, <1>3, <1>5, <1>6, <1>7, <1>8, OtherPatches
<1>10. \A t2 \in Tab, s2 \in Series : RowOK(t2, s2)' /\ PageOK(t2, s2)'
  BY <1>3 DEF Inv, RowOK, PageOK, Known, Reached, BelongsToCaller
<1>11. QED
  BY <1>5, <1>9, <1>10 DEF Inv

\* The page is asked to be read again in the step that learns of the rename.
LEMMA SubmitEndsInv ==
  ASSUME Inv, NEW r \in Row, SubmitEnds(r)
  PROVE  Inv'
<1>1. TypeOK /\ patch[r] # None /\ patch[r] \in Patch
  BY DEF Inv, SubmitEnds, At, TypeOK
<1>2. PICK t \in Tab, s \in Series : r = <<t, s>>
  BY DEF Row
<1>3. UNCHANGED <<home, revision, rowLock, shown, read, broken>> /\ patch' = [patch EXCEPT ![r] = None]
  BY DEF SubmitEnds
<1>4. Grows
  BY <1>1, <1>3 DEF Grows, TypeOK
<1>5. patch'[r] = None /\ \A q \in Row \ {r} : patch'[q] = patch[q]
  BY <1>1, <1>3 DEF TypeOK
<1>6. CASE patch[r].step = "renamed" /\ Saved(r)
  <2>1. TypeOK'
    BY <1>1, <1>2, <1>3, <1>6 DEF TypeOK, Saved, Close, Refresh, Patch
  <2>2. patch[r].revision + 1 <= revision[s] /\ Reached(t, s)
    BY <1>1, <1>2, <1>6 DEF Inv, PatchOK, TypeOK, Patch
  <2>3. ASSUME NEW t2 \in Tab, NEW s2 \in Series
        PROVE  RowOK(t2, s2)' /\ PageOK(t2, s2)'
    <3>1. RowOK(t2, s2) /\ PageOK(t2, s2) /\ <<t2, s2>> \in Row
      BY DEF Inv, Row
    <3>2. Known(t2, s2, saved[<<t2, s2>>]) => Known(t2, s2, saved[<<t2, s2>>])'
             \/ <<t2, s2>> = r
      BY <1>1, <1>3, <1>6, <3>1 DEF Saved, TypeOK, Known, Reached, BelongsToCaller
    <3>3. <<t2, s2>> = r => Known(t2, s2, saved[<<t2, s2>>])'
      BY <1>1, <1>2, <1>3, <1>6, <2>2, <3>1 DEF Saved, TypeOK, Known, Reached, BelongsToCaller
    <3>4. RowOK(t2, s2)'
      BY <1>1, <1>3, <1>6, <3>1, <3>2, <3>3
      DEF RowOK, Saved, Close, TypeOK, Known, Reached, BelongsToCaller
    <3>5. PageOK(t2, s2)'
      BY <1>1, <1>2, <1>3, <1>6, <3>1
      DEF PageOK, Saved, Refresh, TypeOK, Known, Reached, BelongsToCaller
    <3>6. QED
      BY <3>4, <3>5
  <2>4. \A t2 \in Tab, s2 \in Series : PatchOK(t2, s2)'
    <3>1. PatchOK(t, s)'
      BY <1>2, <1>5 DEF PatchOK
    <3>2. QED
      BY <1>2, <1>3, <1>4, <1>5, <2>1, <3>1, OtherPatches
  <2>5. QED
    BY <2>1, <2>3, <2>4 DEF Inv
<1>7. CASE Refused(r)
  <2>1. TypeOK'
    BY <1>1, <1>3, <1>7 DEF TypeOK, Refused
  <2>2. \A t2 \in Tab, s2 \in Series : RowOK(t2, s2)' /\ PageOK(t2, s2)'
    BY <1>3, <1>7 DEF Inv, Refused, RowOK, PageOK, Known, Reached, BelongsToCaller
  <2>3. \A t2 \in Tab, s2 \in Series : PatchOK(t2, s2)'
    <3>1. PatchOK(t, s)'
      BY <1>2, <1>5 DEF PatchOK
    <3>2. QED
      BY <1>2, <1>3, <1>4, <1>5, <2>1, <3>1, OtherPatches
  <2>4. QED
    BY <2>1, <2>2, <2>3 DEF Inv
<1>8. QED
  BY <1>6, <1>7 DEF SubmitEnds

LEMMA ReloadInv ==
  ASSUME Inv, NEW r \in Row, Reload(r)
  PROVE  Inv'
<1>1. TypeOK'
  BY DEF Inv, TypeOK, Reload, Refresh, apiVars, row
<1>2. ASSUME NEW t \in Tab, NEW s \in Series
      PROVE  RowOK(t, s)' /\ PageOK(t, s)'
  <2>1. RowOK(t, s) /\ PageOK(t, s) /\ TypeOK
    BY DEF Inv
  <2>2. UNCHANGED <<home, revision, shown, saved, editing, read, broken>>
    BY DEF Reload, apiVars, row
  <2>3. asked[t] => asked'[t]
    BY <2>1 DEF Reload, Refresh, TypeOK
  <2>4. QED
    BY <2>1, <2>2, <2>3 DEF RowOK, PageOK, Known, Reached, BelongsToCaller
<1>3. QED
  BY <1>1, <1>2, PatchesKept DEF Inv, Reload

LEMMA CreateSubmitInv ==
  ASSUME Inv, NEW t \in Tab, CreateSubmit(t)
  PROVE  Inv'
<1>1. TypeOK /\ UNCHANGED <<row, read, broken>>
  BY DEF Inv, CreateSubmit
<1>2. asked' \in [Tab -> BOOLEAN] /\ \A u \in Tab : asked[u] => asked'[u]
  BY <1>1 DEF CreateSubmit, Refresh, TypeOK
<1>3. UNCHANGED <<rowLock, patch>> /\ home' \in [Series -> Workspace \cup {None}]
      /\ revision' \in [Series -> Nat]
  <2>1. CASE UNCHANGED apiVars
    BY <1>1, <2>1 DEF TypeOK, apiVars
  <2>2. CASE \E s \in Series : CreateSeries(t, HomeOf[t], s)
    BY <1>1, <2>2, SeriesApiAssumption DEF TypeOK, CreateSeries
  <2>3. QED
    BY <2>1, <2>2 DEF CreateSubmit
<1>4. TypeOK'
  BY <1>1, <1>2, <1>3 DEF TypeOK, row
<1>5. \A s \in Series : home[s] # None => home'[s] = home[s] /\ revision'[s] = revision[s]
  <2>1. CASE UNCHANGED apiVars
    BY <2>1 DEF apiVars
  <2>2. CASE \E s \in Series : CreateSeries(t, HomeOf[t], s)
    BY <1>1, <2>2 DEF TypeOK, CreateSeries
  <2>3. QED
    BY <2>1, <2>2 DEF CreateSubmit
<1>6. Grows
  BY <1>1, <1>5 DEF Grows, TypeOK
<1>7. ASSUME NEW u \in Tab, NEW s \in Series
      PROVE  PatchOK(u, s)' /\ RowOK(u, s)' /\ PageOK(u, s)'
  <2>1. PatchOK(u, s) /\ RowOK(u, s) /\ PageOK(u, s) /\ <<u, s>> \in Row
    BY DEF Inv, Row
  <2>2. shown[<<u, s>>] \in Nat /\ saved[<<u, s>>] \in Nat /\ (read[u] # None => read[u][s] \in Nat)
    BY <1>1, <2>1 DEF TypeOK
  <2>3. PatchOK(u, s)'
    <3>1. CASE patch[<<u, s>>] = None
      BY <1>3, <3>1 DEF PatchOK
    <3>2. CASE patch[<<u, s>>] # None
      BY <1>1, <1>3, <1>4, <1>5, <1>6, <2>1, <3>2, ReachedKept, PatchKept DEF PatchOK
    <3>3. QED
      BY <3>1, <3>2
  <2>4. RowOK(u, s)'
    BY <1>1, <1>4, <1>6, <2>1, <2>2, KnownKept, ReachedKept DEF RowOK, row
  <2>5. PageOK(u, s)'
    BY <1>1, <1>2, <1>4, <1>6, <2>1, <2>2, KnownKept DEF PageOK, row
  <2>6. QED
    BY <2>3, <2>4, <2>5
<1>8. QED
  BY <1>4, <1>7 DEF Inv

\* What is read is what was committed, so no row has been told of anything newer.
LEMMA ListIsKnown ==
  ASSUME TypeOK, NEW t \in Tab
  PROVE  /\ ListSeriesForWorkspace(t, HomeOf[t]) \in [Series -> Nat]
         /\ \A s \in Series :
              /\ Known(t, s, ListSeriesForWorkspace(t, HomeOf[t])[s])
              /\ \A n \in Nat : Known(t, s, n) => n <= ListSeriesForWorkspace(t, HomeOf[t])[s]
BY DEF TypeOK, ListSeriesForWorkspace, Known, Reached

LEMMA ReadPageInv ==
  ASSUME Inv, NEW t \in Tab, ReadPage(t)
  PROVE  Inv'
<1> DEFINE list == ListSeriesForWorkspace(t, HomeOf[t])
<1>1. TypeOK /\ UNCHANGED <<apiVars, row, broken>> /\ asked' = [asked EXCEPT ![t] = FALSE]
      /\ read' = [read EXCEPT ![t] = list]
  BY DEF Inv, ReadPage
<1>2. /\ list \in [Series -> Nat]
      /\ \A s \in Series : Known(t, s, list[s]) /\ \A n \in Nat : Known(t, s, n) => n <= list[s]
  BY <1>1, ListIsKnown
<1>3. TypeOK'
  BY <1>1, <1>2 DEF TypeOK, apiVars, row
<1> HIDE DEF list
<1>4. ASSUME NEW u \in Tab, NEW s \in Series
      PROVE  RowOK(u, s)' /\ PageOK(u, s)'
  <2>1. RowOK(u, s) /\ PageOK(u, s) /\ <<u, s>> \in Row
    BY DEF Inv, Row
  <2>2. UNCHANGED <<home, revision, shown, saved, editing, broken>>
    BY <1>1 DEF apiVars, row
  <2>3. RowOK(u, s)'
    BY <2>1, <2>2 DEF RowOK, Known, Reached, BelongsToCaller
  <2>4. CASE u = t
    <3>1. saved[<<u, s>>] <= list[s]
      BY <1>1, <1>2, <2>1, <2>4 DEF RowOK, TypeOK
    <3>2. read'[u] = list /\ list # None
      BY <1>1, <1>2, <2>4, SeriesRowAssumption DEF TypeOK
    <3>3. QED
      BY <1>2, <2>2, <2>3, <2>4, <3>1, <3>2 DEF PageOK, Known, Reached, BelongsToCaller
  <2>5. CASE u # t
    BY <1>1, <2>1, <2>2, <2>3, <2>5 DEF PageOK, Known, Reached, BelongsToCaller, TypeOK
  <2>6. QED
    BY <2>3, <2>4, <2>5
<1>5. QED
  BY <1>1, <1>3, <1>4, PatchesKept DEF Inv

\* Where nothing is on screen any more, nothing has to come.
LEMMA ReadThrowsInv ==
  ASSUME Inv, NEW t \in Tab, ReadThrows(t)
  PROVE  Inv'
<1>1. /\ TypeOK /\ UNCHANGED <<apiVars, row, read>>
      /\ asked' = [asked EXCEPT ![t] = FALSE]
      /\ broken' = [broken EXCEPT ![t] = TRUE]
  BY DEF Inv, ReadThrows
<1>2. TypeOK'
  BY <1>1 DEF TypeOK, apiVars, row
<1>3. ASSUME NEW u \in Tab, NEW s \in Series
      PROVE  RowOK(u, s)' /\ PageOK(u, s)'
  <2>1. RowOK(u, s) /\ PageOK(u, s)
    BY DEF Inv
  <2>2. UNCHANGED <<home, revision, shown, saved, editing>>
    BY <1>1 DEF apiVars, row
  <2>3. RowOK(u, s)'
    BY <2>1, <2>2 DEF RowOK, Known, Reached, BelongsToCaller
  <2>4. broken'[u] \/ (asked'[u] = asked[u] /\ broken'[u] = broken[u])
    BY <1>1 DEF TypeOK
  <2>5. PageOK(u, s)'
    BY <1>1, <2>1, <2>2, <2>4 DEF PageOK, Known, Reached, BelongsToCaller
  <2>6. QED
    BY <2>3, <2>5
<1>4. QED
  BY <1>1, <1>2, <1>3, PatchesKept DEF Inv

LEMMA ShowPageInv ==
  ASSUME Inv, NEW t \in Tab, ShowPage(t)
  PROVE  Inv'
<1>1. TypeOK /\ UNCHANGED <<apiVars, editing, seed, saved, refusal, asked, broken>> /\ read[t] # None
      /\ shown' = [r \in Row |-> IF r[1] = t THEN read[t][r[2]] ELSE shown[r]]
      /\ read' = [read EXCEPT ![t] = None]
  BY DEF Inv, ShowPage
<1>2. read[t] \in [Series -> Nat]
  BY <1>1 DEF TypeOK
<1>3. TypeOK'
  BY <1>1, <1>2 DEF TypeOK, apiVars, Row
<1>4. ASSUME NEW u \in Tab, NEW s \in Series
      PROVE  RowOK(u, s)' /\ PageOK(u, s)'
  <2>1. RowOK(u, s) /\ PageOK(u, s) /\ <<u, s>> \in Row
    BY DEF Inv, Row
  <2>2. UNCHANGED <<home, revision>> /\ shown'[<<u, s>>] = (IF u = t THEN read[t][s] ELSE shown[<<u, s>>])
        /\ read'[u] = (IF u = t THEN None ELSE read[u])
    BY <1>1, <2>1 DEF apiVars, TypeOK
  <2>3. QED
    BY <1>1, <2>1, <2>2 DEF RowOK, PageOK, Known, Reached, BelongsToCaller
<1>5. QED
  BY <1>1, <1>3, <1>4, PatchesKept DEF Inv

LEMMA ReloadTabInv ==
  ASSUME Inv, NEW t \in Tab, ReloadTab(t)
  PROVE  Inv'
<1> DEFINE list == ListSeriesForWorkspace(t, HomeOf[t])
<1>1. /\ TypeOK
      /\ patch' = [r \in Row |-> IF r[1] = t THEN None ELSE patch[r]]
      /\ editing' = [r \in Row |-> editing[r] /\ r[1] # t]
      /\ seed' = [r \in Row |-> IF r[1] = t THEN 0 ELSE seed[r]]
      /\ refusal' = [r \in Row |-> IF r[1] = t THEN None ELSE refusal[r]]
      /\ shown' = [r \in Row |-> IF r[1] = t THEN list[r[2]] ELSE shown[r]]
      /\ asked' = [asked EXCEPT ![t] = FALSE]
      /\ read' = [read EXCEPT ![t] = None]
      /\ broken' = [broken EXCEPT ![t] = FALSE]
      /\ saved' = [r \in Row |-> IF r[1] = t THEN 0 ELSE saved[r]]
      /\ UNCHANGED <<home, revision, rowLock>>
  BY DEF Inv, ReloadTab
<1>2. PICK l \in [Series -> Nat] : l = list /\ \A s \in Series : Known(t, s, l[s])
  BY <1>1, ListIsKnown
<1> HIDE DEF list
<1>3. TypeOK'
  BY <1>1, <1>2 DEF TypeOK, Row
<1>4. ASSUME NEW u \in Tab, NEW s \in Series
      PROVE  PatchOK(u, s)' /\ RowOK(u, s)' /\ PageOK(u, s)'
  <2>1. PatchOK(u, s) /\ RowOK(u, s) /\ PageOK(u, s) /\ <<u, s>> \in Row
    BY DEF Inv, Row
  <2>2. /\ patch'[<<u, s>>] = (IF u = t THEN None ELSE patch[<<u, s>>])
        /\ editing'[<<u, s>>] = (editing[<<u, s>>] /\ u # t)
        /\ shown'[<<u, s>>] = (IF u = t THEN l[s] ELSE shown[<<u, s>>])
        /\ saved'[<<u, s>>] = (IF u = t THEN 0 ELSE saved[<<u, s>>])
        /\ read'[u] = (IF u = t THEN None ELSE read[u])
        /\ u # t => asked'[u] = asked[u] /\ broken'[u] = broken[u]
    BY <1>1, <1>2, <2>1 DEF TypeOK
  <2>3. CASE u = t
    <3>1. Known(u, s, l[s])' /\ l[s] \in Nat /\ revision'[s] \in Nat
      BY <1>1, <1>2, <2>3 DEF Known, Reached, BelongsToCaller, TypeOK
    <3>2. /\ patch'[<<u, s>>] = None /\ ~editing'[<<u, s>>] /\ read'[u] = None
          /\ shown'[<<u, s>>] = l[s] /\ saved'[<<u, s>>] = 0
      BY <2>2, <2>3
    <3>3. l[s] <= revision'[s] /\ (l[s] > 0 => Reached(u, s)') /\ 0 <= l[s] /\ 0 <= revision'[s]
      BY <3>1 DEF Known
    <3>4. PatchOK(u, s)' /\ RowOK(u, s)' /\ PageOK(u, s)'
      BY <3>2, <3>3 DEF PatchOK, RowOK, PageOK, Known
    <3>5. QED
      BY <3>4
  <2>4. CASE u # t
    BY <1>1, <2>1, <2>2, <2>4 DEF PatchOK, RowOK, PageOK, Known, Reached, BelongsToCaller
  <2>5. QED
    BY <2>3, <2>4
<1>5. QED
  BY <1>3, <1>4 DEF Inv

-----------------------------------------------------------------------------
LEMMA NextInv == Inv /\ [Next]_vars => Inv'
<1> SUFFICES ASSUME Inv, [Next]_vars PROVE Inv'
  OBVIOUS
<1>1. ASSUME NEW r \in Row,
             StartEditing(r) \/ StopEditing(r) \/ Submit(r) \/ Reload(r) \/ Serve(r) \/ SubmitEnds(r)
      PROVE  Inv'
  BY <1>1, StartEditingInv, StopEditingInv, SubmitInv, ReloadInv, ServeInv, SubmitEndsInv
<1>2. ASSUME NEW t \in Tab,
             CreateSubmit(t) \/ ReadPage(t) \/ ReadThrows(t) \/ ShowPage(t) \/ ReloadTab(t)
      PROVE  Inv'
  BY <1>2, CreateSubmitInv, ReadPageInv, ReadThrowsInv, ShowPageInv, ReloadTabInv
<1>3. CASE UNCHANGED vars
  BY <1>3 DEF vars, apiVars, row, page, Inv, TypeOK, PatchOK, RowOK, PageOK, Known, Reached, BelongsToCaller
<1>4. QED
  BY <1>1, <1>2, <1>3 DEF Next

(***************************************************************************)
(* The inductive invariant: every revision a tab holds is committed, and   *)
(* what a rename has established when it waits for its next statement.     *)
(***************************************************************************)
THEOREM InvAlways == Spec => []Inv
BY InitInv, NextInv, PTL DEF Spec

(***************************************************************************)
(* The tables, rows and pages keep their shape.                            *)
(***************************************************************************)
THEOREM TypeCorrect == Spec => []TypeOK
<1>1. Inv => TypeOK
  BY DEF Inv
<1>2. QED
  BY <1>1, InvAlways, PTL

(***************************************************************************)
(* renameSeries answers "stale" only if the series was renamed after the   *)
(* revision the caller sent, although it finds out in a second statement.  *)
(***************************************************************************)
THEOREM StaleMeansRenamed == Spec => []ConflictsAreReal
<1>1. Inv => ConflictsAreReal
  <2> SUFFICES ASSUME Inv, NEW t \in Tab, NEW s \in Series, At(<<t, s>>, "stale")
               PROVE  revision[s] > patch[<<t, s>>].revision
    BY DEF ConflictsAreReal, Row
  <2>1. PatchOK(t, s) /\ patch[<<t, s>>] \in Patch /\ revision[s] \in Nat
    BY DEF Inv, TypeOK, At, Row
  <2>2. QED
    BY <2>1 DEF PatchOK, At, Patch
<1>2. QED
  BY <1>1, InvAlways, PTL

(***************************************************************************)
(* A name the row was told it saved appears (router.refresh() behind       *)
(* handleSubmit): the page that is shown, being read or asked for is not   *)
(* older, whatever refreshes overlap, unless one failed and the page with  *)
(* it.                                                                     *)
(***************************************************************************)
THEOREM SavedNamesAppear == Spec => []SavedNameIsComing
<1>1. Inv => SavedNameIsComing
  <2> SUFFICES ASSUME Inv, NEW t \in Tab, NEW s \in Series
               PROVE  \/ shown[<<t, s>>] >= saved[<<t, s>>]
                      \/ asked[t]
                      \/ read[t] # None /\ read[t][s] >= saved[<<t, s>>]
                      \/ broken[t]
    BY DEF SavedNameIsComing
  <2>1. /\ PageOK(t, s)
        /\ shown[<<t, s>>] \in Nat /\ saved[<<t, s>>] \in Nat
        /\ read[t] # None => read[t][s] \in Nat
    BY DEF Inv, TypeOK, Row
  <2>2. QED
    BY <2>1 DEF PageOK
<1>2. QED
  BY <1>1, InvAlways, PTL

(***************************************************************************)
(* renameSeries commits only over the revision it was sent, so an author   *)
(* replaces the name they had read unless the row itself sent a newer one. *)
(***************************************************************************)
THEOREM RenamesReplaceWhatWasRead == Spec => OverwriteNeedsRefresh
<1> DEFINE Step == \A r \in Row : At(r, "commit") /\ revision'[r[2]] # revision[r[2]] =>
                     (patch[r].seen = patch[r].revision => patch[r].seen = revision[r[2]])
<1>1. Inv => Step
  <2> SUFFICES ASSUME Inv, NEW t \in Tab, NEW s \in Series, At(<<t, s>>, "commit")
               PROVE  patch[<<t, s>>].revision = revision[s]
    BY DEF Row
  <2>1. QED
    BY DEF Inv, PatchOK, At
<1>2. Inv /\ [Next]_vars => [Step]_vars
  BY <1>1
<1>3. QED
  BY <1>2, InvAlways, PTL DEF Spec, OverwriteNeedsRefresh
=============================================================================
