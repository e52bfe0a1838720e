------------------------------ MODULE SeriesRow ------------------------------
(***************************************************************************)
(* The series library in browser tabs (apps/web/components/series-row.tsx, *)
(* series-create-form.tsx, series-library.tsx, app/series/page.tsx) over   *)
(* the api of module SeriesApi.                                            *)
(*                                                                         *)
(* The page is a server component: its rows change only when               *)
(* router.refresh() has re-read it, and keep their own state then, because *)
(* they are keyed by the series.  The router runs one refresh at a time    *)
(* and remembers one that is asked for meanwhile.  What is typed, and the  *)
(* validation of it, is left out, and so is the wait of the create form.   *)
(***************************************************************************)
EXTENDS SeriesApi

CONSTANT MaxRevision  \* bound: no rename is sent on top of this revision

ASSUME SeriesRowAssumption ==
  /\ MaxRevision \in Nat \ {0}
  /\ None \notin [Series -> Nat]

VARIABLES
  shown,    \* the revision in the row's props, 0 while the series is not listed
  editing,
  seed,     \* the revision the form was opened on: the name its author has read
  saved,    \* the revision of the last rename the row was told it made
  refusal,  \* what the last attempt ran into
  asked,    \* router.refresh() was called
  read,     \* what a refresh under way has read, None if there is none
  broken    \* a re-read threw, and nothing of the page is left on screen

row == <<shown, editing, seed, saved, refusal>>
page == <<asked, read, broken>>
vars == <<apiVars, row, page>>

Init ==
  /\ SeriesInit
  /\ shown = [r \in Row |-> 0]
  /\ editing = [r \in Row |-> FALSE]
  /\ seed = [r \in Row |-> 0]
  /\ saved = [r \in Row |-> 0]
  /\ refusal = [r \in Row |-> None]
  /\ asked = [t \in Tab |-> FALSE]
  /\ read = [t \in Tab |-> None]
  /\ broken = [t \in Tab |-> FALSE]

Refresh(t) == asked' = [asked EXCEPT ![t] = TRUE]

-----------------------------------------------------------------------------
(* The row.                                                                *)

\* setEditing(false); what was read for this rename is of no use to the next.
Close(r) ==
  /\ editing' = [editing EXCEPT ![r] = FALSE]
  /\ seed' = [seed EXCEPT ![r] = 0]

StartEditing(r) ==
  /\ shown[r] > 0 /\ ~editing[r]
  /\ editing' = [editing EXCEPT ![r] = TRUE]
  /\ seed' = [seed EXCEPT ![r] = shown[r]]
  /\ refusal' = [refusal EXCEPT ![r] = None]
  /\ UNCHANGED <<apiVars, shown, saved, page>>

\* Cancelling does not cancel a save that is under way.
StopEditing(r) ==
  /\ editing[r]
  /\ Close(r)
  /\ refusal' = [refusal EXCEPT ![r] = None]
  /\ UNCHANGED <<apiVars, shown, saved, page>>

\* handleSubmit up to its await; the button is disabled while a save is pending.
Submit(r) ==
  /\ editing[r] /\ patch[r] = None
  /\ shown[r] < MaxRevision
  /\ patch' = [patch EXCEPT ![r] =
       [step |-> "claim", revision |-> shown[r], seen |-> seed[r]]]
  /\ refusal' = [refusal EXCEPT ![r] = None]
  /\ UNCHANGED <<home, revision, rowLock, shown, editing, seed, saved, page>>

\* Mutant: the row closes its form and leaves the page as it was.
Saved_NoRefresh(r) ==
  /\ Close(r)
  /\ saved' = [saved EXCEPT ![r] = patch[r].revision + 1]
  /\ UNCHANGED <<refusal, asked>>

Saved(r) ==
  /\ Close(r)
  /\ saved' = [saved EXCEPT ![r] = patch[r].revision + 1]
  /\ Refresh(r[1])
  /\ UNCHANGED refusal

Refused(r) ==
  /\ refusal' = [refusal EXCEPT ![r] = IF patch[r].step = "stale" THEN "conflict" ELSE "failed"]
  /\ UNCHANGED <<editing, seed, saved, asked>>

\* handleSubmit after its await; a lost answer rejects it, and nothing catches that.
SubmitEnds(r) ==
  /\ \E s \in {"renamed", "stale", "missing", "failed"} : At(r, s)
  /\ IF patch[r].step = "renamed" THEN Saved(r) ELSE Refused(r)
  /\ patch' = [patch EXCEPT ![r] = None]
  /\ UNCHANGED <<home, revision, rowLock, shown, read, broken>>

\* The reload a conflict offers.
Reload(r) ==
  /\ editing[r] /\ refusal[r] = "conflict"
  /\ Refresh(r[1])
  /\ UNCHANGED <<apiVars, row, read, broken>>

Serve(r) == (Claim(r) \/ Classify(r) \/ CommitRename(r) \/ FailRename(r)) /\ UNCHANGED <<row, page>>

-----------------------------------------------------------------------------
(* The create form.                                                        *)

\* handleSubmit to its end: the series is created or the call fails, and the
\* page is re-read when the answer said created.  The series may be one this
\* module does not follow.
CreateSubmit(t) ==
  /\ (\E s \in Series : CreateSeries(t, HomeOf[t], s)) \/ UNCHANGED apiVars
  /\ Refresh(t) \/ UNCHANGED asked
  /\ UNCHANGED <<row, read, broken>>

-----------------------------------------------------------------------------
(* The page.                                                               *)

ReadPage(t) ==
  /\ asked[t] /\ read[t] = None
  /\ asked' = [asked EXCEPT ![t] = FALSE]
  /\ read' = [read EXCEPT ![t] = ListSeriesForWorkspace(t, HomeOf[t])]
  /\ UNCHANGED <<apiVars, row, broken>>

\* Any answer but the expected ones is thrown; handlers run on without a page.
ReadThrows(t) ==
  /\ asked[t] /\ read[t] = None
  /\ asked' = [asked EXCEPT ![t] = FALSE]
  /\ broken' = [broken EXCEPT ![t] = TRUE]
  /\ UNCHANGED <<apiVars, row, read>>

ShowPage(t) ==
  /\ read[t] # None
  /\ shown' = [r \in Row |-> IF r[1] = t THEN read[t][r[2]] ELSE shown[r]]
  /\ read' = [read EXCEPT ![t] = None]
  /\ UNCHANGED <<apiVars, editing, seed, saved, refusal, asked, broken>>

\* The browser loads the page again: all there is to do after a lost call or a throw.
ReloadTab(t) ==
  /\ broken[t] \/ \E s \in Series : At(<<t, s>>, "lost")
  /\ \A s \in Series : patch[<<t, s>>] = None \/ At(<<t, s>>, "lost")
  /\ patch' = [r \in Row |-> IF r[1] = t THEN None ELSE patch[r]]
  /\ editing' = [r \in Row |-> editing[r] /\ r[1] # t]
  /\ seed' = [r \in Row |-> IF r[1] = t THEN 0 ELSE seed[r]]
  /\ refusal' = [r \in Row |-> IF r[1] = t THEN None ELSE refusal[r]]
  /\ shown' = [r \in Row |->
       IF r[1] = t THEN ListSeriesForWorkspace(t, HomeOf[t])[r[2]] ELSE shown[r]]
  /\ asked' = [asked EXCEPT ![t] = FALSE]
  /\ read' = [read EXCEPT ![t] = None]
  /\ broken' = [broken EXCEPT ![t] = FALSE]
  /\ saved' = [r \in Row |-> IF r[1] = t THEN 0 ELSE saved[r]]
  /\ UNCHANGED <<home, revision, rowLock>>

Next ==
  \/ \E r \in Row :
       \/ ~broken[r[1]] /\ (StartEditing(r) \/ StopEditing(r) \/ Submit(r) \/ Reload(r))
       \/ Serve(r) \/ SubmitEnds(r)
  \/ \E t \in Tab :
       \/ ~broken[t] /\ (CreateSubmit(t) \/ ReadPage(t) \/ ReadThrows(t) \/ ShowPage(t))
       \/ ReloadTab(t)

Spec == Init /\ [][Next]_vars

-----------------------------------------------------------------------------
(* Properties.                                                             *)

Patch == [step : {"claim", "classify", "commit", "renamed", "stale", "missing", "failed", "lost"},
          revision : Nat, seen : Nat]

(***************************************************************************)
(* The shape of the tables, of the rows and of the pages.                  *)
(***************************************************************************)
TypeOK ==
  /\ home \in [Series -> Workspace \cup {None}]
  /\ revision \in [Series -> Nat]
  /\ rowLock \in [Series -> Row \cup {None}]
  /\ patch \in [Row -> Patch \cup {None}]
  /\ shown \in [Row -> Nat] /\ seed \in [Row -> Nat] /\ saved \in [Row -> Nat]
  /\ editing \in [Row -> BOOLEAN]
  /\ refusal \in [Row -> {None, "conflict", "failed"}]
  /\ asked \in [Tab -> BOOLEAN]
  /\ read \in [Tab -> [Series -> Nat] \cup {None}]
  /\ broken \in [Tab -> BOOLEAN]

(***************************************************************************)
(* A rename replaces the name its author had read, whoever renames in      *)
(* between and however the statements interleave, unless the page was      *)
(* re-read under the open form: then the row sends a newer revision than   *)
(* the one it was opened on, with a name typed over the older name.        *)
(***************************************************************************)
OverwriteNeedsRefresh == [][
  \A r \in Row : At(r, "commit") /\ revision'[r[2]] # revision[r[2]] =>
    (patch[r].seen = patch[r].revision => patch[r].seen = revision[r[2]]) ]_vars

(***************************************************************************)
(* "This series changed somewhere else" is said only when it did: the      *)
(* series has a committed revision newer than the one the row sent.        *)
(***************************************************************************)
ConflictsAreReal ==
  \A r \in Row : At(r, "stale") => revision[r[2]] > patch[r].revision

(***************************************************************************)
(* A name that was saved, or a later one, appears in the row: until it     *)
(* does, a refresh that reads the page after the rename is under way or    *)
(* asked for, whatever refreshes began before it, or a refresh that failed *)
(* has taken the rows off the screen.                                      *)
(***************************************************************************)
SavedNameIsComing ==
  \A t \in Tab : \A s \in Series :
    \/ shown[<<t, s>>] >= saved[<<t, s>>]
    \/ asked[t]
    \/ read[t] # None /\ read[t][s] >= saved[<<t, s>>]
    \/ broken[t]
=============================================================================
