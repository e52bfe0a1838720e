------------------------------ MODULE SeriesApi ------------------------------
(***************************************************************************)
(* The series of a workspace as the api keeps them                         *)
(* (packages/db/src/series.ts, apps/api/src/routes/series.ts): create,     *)
(* list, and the rename that is conditional on a revision, one action per  *)
(* SQL statement as in module Characters.                                  *)
(*                                                                         *)
(* A row's name and revision are written by the same statements, so the    *)
(* revision stands for the name.                                           *)
(***************************************************************************)
EXTENDS Naturals

CONSTANTS
  Tab,      \* browser tabs, each of one signed-in user
  Workspace, Series,
  Member,   \* pairs <<tab, workspace>>: the user of the tab is a member
  HomeOf,   \* the workspace whose library a tab shows
  None

ASSUME SeriesApiAssumption ==
  /\ Member \subseteq Tab \X Workspace
  /\ HomeOf \in [Tab -> Workspace]
  /\ None \notin Workspace \cup (Tab \X Series)

VARIABLES
  home,     \* series.workspace_id, None while there is no such row
  revision, \* series.revision
  rowLock,  \* the request whose transaction has updated the row
  patch     \* the PATCH a row of a tab is waiting for, None if none

apiVars == <<home, revision, rowLock, patch>>

-----------------------------------------------------------------------------
\* One row of one tab: at most one PATCH of it is under way.
Row == Tab \X Series

SeriesInit ==
  /\ home = [s \in Series |-> None]
  /\ revision = [s \in Series |-> 0]
  /\ rowLock = [s \in Series |-> None]
  /\ patch = [r \in Row |-> None]

(***************************************************************************)
(* belongsToCaller: the series is in the workspace of the path and the     *)
(* caller is a member of it; find and list have the same two conditions.   *)
(***************************************************************************)
BelongsToCaller(t, w, s) == home[s] = w /\ <<t, w>> \in Member

\* GET .../series: the revision of each series listed, 0 for the others.
ListSeriesForWorkspace(t, w) ==
  [s \in Series |-> IF BelongsToCaller(t, w, s) THEN revision[s] ELSE 0]

\* The membership read and the insert, whose row nobody sees before it commits.
CreateSeries(t, w, s) ==
  /\ <<t, w>> \in Member
  /\ home[s] = None
  /\ home' = [home EXCEPT ![s] = w]
  /\ revision' = [revision EXCEPT ![s] = 1]
  /\ UNCHANGED <<rowLock, patch>>

-----------------------------------------------------------------------------
(* PATCH .../series/:id: renameSeries.                                     *)

At(r, step) == patch[r] # None /\ patch[r].step = step

Becomes(r, step) == patch' = [patch EXCEPT ![r].step = step]

\* Mutant: the update is not conditional on the revision.
Matches_AnyRevision(r) == BelongsToCaller(r[1], HomeOf[r[1]], r[2])

Matches(r) ==
  /\ BelongsToCaller(r[1], HomeOf[r[1]], r[2])
  /\ revision[r[2]] = patch[r].revision

\* Mutant: a row somebody is updating counts as stale instead of waited for.
Claim_SkipsLocked(r) ==
  /\ At(r, "claim")
  /\ \/ /\ Matches(r) /\ rowLock[r[2]] = None
        /\ rowLock' = [rowLock EXCEPT ![r[2]] = r]
        /\ Becomes(r, "commit")
     \/ /\ ~(Matches(r) /\ rowLock[r[2]] = None)
        /\ Becomes(r, "classify")
        /\ UNCHANGED rowLock
  /\ UNCHANGED <<home, revision>>

(***************************************************************************)
(* UPDATE series SET name, revision = revision + 1 WHERE ...: waits for    *)
(* the row if it matches and is locked, and then looks at it again.        *)
(***************************************************************************)
Claim(r) ==
  /\ At(r, "claim")
  /\ \/ /\ Matches(r) /\ rowLock[r[2]] = None
        /\ rowLock' = [rowLock EXCEPT ![r[2]] = r]
        /\ Becomes(r, "commit")
     \/ /\ ~Matches(r)
        /\ Becomes(r, "classify")
        /\ UNCHANGED rowLock
  /\ UNCHANGED <<home, revision>>

\* The follow-up read, a statement and so a snapshot of its own.
Classify(r) ==
  /\ At(r, "classify")
  /\ Becomes(r, IF BelongsToCaller(r[1], HomeOf[r[1]], r[2]) THEN "stale" ELSE "missing")
  /\ UNCHANGED <<home, revision, rowLock>>

\* The answer reaches the tab, is lost, or is an error of the proxy in its place.
CommitRename(r) ==
  /\ At(r, "commit")
  /\ revision' = [revision EXCEPT ![r[2]] = @ + 1]
  /\ rowLock' = [rowLock EXCEPT ![r[2]] = None]
  /\ \E s \in {"renamed", "failed", "lost"} : Becomes(r, s)
  /\ UNCHANGED home

\* A statement or its connection fails: rolled back, and answered 500 or not at all.
FailRename(r) ==
  /\ \E s \in {"claim", "classify", "commit"} : At(r, s)
  /\ rowLock' = [rowLock EXCEPT ![r[2]] = IF @ = r THEN None ELSE @]
  /\ \E s \in {"failed", "lost"} : Becomes(r, s)
  /\ UNCHANGED <<home, revision>>
=============================================================================
