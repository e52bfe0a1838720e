----------------------------- MODULE Characters -----------------------------
(***************************************************************************)
(* The cast of a series: characters, their append-only versions and the    *)
(* reference images each version pins (packages/db/src/characters.ts),     *)
(* served by concurrent request handlers (apps/api/src/routes/             *)
(* characters.ts) over PostgreSQL at READ COMMITTED.                       *)
(*                                                                         *)
(* One action is one SQL statement, because every statement of a           *)
(* transaction at that level takes its own snapshot and other requests run *)
(* between two of them.  Statements that only touch rows nobody else can   *)
(* see yet are merged with the one before them.  What a transaction has    *)
(* written is kept in draft[c] until Commit makes it visible, and          *)
(* rowLock[ch] is the lock the UPDATE or INSERT of a character row takes.  *)
(***************************************************************************)
EXTENDS Integers, Sequences, FiniteSetsExt

CONSTANTS
  Caller,         \* clients of the API, one request in flight each
  Workspace, Series, Character, Asset, Appearance,
  ImageList,      \* the lists of reference images a request may carry
  Member,         \* pairs <<caller, workspace>>: rows of workspace_member
  WorkspaceOf,    \* series.workspace_id
  AssetWorkspace, \* asset.workspace_id
  MaxVersion,     \* bound: no request appends past this version
  None

ASSUME CharactersAssumption ==
  /\ ImageList \subseteq Seq(Asset)
  /\ Member \subseteq Caller \X Workspace
  /\ WorkspaceOf \in [Series -> Workspace]
  /\ AssetWorkspace \in [Asset -> Workspace]
  /\ MaxVersion \in Nat
  /\ None \notin Caller \cup Series

VARIABLES
  revision,    \* character.revision, 0 while there is no such row
  home,        \* character.series_id, None while there is no such row
  version,     \* committed rows of character_version with their pinned assets
  assetStatus, \* asset.status
  rowLock,     \* the caller whose transaction holds the character row
  pc,          \* the statement a caller's request executes next
  input,       \* the request being handled
  draft,       \* the version row a transaction is about to commit
  fetched,     \* the rows the first statement of a read returned
  view,        \* the cast as the client last received it
  answer       \* what the client was last told

tables == <<revision, home, version, assetStatus, rowLock>>
vars == <<revision, home, version, assetStatus, rowLock,
          pc, input, draft, fetched, view, answer>>

-----------------------------------------------------------------------------
VersionRow == [character : Character, version : Nat, appearance : Appearance,
               images : ImageList,
               readVersion : Nat]  \* the version its author had in view

\* A version row as a read returns it; revision is 0 where it is not selected.
ReadRow == [character : Character, revision : Nat, version : Nat,
            appearance : Appearance]
SeenRow == [character : Character, revision : Nat, version : Nat,
            appearance : Appearance, images : ImageList]

Request == [kind : {"cast", "history", "create", "append"},
            workspace : Workspace, series : Series,
            character : Character \cup {None}, revision : Nat, readVersion : Nat,
            appearance : Appearance \cup {None}, images : ImageList \cup {<<>>}]

AnswerKind == {"none", "cast", "history", "written", "notFound", "stale", "error"}

Step == {"idle", "listRows", "listImages", "historyRows", "historyImages",
         "claim", "classify", "readLatest", "insert", "pin", "commit"}

Reading(kind, w, s, ch) ==
  [kind |-> kind, workspace |-> w, series |-> s, character |-> ch,
   revision |-> 0, readVersion |-> 0, appearance |-> None, images |-> <<>>]

\* Mutant: trusts the workspace in the path without pairing the series with it.
WithinReachableSeries_AnyWorkspace(c, w, s) == <<c, w>> \in Member

(***************************************************************************)
(* withinReachableSeries: the series is in the workspace the path names    *)
(* and the caller is a member of that workspace.                           *)
(***************************************************************************)
WithinReachableSeries(c, w, s) ==
  /\ WorkspaceOf[s] = w
  /\ <<c, w>> \in Member

\* The character is committed and the request's scope reaches its series.
ReachesCharacter(c, r) ==
  /\ revision[r.character] > 0
  /\ home[r.character] = r.series
  /\ WithinReachableSeries(c, r.workspace, r.series)

VersionsOf(ch) == {v \in version : v.character = ch}

\* max(character_version.version), 0 over no rows.
LatestVersion(ch) == Max({v.version : v \in VersionsOf(ch)} \cup {0})

CurrentRow(ch) ==
  {[character |-> ch, revision |-> revision[ch], version |-> v.version,
    appearance |-> v.appearance] : v \in
      {w \in VersionsOf(ch) : w.version = LatestVersion(ch)}}

-----------------------------------------------------------------------------
Init ==
  /\ revision = [ch \in Character |-> 0]
  /\ home = [ch \in Character |-> None]
  /\ version = {}
  /\ assetStatus = [a \in Asset |-> "pending"]
  /\ rowLock = [ch \in Character |-> None]
  /\ pc = [c \in Caller |-> "idle"]
  /\ input = [c \in Caller |-> None]
  /\ draft = [c \in Caller |-> None]
  /\ fetched = [c \in Caller |-> {}]
  /\ view = [c \in Caller |-> {}]
  /\ answer = [c \in Caller |-> [kind |-> "none", rows |-> {}]]

-----------------------------------------------------------------------------
(* Control of one request.                                                 *)

Begin(c, r, next) ==
  /\ pc[c] = "idle"
  /\ input' = [input EXCEPT ![c] = r]
  /\ pc' = [pc EXCEPT ![c] = next]
  /\ answer' = [answer EXCEPT ![c] = [kind |-> "none", rows |-> {}]]

Refuse(c) ==
  /\ pc[c] = "idle"
  /\ answer' = [answer EXCEPT ![c] = [kind |-> "notFound", rows |-> {}]]
  /\ UNCHANGED <<pc, input>>

GoTo(c, from, to) ==
  /\ pc[c] = from
  /\ pc' = [pc EXCEPT ![c] = to]

Answer(c, kind, rows) ==
  /\ pc' = [pc EXCEPT ![c] = "idle"]
  /\ input' = [input EXCEPT ![c] = None]
  /\ answer' = [answer EXCEPT ![c] = [kind |-> kind, rows |-> rows]]

Unlock(c) ==
  rowLock' = [ch \in Character |-> IF rowLock[ch] = c THEN None ELSE rowLock[ch]]

\* Mutant: a refused append returns instead of throwing, so its claim commits.
RollBack_KeepsClaim(c) ==
  /\ draft' = [draft EXCEPT ![c] = None]
  /\ Unlock(c)
  /\ revision' = [ch \in Character |->
       IF rowLock[ch] = c THEN revision[ch] + 1 ELSE revision[ch]]
  /\ UNCHANGED <<home, version>>

\* Mutant: the connection goes back to the pool with its transaction open.
RollBack_KeepsLock(c) ==
  /\ draft' = [draft EXCEPT ![c] = None]
  /\ UNCHANGED <<revision, home, version, rowLock>>

\* ROLLBACK: the draft is dropped and the row lock with it.
RollBack(c) ==
  /\ draft' = [draft EXCEPT ![c] = None]
  /\ Unlock(c)
  /\ UNCHANGED <<revision, home, version>>

-----------------------------------------------------------------------------
(* GET .../characters: findSeriesForMember, then the two statements of     *)
(* listCharactersForSeries.                                                *)

GetCast(c) ==
  \E w \in Workspace, s \in Series :
    LET r == Reading("cast", w, s, None) IN
    /\ IF WithinReachableSeries(c, w, s) THEN Begin(c, r, "listRows") ELSE Refuse(c)
    /\ UNCHANGED <<tables, draft, fetched, view>>

ListRows(c) ==
  /\ GoTo(c, "listRows", "listImages")
  /\ fetched' = [fetched EXCEPT ![c] =
       UNION {CurrentRow(ch) : ch \in {k \in Character : home[k] = input[c].series}}]
  /\ UNCHANGED <<tables, input, draft, view, answer>>

\* Mutant: the second statement joins on the character's newest version.
WithImages_Latest(rows) ==
  {[character |-> r.character, revision |-> r.revision, version |-> r.version,
    appearance |-> r.appearance,
    images |-> (CHOOSE v \in VersionsOf(r.character) :
                  v.version = LatestVersion(r.character)).images] : r \in rows}

\* referenceImagesByVersion joins the pins of every version that was read.
WithImages(rows) ==
  {[character |-> r.character, revision |-> r.revision, version |-> r.version,
    appearance |-> r.appearance,
    images |-> (CHOOSE v \in version :
                  v.character = r.character /\ v.version = r.version).images] : r \in rows}

ListImages(c) ==
  /\ pc[c] = "listImages"
  /\ view' = [view EXCEPT ![c] = WithImages(fetched[c])]
  /\ fetched' = [fetched EXCEPT ![c] = {}]
  /\ Answer(c, "cast", {})
  /\ UNCHANGED <<tables, draft>>

-----------------------------------------------------------------------------
(* GET .../characters/:id/versions: the two statements of                  *)
(* listCharacterVersions.  An empty history is answered as not found.      *)

GetHistory(c) ==
  \E w \in Workspace, s \in Series, ch \in Character :
    /\ Begin(c, Reading("history", w, s, ch), "historyRows")
    /\ UNCHANGED <<tables, draft, fetched, view>>

\* Mutant: the history keeps the cast's join on the current version.
HistoryRows_CurrentOnly(c) ==
  /\ GoTo(c, "historyRows", "historyImages")
  /\ fetched' = [fetched EXCEPT ![c] =
       IF ReachesCharacter(c, input[c])
       THEN {[character |-> v.character, revision |-> 0, version |-> v.version,
              appearance |-> v.appearance] :
               v \in {w \in VersionsOf(input[c].character) :
                        w.version = LatestVersion(input[c].character)}}
       ELSE {}]
  /\ UNCHANGED <<tables, input, draft, view, answer>>

HistoryRows(c) ==
  /\ GoTo(c, "historyRows", "historyImages")
  /\ fetched' = [fetched EXCEPT ![c] =
       IF ReachesCharacter(c, input[c])
       THEN {[character |-> v.character, revision |-> 0, version |-> v.version,
              appearance |-> v.appearance] : v \in VersionsOf(input[c].character)}
       ELSE {}]
  /\ UNCHANGED <<tables, input, draft, view, answer>>

HistoryImages(c) ==
  /\ pc[c] = "historyImages"
  /\ IF fetched[c] = {} THEN Answer(c, "notFound", {})
                        ELSE Answer(c, "history", WithImages(fetched[c]))
  /\ fetched' = [fetched EXCEPT ![c] = {}]
  /\ UNCHANGED <<tables, draft, view>>

-----------------------------------------------------------------------------
(* POST .../characters: createCharacter.                                   *)

\* The reachability read and the two inserts, which only this transaction sees.
PostCharacter(c) ==
  \E w \in Workspace, s \in Series, ap \in Appearance, im \in ImageList :
    LET r == [kind |-> "create", workspace |-> w, series |-> s, character |-> None,
              revision |-> 0, readVersion |-> 0, appearance |-> ap, images |-> im] IN
    \/ /\ ~WithinReachableSeries(c, w, s)
       /\ Refuse(c)
       /\ UNCHANGED <<tables, draft, fetched, view>>
    \/ /\ WithinReachableSeries(c, w, s)
       /\ Begin(c, r, "pin")
       /\ \E ch \in Character :
            /\ revision[ch] = 0
            /\ rowLock[ch] = None
            /\ rowLock' = [rowLock EXCEPT ![ch] = c]
            /\ draft' = [draft EXCEPT ![c] =
                 [character |-> ch, version |-> 1, appearance |-> ap, images |-> im,
                  readVersion |-> 0]]
       /\ UNCHANGED <<revision, home, version, assetStatus, fetched, view>>

-----------------------------------------------------------------------------
(* POST .../characters/:id/versions: addCharacterVersion.                  *)

\* A client appends on top of a character it has in view, with any scope.
PostVersion(c) ==
  \E seen \in view[c], w \in Workspace, s \in Series, ap \in Appearance, im \in ImageList :
    /\ seen.revision < MaxVersion
    /\ Begin(c, [kind |-> "append", workspace |-> w, series |-> s,
                 character |-> seen.character, revision |-> seen.revision,
                 readVersion |-> seen.version, appearance |-> ap, images |-> im], "claim")
    /\ UNCHANGED <<tables, draft, fetched, view>>

(***************************************************************************)
(* UPDATE character SET revision = revision + 1 WHERE revision = ...  A    *)
(* row whose committed revision does not match is skipped at once; one     *)
(* that matches but is locked makes the statement wait and then look at    *)
(* the revision again, so it proceeds when the lock is free or the         *)
(* revision has moved.                                                     *)
(***************************************************************************)
\* Mutant: the update is not conditional on the revision.
Matches_AnyRevision(c) == ReachesCharacter(c, input[c])

\* Mutant: a locked row is skipped instead of waited for.
Matches_SkipsLocked(c) ==
  /\ ReachesCharacter(c, input[c])
  /\ revision[input[c].character] = input[c].revision
  /\ rowLock[input[c].character] = None

Matches(c) ==
  /\ ReachesCharacter(c, input[c])
  /\ revision[input[c].character] = input[c].revision

\* Mutant: the revision is compared by a plain SELECT, which takes no lock.
Claim_Unlocked(c) ==
  /\ pc[c] = "claim"
  /\ GoTo(c, "claim", IF Matches(c) THEN "readLatest" ELSE "classify")
  /\ UNCHANGED <<tables, input, draft, fetched, view, answer>>

Claim(c) ==
  /\ pc[c] = "claim"
  /\ \/ /\ Matches(c)
        /\ rowLock[input[c].character] = None
        /\ rowLock' = [rowLock EXCEPT ![input[c].character] = c]
        /\ GoTo(c, "claim", "readLatest")
     \/ /\ ~Matches(c)
        /\ GoTo(c, "claim", "classify")
        /\ UNCHANGED rowLock
  /\ UNCHANGED <<revision, home, version, assetStatus, input, draft, fetched, view, answer>>

\* No row was claimed: gone, unreachable, or at another revision.
Classify(c) ==
  /\ pc[c] = "classify"
  /\ Answer(c, IF ReachesCharacter(c, input[c]) THEN "stale" ELSE "notFound", {})
  /\ UNCHANGED <<tables, draft, fetched, view>>

ReadLatest(c) ==
  /\ GoTo(c, "readLatest", "insert")
  /\ draft' = [draft EXCEPT ![c] =
       [character |-> input[c].character,
        version |-> LatestVersion(input[c].character) + 1,
        appearance |-> input[c].appearance, images |-> input[c].images,
        readVersion |-> input[c].readVersion]]
  /\ UNCHANGED <<tables, input, fetched, view, answer>>

SameKey(v, w) == v.character = w.character /\ v.version = w.version

(***************************************************************************)
(* INSERT INTO character_version under unique (character_id, version): it  *)
(* waits for a transaction that is inserting the same key and fails when   *)
(* the key is committed, which rolls back and answers 500.                 *)
(***************************************************************************)
InsertVersion(c) ==
  /\ pc[c] = "insert"
  /\ \A d \in Caller \ {c} :
       pc[d] \in {"pin", "commit"} => ~SameKey(draft[d], draft[c])
  /\ IF \E v \in version : SameKey(v, draft[c])
     THEN /\ RollBack(c)
          /\ Answer(c, "error", {})
     ELSE /\ GoTo(c, "insert", "pin")
          /\ UNCHANGED <<revision, home, version, rowLock, input, draft, answer>>
  /\ UNCHANGED <<assetStatus, fetched, view>>

\* The workspace of the series the drafted character is in.
OwningWorkspace(c) ==
  WorkspaceOf[IF input[c].kind = "create" THEN input[c].series
              ELSE home[draft[c].character]]

\* Mutant: an upload nobody has confirmed may be pinned.
Usable_AnyStatus(w, im) == \A i \in DOMAIN im : AssetWorkspace[im[i]] = w

Usable(w, im) ==
  \A i \in DOMAIN im : AssetWorkspace[im[i]] = w /\ assetStatus[im[i]] = "ready"

\* pinReferenceImages: one unusable asset aborts the whole transaction.
Pin(c) ==
  /\ pc[c] = "pin"
  /\ IF Usable(OwningWorkspace(c), draft[c].images)
     THEN /\ GoTo(c, "pin", "commit")
          /\ UNCHANGED <<revision, home, version, rowLock, input, draft, answer>>
     ELSE /\ RollBack(c)
          /\ Answer(c, "notFound", {})
  /\ UNCHANGED <<assetStatus, fetched, view>>

\* The row the response carries: the written version with the new revision.
Written(v, rev) ==
  [character |-> v.character, revision |-> rev, version |-> v.version,
   appearance |-> v.appearance, images |-> v.images]

Commit(c) ==
  /\ pc[c] = "commit"
  /\ LET v == draft[c]
         rev == revision[v.character] + 1
     IN /\ version' = version \cup {v}
        /\ revision' = [revision EXCEPT ![v.character] = rev]
        /\ home' = [home EXCEPT ![v.character] =
             IF input[c].kind = "create" THEN input[c].series ELSE @]
        \* The response reaches the client, or is lost on the way.
        /\ \/ /\ view' = [view EXCEPT ![c] =
                   {r \in @ : r.character # v.character} \cup {Written(v, rev)}]
              /\ Answer(c, "written", {})
           \/ /\ UNCHANGED view
              /\ Answer(c, "none", {})
  /\ draft' = [draft EXCEPT ![c] = None]
  /\ Unlock(c)
  /\ UNCHANGED <<assetStatus, fetched>>

-----------------------------------------------------------------------------
(* The surroundings.                                                       *)

\* The process or its connection dies: the server rolls the transaction back.
Crash(c) ==
  /\ pc[c] # "idle"
  /\ RollBack(c)
  /\ fetched' = [fetched EXCEPT ![c] = {}]
  /\ Answer(c, "none", {})
  /\ UNCHANGED <<assetStatus, view>>

\* A confirmation settles an upload, once (module Assets).
SettleAsset(a) ==
  /\ assetStatus[a] = "pending"
  /\ \E s \in {"ready", "rejected"} : assetStatus' = [assetStatus EXCEPT ![a] = s]
  /\ UNCHANGED <<revision, home, version, rowLock, pc, input, draft, fetched, view, answer>>

Handle(c) ==
  \/ ListRows(c) \/ ListImages(c) \/ HistoryRows(c) \/ HistoryImages(c)
  \/ Classify(c) \/ ReadLatest(c) \/ InsertVersion(c) \/ Pin(c) \/ Commit(c)

Next ==
  \/ \E c \in Caller :
       \/ GetCast(c) \/ GetHistory(c) \/ PostCharacter(c) \/ PostVersion(c)
       \/ Claim(c) \/ Handle(c) \/ Crash(c)
  \/ \E a \in Asset : SettleAsset(a)

Spec == Init /\ [][Next]_vars

(***************************************************************************)
(* A handler that was entered runs on.  Claim is strongly fair because it  *)
(* waits for a row lock, and PostgreSQL queues the waiters of a row, so a  *)
(* lock that keeps coming free is not always given to somebody else.       *)
(***************************************************************************)
Fairness == \A c \in Caller : WF_vars(Handle(c)) /\ SF_vars(Claim(c))

FairSpec == Spec /\ Fairness

-----------------------------------------------------------------------------
(* Properties.                                                             *)

TypeOK ==
  /\ revision \in [Character -> Nat]
  /\ home \in [Character -> Series \cup {None}]
  /\ version \subseteq VersionRow
  /\ assetStatus \in [Asset -> {"pending", "ready", "rejected"}]
  /\ rowLock \in [Character -> Caller \cup {None}]
  /\ pc \in [Caller -> Step]
  /\ input \in [Caller -> Request \cup {None}]
  /\ draft \in [Caller -> VersionRow \cup {None}]
  /\ fetched \in [Caller -> SUBSET ReadRow]
  /\ view \in [Caller -> SUBSET SeenRow]
  /\ answer \in [Caller -> [kind : AnswerKind, rows : SUBSET SeenRow]]

(***************************************************************************)
(* A character at revision n has exactly the versions 1..n: the claim on   *)
(* the identity and the row it was made for commit or vanish together,     *)
(* including when an unusable image or a crash ends the transaction.       *)
(***************************************************************************)
RevisionCountsVersions ==
  \A ch \in Character :
    /\ {v.version : v \in VersionsOf(ch)} = 1..revision[ch]
    /\ \A v, w \in VersionsOf(ch) : v.version = w.version => v = w

(***************************************************************************)
(* No lost update: whoever wrote version n + 1 had version n in view.  A   *)
(* member who appends on top of a change they never saw is told stale,     *)
(* whatever the order in which the statements of the requests ran.         *)
(***************************************************************************)
NoLostUpdate == \A v \in version : v.readVersion = v.version - 1

(***************************************************************************)
(* Every image a committed version pins has verified bytes and belongs to  *)
(* the workspace of the character's series, and goes on doing so.          *)
(***************************************************************************)
PinsAreUsable ==
  \A v \in version :
    /\ home[v.character] # None
    /\ \A i \in DOMAIN v.images :
         /\ assetStatus[v.images[i]] = "ready"
         /\ AssetWorkspace[v.images[i]] = WorkspaceOf[home[v.character]]

(***************************************************************************)
(* A cast is read with two statements and so from two snapshots, yet what  *)
(* a client receives is, row by row, one committed version with its own    *)
(* images and the revision that belongs to it.                             *)
(***************************************************************************)
ReadsAreVersions ==
  \A c \in Caller : \A r \in view[c] :
    /\ r.revision = r.version
    /\ \E v \in version :
         Written(v, r.revision) = r

(***************************************************************************)
(* A history answer is a whole history: versions 1..n of one character,    *)
(* each with the images it pinned, although appends commit between the two *)
(* statements that read it.                                                *)
(***************************************************************************)
HistoryIsWhole ==
  \A c \in Caller : answer[c].kind = "history" =>
    \E ch \in Character : \E n \in 1..revision[ch] :
      answer[c].rows = {Written(v, 0) : v \in {w \in VersionsOf(ch) : w.version <= n}}

\* Nobody receives the cast of a series in a workspace they do not belong to.
CastStaysWithMembers ==
  \A c \in Caller : \A r \in view[c] :
    <<c, WorkspaceOf[home[r.character]]>> \in Member

(***************************************************************************)
(* unique (character_id, version) is the backstop and not the mechanism:   *)
(* no request is ever answered with its violation.                         *)
(***************************************************************************)
BackstopNeverFires == \A c \in Caller : answer[c].kind # "error"

\* The answer turns stale only over a newer committed revision, in reach.
OnlySupersededTurnsStale ==
  \A c \in Caller :
    answer[c].kind # "stale" /\ answer'[c].kind = "stale" =>
      /\ revision[input[c].character] > input[c].revision
      /\ <<c, WorkspaceOf[home[input[c].character]]>> \in Member

(***************************************************************************)
(* A client is told stale only when somebody has committed a later version *)
(* than the one it read: never for a transaction that was in flight and    *)
(* rolled back, and never for a character it cannot reach.                 *)
(***************************************************************************)
StaleOnlyIfSuperseded == [][OnlySupersededTurnsStale]_vars

\* Every request comes to an end, the one that waits for a row lock included.
RequestsEnd == \A c \in Caller : pc[c] # "idle" ~> pc[c] = "idle"

-----------------------------------------------------------------------------
(***************************************************************************)
(* The refinement mapping: the history of a character is its committed     *)
(* rows in the order of their numbers.                                     *)
(***************************************************************************)
RowAt(ch, n) == CHOOSE v \in version : v.character = ch /\ v.version = n

CommittedHistory ==
  [ch \in Character |->
    [n \in 1..revision[ch] |->
      [content |-> [appearance |-> RowAt(ch, n).appearance, images |-> RowAt(ch, n).images],
       readVersion |-> RowAt(ch, n).readVersion]]]

Abstract == INSTANCE VersionHistory WITH
  Content <- [appearance : Appearance, images : ImageList],
  history <- CommittedHistory

(***************************************************************************)
(* The statements of all transactions together implement the abstract      *)
(* history: a commit extends one character by one version, written by      *)
(* somebody who had read the one before it, and no other statement shows.  *)
(***************************************************************************)
ImplementsVersionHistory == Abstract!Spec
=============================================================================
