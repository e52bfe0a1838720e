-------------------------- MODULE CharactersProofs --------------------------
(* Theorems about the cast, for any number of callers and characters.      *)
EXTENDS Characters, TLAPS

(***************************************************************************)
(* What holds at each statement of a request.  A transaction that passed   *)
(* its claim holds the row lock of its character, so the revision it read  *)
(* and the version it computed stay the next ones until it commits.        *)
(***************************************************************************)
Drafting == {"insert", "pin", "commit"}

RequestOK(c) ==
  /\ pc[c] # "idle" => input[c] \in Request
  /\ pc[c] \in {"historyRows", "historyImages"} => input[c].character \in Character
  /\ pc[c] \in {"claim", "classify", "readLatest", "insert"} =>
       /\ input[c].kind = "append"
       /\ input[c].character \in Character
       /\ input[c].appearance \in Appearance
       /\ input[c].images \in ImageList
       /\ input[c].readVersion = input[c].revision
  /\ pc[c] \in {"claim", "classify"} =>
       input[c].revision \in 1..revision[input[c].character]
  /\ pc[c] = "classify" /\ ReachesCharacter(c, input[c]) =>
       revision[input[c].character] > input[c].revision

ClaimOK(c) ==
  pc[c] = "readLatest" =>
    /\ rowLock[input[c].character] = c
    /\ revision[input[c].character] = input[c].revision
    /\ revision[input[c].character] > 0

DraftOK(c) ==
  pc[c] \in Drafting =>
    /\ draft[c] \in VersionRow
    /\ rowLock[draft[c].character] = c
    /\ draft[c].version = revision[draft[c].character] + 1
    /\ draft[c].readVersion = revision[draft[c].character]
    /\ input[c].kind \in {"create", "append"}
    /\ input[c].kind = "create" <=> revision[draft[c].character] = 0
    /\ pc[c] = "commit" => Usable(OwningWorkspace(c), draft[c].images)

SameVersion(v, r) ==
  v.character = r.character /\ v.version = r.version /\ v.appearance = r.appearance

FetchedOK(c) ==
  \A r \in fetched[c] :
    /\ \E v \in version : SameVersion(v, r)
    /\ pc[c] = "listImages" => r.revision = r.version

CallerOK(c) == RequestOK(c) /\ ClaimOK(c) /\ DraftOK(c) /\ FetchedOK(c)

HomeOK == \A ch \in Character : revision[ch] > 0 => home[ch] \in Series

TablesOK == RevisionCountsVersions /\ NoLostUpdate /\ PinsAreUsable /\ HomeOK

Inv ==
  /\ TypeOK
  /\ TablesOK
  /\ ReadsAreVersions
  /\ \A c \in Caller : CallerOK(c)

-----------------------------------------------------------------------------
(* max(version) over a character at revision n is n.                       *)
LEMMA MaxOfVersions ==
  ASSUME NEW n \in Nat
  PROVE  Max(1..n \cup {0}) = n
<1>1. /\ n \in 1..n \cup {0}
      /\ \A y \in 1..n \cup {0} : n >= y
  OBVIOUS
<1>2. \A x \in 1..n \cup {0} : (\A y \in 1..n \cup {0} : x >= y) => x = n
  BY <1>1
<1>3. QED
  BY <1>1, <1>2 DEF Max

LEMMA LatestIsRevision ==
  ASSUME TypeOK, RevisionCountsVersions, NEW ch \in Character
  PROVE  LatestVersion(ch) = revision[ch]
BY MaxOfVersions DEF TypeOK, RevisionCountsVersions, LatestVersion

LEMMA InitInv == Init => Inv
<1> SUFFICES ASSUME Init PROVE Inv
  OBVIOUS
<1>1. TypeOK
  BY CharactersAssumption DEF Init, TypeOK, Step, AnswerKind
<1>2. RevisionCountsVersions
  BY DEF Init, RevisionCountsVersions, VersionsOf
<1>3. QED
  BY <1>1, <1>2 DEF Init, Inv, TablesOK, NoLostUpdate, PinsAreUsable, HomeOK, ReadsAreVersions,
     CallerOK, RequestOK, ClaimOK, DraftOK, FetchedOK, Drafting

-----------------------------------------------------------------------------
(* A step that writes no row of the cast keeps what is said of the rows,   *)
(* and what is said of the requests it does not touch.                     *)

RowsKept ==
  /\ UNCHANGED <<revision, home, version>>
  /\ \A a \in Asset : assetStatus[a] = "ready" => assetStatus'[a] = "ready"

LEMMA ImageInAsset ==
  ASSUME NEW im \in ImageList, NEW i \in DOMAIN im
  PROVE  im[i] \in Asset
BY CharactersAssumption

LEMMA UsableKept ==
  ASSUME RowsKept, NEW w, NEW im \in ImageList, Usable(w, im)
  PROVE  Usable(w, im)'
BY ImageInAsset DEF Usable, RowsKept

LEMMA TablesKept ==
  ASSUME Inv, RowsKept
  PROVE  TablesOK'
<1>1. TypeOK /\ TablesOK
  BY DEF Inv
<1>2. RevisionCountsVersions' /\ NoLostUpdate' /\ HomeOK'
  BY <1>1 DEF TablesOK, RowsKept, RevisionCountsVersions, NoLostUpdate, HomeOK, VersionsOf
<1>3. PinsAreUsable'
  <2> SUFFICES ASSUME NEW v \in version, NEW i \in DOMAIN v.images
               PROVE  /\ home[v.character] # None
                      /\ assetStatus'[v.images[i]] = "ready"
                      /\ AssetWorkspace[v.images[i]] = WorkspaceOf[home[v.character]]
    BY <1>1 DEF TablesOK, RowsKept, PinsAreUsable
  <2>1. v.images[i] \in Asset
    BY <1>1, ImageInAsset DEF TypeOK, VersionRow
  <2>2. QED
    BY <1>1, <2>1 DEF TablesOK, RowsKept, PinsAreUsable
<1>4. QED
  BY <1>2, <1>3 DEF TablesOK

SameRequest(d) ==
  /\ pc'[d] = pc[d]
  /\ input'[d] = input[d]
  /\ draft'[d] = draft[d]
  /\ fetched'[d] = fetched[d]

LEMMA CallerKept ==
  ASSUME Inv, RowsKept, NEW d \in Caller, SameRequest(d),
         \A ch \in Character : rowLock[ch] = d => rowLock'[ch] = d
  PROVE  CallerOK(d)'
<1>1. TypeOK /\ CallerOK(d)
  BY DEF Inv
<1>2. RequestOK(d)'
  BY <1>1 DEF CallerOK, RequestOK, SameRequest, ReachesCharacter, RowsKept
<1>3. ClaimOK(d)'
  BY <1>1 DEF CallerOK, RequestOK, ClaimOK, SameRequest, RowsKept
<1>4. pc[d] = "commit" => Usable(OwningWorkspace(d), draft[d].images)'
  BY <1>1, UsableKept DEF CallerOK, DraftOK, Drafting, SameRequest, RowsKept, OwningWorkspace,
     VersionRow
<1>5. DraftOK(d)'
  BY <1>1, <1>4 DEF CallerOK, DraftOK, SameRequest, VersionRow, RowsKept, OwningWorkspace
<1>6. FetchedOK(d)'
  BY <1>1 DEF CallerOK, FetchedOK, SameRequest, SameVersion, RowsKept
<1>7. QED
  BY <1>2, <1>3, <1>5, <1>6 DEF CallerOK

LEMMA ViewKept ==
  ASSUME Inv, version \subseteq version', UNCHANGED view
  PROVE  ReadsAreVersions'
BY DEF Inv, ReadsAreVersions, Written

(***************************************************************************)
(* The control variables stay well typed, whatever the action does to the  *)
(* tables and to the transaction.                                          *)
(***************************************************************************)
ControlTyped ==
  /\ pc \in [Caller -> Step]
  /\ input \in [Caller -> Request \cup {None}]
  /\ answer \in [Caller -> [kind : AnswerKind, rows : SUBSET SeenRow]]

LEMMA BeginTyped ==
  ASSUME TypeOK, NEW c \in Caller, NEW r \in Request, NEW next \in Step, Begin(c, r, next)
  PROVE  ControlTyped'
BY DEF TypeOK, ControlTyped, Begin, AnswerKind

LEMMA RefuseTyped ==
  ASSUME TypeOK, NEW c \in Caller, Refuse(c)
  PROVE  ControlTyped'
BY DEF TypeOK, ControlTyped, Refuse, AnswerKind

LEMMA GoToTyped ==
  ASSUME TypeOK, NEW c \in Caller, NEW from, NEW to \in Step, GoTo(c, from, to),
         UNCHANGED <<input, answer>>
  PROVE  ControlTyped'
BY DEF TypeOK, ControlTyped, GoTo

LEMMA AnswerTyped ==
  ASSUME TypeOK, NEW c \in Caller, NEW kind \in AnswerKind, NEW rows \in SUBSET SeenRow,
         Answer(c, kind, rows)
  PROVE  ControlTyped'
BY DEF TypeOK, ControlTyped, Answer, Step

LEMMA ReadingTyped ==
  ASSUME NEW kind \in {"cast", "history"}, NEW w \in Workspace, NEW s \in Series,
         NEW ch \in Character \cup {None}
  PROVE  Reading(kind, w, s, ch) \in Request /\ Reading(kind, w, s, ch).character = ch
BY DEF Reading, Request

(***************************************************************************)
(* A step of one caller that commits nothing: it is enough to look at the  *)
(* types, at that caller, and at what it received.                         *)
(***************************************************************************)
OthersKept(c) ==
  \A d \in Caller \ {c} :
    SameRequest(d) /\ \A ch \in Character : rowLock[ch] = d => rowLock'[ch] = d

LEMMA StepOfOne ==
  ASSUME Inv, RowsKept, NEW c \in Caller,
         TypeOK', CallerOK(c)', ReadsAreVersions', OthersKept(c)
  PROVE  Inv'
<1>1. ASSUME NEW d \in Caller \ {c}
      PROVE  CallerOK(d)'
  BY <1>1, CallerKept DEF OthersKept
<1>2. QED
  BY <1>1, TablesKept DEF Inv

-----------------------------------------------------------------------------
(* Reads.                                                                  *)

LEMMA GetCastInv ==
  ASSUME Inv, NEW c \in Caller, GetCast(c)
  PROVE  Inv'
<1>1. PICK w \in Workspace, s \in Series :
        LET r == Reading("cast", w, s, None) IN
        /\ IF WithinReachableSeries(c, w, s) THEN Begin(c, r, "listRows") ELSE Refuse(c)
        /\ UNCHANGED <<tables, draft, fetched, view>>
  BY DEF GetCast
<1> DEFINE r == Reading("cast", w, s, None)
<1>2. r \in Request
  BY ReadingTyped
<1> HIDE DEF r
<1>3. CASE Begin(c, r, "listRows")
  <2>1. TypeOK'
    BY <1>1, <1>2, <1>3, BeginTyped DEF Inv, TypeOK, tables, Step, ControlTyped
  <2>2. CallerOK(c)'
    BY <1>1, <1>2, <1>3 DEF Inv, TypeOK, CallerOK, Begin, tables, RequestOK, ClaimOK, DraftOK,
       Drafting, FetchedOK, SameVersion
  <2>3. OthersKept(c)
    BY <1>1, <1>3 DEF Inv, TypeOK, Begin, tables, OthersKept, SameRequest
  <2>4. QED
    BY <1>1, <2>1, <2>2, <2>3, StepOfOne, ViewKept DEF RowsKept, tables
<1>4. CASE Refuse(c)
  <2>1. TypeOK'
    BY <1>1, <1>4, RefuseTyped DEF Inv, TypeOK, tables, ControlTyped
  <2>2. \A d \in Caller : SameRequest(d)
    BY <1>1, <1>4 DEF Refuse, SameRequest
  <2>3. QED
    BY <1>1, <2>1, <2>2, CallerKept, TablesKept, ViewKept DEF Inv, tables, RowsKept
<1>5. QED
  BY <1>1, <1>3, <1>4 DEF r

\* Every row of the cast is a committed version at the revision of its number.
LEMMA CurrentRowOK ==
  ASSUME Inv, NEW ch \in Character, NEW r \in CurrentRow(ch)
  PROVE  /\ r \in ReadRow
         /\ r.revision = r.version
         /\ \E v \in version : SameVersion(v, r)
<1>1. PICK v \in VersionsOf(ch) :
        /\ v.version = LatestVersion(ch)
        /\ r = [character |-> ch, revision |-> revision[ch], version |-> v.version,
                appearance |-> v.appearance]
  BY DEF CurrentRow
<1>2. LatestVersion(ch) = revision[ch]
  BY LatestIsRevision DEF Inv, TablesOK
<1>3. v \in version /\ v \in VersionRow /\ v.character = ch
  BY <1>1 DEF VersionsOf, Inv, TypeOK
<1>4. QED
  BY <1>1, <1>2, <1>3 DEF SameVersion, ReadRow, VersionRow, Inv, TypeOK

LEMMA ListRowsInv ==
  ASSUME Inv, NEW c \in Caller, ListRows(c)
  PROVE  Inv'
<1>1. \A r \in fetched'[c] :
        r \in ReadRow /\ r.revision = r.version /\ \E v \in version : SameVersion(v, r)
  BY CurrentRowOK DEF ListRows, Inv, TypeOK
<1>2. TypeOK'
  BY <1>1, GoToTyped DEF ListRows, Inv, TypeOK, tables, Step, ControlTyped
<1>3. CallerOK(c)'
  BY <1>1 DEF ListRows, GoTo, Inv, TypeOK, tables, CallerOK, RequestOK, ClaimOK, DraftOK,
     Drafting, FetchedOK, SameVersion
<1>4. OthersKept(c)
  BY DEF ListRows, GoTo, Inv, TypeOK, tables, OthersKept, SameRequest
<1>5. QED
  BY <1>2, <1>3, <1>4, StepOfOne, ViewKept DEF RowsKept, ListRows, tables

\* The images joined to a row that was read are those of that very version.
LEMMA WithImagesOK ==
  ASSUME Inv, NEW rows \in SUBSET ReadRow,
         \A r \in rows : \E v \in version : SameVersion(v, r),
         NEW x \in WithImages(rows)
  PROVE  /\ x \in SeenRow
         /\ \E r \in rows : x.revision = r.revision /\ x.version = r.version
         /\ \E v \in version : Written(v, x.revision) = x
<1> DEFINE Pick(r) == CHOOSE v \in version :
                        v.character = r.character /\ v.version = r.version
<1>1. PICK r \in rows :
        x = [character |-> r.character, revision |-> r.revision, version |-> r.version,
             appearance |-> r.appearance, images |-> Pick(r).images]
  BY DEF WithImages
<1>2. PICK v \in version : SameVersion(v, r)
  BY <1>1
<1>3. Pick(r) \in version /\ Pick(r).character = r.character /\ Pick(r).version = r.version
  BY <1>2 DEF SameVersion
<1>4. Pick(r) = v
  BY <1>2, <1>3 DEF Inv, TablesOK, RevisionCountsVersions, VersionsOf, SameVersion, TypeOK, VersionRow
<1> HIDE DEF Pick
<1>5. v \in VersionRow /\ r \in ReadRow
  BY <1>1 DEF Inv, TypeOK
<1>6. x \in SeenRow
  BY <1>1, <1>4, <1>5 DEF SeenRow, ReadRow, VersionRow
<1>7. Written(v, x.revision) = x
  BY <1>1, <1>2, <1>4 DEF Written, SameVersion
<1>8. QED
  BY <1>1, <1>6, <1>7

LEMMA ListImagesInv ==
  ASSUME Inv, NEW c \in Caller, ListImages(c)
  PROVE  Inv'
<1>1. \A x \in WithImages(fetched[c]) :
        /\ x \in SeenRow
        /\ x.revision = x.version
        /\ \E v \in version : Written(v, x.revision) = x
  BY WithImagesOK DEF ListImages, Inv, TypeOK, CallerOK, FetchedOK
<1>2. TypeOK'
  BY <1>1, AnswerTyped DEF ListImages, Inv, TypeOK, tables, AnswerKind, ControlTyped
<1>3. CallerOK(c)'
  BY DEF ListImages, Answer, Inv, TypeOK, tables, CallerOK, RequestOK, ClaimOK, DraftOK,
     Drafting, FetchedOK
<1>4. OthersKept(c)
  BY DEF ListImages, Answer, Inv, TypeOK, tables, OthersKept, SameRequest
<1>5. ReadsAreVersions'
  BY <1>1 DEF ListImages, Inv, TypeOK, tables, ReadsAreVersions, Written
<1>6. QED
  BY <1>2, <1>3, <1>4, <1>5, StepOfOne DEF RowsKept, ListImages, tables

LEMMA GetHistoryInv ==
  ASSUME Inv, NEW c \in Caller, GetHistory(c)
  PROVE  Inv'
<1>1. PICK w \in Workspace, s \in Series, ch \in Character :
        /\ Begin(c, Reading("history", w, s, ch), "historyRows")
        /\ UNCHANGED <<tables, draft, fetched, view>>
  BY DEF GetHistory
<1> DEFINE r == Reading("history", w, s, ch)
<1>2. r \in Request /\ r.character = ch
  BY ReadingTyped
<1> HIDE DEF r
<1>3. Begin(c, r, "historyRows")
  BY <1>1 DEF r
<1>4. TypeOK'
  BY <1>1, <1>2, <1>3, BeginTyped DEF Inv, TypeOK, tables, Step, ControlTyped
<1>5. CallerOK(c)'
  BY <1>1, <1>2, <1>3 DEF Inv, TypeOK, CallerOK, Begin, tables, RequestOK, ClaimOK, DraftOK,
     Drafting, FetchedOK, SameVersion
<1>6. OthersKept(c)
  BY <1>1, <1>3 DEF Inv, TypeOK, Begin, tables, OthersKept, SameRequest
<1>7. QED
  BY <1>1, <1>4, <1>5, <1>6, StepOfOne, ViewKept DEF RowsKept, tables

LEMMA HistoryRowsInv ==
  ASSUME Inv, NEW c \in Caller, HistoryRows(c)
  PROVE  Inv'
<1>1. \A r \in fetched'[c] : r \in ReadRow /\ \E v \in version : SameVersion(v, r)
  <2> SUFFICES ASSUME NEW r \in fetched'[c]
               PROVE  r \in ReadRow /\ \E v \in version : SameVersion(v, r)
    OBVIOUS
  <2>1. PICK v \in VersionsOf(input[c].character) :
          r = [character |-> v.character, revision |-> 0, version |-> v.version,
               appearance |-> v.appearance]
    BY DEF HistoryRows, Inv, TypeOK
  <2>2. v \in version /\ v \in VersionRow
    BY <2>1 DEF VersionsOf, Inv, TypeOK
  <2>3. QED
    BY <2>1, <2>2 DEF ReadRow, VersionRow, SameVersion
<1>2. TypeOK'
  BY <1>1, GoToTyped DEF HistoryRows, Inv, TypeOK, tables, Step, ControlTyped
<1>3. CallerOK(c)'
  BY <1>1 DEF HistoryRows, GoTo, Inv, TypeOK, tables, CallerOK, RequestOK, ClaimOK, DraftOK,
     Drafting, FetchedOK, SameVersion
<1>4. OthersKept(c)
  BY DEF HistoryRows, GoTo, Inv, TypeOK, tables, OthersKept, SameRequest
<1>5. QED
  BY <1>2, <1>3, <1>4, StepOfOne, ViewKept DEF RowsKept, HistoryRows, tables

LEMMA HistoryImagesInv ==
  ASSUME Inv, NEW c \in Caller, HistoryImages(c)
  PROVE  Inv'
<1>1. WithImages(fetched[c]) \in SUBSET SeenRow
  BY WithImagesOK DEF Inv, TypeOK, CallerOK, FetchedOK
<1>2. PICK kind \in {"notFound", "history"}, rows \in SUBSET SeenRow : Answer(c, kind, rows)
  BY <1>1 DEF HistoryImages
<1>3. TypeOK'
  BY <1>2, AnswerTyped DEF HistoryImages, Inv, TypeOK, tables, AnswerKind, ControlTyped
<1>4. CallerOK(c)'
  BY <1>2 DEF HistoryImages, Answer, Inv, TypeOK, tables, CallerOK, RequestOK, ClaimOK, DraftOK,
     Drafting, FetchedOK
<1>5. OthersKept(c)
  BY <1>2 DEF HistoryImages, Answer, Inv, TypeOK, tables, OthersKept, SameRequest
<1>6. QED
  BY <1>3, <1>4, <1>5, StepOfOne, ViewKept DEF RowsKept, HistoryImages, tables

-----------------------------------------------------------------------------
(* Writes.                                                                 *)

\* The server undoes a transaction: nothing committed, no lock of others lost.
LEMMA RollBackStep ==
  ASSUME Inv, NEW c \in Caller, RollBack(c), ControlTyped', UNCHANGED <<assetStatus, view>>,
         pc'[c] = "idle", fetched'[c] = {} \/ fetched'[c] = fetched[c],
         fetched' \in [Caller -> SUBSET ReadRow],
         \A d \in Caller \ {c} : pc'[d] = pc[d] /\ input'[d] = input[d] /\ fetched'[d] = fetched[d]
  PROVE  Inv'
<1>1. TypeOK'
  BY CharactersAssumption DEF RollBack, Unlock, Inv, TypeOK, ControlTyped
<1>2. CallerOK(c)'
  BY DEF RollBack, Inv, TypeOK, CallerOK, RequestOK, ClaimOK, DraftOK, Drafting, FetchedOK,
     SameVersion
<1>3. OthersKept(c)
  BY DEF RollBack, Unlock, Inv, TypeOK, OthersKept, SameRequest
<1>4. QED
  BY <1>1, <1>2, <1>3, StepOfOne, ViewKept DEF RowsKept, RollBack

LEMMA PostCharacterInv ==
  ASSUME Inv, NEW c \in Caller, PostCharacter(c)
  PROVE  Inv'
<1>1. PICK w \in Workspace, s \in Series, ap \in Appearance, im \in ImageList :
        LET r == [kind |-> "create", workspace |-> w, series |-> s, character |-> None,
                  revision |-> 0, readVersion |-> 0, appearance |-> ap, images |-> im]
        IN \/ /\ Refuse(c)
              /\ UNCHANGED <<tables, draft, fetched, view>>
           \/ /\ Begin(c, r, "pin")
              /\ \E ch \in Character :
                   /\ revision[ch] = 0
                   /\ rowLock[ch] = None
                   /\ rowLock' = [rowLock EXCEPT ![ch] = c]
                   /\ draft' = [draft EXCEPT ![c] =
                        [character |-> ch, version |-> 1, appearance |-> ap, images |-> im,
                         readVersion |-> 0]]
              /\ UNCHANGED <<revision, home, version, assetStatus, fetched, view>>
  BY DEF PostCharacter
<1> DEFINE r == [kind |-> "create", workspace |-> w, series |-> s, character |-> None,
                 revision |-> 0, readVersion |-> 0, appearance |-> ap, images |-> im]
<1>2. r \in Request /\ r.kind = "create"
  BY DEF Request
<1> HIDE DEF r
<1>3. CASE Refuse(c) /\ UNCHANGED <<tables, draft, fetched, view>>
  <2>1. TypeOK'
    BY <1>3, RefuseTyped DEF Inv, TypeOK, tables, ControlTyped
  <2>2. \A d \in Caller : SameRequest(d)
    BY <1>3 DEF Refuse, SameRequest
  <2>3. QED
    BY <1>3, <2>1, <2>2, CallerKept, TablesKept, ViewKept DEF Inv, tables, RowsKept
<1>4. CASE ~(Refuse(c) /\ UNCHANGED <<tables, draft, fetched, view>>)
  <2>1. /\ Begin(c, r, "pin")
        /\ UNCHANGED <<revision, home, version, assetStatus, fetched, view>>
    BY <1>1, <1>4 DEF r
  <2>2. PICK ch \in Character :
          /\ revision[ch] = 0
          /\ rowLock[ch] = None
          /\ rowLock' = [rowLock EXCEPT ![ch] = c]
          /\ draft' = [draft EXCEPT ![c] =
               [character |-> ch, version |-> 1, appearance |-> ap, images |-> im,
                readVersion |-> 0]]
    BY <1>1, <1>4
  <2>3. TypeOK'
    BY <1>2, <2>1, <2>2, BeginTyped DEF Inv, TypeOK, Step, ControlTyped, VersionRow
  <2>4. CallerOK(c)'
    BY <1>2, <2>1, <2>2 DEF Inv, TypeOK, CallerOK, Begin, RequestOK, ClaimOK, DraftOK,
       Drafting, FetchedOK, SameVersion, VersionRow
  <2>5. OthersKept(c)
    BY <2>1, <2>2, CharactersAssumption DEF Inv, TypeOK, Begin, OthersKept, SameRequest
  <2>6. QED
    BY <2>1, <2>3, <2>4, <2>5, StepOfOne, ViewKept DEF RowsKept
<1>5. QED
  BY <1>3, <1>4

LEMMA PostVersionInv ==
  ASSUME Inv, NEW c \in Caller, PostVersion(c)
  PROVE  Inv'
<1>1. PICK seen \in view[c], w \in Workspace, s \in Series, ap \in Appearance,
           im \in ImageList :
        /\ Begin(c, [kind |-> "append", workspace |-> w, series |-> s,
                     character |-> seen.character, revision |-> seen.revision,
                     readVersion |-> seen.version, appearance |-> ap, images |-> im], "claim")
        /\ UNCHANGED <<tables, draft, fetched, view>>
  BY DEF PostVersion
<1> DEFINE r == [kind |-> "append", workspace |-> w, series |-> s,
                 character |-> seen.character, revision |-> seen.revision,
                 readVersion |-> seen.version, appearance |-> ap, images |-> im]
<1>2. /\ seen \in SeenRow
      /\ seen.revision = seen.version
      /\ seen.revision \in 1..revision[seen.character]
  <2>1. seen \in SeenRow /\ seen.revision = seen.version
    BY DEF Inv, TypeOK, ReadsAreVersions
  <2>2. PICK v \in version : Written(v, seen.revision) = seen
    BY DEF Inv, ReadsAreVersions
  <2>3. v \in VersionsOf(seen.character) /\ v.version = seen.version
    BY <2>1, <2>2 DEF Written, SeenRow, VersionsOf
  <2>4. seen.character \in Character
    BY <2>1 DEF SeenRow
  <2>5. QED
    BY <2>1, <2>3, <2>4 DEF Inv, TablesOK, RevisionCountsVersions
<1>3. /\ r \in Request
      /\ r.kind = "append" /\ r.character \in Character
      /\ r.appearance \in Appearance /\ r.images \in ImageList
      /\ r.readVersion = r.revision /\ r.revision \in 1..revision[r.character]
  BY <1>2 DEF Request, SeenRow
<1> HIDE DEF r
<1>4. Begin(c, r, "claim")
  BY <1>1 DEF r
<1>5. TypeOK'
  BY <1>1, <1>3, <1>4, BeginTyped DEF Inv, TypeOK, tables, Step, ControlTyped
<1>6. CallerOK(c)'
  BY <1>1, <1>3, <1>4 DEF Inv, TypeOK, CallerOK, Begin, tables, RequestOK, ClaimOK, DraftOK,
     Drafting, FetchedOK, SameVersion
<1>7. OthersKept(c)
  BY <1>1, <1>4 DEF Inv, TypeOK, Begin, tables, OthersKept, SameRequest
<1>8. QED
  BY <1>1, <1>5, <1>6, <1>7, StepOfOne, ViewKept DEF RowsKept, tables

LEMMA ClaimInv ==
  ASSUME Inv, NEW c \in Caller, Claim(c)
  PROVE  Inv'
<1>1. CASE /\ Matches(c)
           /\ rowLock[input[c].character] = None
           /\ rowLock' = [rowLock EXCEPT ![input[c].character] = c]
           /\ GoTo(c, "claim", "readLatest")
  <2>1. input[c].character \in Character
    BY DEF Claim, Inv, CallerOK, RequestOK
  <2>2. TypeOK'
    BY <1>1, <2>1, GoToTyped DEF Claim, Inv, TypeOK, Step, ControlTyped
  <2>3. CallerOK(c)'
    BY <1>1, <2>1 DEF Claim, GoTo, Matches, Inv, TypeOK, CallerOK, RequestOK, ClaimOK, DraftOK,
       Drafting, FetchedOK, SameVersion
  <2>4. OthersKept(c)
    BY <1>1, <2>1, CharactersAssumption DEF Claim, GoTo, Inv, TypeOK, OthersKept, SameRequest
  <2>5. QED
    BY <2>2, <2>3, <2>4, StepOfOne, ViewKept DEF RowsKept, Claim
<1>2. CASE ~Matches(c) /\ GoTo(c, "claim", "classify") /\ UNCHANGED rowLock
  <2>1. TypeOK'
    BY <1>2, GoToTyped DEF Claim, Inv, TypeOK, Step, ControlTyped
  <2>2. CallerOK(c)'
    <3>1. /\ pc[c] = "claim" /\ pc'[c] = "classify"
          /\ UNCHANGED <<revision, home, version, rowLock, input, draft, fetched>>
      BY <1>2 DEF Claim, GoTo, Inv, TypeOK
    <3>2. CallerOK(c) /\ input[c].character \in Character
      BY <3>1 DEF Inv, CallerOK, RequestOK
    <3>3. ReachesCharacter(c, input[c]) => revision[input[c].character] > input[c].revision
      <4> SUFFICES ASSUME ReachesCharacter(c, input[c])
                   PROVE  revision[input[c].character] > input[c].revision
        OBVIOUS
      <4>1. revision[input[c].character] \in Nat
        BY <3>2 DEF Inv, TypeOK
      <4>2. input[c].revision \in 1..revision[input[c].character]
        BY <3>1, <3>2 DEF CallerOK, RequestOK
      <4>3. revision[input[c].character] # input[c].revision
        BY <1>2 DEF Matches
      <4>4. QED
        BY <4>1, <4>2, <4>3
    <3>4. RequestOK(c)'
      BY <3>1, <3>2, <3>3 DEF CallerOK, RequestOK, ReachesCharacter
    <3>5. QED
      BY <3>1, <3>2, <3>4 DEF CallerOK, ClaimOK, DraftOK, Drafting, FetchedOK, SameVersion
  <2>3. OthersKept(c)
    BY <1>2 DEF Claim, GoTo, Inv, TypeOK, OthersKept, SameRequest
  <2>4. QED
    BY <2>1, <2>2, <2>3, StepOfOne, ViewKept DEF RowsKept, Claim
<1>3. QED
  BY <1>1, <1>2 DEF Claim

LEMMA ClassifyInv ==
  ASSUME Inv, NEW c \in Caller, Classify(c)
  PROVE  Inv'
<1>1. PICK kind \in {"stale", "notFound"} : Answer(c, kind, {})
  BY DEF Classify
<1>2. TypeOK'
  BY <1>1, AnswerTyped DEF Classify, Inv, TypeOK, tables, AnswerKind, ControlTyped
<1>3. CallerOK(c)'
  BY <1>1 DEF Classify, Answer, Inv, TypeOK, tables, CallerOK, RequestOK, ClaimOK, DraftOK,
     Drafting, FetchedOK, SameVersion
<1>4. OthersKept(c)
  BY <1>1 DEF Classify, Answer, Inv, TypeOK, tables, OthersKept, SameRequest
<1>5. QED
  BY <1>2, <1>3, <1>4, StepOfOne, ViewKept DEF RowsKept, Classify, tables

LEMMA ReadLatestInv ==
  ASSUME Inv, NEW c \in Caller, ReadLatest(c)
  PROVE  Inv'
<1>1. /\ input[c].character \in Character
      /\ input[c].kind = "append"
      /\ input[c].appearance \in Appearance
      /\ input[c].images \in ImageList
      /\ input[c].readVersion = input[c].revision
      /\ rowLock[input[c].character] = c
      /\ revision[input[c].character] = input[c].revision
      /\ revision[input[c].character] > 0
  BY DEF ReadLatest, GoTo, Inv, CallerOK, RequestOK, ClaimOK
<1>2. LatestVersion(input[c].character) = revision[input[c].character]
  BY <1>1, LatestIsRevision DEF Inv, TablesOK
<1> DEFINE v == [character |-> input[c].character,
                 version |-> LatestVersion(input[c].character) + 1,
                 appearance |-> input[c].appearance, images |-> input[c].images,
                 readVersion |-> input[c].readVersion]
<1>3. /\ v \in VersionRow
      /\ v.character = input[c].character
      /\ v.version = revision[v.character] + 1
      /\ v.readVersion = revision[v.character]
  BY <1>1, <1>2 DEF VersionRow, Inv, TypeOK
<1> HIDE DEF v
<1>4. draft' = [draft EXCEPT ![c] = v]
  BY DEF ReadLatest, v
<1>5. TypeOK'
  BY <1>3, <1>4, GoToTyped DEF ReadLatest, Inv, TypeOK, tables, Step, ControlTyped
<1>6. CallerOK(c)'
  BY <1>1, <1>3, <1>4 DEF ReadLatest, GoTo, Inv, TypeOK, tables, CallerOK, RequestOK, ClaimOK,
     DraftOK, Drafting, FetchedOK, SameVersion
<1>7. OthersKept(c)
  BY <1>4 DEF ReadLatest, GoTo, Inv, TypeOK, tables, OthersKept, SameRequest
<1>8. QED
  BY <1>5, <1>6, <1>7, StepOfOne, ViewKept DEF ReadLatest, tables, RowsKept

(***************************************************************************)
(* The version a transaction is about to insert is not committed: the      *)
(* unique constraint has nothing to refuse.                                *)
(***************************************************************************)
LEMMA KeyIsFree ==
  ASSUME Inv, NEW c \in Caller, pc[c] \in Drafting, NEW v \in version
  PROVE  ~SameKey(v, draft[c])
<1>1. /\ draft[c] \in VersionRow
      /\ draft[c].version = revision[draft[c].character] + 1
  BY DEF Inv, CallerOK, DraftOK
<1>2. v.character = draft[c].character => v.version \in 1..revision[draft[c].character]
  BY <1>1 DEF Inv, TablesOK, RevisionCountsVersions, VersionsOf, VersionRow
<1>3. revision[draft[c].character] \in Nat
  BY <1>1 DEF Inv, TypeOK, VersionRow
<1>4. QED
  BY <1>1, <1>2, <1>3 DEF SameKey

LEMMA InsertVersionInv ==
  ASSUME Inv, NEW c \in Caller, InsertVersion(c)
  PROVE  Inv'
<1>1. \A v \in version : ~SameKey(v, draft[c])
  BY KeyIsFree DEF InsertVersion, Drafting
<1>2. /\ GoTo(c, "insert", "pin")
      /\ UNCHANGED <<revision, home, version, rowLock, input, draft, answer>>
      /\ UNCHANGED <<assetStatus, fetched, view>>
  BY <1>1 DEF InsertVersion
<1>3. TypeOK'
  BY <1>2, GoToTyped DEF Inv, TypeOK, Step, ControlTyped
<1>4. CallerOK(c)'
  BY <1>2 DEF GoTo, Inv, TypeOK, CallerOK, RequestOK, ClaimOK, DraftOK, Drafting, FetchedOK,
     SameVersion
<1>5. OthersKept(c)
  BY <1>2 DEF GoTo, Inv, TypeOK, OthersKept, SameRequest
<1>6. QED
  BY <1>2, <1>3, <1>4, <1>5, StepOfOne, ViewKept DEF RowsKept

LEMMA PinInv ==
  ASSUME Inv, NEW c \in Caller, Pin(c)
  PROVE  Inv'
<1>1. CASE Usable(OwningWorkspace(c), draft[c].images)
  <2>1. /\ GoTo(c, "pin", "commit")
        /\ UNCHANGED <<revision, home, version, rowLock, input, draft, answer>>
        /\ UNCHANGED <<assetStatus, fetched, view>>
    BY <1>1 DEF Pin
  <2>2. TypeOK'
    BY <2>1, GoToTyped DEF Inv, TypeOK, Step, ControlTyped
  <2>3. Usable(OwningWorkspace(c), draft[c].images)'
    BY <1>1, <2>1 DEF Usable, OwningWorkspace
  <2>4. CallerOK(c)'
    BY <2>1, <2>3 DEF GoTo, Inv, TypeOK, CallerOK, RequestOK, ClaimOK, DraftOK, Drafting,
       FetchedOK, SameVersion
  <2>5. OthersKept(c)
    BY <2>1 DEF GoTo, Inv, TypeOK, OthersKept, SameRequest
  <2>6. QED
    BY <2>1, <2>2, <2>4, <2>5, StepOfOne, ViewKept DEF RowsKept
<1>2. CASE ~Usable(OwningWorkspace(c), draft[c].images)
  <2>1. RollBack(c) /\ Answer(c, "notFound", {}) /\ UNCHANGED <<assetStatus, fetched, view>>
    BY <1>2 DEF Pin
  <2>2. ControlTyped'
    BY <2>1, AnswerTyped DEF Inv, AnswerKind
  <2>3. QED
    BY <2>1, <2>2, RollBackStep DEF Answer, Inv, TypeOK
<1>3. QED
  BY <1>1, <1>2

LEMMA CrashInv ==
  ASSUME Inv, NEW c \in Caller, Crash(c)
  PROVE  Inv'
<1>1. ControlTyped'
  BY AnswerTyped DEF Crash, Inv, AnswerKind
<1>2. QED
  BY <1>1, RollBackStep DEF Crash, Answer, Inv, TypeOK

LEMMA SettleAssetInv ==
  ASSUME Inv, NEW a \in Asset, SettleAsset(a)
  PROVE  Inv'
<1>1. TypeOK'
  BY DEF SettleAsset, Inv, TypeOK
<1>2. RowsKept
  BY DEF SettleAsset, RowsKept, Inv, TypeOK
<1>3. \A d \in Caller : SameRequest(d)
  BY DEF SettleAsset, SameRequest
<1>4. QED
  BY <1>1, <1>2, <1>3, CallerKept, TablesKept, ViewKept DEF Inv, SettleAsset

(***************************************************************************)
(* Commit: the draft becomes the version after the last one, and nobody    *)
(* else holds the lock of its character.                                   *)
(***************************************************************************)
LEMMA CommitInv ==
  ASSUME Inv, NEW c \in Caller, Commit(c)
  PROVE  Inv'
<1> DEFINE v == draft[c]
           ch == draft[c].character
           rev == revision[ch] + 1
<1>1. /\ v \in VersionRow /\ ch \in Character
      /\ rowLock[ch] = c
      /\ v.version = rev
      /\ v.readVersion = v.version - 1
      /\ input[c] \in Request
      /\ input[c].kind \in {"create", "append"}
      /\ input[c].kind = "create" <=> revision[ch] = 0
      /\ Usable(OwningWorkspace(c), v.images)
  <2>1. pc[c] = "commit" /\ RequestOK(c) /\ DraftOK(c)
    BY DEF Commit, Inv, CallerOK
  <2>2. v \in VersionRow /\ ch \in Character /\ v.version = rev /\ v.readVersion = revision[ch]
    BY <2>1 DEF DraftOK, Drafting, VersionRow
  <2>3. revision[ch] \in Nat
    BY <2>2 DEF Inv, TypeOK
  <2>4. v.readVersion = v.version - 1
    BY <2>2, <2>3
  <2>5. QED
    BY <2>1, <2>2, <2>4 DEF DraftOK, RequestOK, Drafting
<1>2. /\ version' = version \cup {v}
      /\ revision' = [revision EXCEPT ![ch] = rev]
      /\ home' = [home EXCEPT ![ch] = IF input[c].kind = "create" THEN input[c].series ELSE @]
      /\ draft' = [draft EXCEPT ![c] = None]
      /\ Unlock(c)
      /\ UNCHANGED <<assetStatus, fetched>>
      /\ Answer(c, "written", {}) \/ Answer(c, "none", {})
      /\ \/ view' = [view EXCEPT ![c] =
              {r \in @ : r.character # ch} \cup {Written(v, rev)}]
         \/ UNCHANGED view
  BY DEF Commit
<1> HIDE DEF v, ch, rev
<1>3. revision[ch] \in Nat /\ rev = revision[ch] + 1 /\ v.character = ch
  BY <1>1 DEF Inv, TypeOK, v, ch, rev
<1>4. Written(v, rev) \in SeenRow
  BY <1>1, <1>3 DEF Written, SeenRow, VersionRow
<1>5. TypeOK'
  <2>1. ControlTyped'
    BY <1>2, AnswerTyped DEF Inv, AnswerKind
  <2>2. /\ revision' \in [Character -> Nat]
        /\ home' \in [Character -> Series \cup {None}]
        /\ version' \subseteq VersionRow
        /\ draft' \in [Caller -> VersionRow \cup {None}]
        /\ rowLock' \in [Character -> Caller \cup {None}]
    BY <1>1, <1>2, <1>3 DEF Inv, TypeOK, Unlock, Request
  <2>3. view' \in [Caller -> SUBSET SeenRow]
    BY <1>2, <1>4 DEF Inv, TypeOK
  <2>4. QED
    BY <1>2, <2>1, <2>2, <2>3 DEF Inv, TypeOK, ControlTyped
<1>6. TablesOK'
  <2>1. RevisionCountsVersions'
    <3> SUFFICES ASSUME NEW k \in Character
                 PROVE  /\ {w.version : w \in VersionsOf(k)'} = 1..revision'[k]
                        /\ \A w, x \in VersionsOf(k)' : w.version = x.version => w = x
      BY DEF RevisionCountsVersions
    <3>1. /\ {w.version : w \in VersionsOf(k)} = 1..revision[k]
          /\ \A w, x \in VersionsOf(k) : w.version = x.version => w = x
      BY DEF Inv, TablesOK, RevisionCountsVersions
    <3>2. CASE k # ch
      <4>1. VersionsOf(k)' = VersionsOf(k) /\ revision'[k] = revision[k]
        BY <1>1, <1>2, <1>3, <3>2 DEF VersionsOf, Inv, TypeOK
      <4>2. QED
        BY <3>1, <4>1
    <3>3. CASE k = ch
      <4>1. VersionsOf(k)' = VersionsOf(k) \cup {v} /\ revision'[k] = revision[k] + 1
        BY <1>1, <1>2, <1>3, <3>3 DEF VersionsOf, Inv, TypeOK
      <4>2. \A w \in VersionsOf(k) : w.version \in 1..revision[k]
        BY <3>1
      <4>3. QED
        BY <1>1, <1>3, <3>1, <3>3, <4>1, <4>2
    <3>4. QED
      BY <3>2, <3>3
  <2>2. NoLostUpdate'
    BY <1>1, <1>2 DEF Inv, TablesOK, NoLostUpdate
  <2>3. \A w \in version : home'[w.character] = home[w.character]
    <3> SUFFICES ASSUME NEW w \in version, w.character = ch, input[c].kind = "create"
                 PROVE  FALSE
      BY <1>1, <1>2 DEF Inv, TypeOK, VersionRow
    <3>1. w \in VersionsOf(ch)
      BY DEF VersionsOf
    <3>2. QED
      BY <1>1, <3>1 DEF Inv, TablesOK, RevisionCountsVersions
  <2>4. HomeOK'
    BY <1>1, <1>2, <1>3 DEF Inv, TypeOK, TablesOK, HomeOK, Request
  <2>5. home'[ch] \in Series /\ WorkspaceOf[home'[ch]] = OwningWorkspace(c)
    BY <1>1, <1>2, <1>3 DEF Inv, TypeOK, TablesOK, HomeOK, Request, OwningWorkspace, v, ch
  <2>6. PinsAreUsable'
    <3> SUFFICES ASSUME NEW w \in version'
                 PROVE  /\ home'[w.character] # None
                        /\ \A i \in DOMAIN w.images :
                             /\ assetStatus[w.images[i]] = "ready"
                             /\ AssetWorkspace[w.images[i]] = WorkspaceOf[home'[w.character]]
      BY <1>2 DEF PinsAreUsable
    <3>1. CASE w = v
      BY <1>1, <1>3, <2>5, <3>1, CharactersAssumption DEF Usable
    <3>2. CASE w \in version
      BY <2>3, <3>2 DEF Inv, TablesOK, PinsAreUsable
    <3>3. QED
      BY <1>2, <3>1, <3>2
  <2>7. QED
    BY <2>1, <2>2, <2>4, <2>6 DEF TablesOK
<1>7. ReadsAreVersions'
  <2>1. \A d \in Caller : \A r \in view[d] :
          r.revision = r.version /\ \E w \in version' : Written(w, r.revision) = r
    BY <1>2 DEF Inv, ReadsAreVersions
  <2>2. /\ Written(v, rev).revision = Written(v, rev).version
        /\ Written(v, Written(v, rev).revision) = Written(v, rev)
    BY <1>1 DEF Written
  <2>3. \A d \in Caller : \A r \in view'[d] : r \in view[d] \/ r = Written(v, rev)
    BY <1>2 DEF Inv, TypeOK
  <2>4. QED
    BY <1>2, <2>1, <2>2, <2>3 DEF ReadsAreVersions, Written
<1>8. CallerOK(c)'
  BY <1>2 DEF Answer, Inv, TypeOK, CallerOK, RequestOK, ClaimOK, DraftOK, Drafting, FetchedOK,
     SameVersion
<1>9. ASSUME NEW d \in Caller \ {c}
      PROVE  CallerOK(d)'
  <2>1. SameRequest(d)
    BY <1>2 DEF Answer, Inv, TypeOK, SameRequest
  <2>2. \A k \in Character : rowLock[k] = d => k # ch /\ rowLock'[k] = d
    BY <1>1, <1>2 DEF Unlock
  <2>3. \A k \in Character :
          /\ revision'[k] >= revision[k]
          /\ k # ch => revision'[k] = revision[k] /\ home'[k] = home[k]
          /\ revision[k] > 0 => home'[k] = home[k]
    BY <1>1, <1>2, <1>3 DEF Inv, TypeOK
  <2>4. CallerOK(d) /\ TypeOK
    BY DEF Inv
  <2>5. RequestOK(d)'
    BY <2>1, <2>3, <2>4, <1>5 DEF CallerOK, RequestOK, SameRequest, ReachesCharacter, TypeOK
  <2>6. ClaimOK(d)'
    BY <2>1, <2>2, <2>3, <2>4 DEF CallerOK, RequestOK, ClaimOK, SameRequest
  <2>7. pc[d] = "commit" => Usable(OwningWorkspace(d), draft[d].images)'
    BY <1>2, <2>1, <2>2, <2>3, <2>4 DEF CallerOK, DraftOK, Drafting, SameRequest, Usable,
       OwningWorkspace, VersionRow
  <2>8. DraftOK(d)'
    BY <2>1, <2>2, <2>3, <2>4, <2>7 DEF CallerOK, DraftOK, Drafting, SameRequest, OwningWorkspace,
       VersionRow
  <2>9. FetchedOK(d)'
    BY <1>2, <2>1, <2>4 DEF CallerOK, FetchedOK, SameRequest, SameVersion
  <2>10. QED
    BY <2>5, <2>6, <2>8, <2>9 DEF CallerOK
<1>10. QED
  BY <1>5, <1>6, <1>7, <1>8, <1>9 DEF Inv

-----------------------------------------------------------------------------
(* The invariant is inductive, and what the runs check follows from it.    *)

LEMMA NextInv == Inv /\ [Next]_vars => Inv'
<1> SUFFICES ASSUME Inv, [Next]_vars PROVE Inv'
  OBVIOUS
<1>1. CASE \E c \in Caller : GetCast(c) \/ ListRows(c) \/ ListImages(c)
  BY <1>1, GetCastInv, ListRowsInv, ListImagesInv
<1>2. CASE \E c \in Caller : GetHistory(c) \/ HistoryRows(c) \/ HistoryImages(c)
  BY <1>2, GetHistoryInv, HistoryRowsInv, HistoryImagesInv
<1>3. CASE \E c \in Caller : PostCharacter(c) \/ PostVersion(c) \/ Claim(c) \/ Classify(c)
  BY <1>3, PostCharacterInv, PostVersionInv, ClaimInv, ClassifyInv
<1>4. CASE \E c \in Caller : ReadLatest(c) \/ InsertVersion(c) \/ Pin(c) \/ Commit(c)
  BY <1>4, ReadLatestInv, InsertVersionInv, PinInv, CommitInv
<1>5. CASE \E c \in Caller : Crash(c)
  BY <1>5, CrashInv
<1>6. CASE \E a \in Asset : SettleAsset(a)
  BY <1>6, SettleAssetInv
<1>7. CASE UNCHANGED vars
  BY <1>7 DEF vars, Inv, TypeOK, TablesOK, RevisionCountsVersions, NoLostUpdate, PinsAreUsable,
     HomeOK, ReadsAreVersions, Written, CallerOK, RequestOK, ClaimOK, DraftOK, FetchedOK,
     VersionsOf, SameVersion, ReachesCharacter, Usable, OwningWorkspace
<1>8. QED
  BY <1>1, <1>2, <1>3, <1>4, <1>5, <1>6, <1>7 DEF Next, Handle

THEOREM InvAlways == Spec => []Inv
BY InitInv, NextInv, PTL DEF Spec

(***************************************************************************)
(* Type correctness: every statement leaves rows, requests and answers     *)
(* that the schema and the contracts allow.                                *)
(***************************************************************************)
THEOREM TypeCorrect == Spec => []TypeOK
<1>1. Inv => TypeOK
  BY DEF Inv
<1>2. QED
  BY <1>1, InvAlways, PTL

(***************************************************************************)
(* The versions of a character at revision n are exactly 1..n: the claim   *)
(* and the row commit together or not at all.                              *)
(***************************************************************************)
THEOREM VersionsFollowRevision == Spec => []RevisionCountsVersions
<1>1. Inv => RevisionCountsVersions
  BY DEF Inv, TablesOK
<1>2. QED
  BY <1>1, InvAlways, PTL

(***************************************************************************)
(* No member's version is appended on top of one its author never read.    *)
(***************************************************************************)
THEOREM UpdatesAreNotLost == Spec => []NoLostUpdate
<1>1. Inv => NoLostUpdate
  BY DEF Inv, TablesOK
<1>2. QED
  BY <1>1, InvAlways, PTL

(***************************************************************************)
(* Every pinned image is a ready asset of the workspace of the series.     *)
(***************************************************************************)
THEOREM PinsStayUsable == Spec => []PinsAreUsable
<1>1. Inv => PinsAreUsable
  BY DEF Inv, TablesOK
<1>2. QED
  BY <1>1, InvAlways, PTL

(***************************************************************************)
(* A cast read with two statements returns committed versions, each with   *)
(* its own images and its revision.                                        *)
(***************************************************************************)
THEOREM CastReadsAreVersions == Spec => []ReadsAreVersions
<1>1. Inv => ReadsAreVersions
  BY DEF Inv
<1>2. QED
  BY <1>1, InvAlways, PTL

(***************************************************************************)
(* The unique constraint on (character_id, version) never refuses a row.   *)
(***************************************************************************)
THEOREM UniqueConstraintNeverFires == Spec => []BackstopNeverFires
<1>1. Init => BackstopNeverFires
  BY DEF Init, BackstopNeverFires
<1>2. Inv /\ BackstopNeverFires /\ [Next]_vars => BackstopNeverFires'
  <2> SUFFICES ASSUME Inv, BackstopNeverFires, [Next]_vars,
                      NEW d \in Caller, answer'[d].kind = "error"
               PROVE  FALSE
    BY DEF BackstopNeverFires
  <2>1. answer[d].kind # "error" /\ TypeOK
    BY DEF BackstopNeverFires, Inv
  <2>2. ASSUME NEW c \in Caller, InsertVersion(c)
        PROVE  FALSE
    BY <2>1, <2>2, KeyIsFree DEF InsertVersion, Drafting
  <2>3. ASSUME NEW c \in Caller,
               \/ GetCast(c) \/ ListRows(c) \/ ListImages(c)
               \/ GetHistory(c) \/ HistoryRows(c) \/ HistoryImages(c)
        PROVE  FALSE
    BY <2>1, <2>3 DEF GetCast, ListRows, ListImages, GetHistory, HistoryRows, HistoryImages,
       Begin, Refuse, Answer, TypeOK
  <2>4. ASSUME NEW c \in Caller,
               \/ PostCharacter(c) \/ PostVersion(c) \/ Claim(c) \/ Classify(c)
               \/ ReadLatest(c) \/ Pin(c) \/ Commit(c) \/ Crash(c)
        PROVE  FALSE
    BY <2>1, <2>4 DEF PostCharacter, PostVersion, Claim, Classify, ReadLatest, Pin, Commit, Crash,
       Begin, Refuse, Answer, TypeOK
  <2>5. ASSUME NEW a \in Asset, SettleAsset(a)
        PROVE  FALSE
    BY <2>1, <2>5 DEF SettleAsset
  <2>6. CASE UNCHANGED vars
    BY <2>1, <2>6 DEF vars
  <2>7. QED
    BY <2>2, <2>3, <2>4, <2>5, <2>6 DEF Next, Handle
<1>3. QED
  BY <1>1, <1>2, InvAlways, PTL DEF Spec

(***************************************************************************)
(* Only a client that has been overtaken by a committed version is told    *)
(* that its revision is stale, and only about a character it can reach.    *)
(***************************************************************************)
THEOREM StaleMeansOvertaken == Spec => StaleOnlyIfSuperseded
<1>1. Inv /\ [Next]_vars => [OnlySupersededTurnsStale]_vars
  <2> SUFFICES ASSUME Inv, Next, NEW d \in Caller,
                      answer[d].kind # "stale", answer'[d].kind = "stale"
               PROVE  /\ revision[input[d].character] > input[d].revision
                      /\ <<d, WorkspaceOf[home[input[d].character]]>> \in Member
    BY DEF OnlySupersededTurnsStale
  <2>1. TypeOK
    BY DEF Inv
  <2>2. ASSUME NEW c \in Caller, Classify(c)
        PROVE  /\ revision[input[d].character] > input[d].revision
               /\ <<d, WorkspaceOf[home[input[d].character]]>> \in Member
    <3>1. c = d
      BY <2>1, <2>2 DEF Classify, Answer, TypeOK
    <3>2. ReachesCharacter(c, input[c]) /\ pc[c] = "classify"
      BY <2>1, <2>2, <3>1 DEF Classify, Answer, TypeOK
    <3>3. QED
      BY <3>1, <3>2 DEF Inv, CallerOK, RequestOK, ReachesCharacter, WithinReachableSeries
  <2>3. ASSUME NEW c \in Caller,
               \/ GetCast(c) \/ ListRows(c) \/ ListImages(c)
               \/ GetHistory(c) \/ HistoryRows(c) \/ HistoryImages(c)
        PROVE  FALSE
    BY <2>1, <2>3 DEF GetCast, ListRows, ListImages, GetHistory, HistoryRows, HistoryImages,
       Begin, Refuse, Answer, TypeOK
  <2>4. ASSUME NEW c \in Caller,
               \/ PostCharacter(c) \/ PostVersion(c) \/ Claim(c) \/ InsertVersion(c)
               \/ ReadLatest(c) \/ Pin(c) \/ Commit(c) \/ Crash(c)
        PROVE  FALSE
    BY <2>1, <2>4 DEF PostCharacter, PostVersion, Claim, InsertVersion, ReadLatest, Pin, Commit,
       Crash, Begin, Refuse, Answer, TypeOK
  <2>5. ASSUME NEW a \in Asset, SettleAsset(a)
        PROVE  FALSE
    BY <2>5 DEF SettleAsset
  <2>6. QED
    BY <2>2, <2>3, <2>4, <2>5 DEF Next, Handle
<1>2. QED
  BY <1>1, InvAlways, PTL DEF Spec, StaleOnlyIfSuperseded

-----------------------------------------------------------------------------
(* The rows of a character only grow at their end, and the series it is in *)
(* does not change: what one statement read, the next one still finds.     *)

UpTo(ch, n) == {w \in VersionsOf(ch) : w.version <= n}

RowsStand ==
  \A ch \in Character :
    /\ revision'[ch] \in Nat /\ revision'[ch] >= revision[ch]
    /\ revision[ch] > 0 => home'[ch] = home[ch]
    /\ \A n \in 1..revision[ch] : UpTo(ch, n)' = UpTo(ch, n)

LEMMA UnchangedRowsStand ==
  ASSUME Inv, UNCHANGED <<revision, home, version>>
  PROVE  RowsStand
BY DEF RowsStand, UpTo, VersionsOf, Inv, TypeOK

\* The draft of a committing transaction is the next version of its character.
LEMMA CommitAppends ==
  ASSUME Inv, NEW c \in Caller, Commit(c)
  PROVE  LET v == draft[c]
             ch == draft[c].character
         IN /\ v \in VersionRow /\ ch \in Character
            /\ v.version = revision[ch] + 1
            /\ v.readVersion = revision[ch]
            /\ revision[ch] \in Nat
            /\ version' = version \cup {v}
            /\ revision' = [revision EXCEPT ![ch] = v.version]
            /\ \A k \in Character : revision[k] > 0 => home'[k] = home[k]
            /\ home' \in [Character -> Series \cup {None}]
            /\ input[c].kind = "create" <=> revision[ch] = 0
            /\ home'[ch] = IF input[c].kind = "create" THEN input[c].series ELSE home[ch]
<1> DEFINE v == draft[c]
           ch == draft[c].character
<1>1. pc[c] = "commit" /\ DraftOK(c) /\ RequestOK(c) /\ TypeOK
  BY DEF Commit, Inv, CallerOK
<1>2. /\ v \in VersionRow /\ ch \in Character
      /\ v.version = revision[ch] + 1
      /\ v.readVersion = revision[ch]
      /\ input[c].kind = "create" <=> revision[ch] = 0
      /\ input[c] \in Request
  BY <1>1 DEF DraftOK, RequestOK, Drafting, VersionRow
<1>3. /\ version' = version \cup {v}
      /\ revision' = [revision EXCEPT ![ch] = revision[ch] + 1]
      /\ home' = [home EXCEPT ![ch] = IF input[c].kind = "create" THEN input[c].series ELSE @]
  BY DEF Commit
<1> HIDE DEF v, ch
<1>4. revision[ch] \in Nat /\ home \in [Character -> Series \cup {None}]
  BY <1>1, <1>2 DEF TypeOK
<1>5. /\ home' \in [Character -> Series \cup {None}]
      /\ home'[ch] = IF input[c].kind = "create" THEN input[c].series ELSE home[ch]
      /\ \A k \in Character : revision[k] > 0 => home'[k] = home[k]
  BY <1>2, <1>3, <1>4 DEF Request
<1>6. QED
  BY <1>2, <1>3, <1>4, <1>5 DEF v, ch

LEMMA CommittedRowsStand ==
  ASSUME Inv, NEW c \in Caller, Commit(c)
  PROVE  RowsStand
<1> DEFINE v == draft[c]
           ch == draft[c].character
<1>1. /\ v \in VersionRow /\ ch \in Character /\ v.character = ch
      /\ v.version = revision[ch] + 1
      /\ version' = version \cup {v}
      /\ revision' = [revision EXCEPT ![ch] = v.version]
      /\ \A k \in Character : revision[k] > 0 => home'[k] = home[k]
  BY CommitAppends
<1> HIDE DEF v, ch
<1>2. revision \in [Character -> Nat] /\ version \subseteq VersionRow
  BY DEF Inv, TypeOK
<1>3. \A k \in Character : revision'[k] \in Nat /\ revision'[k] >= revision[k]
  BY <1>1, <1>2
<1>4. ASSUME NEW k \in Character, NEW n \in 1..revision[k]
      PROVE  UpTo(k, n)' = UpTo(k, n)
  <2>1. ~(v.character = k /\ v.version <= n)
    BY <1>1, <1>2
  <2>2. UpTo(k, n)' = {w \in version \cup {v} : w.character = k /\ w.version <= n}
    BY <1>1 DEF UpTo, VersionsOf
  <2>3. UpTo(k, n) = {w \in version : w.character = k /\ w.version <= n}
    BY DEF UpTo, VersionsOf
  <2>4. QED
    BY <2>1, <2>2, <2>3
<1>5. QED
  BY <1>1, <1>3, <1>4 DEF RowsStand

\* Every statement but a commit leaves the rows of the cast alone.
OtherStatement(c) ==
  \/ GetCast(c) \/ ListRows(c) \/ ListImages(c)
  \/ GetHistory(c) \/ HistoryRows(c) \/ HistoryImages(c)
  \/ PostCharacter(c) \/ PostVersion(c) \/ Claim(c) \/ Classify(c)
  \/ ReadLatest(c) \/ InsertVersion(c) \/ Pin(c) \/ Crash(c)

LEMMA OnlyCommitWrites ==
  ASSUME NEW c \in Caller, OtherStatement(c)
  PROVE  UNCHANGED <<revision, home, version>>
<1>1. CASE GetCast(c) \/ ListRows(c) \/ ListImages(c)
  BY <1>1 DEF GetCast, ListRows, ListImages, tables
<1>2. CASE GetHistory(c) \/ HistoryRows(c) \/ HistoryImages(c)
  BY <1>2 DEF GetHistory, HistoryRows, HistoryImages, tables
<1>3. CASE PostCharacter(c) \/ PostVersion(c) \/ Claim(c) \/ Classify(c)
  BY <1>3 DEF PostCharacter, PostVersion, Claim, Classify, tables
<1>4. CASE ReadLatest(c) \/ InsertVersion(c) \/ Pin(c) \/ Crash(c)
  BY <1>4 DEF ReadLatest, InsertVersion, Pin, Crash, RollBack, tables
<1>5. QED
  BY <1>1, <1>2, <1>3, <1>4 DEF OtherStatement

LEMMA NextCases ==
  ASSUME [Next]_vars
  PROVE  \/ \E c \in Caller : OtherStatement(c) \/ Commit(c)
         \/ \E a \in Asset : SettleAsset(a)
         \/ UNCHANGED vars
BY DEF Next, Handle, OtherStatement

LEMMA StepStands ==
  ASSUME Inv, [Next]_vars
  PROVE  RowsStand
<1>1. CASE \E c \in Caller : OtherStatement(c)
  BY <1>1, OnlyCommitWrites, UnchangedRowsStand
<1>2. CASE \E c \in Caller : Commit(c)
  BY <1>2, CommittedRowsStand
<1>3. CASE \E a \in Asset : SettleAsset(a)
  BY <1>3, UnchangedRowsStand DEF SettleAsset
<1>4. CASE UNCHANGED vars
  BY <1>4, UnchangedRowsStand DEF vars
<1>5. QED
  BY <1>1, <1>2, <1>3, <1>4, NextCases

\* What a caller's own statements may change, others leave.
SameClient(d) ==
  /\ SameRequest(d)
  /\ view'[d] = view[d]
  /\ answer'[d] = answer[d]

LEMMA OneClientMoves ==
  ASSUME Inv, NEW c \in Caller, NEW d \in Caller \ {c}, OtherStatement(c) \/ Commit(c)
  PROVE  SameClient(d)
<1>1. TypeOK
  BY DEF Inv
<1>2. CASE GetCast(c) \/ ListRows(c) \/ ListImages(c)
  BY <1>1, <1>2 DEF GetCast, ListRows, ListImages, Begin, Refuse, GoTo, Answer, TypeOK, SameClient,
     SameRequest
<1>3. CASE GetHistory(c) \/ HistoryRows(c)
  BY <1>1, <1>3 DEF GetHistory, HistoryRows, Begin, GoTo, TypeOK, SameClient, SameRequest
<1>4. CASE HistoryImages(c)
  BY <1>1, <1>4 DEF HistoryImages, Answer, TypeOK, SameClient, SameRequest
<1>5. CASE PostCharacter(c) \/ PostVersion(c)
  BY <1>1, <1>5 DEF PostCharacter, PostVersion, Begin, Refuse, TypeOK, SameClient, SameRequest
<1>6. CASE Claim(c) \/ Classify(c)
  BY <1>1, <1>6 DEF Claim, Classify, GoTo, Answer, TypeOK, SameClient, SameRequest
<1>7. CASE ReadLatest(c) \/ InsertVersion(c) \/ Pin(c)
  BY <1>1, <1>7 DEF ReadLatest, InsertVersion, Pin, RollBack, GoTo, Answer, TypeOK, SameClient,
     SameRequest
<1>8. CASE Crash(c) \/ Commit(c)
  BY <1>1, <1>8 DEF Crash, Commit, RollBack, Answer, TypeOK, SameClient, SameRequest
<1>9. QED
  BY <1>2, <1>3, <1>4, <1>5, <1>6, <1>7, <1>8 DEF OtherStatement

\* A step is one of d's own, or d's request, view and answer stay.
LEMMA OwnStepOrNone ==
  ASSUME Inv, [Next]_vars, NEW d \in Caller
  PROVE  OtherStatement(d) \/ Commit(d) \/ SameClient(d)
<1>1. CASE \E c \in Caller : OtherStatement(c) \/ Commit(c)
  BY <1>1, OneClientMoves
<1>2. CASE \E a \in Asset : SettleAsset(a)
  BY <1>2 DEF SettleAsset, SameClient, SameRequest
<1>3. CASE UNCHANGED vars
  BY <1>3 DEF vars, SameClient, SameRequest
<1>4. QED
  BY <1>1, <1>2, <1>3, NextCases

-----------------------------------------------------------------------------
(* Scope.  The scope of a request is checked once, by its first statement, *)
(* and stays true of what later statements read and write, because the     *)
(* series of a committed character never changes.                          *)

InScope(c, s) == <<c, WorkspaceOf[s]>> \in Member

ListScopeOK(c) ==
  /\ pc[c] \in {"listRows", "listImages"} => InScope(c, input[c].series)
  /\ pc[c] = "listImages" =>
       \A r \in fetched[c] : home[r.character] = input[c].series

WriteScopeOK(c) ==
  /\ pc[c] = "readLatest" => InScope(c, home[input[c].character])
  /\ pc[c] \in Drafting => <<c, OwningWorkspace(c)>> \in Member

ViewScopeOK(c) == \A r \in view[c] : InScope(c, home[r.character])

ScopeOK(c) == ListScopeOK(c) /\ WriteScopeOK(c) /\ ViewScopeOK(c)

\* A row of a view or of a read names a committed character.
LEMMA SeenIsCommitted ==
  ASSUME Inv, NEW c \in Caller
  PROVE  /\ \A r \in view[c] : r.character \in Character /\ revision[r.character] > 0
         /\ \A r \in fetched[c] : r.character \in Character /\ revision[r.character] > 0
<1>1. \A v \in version : v.character \in Character /\ revision[v.character] > 0
  <2> SUFFICES ASSUME NEW v \in version
               PROVE  v.character \in Character /\ revision[v.character] > 0
    OBVIOUS
  <2>1. v \in VersionRow /\ v \in VersionsOf(v.character) /\ revision \in [Character -> Nat]
    BY DEF Inv, TypeOK, VersionsOf
  <2>2. v.character \in Character /\ v.version \in 1..revision[v.character]
    BY <2>1 DEF VersionRow, Inv, TablesOK, RevisionCountsVersions
  <2>3. QED
    BY <2>1, <2>2
<1>2. \A r \in view[c] : \E v \in version : v.character = r.character
  BY DEF Inv, ReadsAreVersions, Written
<1>3. \A r \in fetched[c] : \E v \in version : v.character = r.character
  BY DEF Inv, CallerOK, FetchedOK, SameVersion
<1>4. QED
  BY <1>1, <1>2, <1>3

LEMMA ScopeKept ==
  ASSUME Inv, RowsStand, NEW d \in Caller, SameClient(d), ScopeOK(d)
  PROVE  ScopeOK(d)'
<1>1. \A r \in view[d] \cup fetched[d] : home'[r.character] = home[r.character]
  BY SeenIsCommitted DEF RowsStand
<1>2. ListScopeOK(d)' /\ ViewScopeOK(d)'
  BY <1>1 DEF ScopeOK, ListScopeOK, ViewScopeOK, InScope, SameClient, SameRequest
<1>3. CallerOK(d) /\ TypeOK
  BY DEF Inv
<1>4. pc[d] = "readLatest" => home'[input[d].character] = home[input[d].character]
  BY <1>3 DEF CallerOK, RequestOK, ClaimOK, RowsStand
<1>5. ASSUME pc[d] \in Drafting
      PROVE  OwningWorkspace(d)' = OwningWorkspace(d)
  <2>1. CASE input[d].kind = "create"
    BY <2>1 DEF OwningWorkspace, SameClient, SameRequest
  <2>2. CASE input[d].kind # "create"
    <3>1. draft[d].character \in Character /\ revision[draft[d].character] # 0
      BY <1>3, <1>5, <2>2 DEF CallerOK, DraftOK, VersionRow
    <3>2. revision[draft[d].character] > 0
      BY <1>3, <3>1 DEF TypeOK
    <3>3. home'[draft[d].character] = home[draft[d].character]
      BY <3>1, <3>2 DEF RowsStand
    <3>4. QED
      BY <2>2, <3>3 DEF OwningWorkspace, SameClient, SameRequest
  <2>3. QED
    BY <2>1, <2>2
<1>6. WriteScopeOK(d)'
  BY <1>4, <1>5 DEF ScopeOK, WriteScopeOK, InScope, SameClient, SameRequest, Drafting
<1>7. QED
  BY <1>2, <1>6 DEF ScopeOK

LEMMA CommitScope ==
  ASSUME Inv, NEW c \in Caller, Commit(c), ScopeOK(c)
  PROVE  ScopeOK(c)'
<1> DEFINE ch == draft[c].character
<1>1. /\ ch \in Character /\ draft[c] \in VersionRow
      /\ home'[ch] = IF input[c].kind = "create" THEN input[c].series ELSE home[ch]
  BY CommitAppends
<1>2. <<c, OwningWorkspace(c)>> \in Member /\ pc'[c] = "idle"
  BY DEF Commit, Answer, Inv, TypeOK, ScopeOK, WriteScopeOK, Drafting
<1>3. InScope(c, home'[ch])
  BY <1>1, <1>2 DEF OwningWorkspace, InScope
<1>4. \A r \in view[c] : InScope(c, home'[r.character])
  BY SeenIsCommitted, CommittedRowsStand DEF ScopeOK, ViewScopeOK, RowsStand
<1>5. \A r \in view'[c] : r \in view[c] \/ r.character = ch
  BY DEF Commit, Written, Inv, TypeOK
<1>6. ViewScopeOK(c)'
  BY <1>3, <1>4, <1>5 DEF ViewScopeOK, InScope
<1>7. QED
  BY <1>2, <1>6 DEF ScopeOK, ListScopeOK, WriteScopeOK, Drafting

LEMMA ListRowsScope ==
  ASSUME Inv, NEW c \in Caller, ListRows(c), ScopeOK(c)
  PROVE  ScopeOK(c)'
<1>1. /\ pc[c] = "listRows" /\ pc'[c] = "listImages"
      /\ UNCHANGED <<home, input, view>>
  BY DEF ListRows, GoTo, Inv, TypeOK, tables
<1>2. \A r \in fetched'[c] : home[r.character] = input[c].series
  BY DEF ListRows, CurrentRow, Inv, TypeOK
<1>3. QED
  BY <1>1, <1>2 DEF ScopeOK, ListScopeOK, WriteScopeOK, ViewScopeOK, InScope, Drafting

LEMMA ListImagesScope ==
  ASSUME Inv, NEW c \in Caller, ListImages(c), ScopeOK(c)
  PROVE  ScopeOK(c)'
<1>1. /\ pc[c] = "listImages" /\ pc'[c] = "idle"
      /\ UNCHANGED home
      /\ view'[c] = WithImages(fetched[c])
  BY DEF ListImages, Answer, Inv, TypeOK, tables
<1>2. \A x \in view'[c] : \E r \in fetched[c] : x.character = r.character
  BY <1>1 DEF WithImages
<1>3. ViewScopeOK(c)'
  BY <1>1, <1>2 DEF ScopeOK, ListScopeOK, ViewScopeOK, InScope
<1>4. QED
  BY <1>1, <1>3 DEF ScopeOK, ListScopeOK, WriteScopeOK, Drafting

\* Elsewhere the request is over, has just passed its check, or goes on.
LEMMA OwnScope ==
  ASSUME Inv, NEW c \in Caller, OtherStatement(c), ScopeOK(c)
  PROVE  ScopeOK(c)'
<1>1. TypeOK /\ CallerOK(c) /\ UNCHANGED home
  BY OnlyCommitWrites DEF Inv
<1>2. CASE ListRows(c) \/ ListImages(c)
  BY <1>2, ListRowsScope, ListImagesScope
<1>3. CASE GetCast(c)
  <2>1. PICK w \in Workspace, s \in Series :
          LET r == Reading("cast", w, s, None) IN
          /\ IF WithinReachableSeries(c, w, s) THEN Begin(c, r, "listRows") ELSE Refuse(c)
          /\ UNCHANGED <<tables, draft, fetched, view>>
    BY <1>3 DEF GetCast
  <2>2. CASE WithinReachableSeries(c, w, s)
    <3>1. pc'[c] = "listRows" /\ input'[c].series = s /\ UNCHANGED view
      BY <1>1, <2>1, <2>2 DEF Begin, Reading, TypeOK
    <3>2. QED
      BY <1>1, <2>2, <3>1 DEF WithinReachableSeries, InScope, ScopeOK, ListScopeOK, WriteScopeOK,
         ViewScopeOK, Drafting
  <2>3. CASE ~WithinReachableSeries(c, w, s)
    <3>1. pc'[c] = "idle" /\ UNCHANGED view
      BY <1>1, <2>1, <2>3 DEF Refuse
    <3>2. QED
      BY <1>1, <3>1 DEF InScope, ScopeOK, ListScopeOK, WriteScopeOK, ViewScopeOK, Drafting
  <2>4. QED
    BY <2>2, <2>3
<1>4. CASE GetHistory(c) \/ HistoryRows(c) \/ PostVersion(c) \/ Classify(c) \/ Crash(c)
  <2>1. pc'[c] \in {"historyRows", "historyImages", "claim", "idle"} /\ UNCHANGED view
    BY <1>1, <1>4 DEF GetHistory, HistoryRows, PostVersion, Classify, Crash, Begin, GoTo, Answer,
       TypeOK
  <2>2. QED
    BY <1>1, <2>1 DEF InScope, ScopeOK, ListScopeOK, WriteScopeOK, ViewScopeOK, Drafting
<1>5. CASE HistoryImages(c)
  <2>1. pc'[c] = "idle" /\ UNCHANGED view
    BY <1>1, <1>5 DEF HistoryImages, Answer, TypeOK
  <2>2. QED
    BY <1>1, <2>1 DEF InScope, ScopeOK, ListScopeOK, WriteScopeOK, ViewScopeOK, Drafting
<1>6. CASE PostCharacter(c)
  <2>1. PICK w \in Workspace, s \in Series, ap \in Appearance, im \in ImageList :
          LET r == [kind |-> "create", workspace |-> w, series |-> s, character |-> None,
                    revision |-> 0, readVersion |-> 0, appearance |-> ap, images |-> im]
          IN \/ Refuse(c) /\ UNCHANGED view
             \/ WithinReachableSeries(c, w, s) /\ Begin(c, r, "pin") /\ UNCHANGED view
    BY <1>6 DEF PostCharacter
  <2>2. \/ pc'[c] = "idle"
        \/ /\ pc'[c] = "pin" /\ input'[c].kind = "create" /\ input'[c].series = s
           /\ WithinReachableSeries(c, w, s)
    BY <1>1, <2>1 DEF Refuse, Begin, TypeOK
  <2>3. UNCHANGED view
    BY <2>1
  <2>4. QED
    BY <1>1, <2>2, <2>3 DEF WithinReachableSeries, OwningWorkspace, InScope, ScopeOK, ListScopeOK,
       WriteScopeOK, ViewScopeOK, Drafting
<1>7. CASE Claim(c)
  <2>1. /\ pc'[c] \in {"readLatest", "classify"}
        /\ pc'[c] = "readLatest" => ReachesCharacter(c, input[c])
        /\ UNCHANGED <<input, view>>
    BY <1>1, <1>7 DEF Claim, GoTo, Matches, TypeOK
  <2>2. QED
    BY <1>1, <2>1 DEF ReachesCharacter, WithinReachableSeries, InScope, ScopeOK, ListScopeOK,
       WriteScopeOK, ViewScopeOK, Drafting
<1>8. CASE ReadLatest(c)
  <2>1. /\ pc[c] = "readLatest" /\ pc'[c] = "insert"
        /\ draft'[c].character = input[c].character
        /\ UNCHANGED <<input, view>>
        /\ input[c].kind = "append"
    BY <1>1, <1>8 DEF ReadLatest, GoTo, CallerOK, RequestOK, TypeOK
  <2>2. QED
    BY <1>1, <2>1 DEF OwningWorkspace, InScope, ScopeOK, ListScopeOK, WriteScopeOK, ViewScopeOK,
       Drafting
<1>9. CASE InsertVersion(c) \/ Pin(c)
  <2>1. /\ UNCHANGED view
        /\ \/ pc'[c] = "idle"
           \/ pc[c] \in Drafting /\ pc'[c] \in Drafting /\ UNCHANGED <<input, draft>>
    BY <1>1, <1>9 DEF InsertVersion, Pin, GoTo, Answer, TypeOK, Drafting
  <2>2. QED
    BY <1>1, <2>1 DEF OwningWorkspace, InScope, ScopeOK, ListScopeOK, WriteScopeOK, ViewScopeOK,
       Drafting
<1>10. QED
  BY <1>2, <1>3, <1>4, <1>5, <1>6, <1>7, <1>8, <1>9 DEF OtherStatement

(***************************************************************************)
(* Nobody is shown a character of a workspace they do not belong to, at    *)
(* any time after the cast was read.                                       *)
(***************************************************************************)
THEOREM CastIsForMembers == Spec => []CastStaysWithMembers
<1> DEFINE AllInScope == \A c \in Caller : ScopeOK(c)
<1>1. Init => AllInScope
  BY DEF Init, ScopeOK, ListScopeOK, WriteScopeOK, ViewScopeOK, Drafting
<1>2. Inv /\ AllInScope /\ [Next]_vars => AllInScope'
  <2> SUFFICES ASSUME Inv, AllInScope, [Next]_vars, NEW d \in Caller
               PROVE  ScopeOK(d)'
    OBVIOUS
  <2>1. ScopeOK(d)
    OBVIOUS
  <2>2. QED
    BY <2>1, OwnStepOrNone, StepStands, ScopeKept, CommitScope, OwnScope
<1>3. AllInScope => CastStaysWithMembers
  BY DEF ScopeOK, ViewScopeOK, InScope, CastStaysWithMembers
<1> HIDE DEF AllInScope
<1>4. QED
  BY <1>1, <1>2, <1>3, InvAlways, PTL DEF Spec

-----------------------------------------------------------------------------
(* Histories.  The rows the first statement read are the versions 1..n of  *)
(* one character, and stay so while others append to it.                   *)

\* A version row as the first statement of the history read selects it.
RowRead(v) == [character |-> v.character, revision |-> 0, version |-> v.version,
               appearance |-> v.appearance]

RowsRead(ch, n) == {RowRead(v) : v \in UpTo(ch, n)}
RowsAnswered(ch, n) == {Written(v, 0) : v \in UpTo(ch, n)}

HistoryRead(rows) ==
  \E ch \in Character : \E n \in 1..revision[ch] : rows = RowsRead(ch, n)

HistoryAnswered(rows) ==
  \E ch \in Character : \E n \in 1..revision[ch] : rows = RowsAnswered(ch, n)

HistoryOK(c) ==
  /\ pc[c] = "historyImages" /\ fetched[c] # {} => HistoryRead(fetched[c])
  /\ answer[c].kind = "history" => HistoryAnswered(answer[c].rows)

LEMMA HistoriesStand ==
  ASSUME Inv, RowsStand, NEW ch \in Character, NEW n \in 1..revision[ch]
  PROVE  /\ n \in 1..revision'[ch]
         /\ RowsRead(ch, n)' = RowsRead(ch, n)
         /\ RowsAnswered(ch, n)' = RowsAnswered(ch, n)
<1>1. n \in 1..revision'[ch] /\ UpTo(ch, n)' = UpTo(ch, n)
  BY DEF RowsStand, Inv, TypeOK
<1>2. RowsRead(ch, n)' = RowsRead(ch, n)
  BY <1>1 DEF RowsRead, RowRead
<1>3. RowsAnswered(ch, n)' = RowsAnswered(ch, n)
  BY <1>1 DEF RowsAnswered, Written
<1>4. QED
  BY <1>1, <1>2, <1>3

LEMMA HistoryKept ==
  ASSUME Inv, RowsStand, NEW d \in Caller, SameClient(d), HistoryOK(d)
  PROVE  HistoryOK(d)'
BY HistoriesStand DEF HistoryOK, SameClient, SameRequest, HistoryRead, HistoryAnswered

\* The images joined to the rows of a history are those its versions pinned.
LEMMA JoinedHistory ==
  ASSUME Inv, NEW ch \in Character, NEW n \in 1..revision[ch]
  PROVE  WithImages(RowsRead(ch, n)) = RowsAnswered(ch, n)
<1> DEFINE Pick(r) == CHOOSE v \in version :
                        v.character = r.character /\ v.version = r.version
           Joined(r) == [character |-> r.character, revision |-> r.revision,
                         version |-> r.version, appearance |-> r.appearance,
                         images |-> Pick(r).images]
<1>1. ASSUME NEW v \in UpTo(ch, n)
      PROVE  Pick(RowRead(v)) = v
  <2>1. v \in version
    BY DEF UpTo, VersionsOf
  <2>2. RowRead(v).character = v.character /\ RowRead(v).version = v.version
    BY DEF RowRead
  <2>3. \A w \in version : w.character = v.character /\ w.version = v.version => w = v
    BY DEF UpTo, VersionsOf, Inv, TablesOK, RevisionCountsVersions
  <2>4. QED
    BY <2>1, <2>2, <2>3
<1> HIDE DEF Pick
<1>2. ASSUME NEW v \in UpTo(ch, n)
      PROVE  Joined(RowRead(v)) = Written(v, 0)
  BY <1>1 DEF RowRead, Written
<1>3. ASSUME NEW rows
      PROVE  WithImages(rows) = {Joined(r) : r \in rows}
  BY DEF WithImages, Pick
<1> HIDE DEF Joined
<1>4. WithImages({RowRead(v) : v \in UpTo(ch, n)}) = {Joined(RowRead(v)) : v \in UpTo(ch, n)}
  BY <1>3
<1>5. QED
  BY <1>2, <1>4 DEF RowsRead, RowsAnswered

LEMMA HistoryRowsWhole ==
  ASSUME Inv, NEW c \in Caller, HistoryRows(c), HistoryOK(c)
  PROVE  HistoryOK(c)'
<1> DEFINE ch == input[c].character
<1>1. /\ pc[c] = "historyRows"
      /\ UNCHANGED <<revision, home, version, answer>>
      /\ fetched'[c] = IF ReachesCharacter(c, input[c])
                       THEN {RowRead(v) : v \in VersionsOf(ch)} ELSE {}
  BY DEF HistoryRows, GoTo, Inv, TypeOK, tables, RowRead
<1>2. ch \in Character
  BY <1>1 DEF Inv, CallerOK, RequestOK
<1>3. RowsStand
  BY <1>1, UnchangedRowsStand
<1>4. ASSUME ReachesCharacter(c, input[c])
      PROVE  /\ revision[ch] \in 1..revision[ch]
             /\ fetched'[c] = RowsRead(ch, revision[ch])
  <2>1. revision[ch] \in 1..revision[ch]
    BY <1>2, <1>4 DEF ReachesCharacter, Inv, TypeOK
  <2>2. \A v \in VersionsOf(ch) : v.version \in 1..revision[ch]
    BY <1>2 DEF Inv, TablesOK, RevisionCountsVersions
  <2>3. UpTo(ch, revision[ch]) = VersionsOf(ch)
    BY <2>1, <2>2 DEF UpTo
  <2>4. QED
    BY <1>1, <1>4, <2>1, <2>3 DEF RowsRead
<1>5. fetched'[c] # {} => HistoryRead(fetched[c])'
  <2> SUFFICES ASSUME fetched'[c] # {} PROVE HistoryRead(fetched[c])'
    OBVIOUS
  <2>1. ReachesCharacter(c, input[c])
    BY <1>1
  <2> HIDE DEF ch
  <2>2. QED
    BY <1>2, <1>3, <1>4, <2>1, HistoriesStand DEF HistoryRead
<1>6. answer'[c].kind = "history" => HistoryAnswered(answer[c].rows)'
  BY <1>1, <1>3, HistoriesStand DEF HistoryOK, HistoryAnswered
<1>7. QED
  BY <1>5, <1>6 DEF HistoryOK

LEMMA HistoryImagesWhole ==
  ASSUME Inv, NEW c \in Caller, HistoryImages(c), HistoryOK(c)
  PROVE  HistoryOK(c)'
<1>1. /\ pc[c] = "historyImages" /\ pc'[c] = "idle"
      /\ UNCHANGED <<revision, home, version>>
      /\ \/ answer'[c].kind = "notFound"
         \/ fetched[c] # {} /\ answer'[c].rows = WithImages(fetched[c])
  <2>1. CASE fetched[c] = {}
    BY <2>1 DEF HistoryImages, Answer, Inv, TypeOK, tables
  <2>2. CASE fetched[c] # {}
    BY <2>2 DEF HistoryImages, Answer, Inv, TypeOK, tables
  <2>3. QED
    BY <2>1, <2>2
<1>2. ASSUME answer'[c].kind = "history"
      PROVE  HistoryAnswered(answer[c].rows)'
  <2>1. HistoryRead(fetched[c]) /\ answer'[c].rows = WithImages(fetched[c])
    BY <1>1, <1>2 DEF HistoryOK
  <2>2. PICK ch \in Character : \E n \in 1..revision[ch] : fetched[c] = RowsRead(ch, n)
    BY <2>1 DEF HistoryRead
  <2>3. PICK n \in 1..revision[ch] : fetched[c] = RowsRead(ch, n)
    BY <2>2
  <2>4. answer'[c].rows = RowsAnswered(ch, n)
    BY <2>1, <2>3, JoinedHistory
  <2>5. QED
    BY <1>1, <2>4, UnchangedRowsStand, HistoriesStand DEF HistoryAnswered
<1>3. QED
  BY <1>1, <1>2 DEF HistoryOK

\* No other statement reaches the second half of a history read.
LEMMA OwnHistory ==
  ASSUME Inv, RowsStand, NEW c \in Caller, OtherStatement(c) \/ Commit(c), HistoryOK(c)
  PROVE  HistoryOK(c)'
<1>1. TypeOK
  BY DEF Inv
<1>2. CASE HistoryRows(c) \/ HistoryImages(c)
  BY <1>2, HistoryRowsWhole, HistoryImagesWhole
<1>3. CASE \/ GetCast(c) \/ ListRows(c) \/ ListImages(c) \/ GetHistory(c)
           \/ PostCharacter(c) \/ PostVersion(c) \/ Claim(c) \/ Classify(c)
           \/ ReadLatest(c) \/ InsertVersion(c) \/ Pin(c) \/ Crash(c) \/ Commit(c)
  <2>1. CASE GetCast(c) \/ GetHistory(c) \/ PostCharacter(c) \/ PostVersion(c)
    BY <1>1, <2>1 DEF GetCast, GetHistory, PostCharacter, PostVersion, Begin, Refuse, TypeOK,
       HistoryOK
  <2>2. CASE Classify(c) \/ ListImages(c) \/ Crash(c) \/ Commit(c)
    BY <1>1, <2>2 DEF Classify, ListImages, Crash, Commit, Answer, TypeOK, HistoryOK
  <2>3. CASE ListRows(c) \/ Claim(c) \/ ReadLatest(c) \/ InsertVersion(c) \/ Pin(c)
    <3>1. /\ pc'[c] # "historyImages"
          /\ answer'[c] = answer[c] \/ answer'[c].kind # "history"
      BY <1>1, <2>3 DEF ListRows, Claim, ReadLatest, InsertVersion, Pin, GoTo, Answer, TypeOK
    <3>2. QED
      BY <3>1, HistoriesStand DEF HistoryOK, HistoryAnswered
  <2>4. QED
    BY <1>3, <2>1, <2>2, <2>3
<1>4. QED
  BY <1>2, <1>3 DEF OtherStatement

(***************************************************************************)
(* A history answer is the versions 1..n of one character, each with the   *)
(* images it pinned, whatever was committed between the two reads.         *)
(***************************************************************************)
THEOREM HistoriesAreWhole == Spec => []HistoryIsWhole
<1> DEFINE AllWhole == \A c \in Caller : HistoryOK(c)
<1>1. Init => AllWhole
  BY DEF Init, HistoryOK
<1>2. Inv /\ AllWhole /\ [Next]_vars => AllWhole'
  <2> SUFFICES ASSUME Inv, AllWhole, [Next]_vars, NEW d \in Caller
               PROVE  HistoryOK(d)'
    OBVIOUS
  <2>1. HistoryOK(d)
    OBVIOUS
  <2>2. QED
    BY <2>1, OwnStepOrNone, StepStands, HistoryKept, OwnHistory
<1>3. AllWhole => HistoryIsWhole
  BY DEF HistoryOK, HistoryAnswered, RowsAnswered, HistoryIsWhole, UpTo
<1> HIDE DEF AllWhole
<1>4. QED
  BY <1>1, <1>2, <1>3, InvAlways, PTL DEF Spec

-----------------------------------------------------------------------------
(* The refinement: a committed history is extended by commits alone.       *)

Content == [appearance : Appearance, images : ImageList]

\* An entry of the abstract history, as a version row tells it.
EntryOf(v) == [content |-> [appearance |-> v.appearance, images |-> v.images],
               readVersion |-> v.readVersion]

\* The rows of a committed number are one row.
LEMMA RowAtIs ==
  ASSUME Inv, NEW ch \in Character, NEW n \in 1..revision[ch]
  PROVE  /\ RowAt(ch, n) \in VersionsOf(ch)
         /\ RowAt(ch, n).version = n
         /\ \A v \in version : v.character = ch /\ v.version = n => v = RowAt(ch, n)
<1>1. n \in {v.version : v \in VersionsOf(ch)}
  BY DEF Inv, TablesOK, RevisionCountsVersions
<1>2. PICK v \in version : v.character = ch /\ v.version = n
  BY <1>1 DEF VersionsOf
<1>3. RowAt(ch, n) \in version /\ RowAt(ch, n).character = ch /\ RowAt(ch, n).version = n
  BY <1>2 DEF RowAt
<1>4. \A w \in version : w.character = ch /\ w.version = n => w = RowAt(ch, n)
  BY <1>3 DEF Inv, TablesOK, RevisionCountsVersions, VersionsOf
<1>5. QED
  BY <1>3, <1>4 DEF VersionsOf

\* Sequences as the functions they are.
LEMMA FunctionIsSeq ==
  ASSUME NEW S, NEW m \in Nat, NEW f \in [1..m -> S]
  PROVE  f \in Seq(S) /\ Len(f) = m
OBVIOUS

LEMMA AppendIs ==
  ASSUME NEW S, NEW f \in Seq(S), NEW x \in S
  PROVE  Append(f, x) = [n \in 1..(Len(f) + 1) |-> IF n <= Len(f) THEN f[n] ELSE x]
<1> DEFINE m == Len(f) + 1
           t == Append(f, x)
<1>1. t \in Seq(S) /\ Len(t) = m /\ m \in Nat /\ Len(f) \in Nat
  OBVIOUS
<1>2. \A n \in 1..m : t[n] = IF n <= Len(f) THEN f[n] ELSE x
  OBVIOUS
<1> HIDE DEF t, m
<1>3. t = [n \in 1..m |-> t[n]]
  BY <1>1
<1>4. t = [n \in 1..m |-> IF n <= Len(f) THEN f[n] ELSE x]
  BY <1>2, <1>3
<1>5. QED
  BY <1>4 DEF t, m

LEMMA HistoryTyped ==
  ASSUME Inv
  PROVE  /\ CommittedHistory \in [Character -> Seq([content : Content, readVersion : Nat])]
         /\ \A ch \in Character :
              /\ Len(CommittedHistory[ch]) = revision[ch]
              /\ \A n \in 1..revision[ch] : CommittedHistory[ch][n] = EntryOf(RowAt(ch, n))
<1> SUFFICES ASSUME NEW ch \in Character
             PROVE  /\ CommittedHistory[ch] \in Seq([content : Content, readVersion : Nat])
                    /\ Len(CommittedHistory[ch]) = revision[ch]
                    /\ \A n \in 1..revision[ch] :
                         CommittedHistory[ch][n] = EntryOf(RowAt(ch, n))
  BY DEF CommittedHistory
<1>1. revision[ch] \in Nat
  BY DEF Inv, TypeOK
<1>2. CommittedHistory[ch] = [n \in 1..revision[ch] |-> EntryOf(RowAt(ch, n))]
  BY DEF CommittedHistory, EntryOf
<1>3. ASSUME NEW n \in 1..revision[ch]
      PROVE  EntryOf(RowAt(ch, n)) \in [content : Content, readVersion : Nat]
  <2>1. RowAt(ch, n) \in VersionRow
    BY RowAtIs DEF VersionsOf, Inv, TypeOK
  <2>2. QED
    BY <2>1 DEF EntryOf, Content, VersionRow
<1>4. CommittedHistory[ch] \in [1..revision[ch] -> [content : Content, readVersion : Nat]]
  BY <1>2, <1>3
<1>5. QED
  BY <1>1, <1>2, <1>4, FunctionIsSeq

\* A committed row stays the row of its number.
LEMMA RowStays ==
  ASSUME Inv, Inv', RowsStand, NEW ch \in Character, NEW n \in 1..revision[ch]
  PROVE  RowAt(ch, n)' = RowAt(ch, n)
<1>1. n \in 1..revision'[ch] /\ UpTo(ch, n)' = UpTo(ch, n) /\ n \in Nat
  BY DEF RowsStand, Inv, TypeOK
<1>2. RowAt(ch, n) \in UpTo(ch, n) /\ RowAt(ch, n).version = n
  BY <1>1, RowAtIs DEF UpTo
<1>3. RowAt(ch, n) \in version' /\ RowAt(ch, n).character = ch
  BY <1>1, <1>2 DEF UpTo, VersionsOf
<1>4. PICK v \in version' : v.character = ch /\ v.version = n
  BY <1>2, <1>3
<1>5. RowAt(ch, n)' \in version' /\ RowAt(ch, n)'.character = ch /\ RowAt(ch, n)'.version = n
  BY <1>4 DEF RowAt
<1>6. QED
  BY <1>2, <1>3, <1>5 DEF Inv, TablesOK, RevisionCountsVersions, VersionsOf

\* A step that writes no row of the cast leaves its history.
LEMMA HistoryUnchanged ==
  ASSUME UNCHANGED <<revision, version>>
  PROVE  CommittedHistory' = CommittedHistory
BY DEF CommittedHistory, RowAt

(***************************************************************************)
(* A commit extends the history of its character by the drafted version,   *)
(* which its author wrote with the whole history in view.                  *)
(***************************************************************************)
LEMMA CommitExtends ==
  ASSUME Inv, Inv', NEW c \in Caller, Commit(c),
         NEW v \in VersionRow, v = draft[c], NEW ch \in Character, ch = v.character
  PROVE  Abstract!Extend(ch)
<1> DEFINE H == CommittedHistory
           e == [content |-> [appearance |-> v.appearance, images |-> v.images],
                 readVersion |-> Len(H[ch])]
<1>1. /\ v.version = revision[ch] + 1
      /\ v.readVersion = revision[ch]
      /\ revision[ch] \in Nat
      /\ version' = version \cup {v}
      /\ revision' = [revision EXCEPT ![ch] = v.version]
  BY CommitAppends
<1>2. RowsStand
  BY CommittedRowsStand
<1>3. revision \in [Character -> Nat] /\ revision' \in [Character -> Nat]
  BY DEF Inv, TypeOK
<1>4. /\ H \in [Character -> Seq([content : Content, readVersion : Nat])]
      /\ \A k \in Character :
           /\ Len(H[k]) = revision[k]
           /\ \A n \in 1..revision[k] : H[k][n] = EntryOf(RowAt(k, n))
  BY HistoryTyped
<1>5. e \in [content : Content, readVersion : Nat] /\ e = EntryOf(v)
  BY <1>1, <1>4 DEF EntryOf, Content, VersionRow
<1>6. \A k \in Character : H'[k] = [n \in 1..revision'[k] |-> EntryOf(RowAt(k, n)')]
  BY DEF CommittedHistory, EntryOf
<1>7. DOMAIN H' = Character
  BY DEF CommittedHistory
<1> HIDE DEF H, e
<1>8. ASSUME NEW k \in Character, k # ch
      PROVE  H'[k] = H[k]
  <2>1. revision'[k] = revision[k] /\ revision[k] \in Nat
    BY <1>1, <1>3, <1>8
  <2>2. \A n \in 1..revision[k] : RowAt(k, n)' = RowAt(k, n)
    BY <1>2, RowStays
  <2>3. H'[k] = [n \in 1..revision[k] |-> EntryOf(RowAt(k, n))]
    BY <1>6, <2>1, <2>2
  <2>4. H[k] \in Seq([content : Content, readVersion : Nat]) /\ Len(H[k]) = revision[k]
    BY <1>4
  <2>5. H[k] = [n \in 1..revision[k] |-> H[k][n]]
    BY <2>1, <2>4
  <2>6. QED
    BY <1>4, <2>3, <2>5
<1>9. H'[ch] = Append(H[ch], e)
  <2>1. revision'[ch] = revision[ch] + 1
    BY <1>1, <1>3
  <2>2. \A n \in 1..revision[ch] : RowAt(ch, n)' = RowAt(ch, n)
    BY <1>1, <1>2, RowStays
  <2>3. RowAt(ch, v.version)' = v
    <3>1. v \in version' /\ v.character = ch
      BY <1>1
    <3>2. \A w \in version' : w.character = ch /\ w.version = v.version => w = v
      BY <1>1, <3>1 DEF Inv, TablesOK, RevisionCountsVersions, VersionsOf
    <3>3. RowAt(ch, v.version)'
            = CHOOSE w \in version' : w.character = ch /\ w.version = v.version
      BY DEF RowAt
    <3>4. QED
      BY <3>1, <3>2, <3>3
  <2>4. H'[ch] = [n \in 1..(revision[ch] + 1) |-> EntryOf(RowAt(ch, n)')]
    BY <1>1, <1>6, <2>1
  <2>5. \A n \in 1..(revision[ch] + 1) :
          EntryOf(RowAt(ch, n)') = IF n <= revision[ch] THEN H[ch][n] ELSE e
    <3> SUFFICES ASSUME NEW n \in 1..(revision[ch] + 1)
                 PROVE  EntryOf(RowAt(ch, n)') = IF n <= revision[ch] THEN H[ch][n] ELSE e
      OBVIOUS
    <3>1. CASE n <= revision[ch]
      <4>1. n \in 1..revision[ch]
        BY <1>1, <3>1
      <4>2. QED
        BY <1>1, <1>4, <2>2, <3>1, <4>1
    <3>2. CASE ~(n <= revision[ch])
      <4>1. n = v.version
        BY <1>1, <3>2
      <4>2. QED
        BY <1>5, <2>3, <3>2, <4>1
    <3>3. QED
      BY <3>1, <3>2
  <2>6. /\ H[ch] \in Seq([content : Content, readVersion : Nat])
        /\ Len(H[ch]) = revision[ch]
    BY <1>1, <1>4
  <2>7. Append(H[ch], e)
          = [n \in 1..(revision[ch] + 1) |-> IF n <= revision[ch] THEN H[ch][n] ELSE e]
    <3>1. Append(H[ch], e)
            = [n \in 1..(Len(H[ch]) + 1) |-> IF n <= Len(H[ch]) THEN H[ch][n] ELSE e]
      BY <1>5, <2>6, AppendIs
    <3>2. QED
      BY <2>6, <3>1
  <2>8. QED
    BY <2>4, <2>5, <2>7
<1>10. H' = [H EXCEPT ![ch] = Append(H[ch], e)]
  <2>1. H' = [k \in Character |-> H'[k]]
    BY <1>6 DEF H, CommittedHistory
  <2>2. H = [k \in Character |-> H[k]]
    BY <1>4
  <2>3. QED
    BY <1>8, <1>9, <2>1, <2>2
<1>11. [appearance |-> v.appearance, images |-> v.images] \in Content
  BY <1>1 DEF Content, VersionRow
<1>12. QED
  BY <1>10, <1>11, Zenon DEF Abstract!Extend, H, e, Content

(***************************************************************************)
(* The cast keeps the promise of VersionHistory: each character has one    *)
(* history that grows only at its end, by whoever had read it to the end.  *)
(***************************************************************************)
THEOREM CastIsAHistory == Spec => ImplementsVersionHistory
<1>1. Init => Abstract!Init
  <2> SUFFICES ASSUME Init PROVE CommittedHistory = [ch \in Character |-> <<>>]
    BY DEF Abstract!Init
  <2>1. \A ch \in Character : revision[ch] = 0
    BY DEF Init
  <2>2. QED
    BY <2>1 DEF CommittedHistory
<1>2. Inv /\ Inv' /\ [Next]_vars => [Abstract!Next]_CommittedHistory
  <2> SUFFICES ASSUME Inv, Inv', [Next]_vars
               PROVE  Abstract!Next \/ CommittedHistory' = CommittedHistory
    OBVIOUS
  <2>1. CASE \E c \in Caller : OtherStatement(c)
    BY <2>1, OnlyCommitWrites, HistoryUnchanged
  <2>2. CASE \E c \in Caller : Commit(c)
    <3>1. PICK c \in Caller : Commit(c)
      BY <2>2
    <3>2. draft[c] \in VersionRow /\ draft[c].character \in Character
      BY <3>1, CommitAppends
    <3>3. PICK ch \in Character : ch = draft[c].character
      BY <3>2
    <3>4. PICK v \in VersionRow : v = draft[c]
      BY <3>2
    <3>5. Abstract!Extend(ch)
      BY <3>1, <3>3, <3>4, CommitExtends
    <3>6. QED
      BY <3>5 DEF Abstract!Next
  <2>3. CASE \E a \in Asset : SettleAsset(a)
    BY <2>3, HistoryUnchanged DEF SettleAsset
  <2>4. CASE UNCHANGED vars
    BY <2>4, HistoryUnchanged DEF vars
  <2>5. QED
    BY <2>1, <2>2, <2>3, <2>4, NextCases
<1>3. QED
  BY <1>1, <1>2, InvAlways, PTL DEF Spec, ImplementsVersionHistory, Abstract!Spec
=============================================================================
