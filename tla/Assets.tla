------------------------------- MODULE Assets -------------------------------
(***************************************************************************)
(* Uploaded files: a request reserves a row and signs permission to write  *)
(* one object, the client writes the object straight to the store, and a   *)
(* second request reads the bytes and settles the row                      *)
(* (packages/db/src/assets.ts, apps/api/src/routes/assets.ts, storage.ts). *)
(*                                                                         *)
(* One action is one SQL statement or one call of the object store, since  *)
(* other requests and other uploads run between two of them.               *)
(***************************************************************************)
EXTENDS Naturals, FiniteSets

CONSTANTS
  Caller,      \* clients of the API, one request in flight each
  Workspace, Asset,
  Body,        \* byte strings a client may upload; a digest is its bytes
  Declaration, \* what a client may declare: records of a type and a size
  TypeOf,      \* detectImageContentType of a body, None when unrecognised
  SizeOf,
  Member,      \* pairs <<caller, workspace>>
  MaxPuts,     \* bound: uploads to one signed url
  None

ASSUME AssetsAssumption ==
  /\ Member \subseteq Caller \X Workspace
  /\ MaxPuts \in Nat
  /\ None \notin Body \cup Declaration \cup Workspace \cup Asset
  /\ None \notin {"pending", "ready", "rejected"}
  /\ "rejected" \notin Body

VARIABLES
  status,   \* asset.status, None while there is no such row
  owner,    \* asset.workspace_id
  declared, \* the declared content type and length
  checksum, \* asset.checksum_sha256
  object,   \* the bytes the store holds under the asset's key
  urlLive,  \* the signed upload url has been issued and has not expired
  puts,     \* uploads so far
  pc, target, inspected, answer

rows == <<status, owner, declared, checksum>>
store == <<object, urlLive, puts>>
vars == <<status, owner, declared, checksum, object, urlLive, puts,
          pc, target, inspected, answer>>

Step == {"idle", "presign", "inspect", "decide", "reject", "settle", "reread"}

AnswerKind == {"none", "ticket", "ready", "unsupportedMedia", "uploadIncomplete",
               "notFound", "error"}

\* An answer: its asset, and the digest an answer of 200 carries.
NoAnswer == [kind |-> "none", asset |-> None, checksum |-> None]

Init ==
  /\ status = [a \in Asset |-> None]
  /\ owner = [a \in Asset |-> None]
  /\ declared = [a \in Asset |-> None]
  /\ checksum = [a \in Asset |-> None]
  /\ object = [a \in Asset |-> None]
  /\ urlLive = [a \in Asset |-> FALSE]
  /\ puts = [a \in Asset |-> 0]
  /\ pc = [c \in Caller |-> "idle"]
  /\ target = [c \in Caller |-> None]
  /\ inspected = [c \in Caller |-> None]
  /\ answer = [c \in Caller |-> NoAnswer]

-----------------------------------------------------------------------------
GoTo(c, from, to) ==
  /\ pc[c] = from
  /\ pc' = [pc EXCEPT ![c] = to]

\* The request ends; what it had inspected stays in view of the properties.
Answer(c, kind, a, digest) ==
  /\ pc' = [pc EXCEPT ![c] = "idle"]
  /\ answer' = [answer EXCEPT ![c] = [kind |-> kind, asset |-> a, checksum |-> digest]]

-----------------------------------------------------------------------------
(* POST .../assets                                                         *)

\* createPendingAsset: the membership read and the insert are one transaction.
PostAsset(c) ==
  /\ pc[c] = "idle"
  /\ inspected' = [inspected EXCEPT ![c] = None]
  /\ \E w \in Workspace :
       \/ /\ <<c, w>> \notin Member
          /\ Answer(c, "notFound", None, None)
          /\ target' = [target EXCEPT ![c] = None]
          /\ UNCHANGED rows
       \/ /\ <<c, w>> \in Member
          /\ \E a \in Asset, d \in Declaration :
               /\ status[a] = None
               /\ status' = [status EXCEPT ![a] = "pending"]
               /\ owner' = [owner EXCEPT ![a] = w]
               /\ declared' = [declared EXCEPT ![a] = d]
               /\ target' = [target EXCEPT ![c] = a]
          /\ pc' = [pc EXCEPT ![c] = "presign"]
          /\ answer' = [answer EXCEPT ![c] = NoAnswer]
          /\ UNCHANGED checksum
  /\ UNCHANGED store

\* presignUpload and the answer 201: the url lives from here on.
Presign(c) ==
  /\ pc[c] = "presign"
  /\ urlLive' = [urlLive EXCEPT ![target[c]] = TRUE]
  /\ Answer(c, "ticket", target[c], None)
  /\ UNCHANGED <<rows, object, puts, target, inspected>>

-----------------------------------------------------------------------------
(* The object store.                                                       *)

(***************************************************************************)
(* PUT to the signed url.  Type and length are in the signature, the type  *)
(* as the header the object is stored with, so a body of the declared      *)
(* length is stored whatever its bytes are, as often as the url is used.   *)
(***************************************************************************)
PutObject(a) ==
  /\ urlLive[a]
  /\ puts[a] < MaxPuts
  /\ \E b \in Body :
       /\ SizeOf[b] = declared[a].size
       /\ object' = [object EXCEPT ![a] = b]
  /\ puts' = [puts EXCEPT ![a] = @ + 1]
  /\ UNCHANGED <<rows, urlLive, pc, target, inspected, answer>>

\* UPLOAD_URL_TTL_SECONDS after signing.
ExpireUrl(a) ==
  /\ urlLive[a]
  /\ urlLive' = [urlLive EXCEPT ![a] = FALSE]
  /\ UNCHANGED <<rows, object, puts, pc, target, inspected, answer>>

-----------------------------------------------------------------------------
(* POST .../assets/:assetId/confirmation                                   *)

BelongsToCaller(c, w, a) ==
  /\ status[a] # None
  /\ owner[a] = w
  /\ <<c, w>> \in Member

\* findAssetForMember, and the answers that need nothing but the row.
PostConfirmation(c) ==
  /\ pc[c] = "idle"
  /\ \E w \in Workspace, a \in Asset :
       /\ target' = [target EXCEPT ![c] = a]
       /\ \/ /\ ~BelongsToCaller(c, w, a)
             /\ Answer(c, "notFound", a, None)
          \/ /\ BelongsToCaller(c, w, a) /\ status[a] = "ready"
             /\ Answer(c, "ready", a, checksum[a])
          \/ /\ BelongsToCaller(c, w, a) /\ status[a] = "rejected"
             /\ Answer(c, "unsupportedMedia", a, None)
          \/ /\ BelongsToCaller(c, w, a) /\ status[a] = "pending"
             /\ pc' = [pc EXCEPT ![c] = "inspect"]
             /\ answer' = [answer EXCEPT ![c] = NoAnswer]
  /\ inspected' = [inspected EXCEPT ![c] = None]
  /\ UNCHANGED <<rows, store>>

\* One pass over the bytes; a store that fails otherwise than by 404 throws.
Inspect(c) ==
  /\ pc[c] = "inspect"
  /\ \/ /\ Answer(c, "error", target[c], None)
        /\ UNCHANGED inspected
     \/ /\ object[target[c]] = None
        /\ Answer(c, "uploadIncomplete", target[c], None)
        /\ UNCHANGED inspected
     \/ /\ object[target[c]] # None
        /\ inspected' = [inspected EXCEPT ![c] = object[target[c]]]
        /\ GoTo(c, "inspect", "decide")
        /\ UNCHANGED answer
  /\ UNCHANGED <<rows, store, target>>

\* What the bytes are is what was declared.
Acceptable(b, d) == TypeOf[b] = d.type /\ SizeOf[b] = d.size

Decide(c) ==
  /\ GoTo(c, "decide",
          IF Acceptable(inspected[c], declared[target[c]]) THEN "settle" ELSE "reject")
  /\ UNCHANGED <<rows, store, target, inspected, answer>>

\* markAssetRejected; whether it matched a row does not change the answer.
MarkRejected(c) ==
  /\ pc[c] = "reject"
  /\ status' = IF status[target[c]] = "pending"
               THEN [status EXCEPT ![target[c]] = "rejected"] ELSE status
  /\ Answer(c, "unsupportedMedia", target[c], None)
  /\ UNCHANGED <<owner, declared, checksum, store, target, inspected>>

\* Mutant: the update is not conditional on the status it was decided under.
MarkReady_AnyStatus(c) ==
  /\ pc[c] = "settle"
  /\ status' = [status EXCEPT ![target[c]] = "ready"]
  /\ checksum' = [checksum EXCEPT ![target[c]] = inspected[c]]
  /\ Answer(c, "ready", target[c], inspected[c])
  /\ UNCHANGED <<owner, declared, store, target, inspected>>

\* Mutant: a confirmation that lost the race answers with its own digest.
MarkReady_AnswersOwnDigest(c) ==
  /\ pc[c] = "settle"
  /\ IF status[target[c]] = "pending"
     THEN /\ status' = [status EXCEPT ![target[c]] = "ready"]
          /\ checksum' = [checksum EXCEPT ![target[c]] = inspected[c]]
     ELSE UNCHANGED <<status, checksum>>
  /\ Answer(c, "ready", target[c], inspected[c])
  /\ UNCHANGED <<owner, declared, store, target, inspected>>

\* markAssetReady, conditional on the row still being pending.
MarkReady(c) ==
  /\ pc[c] = "settle"
  /\ \/ /\ status[target[c]] = "pending"
        /\ status' = [status EXCEPT ![target[c]] = "ready"]
        /\ checksum' = [checksum EXCEPT ![target[c]] = inspected[c]]
        /\ Answer(c, "ready", target[c], inspected[c])
     \/ /\ status[target[c]] # "pending"
        /\ GoTo(c, "settle", "reread")
        /\ UNCHANGED <<status, checksum, answer>>
  /\ UNCHANGED <<owner, declared, store, target, inspected>>

\* Something else settled the row: say which way.  (No statement deletes a
\* row, so the answer for one that is gone is never given.)
Reread(c) ==
  /\ pc[c] = "reread"
  /\ IF status[target[c]] = "ready"
     THEN Answer(c, "ready", target[c], checksum[target[c]])
     ELSE Answer(c, "unsupportedMedia", target[c], None)
  /\ UNCHANGED <<rows, store, target, inspected>>

-----------------------------------------------------------------------------
\* The process dies, or the client goes: nothing is answered.
Crash(c) ==
  /\ pc[c] # "idle"
  /\ Answer(c, "none", None, None)
  /\ UNCHANGED <<rows, store, target, inspected>>

Handle(c) ==
  \/ Presign(c) \/ Inspect(c) \/ Decide(c) \/ MarkRejected(c)
  \/ MarkReady(c) \/ Reread(c)

Next ==
  \/ \E c \in Caller : PostAsset(c) \/ PostConfirmation(c) \/ Handle(c) \/ Crash(c)
  \/ \E a \in Asset : PutObject(a) \/ ExpireUrl(a)

Spec == Init /\ [][Next]_vars

-----------------------------------------------------------------------------
(* Properties.                                                             *)

TypeOK ==
  /\ status \in [Asset -> {None, "pending", "ready", "rejected"}]
  /\ owner \in [Asset -> Workspace \cup {None}]
  /\ declared \in [Asset -> Declaration \cup {None}]
  /\ checksum \in [Asset -> Body \cup {None}]
  /\ object \in [Asset -> Body \cup {None}]
  /\ urlLive \in [Asset -> BOOLEAN]
  /\ puts \in [Asset -> 0..MaxPuts]
  /\ pc \in [Caller -> Step]
  /\ target \in [Caller -> Asset \cup {None}]
  /\ inspected \in [Caller -> Body \cup {None}]
  /\ answer \in [Caller -> [kind : AnswerKind, asset : Asset \cup {None},
                            checksum : Body \cup {None}]]

\* Whoever was told "ready" was told the one digest the row keeps.
AnswersAgree ==
  \A c \in Caller : answer[c].kind = "ready" =>
    /\ status[answer[c].asset] = "ready"
    /\ answer[c].checksum = checksum[answer[c].asset]

\* Whoever was refused was refused for a reason that is there.
RefusalIsHonest ==
  \A c \in Caller : answer[c].kind = "unsupportedMedia" =>
    \/ status[answer[c].asset] = "rejected"
    \/ /\ status[answer[c].asset] = "ready"
       /\ inspected[c] \notin {None, checksum[answer[c].asset]}

(***************************************************************************)
(* Confirmations that race, are repeated or come after the bytes changed   *)
(* never answer against the row: all are told the one digest it keeps, and *)
(* a client told that its file cannot be used has a rejected asset, or     *)
(* read other bytes than the ones a concurrent confirmation had verified.  *)
(***************************************************************************)
AnswersAreTrue == AnswersAgree /\ RefusalIsHonest

(***************************************************************************)
(* The bytes of a confirmed asset cannot have changed                      *)
(* (routes/assets.ts: "The bytes cannot have changed").                    *)
(***************************************************************************)
ConfirmedBytesStand == \A a \in Asset : status[a] = "ready" => object[a] = checksum[a]

\* How an asset came out, as AssetLifecycle sees it.
outcomeBar == [a \in Asset |-> IF status[a] = "ready" THEN checksum[a]
                               ELSE IF status[a] = "rejected" THEN "rejected" ELSE None]

Abstract == INSTANCE AssetLifecycle WITH Fits <- Acceptable, outcome <- outcomeBar

\* Reserving, racing, retrying and crashing amount to one settlement an asset.
ImplementsAssetLifecycle == Abstract!Spec
=============================================================================
