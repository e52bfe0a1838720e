----------------------------- MODULE AssetUpload -----------------------------
(***************************************************************************)
(* The web client's upload of one file (apps/web/lib/asset-upload.ts):     *)
(* ask for a ticket, PUT to its url, confirm.  Composed with the api and   *)
(* the store of module Assets, whose requests and uploads are now those of *)
(* this client only; any of its calls may fail before or after it took     *)
(* effect.                                                                 *)
(***************************************************************************)
EXTENDS Assets

CONSTANTS
  ClaimedType, \* what a browser may say a file is, None for no type we accept
  MaxSize      \* ASSET_MAX_BYTE_SIZE

VARIABLES
  phase,   \* what uploadAsset awaits: "ticket", "put", "confirm"; else "ready"
  file,    \* the file it was called with
  claimed, \* file.type, which on most platforms is the extension
  result   \* what it returned last

client == <<phase, file, claimed, result>>
uploadVars == <<vars, client>>

UploadInit ==
  /\ Init
  /\ phase = [c \in Caller |-> "ready"]
  /\ file = [c \in Caller |-> None]
  /\ claimed = [c \in Caller |-> None]
  /\ result = [c \in Caller |-> "none"]

Return(c, outcome) ==
  /\ phase' = [phase EXCEPT ![c] = "ready"]
  /\ result' = [result EXCEPT ![c] = outcome]
  /\ UNCHANGED <<file, claimed>>

Await(c, next) ==
  /\ phase' = [phase EXCEPT ![c] = next]
  /\ UNCHANGED <<file, claimed, result>>

-----------------------------------------------------------------------------
\* What is refused without a request.
Refusal(b, type) ==
  IF type = None THEN "unsupported"
  ELSE IF SizeOf[b] > MaxSize THEN "tooLarge"
  ELSE IF SizeOf[b] = 0 THEN "unsupported" ELSE "none"

\* uploadAsset is called with a file; a ticket is asked for if it passes.
Choose(c) ==
  /\ phase[c] = "ready" /\ pc[c] = "idle"
  /\ \E b \in Body, type \in ClaimedType \cup {None} :
       /\ file' = [file EXCEPT ![c] = b]
       /\ claimed' = [claimed EXCEPT ![c] = type]
       /\ LET refused == Refusal(b, type) IN
          IF refused # "none"
          THEN /\ result' = [result EXCEPT ![c] = refused]
               /\ UNCHANGED phase
          ELSE /\ result' = [result EXCEPT ![c] = "none"]
               /\ phase' = [phase EXCEPT ![c] = "ticket"]
  /\ answer' = [answer EXCEPT ![c] = NoAnswer]
  /\ target' = [target EXCEPT ![c] = None]
  /\ UNCHANGED <<rows, store, pc, inspected>>

\* The api takes the request for a ticket, with the declaration it carries.
ReserveAsset(c) ==
  /\ phase[c] = "ticket" /\ answer[c] = NoAnswer
  /\ PostAsset(c)
  /\ pc'[c] = "presign" =>
       declared'[target'[c]] = [type |-> claimed[c], size |-> SizeOf[file[c]]]
  /\ UNCHANGED client

ReceiveTicket(c) ==
  /\ phase[c] = "ticket" /\ pc[c] = "idle" /\ answer[c] # NoAnswer
  /\ IF answer[c].kind = "ticket" THEN Await(c, "put") ELSE Return(c, "failed")
  /\ UNCHANGED vars

(***************************************************************************)
(* fetch of the signed url.  The store takes the file or it does not, and  *)
(* either way the client may see a failure.                                *)
(***************************************************************************)
PutFile(c) ==
  LET a == answer[c].asset IN
  /\ phase[c] = "put"
  /\ \/ /\ urlLive[a] /\ puts[a] < MaxPuts
        /\ SizeOf[file[c]] = declared[a].size
        /\ object' = [object EXCEPT ![a] = file[c]]
        /\ puts' = [puts EXCEPT ![a] = @ + 1]
        /\ \/ Await(c, "confirm") /\ answer' = [answer EXCEPT ![c] = NoAnswer]
           \/ Return(c, "failed") /\ UNCHANGED answer
     \/ /\ Return(c, "failed")
        /\ UNCHANGED <<object, puts, answer>>
  /\ UNCHANGED <<rows, urlLive, pc, target, inspected>>

\* The api takes the request for confirmation of the ticket's asset.
ConfirmAsset(c) ==
  /\ phase[c] = "confirm" /\ answer[c] = NoAnswer
  /\ PostConfirmation(c)
  /\ target'[c] = target[c]
  /\ UNCHANGED client

\* Mutant: every answer but the refusal of the bytes counts as an upload.
ReceiveConfirmation_TrustsAnyAnswer(c) ==
  /\ phase[c] = "confirm" /\ pc[c] = "idle" /\ answer[c] # NoAnswer
  /\ Return(c, IF answer[c].kind = "unsupportedMedia" THEN "unsupported" ELSE "uploaded")
  /\ UNCHANGED vars

ReceiveConfirmation(c) ==
  /\ phase[c] = "confirm" /\ pc[c] = "idle" /\ answer[c] # NoAnswer
  /\ Return(c, IF answer[c].kind = "unsupportedMedia" THEN "unsupported"
               ELSE IF answer[c].kind # "ready" THEN "failed" ELSE "uploaded")
  /\ UNCHANGED vars

\* The connection is lost: uploadAsset rejects, the api goes on or dies.
LoseCall(c) ==
  /\ phase[c] \in {"ticket", "confirm"}
  /\ Return(c, "failed")
  /\ UNCHANGED vars

ApiStep(c) == Handle(c) /\ UNCHANGED client

\* The api dies, and the call it was serving, if any client still waits for it.
ApiDies(c) ==
  /\ Crash(c)
  /\ IF phase[c] = "ready" THEN UNCHANGED client ELSE Return(c, "failed")

UploadNext ==
  \/ \E c \in Caller :
       \/ Choose(c) \/ ReserveAsset(c) \/ ReceiveTicket(c) \/ PutFile(c)
       \/ ConfirmAsset(c) \/ ReceiveConfirmation(c) \/ LoseCall(c) \/ ApiStep(c)
       \/ ApiDies(c)
  \/ \E a \in Asset : ExpireUrl(a) /\ UNCHANGED client

UploadSpec == UploadInit /\ [][UploadNext]_uploadVars

-----------------------------------------------------------------------------
(* Properties.                                                             *)

\* This client writes to a url once and never again.
UploadedIsTheFile ==
  \A c \in Caller : result[c] = "uploaded" =>
    /\ status[target[c]] = "ready"
    /\ object[target[c]] = file[c]
    /\ checksum[target[c]] = file[c]

UnsupportedIsTheFile ==
  \A c \in Caller : result[c] = "unsupported" /\ target[c] # None =>
    /\ TypeOf[file[c]] # claimed[c]
    /\ status[target[c]] = "rejected"

(***************************************************************************)
(* What the form is told is about the very file that was chosen.  A caller *)
(* gets an asset id only for a usable asset with the chosen bytes stored   *)
(* under it and recorded in its digest; and one told that the bytes are    *)
(* not what the file claims to be has a file that is not, and an asset     *)
(* nothing can revive.                                                     *)
(***************************************************************************)
OutcomeIsTheFile == UploadedIsTheFile /\ UnsupportedIsTheFile
=============================================================================
