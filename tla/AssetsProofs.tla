----------------------------- MODULE AssetsProofs -----------------------------
(* Theorems about uploaded files and the browser that uploads them, for    *)
(* any clients, assets and bodies.                                         *)
EXTENDS AssetUpload, TLAPS

(***************************************************************************)
(* A reserved asset has its declaration, and a usable one names bytes that *)
(* are what was declared.                                                  *)
(***************************************************************************)
AssetOK(a) ==
  /\ declared[a] = None <=> status[a] = None
  /\ status[a] = "ready" => checksum[a] \in Body /\ Acceptable(checksum[a], declared[a])

(***************************************************************************)
(* What holds at each step of a request.  What it inspected it decided     *)
(* about, by a declaration that does not change; whether the row is still  *)
(* open it does not know until its own update has been tried.              *)
(***************************************************************************)
RequestOK(c) ==
  /\ pc[c] # "idle" =>
       /\ target[c] \in Asset
       /\ status[target[c]] # None
       /\ answer[c].kind = "none"
  /\ pc[c] \in {"decide", "reject", "settle", "reread"} => inspected[c] \in Body
  /\ pc[c] = "settle" => Acceptable(inspected[c], declared[target[c]])
  /\ pc[c] = "reject" => ~Acceptable(inspected[c], declared[target[c]])
  /\ pc[c] = "reread" => status[target[c]] \in {"ready", "rejected"}

AnswerOK(c) ==
  /\ answer[c].kind = "ready" =>
       /\ answer[c].asset \in Asset
       /\ status[answer[c].asset] = "ready"
       /\ answer[c].checksum = checksum[answer[c].asset]
  /\ answer[c].kind = "unsupportedMedia" =>
       /\ answer[c].asset \in Asset
       /\ \/ status[answer[c].asset] = "rejected"
          \/ /\ status[answer[c].asset] = "ready"
             /\ inspected[c] \notin {None, checksum[answer[c].asset]}

CallerOK(c) == RequestOK(c) /\ AnswerOK(c)

Inv ==
  /\ TypeOK
  /\ \A a \in Asset : AssetOK(a)
  /\ \A c \in Caller : CallerOK(c)

LEMMA InitInv == Init => Inv
BY AssetsAssumption DEF Init, Inv, TypeOK, AssetOK, CallerOK, RequestOK, AnswerOK, NoAnswer,
   Step, AnswerKind

-----------------------------------------------------------------------------
(* An asset is reserved once and settled at most once.                     *)
RowsAdvance ==
  \A a \in Asset :
    /\ status[a] # None => status'[a] # None /\ declared'[a] = declared[a]
    /\ status[a] \in {"ready", "rejected"} =>
         status'[a] = status[a] /\ checksum'[a] = checksum[a]

SameRequest(d) ==
  /\ pc'[d] = pc[d]
  /\ target'[d] = target[d]
  /\ inspected'[d] = inspected[d]
  /\ answer'[d] = answer[d]

LEMMA CallerKept ==
  ASSUME Inv, RowsAdvance, NEW d \in Caller, SameRequest(d)
  PROVE  CallerOK(d)'
<1>1. TypeOK /\ RequestOK(d) /\ AnswerOK(d)
  BY DEF Inv, CallerOK
<1>2. RequestOK(d)'
  BY <1>1, AssetsAssumption DEF RequestOK, SameRequest, RowsAdvance, TypeOK, Acceptable
<1>3. AnswerOK(d)'
  BY <1>1, AssetsAssumption DEF AnswerOK, SameRequest, RowsAdvance, TypeOK
<1>4. QED
  BY <1>2, <1>3 DEF CallerOK

LEMMA AssetsKept ==
  ASSUME Inv, UNCHANGED rows
  PROVE  RowsAdvance /\ \A a \in Asset : AssetOK(a)'
BY DEF Inv, rows, RowsAdvance, AssetOK, Acceptable

\* A step of one caller: it is enough to look at the types, the rows and it.
OthersStand(c) == \A d \in Caller \ {c} : SameRequest(d)

LEMMA OneCaller ==
  ASSUME Inv, NEW c \in Caller, TypeOK', RowsAdvance, \A a \in Asset : AssetOK(a)',
         OthersStand(c), CallerOK(c)'
  PROVE  Inv'
BY CallerKept DEF Inv, OthersStand

ControlTyped ==
  /\ pc' \in [Caller -> Step]
  /\ answer' \in [Caller -> [kind : AnswerKind, asset : Asset \cup {None},
                             checksum : Body \cup {None}]]

LEMMA AnswerTyped ==
  ASSUME TypeOK, NEW c \in Caller, NEW kind \in AnswerKind, NEW a \in Asset \cup {None},
         NEW digest \in Body \cup {None}, Answer(c, kind, a, digest)
  PROVE  ControlTyped
<1>1. [kind |-> kind, asset |-> a, checksum |-> digest]
        \in [kind : AnswerKind, asset : Asset \cup {None}, checksum : Body \cup {None}]
  OBVIOUS
<1>2. QED
  BY <1>1 DEF TypeOK, Answer, ControlTyped, Step

LEMMA GoToTyped ==
  ASSUME TypeOK, NEW c \in Caller, NEW from, NEW to \in Step, GoTo(c, from, to),
         UNCHANGED answer
  PROVE  ControlTyped
BY DEF TypeOK, GoTo, ControlTyped

(***************************************************************************)
(* The common case: one caller moves and no row changes.                   *)
(***************************************************************************)
LEMMA ReadingStep ==
  ASSUME Inv, NEW c \in Caller, TypeOK', UNCHANGED rows, OthersStand(c), CallerOK(c)'
  PROVE  Inv'
BY AssetsKept, OneCaller

-----------------------------------------------------------------------------
(* One lemma per action.                                                   *)

LEMMA PostAssetInv ==
  ASSUME Inv, NEW c \in Caller, PostAsset(c)
  PROVE  Inv'
<1> USE DEF PostAsset, Answer, NoAnswer
<1>0. TypeOK /\ CallerOK(c) /\ \A a \in Asset : AssetOK(a)
  BY DEF Inv
<1>1. OthersStand(c)
  BY <1>0 DEF TypeOK, OthersStand, SameRequest
<1>2. CASE UNCHANGED rows /\ Answer(c, "notFound", None, None) /\ target' = [target EXCEPT ![c] = None]
  <2>1. TypeOK'
    BY <1>0, <1>2 DEF TypeOK, rows, store, Step, AnswerKind
  <2>2. CallerOK(c)'
    BY <1>0, <1>2 DEF TypeOK, CallerOK, RequestOK, AnswerOK
  <2>3. QED
    BY <1>1, <1>2, <2>1, <2>2, ReadingStep
<1>3. ASSUME NEW w \in Workspace, NEW a \in Asset, NEW d \in Declaration,
             status[a] = None,
             status' = [status EXCEPT ![a] = "pending"],
             owner' = [owner EXCEPT ![a] = w],
             declared' = [declared EXCEPT ![a] = d],
             target' = [target EXCEPT ![c] = a],
             pc' = [pc EXCEPT ![c] = "presign"],
             answer' = [answer EXCEPT ![c] = NoAnswer],
             UNCHANGED checksum
      PROVE  Inv'
  <2>1. TypeOK'
    BY <1>0, <1>3 DEF TypeOK, store, Step, AnswerKind
  <2>2. RowsAdvance
    BY <1>0, <1>3, AssetsAssumption DEF TypeOK, RowsAdvance
  <2>3. \A b \in Asset : AssetOK(b)'
    BY <1>0, <1>3, AssetsAssumption DEF TypeOK, AssetOK, Acceptable
  <2>4. CallerOK(c)'
    BY <1>0, <1>3, AssetsAssumption DEF TypeOK, CallerOK, RequestOK, AnswerOK
  <2>5. QED
    BY <1>1, <2>1, <2>2, <2>3, <2>4, OneCaller
<1>4. QED
  BY <1>2, <1>3

LEMMA PresignInv ==
  ASSUME Inv, NEW c \in Caller, Presign(c)
  PROVE  Inv'
<1> USE DEF Presign, Answer
<1>1. TypeOK /\ CallerOK(c)
  BY DEF Inv
<1>2. TypeOK'
  BY <1>1 DEF TypeOK, CallerOK, RequestOK, rows, Step, AnswerKind
<1>3. OthersStand(c)
  BY <1>1 DEF TypeOK, OthersStand, SameRequest
<1>4. CallerOK(c)'
  BY <1>1 DEF TypeOK, CallerOK, RequestOK, AnswerOK
<1>5. QED
  BY <1>2, <1>3, <1>4, ReadingStep

LEMMA StoreInv ==
  ASSUME Inv, NEW a \in Asset, PutObject(a) \/ ExpireUrl(a)
  PROVE  Inv'
<1>1. TypeOK
  BY DEF Inv
<1>2. TypeOK'
  <2>1. CASE PutObject(a)
    BY <1>1, <2>1, AssetsAssumption DEF TypeOK, PutObject, rows
  <2>2. CASE ExpireUrl(a)
    BY <1>1, <2>2 DEF TypeOK, ExpireUrl, rows
  <2>3. QED
    BY <2>1, <2>2
<1>3. UNCHANGED <<rows, pc, target, inspected, answer>>
  BY DEF PutObject, ExpireUrl
<1>4. \A d \in Caller : SameRequest(d)
  BY <1>3 DEF SameRequest
<1>5. QED
  BY <1>2, <1>3, <1>4, AssetsKept, CallerKept DEF Inv

LEMMA PostConfirmationInv ==
  ASSUME Inv, NEW c \in Caller, PostConfirmation(c)
  PROVE  Inv'
<1> USE DEF PostConfirmation, NoAnswer
<1>1. TypeOK /\ CallerOK(c) /\ \A a \in Asset : AssetOK(a)
  BY DEF Inv
<1>2. OthersStand(c)
  BY <1>1 DEF Answer, TypeOK, OthersStand, SameRequest
<1>3. PICK w \in Workspace, a \in Asset :
        /\ target' = [target EXCEPT ![c] = a]
        /\ \/ Answer(c, "notFound", a, None)
           \/ BelongsToCaller(c, w, a) /\ status[a] = "ready" /\ Answer(c, "ready", a, checksum[a])
           \/ BelongsToCaller(c, w, a) /\ status[a] = "rejected" /\ Answer(c, "unsupportedMedia", a, None)
           \/ /\ BelongsToCaller(c, w, a)
              /\ pc' = [pc EXCEPT ![c] = "inspect"]
              /\ answer' = [answer EXCEPT ![c] = NoAnswer]
  OBVIOUS
<1>4. /\ checksum[a] \in Body \cup {None}
      /\ NoAnswer \in [kind : AnswerKind, asset : Asset \cup {None}, checksum : Body \cup {None}]
  BY <1>1 DEF TypeOK, AnswerKind
<1>5. TypeOK'
  <2>1. ControlTyped
    <3>1. CASE pc' = [pc EXCEPT ![c] = "inspect"] /\ answer' = [answer EXCEPT ![c] = NoAnswer]
      BY <1>1, <1>4, <3>1 DEF TypeOK, ControlTyped, Step
    <3>2. CASE \E kind \in {"notFound", "ready", "unsupportedMedia"}, digest \in {None, checksum[a]} :
                 Answer(c, kind, a, digest)
      BY <1>1, <1>4, <3>2, AnswerTyped DEF AnswerKind
    <3>3. QED
      BY <1>3, <3>1, <3>2
  <2>2. QED
    BY <1>1, <1>3, <2>1 DEF TypeOK, ControlTyped, rows, store
<1>6. CallerOK(c)'
  BY <1>1, <1>3, AssetsAssumption DEF Answer, TypeOK, CallerOK, RequestOK, AnswerOK, BelongsToCaller, rows
<1>7. QED
  BY <1>2, <1>5, <1>6, ReadingStep

LEMMA InspectInv ==
  ASSUME Inv, NEW c \in Caller, Inspect(c)
  PROVE  Inv'
<1> USE DEF Inspect
<1>1. TypeOK /\ CallerOK(c)
  BY DEF Inv
<1>2. TypeOK'
  <2>1. target[c] \in Asset
    BY <1>1 DEF CallerOK, RequestOK
  <2>2. ControlTyped
    BY <1>1, <2>1, AnswerTyped, GoToTyped DEF AnswerKind, Step
  <2>3. QED
    BY <1>1, <2>1, <2>2 DEF TypeOK, ControlTyped, rows, store
<1>3. OthersStand(c)
  BY <1>1 DEF Answer, GoTo, TypeOK, OthersStand, SameRequest
<1>4. CallerOK(c)'
  BY <1>1 DEF Answer, GoTo, TypeOK, CallerOK, RequestOK, AnswerOK, rows
<1>5. QED
  BY <1>2, <1>3, <1>4, ReadingStep

LEMMA DecideInv ==
  ASSUME Inv, NEW c \in Caller, Decide(c)
  PROVE  Inv'
<1> USE DEF Decide, GoTo
<1>1. TypeOK /\ CallerOK(c)
  BY DEF Inv
<1>2. TypeOK'
  BY <1>1 DEF TypeOK, rows, store, Step
<1>3. OthersStand(c)
  BY <1>1 DEF TypeOK, OthersStand, SameRequest
<1>4. CallerOK(c)'
  BY <1>1 DEF TypeOK, CallerOK, RequestOK, AnswerOK, Acceptable, rows
<1>5. QED
  BY <1>2, <1>3, <1>4, ReadingStep

\* The row may have been settled meanwhile, then by bytes that fit.
LEMMA MarkRejectedInv ==
  ASSUME Inv, NEW c \in Caller, MarkRejected(c)
  PROVE  Inv'
<1> USE DEF MarkRejected, Answer
<1>1. TypeOK /\ CallerOK(c) /\ \A a \in Asset : AssetOK(a)
  BY DEF Inv
<1>2. target[c] \in Asset /\ status[target[c]] \in {"pending", "ready", "rejected"}
  BY <1>1 DEF TypeOK, CallerOK, RequestOK
<1>3. TypeOK'
  BY <1>1, <1>2 DEF TypeOK, store, Step, AnswerKind
<1>4. RowsAdvance
  BY <1>1, <1>2, AssetsAssumption DEF TypeOK, RowsAdvance
<1>5. \A a \in Asset : AssetOK(a)'
  BY <1>1, <1>2, AssetsAssumption DEF TypeOK, AssetOK, Acceptable
<1>6. OthersStand(c)
  BY <1>1 DEF TypeOK, OthersStand, SameRequest
<1>7. CallerOK(c)'
  <2>1. status[target[c]] = "ready" => inspected[c] \notin {None, checksum[target[c]]}
    BY <1>1, <1>2, AssetsAssumption DEF CallerOK, RequestOK, AssetOK
  <2>2. QED
    BY <1>1, <1>2, <2>1 DEF TypeOK, CallerOK, RequestOK, AnswerOK
<1>8. QED
  BY <1>3, <1>4, <1>5, <1>6, <1>7, OneCaller

LEMMA MarkReadyInv ==
  ASSUME Inv, NEW c \in Caller, MarkReady(c)
  PROVE  Inv'
<1> USE DEF MarkReady
<1>1. TypeOK /\ CallerOK(c) /\ \A a \in Asset : AssetOK(a)
  BY DEF Inv
<1>2. /\ target[c] \in Asset
      /\ inspected[c] \in Body
      /\ Acceptable(inspected[c], declared[target[c]])
      /\ status[target[c]] \in {"pending", "ready", "rejected"}
  BY <1>1 DEF TypeOK, CallerOK, RequestOK
<1>3. TypeOK'
  <2>1. ControlTyped
    BY <1>1, <1>2, AnswerTyped, GoToTyped DEF AnswerKind, Step
  <2>2. QED
    BY <1>1, <1>2, <2>1 DEF TypeOK, ControlTyped, store
<1>4. RowsAdvance
  BY <1>1, <1>2, AssetsAssumption DEF TypeOK, RowsAdvance
<1>5. \A a \in Asset : AssetOK(a)'
  BY <1>1, <1>2, AssetsAssumption DEF TypeOK, AssetOK, Acceptable
<1>6. OthersStand(c)
  BY <1>1 DEF Answer, GoTo, TypeOK, OthersStand, SameRequest
<1>7. CallerOK(c)'
  <2>1. CASE status[target[c]] = "pending"
    BY <1>1, <1>2, <2>1, AssetsAssumption DEF Answer, GoTo, TypeOK, CallerOK, RequestOK, AnswerOK
  <2>2. CASE status[target[c]] # "pending"
    BY <1>1, <1>2, <2>2, AssetsAssumption DEF Answer, GoTo, TypeOK, CallerOK, RequestOK, AnswerOK
  <2>3. QED
    BY <2>1, <2>2
<1>8. QED
  BY <1>3, <1>4, <1>5, <1>6, <1>7, OneCaller

LEMMA RereadInv ==
  ASSUME Inv, NEW c \in Caller, Reread(c)
  PROVE  Inv'
<1> USE DEF Reread
<1>1. TypeOK /\ CallerOK(c) /\ \A a \in Asset : AssetOK(a)
  BY DEF Inv
<1>2. TypeOK'
  <2>1. target[c] \in Asset /\ checksum[target[c]] \in Body \cup {None}
    BY <1>1 DEF TypeOK, CallerOK, RequestOK
  <2>2. ControlTyped
    BY <1>1, <2>1, AnswerTyped DEF AnswerKind
  <2>3. QED
    BY <1>1, <2>2 DEF TypeOK, ControlTyped, rows, store
<1>3. OthersStand(c)
  BY <1>1 DEF Answer, TypeOK, OthersStand, SameRequest
<1>4. CallerOK(c)'
  BY <1>1 DEF Answer, TypeOK, CallerOK, RequestOK, AnswerOK, rows
<1>5. QED
  BY <1>2, <1>3, <1>4, ReadingStep

LEMMA CrashInv ==
  ASSUME Inv, NEW c \in Caller, Crash(c)
  PROVE  Inv'
<1> USE DEF Crash, Answer
<1>1. TypeOK
  BY DEF Inv
<1>2. TypeOK'
  BY <1>1 DEF TypeOK, rows, store, Step, AnswerKind
<1>3. OthersStand(c)
  BY <1>1 DEF TypeOK, OthersStand, SameRequest
<1>4. CallerOK(c)'
  BY <1>1 DEF TypeOK, CallerOK, RequestOK, AnswerOK, rows
<1>5. QED
  BY <1>2, <1>3, <1>4, ReadingStep

LEMMA StutterInv ==
  ASSUME Inv, UNCHANGED vars
  PROVE  Inv'
BY DEF vars, Inv, TypeOK, AssetOK, CallerOK, RequestOK, AnswerOK, Acceptable

-----------------------------------------------------------------------------
\* The inductive invariant holds.
THEOREM InvAlways == Spec => []Inv
<1>1. Inv /\ [Next]_vars => Inv'
  BY PostAssetInv, PresignInv, StoreInv, PostConfirmationInv, InspectInv, DecideInv,
     MarkRejectedInv, MarkReadyInv, RereadInv, CrashInv, StutterInv DEF Next, Handle
<1>2. QED
  BY InitInv, <1>1, PTL DEF Spec

\* Every variable keeps to its type.
THEOREM TypeCorrect == Spec => []TypeOK
<1>1. Inv => TypeOK
  BY DEF Inv
<1>2. QED
  BY InvAlways, <1>1, PTL

(***************************************************************************)
(* Confirmations that race, repeat or follow a change of the bytes never   *)
(* answer against the row (routes/assets.ts, the confirmation handler).    *)
(***************************************************************************)
THEOREM ConfirmationsAnswerTruly == Spec => []AnswersAreTrue
<1>1. Inv => AnswersAreTrue
  BY DEF Inv, CallerOK, AnswerOK, AnswersAreTrue, AnswersAgree, RefusalIsHonest
<1>2. QED
  BY InvAlways, <1>1, PTL

-----------------------------------------------------------------------------
(* The refinement of AssetLifecycle: reserving and the two conditional     *)
(* updates are its steps, every other step stutters.                       *)

LEMMA InitRefines == Init => Abstract!Init
BY DEF Init, Abstract!Init, outcomeBar

LEMMA ReserveStep ==
  ASSUME Inv, NEW a \in Asset, NEW d \in Declaration, status[a] = None,
         status' = [status EXCEPT ![a] = "pending"],
         declared' = [declared EXCEPT ![a] = d],
         UNCHANGED checksum
  PROVE  Abstract!Next
<1>1. TypeOK /\ declared[a] = None
  BY DEF Inv, AssetOK
<1>2. outcomeBar' = outcomeBar
  BY <1>1, AssetsAssumption DEF outcomeBar, TypeOK
<1>3. QED
  BY <1>1, <1>2 DEF Abstract!Next, Abstract!Reserve

LEMMA SettleStep ==
  ASSUME Inv, NEW a \in Asset, NEW o, status[a] = "pending", UNCHANGED declared,
         \/ /\ o \in Body /\ Acceptable(o, declared[a])
            /\ status' = [status EXCEPT ![a] = "ready"]
            /\ checksum' = [checksum EXCEPT ![a] = o]
         \/ /\ o = "rejected"
            /\ status' = [status EXCEPT ![a] = "rejected"]
            /\ UNCHANGED checksum
  PROVE  Abstract!Next
<1>1. TypeOK /\ declared[a] # None /\ outcomeBar[a] = None
  BY AssetsAssumption DEF Inv, AssetOK, outcomeBar
<1>2. outcomeBar' = [outcomeBar EXCEPT ![a] = o]
  BY <1>1 DEF outcomeBar, TypeOK
<1>3. o \in {b \in Body : Acceptable(b, declared[a])} \cup {"rejected"}
  OBVIOUS
<1>4. Abstract!Settle(a)
  BY <1>1, <1>2, <1>3 DEF Abstract!Settle
<1>5. QED
  BY <1>4 DEF Abstract!Next

LEMMA OtherStep ==
  ASSUME UNCHANGED <<status, checksum, declared>>
  PROVE  UNCHANGED <<declared, outcomeBar>>
BY DEF outcomeBar

LEMMA NextRefines ==
  ASSUME Inv, [Next]_vars
  PROVE  [Abstract!Next]_<<declared, outcomeBar>>
<1>1. ASSUME NEW c \in Caller, PostAsset(c)
      PROVE  [Abstract!Next]_<<declared, outcomeBar>>
  <2>1. CASE UNCHANGED rows
    BY <2>1, OtherStep DEF rows
  <2>2. ASSUME NEW a \in Asset, NEW d \in Declaration, status[a] = None,
               status' = [status EXCEPT ![a] = "pending"],
               declared' = [declared EXCEPT ![a] = d],
               UNCHANGED checksum
        PROVE  Abstract!Next
    BY <2>2, ReserveStep
  <2>3. QED
    BY <1>1, <2>1, <2>2 DEF PostAsset
<1>2. ASSUME NEW c \in Caller, MarkRejected(c)
      PROVE  [Abstract!Next]_<<declared, outcomeBar>>
  <2>1. target[c] \in Asset
    BY <1>2 DEF Inv, CallerOK, RequestOK, MarkRejected
  <2>2. CASE status[target[c]] = "pending"
    BY <1>2, <2>1, <2>2, SettleStep DEF MarkRejected
  <2>3. CASE status[target[c]] # "pending"
    BY <1>2, <2>3, OtherStep DEF MarkRejected
  <2>4. QED
    BY <2>2, <2>3
<1>3. ASSUME NEW c \in Caller, MarkReady(c)
      PROVE  [Abstract!Next]_<<declared, outcomeBar>>
  <2>1. /\ target[c] \in Asset /\ inspected[c] \in Body
        /\ Acceptable(inspected[c], declared[target[c]])
    BY <1>3 DEF Inv, CallerOK, RequestOK, MarkReady
  <2>2. CASE status[target[c]] = "pending"
    BY <1>3, <2>1, <2>2, SettleStep DEF MarkReady
  <2>3. CASE status[target[c]] # "pending"
    BY <1>3, <2>3, OtherStep DEF MarkReady
  <2>4. QED
    BY <2>2, <2>3
<1>4. ASSUME NEW c \in Caller,
             \/ Presign(c) \/ PostConfirmation(c) \/ Inspect(c) \/ Decide(c)
             \/ Reread(c) \/ Crash(c)
      PROVE  UNCHANGED <<declared, outcomeBar>>
  BY <1>4, OtherStep DEF Presign, PostConfirmation, Inspect, Decide, Reread, Crash, rows
<1>5. ASSUME NEW a \in Asset, PutObject(a) \/ ExpireUrl(a)
      PROVE  UNCHANGED <<declared, outcomeBar>>
  BY <1>5, OtherStep DEF PutObject, ExpireUrl, rows
<1>6. CASE UNCHANGED vars
  BY <1>6, OtherStep DEF vars
<1>7. QED
  BY <1>1, <1>2, <1>3, <1>4, <1>5, <1>6 DEF Next, Handle

(***************************************************************************)
(* Whatever races, repeats, fails or expires, an asset is reserved once,   *)
(* settled at most once, and if usable names for ever the verified bytes   *)
(* (markAssetReady and markAssetRejected of packages/db/src/assets.ts).    *)
(***************************************************************************)
THEOREM AssetsAreSettledOnce == Spec => ImplementsAssetLifecycle
<1>1. Inv /\ [Next]_vars => [Abstract!Next]_<<declared, outcomeBar>>
  BY NextRefines
<1>2. QED
  BY InitRefines, <1>1, InvAlways, PTL DEF Spec, ImplementsAssetLifecycle, Abstract!Spec
-----------------------------------------------------------------------------
(***************************************************************************)
(* The browser's side (module AssetUpload).  Each client has an asset of   *)
(* its own as long as it has one at all, so nobody else stores bytes under *)
(* it or settles it; and where its call stands says what is stored there,  *)
(* what was declared for it and what its confirmation has read.  A call    *)
(* that was lost may leave a request behind, which the outcome of the call *)
(* does not depend on: until that is over, no file can be chosen.          *)
(***************************************************************************)
ClientTyped ==
  /\ phase \in [Caller -> {"ready", "ticket", "put", "confirm"}]
  /\ file \in [Caller -> Body \cup {None}]
  /\ claimed \in [Caller -> ClaimedType \cup {None}]
  /\ result \in [Caller -> {"none", "unsupported", "tooLarge", "failed", "uploaded"}]

Declares(c) ==
  /\ target[c] \in Asset
  /\ declared[target[c]] = [type |-> claimed[c], size |-> SizeOf[file[c]]]

HasTicket(c) ==
  /\ Declares(c)
  /\ status[target[c]] = "pending"
  /\ inspected[c] = None

TicketOK(c) ==
  /\ pc[c] \in {"idle", "presign"}
  /\ pc[c] = "presign" => HasTicket(c)
  /\ answer[c].kind = "ticket" => HasTicket(c) /\ answer[c].asset = target[c]

PutOK(c) ==
  /\ pc[c] = "idle"
  /\ HasTicket(c)
  /\ answer[c].asset = target[c]

\* How the confirmation of its file came out, if it has.
SettledByFile(c) ==
  \/ status[target[c]] = "pending"
  \/ status[target[c]] = "ready" /\ checksum[target[c]] = file[c]
  \/ status[target[c]] = "rejected" /\ TypeOf[file[c]] # claimed[c]

ConfirmOK(c) ==
  /\ pc[c] # "presign"
  /\ Declares(c)
  /\ object[target[c]] = file[c]
  /\ inspected[c] \in {None, file[c]}
  /\ answer[c].kind # "none" => answer[c].asset = target[c]
  /\ SettledByFile(c)

ResultOK(c) ==
  /\ result[c] = "uploaded" =>
       /\ pc[c] = "idle" /\ target[c] \in Asset
       /\ status[target[c]] = "ready"
       /\ object[target[c]] = file[c] /\ checksum[target[c]] = file[c]
  /\ result[c] = "unsupported" =>
       /\ pc[c] = "idle"
       /\ target[c] # None =>
            status[target[c]] = "rejected" /\ TypeOf[file[c]] # claimed[c]

ClientOK(c) ==
  /\ phase[c] = "ready" => ResultOK(c)
  /\ phase[c] # "ready" => file[c] \in Body /\ result[c] = "none"
  /\ phase[c] = "ticket" => TicketOK(c)
  /\ phase[c] = "put" => PutOK(c)
  /\ phase[c] = "confirm" => ConfirmOK(c)

\* Nobody else has this client's asset, and it was reserved.
OwnAsset(c) ==
  target[c] # None =>
    /\ status[target[c]] # None
    /\ \A d \in Caller : target[d] = target[c] => d = c

UploadInv ==
  /\ Inv
  /\ ClientTyped
  /\ \A c \in Caller : OwnAsset(c) /\ ClientOK(c)

-----------------------------------------------------------------------------
(* The browser's steps.                                                    *)

SameClient(d) ==
  /\ phase'[d] = phase[d]
  /\ file'[d] = file[d]
  /\ claimed'[d] = claimed[d]
  /\ result'[d] = result[d]

OtherClientsStand(c) == \A d \in Caller \ {c} : SameRequest(d) /\ SameClient(d)

SameAsset(a) ==
  /\ status'[a] = status[a]
  /\ declared'[a] = declared[a]
  /\ checksum'[a] = checksum[a]
  /\ object'[a] = object[a]

\* A step of one client changes no reserved asset but its own.
OtherAssetsStand(c) == \A a \in Asset : status[a] # None /\ a # target[c] => SameAsset(a)

LEMMA ClientKept ==
  ASSUME UploadInv, NEW d \in Caller, SameRequest(d), SameClient(d),
         target[d] # None => SameAsset(target[d])
  PROVE  ClientOK(d)'
<1>1. ClientOK(d) /\ (target[d] \in Asset => target[d] # None)
  BY AssetsAssumption DEF UploadInv
<1>2. phase[d] = "ready" => ResultOK(d)'
  BY <1>1 DEF ClientOK, ResultOK, SameRequest, SameClient, SameAsset
<1>3. phase[d] = "ticket" => TicketOK(d)'
  BY <1>1 DEF ClientOK, TicketOK, HasTicket, Declares, SameRequest, SameClient, SameAsset
<1>4. phase[d] = "put" => PutOK(d)'
  BY <1>1 DEF ClientOK, PutOK, HasTicket, Declares, SameRequest, SameClient, SameAsset
<1>5. phase[d] = "confirm" => ConfirmOK(d)'
  BY <1>1 DEF ClientOK, ConfirmOK, SettledByFile, Declares, SameRequest, SameClient, SameAsset
<1>6. QED
  BY <1>1, <1>2, <1>3, <1>4, <1>5 DEF ClientOK, SameClient

\* A step of one client: it is enough to look at the api, the types and it.
LEMMA OneClient ==
  ASSUME UploadInv, NEW c \in Caller, Inv', ClientTyped',
         OtherClientsStand(c), OtherAssetsStand(c),
         target'[c] \notin {None, target[c]} => status[target'[c]] = None,
         target'[c] # None => status'[target'[c]] # None,
         ClientOK(c)'
  PROVE  UploadInv'
<1>1. ASSUME NEW d \in Caller \ {c}
      PROVE  ClientOK(d)' /\ OwnAsset(d)'
  <2>1. SameRequest(d) /\ SameClient(d)
    BY DEF OtherClientsStand
  <2>2. OwnAsset(d) /\ target[d] \in Asset \cup {None}
    BY DEF UploadInv, Inv, TypeOK
  <2>3. target[d] # None => SameAsset(target[d])
    BY <2>2 DEF OwnAsset, OtherAssetsStand
  <2>4. ASSUME target[d] # None, NEW e \in Caller, target'[e] = target'[d]
        PROVE  e = d
    <3>1. target'[d] = target[d] /\ status[target[d]] # None
      BY <2>1, <2>2, <2>4 DEF SameRequest, OwnAsset
    <3>2. CASE e = c
      BY <2>2, <2>4, <3>1, <3>2 DEF OwnAsset
    <3>3. CASE e # c
      BY <2>2, <2>4, <3>1, <3>3 DEF OwnAsset, OtherClientsStand, SameRequest
    <3>4. QED
      BY <3>2, <3>3
  <2>5. QED
    BY <2>1, <2>2, <2>3, <2>4, ClientKept DEF OwnAsset, SameRequest, SameAsset
<1>2. OwnAsset(c)'
  <2> SUFFICES ASSUME target'[c] # None, NEW d \in Caller, target'[d] = target'[c], d # c
               PROVE  FALSE
    BY DEF OwnAsset
  <2>1. target'[d] = target[d] /\ OwnAsset(d)
    BY DEF OtherClientsStand, SameRequest, UploadInv
  <2>2. QED
    BY <2>1 DEF OwnAsset
<1>3. QED
  BY <1>1, <1>2 DEF UploadInv

(***************************************************************************)
(* The two steps of a client that module Assets does not have: forgetting  *)
(* an answer, and storing bytes under the asset it holds a ticket for.     *)
(***************************************************************************)
LEMMA ForgetfulStep ==
  ASSUME Inv, NEW c \in Caller, pc[c] = "idle", UNCHANGED <<rows, pc, inspected>>,
         answer' = answer \/ answer' = [answer EXCEPT ![c] = NoAnswer],
         target' = target \/ target' = [target EXCEPT ![c] = None],
         object' \in [Asset -> Body \cup {None}],
         urlLive' \in [Asset -> BOOLEAN],
         puts' \in [Asset -> 0..MaxPuts]
  PROVE  Inv'
<1>1. TypeOK /\ CallerOK(c)
  BY DEF Inv
<1>2. NoAnswer \in [kind : AnswerKind, asset : Asset \cup {None}, checksum : Body \cup {None}]
  BY DEF NoAnswer, AnswerKind
<1>3. TypeOK'
  <2>1. UNCHANGED <<status, owner, declared, checksum, pc, inspected>>
    BY DEF rows
  <2>2. answer' \in [Caller -> [kind : AnswerKind, asset : Asset \cup {None},
                                checksum : Body \cup {None}]]
    BY <1>1, <1>2 DEF TypeOK
  <2>3. target' \in [Caller -> Asset \cup {None}]
    BY <1>1 DEF TypeOK
  <2>4. QED
    BY <1>1, <2>1, <2>2, <2>3 DEF TypeOK
<1>4. OthersStand(c)
  BY <1>1 DEF TypeOK, OthersStand, SameRequest
<1>5. CallerOK(c)'
  <2>1. answer'[c] = answer[c] \/ answer'[c].kind = "none"
    BY <1>1 DEF TypeOK, NoAnswer
  <2>2. RequestOK(c)'
    BY DEF RequestOK
  <2>3. AnswerOK(c)'
    BY <1>1, <2>1 DEF CallerOK, AnswerOK, rows
  <2>4. QED
    BY <2>2, <2>3 DEF CallerOK
<1>6. QED
  BY <1>3, <1>4, <1>5, ReadingStep

LEMMA ReturnTyped ==
  ASSUME ClientTyped, NEW c \in Caller,
         NEW outcome \in {"none", "unsupported", "tooLarge", "failed", "uploaded"},
         Return(c, outcome)
  PROVE  /\ ClientTyped'
         /\ phase'[c] = "ready" /\ result'[c] = outcome
         /\ file'[c] = file[c] /\ claimed'[c] = claimed[c]
         /\ \A d \in Caller \ {c} : SameClient(d)
BY DEF ClientTyped, Return, SameClient

LEMMA AwaitTyped ==
  ASSUME ClientTyped, NEW c \in Caller, NEW next \in {"ticket", "put", "confirm"},
         Await(c, next)
  PROVE  /\ ClientTyped'
         /\ phase'[c] = next /\ result'[c] = result[c]
         /\ file'[c] = file[c] /\ claimed'[c] = claimed[c]
         /\ \A d \in Caller \ {c} : SameClient(d)
BY DEF ClientTyped, Await, SameClient

LEMMA ChooseUploadInv ==
  ASSUME UploadInv, NEW c \in Caller, Choose(c)
  PROVE  UploadInv'
<1>1. /\ Inv /\ TypeOK /\ ClientTyped /\ pc[c] = "idle" /\ phase[c] = "ready"
      /\ UNCHANGED <<rows, store, pc, inspected>>
      /\ answer' = [answer EXCEPT ![c] = NoAnswer]
      /\ target' = [target EXCEPT ![c] = None]
  BY DEF UploadInv, Inv, Choose
<1>2. PICK b \in Body, type \in ClaimedType \cup {None} :
        /\ file' = [file EXCEPT ![c] = b]
        /\ claimed' = [claimed EXCEPT ![c] = type]
        /\ \/ /\ result' = [result EXCEPT ![c] = "none"]
              /\ phase' = [phase EXCEPT ![c] = "ticket"]
           \/ /\ \E refused \in {"unsupported", "tooLarge"} :
                   result' = [result EXCEPT ![c] = refused]
              /\ UNCHANGED phase
  BY DEF Choose, Refusal
<1>3. Inv'
  BY <1>1, ForgetfulStep DEF TypeOK, store
<1>4. ClientTyped'
  BY <1>1, <1>2 DEF ClientTyped
<1>5. OtherClientsStand(c) /\ OtherAssetsStand(c)
  BY <1>1, <1>2 DEF TypeOK, ClientTyped, OtherClientsStand, SameRequest, SameClient,
     OtherAssetsStand, SameAsset, rows, store
<1>6. target'[c] = None /\ answer'[c].kind = "none" /\ pc'[c] = "idle"
  BY <1>1 DEF TypeOK, NoAnswer
<1>7. ClientOK(c)'
  <2>1. \/ phase'[c] = "ticket" /\ result'[c] = "none" /\ file'[c] \in Body
        \/ phase'[c] = "ready" /\ result'[c] \in {"unsupported", "tooLarge"}
    BY <1>1, <1>2 DEF ClientTyped
  <2>2. QED
    BY <1>6, <2>1 DEF ClientOK, TicketOK, ResultOK
<1>8. QED
  BY <1>3, <1>4, <1>5, <1>6, <1>7, OneClient

LEMMA ReserveUploadInv ==
  ASSUME UploadInv, NEW c \in Caller, ReserveAsset(c)
  PROVE  UploadInv'
<1>1. /\ Inv /\ TypeOK /\ ClientTyped /\ ClientOK(c)
      /\ PostAsset(c) /\ UNCHANGED client /\ phase[c] = "ticket"
      /\ inspected' = [inspected EXCEPT ![c] = None]
      /\ pc'[c] = "presign" =>
           declared'[target'[c]] = [type |-> claimed[c], size |-> SizeOf[file[c]]]
  BY DEF UploadInv, Inv, ReserveAsset, PostAsset
<1>2. Inv' /\ ClientTyped' /\ SameClient(c)
  BY <1>1, PostAssetInv DEF ClientTyped, client, SameClient
<1>3. CASE /\ UNCHANGED <<rows, store>>
           /\ Answer(c, "notFound", None, None)
           /\ target' = [target EXCEPT ![c] = None]
  <2>1. OtherClientsStand(c) /\ OtherAssetsStand(c)
    BY <1>1, <1>3 DEF TypeOK, Answer, OtherClientsStand, SameRequest, SameClient, client,
       OtherAssetsStand, SameAsset, rows, store
  <2>2. target'[c] = None /\ pc'[c] = "idle" /\ answer'[c].kind = "notFound"
    BY <1>1, <1>3 DEF TypeOK, Answer
  <2>3. ClientOK(c)'
    BY <1>1, <1>2, <2>2 DEF ClientOK, TicketOK, SameClient
  <2>4. QED
    BY <1>2, <2>1, <2>2, <2>3, OneClient
<1>4. ASSUME NEW a \in Asset, NEW d \in Declaration,
             status[a] = None,
             status' = [status EXCEPT ![a] = "pending"],
             declared' = [declared EXCEPT ![a] = d],
             target' = [target EXCEPT ![c] = a],
             pc' = [pc EXCEPT ![c] = "presign"],
             answer' = [answer EXCEPT ![c] = NoAnswer],
             UNCHANGED <<checksum, object>>
      PROVE  UploadInv'
  <2>1. /\ target'[c] = a /\ pc'[c] = "presign" /\ answer'[c].kind = "none"
        /\ inspected'[c] = None /\ status'[a] = "pending"
    BY <1>1, <1>4 DEF TypeOK, NoAnswer
  <2>2. OtherClientsStand(c) /\ OtherAssetsStand(c)
    BY <1>1, <1>4 DEF TypeOK, OtherClientsStand, SameRequest, SameClient, client,
       OtherAssetsStand, SameAsset
  <2>3. HasTicket(c)'
    BY <1>1, <1>2, <2>1 DEF HasTicket, Declares, SameClient
  <2>4. ClientOK(c)'
    BY <1>1, <1>2, <2>1, <2>3 DEF ClientOK, TicketOK, SameClient
  <2>5. QED
    BY <1>2, <1>4, <2>1, <2>2, <2>4, AssetsAssumption, OneClient
<1>5. QED
  BY <1>1, <1>3, <1>4 DEF PostAsset, store

\* An answer is received, or its call is lost: the api's side stands still.
LEMMA ReceiveUploadInv ==
  ASSUME UploadInv, NEW c \in Caller,
         ReceiveTicket(c) \/ ReceiveConfirmation(c) \/ LoseCall(c)
  PROVE  UploadInv'
<1>1. /\ Inv /\ TypeOK /\ ClientTyped /\ ClientOK(c) /\ OwnAsset(c) /\ AnswerOK(c)
      /\ UNCHANGED vars
  BY DEF UploadInv, Inv, CallerOK, ReceiveTicket, ReceiveConfirmation, LoseCall
<1>2. /\ Inv' /\ OtherAssetsStand(c) /\ \A d \in Caller : SameRequest(d)
      /\ target'[c] = target[c] /\ status'[target'[c]] = status[target[c]]
  BY <1>1, StutterInv DEF vars, OtherAssetsStand, SameAsset, SameRequest
<1>3. SUFFICES ClientTyped' /\ (\A d \in Caller \ {c} : SameClient(d)) /\ ClientOK(c)'
  BY <1>1, <1>2, OneClient DEF OwnAsset, OtherClientsStand
<1>4. CASE Return(c, "failed")
  <2>1. /\ ClientTyped' /\ (\A d \in Caller \ {c} : SameClient(d))
        /\ phase'[c] = "ready" /\ result'[c] = "failed"
    BY <1>1, <1>4, ReturnTyped
  <2>2. QED
    BY <2>1 DEF ClientOK, ResultOK
<1>5. CASE ReceiveTicket(c) /\ answer[c].kind = "ticket" /\ Await(c, "put")
  <2>1. /\ ClientTyped' /\ (\A d \in Caller \ {c} : SameClient(d))
        /\ phase'[c] = "put" /\ result'[c] = result[c]
        /\ file'[c] = file[c] /\ claimed'[c] = claimed[c]
    BY <1>1, <1>5, AwaitTyped
  <2>2. pc[c] = "idle" /\ TicketOK(c) /\ file[c] \in Body /\ result[c] = "none"
    BY <1>1, <1>5 DEF ReceiveTicket, ClientOK
  <2>3. PutOK(c)'
    BY <1>1, <1>5, <2>1, <2>2 DEF vars, TicketOK, PutOK, HasTicket, Declares
  <2>4. QED
    BY <2>1, <2>2, <2>3 DEF ClientOK
<1>6. CASE ReceiveConfirmation(c) /\ answer[c].kind = "ready" /\ Return(c, "uploaded")
  <2>1. /\ ClientTyped' /\ (\A d \in Caller \ {c} : SameClient(d))
        /\ phase'[c] = "ready" /\ result'[c] = "uploaded" /\ file'[c] = file[c]
    BY <1>1, <1>6, ReturnTyped
  <2>2. ConfirmOK(c) /\ pc[c] = "idle"
    BY <1>1, <1>6 DEF ReceiveConfirmation, ClientOK
  <2>3. /\ target[c] \in Asset /\ status[target[c]] = "ready"
        /\ object[target[c]] = file[c] /\ checksum[target[c]] = file[c]
    BY <1>1, <1>6, <2>2 DEF ConfirmOK, Declares, SettledByFile, AnswerOK
  <2>4. QED
    BY <1>1, <2>1, <2>2, <2>3 DEF vars, ClientOK, ResultOK
<1>7. CASE ReceiveConfirmation(c) /\ answer[c].kind = "unsupportedMedia" /\ Return(c, "unsupported")
  <2>1. /\ ClientTyped' /\ (\A d \in Caller \ {c} : SameClient(d))
        /\ phase'[c] = "ready" /\ result'[c] = "unsupported"
        /\ file'[c] = file[c] /\ claimed'[c] = claimed[c]
    BY <1>1, <1>7, ReturnTyped
  <2>2. ConfirmOK(c) /\ pc[c] = "idle"
    BY <1>1, <1>7 DEF ReceiveConfirmation, ClientOK
  <2>3. status[target[c]] = "rejected" /\ TypeOf[file[c]] # claimed[c]
    BY <1>1, <1>7, <2>2 DEF ConfirmOK, SettledByFile, AnswerOK
  <2>4. QED
    BY <1>1, <2>1, <2>2, <2>3 DEF vars, ClientOK, ResultOK
<1>8. QED
  BY <1>4, <1>5, <1>6, <1>7 DEF ReceiveTicket, ReceiveConfirmation, LoseCall

LEMMA PutUploadInv ==
  ASSUME UploadInv, NEW c \in Caller, PutFile(c)
  PROVE  UploadInv'
<1> DEFINE a == answer[c].asset
<1>1. /\ Inv /\ TypeOK /\ ClientTyped /\ ClientOK(c) /\ OwnAsset(c)
      /\ phase[c] = "put" /\ PutOK(c) /\ file[c] \in Body /\ result[c] = "none"
      /\ UNCHANGED <<rows, urlLive, pc, target, inspected>>
  BY DEF UploadInv, Inv, PutFile, ClientOK
<1>2. a = target[c] /\ target[c] \in Asset /\ pc[c] = "idle"
  BY <1>1 DEF PutOK, HasTicket, Declares
<1>3. /\ \/ object' = [object EXCEPT ![a] = file[c]] /\ puts[a] < MaxPuts
              /\ puts' = [puts EXCEPT ![a] = @ + 1]
         \/ UNCHANGED <<object, puts>>
      /\ \/ /\ object' = [object EXCEPT ![a] = file[c]]
            /\ Await(c, "confirm") /\ answer' = [answer EXCEPT ![c] = NoAnswer]
         \/ Return(c, "failed") /\ UNCHANGED answer
  BY DEF PutFile
<1> HIDE DEF a
<1>4. Inv'
  <2>1. object' \in [Asset -> Body \cup {None}] /\ puts' \in [Asset -> 0..MaxPuts]
    BY <1>1, <1>2, <1>3, AssetsAssumption DEF TypeOK
  <2>2. answer' = answer \/ answer' = [answer EXCEPT ![c] = NoAnswer]
    BY <1>3
  <2>3. QED
    BY <1>1, <1>2, <2>1, <2>2, ForgetfulStep DEF TypeOK
<1>5. OtherAssetsStand(c)
  BY <1>1, <1>2, <1>3 DEF TypeOK, OtherAssetsStand, SameAsset, rows
<1>6. \A d \in Caller \ {c} : SameRequest(d)
  BY <1>1, <1>3 DEF TypeOK, SameRequest
<1>7. target'[c] = target[c] /\ status'[target'[c]] = status[target[c]]
  BY <1>1 DEF rows
<1>8. SUFFICES ClientTyped' /\ (\A d \in Caller \ {c} : SameClient(d)) /\ ClientOK(c)'
  BY <1>1, <1>4, <1>5, <1>6, <1>7, OneClient DEF OwnAsset, OtherClientsStand
<1>9. CASE Return(c, "failed")
  <2>1. /\ ClientTyped' /\ (\A d \in Caller \ {c} : SameClient(d))
        /\ phase'[c] = "ready" /\ result'[c] = "failed"
    BY <1>1, <1>9, ReturnTyped
  <2>2. QED
    BY <2>1 DEF ClientOK, ResultOK
<1>10. CASE /\ object' = [object EXCEPT ![a] = file[c]]
            /\ Await(c, "confirm") /\ answer' = [answer EXCEPT ![c] = NoAnswer]
  <2>1. /\ ClientTyped' /\ (\A d \in Caller \ {c} : SameClient(d))
        /\ phase'[c] = "confirm" /\ result'[c] = result[c]
        /\ file'[c] = file[c] /\ claimed'[c] = claimed[c]
    BY <1>1, <1>10, AwaitTyped
  <2>2. object'[target[c]] = file[c] /\ answer'[c].kind = "none"
    BY <1>1, <1>2, <1>10 DEF TypeOK, NoAnswer
  <2>3. ConfirmOK(c)'
    BY <1>1, <1>2, <2>1, <2>2 DEF PutOK, HasTicket, Declares, ConfirmOK, SettledByFile, rows
  <2>4. QED
    BY <1>1, <2>1, <2>3 DEF ClientOK
<1>11. QED
  BY <1>3, <1>9, <1>10

LEMMA ConfirmUploadInv ==
  ASSUME UploadInv, NEW c \in Caller, ConfirmAsset(c)
  PROVE  UploadInv'
<1>1. /\ Inv /\ TypeOK /\ ClientTyped /\ ClientOK(c) /\ OwnAsset(c)
      /\ phase[c] = "confirm" /\ ConfirmOK(c)
      /\ PostConfirmation(c) /\ UNCHANGED client /\ target'[c] = target[c]
      /\ UNCHANGED <<rows, store>>
  BY DEF UploadInv, Inv, ConfirmAsset, PostConfirmation, ClientOK
<1>2. Inv' /\ ClientTyped' /\ SameClient(c)
  BY <1>1, PostConfirmationInv DEF ClientTyped, client, SameClient
<1>3. PICK w \in Workspace, a \in Asset :
        /\ target' = [target EXCEPT ![c] = a]
        /\ \/ \E kind, digest : Answer(c, kind, a, digest)
           \/ /\ pc' = [pc EXCEPT ![c] = "inspect"]
              /\ answer' = [answer EXCEPT ![c] = NoAnswer]
  BY <1>1 DEF PostConfirmation
<1>4. a = target[c]
  BY <1>1, <1>3 DEF TypeOK
<1>5. inspected' = [inspected EXCEPT ![c] = None]
  BY <1>1 DEF PostConfirmation
<1>6. OtherClientsStand(c) /\ OtherAssetsStand(c)
  BY <1>1, <1>3, <1>5 DEF TypeOK, Answer, OtherClientsStand, SameRequest, SameClient, client,
     OtherAssetsStand, SameAsset, rows, store
<1>7. /\ pc'[c] # "presign"
      /\ answer'[c].kind # "none" => answer'[c].asset = target[c]
      /\ inspected'[c] = None
  BY <1>1, <1>3, <1>4, <1>5 DEF TypeOK, Answer, NoAnswer
<1>8. ConfirmOK(c)'
  BY <1>1, <1>2, <1>7 DEF ConfirmOK, Declares, SettledByFile, SameClient, rows, store
<1>9. ClientOK(c)'
  BY <1>1, <1>2, <1>8 DEF ClientOK, SameClient
<1>10. QED
  BY <1>1, <1>2, <1>6, <1>9, OneClient DEF OwnAsset, rows

\* What the api does for a request changes the asset it is about, if any.
LEMMA HandleStands ==
  ASSUME Inv, NEW c \in Caller, Handle(c), UNCHANGED client
  PROVE  /\ Inv' /\ pc[c] # "idle" /\ target' = target
         /\ OtherClientsStand(c) /\ OtherAssetsStand(c)
         /\ target[c] \in Asset /\ status[target[c]] # None /\ status'[target[c]] # None
         /\ UNCHANGED <<declared, object>>
<1>1. TypeOK /\ RequestOK(c)
  BY DEF Inv, CallerOK
<1>2. Inv' /\ pc[c] # "idle" /\ target' = target /\ UNCHANGED <<declared, object>>
  BY PresignInv, InspectInv, DecideInv, MarkRejectedInv, MarkReadyInv, RereadInv
     DEF Handle, Presign, Inspect, Decide, MarkRejected, MarkReady, Reread, GoTo, rows, store
<1>3. OtherClientsStand(c)
  <2> SUFFICES ASSUME NEW d \in Caller \ {c}
               PROVE  SameRequest(d) /\ SameClient(d)
    BY DEF OtherClientsStand
  <2>1. SameClient(d)
    BY DEF client, SameClient
  <2>2. SameRequest(d)
    BY <1>1 DEF Handle, Presign, Inspect, Decide, MarkRejected, MarkReady, Reread,
       Answer, GoTo, TypeOK, SameRequest
  <2>3. QED
    BY <2>1, <2>2
<1>4. OtherAssetsStand(c)
  BY <1>1, <1>2 DEF Handle, Presign, Inspect, Decide, MarkRejected, MarkReady, Reread,
     TypeOK, OtherAssetsStand, SameAsset, rows
<1>5. status'[target[c]] # None
  BY <1>1, <1>2, AssetsAssumption DEF Handle, Presign, Inspect, Decide, MarkRejected, MarkReady, Reread,
     TypeOK, RequestOK, rows
<1>6. QED
  BY <1>1, <1>2, <1>3, <1>4, <1>5 DEF RequestOK

LEMMA ApiUploadInv ==
  ASSUME UploadInv, NEW c \in Caller, ApiStep(c)
  PROVE  UploadInv'
<1>1. /\ Inv /\ TypeOK /\ RequestOK(c) /\ ClientTyped /\ ClientOK(c)
      /\ Handle(c) /\ UNCHANGED client
  BY DEF UploadInv, Inv, CallerOK, ApiStep
<1>2. /\ Inv' /\ pc[c] # "idle" /\ target' = target
      /\ OtherClientsStand(c) /\ OtherAssetsStand(c)
      /\ target[c] \in Asset /\ status[target[c]] # None /\ status'[target[c]] # None
      /\ UNCHANGED <<declared, object>>
  BY <1>1, HandleStands
<1>3. ClientTyped' /\ SameClient(c)
  BY <1>1 DEF ClientTyped, client, SameClient
<1>4. SUFFICES ClientOK(c)'
  BY <1>2, <1>3, OneClient
<1>5. CASE phase[c] = "ready"
  BY <1>1, <1>2, <1>3, <1>5 DEF ClientOK, ResultOK, SameClient
<1>6. CASE phase[c] = "ticket"
  <2>1. pc[c] = "presign" /\ HasTicket(c) /\ file[c] \in Body /\ result[c] = "none"
    BY <1>1, <1>2, <1>6 DEF ClientOK, TicketOK
  <2>2. Presign(c)
    BY <1>1, <2>1 DEF Handle, Inspect, Decide, MarkRejected, MarkReady, Reread, GoTo
  <2>3. /\ pc'[c] = "idle" /\ answer'[c].asset = target[c]
        /\ UNCHANGED <<status, inspected>>
    BY <1>1, <2>2 DEF Presign, Answer, TypeOK, rows
  <2>4. HasTicket(c)'
    BY <1>2, <1>3, <2>1, <2>3 DEF HasTicket, Declares, SameClient
  <2>5. QED
    BY <1>2, <1>3, <1>6, <2>1, <2>3, <2>4 DEF ClientOK, TicketOK, SameClient
<1>7. CASE phase[c] = "confirm"
  <2>1. ConfirmOK(c) /\ file[c] \in Body /\ result[c] = "none"
    BY <1>1, <1>7 DEF ClientOK
  <2>2. SUFFICES /\ pc'[c] # "presign"
                 /\ inspected'[c] \in {None, file[c]}
                 /\ answer'[c].kind # "none" => answer'[c].asset = target[c]
                 /\ SettledByFile(c)'
    BY <1>2, <1>3, <1>7, <2>1 DEF ClientOK, ConfirmOK, Declares, SameClient
  <2>3. answer[c].kind = "none" /\ SettledByFile(c)
    BY <1>1, <1>2, <2>1 DEF RequestOK, ConfirmOK
  <2>4. SettledByFile(c)' \/ ~(UNCHANGED <<status, checksum>>)
    BY <1>2, <1>3, <2>3 DEF SettledByFile, SameClient
  <2>5. CASE Presign(c)
    BY <2>1, <2>5 DEF Presign, ConfirmOK
  <2>6. CASE Inspect(c)
    BY <1>1, <1>2, <2>1, <2>3, <2>4, <2>6 DEF Inspect, Answer, GoTo, TypeOK, ConfirmOK, rows
  <2>7. CASE Decide(c)
    BY <1>1, <2>1, <2>3, <2>4, <2>7 DEF Decide, GoTo, TypeOK, ConfirmOK, rows
  <2>8. CASE Reread(c)
    BY <1>1, <2>1, <2>4, <2>8 DEF Reread, Answer, TypeOK, ConfirmOK, rows
  <2>9. CASE MarkRejected(c)
    <3>1. /\ pc'[c] = "idle" /\ inspected' = inspected /\ answer'[c].asset = target[c]
          /\ checksum' = checksum
      BY <1>1, <2>9 DEF MarkRejected, Answer, TypeOK
    <3>2. TypeOf[file[c]] # claimed[c]
      <4>1. inspected[c] \in Body /\ ~Acceptable(inspected[c], declared[target[c]])
        BY <1>1, <2>9 DEF MarkRejected, RequestOK
      <4>2. inspected[c] = file[c]
        BY <2>1, <4>1, AssetsAssumption DEF ConfirmOK
      <4>3. QED
        BY <2>1, <4>1, <4>2 DEF ConfirmOK, Declares, Acceptable
    <3>3. SettledByFile(c)'
      BY <1>1, <1>2, <1>3, <2>3, <2>9, <3>1, <3>2 DEF MarkRejected, TypeOK, SettledByFile, SameClient
    <3>4. QED
      BY <2>1, <3>1, <3>3 DEF ConfirmOK
  <2>10. CASE MarkReady(c)
    <3>1. inspected' = inspected /\ inspected[c] = file[c]
      BY <1>1, <2>1, <2>10, AssetsAssumption DEF MarkReady, RequestOK, ConfirmOK
    <3>2. /\ pc'[c] # "presign"
          /\ answer'[c].kind # "none" => answer'[c].asset = target[c]
      BY <1>1, <2>3, <2>10 DEF MarkReady, Answer, GoTo, TypeOK
    <3>3. SettledByFile(c)'
      BY <1>1, <1>2, <1>3, <2>3, <2>10, <3>1 DEF MarkReady, TypeOK, SettledByFile, SameClient
    <3>4. QED
      BY <3>1, <3>2, <3>3
  <2>11. QED
    BY <1>1, <2>5, <2>6, <2>7, <2>8, <2>9, <2>10 DEF Handle
<1>8. QED
  BY <1>1, <1>2, <1>5, <1>6, <1>7 DEF ClientTyped, ClientOK, PutOK

LEMMA DiesUploadInv ==
  ASSUME UploadInv, NEW c \in Caller, ApiDies(c)
  PROVE  UploadInv'
<1>1. /\ Inv /\ TypeOK /\ ClientTyped /\ ClientOK(c) /\ OwnAsset(c)
      /\ Crash(c) /\ pc[c] # "idle" /\ UNCHANGED <<rows, store, target, inspected>>
  BY DEF UploadInv, Inv, ApiDies, Crash
<1>2. /\ Inv' /\ OtherAssetsStand(c) /\ \A d \in Caller \ {c} : SameRequest(d)
      /\ target'[c] = target[c] /\ status'[target'[c]] = status[target[c]]
  BY <1>1, CrashInv DEF Crash, Answer, TypeOK, OtherAssetsStand, SameAsset, SameRequest, rows, store
<1>3. SUFFICES ClientTyped' /\ (\A d \in Caller \ {c} : SameClient(d)) /\ ClientOK(c)'
  BY <1>1, <1>2, OneClient DEF OwnAsset, OtherClientsStand
<1>4. CASE phase[c] = "ready" /\ UNCHANGED client
  <2>1. result[c] \notin {"uploaded", "unsupported"}
    BY <1>1, <1>4 DEF ClientOK, ResultOK
  <2>2. QED
    BY <1>1, <1>4, <2>1 DEF ClientTyped, client, SameClient, ClientOK, ResultOK
<1>5. CASE Return(c, "failed")
  <2>1. /\ ClientTyped' /\ (\A d \in Caller \ {c} : SameClient(d))
        /\ phase'[c] = "ready" /\ result'[c] = "failed"
    BY <1>1, <1>5, ReturnTyped
  <2>2. QED
    BY <2>1 DEF ClientOK, ResultOK
<1>6. QED
  BY <1>4, <1>5 DEF ApiDies

\* A url that expires, and a step that leaves everything.
LEMMA QuietUploadInv ==
  ASSUME UploadInv, UNCHANGED client,
         (\E a \in Asset : ExpireUrl(a)) \/ UNCHANGED vars
  PROVE  UploadInv'
<1>1. Inv' /\ UNCHANGED <<rows, object, pc, target, inspected, answer>>
  BY StoreInv, StutterInv DEF UploadInv, ExpireUrl, vars, rows
<1>2. ClientTyped'
  BY DEF UploadInv, ClientTyped, client
<1>3. ASSUME NEW d \in Caller
      PROVE  ClientOK(d)' /\ OwnAsset(d)'
  <2>1. SameRequest(d) /\ SameClient(d) /\ SameAsset(target[d])
    BY <1>1 DEF client, rows, SameRequest, SameClient, SameAsset
  <2>2. QED
    BY <1>1, <2>1, ClientKept DEF UploadInv, OwnAsset, rows
<1>4. QED
  BY <1>1, <1>2, <1>3 DEF UploadInv

LEMMA UploadInitInv == UploadInit => UploadInv
<1> SUFFICES ASSUME UploadInit
             PROVE  UploadInv
  OBVIOUS
<1>1. Inv /\ Init
  BY InitInv DEF UploadInit
<1>2. /\ phase = [c \in Caller |-> "ready"]
      /\ file = [c \in Caller |-> None]
      /\ claimed = [c \in Caller |-> None]
      /\ result = [c \in Caller |-> "none"]
  BY DEF UploadInit
<1>3. \A c \in Caller : OwnAsset(c) /\ ClientOK(c)
  BY <1>1, <1>2 DEF Init, OwnAsset, ClientOK, ResultOK
<1>4. QED
  BY <1>1, <1>2, <1>3 DEF UploadInv, ClientTyped

LEMMA UploadNextInv == UploadInv /\ [UploadNext]_uploadVars => UploadInv'
BY ChooseUploadInv, ReserveUploadInv, ReceiveUploadInv, PutUploadInv, ConfirmUploadInv,
   ApiUploadInv, DiesUploadInv, QuietUploadInv DEF UploadNext, uploadVars

\* The inductive invariant of the client, the api and the store together.
THEOREM UploadInvAlways == UploadSpec => []UploadInv
BY UploadInitInv, UploadNextInv, PTL DEF UploadSpec

(***************************************************************************)
(* For any number of tabs, files and assets, whatever is lost, dies or     *)
(* expires: what uploadAsset returns is about the very file it was given   *)
(* (apps/web/lib/asset-upload.ts).                                         *)
(***************************************************************************)
THEOREM UploadsReportTheirFile == UploadSpec => []OutcomeIsTheFile
<1>1. UploadInv => OutcomeIsTheFile
  <2> SUFFICES ASSUME UploadInv, NEW c \in Caller
               PROVE  /\ result[c] = "uploaded" =>
                           /\ status[target[c]] = "ready"
                           /\ object[target[c]] = file[c]
                           /\ checksum[target[c]] = file[c]
                      /\ result[c] = "unsupported" /\ target[c] # None =>
                           TypeOf[file[c]] # claimed[c] /\ status[target[c]] = "rejected"
    BY DEF OutcomeIsTheFile, UploadedIsTheFile, UnsupportedIsTheFile
  <2>1. ClientOK(c)
    BY DEF UploadInv
  <2>2. QED
    BY <2>1 DEF ClientOK, ResultOK
<1>2. QED
  BY <1>1, UploadInvAlways, PTL

(***************************************************************************)
(* The browser adds nothing that settles an asset: what it stores and what *)
(* it forgets changes no row, and its requests are requests of the api, so *)
(* under any loss of calls an asset is reserved once and settled at most   *)
(* once (apps/web/lib/asset-upload.ts over routes/assets.ts).              *)
(***************************************************************************)
THEOREM UploadsSettleOnce == UploadSpec => ImplementsAssetLifecycle
<1>1. ASSUME UploadInv, [UploadNext]_uploadVars
      PROVE  [Abstract!Next]_<<declared, outcomeBar>>
  <2>1. ASSUME NEW c \in Caller, ReserveAsset(c) \/ ConfirmAsset(c) \/ ApiStep(c) \/ ApiDies(c)
        PROVE  [Abstract!Next]_<<declared, outcomeBar>>
    BY <1>1, <2>1, NextRefines DEF UploadInv, ReserveAsset, ConfirmAsset, ApiStep, ApiDies, Next
  <2>2. ASSUME NEW c \in Caller,
               \/ Choose(c) \/ ReceiveTicket(c) \/ PutFile(c)
               \/ ReceiveConfirmation(c) \/ LoseCall(c)
        PROVE  UNCHANGED <<declared, outcomeBar>>
    BY <2>2, OtherStep DEF Choose, ReceiveTicket, PutFile, ReceiveConfirmation, LoseCall, vars, rows
  <2>3. CASE UNCHANGED uploadVars \/ \E a \in Asset : ExpireUrl(a)
    BY <2>3, OtherStep DEF uploadVars, vars, ExpireUrl, rows
  <2>4. QED
    BY <1>1, <2>1, <2>2, <2>3 DEF UploadNext
<1>2. UploadInit => Abstract!Init
  BY InitRefines DEF UploadInit
<1>3. QED
  BY <1>1, <1>2, UploadInvAlways, PTL DEF UploadSpec, ImplementsAssetLifecycle, Abstract!Spec
=============================================================================
