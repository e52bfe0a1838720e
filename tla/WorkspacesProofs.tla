--------------------------- MODULE WorkspacesProofs ---------------------------
(* Theorems about homes, for any users, requests, tabs and failures: of    *)
(* the api by itself, and of the api under the sign-in forms.              *)
EXTENDS SignIn, TLAPS

Transacting == {"addAccount", "addMember", "commit"}

Home(id, u) == [id |-> id, owner |-> u]

\* A committed home is whole, and nobody else's.
HomesOK ==
  /\ \A w \in workspace :
       /\ w.id \in account
       /\ <<w.id, w.owner>> \in member
       /\ w.id \in taken
  /\ \A w, x \in workspace : w.id = x.id \/ w.owner = x.owner => w = x
  /\ \A m \in member : Home(m[1], m[2]) \in workspace

(***************************************************************************)
(* A transaction past its upsert holds the lock of its user.  It works on  *)
(* that user's home or on one that is nobody's yet.                        *)
(***************************************************************************)
DraftOK(r) ==
  /\ rowLock[caller[r].user] = r
  /\ draft[r].id \in taken
  /\ \/ Home(draft[r].id, caller[r].user) \in workspace
     \/ \A w \in workspace : w.owner # caller[r].user /\ w.id # draft[r].id
  /\ pc[r] \in {"addMember", "commit"} => draft[r].account = {draft[r].id}
  /\ pc[r] = "commit" => draft[r].member = {<<draft[r].id, caller[r].user>>}

AnswerOK(r) ==
  /\ answer[r].kind = "home" => Home(answer[r].id, caller[r].user) \in workspace
  /\ answer[r].kind # "notProvisioned"

RequestOK(r) ==
  /\ pc[r] # "idle" => caller[r].user \in User
  /\ pc[r] \in Transacting => DraftOK(r)
  /\ AnswerOK(r)

DraftsDiffer ==
  \A r, s \in Request :
    pc[r] \in Transacting /\ pc[s] \in Transacting /\ draft[r].id = draft[s].id => r = s

Inv ==
  /\ TypeOK
  /\ HomesOK
  /\ \A r \in Request : RequestOK(r)
  /\ DraftsDiffer

LEMMA InitInv == Init => Inv
BY WorkspacesAssumption DEF Init, Inv, TypeOK, HomesOK, RequestOK, AnswerOK, DraftsDiffer,
   Transacting, NoAnswer, NoDraft, Step, Kind, AnswerKind

-----------------------------------------------------------------------------
(* What a step of one request leaves true of the others.                   *)

SameRequest(s) ==
  /\ pc'[s] = pc[s]
  /\ caller'[s] = caller[s]
  /\ draft'[s] = draft[s]
  /\ answer'[s] = answer[s]

OthersStand(r) == \A s \in Request \ {r} : SameRequest(s)

LocksKept(r) ==
  \A u \in User, s \in Request \ {r} : rowLock[u] = s => rowLock'[u] = s

LEMMA RequestKept ==
  ASSUME Inv, UNCHANGED <<workspace, account, member>>, taken \subseteq taken',
         NEW r \in Request, OthersStand(r), LocksKept(r),
         NEW s \in Request \ {r}
  PROVE  RequestOK(s)'
<1>1. TypeOK /\ RequestOK(s) /\ SameRequest(s)
  BY DEF Inv, OthersStand
<1>2. AnswerOK(s)'
  BY <1>1 DEF RequestOK, AnswerOK, SameRequest, Home
<1>3. pc[s] \in Transacting => DraftOK(s)'
  BY <1>1 DEF RequestOK, DraftOK, SameRequest, Home, LocksKept, Transacting
<1>4. QED
  BY <1>1, <1>2, <1>3 DEF RequestOK, SameRequest

(***************************************************************************)
(* A step of one request that commits nothing: it is enough to look at the *)
(* types, at that request, and at the id it works on.                      *)
(***************************************************************************)
LEMMA OneRequest ==
  ASSUME Inv, TypeOK', UNCHANGED <<workspace, account, member>>, taken \subseteq taken',
         NEW r \in Request, OthersStand(r), LocksKept(r), RequestOK(r)',
         pc'[r] \in Transacting =>
           \A s \in Request \ {r} : pc[s] \in Transacting => draft[s].id # draft'[r].id
  PROVE  Inv'
<1>1. HomesOK'
  BY DEF Inv, HomesOK, Home
<1>2. \A s \in Request : RequestOK(s)'
  BY RequestKept
<1>3. DraftsDiffer'
  BY DEF Inv, DraftsDiffer, OthersStand, SameRequest
<1>4. QED
  BY <1>1, <1>2, <1>3 DEF Inv

LEMMA AnswerTyped ==
  ASSUME TypeOK, NEW r \in Request, NEW kind \in AnswerKind, NEW id \in WorkspaceId \cup {None},
         NEW listed \in SUBSET WorkspaceId, Answer(r, kind, id, listed)
  PROVE  /\ pc' \in [Request -> Step]
         /\ answer' \in [Request -> [kind : AnswerKind, id : WorkspaceId \cup {None},
                                     listed : SUBSET WorkspaceId]]
         /\ pc'[r] = "idle"
         /\ answer'[r] = [kind |-> kind, id |-> id, listed |-> listed]
         /\ \A s \in Request \ {r} : pc'[s] = pc[s] /\ answer'[s] = answer[s]
<1>1. [kind |-> kind, id |-> id, listed |-> listed]
        \in [kind : AnswerKind, id : WorkspaceId \cup {None}, listed : SUBSET WorkspaceId]
  OBVIOUS
<1>2. QED
  BY <1>1 DEF TypeOK, Answer, Step

LEMMA BeginTyped ==
  ASSUME TypeOK, NEW r \in Request, NEW kind \in Kind, NEW u \in User, NEW next \in Step,
         Begin(r, kind, u, next)
  PROVE  /\ pc' \in [Request -> Step]
         /\ caller' \in [Request -> [kind : Kind, user : User \cup {None}]]
         /\ answer' \in [Request -> [kind : AnswerKind, id : WorkspaceId \cup {None},
                                     listed : SUBSET WorkspaceId]]
         /\ pc'[r] = next
         /\ caller'[r] = [kind |-> kind, user |-> u]
         /\ answer'[r] = NoAnswer
         /\ \A s \in Request \ {r} :
              pc'[s] = pc[s] /\ caller'[s] = caller[s] /\ answer'[s] = answer[s]
<1>1. NoAnswer \in [kind : AnswerKind, id : WorkspaceId \cup {None}, listed : SUBSET WorkspaceId]
  BY DEF NoAnswer, AnswerKind
<1>2. QED
  BY <1>1 DEF TypeOK, Begin, Step

-----------------------------------------------------------------------------
(* One lemma per action of the api.                                        *)

LEMMA SignUpInv ==
  ASSUME Inv, NEW r \in Request, SignUp(r)
  PROVE  Inv'
<1>1. TypeOK /\ RequestOK(r)
  BY DEF Inv
<1>2. PICK u \in User :
        \/ users' = users \cup {u} /\ Begin(r, "signUp", u, "upsert")
        \/ /\ Answer(r, "addressInUse", None, {})
           /\ caller' = [caller EXCEPT ![r] = [kind |-> "signUp", user |-> u]]
           /\ UNCHANGED users
  BY DEF SignUp
<1>3. UNCHANGED <<workspace, account, member, taken, rowLock, draft, failures>>
  BY DEF SignUp
<1>4. CASE users' = users \cup {u} /\ Begin(r, "signUp", u, "upsert")
  <2> HIDE DEF NoAnswer
  <2>1. /\ pc' \in [Request -> Step]
        /\ caller' \in [Request -> [kind : Kind, user : User \cup {None}]]
        /\ answer' \in [Request -> [kind : AnswerKind, id : WorkspaceId \cup {None},
                                    listed : SUBSET WorkspaceId]]
        /\ pc'[r] = "upsert"
        /\ caller'[r] = [kind |-> "signUp", user |-> u]
        /\ answer'[r] = NoAnswer
        /\ \A s \in Request \ {r} :
             pc'[s] = pc[s] /\ caller'[s] = caller[s] /\ answer'[s] = answer[s]
    BY <1>1, <1>4, BeginTyped DEF Kind, Step
  <2>2. TypeOK'
    BY <1>1, <1>3, <1>4, <2>1 DEF TypeOK
  <2>3. RequestOK(r)'
    BY <2>1 DEF RequestOK, AnswerOK, NoAnswer, Transacting
  <2>4. OthersStand(r) /\ LocksKept(r)
    BY <1>3, <2>1 DEF OthersStand, SameRequest, LocksKept
  <2>5. QED
    BY <1>3, <2>1, <2>2, <2>3, <2>4, OneRequest DEF Transacting
<1>5. CASE /\ Answer(r, "addressInUse", None, {})
           /\ caller' = [caller EXCEPT ![r] = [kind |-> "signUp", user |-> u]]
           /\ UNCHANGED users
  <2>0. "addressInUse" \in AnswerKind /\ None \in WorkspaceId \cup {None} /\ {} \in SUBSET WorkspaceId
    BY DEF AnswerKind
  <2>1. /\ pc' \in [Request -> Step]
        /\ answer' \in [Request -> [kind : AnswerKind, id : WorkspaceId \cup {None},
                                    listed : SUBSET WorkspaceId]]
        /\ pc'[r] = "idle"
        /\ answer'[r] = [kind |-> "addressInUse", id |-> None, listed |-> {}]
        /\ \A s \in Request \ {r} : pc'[s] = pc[s] /\ answer'[s] = answer[s]
    BY <1>1, <1>5, <2>0, AnswerTyped
  <2>2. TypeOK'
    BY <1>1, <1>3, <1>5, <2>1 DEF TypeOK, Kind
  <2>3. RequestOK(r)'
    BY <2>1 DEF RequestOK, AnswerOK, Transacting
  <2>4. OthersStand(r) /\ LocksKept(r)
    BY <1>1, <1>3, <1>5, <2>1 DEF OthersStand, SameRequest, LocksKept, TypeOK
  <2>5. QED
    BY <1>3, <2>1, <2>2, <2>3, <2>4, OneRequest DEF Transacting
<1>6. QED
  BY <1>2, <1>4, <1>5

(***************************************************************************)
(* A read that answers at once.                                            *)
(***************************************************************************)
LEMMA ReadInv ==
  ASSUME Inv, NEW r \in Request, NEW u \in User, NEW kind \in AnswerKind \ {"notProvisioned"},
         NEW id \in WorkspaceId \cup {None}, NEW listed \in SUBSET WorkspaceId,
         kind = "home" => Home(id, u) \in workspace,
         Answer(r, kind, id, listed),
         caller' = [caller EXCEPT ![r] = [kind |-> "current", user |-> u]],
         UNCHANGED <<tables, taken, rowLock, draft, failures>>
  PROVE  Inv'
<1>1. TypeOK
  BY DEF Inv
<1>2. /\ pc' \in [Request -> Step]
      /\ answer' \in [Request -> [kind : AnswerKind, id : WorkspaceId \cup {None},
                                  listed : SUBSET WorkspaceId]]
      /\ pc'[r] = "idle"
      /\ answer'[r] = [kind |-> kind, id |-> id, listed |-> listed]
      /\ \A s \in Request \ {r} : pc'[s] = pc[s] /\ answer'[s] = answer[s]
  BY <1>1, AnswerTyped
<1>3. TypeOK'
  BY <1>1, <1>2 DEF TypeOK, tables, Kind
<1>4. RequestOK(r)'
  BY <1>1, <1>2 DEF RequestOK, AnswerOK, Transacting, tables, Home, TypeOK
<1>5. OthersStand(r) /\ LocksKept(r)
  BY <1>1, <1>2 DEF OthersStand, SameRequest, LocksKept, TypeOK
<1>6. QED
  BY <1>2, <1>3, <1>4, <1>5, OneRequest DEF Transacting, tables

LEMMA GetCurrentInv ==
  ASSUME Inv, NEW r \in Request, GetCurrent(r)
  PROVE  Inv'
<1>1. TypeOK
  BY DEF Inv
<1>2. PICK u \in users :
        \/ Begin(r, "current", u, "upsert")
        \/ \E w \in PersonalOf(u) :
             /\ Answer(r, "home", w.id, {})
             /\ caller' = [caller EXCEPT ![r] = [kind |-> "current", user |-> u]]
  BY DEF GetCurrent
<1>3. u \in User /\ UNCHANGED <<tables, taken, rowLock, draft, failures>>
  BY <1>1 DEF TypeOK, GetCurrent
<1>4. CASE Begin(r, "current", u, "upsert")
  <2>1. /\ pc' \in [Request -> Step]
        /\ caller' \in [Request -> [kind : Kind, user : User \cup {None}]]
        /\ answer' \in [Request -> [kind : AnswerKind, id : WorkspaceId \cup {None},
                                    listed : SUBSET WorkspaceId]]
        /\ pc'[r] = "upsert"
        /\ caller'[r] = [kind |-> "current", user |-> u]
        /\ answer'[r] = NoAnswer
        /\ \A s \in Request \ {r} :
             pc'[s] = pc[s] /\ caller'[s] = caller[s] /\ answer'[s] = answer[s]
    BY <1>1, <1>3, <1>4, BeginTyped DEF Kind, Step
  <2>2. TypeOK'
    BY <1>1, <1>3, <2>1 DEF TypeOK, tables
  <2>3. RequestOK(r)'
    BY <1>3, <2>1 DEF RequestOK, AnswerOK, NoAnswer, Transacting
  <2>4. OthersStand(r) /\ LocksKept(r)
    BY <1>3, <2>1 DEF OthersStand, SameRequest, LocksKept
  <2>5. QED
    BY <1>3, <2>1, <2>2, <2>3, <2>4, OneRequest DEF Transacting, tables
<1>5. ASSUME NEW w \in PersonalOf(u),
             Answer(r, "home", w.id, {}),
             caller' = [caller EXCEPT ![r] = [kind |-> "current", user |-> u]]
      PROVE  Inv'
  <2>1. w.id \in WorkspaceId /\ Home(w.id, u) \in workspace
    BY <1>1 DEF PersonalOf, TypeOK, Home
  <2>2. "home" \in AnswerKind \ {"notProvisioned"} /\ {} \in SUBSET WorkspaceId
    BY DEF AnswerKind
  <2>3. QED
    BY <1>3, <1>5, <2>1, <2>2, ReadInv
<1>6. QED
  BY <1>2, <1>4, <1>5

LEMMA GetListInv ==
  ASSUME Inv, NEW r \in Request, GetList(r)
  PROVE  Inv'
<1>1. PICK u \in users :
        /\ Answer(r, "list", None, {w.id : w \in {x \in workspace : <<x.id, u>> \in member}})
        /\ caller' = [caller EXCEPT ![r] = [kind |-> "current", user |-> u]]
  BY DEF GetList
<1>2. u \in User /\ {w.id : w \in {x \in workspace : <<x.id, u>> \in member}} \in SUBSET WorkspaceId
  BY DEF Inv, TypeOK
<1>3. QED
  BY <1>1, <1>2, ReadInv DEF GetList, AnswerKind

LEMMA GetWorkspaceInv ==
  ASSUME Inv, NEW r \in Request, NEW id \in WorkspaceId, GetWorkspace(r, id)
  PROVE  Inv'
<1>1. PICK u \in users :
        /\ IF \E w \in workspace : w.id = id /\ <<id, u>> \in member
           THEN Answer(r, "home", id, {})
           ELSE Answer(r, "notFound", None, {})
        /\ caller' = [caller EXCEPT ![r] = [kind |-> "current", user |-> u]]
  BY DEF GetWorkspace
<1>2. u \in User
  BY DEF Inv, TypeOK
<1>3. <<id, u>> \in member => Home(id, u) \in workspace
  <2>1. \A m \in member : Home(m[1], m[2]) \in workspace
    BY DEF Inv, HomesOK
  <2>2. QED
    BY <2>1
<1>4. /\ {"home", "notFound"} \subseteq AnswerKind \ {"notProvisioned"}
      /\ {} \in SUBSET WorkspaceId /\ None \in WorkspaceId \cup {None}
  BY DEF AnswerKind
<1>5. UNCHANGED <<tables, taken, rowLock, draft, failures>>
  BY DEF GetWorkspace
<1>6. CASE \E w \in workspace : w.id = id /\ <<id, u>> \in member
  BY <1>1, <1>2, <1>3, <1>4, <1>5, <1>6, ReadInv
<1>7. CASE ~ \E w \in workspace : w.id = id /\ <<id, u>> \in member
  <2>1. Answer(r, "notFound", None, {}) /\ "notFound" # "home"
    BY <1>1, <1>7
  <2>2. QED
    BY <1>1, <1>2, <1>4, <1>5, <2>1, ReadInv
<1>8. QED
  BY <1>6, <1>7

\* The id generated for a home that is not there is nobody's.
LEMMA NewIdIsNew ==
  ASSUME TypeOK, taken # WorkspaceId
  PROVE  NewId \in WorkspaceId \ taken
BY DEF TypeOK, NewId

DraftRow == [id : WorkspaceId \cup {None}, account : SUBSET WorkspaceId,
             member : SUBSET (WorkspaceId \X User)]

LEMMA DraftTyped ==
  ASSUME NEW d \in DraftRow, NEW id \in WorkspaceId, NEW u \in User
  PROVE  /\ [d EXCEPT !.id = id] \in DraftRow
         /\ [d EXCEPT !.account = {id}] \in DraftRow
         /\ [d EXCEPT !.member = {<<id, u>>}] \in DraftRow
BY DEF DraftRow

LEMMA UpsertInv ==
  ASSUME Inv, NEW r \in Request, Upsert(r)
  PROVE  Inv'
<1> DEFINE u == caller[r].user
<1>1. TypeOK /\ HomesOK /\ RequestOK(r) /\ u \in User
  BY DEF Inv, RequestOK, Upsert, GoTo
<1>2. /\ pc[r] = "upsert"
      /\ pc' = [pc EXCEPT ![r] = "addAccount"]
      /\ rowLock[u] = None
      /\ rowLock' = [rowLock EXCEPT ![u] = r]
      /\ UNCHANGED <<users, workspace, account, member, caller, answer, failures>>
  BY DEF Upsert, GoTo, tables
<1>3. PICK id \in WorkspaceId :
        /\ draft' = [draft EXCEPT ![r].id = id]
        /\ \/ Home(id, u) \in workspace /\ taken' = taken
           \/ PersonalOf(u) = {} /\ id \notin taken /\ taken' = taken \cup {id}
  <2>1. CASE \E w \in PersonalOf(u) : draft' = [draft EXCEPT ![r].id = w.id] /\ UNCHANGED taken
    <3>1. PICK w \in PersonalOf(u) : draft' = [draft EXCEPT ![r].id = w.id] /\ UNCHANGED taken
      BY <2>1
    <3>2. w.id \in WorkspaceId /\ Home(w.id, u) \in workspace
      BY <1>1 DEF PersonalOf, TypeOK, Home
    <3>3. QED
      BY <3>1, <3>2
  <2>2. CASE /\ PersonalOf(u) = {} /\ taken # WorkspaceId
             /\ taken' = taken \cup {NewId}
             /\ draft' = [draft EXCEPT ![r].id = NewId]
    BY <1>1, <2>2, NewIdIsNew
  <2>3. QED
    BY <2>1, <2>2 DEF Upsert
<1>4. /\ taken \subseteq taken' /\ taken' \subseteq WorkspaceId
      /\ draft'[r].id = id /\ id \in taken'
  <2>1. Home(id, u) \in workspace => id \in taken
    <3>1. Home(id, u).id = id
      BY DEF Home
    <3>2. QED
      BY <1>1, <3>1 DEF HomesOK
  <2>2. draft'[r].id = id
    BY <1>1, <1>3 DEF TypeOK
  <2>3. QED
    BY <1>1, <1>3, <2>1, <2>2 DEF TypeOK
<1>5. TypeOK'
  <2>1. draft' \in [Request -> DraftRow]
    <3>1. draft \in [Request -> DraftRow]
      BY <1>1 DEF TypeOK, DraftRow
    <3>2. [draft[r] EXCEPT !.id = id] \in DraftRow
      BY <1>1, <3>1, DraftTyped
    <3>3. QED
      BY <1>3, <3>1, <3>2
  <2>2. QED
    BY <1>1, <1>2, <1>4, <2>1 DEF TypeOK, DraftRow, Step
<1>6. OthersStand(r) /\ LocksKept(r)
  BY <1>1, <1>2, <1>3, WorkspacesAssumption DEF OthersStand, SameRequest, LocksKept, TypeOK
<1>7. \/ Home(id, u) \in workspace
      \/ \A w \in workspace : w.owner # u /\ w.id # id
  BY <1>1, <1>3 DEF PersonalOf, HomesOK
<1>8. RequestOK(r)'
  BY <1>1, <1>2, <1>4, <1>7 DEF TypeOK, RequestOK, DraftOK, AnswerOK, Home, Transacting
<1>9. ASSUME NEW s \in Request \ {r}, pc[s] \in Transacting
      PROVE  draft[s].id # id
  <2>1. DraftOK(s) /\ caller[s].user # u
    BY <1>2, <1>9, WorkspacesAssumption DEF Inv, RequestOK, DraftOK
  <2>2. CASE Home(id, u) \in workspace
    BY <1>1, <2>1, <2>2 DEF DraftOK, HomesOK, Home
  <2>3. CASE id \notin taken
    BY <2>1, <2>3 DEF DraftOK
  <2>4. QED
    BY <1>3, <2>2, <2>3
<1>10. QED
  BY <1>2, <1>4, <1>5, <1>6, <1>8, <1>9, OneRequest

LEMMA AddAccountInv ==
  ASSUME Inv, NEW r \in Request, AddAccount(r)
  PROVE  Inv'
<1>1. TypeOK /\ RequestOK(r) /\ DraftOK(r)
  BY DEF Inv, RequestOK, AddAccount, GoTo, Transacting
<1>2. /\ pc[r] = "addAccount"
      /\ pc' = [pc EXCEPT ![r] = "addMember"]
      /\ draft' = [draft EXCEPT ![r].account = {draft[r].id}]
      /\ UNCHANGED <<users, workspace, account, member, taken, rowLock, caller, answer, failures>>
  BY DEF AddAccount, GoTo, tables
<1>3. draft[r].id \in WorkspaceId /\ caller[r].user \in User
  BY <1>1, <1>2 DEF DraftOK, RequestOK, TypeOK
<1>4. TypeOK'
  <2>1. draft' \in [Request -> DraftRow]
    <3>1. draft \in [Request -> DraftRow]
      BY <1>1 DEF TypeOK, DraftRow
    <3>2. [draft[r] EXCEPT !.account = {draft[r].id}] \in DraftRow
      BY <1>3, <3>1, DraftTyped
    <3>3. QED
      BY <1>2, <3>1, <3>2
  <2>2. QED
    BY <1>1, <1>2, <2>1 DEF TypeOK, DraftRow, Step
<1>5. OthersStand(r) /\ LocksKept(r)
  BY <1>1, <1>2 DEF OthersStand, SameRequest, LocksKept, TypeOK
<1>6. RequestOK(r)'
  BY <1>1, <1>2 DEF TypeOK, RequestOK, DraftOK, AnswerOK, Home
<1>7. draft'[r].id = draft[r].id
  BY <1>1, <1>2 DEF TypeOK
<1>8. QED
  BY <1>2, <1>4, <1>5, <1>6, <1>7, OneRequest DEF Inv, DraftsDiffer, Transacting

LEMMA AddMemberInv ==
  ASSUME Inv, NEW r \in Request, AddMember(r)
  PROVE  Inv'
<1>1. TypeOK /\ RequestOK(r) /\ DraftOK(r)
  BY DEF Inv, RequestOK, AddMember, GoTo, Transacting
<1>2. /\ pc[r] = "addMember"
      /\ pc' = [pc EXCEPT ![r] = "commit"]
      /\ draft' = [draft EXCEPT ![r].member = {<<draft[r].id, caller[r].user>>}]
      /\ UNCHANGED <<users, workspace, account, member, taken, rowLock, caller, answer, failures>>
  BY DEF AddMember, GoTo, tables
<1>3. draft[r].id \in WorkspaceId /\ caller[r].user \in User
  BY <1>1, <1>2 DEF DraftOK, RequestOK, TypeOK
<1>4. TypeOK'
  <2>1. draft' \in [Request -> DraftRow]
    <3>1. draft \in [Request -> DraftRow]
      BY <1>1 DEF TypeOK, DraftRow
    <3>2. [draft[r] EXCEPT !.member = {<<draft[r].id, caller[r].user>>}] \in DraftRow
      BY <1>3, <3>1, DraftTyped
    <3>3. QED
      BY <1>2, <3>1, <3>2
  <2>2. QED
    BY <1>1, <1>2, <2>1 DEF TypeOK, DraftRow, Step
<1>5. OthersStand(r) /\ LocksKept(r)
  BY <1>1, <1>2 DEF OthersStand, SameRequest, LocksKept, TypeOK
<1>6. RequestOK(r)'
  BY <1>1, <1>2 DEF TypeOK, RequestOK, DraftOK, AnswerOK, Home
<1>7. draft'[r].id = draft[r].id
  BY <1>1, <1>2 DEF TypeOK
<1>8. QED
  BY <1>2, <1>4, <1>5, <1>6, <1>7, OneRequest DEF Inv, DraftsDiffer, Transacting

\* A request that ends keeps every lock that is not its own.
LEMMA UnlockKeeps ==
  ASSUME TypeOK, NEW r \in Request, Unlock(r)
  PROVE  LocksKept(r) /\ rowLock' \in [User -> Request \cup {None}]
BY DEF TypeOK, Unlock, LocksKept

LEMMA FailInv ==
  ASSUME Inv, NEW r \in Request, Fail(r)
  PROVE  Inv'
<1>1. TypeOK /\ RequestOK(r)
  BY DEF Inv
<1>2. /\ pc[r] # "idle"
      /\ failures' = failures + 1 /\ failures < MaxFailures
      /\ draft' = [draft EXCEPT ![r] = NoDraft]
      /\ Unlock(r)
      /\ UNCHANGED <<users, workspace, account, member, taken, caller>>
  BY DEF Fail, tables
<1>3. PICK kind \in {"signedUp", "error", "none"} : Answer(r, kind, None, {})
  BY DEF Fail
<1>4. kind \in AnswerKind /\ None \in WorkspaceId \cup {None} /\ {} \in SUBSET WorkspaceId
  BY DEF AnswerKind
<1>5. /\ pc' \in [Request -> Step]
      /\ answer' \in [Request -> [kind : AnswerKind, id : WorkspaceId \cup {None},
                                  listed : SUBSET WorkspaceId]]
      /\ pc'[r] = "idle"
      /\ answer'[r] = [kind |-> kind, id |-> None, listed |-> {}]
      /\ \A s \in Request \ {r} : pc'[s] = pc[s] /\ answer'[s] = answer[s]
  BY <1>1, <1>3, <1>4, AnswerTyped
<1>6. LocksKept(r) /\ rowLock' \in [User -> Request \cup {None}]
  BY <1>1, <1>2, UnlockKeeps
<1>7. TypeOK'
  <2>1. failures' \in 0..MaxFailures
    BY <1>1, <1>2, WorkspacesAssumption DEF TypeOK
  <2>2. draft' \in [Request -> [id : WorkspaceId \cup {None}, account : SUBSET WorkspaceId,
                               member : SUBSET (WorkspaceId \X User)]]
    BY <1>1, <1>2 DEF TypeOK, NoDraft
  <2>3. QED
    BY <1>1, <1>2, <1>5, <1>6, <2>1, <2>2 DEF TypeOK
<1>8. OthersStand(r)
  BY <1>1, <1>2, <1>5 DEF OthersStand, SameRequest, TypeOK
<1>9. RequestOK(r)'
  BY <1>1, <1>2, <1>5 DEF RequestOK, AnswerOK, Transacting
<1>10. QED
  BY <1>2, <1>5, <1>6, <1>7, <1>8, <1>9, OneRequest DEF Transacting

(***************************************************************************)
(* The commit: the home appears with its account and its member at once,   *)
(* or is the one that was there.                                           *)
(***************************************************************************)
LEMMA CommitInv ==
  ASSUME Inv, NEW r \in Request, Commit(r)
  PROVE  Inv'
<1> DEFINE u == caller[r].user
           id == draft[r].id
<1>1. TypeOK /\ HomesOK /\ RequestOK(r) /\ DraftOK(r) /\ pc[r] = "commit"
  BY DEF Inv, RequestOK, Commit, Transacting
<1>2. u \in User /\ id \in WorkspaceId /\ id \in taken
  BY <1>1 DEF RequestOK, DraftOK, TypeOK
<1>3. /\ workspace' = workspace \cup {Home(id, u)}
      /\ account' = account \cup {id}
      /\ member' = member \cup {<<id, u>>}
      /\ draft' = [draft EXCEPT ![r] = NoDraft]
      /\ Unlock(r)
      /\ UNCHANGED <<users, taken, caller, failures>>
  BY <1>1 DEF Commit, Home, DraftOK
<1>4. PICK kind \in {"signedUp", "home"} : Answer(r, kind, IF kind = "home" THEN id ELSE None, {})
  BY DEF Commit
<1>5. /\ kind \in AnswerKind /\ (IF kind = "home" THEN id ELSE None) \in WorkspaceId \cup {None}
      /\ {} \in SUBSET WorkspaceId
  BY <1>2 DEF AnswerKind
<1>6. /\ pc' \in [Request -> Step]
      /\ answer' \in [Request -> [kind : AnswerKind, id : WorkspaceId \cup {None},
                                  listed : SUBSET WorkspaceId]]
      /\ pc'[r] = "idle"
      /\ answer'[r] = [kind |-> kind, id |-> IF kind = "home" THEN id ELSE None, listed |-> {}]
      /\ \A s \in Request \ {r} : pc'[s] = pc[s] /\ answer'[s] = answer[s]
  BY <1>1, <1>4, <1>5, AnswerTyped
<1>7. LocksKept(r) /\ rowLock' \in [User -> Request \cup {None}]
  BY <1>1, <1>3, UnlockKeeps
<1>8. TypeOK'
  <2>1. draft' \in [Request -> [id : WorkspaceId \cup {None}, account : SUBSET WorkspaceId,
                               member : SUBSET (WorkspaceId \X User)]]
    BY <1>1, <1>3 DEF TypeOK, NoDraft
  <2>2. Home(id, u) \in [id : WorkspaceId, owner : User]
    BY <1>2 DEF Home
  <2>3. QED
    BY <1>1, <1>2, <1>3, <1>6, <1>7, <2>1, <2>2 DEF TypeOK
<1>9. HomesOK'
  <2>1. \A w \in workspace : w.id = id \/ w.owner = u => w = Home(id, u)
    BY <1>1 DEF DraftOK, HomesOK, Home
  <2>2. \A w, x \in workspace' : w.id = x.id \/ w.owner = x.owner => w = x
    BY <1>1, <1>3, <2>1 DEF HomesOK, Home
  <2>3. \A m \in member' : Home(m[1], m[2]) \in workspace'
    BY <1>1, <1>3 DEF HomesOK
  <2>4. QED
    BY <1>1, <1>2, <1>3, <2>2, <2>3 DEF HomesOK, Home
<1>10. OthersStand(r)
  BY <1>1, <1>3, <1>6 DEF OthersStand, SameRequest, TypeOK
<1>11. RequestOK(r)'
  BY <1>1, <1>3, <1>6 DEF RequestOK, AnswerOK, Transacting, Home
<1>12. ASSUME NEW s \in Request \ {r}
       PROVE  RequestOK(s)'
  <2>1. TypeOK /\ RequestOK(s) /\ SameRequest(s)
    BY <1>1, <1>10 DEF Inv, OthersStand
  <2>2. AnswerOK(s)'
    BY <1>3, <2>1 DEF RequestOK, AnswerOK, SameRequest, Home
  <2>3. pc[s] \in Transacting => DraftOK(s)'
    <3>1. SUFFICES ASSUME pc[s] \in Transacting PROVE DraftOK(s)'
      OBVIOUS
    <3>2. DraftOK(s) /\ caller[s].user \in User
      BY <2>1, <3>1 DEF RequestOK, Transacting
    <3>3. draft[s].id # id /\ caller[s].user # u
      BY <1>1, <3>1, <3>2 DEF Inv, DraftsDiffer, DraftOK, Transacting
    <3>4. rowLock'[caller[s].user] = s
      BY <1>7, <3>2 DEF DraftOK, LocksKept
    <3>5. QED
      BY <1>3, <2>1, <3>2, <3>3, <3>4 DEF DraftOK, SameRequest, Home
  <2>4. QED
    BY <2>1, <2>2, <2>3 DEF RequestOK, SameRequest
<1>13. DraftsDiffer'
  BY <1>6, <1>10 DEF Inv, DraftsDiffer, OthersStand, SameRequest, Transacting
<1>14. QED
  BY <1>8, <1>9, <1>11, <1>12, <1>13 DEF Inv

-----------------------------------------------------------------------------
(* The api by itself, and under the forms: a step of a form is a step of   *)
(* the api, leaves it alone, or only loses a message.                      *)

LEMMA StutterInv ==
  ASSUME Inv, UNCHANGED <<tables, taken, rowLock, pc, caller, draft, answer>>,
         failures' \in 0..MaxFailures
  PROVE  Inv'
BY DEF tables, Inv, TypeOK, HomesOK, RequestOK, DraftOK, AnswerOK, DraftsDiffer, Home

LEMMA NextInv ==
  ASSUME Inv, [Next]_vars
  PROVE  Inv'
<1>1. CASE UNCHANGED vars
  BY <1>1, StutterInv DEF Inv, TypeOK, vars, tables
<1>2. QED
  BY <1>1, SignUpInv, GetCurrentInv, GetListInv, GetWorkspaceInv, UpsertInv, AddAccountInv,
     AddMemberInv, CommitInv, FailInv DEF Next, Handle

LEMMA ServingIsRequest ==
  ASSUME \E r \in Request : Free(r)
  PROVE  Serving \in Request
BY DEF Serving

LEMMA FormStep ==
  ASSUME Inv, [SignInNext]_signInVars
  PROVE  [Next]_vars \/ LoseMessage
<1>1. ASSUME NEW t \in Tab, Submits(t)
      PROVE  [Next]_vars
  BY <1>1, ServingIsRequest DEF Submits, SubmitSignUp, SubmitSignIn, Next
<1>2. ASSUME NEW t \in Tab, SwitchMode(t)
      PROVE  UNCHANGED vars
  BY <1>2 DEF SwitchMode
<1>3. ASSUME NEW t \in Tab, PageRuns(t)
      PROVE  [Next]_vars
  <2>1. ASSUME ReadSeries(t)
        PROVE  Next
    <3>1. PICK r \in Request : r = reading[t] /\ answer[r].kind = "home"
      BY <2>1 DEF ReadSeries, Answered, Answers
    <3>2. Home(answer[r].id, caller[r].user) \in workspace
      BY <3>1 DEF Inv, RequestOK, AnswerOK
    <3>3. workspace \subseteq [id : WorkspaceId, owner : User]
      BY DEF Inv, TypeOK
    <3>4. answer[r].id \in WorkspaceId
      BY <3>2, <3>3 DEF Home
    <3>5. QED
      BY <2>1, <3>1, <3>4 DEF ReadSeries, Next
  <2>2. QED
    BY <1>3, <2>1, ServingIsRequest DEF PageRuns, Redirect, ReadCurrent, ShowLibrary, ReadThrows,
       Reload, FollowLink, Go, Next
<1>4. ASSUME NEW t \in Tab, OtherRead(t)
      PROVE  [Next]_vars
  BY <1>4, ServingIsRequest DEF OtherRead, Next
<1>5. ASSUME NEW t \in Tab, NEW m \in Mode, CallEnds(t, m)
      PROVE  UNCHANGED vars
  BY <1>5 DEF CallEnds, Accepted, Refused, Dropped
<1>6. ASSUME NEW t \in Tab, NEW m \in Mode, Lose(t, m)
      PROVE  LoseMessage
  BY <1>6 DEF Lose
<1>7. ASSUME NEW r \in Request, ApiRuns(r) \/ ApiFails(r)
      PROVE  Next
  BY <1>7 DEF ApiRuns, ApiFails, Next
<1>8. ASSUME NEW t \in Tab, ReadIsLost(t)
      PROVE  LoseMessage
  BY <1>8 DEF ReadIsLost
<1>9. CASE UNCHANGED signInVars
  BY <1>9 DEF signInVars
<1>10. QED
  BY <1>1, <1>2, <1>3, <1>4, <1>5, <1>6, <1>7, <1>8, <1>9 DEF SignInNext

LEMMA SignInNextInv ==
  ASSUME Inv, [SignInNext]_signInVars
  PROVE  Inv'
<1>1. CASE [Next]_vars
  BY <1>1, NextInv
<1>2. CASE LoseMessage
  <2>1. failures' \in 0..MaxFailures
    BY <1>2, WorkspacesAssumption DEF LoseMessage, Inv, TypeOK
  <2>2. QED
    BY <1>2, <2>1, StutterInv DEF LoseMessage
<1>3. QED
  BY <1>1, <1>2, FormStep

-----------------------------------------------------------------------------
\* The inductive invariant of the api, whoever calls it.
THEOREM ApiInvAlways == Spec => []Inv
<1>1. Inv /\ [Next]_vars => Inv'
  BY NextInv
<1>2. QED
  BY InitInv, <1>1, PTL DEF Spec

\* The same under the forms and the library page.
THEOREM InvAlways == SignInSpec => []Inv
<1>1. SignInInit => Inv
  BY InitInv DEF SignInInit
<1>2. Inv /\ [SignInNext]_signInVars => Inv'
  BY SignInNextInv
<1>3. QED
  BY <1>1, <1>2, PTL DEF SignInSpec

\* Every variable of the api keeps to its type.
THEOREM TypeCorrect == SignInSpec => []TypeOK
<1>1. Inv => TypeOK
  BY DEF Inv
<1>2. QED
  BY InvAlways, <1>1, PTL

(***************************************************************************)
(* However far a provisioning that failed had come, a workspace that can   *)
(* be found has its account and its owner (provisionDefaultWorkspace of    *)
(* packages/db/src/workspaces.ts).                                         *)
(***************************************************************************)
THEOREM HomesAreWhole == SignInSpec => []WorkspacesAreComplete
<1>1. Inv => WorkspacesAreComplete
  BY DEF Inv, HomesOK, WorkspacesAreComplete
<1>2. QED
  BY InvAlways, <1>1, PTL

(***************************************************************************)
(* The hook and any number of concurrent first reads name one home of a    *)
(* user, and the upsert never comes back without a row (the read of        *)
(* apps/api/src/routes/workspaces.ts, the hook of auth-service.ts).        *)
(***************************************************************************)
THEOREM OneHomeIsNamed == SignInSpec => []AnswersNameOneHome
<1>1. ASSUME Inv, NEW r \in Request
      PROVE  /\ answer[r].kind = "home" => Home(answer[r].id, caller[r].user) \in workspace
             /\ answer[r].kind # "notProvisioned"
  BY <1>1 DEF Inv, RequestOK, AnswerOK
<1>2. ASSUME Inv, NEW id, NEW other, NEW u, Home(id, u) \in workspace, Home(other, u) \in workspace
      PROVE  id = other
  BY <1>2 DEF Inv, HomesOK, Home
<1>3. Inv => AnswersNameOneHome
  BY <1>1, <1>2 DEF AnswersNameOneHome, Home
<1>4. QED
  BY InvAlways, <1>3, PTL

-----------------------------------------------------------------------------
(* The refinement of HomeOnce: the commit of a new home gives it.          *)

\* What homeBar is of a user, in any tables.
HomeFound(homes, accounts, members, u) ==
  LET own == {w \in homes : w.owner = u}
  IN  IF \E w \in own : w.id \in accounts /\ <<w.id, u>> \in members
      THEN (CHOOSE w \in own : TRUE).id ELSE None

LEMMA HomeIsFound ==
  ASSUME NEW homes, NEW accounts, NEW members, NEW u, NEW id,
         Home(id, u) \in homes, id \in accounts, <<id, u>> \in members,
         \A w \in homes : w.owner = u => w = Home(id, u)
  PROVE  HomeFound(homes, accounts, members, u) = id
<1> DEFINE own == {w \in homes : w.owner = u}
<1>1. Home(id, u).id = id /\ Home(id, u).owner = u
  BY DEF Home
<1>2. own = {Home(id, u)}
  BY <1>1
<1>3. (CHOOSE w \in own : TRUE) = Home(id, u)
  BY <1>2
<1>4. QED
  BY <1>1, <1>2, <1>3 DEF HomeFound

LEMMA HomeBarIs ==
  /\ \A u \in User : homeBar[u] = HomeFound(workspace, account, member, u)
  /\ \A u \in User : homeBar'[u] = HomeFound(workspace', account', member', u)
  /\ homeBar = [u \in User |-> homeBar[u]]
  /\ homeBar' = [u \in User |-> homeBar'[u]]
BY DEF homeBar, HomeFound, PersonalOf

LEMMA CommitGives ==
  ASSUME Inv, NEW r \in Request, Commit(r)
  PROVE  [Abstract!Next]_homeBar
<1> DEFINE u == caller[r].user
           id == draft[r].id
<1>1. TypeOK /\ HomesOK /\ RequestOK(r) /\ DraftOK(r) /\ pc[r] = "commit"
  BY DEF Inv, RequestOK, Commit, Transacting
<1>2. u \in User /\ id \in WorkspaceId
  BY <1>1 DEF RequestOK, DraftOK, TypeOK
<1>3. /\ workspace' = workspace \cup {Home(id, u)}
      /\ account' = account \cup {id}
      /\ member' = member \cup {<<id, u>>}
  BY <1>1 DEF Commit, Home, DraftOK
<1>4. CASE Home(id, u) \in workspace
  <2>1. UNCHANGED <<workspace, account, member>>
    BY <1>1, <1>3, <1>4 DEF HomesOK, Home
  <2>2. QED
    BY <2>1 DEF homeBar, PersonalOf
<1>5. CASE \A w \in workspace : w.owner # u /\ w.id # id
  <2>1. homeBar[u] = None
    BY <1>2, <1>5, HomeBarIs DEF HomeFound
  <2>2. homeBar'[u] = id
    <3>1. Home(id, u) \in workspace' /\ id \in account' /\ <<id, u>> \in member'
      BY <1>3
    <3>2. \A w \in workspace' : w.owner = u => w = Home(id, u)
      BY <1>3, <1>5
    <3>3. HomeFound(workspace', account', member', u) = id
      BY <3>1, <3>2, HomeIsFound
    <3>4. QED
      BY <1>2, <3>3, HomeBarIs
  <2>3. ASSUME NEW v \in User \ {u}
        PROVE  homeBar'[v] = homeBar[v] /\ homeBar[v] # id
    <3>1. {w \in workspace' : w.owner = v} = {w \in workspace : w.owner = v}
      BY <1>3, <2>3 DEF Home
    <3>2. CASE \E w \in workspace : w.owner = v
      <4>1. PICK w \in workspace : w.owner = v
        BY <3>2
      <4>2. w = Home(w.id, v) /\ w.id # id
        BY <1>1, <1>5, <4>1 DEF TypeOK, Home
      <4>3. /\ w.id \in account /\ <<w.id, v>> \in member
            /\ \A x \in workspace : x.owner = v => x = w
        BY <1>1, <4>1 DEF HomesOK
      <4>4. HomeFound(workspace, account, member, v) = w.id
        BY <4>1, <4>2, <4>3, HomeIsFound
      <4>5. HomeFound(workspace', account', member', v) = w.id
        <5>1. Home(w.id, v) \in workspace' /\ w.id \in account' /\ <<w.id, v>> \in member'
          BY <1>3, <4>1, <4>2, <4>3
        <5>2. \A x \in workspace' : x.owner = v => x = Home(w.id, v)
          BY <3>1, <4>2, <4>3
        <5>3. QED
          BY <5>1, <5>2, HomeIsFound
      <4>6. QED
        BY <4>2, <4>4, <4>5, HomeBarIs
    <3>3. CASE ~ \E w \in workspace : w.owner = v
      <4>1. HomeFound(workspace, account, member, v) = None
        BY <3>3 DEF HomeFound
      <4>2. HomeFound(workspace', account', member', v) = None
        BY <3>1, <3>3 DEF HomeFound
      <4>3. QED
        BY <1>2, <4>1, <4>2, HomeBarIs, WorkspacesAssumption
    <3>4. QED
      BY <3>2, <3>3
  <2>4. homeBar' = [homeBar EXCEPT ![u] = id]
    BY <1>2, <2>2, <2>3, HomeBarIs
  <2>5. id \in WorkspaceId \ {homeBar[v] : v \in User}
    BY <1>2, <2>1, <2>3, WorkspacesAssumption
  <2>6. QED
    BY <1>2, <2>1, <2>4, <2>5 DEF Abstract!Next, Abstract!Give
<1>6. QED
  BY <1>1, <1>4, <1>5 DEF DraftOK

LEMMA TablesStand ==
  ASSUME UNCHANGED <<workspace, account, member>>
  PROVE  UNCHANGED homeBar
BY DEF homeBar, PersonalOf

LEMMA NextRefines ==
  ASSUME Inv, [SignInNext]_signInVars
  PROVE  [Abstract!Next]_homeBar
<1>1. CASE LoseMessage \/ UNCHANGED vars
  BY <1>1, TablesStand DEF LoseMessage, tables, vars
<1>2. ASSUME NEW r \in Request, Commit(r)
      PROVE  [Abstract!Next]_homeBar
  BY <1>2, CommitGives
<1>3. ASSUME NEW r \in Request,
             \/ SignUp(r) \/ GetCurrent(r) \/ GetList(r)
             \/ \E id \in WorkspaceId : GetWorkspace(r, id)
             \/ Upsert(r) \/ AddAccount(r) \/ AddMember(r) \/ Fail(r)
      PROVE  UNCHANGED homeBar
  BY <1>3, TablesStand DEF SignUp, GetCurrent, GetList, GetWorkspace, Upsert, AddAccount,
     AddMember, Fail, tables
<1>4. QED
  BY <1>1, <1>2, <1>3, FormStep DEF Next, Handle

LEMMA InitRefines ==
  ASSUME Init
  PROVE  Abstract!Init
BY DEF Init, Abstract!Init, homeBar, PersonalOf

(***************************************************************************)
(* Sign-up's hook, first reads, failures, crashes and lost messages give a *)
(* user one home, once and whole.                                          *)
(***************************************************************************)
THEOREM HomesAreGivenOnce == SignInSpec => ImplementsHomeOnce
<1>1. SignInInit => Abstract!Init
  BY InitRefines DEF SignInInit
<1>2. Inv /\ [SignInNext]_signInVars => [Abstract!Next]_homeBar
  BY NextRefines
<1>3. QED
  BY <1>1, <1>2, InvAlways, PTL DEF SignInSpec, ImplementsHomeOnce, Abstract!Spec

=============================================================================
