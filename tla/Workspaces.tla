----------------------------- MODULE Workspaces -----------------------------
(***************************************************************************)
(* Sign-up and the personal workspace: the hook that provisions it after   *)
(* the user row is committed (apps/api/src/auth-service.ts), the read that *)
(* provisions it when it is missing (apps/api/src/routes/workspaces.ts),   *)
(* and the transaction both run (packages/db/src/workspaces.ts).  One      *)
(* action is one SQL statement.                                            *)
(***************************************************************************)
EXTENDS Naturals, FiniteSets

CONSTANTS
  Request,      \* requests the api has in flight
  User,
  WorkspaceId,  \* ids to be generated
  MaxFailures,  \* bound: statements that fail and processes that die
  None

ASSUME WorkspacesAssumption ==
  /\ MaxFailures \in Nat
  /\ None \notin WorkspaceId \cup User \cup Request

VARIABLES
  users,     \* committed rows of Better Auth's user
  workspace, \* committed personal workspaces: [id, owner]
  account,   \* workspaces with a committed credit_account
  member,    \* committed rows of workspace_member: <<workspace, user>>
  taken,     \* ids that have been generated
  rowLock,   \* the request whose transaction holds a user's workspace row
  pc, caller, draft, answer, failures

tables == <<users, workspace, account, member>>
vars == <<users, workspace, account, member, taken, rowLock,
          pc, caller, draft, answer, failures>>

Kind == {"signUp", "current"}
AnswerKind == {"none", "signedUp", "addressInUse", "home", "list", "notFound", "error", "notProvisioned"}
Step == {"idle", "upsert", "addAccount", "addMember", "commit"}

NoAnswer == [kind |-> "none", id |-> None, listed |-> {}]

\* What a transaction has written: its workspace, and the rows it adds.
NoDraft == [id |-> None, account |-> {}, member |-> {}]

Init ==
  /\ users = {} /\ workspace = {} /\ account = {} /\ member = {} /\ taken = {}
  /\ rowLock = [u \in User |-> None]
  /\ pc = [r \in Request |-> "idle"]
  /\ caller = [r \in Request |-> [kind |-> "current", user |-> None]]
  /\ draft = [r \in Request |-> NoDraft]
  /\ answer = [r \in Request |-> NoAnswer]
  /\ failures = 0

\* Any id that was never generated: they are only ever compared.
NewId == CHOOSE id \in WorkspaceId : id \notin taken

PersonalOf(u) == {w \in workspace : w.owner = u}

Answer(r, kind, id, listed) ==
  /\ pc' = [pc EXCEPT ![r] = "idle"]
  /\ answer' = [answer EXCEPT ![r] = [kind |-> kind, id |-> id, listed |-> listed]]

Begin(r, kind, u, next) ==
  /\ pc' = [pc EXCEPT ![r] = next]
  /\ caller' = [caller EXCEPT ![r] = [kind |-> kind, user |-> u]]
  /\ answer' = [answer EXCEPT ![r] = NoAnswer]

GoTo(r, from, to) ==
  /\ pc[r] = from
  /\ pc' = [pc EXCEPT ![r] = to]

Unlock(r) == rowLock' = [u \in User |-> IF rowLock[u] = r THEN None ELSE rowLock[u]]

-----------------------------------------------------------------------------
\* Better Auth commits the user row, then runs the hook; an address is used once.
SignUp(r) ==
  /\ pc[r] = "idle"
  /\ \E u \in User :
       \/ /\ u \notin users
          /\ users' = users \cup {u}
          /\ Begin(r, "signUp", u, "upsert")
       \/ /\ u \in users
          /\ Answer(r, "addressInUse", None, {})
          /\ caller' = [caller EXCEPT ![r] = [kind |-> "signUp", user |-> u]]
          /\ UNCHANGED users
  /\ UNCHANGED <<workspace, account, member, taken, rowLock, draft, failures>>

\* Mutant: the read leaves provisioning to sign-up.
GetCurrent_ReadsOnly(r) ==
  /\ pc[r] = "idle"
  /\ \E u \in users :
       /\ \/ /\ PersonalOf(u) = {}
             /\ Answer(r, "error", None, {})
          \/ \E w \in PersonalOf(u) : Answer(r, "home", w.id, {})
       /\ caller' = [caller EXCEPT ![r] = [kind |-> "current", user |-> u]]
  /\ UNCHANGED <<tables, taken, rowLock, draft, failures>>

\* GET /current: findPersonalWorkspace, then provisioning if it found nothing.
GetCurrent(r) ==
  /\ pc[r] = "idle"
  /\ \E u \in users :
       \/ /\ PersonalOf(u) = {}
          /\ Begin(r, "current", u, "upsert")
       \/ \E w \in PersonalOf(u) :
            /\ Answer(r, "home", w.id, {})
            /\ caller' = [caller EXCEPT ![r] = [kind |-> "current", user |-> u]]
  /\ UNCHANGED <<tables, taken, rowLock, draft, failures>>

\* GET /: listWorkspacesForUser.
GetList(r) ==
  /\ pc[r] = "idle"
  /\ \E u \in users :
       /\ Answer(r, "list", None, {w.id : w \in {x \in workspace : <<x.id, u>> \in member}})
       /\ caller' = [caller EXCEPT ![r] = [kind |-> "current", user |-> u]]
  /\ UNCHANGED <<tables, taken, rowLock, draft, failures>>

\* GET /:workspaceId: findWorkspaceForMember.
GetWorkspace(r, id) ==
  /\ pc[r] = "idle"
  /\ \E u \in users :
       /\ IF \E w \in workspace : w.id = id /\ <<id, u>> \in member
          THEN Answer(r, "home", id, {})
          ELSE Answer(r, "notFound", None, {})
       /\ caller' = [caller EXCEPT ![r] = [kind |-> "current", user |-> u]]
  /\ UNCHANGED <<tables, taken, rowLock, draft, failures>>

-----------------------------------------------------------------------------
(* provisionDefaultWorkspace                                               *)

\* Mutant: DO NOTHING returns no row when the other insert is not committed.
Upsert_DoNothing(r) ==
  LET u == caller[r].user IN
  /\ pc[r] = "upsert"
  /\ IF rowLock[u] # None \/ PersonalOf(u) # {}
     THEN /\ \/ \E w \in PersonalOf(u) :
                  /\ draft' = [draft EXCEPT ![r].id = w.id]
                  /\ GoTo(r, "upsert", "addAccount")
                  /\ UNCHANGED answer
             \/ /\ PersonalOf(u) = {}
                /\ Answer(r, "notProvisioned", None, {})
                /\ UNCHANGED draft
          /\ UNCHANGED <<rowLock, taken>>
     ELSE /\ taken # WorkspaceId
          /\ taken' = taken \cup {NewId}
          /\ draft' = [draft EXCEPT ![r].id = NewId]
          /\ rowLock' = [rowLock EXCEPT ![u] = r]
          /\ GoTo(r, "upsert", "addAccount")
          /\ UNCHANGED answer
  /\ UNCHANGED <<tables, caller, failures>>

\* Mutant: no unique index over the owner, so nothing conflicts.
Upsert_NoConflict(r) ==
  LET u == caller[r].user IN
  /\ GoTo(r, "upsert", "addAccount")
  /\ taken # WorkspaceId
  /\ taken' = taken \cup {NewId}
  /\ draft' = [draft EXCEPT ![r].id = NewId]
  /\ UNCHANGED <<tables, rowLock, caller, answer, failures>>

(***************************************************************************)
(* INSERT ... ON CONFLICT DO UPDATE over the partial unique index: waits   *)
(* for a transaction that inserted or updated the row, then inserts or     *)
(* takes the surviving row and its lock.                                   *)
(***************************************************************************)
Upsert(r) ==
  LET u == caller[r].user IN
  /\ GoTo(r, "upsert", "addAccount")
  /\ rowLock[u] = None
  /\ rowLock' = [rowLock EXCEPT ![u] = r]
  /\ \/ \E w \in PersonalOf(u) :
          /\ draft' = [draft EXCEPT ![r].id = w.id]
          /\ UNCHANGED taken
     \/ /\ PersonalOf(u) = {} /\ taken # WorkspaceId
        /\ taken' = taken \cup {NewId}
        /\ draft' = [draft EXCEPT ![r].id = NewId]
  /\ UNCHANGED <<tables, caller, answer, failures>>

AddAccount(r) ==
  /\ GoTo(r, "addAccount", "addMember")
  /\ draft' = [draft EXCEPT ![r].account = {draft[r].id}]
  /\ UNCHANGED <<tables, taken, rowLock, caller, answer, failures>>

AddMember(r) ==
  /\ GoTo(r, "addMember", "commit")
  /\ draft' = [draft EXCEPT ![r].member = {<<draft[r].id, caller[r].user>>}]
  /\ UNCHANGED <<tables, taken, rowLock, caller, answer, failures>>

\* The hook's answer is Better Auth's; the route's is the workspace.
Commit(r) ==
  /\ pc[r] = "commit"
  /\ workspace' = workspace \cup {[id |-> draft[r].id, owner |-> caller[r].user]}
  /\ account' = account \cup draft[r].account
  /\ member' = member \cup draft[r].member
  /\ draft' = [draft EXCEPT ![r] = NoDraft]
  /\ Unlock(r)
  /\ IF caller[r].kind = "signUp" THEN Answer(r, "signedUp", None, {})
                                  ELSE Answer(r, "home", draft[r].id, {})
  /\ UNCHANGED <<users, taken, caller, failures>>

\* Mutant: the three rows are not one transaction.
Fail_KeepsWrites(r) ==
  /\ pc[r] # "idle"
  /\ failures < MaxFailures
  /\ failures' = failures + 1
  /\ workspace' = IF draft[r].id = None THEN workspace
                  ELSE workspace \cup {[id |-> draft[r].id, owner |-> caller[r].user]}
  /\ account' = account \cup draft[r].account
  /\ member' = member \cup draft[r].member
  /\ draft' = [draft EXCEPT ![r] = NoDraft]
  /\ Unlock(r)
  /\ Answer(r, "error", None, {})
  /\ UNCHANGED <<users, taken, caller>>

(***************************************************************************)
(* A statement fails and the transaction is rolled back.  The hook logs it *)
(* and sign-up succeeds; the route answers 500.  A process that dies does  *)
(* the same to the tables and answers nothing.                             *)
(***************************************************************************)
Fail(r) ==
  /\ pc[r] # "idle"
  /\ failures < MaxFailures
  /\ failures' = failures + 1
  /\ draft' = [draft EXCEPT ![r] = NoDraft]
  /\ Unlock(r)
  /\ \/ Answer(r, IF caller[r].kind = "signUp" THEN "signedUp" ELSE "error", None, {})
     \/ Answer(r, "none", None, {})
  /\ UNCHANGED <<tables, taken, caller>>

Handle(r) == AddAccount(r) \/ AddMember(r) \/ Commit(r)

Next ==
  \E r \in Request :
    \/ SignUp(r) \/ GetCurrent(r) \/ GetList(r)
    \/ \E id \in WorkspaceId : GetWorkspace(r, id)
    \/ Upsert(r) \/ Handle(r) \/ Fail(r)

Spec == Init /\ [][Next]_vars

-----------------------------------------------------------------------------
(* Properties.                                                             *)

TypeOK ==
  /\ users \subseteq User
  /\ workspace \subseteq [id : WorkspaceId, owner : User]
  /\ account \subseteq WorkspaceId
  /\ member \subseteq WorkspaceId \X User
  /\ taken \subseteq WorkspaceId
  /\ rowLock \in [User -> Request \cup {None}]
  /\ pc \in [Request -> Step]
  /\ caller \in [Request -> [kind : Kind, user : User \cup {None}]]
  /\ draft \in [Request -> [id : WorkspaceId \cup {None}, account : SUBSET WorkspaceId,
                            member : SUBSET (WorkspaceId \X User)]]
  /\ answer \in [Request -> [kind : AnswerKind,
                             id : WorkspaceId \cup {None}, listed : SUBSET WorkspaceId]]
  /\ failures \in 0..MaxFailures

(***************************************************************************)
(* A workspace anybody can find has a credit account and its owner as a    *)
(* member, however far the provisioning that failed had come.              *)
(***************************************************************************)
WorkspacesAreComplete ==
  \A w \in workspace : w.id \in account /\ <<w.id, w.owner>> \in member

(***************************************************************************)
(* Sign-up, its hook and any number of concurrent first reads give a user  *)
(* one workspace: all their answers name it, and none of them finds that   *)
(* the row it conflicted with is not there ("could not provision").        *)
(***************************************************************************)
AnswersNameOneHome ==
  \A r, s \in Request :
    /\ answer[r].kind = "home" /\ answer[s].kind = "home" /\ caller[r].user = caller[s].user =>
         answer[r].id = answer[s].id
    /\ answer[r].kind = "home" => [id |-> answer[r].id, owner |-> caller[r].user] \in workspace
    /\ answer[r].kind # "notProvisioned"

\* The refinement mapping: a home counts once it is found with all its rows.
homeBar == [u \in User |->
  IF \E w \in PersonalOf(u) : w.id \in account /\ <<w.id, u>> \in member
  THEN (CHOOSE w \in PersonalOf(u) : TRUE).id ELSE None]

Abstract == INSTANCE HomeOnce WITH Home <- WorkspaceId, home <- homeBar

\* Hook, first reads, failures and crashes give each user one complete home.
ImplementsHomeOnce == Abstract!Spec
=============================================================================
