------------------------------- MODULE SignIn -------------------------------
(***************************************************************************)
(* How a creator gets in: the sign-up and sign-in forms                    *)
(* (apps/web/components/auth/credential-form.tsx), the session they leave  *)
(* in the browser, the links that lead on from where they send people, and *)
(* the library page that needs a session (apps/web/app/series/page.tsx),   *)
(* over the api of module Workspaces.                                      *)
(*                                                                         *)
(* A form is replaced by the other one without ending its call, which goes *)
(* on in the background and still signs its author in.  Credentials are    *)
(* well-formed and typed right: Better Auth is left to look them up.       *)
(***************************************************************************)
EXTENDS Workspaces

CONSTANTS
  Tab,    \* browsers, each with one tab
  Seating \* who may sit at them

ASSUME SignInAssumption == Seating \subseteq [Tab -> User]

VARIABLES
  person,  \* who sits at each tab
  cookie,  \* whose browser holds a session
  page,    \* what is on screen
  calls,   \* onSubmit of either form awaiting its answer
  failed,  \* the form on screen says that it failed
  reading, \* the request the library page is being read by
  home     \* the workspace it was told of, and shows when nothing is being read

formVars == <<cookie, page, calls, failed>>
libraryVars == <<reading, home>>
pageVars == <<person, formVars, libraryVars>>
signInVars == <<vars, pageVars>>

Mode == {"sign-in", "sign-up"}

NoCall == [state |-> "none", request |-> None, here |-> FALSE]

\* Visitors, on the library page or on the form for new ones.
SignInInit ==
  /\ Init
  /\ person \in Seating
  /\ cookie = {}
  /\ page \in [Tab -> {"library", "sign-up"}]
  /\ calls = [t \in Tab |-> [m \in Mode |-> NoCall]]
  /\ failed = {}
  /\ reading = [t \in Tab |-> None]
  /\ home = [t \in Tab |-> None]

\* Nobody awaits what this request answered last.
Free(r) ==
  /\ pc[r] = "idle"
  /\ \A t \in Tab : reading[t] # r /\ calls[t]["sign-up"].request # r

\* Any request that is free: they are only told apart by whom they serve.
Serving == CHOOSE r \in Request : Free(r)

SetCall(t, m, call) == calls' = [calls EXCEPT ![t][m] = call]

-----------------------------------------------------------------------------
(* CredentialForm.                                                         *)

\* onSubmit up to its await, which disables the button; bound: a tab has one call
\* of each form under way.
Submit(t, m, state, request) ==
  /\ page[t] = m
  /\ calls[t][m] = NoCall
  /\ SetCall(t, m, [state |-> state, request |-> request, here |-> TRUE])
  /\ failed' = failed \ {t}
  /\ UNCHANGED <<person, cookie, page, libraryVars>>

SubmitSignUp(t) ==
  /\ \E r \in Request : Free(r)
  /\ Submit(t, "sign-up", "serving", Serving)
  /\ SignUp(Serving) /\ caller'[Serving].user = person[t]

\* Better Auth lets in whoever has an account by then.
SubmitSignIn(t) ==
  /\ Submit(t, "sign-in", IF person[t] \in users THEN "accepted" ELSE "refused", None)
  /\ UNCHANGED vars

\* What has come of a call: "unanswered" if the api has died over it.
Outcome(call) ==
  CASE call.state # "serving" -> call.state
    [] call.state = "serving" /\ pc[call.request] # "idle" -> "awaited"
    [] OTHER -> CASE answer[call.request].kind = "signedUp" -> "accepted"
                  [] answer[call.request].kind = "addressInUse" -> "refused"
                  [] OTHER -> "unanswered"

\* The form keeps waiting, if it is still there.
Unanswered(call) == IF call.here THEN [NoCall EXCEPT !.state = "lost", !.here = TRUE] ELSE NoCall

\* Or it says that it failed.
ShowFailure(t, m) ==
  /\ SetCall(t, m, NoCall)
  /\ failed' = failed \cup IF calls[t][m].here THEN {t} ELSE {}

\* The calls of forms that are gone: one that will not sign anybody in is forgotten.
LeftBehind(cs) ==
  [m \in Mode |-> IF Outcome(cs[m]) \in {"awaited", "accepted"}
                  THEN [cs[m] EXCEPT !.here = FALSE] ELSE NoCall]

\* Signed in, whatever the tab shows by now: away from there, and to the root.
Accepted(t, m) ==
  /\ Outcome(calls[t][m]) = "accepted"
  /\ cookie' = cookie \cup {t}
  /\ page' = [page EXCEPT ![t] = "landing"]
  /\ calls' = [calls EXCEPT ![t] = LeftBehind([@ EXCEPT ![m] = NoCall])]
  /\ failed' = failed \ {t}
  /\ reading' = [reading EXCEPT ![t] = None]
  /\ home' = [home EXCEPT ![t] = None]
  /\ UNCHANGED <<vars, person>>

\* An error answer: Better Auth's, or the proxy's for an api that died.
Refused(t, m) ==
  /\ Outcome(calls[t][m]) \in {"refused", "unanswered"}
  /\ ShowFailure(t, m)
  /\ UNCHANGED <<vars, person, cookie, page, libraryVars>>

\* The call rejects, and nothing catches that: the button stays disabled.
Dropped(t, m) ==
  /\ Outcome(calls[t][m]) = "unanswered"
  /\ SetCall(t, m, Unanswered(calls[t][m]))
  /\ UNCHANGED <<vars, person, cookie, page, failed, libraryVars>>

CallEnds(t, m) == Accepted(t, m) \/ Refused(t, m) \/ Dropped(t, m)

\* A message is lost, and the api does not notice.
LoseMessage ==
  /\ failures < MaxFailures
  /\ failures' = failures + 1
  /\ UNCHANGED <<tables, taken, rowLock, pc, caller, draft, answer>>

\* A request or its answer, before the proxy or behind it.
Lose(t, m) ==
  /\ Outcome(calls[t][m]) \in {"awaited", "accepted", "refused"}
  /\ LoseMessage
  /\ \/ SetCall(t, m, Unanswered(calls[t][m])) /\ UNCHANGED failed
     \/ ShowFailure(t, m)
  /\ UNCHANGED <<person, cookie, page, libraryVars>>

\* The link below the form, for somebody whom the form keeps waiting or refuses.
SwitchMode(t) ==
  /\ page[t] \in Mode
  /\ t \in failed \/ calls[t][page[t]] # NoCall
  /\ \E m \in Mode \ {page[t]} : page' = [page EXCEPT ![t] = m]
  /\ calls' = [calls EXCEPT ![t] = LeftBehind(@)]
  /\ failed' = failed \ {t}
  /\ UNCHANGED <<vars, person, cookie, libraryVars>>

\* Loading the page again is what helps when a call was lost, or a read failed.
Reload(t) ==
  /\ \/ page[t] \in Mode /\ calls[t][page[t]].state = "lost" /\ UNCHANGED page
     \/ page[t] = "error" /\ page' = [page EXCEPT ![t] = "library"]
  /\ calls' = [calls EXCEPT ![t] = [m \in Mode |-> NoCall]]
  /\ failed' = failed \ {t}
  /\ UNCHANGED <<vars, person, cookie, libraryVars>>

-----------------------------------------------------------------------------
(* SeriesPage.                                                             *)

NotRead(t) == page[t] = "library" /\ home[t] = None /\ reading[t] = None

\* requireSession answers 401.
Redirect(t) ==
  /\ NotRead(t) /\ t \notin cookie
  /\ page' = [page EXCEPT ![t] = "sign-in"]
  /\ UNCHANGED <<vars, person, cookie, calls, failed, libraryVars>>

ReadCurrent(t) ==
  /\ NotRead(t) /\ t \in cookie
  /\ \E r \in Request : Free(r)
  /\ GetCurrent(Serving) /\ caller'[Serving].user = person[t]
  /\ reading' = [reading EXCEPT ![t] = Serving]
  /\ UNCHANGED <<person, formVars, home>>

Answered(t) == reading[t] \in Request /\ pc[reading[t]] = "idle"

Answers(t, kind) == answer[reading[t]].kind = kind

\* The series of the workspace it was told of; the route looks for that first.
ReadSeries(t) ==
  /\ Answered(t) /\ home[t] = None /\ Answers(t, "home")
  /\ GetWorkspace(reading[t], answer[reading[t]].id) /\ caller'[reading[t]].user = person[t]
  /\ home' = [home EXCEPT ![t] = answer[reading[t]].id]
  /\ UNCHANGED <<person, formVars, reading>>

ShowLibrary(t) ==
  /\ Answered(t) /\ home[t] # None /\ Answers(t, "home")
  /\ reading' = [reading EXCEPT ![t] = None]
  /\ UNCHANGED <<vars, person, formVars, home>>

\* Neither read is expected to answer anything else, nor to get no answer.
Throw(t) ==
  /\ page' = [page EXCEPT ![t] = "error"]
  /\ reading' = [reading EXCEPT ![t] = None]
  /\ home' = [home EXCEPT ![t] = None]
  /\ UNCHANGED <<person, cookie, calls, failed>>

ReadThrows(t) == Answered(t) /\ ~Answers(t, "home") /\ Throw(t) /\ UNCHANGED vars

ReadIsLost(t) == reading[t] # None /\ LoseMessage /\ Throw(t)

ShowsHome(t) == home[t] # None /\ reading[t] = None

-----------------------------------------------------------------------------
(* The links between the pages.                                            *)

Go(t, from, to) ==
  /\ page[t] = from
  /\ page' = [page EXCEPT ![t] = to]
  /\ UNCHANGED <<vars, person, cookie, calls, failed, libraryVars>>

\* The one link of LandingPage, and then that of AppNav to the series.
FollowLink(t) == Go(t, "landing", "home") \/ Go(t, "home", "library")

\* Whoever is in may read the rest of the api.
OtherRead(t) ==
  /\ ShowsHome(t)
  /\ \E r \in Request : Free(r)
  /\ GetList(Serving) \/ \E id \in WorkspaceId : GetWorkspace(Serving, id)
  /\ caller'[Serving].user = person[t]
  /\ UNCHANGED pageVars

-----------------------------------------------------------------------------
ApiRuns(r) == (Upsert(r) \/ Handle(r)) /\ UNCHANGED pageVars

ApiFails(r) == Fail(r) /\ UNCHANGED pageVars

Submits(t) == SubmitSignUp(t) \/ SubmitSignIn(t)

\* The page on screen moves on: of itself, by a link, or because a dead one is
\* loaded again.
PageRuns(t) ==
  \/ Redirect(t) \/ ReadCurrent(t) \/ ReadSeries(t) \/ ShowLibrary(t) \/ ReadThrows(t)
  \/ Reload(t) \/ FollowLink(t)

SignInNext ==
  \/ \E t \in Tab :
       \/ Submits(t) \/ SwitchMode(t) \/ PageRuns(t) \/ ReadIsLost(t) \/ OtherRead(t)
       \/ \E m \in Mode : CallEnds(t, m) \/ Lose(t, m)
  \/ \E r \in Request : ApiRuns(r) \/ ApiFails(r)

(***************************************************************************)
(* Handlers run on, and a wait for a row ends with the transaction that    *)
(* holds it.  The creator keeps at it: submits the form on screen, turns   *)
(* to the other one when it does not help, loads a dead page again, and    *)
(* follows the links from where the form sends them to the library.        *)
(***************************************************************************)
Fairness ==
  /\ \A r \in Request : WF_signInVars(ApiRuns(r))
  /\ \A t \in Tab :
       /\ WF_signInVars(Submits(t)) /\ WF_signInVars(SwitchMode(t))
       /\ WF_signInVars(PageRuns(t))
       /\ \A m \in Mode : WF_signInVars(CallEnds(t, m))

SignInSpec == SignInInit /\ [][SignInNext]_signInVars /\ Fairness

-----------------------------------------------------------------------------
(* Properties.                                                             *)

(***************************************************************************)
(* There is no way of failing that locks a creator out: an account whose   *)
(* hook or sign-up failed half way, an address in use, an answer that was  *)
(* lost, a form that was left, a page that could not be read.  Who keeps   *)
(* at it, from whichever page, is shown their own home with its series.    *)
(***************************************************************************)
CreatorsArrive ==
  \A t \in Tab : ~ShowsHome(t) ~>
    ShowsHome(t) /\ \E w \in workspace : w.owner = person[t] /\ home[t] = w.id
=============================================================================
