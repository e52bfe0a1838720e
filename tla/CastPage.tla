------------------------------ MODULE CastPage ------------------------------
(***************************************************************************)
(* The page of one series in a browser tab                                 *)
(* (app/series/[seriesId]/page.tsx, components/series-detail.tsx): the     *)
(* rows of its cast and the form that adds to it, over one page.           *)
(*                                                                         *)
(* The page is a server component: what the rows show changes only when    *)
(* router.refresh() has re-read it, and they keep their own state then,    *)
(* because they are keyed by the character.  Each row and the form may ask *)
(* for that, and it reaches all of them.  The router runs one refresh at a *)
(* time and remembers one that is asked for meanwhile.                     *)
(***************************************************************************)
EXTENDS CharacterRow, CharacterCreateForm

\* A character's row and the form that adds one are different parts of the page.
ASSUME CastPageAssumption == Row \cap Form = {}

VARIABLES
  listed,  \* how many of the characters the form created are in the cast shown
  asked,   \* router.refresh() was called
  read     \* what a refresh under way has read, None if there is none

pageVars == <<listed, asked, read>>
vars == <<fieldVars, rowVars, formVars, pageVars>>

Init ==
  /\ RowInit
  /\ FormInit
  /\ listed = [f \in Form |-> 0]
  /\ asked = FALSE
  /\ read = None

Refresh == asked' = TRUE

\* Nothing of the page is left on screen once a re-read of it has thrown.
Broken == read # None /\ ~read.found

-----------------------------------------------------------------------------
\* What a row does by itself.
RowStep(r) ==
  /\ \/ /\ ~Broken
        /\ \/ StartEditing(r) \/ StopEditing(r) \/ RowFieldStep(r) \/ Submit(r)
           \/ OpenHistory(r) \/ CloseHistory(r)
     \/ SaveRefused(r) \/ OthersAppend(r) \/ ServeHistory(r) \/ HistoryAnswers(r)
  /\ UNCHANGED <<formVars, pageVars>>

ServeSave(r) == Serve(r) /\ UNCHANGED <<formVars, pageVars>>

\* Mutant: the row closes its form and leaves the page as it was.
SaveEnds_NoRefresh(r) ==
  /\ Saved(r)
  /\ UNCHANGED <<asked, formVars, listed, read>>

SaveEnds(r) ==
  /\ Saved(r)
  /\ Refresh
  /\ UNCHANGED <<formVars, listed, read>>

\* handleSubmit runs on.
RowAnswered(r) ==
  \/ SaveEnds(r)
  \/ SaveRefused(r) /\ UNCHANGED <<formVars, pageVars>>

\* The reload a conflict offers.
Reload(r) ==
  /\ ~Broken
  /\ editing[r] /\ refusal[r] = "conflict"
  /\ Refresh
  /\ UNCHANGED <<fieldVars, rowVars, formVars, listed, read>>

FormStep(f) ==
  /\ ~Broken
  /\ FormFieldStep(f) \/ CreateSubmit(f)
  /\ UNCHANGED <<rowVars, pageVars>>

ServeCreation(f) == ServeCreate(f) /\ UNCHANGED <<rowVars, pageVars>>

CreateEnds(f) ==
  /\ \/ Created(f) /\ Refresh
     \/ CreateFailed(f) /\ UNCHANGED asked
  /\ UNCHANGED <<rowVars, listed, read>>

-----------------------------------------------------------------------------
\* The series and its cast as the api has them.
Cast == [shown |-> [r \in Row |-> Len(history[r])],
         listed |-> [f \in Form |-> Len(created[f])], found |-> TRUE]

\* Any answer but the two that are expected is thrown.
ReadPage ==
  /\ asked /\ read = None
  /\ asked' = FALSE
  /\ \E found \in BOOLEAN : read' = [Cast EXCEPT !.found = found]
  /\ UNCHANGED <<fieldVars, rowVars, formVars, listed>>

ShowPage ==
  /\ read # None /\ read.found
  /\ shown' = read.shown
  /\ listed' = read.listed
  /\ read' = None
  /\ UNCHANGED <<fieldVars, history, editorVars, panelVars, formVars, asked>>

Settled(call) == call # None => call.state = "lost"

(***************************************************************************)
(* The browser loads the page again: all there is to do after a lost call, *)
(* and after a re-read that failed, which takes the page off the screen.   *)
(***************************************************************************)
ReloadTab ==
  /\ \A r \in Row : Settled(saving[r])
  /\ \A f \in Form : Settled(creating[f])
  /\ shown' = Cast.shown
  /\ listed' = Cast.listed
  /\ images' = [h \in Host |-> IF h \in Row THEN StoredImages(h, Len(history[h])) ELSE <<>>]
  /\ meant' = [h \in Host |-> ToSet(images'[h])]
  /\ crossed' = [h \in Host |-> {}]
  /\ uploads' = [h \in Host |-> {}]
  /\ editing' = [r \in Row |-> FALSE]
  /\ seed' = shown'
  /\ saving' = [r \in Row |-> None]
  /\ refusal' = [r \in Row |-> None]
  /\ panel' = [r \in Row |-> Closed]
  /\ gets' = [r \in Row |-> <<>>]
  /\ creating' = [f \in Form |-> None]
  /\ asked' = FALSE
  /\ read' = None
  /\ UNCHANGED <<bound, used, history, created>>

Next ==
  \/ \E r \in Row : RowStep(r) \/ ServeSave(r) \/ SaveEnds(r) \/ Reload(r)
  \/ \E f \in Form : FormStep(f) \/ ServeCreation(f) \/ CreateEnds(f)
  \/ ReadPage \/ ShowPage \/ ReloadTab

(***************************************************************************)
(* The api answers or the browser gives up on it, handlers run on, and the *)
(* router carries a refresh through.  Nobody has to do anything.           *)
(***************************************************************************)
Fairness ==
  /\ \A r \in Row : WF_vars(ServeSave(r)) /\ WF_vars(RowAnswered(r))
  /\ \A f \in Form : WF_vars(ServeCreation(f)) /\ WF_vars(CreateEnds(f))
  /\ WF_vars(ReadPage) /\ WF_vars(ShowPage)

Spec == Init /\ [][Next]_vars /\ Fairness

-----------------------------------------------------------------------------
(* Properties.                                                             *)

Versions == UNION {1..(b.versions - 1) : b \in Bounds}
Characters == UNION {1..b.characters : b \in Bounds}

(***************************************************************************)
(* A save ends: its version or a later one comes on screen, the row says   *)
(* that it was refused, or its call was lost, and then the form stays      *)
(* disabled until the page is loaded again.  A character the api said it   *)
(* created joins the cast on screen.  A page that cannot be read takes     *)
(* both off the screen.                                                    *)
(***************************************************************************)
SavesEnd ==
  /\ \A r \in Row : \A n \in Versions :
       saving[r] # None /\ saving[r].revision = n ~>
         \/ shown[r] > n \/ refusal[r] # None \/ Broken
         \/ saving[r] # None /\ saving[r].state = "lost"
  /\ \A f \in Form : \A n \in Characters :
       creating[f] # None /\ creating[f].state = "written" /\ Len(created[f]) = n ~>
         listed[f] >= n \/ Broken
=============================================================================
