---------------------------- MODULE CharacterRow ----------------------------
(***************************************************************************)
(* The rows of a series' page, one for each character                      *)
(* (apps/web/components/character-row.tsx with reference-image-field.tsx): *)
(* the editor that appends a version and the history behind the one shown. *)
(*                                                                         *)
(* As in the image field, what a handler reads after an await is what it   *)
(* closed over, so everything it uses later is kept in the record of its   *)
(* call.  The api is reduced to what module Characters shows of it: an     *)
(* append is made when it names the current revision and refused           *)
(* otherwise, and the versions read are those of one moment.               *)
(***************************************************************************)
EXTENDS ReferenceImageField

CONSTANT Row

ASSUME CharacterRowAssumption == Row \subseteq Host

VARIABLES
  history,  \* the characters' versions, as the api has them
  shown,    \* the version in the row's props
  editing,
  seed,     \* the version the form was opened on: what its author has read
  saving,   \* the handleSubmit call that awaits the api
  refusal,
  panel,    \* the history below the row
  gets      \* toggleHistory calls that await the api

editorVars == <<editing, seed, saving, refusal>>
panelVars == <<panel, gets>>
rowVars == <<history, shown, editorVars, panelVars>>

StoredImages(r, n) == history[r][n].images

\* A version and, for the properties, what its author had read and sent.
Version(im, from, revision) == [images |-> im, seed |-> from, revision |-> revision]

Closed == [state |-> "closed", over |-> 0, earlier |-> {}]

\* A character that was created with one image or without any.
RowInit ==
  /\ bound \in Bounds
  /\ \E im \in {<<>>} \cup {<<a>> : a \in UNION {bound.files[r] : r \in Row}} :
       /\ images = [h \in Host |-> IF h \in Row THEN im ELSE <<>>]
       /\ used = ToSet(im)
       /\ history = [r \in Row |-> <<Version(im, 0, 0)>>]
  /\ meant = [h \in Host |-> ToSet(images[h])]
  /\ crossed = [h \in Host |-> {}]
  /\ uploads = [h \in Host |-> {}]
  /\ shown = [r \in Row |-> 1]
  /\ editing = [r \in Row |-> FALSE]
  /\ seed = [r \in Row |-> 1]
  /\ saving = [r \in Row |-> None]
  /\ refusal = [r \in Row |-> None]
  /\ panel = [r \in Row |-> Closed]
  /\ gets = [r \in Row |-> <<>>]

-----------------------------------------------------------------------------
(* Editing.                                                                *)

StartEditing(r) ==
  /\ ~editing[r]
  /\ editing' = [editing EXCEPT ![r] = TRUE]
  /\ refusal' = [refusal EXCEPT ![r] = None]
  /\ Reseed(r, StoredImages(r, shown[r]))
  /\ seed' = [seed EXCEPT ![r] = shown[r]]
  /\ UNCHANGED <<bound, uploads, used, history, shown, saving, panelVars>>

\* Cancelling does not cancel a save that is under way.
StopEditing(r) ==
  /\ editing[r]
  /\ editing' = [editing EXCEPT ![r] = FALSE]
  /\ Reseed(r, StoredImages(r, shown[r]))
  /\ Unmount(r)
  /\ UNCHANGED <<bound, used, history, shown, seed, saving, refusal, panelVars>>

\* The image field is on screen while the row is being edited.
RowFieldStep(r) ==
  /\ \/ editing[r] /\ (ChooseFile(r) \/ RemoveImage(r))
     \/ UploadEnds(r)
  /\ UNCHANGED rowVars

-----------------------------------------------------------------------------
(* Saving.                                                                 *)

\* handleSubmit up to its await; the button is disabled while one is pending.
Submit(r) ==
  /\ editing[r] /\ saving[r] = None
  /\ Len(history[r]) < bound.versions
  /\ saving' = [saving EXCEPT ![r] =
       [state |-> "sent", revision |-> shown[r], images |-> images[r], seed |-> seed[r]]]
  /\ refusal' = [refusal EXCEPT ![r] = None]
  /\ UNCHANGED <<fieldVars, history, shown, editing, seed, panelVars>>

SavedVersion(call) == Version(call.images, call.seed, call.revision)

\* Mutant: the api appends whatever revision it is given.
Serve_Unconditional(r) ==
  /\ saving[r] # None /\ saving[r].state = "sent"
  /\ history' = [history EXCEPT ![r] = Append(@, SavedVersion(saving[r]))]
  /\ saving' = [saving EXCEPT ![r].state = "written"]
  /\ UNCHANGED <<fieldVars, shown, editing, seed, refusal, panelVars>>

(***************************************************************************)
(* The api's answer: written, 409, or any other failure, also of what was  *)
(* written before it; an answer that never arrives rejects the call, and   *)
(* nothing catches that.                                                   *)
(***************************************************************************)
Serve(r) ==
  /\ saving[r] # None /\ saving[r].state = "sent"
  /\ \/ /\ saving[r].revision = Len(history[r])
        /\ history' = [history EXCEPT ![r] = Append(@, SavedVersion(saving[r]))]
        /\ \E s \in {"written", "failed", "lost"} : saving' = [saving EXCEPT ![r].state = s]
     \/ /\ saving[r].revision # Len(history[r])
        /\ saving' = [saving EXCEPT ![r].state = "conflict"]
        /\ UNCHANGED history
     \/ /\ \E s \in {"failed", "lost"} : saving' = [saving EXCEPT ![r].state = s]
        /\ UNCHANGED history
  /\ UNCHANGED <<fieldVars, shown, editing, seed, refusal, panelVars>>

\* handleSubmit after its await, refused: what was typed stays where it is.
SaveRefused(r) ==
  /\ saving[r] # None /\ saving[r].state \in {"conflict", "failed"}
  /\ saving' = [saving EXCEPT ![r] = None]
  /\ refusal' = [refusal EXCEPT ![r] = saving[r].state]
  /\ UNCHANGED <<fieldVars, history, shown, editing, seed, panelVars>>

\* And saved, with the images of the render it began in; the page is re-read.
Saved(r) ==
  /\ saving[r] # None /\ saving[r].state = "written"
  /\ saving' = [saving EXCEPT ![r] = None]
  /\ Reseed(r, StoredImages(r, saving[r].revision))
  /\ editing' = [editing EXCEPT ![r] = FALSE]
  /\ Unmount(r)
  /\ UNCHANGED <<bound, used, history, shown, seed, refusal, panelVars>>

\* Another author, in another tab or browser, saves on top of what is current.
OthersAppend(r) ==
  /\ Len(history[r]) < bound.versions
  /\ LET now == Len(history[r])
     IN  \E im \in {StoredImages(r, now), <<>>} :
           history' = [history EXCEPT ![r] = Append(@, Version(im, now, now))]
  /\ UNCHANGED <<fieldVars, shown, editorVars, panelVars>>

-----------------------------------------------------------------------------
(* The history.                                                            *)

ShowPanel(r, p) == panel' = [panel EXCEPT ![r] = p]

\* toggleHistory on an open panel: the read it may be waiting for goes on.
CloseHistory(r) ==
  /\ panel[r].state # "closed"
  /\ ShowPanel(r, Closed)
  /\ UNCHANGED <<fieldVars, history, shown, editorVars, gets>>

\* toggleHistory up to its await, in the render that shows this version.
OpenHistory(r) ==
  /\ panel[r].state = "closed"
  /\ Len(gets[r]) < bound.fetches
  /\ ShowPanel(r, [Closed EXCEPT !.state = "loading"])
  /\ gets' = [gets EXCEPT ![r] = Append(@, [over |-> shown[r], versions |-> 0])]
  /\ UNCHANGED <<fieldVars, history, shown, editorVars>>

\* The api reads the versions; the answer may come much later.
ServeHistory(r) ==
  /\ \E i \in DOMAIN gets[r] :
       /\ gets[r][i].versions = 0
       /\ gets' = [gets EXCEPT ![r][i].versions = Len(history[r])]
  /\ UNCHANGED <<fieldVars, history, shown, editorVars, panel>>

\* Mutant: the newest version is taken for the one on screen.
HistoryAnswers_DropsNewest(r) ==
  /\ \E i \in DOMAIN gets[r] :
       /\ gets[r][i].versions # 0
       /\ gets' = [gets EXCEPT ![r] = RemoveAt(@, i)]
       /\ ShowPanel(r, [state |-> "read", over |-> gets[r][i].over,
                        earlier |-> 1..(gets[r][i].versions - 1)])
  /\ UNCHANGED <<fieldVars, history, shown, editorVars>>

(***************************************************************************)
(* toggleHistory after its await: all but the version of its render, over  *)
(* whatever the panel shows by now.  A read that fails says so, and one    *)
(* that is lost says nothing.                                              *)
(***************************************************************************)
HistoryAnswers(r) ==
  /\ \E i \in DOMAIN gets[r] :
       /\ gets' = [gets EXCEPT ![r] = RemoveAt(@, i)]
       /\ \/ /\ gets[r][i].versions # 0
             /\ LET over == gets[r][i].over
                IN  ShowPanel(r, [state |-> "read", over |-> over,
                                  earlier |-> (1..gets[r][i].versions) \ {over}])
          \/ gets[r][i].versions = 0 /\ ShowPanel(r, [Closed EXCEPT !.state = "failed"])
          \/ gets[r][i].versions = 0 /\ UNCHANGED panel
  /\ UNCHANGED <<fieldVars, history, shown, editorVars>>

-----------------------------------------------------------------------------
(* Properties.                                                             *)

(***************************************************************************)
(* The revision carried through the form does its work as long as the row  *)
(* stays what it was when the form was opened: then no save replaces a     *)
(* version its author has not read, whoever saves in between.              *)
(***************************************************************************)
OverwriteNeedsRefresh ==
  \A r \in Row : \A n \in 2..Len(history[r]) :
    LET v == history[r][n]
    IN  v.seed = v.revision => v.seed = n - 1

(***************************************************************************)
(* The earlier looks are still there: the history of the version on screen *)
(* is every version behind it, whatever reads of it were under way when it *)
(* was opened and closed.  A re-read of the page under an open history     *)
(* ends that: the version that was on screen is then in neither.           *)
(***************************************************************************)
HistoryGapsNeedRefresh ==
  \A r \in Row : panel[r].state = "read" /\ panel[r].over = shown[r] =>
    {n \in panel[r].earlier : n <= shown[r]} = 1..(shown[r] - 1)
=============================================================================
