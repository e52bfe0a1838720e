------------------------ MODULE CharacterCreateForm ------------------------
(***************************************************************************)
(* The form that adds a character to a series                              *)
(* (apps/web/components/character-create-form.tsx).  It is always on       *)
(* screen, uploads reference images before it is submitted, and is emptied *)
(* for the next character by the answer to the last one.                   *)
(***************************************************************************)
EXTENDS ReferenceImageField

CONSTANT Form

\* None is no handleSubmit call.
ASSUME CreateFormAssumption ==
  /\ Form \subseteq Host
  /\ None \notin [state : {"sent", "written", "failed", "lost"},
                  images : Seq(Asset), crossed : SUBSET Asset]

VARIABLES
  created,  \* the characters each form created: the images they pin, what the form was told
  creating  \* the handleSubmit call that awaits the api

formVars == <<created, creating>>

\* The form's own state; its list of images starts empty.
FormInit ==
  /\ created = [f \in Form |-> <<>>]
  /\ creating = [f \in Form |-> None]

FormFieldStep(f) ==
  /\ ChooseFile(f) \/ RemoveImage(f) \/ UploadEnds(f)
  /\ UNCHANGED formVars

\* handleSubmit up to its await, with the list of its render.
CreateSubmit(f) ==
  /\ creating[f] = None
  /\ Len(created[f]) < bound.characters
  /\ creating' = [creating EXCEPT ![f] =
       [state |-> "sent", images |-> images[f], crossed |-> crossed[f]]]
  /\ UNCHANGED <<fieldVars, created>>

(***************************************************************************)
(* The api creates the character or does not.  The answer may be lost, and *)
(* it may be an error although the character is there: the urls of its     *)
(* images are signed after the commit, and the proxy answers for an api    *)
(* that died.                                                              *)
(***************************************************************************)
ServeCreate(f) ==
  /\ creating[f] # None /\ creating[f].state = "sent"
  /\ \/ \E s \in {"written", "failed", "lost"} :
          /\ creating' = [creating EXCEPT ![f].state = s]
          /\ created' = [created EXCEPT ![f] = Append(@,
               [images |-> creating[f].images, crossed |-> creating[f].crossed, told |-> s])]
     \/ \E s \in {"failed", "lost"} :
          /\ creating' = [creating EXCEPT ![f].state = s]
          /\ UNCHANGED created
  /\ UNCHANGED fieldVars

\* handleSubmit after its await; a failed attempt keeps everything, to be sent again.
CreateFailed(f) ==
  /\ creating[f] # None /\ creating[f].state = "failed"
  /\ creating' = [creating EXCEPT ![f] = None]
  /\ UNCHANGED <<fieldVars, created>>

\* Mutant: the fields are emptied and the images stay for the next character.
Created_KeepsImages(f) ==
  /\ creating[f] # None /\ creating[f].state = "written"
  /\ creating' = [creating EXCEPT ![f] = None]
  /\ UNCHANGED <<fieldVars, created>>

\* The form is emptied, and the page is re-read.
Created(f) ==
  /\ creating[f] # None /\ creating[f].state = "written"
  /\ creating' = [creating EXCEPT ![f] = None]
  /\ Reseed(f, <<>>)
  /\ UNCHANGED <<bound, uploads, used, created>>

-----------------------------------------------------------------------------
(* Properties.                                                             *)

(***************************************************************************)
(* No second character inherits the first one's photographs, which         *)
(* emptying the form is for.  There are two ways around that.  A character *)
(* that is created while the form is told it failed stays in the form, and *)
(* sending it again makes a twin of it, until the form is told of one.     *)
(* And an upload that was under way while the form was emptied sets the    *)
(* list it closed over, which brings back what was in the form then.       *)
(***************************************************************************)
InheritanceIsExplained ==
  \A f \in Form : \A i, j \in DOMAIN created[f] : i < j =>
    \/ \A n \in i..(j - 1) : created[f][n].told = "failed"
    \/ ToSet(created[f][i].images) \cap ToSet(created[f][j].images) \subseteq created[f][j].crossed
=============================================================================
