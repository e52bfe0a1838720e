------------------------ MODULE ReferenceImageField ------------------------
(***************************************************************************)
(* The list of reference images a form holds while a character version is  *)
(* being written (apps/web/components/reference-image-field.tsx).  The     *)
(* host, a character's row or the create form, owns the list and decides   *)
(* when the field is on screen.  Previews and what a failed upload says    *)
(* are left out, and so is the confirmation of rights before the picker.   *)
(*                                                                         *)
(* A handler of a React component closes over the props of the render it   *)
(* was created in, so an upload keeps the list it was started on.          *)
(***************************************************************************)
EXTENDS Naturals, Sequences, SequencesExt

CONSTANTS
  Host,      \* the forms of a page that write a version
  Asset,
  MaxImages, \* CHARACTER_REFERENCE_IMAGE_MAX_COUNT
  Bounds,    \* the bounds to explore, each in behaviours of its own
  None       \* no call under way, nothing refused

\* How far the people at the page go: versions of a character, reads of its
\* history under way at once, characters created, and the files each form picks.
ASSUME FieldAssumption ==
  /\ MaxImages \in Nat \ {0}
  /\ Bounds \subseteq [versions : Nat \ {0}, fetches : Nat, characters : Nat,
                       files : [Host -> SUBSET Asset]]

VARIABLES
  bound,    \* the bounds of this behaviour
  images,   \* the list in the form
  uploads,  \* handleFileChange calls that await uploadAsset
  used,     \* assets that have been created
  meant,    \* what the author made of the list: given, uploaded, not removed
  crossed   \* what entered or left the list under an upload that does not know of it

fieldVars == <<bound, images, uploads, used, meant, crossed>>

SetImages(h, list) == images' = [images EXCEPT ![h] = list]

\* What changes under a running upload is recorded for the properties.
Cross(h, assets) == crossed' = [crossed EXCEPT ![h] = @ \cup assets]

\* The host starts the list over.
Reseed(h, list) ==
  /\ SetImages(h, list)
  /\ meant' = [meant EXCEPT ![h] = ToSet(list)]
  /\ IF uploads[h] = {} THEN crossed' = [crossed EXCEPT ![h] = {}]
                         ELSE Cross(h, ToSet(images[h]) \cup ToSet(list))

\* Leaving the screen, the field leaves its uploads running without it.
Unmount(h) ==
  uploads' = [uploads EXCEPT ![h] = {[u EXCEPT !.mounted = FALSE] : u \in @}]

-----------------------------------------------------------------------------
\* Mutant: the picker stays enabled while a file is being uploaded.
ChooseFile_WhileUploading(h) ==
  /\ Len(images[h]) < MaxImages
  /\ \E a \in bound.files[h] \ used :
       /\ uploads' = [uploads EXCEPT ![h] =
            @ \cup {[asset |-> a, images |-> images[h], mounted |-> TRUE]}]
       /\ used' = used \cup {a}
  /\ UNCHANGED <<bound, images, meant, crossed>>

\* handleFileChange up to its await: the picker is disabled while uploading.
ChooseFile(h) ==
  /\ ~\E u \in uploads[h] : u.mounted
  /\ Len(images[h]) < MaxImages
  /\ \E a \in bound.files[h] \ used :
       /\ uploads' = [uploads EXCEPT ![h] =
            @ \cup {[asset |-> a, images |-> images[h], mounted |-> TRUE]}]
       /\ used' = used \cup {a}
  /\ UNCHANGED <<bound, images, meant, crossed>>

\* There are two at once only if one outlived the field it was begun in.
OutlivedBeside(h, u) == uploads[h] # {u} /\ \E v \in uploads[h] : ~v.mounted

\* The upload produced an asset or failed; onChange sets the whole list.
UploadEnds(h) ==
  /\ \E u \in uploads[h] :
       /\ uploads' = [uploads EXCEPT ![h] = @ \ {u}]
       /\ \/ /\ SetImages(h, Append(u.images, u.asset))
             /\ meant' = [meant EXCEPT ![h] = @ \cup {u.asset}]
             /\ Cross(h, IF OutlivedBeside(h, u) THEN {u.asset} ELSE {})
          \/ UNCHANGED <<images, meant, crossed>>
  /\ UNCHANGED <<bound, used>>

\* images.filter, as a recursive function: the provers know nothing of SelectSeq.
Without(list, a) ==
  LET kept[n \in 0..Len(list)] ==
        IF n = 0 THEN <<>>
        ELSE IF list[n] = a THEN kept[n - 1] ELSE Append(kept[n - 1], list[n])
  IN  kept[Len(list)]

RemoveImage(h) ==
  /\ \E a \in ToSet(images[h]) :
       /\ SetImages(h, Without(images[h], a))
       /\ meant' = [meant EXCEPT ![h] = @ \ {a}]
       /\ Cross(h, IF uploads[h] = {} THEN {} ELSE {a})
  /\ UNCHANGED <<bound, uploads, used>>

-----------------------------------------------------------------------------
(***************************************************************************)
(* The list, which a version states in full, is image by image what its    *)
(* author made of it: what it was opened with or was uploaded into it, and *)
(* nothing that was removed.  An upload sets the list of the render it     *)
(* began in, so it undoes what happened to the list meanwhile.  It undoes  *)
(* nothing else, neither what was done before it nor what is done after,   *)
(* and never lists an image twice.                                         *)
(***************************************************************************)
ListIsDeliberate ==
  \A h \in Host :
    /\ ToSet(images[h]) \subseteq meant[h] \cup crossed[h]
    /\ meant[h] \subseteq ToSet(images[h]) \cup crossed[h]
    /\ IsInjective(images[h])
=============================================================================
