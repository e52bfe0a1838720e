------------------------------ MODULE MCAssets ------------------------------
(* Instances of Assets for TLC.                                            *)
EXTENDS Assets, TLC

CONSTANTS ann, ben, wa, wb, photo, drawing, retouched, renamed, garbled

\* A drawing, the same drawing retouched, a photograph renamed to .png, and
\* bytes of no known type: all of one length.
Bodies == {drawing, retouched, renamed, garbled}
Types == (drawing :> "png" @@ retouched :> "png" @@ renamed :> "jpeg" @@ garbled :> None)
Sizes == [b \in Bodies |-> 2]
Declared == {[type |-> t, size |-> 2] : t \in {"png", "jpeg"}}

\* Two members of one workspace, one of whom has another workspace too.
OneShared == {<<ann, wa>>, <<ben, wa>>, <<ann, wb>>}
Alone == {ann} \X {wa}
=============================================================================
