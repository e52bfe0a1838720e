--------------------------- MODULE MCAssetUpload ---------------------------
(* An instance of AssetUpload for TLC: two browser tabs of one member.     *)
EXTENDS AssetUpload, TLC

CONSTANTS tab1, tab2, home, photo, sketch, drawing, renamed, nothing, huge

Files == {drawing, renamed, nothing, huge}
Types == (drawing :> "png" @@ renamed :> "jpeg" @@ nothing :> None @@ huge :> "png")
Sizes == (drawing :> 2 @@ renamed :> 2 @@ nothing :> 0 @@ huge :> 3)
Declared == {[type |-> t, size |-> n] : t \in {"png", "jpeg"}, n \in 1..2}
Tabs == {tab1, tab2} \X {home}
TabsAndPhotos == Permutations({tab1, tab2}) \cup Permutations({photo, sketch})
=============================================================================
