---------------------------- MODULE MCCharacters ----------------------------
(* Instances of Characters for TLC.                                        *)
EXTENDS Characters, TLC

CONSTANTS alice, bob, w1, w2, s1, s2, hero, front, drawn

\* Two members of one workspace, one of whom has another workspace too: they
\* race in the first, and the second is closed to the other.
OneShared == {<<alice, w1>>, <<bob, w1>>, <<alice, w2>>}
TwoSeries == (s1 :> w1 @@ s2 :> w2)

\* One image, which the characters of the second workspace may not pin.
OwnAssets == (front :> w1)
ImageOrNone == {<<>>, <<front>>}
=============================================================================
