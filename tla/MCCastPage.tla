---------------------------- MODULE MCCastPage ----------------------------
(* Instances of CastPage for TLC.                                          *)
EXTENDS CastPage

CONSTANTS hero, form, front, back

Files(h, files) == [g \in Host |-> IF g = h THEN files ELSE {}]

MCBounds ==
  { \* images come and go in the editor of a row
    [versions |-> 2, fetches |-> 0, characters |-> 0, files |-> Files(hero, {front, back})],
    \* its history is opened and closed while versions are added
    [versions |-> 3, fetches |-> 2, characters |-> 0, files |-> Files(hero, {})],
    \* characters are created, with images
    [versions |-> 1, fetches |-> 0, characters |-> 2, files |-> Files(form, {front, back})],
    \* and once more after one that was created twice
    [versions |-> 1, fetches |-> 0, characters |-> 3, files |-> Files(form, {front})],
    \* a character is created while a row is being edited
    [versions |-> 3, fetches |-> 0, characters |-> 1, files |-> Files(form, {})] }
=============================================================================
