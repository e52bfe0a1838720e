---------------------------- MODULE MCMigrations ----------------------------
(* Instances of Migrations for TLC.                                        *)
EXTENDS Migrations, TLC

CONSTANTS m1, m2, m3, m4, old, new, branch, edited

File(v, c) == [version |-> v, content |-> c]

AuthThenCore == <<"auth", "core">>

\* Two releases in a row, one from a branch that skipped a number of theirs,
\* and one that edited a file after it had been released.
Releases ==
  old :> [auth |-> {File(1, "user")}, core |-> {File(1, "workspace")}] @@
  new :> [auth |-> {File(1, "user"), File(2, "passkey")},
          core |-> {File(1, "workspace"), File(2, "series")}] @@
  branch :> [auth |-> {File(1, "user")},
             core |-> {File(1, "workspace"), File(3, "asset")}] @@
  edited :> [auth |-> {File(1, "user")}, core |-> {File(1, "workspace, again")}]

FourReplicas == m1 :> old @@ m2 :> new @@ m3 :> branch @@ m4 :> edited
=============================================================================
