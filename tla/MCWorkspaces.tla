---------------------------- MODULE MCWorkspaces ----------------------------
(* Instances of SignIn and Workspaces for TLC.                             *)
EXTENDS SignIn

CONSTANTS ada, bo, r1, r2, h1, h2, h3, desk, phone

\* One creator at two places, or two creators.
OneOrTwo == {[t \in Tab |-> ada], [t \in Tab |-> IF t = desk THEN ada ELSE bo]}
=============================================================================
