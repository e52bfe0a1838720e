---------------------------- MODULE MCReadiness ----------------------------
(* Instances of Readiness for TLC.                                         *)
EXTENDS Readiness, TLC

CONSTANTS report, database, redis, storage

MCKindOf == database :> "postgres" @@ redis :> "redis" @@ storage :> "http"
=============================================================================
