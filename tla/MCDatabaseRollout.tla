-------------------------- MODULE MCDatabaseRollout --------------------------
(* Instances of DatabaseRollout for TLC. *)
EXTENDS DatabaseRollout, TLC

CONSTANTS web1, web2, stage, production, staging

\* Two deployments of production and one of staging with the wrong URL.
ThreeEnvs == (web1 :> production) @@ (web2 :> production) @@ (stage :> staging)

=============================================================================
