--------------------------- MODULE MCIntegrationHub ---------------------------
(* Instances of IntegrationHub for TLC. *)
EXTENDS IntegrationHub, TLC

CONSTANTS slack, github, u1, u2, f1, f2, f3, t1, t2, m1, b1

\* slack is configured, github lacks its client secret.
HalfConfigured == (slack :> "both") @@ (github :> "id")
LastGithub == [f \in Callbacks |-> IF f = f3 THEN github ELSE slack]
OneEach == (t1 :> slack) @@ (t2 :> github)
\* The states and the callbacks of slack are interchangeable.
Alike == Permutations({u1, u2}) \cup Permutations({f1, f2})
OneServer == [b \in Probes |-> m1]

=============================================================================
