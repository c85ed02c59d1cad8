------------------------ MODULE MCIntegrationRuntime ------------------------
(* Instances of IntegrationRuntime for TLC. *)
EXTENDS KeyedRefinement, TLC

CONSTANTS q1, q2, q3, k1, pay, p1, p2

\* Two requests share a key, the third has none.
TwoKeyed == [r \in Requests |-> IF r = q3 THEN NoKey ELSE k1]
OneTarget == [r \in Requests |-> pay]
\* The balancer may part the two requests of the key.
SecondAnywhere == [r \in Requests |-> IF r = q2 THEN Procs ELSE {p1}]
RetryFirst == [r \in Requests |-> IF r = q1 THEN 1 ELSE 0]

=============================================================================
