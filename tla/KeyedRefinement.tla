-------------------------- MODULE KeyedRefinement ---------------------------
(* The execution store of IntegrationRuntime, read as KeyedExecution. *)
EXTENDS IntegrationRuntime

Outlives == backend = "postgres"
Attempts == [r \in Requests |-> exec[r].attempts]

Keyed == INSTANCE KeyedExecution WITH durable <- Outlives, calls <- Attempts

\* Whatever interleaves, is cancelled or dies, in one process or several, the
\* saves and answers of service.py:31-114 are those of executions that take
\* their keys one after the other.
ImplementsKeyedExecution == Keyed!Spec
=============================================================================
