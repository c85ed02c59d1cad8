-------------------------- MODULE MCWorkflowEngine --------------------------
(* Small definitions for WorkflowEngine and its refinement. *)
EXTENDS CheckpointRefinement, TLC

CONSTANTS sa, sb, sc, flag, g1, g2, write, delete, start, r1, r2

\* sa, then the gated sb, then sc.  The definition lists sc before sb, so the
\* pass visits a dependent before its dependency.  sa runs if sb's entry is
\* absent (a step it does not wait for), sb if the client's flag says so, sc if
\* sa's entry matches (a step that is not its direct dependency).
ChainSteps == {sa, sb, sc}
ChainDeps == sa :> {} @@ sb :> {sa} @@ sc :> {sb}
ChainOrder == sa :> 1 @@ sb :> 3 @@ sc :> 2
ChainRetries == sa :> 1 @@ sb :> 1 @@ sc :> 0
ChainKey == sa :> sb @@ sb :> flag @@ sc :> sa
ChainEquals == sa :> "none" @@ sb :> "match" @@ sc :> "match"

\* What the client sends: no entry for a step, one for sa, one for sb, both, or
\* a flag that keeps sb from running.
Flagged == [k \in ContextKeys |-> IF k = flag THEN "match" ELSE "none"]
ChainContexts ==
  {Flagged, [Flagged EXCEPT ![sa] = "match"], [Flagged EXCEPT ![sb] = "other"],
   [Flagged EXCEPT ![sa] = "match", ![sb] = "other"],
   [Flagged EXCEPT ![flag] = "none"]}
OneTool == [s \in Steps |-> write]
OneToolApproved == [g \in Approvals |-> write]

\* Two gated steps of one tool side by side and one step after both.
ForkSteps == {sa, sb, sc}
ForkDeps == sa :> {} @@ sb :> {} @@ sc :> {sa, sb}
ForkOrder == sa :> 1 @@ sb :> 2 @@ sc :> 3
ForkRetries == sa :> 1 @@ sb :> 0 @@ sc :> 0
NoKeys == [s \in Steps |-> NoKey]
AnyEquals == [s \in Steps |-> "none"]
EmptyContexts == {[k \in ContextKeys |-> "none"]}

=============================================================================
