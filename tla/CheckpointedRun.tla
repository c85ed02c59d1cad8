-------------------------- MODULE CheckpointedRun ---------------------------
(***************************************************************************)
(* What a workflow run promises to a client that only reads the run store  *)
(* and keeps one engine call in progress at a time: the step statuses of a *)
(* row only move forward along the dependency graph, a row that ended or   *)
(* paused says so truthfully, and only a resume reopens it.                *)
(***************************************************************************)
CONSTANTS Steps, Deps, NoRun

VARIABLES
  status,  \* the status of the row, or NoRun before there is one
  steps    \* steps[s]: the persisted status of step s

vars == <<status, steps>>

Settled == {"completed", "skipped"}
Outcome == {"completed", "failed", "waiting_approval", "running"}

Init == status = NoRun /\ steps = [s \in Steps |-> "pending"]

Create ==
  /\ status = NoRun
  /\ status' = "running"
  /\ UNCHANGED steps

\* A pending step ends up with the outcome of its execution, for which its
\* dependencies had to be settled, or is skipped.  No other step moves.
Advance(s) ==
  \/ steps'[s] = steps[s]
  \/ /\ steps[s] = "pending"
     /\ \/ steps'[s] = "skipped"
        \/ /\ steps'[s] \in Outcome
           /\ \A p \in Deps[s] : steps'[p] \in Settled

Moves == steps' \in [DOMAIN steps -> Outcome \cup {"pending", "skipped"}]
         /\ \A s \in Steps : Advance(s)

Checkpoint ==
  /\ status = "running"
  /\ Moves
  /\ status' = "running"

\* Only skips can be news when the run ends or pauses: the outcomes of a
\* batch were checkpointed before.
Conclude ==
  /\ status = "running"
  /\ Moves
  /\ \A s \in Steps : steps'[s] # steps[s] => steps'[s] = "skipped"
  /\ \/ /\ status' = "completed"
        /\ \A s \in Steps : steps'[s] \in Settled
     \/ /\ status' = "failed"
        /\ \E s \in Steps : steps'[s] \in {"failed", "running"}
     \/ /\ status' = "paused"
        /\ \E s \in Steps : steps'[s] = "waiting_approval"

\* A resume reopens the row, finished or not, and may wake waiting steps.
Reopen ==
  /\ status # NoRun
  /\ status' = "running"
  /\ steps' \in [Steps -> Outcome \cup {"pending", "skipped"}]
  /\ \A s \in Steps : steps'[s] # steps[s] =>
        steps[s] = "waiting_approval" /\ steps'[s] = "pending"

Next == Create \/ Checkpoint \/ Conclude \/ Reopen

Spec == Init /\ [][Next]_vars
=============================================================================
