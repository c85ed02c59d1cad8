------------------------ MODULE CheckpointRefinement ------------------------
(* The run store of WorkflowEngine, read as a CheckpointedRun. *)
EXTENDS WorkflowEngine

StoredStatus == IF store = NoRun THEN NoRun ELSE store.status
StoredSteps ==
  [s \in Steps |-> IF store = NoRun THEN "pending" ELSE store.steps[s].status]

Promise == INSTANCE CheckpointedRun
             WITH status <- StoredStatus, steps <- StoredSteps

\* With one engine call at a time, whatever crashes, the run store behaves as
\* the abstract run: every save of engine.py is a creation, a checkpoint, a
\* conclusion or a reopening (engine.py:51, 73, 156, 195, 200, 205).
ImplementsCheckpointedRun == Promise!Spec
=============================================================================
