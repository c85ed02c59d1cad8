---------------------------- MODULE MCJobWorker ----------------------------
(* Instances of JobWorker, and of what it implements, for TLC. *)
EXTENDS JobRefinement, TLC

CONSTANTS j1, j2, j3, w1, w2

=============================================================================
