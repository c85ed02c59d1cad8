--------------------------- MODULE MCWorkflowEditor ---------------------------
(* Instances of WorkflowEditor for TLC. *)
EXTENDS WorkflowEditor, TLC

CONSTANTS s1, s2, s3

\* Numbers in the API's bounds and beyond them, and a name that is missing.
TypedNumbers == {NewNumbers, [NewNumbers EXCEPT !.max_retries = 11]}

\* Two steps besides the first, which the dialog numbers by default, are alike.
AlikeSteps == Permutations({s2, s3})

=============================================================================
