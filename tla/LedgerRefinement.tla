--------------------------- MODULE LedgerRefinement ---------------------------
(* Grants and audit rows of GovernedExecution, read as ActionLedger. *)
EXTENDS GovernedExecution

Issued == {a \in Approvals : grant[a] # "unissued"}
Used == {p \in Approvals \X Calls : p[2] \in paidBy[p[1]]}

GatedCalls == {c \in Calls : NameOf[c] \in Gated}
MeantFor == [a \in Approvals |-> {c \in Calls : NameOf[c] = ApprovedName[a]}]

Ledger == INSTANCE ActionLedger WITH
  Consequential <- GatedCalls, Covers <- MeantFor, Results <- Outcomes,
  issued <- Issued, used <- Used, ledger <- recorded

\* Whatever interleaves and whatever is cut off between consuming, acting and
\* recording, on either path: approvals are used once and for what they were
\* issued, refusals leave them, and every row tells what was done
\* (policy.py:20-45, executor.py:27-75, broker.py:145-287).
ImplementsActionLedger == Ledger!Spec
=============================================================================
