----------------------------- MODULE ActionLedger -----------------------------
(***************************************************************************)
(* What the governed path promises to the operator who issues approvals    *)
(* and reads the audit log: an approval is used once, by a call it covers; *)
(* nothing consequential is carried out without one; a refusal costs none; *)
(* and a call has one entry at most, which says what became of it.         *)
(* Nothing is said of executors, brokers, policies or who is waiting.      *)
(***************************************************************************)
EXTENDS Sequences

CONSTANTS
  Calls,
  Consequential,  \* the calls that need an approval
  Approvals,
  Covers,         \* Covers[a]: the calls approval a may be used for
  Results         \* what may become of a call

\* Results of calls that were carried out, and of calls that were turned away.
Performed == {"ok", "error"}
Refused == {"unknown", "not_connected", "approval_required"}

VARIABLES
  issued,  \* the approvals that were issued
  used,    \* pairs of an approval and the call that used it
  acted,   \* the calls that were carried out
  ledger   \* the entries, in the order they were made

vars == <<issued, used, acted, ledger>>

Init == issued = {} /\ used = {} /\ acted = {} /\ ledger = <<>>

Paying(c) == \E a \in Approvals : <<a, c>> \in used

Entered(c) == \E i \in DOMAIN ledger : ledger[i].call = c

Issue(a) ==
  /\ a \notin issued
  /\ issued' = issued \cup {a}
  /\ UNCHANGED <<used, acted, ledger>>

Use(a, c) ==
  /\ a \in issued /\ \A d \in Calls : <<a, d>> \notin used
  /\ c \in Consequential \cap Covers[a]
  /\ ~Paying(c) /\ c \notin acted /\ ~Entered(c)
  /\ used' = used \cup {<<a, c>>}
  /\ UNCHANGED <<issued, acted, ledger>>

Act(c) ==
  /\ c \in Consequential => Paying(c)
  /\ c \notin acted /\ ~Entered(c)
  /\ acted' = acted \cup {c}
  /\ UNCHANGED <<issued, used, ledger>>

Enter(c, result) ==
  /\ ~Entered(c)
  /\ result \in Performed <=> c \in acted
  /\ result \in Refused => ~Paying(c)
  /\ result = "approval_required" => c \in Consequential
  /\ ledger' = Append(ledger, [call |-> c, outcome |-> result])
  /\ UNCHANGED <<issued, used, acted>>

Next ==
  \/ \E a \in Approvals : Issue(a)
  \/ \E a \in Approvals, c \in Calls : Use(a, c)
  \/ \E c \in Calls : Act(c)
  \/ \E c \in Calls, result \in Results : Enter(c, result)

Spec == Init /\ [][Next]_vars
=============================================================================
