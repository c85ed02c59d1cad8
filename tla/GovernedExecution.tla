-------------------------- MODULE GovernedExecution --------------------------
(***************************************************************************)
(* The governed path of a consequential action: tool calls through         *)
(* ToolExecutor (app/tools/executor.py) and capability calls through       *)
(* ConnectorBroker (app/integrations/broker.py).  Both ask the same        *)
(* ToolPolicy, which consumes a single-use approval, then act, then write  *)
(* an audit row and only then return.  Calls run concurrently; an action   *)
(* is the code between two awaits.  With the memory backend a process that *)
(* dies takes grants and rows along, so there its next start is Init.      *)
(***************************************************************************)
EXTENDS Naturals, Sequences, FiniteSets

CONSTANTS
  Calls,         \* the execute calls of executor and broker
  Names,         \* tool names and capability ids
  NameOf,        \* NameOf[c]: what call c asks for
  Gated,         \* the names whose risk is not READ
  Standing,      \* Standing[n]: what becomes of a call of n, see Standings
  Approvals,     \* ids of the approvals that may be issued
  ApprovedName,  \* ApprovedName[a]: the name approval a is issued for
  MaxEvents,     \* max_events in memory, LIMIT of the query in Postgres
  Backends,      \* which of the two stores there may be, see durable
  MaxAborts,     \* bound: calls that are cancelled or die
  NoApproval

\* A tool is unknown or ready.  A capability may also have no provider, an
\* unconfigured one, or a provider without this operation.
Standings == {"unknown", "no_provider", "not_connected", "unwired", "ready"}
Outcomes == {"unknown", "no_provider", "not_connected", "approval_required",
             "error", "ok"}

ASSUME GovernedAssumption ==
  /\ IsFiniteSet(Calls) /\ IsFiniteSet(Approvals)
  /\ NameOf \in [Calls -> Names]
  /\ Gated \subseteq Names
  /\ Standing \in [Names -> Standings]
  /\ ApprovedName \in [Approvals -> Names] /\ NoApproval \notin Approvals
  /\ MaxEvents \in Nat /\ MaxAborts \in Nat
  /\ Backends \subseteq BOOLEAN

VARIABLES
  grant,     \* grant[a]: unissued, live or consumed
  pc,        \* pc[c]: idle, authorize, invoke, acting, record, done or dead
  outcome,   \* outcome[c]: the result call c is about to record, or none
  events,    \* the audit rows the store holds
  recorded,  \* history: all audit rows ever written
  acted,     \* history: the calls whose handler or adapter was called
  paidBy,    \* history: paidBy[a]: the calls approval a was consumed for
  aborts,
  durable    \* grants and rows are in Postgres

vars == <<grant, pc, outcome, events, recorded, acted, paidBy, aborts, durable>>

AuditEvent == [call: Calls, outcome: Outcomes]

-----------------------------------------------------------------------------
(* The two stores *)

\* record: in memory only the newest max_events rows are kept.
Keep(rows) ==
  IF ~durable /\ Len(rows) > MaxEvents
  THEN SubSeq(rows, Len(rows) - MaxEvents + 1, Len(rows))
  ELSE rows

\* Mutant of Consumable: an approval serves whatever it is presented for.
MutAnyName(a, n) == a # NoApproval /\ grant[a] = "live"

Consumable(a, n) == a # NoApproval /\ grant[a] = "live" /\ ApprovedName[a] = n

-----------------------------------------------------------------------------
(* The steps *)

Init ==
  /\ grant = [a \in Approvals |-> "unissued"]
  /\ pc = [c \in Calls |-> "idle"]
  /\ outcome = [c \in Calls |-> "none"]
  /\ events = <<>> /\ recorded = <<>>
  /\ acted = {}
  /\ paidBy = [a \in Approvals |-> {}]
  /\ aborts = 0
  /\ durable \in Backends

Go(c, at) == pc' = [pc EXCEPT ![c] = at]

\* Call c goes on to record result o.
Conclude(c, o) ==
  /\ outcome' = [outcome EXCEPT ![c] = o]
  /\ Go(c, "record")

\* POST /approvals: an operator issues a grant for one known name.
Issue(a) ==
  /\ grant[a] = "unissued"
  /\ grant' = [grant EXCEPT ![a] = "live"]
  /\ UNCHANGED <<pc, outcome, events, recorded, acted, paidBy, aborts, durable>>

\* execute up to the policy: look the name up, pick a configured connector.
Begin(c) ==
  LET st == Standing[NameOf[c]]
  IN /\ pc[c] = "idle"
     /\ \/ /\ st \in {"unknown", "no_provider", "not_connected"}
           /\ Conclude(c, st)
        \/ /\ st \in {"unwired", "ready"}
           /\ Go(c, "authorize") /\ UNCHANGED outcome
     /\ UNCHANGED <<grant, events, recorded, acted, paidBy, aborts, durable>>

\* authorize: READ passes, the rest must consume approval a in one step.
Authorize(c, a) ==
  /\ pc[c] = "authorize"
  /\ \/ /\ NameOf[c] \notin Gated
        /\ Go(c, "invoke") /\ UNCHANGED <<grant, outcome, paidBy>>
     \/ /\ NameOf[c] \in Gated /\ Consumable(a, NameOf[c])
        /\ grant' = [grant EXCEPT ![a] = "consumed"]
        /\ paidBy' = [paidBy EXCEPT ![a] = @ \cup {c}]
        /\ Go(c, "invoke") /\ UNCHANGED outcome
     \/ /\ NameOf[c] \in Gated /\ ~Consumable(a, NameOf[c])
        /\ Conclude(c, "approval_required")
        /\ UNCHANGED <<grant, paidBy>>
  /\ UNCHANGED <<events, recorded, acted, aborts, durable>>

\* _invoke: a capability without an operation ends here, approval spent.
Invoke(c) ==
  /\ pc[c] = "invoke"
  /\ IF Standing[NameOf[c]] = "unwired"
     THEN Conclude(c, "no_provider") /\ UNCHANGED acted
     ELSE /\ acted' = acted \cup {c}
          /\ Go(c, "acting") /\ UNCHANGED outcome
  /\ UNCHANGED <<grant, events, recorded, paidBy, aborts, durable>>

\* Mutant of HandlerEnds: a failing handler is returned without an audit row.
MutFailUnaudited(c) ==
  /\ pc[c] = "acting"
  /\ \/ Conclude(c, "ok")
     \/ outcome' = [outcome EXCEPT ![c] = "error"] /\ Go(c, "done")
  /\ UNCHANGED <<grant, events, recorded, acted, paidBy, aborts, durable>>

\* The handler or adapter returns, or raises whatever Exception.
HandlerEnds(c) ==
  /\ pc[c] = "acting"
  /\ \E o \in {"ok", "error"} : Conclude(c, o)
  /\ UNCHANGED <<grant, events, recorded, acted, paidBy, aborts, durable>>

\* The audit log takes the row of call c.
WriteRow(c) ==
  LET e == [call |-> c, outcome |-> outcome[c]]
  IN /\ events' = Keep(Append(events, e))
     /\ recorded' = Append(recorded, e)

\* _audit, _record: write the row, then return the result.
Record(c) ==
  /\ pc[c] = "record"
  /\ WriteRow(c)
  /\ Go(c, "done")
  /\ UNCHANGED <<grant, outcome, acted, paidBy, aborts, durable>>

\* Call c is cancelled, its process dies, or a store raises: nothing in the
\* two execute functions catches that.  The INSERT that was under way may have
\* been committed all the same; in memory there is nothing to wait for.
Abort(c) ==
  /\ pc[c] \in {"authorize", "invoke", "acting", "record"}
  /\ aborts < MaxAborts
  /\ aborts' = aborts + 1
  /\ Go(c, "dead")
  /\ \/ UNCHANGED <<events, recorded>>
     \/ durable /\ pc[c] = "record" /\ WriteRow(c)
  /\ UNCHANGED <<grant, outcome, acted, paidBy, durable>>

\* All calls are over: the API waits for more.
Rest ==
  /\ \A c \in Calls : pc[c] \in {"done", "dead"}
  /\ UNCHANGED vars

Next ==
  \/ \E a \in Approvals : Issue(a)
  \/ \E c \in Calls, a \in Approvals \cup {NoApproval} : Authorize(c, a)
  \/ \E c \in Calls : \/ Begin(c) \/ Invoke(c) \/ HandlerEnds(c)
                      \/ Record(c) \/ Abort(c)
  \/ Rest

Spec == Init /\ [][Next]_vars

-----------------------------------------------------------------------------
(* Properties *)

\* What the variables range over; a recorded or returned call has a result.
TypeOK ==
  /\ grant \in [Approvals -> {"unissued", "live", "consumed"}]
  /\ pc \in [Calls -> {"idle", "authorize", "invoke", "acting", "record",
                       "done", "dead"}]
  /\ outcome \in [Calls -> Outcomes \cup {"none"}]
  /\ events \in Seq(AuditEvent)
  /\ recorded \in Seq(AuditEvent)
  /\ acted \subseteq Calls
  /\ paidBy \in [Approvals -> SUBSET Calls]
  /\ aborts \in Nat /\ durable \in BOOLEAN
  /\ \A c \in Calls : pc[c] \in {"record", "done"} => outcome[c] # "none"

\* Every consequential call that was carried out was paid for with an approval
\* of its own, issued for that very name, whichever of the two paths it took
\* and whatever presented the same approval at the same time.
PaidInFull ==
  /\ \A c \in acted :
       NameOf[c] \in Gated =>
         \E a \in Approvals : c \in paidBy[a] /\ ApprovedName[a] = NameOf[c]
  /\ \A a \in Approvals : Cardinality(paidBy[a]) <= 1

RowsOf(c) == {i \in 1..Len(recorded) : recorded[i].call = c}

\* A call that returned left exactly one audit row, with the result it returned,
\* refusals and handler failures included.  A call that was cut off left one at
\* most, with the result it was about to return, and only over Postgres; no other
\* call left any.
AnswerAudited ==
  \A c \in Calls :
    /\ pc[c] = "done" => RowsOf(c) # {}
    /\ \A i \in RowsOf(c) :
         /\ pc[c] = "done" \/ (durable /\ pc[c] = "dead")
         /\ RowsOf(c) = {i} /\ recorded[i].outcome = outcome[c]

\* A call acts or spends an approval unseen by the audit log only when it is
\* cut off, once for each call that is.
UnauditedBounded ==
  Cardinality({c \in Calls : /\ pc[c] \in {"done", "dead"}
                             /\ c \in acted \/ \E a \in Approvals : c \in paidBy[a]
                             /\ RowsOf(c) = {}}) <= aborts

=============================================================================
