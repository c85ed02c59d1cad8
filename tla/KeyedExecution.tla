--------------------------- MODULE KeyedExecution ---------------------------
(***************************************************************************)
(* What the integration runtime promises to those who send requests under  *)
(* idempotency keys, and to whoever reads the execution store: a key leads *)
(* to one execution at a time, the provider is called for no other, a      *)
(* success is for good as long as the store keeps it, and every answer is  *)
(* a stored execution.  Nothing is said of locks, processes or limits.     *)
(***************************************************************************)
EXTENDS Naturals

CONSTANTS Requests, Keys, KeyOf, MaxRetries, NoKey, NoRequest, NoRow, Raised

VARIABLES
  durable,  \* whether executions outlive the process that stored them
  calls,    \* calls[r]: how often the provider was called for r
  row,      \* row[r]: the stored execution of r, or NoRow
  index,    \* index[k]: the execution the key k leads to, or NoRequest
  answer    \* answer[r]: whose execution r got, Raised, or NoRequest so far

vars == <<durable, calls, row, index, answer>>

Init ==
  /\ durable \in BOOLEAN
  /\ calls = [r \in Requests |-> 0]
  /\ row = [r \in Requests |-> NoRow]
  /\ index = [k \in Keys |-> NoRequest]
  /\ answer = [r \in Requests |-> NoRequest]

Unanswered == {r \in Requests : answer[r] = NoRequest}

\* Nothing under way or successful is found under the key, and nothing at all
\* if executions are kept for good.
Available(r) ==
  KeyOf[r] # NoKey =>
    LET o == index[KeyOf[r]]
    IN o # NoRequest => ~durable /\ o \notin Unanswered /\ row[o].status # "succeeded"

\* The key of r leads to its execution.
Holds(r) == KeyOf[r] # NoKey => index[KeyOf[r]] = r

Store(r, status) ==
  /\ row' = [row EXCEPT ![r] = [status |-> status, attempts |-> calls[r]]]
  /\ index' = [k \in Keys |-> IF k = KeyOf[r] THEN r ELSE index[k]]

Answer(r, a) == answer' = [answer EXCEPT ![r] = a]

\* An execution is stored as running and the provider is called for it, unless
\* the request is cancelled on the way.
Begin(r) ==
  /\ r \in Unanswered /\ row[r] = NoRow /\ calls[r] = 0
  /\ Available(r)
  /\ Store(r, "running")
  /\ \/ calls' = [calls EXCEPT ![r] = 1] /\ UNCHANGED answer
     \/ Answer(r, Raised) /\ UNCHANGED calls
  /\ UNCHANGED durable

\* The provider is called again.
CallAgain(r) ==
  /\ r \in Unanswered /\ row[r] # NoRow /\ row[r].status = "running"
  /\ Holds(r)
  /\ calls[r] \in 1..MaxRetries[r]
  /\ calls' = [calls EXCEPT ![r] = @ + 1]
  /\ UNCHANGED <<durable, row, index, answer>>

\* The execution is stored as it ended, and returned.
End(r) ==
  /\ r \in Unanswered /\ row[r] # NoRow /\ row[r].status = "running"
  /\ Holds(r)
  /\ calls[r] \in 1..(MaxRetries[r] + 1)
  /\ \E status \in {"succeeded", "failed"} : Store(r, status)
  /\ \E a \in {r, Raised} : Answer(r, a)
  /\ UNCHANGED <<durable, calls>>

\* A request that the provider is not called for is stored as such.
TurnAway(r) ==
  /\ r \in Unanswered /\ row[r] = NoRow /\ calls[r] = 0
  /\ Available(r)
  /\ \E status \in {"rejected", "failed"} : Store(r, status)
  /\ \E a \in {r, Raised} : Answer(r, a)
  /\ UNCHANGED <<durable, calls>>

\* The success that the key leads to is returned again.
Replay(r) ==
  /\ r \in Unanswered /\ row[r] = NoRow
  /\ KeyOf[r] # NoKey /\ index[KeyOf[r]] # NoRequest
  /\ row[index[KeyOf[r]]].status = "succeeded"
  /\ Answer(r, index[KeyOf[r]])
  /\ UNCHANGED <<durable, calls, row, index>>

\* Requests end without an answer, and what a store in memory holds is lost with
\* whatever is under way.
Lose(lost) ==
  /\ lost \subseteq Unanswered
  /\ answer' = [r \in Requests |-> IF r \in lost THEN Raised ELSE answer[r]]
  /\ \/ UNCHANGED <<row, index>>
     \/ /\ ~durable
        /\ \A r \in Unanswered : row[r] # NoRow => r \in lost
        /\ row' = [r \in Requests |-> NoRow]
        /\ index' = [k \in Keys |-> NoRequest]
  /\ UNCHANGED <<durable, calls>>

Next ==
  \/ \E r \in Requests : Begin(r) \/ CallAgain(r) \/ End(r) \/ TurnAway(r) \/ Replay(r)
  \/ \E lost \in SUBSET Requests : Lose(lost)

Spec == Init /\ [][Next]_vars
=============================================================================
