-------------------------- MODULE IntegrationRuntime --------------------------
(***************************************************************************)
(* The integration runtime (app/runtime/service.py) with its sliding       *)
(* window rate limiter, circuit breaker and execution store.  Requests     *)
(* arrive at one or several API processes.  The idempotency locks, the     *)
(* limiter and the breaker belong to a process; the execution rows are in  *)
(* that process too (memory backend) or in Postgres, where they outlive it *)
(* and a unique index guards the idempotency key.  A request creates at    *)
(* most one execution, so a request names its execution and its row.       *)
(***************************************************************************)
EXTENDS Naturals, Sequences, FiniteSets, FiniteSetsExt

CONSTANTS
  Requests,    \* the execute calls
  Keys,        \* idempotency keys
  KeyOf,       \* KeyOf[r]: the key of r, or NoKey
  Targets,     \* provider:workflow pairs, the keys of limiter and breaker
  TargetOf,    \* TargetOf[r]: the target of r
  Backends,    \* runtime_backend of the deployments considered
  Procs,       \* API processes
  Main,        \* the only process of a memory deployment
  Routes,      \* Routes[r]: the processes r may be routed to
  MaxRetries,  \* MaxRetries[r]: max_retries of r
  Limit, Window,        \* integration_rate_limit, integration_rate_window
  Threshold, Recovery,  \* circuit_failures, circuit_recovery_seconds
  MaxTime,     \* bound: the clock stops here
  MaxAborts,   \* bound: cancelled requests and process crashes together
  NoKey, NoRequest, NoRow, Never, Raised

ASSUME RuntimeAssumption ==
  /\ IsFiniteSet(Requests)
  /\ KeyOf \in [Requests -> Keys \cup {NoKey}] /\ NoKey \notin Keys
  /\ TargetOf \in [Requests -> Targets]
  /\ Backends \subseteq {"memory", "postgres"} /\ Main \in Procs
  /\ Routes \in [Requests -> SUBSET Procs]
  /\ MaxRetries \in [Requests -> Nat]
  /\ Limit \in Nat /\ Window \in Nat /\ Threshold \in Nat /\ Recovery \in Nat
  /\ MaxTime \in Nat /\ MaxAborts \in Nat
  /\ {NoRequest, Raised} \cap Requests = {} /\ NoRequest # Raised
  /\ Never \notin Nat

ExecutionStatus == {"pending", "running", "succeeded", "failed", "rejected"}
Terminal == {"succeeded", "failed", "rejected"}
RuntimeExecution == [status: ExecutionStatus, attempts: Nat]
CircuitState == [failures: Nat, opened: Nat \cup {Never}]

ASSUME NoRowAssumption == NoRow \notin RuntimeExecution

VARIABLES
  backend,  \* where the deployment keeps its rows
  known,    \* the targets whose provider the deployment has an adapter for
  home,     \* home[r]: the process r arrived at
  pc,       \* pc[r]: idle, waiting, admit, save, saveraise, calling, backoff, done
  exec,     \* exec[r]: the execution object of r in memory
  row,      \* row[r]: the stored execution of r, or NoRow
  index,    \* index[k]: the request whose row is found under key k
  window,   \* window[p][t]: admission times the limiter of p keeps for t
  breaker,  \* breaker[p][t]: the circuit of t in p
  now,      \* time.monotonic()
  answer,   \* answer[r]: whose execution r returned, or Raised
  admitted, \* history: when the limiter of its living process admitted r
  aborts

vars == <<backend, known, home, pc, exec, row, index, window, breaker, now,
          answer, admitted, aborts>>

Closed == [failures |-> 0, opened |-> Never]

-----------------------------------------------------------------------------
(* Keys and locks *)

SameKey(r, o) == KeyOf[r] # NoKey /\ KeyOf[r] = KeyOf[o]

\* The requests between acquiring and releasing the lock of their key.
Locked == {r \in Requests :
             KeyOf[r] # NoKey /\ pc[r] \notin {"idle", "waiting", "done"}}

LockFree(r) ==
  \A o \in Locked : SameKey(r, o) /\ home[o] = home[r] => o = r

\* Mutant of Replayable: no earlier execution is replayed.
MutReplayNone(o) == FALSE

\* by_idempotency_key: only a succeeded execution is replayed.
Replayable(o) == o # NoRequest /\ row[o].status = "succeeded"

-----------------------------------------------------------------------------
(* Rate limiter and circuit breaker *)

\* Mutant of Fresh: the window is a tick too short.
MutShortWindow(at) == at + Window > now + 1

\* An admission after the cutoff still counts.
Fresh(at) == at + Window > now

\* allow: what is left once the events before the first fresh one are popped.
Recent(p, t) ==
  LET events == window[p][t]
      fresh == {i \in 1..Len(events) : Fresh(events[i])}
  IN IF fresh = {} THEN <<>> ELSE SubSeq(events, Min(fresh), Len(events))

HasRoom(p, t) == Len(Recent(p, t)) < Limit

\* failure: count it, and (re)open the circuit from the threshold on.
Tripped(c) ==
  [failures |-> c.failures + 1,
   opened |-> IF c.failures + 1 >= Threshold THEN now ELSE c.opened]

LetsThrough(c) == c.opened # Never => now >= c.opened + Recovery

\* allow: a circuit that has waited out the recovery time is forgotten.
Probed(c) == IF c.opened = Never THEN c ELSE Closed

-----------------------------------------------------------------------------
(* The steps of a request *)

Init ==
  /\ backend \in Backends
  /\ known \in SUBSET Targets
  /\ home = [r \in Requests |-> Main]
  /\ pc = [r \in Requests |-> "idle"]
  /\ exec = [r \in Requests |-> [status |-> "pending", attempts |-> 0]]
  /\ row = [r \in Requests |-> NoRow]
  /\ index = [k \in Keys |-> NoRequest]
  /\ window = [p \in Procs |-> [t \in Targets |-> <<>>]]
  /\ breaker = [p \in Procs |-> [t \in Targets |-> Closed]]
  /\ now = 0
  /\ answer = [r \in Requests |-> NoRequest]
  /\ admitted = [r \in Requests |-> Never]
  /\ aborts = 0

\* A memory deployment has one process, one over Postgres any number.
Deployed(p) == backend = "memory" => p = Main

Go(r, at) == pc' = [pc EXCEPT ![r] = at]

Reply(r, a) == Go(r, "done") /\ answer' = [answer EXCEPT ![r] = a]

\* execute: without a key the lock and the lookup are skipped.
Enter(r, p) ==
  /\ pc[r] = "idle"
  /\ Deployed(p) /\ (backend = "postgres" => p \in Routes[r])
  /\ home' = [home EXCEPT ![r] = p]
  /\ Go(r, IF KeyOf[r] = NoKey THEN "admit" ELSE "waiting")
  /\ UNCHANGED <<backend, known, exec, row, index, window, breaker, now,
                 answer, admitted, aborts>>

\* Mutant of Lookup: a request that raised never releases its lock.
MutLockLeaks(r) ==
  /\ pc[r] = "waiting" /\ LockFree(r)
  /\ \/ /\ \E o \in Requests : SameKey(r, o) /\ answer[o] = Raised
        /\ UNCHANGED vars
     \/ /\ \A o \in Requests : SameKey(r, o) => answer[o] # Raised
        /\ Go(r, "admit")
        /\ UNCHANGED <<backend, known, home, exec, row, index, window,
                       breaker, now, answer, admitted, aborts>>

\* _execute_locked: under the lock of the key, look for an earlier execution.
Lookup(r) ==
  /\ pc[r] = "waiting" /\ LockFree(r)
  /\ IF Replayable(index[KeyOf[r]])
     THEN Reply(r, index[KeyOf[r]])
     ELSE Go(r, "admit") /\ UNCHANGED answer
  /\ UNCHANGED <<backend, known, home, exec, row, index, window, breaker, now,
                 admitted, aborts>>

\* The status the admission gives r, to be saved next.
Settle(r, status) ==
  /\ exec' = [exec EXCEPT ![r].status = status]
  /\ Go(r, "save")

\* Ask the limiter, then the breaker, then the registry: no await between.
Admit(r) ==
  LET p == home[r]
      t == TargetOf[r]
      c == breaker[p][t]
  IN /\ pc[r] = "admit"
     /\ \/ /\ ~HasRoom(p, t)
           /\ window' = [window EXCEPT ![p][t] = Recent(p, t)]
           /\ Settle(r, "rejected")
           /\ UNCHANGED <<breaker, admitted>>
        \/ /\ HasRoom(p, t)
           /\ window' = [window EXCEPT ![p][t] = Append(Recent(p, t), now)]
           /\ admitted' = [admitted EXCEPT ![r] = now]
           /\ \/ ~LetsThrough(c) /\ Settle(r, "rejected") /\ UNCHANGED breaker
              \/ /\ LetsThrough(c)
                 /\ breaker' = [breaker EXCEPT ![p][t] = Probed(c)]
                 /\ Settle(r, IF t \in known THEN "running" ELSE "failed")
     /\ UNCHANGED <<backend, known, home, row, index, now, answer, aborts>>

\* Mutant of Conflict: the index does not guard the key.
MutNoIndex(r) == FALSE

\* The unique index on idempotency_key refuses a second row for the key.
Conflict(r) ==
  /\ backend = "postgres" /\ KeyOf[r] # NoKey
  /\ index[KeyOf[r]] \notin {NoRequest, r}

Write(r) ==
  /\ row' = [row EXCEPT ![r] = exec[r]]
  /\ index' = [k \in Keys |-> IF k = KeyOf[r] THEN r ELSE index[k]]

\* store.save: a refused row raises, a running one goes on to the first
\* attempt, a terminal one is returned, or re-raised after a cancellation.
Save(r) ==
  /\ pc[r] \in {"save", "saveraise"}
  /\ IF Conflict(r)
     THEN Reply(r, Raised) /\ UNCHANGED <<exec, row, index>>
     ELSE /\ Write(r)
          /\ IF exec[r].status = "running"
             THEN /\ exec' = [exec EXCEPT ![r].attempts = 1]
                  /\ Go(r, "calling") /\ UNCHANGED answer
             ELSE /\ Reply(r, IF pc[r] = "save" THEN r ELSE Raised)
                  /\ UNCHANGED exec
  /\ UNCHANGED <<backend, known, home, window, breaker, now, admitted,
                 aborts>>

\* Mutant of CallSucceeds: the execution is returned before it is saved.
MutReturnFirst(r) ==
  /\ pc[r] = "calling"
  /\ exec' = [exec EXCEPT ![r].status = "succeeded"]
  /\ Reply(r, r)
  /\ breaker' = [breaker EXCEPT ![home[r]][TargetOf[r]] = Closed]
  /\ UNCHANGED <<backend, known, home, row, index, window, now, admitted,
                 aborts>>

\* The adapter returns success: close the circuit and save.
CallSucceeds(r) ==
  /\ pc[r] = "calling"
  /\ Settle(r, "succeeded")
  /\ breaker' = [breaker EXCEPT ![home[r]][TargetOf[r]] = Closed]
  /\ UNCHANGED <<backend, known, home, row, index, window, now, answer,
                 admitted, aborts>>

\* Mutant of CallFails: the breaker hears of every failed attempt.
MutEveryAttempt(r) ==
  /\ pc[r] = "calling"
  /\ IF exec[r].attempts <= MaxRetries[r]
     THEN Go(r, "backoff") /\ UNCHANGED exec
     ELSE Settle(r, "failed")
  /\ breaker' = [breaker EXCEPT ![home[r]][TargetOf[r]] = Tripped(@)]
  /\ UNCHANGED <<backend, known, home, row, index, window, now, answer,
                 admitted, aborts>>

\* The adapter reports a failure, raises or runs into the timeout: back off
\* while attempts are left, else fail and tell the breaker.
CallFails(r) ==
  /\ pc[r] = "calling"
  /\ IF exec[r].attempts <= MaxRetries[r]
     THEN Go(r, "backoff") /\ UNCHANGED <<exec, breaker>>
     ELSE /\ Settle(r, "failed")
          /\ breaker' = [breaker EXCEPT ![home[r]][TargetOf[r]] = Tripped(@)]
  /\ UNCHANGED <<backend, known, home, row, index, window, now, answer,
                 admitted, aborts>>

Retry(r) ==
  /\ pc[r] = "backoff"
  /\ exec' = [exec EXCEPT ![r].attempts = @ + 1]
  /\ Go(r, "calling")
  /\ UNCHANGED <<backend, known, home, row, index, window, breaker, now,
                 answer, admitted, aborts>>

-----------------------------------------------------------------------------
(* Cancellation, crashes and time *)

\* The task of r is cancelled at an await: only the adapter call records it,
\* everywhere else it just unwinds; a save may have taken effect before.
Cancel(r) ==
  /\ aborts < MaxAborts
  /\ aborts' = aborts + 1
  /\ \/ /\ pc[r] = "calling"
        /\ exec' = [exec EXCEPT ![r].status = "failed"]
        /\ Go(r, "saveraise")
        /\ UNCHANGED <<row, index, answer>>
     \/ /\ pc[r] \in {"waiting", "admit", "save", "saveraise", "backoff"}
        /\ Reply(r, Raised)
        /\ UNCHANGED <<exec, row, index>>
     \/ /\ pc[r] \in {"save", "saveraise"} /\ ~Conflict(r)
        /\ Write(r)
        /\ Reply(r, Raised)
        /\ UNCHANGED exec
  /\ UNCHANGED <<backend, known, home, window, breaker, now, admitted>>

\* Process p dies and is started again: its requests, limiter, breaker and
\* locks are gone, and with the memory backend the executions too.
Crash(p) ==
  LET inside == {r \in Requests : home[r] = p /\ pc[r] \notin {"idle", "done"}}
  IN /\ Deployed(p) /\ aborts < MaxAborts
     /\ aborts' = aborts + 1
     /\ pc' = [r \in Requests |-> IF r \in inside THEN "done" ELSE pc[r]]
     /\ answer' = [r \in Requests |-> IF r \in inside THEN Raised ELSE answer[r]]
     /\ window' = [window EXCEPT ![p] = [t \in Targets |-> <<>>]]
     /\ breaker' = [breaker EXCEPT ![p] = [t \in Targets |-> Closed]]
     /\ admitted' = [r \in Requests |-> IF home[r] = p THEN Never ELSE admitted[r]]
     /\ row' = [r \in Requests |-> IF backend = "postgres" THEN row[r] ELSE NoRow]
     /\ index' = [k \in Keys |-> IF backend = "postgres" THEN index[k] ELSE NoRequest]
     /\ UNCHANGED <<backend, known, home, exec, now>>

Tick ==
  /\ now < MaxTime
  /\ now' = now + 1
  /\ UNCHANGED <<backend, known, home, pc, exec, row, index, window, breaker,
                 answer, admitted, aborts>>

\* All requests are answered: the process waits for more.
Rest ==
  /\ \A r \in Requests : pc[r] = "done"
  /\ UNCHANGED vars

Step(r) == \/ Lookup(r) \/ Admit(r) \/ Save(r)
           \/ CallSucceeds(r) \/ CallFails(r) \/ Retry(r)

Next ==
  \/ \E r \in Requests, p \in Procs : Enter(r, p)
  \/ \E r \in Requests : Step(r) \/ Cancel(r)
  \/ \E p \in Procs : Crash(p)
  \/ Tick \/ Rest

Spec == Init /\ [][Next]_vars

\* The event loop resumes every request that can go on, wait_for ends every
\* adapter call, a sleep ends, and asyncio.Lock wakes its waiters in turn.
FairSpec == Spec /\ \A r \in Requests : WF_vars(Step(r))

-----------------------------------------------------------------------------
(* Properties *)

\* What the variables range over; only a request that came to the end has an
\* answer.
TypeOK ==
  /\ backend \in Backends /\ known \subseteq Targets
  /\ home \in [Requests -> Procs]
  /\ pc \in [Requests -> {"idle", "waiting", "admit", "save", "saveraise",
                          "calling", "backoff", "done"}]
  /\ exec \in [Requests -> RuntimeExecution]
  /\ row \in [Requests -> RuntimeExecution \cup {NoRow}]
  /\ index \in [Keys -> Requests \cup {NoRequest}]
  /\ window \in [Procs -> [Targets -> Seq(Nat)]]
  /\ breaker \in [Procs -> [Targets -> CircuitState]]
  /\ now \in Nat
  /\ answer \in [Requests -> Requests \cup {NoRequest, Raised}]
  /\ admitted \in [Requests -> Nat \cup {Never}]
  /\ aborts \in Nat
  /\ \A r \in Requests : answer[r] # NoRequest <=> pc[r] = "done"

InCall(r) == pc[r] \in {"calling", "backoff"}

\* Two executions under one idempotency key are never under way together: the
\* lock sees to it within a process, the unique index between processes.
SameKeyExclusive ==
  \A r, o \in Requests : SameKey(r, o) /\ InCall(r) /\ InCall(o) => r = o

\* Once an execution under a key is stored as succeeded, the provider is not
\* called for that key again, by whichever process.
NoCallOnceSucceeded ==
  [][\A r, o \in Requests :
       /\ SameKey(r, o) /\ row[o] # NoRow /\ row[o].status = "succeeded"
       /\ pc'[r] = "calling"
       => pc[r] = "calling"]_vars

\* In whatever window of the given length, the limiter of a process admitted
\* at most Limit executions of a target.
WindowBound ==
  \A p \in Procs, t \in Targets, end \in 0..now :
    Cardinality({r \in Requests :
      /\ home[r] = p /\ TargetOf[r] = t /\ admitted[r] # Never
      /\ admitted[r] <= end /\ end < admitted[r] + Window}) <= Limit

\* The executions of t that p gave up after their last attempt.
Exhausted(p, t) ==
  {r \in Requests : /\ home[r] = p /\ TargetOf[r] = t
                    /\ exec[r].status = "failed"
                    /\ exec[r].attempts = MaxRetries[r] + 1}

\* A circuit counts only executions that used up their attempts, never a
\* rejected, cancelled or unroutable one, and opens on Threshold of them.
BreakerEarned ==
  \A p \in Procs, t \in Targets :
    LET c == breaker[p][t]
    IN /\ c.failures <= Cardinality(Exhausted(p, t))
       /\ c.opened # Never => c.failures >= Threshold

\* The executions stored in their final state.
Final == {o \in Requests : /\ row[o] # NoRow /\ row[o] = exec[o]
                           /\ row[o].status \in Terminal}

\* An execution that is returned is stored in its final state by then, and one
\* returned for an earlier request has succeeded under the same key.  With
\* Postgres it then stays as it was returned, through crashes too.
AnswerStored ==
  [][\A r \in Requests :
       /\ answer'[r] \in Requests /\ answer[r] = NoRequest =>
            /\ answer'[r] \in Final'
            /\ answer'[r] # r => /\ SameKey(r, answer'[r])
                                /\ row'[answer'[r]].status = "succeeded"
       /\ answer[r] \in Requests /\ backend = "postgres" =>
            row'[answer[r]] = row[answer[r]]]_<<answer, row>>

\* Every request that enters is answered: no lock is left behind, whatever is
\* cancelled and whichever process dies.
RequestsEnd ==
  \A r \in Requests : pc[r] # "idle" ~> pc[r] = "done"

=============================================================================
