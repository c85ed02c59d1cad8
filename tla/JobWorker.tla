------------------------------ MODULE JobWorker ------------------------------
(***************************************************************************)
(* The job queue (app/queue/base.py, app/queue/redis_queue.py) and the     *)
(* workers that serve it (app/queue/worker.py).  A queue is a sequence of  *)
(* jobs in the broker; a job carries its own attempts counter.  A worker   *)
(* pops a job before it handles it, so from then on the job lives only in  *)
(* the worker's memory: an action is the code between two awaits, and a    *)
(* worker may end at any await (cancellation, a process crash, or a broker *)
(* error that escapes run_forever).                                        *)
(***************************************************************************)
EXTENDS Naturals, Sequences, FiniteSets

CONSTANTS
  Jobs,        \* the jobs producers submit, each once
  Workers,     \* the JobWorker instances on this queue
  MaxRetries,  \* max_retries of the workers
  MaxFaults,   \* bound: how often a worker ends
  NoJob

ASSUME WorkerAssumption ==
  /\ IsFiniteSet(Jobs)
  /\ MaxRetries \in Nat
  /\ MaxFaults \in Nat

QueueJob == [id : Jobs, attempts : Nat]

ASSUME NoJobAssumption == NoJob \notin QueueJob

VARIABLES
  queue,   \* the broker's list queue_name
  dead,    \* the broker's list queue_name:dead-letter
  hand,    \* hand[w]: the job worker w holds, or NoJob
  pc,      \* pc[w]: idle, handling, backoff, burying or down
  phase,   \* phase[j]: new, sent or done
  runs,    \* history: how often the handler was started on job j
  faults   \* how many times a worker ended

vars == <<queue, dead, hand, pc, phase, runs, faults>>

WorkerState == {"idle", "handling", "backoff", "burying", "down"}

-----------------------------------------------------------------------------
(* The steps *)

Init ==
  /\ queue = <<>>
  /\ dead = <<>>
  /\ hand = [w \in Workers |-> NoJob]
  /\ pc = [w \in Workers |-> "idle"]
  /\ phase = [j \in Jobs |-> "new"]
  /\ runs = [j \in Jobs |-> 0]
  /\ faults = 0

\* enqueue: a producer appends a fresh job.
Submit(j) ==
  /\ phase[j] = "new"
  /\ phase' = [phase EXCEPT ![j] = "sent"]
  /\ queue' = Append(queue, [id |-> j, attempts |-> 0])
  /\ UNCHANGED <<dead, hand, pc, runs, faults>>

\* Mutant of Dequeue: the job is read but stays in the list.
MutPeek(w) ==
  /\ pc[w] = "idle" /\ queue # <<>>
  /\ hand' = [hand EXCEPT ![w] = Head(queue)]
  /\ pc' = [pc EXCEPT ![w] = "handling"]
  /\ runs' = [runs EXCEPT ![Head(queue).id] = @ + 1]
  /\ UNCHANGED <<queue, dead, phase, faults>>

\* process_one: pop the oldest job and start the handler on it.
Dequeue(w) ==
  /\ pc[w] = "idle" /\ queue # <<>>
  /\ hand' = [hand EXCEPT ![w] = Head(queue)]
  /\ queue' = Tail(queue)
  /\ pc' = [pc EXCEPT ![w] = "handling"]
  /\ runs' = [runs EXCEPT ![Head(queue).id] = @ + 1]
  /\ UNCHANGED <<dead, phase, faults>>

\* process_one on an empty queue: run_forever sleeps and polls again.
Poll(w) ==
  /\ pc[w] = "idle" /\ queue = <<>>
  /\ UNCHANGED vars

\* Worker w is through with its job and polls again.
LetGo(w) ==
  /\ hand' = [hand EXCEPT ![w] = NoJob]
  /\ pc' = [pc EXCEPT ![w] = "idle"]

HandlerReturns(w) ==
  /\ pc[w] = "handling"
  /\ phase' = [phase EXCEPT ![hand[w].id] = "done"]
  /\ LetGo(w)
  /\ UNCHANGED <<queue, dead, runs, faults>>

\* The n-th failure of a job still leaves a retry.
MayRetry(n) == n <= MaxRetries

\* The handler raised: count the attempt, then back off or give up.
HandlerRaises(w) ==
  /\ pc[w] = "handling"
  /\ hand' = [hand EXCEPT ![w].attempts = @ + 1]
  /\ pc' = [pc EXCEPT ![w] = IF MayRetry(hand[w].attempts + 1)
                             THEN "backoff" ELSE "burying"]
  /\ UNCHANGED <<queue, dead, phase, runs, faults>>

\* Mutant of Requeue: the backoff sleep is re-armed for ever.
MutSleepForever(w) ==
  /\ pc[w] = "backoff"
  /\ UNCHANGED vars

\* The backoff is over: the job goes to the tail of its queue.
Requeue(w) ==
  /\ pc[w] = "backoff"
  /\ queue' = Append(queue, hand[w])
  /\ LetGo(w)
  /\ UNCHANGED <<dead, phase, runs, faults>>

\* Mutant of Bury: an exhausted job is dropped.
MutDrop(w) ==
  /\ pc[w] = "burying"
  /\ LetGo(w)
  /\ UNCHANGED <<queue, dead, phase, runs, faults>>

\* The retries are used up: the job goes to the dead-letter list.
Bury(w) ==
  /\ pc[w] = "burying"
  /\ dead' = Append(dead, hand[w])
  /\ LetGo(w)
  /\ UNCHANGED <<queue, phase, runs, faults>>

\* Worker w ends: CancelledError is no Exception, and neither a broker error
\* nor a cancellation between pop and push is caught.  Its job goes with it.
End(w) ==
  /\ pc[w] # "down"
  /\ faults < MaxFaults
  /\ faults' = faults + 1
  /\ hand' = [hand EXCEPT ![w] = NoJob]
  /\ pc' = [pc EXCEPT ![w] = "down"]
  /\ UNCHANGED <<queue, dead, phase, runs>>

\* The supervisor starts the worker again.
Restart(w) ==
  /\ pc[w] = "down"
  /\ pc' = [pc EXCEPT ![w] = "idle"]
  /\ UNCHANGED <<queue, dead, hand, phase, runs, faults>>

Work(w) ==
  \/ Dequeue(w) \/ HandlerReturns(w) \/ HandlerRaises(w)
  \/ Requeue(w) \/ Bury(w) \/ Restart(w)

Next ==
  \/ \E j \in Jobs : Submit(j)
  \/ \E w \in Workers : Work(w) \/ End(w) \/ Poll(w)

Spec == Init /\ [][Next]_vars

\* The event loop resumes every coroutine that can go on, handlers and sleeps
\* come to an end, and the supervisor restarts a worker.  That the handler
\* ends is assumed: process_one puts no timeout on it.
FairSpec == Spec /\ \A w \in Workers : WF_vars(Work(w))

-----------------------------------------------------------------------------
(* Properties *)

Held(w) == pc[w] \in {"handling", "backoff", "burying"}

\* What every variable ranges over; a worker holds a job exactly while it
\* works on one.
TypeOK ==
  /\ queue \in Seq(QueueJob)
  /\ dead \in Seq(QueueJob)
  /\ hand \in [Workers -> QueueJob \cup {NoJob}]
  /\ pc \in [Workers -> WorkerState]
  /\ phase \in [Jobs -> {"new", "sent", "done"}]
  /\ runs \in [Jobs -> Nat]
  /\ faults \in Nat
  /\ \A w \in Workers : Held(w) <=> hand[w] # NoJob

Entries(q) == {q[i] : i \in 1..Len(q)}
Queued(j) == \E e \in Entries(queue) : e.id = j
Buried(j) == \E e \in Entries(dead) : e.id = j
InHand(j) == \E w \in Workers : Held(w) /\ hand[w].id = j

NoRepeat(q) ==
  \A i, k \in 1..Len(q) : q[i].id = q[k].id => i = k

\* A job is never in two places, however workers, retries and restarts
\* interleave: not twice in a list, not in two lists, not with two workers,
\* and nowhere once it was handled or before it was sent.
OnePlace ==
  /\ NoRepeat(queue)
  /\ NoRepeat(dead)
  /\ \A w, v \in Workers :
       Held(w) /\ Held(v) /\ hand[w].id = hand[v].id => w = v
  /\ \A j \in Jobs :
       /\ ~(Queued(j) /\ Buried(j))
       /\ ~(Queued(j) /\ InHand(j))
       /\ ~(Buried(j) /\ InHand(j))
       /\ phase[j] # "sent" => ~Queued(j) /\ ~Buried(j) /\ ~InHand(j)

\* The counter a job carries tells how often its handler was started, over
\* any number of hops between workers: nothing else keeps that number.
CounterHonest ==
  /\ \A e \in Entries(queue) : e.attempts = runs[e.id]
  /\ \A w \in Workers :
       Held(w) =>
         runs[hand[w].id] = hand[w].attempts
                            + (IF pc[w] = "handling" THEN 1 ELSE 0)

\* max_retries is exact for every job, whichever workers it met: the handler
\* starts at most max_retries + 1 times, and a job is dead-lettered only when
\* that many starts failed.
RetryBudget ==
  /\ \A j \in Jobs : runs[j] <= MaxRetries + 1
  /\ \A e \in Entries(dead) : runs[e.id] = MaxRetries + 1

Lost(j) == phase[j] = "sent" /\ ~Queued(j) /\ ~Buried(j) /\ ~InHand(j)

\* A worker that ends takes at most its one job with it, and only that loses
\* a job.
LossBounded == Cardinality({j \in Jobs : Lost(j)}) <= faults

\* Every submitted job is handled, dead-lettered, or lost with a worker.
EveryJobEnds ==
  \A j \in Jobs :
    phase[j] = "sent" ~> phase[j] = "done" \/ Buried(j) \/ Lost(j)

=============================================================================
