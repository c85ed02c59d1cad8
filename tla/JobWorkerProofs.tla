--------------------------- MODULE JobWorkerProofs ---------------------------
(***************************************************************************)
(* What holds of the job workers for every set of jobs, every number of    *)
(* workers, every max_retries and any number of worker ends.  The argument *)
(* rests on OnePlace: a job is served by one worker at a time, so the      *)
(* counter it carries is the only one there is, and nobody else moves it.  *)
(***************************************************************************)
EXTENDS JobRefinement, FiniteSetTheorems, TLAPS

-----------------------------------------------------------------------------
(* Lists *)

\* Appending to a list adds one entry and repeats none that was absent.
LEMMA AppendFacts ==
  ASSUME NEW q \in Seq(QueueJob), NEW e \in QueueJob
  PROVE  /\ Append(q, e) \in Seq(QueueJob)
         /\ Entries(Append(q, e)) = Entries(q) \cup {e}
         /\ NoRepeat(q) /\ (\A x \in Entries(q) : x.id # e.id)
              => NoRepeat(Append(q, e))
<1> DEFINE r == Append(q, e)
<1>1. /\ r \in Seq(QueueJob)
      /\ Len(r) = Len(q) + 1
      /\ Len(q) \in Nat
      /\ \A i \in 1..Len(q) : r[i] = q[i]
      /\ r[Len(q) + 1] = e
  OBVIOUS
<1> HIDE DEF r
<1>2. Entries(r) = Entries(q) \cup {e}
  <2>1. ASSUME NEW x \in Entries(r) PROVE x \in Entries(q) \cup {e}
    BY <1>1, <2>1, SMT DEF Entries
  <2>2. ASSUME NEW x \in Entries(q) PROVE x \in Entries(r)
    <3>1. PICK i \in 1..Len(q) : x = q[i]
      BY <2>2 DEF Entries
    <3>2. i \in 1..Len(r) /\ r[i] = x
      BY <1>1, <3>1
    <3> QED BY <3>2 DEF Entries
  <2>3. e \in Entries(r)
    <3>1. Len(q) + 1 \in 1..Len(r)
      BY <1>1
    <3> QED BY <1>1, <3>1 DEF Entries
  <2> QED BY <2>1, <2>2, <2>3
<1>3. ASSUME NoRepeat(q), \A x \in Entries(q) : x.id # e.id
      PROVE  NoRepeat(r)
  <2> SUFFICES ASSUME NEW i \in 1..Len(r), NEW k \in 1..Len(r),
                      r[i].id = r[k].id
               PROVE  i = k
    BY DEF NoRepeat
  <2>1. \A n \in 1..Len(q) : q[n] \in Entries(q)
    BY DEF Entries
  <2>2. CASE i \in 1..Len(q) /\ k \in 1..Len(q)
    BY <1>1, <1>3, <2>2 DEF NoRepeat
  <2>3. CASE i \in 1..Len(q) /\ k = Len(q) + 1
    BY <1>1, <1>3, <2>1, <2>3
  <2>4. CASE i = Len(q) + 1 /\ k \in 1..Len(q)
    BY <1>1, <1>3, <2>1, <2>4
  <2>5. CASE i = Len(q) + 1 /\ k = Len(q) + 1
    BY <2>5
  <2> QED BY <1>1, <2>2, <2>3, <2>4, <2>5
<1> QED BY <1>1, <1>2, <1>3 DEF r

\* Popping the head leaves the other entries, and not that job again.
LEMMA TailFacts ==
  ASSUME NEW q \in Seq(QueueJob), q # <<>>
  PROVE  /\ Head(q) \in QueueJob /\ Tail(q) \in Seq(QueueJob)
         /\ Head(q) \in Entries(q)
         /\ Entries(Tail(q)) \subseteq Entries(q)
         /\ NoRepeat(q) => /\ NoRepeat(Tail(q))
                           /\ \A x \in Entries(Tail(q)) : x.id # Head(q).id
<1> DEFINE r == Tail(q)
<1>1. /\ r \in Seq(QueueJob)
      /\ Head(q) = q[1] /\ Head(q) \in QueueJob
      /\ Len(q) \in Nat /\ Len(q) >= 1
      /\ Len(r) = Len(q) - 1
      /\ \A i \in 1..Len(r) : r[i] = q[i + 1]
  OBVIOUS
<1> HIDE DEF r
<1>2. Head(q) \in Entries(q)
  <2>1. 1 \in 1..Len(q)
    BY <1>1
  <2> QED BY <1>1, <2>1 DEF Entries
<1>3. \A i \in 1..Len(r) : i + 1 \in 1..Len(q) /\ r[i] = q[i + 1]
  BY <1>1
<1>4. Entries(r) \subseteq Entries(q)
  BY <1>3 DEF Entries
<1>5. ASSUME NoRepeat(q) PROVE NoRepeat(r)
  <2> SUFFICES ASSUME NEW i \in 1..Len(r), NEW k \in 1..Len(r),
                      r[i].id = r[k].id
               PROVE  i = k
    BY DEF NoRepeat
  <2>1. i + 1 = k + 1
    BY <1>3, <1>5 DEF NoRepeat
  <2> QED BY <2>1
<1>6. ASSUME NoRepeat(q), NEW x \in Entries(r) PROVE x.id # Head(q).id
  <2>1. PICK i \in 1..Len(r) : x = r[i]
    BY <1>6 DEF Entries
  <2>2. 1 \in 1..Len(q) /\ i + 1 \in 1..Len(q) /\ i + 1 # 1 /\ x = q[i + 1]
    BY <1>1, <1>3, <2>1
  <2> QED BY <1>1, <1>6, <2>2 DEF NoRepeat
<1> QED BY <1>1, <1>2, <1>4, <1>5, <1>6 DEF r

-----------------------------------------------------------------------------
(* The invariant *)

\* The counters where they may stand: below the limit on every path that
\* leads back to a handler, one past it on the way to the dead-letter list.
InRange ==
  /\ \A e \in Entries(queue) : e.attempts <= MaxRetries
  /\ \A w \in Workers :
       /\ pc[w] \in {"handling", "backoff"} => hand[w].attempts <= MaxRetries
       /\ pc[w] = "burying" => hand[w].attempts = MaxRetries + 1
  /\ \A j \in Jobs : phase[j] = "new" => runs[j] = 0

IInv == TypeOK /\ OnePlace /\ CounterHonest /\ RetryBudget /\ InRange

LEMMA EntriesTyped ==
  ASSUME NEW q \in Seq(QueueJob)
  PROVE  Entries(q) \subseteq QueueJob
BY DEF Entries

LEMMA InitIInv == Init => IInv
<1> SUFFICES ASSUME Init PROVE IInv
  OBVIOUS
<1> USE DEF Init
<1>1. Entries(queue) = {} /\ Entries(dead) = {}
  BY DEF Entries
<1>2. TypeOK
  BY DEF TypeOK, WorkerState, Held
<1>3. OnePlace
  BY <1>1 DEF OnePlace, NoRepeat, Held, Queued, Buried, InHand
<1>4. CounterHonest /\ RetryBudget /\ InRange
  BY <1>1, WorkerAssumption DEF CounterHonest, RetryBudget, InRange, Held
<1> QED BY <1>2, <1>3, <1>4 DEF IInv

LEMMA SubmitIInv ==
  ASSUME IInv, NEW j \in Jobs, Submit(j)
  PROVE  IInv'
<1> DEFINE e == [id |-> j, attempts |-> 0]
<1> USE DEF IInv, Submit
<1>1. e \in QueueJob /\ e.id = j /\ e.attempts = 0
  BY DEF QueueJob
<1>2. queue \in Seq(QueueJob) /\ queue' = Append(queue, e)
  BY DEF TypeOK
<1> HIDE DEF e
<1>3. ~Queued(j) /\ ~Buried(j) /\ ~InHand(j)
  BY DEF OnePlace
<1>4. /\ queue' \in Seq(QueueJob)
      /\ Entries(queue') = Entries(queue) \cup {e}
      /\ NoRepeat(queue')
  BY <1>1, <1>2, <1>3, AppendFacts DEF OnePlace, Queued
<1>5. TypeOK'
  BY <1>4 DEF TypeOK, Held
<1>6. /\ \A k \in Jobs : Queued(k)' <=> Queued(k) \/ k = j
      /\ \A k \in Jobs : (Buried(k)' <=> Buried(k)) /\ (InHand(k)' <=> InHand(k))
      /\ \A k \in Jobs : phase'[k] = IF k = j THEN "sent" ELSE phase[k]
  BY <1>1, <1>4 DEF Queued, Buried, InHand, Held, TypeOK
<1>7. OnePlace'
  BY <1>3, <1>4, <1>6 DEF OnePlace, Held
<1>8. CounterHonest' /\ RetryBudget'
  <2>1. runs[j] = 0
    BY DEF InRange
  <2> QED BY <1>1, <1>4, <2>1 DEF CounterHonest, RetryBudget, Held
<1>9. InRange'
  BY <1>1, <1>4, <1>6, WorkerAssumption DEF InRange
<1> QED BY <1>5, <1>7, <1>8, <1>9

LEMMA DequeueIInv ==
  ASSUME IInv, NEW w \in Workers, Dequeue(w)
  PROVE  IInv'
<1> DEFINE e == Head(queue)
<1> USE DEF IInv
<1>1. /\ e \in QueueJob /\ queue' \in Seq(QueueJob)
      /\ e \in Entries(queue)
      /\ Entries(queue') \subseteq Entries(queue)
      /\ NoRepeat(queue')
      /\ \A x \in Entries(queue') : x.id # e.id
  BY TailFacts DEF Dequeue, TypeOK, OnePlace
<1>2. e.id \in Jobs /\ e.attempts \in Nat /\ e # NoJob
  BY <1>1, NoJobAssumption DEF QueueJob
<1>3. /\ pc[w] = "idle" /\ hand[w] = NoJob
      /\ hand' = [hand EXCEPT ![w] = e]
      /\ pc' = [pc EXCEPT ![w] = "handling"]
      /\ runs' = [runs EXCEPT ![e.id] = @ + 1]
      /\ UNCHANGED <<dead, phase, faults>>
  BY DEF Dequeue, TypeOK, Held
<1>4. Queued(e.id) /\ ~Buried(e.id) /\ ~InHand(e.id) /\ phase[e.id] = "sent"
  BY <1>1, <1>2 DEF OnePlace, Queued
<1>5. runs[e.id] = e.attempts /\ e.attempts <= MaxRetries
  BY <1>1 DEF CounterHonest, InRange
<1> HIDE DEF e
<1>6. /\ pc' \in [Workers -> WorkerState] /\ hand' \in [Workers -> QueueJob \cup {NoJob}]
      /\ runs' \in [Jobs -> Nat]
      /\ hand'[w] = e /\ pc'[w] = "handling" /\ Held(w)'
      /\ \A v \in Workers \ {w} : /\ hand'[v] = hand[v] /\ pc'[v] = pc[v]
                                  /\ Held(v)' <=> Held(v)
  BY <1>1, <1>2, <1>3 DEF TypeOK, WorkerState, Held
<1>7. TypeOK'
  BY <1>1, <1>2, <1>3, <1>6 DEF TypeOK
<1>8. \A v \in Workers \ {w} : Held(v) => hand[v].id # e.id
  BY <1>2, <1>4 DEF InHand
<1>9. \A j \in Jobs : /\ Queued(j)' => Queued(j) /\ j # e.id
                      /\ Buried(j)' <=> Buried(j)
                      /\ InHand(j)' => InHand(j) \/ j = e.id
  BY <1>1, <1>3, <1>6 DEF Queued, Buried, InHand
<1>10. OnePlace'
  <2>1. \A v, u \in Workers :
          Held(v)' /\ Held(u)' /\ hand'[v].id = hand'[u].id => v = u
    BY <1>6, <1>8 DEF OnePlace
  <2>2. NoRepeat(queue)' /\ NoRepeat(dead)'
    BY <1>1, <1>3 DEF OnePlace
  <2>3. \A j \in Jobs :
         /\ ~(Queued(j)' /\ Buried(j)')
         /\ ~(Queued(j)' /\ InHand(j)')
         /\ ~(Buried(j)' /\ InHand(j)')
         /\ phase'[j] # "sent" => ~Queued(j)' /\ ~Buried(j)' /\ ~InHand(j)'
    BY <1>3, <1>4, <1>9 DEF OnePlace
  <2> QED BY <2>1, <2>2, <2>3 DEF OnePlace
<1>11. /\ runs'[e.id] = e.attempts + 1
       /\ \A j \in Jobs : j # e.id => runs'[j] = runs[j]
  BY <1>2, <1>3, <1>5 DEF TypeOK
<1>12. \A x \in Entries(queue') : x \in QueueJob /\ runs'[x.id] = runs[x.id]
  BY <1>1, <1>11, EntriesTyped DEF QueueJob
<1>13. \A x \in Entries(dead) : x \in QueueJob /\ runs'[x.id] = runs[x.id]
  <2>1. \A x \in Entries(dead) : x \in QueueJob /\ x.id # e.id
    BY <1>2, <1>4, EntriesTyped DEF Buried, TypeOK
  <2> QED BY <2>1, <1>11 DEF QueueJob
<1>14. \A v \in Workers \ {w} : Held(v) => runs'[hand[v].id] = runs[hand[v].id]
  BY <1>8, <1>11 DEF TypeOK, QueueJob
<1>15. CounterHonest'
  BY <1>1, <1>6, <1>11, <1>12, <1>14 DEF CounterHonest
<1>16. RetryBudget'
  BY <1>2, <1>3, <1>5, <1>11, <1>13, WorkerAssumption DEF RetryBudget
<1>17. InRange'
  BY <1>1, <1>3, <1>4, <1>5, <1>6, <1>11 DEF InRange
<1> QED BY <1>7, <1>10, <1>15, <1>16, <1>17

\* A worker that works on a job: what the invariant says of that job.
LEMMA HeldFacts ==
  ASSUME IInv, NEW w \in Workers, Held(w)
  PROVE  /\ hand[w] \in QueueJob /\ hand[w].id \in Jobs /\ hand[w].attempts \in Nat
         /\ hand[w] # NoJob
         /\ phase[hand[w].id] = "sent"
         /\ ~Queued(hand[w].id) /\ ~Buried(hand[w].id)
         /\ \A v \in Workers \ {w} : Held(v) => hand[v].id # hand[w].id
<1>1. hand[w] \in QueueJob /\ hand[w].id \in Jobs /\ hand[w].attempts \in Nat
  BY DEF IInv, TypeOK, QueueJob
<1>2. InHand(hand[w].id)
  BY DEF InHand
<1> QED BY <1>1, <1>2, NoJobAssumption DEF IInv, OnePlace

\* A worker that lets its job go holds nothing, and nobody else notices.
LEMMA LetGoFacts ==
  ASSUME IInv, NEW w \in Workers, NEW at \in {"idle", "down"},
         hand' = [hand EXCEPT ![w] = NoJob], pc' = [pc EXCEPT ![w] = at]
  PROVE  /\ pc' \in [Workers -> WorkerState]
         /\ hand' \in [Workers -> QueueJob \cup {NoJob}]
         /\ hand'[w] = NoJob /\ pc'[w] = at /\ ~Held(w)'
         /\ \A v \in Workers \ {w} : /\ hand'[v] = hand[v] /\ pc'[v] = pc[v]
                                     /\ Held(v)' <=> Held(v)
BY DEF IInv, TypeOK, WorkerState, Held

LEMMA HandlerReturnsIInv ==
  ASSUME IInv, NEW w \in Workers, HandlerReturns(w)
  PROVE  IInv'
<1> DEFINE id == hand[w].id
<1>1. Held(w) /\ hand' = [hand EXCEPT ![w] = NoJob] /\ pc' = [pc EXCEPT ![w] = "idle"]
  BY DEF HandlerReturns, LetGo, Held
<1>2. /\ id \in Jobs /\ ~Queued(id) /\ ~Buried(id)
      /\ \A v \in Workers \ {w} : Held(v) => hand[v].id # id
  BY <1>1, HeldFacts
<1>3. phase' = [phase EXCEPT ![id] = "done"] /\ UNCHANGED <<queue, dead, runs, faults>>
  BY DEF HandlerReturns
<1>4. /\ pc' \in [Workers -> WorkerState] /\ hand' \in [Workers -> QueueJob \cup {NoJob}]
      /\ hand'[w] = NoJob /\ pc'[w] = "idle" /\ ~Held(w)'
      /\ \A v \in Workers \ {w} : /\ hand'[v] = hand[v] /\ pc'[v] = pc[v]
                                  /\ Held(v)' <=> Held(v)
  BY <1>1, LetGoFacts, Zenon
<1> HIDE DEF id
<1> USE DEF IInv
<1>5. phase' \in [Jobs -> {"new", "sent", "done"}] /\ phase'[id] = "done"
      /\ \A j \in Jobs : j # id => phase'[j] = phase[j]
  BY <1>2, <1>3 DEF TypeOK
<1>6. TypeOK'
  BY <1>3, <1>4, <1>5 DEF TypeOK
<1>7. \A j \in Jobs : /\ Queued(j)' <=> Queued(j)
                      /\ Buried(j)' <=> Buried(j)
                      /\ InHand(j)' => InHand(j) /\ j # id
  BY <1>2, <1>3, <1>4 DEF Queued, Buried, InHand
<1>8. OnePlace'
  BY <1>2, <1>3, <1>4, <1>5, <1>7 DEF OnePlace
<1>9. CounterHonest' /\ RetryBudget' /\ InRange'
  BY <1>3, <1>4, <1>5 DEF CounterHonest, RetryBudget, InRange
<1> QED BY <1>6, <1>8, <1>9

LEMMA HandlerRaisesIInv ==
  ASSUME IInv, NEW w \in Workers, HandlerRaises(w)
  PROVE  IInv'
<1> DEFINE n == hand[w].attempts
           f == [hand[w] EXCEPT !.attempts = @ + 1]
           at == IF MayRetry(n + 1) THEN "backoff" ELSE "burying"
<1>1. Held(w) /\ pc[w] = "handling"
  BY DEF HandlerRaises, Held
<1>2. hand[w] \in QueueJob /\ n \in Nat
  BY <1>1, HeldFacts
<1>3. f \in QueueJob /\ f.id = hand[w].id /\ f.attempts = n + 1 /\ f # NoJob
  BY <1>2, NoJobAssumption DEF QueueJob
<1>4. /\ hand' = [hand EXCEPT ![w] = f] /\ pc' = [pc EXCEPT ![w] = at]
      /\ UNCHANGED <<queue, dead, phase, runs, faults>>
  BY DEF HandlerRaises
<1>5. n <= MaxRetries /\ runs[hand[w].id] = n + 1
  BY <1>1, <1>2 DEF IInv, InRange, CounterHonest
<1>6. at \in {"backoff", "burying"} /\ (at = "backoff" => n + 1 <= MaxRetries)
      /\ (at = "burying" => n + 1 = MaxRetries + 1)
  BY <1>2, <1>5, WorkerAssumption DEF MayRetry
<1> HIDE DEF n, f, at
<1> USE DEF IInv
<1>7. /\ pc' \in [Workers -> WorkerState] /\ hand' \in [Workers -> QueueJob \cup {NoJob}]
      /\ hand'[w] = f /\ pc'[w] = at /\ Held(w)'
      /\ \A v \in Workers \ {w} : hand'[v] = hand[v] /\ pc'[v] = pc[v]
      /\ \A v \in Workers : hand'[v].id = hand[v].id /\ (Held(v)' <=> Held(v))
  BY <1>1, <1>3, <1>4, <1>6 DEF TypeOK, WorkerState, Held
<1>8. TypeOK'
  BY <1>1, <1>3, <1>4, <1>7 DEF TypeOK
<1>9. \A j \in Jobs : /\ Queued(j)' <=> Queued(j)
                      /\ Buried(j)' <=> Buried(j)
                      /\ InHand(j)' <=> InHand(j)
  BY <1>4, <1>7 DEF Queued, Buried, InHand
<1>10. OnePlace'
  BY <1>4, <1>7, <1>9 DEF OnePlace
<1>11. CounterHonest'
  <2>1. runs'[hand'[w].id] = hand'[w].attempts /\ pc'[w] # "handling"
    BY <1>3, <1>4, <1>5, <1>6, <1>7
  <2>2. hand'[w].attempts \in Nat
    BY <1>3, <1>7 DEF QueueJob
  <2>3. \A e \in Entries(queue') : e.attempts = runs'[e.id]
    BY <1>4 DEF CounterHonest
  <2>4. \A v \in Workers \ {w} : Held(v)' =>
          runs'[hand'[v].id] = hand'[v].attempts
                               + (IF pc'[v] = "handling" THEN 1 ELSE 0)
    BY <1>4, <1>7 DEF CounterHonest
  <2> QED BY <2>1, <2>2, <2>3, <2>4 DEF CounterHonest
<1>12. RetryBudget' /\ InRange'
  BY <1>3, <1>4, <1>6, <1>7 DEF RetryBudget, InRange
<1> QED BY <1>8, <1>10, <1>11, <1>12

LEMMA RequeueIInv ==
  ASSUME IInv, NEW w \in Workers, Requeue(w)
  PROVE  IInv'
<1> DEFINE e == hand[w]
<1>1. Held(w) /\ hand' = [hand EXCEPT ![w] = NoJob] /\ pc' = [pc EXCEPT ![w] = "idle"]
  BY DEF Requeue, LetGo, Held
<1>2. /\ e \in QueueJob /\ e.id \in Jobs /\ phase[e.id] = "sent"
      /\ ~Queued(e.id) /\ ~Buried(e.id)
      /\ \A v \in Workers \ {w} : Held(v) => hand[v].id # e.id
  BY <1>1, HeldFacts
<1>3. /\ queue' = Append(queue, e) /\ UNCHANGED <<dead, phase, runs, faults>>
      /\ e.attempts <= MaxRetries /\ runs[e.id] = e.attempts
  <2>1. pc[w] = "backoff"
    BY DEF Requeue
  <2>2. e.attempts <= MaxRetries
    BY <2>1 DEF IInv, InRange
  <2>3. runs[e.id] = e.attempts
    BY <1>1, <1>2, <2>1 DEF IInv, CounterHonest, QueueJob
  <2> QED BY <2>2, <2>3 DEF Requeue
<1>4. /\ pc' \in [Workers -> WorkerState] /\ hand' \in [Workers -> QueueJob \cup {NoJob}]
      /\ hand'[w] = NoJob /\ pc'[w] = "idle" /\ ~Held(w)'
      /\ \A v \in Workers \ {w} : /\ hand'[v] = hand[v] /\ pc'[v] = pc[v]
                                  /\ Held(v)' <=> Held(v)
  BY <1>1, LetGoFacts, Zenon
<1> HIDE DEF e
<1> USE DEF IInv
<1>5. /\ queue' \in Seq(QueueJob)
      /\ Entries(queue') = Entries(queue) \cup {e}
      /\ NoRepeat(queue')
  BY <1>2, <1>3, AppendFacts DEF OnePlace, Queued, TypeOK
<1>6. TypeOK'
  BY <1>3, <1>4, <1>5 DEF TypeOK
<1>7. \A j \in Jobs : /\ Queued(j)' <=> Queued(j) \/ j = e.id
                      /\ Buried(j)' <=> Buried(j)
                      /\ InHand(j)' => InHand(j) /\ j # e.id
  BY <1>2, <1>3, <1>4, <1>5 DEF Queued, Buried, InHand
<1>8. OnePlace'
  BY <1>2, <1>3, <1>4, <1>5, <1>7 DEF OnePlace
<1>9. CounterHonest' /\ RetryBudget' /\ InRange'
  BY <1>3, <1>4, <1>5 DEF CounterHonest, RetryBudget, InRange
<1> QED BY <1>6, <1>8, <1>9

LEMMA BuryIInv ==
  ASSUME IInv, NEW w \in Workers, Bury(w)
  PROVE  IInv'
<1> DEFINE e == hand[w]
<1>1. Held(w) /\ hand' = [hand EXCEPT ![w] = NoJob] /\ pc' = [pc EXCEPT ![w] = "idle"]
  BY DEF Bury, LetGo, Held
<1>2. /\ e \in QueueJob /\ e.id \in Jobs /\ phase[e.id] = "sent"
      /\ ~Queued(e.id) /\ ~Buried(e.id)
      /\ \A v \in Workers \ {w} : Held(v) => hand[v].id # e.id
  BY <1>1, HeldFacts
<1>3. /\ dead' = Append(dead, e) /\ UNCHANGED <<queue, phase, runs, faults>>
      /\ runs[e.id] = MaxRetries + 1
  <2>1. pc[w] = "burying"
    BY DEF Bury
  <2>2. e.attempts = MaxRetries + 1
    BY <2>1 DEF IInv, InRange
  <2>3. runs[e.id] = e.attempts
    BY <1>1, <1>2, <2>1 DEF IInv, CounterHonest, QueueJob
  <2> QED BY <2>2, <2>3 DEF Bury
<1>4. /\ pc' \in [Workers -> WorkerState] /\ hand' \in [Workers -> QueueJob \cup {NoJob}]
      /\ hand'[w] = NoJob /\ pc'[w] = "idle" /\ ~Held(w)'
      /\ \A v \in Workers \ {w} : /\ hand'[v] = hand[v] /\ pc'[v] = pc[v]
                                  /\ Held(v)' <=> Held(v)
  BY <1>1, LetGoFacts, Zenon
<1> HIDE DEF e
<1> USE DEF IInv
<1>5. /\ dead' \in Seq(QueueJob)
      /\ Entries(dead') = Entries(dead) \cup {e}
      /\ NoRepeat(dead')
  BY <1>2, <1>3, AppendFacts DEF OnePlace, Buried, TypeOK
<1>6. TypeOK'
  BY <1>3, <1>4, <1>5 DEF TypeOK
<1>7. \A j \in Jobs : /\ Queued(j)' <=> Queued(j)
                      /\ Buried(j)' <=> Buried(j) \/ j = e.id
                      /\ InHand(j)' => InHand(j) /\ j # e.id
  BY <1>2, <1>3, <1>4, <1>5 DEF Queued, Buried, InHand
<1>8. OnePlace'
  BY <1>2, <1>3, <1>4, <1>5, <1>7 DEF OnePlace
<1>9. CounterHonest' /\ RetryBudget' /\ InRange'
  BY <1>3, <1>4, <1>5 DEF CounterHonest, RetryBudget, InRange
<1> QED BY <1>6, <1>8, <1>9

LEMMA EndIInv ==
  ASSUME IInv, NEW w \in Workers, End(w)
  PROVE  IInv'
<1>1. /\ pc' \in [Workers -> WorkerState] /\ hand' \in [Workers -> QueueJob \cup {NoJob}]
      /\ hand'[w] = NoJob /\ pc'[w] = "down" /\ ~Held(w)'
      /\ \A v \in Workers \ {w} : /\ hand'[v] = hand[v] /\ pc'[v] = pc[v]
                                  /\ Held(v)' <=> Held(v)
  <2>1. hand' = [hand EXCEPT ![w] = NoJob] /\ pc' = [pc EXCEPT ![w] = "down"]
    BY DEF End
  <2> QED BY <2>1, LetGoFacts, Zenon
<1>2. faults' = faults + 1 /\ UNCHANGED <<queue, dead, phase, runs>>
  BY DEF End
<1> USE DEF IInv
<1>3. TypeOK'
  BY <1>1, <1>2 DEF TypeOK
<1>4. \A j \in Jobs : /\ Queued(j)' <=> Queued(j)
                      /\ Buried(j)' <=> Buried(j)
                      /\ InHand(j)' => InHand(j)
  BY <1>1, <1>2 DEF Queued, Buried, InHand
<1>5. OnePlace'
  BY <1>1, <1>2, <1>4 DEF OnePlace
<1>6. CounterHonest' /\ RetryBudget' /\ InRange'
  BY <1>1, <1>2 DEF CounterHonest, RetryBudget, InRange
<1> QED BY <1>3, <1>5, <1>6

LEMMA RestartIInv ==
  ASSUME IInv, NEW w \in Workers, Restart(w)
  PROVE  IInv'
<1>1. hand[w] = NoJob /\ ~Held(w)
  BY DEF Restart, IInv, TypeOK, Held
<1>2. /\ pc' \in [Workers -> WorkerState] /\ pc'[w] = "idle" /\ ~Held(w)'
      /\ \A v \in Workers \ {w} : pc'[v] = pc[v]
      /\ \A v \in Workers : Held(v)' <=> Held(v)
      /\ UNCHANGED <<queue, dead, hand, phase, runs, faults>>
  BY <1>1 DEF Restart, IInv, TypeOK, WorkerState, Held
<1>3. \A j \in Jobs : /\ Queued(j)' <=> Queued(j)
                      /\ Buried(j)' <=> Buried(j)
                      /\ InHand(j)' <=> InHand(j)
  BY <1>2 DEF Queued, Buried, InHand
<1> USE DEF IInv
<1>4. TypeOK' /\ OnePlace'
  BY <1>2, <1>3 DEF TypeOK, OnePlace
<1>5. CounterHonest' /\ RetryBudget' /\ InRange'
  BY <1>2 DEF CounterHonest, RetryBudget, InRange
<1> QED BY <1>4, <1>5

LEMMA StepIInv == IInv /\ [Next]_vars => IInv'
<1> SUFFICES ASSUME IInv, [Next]_vars PROVE IInv'
  OBVIOUS
<1>1. ASSUME NEW j \in Jobs, Submit(j) PROVE IInv'
  BY <1>1, SubmitIInv
<1>2. ASSUME NEW w \in Workers, Work(w) PROVE IInv'
  BY <1>2, DequeueIInv, HandlerReturnsIInv, HandlerRaisesIInv, RequeueIInv,
     BuryIInv, RestartIInv DEF Work
<1>3. ASSUME NEW w \in Workers, End(w) PROVE IInv'
  BY <1>3, EndIInv
<1>4. CASE UNCHANGED vars
  BY <1>4 DEF vars, IInv, TypeOK, OnePlace, CounterHonest, RetryBudget, InRange,
     Held, Queued, Buried, InHand
<1> QED BY <1>1, <1>2, <1>3, <1>4 DEF Next, Poll

LEMMA IInvHolds == Spec => []IInv
BY InitIInv, StepIInv, PTL DEF Spec

-----------------------------------------------------------------------------
(* Losses *)

LostJobs == {j \in Jobs : Lost(j)}

\* Only the end of a worker adds to the lost jobs, and it adds at most one.
LEMMA LossStep ==
  ASSUME IInv, IInv', [Next]_vars
  PROVE  \/ LostJobs' \subseteq LostJobs /\ faults' >= faults
         \/ /\ faults' = faults + 1
            /\ \E id \in Jobs : LostJobs' \subseteq LostJobs \cup {id}
<1> USE DEF IInv
<1> DEFINE Kept == LostJobs' \subseteq LostJobs /\ faults' >= faults
<1>0. faults \in Nat
  BY DEF TypeOK
<1>1. ASSUME NEW j \in Jobs, Submit(j) PROVE Kept
  <2>1. /\ UNCHANGED <<dead, hand, pc, faults>>
        /\ \A k \in Jobs : k # j => phase'[k] = phase[k]
        /\ \E e \in QueueJob : e.id = j /\ queue' = Append(queue, e)
    BY <1>1 DEF Submit, TypeOK, QueueJob
  <2>2. \A k \in Jobs : Queued(k)' <=> Queued(k) \/ k = j
    BY <2>1, AppendFacts DEF Queued, TypeOK
  <2> QED BY <1>0, <2>1, <2>2 DEF LostJobs, Lost, Buried, InHand, Held
<1>2. ASSUME NEW w \in Workers, Dequeue(w) PROVE Kept
  <2> DEFINE e == Head(queue)
  <2>1. /\ UNCHANGED <<dead, phase, faults>> /\ queue # <<>> /\ queue' = Tail(queue)
        /\ hand' = [hand EXCEPT ![w] = e] /\ pc' = [pc EXCEPT ![w] = "handling"]
        /\ ~Held(w)
    BY <1>2 DEF Dequeue, Held
  <2>2. \A x \in Entries(queue) : x = e \/ x \in Entries(queue')
    <3>1. ASSUME NEW i \in 1..Len(queue), i # 1
          PROVE  queue[i] \in Entries(queue')
      <4>1. /\ Len(queue') = Len(queue) - 1 /\ Len(queue) \in Nat
            /\ \A k \in 1..Len(queue') : queue'[k] = queue[k + 1]
        BY <2>1 DEF TypeOK
      <4>2. i - 1 \in 1..Len(queue') /\ queue'[i - 1] = queue[i]
        BY <3>1, <4>1
      <4> QED BY <4>2 DEF Entries
    <3>2. queue[1] = e
      BY <2>1 DEF TypeOK
    <3> QED BY <3>1, <3>2 DEF Entries
  <2>3. hand'[w] = e /\ Held(w)'
        /\ \A v \in Workers \ {w} : hand'[v] = hand[v] /\ (Held(v)' <=> Held(v))
    BY <2>1 DEF TypeOK, Held
  <2> HIDE DEF e
  <2>4. \A k \in Jobs : /\ Queued(k) => Queued(k)' \/ InHand(k)'
                        /\ InHand(k) => InHand(k)'
                        /\ Buried(k)' <=> Buried(k)
    BY <2>1, <2>2, <2>3 DEF Queued, InHand, Buried
  <2> QED BY <1>0, <2>1, <2>4 DEF LostJobs, Lost
<1>3. ASSUME NEW w \in Workers, HandlerReturns(w) PROVE Kept
  <2>1. Held(w) /\ hand' = [hand EXCEPT ![w] = NoJob] /\ pc' = [pc EXCEPT ![w] = "idle"]
    BY <1>3 DEF HandlerReturns, LetGo, Held
  <2>2. \A v \in Workers \ {w} : hand'[v] = hand[v] /\ (Held(v)' <=> Held(v))
    BY <2>1, LetGoFacts, Zenon
  <2>3. /\ UNCHANGED <<queue, dead, faults>>
        /\ hand[w].id \in Jobs /\ phase'[hand[w].id] = "done"
        /\ \A k \in Jobs : k # hand[w].id => phase'[k] = phase[k]
    BY <1>3, <2>1, HeldFacts DEF HandlerReturns, TypeOK
  <2>4. \A k \in Jobs : InHand(k) /\ k # hand[w].id => InHand(k)'
    BY <2>2 DEF InHand
  <2> QED BY <1>0, <2>3, <2>4 DEF LostJobs, Lost, Queued, Buried
<1>4. ASSUME NEW w \in Workers, HandlerRaises(w) PROVE Kept
  <2>1. /\ UNCHANGED <<queue, dead, phase, faults>>
        /\ hand' = [hand EXCEPT ![w] = [hand[w] EXCEPT !.attempts = hand[w].attempts + 1]]
        /\ Held(w) /\ hand[w] \in QueueJob
        /\ \A v \in Workers : Held(v)' <=> Held(v)
    BY <1>4, HeldFacts DEF HandlerRaises, TypeOK, Held
  <2>2. \A v \in Workers : hand'[v].id = hand[v].id
    BY <2>1 DEF TypeOK, QueueJob
  <2> QED BY <1>0, <2>1, <2>2 DEF LostJobs, Lost, Queued, Buried, InHand
<1>5. ASSUME NEW w \in Workers, Requeue(w) PROVE Kept
  <2>1. Held(w) /\ hand' = [hand EXCEPT ![w] = NoJob] /\ pc' = [pc EXCEPT ![w] = "idle"]
    BY <1>5 DEF Requeue, LetGo, Held
  <2>2. \A v \in Workers \ {w} : hand'[v] = hand[v] /\ (Held(v)' <=> Held(v))
    BY <2>1, LetGoFacts, Zenon
  <2>3. /\ UNCHANGED <<dead, phase, faults>> /\ hand[w].id \in Jobs
        /\ Entries(queue') = Entries(queue) \cup {hand[w]}
    BY <1>5, <2>1, HeldFacts, AppendFacts DEF Requeue, TypeOK
  <2>4. \A k \in Jobs : /\ InHand(k) => InHand(k)' \/ Queued(k)'
                        /\ Queued(k) => Queued(k)'
    BY <2>2, <2>3 DEF InHand, Queued
  <2> QED BY <1>0, <2>3, <2>4 DEF LostJobs, Lost, Buried
<1>6. ASSUME NEW w \in Workers, Bury(w) PROVE Kept
  <2>1. Held(w) /\ hand' = [hand EXCEPT ![w] = NoJob] /\ pc' = [pc EXCEPT ![w] = "idle"]
    BY <1>6 DEF Bury, LetGo, Held
  <2>2. \A v \in Workers \ {w} : hand'[v] = hand[v] /\ (Held(v)' <=> Held(v))
    BY <2>1, LetGoFacts, Zenon
  <2>3. /\ UNCHANGED <<queue, phase, faults>> /\ hand[w].id \in Jobs
        /\ Entries(dead') = Entries(dead) \cup {hand[w]}
    BY <1>6, <2>1, HeldFacts, AppendFacts DEF Bury, TypeOK
  <2>4. \A k \in Jobs : /\ InHand(k) => InHand(k)' \/ Buried(k)'
                        /\ Buried(k) => Buried(k)'
    BY <2>2, <2>3 DEF InHand, Buried
  <2> QED BY <1>0, <2>3, <2>4 DEF LostJobs, Lost, Queued
<1>7. ASSUME NEW w \in Workers, Restart(w) PROVE Kept
  <2>1. UNCHANGED <<queue, dead, hand, phase, faults>>
        /\ \A v \in Workers : Held(v)' <=> Held(v)
    BY <1>7 DEF Restart, TypeOK, Held
  <2> QED BY <1>0, <2>1 DEF LostJobs, Lost, Queued, Buried, InHand
<1>8. ASSUME NEW w \in Workers, End(w)
      PROVE  \/ Kept
             \/ /\ faults' = faults + 1
                /\ \E id \in Jobs : LostJobs' \subseteq LostJobs \cup {id}
  <2>1. /\ hand' = [hand EXCEPT ![w] = NoJob] /\ pc' = [pc EXCEPT ![w] = "down"]
        /\ faults' = faults + 1 /\ UNCHANGED <<queue, dead, phase>>
    BY <1>8 DEF End
  <2>2. \A v \in Workers \ {w} : hand'[v] = hand[v] /\ (Held(v)' <=> Held(v))
    BY <2>1, LetGoFacts, Zenon
  <2>3. CASE Held(w)
    <3>1. hand[w].id \in Jobs
      BY <2>3, HeldFacts
    <3>2. \A k \in Jobs : InHand(k) /\ k # hand[w].id => InHand(k)'
      BY <2>2 DEF InHand
    <3> QED BY <2>1, <3>1, <3>2 DEF LostJobs, Lost, Queued, Buried
  <2>4. CASE ~Held(w)
    <3>1. \A k \in Jobs : InHand(k) => InHand(k)'
      BY <2>2, <2>4 DEF InHand
    <3> QED BY <1>0, <2>1, <3>1 DEF LostJobs, Lost, Queued, Buried
  <2> QED BY <2>3, <2>4
<1>9. ASSUME UNCHANGED vars PROVE Kept
  BY <1>0, <1>9 DEF vars, LostJobs, Lost, Queued, Buried, InHand, Held
<1> QED BY <1>1, <1>2, <1>3, <1>4, <1>5, <1>6, <1>7, <1>8, <1>9
     DEF Next, Work, Poll

LEMMA LossBoundedStep ==
  ASSUME IInv, IInv', LossBounded, [Next]_vars
  PROVE  LossBounded'
<1>1. LostJobs \subseteq Jobs /\ IsFiniteSet(LostJobs) /\ faults \in Nat
      /\ Cardinality(LostJobs) <= faults /\ Cardinality(LostJobs) \in Nat
  <2>1. LostJobs \subseteq Jobs
    BY DEF LostJobs
  <2>2. IsFiniteSet(LostJobs)
    BY <2>1, WorkerAssumption, FS_Subset
  <2>3. Cardinality(LostJobs) \in Nat
    BY <2>2, FS_CardinalityType
  <2> QED BY <2>1, <2>2, <2>3 DEF LossBounded, LostJobs, IInv, TypeOK
<1>2. CASE LostJobs' \subseteq LostJobs /\ faults' >= faults
  <2>1. Cardinality(LostJobs') <= Cardinality(LostJobs) /\ Cardinality(LostJobs') \in Nat
    BY <1>1, <1>2, FS_Subset, FS_CardinalityType
  <2>2. faults' \in Nat
    BY DEF IInv, TypeOK
  <2>3. Cardinality(LostJobs') <= faults'
    BY <1>1, <1>2, <2>1, <2>2
  <2> QED BY <2>3 DEF LossBounded, LostJobs
<1>3. ASSUME faults' = faults + 1,
             NEW id \in Jobs, LostJobs' \subseteq LostJobs \cup {id}
      PROVE  LossBounded'
  <2>1. IsFiniteSet(LostJobs \cup {id})
        /\ Cardinality(LostJobs \cup {id}) \in Nat
        /\ Cardinality(LostJobs \cup {id}) <= Cardinality(LostJobs) + 1
    <3>1. /\ IsFiniteSet(LostJobs \cup {id})
          /\ \/ Cardinality(LostJobs \cup {id}) = Cardinality(LostJobs)
             \/ Cardinality(LostJobs \cup {id}) = Cardinality(LostJobs) + 1
      <4>1. CASE id \in LostJobs
        <5>1. LostJobs \cup {id} = LostJobs
          BY <4>1
        <5> QED BY <1>1, <5>1
      <4>2. CASE id \notin LostJobs
        BY <1>1, <4>2, FS_AddElement
      <4> QED BY <4>1, <4>2
    <3> QED BY <1>1, <3>1
  <2>2. Cardinality(LostJobs') <= Cardinality(LostJobs \cup {id})
        /\ Cardinality(LostJobs') \in Nat
    BY <1>3, <2>1, FS_Subset, FS_CardinalityType
  <2>3. Cardinality(LostJobs') <= faults'
    BY <1>1, <1>3, <2>1, <2>2
  <2> QED BY <2>3 DEF LossBounded, LostJobs
<1> QED BY <1>2, <1>3, LossStep

LEMMA InitLossBounded == Init => LossBounded
<1> SUFFICES ASSUME Init PROVE LossBounded
  OBVIOUS
<1>1. LostJobs = {}
  BY DEF Init, LostJobs, Lost
<1>2. Cardinality({}) = 0
  BY FS_EmptySet
<1>3. Cardinality(LostJobs) <= faults
  BY <1>1, <1>2 DEF Init
<1> QED BY <1>3 DEF LossBounded, LostJobs

-----------------------------------------------------------------------------
(* The theorems *)

\* Every variable stays in its range, and a worker holds a job exactly while
\* it works on one.
THEOREM TypeCorrect == Spec => []TypeOK
BY IInvHolds, PTL DEF IInv

\* However many workers share the queue, a job is in one place at most and
\* never comes back once it was handled.
THEOREM OnePlaceHolds == Spec => []OnePlace
BY IInvHolds, PTL DEF IInv

\* The attempts counter that travels with a job counts the starts of its
\* handler.
THEOREM CounterHonestHolds == Spec => []CounterHonest
BY IInvHolds, PTL DEF IInv

\* A handler starts at most max_retries + 1 times on a job, and exactly that
\* often before the job is dead-lettered.
THEOREM RetryBudgetHolds == Spec => []RetryBudget
BY IInvHolds, PTL DEF IInv

\* A worker that ends loses its one job at most: with no worker ends, no job
\* is ever lost.
THEOREM LossBoundedHolds == Spec => []LossBounded
<1>1. IInv /\ IInv' /\ LossBounded /\ [Next]_vars => LossBounded'
  BY LossBoundedStep
<1> QED BY <1>1, InitLossBounded, IInvHolds, PTL DEF Spec

-----------------------------------------------------------------------------
(* The refinement: lists and workers are the lives of jobs *)

\* The ids in a list grow and shrink with it.
LEMMA IdsAppend ==
  ASSUME NEW q \in Seq(QueueJob), NEW e \in QueueJob
  PROVE  Ids(Append(q, e)) = Append(Ids(q), e.id)
<1>1. /\ Len(Append(q, e)) = Len(q) + 1 /\ Len(q) \in Nat
      /\ \A i \in 1..Len(q) : Append(q, e)[i] = q[i]
      /\ Append(q, e)[Len(q) + 1] = e
  OBVIOUS
<1>2. Ids(q) \in Seq(Jobs) /\ Len(Ids(q)) = Len(q)
      /\ \A i \in 1..Len(q) : Ids(q)[i] = q[i].id
  <2>1. \A i \in 1..Len(q) : q[i] \in QueueJob OBVIOUS
  <2>2. \A i \in 1..Len(q) : q[i].id \in Jobs BY <2>1 DEF QueueJob
  <2> QED BY <1>1, <2>2 DEF Ids
<1>3. /\ DOMAIN Append(Ids(q), e.id) = 1..(Len(q) + 1)
      /\ \A i \in 1..Len(q) : Append(Ids(q), e.id)[i] = q[i].id
      /\ Append(Ids(q), e.id)[Len(q) + 1] = e.id
  BY <1>1, <1>2
<1>4. Append(Ids(q), e.id) = [i \in 1..(Len(q) + 1) |-> Append(Ids(q), e.id)[i]]
  BY <1>2, <1>3
<1>5. \A i \in 1..(Len(q) + 1) : Append(Ids(q), e.id)[i] = Append(q, e)[i].id
  BY <1>1, <1>3
<1> QED BY <1>1, <1>4, <1>5 DEF Ids

LEMMA IdsTail ==
  ASSUME NEW q \in Seq(QueueJob), q # <<>>
  PROVE  /\ Ids(q) # <<>> /\ Head(Ids(q)) = Head(q).id
         /\ Ids(Tail(q)) = Tail(Ids(q))
<1>1. /\ Len(q) \in Nat /\ Len(q) >= 1 /\ Head(q) = q[1]
      /\ Tail(q) \in Seq(QueueJob) /\ Len(Tail(q)) = Len(q) - 1
      /\ \A i \in 1..(Len(q) - 1) : Tail(q)[i] = q[i + 1]
  OBVIOUS
<1>2. Ids(q) \in Seq(Jobs) /\ Len(Ids(q)) = Len(q)
      /\ \A i \in 1..Len(q) : Ids(q)[i] = q[i].id
  <2>1. \A i \in 1..Len(q) : q[i] \in QueueJob OBVIOUS
  <2>2. \A i \in 1..Len(q) : q[i].id \in Jobs BY <2>1 DEF QueueJob
  <2> QED BY <1>1, <2>2 DEF Ids
<1>3. Ids(q) # <<>> /\ Head(Ids(q)) = Ids(q)[1] BY <1>1, <1>2
<1>4. /\ Tail(Ids(q)) \in Seq(Jobs) /\ Len(Tail(Ids(q))) = Len(q) - 1
      /\ \A i \in 1..(Len(q) - 1) : Tail(Ids(q))[i] = Ids(q)[i + 1]
  BY <1>1, <1>2, <1>3
<1>5. \A i \in 1..(Len(q) - 1) : Tail(Ids(q))[i] = Tail(q)[i].id
  BY <1>1, <1>2, <1>4
<1>6. Tail(Ids(q)) = [i \in 1..(Len(q) - 1) |-> Tail(Ids(q))[i]]
  <2>1. DOMAIN Tail(Ids(q)) = 1..Len(Tail(Ids(q))) BY <1>4
  <2>2. DOMAIN Tail(Ids(q)) = 1..(Len(q) - 1) BY <1>4, <2>1
  <2>3. ASSUME NEW s \in Seq(Jobs) PROVE s = [i \in DOMAIN s |-> s[i]]
    OBVIOUS
  <2> QED BY <1>4, <2>2, <2>3
<1>7. Ids(Tail(q)) = [i \in 1..(Len(q) - 1) |-> Tail(q)[i].id]
  BY <1>1 DEF Ids
<1>8. Ids(Tail(q)) = Tail(Ids(q)) BY <1>5, <1>6, <1>7
<1> QED BY <1>1, <1>2, <1>3, <1>8

\* A job that is found somewhere is nowhere else.
LEMMA FoundOnce ==
  IInv => \A j \in Jobs, p \in Places : In(j, p) => Whereabouts[j] = {p}
<1> SUFFICES ASSUME IInv, NEW j \in Jobs, NEW p \in Places, In(j, p),
                    NEW r \in Places, In(j, r)
             PROVE  r = p
  BY DEF Whereabouts
<1>1. \A S \in {{"handling"}, {"backoff", "burying"}} : Served(j, S) => InHand(j)
  BY DEF Served, InHand, Held
<1>2. ~(Served(j, {"handling"}) /\ Served(j, {"backoff", "burying"}))
  BY DEF Served, IInv, OnePlace, Held
<1>3. /\ ~(Queued(j) /\ Buried(j))
      /\ ~(Queued(j) /\ InHand(j))
      /\ ~(Buried(j) /\ InHand(j))
      /\ phase[j] # "sent" => ~Queued(j) /\ ~Buried(j) /\ ~InHand(j)
  BY DEF IInv, OnePlace
<1> QED BY <1>1, <1>2, <1>3 DEF In, Places

LEMMA FoundOnceNext ==
  (IInv => \A j \in Jobs, p \in Places : In(j, p) => Whereabouts[j] = {p})'
BY FoundOnce, PTL

\* A step that is about job j alone.
OnlyAbout(j) ==
  /\ \A k \in Jobs : k # j => /\ Queued(k)' <=> Queued(k)
                              /\ Buried(k)' <=> Buried(k)
                              /\ phase'[k] = phase[k]
  /\ \A w \in Workers : \/ pc'[w] = pc[w] /\ hand'[w] = hand[w]
                        \/ /\ Held(w) => hand[w].id = j
                           /\ Held(w)' => hand'[w].id = j

LEMMA OthersStay ==
  ASSUME NEW j, OnlyAbout(j), NEW k \in Jobs, k # j, NEW p \in Places
  PROVE  In(k, p)' <=> In(k, p)
<1>1. ASSUME NEW S \in {{"handling"}, {"backoff", "burying"}}
      PROVE  Served(k, S)' <=> Served(k, S)
  <2>1. ASSUME NEW w \in Workers
        PROVE  pc'[w] \in S /\ hand'[w].id = k <=> pc[w] \in S /\ hand[w].id = k
    BY DEF OnlyAbout, Held
  <2> QED BY <2>1 DEF Served
<1>2. /\ Queued(k)' <=> Queued(k)
      /\ Buried(k)' <=> Buried(k)
      /\ phase'[k] = phase[k]
  BY DEF OnlyAbout
<1> QED BY <1>1, <1>2 DEF In

LEMMA Moves ==
  ASSUME IInv, IInv', NEW j \in Jobs, OnlyAbout(j),
         NEW from \in Places, In(j, from), NEW to \in Places, In(j, to)'
  PROVE  Life!Move(j, from, to)
<1>1. Whereabouts[j] = {from} BY FoundOnce
<1>2. Whereabouts'[j] = {to}
  BY FoundOnceNext
<1>3. \A k \in Jobs : k # j => Whereabouts'[k] = Whereabouts[k]
  BY OthersStay DEF Whereabouts
<1>4. Whereabouts' = [Whereabouts EXCEPT ![j] = {to}]
  BY <1>2, <1>3 DEF Whereabouts
<1> QED BY <1>1, <1>4 DEF Life!Move

LEMMA SubmitLives ==
  ASSUME IInv, IInv', NEW j \in Jobs, Submit(j) PROVE Life!Submit(j)
<1> DEFINE e == [id |-> j, attempts |-> 0]
<1>1. /\ e \in QueueJob /\ e.id = j /\ queue \in Seq(QueueJob)
      /\ queue' = Append(queue, e) /\ UNCHANGED <<dead, hand, pc, runs>>
      /\ phase[j] = "new" /\ \A k \in Jobs : k # j => phase'[k] = phase[k]
  BY DEF Submit, QueueJob, IInv, TypeOK
<1> HIDE DEF e
<1>2. \A k \in Jobs : Queued(k)' <=> Queued(k) \/ k = j
  BY <1>1, AppendFacts DEF Queued
<1>3. OnlyAbout(j) BY <1>1, <1>2 DEF OnlyAbout, Buried
<1>4. In(j, "new") /\ In(j, "waiting")' BY <1>1, <1>2 DEF In
<1>5. Life!Move(j, "new", "waiting") BY <1>3, <1>4, Moves DEF Places
<1>6. Line' = Append(Line, j) /\ Letters' = Letters
  BY <1>1, IdsAppend DEF Line, Letters
<1> QED BY <1>1, <1>5, <1>6 DEF Life!Submit

LEMMA StartLives ==
  ASSUME IInv, IInv', NEW w \in Workers, Dequeue(w), NEW j, j = Head(queue).id
  PROVE  Life!Start(j) /\ j \in Jobs
<1> DEFINE e == Head(queue)
<1>1. /\ queue \in Seq(QueueJob) /\ queue # <<>> /\ queue' = Tail(queue)
      /\ pc[w] = "idle" /\ ~Held(w)
      /\ hand' = [hand EXCEPT ![w] = e] /\ pc' = [pc EXCEPT ![w] = "handling"]
      /\ runs' = [runs EXCEPT ![j] = @ + 1] /\ UNCHANGED <<dead, phase>>
  BY DEF Dequeue, IInv, TypeOK, Held
<1>2. /\ e \in QueueJob /\ e \in Entries(queue) /\ j \in Jobs /\ j = e.id
      /\ Entries(Tail(queue)) \subseteq Entries(queue)
      /\ \A x \in Entries(Tail(queue)) : x.id # j
  BY <1>1, TailFacts DEF IInv, OnePlace, QueueJob
<1>3. \A x \in Entries(queue) : x = e \/ x \in Entries(Tail(queue))
  <2>1. /\ Len(Tail(queue)) = Len(queue) - 1 /\ Len(queue) \in Nat /\ e = queue[1]
        /\ \A k \in 1..Len(Tail(queue)) : Tail(queue)[k] = queue[k + 1]
    BY <1>1
  <2>2. ASSUME NEW i \in 1..Len(queue), i # 1 PROVE queue[i] \in Entries(Tail(queue))
    <3>1. i - 1 \in 1..Len(Tail(queue)) /\ Tail(queue)[i - 1] = queue[i]
      BY <2>1, <2>2
    <3> QED BY <3>1 DEF Entries
  <2> QED BY <2>1, <2>2 DEF Entries
<1>4. /\ hand'[w] = e /\ pc'[w] = "handling" /\ Held(w)'
      /\ \A v \in Workers : v # w => pc'[v] = pc[v] /\ hand'[v] = hand[v]
  BY <1>1 DEF IInv, TypeOK, Held
<1>5. Line # <<>> /\ Head(Line) = j /\ Line' = Tail(Line) /\ Letters' = Letters
  BY <1>1, IdsTail DEF Line, Letters
<1> HIDE DEF e
<1>6. \A k \in Jobs : k # j => (Queued(k)' <=> Queued(k))
  BY <1>1, <1>2, <1>3 DEF Queued
<1>7. OnlyAbout(j)
  <2>1. \A k \in Jobs : (Buried(k)' <=> Buried(k)) /\ phase'[k] = phase[k]
    BY <1>1 DEF Buried
  <2>2. \A v \in Workers : \/ pc'[v] = pc[v] /\ hand'[v] = hand[v]
                           \/ ~Held(v) /\ hand'[v].id = j
    BY <1>1, <1>2, <1>4
  <2> QED BY <1>6, <2>1, <2>2 DEF OnlyAbout
<1>8. In(j, "waiting") /\ In(j, "running")' BY <1>2, <1>4 DEF In, Queued, Served
<1>9. Life!Move(j, "waiting", "running") BY <1>2, <1>7, <1>8, Moves DEF Places
<1>10. Life!Start(j) BY <1>1, <1>5, <1>9 DEF Life!Start
<1> QED BY <1>2, <1>10 DEF e

\* A worker that works on a job is the only one, and finds it where it is.
LEMMA HeldIsFound ==
  ASSUME IInv, NEW w \in Workers, Held(w)
  PROVE  /\ hand[w].id \in Jobs
         /\ In(hand[w].id, IF pc[w] = "handling" THEN "running" ELSE "failed")
  BY HeldFacts DEF In, Served, Held

LEMMA SucceedLives ==
  ASSUME IInv, IInv', NEW w \in Workers, HandlerReturns(w), NEW j, j = hand[w].id
  PROVE  Life!Succeed(j) /\ j \in Jobs
<1>1. /\ Held(w) /\ pc[w] = "handling" /\ UNCHANGED <<queue, dead, runs>>
      /\ hand' = [hand EXCEPT ![w] = NoJob] /\ pc' = [pc EXCEPT ![w] = "idle"]
      /\ phase' = [phase EXCEPT ![j] = "done"]
  BY DEF HandlerReturns, LetGo, Held
<1>2. ~Held(w)' /\ \A v \in Workers : v # w => pc'[v] = pc[v] /\ hand'[v] = hand[v]
  BY <1>1, LetGoFacts, Zenon
<1>3. j \in Jobs /\ In(j, "running") BY <1>1, HeldIsFound
<1>4. phase'[j] = "done" /\ \A k \in Jobs : k # j => phase'[k] = phase[k]
  BY <1>1, <1>3 DEF IInv, TypeOK
<1>5. OnlyAbout(j) BY <1>1, <1>2, <1>4 DEF OnlyAbout, Queued, Buried
<1>6. In(j, "handled")' BY <1>4 DEF In
<1>7. Life!Move(j, "running", "handled") BY <1>3, <1>5, <1>6, Moves DEF Places
<1>8. Life!Succeed(j) BY <1>1, <1>7 DEF Life!Succeed, Line, Letters
<1> QED BY <1>3, <1>8

LEMMA FailLives ==
  ASSUME IInv, IInv', NEW w \in Workers, HandlerRaises(w), NEW j, j = hand[w].id
  PROVE  Life!Fail(j) /\ j \in Jobs
<1> DEFINE f == [hand[w] EXCEPT !.attempts = @ + 1]
<1>1. Held(w) /\ pc[w] = "handling" BY DEF HandlerRaises, Held
<1>2. hand[w] \in QueueJob /\ j \in Jobs /\ In(j, "running")
  BY <1>1, HeldFacts, HeldIsFound
<1>3. f.id = j BY <1>2 DEF QueueJob
<1>4. /\ UNCHANGED <<queue, dead, phase, runs>>
      /\ hand'[w] = f /\ pc'[w] \in {"backoff", "burying"}
      /\ \A v \in Workers : v # w => pc'[v] = pc[v] /\ hand'[v] = hand[v]
  BY DEF HandlerRaises, IInv, TypeOK
<1> HIDE DEF f
<1>5. OnlyAbout(j) BY <1>3, <1>4 DEF OnlyAbout, Queued, Buried
<1>6. In(j, "failed")' BY <1>3, <1>4 DEF In, Served
<1>7. Life!Move(j, "running", "failed") BY <1>2, <1>5, <1>6, Moves DEF Places
<1>8. Life!Fail(j) BY <1>4, <1>7 DEF Life!Fail, Line, Letters
<1> QED BY <1>2, <1>8

LEMMA RetryLives ==
  ASSUME IInv, IInv', NEW w \in Workers, Requeue(w), NEW j, j = hand[w].id
  PROVE  Life!Retry(j) /\ j \in Jobs
<1> DEFINE e == hand[w]
<1>1. /\ Held(w) /\ pc[w] = "backoff" /\ queue' = Append(queue, e)
      /\ UNCHANGED <<dead, phase, runs>>
      /\ hand' = [hand EXCEPT ![w] = NoJob] /\ pc' = [pc EXCEPT ![w] = "idle"]
  BY DEF Requeue, LetGo, Held
<1>2. ~Held(w)' /\ \A v \in Workers : v # w => pc'[v] = pc[v] /\ hand'[v] = hand[v]
  BY <1>1, LetGoFacts, Zenon
<1>3. /\ j \in Jobs /\ In(j, "failed") /\ e \in QueueJob /\ e.id = j /\ e.attempts \in Nat
      /\ queue \in Seq(QueueJob)
  BY <1>1, HeldIsFound, HeldFacts DEF IInv, TypeOK
<1>4. runs[j] <= MaxRetries
  <2>1. e.attempts <= MaxRetries BY <1>1 DEF IInv, InRange
  <2>2. runs[j] = e.attempts BY <1>1, <1>3 DEF IInv, CounterHonest
  <2> QED BY <2>1, <2>2
<1>5. Line' = Append(Line, j) /\ Letters' = Letters
  BY <1>1, <1>3, IdsAppend DEF Line, Letters
<1> HIDE DEF e
<1>6. \A k \in Jobs : Queued(k)' <=> Queued(k) \/ k = j
  BY <1>1, <1>3, AppendFacts DEF Queued
<1>7. OnlyAbout(j) BY <1>1, <1>2, <1>6 DEF OnlyAbout, Buried, e
<1>8. In(j, "waiting")' BY <1>3, <1>6 DEF In
<1>9. Life!Move(j, "failed", "waiting") BY <1>3, <1>7, <1>8, Moves DEF Places
<1>10. Life!Retry(j) BY <1>1, <1>4, <1>5, <1>9 DEF Life!Retry
<1> QED BY <1>3, <1>10 DEF e

LEMMA GiveUpLives ==
  ASSUME IInv, IInv', NEW w \in Workers, Bury(w), NEW j, j = hand[w].id
  PROVE  Life!GiveUp(j) /\ j \in Jobs
<1> DEFINE e == hand[w]
<1>1. /\ Held(w) /\ pc[w] = "burying" /\ dead' = Append(dead, e)
      /\ UNCHANGED <<queue, phase, runs>>
      /\ hand' = [hand EXCEPT ![w] = NoJob] /\ pc' = [pc EXCEPT ![w] = "idle"]
  BY DEF Bury, LetGo, Held
<1>2. ~Held(w)' /\ \A v \in Workers : v # w => pc'[v] = pc[v] /\ hand'[v] = hand[v]
  BY <1>1, LetGoFacts, Zenon
<1>3. /\ j \in Jobs /\ In(j, "failed") /\ e \in QueueJob /\ e.id = j /\ e.attempts \in Nat
      /\ dead \in Seq(QueueJob)
  BY <1>1, HeldIsFound, HeldFacts DEF IInv, TypeOK
<1>4. runs[j] = MaxRetries + 1
  <2>1. e.attempts = MaxRetries + 1 BY <1>1 DEF IInv, InRange
  <2>2. runs[j] = e.attempts BY <1>1, <1>3 DEF IInv, CounterHonest
  <2> QED BY <2>1, <2>2
<1>5. Letters' = Append(Letters, j) /\ Line' = Line
  BY <1>1, <1>3, IdsAppend DEF Line, Letters
<1> HIDE DEF e
<1>6. \A k \in Jobs : Buried(k)' <=> Buried(k) \/ k = j
  BY <1>1, <1>3, AppendFacts DEF Buried
<1>7. OnlyAbout(j) BY <1>1, <1>2, <1>6 DEF OnlyAbout, Queued, e
<1>8. In(j, "dead")' BY <1>3, <1>6 DEF In
<1>9. Life!Move(j, "failed", "dead") BY <1>3, <1>7, <1>8, Moves DEF Places
<1>10. Life!GiveUp(j) BY <1>1, <1>4, <1>5, <1>9 DEF Life!GiveUp
<1> QED BY <1>3, <1>10 DEF e

\* A worker that ends loses the job it works on, if it works on one.
LEMMA EndLives ==
  ASSUME IInv, NEW w \in Workers, End(w), NEW j, j = hand[w].id
  PROVE  \/ Life!Lose(j) /\ j \in Jobs
         \/ UNCHANGED Life!vars
<1>1. /\ hand' = [hand EXCEPT ![w] = NoJob] /\ pc' = [pc EXCEPT ![w] = "down"]
      /\ UNCHANGED <<queue, dead, phase, runs>>
  BY DEF End
<1>2. ~Held(w)' /\ \A v \in Workers : v # w => pc'[v] = pc[v] /\ hand'[v] = hand[v]
  BY <1>1, LetGoFacts, Zenon
<1>3. CASE Held(w)
  <2>1. j \in Jobs /\ (In(j, "running") \/ In(j, "failed")) BY <1>3, HeldIsFound
  <2>2. Whereabouts[j] \in {{"running"}, {"failed"}} BY <2>1, FoundOnce DEF Places
  <2>3. OnlyAbout(j) BY <1>1, <1>2 DEF OnlyAbout, Queued, Buried
  <2>4. \A v \in Workers \ {w} : Held(v) => hand[v].id # j BY <1>3, HeldFacts
  <2>5. ~Queued(j) /\ ~Buried(j) /\ phase[j] = "sent" BY <1>3, HeldFacts
  <2>6. ASSUME NEW p \in Places PROVE ~In(j, p)'
    <3>1. \A v \in Workers : ~(Held(v)' /\ hand'[v].id = j)
      BY <1>2, <2>4 DEF Held
    <3> QED BY <1>1, <2>5, <3>1 DEF In, Served, Held, Queued, Buried
  <2>7. Whereabouts' = [Whereabouts EXCEPT ![j] = {}]
    <3>1. \A k \in Jobs : k # j => Whereabouts'[k] = Whereabouts[k]
      BY <2>3, OthersStay DEF Whereabouts
    <3>2. Whereabouts'[j] = {} BY <2>1, <2>6 DEF Whereabouts
    <3> QED BY <2>1, <3>1, <3>2 DEF Whereabouts
  <2>8. Life!Lose(j) BY <1>1, <2>2, <2>7 DEF Life!Lose, Line, Letters
  <2> QED BY <2>1, <2>8
<1>4. CASE ~Held(w)
  <2>1. \A k \in Jobs, p \in Places : In(k, p)' <=> In(k, p)
    <3>1. ASSUME NEW k, NEW S \in {{"handling"}, {"backoff", "burying"}}
          PROVE  Served(k, S)' <=> Served(k, S)
      BY <1>2, <1>4 DEF Served, Held
    <3> QED BY <1>1, <3>1 DEF In, Queued, Buried
  <2>2. Whereabouts' = Whereabouts BY <2>1 DEF Whereabouts
  <2> QED BY <1>1, <2>2 DEF Life!vars, Line, Letters
<1> QED BY <1>3, <1>4

LEMMA RestartLives ==
  ASSUME IInv, NEW w \in Workers, Restart(w) PROVE UNCHANGED Life!vars
<1>1. /\ UNCHANGED <<queue, dead, hand, phase, runs>>
      /\ ~Held(w) /\ ~Held(w)' /\ \A v \in Workers : v # w => pc'[v] = pc[v]
  BY DEF Restart, Held, IInv, TypeOK
<1>2. ASSUME NEW j, NEW S \in {{"handling"}, {"backoff", "burying"}}
      PROVE  Served(j, S)' <=> Served(j, S)
  BY <1>1 DEF Served, Held
<1>3. Whereabouts' = Whereabouts
  BY <1>1, <1>2 DEF Whereabouts, In, Queued, Buried
<1> QED BY <1>1, <1>3 DEF Life!vars, Line, Letters

\* Every step is one of a job's life, or none.
LEMMA StepLives ==
  IInv /\ IInv' /\ [Next]_vars => [Life!Next]_(Life!vars)
<1> SUFFICES ASSUME IInv, IInv', [Next]_vars PROVE Life!Next \/ UNCHANGED Life!vars
  OBVIOUS
<1>1. ASSUME NEW j \in Jobs, Submit(j) PROVE Life!Next
  BY <1>1, SubmitLives DEF Life!Next
<1>2. ASSUME NEW w \in Workers, Work(w) PROVE Life!Next \/ UNCHANGED Life!vars
  BY <1>2, StartLives, SucceedLives, FailLives, RetryLives, GiveUpLives, RestartLives
  DEF Work, Life!Next
<1>3. ASSUME NEW w \in Workers, End(w) PROVE Life!Next \/ UNCHANGED Life!vars
  BY <1>3, EndLives DEF Life!Next
<1>4. CASE UNCHANGED vars
  BY <1>4 DEF vars, Life!vars, Line, Letters, Whereabouts, In, Queued, Buried, Served
<1> QED BY <1>1, <1>2, <1>3, <1>4 DEF Next, Poll

\* base.py, redis_queue.py and worker.py:34-58: for any number of workers, retries
\* and ends, the lists and hands are those of jobs that live as JobLife says.
THEOREM ImplementsJobLifeHolds == Spec => ImplementsJobLife
<1>1. Init => Life!Init
  <2> SUFFICES ASSUME Init PROVE Life!Init OBVIOUS
  <2>1. Line = <<>> /\ Letters = <<>> BY DEF Init, Line, Letters, Ids
  <2>2. \A j \in Jobs : In(j, "new") BY DEF Init, In
  <2>3. \A j \in Jobs : Whereabouts[j] = {"new"}
    BY <2>2, InitIInv, FoundOnce DEF Places
  <2>4. Whereabouts = [j \in Jobs |-> {"new"}] BY <2>3 DEF Whereabouts
  <2> QED BY <2>1, <2>4 DEF Init, Life!Init
<1> QED
  BY <1>1, IInvHolds, StepLives, PTL DEF Spec, ImplementsJobLife, Life!Spec

=============================================================================
