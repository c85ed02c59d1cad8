----------------------- MODULE IntegrationRuntimeProofs -----------------------
(***************************************************************************)
(* What holds of the integration runtime for any requests, keys, targets   *)
(* and processes, either backend, and any number of cancellations and      *)
(* crashes.  Four arguments: a key is held by one request of a process     *)
(* and points at one row over all of them; every save of a row, and every  *)
(* answer, is then a move of KeyedExecution; the circuit of a target       *)
(* counts executions that are told apart; the events of a limiter and the  *)
(* requests it still counts can be matched one to one.                     *)
(***************************************************************************)
EXTENDS KeyedRefinement, FiniteSetTheorems, SequenceTheorems,
        WellFoundedInduction, TLAPS

-----------------------------------------------------------------------------
(* The invariant of keys and rows *)

\* In a memory deployment every request is in the one process.
InMain == backend = "memory" => \A r \in Requests : home[r] = Main

\* The lock of a key has one holder in a process.
KeyHeldOnce ==
  \A r, o \in Locked : SameKey(r, o) /\ home[r] = home[o] => r = o

\* How far an execution is, by where its request stands.
Fits(r) ==
  /\ pc[r] = "waiting" => KeyOf[r] # NoKey
  /\ pc[r] \in {"idle", "waiting", "admit"} =>
       /\ exec[r].status = "pending" /\ exec[r].attempts = 0
       /\ row[r] = NoRow /\ admitted[r] = Never
  /\ pc[r] \in {"save", "saveraise"} => exec[r].status \in Terminal \cup {"running"}
  /\ pc[r] = "saveraise" => exec[r].status = "failed"
  /\ InCall(r) => /\ exec[r].status = "running"
                  /\ exec[r].attempts <= MaxRetries[r] + 1
  /\ pc[r] = "backoff" => exec[r].attempts <= MaxRetries[r]

ExecFits == \A r \in Requests : Fits(r)

\* Until a request is done its row is running; a final row is not touched again.
RowFits ==
  \A r \in Requests : row[r] # NoRow =>
    /\ pc[r] # "done" => row[r].status = "running"
    /\ row[r].status \in Terminal => row[r] = exec[r]

\* A key leads to a row that was stored under it.
IndexFits ==
  \A k \in Keys : index[k] # NoRequest => KeyOf[index[k]] = k /\ row[index[k]] # NoRow

\* The key of an execution that is under way leads to its row.
CallsIndexed ==
  \A r \in Requests : InCall(r) /\ KeyOf[r] # NoKey => index[KeyOf[r]] = r

\* So does the key of a success, and with Postgres that of every row.
RowsIndexed ==
  \A o \in Requests :
    /\ KeyOf[o] # NoKey /\ row[o] # NoRow
    /\ backend = "postgres" \/ row[o].status = "succeeded"
    => index[KeyOf[o]] = o

\* In memory nobody gets past the lookup of a key that has succeeded.
SuccessEndsKey ==
  \A o, r \in Requests :
    /\ backend = "memory" /\ SameKey(o, r)
    /\ row[o] # NoRow /\ row[o].status = "succeeded"
    => r \notin Locked

\* What is answered is the execution of a request that is done.
AnswersDone == \A r \in Requests : answer[r] \in Requests => pc[answer[r]] = "done"

KeyParts ==
  /\ InMain /\ KeyHeldOnce /\ ExecFits /\ RowFits /\ IndexFits
  /\ CallsIndexed /\ RowsIndexed /\ SuccessEndsKey /\ AnswersDone

KeyInv == TypeOK /\ KeyParts

-----------------------------------------------------------------------------
(* The invariant of the limiter *)

AdmittedPast == \A r \in Requests : admitted[r] # Never => admitted[r] <= now

\* The requests the limiter of p still has to count for t.
Live(p, t) ==
  {r \in Requests : /\ home[r] = p /\ TargetOf[r] = t
                    /\ admitted[r] # Never /\ Fresh(admitted[r])}

\* Each of them has an event of its own in the window.
Matched ==
  \A p \in Procs, t \in Targets :
    \E slot \in Injection(Live(p, t), 1..Len(window[p][t])) :
      \A r \in Live(p, t) : window[p][t][slot[r]] = admitted[r]

LimitInv == AdmittedPast /\ Matched /\ WindowBound

-----------------------------------------------------------------------------
(* Facts shared by the steps *)

Stages == {"idle", "waiting", "admit", "save", "saveraise", "calling",
           "backoff", "done"}

LEMMA GoFacts ==
  ASSUME TypeOK, NEW r \in Requests, NEW at \in Stages, Go(r, at)
  PROVE  /\ pc' \in [Requests -> Stages] /\ pc'[r] = at
         /\ \A o \in Requests : o # r => pc'[o] = pc[o]
  BY DEF TypeOK, Go, Stages

LEMMA ReplyFacts ==
  ASSUME TypeOK, NEW r \in Requests, NEW a \in Requests \cup {Raised}, Reply(r, a)
  PROVE  /\ pc' \in [Requests -> Stages] /\ pc'[r] = "done"
         /\ answer' \in [Requests -> Requests \cup {NoRequest, Raised}]
         /\ answer'[r] = a /\ a # NoRequest
         /\ \A o \in Requests : o # r => pc'[o] = pc[o] /\ answer'[o] = answer[o]
         /\ \A o \in Requests : answer'[o] # NoRequest <=> pc'[o] = "done"
<1>1. Go(r, "done") /\ "done" \in Stages BY DEF Reply, Stages
<1>2. /\ pc' \in [Requests -> Stages] /\ pc'[r] = "done"
      /\ \A o \in Requests : o # r => pc'[o] = pc[o]
  BY <1>1, GoFacts
<1>3. /\ answer' \in [Requests -> Requests \cup {NoRequest, Raised}]
      /\ answer'[r] = a
      /\ \A o \in Requests : o # r => answer'[o] = answer[o]
  BY DEF Reply, TypeOK
<1>4. a # NoRequest BY RuntimeAssumption
<1> QED BY <1>2, <1>3, <1>4 DEF TypeOK

LEMMA SettleFacts ==
  ASSUME TypeOK, NEW r \in Requests, NEW status \in ExecutionStatus, Settle(r, status)
  PROVE  /\ exec' \in [Requests -> RuntimeExecution]
         /\ exec'[r].status = status /\ exec'[r].attempts = exec[r].attempts
         /\ \A o \in Requests : o # r => exec'[o] = exec[o]
         /\ pc' \in [Requests -> Stages] /\ pc'[r] = "save"
         /\ \A o \in Requests : o # r => pc'[o] = pc[o]
<1>1. Go(r, "save") /\ "save" \in Stages BY DEF Settle, Stages
<1>2. exec' = [exec EXCEPT ![r].status = status] BY DEF Settle
<1>3. exec[r] \in RuntimeExecution BY DEF TypeOK
<1>4. [exec[r] EXCEPT !.status = status] \in RuntimeExecution
  BY <1>3 DEF RuntimeExecution
<1>5. /\ exec' \in [Requests -> RuntimeExecution]
      /\ exec'[r].status = status /\ exec'[r].attempts = exec[r].attempts
      /\ \A o \in Requests : o # r => exec'[o] = exec[o]
  BY <1>2, <1>3, <1>4 DEF TypeOK, RuntimeExecution
<1> QED BY <1>1, <1>5, GoFacts

\* A request that goes on within its execution, without storing anything.
LEMMA InnerKeeps ==
  ASSUME KeyInv, NEW r \in Requests, pc[r] # "done", pc'[r] \notin {"idle", "done"},
         \A o \in Requests \ {r} : /\ pc'[o] = pc[o] /\ exec'[o] = exec[o]
                                   /\ home'[o] = home[o] /\ admitted'[o] = admitted[o],
         UNCHANGED <<backend, row, index, answer>>, InMain',
         r \in Locked' => r \in Locked /\ home'[r] = home[r],
         pc'[r] \in {"calling", "backoff"} => InCall(r), Fits(r)'
  PROVE  KeyParts'
<1> USE DEF KeyInv, KeyParts
<1>1. Locked' \subseteq Locked BY DEF Locked
<1>2. KeyHeldOnce'
  BY <1>1 DEF KeyHeldOnce, SameKey, Locked
<1>3. ExecFits'
  BY DEF ExecFits, Fits, InCall
<1>4. RowFits'
  BY DEF RowFits, Terminal
<1>5. IndexFits' BY DEF IndexFits
<1>6. CallsIndexed' BY DEF CallsIndexed, InCall
<1>7. RowsIndexed' BY DEF RowsIndexed
<1>8. SuccessEndsKey' BY <1>1 DEF SuccessEndsKey, SameKey
<1>9. AnswersDone' BY DEF AnswersDone
<1> QED BY <1>2, <1>3, <1>4, <1>5, <1>6, <1>7, <1>8, <1>9

\* A request that is answered, without storing anything.
LEMMA AnswerKeeps ==
  ASSUME KeyInv, NEW r \in Requests, NEW a \in Requests \cup {Raised}, Reply(r, a),
         a \in Requests => pc[a] = "done", pc[r] # "done",
         UNCHANGED <<backend, home, exec, row, index, admitted>>
  PROVE  KeyParts'
<1> USE DEF KeyInv, KeyParts
<1>1. /\ pc'[r] = "done" /\ answer'[r] = a
      /\ \A o \in Requests : o # r => pc'[o] = pc[o] /\ answer'[o] = answer[o]
  BY ReplyFacts
<1>2. Locked' \subseteq Locked BY <1>1 DEF Locked
<1>3. InMain' BY DEF InMain
<1>4. KeyHeldOnce' BY <1>2 DEF KeyHeldOnce, SameKey
<1>5. ExecFits' BY <1>1 DEF ExecFits, Fits, InCall
<1>6. RowFits' BY <1>1 DEF RowFits
<1>7. IndexFits' BY DEF IndexFits
<1>8. CallsIndexed' BY <1>1 DEF CallsIndexed, InCall
<1>9. RowsIndexed' BY DEF RowsIndexed
<1>10. SuccessEndsKey' BY <1>2 DEF SuccessEndsKey, SameKey
<1>11. AnswersDone' BY <1>1, RuntimeAssumption DEF AnswersDone
<1> QED BY <1>3, <1>4, <1>5, <1>6, <1>7, <1>8, <1>9, <1>10, <1>11

\* A request that stores its execution, and is under way or answered by that.
LEMMA WriteKeeps ==
  ASSUME KeyInv, NEW r \in Requests, pc[r] \in {"save", "saveraise"},
         ~Conflict(r), Write(r), pc'[r] \in {"calling", "done"}, Fits(r)',
         pc'[r] = "calling" => exec[r].status = "running",
         pc'[r] = "done" => exec'[r] = exec[r],
         \A o \in Requests \ {r} : pc'[o] = pc[o] /\ exec'[o] = exec[o],
         UNCHANGED <<backend, home, admitted>>,
         \A o \in Requests : answer'[o] \in Requests =>
           \/ answer'[o] = r /\ pc'[r] = "done"
           \/ answer'[o] = answer[o]
  PROVE  KeyParts' /\ row' \in [Requests -> RuntimeExecution \cup {NoRow}]
         /\ index' \in [Keys -> Requests \cup {NoRequest}]
<1> USE DEF KeyInv, KeyParts
<1>1. /\ row' \in [Requests -> RuntimeExecution \cup {NoRow}]
      /\ row'[r] = exec[r] /\ row'[r] # NoRow
      /\ \A o \in Requests \ {r} : row'[o] = row[o]
  BY NoRowAssumption DEF Write, TypeOK
<1>2. /\ index' \in [Keys -> Requests \cup {NoRequest}]
      /\ \A k \in Keys : index'[k] = IF k = KeyOf[r] THEN r ELSE index[k]
  BY DEF Write, TypeOK
<1>3. Locked' \subseteq Locked /\ (KeyOf[r] # NoKey => r \in Locked)
  BY DEF Locked
<1>4. \A o \in Requests : SameKey(r, o) => KeyOf[r] \in Keys /\ KeyOf[o] = KeyOf[r]
  BY RuntimeAssumption DEF SameKey
<1>5. ASSUME NEW o \in Requests \ {r}, SameKey(r, o), index[KeyOf[r]] = o
      PROVE  backend = "memory"
  <2>1. index[KeyOf[r]] \notin {NoRequest, r} BY <1>5, RuntimeAssumption
  <2>2. backend # "postgres" BY <2>1, <1>5 DEF Conflict, SameKey
  <2> QED BY <2>2, RuntimeAssumption DEF TypeOK
<1>6. ASSUME NEW o \in Locked, SameKey(r, o), backend = "memory" PROVE o = r
  <2>1. o \in Requests BY <1>6 DEF Locked
  <2>2. home[o] = home[r] BY <1>6, <2>1 DEF InMain
  <2>3. r \in Locked BY <1>3, <1>6 DEF SameKey
  <2> QED BY <1>6, <2>2, <2>3 DEF KeyHeldOnce
<1>7. InMain' BY DEF InMain
<1>8. KeyHeldOnce' BY <1>3 DEF KeyHeldOnce, SameKey
<1>9. ExecFits' BY <1>1 DEF ExecFits, Fits, InCall
<1>10. RowFits' BY <1>1 DEF RowFits, Terminal
<1>11. IndexFits'
  <2> SUFFICES ASSUME NEW k \in Keys, index'[k] # NoRequest
               PROVE  KeyOf[index'[k]] = k /\ row'[index'[k]] # NoRow
    BY DEF IndexFits
  <2>1. CASE k = KeyOf[r] BY <1>1, <1>2, <2>1
  <2>2. CASE k # KeyOf[r]
    <3>1. index'[k] = index[k] /\ index[k] \in Requests
      BY <1>2, <2>2 DEF TypeOK
    <3> QED BY <1>1, <3>1 DEF IndexFits
  <2> QED BY <2>1, <2>2
<1>12. CallsIndexed'
  <2> SUFFICES ASSUME NEW o \in Requests, InCall(o)', KeyOf[o] # NoKey
               PROVE  index'[KeyOf[o]] = o
    BY DEF CallsIndexed
  <2>0. KeyOf[o] \in Keys BY RuntimeAssumption
  <2>1. CASE o = r BY <1>2, <2>0, <2>1
  <2>2. CASE o # r
    <3>1. InCall(o) /\ o \in Locked BY <2>2 DEF InCall, Locked
    <3>2. index[KeyOf[o]] = o BY <3>1 DEF CallsIndexed
    <3>3. ~SameKey(r, o) BY <1>5, <1>6, <2>2, <3>1, <3>2 DEF SameKey
    <3> QED BY <1>2, <2>0, <3>2, <3>3 DEF SameKey
  <2> QED BY <2>1, <2>2
<1>13. RowsIndexed'
  <2> SUFFICES ASSUME NEW o \in Requests, KeyOf[o] # NoKey, row'[o] # NoRow,
                      backend = "postgres" \/ row'[o].status = "succeeded"
               PROVE  index'[KeyOf[o]] = o
    BY DEF RowsIndexed
  <2>0. KeyOf[o] \in Keys BY RuntimeAssumption
  <2>1. CASE o = r BY <1>2, <2>0, <2>1
  <2>2. CASE o # r
    <3>1. index[KeyOf[o]] = o BY <1>1, <2>2 DEF RowsIndexed
    <3>2. ASSUME SameKey(r, o) PROVE FALSE
      <4>1. backend = "memory" BY <1>5, <2>2, <3>1, <3>2 DEF SameKey
      <4>2. row[o] # NoRow /\ row[o].status = "succeeded"
        BY <1>1, <2>2, <4>1
      <4>3. r \notin Locked BY <3>2, <4>1, <4>2 DEF SuccessEndsKey, SameKey
      <4> QED BY <1>3, <3>2, <4>3 DEF SameKey
    <3> QED BY <1>2, <2>0, <3>1, <3>2 DEF SameKey
  <2> QED BY <2>1, <2>2
<1>14. SuccessEndsKey'
  <2> SUFFICES ASSUME NEW o \in Requests, NEW q \in Requests, backend = "memory",
                      SameKey(o, q), row'[o] # NoRow,
                      row'[o].status = "succeeded", q \in Locked'
               PROVE  FALSE
    BY DEF SuccessEndsKey, SameKey
  <2>1. CASE o = r
    <3>1. pc'[r] = "done" BY <1>1, <2>1
    <3>2. q # r BY <3>1 DEF Locked
    <3> QED BY <1>3, <1>6, <2>1, <3>2
  <2>2. CASE o # r BY <1>1, <1>3, <2>2 DEF SuccessEndsKey
  <2> QED BY <2>1, <2>2
<1>15. AnswersDone' BY DEF AnswersDone
<1> QED BY <1>1, <1>2, <1>7, <1>8, <1>9, <1>10, <1>11, <1>12, <1>13, <1>14, <1>15

-----------------------------------------------------------------------------
(* The limiter and the breaker *)

\* A set of numbers has a least one.
LEMMA LeastNumber ==
  ASSUME NEW T, T \subseteq Nat, T # {}
  PROVE  \E m \in T : \A k \in T : m <= k
<1> DEFINE R == {p \in Nat \X Nat : p[1] < p[2]}
<1>1. IsWellFoundedOn(R, Nat)
  BY NatLessThanWellFounded DEF OpToRel
<1>2. \A k, m \in Nat : k < m => <<k, m>> \in R
  OBVIOUS
<1> HIDE DEF R
<1>3. PICK m \in T : \A k \in T : <<k, m>> \notin R
  BY <1>1, WFMin
<1>4. ASSUME NEW k \in T PROVE m <= k
  <2>1. k \in Nat /\ m \in Nat OBVIOUS
  <2>2. ~(k < m) BY <1>2, <1>3, <2>1
  <2> QED BY <2>1, <2>2
<1> QED BY <1>4

\* What is left of a window is its tail; nothing that is popped still counts.
Popped(p, t, n) ==
  /\ Recent(p, t) \in Seq(Nat)
  /\ Len(Recent(p, t)) = Len(window[p][t]) - n
  /\ \A i \in 1..Len(Recent(p, t)) : Recent(p, t)[i] = window[p][t][n + i]
  /\ \A i \in 1..n : ~Fresh(window[p][t][i])

LEMMA RecentIsTail ==
  ASSUME TypeOK, NEW p \in Procs, NEW t \in Targets
  PROVE  \E n \in 0..Len(window[p][t]) : Popped(p, t, n)
<1> DEFINE events == window[p][t]
           fresh == {i \in 1..Len(events) : Fresh(events[i])}
<1>1. events \in Seq(Nat) /\ Len(events) \in Nat
  BY LenProperties DEF TypeOK
<1>2. Recent(p, t) = IF fresh = {} THEN <<>>
                     ELSE SubSeq(events, Min(fresh), Len(events))
  BY DEF Recent
<1> HIDE DEF events
<1>3. CASE fresh = {}
  <2>1. Recent(p, t) = <<>> BY <1>2, <1>3
  <2>2. Recent(p, t) \in Seq(Nat) /\ Len(Recent(p, t)) = 0
    BY <2>1, EmptySeq
  <2>3. \A i \in 1..Len(events) : ~Fresh(events[i]) BY <1>3
  <2>4. Len(events) \in 0..Len(events) BY <1>1
  <2>5. Popped(p, t, Len(events)) BY <1>1, <2>2, <2>3 DEF events, Popped
  <2> QED BY <2>4, <2>5 DEF events
<1>4. CASE fresh # {}
  <2> DEFINE m == Min(fresh)
  <2>1. m \in fresh /\ \A k \in fresh : m <= k
    <3>1. fresh \subseteq Nat OBVIOUS
    <3>2. \E k \in fresh : \A j \in fresh : k <= j BY <1>4, <3>1, LeastNumber
    <3> QED BY <3>2 DEF Min
  <2>2. m \in 1..Len(events) BY <2>1
  <2>3. Recent(p, t) = SubSeq(events, m, Len(events)) BY <1>2, <1>4
  <2> HIDE DEF m
  <2>4. \A i \in m..Len(events) : events[i] \in Nat
    BY <1>1, <2>2, ElementOfSeq
  <2>5. /\ Recent(p, t) \in Seq(Nat)
        /\ Len(Recent(p, t)) = Len(events) - (m - 1)
        /\ \A i \in 1..Len(events) - m + 1 : Recent(p, t)[i] = events[m + i - 1]
    BY <1>1, <2>2, <2>3, <2>4, SubSeqProperties
  <2>6. \A i \in 1..(m - 1) : ~Fresh(events[i])
    BY <1>1, <2>1, <2>2
  <2>7. m - 1 \in 0..Len(events) BY <1>1, <2>2
  <2>8. \A i \in 1..Len(Recent(p, t)) : Recent(p, t)[i] = events[(m - 1) + i]
    BY <1>1, <2>2, <2>5
  <2>9. Popped(p, t, m - 1) BY <2>5, <2>6, <2>8 DEF events, Popped
  <2> QED BY <2>7, <2>9 DEF events
<1> QED BY <1>3, <1>4

LEMMA CircuitTyped ==
  ASSUME TypeOK, NEW p \in Procs, NEW t \in Targets
  PROVE  /\ breaker[p][t] \in CircuitState
         /\ Tripped(breaker[p][t]) \in CircuitState
         /\ Probed(breaker[p][t]) \in CircuitState /\ Closed \in CircuitState
<1>1. breaker[p][t] \in CircuitState /\ now \in Nat BY DEF TypeOK
<1> QED BY <1>1 DEF CircuitState, Tripped, Probed, Closed

LEMMA BreakerTyped ==
  ASSUME TypeOK, NEW p \in Procs, NEW t \in Targets, NEW c \in CircuitState,
         breaker' = [breaker EXCEPT ![p][t] = c]
  PROVE  /\ breaker' \in [Procs -> [Targets -> CircuitState]]
         /\ breaker'[p][t] = c
         /\ \A q \in Procs, u \in Targets :
              q # p \/ u # t => breaker'[q][u] = breaker[q][u]
  BY DEF TypeOK

LEMMA WindowTyped ==
  ASSUME TypeOK, NEW p \in Procs, NEW t \in Targets, NEW events \in Seq(Nat),
         window' = [window EXCEPT ![p][t] = events]
  PROVE  /\ window' \in [Procs -> [Targets -> Seq(Nat)]]
         /\ window'[p][t] = events
         /\ \A q \in Procs, u \in Targets :
              q # p \/ u # t => window'[q][u] = window[q][u]
  BY DEF TypeOK

-----------------------------------------------------------------------------
(* The steps keep keys and rows *)

LEMMA EnterKeeps ==
  ASSUME KeyInv, NEW r \in Requests, NEW p \in Procs, Enter(r, p)
  PROVE  KeyInv'
<1> USE DEF KeyInv
<1> DEFINE at == IF KeyOf[r] = NoKey THEN "admit" ELSE "waiting"
<1>1. /\ pc' \in [Requests -> Stages] /\ pc'[r] = at
      /\ \A o \in Requests : o # r => pc'[o] = pc[o]
  <2>1. at \in Stages /\ Go(r, at) BY DEF Enter, Stages
  <2> HIDE DEF at
  <2> QED BY <2>1, GoFacts
<1>2. /\ home' \in [Requests -> Procs] /\ home'[r] = p
      /\ \A o \in Requests : o # r => home'[o] = home[o]
  BY DEF Enter, TypeOK
<1>3. UNCHANGED <<backend, known, exec, row, index, window, breaker, now,
                  answer, admitted, aborts>> /\ pc[r] = "idle"
  BY DEF Enter
<1>4. TypeOK'
  BY <1>1, <1>2, <1>3 DEF TypeOK, Stages
<1>5. InMain'
  BY <1>2, <1>3 DEF Enter, Deployed, InMain, KeyParts
<1>6. r \notin Locked'
  BY <1>1 DEF Locked
<1>7. Fits(r) BY DEF KeyParts, ExecFits
<1>8. Fits(r)'
  BY <1>1, <1>3, <1>7 DEF Fits, InCall
<1>9. KeyParts'
  BY <1>1, <1>2, <1>3, <1>5, <1>6, <1>8, InnerKeeps
<1> QED BY <1>4, <1>9

LEMMA LookupKeeps ==
  ASSUME KeyInv, NEW r \in Requests, Lookup(r)
  PROVE  KeyInv'
<1> USE DEF KeyInv
<1> DEFINE k == KeyOf[r]
<1>1. /\ pc[r] = "waiting" /\ LockFree(r)
      /\ UNCHANGED <<backend, known, home, exec, row, index, window, breaker, now,
                     admitted, aborts>>
  BY DEF Lookup
<1>2. k # NoKey /\ k \in Keys
  BY <1>1, RuntimeAssumption DEF KeyParts, ExecFits, Fits
<1>3. index[k] \in Requests \cup {NoRequest} BY <1>2 DEF TypeOK
<1>4. CASE Replayable(index[k])
  <2>1. /\ Reply(r, index[k]) /\ index[k] \in Requests
        /\ row[index[k]].status = "succeeded"
    BY <1>3, <1>4 DEF Lookup, Replayable
  <2>2. pc[index[k]] = "done"
    BY <1>2, <2>1, RuntimeAssumption DEF KeyParts, RowFits, IndexFits
  <2>3. KeyParts' BY <1>1, <2>1, <2>2, AnswerKeeps
  <2>4. TypeOK' BY <1>1, <2>1, ReplyFacts DEF TypeOK, Stages
  <2> QED BY <2>3, <2>4
<1>5. CASE ~Replayable(index[k])
  <2>1. Go(r, "admit") /\ "admit" \in Stages /\ UNCHANGED answer
    BY <1>5 DEF Lookup, Stages
  <2>2. /\ pc' \in [Requests -> Stages] /\ pc'[r] = "admit"
        /\ \A o \in Requests : o # r => pc'[o] = pc[o]
    BY <2>1, GoFacts
  <2>3. TypeOK' BY <1>1, <2>1, <2>2 DEF TypeOK, Stages
  <2>4. Locked' = Locked \cup {r} BY <1>2, <2>2 DEF Locked
  <2>5. InMain' BY <1>1 DEF KeyParts, InMain
  <2>6. KeyHeldOnce'
    BY <1>1, <2>4 DEF KeyParts, KeyHeldOnce, LockFree, SameKey
  <2>7. ExecFits' BY <1>1, <2>2 DEF KeyParts, ExecFits, Fits, InCall
  <2>8. RowFits' BY <1>1, <2>2 DEF KeyParts, RowFits
  <2>9. IndexFits' /\ RowsIndexed'
    BY <1>1 DEF KeyParts, IndexFits, RowsIndexed
  <2>10. CallsIndexed' BY <1>1, <2>2 DEF KeyParts, CallsIndexed, InCall
  <2>11. SuccessEndsKey'
    <3> SUFFICES ASSUME NEW o \in Requests, NEW q \in Requests, backend = "memory",
                        SameKey(o, q), row[o] # NoRow,
                        row[o].status = "succeeded", q \in Locked'
                 PROVE  FALSE
      BY <1>1 DEF SuccessEndsKey, SameKey
    <3>1. q \notin Locked BY DEF KeyParts, SuccessEndsKey
    <3>2. q = r BY <2>4, <3>1
    <3>3. index[k] = o BY <3>2 DEF KeyParts, RowsIndexed, SameKey
    <3>4. o # NoRequest BY RuntimeAssumption
    <3> QED BY <1>5, <3>3, <3>4 DEF Replayable
  <2>12. AnswersDone' BY <1>1, <2>1, <2>2 DEF KeyParts, AnswersDone
  <2> QED BY <2>3, <2>5, <2>6, <2>7, <2>8, <2>9, <2>10, <2>11, <2>12 DEF KeyParts
<1> QED BY <1>4, <1>5

LEMMA AdmitKeeps ==
  ASSUME KeyInv, NEW r \in Requests, Admit(r)
  PROVE  KeyInv'
<1> USE DEF KeyInv
<1> DEFINE p == home[r]
           t == TargetOf[r]
<1>1. /\ pc[r] = "admit" /\ p \in Procs /\ t \in Targets
      /\ UNCHANGED <<backend, known, home, row, index, now, answer, aborts>>
  BY RuntimeAssumption DEF Admit, TypeOK
<1>2. PICK status \in {"running", "failed", "rejected"} : Settle(r, status)
  BY DEF Admit
<1>3. status \in ExecutionStatus BY DEF ExecutionStatus
<1>4. /\ exec' \in [Requests -> RuntimeExecution]
      /\ exec'[r].status = status /\ exec'[r].attempts = exec[r].attempts
      /\ \A o \in Requests : o # r => exec'[o] = exec[o]
      /\ pc' \in [Requests -> Stages] /\ pc'[r] = "save"
      /\ \A o \in Requests : o # r => pc'[o] = pc[o]
  BY <1>2, <1>3, SettleFacts
<1>5. Recent(p, t) \in Seq(Nat) /\ Append(Recent(p, t), now) \in Seq(Nat)
  <2>1. Recent(p, t) \in Seq(Nat) BY <1>1, RecentIsTail DEF Popped
  <2>2. now \in Nat BY DEF TypeOK
  <2> QED BY <2>1, <2>2, AppendProperties
<1>6. window' \in [Procs -> [Targets -> Seq(Nat)]]
  BY <1>1, <1>5, WindowTyped DEF Admit
<1>7. breaker' \in [Procs -> [Targets -> CircuitState]]
  <2>1. \/ UNCHANGED breaker
        \/ breaker' = [breaker EXCEPT ![p][t] = Probed(breaker[p][t])]
    BY DEF Admit
  <2>2. Probed(breaker[p][t]) \in CircuitState BY <1>1, CircuitTyped
  <2>3. CASE UNCHANGED breaker BY <2>3 DEF TypeOK
  <2>4. CASE breaker' = [breaker EXCEPT ![p][t] = Probed(breaker[p][t])]
    BY <1>1, <2>2, <2>4, BreakerTyped
  <2> QED BY <2>1, <2>3, <2>4
<1>8. /\ admitted' \in [Requests -> Nat \cup {Never}]
      /\ \A o \in Requests : o # r => admitted'[o] = admitted[o]
  <2>1. UNCHANGED admitted \/ admitted' = [admitted EXCEPT ![r] = now]
    BY DEF Admit
  <2> QED BY <2>1 DEF TypeOK
<1>9. TypeOK'
  BY <1>1, <1>4, <1>6, <1>7, <1>8 DEF TypeOK, Stages
<1>10. KeyParts'
  <2>1. InMain' BY <1>1 DEF KeyParts, InMain
  <2>2. r \in Locked' => r \in Locked BY <1>1 DEF Locked
  <2>3. Fits(r)' BY <1>4 DEF Fits, InCall, Terminal
  <2> QED BY <1>1, <1>4, <1>8, <2>1, <2>2, <2>3, InnerKeeps
<1> QED BY <1>9, <1>10

\* The answer of a save, or the first attempt after it.
LEMMA SaveKeeps ==
  ASSUME KeyInv, NEW r \in Requests, Save(r)
  PROVE  KeyInv'
<1> USE DEF KeyInv
<1>1. /\ pc[r] \in {"save", "saveraise"}
      /\ UNCHANGED <<backend, known, home, window, breaker, now, admitted, aborts>>
  BY DEF Save
<1>2. CASE Conflict(r)
  <2>1. Reply(r, Raised) /\ UNCHANGED <<exec, row, index>> BY <1>2 DEF Save
  <2>2. KeyParts' BY <1>1, <2>1, RuntimeAssumption, AnswerKeeps
  <2>3. TypeOK' BY <1>1, <2>1, ReplyFacts DEF TypeOK, Stages
  <2> QED BY <2>2, <2>3
<1>3. CASE ~Conflict(r) /\ exec[r].status = "running"
  <2>1. /\ Write(r) /\ Go(r, "calling") /\ UNCHANGED answer
        /\ exec' = [exec EXCEPT ![r].attempts = 1]
    BY <1>3 DEF Save
  <2>2. /\ pc' \in [Requests -> Stages] /\ pc'[r] = "calling"
        /\ \A o \in Requests : o # r => pc'[o] = pc[o]
    BY <2>1, GoFacts DEF Stages
  <2>3. /\ exec' \in [Requests -> RuntimeExecution]
        /\ exec'[r].status = "running" /\ exec'[r].attempts = 1
        /\ \A o \in Requests : o # r => exec'[o] = exec[o]
    BY <1>3, <2>1 DEF TypeOK, RuntimeExecution
  <2>4. Fits(r)' BY <2>2, <2>3, RuntimeAssumption DEF Fits, InCall
  <2>5. /\ KeyParts' /\ row' \in [Requests -> RuntimeExecution \cup {NoRow}]
        /\ index' \in [Keys -> Requests \cup {NoRequest}]
    BY <1>1, <1>3, <2>1, <2>2, <2>3, <2>4, WriteKeeps
  <2>6. TypeOK' BY <1>1, <2>1, <2>2, <2>3, <2>5 DEF TypeOK, Stages
  <2> QED BY <2>5, <2>6
<1>4. CASE ~Conflict(r) /\ exec[r].status # "running"
  <2> DEFINE a == IF pc[r] = "save" THEN r ELSE Raised
  <2>1. Write(r) /\ Reply(r, a) /\ UNCHANGED exec /\ a \in {r, Raised}
    BY <1>4 DEF Save
  <2> HIDE DEF a
  <2>2. /\ pc' \in [Requests -> Stages] /\ pc'[r] = "done"
        /\ answer' \in [Requests -> Requests \cup {NoRequest, Raised}]
        /\ answer'[r] = a
        /\ \A o \in Requests : o # r => pc'[o] = pc[o] /\ answer'[o] = answer[o]
        /\ \A o \in Requests : answer'[o] # NoRequest <=> pc'[o] = "done"
    BY <2>1, ReplyFacts
  <2>3. Fits(r)' BY <2>2 DEF Fits, InCall
  <2>4. \A o \in Requests : answer'[o] \in Requests =>
           \/ answer'[o] = r /\ pc'[r] = "done"
           \/ answer'[o] = answer[o]
    BY <2>1, <2>2, RuntimeAssumption
  <2>5. /\ KeyParts' /\ row' \in [Requests -> RuntimeExecution \cup {NoRow}]
        /\ index' \in [Keys -> Requests \cup {NoRequest}]
    BY <1>1, <1>4, <2>1, <2>2, <2>3, <2>4, WriteKeeps
  <2>6. TypeOK' BY <1>1, <2>1, <2>2, <2>5 DEF TypeOK, Stages
  <2> QED BY <2>5, <2>6
<1> QED BY <1>2, <1>3, <1>4

\* An adapter call that ends, and the next one.
LEMMA CallKeeps ==
  ASSUME KeyInv, NEW r \in Requests, CallSucceeds(r) \/ CallFails(r) \/ Retry(r)
  PROVE  KeyInv'
<1> USE DEF KeyInv
<1> DEFINE p == home[r]
           t == TargetOf[r]
<1>1. /\ pc[r] \in {"calling", "backoff"} /\ InCall(r) /\ p \in Procs /\ t \in Targets
      /\ UNCHANGED <<backend, known, home, row, index, window, now, answer,
                     admitted, aborts>>
  BY RuntimeAssumption DEF CallSucceeds, CallFails, Retry, TypeOK, InCall
<1>2. breaker' \in [Procs -> [Targets -> CircuitState]]
  <2>1. \/ UNCHANGED breaker
        \/ breaker' = [breaker EXCEPT ![p][t] = Closed]
        \/ breaker' = [breaker EXCEPT ![p][t] = Tripped(breaker[p][t])]
    BY <1>1 DEF CallSucceeds, CallFails, Retry, TypeOK
  <2>2. Tripped(breaker[p][t]) \in CircuitState /\ Closed \in CircuitState
    BY <1>1, CircuitTyped
  <2>3. CASE UNCHANGED breaker BY <2>3 DEF TypeOK
  <2>4. CASE breaker' = [breaker EXCEPT ![p][t] = Closed]
    BY <1>1, <2>2, <2>4, BreakerTyped
  <2>5. CASE breaker' = [breaker EXCEPT ![p][t] = Tripped(breaker[p][t])]
    BY <1>1, <2>2, <2>5, BreakerTyped
  <2> QED BY <2>1, <2>3, <2>4, <2>5
<1> DEFINE WentOn ==
             /\ exec' \in [Requests -> RuntimeExecution]
             /\ \A o \in Requests : o # r => exec'[o] = exec[o] /\ pc'[o] = pc[o]
             /\ pc' \in [Requests -> Stages] /\ pc'[r] \in {"save", "calling", "backoff"}
             /\ Fits(r)'
<1>3. WentOn
  <2>1. ASSUME NEW status \in {"succeeded", "failed"}, Settle(r, status)
        PROVE  WentOn
    <3>1. status \in ExecutionStatus BY DEF ExecutionStatus
    <3> QED BY <1>1, <2>1, <3>1, SettleFacts DEF Fits, InCall, Terminal
  <2>2. CASE Go(r, "backoff") /\ UNCHANGED exec /\ exec[r].attempts <= MaxRetries[r]
    <3>1. "backoff" \in Stages BY DEF Stages
    <3>2. /\ pc' \in [Requests -> Stages] /\ pc'[r] = "backoff"
          /\ \A o \in Requests : o # r => pc'[o] = pc[o]
      BY <2>2, <3>1, GoFacts
    <3>3. exec[r].status = "running" /\ exec[r].attempts <= MaxRetries[r] + 1
      BY <1>1 DEF KeyParts, ExecFits, Fits
    <3> QED BY <2>2, <3>2, <3>3 DEF TypeOK, Fits, InCall
  <2>3. CASE Retry(r)
    <3>1. "calling" \in Stages /\ Go(r, "calling") BY <2>3 DEF Retry, Stages
    <3>2. /\ pc' \in [Requests -> Stages] /\ pc'[r] = "calling"
          /\ \A o \in Requests : o # r => pc'[o] = pc[o]
      BY <3>1, GoFacts
    <3>3. /\ exec[r].status = "running" /\ exec[r].attempts <= MaxRetries[r]
          /\ exec[r].attempts \in Nat /\ MaxRetries[r] \in Nat
      BY <2>3, RuntimeAssumption
      DEF Retry, KeyParts, ExecFits, Fits, InCall, TypeOK, RuntimeExecution
    <3>4. /\ exec' \in [Requests -> RuntimeExecution]
          /\ exec'[r].status = "running" /\ exec'[r].attempts = exec[r].attempts + 1
          /\ \A o \in Requests : o # r => exec'[o] = exec[o]
      <4>1. exec' = [exec EXCEPT ![r].attempts = @ + 1] BY <2>3 DEF Retry
      <4>2. exec[r] \in RuntimeExecution BY DEF TypeOK
      <4>3. /\ [exec[r] EXCEPT !.attempts = @ + 1] \in RuntimeExecution
            /\ [exec[r] EXCEPT !.attempts = @ + 1].status = exec[r].status
            /\ [exec[r] EXCEPT !.attempts = @ + 1].attempts = exec[r].attempts + 1
        BY <3>3, <4>2 DEF RuntimeExecution
      <4> QED BY <3>3, <4>1, <4>3 DEF TypeOK
    <3> QED BY <3>2, <3>3, <3>4 DEF Fits, InCall
  <2> QED BY <2>1, <2>2, <2>3 DEF CallSucceeds, CallFails
<1>4. TypeOK'
  BY <1>1, <1>2, <1>3 DEF TypeOK, Stages
<1>5. KeyParts'
  <2>1. InMain' BY <1>1 DEF KeyParts, InMain
  <2>2. r \in Locked' => r \in Locked BY <1>1 DEF Locked
  <2> QED BY <1>1, <1>3, <2>1, <2>2, InnerKeeps
<1> QED BY <1>4, <1>5
LEMMA CancelKeeps ==
  ASSUME KeyInv, NEW r \in Requests, Cancel(r)
  PROVE  KeyInv'
<1> USE DEF KeyInv
<1>1. UNCHANGED <<backend, known, home, window, breaker, now, admitted>>
      /\ aborts' \in Nat
  BY DEF Cancel, TypeOK
<1>2. CASE /\ pc[r] = "calling" /\ Go(r, "saveraise")
           /\ exec' = [exec EXCEPT ![r].status = "failed"]
           /\ UNCHANGED <<row, index, answer>>
  <2>1. /\ pc' \in [Requests -> Stages] /\ pc'[r] = "saveraise"
        /\ \A o \in Requests : o # r => pc'[o] = pc[o]
    BY <1>2, GoFacts DEF Stages
  <2>2. /\ exec' \in [Requests -> RuntimeExecution] /\ exec'[r].status = "failed"
        /\ \A o \in Requests : o # r => exec'[o] = exec[o]
    BY <1>2 DEF TypeOK, RuntimeExecution, ExecutionStatus
  <2>3. TypeOK' BY <1>1, <1>2, <2>1, <2>2 DEF TypeOK, Stages
  <2>4. Fits(r)' BY <2>1, <2>2 DEF Fits, InCall, Terminal
  <2>5. InMain' BY <1>1 DEF KeyParts, InMain
  <2>6. r \in Locked' => r \in Locked BY <1>2 DEF Locked
  <2>7. KeyParts' BY <1>1, <1>2, <2>1, <2>2, <2>4, <2>5, <2>6, InnerKeeps
  <2> QED BY <2>3, <2>7
<1>3. CASE /\ pc[r] \in {"waiting", "admit", "save", "saveraise", "backoff"}
           /\ Reply(r, Raised) /\ UNCHANGED <<exec, row, index>>
  <2>1. KeyParts' BY <1>1, <1>3, RuntimeAssumption, AnswerKeeps
  <2>2. TypeOK' BY <1>1, <1>3, ReplyFacts DEF TypeOK, Stages
  <2> QED BY <2>1, <2>2
<1>4. CASE /\ pc[r] \in {"save", "saveraise"} /\ ~Conflict(r) /\ Write(r)
           /\ Reply(r, Raised) /\ UNCHANGED exec
  <2>1. /\ pc' \in [Requests -> Stages] /\ pc'[r] = "done"
        /\ answer' \in [Requests -> Requests \cup {NoRequest, Raised}]
        /\ answer'[r] = Raised
        /\ \A o \in Requests : o # r => pc'[o] = pc[o] /\ answer'[o] = answer[o]
        /\ \A o \in Requests : answer'[o] # NoRequest <=> pc'[o] = "done"
    BY <1>4, ReplyFacts
  <2>2. Fits(r)' BY <2>1 DEF Fits, InCall
  <2>3. \A o \in Requests : answer'[o] \in Requests =>
           \/ answer'[o] = r /\ pc'[r] = "done"
           \/ answer'[o] = answer[o]
    BY <2>1, RuntimeAssumption
  <2>4. /\ KeyParts' /\ row' \in [Requests -> RuntimeExecution \cup {NoRow}]
        /\ index' \in [Keys -> Requests \cup {NoRequest}]
    BY <1>1, <1>4, <2>1, <2>2, <2>3, WriteKeeps
  <2>5. TypeOK' BY <1>1, <1>4, <2>1, <2>4 DEF TypeOK, Stages
  <2> QED BY <2>4, <2>5
<1> QED BY <1>2, <1>3, <1>4 DEF Cancel

\* What dies with a process: with the memory backend it is everything.
LEMMA CrashKeeps ==
  ASSUME KeyInv, NEW p \in Procs, Crash(p)
  PROVE  KeyInv'
<1> USE DEF KeyInv
<1> DEFINE inside == {r \in Requests : home[r] = p /\ pc[r] \notin {"idle", "done"}}
<1>1. /\ Deployed(p) /\ UNCHANGED <<backend, known, home, exec, now>>
      /\ aborts' \in Nat
  BY DEF Crash, TypeOK
<1>2. /\ pc' \in [Requests -> Stages]
      /\ \A r \in Requests : pc'[r] = IF r \in inside THEN "done" ELSE pc[r]
  BY DEF Crash, TypeOK, Stages
<1>3. /\ answer' \in [Requests -> Requests \cup {NoRequest, Raised}]
      /\ \A r \in Requests : answer'[r] = IF r \in inside THEN Raised ELSE answer[r]
  BY DEF Crash, TypeOK
<1>4. /\ row' \in [Requests -> RuntimeExecution \cup {NoRow}]
      /\ backend = "postgres" => \A r \in Requests : row'[r] = row[r]
      /\ backend # "postgres" => \A r \in Requests : row'[r] = NoRow
  BY DEF Crash, TypeOK
<1>5. /\ index' \in [Keys -> Requests \cup {NoRequest}]
      /\ backend = "postgres" => \A k \in Keys : index'[k] = index[k]
      /\ backend # "postgres" => \A k \in Keys : index'[k] = NoRequest
  BY DEF Crash, TypeOK
<1>6. /\ window' \in [Procs -> [Targets -> Seq(Nat)]]
      /\ breaker' \in [Procs -> [Targets -> CircuitState]]
  <2>1. [t \in Targets |-> <<>>] \in [Targets -> Seq(Nat)] OBVIOUS
  <2>2. [t \in Targets |-> Closed] \in [Targets -> CircuitState]
    BY DEF Closed, CircuitState
  <2> QED BY <2>1, <2>2 DEF Crash, TypeOK
<1>7. /\ admitted' \in [Requests -> Nat \cup {Never}]
      /\ \A r \in Requests : admitted'[r] = IF home[r] = p THEN Never ELSE admitted[r]
  BY DEF Crash, TypeOK
<1>8. TypeOK'
  <2>1. \A r \in Requests : answer'[r] # NoRequest <=> pc'[r] = "done"
    BY <1>2, <1>3, RuntimeAssumption DEF TypeOK
  <2> QED BY <1>1, <1>2, <1>3, <1>4, <1>5, <1>6, <1>7, <2>1 DEF TypeOK, Stages
<1>9. Locked' \subseteq Locked BY <1>2 DEF Locked
<1>10. ASSUME backend # "postgres", NEW r \in Requests
       PROVE  pc'[r] \in {"idle", "done"}
  <2>1. backend = "memory" BY <1>10, RuntimeAssumption DEF TypeOK
  <2>2. home[r] = p BY <1>1, <2>1 DEF KeyParts, InMain, Deployed
  <2> QED BY <1>2, <2>2
<1>11. InMain' BY <1>1 DEF KeyParts, InMain
<1>12. KeyHeldOnce' BY <1>1, <1>9 DEF KeyParts, KeyHeldOnce, SameKey
<1>13. ExecFits'
  BY <1>1, <1>2, <1>4, <1>7 DEF KeyParts, ExecFits, Fits, InCall
<1>14. RowFits' BY <1>1, <1>2, <1>4 DEF KeyParts, RowFits
<1>15. IndexFits'
  <2> SUFFICES ASSUME NEW k \in Keys, index'[k] # NoRequest
               PROVE  KeyOf[index'[k]] = k /\ row'[index'[k]] # NoRow
    BY DEF IndexFits
  <2>1. index'[k] = index[k] /\ index[k] \in Requests /\ backend = "postgres"
    BY <1>5 DEF TypeOK
  <2> QED BY <1>4, <2>1 DEF KeyParts, IndexFits
<1>16. CallsIndexed'
  <2> SUFFICES ASSUME NEW r \in Requests, InCall(r)', KeyOf[r] # NoKey
               PROVE  index'[KeyOf[r]] = r
    BY DEF CallsIndexed
  <2>1. backend = "postgres" /\ InCall(r) BY <1>2, <1>10 DEF InCall
  <2>2. KeyOf[r] \in Keys BY RuntimeAssumption
  <2> QED BY <1>5, <2>1, <2>2 DEF KeyParts, CallsIndexed
<1>17. RowsIndexed'
  <2> SUFFICES ASSUME NEW o \in Requests, KeyOf[o] # NoKey, row'[o] # NoRow
               PROVE  index'[KeyOf[o]] = o
    BY DEF RowsIndexed
  <2>1. backend = "postgres" /\ row[o] # NoRow BY <1>4
  <2>2. KeyOf[o] \in Keys BY RuntimeAssumption
  <2> QED BY <1>5, <2>1, <2>2 DEF KeyParts, RowsIndexed
<1>18. SuccessEndsKey' BY <1>1, <1>4 DEF SuccessEndsKey
<1>19. AnswersDone' BY <1>2, <1>3, RuntimeAssumption DEF KeyParts, AnswersDone
<1> QED BY <1>8, <1>11, <1>12, <1>13, <1>14, <1>15, <1>16, <1>17, <1>18, <1>19
        DEF KeyParts

\* Steps that touch neither requests nor rows.
LEMMA IdleKeeps ==
  ASSUME KeyInv, Tick \/ UNCHANGED vars
  PROVE  KeyInv'
<1>1. /\ UNCHANGED <<backend, known, home, pc, exec, row, index, window, breaker,
                     answer, admitted, aborts>>
      /\ now' \in Nat
  BY DEF KeyInv, TypeOK, Tick, vars
<1>2. TypeOK' BY <1>1 DEF KeyInv, TypeOK
<1>3. KeyParts'
  BY <1>1 DEF KeyInv, KeyParts, InMain, KeyHeldOnce, Locked, ExecFits, Fits, InCall,
              RowFits, IndexFits, CallsIndexed, RowsIndexed, SuccessEndsKey,
              AnswersDone
<1> QED BY <1>2, <1>3 DEF KeyInv

LEMMA KeysInitially == Init => KeyInv
<1> SUFFICES ASSUME Init PROVE KeyInv OBVIOUS
<1>1. TypeOK
  <2>1. [status |-> "pending", attempts |-> 0] \in RuntimeExecution
    BY DEF RuntimeExecution, ExecutionStatus
  <2>2. Closed \in CircuitState BY DEF Closed, CircuitState
  <2> QED BY <2>1, <2>2, RuntimeAssumption DEF Init, TypeOK
<1>2. Locked = {} BY DEF Init, Locked
<1>3. InMain /\ KeyHeldOnce /\ SuccessEndsKey
  BY <1>2 DEF Init, InMain, KeyHeldOnce, SuccessEndsKey
<1>4. ExecFits BY DEF Init, ExecFits, Fits, InCall
<1>5. RowFits /\ IndexFits /\ CallsIndexed /\ RowsIndexed
  BY DEF Init, RowFits, IndexFits, CallsIndexed, RowsIndexed, InCall
<1>6. AnswersDone BY RuntimeAssumption DEF Init, AnswersDone
<1> QED BY <1>1, <1>3, <1>4, <1>5, <1>6 DEF KeyInv, KeyParts

\* Every step of the runtime.
LEMMA NextKeeps == KeyInv /\ [Next]_vars => KeyInv'
<1> SUFFICES ASSUME KeyInv, [Next]_vars PROVE KeyInv' OBVIOUS
<1>1. CASE \E r \in Requests, p \in Procs : Enter(r, p) BY <1>1, EnterKeeps
<1>2. CASE \E r \in Requests : Step(r) \/ Cancel(r)
  BY <1>2, LookupKeeps, AdmitKeeps, SaveKeeps, CallKeeps, CancelKeeps DEF Step
<1>3. CASE \E p \in Procs : Crash(p) BY <1>3, CrashKeeps
<1>4. CASE Tick \/ Rest \/ UNCHANGED vars BY <1>4, IdleKeeps DEF Rest
<1> QED BY <1>1, <1>2, <1>3, <1>4 DEF Next

-----------------------------------------------------------------------------
(* What follows for keys, rows and answers *)

\* The invariant the theorems about keys and answers rest on.
THEOREM KeysHold == Spec => []KeyInv
  BY KeysInitially, NextKeeps, PTL DEF Spec

\* models.py:11-38 and circuit_breaker.py:5-8: whatever arrives, is cancelled or
\* dies, every object keeps its type and exactly the done requests have an answer.
THEOREM RuntimeTypeCorrect == Spec => []TypeOK
<1>1. KeyInv => TypeOK BY DEF KeyInv
<1> QED BY KeysHold, <1>1, PTL

\* service.py:24-35 and the unique index of 001:59-61: for any requests, processes
\* and crashes, two executions of one key are never under way together.
THEOREM SameKeyExclusiveHolds == Spec => []SameKeyExclusive
<1>1. KeyInv => SameKeyExclusive
  BY DEF KeyInv, KeyParts, CallsIndexed, SameKeyExclusive, SameKey
<1> QED BY KeysHold, <1>1, PTL

\* Who writes rows: a request at a save, or a crash that wipes the memory.
LEMMA RowsMove ==
  ASSUME KeyInv, [Next]_vars
  PROVE  \/ UNCHANGED row
         \/ \E q \in Requests : pc[q] \in {"save", "saveraise"} /\ Write(q)
         \/ backend # "postgres"
<1>1. CASE \E r \in Requests, p \in Procs : Enter(r, p) BY <1>1 DEF Enter
<1>2. CASE \E r \in Requests : Lookup(r) \/ Admit(r) BY <1>2 DEF Lookup, Admit
<1>3. CASE \E r \in Requests : Save(r) BY <1>3 DEF Save
<1>4. CASE \E r \in Requests : CallSucceeds(r) \/ CallFails(r) \/ Retry(r)
  BY <1>4 DEF CallSucceeds, CallFails, Retry
<1>5. CASE \E r \in Requests : Cancel(r) BY <1>5 DEF Cancel
<1>6. CASE \E p \in Procs : Crash(p)
  <2>1. backend = "postgres" => row' = [r \in Requests |-> row[r]]
    BY <1>6 DEF Crash
  <2>2. row = [r \in Requests |-> row[r]] BY DEF KeyInv, TypeOK
  <2> QED BY <2>1, <2>2
<1>7. CASE Tick \/ Rest \/ UNCHANGED vars BY <1>7 DEF Tick, Rest, vars
<1> QED BY <1>1, <1>2, <1>3, <1>4, <1>5, <1>6, <1>7 DEF Next, Step

\* An answer that names an execution names a stored, final one.
LEMMA AnswersAreFinal ==
  ASSUME KeyInv, [Next]_vars, NEW r \in Requests,
         answer'[r] \in Requests, answer[r] = NoRequest
  PROVE  /\ answer'[r] \in Final'
         /\ answer'[r] # r => /\ SameKey(r, answer'[r])
                             /\ row'[answer'[r]].status = "succeeded"
<1> USE DEF KeyInv
<1>0. answer'[r] \notin {NoRequest, Raised} BY RuntimeAssumption
<1>1. ASSUME NEW q \in Requests, Lookup(q) PROVE q = r /\ Reply(r, index[KeyOf[r]])
                                              /\ Replayable(index[KeyOf[r]])
  <2>1. Replayable(index[KeyOf[q]]) /\ Reply(q, index[KeyOf[q]])
    BY <1>0, <1>1 DEF Lookup
  <2>2. q = r BY <1>0, <2>1 DEF Reply, TypeOK
  <2> QED BY <2>1, <2>2
<1>2. CASE Lookup(r)
  <2> DEFINE k == KeyOf[r]
             o == index[k]
  <2>1. /\ answer'[r] = o /\ UNCHANGED <<row, exec>> /\ row[o].status = "succeeded"
    BY <1>1, <1>2 DEF Lookup, Reply, TypeOK, Replayable
  <2>2. k # NoKey /\ k \in Keys /\ o \in Requests
    BY <1>2, <2>1, RuntimeAssumption DEF Lookup, KeyParts, ExecFits, Fits
  <2>3. KeyOf[o] = k /\ row[o] # NoRow
    BY <2>2, RuntimeAssumption DEF KeyParts, IndexFits
  <2>4. row[o] = exec[o] BY <2>1, <2>2, <2>3 DEF KeyParts, RowFits, Terminal
  <2> QED BY <2>1, <2>2, <2>3, <2>4 DEF Final, Terminal, SameKey
<1>3. ASSUME NEW q \in Requests, Save(q) PROVE q = r /\ Reply(r, r) /\ Write(r)
                                             /\ UNCHANGED exec /\ Fits(r)
                                             /\ exec[r].status # "running"
                                             /\ pc[r] = "save"
  <2>1. ~Conflict(q) /\ exec[q].status # "running" /\ UNCHANGED exec /\ Write(q)
        /\ Reply(q, IF pc[q] = "save" THEN q ELSE Raised)
    BY <1>0, <1>3 DEF Save, Reply, TypeOK
  <2>2. q = r /\ pc[q] = "save" BY <1>0, <2>1 DEF Reply, TypeOK
  <2> QED BY <2>1, <2>2 DEF KeyParts, ExecFits
<1>4. CASE Save(r)
  <2>1. answer'[r] = r /\ row'[r] = exec[r] /\ UNCHANGED exec
    BY <1>3, <1>4 DEF Reply, TypeOK, Write
  <2>2. exec[r] # NoRow BY NoRowAssumption DEF TypeOK
  <2>3. exec[r].status \in Terminal BY <1>3, <1>4 DEF Fits
  <2> QED BY <2>1, <2>2, <2>3 DEF Final
<1>5. ASSUME NEW q \in Requests, Cancel(q) PROVE FALSE
  BY <1>0, <1>5 DEF Cancel, Reply, TypeOK
<1>6. ASSUME NEW p \in Procs, Crash(p) PROVE FALSE
  BY <1>0, <1>6 DEF Crash
<1>7. ASSUME UNCHANGED answer PROVE FALSE BY <1>0, <1>7
<1>8. CASE Next
  BY <1>1, <1>2, <1>3, <1>4, <1>5, <1>6, <1>7, <1>8
  DEF Next, Step, Enter, Admit, CallSucceeds, CallFails, Retry, Tick, Rest, vars
<1> QED BY <1>7, <1>8 DEF vars

\* service.py:33-35 and 98-114: what execute returns is stored in its final state,
\* a replayed execution is a success of the same key, and Postgres keeps both.
THEOREM AnswerStoredHolds == Spec => AnswerStored
<1> DEFINE A == \A r \in Requests :
                  /\ answer'[r] \in Requests /\ answer[r] = NoRequest =>
                       /\ answer'[r] \in Final'
                       /\ answer'[r] # r => /\ SameKey(r, answer'[r])
                                           /\ row'[answer'[r]].status = "succeeded"
                  /\ answer[r] \in Requests /\ backend = "postgres" =>
                       row'[answer[r]] = row[answer[r]]
<1>1. KeyInv /\ [Next]_vars => A
  <2> SUFFICES ASSUME KeyInv, [Next]_vars, NEW r \in Requests,
                      answer[r] \in Requests, backend = "postgres"
               PROVE  row'[answer[r]] = row[answer[r]]
    BY AnswersAreFinal
  <2>1. pc[answer[r]] = "done" BY DEF KeyInv, KeyParts, AnswersDone
  <2>2. ASSUME NEW q \in Requests, pc[q] \in {"save", "saveraise"}, Write(q)
        PROVE  row'[answer[r]] = row[answer[r]]
    BY <2>1, <2>2 DEF Write, KeyInv, TypeOK
  <2> QED BY <2>2, RowsMove
<1> HIDE DEF A
<1>2. Spec => [][A]_<<answer, row>>
  BY KeysHold, <1>1, PTL DEF Spec
<1> QED BY <1>2 DEF A, AnswerStored

\* service.py:33-35: once a key has a stored success, no process calls the
\* provider for it again.
THEOREM NoCallOnceSucceededHolds == Spec => NoCallOnceSucceeded
<1> DEFINE A == \A r, o \in Requests :
                  /\ SameKey(r, o) /\ row[o] # NoRow /\ row[o].status = "succeeded"
                  /\ pc'[r] = "calling"
                  => pc[r] = "calling"
<1>1. KeyInv /\ [Next]_vars => A
  <2> SUFFICES ASSUME KeyInv, [Next]_vars, NEW r \in Requests, NEW o \in Requests,
                      SameKey(r, o), row[o] # NoRow, row[o].status = "succeeded",
                      pc'[r] = "calling", pc[r] # "calling"
               PROVE  FALSE
    OBVIOUS
  <2> USE DEF KeyInv
  <2>1. pc[o] = "done" /\ index[KeyOf[o]] = o /\ KeyOf[r] = KeyOf[o]
    BY DEF KeyParts, RowFits, RowsIndexed, SameKey
  <2>2. (Save(r) /\ ~Conflict(r)) \/ pc[r] = "backoff"
    <3>1. ASSUME NEW q \in Requests, Step(q) PROVE (Save(r) /\ ~Conflict(r)) \/ Retry(r)
      <4>1. q = r
        BY <3>1 DEF Step, Lookup, Admit, Save, CallSucceeds, CallFails, Retry, Settle,
                    Reply, Go, TypeOK
      <4> QED BY <3>1, <4>1
          DEF Step, Lookup, Admit, Save, CallSucceeds, CallFails, Retry, Settle,
              Reply, Go, TypeOK
    <3>2. ASSUME NEW q \in Requests, Cancel(q) PROVE FALSE
      BY <3>2 DEF Cancel, Reply, Go, TypeOK
    <3>3. ASSUME NEW q \in Requests, NEW p \in Procs, Enter(q, p) PROVE FALSE
      BY <3>3 DEF Enter, Go, TypeOK
    <3>4. ASSUME NEW p \in Procs, Crash(p) PROVE FALSE
      BY <3>4 DEF Crash
    <3> QED BY <3>1, <3>2, <3>3, <3>4 DEF Next, Tick, Rest, vars, Retry
  <2>3. r \in Locked
    BY <2>2 DEF Locked, SameKey, Save
  <2>4. backend = "postgres"
    <3>1. backend # "memory" BY <2>3 DEF KeyParts, SuccessEndsKey, SameKey
    <3> QED BY <3>1, RuntimeAssumption DEF TypeOK
  <2>5. r # o BY <2>1, <2>3 DEF Locked
  <2>6. CASE pc[r] = "backoff"
    <3>1. index[KeyOf[r]] = r BY <2>6 DEF KeyParts, CallsIndexed, InCall, SameKey
    <3> QED BY <2>1, <2>5, <3>1
  <2>7. CASE Save(r) /\ ~Conflict(r)
    BY <2>1, <2>4, <2>5, <2>7, RuntimeAssumption DEF Conflict, SameKey
  <2> QED BY <2>2, <2>6, <2>7
<1> HIDE DEF A
<1>2. Spec => [][A]_vars
  BY KeysHold, <1>1, PTL DEF Spec
<1> QED BY <1>2 DEF A, NoCallOnceSucceeded

-----------------------------------------------------------------------------
(* The runtime is a KeyedExecution *)

\* Once the provider was called for a request its execution is stored, and its
\* key leads to it until the request is done.
StoreFits(r) ==
  pc[r] \in {"save", "saveraise", "calling", "backoff"} =>
    IF row[r] = NoRow
    THEN pc[r] = "save" /\ exec[r].attempts = 0 /\ exec[r].status # "succeeded"
    ELSE /\ exec[r].attempts \in 1..(MaxRetries[r] + 1)
         /\ Keyed!Holds(r)
         /\ ~InCall(r) => exec[r].status \in {"succeeded", "failed"}

StoreInv == \A r \in Requests : StoreFits(r)

\* Who writes its row has the key to itself.
LEMMA WriterAlone ==
  ASSUME KeyInv, NEW r \in Requests, pc[r] \in {"save", "saveraise"}, ~Conflict(r),
         NEW o \in Requests, o # r, SameKey(r, o), index[KeyOf[r]] = o
  PROVE  backend # "postgres" /\ o \notin Locked
<1> USE DEF KeyInv, KeyParts
<1>1. index[KeyOf[r]] \notin {NoRequest, r} BY RuntimeAssumption
<1>2. backend # "postgres" BY <1>1 DEF Conflict, SameKey
<1>3. backend = "memory" BY <1>2, RuntimeAssumption DEF TypeOK
<1>4. home[o] = home[r] BY <1>3 DEF InMain
<1>5. r \in Locked BY DEF Locked, SameKey
<1> QED BY <1>2, <1>4, <1>5 DEF KeyHeldOnce

\* Steps of r that store nothing leave the others as they are.
LEMMA OthersFit ==
  ASSUME StoreInv, NEW r \in Requests,
         \A o \in Requests \ {r} : pc'[o] = pc[o] /\ exec'[o] = exec[o],
         UNCHANGED <<row, index>>, StoreFits(r)'
  PROVE  StoreInv'
  BY DEF StoreInv, StoreFits, Keyed!Holds, InCall

LEMMA WriteFits ==
  ASSUME KeyInv, StoreInv, NEW r \in Requests, pc[r] \in {"save", "saveraise"},
         ~Conflict(r), Write(r),
         \A o \in Requests \ {r} : pc'[o] = pc[o] /\ exec'[o] = exec[o],
         pc'[r] = "done" \/ (pc'[r] = "calling" /\ exec'[r].attempts = 1)
  PROVE  StoreInv'
<1> USE DEF KeyInv
<1>1. /\ row'[r] = exec[r] /\ row'[r] # NoRow
      /\ \A o \in Requests \ {r} : row'[o] = row[o]
  BY NoRowAssumption DEF Write, TypeOK
<1>2. \A k \in Keys : index'[k] = IF k = KeyOf[r] THEN r ELSE index[k]
  BY DEF Write
<1>3. StoreFits(r)'
  BY <1>1, <1>2, RuntimeAssumption DEF StoreFits, Keyed!Holds, InCall
<1>4. ASSUME NEW o \in Requests \ {r} PROVE StoreFits(o)'
  <2>1. StoreFits(o) BY DEF StoreInv
  <2>2. CASE pc[o] \in {"save", "saveraise", "calling", "backoff"} /\ row[o] # NoRow
                /\ KeyOf[o] # NoKey
    <3>1. index[KeyOf[o]] = o /\ KeyOf[o] \in Keys /\ o \in Locked
      BY <2>1, <2>2, RuntimeAssumption DEF StoreFits, Keyed!Holds, Locked
    <3>2. KeyOf[o] # KeyOf[r]
      BY <2>2, <3>1, WriterAlone DEF SameKey
    <3> QED BY <1>1, <1>2, <2>1, <3>1, <3>2 DEF StoreFits, Keyed!Holds, InCall
  <2>3. CASE ~(pc[o] \in {"save", "saveraise", "calling", "backoff"} /\ row[o] # NoRow
                /\ KeyOf[o] # NoKey)
    BY <1>1, <2>1, <2>3 DEF StoreFits, Keyed!Holds, InCall
  <2> QED BY <2>2, <2>3
<1> QED BY <1>3, <1>4 DEF StoreInv

LEMMA StoreInitially == Init => StoreInv
  BY DEF Init, StoreInv, StoreFits

LEMMA StoreStep == KeyInv /\ StoreInv /\ [Next]_vars => StoreInv'
<1> SUFFICES ASSUME KeyInv, StoreInv, [Next]_vars PROVE StoreInv'
  OBVIOUS
<1> USE DEF KeyInv
<1>1. ASSUME NEW r \in Requests, NEW p \in Procs, Enter(r, p) PROVE StoreInv'
  <2>1. /\ pc'[r] \in {"admit", "waiting"} /\ \A o \in Requests \ {r} : pc'[o] = pc[o]
        /\ UNCHANGED <<exec, row, index>>
    BY <1>1 DEF Enter, Go, TypeOK
  <2>2. StoreFits(r)' BY <2>1 DEF StoreFits
  <2> QED BY <2>1, <2>2, OthersFit
<1>2. ASSUME NEW r \in Requests, Lookup(r) PROVE StoreInv'
  <2>1. /\ pc'[r] \in {"admit", "done"} /\ \A o \in Requests \ {r} : pc'[o] = pc[o]
        /\ UNCHANGED <<exec, row, index>>
    BY <1>2 DEF Lookup, Reply, Go, TypeOK
  <2>2. StoreFits(r)' BY <2>1 DEF StoreFits
  <2> QED BY <2>1, <2>2, OthersFit
<1>3. ASSUME NEW r \in Requests, Admit(r) PROVE StoreInv'
  <2>1. PICK status \in {"running", "failed", "rejected"} : Settle(r, status)
    BY <1>3 DEF Admit
  <2>2. /\ exec'[r].status = status /\ exec'[r].attempts = exec[r].attempts
        /\ pc'[r] = "save"
        /\ \A o \in Requests \ {r} : pc'[o] = pc[o] /\ exec'[o] = exec[o]
    BY <2>1, SettleFacts DEF ExecutionStatus
  <2>3. UNCHANGED <<row, index>> /\ row[r] = NoRow /\ exec[r].attempts = 0
    BY <1>3 DEF Admit, KeyParts, ExecFits, Fits
  <2>4. StoreFits(r)' BY <2>2, <2>3 DEF StoreFits
  <2> QED BY <2>2, <2>3, <2>4, OthersFit
<1>4. ASSUME NEW r \in Requests, Save(r) PROVE StoreInv'
  <2>1. CASE Conflict(r)
    <3>1. Reply(r, Raised) /\ UNCHANGED <<exec, row, index>> BY <1>4, <2>1 DEF Save
    <3>2. pc'[r] = "done" /\ \A o \in Requests \ {r} : pc'[o] = pc[o]
      BY <3>1 DEF Reply, Go, TypeOK
    <3>3. StoreFits(r)' BY <3>2 DEF StoreFits
    <3> QED BY <3>1, <3>2, <3>3, OthersFit
  <2>2. CASE ~Conflict(r)
    <3>1. /\ pc[r] \in {"save", "saveraise"} /\ Write(r)
          /\ \A o \in Requests \ {r} : pc'[o] = pc[o] /\ exec'[o] = exec[o]
          /\ pc'[r] = "done" \/ (pc'[r] = "calling" /\ exec'[r].attempts = 1)
      BY <1>4, <2>2 DEF Save, Reply, Go, TypeOK, RuntimeExecution
    <3> QED BY <2>2, <3>1, WriteFits
  <2> QED BY <2>1, <2>2
<1>5. ASSUME NEW r \in Requests, CallSucceeds(r) \/ CallFails(r) \/ Retry(r)
      PROVE  StoreInv'
  <2>1. InCall(r) /\ UNCHANGED <<row, index>>
    BY <1>5 DEF CallSucceeds, CallFails, Retry, InCall
  <2>2. row[r] # NoRow /\ exec[r].attempts \in 1..(MaxRetries[r] + 1) /\ Keyed!Holds(r)
    BY <2>1 DEF StoreInv, StoreFits, InCall
  <2>3. Keyed!Holds(r)' BY <2>1, <2>2 DEF Keyed!Holds
  <2>4. ASSUME NEW status \in {"succeeded", "failed"}, Settle(r, status)
        PROVE  StoreInv'
    <3>1. /\ exec'[r].status = status /\ exec'[r].attempts = exec[r].attempts
          /\ pc'[r] = "save"
          /\ \A o \in Requests \ {r} : pc'[o] = pc[o] /\ exec'[o] = exec[o]
      BY <2>4, SettleFacts DEF ExecutionStatus
    <3>2. StoreFits(r)' BY <2>1, <2>2, <2>3, <3>1 DEF StoreFits, InCall
    <3> QED BY <2>1, <3>1, <3>2, OthersFit
  <2>5. CASE Go(r, "backoff") /\ UNCHANGED exec
    <3>1. pc'[r] = "backoff" /\ \A o \in Requests \ {r} : pc'[o] = pc[o]
      BY <2>5 DEF Go, TypeOK
    <3>2. StoreFits(r)' BY <2>1, <2>2, <2>3, <2>5, <3>1 DEF StoreFits, InCall
    <3> QED BY <2>1, <2>5, <3>1, <3>2, OthersFit
  <2>6. CASE Retry(r)
    <3>1. /\ pc'[r] = "calling" /\ exec'[r].attempts = exec[r].attempts + 1
          /\ \A o \in Requests \ {r} : pc'[o] = pc[o] /\ exec'[o] = exec[o]
          /\ exec[r].attempts <= MaxRetries[r]
      BY <2>6 DEF Retry, Go, TypeOK, RuntimeExecution, KeyParts, ExecFits, Fits
    <3>2. exec'[r].attempts \in 1..(MaxRetries[r] + 1)
      BY <2>2, <3>1, RuntimeAssumption DEF TypeOK, RuntimeExecution
    <3>3. StoreFits(r)' BY <2>1, <2>2, <2>3, <3>1, <3>2 DEF StoreFits, InCall
    <3> QED BY <2>1, <3>1, <3>3, OthersFit
  <2> QED BY <1>5, <2>4, <2>5, <2>6 DEF CallSucceeds, CallFails
<1>6. ASSUME NEW r \in Requests, Cancel(r) PROVE StoreInv'
  <2>1. CASE /\ pc[r] = "calling" /\ Go(r, "saveraise")
             /\ exec' = [exec EXCEPT ![r].status = "failed"]
             /\ UNCHANGED <<row, index, answer>>
    <3>1. /\ pc'[r] = "saveraise" /\ exec'[r].attempts = exec[r].attempts
          /\ exec'[r].status = "failed"
          /\ \A o \in Requests \ {r} : pc'[o] = pc[o] /\ exec'[o] = exec[o]
      BY <2>1 DEF Go, TypeOK, RuntimeExecution
    <3>2. row[r] # NoRow /\ exec[r].attempts \in 1..(MaxRetries[r] + 1) /\ Keyed!Holds(r)
      BY <2>1 DEF StoreInv, StoreFits
    <3>3. StoreFits(r)' BY <2>1, <3>1, <3>2 DEF StoreFits, InCall, Keyed!Holds
    <3> QED BY <2>1, <3>1, <3>3, OthersFit
  <2>2. CASE Reply(r, Raised) /\ UNCHANGED <<exec, row, index>>
    <3>1. pc'[r] = "done" /\ \A o \in Requests \ {r} : pc'[o] = pc[o]
      BY <2>2 DEF Reply, Go, TypeOK
    <3>2. StoreFits(r)' BY <3>1 DEF StoreFits
    <3> QED BY <2>2, <3>1, <3>2, OthersFit
  <2>3. CASE /\ pc[r] \in {"save", "saveraise"} /\ ~Conflict(r) /\ Write(r)
             /\ Reply(r, Raised) /\ UNCHANGED exec
    <3>1. pc'[r] = "done" /\ \A o \in Requests \ {r} : pc'[o] = pc[o]
      BY <2>3 DEF Reply, Go, TypeOK
    <3> QED BY <2>3, <3>1, WriteFits
  <2> QED BY <1>6, <2>1, <2>2, <2>3 DEF Cancel
<1>7. ASSUME NEW p \in Procs, Crash(p) PROVE StoreInv'
  <2>1. \A r \in Requests : pc'[r] # "idle" /\ pc'[r] # "done" =>
           pc'[r] = pc[r] /\ home[r] # p
    BY <1>7 DEF Crash, TypeOK
  <2>2. ASSUME NEW r \in Requests, pc'[r] \in {"save", "saveraise", "calling", "backoff"}
        PROVE  StoreFits(r)'
    <3>1. pc'[r] = pc[r] /\ home[r] # p BY <2>1, <2>2
    <3>2. backend = "postgres"
      BY <1>7, <3>1, RuntimeAssumption DEF Crash, Deployed, KeyParts, InMain, TypeOK
    <3>3. row'[r] = row[r] /\ exec' = exec /\ \A k \in Keys : index'[k] = index[k]
      BY <1>7, <3>2 DEF Crash
    <3> QED BY <3>1, <3>3, RuntimeAssumption DEF StoreInv, StoreFits, Keyed!Holds, InCall
  <2> QED BY <2>2 DEF StoreInv, StoreFits
<1>8. CASE Tick \/ Rest \/ UNCHANGED vars
  <2>1. UNCHANGED <<pc, exec, row, index>> BY <1>8 DEF Tick, Rest, vars
  <2> QED BY <2>1 DEF StoreInv, StoreFits, Keyed!Holds, InCall
<1> QED BY <1>1, <1>2, <1>3, <1>4, <1>5, <1>6, <1>7, <1>8 DEF Next, Step

\* The calls of a request are its attempts.
LEMMA AttemptsAre ==
  /\ Attempts \in [Requests -> {exec[r].attempts : r \in Requests}]
  /\ \A r \in Requests : Attempts[r] = exec[r].attempts
  BY DEF Attempts

LEMMA AttemptsKept ==
  ASSUME \A r \in Requests : exec'[r].attempts = exec[r].attempts
  PROVE  Attempts' = Attempts
  BY DEF Attempts

LEMMA AttemptsMove ==
  ASSUME NEW r \in Requests,
         \A o \in Requests \ {r} : exec'[o].attempts = exec[o].attempts
  PROVE  Attempts' = [Attempts EXCEPT ![r] = exec'[r].attempts]
  BY DEF Attempts

\* A request that ends without an execution to return.
LEMMA RaisedIsLost ==
  ASSUME KeyInv, NEW r \in Requests, pc[r] # "done", Reply(r, Raised),
         UNCHANGED <<backend, exec, row, index>>
  PROVE  Keyed!Next
<1>1. r \in Keyed!Unanswered BY DEF KeyInv, TypeOK, Keyed!Unanswered
<1>2. answer' = [o \in Requests |-> IF o \in {r} THEN Raised ELSE answer[o]]
  BY DEF Reply, KeyInv, TypeOK
<1>3. Outlives' = Outlives /\ Attempts' = Attempts BY AttemptsKept DEF Outlives
<1>4. Keyed!Lose({r}) BY <1>1, <1>2, <1>3 DEF Keyed!Lose
<1> QED BY <1>4 DEF Keyed!Next

\* Nobody else is under way with the key of a request that stores its row, and
\* nobody has succeeded with it.
LEMMA WriterFindsKeyFree ==
  ASSUME KeyInv, NEW r \in Requests, pc[r] \in {"save", "saveraise"}, ~Conflict(r),
         row[r] = NoRow
  PROVE  Keyed!Available(r)
<1> USE DEF KeyInv, KeyParts
<1> DEFINE o == index[KeyOf[r]]
<1> SUFFICES ASSUME KeyOf[r] # NoKey, o # NoRequest
             PROVE  ~Outlives /\ o \notin Keyed!Unanswered /\ row[o].status # "succeeded"
  BY DEF Keyed!Available
<1>1. KeyOf[r] \in Keys /\ o \in Requests BY RuntimeAssumption DEF TypeOK
<1>2. KeyOf[o] = KeyOf[r] /\ row[o] # NoRow /\ o # r BY <1>1 DEF IndexFits
<1>3. SameKey(r, o) /\ SameKey(o, r) BY <1>2 DEF SameKey
<1>4. backend # "postgres" /\ o \notin Locked BY <1>1, <1>2, <1>3, WriterAlone
<1>5. pc[o] = "done"
  BY <1>1, <1>2, <1>4 DEF Locked, ExecFits, Fits
<1>6. answer[o] # NoRequest BY <1>1, <1>5 DEF TypeOK
<1>7. backend = "memory" /\ r \in Locked
  BY <1>4, RuntimeAssumption DEF TypeOK, Locked
<1>8. row[o].status # "succeeded" BY <1>1, <1>2, <1>3, <1>7 DEF SuccessEndsKey
<1> QED BY <1>4, <1>6, <1>8 DEF Outlives, Keyed!Unanswered

\* What a save stores.
LEMMA WriteIsStore ==
  ASSUME KeyInv, NEW r \in Requests, Write(r)
  PROVE  Keyed!Store(r, exec[r].status)
<1>1. exec[r] = [status |-> exec[r].status, attempts |-> exec[r].attempts]
  BY DEF KeyInv, TypeOK, RuntimeExecution
<1>2. Attempts[r] = exec[r].attempts BY AttemptsAre
<1> QED BY <1>1, <1>2 DEF Write, Keyed!Store

\* A save by which a request ends, or is cut off.
LEMMA LastWrite ==
  ASSUME KeyInv, StoreInv, NEW r \in Requests, pc[r] \in {"save", "saveraise"},
         ~Conflict(r), Write(r), NEW a \in {r, Raised}, Reply(r, a),
         exec[r].status = "running" => a = Raised, UNCHANGED <<backend, exec>>
  PROVE  Keyed!Next
<1> USE DEF KeyInv
<1>1. /\ r \in Keyed!Unanswered /\ Outlives' = Outlives /\ Attempts' = Attempts
      /\ Attempts[r] = exec[r].attempts
  BY AttemptsKept, AttemptsAre DEF TypeOK, Keyed!Unanswered, Outlives
<1>2. Keyed!Answer(r, a) BY DEF Reply, Keyed!Answer
<1>3. Keyed!Store(r, exec[r].status) BY WriteIsStore
<1>4. StoreFits(r) /\ Fits(r) BY DEF StoreInv, KeyParts, ExecFits
<1>5. CASE row[r] = NoRow
  <2>1. Keyed!Available(r) BY <1>5, WriterFindsKeyFree
  <2>2. Attempts[r] = 0 /\ exec[r].status \in {"running", "rejected", "failed"}
    BY <1>1, <1>4, <1>5 DEF StoreFits, Fits, Terminal
  <2>3. CASE exec[r].status = "running"
    <3>1. Keyed!Begin(r)
      BY <1>1, <1>2, <1>3, <1>5, <2>1, <2>2, <2>3 DEF Keyed!Begin
    <3> QED BY <3>1 DEF Keyed!Next
  <2>4. CASE exec[r].status \in {"rejected", "failed"}
    <3>1. Keyed!TurnAway(r)
      BY <1>1, <1>2, <1>3, <1>5, <2>1, <2>2, <2>4 DEF Keyed!TurnAway
    <3> QED BY <3>1 DEF Keyed!Next
  <2> QED BY <2>2, <2>3, <2>4
<1>6. CASE row[r] # NoRow
  <2>1. /\ Attempts[r] \in 1..(MaxRetries[r] + 1) /\ Keyed!Holds(r)
        /\ exec[r].status \in {"succeeded", "failed"}
    BY <1>1, <1>4, <1>6 DEF StoreFits, InCall
  <2>2. row[r].status = "running" BY <1>6 DEF KeyParts, RowFits
  <2>3. Keyed!End(r) BY <1>1, <1>2, <1>3, <1>6, <2>1, <2>2 DEF Keyed!End
  <2> QED BY <2>3 DEF Keyed!Next
<1> QED BY <1>5, <1>6

LEMMA SaveSimulated ==
  ASSUME KeyInv, StoreInv, NEW r \in Requests, Save(r)
  PROVE  Keyed!Next
<1>1. pc[r] \in {"save", "saveraise"} /\ UNCHANGED backend BY DEF Save
<1>2. CASE Conflict(r)
  <2>1. Reply(r, Raised) /\ UNCHANGED <<exec, row, index>> BY <1>2 DEF Save
  <2> QED BY <1>1, <2>1, RaisedIsLost
<1>3. CASE ~Conflict(r) /\ exec[r].status # "running"
  <2> DEFINE a == IF pc[r] = "save" THEN r ELSE Raised
  <2>1. Write(r) /\ Reply(r, a) /\ UNCHANGED exec /\ a \in {r, Raised}
    BY <1>3 DEF Save
  <2> HIDE DEF a
  <2> QED BY <1>1, <1>3, <2>1, LastWrite
<1>4. CASE ~Conflict(r) /\ exec[r].status = "running"
  <2>1. /\ Write(r) /\ UNCHANGED answer
        /\ exec' = [exec EXCEPT ![r].attempts = 1]
    BY <1>4 DEF Save
  <2>2. /\ exec'[r].attempts = 1
        /\ \A o \in Requests \ {r} : exec'[o].attempts = exec[o].attempts
    BY <2>1 DEF KeyInv, TypeOK, RuntimeExecution
  <2>3. Attempts' = [Attempts EXCEPT ![r] = 1] BY <2>2, AttemptsMove
  <2>4. Keyed!Store(r, "running") BY <1>4, <2>1, WriteIsStore
  <2>5. row[r] = NoRow /\ exec[r].attempts = 0
    BY <1>1, <1>4 DEF StoreInv, StoreFits, InCall
  <2>6. Attempts[r] = 0 BY <2>5, AttemptsAre
  <2>7. Keyed!Available(r) BY <1>1, <1>4, <2>5, WriterFindsKeyFree
  <2>8. r \in Keyed!Unanswered /\ Outlives' = Outlives
    BY <1>1 DEF KeyInv, TypeOK, Keyed!Unanswered, Outlives
  <2>9. Keyed!Begin(r)
    BY <2>1, <2>3, <2>4, <2>5, <2>6, <2>7, <2>8 DEF Keyed!Begin
  <2> QED BY <2>9 DEF Keyed!Next
<1> QED BY <1>2, <1>3, <1>4

LEMMA RetrySimulated ==
  ASSUME KeyInv, StoreInv, NEW r \in Requests, Retry(r)
  PROVE  Keyed!Next
<1>1. /\ pc[r] = "backoff" /\ exec' = [exec EXCEPT ![r].attempts = @ + 1]
      /\ UNCHANGED <<backend, row, index, answer>>
  BY DEF Retry
<1>2. /\ row[r] # NoRow /\ exec[r].attempts \in 1..(MaxRetries[r] + 1)
      /\ Keyed!Holds(r) /\ exec[r].attempts <= MaxRetries[r]
  BY <1>1 DEF StoreInv, StoreFits, KeyInv, KeyParts, ExecFits, Fits
<1>3. row[r].status = "running" BY <1>1, <1>2 DEF KeyInv, KeyParts, RowFits
<1>4. /\ exec'[r].attempts = exec[r].attempts + 1
      /\ \A o \in Requests \ {r} : exec'[o].attempts = exec[o].attempts
  BY <1>1 DEF KeyInv, TypeOK, RuntimeExecution
<1>5. Attempts' = [Attempts EXCEPT ![r] = exec[r].attempts + 1]
  BY <1>4, AttemptsMove
<1>6. Attempts[r] = exec[r].attempts BY AttemptsAre
<1>7. Attempts[r] \in 1..MaxRetries[r]
  BY <1>2, <1>6, RuntimeAssumption DEF KeyInv, TypeOK, RuntimeExecution
<1>8. r \in Keyed!Unanswered /\ Outlives' = Outlives
  BY <1>1 DEF KeyInv, TypeOK, Keyed!Unanswered, Outlives
<1>9. Keyed!CallAgain(r)
  BY <1>1, <1>2, <1>3, <1>5, <1>6, <1>7, <1>8 DEF Keyed!CallAgain
<1> QED BY <1>9 DEF Keyed!Next

LEMMA CrashSimulated ==
  ASSUME KeyInv, NEW p \in Procs, Crash(p)
  PROVE  Keyed!Next
<1> USE DEF KeyInv
<1> DEFINE inside == {r \in Requests : home[r] = p /\ pc[r] \notin {"idle", "done"}}
<1>1. inside \subseteq Keyed!Unanswered /\ inside \in SUBSET Requests
  BY DEF TypeOK, Keyed!Unanswered
<1>2. /\ answer' = [r \in Requests |-> IF r \in inside THEN Raised ELSE answer[r]]
      /\ UNCHANGED <<backend, exec>>
  BY DEF Crash
<1>3. Outlives' = Outlives /\ Attempts' = Attempts BY <1>2, AttemptsKept DEF Outlives
<1>4. CASE backend = "postgres"
  <2>1. row' = [r \in Requests |-> row[r]] /\ index' = [k \in Keys |-> index[k]]
    BY <1>4 DEF Crash
  <2>2. UNCHANGED <<row, index>> BY <2>1 DEF TypeOK
  <2>3. Keyed!Lose(inside) BY <1>1, <1>2, <1>3, <2>2 DEF Keyed!Lose
  <2> QED BY <1>1, <2>3 DEF Keyed!Next
<1>5. CASE backend # "postgres"
  <2>1. /\ row' = [r \in Requests |-> NoRow] /\ index' = [k \in Keys |-> NoRequest]
        /\ ~Outlives /\ p = Main /\ backend = "memory"
    BY <1>5, RuntimeAssumption DEF Crash, Outlives, Deployed, TypeOK
  <2>2. ASSUME NEW r \in Keyed!Unanswered, row[r] # NoRow PROVE r \in inside
    <3>1. r \in Requests /\ pc[r] # "done" BY DEF Keyed!Unanswered, TypeOK
    <3>2. home[r] = p BY <2>1, <3>1 DEF KeyParts, InMain
    <3>3. pc[r] # "idle" BY <2>2, <3>1 DEF KeyParts, ExecFits, Fits
    <3> QED BY <3>1, <3>2, <3>3
  <2>3. Keyed!Lose(inside) BY <1>1, <1>2, <1>3, <2>1, <2>2 DEF Keyed!Lose
  <2> QED BY <1>1, <2>3 DEF Keyed!Next
<1> QED BY <1>4, <1>5

LEMMA StepSimulated ==
  ASSUME KeyInv, StoreInv, [Next]_vars
  PROVE  [Keyed!Next]_(Keyed!vars)
<1> DEFINE Quiet == /\ UNCHANGED <<backend, row, index, answer>>
                    /\ \A r \in Requests : exec'[r].attempts = exec[r].attempts
<1>1. ASSUME Quiet PROVE UNCHANGED Keyed!vars
  BY <1>1, AttemptsKept DEF Keyed!vars, Outlives
<1>2. ASSUME NEW r \in Requests, NEW p \in Procs, Enter(r, p) PROVE Quiet
  BY <1>2 DEF Enter
<1>3. ASSUME NEW r \in Requests, Lookup(r) PROVE Quiet \/ Keyed!Next
  <2>1. UNCHANGED <<backend, exec, row, index>> /\ pc[r] = "waiting"
    BY <1>3 DEF Lookup
  <2>2. CASE Replayable(index[KeyOf[r]])
    <3>1. /\ Reply(r, index[KeyOf[r]]) /\ index[KeyOf[r]] # NoRequest
          /\ row[index[KeyOf[r]]].status = "succeeded"
      BY <1>3, <2>2 DEF Lookup, Replayable
    <3>2. KeyOf[r] # NoKey /\ row[r] = NoRow
      BY <2>1 DEF KeyInv, KeyParts, ExecFits, Fits
    <3>3. r \in Keyed!Unanswered /\ Outlives' = Outlives /\ Attempts' = Attempts
      BY <2>1, AttemptsKept DEF KeyInv, TypeOK, Keyed!Unanswered, Outlives
    <3>4. Keyed!Replay(r)
      BY <2>1, <3>1, <3>2, <3>3 DEF Keyed!Replay, Keyed!Answer, Reply
    <3> QED BY <3>4 DEF Keyed!Next
  <2>3. CASE ~Replayable(index[KeyOf[r]])
    BY <1>3, <2>1, <2>3 DEF Lookup
  <2> QED BY <2>2, <2>3
<1>4. ASSUME NEW r \in Requests, NEW status \in ExecutionStatus, Settle(r, status),
             UNCHANGED <<backend, row, index, answer>>
      PROVE  Quiet
  <2>1. \A o \in Requests : exec'[o].attempts = exec[o].attempts
    BY <1>4, SettleFacts DEF KeyInv
  <2> QED BY <1>4, <2>1
<1>5. ASSUME NEW r \in Requests, Admit(r) \/ CallSucceeds(r) \/ CallFails(r)
      PROVE  Quiet
  <2>1. UNCHANGED <<backend, row, index, answer>>
    BY <1>5 DEF Admit, CallSucceeds, CallFails
  <2>2. UNCHANGED exec \/ \E status \in ExecutionStatus : Settle(r, status)
    BY <1>5 DEF Admit, CallSucceeds, CallFails, ExecutionStatus
  <2> QED BY <1>4, <2>1, <2>2
<1>6. ASSUME NEW r \in Requests, Cancel(r) PROVE Quiet \/ Keyed!Next
  <2>1. CASE /\ exec' = [exec EXCEPT ![r].status = "failed"]
             /\ UNCHANGED <<row, index, answer>>
    <3>1. \A o \in Requests : exec'[o].attempts = exec[o].attempts
      BY <2>1 DEF KeyInv, TypeOK, RuntimeExecution
    <3> QED BY <1>6, <2>1, <3>1 DEF Cancel
  <2>2. CASE /\ pc[r] \in {"waiting", "admit", "save", "saveraise", "backoff"}
             /\ Reply(r, Raised) /\ UNCHANGED <<exec, row, index>>
    BY <1>6, <2>2, RaisedIsLost DEF Cancel
  <2>3. CASE /\ pc[r] \in {"save", "saveraise"} /\ ~Conflict(r) /\ Write(r)
             /\ Reply(r, Raised) /\ UNCHANGED exec
    <3>1. UNCHANGED backend /\ Raised \in {r, Raised} BY <1>6 DEF Cancel
    <3> QED BY <2>3, <3>1, LastWrite
  <2> QED BY <1>6, <2>1, <2>2, <2>3 DEF Cancel
<1>7. CASE Tick \/ Rest \/ UNCHANGED vars
  <2>1. Quiet BY <1>7 DEF Tick, Rest, vars
  <2> QED BY <1>1, <2>1
<1> HIDE DEF Quiet
<1> QED
  BY <1>1, <1>2, <1>3, <1>5, <1>6, <1>7, SaveSimulated, RetrySimulated, CrashSimulated
  DEF Next, Step

\* service.py:24-114 with either store: for any requests, keys, processes,
\* cancellations and crashes, what is stored and answered is what executions
\* that take their keys one after the other would store and answer.
THEOREM ImplementsKeyedExecutionHolds == Spec => ImplementsKeyedExecution
<1>1. Init => Keyed!Init
  BY DEF Init, Keyed!Init, Outlives, Attempts
<1>2. KeyInv /\ StoreInv /\ [Next]_vars => [Keyed!Next]_(Keyed!vars)
  BY StepSimulated
<1> QED
  BY <1>1, <1>2, StoreInitially, StoreStep, KeysHold, PTL
  DEF Spec, ImplementsKeyedExecution, Keyed!Spec

-----------------------------------------------------------------------------
(* The breaker counts executions *)

\* An execution that used up its attempts stays as it is, and where it is.
LEMMA FailedStays ==
  ASSUME KeyInv, [Next]_vars, NEW q \in Requests, exec[q].status = "failed",
         exec[q].attempts = MaxRetries[q] + 1
  PROVE  exec'[q] = exec[q] /\ home'[q] = home[q]
<1> USE DEF KeyInv
<1>1. /\ Fits(q) /\ exec[q].attempts # 0
      /\ \A r \in Requests : Fits(r) BY RuntimeAssumption DEF KeyParts, ExecFits
<1>2. ASSUME NEW r \in Requests, NEW p \in Procs, Enter(r, p)
      PROVE  exec'[q] = exec[q] /\ home'[q] = home[q]
  BY <1>1, <1>2 DEF Enter, Fits, TypeOK
<1>3. ASSUME NEW r \in Requests, Admit(r) PROVE exec'[q] = exec[q] /\ home'[q] = home[q]
  <2>1. r # q BY <1>1, <1>3 DEF Admit, Fits
  <2> QED BY <1>3, <2>1 DEF Admit, Settle, TypeOK
<1>4. ASSUME NEW r \in Requests, Save(r) PROVE exec'[q] = exec[q] /\ home'[q] = home[q]
  BY <1>4 DEF Save, TypeOK
<1>5. ASSUME NEW r \in Requests, CallSucceeds(r) \/ CallFails(r) \/ Retry(r)
      PROVE  exec'[q] = exec[q] /\ home'[q] = home[q]
  <2>1. r # q BY <1>1, <1>5 DEF CallSucceeds, CallFails, Retry, Fits, InCall
  <2> QED BY <1>5, <2>1 DEF CallSucceeds, CallFails, Retry, Settle, TypeOK
<1>6. ASSUME NEW r \in Requests, Cancel(r) PROVE exec'[q] = exec[q] /\ home'[q] = home[q]
  <2>1. pc[r] = "calling" => r # q BY <1>1 DEF Fits, InCall
  <2> QED BY <1>6, <2>1 DEF Cancel, TypeOK
<1> QED BY <1>2, <1>3, <1>4, <1>5, <1>6
        DEF Next, Step, Lookup, Crash, Tick, Rest, vars

LEMMA ExhaustedGrows ==
  ASSUME KeyInv, [Next]_vars, NEW p \in Procs, NEW t \in Targets
  PROVE  /\ Exhausted(p, t) \subseteq Exhausted(p, t)'
         /\ IsFiniteSet(Exhausted(p, t)) /\ IsFiniteSet(Exhausted(p, t)')
         /\ Cardinality(Exhausted(p, t)) \in Nat
         /\ Cardinality(Exhausted(p, t)') \in Nat
         /\ Cardinality(Exhausted(p, t)) <= Cardinality(Exhausted(p, t)')
<1>1. Exhausted(p, t) \subseteq Exhausted(p, t)'
  BY FailedStays DEF Exhausted
<1>2. /\ Exhausted(p, t) \in SUBSET Requests /\ Exhausted(p, t)' \in SUBSET Requests
      /\ IsFiniteSet(Requests)
  BY RuntimeAssumption DEF Exhausted
<1>3. IsFiniteSet(Exhausted(p, t)) /\ IsFiniteSet(Exhausted(p, t)')
  BY <1>2, FS_Subset
<1> QED BY <1>1, <1>3, FS_Subset, FS_CardinalityType

\* What a step does to a circuit.
LEMMA CircuitMoves ==
  ASSUME KeyInv, [Next]_vars, NEW p \in Procs, NEW t \in Targets
  PROVE  \/ breaker'[p][t] \in {breaker[p][t], Closed}
         \/ /\ breaker'[p][t] = Tripped(breaker[p][t])
            /\ \E r \in Exhausted(p, t)' : r \notin Exhausted(p, t)
<1> USE DEF KeyInv
<1>1. CASE \E r \in Requests : Admit(r)
  <2>1. PICK r \in Requests : Admit(r) BY <1>1
  <2>2. \/ UNCHANGED breaker
        \/ breaker' = [breaker EXCEPT ![home[r]][TargetOf[r]] =
                         Probed(breaker[home[r]][TargetOf[r]])]
    BY <2>1 DEF Admit
  <2>3. Probed(breaker[home[r]][TargetOf[r]]) \in {breaker[home[r]][TargetOf[r]], Closed}
    BY DEF Probed
  <2>4. PICK c \in {breaker[home[r]][TargetOf[r]], Closed} :
          UNCHANGED breaker \/ breaker' = [breaker EXCEPT ![home[r]][TargetOf[r]] = c]
    BY <2>2, <2>3
  <2>5. home[r] \in Procs /\ TargetOf[r] \in Targets
    BY RuntimeAssumption DEF TypeOK
  <2>6. c \in CircuitState BY <2>4, <2>5, CircuitTyped
  <2>7. CASE UNCHANGED breaker BY <2>7
  <2>8. CASE breaker' = [breaker EXCEPT ![home[r]][TargetOf[r]] = c]
    BY <2>4, <2>5, <2>6, <2>8, BreakerTyped
  <2> QED BY <2>4, <2>7, <2>8
<1>2. CASE \E r \in Requests : CallSucceeds(r)
  BY <1>2, RuntimeAssumption DEF CallSucceeds, TypeOK
<1>3. ASSUME NEW r \in Requests, CallFails(r),
             breaker'[p][t] \notin {breaker[p][t], Closed}
      PROVE  /\ breaker'[p][t] = Tripped(breaker[p][t])
             /\ r \in Exhausted(p, t)' /\ r \notin Exhausted(p, t)
  <2>1. /\ ~(exec[r].attempts <= MaxRetries[r]) /\ Settle(r, "failed")
        /\ breaker' = [breaker EXCEPT ![home[r]][TargetOf[r]] = Tripped(@)]
        /\ UNCHANGED home
    BY <1>3 DEF CallFails
  <2>2. home[r] = p /\ TargetOf[r] = t /\ breaker'[p][t] = Tripped(breaker[p][t])
    BY <1>3, <2>1, RuntimeAssumption DEF TypeOK
  <2>3. /\ exec[r].attempts \in Nat /\ MaxRetries[r] \in Nat
        /\ exec[r].status = "running" /\ exec[r].attempts <= MaxRetries[r] + 1
    BY <1>3, RuntimeAssumption
    DEF CallFails, KeyParts, ExecFits, Fits, InCall, TypeOK, RuntimeExecution
  <2>4. exec'[r].status = "failed" /\ exec'[r].attempts = exec[r].attempts
    BY <2>1, SettleFacts DEF ExecutionStatus
  <2>5. exec[r].attempts = MaxRetries[r] + 1 BY <2>1, <2>3
  <2>6. r \in Exhausted(p, t)' BY <2>1, <2>2, <2>4, <2>5 DEF Exhausted
  <2>7. r \notin Exhausted(p, t) BY <2>3 DEF Exhausted
  <2> QED BY <2>2, <2>6, <2>7
<1>4. CASE \E q \in Procs : Crash(q)
  <2>1. PICK q \in Procs : breaker' = [breaker EXCEPT ![q] = [u \in Targets |-> Closed]]
    BY <1>4 DEF Crash
  <2> QED BY <2>1 DEF TypeOK
<1>5. CASE UNCHANGED breaker BY <1>5
<1> QED BY <1>1, <1>2, <1>3, <1>4, <1>5
        DEF Next, Step, Enter, Lookup, Save, Retry, Cancel, Tick, Rest, vars

LEMMA BreakerStep ==
  ASSUME KeyInv, BreakerEarned, [Next]_vars
  PROVE  BreakerEarned'
<1> SUFFICES ASSUME NEW p \in Procs, NEW t \in Targets
             PROVE  /\ breaker'[p][t].failures <= Cardinality(Exhausted(p, t)')
                    /\ breaker'[p][t].opened # Never =>
                         breaker'[p][t].failures >= Threshold
  BY DEF BreakerEarned
<1> DEFINE c == breaker[p][t]
<1>0. PICK E, F : E = Exhausted(p, t) /\ F = Exhausted(p, t)'
  OBVIOUS
<1>1. /\ c \in CircuitState /\ c.failures \in Nat /\ c.failures <= Cardinality(E)
      /\ c.opened # Never => c.failures >= Threshold
  BY <1>0 DEF BreakerEarned, KeyInv, TypeOK, CircuitState
<1>2. /\ E \subseteq F /\ IsFiniteSet(E) /\ IsFiniteSet(F) /\ Cardinality(E) \in Nat
      /\ Cardinality(F) \in Nat /\ Cardinality(E) <= Cardinality(F)
  BY <1>0, ExhaustedGrows
<1>3. Threshold \in Nat BY RuntimeAssumption
<1>4. CASE breaker'[p][t] = c BY <1>0, <1>1, <1>2, <1>4
<1>5. CASE breaker'[p][t] = Closed
  <2>1. Closed.failures = 0 /\ Closed.opened = Never BY DEF Closed
  <2> QED BY <1>0, <1>2, <1>5, <2>1
<1>6. CASE breaker'[p][t] = Tripped(c) /\ \E r \in F : r \notin E
  <2>1. PICK r \in F : r \notin E BY <1>6
  <2>2. E \cup {r} \in SUBSET F BY <1>2, <2>1
  <2>3. Cardinality(E \cup {r}) = Cardinality(E) + 1 BY <1>2, <2>1, FS_AddElement
  <2>4. Cardinality(E \cup {r}) <= Cardinality(F) BY <1>2, <2>2, FS_Subset
  <2>5. /\ Tripped(c).failures = c.failures + 1
        /\ Tripped(c).opened = IF c.failures + 1 >= Threshold THEN now ELSE c.opened
    BY DEF Tripped
  <2>6. breaker'[p][t].failures <= Cardinality(F)
    BY <1>1, <1>2, <1>6, <2>3, <2>4, <2>5
  <2>7. breaker'[p][t].opened # Never => breaker'[p][t].failures >= Threshold
    BY <1>1, <1>3, <1>6, <2>5
  <2> QED BY <1>0, <2>6, <2>7
<1>7. \/ breaker'[p][t] \in {c, Closed}
      \/ breaker'[p][t] = Tripped(c) /\ \E r \in F : r \notin E
  BY <1>0, CircuitMoves
<1> QED BY <1>0, <1>4, <1>5, <1>6, <1>7

\* circuit_breaker.py:16-32 and service.py:98-114: for any number of processes and
\* requests, a circuit has counted only executions that used up their attempts,
\* and is open only once the threshold of them is reached.
THEOREM BreakerEarnedHolds == Spec => []BreakerEarned
<1>1. Init => BreakerEarned
  <2> SUFFICES ASSUME Init PROVE BreakerEarned OBVIOUS
  <2>1. ASSUME NEW p \in Procs, NEW t \in Targets
        PROVE  /\ breaker[p][t].failures <= Cardinality(Exhausted(p, t))
               /\ breaker[p][t].opened = Never
    <3>1. Exhausted(p, t) \in SUBSET Requests BY DEF Exhausted
    <3>2. Cardinality(Exhausted(p, t)) \in Nat
      BY <3>1, RuntimeAssumption, FS_Subset, FS_CardinalityType
    <3> QED BY <3>2 DEF Init, Closed
  <2> QED BY <2>1 DEF BreakerEarned
<1> QED BY <1>1, KeysHold, BreakerStep, PTL DEF Spec

-----------------------------------------------------------------------------
(* The limiter counts admissions *)

\* The admissions of p for t that lie in the window ending at end.
Counted(p, t, end) ==
  {r \in Requests : /\ home[r] = p /\ TargetOf[r] = t /\ admitted[r] # Never
                    /\ admitted[r] <= end /\ end < admitted[r] + Window}

\* For every still counted request an event of its own.
Slots(p, t, slot) ==
  /\ slot \in Injection(Live(p, t), 1..Len(window[p][t]))
  /\ \A r \in Live(p, t) : window[p][t][slot[r]] = admitted[r]

LEMMA MatchedBySlots == Matched <=> \A p \in Procs, t \in Targets : \E s : Slots(p, t, s)
  BY DEF Matched, Slots

LEMMA MatchedBySlotsNext ==
  (\A p \in Procs, t \in Targets : \E s : Slots(p, t, s)') => Matched'
  BY DEF Matched, Slots

LEMMA BoundByCounted ==
  WindowBound <=> \A p \in Procs, t \in Targets, end \in 0..now :
                    Cardinality(Counted(p, t, end)) <= Limit
  BY DEF WindowBound, Counted

LEMMA BoundByCountedNext ==
  (\A p \in Procs, t \in Targets, end \in 0..now' :
     Cardinality(Counted(p, t, end)') <= Limit) => WindowBound'
  BY DEF WindowBound, Counted

LEMMA CountedFinite ==
  ASSUME NEW p, NEW t, NEW end
  PROVE  /\ IsFiniteSet(Counted(p, t, end)) /\ Cardinality(Counted(p, t, end)) \in Nat
         /\ IsFiniteSet(Live(p, t)) /\ Cardinality(Live(p, t)) \in Nat
<1>1. Counted(p, t, end) \in SUBSET Requests /\ Live(p, t) \in SUBSET Requests
  BY DEF Counted, Live
<1> QED BY <1>1, RuntimeAssumption, FS_Subset, FS_CardinalityType

LEMMA EmptyFits ==
  ASSUME NEW T PROVE \E f \in Injection({}, T) : TRUE
<1>1. [x \in {} |-> 0] \in Injection({}, T) BY DEF Injection, IsInjective
<1> QED BY <1>1

\* Steps that leave the limiter's side alone: an entering request has not been
\* admitted yet.
LEMMA LimiterUntouched ==
  ASSUME KeyInv, LimitInv, UNCHANGED <<admitted, window, now>>,
         \A r \in Requests : home'[r] = home[r] \/ admitted[r] = Never
  PROVE  LimitInv'
<1>1. AdmittedPast' BY DEF LimitInv, AdmittedPast
<1>2. ASSUME NEW p \in Procs, NEW t \in Targets
      PROVE  Live(p, t)' = Live(p, t) /\ \A end : Counted(p, t, end)' = Counted(p, t, end)
  BY DEF Live, Fresh, Counted
<1>3. Matched'
  <2>1. ASSUME NEW p \in Procs, NEW t \in Targets PROVE \E s : Slots(p, t, s)'
    <3>1. PICK s : Slots(p, t, s) BY MatchedBySlots DEF LimitInv
    <3>2. Slots(p, t, s)' BY <1>2, <3>1 DEF Slots
    <3> QED BY <3>2
  <2> QED BY <2>1, MatchedBySlotsNext
<1>4. WindowBound'
  <2>1. ASSUME NEW p \in Procs, NEW t \in Targets, NEW end \in 0..now'
        PROVE  Cardinality(Counted(p, t, end)') <= Limit
    <3>1. Cardinality(Counted(p, t, end)) <= Limit BY BoundByCounted DEF LimitInv
    <3>2. Counted(p, t, end)' = Counted(p, t, end) BY <1>2
    <3> QED BY <3>1, <3>2
  <2> QED BY <2>1, BoundByCountedNext
<1> QED BY <1>1, <1>3, <1>4 DEF LimitInv

\* Time passes: fewer events count, and a longer window holds no more of them.
LEMMA TickLimit ==
  ASSUME KeyInv, LimitInv, Tick
  PROVE  LimitInv'
<1>1. /\ now \in Nat /\ now' = now + 1 /\ UNCHANGED <<home, admitted, window>>
      /\ admitted \in [Requests -> Nat \cup {Never}] /\ Window \in Nat /\ Limit \in Nat
  BY RuntimeAssumption DEF Tick, KeyInv, TypeOK
<1>2. AdmittedPast' BY <1>1, RuntimeAssumption DEF LimitInv, AdmittedPast
<1>3. Matched'
  <2>1. ASSUME NEW p \in Procs, NEW t \in Targets PROVE \E s : Slots(p, t, s)'
    <3>1. PICK s : Slots(p, t, s) BY MatchedBySlots DEF LimitInv
    <3>2. Live(p, t)' \subseteq Live(p, t)
      BY <1>1, RuntimeAssumption DEF Live, Fresh
    <3>0. PICK u : u = [r \in Live(p, t)' |-> s[r]] OBVIOUS
    <3>3. u \in Injection(Live(p, t)', 1..Len(window[p][t]))
      BY <3>0, <3>1, <3>2 DEF Slots, Injection, IsInjective
    <3>4. \A r \in Live(p, t)' : window[p][t][u[r]] = admitted[r]
      BY <3>0, <3>1, <3>2 DEF Slots
    <3>5. Slots(p, t, u)' BY <1>1, <3>3, <3>4 DEF Slots
    <3> QED BY <3>5
  <2> QED BY <2>1, MatchedBySlotsNext
<1>4. WindowBound'
  <2>1. ASSUME NEW p \in Procs, NEW t \in Targets, NEW end \in 0..now'
        PROVE  Cardinality(Counted(p, t, end)') <= Limit
    <3>1. Counted(p, t, end)' = Counted(p, t, end) BY <1>1 DEF Counted
    <3>2. CASE end \in 0..now
      <4>1. Cardinality(Counted(p, t, end)) <= Limit
        BY <3>2, BoundByCounted DEF LimitInv
      <4> QED BY <3>1, <4>1
    <3>3. CASE end = now + 1
      <4>1. Counted(p, t, end) \subseteq Counted(p, t, now)
        BY <1>1, <3>3, RuntimeAssumption DEF Counted, LimitInv, AdmittedPast
      <4>2. now \in 0..now BY <1>1
      <4>3. Cardinality(Counted(p, t, now)) <= Limit
        BY <4>2, BoundByCounted DEF LimitInv
      <4>4. Cardinality(Counted(p, t, end)) <= Cardinality(Counted(p, t, now))
        BY <4>1, CountedFinite, FS_Subset
      <4>5. /\ Cardinality(Counted(p, t, end)) \in Nat
            /\ Cardinality(Counted(p, t, now)) \in Nat
        BY CountedFinite
      <4> QED BY <1>1, <3>1, <4>3, <4>4, <4>5
    <3> QED BY <1>1, <3>2, <3>3
  <2> QED BY <2>1, BoundByCountedNext
<1> QED BY <1>2, <1>3, <1>4 DEF LimitInv

\* A process that dies forgets its admissions together with their events.
LEMMA CrashLimit ==
  ASSUME KeyInv, LimitInv, NEW q \in Procs, Crash(q)
  PROVE  LimitInv'
<1>1. /\ UNCHANGED <<home, now>>
      /\ \A r \in Requests : admitted'[r] = IF home[r] = q THEN Never ELSE admitted[r]
      /\ \A t \in Targets : window'[q][t] = <<>>
      /\ \A p \in Procs \ {q} : window'[p] = window[p]
  BY DEF Crash, KeyInv, TypeOK
<1>2. AdmittedPast' BY <1>1 DEF LimitInv, AdmittedPast
<1>3. ASSUME NEW t \in Targets
      PROVE  Live(q, t)' = {} /\ \A end : Counted(q, t, end)' = {}
  BY <1>1 DEF Live, Counted
<1>4. ASSUME NEW p \in Procs \ {q}, NEW t \in Targets
      PROVE  Live(p, t)' = Live(p, t) /\ \A end : Counted(p, t, end)' = Counted(p, t, end)
  BY <1>1 DEF Live, Fresh, Counted
<1>5. Matched'
  <2>1. ASSUME NEW p \in Procs, NEW t \in Targets PROVE \E s : Slots(p, t, s)'
    <3>1. CASE p = q
      <4>1. PICK s \in Injection({}, 1..Len(window'[q][t])) : TRUE BY EmptyFits
      <4>2. Slots(p, t, s)' BY <1>3, <3>1, <4>1 DEF Slots
      <4> QED BY <4>2
    <3>2. CASE p # q
      <4>1. PICK s : Slots(p, t, s) BY MatchedBySlots DEF LimitInv
      <4>2. window'[p][t] = window[p][t] BY <1>1, <3>2
      <4>3. \A r \in Live(p, t) : admitted'[r] = admitted[r] BY <1>1, <3>2 DEF Live
      <4>4. Slots(p, t, s)' BY <1>4, <3>2, <4>1, <4>2, <4>3 DEF Slots
      <4> QED BY <4>4
    <3> QED BY <3>1, <3>2
  <2> QED BY <2>1, MatchedBySlotsNext
<1>6. WindowBound'
  <2>1. ASSUME NEW p \in Procs, NEW t \in Targets, NEW end \in 0..now'
        PROVE  Cardinality(Counted(p, t, end)') <= Limit
    <3>1. CASE p = q BY <1>3, <3>1, FS_EmptySet, RuntimeAssumption
    <3>2. CASE p # q
      <4>1. Cardinality(Counted(p, t, end)) <= Limit
        BY <1>1, BoundByCounted DEF LimitInv
      <4>2. Counted(p, t, end)' = Counted(p, t, end) BY <1>4, <3>2
      <4> QED BY <4>1, <4>2
    <3> QED BY <3>1, <3>2
  <2> QED BY <2>1, BoundByCountedNext
<1> QED BY <1>2, <1>5, <1>6 DEF LimitInv

\* The first m numbers are m of them.
LEMMA FirstNumbers ==
  ASSUME NEW m \in Nat
  PROVE  IsFiniteSet(1..m) /\ Cardinality(1..m) = m
<1>1. 1 \in Int /\ m \in Int OBVIOUS
<1>2. /\ IsFiniteSet(1..m)
      /\ Cardinality(1..m) = IF 1 > m THEN 0 ELSE m - 1 + 1
  BY <1>1, FS_Interval
<1>3. CASE m = 0 BY <1>2, <1>3
<1>4. CASE m # 0 BY <1>2, <1>4
<1> QED BY <1>3, <1>4

\* An event is added only where there is room, and popped only once it is stale.
LEMMA AdmitLimit ==
  ASSUME KeyInv, LimitInv, NEW r \in Requests, Admit(r),
         NEW p \in Procs, NEW t \in Targets, p = home[r], t = TargetOf[r]
  PROVE  LimitInv'
<1>1. /\ TypeOK /\ TypeOK' /\ now \in Nat
      /\ UNCHANGED <<home, now>> /\ admitted[r] = Never
      /\ Limit \in Nat /\ Window \in Nat /\ Never \notin Nat
  BY AdmitKeeps, RuntimeAssumption
  DEF Admit, KeyInv, KeyParts, TypeOK, ExecFits, Fits
<1>2. PICK n \in 0..Len(window[p][t]) : Popped(p, t, n)
  BY <1>1, RecentIsTail
<1>3. /\ Recent(p, t) \in Seq(Nat) /\ Len(Recent(p, t)) \in Nat
      /\ LET events == Append(Recent(p, t), now)
         IN /\ Len(events) = Len(Recent(p, t)) + 1
            /\ events[Len(Recent(p, t)) + 1] = now
            /\ \A i \in 1..Len(Recent(p, t)) : events[i] = Recent(p, t)[i]
  <2>1. Recent(p, t) \in Seq(Nat) BY <1>2 DEF Popped
  <2> QED BY <1>1, <2>1, AppendProperties, LenProperties
<1>4. /\ Len(window[p][t]) \in Nat /\ Len(Recent(p, t)) \in Nat
      /\ Len(Recent(p, t)) = Len(window[p][t]) - n /\ n \in Nat
  BY <1>1, <1>2, LenProperties DEF Popped, TypeOK
<1>5. /\ admitted' \in [Requests -> Nat \cup {Never}]
      /\ \A o \in Requests : o # r => admitted'[o] = admitted[o]
      /\ admitted'[r] \in {Never, now}
  BY <1>1 DEF Admit, TypeOK
<1>6. \A q \in Procs, u \in Targets : q # p \/ u # t => window'[q][u] = window[q][u]
  BY <1>1 DEF Admit, TypeOK
<1>7. AdmittedPast' BY <1>1, <1>5 DEF LimitInv, AdmittedPast
<1>8. ASSUME NEW q \in Procs, NEW u \in Targets, q # p \/ u # t
      PROVE  Live(q, u)' = Live(q, u) /\ \A end : Counted(q, u, end)' = Counted(q, u, end)
  BY <1>1, <1>5, <1>8 DEF Live, Fresh, Counted
\* The slots move with the events; a request that is let in gets the new one.
<1>9. \E s : Slots(p, t, s)'
  <2>1. PICK s : Slots(p, t, s) BY <1>1, MatchedBySlots DEF LimitInv
  <2>2. ASSUME NEW o \in Live(p, t)
        PROVE  /\ s[o] \in (n + 1)..Len(window[p][t])
               /\ Recent(p, t)[s[o] - n] = admitted[o]
    <3>1. s[o] \in 1..Len(window[p][t]) /\ window[p][t][s[o]] = admitted[o]
      BY <2>1 DEF Slots, Injection
    <3>2. Fresh(admitted[o]) BY DEF Live
    <3>3. s[o] \notin 1..n BY <1>2, <3>1, <3>2 DEF Popped
    <3>4. s[o] - n \in 1..Len(Recent(p, t)) /\ n + (s[o] - n) = s[o]
      BY <1>4, <3>1, <3>3
    <3>5. Recent(p, t)[s[o] - n] = window[p][t][n + (s[o] - n)]
      BY <1>2, <3>4 DEF Popped
    <3> QED BY <1>4, <3>1, <3>3, <3>4, <3>5
  <2>3. \A o, q \in Live(p, t) : s[o] = s[q] => o = q
    BY <2>1 DEF Slots, Injection, IsInjective
  <2>4. CASE ~HasRoom(p, t)
    <3>1. window'[p][t] = Recent(p, t) /\ UNCHANGED admitted
      BY <1>1, <2>4 DEF Admit, TypeOK
    <3>2. Live(p, t)' = Live(p, t) BY <1>1, <3>1 DEF Live, Fresh
    <3>3. PICK u : u = [o \in Live(p, t) |-> s[o] - n] OBVIOUS
    <3>4. u \in Injection(Live(p, t), 1..Len(Recent(p, t)))
      <4>1. u \in [Live(p, t) -> 1..Len(Recent(p, t))]
        BY <1>4, <2>2, <3>3
      <4>2. \A o, q \in Live(p, t) : u[o] = u[q] => o = q
        BY <1>4, <2>2, <2>3, <3>3
      <4> QED BY <4>1, <4>2 DEF Injection, IsInjective
    <3>5. \A o \in Live(p, t) : Recent(p, t)[u[o]] = admitted[o]
      BY <2>2, <3>3
    <3>6. Slots(p, t, u)' BY <1>1, <3>1, <3>2, <3>4, <3>5 DEF Slots
    <3> QED BY <3>6
  <2>5. CASE HasRoom(p, t)
    <3> DEFINE events == Append(Recent(p, t), now)
               last == Len(Recent(p, t)) + 1
    <3>1. /\ window'[p][t] = events /\ admitted'[r] = now
      BY <1>1, <2>5 DEF Admit, TypeOK
    <3>2. /\ Len(events) = last /\ events[last] = now
          /\ \A i \in 1..Len(Recent(p, t)) : events[i] = Recent(p, t)[i]
      BY <1>3
    <3>3. Live(p, t)' \subseteq Live(p, t) \cup {r} /\ r \notin Live(p, t)
      BY <1>1, <1>5 DEF Live, Fresh
    <3>4. PICK u : u = [o \in Live(p, t)' |-> IF o = r THEN last ELSE s[o] - n] OBVIOUS
    <3> HIDE DEF events
    <3>5. u \in Injection(Live(p, t)', 1..Len(events))
      <4>1. u \in [Live(p, t)' -> 1..Len(events)]
        BY <1>4, <2>2, <3>2, <3>3, <3>4
      <4>2. \A o, q \in Live(p, t)' : u[o] = u[q] => o = q
        BY <1>4, <2>2, <2>3, <3>3, <3>4
      <4> QED BY <4>1, <4>2 DEF Injection, IsInjective
    <3>6. ASSUME NEW o \in Live(p, t)' PROVE events[u[o]] = admitted'[o]
      <4>1. CASE o = r BY <3>1, <3>2, <3>4, <4>1
      <4>2. CASE o # r
        <5>1. o \in Live(p, t) /\ o \in Requests BY <3>3, <4>2 DEF Live
        <5>2. u[o] = s[o] - n BY <3>4, <4>2
        <5>3. u[o] \in 1..Len(Recent(p, t)) BY <1>4, <2>2, <5>1, <5>2
        <5> QED BY <1>5, <2>2, <3>2, <4>2, <5>1, <5>2, <5>3
      <4> QED BY <4>1, <4>2
    <3>7. Slots(p, t, u)' BY <1>1, <3>1, <3>5, <3>6 DEF Slots
    <3> QED BY <3>7
  <2> QED BY <2>4, <2>5
<1>10. Matched'
  <2>1. ASSUME NEW q \in Procs, NEW u \in Targets, q # p \/ u # t
        PROVE  \E s : Slots(q, u, s)'
    <3>1. PICK s : Slots(q, u, s) BY MatchedBySlots DEF LimitInv
    <3>2. \A o \in Live(q, u) : admitted'[o] = admitted[o]
      BY <1>1, <1>5 DEF Live
    <3>3. Slots(q, u, s)' BY <1>6, <1>8, <2>1, <3>1, <3>2 DEF Slots
    <3> QED BY <3>3
  <2> QED BY <1>9, <2>1, MatchedBySlotsNext
<1>11. ASSUME NEW end \in 0..now' PROVE Cardinality(Counted(p, t, end)') <= Limit
  <2>1. CASE admitted'[r] = Never \/ end # now
    <3>1. end < now \/ admitted'[r] = Never BY <1>1, <2>1
    <3>2. admitted'[r] = Never \/ ~(admitted'[r] <= end) BY <1>1, <1>5, <3>1
    <3>3. Counted(p, t, end)' = Counted(p, t, end)
      BY <1>1, <1>5, <3>2 DEF Counted
    <3>4. Cardinality(Counted(p, t, end)) <= Limit
      BY <1>1, BoundByCounted DEF LimitInv
    <3> QED BY <3>3, <3>4
  <2>2. CASE admitted'[r] # Never /\ end = now
    <3>1. HasRoom(p, t) /\ window'[p][t] = Append(Recent(p, t), now)
      BY <1>1, <2>2 DEF Admit, TypeOK
    <3>2. Len(window'[p][t]) = Len(Recent(p, t)) + 1
      BY <1>3, <3>1
    <3>3. Len(window'[p][t]) \in Nat /\ Len(window'[p][t]) <= Limit
      <4>1. Len(Recent(p, t)) < Limit BY <3>1 DEF HasRoom
      <4> QED BY <1>3, <1>1, <3>2, <4>1
    <3>4. Counted(p, t, end)' \subseteq Live(p, t)'
      BY <1>1, <2>2 DEF Counted, Live, Fresh
    <3>5. PICK s \in Injection(Live(p, t)', 1..Len(window'[p][t])) : TRUE
      BY <1>9 DEF Slots
    <3>6. PICK C, L : C = Counted(p, t, end)' /\ L = Live(p, t)' OBVIOUS
    <3>7. C \in SUBSET Requests /\ L \in SUBSET Requests BY <3>6 DEF Counted, Live
    <3>8. IsFiniteSet(L) /\ Cardinality(L) \in Nat /\ Cardinality(C) \in Nat
      BY <3>7, RuntimeAssumption, FS_Subset, FS_CardinalityType
    <3>9. Cardinality(C) <= Cardinality(L) BY <3>4, <3>6, <3>8, FS_Subset
    <3>10. /\ IsFiniteSet(1..Len(window'[p][t]))
           /\ Cardinality(1..Len(window'[p][t])) = Len(window'[p][t])
      <4>1. PICK m \in Nat : m = Len(window'[p][t]) BY <3>3
      <4>2. IsFiniteSet(1..m) /\ Cardinality(1..m) = m BY FirstNumbers
      <4> QED BY <4>1, <4>2
    <3>11. Cardinality(L) <= Len(window'[p][t])
      BY <3>5, <3>6, <3>10, FS_Injection
    <3> QED BY <1>1, <3>3, <3>6, <3>8, <3>9, <3>11
  <2> QED BY <2>1, <2>2
<1>12. WindowBound'
  <2>1. ASSUME NEW q \in Procs, NEW u \in Targets, NEW end \in 0..now', q # p \/ u # t
        PROVE  Cardinality(Counted(q, u, end)') <= Limit
    <3>1. Cardinality(Counted(q, u, end)) <= Limit
      BY <1>1, BoundByCounted DEF LimitInv
    <3>2. Counted(q, u, end)' = Counted(q, u, end) BY <1>8, <2>1
    <3> QED BY <3>1, <3>2
  <2> QED BY <1>11, <2>1, BoundByCountedNext
<1> QED BY <1>7, <1>10, <1>12 DEF LimitInv

LEMMA LimitInitially == Init => LimitInv
<1> SUFFICES ASSUME Init PROVE LimitInv OBVIOUS
<1>1. AdmittedPast BY DEF Init, AdmittedPast
<1>2. ASSUME NEW p \in Procs, NEW t \in Targets
      PROVE  Live(p, t) = {} /\ \A end : Counted(p, t, end) = {}
  BY DEF Init, Live, Counted
<1>3. Matched
  <2>1. ASSUME NEW p \in Procs, NEW t \in Targets PROVE \E s : Slots(p, t, s)
    <3>1. PICK s \in Injection({}, 1..Len(window[p][t])) : TRUE BY EmptyFits
    <3>2. Slots(p, t, s) BY <1>2, <3>1 DEF Slots
    <3> QED BY <3>2
  <2> QED BY <2>1, MatchedBySlots
<1>4. WindowBound
  <2>1. Cardinality({}) <= Limit BY FS_EmptySet, RuntimeAssumption
  <2>2. ASSUME NEW p \in Procs, NEW t \in Targets, NEW end \in 0..now
        PROVE  Cardinality(Counted(p, t, end)) <= Limit
    <3>1. Counted(p, t, end) = {} BY <1>2
    <3> QED BY <2>1, <3>1
  <2> QED BY <2>2, BoundByCounted
<1> QED BY <1>1, <1>3, <1>4 DEF LimitInv

LEMMA LimitStep == KeyInv /\ LimitInv /\ [Next]_vars => LimitInv'
<1> SUFFICES ASSUME KeyInv, LimitInv, [Next]_vars PROVE LimitInv' OBVIOUS
<1>1. CASE \E r \in Requests, p \in Procs : Enter(r, p)
  <2>1. PICK r \in Requests, p \in Procs : Enter(r, p) BY <1>1
  <2>2. \A o \in Requests : home'[o] = home[o] \/ admitted[o] = Never
    BY <2>1 DEF Enter, KeyInv, KeyParts, TypeOK, ExecFits, Fits
  <2> QED BY <2>1, <2>2, LimiterUntouched DEF Enter
<1>2. CASE \E r \in Requests : Admit(r)
  <2>1. PICK r \in Requests : Admit(r) BY <1>2
  <2>2. home[r] \in Procs /\ TargetOf[r] \in Targets
    BY RuntimeAssumption DEF KeyInv, TypeOK
  <2> QED BY <2>1, <2>2, AdmitLimit
<1>3. CASE \E r \in Requests : Lookup(r) \/ Save(r) \/ Cancel(r)
  BY <1>3, LimiterUntouched DEF Lookup, Save, Cancel
<1>4. CASE \E r \in Requests : CallSucceeds(r) \/ CallFails(r) \/ Retry(r)
  BY <1>4, LimiterUntouched DEF CallSucceeds, CallFails, Retry
<1>5. CASE \E p \in Procs : Crash(p) BY <1>5, CrashLimit
<1>6. CASE Tick BY <1>6, TickLimit
<1>7. CASE UNCHANGED vars BY <1>7, LimiterUntouched DEF vars
<1> QED BY <1>1, <1>2, <1>3, <1>4, <1>5, <1>6, <1>7 DEF Next, Step, Rest

\* rate_limit.py:11-19: whatever is cut off and however the clock runs, a process
\* admits at most Limit executions of a target in any window of the given length.
THEOREM WindowBoundHolds == Spec => []WindowBound
<1>1. LimitInv => WindowBound BY DEF LimitInv
<1> QED BY LimitInitially, LimitStep, KeysHold, <1>1, PTL DEF Spec
=============================================================================
