----------------------- MODULE GovernedExecutionProofs -----------------------
(***************************************************************************)
(* What holds of the governed path for any number of concurrent calls and  *)
(* approvals, over either store and whatever is cut off.  Consuming is one *)
(* step of the store, so a grant has one payer; a row is written by the    *)
(* step that returns, so rows and returned calls match one to one.         *)
(***************************************************************************)
EXTENDS LedgerRefinement, FiniteSetTheorems, SequenceTheorems, TLAPS

-----------------------------------------------------------------------------
(* The invariant *)

\* A consequential call that passed the policy or acted has its own approval.
Paid ==
  \A c \in Calls :
    NameOf[c] \in Gated /\ (pc[c] = "invoke" \/ c \in acted)
      => \E a \in Approvals : c \in paidBy[a] /\ ApprovedName[a] = NameOf[c]

\* Nobody has used a grant that is not consumed, and no two calls used one.
OnePayer ==
  \A a \in Approvals :
    /\ grant[a] # "consumed" => paidBy[a] = {}
    /\ \A c, d \in paidBy[a] : c = d

\* The calls that may have a row.
Told(c) == pc[c] = "done" \/ (durable /\ pc[c] = "dead")

\* A row tells what a call returned, or was about to when it was cut off over
\* Postgres, and no other row is about that call.
RowsHonest ==
  \A i \in 1..Len(recorded) :
    /\ Told(recorded[i].call)
    /\ recorded[i].outcome = outcome[recorded[i].call]
    /\ \A k \in 1..Len(recorded) : recorded[k].call = recorded[i].call => k = i

\* A call that returned has a row.
RowsComplete ==
  \A c \in Calls :
    pc[c] = "done" => \E i \in 1..Len(recorded) : recorded[i].call = c

DeadCalls == {c \in Calls : pc[c] = "dead"}

AbortsCounted == Cardinality(DeadCalls) <= aborts

IInv == TypeOK /\ Paid /\ OnePayer /\ RowsHonest /\ RowsComplete /\ AbortsCounted

States == {"idle", "authorize", "invoke", "acting", "record", "done", "dead"}

-----------------------------------------------------------------------------
(* Facts shared by the steps *)

LEMMA KeepTyped ==
  ASSUME NEW rows \in Seq(AuditEvent)
  PROVE  Keep(rows) \in Seq(AuditEvent)
<1>1. CASE ~durable /\ Len(rows) > MaxEvents
  <2> DEFINE m == Len(rows) - MaxEvents + 1
  <2>1. m \in Int /\ Len(rows) \in Int /\ m >= 1
    BY <1>1, GovernedAssumption
  <2>2. \A i \in m..Len(rows) : rows[i] \in AuditEvent
    BY <2>1
  <2>3. SubSeq(rows, m, Len(rows)) \in Seq(AuditEvent)
    BY <2>1, <2>2, SubSeqProperties
  <2> QED BY <1>1, <2>3 DEF Keep
<1>2. CASE ~(~durable /\ Len(rows) > MaxEvents)
  BY <1>2 DEF Keep
<1> QED BY <1>1, <1>2

LEMMA RowTyped ==
  ASSUME TypeOK, NEW i \in 1..Len(recorded)
  PROVE  recorded[i].call \in Calls /\ recorded[i].outcome \in Outcomes
<1>1. recorded[i] \in AuditEvent
  BY DEF TypeOK
<1> QED BY <1>1 DEF AuditEvent

\* A call moves on without returning or being cut off: the rows and the
\* number of dead calls say of it what they said before.
LEMMA MoveFacts ==
  ASSUME IInv, NEW c \in Calls, NEW at \in States \ {"done", "dead"},
         pc[c] \notin {"done", "dead"}, Go(c, at),
         \A d \in Calls : d # c => outcome'[d] = outcome[d],
         UNCHANGED <<recorded, aborts, durable>>
  PROVE  /\ pc' \in [Calls -> States] /\ pc'[c] = at
         /\ \A d \in Calls : d # c => pc'[d] = pc[d]
         /\ RowsHonest' /\ RowsComplete' /\ AbortsCounted'
<1> USE DEF IInv
<1>1. /\ pc' \in [Calls -> States] /\ pc'[c] = at
      /\ \A d \in Calls : d # c => pc'[d] = pc[d]
  BY DEF TypeOK, Go, States
<1>2. \A i \in 1..Len(recorded) : recorded[i].call \in Calls
  BY RowTyped
<1>3. \A i \in 1..Len(recorded) : recorded[i].call # c
  BY DEF RowsHonest, Told
<1>4. RowsHonest'
  BY <1>1, <1>2, <1>3 DEF RowsHonest, Told
<1>5. RowsComplete'
  BY <1>1 DEF RowsComplete
<1>6. DeadCalls' = DeadCalls
  BY <1>1 DEF DeadCalls
<1>7. AbortsCounted'
  BY <1>6 DEF AbortsCounted
<1> QED BY <1>1, <1>4, <1>5, <1>7

\* The same of a step that ends with a result to record.
LEMMA ConcludeFacts ==
  ASSUME IInv, NEW c \in Calls, NEW o \in Outcomes,
         pc[c] \notin {"done", "dead"}, Conclude(c, o),
         UNCHANGED <<recorded, aborts, durable>>
  PROVE  /\ pc' \in [Calls -> States] /\ pc'[c] = "record"
         /\ \A d \in Calls : d # c => pc'[d] = pc[d]
         /\ outcome' \in [Calls -> Outcomes \cup {"none"}]
         /\ \A d \in Calls : pc'[d] \in {"record", "done"} => outcome'[d] # "none"
         /\ RowsHonest' /\ RowsComplete' /\ AbortsCounted'
<1>1. /\ outcome' \in [Calls -> Outcomes \cup {"none"}] /\ outcome'[c] = o
      /\ \A d \in Calls : d # c => outcome'[d] = outcome[d]
  BY DEF IInv, TypeOK, Conclude
<1>2. Go(c, "record") /\ "record" \in States \ {"done", "dead"}
  BY DEF Conclude, States
<1>3. /\ pc' \in [Calls -> States] /\ pc'[c] = "record"
      /\ \A d \in Calls : d # c => pc'[d] = pc[d]
      /\ RowsHonest' /\ RowsComplete' /\ AbortsCounted'
  BY <1>1, <1>2, MoveFacts
<1>4. o # "none"
  BY DEF Outcomes
<1>5. \A d \in Calls : pc'[d] \in {"record", "done"} => outcome'[d] # "none"
  BY <1>1, <1>3, <1>4 DEF IInv, TypeOK
<1> QED BY <1>1, <1>3, <1>5

-----------------------------------------------------------------------------
(* One lemma for each step *)

LEMMA InitIInv == Init => IInv
<1> SUFFICES ASSUME Init PROVE IInv
  OBVIOUS
<1> USE DEF Init
<1>1. TypeOK
  BY GovernedAssumption DEF TypeOK, Outcomes
<1>2. Paid /\ OnePayer
  BY DEF Paid, OnePayer
<1>3. RowsHonest /\ RowsComplete
  BY DEF RowsHonest, RowsComplete
<1>4. AbortsCounted
  <2>1. DeadCalls = {}
    BY DEF DeadCalls
  <2> QED BY <2>1, FS_EmptySet DEF AbortsCounted
<1> QED BY <1>1, <1>2, <1>3, <1>4 DEF IInv

LEMMA IssueIInv ==
  ASSUME IInv, NEW a \in Approvals, Issue(a)
  PROVE  IInv'
<1> USE DEF IInv, Issue
<1>1. TypeOK'
  BY DEF TypeOK
<1>2. Paid' /\ RowsHonest' /\ RowsComplete'
  BY DEF Paid, RowsHonest, Told, RowsComplete
<1>3. OnePayer'
  BY DEF OnePayer, TypeOK
<1>4. AbortsCounted'
  BY DEF AbortsCounted, DeadCalls
<1> QED BY <1>1, <1>2, <1>3, <1>4

LEMMA BeginIInv ==
  ASSUME IInv, NEW c \in Calls, Begin(c)
  PROVE  IInv'
<1> DEFINE st == Standing[NameOf[c]]
<1>1. pc[c] = "idle" /\ UNCHANGED <<grant, events, recorded, acted, paidBy, aborts, durable>>
  BY DEF Begin
<1>2. OnePayer'
  BY <1>1 DEF IInv, OnePayer
<1>3. CASE st \in {"unknown", "no_provider", "not_connected"} /\ Conclude(c, st)
  <2>1. st \in Outcomes
    BY <1>3 DEF Outcomes
  <2> HIDE DEF st
  <2>2. /\ pc' \in [Calls -> States] /\ pc'[c] = "record"
        /\ \A d \in Calls : d # c => pc'[d] = pc[d]
        /\ outcome' \in [Calls -> Outcomes \cup {"none"}]
        /\ \A d \in Calls : pc'[d] \in {"record", "done"} => outcome'[d] # "none"
        /\ RowsHonest' /\ RowsComplete' /\ AbortsCounted'
    BY <1>1, <1>3, <2>1, ConcludeFacts
  <2>3. TypeOK'
    BY <1>1, <2>2 DEF IInv, TypeOK, States
  <2>4. Paid'
    BY <1>1, <2>2 DEF IInv, Paid
  <2> QED BY <1>2, <2>2, <2>3, <2>4 DEF IInv
<1>4. CASE Go(c, "authorize") /\ UNCHANGED outcome
  <2>1. /\ pc' \in [Calls -> States] /\ pc'[c] = "authorize"
        /\ \A d \in Calls : d # c => pc'[d] = pc[d]
        /\ RowsHonest' /\ RowsComplete' /\ AbortsCounted'
    <3>1. "authorize" \in States \ {"done", "dead"}
      BY DEF States
    <3> QED BY <1>1, <1>4, <3>1, MoveFacts
  <2>2. TypeOK'
    BY <1>1, <1>4, <2>1 DEF IInv, TypeOK, States
  <2>3. Paid'
    BY <1>1, <2>1 DEF IInv, Paid
  <2> QED BY <1>2, <2>1, <2>2, <2>3 DEF IInv
<1> QED BY <1>3, <1>4 DEF Begin

LEMMA AuthorizeIInv ==
  ASSUME IInv, NEW c \in Calls, NEW a \in Approvals \cup {NoApproval},
         Authorize(c, a)
  PROVE  IInv'
<1>1. pc[c] = "authorize" /\ UNCHANGED <<events, recorded, acted, aborts, durable>>
  BY DEF Authorize
<1>2. CASE /\ NameOf[c] \notin Gated
           /\ Go(c, "invoke") /\ UNCHANGED <<grant, outcome, paidBy>>
  <2>1. /\ pc' \in [Calls -> States] /\ pc'[c] = "invoke"
        /\ \A d \in Calls : d # c => pc'[d] = pc[d]
        /\ RowsHonest' /\ RowsComplete' /\ AbortsCounted'
    <3>1. "invoke" \in States \ {"done", "dead"}
      BY DEF States
    <3> QED BY <1>1, <1>2, <3>1, MoveFacts
  <2>2. TypeOK'
    BY <1>1, <1>2, <2>1 DEF IInv, TypeOK, States
  <2>3. Paid' /\ OnePayer'
    BY <1>1, <1>2, <2>1 DEF IInv, Paid, OnePayer
  <2> QED BY <2>1, <2>2, <2>3 DEF IInv
<1>3. CASE /\ NameOf[c] \in Gated /\ Consumable(a, NameOf[c])
           /\ grant' = [grant EXCEPT ![a] = "consumed"]
           /\ paidBy' = [paidBy EXCEPT ![a] = @ \cup {c}]
           /\ Go(c, "invoke") /\ UNCHANGED outcome
  <2>1. /\ pc' \in [Calls -> States] /\ pc'[c] = "invoke"
        /\ \A d \in Calls : d # c => pc'[d] = pc[d]
        /\ RowsHonest' /\ RowsComplete' /\ AbortsCounted'
    <3>1. "invoke" \in States \ {"done", "dead"}
      BY DEF States
    <3> QED BY <1>1, <1>3, <3>1, MoveFacts
  <2>2. /\ a \in Approvals /\ grant[a] = "live" /\ ApprovedName[a] = NameOf[c]
        /\ paidBy[a] = {}
    BY <1>3 DEF Consumable, IInv, OnePayer
  <2>3. /\ paidBy' \in [Approvals -> SUBSET Calls] /\ paidBy'[a] = {c}
        /\ grant' \in [Approvals -> {"unissued", "live", "consumed"}]
        /\ grant'[a] = "consumed"
        /\ \A b \in Approvals : b # a => grant'[b] = grant[b] /\ paidBy'[b] = paidBy[b]
    BY <1>3, <2>2 DEF IInv, TypeOK
  <2>4. TypeOK'
    BY <1>1, <1>3, <2>1, <2>3 DEF IInv, TypeOK, States
  <2>5. \A d \in Calls, b \in Approvals : d \in paidBy[b] => d \in paidBy'[b]
    BY <2>2, <2>3
  <2>6. Paid'
    BY <1>1, <2>1, <2>2, <2>3, <2>5 DEF IInv, Paid
  <2>7. OnePayer'
    BY <2>3 DEF IInv, OnePayer
  <2> QED BY <2>1, <2>4, <2>6, <2>7 DEF IInv
<1>4. CASE /\ Conclude(c, "approval_required")
           /\ UNCHANGED <<grant, paidBy>>
  <2>1. /\ pc' \in [Calls -> States] /\ pc'[c] = "record"
        /\ \A d \in Calls : d # c => pc'[d] = pc[d]
        /\ outcome' \in [Calls -> Outcomes \cup {"none"}]
        /\ \A d \in Calls : pc'[d] \in {"record", "done"} => outcome'[d] # "none"
        /\ RowsHonest' /\ RowsComplete' /\ AbortsCounted'
    <3>1. "approval_required" \in Outcomes
      BY DEF Outcomes
    <3> QED BY <1>1, <1>4, <3>1, ConcludeFacts
  <2>2. TypeOK'
    BY <1>1, <1>4, <2>1 DEF IInv, TypeOK, States
  <2>3. Paid' /\ OnePayer'
    BY <1>1, <1>4, <2>1 DEF IInv, Paid, OnePayer
  <2> QED BY <2>1, <2>2, <2>3 DEF IInv
<1> QED BY <1>2, <1>3, <1>4 DEF Authorize

LEMMA InvokeIInv ==
  ASSUME IInv, NEW c \in Calls, Invoke(c)
  PROVE  IInv'
<1>1. pc[c] = "invoke" /\ UNCHANGED <<grant, events, recorded, paidBy, aborts, durable>>
  BY DEF Invoke
<1>2. OnePayer'
  BY <1>1 DEF IInv, OnePayer
<1>3. CASE Conclude(c, "no_provider") /\ UNCHANGED acted
  <2>1. /\ pc' \in [Calls -> States] /\ pc'[c] = "record"
        /\ \A d \in Calls : d # c => pc'[d] = pc[d]
        /\ outcome' \in [Calls -> Outcomes \cup {"none"}]
        /\ \A d \in Calls : pc'[d] \in {"record", "done"} => outcome'[d] # "none"
        /\ RowsHonest' /\ RowsComplete' /\ AbortsCounted'
    <3>1. "no_provider" \in Outcomes
      BY DEF Outcomes
    <3> QED BY <1>1, <1>3, <3>1, ConcludeFacts
  <2>2. TypeOK'
    BY <1>1, <1>3, <2>1 DEF IInv, TypeOK, States
  <2>3. Paid'
    BY <1>1, <1>3, <2>1 DEF IInv, Paid
  <2> QED BY <1>2, <2>1, <2>2, <2>3 DEF IInv
<1>4. CASE acted' = acted \cup {c} /\ Go(c, "acting") /\ UNCHANGED outcome
  <2>1. /\ pc' \in [Calls -> States] /\ pc'[c] = "acting"
        /\ \A d \in Calls : d # c => pc'[d] = pc[d]
        /\ RowsHonest' /\ RowsComplete' /\ AbortsCounted'
    <3>1. "acting" \in States \ {"done", "dead"}
      BY DEF States
    <3> QED BY <1>1, <1>4, <3>1, MoveFacts
  <2>2. TypeOK'
    BY <1>1, <1>4, <2>1 DEF IInv, TypeOK, States
  <2>3. Paid'
    BY <1>1, <1>4, <2>1 DEF IInv, Paid
  <2> QED BY <1>2, <2>1, <2>2, <2>3 DEF IInv
<1> QED BY <1>3, <1>4 DEF Invoke

LEMMA HandlerEndsIInv ==
  ASSUME IInv, NEW c \in Calls, HandlerEnds(c)
  PROVE  IInv'
<1>1. pc[c] = "acting" /\ UNCHANGED <<grant, events, recorded, acted, paidBy, aborts, durable>>
  BY DEF HandlerEnds
<1>2. PICK o \in {"ok", "error"} : Conclude(c, o)
  BY DEF HandlerEnds
<1>3. /\ pc' \in [Calls -> States] /\ pc'[c] = "record"
      /\ \A d \in Calls : d # c => pc'[d] = pc[d]
      /\ outcome' \in [Calls -> Outcomes \cup {"none"}]
      /\ \A d \in Calls : pc'[d] \in {"record", "done"} => outcome'[d] # "none"
      /\ RowsHonest' /\ RowsComplete' /\ AbortsCounted'
  <2>1. o \in Outcomes
    BY DEF Outcomes
  <2> QED BY <1>1, <1>2, <2>1, ConcludeFacts
<1>4. TypeOK'
  BY <1>1, <1>3 DEF IInv, TypeOK, States
<1>5. Paid' /\ OnePayer'
  BY <1>1, <1>3 DEF IInv, Paid, OnePayer
<1> QED BY <1>3, <1>4, <1>5 DEF IInv

\* A step that writes the row of call c and ends it, returned or cut off.
LEMMA RowWritten ==
  ASSUME IInv, NEW c \in Calls, pc[c] = "record", WriteRow(c),
         NEW at \in {"done", "dead"}, Go(c, at), at = "dead" => durable,
         UNCHANGED <<outcome, durable>>
  PROVE  /\ events' \in Seq(AuditEvent) /\ recorded' \in Seq(AuditEvent)
         /\ RowsHonest' /\ RowsComplete'
<1> DEFINE e == [call |-> c, outcome |-> outcome[c]]
           n == Len(recorded)
<1> USE DEF IInv
<1>1. events' = Keep(Append(events, e)) /\ recorded' = Append(recorded, e)
  BY DEF WriteRow
<1>2. e \in AuditEvent /\ e.call = c /\ e.outcome = outcome[c]
  <2>1. outcome[c] \in Outcomes \cup {"none"} /\ outcome[c] # "none"
    BY DEF TypeOK
  <2> QED BY <2>1 DEF AuditEvent
<1> HIDE DEF e
<1>3. /\ recorded' \in Seq(AuditEvent)
      /\ n \in Nat /\ Len(recorded') = n + 1
      /\ \A i \in 1..n : recorded'[i] = recorded[i]
      /\ recorded'[n + 1] = e
  BY <1>1, <1>2 DEF TypeOK
<1> HIDE DEF n
<1>4. /\ pc'[c] = at
      /\ \A d \in Calls : d # c => pc'[d] = pc[d]
  BY DEF TypeOK, Go, States
<1>5. \A i \in 1..n : recorded[i].call \in Calls /\ recorded[i].call # c
  BY RowTyped DEF RowsHonest, Told, n
<1>6. events' \in Seq(AuditEvent)
  <2>1. Append(events, e) \in Seq(AuditEvent)
    BY <1>2 DEF TypeOK
  <2> QED BY <1>1, <2>1, KeepTyped
<1> DEFINE told(d) == pc'[d] = "done" \/ (durable' /\ pc'[d] = "dead")
<1>7. told(c) /\ \A d \in Calls \ {c} : Told(d) => told(d)
  BY <1>4 DEF Told
<1>8. RowsHonest'
  <2>1. \A i \in 1..(n + 1) : i \in 1..n \/ i = n + 1
    BY <1>3
  <2>2. \A i \in 1..n :
          /\ Told(recorded[i].call)
          /\ recorded[i].outcome = outcome[recorded[i].call]
          /\ \A k \in 1..n : recorded[k].call = recorded[i].call => k = i
    BY DEF RowsHonest, n
  <2>3. ASSUME NEW i \in 1..n
        PROVE  /\ told(recorded'[i].call)
               /\ recorded'[i].outcome = outcome'[recorded'[i].call]
               /\ \A k \in 1..(n + 1) :
                    recorded'[k].call = recorded'[i].call => k = i
    <3>1. recorded'[i] = recorded[i] /\ recorded[i].call \in Calls \ {c}
      BY <1>3, <1>5
    <3>2. told(recorded'[i].call)
      BY <1>7, <2>2, <3>1
    <3> QED BY <1>2, <1>3, <1>5, <2>1, <2>2, <3>1, <3>2
  <2>4. /\ told(recorded'[n + 1].call)
        /\ recorded'[n + 1].outcome = outcome'[recorded'[n + 1].call]
        /\ \A k \in 1..(n + 1) :
             recorded'[k].call = recorded'[n + 1].call => k = n + 1
    <3>1. recorded'[n + 1].call = c /\ recorded'[n + 1].outcome = outcome'[c]
      BY <1>2, <1>3
    <3>2. \A k \in 1..n : recorded'[k].call # c
      BY <1>3, <1>5
    <3> QED BY <1>7, <2>1, <3>1, <3>2
  <2> QED BY <1>3, <2>1, <2>3, <2>4 DEF RowsHonest, Told
<1>9. RowsComplete'
  <2> SUFFICES ASSUME NEW d \in Calls, pc'[d] = "done"
               PROVE  \E i \in 1..(n + 1) : recorded'[i].call = d
    BY <1>3 DEF RowsComplete
  <2>1. CASE d = c
    <3>1. n + 1 \in 1..(n + 1)
      BY <1>3
    <3> QED BY <1>2, <1>3, <2>1, <3>1
  <2>2. CASE d # c
    <3>1. PICK i \in 1..n : recorded[i].call = d
      BY <1>4, <2>2 DEF RowsComplete, n
    <3>2. i \in 1..(n + 1) /\ recorded'[i].call = d
      BY <1>3, <3>1
    <3> QED BY <3>2
  <2> QED BY <2>1, <2>2
<1> QED BY <1>3, <1>6, <1>8, <1>9

LEMMA RecordIInv ==
  ASSUME IInv, NEW c \in Calls, Record(c)
  PROVE  IInv'
<1> USE DEF IInv
<1>1. /\ pc[c] = "record" /\ WriteRow(c) /\ Go(c, "done")
      /\ UNCHANGED <<grant, outcome, acted, paidBy, aborts, durable>>
  BY DEF Record
<1>2. /\ pc' \in [Calls -> States] /\ pc'[c] = "done"
      /\ \A d \in Calls : d # c => pc'[d] = pc[d]
  BY <1>1 DEF TypeOK, Go, States
<1>3. /\ events' \in Seq(AuditEvent) /\ recorded' \in Seq(AuditEvent)
      /\ RowsHonest' /\ RowsComplete'
  BY <1>1, RowWritten
<1>4. TypeOK'
  BY <1>1, <1>2, <1>3 DEF TypeOK, States
<1>5. Paid' /\ OnePayer'
  BY <1>1, <1>2 DEF Paid, OnePayer
<1>6. AbortsCounted'
  <2>1. DeadCalls' = DeadCalls
    BY <1>1, <1>2 DEF DeadCalls
  <2> QED BY <1>1, <2>1 DEF AbortsCounted
<1> QED BY <1>3, <1>4, <1>5, <1>6

LEMMA AbortIInv ==
  ASSUME IInv, NEW c \in Calls, Abort(c)
  PROVE  IInv'
<1> USE DEF IInv
<1>1. /\ pc[c] \in {"authorize", "invoke", "acting", "record"}
      /\ aborts' = aborts + 1 /\ Go(c, "dead")
      /\ UNCHANGED <<grant, outcome, acted, paidBy, durable>>
  BY DEF Abort
<1>2. /\ pc' \in [Calls -> States] /\ pc'[c] = "dead"
      /\ \A d \in Calls : d # c => pc'[d] = pc[d]
  BY <1>1 DEF TypeOK, Go, States
<1>3. /\ events' \in Seq(AuditEvent) /\ recorded' \in Seq(AuditEvent)
      /\ RowsHonest' /\ RowsComplete'
  <2>1. CASE UNCHANGED <<events, recorded>>
    <3>1. \A i \in 1..Len(recorded) :
            recorded[i].call \in Calls /\ recorded[i].call # c
      BY <1>1, RowTyped DEF RowsHonest, Told
    <3>2. RowsHonest'
      BY <1>1, <1>2, <2>1, <3>1 DEF RowsHonest, Told
    <3>3. RowsComplete'
      BY <1>2, <2>1 DEF RowsComplete
    <3> QED BY <2>1, <3>2, <3>3 DEF TypeOK
  <2>2. CASE durable /\ pc[c] = "record" /\ WriteRow(c)
    BY <1>1, <2>2, RowWritten
  <2> QED BY <2>1, <2>2 DEF Abort
<1>4. TypeOK'
  BY <1>1, <1>2, <1>3 DEF TypeOK, States
<1>5. Paid' /\ OnePayer'
  BY <1>1, <1>2 DEF Paid, OnePayer
<1>6. AbortsCounted'
  <2>1. DeadCalls' = DeadCalls \cup {c} /\ c \notin DeadCalls
    BY <1>1, <1>2 DEF DeadCalls
  <2>2. IsFiniteSet(DeadCalls)
    BY GovernedAssumption, FS_Subset DEF DeadCalls
  <2>3. Cardinality(DeadCalls') = Cardinality(DeadCalls) + 1
    BY <2>1, <2>2, FS_AddElement
  <2>4. Cardinality(DeadCalls) \in Nat
    BY <2>2, FS_CardinalityType
  <2> QED BY <1>1, <2>3, <2>4 DEF AbortsCounted, TypeOK
<1> QED BY <1>3, <1>4, <1>5, <1>6

LEMMA StepIInv == IInv /\ [Next]_vars => IInv'
<1> SUFFICES ASSUME IInv, [Next]_vars PROVE IInv'
  OBVIOUS
<1>1. ASSUME NEW a \in Approvals, Issue(a) PROVE IInv'
  BY <1>1, IssueIInv
<1>2. ASSUME NEW c \in Calls, NEW a \in Approvals \cup {NoApproval},
             Authorize(c, a)
      PROVE  IInv'
  BY <1>2, AuthorizeIInv
<1>3. ASSUME NEW c \in Calls, Begin(c) PROVE IInv'
  BY <1>3, BeginIInv
<1>4. ASSUME NEW c \in Calls, Invoke(c) PROVE IInv'
  BY <1>4, InvokeIInv
<1>5. ASSUME NEW c \in Calls, HandlerEnds(c) PROVE IInv'
  BY <1>5, HandlerEndsIInv
<1>6. ASSUME NEW c \in Calls, Record(c) PROVE IInv'
  BY <1>6, RecordIInv
<1>7. ASSUME NEW c \in Calls, Abort(c) PROVE IInv'
  BY <1>7, AbortIInv
<1>8. CASE UNCHANGED vars
  BY <1>8 DEF vars, IInv, TypeOK, Paid, OnePayer, RowsHonest, Told, RowsComplete,
              AbortsCounted, DeadCalls
<1> QED BY <1>1, <1>2, <1>3, <1>4, <1>5, <1>6, <1>7, <1>8 DEF Next, Rest

LEMMA Inductive == Spec => []IInv
BY InitIInv, StepIInv, PTL DEF Spec

-----------------------------------------------------------------------------
(* What follows *)

\* Every variable keeps its type, and no call is recorded or returned without
\* a result (ToolExecutor.execute, ConnectorBroker.execute).
THEOREM TypeCorrect == Spec => []TypeOK
<1>1. IInv => TypeOK
  BY DEF IInv
<1> QED BY <1>1, Inductive, PTL

\* Whatever runs concurrently, a consequential call acts only on an approval
\* issued for its name that no other call has used (ToolPolicy.authorize).
THEOREM PaidInFullHolds == Spec => []PaidInFull
<1>1. ASSUME IInv PROVE PaidInFull
  <2> USE <1>1 DEF IInv
  <2>1. ASSUME NEW a \in Approvals PROVE Cardinality(paidBy[a]) <= 1
    <3>1. CASE paidBy[a] = {}
      <4>1. Cardinality({}) = 0
        BY FS_EmptySet
      <4> QED BY <3>1, <4>1
    <3>2. CASE paidBy[a] # {}
      <4>1. PICK c \in paidBy[a] : TRUE
        BY <3>2
      <4>2. paidBy[a] = {c}
        BY <4>1 DEF OnePayer
      <4>3. Cardinality({c}) = 1
        BY FS_Singleton
      <4> QED BY <4>2, <4>3
    <3> QED BY <3>1, <3>2
  <2>2. acted \subseteq Calls
    BY DEF TypeOK
  <2> QED BY <2>1, <2>2 DEF Paid, PaidInFull
<1> QED BY <1>1, Inductive, PTL

LEMMA RowsMatch == IInv => AnswerAudited
<1> SUFFICES ASSUME IInv, NEW c \in Calls
             PROVE  /\ pc[c] = "done" => RowsOf(c) # {}
                    /\ \A i \in RowsOf(c) :
                         /\ Told(c)
                         /\ RowsOf(c) = {i} /\ recorded[i].outcome = outcome[c]
  BY DEF AnswerAudited, Told
<1>1. ASSUME pc[c] = "done" PROVE RowsOf(c) # {}
  BY <1>1 DEF IInv, RowsComplete, RowsOf
<1>2. ASSUME NEW i \in RowsOf(c)
      PROVE  Told(c) /\ RowsOf(c) = {i} /\ recorded[i].outcome = outcome[c]
  BY <1>2 DEF IInv, RowsHonest, RowsOf
<1> QED BY <1>1, <1>2

\* A call that returned has one audit row, with its result; one that was cut off
\* over Postgres has one at most, with the result it had; no other call has any
\* (_audit before return in executor and broker, postgres_stores.py:340).
THEOREM AnswerAuditedHolds == Spec => []AnswerAudited
BY RowsMatch, Inductive, PTL

\* An action nobody can find in the audit log costs a cut-off call, and each
\* of those hides one action at most.
THEOREM UnauditedBoundedHolds == Spec => []UnauditedBounded
<1>1. ASSUME IInv PROVE UnauditedBounded
  <2> DEFINE hidden == {c \in Calls :
                          /\ pc[c] \in {"done", "dead"}
                          /\ c \in acted \/ \E a \in Approvals : c \in paidBy[a]
                          /\ RowsOf(c) = {}}
  <2>1. \A c \in Calls : pc[c] = "done" => RowsOf(c) # {}
    BY <1>1, RowsMatch DEF AnswerAudited
  <2>2. hidden \subseteq DeadCalls
    BY <2>1 DEF DeadCalls
  <2>3. IsFiniteSet(DeadCalls)
    BY GovernedAssumption, FS_Subset DEF DeadCalls
  <2> HIDE DEF hidden
  <2>4. IsFiniteSet(hidden) /\ Cardinality(hidden) <= Cardinality(DeadCalls)
    BY <2>2, <2>3, FS_Subset
  <2>5. Cardinality(hidden) \in Nat /\ Cardinality(DeadCalls) \in Nat
    BY <2>3, <2>4, FS_CardinalityType
  <2>6. Cardinality(hidden) <= aborts
    BY <1>1, <2>4, <2>5 DEF IInv, AbortsCounted, TypeOK
  <2> QED BY <2>6 DEF UnauditedBounded, hidden
<1> QED BY <1>1, Inductive, PTL

-----------------------------------------------------------------------------
(* The refinement: grants and rows are an action ledger *)

\* How far a call has come says whether it acted, and whether it has used up an
\* approval; a result that waits to be recorded tells the same.
StandsAs(c) ==
  /\ pc[c] \in {"idle", "authorize"} => \A a \in Approvals : c \notin paidBy[a]
  /\ pc[c] \in {"idle", "authorize", "invoke"} => c \notin acted
  /\ pc[c] = "acting" => c \in acted
  /\ pc[c] = "record" =>
       /\ outcome[c] \in {"ok", "error"} <=> c \in acted
       /\ outcome[c] \in {"unknown", "not_connected", "approval_required"} =>
            \A a \in Approvals : c \notin paidBy[a]
       /\ outcome[c] = "approval_required" => NameOf[c] \in Gated

StandingInv == \A c \in Calls : StandsAs(c)

LEMMA OthersStand ==
  ASSUME NEW c \in Calls, StandsAs(c), pc'[c] = pc[c], outcome'[c] = outcome[c],
         c \in acted' <=> c \in acted,
         \A a \in Approvals : c \in paidBy'[a] <=> c \in paidBy[a]
  PROVE  StandsAs(c)'
  BY DEF StandsAs

\* A step that changes pc and outcome of one call, and leaves grants and what
\* was carried out.
LEMMA MovesStand ==
  ASSUME TypeOK, StandingInv, NEW c \in Calls, NEW at, Go(c, at),
         \A d \in Calls : d # c => outcome'[d] = outcome[d],
         UNCHANGED <<acted, paidBy>>, StandsAs(c)'
  PROVE  StandingInv'
<1>1. \A d \in Calls : d # c => pc'[d] = pc[d] BY DEF TypeOK, Go
<1> QED BY <1>1, OthersStand DEF StandingInv

LEMMA StandingInitially == Init => StandingInv
  BY DEF Init, StandingInv, StandsAs

LEMMA BeginStands ==
  ASSUME TypeOK, StandingInv, NEW c \in Calls, Begin(c) PROVE StandingInv'
<1>1. pc[c] = "idle" /\ UNCHANGED <<acted, paidBy>> /\ StandsAs(c)
  BY DEF Begin, StandingInv
<1>2. CASE Go(c, "authorize") /\ UNCHANGED outcome
  <2>1. pc'[c] = "authorize" BY <1>2 DEF TypeOK, Go
  <2>2. StandsAs(c)' BY <1>1, <2>1 DEF StandsAs
  <2> QED BY <1>1, <1>2, <2>2, MovesStand
<1>3. ASSUME NEW st \in {"unknown", "no_provider", "not_connected"}, Conclude(c, st)
      PROVE  StandingInv'
  <2>1. /\ Go(c, "record") /\ pc'[c] = "record" /\ outcome'[c] = st
        /\ \A d \in Calls : d # c => outcome'[d] = outcome[d]
    BY <1>3 DEF TypeOK, Go, Conclude
  <2>2. StandsAs(c)' BY <1>1, <2>1 DEF StandsAs
  <2> QED BY <1>1, <2>1, <2>2, MovesStand
<1> QED BY <1>2, <1>3 DEF Begin

LEMMA AuthorizeStands ==
  ASSUME IInv, StandingInv, NEW c \in Calls, NEW a \in Approvals \cup {NoApproval},
         Authorize(c, a)
  PROVE  StandingInv'
<1>1. pc[c] = "authorize" /\ UNCHANGED acted /\ StandsAs(c) /\ TypeOK
  BY DEF Authorize, StandingInv, IInv
<1>2. CASE Go(c, "invoke") /\ UNCHANGED <<outcome, paidBy>>
  <2>1. pc'[c] = "invoke" BY <1>1, <1>2 DEF TypeOK, Go
  <2>2. StandsAs(c)' BY <1>1, <1>2, <2>1 DEF StandsAs
  <2> QED BY <1>1, <1>2, <2>2, MovesStand
<1>3. CASE /\ Consumable(a, NameOf[c])
           /\ paidBy' = [paidBy EXCEPT ![a] = @ \cup {c}]
           /\ Go(c, "invoke") /\ UNCHANGED outcome
  <2>1. a \in Approvals BY <1>3 DEF Consumable
  <2>2. pc'[c] = "invoke" /\ \A d \in Calls : d # c => pc'[d] = pc[d]
    BY <1>1, <1>3 DEF TypeOK, Go
  <2>3. \A b \in Approvals, d \in Calls : d # c => (d \in paidBy'[b] <=> d \in paidBy[b])
    BY <1>1, <1>3, <2>1 DEF TypeOK
  <2>4. StandsAs(c)' BY <1>1, <1>3, <2>2 DEF StandsAs
  <2> QED BY <1>1, <1>3, <2>2, <2>3, <2>4, OthersStand DEF StandingInv
<1>4. CASE /\ NameOf[c] \in Gated
           /\ Conclude(c, "approval_required") /\ UNCHANGED <<grant, paidBy>>
  <2>1. /\ Go(c, "record") /\ pc'[c] = "record" /\ outcome'[c] = "approval_required"
        /\ \A d \in Calls : d # c => outcome'[d] = outcome[d]
    BY <1>1, <1>4 DEF TypeOK, Go, Conclude
  <2>2. StandsAs(c)' BY <1>1, <1>4, <2>1 DEF StandsAs
  <2> QED BY <1>1, <1>4, <2>1, <2>2, MovesStand
<1> QED BY <1>2, <1>3, <1>4 DEF Authorize

LEMMA InvokeStands ==
  ASSUME TypeOK, StandingInv, NEW c \in Calls, Invoke(c) PROVE StandingInv'
<1>1. pc[c] = "invoke" /\ UNCHANGED paidBy /\ StandsAs(c)
  BY DEF Invoke, StandingInv
<1>2. CASE Conclude(c, "no_provider") /\ UNCHANGED acted
  <2>1. /\ Go(c, "record") /\ pc'[c] = "record" /\ outcome'[c] = "no_provider"
        /\ \A d \in Calls : d # c => outcome'[d] = outcome[d]
    BY <1>2 DEF TypeOK, Go, Conclude
  <2>2. StandsAs(c)' BY <1>1, <1>2, <2>1 DEF StandsAs
  <2> QED BY <1>1, <1>2, <2>1, <2>2, MovesStand
<1>3. CASE acted' = acted \cup {c} /\ Go(c, "acting") /\ UNCHANGED outcome
  <2>1. pc'[c] = "acting" /\ \A d \in Calls : d # c => pc'[d] = pc[d]
    BY <1>3 DEF TypeOK, Go
  <2>2. StandsAs(c)' BY <1>3, <2>1 DEF StandsAs
  <2> QED BY <1>1, <1>3, <2>1, <2>2, OthersStand DEF StandingInv
<1> QED BY <1>2, <1>3 DEF Invoke

LEMMA EndsStand ==
  ASSUME TypeOK, StandingInv, NEW c \in Calls,
         HandlerEnds(c) \/ Record(c) \/ Abort(c)
  PROVE  StandingInv'
<1>1. CASE HandlerEnds(c)
  <2>1. PICK o \in {"ok", "error"} : Conclude(c, o) BY <1>1 DEF HandlerEnds
  <2>2. /\ Go(c, "record") /\ pc'[c] = "record" /\ outcome'[c] = o
        /\ \A d \in Calls : d # c => outcome'[d] = outcome[d]
    BY <2>1 DEF TypeOK, Go, Conclude
  <2>3. c \in acted /\ UNCHANGED <<acted, paidBy>>
    BY <1>1 DEF HandlerEnds, StandingInv, StandsAs
  <2>4. StandsAs(c)' BY <2>2, <2>3 DEF StandsAs
  <2> QED BY <2>2, <2>3, <2>4, MovesStand
<1>2. ASSUME NEW at \in {"done", "dead"}, Go(c, at), UNCHANGED <<outcome, acted, paidBy>>
      PROVE  StandingInv'
  <2>1. pc'[c] = at BY <1>2 DEF TypeOK, Go
  <2>2. StandsAs(c)' BY <2>1 DEF StandsAs
  <2> QED BY <1>2, <2>2, MovesStand
<1> QED BY <1>1, <1>2 DEF Record, Abort

LEMMA StandingStep == IInv /\ StandingInv /\ [Next]_vars => StandingInv'
<1> SUFFICES ASSUME IInv, StandingInv, [Next]_vars PROVE StandingInv' OBVIOUS
<1>1. TypeOK BY DEF IInv
<1>2. CASE (\E a \in Approvals : Issue(a)) \/ UNCHANGED vars
  BY <1>2 DEF Issue, vars, StandingInv, StandsAs
<1> QED
  BY <1>1, <1>2, BeginStands, AuthorizeStands, InvokeStands, EndsStand DEF Next, Rest

\* Before it returns or is cut off a call has no entry.
LEMMA NotEntered ==
  ASSUME IInv, NEW c \in Calls, pc[c] \notin {"done", "dead"}
  PROVE  ~Ledger!Entered(c)
<1>1. DOMAIN recorded = 1..Len(recorded) BY DEF IInv, TypeOK
<1> QED BY <1>1 DEF IInv, RowsHonest, Told, Ledger!Entered

\* A call pays in the ledger exactly if an approval was consumed for it.
LEMMA PayingIs ==
  ASSUME NEW c \in Calls
  PROVE  Ledger!Paying(c) <=> \E a \in Approvals : c \in paidBy[a]
  BY DEF Ledger!Paying, Used

LEMMA IssueSimulated ==
  ASSUME IInv, NEW a \in Approvals, Issue(a) PROVE Ledger!Next
<1>1. /\ a \notin Issued /\ Issued' = Issued \cup {a}
      /\ UNCHANGED <<Used, acted, recorded>>
  BY DEF IInv, TypeOK, Issue, Issued, Used
<1>2. Ledger!Issue(a) BY <1>1 DEF Ledger!Issue
<1> QED BY <1>2 DEF Ledger!Next

LEMMA UseSimulated ==
  ASSUME IInv, StandingInv, NEW c \in Calls, NEW a,
         Authorize(c, a), grant' # grant \/ paidBy' # paidBy
  PROVE  Ledger!Next
<1>1. /\ pc[c] = "authorize" /\ NameOf[c] \in Gated /\ Consumable(a, NameOf[c])
      /\ grant' = [grant EXCEPT ![a] = "consumed"]
      /\ paidBy' = [paidBy EXCEPT ![a] = @ \cup {c}]
      /\ UNCHANGED <<acted, recorded>>
  BY DEF Authorize
<1>2. a \in Approvals /\ grant[a] = "live" /\ ApprovedName[a] = NameOf[c]
  BY <1>1, GovernedAssumption DEF Consumable, IInv, TypeOK
<1>3. a \in Issued /\ Issued' = Issued BY <1>1, <1>2 DEF Issued, IInv, TypeOK
<1>4. \A d \in Calls : <<a, d>> \notin Used BY <1>2 DEF Used, IInv, OnePayer
<1>5. c \in GatedCalls \cap MeantFor[a] BY <1>1, <1>2 DEF GatedCalls, MeantFor
<1>6. ~Ledger!Paying(c) /\ c \notin acted /\ ~Ledger!Entered(c)
  BY <1>1, NotEntered, PayingIs DEF StandingInv, StandsAs
<1>7. Used' = Used \cup {<<a, c>>}
  <2>1. \A b \in Approvals : paidBy'[b] = IF b = a THEN paidBy[b] \cup {c} ELSE paidBy[b]
    BY <1>1, <1>2 DEF IInv, TypeOK
  <2>2. ASSUME NEW b \in Approvals, NEW d \in Calls
        PROVE  <<b, d>> \in Used' <=> <<b, d>> \in Used \cup {<<a, c>>}
    BY <1>2, <2>1 DEF Used
  <2>3. /\ Used \cup {<<a, c>>} \subseteq Approvals \X Calls
        /\ Used' \subseteq Approvals \X Calls
    BY <1>2 DEF Used
  <2> QED BY <2>2, <2>3
<1>8. Ledger!Use(a, c) BY <1>1, <1>3, <1>4, <1>5, <1>6, <1>7 DEF Ledger!Use
<1> QED BY <1>2, <1>8 DEF Ledger!Next

LEMMA ActSimulated ==
  ASSUME IInv, StandingInv, NEW c \in Calls, Invoke(c), acted' # acted
  PROVE  Ledger!Next
<1>1. /\ pc[c] = "invoke" /\ acted' = acted \cup {c}
      /\ UNCHANGED <<Issued, Used, recorded>>
  BY DEF Invoke, Issued, Used
<1>2. c \in GatedCalls => Ledger!Paying(c)
  BY <1>1, PayingIs DEF GatedCalls, IInv, Paid
<1>3. c \notin acted /\ ~Ledger!Entered(c)
  BY <1>1, NotEntered DEF StandingInv, StandsAs
<1>4. Ledger!Act(c) BY <1>1, <1>2, <1>3 DEF Ledger!Act
<1> QED BY <1>4 DEF Ledger!Next

\* The row is the entry, whether or not its call goes on to return.
LEMMA RowSimulated ==
  ASSUME IInv, StandingInv, NEW c \in Calls, pc[c] = "record", WriteRow(c),
         UNCHANGED <<grant, acted, paidBy>>
  PROVE  Ledger!Next
<1>1. /\ pc[c] = "record" /\ StandsAs(c)
      /\ recorded' = Append(recorded, [call |-> c, outcome |-> outcome[c]])
      /\ UNCHANGED <<Issued, Used, acted>>
  BY DEF WriteRow, StandingInv, Issued, Used
<1>2. outcome[c] \in Outcomes BY <1>1 DEF IInv, TypeOK
<1>3. /\ ~Ledger!Entered(c)
      /\ outcome[c] \in Ledger!Performed <=> c \in acted
      /\ outcome[c] \in Ledger!Refused => ~Ledger!Paying(c)
      /\ outcome[c] = "approval_required" => c \in GatedCalls
  BY <1>1, NotEntered, PayingIs
  DEF StandsAs, GatedCalls, Ledger!Performed, Ledger!Refused
<1>4. Ledger!Enter(c, outcome[c]) BY <1>1, <1>3 DEF Ledger!Enter
<1> QED BY <1>2, <1>4 DEF Ledger!Next

\* Every step is one of the ledger, or none.
LEMMA StepSimulated ==
  IInv /\ StandingInv /\ [Next]_vars => [Ledger!Next]_(Ledger!vars)
<1> SUFFICES ASSUME IInv, StandingInv, [Next]_vars
             PROVE  Ledger!Next \/ UNCHANGED Ledger!vars
  OBVIOUS
<1>1. ASSUME UNCHANGED <<grant, paidBy, acted, recorded>> PROVE UNCHANGED Ledger!vars
  BY <1>1 DEF Ledger!vars, Issued, Used
<1>2. ASSUME NEW c \in Calls, NEW a, Authorize(c, a)
      PROVE  Ledger!Next \/ UNCHANGED Ledger!vars
  BY <1>1, <1>2, UseSimulated DEF Authorize
<1>3. ASSUME NEW c \in Calls, Invoke(c) PROVE Ledger!Next \/ UNCHANGED Ledger!vars
  BY <1>1, <1>3, ActSimulated DEF Invoke
<1>4. ASSUME NEW c \in Calls, Begin(c) \/ HandlerEnds(c)
      PROVE  UNCHANGED Ledger!vars
  BY <1>1, <1>4 DEF Begin, HandlerEnds
<1>5. ASSUME NEW c \in Calls, Record(c) \/ Abort(c)
      PROVE  Ledger!Next \/ UNCHANGED Ledger!vars
  BY <1>1, <1>5, RowSimulated DEF Record, Abort
<1>6. CASE UNCHANGED vars BY <1>1, <1>6 DEF vars
<1> QED BY <1>2, <1>3, <1>4, <1>5, <1>6, IssueSimulated DEF Next, Rest

\* policy.py:20-45, executor.py:27-75, broker.py:145-287: for any number of calls
\* and approvals on both paths, over either store and whatever is cut off, grants
\* are used and rows written as in an action ledger.
THEOREM ImplementsActionLedgerHolds == Spec => ImplementsActionLedger
<1>1. Init => Ledger!Init BY DEF Init, Ledger!Init, Issued, Used
<1> QED
  BY <1>1, Inductive, StandingInitially, StandingStep, StepSimulated, PTL
  DEF Spec, ImplementsActionLedger, Ledger!Spec

=============================================================================
