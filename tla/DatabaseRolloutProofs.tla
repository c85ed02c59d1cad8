------------------------ MODULE DatabaseRolloutProofs ------------------------
(***************************************************************************)
(* What holds of a rollout for any number of deployments, environments,    *)
(* scripts, migrations and crashes, without any lock: the first stamp      *)
(* stays, and a version stands for a script that was executed.             *)
(***************************************************************************)
EXTENDS DatabaseRollout, SequenceTheorems, TLAPS

-----------------------------------------------------------------------------
(* The invariant *)

\* Whoever is about to record a version has a latest script of its own.
HasApplied ==
  \A d \in Deployments : pc[d] = "record" =>
    \E i \in 1..Len(ran) :
      ran[i].by = d /\ \A k \in 1..Len(ran) : ran[k].by = d => k <= i

\* A deployment takes for applied only what is recorded.
SeenRecorded == \A d \in Deployments : seen[d] \subseteq versions

IInv == /\ TypeOK /\ OneEnvironment /\ ScriptsInOrder /\ DoneMeansCurrent
        /\ HasApplied /\ SeenRecorded

-----------------------------------------------------------------------------
(* Lemmas *)

RanScript == [script : Scripts, by : Deployments]

\* An entry of the history is a script and a deployment.
LEMMA RanTyped ==
  ASSUME TypeOK, NEW i \in 1..Len(ran)
  PROVE  ran[i].script \in Scripts /\ ran[i].by \in Deployments
<1>1. ran \in Seq(RanScript)
  BY DEF TypeOK, RanScript
<1>2. ran[i] \in RanScript
  BY <1>1
<1> QED BY <1>2 DEF RanScript

\* The history grows by its last entry only.
LEMMA AppendRan ==
  ASSUME ran \in Seq(RanScript), NEW e \in RanScript, ran' = Append(ran, e)
  PROVE  /\ ran' \in Seq(RanScript)
         /\ Len(ran) \in Nat /\ Len(ran') = Len(ran) + 1
         /\ \A i \in 1..Len(ran) : ran'[i] = ran[i]
         /\ ran'[Len(ran) + 1] = e
BY AppendProperties

\* What a step that only moves one deployment on, not to done or record, and
\* not into the migration of a database it does not own, leaves intact.
LEMMA MoveOn ==
  ASSUME IInv, NEW d \in Deployments,
         NEW to \in {"insert", "reread", "fetch", "apply", "failed"}, Go(d, to),
         to \in {"fetch", "apply"} => stamp = EnvOf[d],
         UNCHANGED <<stamp, versions, ran, crashes>>,
         runs' \in [Deployments -> Nat],
         \/ UNCHANGED seen
         \/ seen' = [seen EXCEPT ![d] = versions]
  PROVE  IInv'
<1> USE DEF IInv
<1>1. TypeOK'
  <2>1. pc' \in [Deployments -> {"idle", "insert", "reread", "fetch", "apply",
                                 "record", "done", "failed"}]
    BY DEF Go, TypeOK
  <2>2. seen' \in [Deployments -> SUBSET Scripts]
    BY DEF TypeOK
  <2>3. (\E x \in Deployments : pc'[x] \in Migrating) => stamp # NoEnv
    BY RolloutAssumption DEF Go, TypeOK, Migrating
  <2> QED BY <2>1, <2>2, <2>3 DEF TypeOK
<1>2. \A x \in Deployments : x # d => pc'[x] = pc[x] /\ seen'[x] = seen[x]
  BY DEF Go, TypeOK
<1>3. pc'[d] = to /\ (seen'[d] = seen[d] \/ seen'[d] = versions)
  BY DEF Go, TypeOK
<1>4. OneEnvironment'
  BY <1>2, <1>3 DEF OneEnvironment, Migrating
<1>5. ScriptsInOrder' /\ DoneMeansCurrent'
  BY <1>2, <1>3 DEF ScriptsInOrder, DoneMeansCurrent
<1>6. HasApplied' /\ SeenRecorded'
  BY <1>2, <1>3 DEF HasApplied, SeenRecorded
<1> QED BY <1>1, <1>4, <1>5, <1>6

\* What a deployment records is a script it has executed.
LEMMA AppliedRan ==
  ASSUME IInv, NEW d \in Deployments, pc[d] = "record"
  PROVE  Applied(d) \in Scripts /\ \E i \in 1..Len(ran) : ran[i].script = Applied(d)
<1> DEFINE mine == {i \in 1..Len(ran) : ran[i].by = d}
<1>1. \E i \in mine : \A k \in mine : k <= i
  BY DEF IInv, HasApplied
<1>2. PICK i \in mine : i = (CHOOSE j \in mine : \A k \in mine : k <= j)
  BY <1>1
<1>3. Applied(d) = ran[i].script
  BY <1>2 DEF Applied
<1>4. ran[i].script \in Scripts
  BY <1>2, RanTyped DEF IInv
<1> QED BY <1>2, <1>3, <1>4

-----------------------------------------------------------------------------
(* Init and the steps *)

LEMMA InitIInv == Init => IInv
<1> SUFFICES ASSUME Init PROVE IInv
  OBVIOUS
<1>1. TypeOK
  BY DEF Init, TypeOK, Migrating
<1>2. Len(ran) = 0
  BY DEF Init
<1> QED
  BY <1>1, <1>2 DEF Init, IInv, OneEnvironment, ScriptsInOrder,
     DoneMeansCurrent, HasApplied, SeenRecorded, Migrating

LEMMA CheckIInv ==
  ASSUME IInv, NEW d \in Deployments, Check(d) PROVE IInv'
<1>1. runs' \in [Deployments -> Nat]
  BY DEF Check, IInv, TypeOK
<1>2. PICK to \in {"insert", "fetch", "failed"} :
        Go(d, to) /\ (to = "fetch" => stamp = EnvOf[d])
  BY DEF Check, Verify
<1> QED BY <1>1, <1>2, MoveOn DEF Check

\* The stamp is only set while nobody migrates and nothing has been executed.
LEMMA InsertIInv ==
  ASSUME IInv, NEW d \in Deployments, Insert(d) PROVE IInv'
<1> USE DEF IInv
<1>1. stamp' = stamp \/ (stamp = NoEnv /\ stamp' = EnvOf[d])
  BY DEF Insert
<1>2. \A x \in Deployments : pc'[x] \in Migrating \cup {"record", "done"} =>
        pc'[x] = pc[x]
  BY DEF Insert, Go, TypeOK, Migrating
<1>3. \A i \in 1..Len(ran) : ran[i].by \in Deployments
  BY RanTyped
<1>4. TypeOK'
  <2>1. pc' \in [Deployments -> {"idle", "insert", "reread", "fetch", "apply",
                                 "record", "done", "failed"}]
    BY DEF Insert, Go, TypeOK
  <2>2. stamp' \in Envs \cup {NoEnv}
    BY <1>1 DEF TypeOK, Envs
  <2>3. (\E x \in Deployments : pc'[x] \in Migrating) => stamp' # NoEnv
    BY <1>1, <1>2 DEF TypeOK
  <2> QED BY <2>1, <2>2, <2>3 DEF TypeOK, Insert
<1>5. OneEnvironment'
  <2>1. CASE stamp' = stamp
    BY <1>2, <2>1 DEF OneEnvironment, Insert
  <2>2. CASE stamp = NoEnv
    <3>1. \A x \in Deployments : pc'[x] \notin Migrating
      BY <1>2, <2>2 DEF TypeOK
    <3>2. 1..Len(ran) = {}
      BY <1>3, <2>2, RolloutAssumption DEF OneEnvironment
    <3> QED BY <3>1, <3>2 DEF OneEnvironment, Insert
  <2> QED BY <1>1, <2>1, <2>2
<1>6. ScriptsInOrder' /\ DoneMeansCurrent' /\ HasApplied' /\ SeenRecorded'
  BY <1>2 DEF Insert, ScriptsInOrder, DoneMeansCurrent, HasApplied, SeenRecorded
<1> QED BY <1>4, <1>5, <1>6

LEMMA RereadIInv ==
  ASSUME IInv, NEW d \in Deployments, Reread(d) PROVE IInv'
<1>1. PICK to \in {"fetch", "failed"} :
        Go(d, to) /\ (to = "fetch" => stamp = EnvOf[d])
  BY DEF Reread, Verify
<1>2. runs' \in [Deployments -> Nat]
  BY DEF Reread, IInv, TypeOK
<1> QED BY <1>1, <1>2, MoveOn DEF Reread

LEMMA FetchIInv ==
  ASSUME IInv, NEW d \in Deployments, Fetch(d) PROVE IInv'
<1>1. stamp = EnvOf[d]
  BY DEF Fetch, IInv, OneEnvironment, Migrating
<1>2. runs' \in [Deployments -> Nat]
  BY DEF Fetch, IInv, TypeOK
<1> QED BY <1>1, <1>2, MoveOn DEF Fetch

\* The earlier scripts are among those the deployment takes for applied, so
\* they are recorded and were executed.
LEMMA ApplyIInv ==
  ASSUME IInv, NEW d \in Deployments, Apply(d) PROVE IInv'
<1> USE DEF IInv
<1>1. PICK s \in Scripts : Pending(d, s)
                           /\ ran' = Append(ran, [script |-> s, by |-> d])
  BY DEF Apply
<1> DEFINE e == [script |-> s, by |-> d]
<1>2. ran \in Seq(RanScript) /\ e \in RanScript
  BY DEF TypeOK, RanScript
<1>3. /\ ran' \in Seq(RanScript)
      /\ Len(ran) \in Nat /\ Len(ran') = Len(ran) + 1
      /\ \A i \in 1..Len(ran) : ran'[i] = ran[i]
      /\ ran'[Len(ran) + 1] = e
  BY <1>1, <1>2, AppendRan
<1>4. /\ pc[d] = "apply" /\ pc'[d] = "record"
      /\ \A x \in Deployments : x # d => pc'[x] = pc[x]
      /\ UNCHANGED <<stamp, versions, seen, runs, crashes>>
  BY DEF Apply, Go, TypeOK
<1>5. TypeOK'
  <2>1. pc' \in [Deployments -> {"idle", "insert", "reread", "fetch", "apply",
                                 "record", "done", "failed"}]
    BY DEF Apply, Go, TypeOK
  <2>2. (\E x \in Deployments : pc'[x] \in Migrating) => stamp' # NoEnv
    BY <1>4 DEF TypeOK, Migrating
  <2> QED BY <1>3, <1>4, <2>1, <2>2 DEF TypeOK, RanScript
<1>6. e.script = s /\ e.by = d
  OBVIOUS
<1> HIDE DEF e
<1>7. OneEnvironment'
  <2>1. \A x \in Deployments : pc'[x] \in Migrating => stamp' = EnvOf[x]
    BY <1>4 DEF OneEnvironment, Migrating
  <2>2. stamp' = EnvOf[d]
    BY <1>4 DEF OneEnvironment, Migrating
  <2>3. \A i \in 1..Len(ran') : stamp' = EnvOf[ran'[i].by]
    <3> SUFFICES ASSUME NEW i \in 1..Len(ran') PROVE stamp' = EnvOf[ran'[i].by]
      OBVIOUS
    <3>1. CASE i \in 1..Len(ran)
      BY <1>3, <1>4, <3>1 DEF OneEnvironment
    <3>2. CASE i = Len(ran) + 1
      BY <1>3, <1>6, <2>2, <3>2
    <3> QED BY <1>3, <3>1, <3>2
  <2> QED BY <2>1, <2>3 DEF OneEnvironment
<1>8. ScriptsInOrder'
  <2>1. \A k \in 1..(s - 1) : \E i \in 1..Len(ran) : ran[i].script = k
    BY <1>1 DEF Pending, SeenRecorded, ScriptsInOrder
  <2>2. ASSUME NEW i \in 1..Len(ran'), NEW k \in 1..(ran'[i].script - 1)
        PROVE  \E j \in 1..(i - 1) : ran'[j].script = k
    <3>1. CASE i \in 1..Len(ran)
      <4>1. PICK j \in 1..(i - 1) : ran[j].script = k
        BY <1>3, <2>2, <3>1 DEF ScriptsInOrder
      <4>2. j \in 1..Len(ran)
        BY <1>3, <3>1
      <4> QED BY <1>3, <4>1, <4>2
    <3>2. CASE i = Len(ran) + 1
      <4>1. k \in 1..(s - 1)
        BY <1>3, <1>6, <2>2, <3>2
      <4>2. PICK j \in 1..Len(ran) : ran[j].script = k
        BY <2>1, <4>1
      <4>3. j \in 1..(i - 1)
        BY <1>3, <3>2
      <4> QED BY <1>3, <4>2, <4>3
    <3> QED BY <1>3, <2>2, <3>1, <3>2
  <2>3. ASSUME NEW v \in versions' PROVE \E i \in 1..Len(ran') : ran'[i].script = v
    <3>1. PICK i \in 1..Len(ran) : ran[i].script = v
      BY <1>4, <2>3 DEF ScriptsInOrder
    <3>2. i \in 1..Len(ran')
      BY <1>3
    <3> QED BY <1>3, <3>1, <3>2
  <2> QED BY <2>2, <2>3 DEF ScriptsInOrder
<1>9. HasApplied'
  <2> SUFFICES ASSUME NEW x \in Deployments, pc'[x] = "record"
               PROVE  \E i \in 1..Len(ran') : ran'[i].by = x
                        /\ \A k \in 1..Len(ran') : ran'[k].by = x => k <= i
    BY DEF HasApplied
  <2>1. CASE x = d
    <3>1. Len(ran) + 1 \in 1..Len(ran')
      BY <1>3
    <3>2. \A k \in 1..Len(ran') : k <= Len(ran) + 1
      BY <1>3
    <3> QED BY <1>3, <1>6, <2>1, <3>1, <3>2
  <2>2. CASE x # d
    <3>1. PICK i \in 1..Len(ran) :
            ran[i].by = x /\ \A k \in 1..Len(ran) : ran[k].by = x => k <= i
      BY <1>4, <2>2 DEF HasApplied
    <3>2. \A k \in 1..Len(ran') : ran'[k].by = x => k \in 1..Len(ran)
      BY <1>3, <1>6, <2>2
    <3>3. i \in 1..Len(ran')
      BY <1>3
    <3> QED BY <1>3, <3>1, <3>2, <3>3
  <2> QED BY <2>1, <2>2
<1>10. DoneMeansCurrent' /\ SeenRecorded'
  BY <1>4 DEF DoneMeansCurrent, SeenRecorded
<1> QED BY <1>5, <1>7, <1>8, <1>9, <1>10

LEMMA RecordIInv ==
  ASSUME IInv, NEW d \in Deployments, Record(d) PROVE IInv'
<1> USE DEF IInv
<1>1. CASE Applied(d) \in versions
  <2>1. Go(d, "failed") /\ UNCHANGED <<stamp, versions, ran, seen, runs, crashes>>
    BY <1>1 DEF Record
  <2>2. runs' \in [Deployments -> Nat]
    BY <2>1 DEF TypeOK
  <2> QED BY <2>1, <2>2, MoveOn
<1>2. CASE Applied(d) \notin versions
  <2>1. /\ pc[d] = "record" /\ Go(d, "apply")
        /\ versions' = versions \cup {Applied(d)}
        /\ seen' = [seen EXCEPT ![d] = @ \cup {Applied(d)}]
        /\ UNCHANGED <<stamp, ran, runs, crashes>>
    BY <1>2 DEF Record
  <2>2. Applied(d) \in Scripts /\ \E i \in 1..Len(ran) : ran[i].script = Applied(d)
    BY <2>1, AppliedRan
  <2> HIDE DEF Applied
  <2>3. /\ pc'[d] = "apply"
        /\ \A x \in Deployments : x # d => pc'[x] = pc[x]
        /\ \A x \in Deployments : seen'[x] \subseteq seen[x] \cup {Applied(d)}
    BY <2>1 DEF Go, TypeOK
  <2>4. TypeOK'
    <3>1. pc' \in [Deployments -> {"idle", "insert", "reread", "fetch", "apply",
                                   "record", "done", "failed"}]
      BY <2>1 DEF Go, TypeOK
    <3>2. seen' \in [Deployments -> SUBSET Scripts] /\ versions' \subseteq Scripts
      BY <2>1, <2>2 DEF TypeOK
    <3>3. (\E x \in Deployments : pc'[x] \in Migrating) => stamp # NoEnv
      BY <2>1, <2>3 DEF TypeOK, Migrating
    <3> QED BY <2>1, <3>1, <3>2, <3>3 DEF TypeOK
  <2>5. OneEnvironment'
    BY <2>1, <2>3 DEF OneEnvironment, Migrating
  <2>6. ScriptsInOrder'
    BY <2>1, <2>2 DEF ScriptsInOrder
  <2>7. DoneMeansCurrent' /\ SeenRecorded'
    BY <2>1, <2>3 DEF DoneMeansCurrent, SeenRecorded
  <2>8. HasApplied'
    BY <2>1, <2>3 DEF HasApplied
  <2> QED BY <2>4, <2>5, <2>6, <2>7, <2>8
<1> QED BY <1>1, <1>2

LEMMA FinishIInv ==
  ASSUME IInv, NEW d \in Deployments, Finish(d) PROVE IInv'
<1> USE DEF IInv
<1>1. /\ pc'[d] = "done" /\ Scripts \subseteq seen[d]
      /\ \A x \in Deployments : x # d => pc'[x] = pc[x]
      /\ UNCHANGED <<stamp, versions, ran, seen, runs, crashes>>
  BY DEF Finish, Go, TypeOK
<1>2. pc' \in [Deployments -> {"idle", "insert", "reread", "fetch", "apply",
                               "record", "done", "failed"}]
  BY DEF Finish, Go, TypeOK
<1>3. TypeOK' /\ OneEnvironment'
  BY <1>1, <1>2 DEF TypeOK, OneEnvironment, Migrating
<1>4. DoneMeansCurrent'
  BY <1>1 DEF DoneMeansCurrent, SeenRecorded
<1>5. ScriptsInOrder' /\ HasApplied' /\ SeenRecorded'
  BY <1>1 DEF ScriptsInOrder, HasApplied, SeenRecorded
<1> QED BY <1>3, <1>4, <1>5

LEMMA CrashIInv ==
  ASSUME IInv, NEW d \in Deployments, Crash(d) PROVE IInv'
<1> USE DEF IInv
<1>1. /\ pc'[d] = "failed" /\ crashes' \in Nat
      /\ \A x \in Deployments : x # d => pc'[x] = pc[x]
      /\ UNCHANGED <<stamp, versions, ran, seen, runs>>
  BY DEF Crash, Go, TypeOK
<1>2. pc' \in [Deployments -> {"idle", "insert", "reread", "fetch", "apply",
                               "record", "done", "failed"}]
  BY DEF Crash, Go, TypeOK
<1>3. TypeOK' /\ OneEnvironment'
  BY <1>1, <1>2 DEF TypeOK, OneEnvironment, Migrating
<1>4. DoneMeansCurrent' /\ ScriptsInOrder' /\ HasApplied' /\ SeenRecorded'
  BY <1>1 DEF DoneMeansCurrent, ScriptsInOrder, HasApplied, SeenRecorded
<1> QED BY <1>3, <1>4

LEMMA StepIInv == IInv /\ [Next]_vars => IInv'
<1> SUFFICES ASSUME IInv, [Next]_vars PROVE IInv'
  OBVIOUS
<1>1. ASSUME NEW d \in Deployments, Check(d) PROVE IInv'
  BY <1>1, CheckIInv
<1>2. ASSUME NEW d \in Deployments, Insert(d) PROVE IInv'
  BY <1>2, InsertIInv
<1>3. ASSUME NEW d \in Deployments, Reread(d) PROVE IInv'
  BY <1>3, RereadIInv
<1>4. ASSUME NEW d \in Deployments, Fetch(d) PROVE IInv'
  BY <1>4, FetchIInv
<1>5. ASSUME NEW d \in Deployments, Apply(d) PROVE IInv'
  BY <1>5, ApplyIInv
<1>6. ASSUME NEW d \in Deployments, Record(d) PROVE IInv'
  BY <1>6, RecordIInv
<1>7. ASSUME NEW d \in Deployments, Finish(d) PROVE IInv'
  BY <1>7, FinishIInv
<1>8. ASSUME NEW d \in Deployments, Crash(d) PROVE IInv'
  BY <1>8, CrashIInv
<1>9. CASE UNCHANGED vars
  BY <1>9 DEF vars, IInv, TypeOK, OneEnvironment, ScriptsInOrder,
     DoneMeansCurrent, HasApplied, SeenRecorded, Migrating
<1> QED
  BY <1>1, <1>2, <1>3, <1>4, <1>5, <1>6, <1>7, <1>8, <1>9 DEF Next, Rest

LEMMA Inductive == Spec => []IInv
BY InitIInv, StepIInv, PTL DEF Spec

-----------------------------------------------------------------------------
(* Who brings the database up to date *)

\* Versions are recorded without gaps, and the script somebody is about to
\* record follows what it takes for applied.
Closed == \A v \in versions : 1..(v - 1) \subseteq versions

RecordsNext ==
  \A d \in Deployments : pc[d] = "record" => 1..(Applied(d) - 1) \subseteq seen[d]

\* A migration of the owner that nobody is ahead of.
Leads(d) ==
  /\ EnvOf[d] = stamp
  /\ \/ pc[d] \in {"reread", "fetch"}
     \/ pc[d] = "apply" /\ versions \subseteq seen[d]
     \/ pc[d] = "record" /\ Applied(d) \notin versions

SomeoneLeads ==
  stamp # NoEnv /\ crashes = 0
    => Scripts \subseteq versions \/ \E d \in Deployments : Leads(d)

LeadInv == Closed /\ RecordsNext /\ SomeoneLeads

\* The script a deployment has applied is that of its last entry.
LEMMA AppliedIsLast ==
  ASSUME ran \in Seq(RanScript), NEW d, NEW i \in 1..Len(ran), ran[i].by = d,
         \A k \in 1..Len(ran) : ran[k].by = d => k <= i
  PROVE  Applied(d) = ran[i].script
<1> DEFINE mine == {k \in 1..Len(ran) : ran[k].by = d}
<1>1. i \in mine /\ \A k \in mine : k <= i OBVIOUS
<1>2. PICK j \in mine : j = (CHOOSE m \in mine : \A k \in mine : k <= m)
                        /\ \A k \in mine : k <= j
  BY <1>1
<1>3. j = i BY <1>1, <1>2, LenProperties
<1> QED BY <1>2, <1>3 DEF Applied

LEMMA AppliedIsLastNext ==
  ASSUME (ran \in Seq(RanScript))', NEW d, NEW i \in 1..Len(ran'), ran'[i].by = d,
         \A k \in 1..Len(ran') : ran'[k].by = d => k <= i
  PROVE  Applied(d)' = ran'[i].script
<1> DEFINE mine == {k \in 1..Len(ran') : ran'[k].by = d}
<1>1. i \in mine /\ \A k \in mine : k <= i OBVIOUS
<1>2. PICK j \in mine : j = (CHOOSE m \in mine : \A k \in mine : k <= m)
                        /\ \A k \in mine : k <= j
  BY <1>1
<1>3. j = i BY <1>1, <1>2, LenProperties
<1> QED BY <1>2, <1>3 DEF Applied

\* Others' scripts do not change what a deployment has applied.
LEMMA AppliedKept ==
  ASSUME IInv, NEW d \in Deployments, Apply(d),
         NEW x \in Deployments, x # d, pc[x] = "record"
  PROVE  Applied(x)' = Applied(x)
<1>1. PICK e : e \in RanScript /\ e.by = d /\ ran' = Append(ran, e)
  BY DEF Apply, RanScript
<1>2. ran \in Seq(RanScript) BY DEF IInv, TypeOK, RanScript
<1>3. /\ (ran \in Seq(RanScript))'
      /\ Len(ran) \in Nat /\ Len(ran') = Len(ran) + 1
      /\ \A i \in 1..Len(ran) : ran'[i] = ran[i]
      /\ ran'[Len(ran) + 1] = e
  BY <1>1, <1>2, AppendRan
<1>4. PICK i \in 1..Len(ran) :
        ran[i].by = x /\ \A k \in 1..Len(ran) : ran[k].by = x => k <= i
  BY DEF IInv, HasApplied
<1>5. \A k \in 1..Len(ran') : ran'[k].by = x => k \in 1..Len(ran)
  BY <1>1, <1>3
<1>6. Applied(x) = ran[i].script BY <1>2, <1>4, AppliedIsLast
<1>7. Applied(x)' = ran'[i].script BY <1>3, <1>4, <1>5, AppliedIsLastNext
<1> QED BY <1>3, <1>4, <1>6, <1>7

\* A migration that has executed a script follows on with it.
LEMMA AppliedIsPending ==
  ASSUME IInv, NEW d \in Deployments, Apply(d)
  PROVE  Applied(d)' \in Scripts /\ Pending(d, Applied(d)')
<1>1. PICK s \in Scripts : Pending(d, s)
                           /\ ran' = Append(ran, [script |-> s, by |-> d])
  BY DEF Apply
<1>2. PICK e : e = [script |-> s, by |-> d] OBVIOUS
<1>3. e \in RanScript /\ e.script = s /\ e.by = d BY <1>2 DEF RanScript
<1>4. ran \in Seq(RanScript) BY DEF IInv, TypeOK, RanScript
<1>5. /\ (ran \in Seq(RanScript))'
      /\ Len(ran) \in Nat /\ Len(ran') = Len(ran) + 1
      /\ ran'[Len(ran) + 1] = e
  BY <1>1, <1>2, <1>3, <1>4, AppendRan
<1>6. /\ Len(ran) + 1 \in 1..Len(ran')
      /\ \A k \in 1..Len(ran') : k <= Len(ran) + 1
  BY <1>5
<1>7. Applied(d)' = s BY <1>3, <1>5, <1>6, AppliedIsLastNext
<1> QED BY <1>1, <1>7

LEMMA LeadInitially == Init => LeadInv
BY DEF Init, LeadInv, Closed, RecordsNext, SomeoneLeads

\* Between Apply and Record nothing that the versions rest on changes.
LEMMA LeadQuiet ==
  ASSUME IInv, LeadInv, NEW d \in Deployments,
         Check(d) \/ Insert(d) \/ Reread(d) \/ Fetch(d) \/ Finish(d) \/ Crash(d)
  PROVE  Closed' /\ RecordsNext'
<1>1. UNCHANGED <<versions, ran>>
      /\ \A x \in Deployments : pc'[x] = "record" => pc[x] = "record" /\ seen'[x] = seen[x]
  BY DEF Check, Verify, Insert, Reread, Fetch, Finish, Crash, Go, IInv, TypeOK
<1>2. \A x \in Deployments : Applied(x)' = Applied(x)
  BY <1>1 DEF Applied
<1> QED BY <1>1, <1>2 DEF LeadInv, Closed, RecordsNext

\* Whoever led goes on leading when another moves.
LEMMA OthersLead ==
  ASSUME IInv, NEW d \in Deployments,
         UNCHANGED <<versions, ran, stamp>>,
         \A x \in Deployments : x # d => pc'[x] = pc[x] /\ seen'[x] = seen[x],
         SomeoneLeads, crashes' = 0 => crashes = 0,
         Leads(d) => Leads(d)' \/ Scripts \subseteq versions
  PROVE  SomeoneLeads'
<1>1. \A x \in Deployments : Applied(x)' = Applied(x)
  BY DEF Applied
<1>2. \A x \in Deployments : x # d /\ Leads(x) => Leads(x)'
  BY <1>1 DEF Leads
<1> QED BY <1>2 DEF SomeoneLeads

\* The owner's migration stays ahead up to its end; whoever stamps becomes one.
LEMMA LeadMoves ==
  ASSUME IInv, LeadInv, NEW d \in Deployments,
         Check(d) \/ Insert(d) \/ Reread(d) \/ Fetch(d) \/ Finish(d) \/ Crash(d)
  PROVE  SomeoneLeads'
<1> USE DEF LeadInv
<1>1. \A x \in Deployments : x # d => pc'[x] = pc[x] /\ seen'[x] = seen[x]
  BY DEF Check, Verify, Insert, Reread, Fetch, Finish, Crash, Go, IInv, TypeOK
<1>2. CASE Check(d)
  <2>1. ~Leads(d) BY <1>2 DEF Check, Leads
  <2> QED BY <1>1, <1>2, <2>1, OthersLead DEF Check
<1>3. CASE Insert(d)
  <2>1. /\ pc[d] = "insert" /\ pc'[d] = "reread" /\ UNCHANGED <<versions, ran, crashes>>
        /\ stamp' = IF stamp = NoEnv THEN EnvOf[d] ELSE stamp
    BY <1>3 DEF Insert, Go, IInv, TypeOK
  <2>2. CASE stamp = NoEnv
    <3>1. Leads(d)' BY <2>1, <2>2 DEF Leads
    <3> QED BY <3>1 DEF SomeoneLeads
  <2>3. CASE stamp # NoEnv
    <3>1. ~Leads(d) /\ stamp' = stamp BY <2>1, <2>3 DEF Leads
    <3> QED BY <1>1, <2>1, <3>1, OthersLead
  <2> QED BY <2>2, <2>3
<1>4. CASE Reread(d)
  <2>1. EnvOf[d] = stamp => pc'[d] = "fetch"
    BY <1>4 DEF Reread, Verify, Go, IInv, TypeOK
  <2>2. Leads(d) => Leads(d)' BY <1>4, <2>1 DEF Leads, Reread
  <2> QED BY <1>1, <1>4, <2>2, OthersLead DEF Reread
<1>5. CASE Fetch(d)
  <2>1. pc'[d] = "apply" /\ seen'[d] = versions
    BY <1>5 DEF Fetch, Go, IInv, TypeOK
  <2>2. Leads(d) => Leads(d)' BY <1>5, <2>1 DEF Leads, Fetch
  <2> QED BY <1>1, <1>5, <2>2, OthersLead DEF Fetch
<1>6. CASE Finish(d)
  <2>1. Scripts \subseteq versions BY <1>6 DEF Finish, IInv, SeenRecorded
  <2> QED BY <1>1, <1>6, <2>1, OthersLead DEF Finish
<1>7. CASE Crash(d)
  <2>1. crashes' # 0 BY <1>7 DEF Crash, IInv, TypeOK
  <2> QED BY <2>1 DEF SomeoneLeads
<1> QED BY <1>2, <1>3, <1>4, <1>5, <1>6, <1>7

\* A leader executes a script that is not recorded yet.
LEMMA LeadApply ==
  ASSUME IInv, LeadInv, NEW d \in Deployments, Apply(d) PROVE LeadInv'
<1> USE DEF LeadInv
<1>1. /\ pc[d] = "apply" /\ pc'[d] = "record"
      /\ \A x \in Deployments : x # d => pc'[x] = pc[x]
      /\ UNCHANGED <<stamp, versions, seen, crashes>>
  BY DEF Apply, Go, IInv, TypeOK
<1>2. Applied(d)' \in Scripts /\ Pending(d, Applied(d)') BY AppliedIsPending
<1>3. \A x \in Deployments : x # d /\ pc[x] = "record" => Applied(x)' = Applied(x)
  BY AppliedKept
<1>4. Closed' BY <1>1 DEF Closed
<1>5. RecordsNext'
  <2>1. ASSUME NEW x \in Deployments, pc'[x] = "record"
        PROVE  1..(Applied(x)' - 1) \subseteq seen'[x]
    <3>1. CASE x = d BY <1>1, <1>2, <3>1 DEF Pending
    <3>2. CASE x # d BY <1>1, <1>3, <2>1, <3>2 DEF RecordsNext
    <3> QED BY <3>1, <3>2
  <2> QED BY <2>1 DEF RecordsNext
<1>6. SomeoneLeads'
  <2>1. ASSUME NEW x \in Deployments, Leads(x) PROVE Leads(x)'
    <3>1. CASE x = d
      <4>1. versions \subseteq seen[d] BY <1>1, <2>1, <3>1 DEF Leads
      <4>2. Applied(d)' \notin versions BY <1>2, <4>1 DEF Pending
      <4> QED BY <1>1, <2>1, <3>1, <4>2 DEF Leads
    <3>2. CASE x # d BY <1>1, <1>3, <2>1, <3>2 DEF Leads
    <3> QED BY <3>1, <3>2
  <2> QED BY <1>1, <2>1 DEF SomeoneLeads
<1> QED BY <1>4, <1>5, <1>6

\* Whoever records a version takes the lead; who comes second gives up.
LEMMA LeadRecord ==
  ASSUME IInv, LeadInv, NEW d \in Deployments, Record(d) PROVE LeadInv'
<1> USE DEF LeadInv
<1>1. /\ \A x \in Deployments : x # d => pc'[x] = pc[x] /\ seen'[x] = seen[x]
      /\ pc[d] = "record" /\ pc'[d] # "record" /\ UNCHANGED <<stamp, ran, crashes>>
  BY DEF Record, Go, IInv, TypeOK
<1>2. \A x \in Deployments : Applied(x)' = Applied(x) BY <1>1 DEF Applied
<1>3. RecordsNext' BY <1>1, <1>2 DEF RecordsNext
<1>4. CASE Applied(d) \in versions
  <2>1. UNCHANGED versions /\ ~Leads(d) BY <1>1, <1>4 DEF Record, Leads
  <2>2. SomeoneLeads' BY <1>1, <2>1, OthersLead
  <2> QED BY <1>3, <2>1, <2>2 DEF Closed
<1>5. CASE Applied(d) \notin versions
  <2>1. PICK v \in Scripts : v = Applied(d) BY <1>1, AppliedRan
  <2>2. /\ versions' = versions \cup {v} /\ seen'[d] = seen[d] \cup {v}
        /\ pc'[d] = "apply" /\ v \notin versions
    BY <1>5, <2>1 DEF Record, Go, IInv, TypeOK
  <2>3. 1..(v - 1) \subseteq seen[d] BY <1>1, <2>1 DEF RecordsNext
  <2>4. Closed' BY <2>2, <2>3 DEF Closed, IInv, SeenRecorded
  <2>5. ASSUME NEW k \in versions PROVE k \in seen[d]
    <3>1. k \in 1..Last BY DEF IInv, TypeOK, Scripts
    <3>2. v \notin 1..(k - 1) /\ v # k BY <2>2 DEF Closed
    <3>3. k \in 1..(v - 1) BY <2>1, <3>1, <3>2, RolloutAssumption DEF Scripts
    <3> QED BY <2>3, <3>3
  <2>6. EnvOf[d] = stamp BY <1>1 DEF IInv, OneEnvironment, Migrating
  <2>7. Leads(d)' BY <1>1, <2>2, <2>5, <2>6 DEF Leads
  <2> QED BY <1>3, <2>4, <2>7 DEF SomeoneLeads
<1> QED BY <1>4, <1>5

LEMMA LeadStep == IInv /\ LeadInv /\ [Next]_vars => LeadInv'
<1> SUFFICES ASSUME IInv, LeadInv, [Next]_vars PROVE LeadInv'
  OBVIOUS
<1>1. ASSUME NEW d \in Deployments,
             Check(d) \/ Insert(d) \/ Reread(d) \/ Fetch(d) \/ Finish(d) \/ Crash(d)
      PROVE  LeadInv'
  BY <1>1, LeadQuiet, LeadMoves DEF LeadInv
<1>2. ASSUME NEW d \in Deployments, Apply(d) \/ Record(d) PROVE LeadInv'
  BY <1>2, LeadApply, LeadRecord
<1>3. CASE UNCHANGED vars
  BY <1>3 DEF vars, LeadInv, Closed, RecordsNext, SomeoneLeads, Leads, Applied
<1> QED BY <1>1, <1>2, <1>3 DEF Next, Rest

-----------------------------------------------------------------------------
(* The theorems *)

\* Every variable keeps its kind, and nobody migrates a database without a
\* stamp (environment.py:44-57 runs before migrations.py).
THEOREM TypeCorrect == Spec => []TypeOK
<1>1. IInv => TypeOK
  BY DEF IInv
<1> QED BY <1>1, Inductive, PTL

\* Whoever races for a fresh database, its owner never changes and only the
\* owner's deployments execute scripts (environment.py:46-58).
THEOREM OneEnvironmentHolds == Spec => []OneEnvironment
<1>1. IInv => OneEnvironment
  BY DEF IInv
<1> QED BY <1>1, Inductive, PTL

\* Without any lock, no script is executed before all earlier ones were, and a
\* version is recorded only of an executed script (migrations.py:24-34).
THEOREM ScriptsInOrderHolds == Spec => []ScriptsInOrder
<1>1. IInv => ScriptsInOrder
  BY DEF IInv
<1> QED BY <1>1, Inductive, PTL

\* A migration that reports success leaves every script recorded, whoever ran
\* beside it or died (migrations.py:27-36).
THEOREM DoneMeansCurrentHolds == Spec => []DoneMeansCurrent
<1>1. IInv => DoneMeansCurrent
  BY DEF IInv
<1> QED BY <1>1, Inductive, PTL

\* Though whoever comes second with a version fails, racing migrations never
\* fail all together: when none of them died, one brought the database up to
\* date (migrations.py:27-36).
THEOREM SomeoneFinishesHolds == Spec => []SomeoneFinishes
<1>1. LeadInv => SomeoneFinishes
  BY DEF LeadInv, SomeoneLeads, Leads, SomeoneFinishes
<1> QED BY <1>1, Inductive, LeadInitially, LeadStep, PTL DEF Spec

=============================================================================
