------------------------ MODULE WorkflowEngineProofs ------------------------
(* Theorems of WorkflowEngine, for every definition, set of drivers and     *)
(* bound, and of its refinement of CheckpointedRun.                         *)
EXTENDS CheckpointRefinement, FiniteSetTheorems, TLAPS

-----------------------------------------------------------------------------
(* The inductive invariant *)

\* What every copy of the run satisfies: DependencyOrder, ConditionHonoured
\* and AttemptBound for one copy, and that the entry of a step is the client's
\* until the step completes, without which a join could change the value a
\* condition was decided on.
CopyOK(r, sent) ==
  \A s \in Steps :
    /\ Executed(r.steps[s].status) =>
         /\ \A p \in Deps[s] : r.steps[p].status \in Settled
         /\ ConditionPasses(r, s) \/ RanOnClientsValue(r, s, sent)
    /\ r.steps[s].attempts <= MaxRetries[s] + 1
    /\ r.steps[s].status # "completed" => r.context[s] = sent[s]

\* A task belongs to a batch being gathered, its step is running until the
\* task returns, the step's entry is the client's before the join, and no step
\* that depends on it has run.
TaskOK ==
  \A d \in Drivers, s \in Steps :
    /\ task[d][s] # "none" =>
         /\ pc[d] = "gather" /\ run[d].context[s] = input[s]
         /\ \A t \in Steps : Executed(run[d].steps[t].status) => s \notin Deps[t]
    /\ task[d][s] \in {"queued", "trying", "calling"} =>
         run[d].steps[s].status = "running"

GrantOK == \A a \in Approvals : uses[a] = IF grant[a] = "consumed" THEN 1 ELSE 0

IInv ==
  /\ TypeOK
  /\ \A d \in Drivers : CopyOK(run[d], input)
  /\ store # NoRun => CopyOK(store, input)
  /\ TaskOK
  /\ GrantOK

-----------------------------------------------------------------------------
(* What the operators on run copies preserve *)

LEMMA NewRunOK ==
  ASSUME input \in Contexts PROVE NewRun \in WorkflowRun /\ CopyOK(NewRun, input)
  BY EngineAssumption
  DEF NewRun, WorkflowRun, StepRun, StepStatus, WorkflowStatus, Outputs,
      CopyOK, Executed

LEMMA SetStatusOK ==
  ASSUME NEW r \in WorkflowRun, CopyOK(r, input), NEW st \in WorkflowStatus
  PROVE  [r EXCEPT !.status = st] \in WorkflowRun
         /\ CopyOK([r EXCEPT !.status = st], input)
  BY DEF WorkflowRun, CopyOK, ConditionPasses, RanOnClientsValue

LEMMA WithApprovalsOK ==
  ASSUME NEW r \in WorkflowRun, CopyOK(r, input),
         NEW given \in [Steps -> Approvals \cup {NoApproval}]
  PROVE  WithApprovals(r, given) \in WorkflowRun
         /\ CopyOK(WithApprovals(r, given), input)
<1> DEFINE q == WithApprovals(r, given)
<1>1. ASSUME NEW s \in Steps
      PROVE  /\ q.steps[s] \in StepRun
             /\ q.steps[s].attempts = r.steps[s].attempts
             /\ \/ q.steps[s].status = r.steps[s].status
                \/ /\ r.steps[s].status = "waiting_approval"
                   /\ q.steps[s].status = "pending"
  BY DEF WithApprovals, WorkflowRun, StepRun, StepStatus
<1>2. q.context = r.context /\ q \in WorkflowRun
  BY <1>1 DEF WithApprovals, WorkflowRun, WorkflowStatus
<1>3. ASSUME NEW s \in Steps
      PROVE  /\ Executed(q.steps[s].status) => Executed(r.steps[s].status)
             /\ r.steps[s].status \in Settled =>
                  q.steps[s].status = r.steps[s].status
             /\ r.steps[s].status = "completed" =>
                  q.steps[s].status = "completed"
  BY <1>1, <1>3 DEF Executed, Settled
<1>4. CopyOK(q, input)
  <2> HIDE DEF q
  <2>1. \A s \in Steps : Deps[s] \subseteq Steps
    BY EngineAssumption
  <2>2. \A s \in Steps : ConditionPasses(q, s) <=> ConditionPasses(r, s)
    BY <1>2 DEF ConditionPasses
  <2>3. \A s \in Steps : RanOnClientsValue(r, s, input) => RanOnClientsValue(q, s, input)
    BY <1>3 DEF RanOnClientsValue
  <2>4. \A s \in Steps : r.steps[s].status = "completed" <=>
                           q.steps[s].status = "completed"
    BY <1>1
  <2>5. QED BY <1>1, <1>2, <1>3, <2>1, <2>2, <2>3, <2>4 DEF CopyOK
<1>5. QED BY <1>2, <1>4

LEMMA PassedOK ==
  ASSUME NEW r \in WorkflowRun, CopyOK(r, input), NEW skips, SkipsOf(r, skips),
         NEW ready, ready \subseteq ReadyOf(r, skips)
  PROVE  /\ Passed(r, skips, ready) \in WorkflowRun
         /\ CopyOK(Passed(r, skips, ready), input)
         /\ \A s \in ready :
              /\ Passed(r, skips, ready).steps[s].status = "running"
              /\ Passed(r, skips, ready).context[s] = input[s]
              /\ \A t \in Steps :
                   Executed(Passed(r, skips, ready).steps[t].status) =>
                     s \notin Deps[t]
<1> DEFINE q == Passed(r, skips, ready)
<1>1. ASSUME NEW s \in Steps
      PROVE  /\ q.steps[s] \in StepRun
             /\ q.steps[s].attempts = r.steps[s].attempts
             /\ q.steps[s].status = IF s \in skips THEN "skipped"
                                    ELSE IF s \in ready THEN "running"
                                    ELSE r.steps[s].status
  BY DEF Passed, WorkflowRun, StepRun, StepStatus
<1>2. q.context = r.context /\ q \in WorkflowRun
  BY <1>1 DEF Passed, WorkflowRun
<1>3. \A s \in skips \cup ready : s \in Steps /\ r.steps[s].status = "pending"
  BY DEF SkipsOf, ReadyOf, Pending
<1>4. ASSUME NEW s \in Steps, r.steps[s].status \in Settled
      PROVE  q.steps[s].status \in Settled
  BY <1>1, <1>3, <1>4 DEF Settled
<1>5. ASSUME NEW s \in ready
      PROVE  /\ ConditionPasses(r, s)
             /\ \A p \in Deps[s] : q.steps[p].status \in Settled
  <2>1. s \in Pending(r) /\ s \notin skips /\ DepsSettled(r, skips, s)
    BY <1>5 DEF ReadyOf
  <2>2. ConditionPasses(r, s)
    BY <2>1 DEF SkipsOf
  <2>3. ASSUME NEW p \in Deps[s] PROVE q.steps[p].status \in Settled
    <3>1. p \in Steps
      BY <2>1, <2>3, EngineAssumption DEF Pending
    <3>2. CASE r.steps[p].status \in Settled
      BY <1>4, <3>1, <3>2
    <3>3. CASE p \in skips
      BY <1>1, <3>1, <3>3 DEF Settled
    <3>4. QED BY <2>1, <3>2, <3>3 DEF DepsSettled
  <2>4. QED BY <2>2, <2>3
<1>6. CopyOK(q, input)
  <2> SUFFICES ASSUME NEW s \in Steps
               PROVE  /\ Executed(q.steps[s].status) =>
                           /\ \A p \in Deps[s] : q.steps[p].status \in Settled
                           /\ ConditionPasses(q, s) \/ RanOnClientsValue(q, s, input)
                      /\ q.steps[s].attempts <= MaxRetries[s] + 1
                      /\ q.steps[s].status # "completed" =>
                           q.context[s] = input[s]
    BY DEF CopyOK
  <2>1. q.steps[s].attempts <= MaxRetries[s] + 1
    BY <1>1 DEF CopyOK
  <2>2. q.steps[s].status # "completed" => q.context[s] = input[s]
    BY <1>1, <1>2, <1>3 DEF CopyOK
  <2>3. ASSUME Executed(q.steps[s].status)
        PROVE  /\ \A p \in Deps[s] : q.steps[p].status \in Settled
               /\ ConditionPasses(q, s) \/ RanOnClientsValue(q, s, input)
    <3>1. CASE s \in ready
      BY <1>2, <1>5, <3>1 DEF ConditionPasses
    <3>2. CASE s \notin ready
      <4>1. Executed(r.steps[s].status)
        BY <1>1, <2>3, <3>2 DEF Executed
      <4>2. ConditionPasses(q, s) \/ RanOnClientsValue(q, s, input)
        <5>1. ConditionPasses(r, s) \/ RanOnClientsValue(r, s, input)
          BY <4>1 DEF CopyOK
        <5>2. CASE ConditionPasses(r, s)
          BY <1>2, <5>2 DEF ConditionPasses
        <5>3. CASE RanOnClientsValue(r, s, input)
          BY <1>1, <1>3, <5>3 DEF RanOnClientsValue
        <5>4. QED BY <5>1, <5>2, <5>3
      <4>3. \A p \in Deps[s] : p \in Steps /\ r.steps[p].status \in Settled
        BY <4>1, EngineAssumption DEF CopyOK
      <4>4. QED BY <1>4, <4>2, <4>3
    <3>3. QED BY <3>1, <3>2
  <2>4. QED BY <2>1, <2>2, <2>3
<1>7. ASSUME NEW s \in ready
      PROVE  /\ q.steps[s].status = "running" /\ q.context[s] = input[s]
             /\ \A t \in Steps : Executed(q.steps[t].status) => s \notin Deps[t]
  <2>1. s \in Steps /\ r.steps[s].status = "pending" /\ s \notin skips
    BY <1>3, <1>7 DEF ReadyOf
  <2>2. q.steps[s].status = "running"
    BY <1>1, <1>7, <2>1
  <2>3. q.context[s] = input[s]
    BY <1>2, <2>1 DEF CopyOK
  <2>4. ASSUME NEW t \in Steps, Executed(q.steps[t].status)
        PROVE  s \notin Deps[t]
    BY <1>6, <2>2, <2>4 DEF CopyOK, Settled
  <2>5. QED BY <2>2, <2>3, <2>4
<1>8. QED BY <1>2, <1>6, <1>7

LEMMA StepFieldsOK ==
  ASSUME NEW step \in StepRun, NEW n \in Nat, NEW st \in StepStatus,
         NEW out \in Outputs
  PROVE  [step EXCEPT !.attempts = n, !.status = st, !.output = out] \in StepRun
  BY DEF StepRun

\* The step of an active task moves to a status that counts as executed.
LEMMA SetStepOK ==
  ASSUME NEW r \in WorkflowRun, CopyOK(r, input), NEW s \in Steps,
         r.steps[s].status = "running",
         NEW step \in StepRun, Executed(step.status),
         step.attempts <= MaxRetries[s] + 1
  PROVE  [r EXCEPT !.steps[s] = step] \in WorkflowRun
         /\ CopyOK([r EXCEPT !.steps[s] = step], input)
<1> DEFINE q == [r EXCEPT !.steps[s] = step]
<1>1. /\ q \in WorkflowRun
      /\ q.context = r.context
      /\ q.steps = [r.steps EXCEPT ![s] = step]
  BY DEF WorkflowRun
<1>2. ASSUME NEW t \in Steps
      PROVE  q.steps[t] = IF t = s THEN step ELSE r.steps[t]
  BY <1>1 DEF WorkflowRun
<1>3. CopyOK(q, input)
  <2> HIDE DEF q
  <2>1. \A t \in Steps : Deps[t] \subseteq Steps
    BY EngineAssumption
  <2>2. \A t \in Steps : ConditionPasses(q, t) <=> ConditionPasses(r, t)
    BY <1>1 DEF ConditionPasses
  <2>3. Executed("running") /\ "running" \notin Settled
    BY DEF Executed, Settled
  <2>4. \A t \in Steps : RanOnClientsValue(r, t, input) => RanOnClientsValue(q, t, input)
    BY <1>2 DEF RanOnClientsValue
  <2>5. QED BY <1>1, <1>2, <2>1, <2>2, <2>3, <2>4 DEF CopyOK
<1>4. QED BY <1>1, <1>3

\* A join writes the outputs of completed steps whose entries were the
\* client's; what waited for those steps has not run.
LEMMA SetContextOK ==
  ASSUME NEW r \in WorkflowRun, CopyOK(r, input), NEW back \in SUBSET Steps,
         \A s \in back :
           /\ r.context[s] = input[s]
           /\ \A t \in Steps : Executed(r.steps[t].status) => s \notin Deps[t],
         NEW ctx \in Contexts,
         \A k \in ContextKeys :
           ctx[k] = IF k \in back /\ r.steps[k].status = "completed"
                    THEN r.steps[k].output ELSE r.context[k]
  PROVE  [r EXCEPT !.context = ctx] \in WorkflowRun
         /\ CopyOK([r EXCEPT !.context = ctx], input)
<1> DEFINE q == [r EXCEPT !.context = ctx]
<1>1. q \in WorkflowRun /\ q.context = ctx /\ q.steps = r.steps
  BY DEF WorkflowRun
<1>2. ASSUME NEW s \in Steps, Executed(r.steps[s].status)
      PROVE  ConditionPasses(q, s) \/ RanOnClientsValue(q, s, input)
  <2>1. ConditionPasses(r, s) \/ RanOnClientsValue(r, s, input)
    BY <1>2 DEF CopyOK
  <2>2. CASE RanOnClientsValue(r, s, input)
    BY <1>1, <2>2 DEF RanOnClientsValue
  <2>3. CASE ConditionPasses(r, s) /\ CondKey[s] # NoKey
    <3>1. CondKey[s] \in ContextKeys /\ r.context[CondKey[s]] = CondEquals[s]
      BY <2>3, EngineAssumption DEF ConditionPasses, ContextKeys
    <3>2. CASE /\ CondKey[s] \in back
               /\ r.steps[CondKey[s]].status = "completed"
      BY <1>1, <1>2, <3>1, <3>2 DEF RanOnClientsValue
    <3>3. CASE ~ (/\ CondKey[s] \in back
                  /\ r.steps[CondKey[s]].status = "completed")
      BY <1>1, <3>1, <3>3 DEF ConditionPasses
    <3>4. QED BY <3>2, <3>3
  <2>4. QED BY <2>1, <2>2, <2>3 DEF ConditionPasses
<1>3. \A s \in Steps : s \in ContextKeys
  BY DEF ContextKeys
<1>4. CopyOK(q, input)
  BY <1>1, <1>2, <1>3 DEF CopyOK
<1>5. QED BY <1>1, <1>4

-----------------------------------------------------------------------------
(* The invariant is inductive *)

LEMMA InitOK == Init => IInv
<1> SUFFICES ASSUME Init PROVE IInv
  OBVIOUS
<1>1. input \in Contexts
  BY ContextAssumption DEF Init
<1>2. NewRun \in WorkflowRun /\ CopyOK(NewRun, input)
  BY <1>1, NewRunOK
<1>3. QED BY <1>1, <1>2 DEF Init, IInv, TypeOK, TaskOK, GrantOK

\* A driver replaces its copy, and perhaps the stored one, by a good copy.
LEMMA WriteCopy ==
  ASSUME IInv, NEW d \in Drivers, NEW r \in WorkflowRun, CopyOK(r, input),
         run' = [run EXCEPT ![d] = r], store' \in {store, r}, input' = input
  PROVE  /\ store' \in WorkflowRun \cup {NoRun}
         /\ run' \in [Drivers -> WorkflowRun]
         /\ \A e \in Drivers : CopyOK(run'[e], input')
         /\ store' # NoRun => CopyOK(store', input')
         /\ \A e \in Drivers : run'[e] = IF e = d THEN r ELSE run[e]
<1>1. run \in [Drivers -> WorkflowRun] /\ store \in WorkflowRun \cup {NoRun}
  BY DEF IInv, TypeOK
<1>2. \A e \in Drivers : run'[e] = IF e = d THEN r ELSE run[e]
  BY <1>1
<1>3. (\A e \in Drivers : CopyOK(run[e], input)) /\ (store # NoRun => CopyOK(store, input))
  BY DEF IInv
<1>4. QED BY <1>1, <1>2, <1>3

\* Outside gather a driver has no task, so writing its copy, moving its
\* counter and leaving the rest alone keeps the invariant.
LEMMA BetweenBatches ==
  ASSUME IInv, NEW d \in Drivers, NEW r \in WorkflowRun, CopyOK(r, input),
         run' = [run EXCEPT ![d] = r], store' \in {store, r},
         pc[d] # "gather", NEW label \in {"loaded", "drive", "done"},
         Goto(d, label), UNCHANGED <<task, grant, uses, calls, aborts, input>>
  PROVE  IInv'
<1> USE DEF IInv
<1>1. pc' \in [Drivers -> {"idle", "loaded", "drive", "gather", "done"}]
  BY DEF TypeOK, Goto
<1>2. TypeOK'
  BY <1>1, WriteCopy DEF TypeOK
<1>3. TaskOK'
  BY WriteCopy DEF TaskOK, TypeOK, Goto
<1>4. GrantOK'
  BY DEF GrantOK
<1>5. QED BY <1>2, <1>3, <1>4, WriteCopy

LEMMA DriverStepOK ==
  ASSUME IInv, NEW d \in Drivers, DriverStep(d)
  PROVE  IInv'
<1> DEFINE r == run[d]
<1>0. r \in WorkflowRun /\ CopyOK(r, input) /\ TypeOK
  BY DEF IInv, TypeOK
<1>1. CASE Start(d)
  BY <1>0, <1>1, NewRunOK, BetweenBatches DEF Start, Save, TypeOK
<1>2. CASE ResumeSave(d)
  BY <1>0, <1>2, BetweenBatches DEF ResumeSave, Save
<1>3. CASE Finish(d)
  <2> DEFINE st == IF AnyFailed(r) THEN "failed" ELSE "completed"
  <2>1. st \in WorkflowStatus
    BY DEF WorkflowStatus
  <2> HIDE DEF st
  <2>2. [r EXCEPT !.status = st] \in WorkflowRun
        /\ CopyOK([r EXCEPT !.status = st], input)
    BY <1>0, <2>1, SetStatusOK
  <2>3. QED BY <1>3, <2>2, BetweenBatches DEF Finish, Save, st
<1>4. CASE Stop(d)
  <2> DEFINE st == IF Waiting(r) # {} THEN "paused" ELSE "failed"
  <2>1. st \in WorkflowStatus
    BY DEF WorkflowStatus
  <2> HIDE DEF st
  <2>2. [r EXCEPT !.status = st] \in WorkflowRun
        /\ CopyOK([r EXCEPT !.status = st], input)
    BY <1>0, <2>1, SetStatusOK
  <2>3. QED BY <1>4, <2>2, BetweenBatches DEF Stop, Save, st
<1>5. CASE SkipOnly(d)
  <2>1. PICK skips \in SUBSET Pending(r) :
          SkipsOf(r, skips) /\ run' = [run EXCEPT ![d] = Passed(r, skips, {})]
    BY <1>5 DEF SkipOnly
  <2>2. Passed(r, skips, {}) \in WorkflowRun /\ CopyOK(Passed(r, skips, {}), input)
    BY <1>0, <2>1, PassedOK
  <2>3. pc' = [pc EXCEPT ![d] = "drive"] /\ pc[d] # "gather"
    BY <1>0, <1>5 DEF SkipOnly, TypeOK
  <2>4. QED BY <1>5, <2>1, <2>2, <2>3, BetweenBatches DEF SkipOnly, Goto
<1>6. CASE Launch(d)
  <2> DEFINE ready(skips) == ReadyOf(r, skips)
             q(skips) == Passed(r, skips, ready(skips))
  <2>1. PICK skips \in SUBSET Pending(r) :
          /\ SkipsOf(r, skips)
          /\ run' = [run EXCEPT ![d] = q(skips)]
          /\ task' = [task EXCEPT ![d] = [s \in Steps |->
                        IF s \in ready(skips) THEN "queued" ELSE "none"]]
    BY <1>6 DEF Launch
  <2>2. /\ q(skips) \in WorkflowRun /\ CopyOK(q(skips), input)
        /\ \A s \in ready(skips) :
             /\ q(skips).steps[s].status = "running"
             /\ q(skips).context[s] = input[s]
             /\ \A t \in Steps : Executed(q(skips).steps[t].status) =>
                                   s \notin Deps[t]
    BY <1>0, <2>1, PassedOK
  <2> HIDE DEF q, ready
  <2>3. pc' = [pc EXCEPT ![d] = "gather"] /\ store' = store
        /\ UNCHANGED <<grant, uses, calls, aborts, input>>
    BY <1>6 DEF Launch, Goto
  <2>4. TypeOK'
    BY <1>0, <2>1, <2>2, <2>3, WriteCopy DEF TypeOK
  <2>5. TaskOK'
    BY <1>0, <2>1, <2>2, <2>3 DEF TaskOK, TypeOK, IInv
  <2>6. GrantOK'
    BY <2>3 DEF GrantOK, IInv
  <2>7. QED BY <2>1, <2>2, <2>3, <2>4, <2>5, <2>6, WriteCopy DEF IInv
<1>7. CASE Join(d)
  <2> DEFINE back == {s \in Steps : task[d][s] = "returned"}
             ctx == [k \in ContextKeys |->
                       IF /\ k \in Steps /\ task[d][k] = "returned"
                          /\ r.steps[k].status = "completed"
                       THEN r.steps[k].output ELSE r.context[k]]
             q == [r EXCEPT !.context = ctx]
  <2>1. \A s \in back :
          /\ r.context[s] = input[s]
          /\ \A t \in Steps : Executed(r.steps[t].status) => s \notin Deps[t]
    BY DEF IInv, TaskOK
  <2>2. ctx \in Contexts
    BY <1>0 DEF WorkflowRun, StepRun, Contexts
  <2>3. q \in WorkflowRun /\ CopyOK(q, input)
    <3> HIDE DEF q
    <3>1. \A k \in ContextKeys :
            ctx[k] = IF k \in back /\ r.steps[k].status = "completed"
                     THEN r.steps[k].output ELSE r.context[k]
      OBVIOUS
    <3> HIDE DEF ctx, back
    <3>2. back \in SUBSET Steps
      BY DEF back
    <3>3. QED BY <1>0, <2>1, <2>2, <3>1, <3>2, SetContextOK DEF q
  <2>4. /\ run' = [run EXCEPT ![d] = q] /\ store' = q
        /\ task' = [task EXCEPT ![d] = [s \in Steps |-> "none"]]
        /\ pc' = [pc EXCEPT ![d] = "drive"]
        /\ UNCHANGED <<grant, uses, calls, aborts, input>>
    BY <1>7 DEF Join, Save, Goto
  <2> HIDE DEF q
  <2>5. TypeOK'
    BY <1>0, <2>3, <2>4, WriteCopy DEF TypeOK
  <2>6. TaskOK'
    BY <1>0, <2>3, <2>4 DEF TaskOK, TypeOK, IInv
  <2>7. GrantOK'
    BY <2>4 DEF GrantOK, IInv
  <2>8. QED BY <2>3, <2>4, <2>5, <2>6, <2>7, WriteCopy DEF IInv
<1>8. QED BY <1>1, <1>2, <1>3, <1>4, <1>5, <1>6, <1>7 DEF DriverStep

Active == {"queued", "trying", "calling"}

\* A task writes its step and moves on; it stays active only while the step
\* is running.
LEMMA WriteStep ==
  ASSUME IInv, NEW d \in Drivers, NEW s \in Steps, task[d][s] \in Active,
         NEW step \in StepRun, Executed(step.status),
         step.attempts <= MaxRetries[s] + 1,
         NEW to \in Active \cup {"returned"},
         to \in Active => step.status = "running",
         SetStep(d, s, step), MoveTask(d, s, to), UNCHANGED <<store, pc, aborts, input>>
  PROVE  /\ run' \in [Drivers -> WorkflowRun]
         /\ task' \in [Drivers -> [Steps -> Active \cup {"none", "returned"}]]
         /\ \A e \in Drivers : CopyOK(run'[e], input')
         /\ store # NoRun => CopyOK(store, input')
         /\ TaskOK'
<1> DEFINE q == [run[d] EXCEPT !.steps[s] = step]
<1>1. /\ run \in [Drivers -> WorkflowRun] /\ CopyOK(run[d], input)
      /\ run[d].steps[s].status = "running"
      /\ task \in [Drivers -> [Steps -> Active \cup {"none", "returned"}]]
  BY DEF IInv, TypeOK, TaskOK, Active
<1>2. q \in WorkflowRun /\ CopyOK(q, input)
  BY <1>1, SetStepOK
<1>3. run' = [run EXCEPT ![d] = q] /\ store' \in {store, q}
  BY <1>1 DEF SetStep
<1>4. /\ q.context = run[d].context
      /\ \A t \in Steps : q.steps[t] = IF t = s THEN step ELSE run[d].steps[t]
  BY <1>1 DEF WorkflowRun
<1> HIDE DEF q
<1>5. \A e \in Drivers, t \in Steps :
        task'[e][t] = IF e = d /\ t = s THEN to ELSE task[e][t]
  BY <1>1 DEF MoveTask
<1>6. task' \in [Drivers -> [Steps -> Active \cup {"none", "returned"}]]
  BY <1>1 DEF MoveTask
<1>7. TaskOK'
  <2> SUFFICES ASSUME NEW e \in Drivers, NEW t \in Steps
               PROVE  /\ task'[e][t] # "none" =>
                           /\ pc'[e] = "gather"
                           /\ run'[e].context[t] = input'[t]
                           /\ \A u \in Steps :
                                Executed(run'[e].steps[u].status) =>
                                  t \notin Deps[u]
                      /\ task'[e][t] \in Active =>
                           run'[e].steps[t].status = "running"
    BY DEF TaskOK, Active
  <2>1. /\ task[e][t] # "none" =>
             /\ pc[e] = "gather" /\ run[e].context[t] = input[t]
             /\ \A u \in Steps : Executed(run[e].steps[u].status) =>
                                   t \notin Deps[u]
        /\ task[e][t] \in Active => run[e].steps[t].status = "running"
    BY DEF IInv, TaskOK, Active
  <2>2. run'[e] = IF e = d THEN q ELSE run[e]
    BY <1>1, <1>3
  <2>3. task[d][s] # "none"
    BY DEF Active
  <2>4. Executed(run[d].steps[s].status)
    BY <1>1 DEF Executed
  <2>5. QED BY <1>4, <1>5, <2>1, <2>2, <2>3, <2>4
<1>8. QED BY <1>2, <1>3, <1>6, <1>7, WriteCopy DEF IInv

LEMMA TaskStepOK ==
  ASSUME IInv, NEW d \in Drivers, NEW s \in Steps, TaskStep(d, s)
  PROVE  IInv'
<1> DEFINE old == run[d].steps[s]
           counted == [old EXCEPT !.attempts = @ + 1]
<1>0. /\ TypeOK /\ GrantOK /\ CopyOK(run[d], input)
      /\ run[d] \in WorkflowRun /\ old \in StepRun
      /\ MaxRetries[s] \in Nat /\ old.attempts \in Nat
      /\ old.attempts <= MaxRetries[s] + 1
      /\ Executed("running") /\ Executed("completed") /\ Executed("failed")
      /\ Executed("waiting_approval")
  BY EngineAssumption DEF IInv, TypeOK, WorkflowRun, StepRun, CopyOK, Executed
<1>a. task[d][s] \in Active => old.status = "running"
  BY DEF IInv, TaskOK, Active
<1>b. counted \in StepRun /\ counted.attempts = old.attempts + 1
      /\ counted.status = old.status
  BY <1>0 DEF StepRun
\* Any step that ends in SetStep and MoveTask and leaves the grants alone.
<1>c. ASSUME task[d][s] \in Active,
             NEW step \in StepRun, Executed(step.status),
             step.attempts <= MaxRetries[s] + 1,
             NEW to \in Active \cup {"returned"},
             to \in Active => step.status = "running",
             SetStep(d, s, step), MoveTask(d, s, to),
             UNCHANGED <<store, pc, aborts, grant, uses, input>>,
             calls' \in [Steps -> Nat]
      PROVE  IInv'
  <2>1. /\ run' \in [Drivers -> WorkflowRun]
        /\ task' \in [Drivers -> [Steps -> Active \cup {"none", "returned"}]]
        /\ \A e \in Drivers : CopyOK(run'[e], input')
        /\ store # NoRun => CopyOK(store, input')
        /\ TaskOK'
    BY <1>c, WriteStep
  <2>2. TypeOK'
    BY <1>0, <1>c, <2>1 DEF TypeOK, Active
  <2>3. GrantOK'
    BY <1>0, <1>c DEF GrantOK
  <2>4. QED BY <1>c, <2>1, <2>2, <2>3 DEF IInv
\* A step that only moves its task keeps the copy as it is.
<1>d. ASSUME UNCHANGED run PROVE SetStep(d, s, old)
  BY <1>0, <1>d DEF SetStep, TypeOK, WorkflowRun
\* The end of an attempt, for a step whose attempt is counted.
<1>e. ASSUME task[d][s] \in Active, NEW step \in StepRun,
             step.status = "running", step.attempts <= MaxRetries[s] + 1,
             EndAttempt(d, s, step),
             UNCHANGED <<store, pc, grant, uses, calls, aborts, input>>
      PROVE  IInv'
  <2>0. calls' \in [Steps -> Nat]
    BY <1>0, <1>e DEF TypeOK
  <2>1. CASE step.attempts > MaxRetries[s]
    <3> DEFINE new == [step EXCEPT !.status = "failed"]
    <3>1. /\ new \in StepRun /\ new.status = "failed"
          /\ new.attempts = step.attempts
      BY <1>e DEF StepRun, StepStatus
    <3>2. SetStep(d, s, new) /\ MoveTask(d, s, "returned")
      BY <1>e, <2>1 DEF EndAttempt
    <3> HIDE DEF new
    <3>3. QED BY <1>0, <1>c, <1>e, <2>0, <3>1, <3>2 DEF Active
  <2>2. CASE ~(step.attempts > MaxRetries[s])
    <3>1. SetStep(d, s, step) /\ MoveTask(d, s, "trying")
      BY <1>e, <2>2 DEF EndAttempt
    <3>2. QED BY <1>0, <1>c, <1>e, <2>0, <3>1 DEF Active
  <2>3. QED BY <2>1, <2>2
<1>1. CASE Acquire(d, s)
  BY <1>0, <1>1, <1>a, <1>c, <1>d DEF Acquire, Active, TypeOK
<1>2. CASE NoAttemptLeft(d, s)
  BY <1>0, <1>2, <1>a, <1>c, <1>d DEF NoAttemptLeft, Active, TypeOK
<1>3. CASE BeginCall(d, s)
  <2> DEFINE a == old.approval_id
  <2>1. /\ task[d][s] \in Active /\ old.attempts <= MaxRetries[s]
        /\ SetStep(d, s, counted) /\ MoveTask(d, s, "calling")
        /\ UNCHANGED <<store, pc, aborts, input>>
        /\ calls' = [calls EXCEPT ![s] = @ + 1]
    BY <1>3 DEF BeginCall, HasAttempt, Active
  <2>2. calls' \in [Steps -> Nat]
    BY <1>0, <2>1 DEF TypeOK
  <2>3. CASE s \in Gated
    <3>1. /\ a \in Approvals /\ grant[a] = "live"
          /\ grant' = [grant EXCEPT ![a] = "consumed"]
          /\ uses' = [uses EXCEPT ![a] = @ + 1]
      BY <1>3, <2>3 DEF BeginCall, Authorised
    <3>2. /\ run' \in [Drivers -> WorkflowRun]
          /\ task' \in [Drivers -> [Steps -> Active \cup {"none", "returned"}]]
          /\ \A e \in Drivers : CopyOK(run'[e], input')
          /\ store # NoRun => CopyOK(store, input')
          /\ TaskOK'
      <4> HIDE DEF counted, old
      <4>1. QED BY <1>0, <1>a, <1>b, <2>1, WriteStep DEF Active
    <3>3. TypeOK'
      BY <1>0, <2>1, <2>2, <3>1, <3>2 DEF TypeOK, Active
    <3>4. GrantOK'
      BY <1>0, <3>1 DEF GrantOK, TypeOK
    <3>5. QED BY <2>1, <3>2, <3>3, <3>4 DEF IInv
  <2>4. CASE s \notin Gated
    <3>1. UNCHANGED <<grant, uses>>
      BY <1>3, <2>4 DEF BeginCall
    <3> HIDE DEF counted, old
    <3>2. QED BY <1>0, <1>a, <1>b, <1>c, <2>1, <2>2, <3>1 DEF Active
  <2>5. QED BY <2>3, <2>4
<1>4. CASE Refuse(d, s)
  <2> DEFINE new == [old EXCEPT !.attempts = @ + 1,
                                !.status = "waiting_approval",
                                !.output = "other"]
  <2>1. /\ task[d][s] \in Active /\ old.attempts <= MaxRetries[s]
        /\ SetStep(d, s, new) /\ MoveTask(d, s, "returned")
        /\ UNCHANGED <<store, pc, grant, uses, calls, aborts, input>>
    BY <1>4 DEF Refuse, HasAttempt, Active
  <2>2. /\ new \in StepRun /\ new.attempts = old.attempts + 1
        /\ new.status = "waiting_approval"
    <3>1. /\ old \in StepRun /\ old.attempts + 1 \in Nat
          /\ "waiting_approval" \in StepStatus /\ "other" \in Outputs
      BY <1>0 DEF StepStatus, Outputs
    <3> HIDE DEF old
    <3>2. new \in StepRun
      BY <3>1, StepFieldsOK, Zenon
    <3>3. new.attempts = old.attempts + 1
      BY <3>1 DEF StepRun
    <3>4. new.status = "waiting_approval"
      BY <3>1 DEF StepRun
    <3>5. QED BY <3>2, <3>3, <3>4
  <2> HIDE DEF new, old
  <2>3. calls' \in [Steps -> Nat]
    BY <1>0, <2>1 DEF TypeOK
  <2>4. QED BY <1>0, <1>c, <2>1, <2>2, <2>3 DEF Active
<1>5. CASE FailEarly(d, s)
  <2>1. /\ task[d][s] \in Active /\ old.attempts <= MaxRetries[s]
        /\ EndAttempt(d, s, counted)
        /\ UNCHANGED <<store, pc, grant, uses, calls, aborts, input>>
    BY <1>5 DEF FailEarly, HasAttempt, Active
  <2> HIDE DEF counted, old
  <2>2. QED BY <1>0, <1>a, <1>b, <1>e, <2>1
<1>6. CASE CallFails(d, s)
  BY <1>0, <1>6, <1>a, <1>e DEF CallFails, Active
<1>7. ASSUME NEW out \in Results(s), CallSucceeds(d, s, out)
      PROVE  IInv'
  <2> DEFINE new == [old EXCEPT !.status = "completed", !.output = out]
  <2>1. /\ task[d][s] \in Active
        /\ SetStep(d, s, new) /\ MoveTask(d, s, "returned")
        /\ UNCHANGED <<store, pc, grant, uses, calls, aborts, input>>
    BY <1>7 DEF CallSucceeds, Active
  <2>2. /\ new \in StepRun /\ new.attempts = old.attempts
        /\ new.status = "completed"
    BY <1>0 DEF StepRun, StepStatus, Outputs, Results
  <2> HIDE DEF new, old
  <2>3. calls' \in [Steps -> Nat]
    BY <1>0, <2>1 DEF TypeOK
  <2>4. QED BY <1>0, <1>c, <2>1, <2>2, <2>3 DEF Active
<1>8. QED
  BY <1>1, <1>2, <1>3, <1>4, <1>5, <1>6, <1>7 DEF TaskStep, CallEnds

LEMMA NextOK == IInv /\ [Next]_vars => IInv'
<1> SUFFICES ASSUME IInv, [Next]_vars PROVE IInv'
  OBVIOUS
<1>1. ASSUME NEW d \in Drivers, DriverStep(d) PROVE IInv'
  BY <1>1, DriverStepOK
<1>2. ASSUME NEW d \in Drivers, Abort(d) PROVE IInv'
  <2>1. TypeOK'
    BY <1>2 DEF IInv, TypeOK, Abort, Goto
  <2>2. TaskOK'
    BY <1>2 DEF IInv, TypeOK, TaskOK, Abort, Goto
  <2>3. QED BY <1>2, <2>1, <2>2 DEF IInv, Abort, GrantOK
<1>3. ASSUME NEW d \in Drivers, NEW given \in Presentable,
             ResumeLoad(d, given)
      PROVE  IInv'
  <2>1. given \in [Steps -> Approvals \cup {NoApproval}]
    BY DEF Presentable
  <2>2. store \in WorkflowRun /\ CopyOK(store, input)
    BY <1>3 DEF IInv, TypeOK, ResumeLoad
  <2>3. QED
    BY <1>3, <2>1, <2>2, WithApprovalsOK, BetweenBatches DEF ResumeLoad
<1>4. ASSUME NEW d \in Drivers, NEW s \in Steps, TaskStep(d, s) PROVE IInv'
  BY <1>4, TaskStepOK
<1>5. ASSUME NEW a \in Approvals, Issue(a) PROVE IInv'
  <2>1. TypeOK'
    BY <1>5 DEF IInv, TypeOK, Issue
  <2>2. GrantOK'
    BY <1>5 DEF IInv, TypeOK, GrantOK, Issue
  <2>3. QED BY <1>5, <2>1, <2>2 DEF IInv, Issue, TaskOK
<1>6. CASE UNCHANGED vars
  BY <1>6 DEF vars, IInv, TypeOK, TaskOK, GrantOK
<1>7. QED
  BY <1>1, <1>2, <1>3, <1>4, <1>5, <1>6 DEF Next, Rest

-----------------------------------------------------------------------------
(* Theorems *)

LEMMA Invariance == Spec => []IInv
<1>1. QED BY InitOK, NextOK, PTL DEF Spec

\* Every reachable state has the types TypeOK states.
THEOREM TypeCorrect == Spec => []TypeOK
<1>1. IInv => TypeOK
  BY DEF IInv
<1>2. QED BY <1>1, Invariance, PTL

\* For every graph, number of engine calls and abort, no copy of the run holds
\* a step that was handed to a task before its dependencies were settled.
THEOREM DependencyOrderHolds == Spec => []DependencyOrder
<1>1. IInv => DependencyOrder
  BY DEF IInv, CopyOK, DependencyOrder, Copies
<1>2. QED BY <1>1, Invariance, PTL

\* No step runs against its condition, in any copy.
THEOREM ConditionHonouredHolds == Spec => []ConditionHonoured
<1>1. IInv => ConditionHonoured
  BY DEF IInv, CopyOK, ConditionHonoured, Copies
<1>2. QED BY <1>1, Invariance, PTL

\* However many resumes present an approval, it lets one call through.
THEOREM ApprovalSingleUseHolds == Spec => []ApprovalSingleUse
<1>1. IInv => ApprovalSingleUse
  BY DEF IInv, GrantOK, ApprovalSingleUse
<1>2. QED BY <1>1, Invariance, PTL

\* The persisted attempt count never exceeds the retry budget.
THEOREM AttemptBoundHolds == Spec => []AttemptBound
<1>1. IInv => AttemptBound
  BY DEF IInv, CopyOK, AttemptBound, Copies
<1>2. QED BY <1>1, Invariance, PTL

-----------------------------------------------------------------------------
(* The persisted status *)

\* StatusHonest for one row.
Truthful(row) ==
  /\ row.status = "completed" =>
       \A s \in Steps : row.steps[s].status \in Settled
  /\ row.status = "paused" =>
       /\ Waiting(row) # {}
       /\ \A s \in Pending(row) : \E p \in Deps[s] :
            row.steps[p].status \notin Terminal
  /\ row.status = "failed" =>
       \E s \in Steps : row.steps[s].status \in {"failed", "running"}

\* Only the save that ends a call writes another status than running.
HonestInv ==
  /\ store # NoRun => Truthful(store)
  /\ \A d \in Drivers :
       pc[d] \in {"loaded", "drive", "gather"} => run[d].status = "running"

LEMMA NewRowIsTruthful ==
  ASSUME NEW r, r.status = "running" PROVE Truthful(r)
  BY DEF Truthful

\* A row whose steps all ended says completed or failed, as they did.
LEMMA FinishedIsTruthful ==
  ASSUME NEW r \in WorkflowRun, AllTerminal(r)
  PROVE  Truthful([r EXCEPT !.status = IF AnyFailed(r) THEN "failed"
                                       ELSE "completed"])
<1> DEFINE st == IF AnyFailed(r) THEN "failed" ELSE "completed"
           q == [r EXCEPT !.status = st]
<1>1. q.status = st /\ q.steps = r.steps
  BY DEF WorkflowRun
<1>2. CASE AnyFailed(r)
  BY <1>1, <1>2 DEF Truthful, AnyFailed
<1>3. CASE ~AnyFailed(r)
  BY <1>1, <1>3 DEF Truthful, AnyFailed, AllTerminal, Terminal
<1>4. QED BY <1>2, <1>3

\* A call that stops has a step to wait for, or one that failed or is stranded:
\* without either, a pending step whose dependencies are all past pending
\* would have been ready or skipped, and the graph always has one.
LEMMA StoppedIsTruthful ==
  ASSUME NEW r \in WorkflowRun, ~AllTerminal(r),
         SkipsOf(r, {}), ReadyOf(r, {}) = {}
  PROVE  Truthful([r EXCEPT !.status = IF Waiting(r) # {} THEN "paused"
                                       ELSE "failed"])
<1> DEFINE st == IF Waiting(r) # {} THEN "paused" ELSE "failed"
           q == [r EXCEPT !.status = st]
<1>1. /\ q.status = st /\ q.steps = r.steps
      /\ Waiting(q) = Waiting(r) /\ Pending(q) = Pending(r)
  BY DEF WorkflowRun, Waiting, Pending
<1>2. ASSUME NEW s \in Pending(r)
      PROVE  \E p \in Deps[s] : r.steps[p].status \notin Terminal
  <2>1. ~DepFailed(r, s) /\ (DepsSettled(r, {}, s) => ConditionPasses(r, s))
    BY DEF SkipsOf
  <2>2. ~DepsSettled(r, {}, s)
    BY DEF ReadyOf
  <2>3. QED BY <2>1, <2>2 DEF DepFailed, DepsSettled, Terminal
<1>3. CASE Waiting(r) # {}
  BY <1>1, <1>2, <1>3 DEF Truthful
<1>4. CASE Waiting(r) = {}
  <2>1. \E s \in Steps : r.steps[s].status \in {"failed", "running"}
    <3> SUFFICES ASSUME \A s \in Steps :
                          r.steps[s].status \notin {"failed", "running"}
                 PROVE  FALSE
      OBVIOUS
    <3>1. \A s \in Steps : s \in Pending(r) \/ r.steps[s].status \in Terminal
      BY <1>4 DEF Waiting, Pending, WorkflowRun, StepRun, StepStatus,
                  Terminal, Settled
    <3>2. Pending(r) # {} /\ Pending(r) \subseteq Steps
      BY <3>1 DEF AllTerminal, Pending
    <3>3. PICK s \in Pending(r) : Deps[s] \cap Pending(r) = {}
      BY <3>2, GraphAssumption
    <3>4. Deps[s] \subseteq Steps
      BY <3>2, EngineAssumption
    <3>5. QED BY <1>2, <3>1, <3>3, <3>4
  <2>2. QED BY <1>1, <1>4, <2>1 DEF Truthful
<1>5. QED BY <1>3, <1>4

\* What a step of a task leaves alone.
LEMMA TaskFrame ==
  ASSUME IInv, NEW d \in Drivers, NEW s \in Steps, TaskStep(d, s)
  PROVE  /\ UNCHANGED <<store, pc, input>>
         /\ task[d][s] \in Active
         /\ \E step : run' = [run EXCEPT ![d].steps[s] = step]
         /\ \E to : MoveTask(d, s, to)
         /\ calls' # calls => calls' = [calls EXCEPT ![s] = @ + 1]
<1>0. /\ run \in [Drivers -> WorkflowRun]
  BY DEF IInv, TypeOK
<1>1. UNCHANGED run => \E step : run' = [run EXCEPT ![d].steps[s] = step]
  <2>1. run = [run EXCEPT ![d].steps[s] = run[d].steps[s]]
    BY <1>0 DEF WorkflowRun
  <2>2. QED BY <2>1
<1>2. ASSUME NEW step, EndAttempt(d, s, step)
      PROVE  /\ \E new : SetStep(d, s, new)
             /\ \E to : MoveTask(d, s, to)
  BY <1>2 DEF EndAttempt
<1>3. CASE Acquire(d, s)
  BY <1>1, <1>3 DEF Acquire, Active
<1>4. CASE NoAttemptLeft(d, s)
  BY <1>1, <1>4 DEF NoAttemptLeft, Active
<1>5. CASE BeginCall(d, s)
  BY <1>5 DEF BeginCall, SetStep, Active
<1>6. CASE Refuse(d, s)
  BY <1>6 DEF Refuse, SetStep, Active
<1>7. CASE FailEarly(d, s)
  BY <1>2, <1>7 DEF FailEarly, SetStep, Active
<1>8. CASE CallFails(d, s)
  BY <1>2, <1>8 DEF CallFails, SetStep, Active
<1>9. CASE \E out \in Results(s) : CallSucceeds(d, s, out)
  BY <1>9 DEF CallSucceeds, SetStep, Active
<1>10. QED
  BY <1>3, <1>4, <1>5, <1>6, <1>7, <1>8, <1>9 DEF TaskStep, CallEnds

\* A driver writes a row in progress or its final save, and moves on.
LEMMA HonestWrite ==
  ASSUME IInv, HonestInv, NEW d \in Drivers, NEW r \in WorkflowRun,
         run' = [run EXCEPT ![d] = r], store' \in {store, r},
         store' = r => Truthful(r),
         NEW label \in {"idle", "loaded", "drive", "gather", "done"},
         Goto(d, label), label # "done" => r.status = "running"
  PROVE  HonestInv'
<1>1. /\ run \in [Drivers -> WorkflowRun]
      /\ pc \in [Drivers -> {"idle", "loaded", "drive", "gather", "done"}]
  BY DEF IInv, TypeOK
<1>2. store' # NoRun => Truthful(store')
  BY DEF HonestInv
<1>3. \A e \in Drivers : pc'[e] \in {"loaded", "drive", "gather"} =>
                           run'[e].status = "running"
  BY <1>1 DEF HonestInv, Goto
<1>4. QED BY <1>2, <1>3 DEF HonestInv

LEMMA HonestInit == Init => HonestInv
  BY DEF Init, HonestInv

LEMMA HonestStep == IInv /\ HonestInv /\ [Next]_vars => HonestInv'
<1> SUFFICES ASSUME IInv, HonestInv, [Next]_vars PROVE HonestInv'
  OBVIOUS
<1>0. /\ run \in [Drivers -> WorkflowRun]
      /\ pc \in [Drivers -> {"idle", "loaded", "drive", "gather", "done"}]
      /\ store \in WorkflowRun \cup {NoRun}
  BY DEF IInv, TypeOK
<1>1. ASSUME NEW d \in Drivers, DriverStep(d) PROVE HonestInv'
  <2> DEFINE r == run[d]
  <2>0. r \in WorkflowRun /\ CopyOK(r, input)
    BY <1>0 DEF IInv
  <2>1. CASE Start(d)
    <3>1. NewRun.status = "running" /\ NewRun \in WorkflowRun
      BY NewRunOK DEF NewRun, IInv, TypeOK
    <3>2. QED BY <2>1, <3>1, NewRowIsTruthful, HonestWrite DEF Start, Save
  <2>2. CASE ResumeSave(d)
    <3>1. r.status = "running"
      BY <2>2 DEF ResumeSave, HonestInv
    <3>2. QED
      BY <2>0, <2>2, <3>1, NewRowIsTruthful, HonestWrite DEF ResumeSave, Save
  <2>3. CASE Finish(d)
    <3> DEFINE st == IF AnyFailed(r) THEN "failed" ELSE "completed"
               q == [r EXCEPT !.status = st]
    <3>1. q \in WorkflowRun
      BY <2>0 DEF WorkflowRun, WorkflowStatus
    <3>2. Truthful(q)
      BY <2>0, <2>3, FinishedIsTruthful DEF Finish
    <3>3. run' = [run EXCEPT ![d] = q] /\ store' = q /\ Goto(d, "done")
      BY <2>3 DEF Finish, Save
    <3> HIDE DEF q
    <3>4. QED BY <3>1, <3>2, <3>3, HonestWrite
  <2>4. CASE Stop(d)
    <3> DEFINE st == IF Waiting(r) # {} THEN "paused" ELSE "failed"
               q == [r EXCEPT !.status = st]
    <3>1. q \in WorkflowRun
      BY <2>0 DEF WorkflowRun, WorkflowStatus
    <3>2. Truthful(q)
      BY <2>0, <2>4, StoppedIsTruthful DEF Stop
    <3>3. run' = [run EXCEPT ![d] = q] /\ store' = q /\ Goto(d, "done")
      BY <2>4 DEF Stop, Save
    <3> HIDE DEF q
    <3>4. QED BY <3>1, <3>2, <3>3, HonestWrite
  <2>5. CASE Launch(d) \/ SkipOnly(d)
    <3>1. PICK skips, ready :
            /\ SkipsOf(r, skips) /\ ready \subseteq ReadyOf(r, skips)
            /\ run' = [run EXCEPT ![d] = Passed(r, skips, ready)]
      BY <2>5, Zenon DEF Launch, SkipOnly
    <3> DEFINE q == Passed(r, skips, ready)
    <3>2. q \in WorkflowRun
      BY <2>0, <3>1, PassedOK
    <3>3. r.status = "running"
      BY <2>5 DEF Launch, SkipOnly, HonestInv
    <3>4. q.status = r.status
      BY <2>0 DEF Passed, WorkflowRun
    <3>5. \E label \in {"drive", "gather"} : Goto(d, label)
      BY <1>0, <2>5 DEF Launch, SkipOnly, Goto
    <3>6. store' = store
      BY <2>5 DEF Launch, SkipOnly
    <3> HIDE DEF q
    <3>7. QED
      BY <3>1, <3>2, <3>3, <3>4, <3>5, <3>6, NewRowIsTruthful, HonestWrite
         DEF q
  <2>6. CASE Join(d)
    <3> DEFINE ctx == [k \in ContextKeys |->
                         IF /\ k \in Steps /\ task[d][k] = "returned"
                            /\ r.steps[k].status = "completed"
                         THEN r.steps[k].output ELSE r.context[k]]
               q == [r EXCEPT !.context = ctx]
    <3>1. q \in WorkflowRun
      BY <2>0 DEF WorkflowRun, StepRun, Contexts
    <3>2. q.status = "running"
      BY <2>0, <2>6 DEF Join, HonestInv, WorkflowRun
    <3>3. run' = [run EXCEPT ![d] = q] /\ store' = q /\ Goto(d, "drive")
      BY <2>6 DEF Join, Save
    <3> HIDE DEF q
    <3>4. QED BY <3>1, <3>2, <3>3, NewRowIsTruthful, HonestWrite
  <2>7. QED
    BY <1>1, <2>1, <2>2, <2>3, <2>4, <2>5, <2>6 DEF DriverStep
<1>2. ASSUME NEW d \in Drivers, Abort(d) PROVE HonestInv'
  BY <1>0, <1>2 DEF Abort, Goto, HonestInv
<1>3. ASSUME NEW d \in Drivers, NEW given \in Presentable,
             ResumeLoad(d, given)
      PROVE  HonestInv'
  <2>1. store \in WorkflowRun /\ CopyOK(store, input)
        /\ given \in [Steps -> Approvals \cup {NoApproval}]
    BY <1>3 DEF IInv, TypeOK, ResumeLoad, Presentable
  <2> DEFINE q == WithApprovals(store, given)
  <2>2. q \in WorkflowRun
    BY <2>1, WithApprovalsOK
  <2>3. q.status = "running"
    BY <2>1 DEF WithApprovals, WorkflowRun
  <2>4. run' = [run EXCEPT ![d] = q] /\ store' = store /\ Goto(d, "loaded")
    BY <1>3 DEF ResumeLoad
  <2> HIDE DEF q
  <2>5. QED BY <2>2, <2>3, <2>4, NewRowIsTruthful, HonestWrite
<1>4. ASSUME NEW d \in Drivers, NEW s \in Steps, TaskStep(d, s)
      PROVE  HonestInv'
  <2>1. UNCHANGED <<store, pc>>
    BY <1>4, TaskFrame
  <2>2. PICK step : run' = [run EXCEPT ![d].steps[s] = step]
    BY <1>4, TaskFrame
  <2>3. \A e \in Drivers : run'[e].status = run[e].status
    BY <1>0, <2>2 DEF WorkflowRun
  <2>4. QED BY <2>1, <2>3 DEF HonestInv
<1>5. CASE (\E a \in Approvals : Issue(a)) \/ UNCHANGED vars
  BY <1>5 DEF Issue, vars, HonestInv
<1>6. QED
  BY <1>1, <1>2, <1>3, <1>4, <1>5 DEF Next, Rest

\* What the row says of the run is true of its steps, however many calls
\* interleave on it or die.
THEOREM StatusHonestHolds == Spec => []StatusHonest
<1>1. HonestInv => StatusHonest
  BY DEF HonestInv, Truthful, StatusHonest
<1>2. QED BY <1>1, HonestInit, HonestStep, Invariance, PTL DEF Spec

-----------------------------------------------------------------------------
(* One engine call at a time *)

\* The status of a step in a copy r against the one in the row: a resume woke
\* it, the loop skipped it, or a batch ran it.
Woken(row, r) ==
  \A s \in Steps : r.steps[s].status # row.steps[s].status =>
    row.steps[s].status = "waiting_approval" /\ r.steps[s].status = "pending"

OnlySkips(row, r) ==
  \A s \in Steps : r.steps[s].status # row.steps[s].status =>
    row.steps[s].status = "pending" /\ r.steps[s].status = "skipped"

Ahead(row, r) ==
  \A s \in Steps : r.steps[s].status # row.steps[s].status =>
    row.steps[s].status = "pending"

Tracks(label, row, r) ==
  /\ label = "loaded" => Woken(row, r)
  /\ label = "drive" => row.status = "running" /\ OnlySkips(row, r)
  /\ label = "gather" => row.status = "running" /\ Ahead(row, r)

Busy(d) == pc[d] \in {"loaded", "drive", "gather"}

\* The one call in progress works on a copy that only differs from the row
\* where nobody but itself can have put the difference, and it only holds
\* tasks for steps the row shows as pending.
SerialInv ==
  /\ \A d, e \in Drivers : Busy(d) /\ Busy(e) => d = e
  /\ pc[Starter] # "done" => \A d \in Drivers \ {Starter} : pc[d] = "idle"
  /\ pc[Starter] = "idle" => store = NoRun
  /\ \A d \in Drivers :
       Busy(d) => store # NoRun /\ Tracks(pc[d], store, run[d])
  /\ \A d \in Drivers, s \in Steps :
       task[d][s] # "none" => store.steps[s].status = "pending"

\* The driver in progress moves on; nobody else is in progress.
LEMMA OneMoves ==
  ASSUME IInv, SerialInv, NEW d \in Drivers,
         \A e \in Drivers : Busy(e) => e = d,
         pc[d] # "done", d # Starter => pc[Starter] = "done",
         NEW r, run' = [run EXCEPT ![d] = r], store' # NoRun,
         NEW label \in {"loaded", "drive", "gather", "done"},
         Goto(d, label), Tracks(label, store', r),
         \A s \in Steps : task'[d][s] # "none" =>
                            store'.steps[s].status = "pending",
         \A e \in Drivers : e # d => task'[e] = task[e]
  PROVE  SerialInv'
<1>0. /\ run \in [Drivers -> WorkflowRun] /\ Starter \in Drivers
      /\ pc \in [Drivers -> {"idle", "loaded", "drive", "gather", "done"}]
  BY EngineAssumption DEF IInv, TypeOK
<1>1. \A e \in Drivers : /\ pc'[e] = IF e = d THEN label ELSE pc[e]
                         /\ run'[e] = IF e = d THEN r ELSE run[e]
  BY <1>0 DEF Goto
<1>2. \A e \in Drivers : Busy(e)' => e = d
  BY <1>1 DEF Busy
<1>3. pc'[Starter] # "done" => \A e \in Drivers \ {Starter} : pc'[e] = "idle"
  BY <1>0, <1>1 DEF SerialInv
<1>4. pc'[Starter] # "idle"
  BY <1>0, <1>1
<1>5. \A e \in Drivers :
        Busy(e)' => store' # NoRun /\ Tracks(pc'[e], store', run'[e])
  BY <1>1, <1>2
<1>6. \A e \in Drivers, s \in Steps :
        task'[e][s] # "none" => store'.steps[s].status = "pending"
  BY DEF IInv, TaskOK, Busy
<1>7. QED BY <1>2, <1>3, <1>4, <1>5, <1>6 DEF SerialInv

LEMMA SerialInit == Init => SerialInv
  BY EngineAssumption DEF Init, SerialInv, Busy

\* A driver that finds room for one more call is the only one.
LEMMA AloneWhenAdmitted ==
  ASSUME MaxActive = 1, IInv, Cardinality(InProgress) < MaxActive
  PROVE  \A e \in Drivers : ~Busy(e)
<1>1. IsFiniteSet(InProgress)
  BY EngineAssumption, FS_Subset DEF InProgress
<1>2. InProgress = {}
  BY <1>1, FS_CardinalityType, FS_EmptySet
<1>3. QED BY <1>2 DEF InProgress, Busy

LEMMA SerialStep ==
  ASSUME MaxActive = 1, IInv, HonestInv, SerialInv, [Next]_vars
  PROVE  SerialInv'
<1>0. /\ run \in [Drivers -> WorkflowRun] /\ Starter \in Drivers
      /\ pc \in [Drivers -> {"idle", "loaded", "drive", "gather", "done"}]
      /\ store \in WorkflowRun \cup {NoRun}
      /\ \A d \in Drivers : run[d] \in WorkflowRun /\ run[d] # NoRun
      /\ NewRun # NoRun
  BY EngineAssumption, NoRunAssumption, NewRunOK DEF IInv, TypeOK
\* Outside gather a driver has no tasks.
<1>a. ASSUME NEW d \in Drivers, pc[d] # "gather"
      PROVE  \A s \in Steps : task[d][s] = "none"
  BY <1>a DEF IInv, TaskOK
<1>b. ASSUME NEW d \in Drivers, Busy(d)
      PROVE  /\ \A e \in Drivers : Busy(e) => e = d
             /\ pc[d] # "done" /\ (d # Starter => pc[Starter] = "done")
             /\ store \in WorkflowRun /\ store # NoRun
             /\ Tracks(pc[d], store, run[d])
  BY <1>0, <1>b DEF SerialInv, Busy
<1>1. ASSUME NEW d \in Drivers, DriverStep(d) PROVE SerialInv'
  <2> DEFINE r == run[d]
  <2>1. CASE Start(d)
    <3>1. \A e \in Drivers : ~Busy(e)
      BY <1>0, <2>1 DEF Start, SerialInv, Busy
    <3>2. Tracks("drive", NewRun, NewRun)
      BY DEF Tracks, OnlySkips, NewRun
    <3>3. /\ run' = [run EXCEPT ![d] = NewRun] /\ store' = NewRun
          /\ Goto(d, "drive") /\ task' = task /\ pc[d] = "idle"
          /\ d = Starter
      BY <2>1 DEF Start, Save
    <3>4. QED BY <1>0, <1>a, <3>1, <3>2, <3>3, OneMoves
  <2>2. CASE ResumeSave(d)
    <3>1. /\ run' = [run EXCEPT ![d] = r] /\ store' = r
          /\ Goto(d, "drive") /\ task' = task /\ pc[d] # "gather"
          /\ Busy(d) /\ r.status = "running"
      BY <2>2 DEF ResumeSave, Save, Busy, HonestInv
    <3>2. Tracks("drive", r, r)
      BY <3>1 DEF Tracks, OnlySkips
    <3>3. QED BY <1>0, <1>a, <1>b, <3>1, <3>2, OneMoves
  <2>3. CASE Finish(d) \/ Stop(d)
    <3>1. PICK st \in {"completed", "failed", "paused"} :
            /\ run' = [run EXCEPT ![d] = [r EXCEPT !.status = st]]
            /\ store' = [r EXCEPT !.status = st]
      BY <2>3, Zenon DEF Finish, Stop, Save
    <3> DEFINE q == [r EXCEPT !.status = st]
    <3>2. q \in WorkflowRun
      BY <1>0 DEF WorkflowRun, WorkflowStatus
    <3>3. /\ Goto(d, "done") /\ task' = task /\ pc[d] # "gather" /\ Busy(d)
      BY <2>3 DEF Finish, Stop, Busy
    <3>4. Tracks("done", q, q)
      BY DEF Tracks
    <3>5. q # NoRun
      BY <3>2, NoRunAssumption
    <3> HIDE DEF q
    <3>6. QED
      BY <1>a, <1>b, <3>1, <3>3, <3>4, <3>5, OneMoves DEF q
  <2>4. CASE SkipOnly(d)
    <3>1. PICK skips : /\ SkipsOf(r, skips)
                       /\ run' = [run EXCEPT ![d] = Passed(r, skips, {})]
      BY <2>4 DEF SkipOnly
    <3> DEFINE q == Passed(r, skips, {})
    <3>2. /\ store' = store /\ task' = task /\ Busy(d) /\ pc[d] = "drive"
      BY <2>4 DEF SkipOnly, Busy
    <3>3. Goto(d, "drive")
      BY <1>0, <2>4 DEF SkipOnly, Goto
    <3>4. store.status = "running" /\ OnlySkips(store, r)
      BY <1>b, <3>2 DEF Tracks
    <3>5. Tracks("drive", store, q)
      <4>1. \A s \in Steps : q.steps[s].status = IF s \in skips THEN "skipped"
                                                 ELSE r.steps[s].status
        BY <1>0 DEF Passed, WorkflowRun, StepRun
      <4>2. \A s \in skips : r.steps[s].status = "pending"
        BY <3>1 DEF SkipsOf, Pending
      <4> HIDE DEF q
      <4>3. QED BY <3>4, <4>1, <4>2 DEF Tracks, OnlySkips
    <3> HIDE DEF q
    <3>6. QED
      BY <1>a, <1>b, <3>1, <3>2, <3>3, <3>5, OneMoves DEF q
  <2>5. CASE Launch(d)
    <3>1. PICK skips :
            /\ SkipsOf(r, skips)
            /\ run' = [run EXCEPT ![d] = Passed(r, skips, ReadyOf(r, skips))]
            /\ task' = [task EXCEPT ![d] = [s \in Steps |->
                 IF s \in ReadyOf(r, skips) THEN "queued" ELSE "none"]]
      BY <2>5 DEF Launch
    <3> DEFINE ready == ReadyOf(r, skips)
               q == Passed(r, skips, ready)
    <3>2. /\ store' = store /\ Busy(d) /\ pc[d] = "drive" /\ Goto(d, "gather")
      BY <2>5 DEF Launch, Busy
    <3>3. store.status = "running" /\ OnlySkips(store, r)
      BY <1>b, <3>2 DEF Tracks
    <3>4. \A s \in skips \cup ready : r.steps[s].status = "pending"
      BY <3>1 DEF SkipsOf, ReadyOf, Pending
    <3>5. \A s \in ready : store.steps[s].status = "pending"
      BY <3>3, <3>4 DEF OnlySkips, ReadyOf, Pending
    <3>6. Tracks("gather", store, q)
      <4>1. \A s \in Steps : q.steps[s].status = IF s \in skips THEN "skipped"
                                                 ELSE IF s \in ready
                                                      THEN "running"
                                                 ELSE r.steps[s].status
        BY <1>0 DEF Passed, WorkflowRun, StepRun
      <4> HIDE DEF q, ready
      <4>2. QED BY <3>3, <3>4, <4>1 DEF Tracks, OnlySkips, Ahead
    <3>7. /\ \A s \in Steps : task'[d][s] # "none" => s \in ready
          /\ \A e \in Drivers : e # d => task'[e] = task[e]
      BY <3>1 DEF IInv, TypeOK
    <3> HIDE DEF q, ready
    <3>8. QED
      BY <1>b, <3>1, <3>2, <3>5, <3>6, <3>7, OneMoves DEF q, ready
  <2>6. CASE Join(d)
    <3> DEFINE ctx == [k \in ContextKeys |->
                         IF /\ k \in Steps /\ task[d][k] = "returned"
                            /\ r.steps[k].status = "completed"
                         THEN r.steps[k].output ELSE r.context[k]]
               q == [r EXCEPT !.context = ctx]
    <3>1. /\ run' = [run EXCEPT ![d] = q] /\ store' = q /\ Goto(d, "drive")
          /\ task' = [task EXCEPT ![d] = [s \in Steps |-> "none"]]
          /\ Busy(d) /\ r.status = "running"
      BY <2>6 DEF Join, Save, Busy, HonestInv
    <3>2. q \in WorkflowRun /\ q.status = "running"
      BY <1>0, <3>1 DEF WorkflowRun, StepRun, Contexts
    <3> HIDE DEF q
    <3>3. Tracks("drive", q, q) /\ q # NoRun
      BY <3>2, NoRunAssumption DEF Tracks, OnlySkips
    <3>4. /\ \A s \in Steps : task'[d][s] = "none"
          /\ \A e \in Drivers : e # d => task'[e] = task[e]
      BY <3>1 DEF IInv, TypeOK
    <3>5. QED BY <1>b, <3>1, <3>3, <3>4, OneMoves
  <2>7. QED
    BY <1>1, <2>1, <2>2, <2>3, <2>4, <2>5, <2>6 DEF DriverStep
<1>2. ASSUME NEW d \in Drivers, Abort(d) PROVE SerialInv'
  <2>1. /\ Busy(d) /\ Goto(d, "done") /\ store' = store
        /\ run' = run
        /\ task' = [task EXCEPT ![d] = [s \in Steps |-> "none"]]
    BY <1>0, <1>2 DEF Abort, InProgress, Busy
  <2>2. run' = [run EXCEPT ![d] = run[d]]
    BY <1>0, <2>1
  <2>3. Tracks("done", store, run[d])
    BY DEF Tracks
  <2>4. /\ \A s \in Steps : task'[d][s] = "none"
        /\ \A e \in Drivers : e # d => task'[e] = task[e]
    BY <2>1 DEF IInv, TypeOK
  <2>5. QED BY <1>b, <2>1, <2>2, <2>3, <2>4, OneMoves
<1>3. ASSUME NEW d \in Drivers, NEW given \in Presentable,
             ResumeLoad(d, given)
      PROVE  SerialInv'
  <2> DEFINE q == WithApprovals(store, given)
  <2>1. \A e \in Drivers : ~Busy(e)
    BY <1>3, AloneWhenAdmitted DEF ResumeLoad
  <2>2. store \in WorkflowRun /\ store # NoRun
    BY <1>0, <1>3 DEF ResumeLoad
  <2>3. Tracks("loaded", store, q)
    BY <2>2 DEF Tracks, Woken, WithApprovals, WorkflowRun, StepRun
  <2>4. /\ run' = [run EXCEPT ![d] = q] /\ store' = store
        /\ Goto(d, "loaded") /\ task' = task
        /\ pc[d] = "idle" /\ pc[Starter] = "done"
    BY <1>3 DEF ResumeLoad
  <2> HIDE DEF q
  <2>5. QED BY <1>a, <2>1, <2>2, <2>3, <2>4, OneMoves
<1>4. ASSUME NEW d \in Drivers, NEW s \in Steps, TaskStep(d, s)
      PROVE  SerialInv'
  <2>1. UNCHANGED <<store, pc>> /\ task[d][s] \in Active
    BY <1>4, TaskFrame
  <2>2. PICK step, to : /\ run' = [run EXCEPT ![d].steps[s] = step]
                        /\ task' = [task EXCEPT ![d][s] = to]
    BY <1>4, TaskFrame DEF MoveTask
  <2>3. pc[d] = "gather" /\ store.steps[s].status = "pending"
    BY <2>1 DEF IInv, TaskOK, Active, SerialInv
  <2>4. /\ \A e \in Drivers : e # d => run'[e] = run[e]
        /\ \A t \in Steps : t # s => run'[d].steps[t] = run[d].steps[t]
    BY <1>0, <2>2 DEF WorkflowRun
  <2>5. Tracks(pc'[d], store', run'[d])
    BY <1>b, <2>1, <2>3, <2>4 DEF Tracks, Ahead, Busy
  <2>6. \A e \in Drivers, t \in Steps :
          task'[e][t] # "none" => store'.steps[t].status = "pending"
    BY <2>1, <2>2, <2>3 DEF SerialInv, IInv, TypeOK
  <2>7. QED BY <2>1, <2>4, <2>5, <2>6 DEF SerialInv, Busy
<1>5. CASE (\E a \in Approvals : Issue(a)) \/ UNCHANGED vars
  BY <1>5 DEF Issue, vars, SerialInv, Busy
<1>6. QED
  BY <1>1, <1>2, <1>3, <1>4, <1>5 DEF Next, Rest

\* With one engine call at a time, no step of any action starts the work of a
\* step whose end is persisted, whatever the last call left and however it
\* ended.
THEOREM CompletedNotRepeatedHolds ==
  ASSUME MaxActive = 1 PROVE Spec => CompletedNotRepeated
<1>1. ASSUME IInv, SerialInv, [Next]_vars
      PROVE  [\A s \in Steps : calls'[s] # calls[s] =>
                store.steps[s].status \notin Terminal]_calls
  <2>1. ASSUME NEW d \in Drivers, NEW t \in Steps, TaskStep(d, t),
               NEW s \in Steps, calls'[s] # calls[s]
        PROVE  store.steps[s].status \notin Terminal
    <3>1. task[d][t] \in Active /\ calls' = [calls EXCEPT ![t] = @ + 1]
      BY <1>1, <2>1, TaskFrame
    <3>2. s = t
      BY <1>1, <2>1, <3>1 DEF IInv, TypeOK
    <3>3. store.steps[s].status = "pending"
      BY <1>1, <3>1, <3>2 DEF SerialInv, Active
    <3>4. QED BY <3>3 DEF Terminal, Settled
  <2>2. CASE \E d \in Drivers, t \in Steps : TaskStep(d, t)
    BY <2>1, <2>2
  <2>3. CASE ~ \E d \in Drivers, t \in Steps : TaskStep(d, t)
    BY <1>1, <2>3
       DEF Next, DriverStep, Start, ResumeSave, Finish, Launch, SkipOnly, Stop,
           Join, Abort, ResumeLoad, Issue, Rest, vars
  <2>4. QED BY <2>2, <2>3
<1>2. IInv /\ HonestInv /\ SerialInv /\ [Next]_vars => SerialInv'
  BY SerialStep
<1>3. QED
  BY <1>1, <1>2, SerialInit, HonestInit, HonestStep, Invariance, PTL
     DEF Spec, CompletedNotRepeated

-----------------------------------------------------------------------------
(* The run store is a CheckpointedRun *)

\* The mapping on both sides of a save.
LEMMA Mapped ==
  /\ store # NoRun =>
       /\ StoredStatus = store.status
       /\ StoredSteps = [s \in Steps |-> store.steps[s].status]
  /\ store' # NoRun =>
       /\ StoredStatus' = store'.status
       /\ StoredSteps' = [s \in Steps |-> store'.steps[s].status]
  /\ store = NoRun =>
       /\ StoredStatus = NoRun
       /\ StoredSteps = [s \in Steps |-> "pending"]
  BY DEF StoredStatus, StoredSteps

\* The statuses of a row are those the abstract run knows.
LEMMA RowTypes ==
  ASSUME NEW r \in WorkflowRun
  PROVE  /\ r # NoRun /\ r.status # NoRun
         /\ [s \in Steps |-> r.steps[s].status] \in
              [Steps -> Promise!Outcome \cup {"pending", "skipped"}]
  BY NoRunAssumption
     DEF WorkflowRun, StepRun, StepStatus, Promise!Outcome

\* What the loop did to a copy since the last save are moves of the abstract
\* run.
LEMMA AheadMoves ==
  ASSUME store \in WorkflowRun, store' \in WorkflowRun, CopyOK(store', input'),
         Ahead(store, store')
  PROVE  Promise!Moves
<1>1. /\ StoredSteps = [s \in Steps |-> store.steps[s].status]
      /\ StoredSteps' = [s \in Steps |-> store'.steps[s].status]
      /\ StoredSteps' \in [Steps -> Promise!Outcome \cup {"pending", "skipped"}]
  BY Mapped, RowTypes
<1>2. ASSUME NEW s \in Steps PROVE Promise!Advance(s)
  <2>1. CASE store'.steps[s].status = store.steps[s].status
    BY <1>1, <2>1 DEF Promise!Advance
  <2>2. CASE store'.steps[s].status = "skipped"
    BY <1>1, <2>2 DEF Promise!Advance, Ahead
  <2>3. CASE /\ store'.steps[s].status # store.steps[s].status
             /\ store'.steps[s].status # "skipped"
    <3>1. store.steps[s].status = "pending"
      BY <2>3 DEF Ahead
    <3>2. /\ store'.steps[s].status \in Promise!Outcome
          /\ Executed(store'.steps[s].status)
      BY <2>3, <3>1
         DEF WorkflowRun, StepRun, StepStatus, Promise!Outcome, Executed
    <3>3. \A p \in Deps[s] : p \in Steps /\ store'.steps[p].status \in Settled
      BY <3>2, EngineAssumption DEF CopyOK
    <3>4. QED
      BY <1>1, <3>1, <3>2, <3>3
         DEF Promise!Advance, Settled, Promise!Settled
  <2>4. QED BY <2>1, <2>2, <2>3
<1>3. QED BY <1>1, <1>2 DEF Promise!Moves

LEMMA StepSimulated ==
  ASSUME IInv, IInv', HonestInv, HonestInv', SerialInv, [Next]_vars
  PROVE  [Promise!Next]_(Promise!vars)
<1>0. /\ run \in [Drivers -> WorkflowRun] /\ Starter \in Drivers
      /\ store \in WorkflowRun \cup {NoRun}
      /\ store' \in WorkflowRun \cup {NoRun}
      /\ store' # NoRun => CopyOK(store', input') /\ Truthful(store')
  BY EngineAssumption DEF IInv, TypeOK, HonestInv
<1>1. ASSUME NEW d \in Drivers, Start(d) PROVE Promise!Create
  <2>1. store = NoRun /\ store' = NewRun /\ NewRun # NoRun
    BY <1>1, NewRunOK, NoRunAssumption DEF Start, Save, SerialInv, IInv, TypeOK
  <2>2. QED BY <2>1, Mapped DEF Promise!Create, NewRun
<1>2. ASSUME NEW d \in Drivers, ResumeSave(d) PROVE Promise!Reopen
  <2>1. /\ store' = run[d] /\ run[d].status = "running"
        /\ store \in WorkflowRun /\ Woken(store, run[d])
    BY <1>0, <1>2
       DEF ResumeSave, Save, HonestInv, SerialInv, Tracks, Busy
  <2>2. store' \in WorkflowRun
    BY <1>0, <2>1
  <2>3. /\ StoredStatus # NoRun /\ StoredStatus' = "running"
        /\ StoredSteps = [s \in Steps |-> store.steps[s].status]
        /\ StoredSteps' = [s \in Steps |-> store'.steps[s].status]
        /\ StoredSteps' \in
             [Steps -> Promise!Outcome \cup {"pending", "skipped"}]
    BY <2>1, <2>2, Mapped, RowTypes
  <2>4. QED BY <2>1, <2>3 DEF Promise!Reopen, Woken
<1>3. ASSUME NEW d \in Drivers, Join(d) PROVE Promise!Checkpoint
  <2>1. /\ store \in WorkflowRun /\ store.status = "running"
        /\ Ahead(store, run[d]) /\ run[d].status = "running"
    BY <1>0, <1>3 DEF Join, HonestInv, SerialInv, Tracks, Busy
  <2>2. /\ store' # NoRun
        /\ store'.status = "running" /\ store'.steps = run[d].steps
    <3> DEFINE ctx == [k \in ContextKeys |->
                         IF /\ k \in Steps /\ task[d][k] = "returned"
                            /\ run[d].steps[k].status = "completed"
                         THEN run[d].steps[k].output ELSE run[d].context[k]]
               q == [run[d] EXCEPT !.context = ctx]
    <3>1. store' = q
      BY <1>3 DEF Join, Save
    <3>2. q \in WorkflowRun
      <4>1. run[d] \in WorkflowRun
        BY <1>0
      <4>2. ctx \in Contexts
        BY <4>1 DEF WorkflowRun, StepRun, Contexts
      <4> HIDE DEF ctx
      <4>3. QED BY <4>1, <4>2 DEF WorkflowRun
    <3>3. q.status = "running" /\ q.steps = run[d].steps
      BY <1>0, <2>1 DEF WorkflowRun
    <3>4. QED BY <3>1, <3>2, <3>3, NoRunAssumption
  <2>3. Promise!Moves
    BY <1>0, <2>1, <2>2, AheadMoves DEF Ahead
  <2>4. StoredStatus = "running" /\ StoredStatus' = "running"
    BY <2>1, <2>2, Mapped, NoRunAssumption
  <2>5. QED BY <2>3, <2>4 DEF Promise!Checkpoint
<1>4. ASSUME NEW d \in Drivers, Finish(d) \/ Stop(d) PROVE Promise!Conclude
  <2>1. /\ store \in WorkflowRun /\ store.status = "running"
        /\ OnlySkips(store, run[d])
    BY <1>0, <1>4 DEF Finish, Stop, SerialInv, Tracks, Busy
  <2>2. /\ store' \in WorkflowRun /\ store'.steps = run[d].steps
        /\ store'.status \in {"completed", "failed", "paused"}
    <3>1. PICK st \in {"completed", "failed", "paused"} :
            store' = [run[d] EXCEPT !.status = st]
      BY <1>4, Zenon DEF Finish, Stop, Save
    <3>2. QED BY <1>0, <3>1 DEF WorkflowRun, WorkflowStatus
  <2>3. store # NoRun /\ store' # NoRun
    BY <2>1, <2>2, NoRunAssumption
  <2>4. Promise!Moves
    BY <1>0, <2>1, <2>2, <2>3, AheadMoves DEF Ahead, OnlySkips
  <2>5. /\ StoredStatus = "running" /\ StoredStatus' = store'.status
        /\ StoredSteps = [s \in Steps |-> store.steps[s].status]
        /\ StoredSteps' = [s \in Steps |-> store'.steps[s].status]
    BY <2>1, <2>3, Mapped
  <2>6. \A s \in Steps : StoredSteps'[s] # StoredSteps[s] =>
                           StoredSteps'[s] = "skipped"
    BY <2>1, <2>2, <2>5 DEF OnlySkips
  <2>7. Truthful(store')
    BY <1>0, <2>3
  <2>8. QED
    BY <2>2, <2>4, <2>5, <2>6, <2>7
       DEF Promise!Conclude, Truthful, Waiting, Settled, Promise!Settled
<1>5. CASE store' = store
  BY <1>5 DEF Promise!vars, StoredStatus, StoredSteps
<1>6. CASE \E d \in Drivers : \/ Start(d) \/ ResumeSave(d) \/ Join(d)
                              \/ Finish(d) \/ Stop(d)
  BY <1>1, <1>2, <1>3, <1>4, <1>6 DEF Promise!Next
<1>7. CASE \E d \in Drivers, s \in Steps : TaskStep(d, s)
  BY <1>5, <1>7, TaskFrame
<1>8. QED
  BY <1>5, <1>6, <1>7
     DEF Next, DriverStep, Launch, SkipOnly, Abort, ResumeLoad, Issue, Rest,
         vars

\* With one engine call at a time the run store of every definition behaves as
\* the abstract checkpointed run, whichever calls die half way.
THEOREM ImplementsCheckpointedRunHolds ==
  ASSUME MaxActive = 1 PROVE Spec => ImplementsCheckpointedRun
<1>1. Init => Promise!Init
  BY Mapped DEF Init, Promise!Init
<1>2. IInv /\ HonestInv /\ SerialInv /\ [Next]_vars => SerialInv'
  BY SerialStep
<1>3. IInv /\ IInv' /\ HonestInv /\ HonestInv' /\ SerialInv /\ [Next]_vars
        => [Promise!Next]_(Promise!vars)
  BY StepSimulated
<1>4. QED
  BY <1>1, <1>2, <1>3, SerialInit, HonestInit, HonestStep, Invariance, PTL
     DEF Spec, ImplementsCheckpointedRun, Promise!Spec
=============================================================================
