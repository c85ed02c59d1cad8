--------------------------- MODULE WorkflowEngine ---------------------------
(***************************************************************************)
(* The workflow engine (app/workflows/engine.py) driving ONE persisted run *)
(* of ONE definition.  A driver is one call of the engine: the start call  *)
(* or a resume call.  Each works on its own in-memory copy of the run and  *)
(* shares with the others the run store, the approval grants and the       *)
(* semaphore that bounds parallel steps.  Between two awaits the code runs *)
(* alone, so an action is the code between two awaits; what a driver does  *)
(* to its own copy up to a save is folded into that save.                  *)
(***************************************************************************)
EXTENDS Naturals, FiniteSets

CONSTANTS
  Steps,         \* the step ids of the definition
  Deps,          \* Deps[s]: the depends_on of step s
  Order,         \* Order[s]: position of s in definition.steps
  MaxRetries,    \* MaxRetries[s]: max_retries of s
  Gated,         \* the TOOL steps whose tool is not READ: they need a grant
  ToolOf,        \* ToolOf[s]: the tool that step s calls
  ClientKeys,    \* keys of the context that no step writes
  CondKey,       \* CondKey[s]: the context key s tests, or NoKey; the id of a
                 \* step stands for the key "step.<id>" its output goes to
  CondEquals,    \* CondEquals[s]: the value s asks for there
  InitialContexts, \* bound: the contexts a start request may bring
  Drivers,       \* the engine calls
  Starter,       \* the driver that is the start call, the others resume
  Approvals,     \* ids of the approvals that may be issued
  ApprovedTool,  \* ApprovedTool[a]: the tool approval a is issued for
  MaxParallel,   \* permits of the engine's semaphore
  MaxActive,     \* bound: engine calls of this run in progress at a time
  MaxAborts,     \* bound: engine calls that die half way
  NoRun, NoKey, NoApproval

ASSUME EngineAssumption ==
  /\ IsFiniteSet(Steps) /\ IsFiniteSet(Drivers)
  /\ Deps \in [Steps -> SUBSET Steps]
  /\ Order \in [Steps -> Nat]
  /\ MaxRetries \in [Steps -> Nat]
  /\ Gated \subseteq Steps
  /\ ClientKeys \cap Steps = {} /\ NoKey \notin Steps \cup ClientKeys
  /\ CondKey \in [Steps -> Steps \cup ClientKeys \cup {NoKey}]
  /\ Starter \in Drivers
  /\ NoApproval \notin Approvals
  /\ MaxParallel \in Nat /\ MaxActive \in Nat /\ MaxAborts \in Nat

\* No set of steps waits for itself: WorkflowDefinition refuses a graph with a
\* cycle (models.py:63-80), and the engine is only given what passed it.
ASSUME GraphAssumption ==
  \A S \in SUBSET Steps : S # {} => \E s \in S : Deps[s] \cap S = {}

StepStatus == {"pending", "running", "completed", "failed", "skipped",
               "waiting_approval"}
WorkflowStatus == {"running", "paused", "completed", "failed"}

\* The value of a context entry, as far as conditions can tell: None, which an
\* absent entry reads as, and two values that differ.
Outputs == {"none", "match", "other"}

ContextKeys == Steps \cup ClientKeys
Contexts == [ContextKeys -> Outputs]

\* A start request brings any JSON object, entries of steps included.
ASSUME ContextAssumption ==
  /\ CondEquals \in [Steps -> Outputs]
  /\ InitialContexts \subseteq Contexts

StepRun == [status: StepStatus, attempts: Nat, output: Outputs,
            approval_id: Approvals \cup {NoApproval}]
WorkflowRun == [status: WorkflowStatus, steps: [Steps -> StepRun],
                context: Contexts]

ASSUME NoRunAssumption == NoRun \notin WorkflowRun \cup WorkflowStatus

VARIABLES
  store,   \* the row of the run in the run store
  run,     \* run[d]: the copy driver d works on
  pc,      \* pc[d]: idle, loaded, drive, gather or done
  task,    \* task[d][s]: where the task of step s in d's batch stands
  grant,   \* grant[a]: unissued, live or consumed
  uses,    \* history: how many tool calls approval a let through
  calls,   \* history: how often the work of step s was started
  aborts,  \* how many engine calls died half way
  input    \* the context of the start request; only Start reads it

vars == <<store, run, pc, task, grant, uses, calls, aborts, input>>

-----------------------------------------------------------------------------
(* The run copy *)

Settled == {"completed", "skipped"}
Terminal == Settled \cup {"failed"}

\* The step has been handed to a task at some time and not reset since.
Executed(st) == st \in {"running", "completed", "failed", "waiting_approval"}

\* start: the context of the request is the run's first context.
NewRun ==
  [status |-> "running",
   steps |-> [s \in Steps |-> [status |-> "pending", attempts |-> 0,
                               output |-> "none",
                               approval_id |-> NoApproval]],
   context |-> input]

\* Mutant of WithApprovals: an approval wakes a step whatever its status.
MutWakeAny(r, given) ==
  [r EXCEPT
     !.status = "running",
     !.steps = [s \in Steps |->
        IF given[s] = NoApproval THEN r.steps[s]
        ELSE [r.steps[s] EXCEPT !.approval_id = given[s],
                                !.status = "pending"]]]

\* resume: record the presented approvals and wake the steps that waited.
WithApprovals(r, given) ==
  [r EXCEPT
     !.status = "running",
     !.steps = [s \in Steps |->
        IF given[s] = NoApproval THEN r.steps[s]
        ELSE [r.steps[s] EXCEPT
                !.approval_id = given[s],
                !.status = IF @ = "waiting_approval" THEN "pending" ELSE @]]]

\* Mutant of Pending: the loop picks completed steps up again.
MutRerun(r) == {s \in Steps : r.steps[s].status \in {"pending", "completed"}}

Pending(r) == {s \in Steps : r.steps[s].status = "pending"}
Waiting(r) == {s \in Steps : r.steps[s].status = "waiting_approval"}

ConditionPasses(r, s) ==
  CondKey[s] = NoKey \/ r.context[CondKey[s]] = CondEquals[s]

DepFailed(r, s) == \E p \in Deps[s] : r.steps[p].status = "failed"

\* Mutant of DepsSettled: a dependency that waits counts as settled.
MutWaitingSettles(r, skips, s) ==
  \A p \in Deps[s] : r.steps[p].status \notin {"pending", "running"}

\* The dependencies of s are settled when the pass reaches s: it visits the
\* pending steps in definition order and sees the skips it has made so far.
DepsSettled(r, skips, s) ==
  \A p \in Deps[s] : \/ r.steps[p].status \in Settled
                     \/ p \in skips /\ Order[p] < Order[s]

\* Mutant of SkipsOf: the condition is never evaluated.
MutNoCondition(r, skips) ==
  skips = {s \in Pending(r) : DepFailed(r, s)}

\* skips is the set of steps one pass over the pending steps skips.
SkipsOf(r, skips) ==
  /\ skips \subseteq Pending(r)
  /\ \A s \in Pending(r) :
       s \in skips <=> \/ DepFailed(r, s)
                       \/ DepsSettled(r, skips, s) /\ ~ConditionPasses(r, s)

ReadyOf(r, skips) == {s \in Pending(r) \ skips : DepsSettled(r, skips, s)}

\* The copy after the pass, with the ready steps handed to their tasks.
Passed(r, skips, ready) ==
  [r EXCEPT !.steps = [s \in Steps |->
      [r.steps[s] EXCEPT !.status = IF s \in skips THEN "skipped"
                                    ELSE IF s \in ready THEN "running"
                                    ELSE @]]]

AllTerminal(r) == \A s \in Steps : r.steps[s].status \in Terminal

\* Mutant of AnyFailed: all for any.
MutAllFailed(r) == \A s \in Steps : r.steps[s].status = "failed"

AnyFailed(r) == \E s \in Steps : r.steps[s].status = "failed"

-----------------------------------------------------------------------------
(* The engine calls *)

Init ==
  /\ input \in InitialContexts
  /\ store = NoRun
  /\ run = [d \in Drivers |-> NewRun]
  /\ pc = [d \in Drivers |-> "idle"]
  /\ task = [d \in Drivers |-> [s \in Steps |-> "none"]]
  /\ grant = [a \in Approvals |-> "unissued"]
  /\ uses = [a \in Approvals |-> 0]
  /\ calls = [s \in Steps |-> 0]
  /\ aborts = 0

InProgress == {d \in Drivers : pc[d] \notin {"idle", "done"}}

Goto(d, label) == pc' = [pc EXCEPT ![d] = label]

Save(d, r) == store' = r /\ run' = [run EXCEPT ![d] = r]

Start(d) ==
  /\ d = Starter /\ pc[d] = "idle"
  /\ Save(d, NewRun)
  /\ Goto(d, "drive")
  /\ UNCHANGED <<task, grant, uses, calls, aborts, input>>

\* A client knows the run id once the start call has ended, so resumes follow
\* it; nothing keeps two resumes, or a resume of a finished run, apart.
ResumeLoad(d, given) ==
  /\ d # Starter /\ pc[d] = "idle"
  /\ pc[Starter] = "done" /\ store # NoRun
  /\ Cardinality(InProgress) < MaxActive
  /\ run' = [run EXCEPT ![d] = WithApprovals(store, given)]
  /\ Goto(d, "loaded")
  /\ UNCHANGED <<store, task, grant, uses, calls, aborts, input>>

ResumeSave(d) ==
  /\ pc[d] = "loaded"
  /\ Save(d, run[d])
  /\ Goto(d, "drive")
  /\ UNCHANGED <<task, grant, uses, calls, aborts, input>>

\* Every step is terminal: the run ends.
Finish(d) ==
  /\ pc[d] = "drive" /\ AllTerminal(run[d])
  /\ Save(d, [run[d] EXCEPT !.status = IF AnyFailed(run[d]) THEN "failed"
                                       ELSE "completed"])
  /\ Goto(d, "done")
  /\ UNCHANGED <<task, grant, uses, calls, aborts, input>>

\* The pass found ready steps: gather starts one task for each.
Launch(d) ==
  /\ pc[d] = "drive" /\ ~AllTerminal(run[d])
  /\ \E skips \in SUBSET Pending(run[d]) :
       LET ready == ReadyOf(run[d], skips) IN
       /\ SkipsOf(run[d], skips)
       /\ ready # {}
       /\ run' = [run EXCEPT ![d] = Passed(run[d], skips, ready)]
       /\ task' = [task EXCEPT ![d] =
                     [s \in Steps |-> IF s \in ready THEN "queued" ELSE "none"]]
  /\ Goto(d, "gather")
  /\ UNCHANGED <<store, grant, uses, calls, aborts, input>>

\* The pass only skipped steps: loop again without a save.
SkipOnly(d) ==
  /\ pc[d] = "drive" /\ ~AllTerminal(run[d])
  /\ \E skips \in SUBSET Pending(run[d]) :
       /\ SkipsOf(run[d], skips)
       /\ skips # {} /\ ReadyOf(run[d], skips) = {}
       /\ run' = [run EXCEPT ![d] = Passed(run[d], skips, {})]
  /\ UNCHANGED <<store, pc, task, grant, uses, calls, aborts, input>>

\* Mutant of Stop: keep polling for the approval instead of returning.
MutPoll(d) ==
  /\ pc[d] = "drive" /\ ~AllTerminal(run[d])
  /\ SkipsOf(run[d], {}) /\ ReadyOf(run[d], {}) = {}
  /\ Save(d, [run[d] EXCEPT !.status = "paused"])
  /\ UNCHANGED <<pc, task, grant, uses, calls, aborts, input>>

\* No progress is possible: pause for an approval, or give the run up.
Stop(d) ==
  /\ pc[d] = "drive" /\ ~AllTerminal(run[d])
  /\ SkipsOf(run[d], {}) /\ ReadyOf(run[d], {}) = {}
  /\ Save(d, [run[d] EXCEPT !.status = IF Waiting(run[d]) # {} THEN "paused"
                                       ELSE "failed"])
  /\ Goto(d, "done")
  /\ UNCHANGED <<task, grant, uses, calls, aborts, input>>

\* gather returns once every task has: keep the outputs, then checkpoint.
Join(d) ==
  /\ pc[d] = "gather"
  /\ \A s \in Steps : task[d][s] \in {"none", "returned"}
  /\ Save(d, [run[d] EXCEPT !.context = [k \in ContextKeys |->
        IF /\ k \in Steps /\ task[d][k] = "returned"
           /\ run[d].steps[k].status = "completed"
        THEN run[d].steps[k].output ELSE run[d].context[k]]])
  /\ task' = [task EXCEPT ![d] = [s \in Steps |-> "none"]]
  /\ Goto(d, "drive")
  /\ UNCHANGED <<grant, uses, calls, aborts, input>>

\* The call dies between two awaits: process crash, cancellation, or a save
\* that raises.  Its tasks are cancelled and give their permits back.
Abort(d) ==
  /\ d \in InProgress /\ aborts < MaxAborts
  /\ task' = [task EXCEPT ![d] = [s \in Steps |-> "none"]]
  /\ Goto(d, "done")
  /\ aborts' = aborts + 1
  /\ UNCHANGED <<store, run, grant, uses, calls, input>>

-----------------------------------------------------------------------------
(* _execute_step: the task of one step in a driver's batch *)

Holders == {t \in Drivers \X Steps : task[t[1]][t[2]] \in {"trying", "calling"}}

MoveTask(d, s, to) == task' = [task EXCEPT ![d][s] = to]

SetStep(d, s, step) == run' = [run EXCEPT ![d].steps[s] = step]

Acquire(d, s) ==
  /\ task[d][s] = "queued"
  /\ Cardinality(Holders) < MaxParallel
  /\ MoveTask(d, s, "trying")
  /\ UNCHANGED <<store, run, pc, grant, uses, calls, aborts, input>>

HasAttempt(d, s) == run[d].steps[s].attempts <= MaxRetries[s]

\* The attempts of earlier calls used the whole range: no attempt is made and
\* the task returns the step as it is, still marked running.
NoAttemptLeft(d, s) ==
  /\ task[d][s] = "trying" /\ ~HasAttempt(d, s)
  /\ MoveTask(d, s, "returned")
  /\ UNCHANGED <<store, run, pc, grant, uses, calls, aborts, input>>

\* Mutant of Authorised: a consumed grant still authorises.
MutGrantReused(d, s) ==
  LET a == run[d].steps[s].approval_id IN
  a \in Approvals /\ grant[a] # "unissued" /\ ApprovedTool[a] = ToolOf[s]

Authorised(d, s) ==
  LET a == run[d].steps[s].approval_id IN
  a \in Approvals /\ grant[a] = "live" /\ ApprovedTool[a] = ToolOf[s]

\* An attempt starts the step's work; a gated tool call consumes its grant.
BeginCall(d, s) ==
  /\ task[d][s] = "trying" /\ HasAttempt(d, s)
  /\ s \in Gated => Authorised(d, s)
  /\ SetStep(d, s, [run[d].steps[s] EXCEPT !.attempts = @ + 1])
  /\ LET a == run[d].steps[s].approval_id IN
     IF s \in Gated
     THEN /\ grant' = [grant EXCEPT ![a] = "consumed"]
          /\ uses' = [uses EXCEPT ![a] = @ + 1]
     ELSE UNCHANGED <<grant, uses>>
  /\ calls' = [calls EXCEPT ![s] = @ + 1]
  /\ MoveTask(d, s, "calling")
  /\ UNCHANGED <<store, pc, aborts, input>>

\* The policy refuses: the attempt is spent and the step waits.
Refuse(d, s) ==
  /\ task[d][s] = "trying" /\ HasAttempt(d, s)
  /\ s \in Gated /\ ~Authorised(d, s)
  /\ SetStep(d, s, [run[d].steps[s] EXCEPT !.attempts = @ + 1,
                                           !.status = "waiting_approval",
                                           !.output = "other"])
  /\ MoveTask(d, s, "returned")
  /\ UNCHANGED <<store, pc, grant, uses, calls, aborts, input>>

\* An exception or the timeout ends an attempt: step is the step with the
\* attempt counted; the last attempt fails it, an earlier one is retried.
EndAttempt(d, s, step) ==
  IF step.attempts > MaxRetries[s]
  THEN SetStep(d, s, [step EXCEPT !.status = "failed"])
       /\ MoveTask(d, s, "returned")
  ELSE SetStep(d, s, step) /\ MoveTask(d, s, "trying")

\* The timeout strikes before the work starts (a slow policy look-up).
FailEarly(d, s) ==
  /\ task[d][s] = "trying" /\ HasAttempt(d, s)
  /\ EndAttempt(d, s, [run[d].steps[s] EXCEPT !.attempts = @ + 1])
  /\ UNCHANGED <<store, pc, grant, uses, calls, aborts, input>>

CallFails(d, s) ==
  /\ task[d][s] = "calling"
  /\ EndAttempt(d, s, run[d].steps[s])
  /\ UNCHANGED <<store, pc, grant, uses, calls, aborts, input>>

CallSucceeds(d, s, out) ==
  /\ task[d][s] = "calling"
  /\ SetStep(d, s, [run[d].steps[s] EXCEPT !.status = "completed",
                                           !.output = out])
  /\ MoveTask(d, s, "returned")
  /\ UNCHANGED <<store, pc, grant, uses, calls, aborts, input>>

-----------------------------------------------------------------------------
(* The operator issues an approval (api/phase6.py). *)

Issue(a) ==
  /\ grant[a] = "unissued"
  /\ grant' = [grant EXCEPT ![a] = "live"]
  /\ UNCHANGED <<store, run, pc, task, uses, calls, aborts, input>>

\* Every engine call has returned: the system may rest.
Rest == (\A d \in Drivers : pc[d] = "done") /\ UNCHANGED vars

\* The approvals a client can present: for gated steps, ids it was given.
Presentable ==
  {given \in [Steps -> Approvals \cup {NoApproval}] :
     \A s \in Steps : given[s] # NoApproval =>
        s \in Gated /\ grant[given[s]] # "unissued"}

DriverStep(d) ==
  Start(d) \/ ResumeSave(d) \/ Finish(d) \/ Launch(d) \/ SkipOnly(d)
  \/ Stop(d) \/ Join(d)

\* A value no condition tests needs no second outcome.
Results(s) == IF \E t \in Steps : CondKey[t] = s THEN {"match", "other"}
              ELSE {"match"}

CallEnds(d, s) ==
  CallFails(d, s) \/ \E out \in Results(s) : CallSucceeds(d, s, out)

TaskStep(d, s) ==
  \/ Acquire(d, s) \/ NoAttemptLeft(d, s) \/ BeginCall(d, s)
  \/ Refuse(d, s) \/ FailEarly(d, s) \/ CallEnds(d, s)

Next ==
  \/ \E d \in Drivers : DriverStep(d) \/ Abort(d)
  \/ \E d \in Drivers : \E given \in Presentable : ResumeLoad(d, given)
  \/ \E d \in Drivers, s \in Steps : TaskStep(d, s)
  \/ \E a \in Approvals : Issue(a)
  \/ Rest

Spec == Init /\ [][Next]_vars

\* The event loop runs every ready task, and asyncio.timeout ends every call.
Fairness ==
  /\ \A d \in Drivers : WF_vars(DriverStep(d))
  /\ \A d \in Drivers, s \in Steps : WF_vars(TaskStep(d, s))

FairSpec == Spec /\ Fairness

-----------------------------------------------------------------------------
(* Properties *)

\* Every variable holds values of its kind.
TypeOK ==
  /\ store \in WorkflowRun \cup {NoRun}
  /\ run \in [Drivers -> WorkflowRun]
  /\ pc \in [Drivers -> {"idle", "loaded", "drive", "gather", "done"}]
  /\ task \in [Drivers -> [Steps -> {"none", "queued", "trying", "calling",
                                     "returned"}]]
  /\ grant \in [Approvals -> {"unissued", "live", "consumed"}]
  /\ uses \in [Approvals -> Nat]
  /\ calls \in [Steps -> Nat]
  /\ aborts \in Nat
  /\ input \in Contexts

\* The copies of the run: the persisted one and those the drivers work on.
Copies == {run[d] : d \in Drivers} \cup ({store} \ {NoRun})

\* In every copy a step was handed to a task only after each of its
\* dependencies completed or was skipped (engine.py:179), whatever resumes,
\* retries, crashes and stale copies came between.
DependencyOrder ==
  \A r \in Copies : \A s \in Steps :
    Executed(r.steps[s].status) =>
      \A p \in Deps[s] : r.steps[p].status \in Settled

\* The entry s tests was, when s ran, still the client's and the value s asks
\* for; then the step that writes it, for which s does not wait, completed.
RanOnClientsValue(r, s, sent) ==
  /\ CondKey[s] \in Steps \ Deps[s]
  /\ r.steps[CondKey[s]].status = "completed"
  /\ sent[CondKey[s]] = CondEquals[s]

\* In every copy a step that ran has its condition met by the context, although
\* the context starts with what the client sent and is written after the steps
\* of a batch, by this batch or another (engine.py:45, 180, 193).  The one
\* exception is an entry overwritten by a step that s does not depend on.
ConditionHonoured ==
  \A r \in Copies : \A s \in Steps :
    Executed(r.steps[s].status) =>
      ConditionPasses(r, s) \/ RanOnClientsValue(r, s, input)

\* An approval lets at most one tool call through, also when concurrent
\* resumes or two steps of a batch present the same id (approvals.py:37-42).
ApprovalSingleUse ==
  \A a \in Approvals : uses[a] <= 1 /\ (uses[a] = 1 => grant[a] = "consumed")

\* No copy counts more attempts of a step than max_retries + 1: the count
\* survives pauses and resumes (engine.py:94).
AttemptBound ==
  \A r \in Copies : \A s \in Steps : r.steps[s].attempts <= MaxRetries[s] + 1

\* What the persisted status of the run says of its steps: a completed run
\* lost none, a paused run waits and has no step it could run, and a failed
\* run has a failed step or one stranded in running (engine.py:150-206).
StatusHonest ==
  store # NoRun =>
    /\ store.status = "completed" =>
         \A s \in Steps : store.steps[s].status \in Settled
    /\ store.status = "paused" =>
         /\ Waiting(store) # {}
         /\ \A s \in Pending(store) : \E p \in Deps[s] :
              store.steps[p].status \notin Terminal
    /\ store.status = "failed" =>
         \E s \in Steps : store.steps[s].status \in {"failed", "running"}

\* With one engine call at a time, work whose end is persisted is never
\* started again (engine.py:163-166), whichever call is resumed or dies.
CompletedNotRepeated ==
  [][\A s \in Steps : calls'[s] # calls[s] =>
       store.steps[s].status \notin Terminal]_calls

\* Every engine call returns: neither the semaphore nor gather nor the loop
\* of _drive can hold it for ever.
CallsReturn == \A d \in Drivers : (pc[d] # "idle") ~> (pc[d] = "done")

=============================================================================
