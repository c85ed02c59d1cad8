---------------------------- MODULE GraphValidation ---------------------------
(***************************************************************************)
(* The two validators of a workflow's step graph: the one the console runs  *)
(* before it sends a definition (lib/workflow-validate.ts) and the one the  *)
(* API runs on what it receives (WorkflowDefinition.validate_graph), which  *)
(* bounds the fields as well.  Steps are a sequence of records with an id,  *)
(* a set depends_on and the numbers typed for the step.                     *)
(***************************************************************************)
EXTENDS Naturals, Sequences, FiniteSets, SequencesExt

IdsOf(steps) == {steps[i].id : i \in DOMAIN steps}

Unique(steps) == Len(steps) = Cardinality(IdsOf(steps))

\* new Map(steps.map(...)): of two steps with one id the later one counts.
DepsOf(steps) ==
  [n \in IdsOf(steps) |->
     steps[CHOOSE i \in DOMAIN steps :
             /\ steps[i].id = n
             /\ \A j \in DOMAIN steps : steps[j].id = n => j <= i].depends_on]

-----------------------------------------------------------------------------
(* The walk that both use to look for a cycle.  visit calls itself: a frame *)
(* is a call under way with the dependencies it has yet to visit, in        *)
(* whatever order, and the frames' nodes are those in visiting.  next is    *)
(* the step at which the loop over all ids has come.                        *)

Unvisited == [next |-> 1, frames |-> <<>>, visited |-> {}, cycle |-> FALSE]

Visiting(walk) == {walk.frames[i].node : i \in DOMAIN walk.frames}

\* An id nobody defines has no dependencies.
DependsOf(steps, node) == IF node \in IdsOf(steps) THEN DepsOf(steps)[node] ELSE {}

\* Mutant of Reenter: a step under way counts as done.
MutNeverCycle(walk) == walk

\* Coming to a step that is under way closes a cycle.
Reenter(walk) == [walk EXCEPT !.cycle = TRUE]

\* visit is called for a node.
Enter(steps, node, walk) ==
  IF node \in Visiting(walk) THEN Reenter(walk)
  ELSE IF node \in walk.visited THEN walk
  ELSE [walk EXCEPT !.frames =
          Append(@, [node |-> node, left |-> DependsOf(steps, node)])]

\* The loop over all ids goes on, with no call under way.
VisitNext(steps, walk) ==
  Enter(steps, steps[walk.next].id, [walk EXCEPT !.next = @ + 1])

\* The innermost call goes on to one of its dependencies.
VisitDependency(steps, dep, walk) ==
  Enter(steps, dep, [walk EXCEPT !.frames[Len(walk.frames)].left = @ \ {dep}])

\* The innermost call returns.
Leave(walk) ==
  [walk EXCEPT !.frames = SubSeq(@, 1, Len(@) - 1),
               !.visited = @ \cup {walk.frames[Len(walk.frames)].node}]

\* How the walk may go on.
Onward(steps, walk) ==
  IF walk.frames = <<>>
  THEN {VisitNext(steps, walk) : i \in {walk.next} \cap DOMAIN steps}
  ELSE LET left == walk.frames[Len(walk.frames)].left
       IN {VisitDependency(steps, dep, walk) : dep \in left}
          \cup (IF left = {} THEN {Leave(walk)} ELSE {})

Walked(steps, walk) == walk.frames = <<>> /\ walk.next \notin DOMAIN steps

-----------------------------------------------------------------------------
(* The console *)

\* Mutant of Unknown: what an edge names exists.
MutNoUnknown(steps, step) == {}

Unknown(steps, step) == step.depends_on \ IdsOf(steps)

StepErrors(steps, step) ==
  (IF Unknown(steps, step) = {} THEN {} ELSE {<<"unknown", step.id>>})
  \cup (IF step.id \in step.depends_on THEN {<<"self", step.id>>} ELSE {})

\* validateWorkflowGraph: the kinds of error, with the step where it names one,
\* after its walk.
GraphErrors(steps, walk) ==
  (IF steps = <<>> THEN {<<"empty">>} ELSE {})
  \cup (IF Unique(steps) THEN {} ELSE {<<"duplicate">>})
  \cup (UNION {StepErrors(steps, s) : s \in ToSet(steps)})
  \cup (IF walk.cycle THEN {<<"cycle">>} ELSE {})

-----------------------------------------------------------------------------
(* The API *)

\* The fields of WorkflowStep and WorkflowDefinition, which the API bounds and
\* the console does not; the context of the request has to be an object.
StepFieldsFit(step) ==
  /\ step.numbers.max_retries \in 0..10
  /\ step.numbers.timeout_seconds > 0 /\ step.numbers.timeout_seconds <= 3600

FieldsFit(steps, nameLength, context) ==
  /\ nameLength \in 1..200
  /\ context = "object"
  /\ \A s \in ToSet(steps) : StepFieldsFit(s)

\* The length of steps, then validate_graph, which stops at its first error: it
\* only walks graphs without unknown steps, and no further than to the first
\* cycle.
ValidGraph(steps, walk) ==
  /\ Len(steps) >= 1 /\ Unique(steps)
  /\ \A s \in ToSet(steps) :
       s.depends_on \subseteq IdsOf(steps) /\ s.id \notin s.depends_on
  /\ ~walk.cycle

\* The request is answered with a run, and not with a 422.
Accepts(steps, walk, nameLength, context) ==
  FieldsFit(steps, nameLength, context) /\ ValidGraph(steps, walk)

\* The reference both are meant to decide: every set of steps has one that
\* depends on none of the others, so the steps can be put in an order.
Orderable(steps) ==
  \A S \in (SUBSET IdsOf(steps)) \ {{}} :
    \E n \in S : DepsOf(steps)[n] \cap S = {}

=============================================================================
