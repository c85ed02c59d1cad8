---------------------------- MODULE WorkflowEditor ----------------------------
(***************************************************************************)
(* The step graph editor of the console (pages/Workflows.tsx): nodes and    *)
(* edges on the canvas, the step dialog, and the run of what is drawn.  The *)
(* canvas keeps nodes and edges in two lists that are changed separately.   *)
(***************************************************************************)
EXTENDS GraphValidation

CONSTANTS
  StepIds,      \* ids a user may type
  FirstStep,    \* the step a new editor has
  StepNumbers,  \* max retries and timeouts a user may type, bounded or not
  NameLengths,  \* lengths of the names a user may type
  RunStatuses,  \* statuses a run may answer with
  NoStep,
  MaxSteps,     \* bound: steps on the canvas
  MaxEdges,     \* bound: edges on the canvas
  MaxUnfit      \* bound: steps on the canvas whose numbers the API refuses

\* The numbers of a new step.
NewNumbers == [max_retries |-> 0, timeout_seconds |-> 30]

\* What the text of the run context is: a JSON object, other JSON, or neither.
ContextKinds == {"object", "json", "text"}

ASSUME EditorAssumption ==
  /\ FirstStep \in StepIds /\ NoStep \notin StepIds
  /\ IsFiniteSet(StepIds)
  /\ StepNumbers \subseteq [max_retries : Int, timeout_seconds : Int]
  /\ NewNumbers \in StepNumbers /\ NameLengths \subseteq Nat
  /\ RunStatuses \subseteq {"pending", "running", "completed", "failed", "skipped",
                             "waiting_approval"}
  /\ MaxSteps \in Nat \ {0} /\ MaxEdges \in Nat /\ MaxUnfit \in Nat

VARIABLES
  nodes,        \* sequence of steps on the canvas
  edges,        \* pairs <<source, target>>
  dialog,       \* the step dialog: closed, or open on a step or a new one
  errors,       \* validation errors are on show
  call,         \* the run request under way: the ids of its steps, and if the
                \* API accepts it; or NoCall
  walk          \* the validator's walk under way, or NoWalk

editorVars == <<nodes, edges, dialog, errors, call, walk>>

\* StepNodeData: what a node keeps of its step, and how the step ended in the
\* last run that was answered.
StepNodeData == [id : StepIds, numbers : StepNumbers,
                 runStatus : RunStatuses \cup {"none"}]

\* stepToNode
StepToNode(id, numbers) ==
  [id |-> id, numbers |-> numbers, runStatus |-> "none"]

Closed == [open |-> FALSE, initial |-> NoStep]

NoWalk == [Unvisited EXCEPT !.next = 0]

NoCall == [ids |-> {}, accepted |-> FALSE]

EditorInit ==
  /\ nodes = <<StepToNode(FirstStep, NewNumbers)>>
  /\ edges = {}
  /\ dialog = Closed
  /\ errors = FALSE
  /\ call = NoCall
  /\ walk = NoWalk

ExistingIds == IdsOf(nodes)

\* stepsFromGraph: the definition that the canvas stands for.  An edge whose
\* target is gone is not seen, one whose source is gone is.
StepsFromGraph ==
  [i \in DOMAIN nodes |->
     [id |-> nodes[i].id, numbers |-> nodes[i].numbers,
      depends_on |-> {e[1] : e \in {x \in edges : x[2] = nodes[i].id}}]]

Kept(ids) == {i \in DOMAIN nodes : nodes[i].id \notin ids}

\* filter: the nodes that are left keep their order.
Without(ids) ==
  \E at \in [1..Cardinality(Kept(ids)) -> Kept(ids)] :
    /\ \A i, j \in DOMAIN at : i < j => at[i] < at[j]
    /\ nodes' = [i \in DOMAIN at |-> nodes[at[i]]]

Incident(ids) == {e \in edges : e[1] \in ids \/ e[2] \in ids}

-----------------------------------------------------------------------------
(* The canvas.  The step dialog covers it for the pointer only: it does not *)
(* hold the focus, so every button behind it can be reached with Tab.       *)

\* onConnect: a handle is dragged from one node on the canvas to another one.
Connect(source, target) ==
  /\ ~dialog.open
  /\ source # target
  /\ edges' = edges \cup {<<source, target>>}
  /\ UNCHANGED <<nodes, dialog, errors, call, walk>>

\* deleteStep, from the toolbar of a node: its edges go with it.
DeleteStep(id) ==
  /\ Without({id})
  /\ edges' = edges \ Incident({id})
  /\ UNCHANGED <<dialog, errors, call, walk>>

\* removeSelected: each list loses what is selected in it, so an edge that is
\* not selected stays without its end.
RemoveSelected(ids, picked) ==
  /\ Without(ids)
  /\ edges' = edges \ picked
  /\ UNCHANGED <<dialog, errors, call, walk>>

\* Backspace or Delete, which the canvas hears behind an open dialog as well:
\* its own deletion takes the edges of a node along.
DeleteKey(ids, picked) ==
  /\ Without(ids)
  /\ edges' = edges \ (picked \cup Incident(ids))
  /\ UNCHANGED <<dialog, errors, call, walk>>

-----------------------------------------------------------------------------
(* The step dialog *)

\* addStep, and onNodeClick or the toolbar's Edit: editStep looks the step up.
\* A dialog that is open turns to that step, and its form is filled again.
OpenStepDialog(initial) ==
  /\ dialog' = [open |-> TRUE, initial |-> initial]
  /\ UNCHANGED <<nodes, edges, errors, call, walk>>

\* Cancel, Escape or the backdrop.
CloseStepDialog ==
  /\ dialog.open
  /\ dialog' = Closed
  /\ UNCHANGED <<nodes, edges, errors, call, walk>>

\* save in the dialog: a new step needs an id that is not taken.
Refused(id) == dialog.initial = NoStep /\ id \in ExistingIds

\* The form: a step that is edited keeps its id, a new one takes any.
Typable(id) == dialog.initial # NoStep => id = dialog.initial

\* onSaveStep: an edit changes the node with that id if it is still there.
Saved(id, numbers) ==
  IF dialog.initial = NoStep
  THEN Append(nodes, StepToNode(id, numbers))
  ELSE [i \in DOMAIN nodes |->
          IF nodes[i].id = id
          THEN [nodes[i] EXCEPT !.numbers = numbers] ELSE nodes[i]]

\* save: the input typed in the dialog is not kept, and no number is clamped.
SaveStep(id, numbers) ==
  /\ dialog.open /\ Typable(id) /\ ~Refused(id)
  /\ nodes' = Saved(id, numbers)
  /\ dialog' = Closed
  /\ UNCHANGED <<edges, errors, call, walk>>

-----------------------------------------------------------------------------
(* Running what is drawn *)

\* run, from its button or from Retry, asks the validator first.  It is not
\* interrupted before the request is sent: nothing else happens during the walk.
Run ==
  /\ call = NoCall
  /\ walk' = Unvisited
  /\ UNCHANGED <<nodes, edges, dialog, errors, call>>

Visit ==
  /\ walk' \in Onward(StepsFromGraph, walk)
  /\ UNCHANGED <<nodes, edges, dialog, errors, call>>

\* The rest of run: what is wrong is shown and not sent.  The context may turn
\* out not to be JSON after the graph was found right; the name and the numbers
\* are sent as they were typed.
Decide(nameLength, context) ==
  /\ Walked(StepsFromGraph, walk)
  /\ LET found == GraphErrors(StepsFromGraph, walk)
     IN IF found # {} \/ context = "text"
        THEN /\ errors' = TRUE
             /\ UNCHANGED call
        ELSE /\ errors' = FALSE
             /\ call' = [ids |-> ExistingIds,
                         accepted |-> Accepts(StepsFromGraph, walk, nameLength, context)]
  /\ walk' = NoWalk
  /\ UNCHANGED <<nodes, edges, dialog>>

\* The run is answered: every node on the canvas by now takes the status of
\* the step with its id, or none.
RunAnswered(status) ==
  /\ call # NoCall /\ call.accepted
  /\ nodes' = [i \in DOMAIN nodes |->
       [nodes[i] EXCEPT !.runStatus =
          IF nodes[i].id \in call.ids THEN status[nodes[i].id] ELSE "none"]]
  /\ call' = NoCall
  /\ UNCHANGED <<edges, dialog, errors, walk>>

\* The run is refused or lost: an error is shown, the canvas stays as it is.
RunFailed ==
  /\ call # NoCall
  /\ call' = NoCall
  /\ UNCHANGED <<nodes, edges, dialog, errors, walk>>

-----------------------------------------------------------------------------
\* Bound: at most two things are selected at once.
Selections ==
  {sel \in (SUBSET ExistingIds) \X (SUBSET edges) :
     Cardinality(sel[1]) + Cardinality(sel[2]) <= 2}

\* What the user may do and the server answer between two handlers.
Canvas ==
  \/ \E s, t \in ExistingIds : Cardinality(edges) < MaxEdges /\ Connect(s, t)
  \/ \E id \in ExistingIds : DeleteStep(id)
  \/ \E sel \in Selections : RemoveSelected(sel[1], sel[2])
  \/ \E sel \in Selections : DeleteKey(sel[1], sel[2])
  \/ \E initial \in ExistingIds \cup {NoStep} : OpenStepDialog(initial)
  \/ CloseStepDialog
  \/ \E id \in StepIds, numbers \in StepNumbers :
       /\ dialog.initial = NoStep => Len(nodes) < MaxSteps
       /\ SaveStep(id, numbers)
       /\ Cardinality({i \in DOMAIN nodes' : ~StepFieldsFit(nodes'[i])}) <= MaxUnfit
  \/ Run
  \/ \E status \in [StepIds -> RunStatuses] : RunAnswered(status)
  \/ RunFailed

EditorNext ==
  \/ walk = NoWalk /\ Canvas
  \/ walk # NoWalk /\ Visit
  \/ /\ walk # NoWalk
     /\ \E nameLength \in NameLengths, context \in ContextKinds :
          Decide(nameLength, context)

EditorSpec == EditorInit /\ [][EditorNext]_editorVars

-----------------------------------------------------------------------------
(* Properties *)

\* workflow-validate.ts:3: whenever the console sends a definition, its graph is
\* one the API and the engine take, although the canvas may hold edges whose ends
\* were removed; the API refuses only a field that is out of its bounds
\* (models.py:41-42, 47), which the console leaves to it.
SentGraphIsAccepted ==
  [][\A nameLength \in NameLengths, context \in ContextKinds :
       walk # NoWalk /\ Decide(nameLength, context) /\ call' # call =>
         /\ Orderable(StepsFromGraph)
         /\ call'.accepted <=> FieldsFit(StepsFromGraph, nameLength, context)]_editorVars

\* workflow-validate.ts:3-4, "mirrors the validation": on every graph that can
\* be drawn, once it is walked in whatever order, the two validators agree with
\* each other and with the reference, and no two steps on the canvas share an id.
ValidatorMirrors ==
  LET steps == StepsFromGraph
      known == \A i \in DOMAIN steps : steps[i].depends_on \subseteq IdsOf(steps)
      valid == ValidGraph(steps, walk)
  IN /\ Unique(steps)
     /\ walk # NoWalk /\ Walked(steps, walk) =>
          /\ (GraphErrors(steps, walk) = {}) = valid
          /\ valid = (steps # <<>> /\ known /\ Orderable(steps))

=============================================================================
