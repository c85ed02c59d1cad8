---------------------------- MODULE ConsolePages ----------------------------
(***************************************************************************)
(* The console's working pages (frontend/src/pages): forms that submit a    *)
(* request, lookups of what was created, the list of what this session has  *)
(* created (lib/session-history.ts) and the notifications (Toast.tsx).      *)
(* The pages differ in their forms, which the table below describes; what   *)
(* is typed into a form is a blank, a text the page refuses, or one it      *)
(* sends.  A page forgets everything when it is left, its requests go on.   *)
(***************************************************************************)
EXTENDS Naturals, Sequences, SequencesExt, FiniteSets

CONSTANTS
  Screens,      \* the pages and panels that are opened
  Memories,     \* the memories a search finds, as numbers
  Earlier,      \* the kinds of what this session had created before it was loaded
  EarlierLists, \* what sessionStorage kept of it: EarlierLists[k], newest first
  MaxEntries,   \* entries kept of each kind, 25 in the code
  MaxRequests,  \* bound: requests sent
  MaxVisits,    \* bound: pages opened
  MaxFailures   \* bound: requests lost or refused

-----------------------------------------------------------------------------
(* The forms.  A page does nothing with a form left blank, because its      *)
(* button is disabled or its handler refuses it with a message.  What an    *)
(* answer does: "toast" notifies, "panel" shows the answer on the page,     *)
(* "record" lists what was created, "inspect" looks it up, "clear" empties  *)
(* the form, "close" closes the dialog, "refetch" reads the run again.      *)

Form(screen, blank, kind, success, failure) ==
  [screen |-> screen, blank |-> blank, kind |-> kind,
   success |-> success, failure |-> failure]

CreateTask ==
  Form("tasks", "refused", "task", {"record", "inspect", "toast", "clear"}, {"toast"})

\* The grant is put into the form below, whatever tool is selected by then.
IssueApproval ==
  Form("tools", "refused", "none", {"toast"}, {"toast"})

ExecuteTool ==
  Form("tools", "disabled", "none", {"panel"}, {"panel"})

GrantApproval ==
  Form("approvals", "refused", "approval", {"record", "toast"}, {"toast"})

RunWorkflow ==
  Form("workflows", "refused", "workflow-run", {"record", "toast"}, {"toast"})

\* Mutant of ResumeRun: a resume that fails is not reported.
MutSilentResume ==
  Form("runs", "refused", "none", {"toast", "refetch"}, {})

\* The approvals typed for a run stay in the form when another is looked up.
ResumeRun ==
  Form("runs", "refused", "none", {"toast", "refetch"}, {"toast"})

ExecuteRuntime ==
  Form("runtime", "disabled", "runtime-execution",
       {"record", "inspect", "toast"}, {"toast", "panel"})

Orchestrate ==
  Form("orchestrate", "refused", "none", {"panel"}, {"panel"})

AutonomousRun ==
  Form("autonomous", "refused", "none", {"panel"}, {"panel"})

DeleteMemory ==
  Form("memorySearch", "disabled", "none", {"toast", "close"}, {"toast"})

WriteMemory ==
  Form("memoryWrite", "refused", "none", {"toast", "clear"}, {"toast"})

\* A page may hold two forms, side by side as on the tools page.
Forms ==
  [createTask |-> CreateTask, issueApproval |-> IssueApproval,
   executeTool |-> ExecuteTool, grantApproval |-> GrantApproval,
   runWorkflow |-> RunWorkflow, resumeRun |-> ResumeRun,
   executeRuntime |-> ExecuteRuntime, orchestrate |-> Orchestrate,
   autonomousRun |-> AutonomousRun, deleteMemory |-> DeleteMemory,
   writeMemory |-> WriteMemory]

\* The panels of the memory page are tabs: the one that is not shown is unmounted,
\* so each of them is a screen of its own.
FormNames == {f \in DOMAIN Forms : Forms[f].screen \in Screens}

Kinds == {"task", "approval", "workflow-run", "runtime-execution"}

ASSUME PagesAssumption ==
  /\ Memories \subseteq Nat \ {0}
  /\ {MaxEntries, MaxRequests, MaxVisits, MaxFailures} \subseteq Nat \ {0}
  /\ Earlier \in Seq(Kinds)
  /\ EarlierLists \in [Kinds -> Seq(DOMAIN Earlier)]
  /\ \A k \in Kinds :
       LET list == EarlierLists[k]
       IN /\ Len(list) <= MaxEntries
          /\ \A i, j \in DOMAIN list :
               Earlier[list[i]] = k /\ (i # j => list[i] # list[j])

\* The pages with a lookup, and what they look up.
Inspects == [tasks |-> "task", runs |-> "workflow-run", runtime |-> "runtime-execution"]

Ids == 1..(Len(Earlier) + MaxRequests)

\* What may be typed: a key makes an execution idempotent.
Contents(f) ==
  {"blank", "ready"} \cup (IF f = "executeRuntime" THEN {"keyed"} ELSE {})

-----------------------------------------------------------------------------
VARIABLES
  opened,    \* the page that is open, with the number of its visit
  fields,    \* what is typed into each form of it
  outcome,   \* the state of each form's request, as the page sees it
  dialog,    \* the memory whose deletion is to be confirmed, 0 if none
  active,    \* the id that is looked up, 0 if none
  cache,     \* what is kept of the lookups, by key
  requests,  \* the requests under way, of this visit and of earlier ones
  created,   \* backend: the kinds of what was created, by id
  resumed,   \* backend: the runs that were resumed
  keyed,     \* backend: the execution made with the key, 0 if none
  history,   \* session-history.ts: the lists, in memory and in sessionStorage
  notified,  \* history: the forms a notification has reported on in this visit
  answers,   \* history: the ids answered to their page, by kind, oldest first
  owed,      \* history: the runs whose resume was answered while shown
  sent, failures

pagesVars == <<opened, fields, outcome, dialog, active, cache, requests, created,
          resumed, keyed, history, notified, answers, owed, sent, failures>>

page == <<fields, outcome, dialog, active>>
backend == <<created, resumed, keyed>>
lists == <<history, answers>>

Datum(id, state) == [id |-> id, state |-> state]
NoDatum == Datum(0, "none")
NoEntry == [data |-> NoDatum, error |-> FALSE, fetch |-> NoDatum]
NoLists == [k \in Kinds |-> <<>>]

\* The lists are loaded as earlier answers left them, if the browser stores any.
PagesInit ==
  /\ opened = [name |-> "home", visit |-> 0]
  /\ fields = [f \in FormNames |-> "blank"]
  /\ outcome = [f \in FormNames |-> "idle"]
  /\ dialog = 0 /\ active = 0
  /\ cache = [id \in Ids |-> NoEntry]
  /\ requests = {}
  /\ created = Earlier /\ resumed = {}
  /\ keyed = 0
  /\ \E works \in BOOLEAN :
       LET loaded == IF works THEN EarlierLists ELSE NoLists
       IN /\ history = [lists |-> loaded, stored |-> loaded, works |-> works]
          /\ answers = [k \in Kinds |-> Reverse(loaded[k])]
  /\ notified = {}
  /\ owed = {}
  /\ sent = 0 /\ failures = 0

-----------------------------------------------------------------------------
(* What this session created *)

\* Mutant of RecordHistory: an id that is listed is listed again.
MutListAgain(list, id) ==
  LET all == <<id>> \o list
  IN SubSeq(all, 1, IF Len(all) < MaxEntries THEN Len(all) ELSE MaxEntries)

\* recordHistory: an id is listed once at most, so filter drops one entry.
RecordHistory(list, id) ==
  LET all == <<id>> \o RemoveFirst(list, id)
  IN SubSeq(all, 1, IF Len(all) < MaxEntries THEN Len(all) ELSE MaxEntries)

\* persist: a browser that refuses to store is ignored.
Persist(new) ==
  history' = [history EXCEPT !.lists = new, !.stored = IF history.works THEN new ELSE @]

Record(kind, id) ==
  /\ Persist([history.lists EXCEPT ![kind] = RecordHistory(@, id)])
  /\ answers' = [answers EXCEPT ![kind] = Append(@, id)]

-----------------------------------------------------------------------------
(* Lookups.  The query cache is external: an entry per key, with at most    *)
(* one fetch.                                                               *)

\* Mutant of QueryKey: the key leaves out the id.
MutOneKey(id) == 1

QueryKey(id) == id

Current(id, done) == Datum(id, IF id \in done THEN "after" ELSE "before")

\* A fetch of an entry without data shows it as loading.  It carries the record
\* as it was when the fetch began: the backend may read it then or later.
Fetching(entry, id, done) ==
  [data |-> entry.data, error |-> entry.error /\ entry.data # NoDatum,
   fetch |-> Current(id, done)]

\* useTask, useWorkflowRun, useRuntimeExecution: looking an id up fetches it,
\* unless its data is recent or a fetch is under way.
LookUp(id) ==
  LET entry == cache[QueryKey(id)]
  IN \E recent \in BOOLEAN :
       /\ recent => entry.data # NoDatum /\ ~entry.error
       /\ cache' = IF recent \/ entry.fetch # NoDatum THEN cache
                   ELSE [cache EXCEPT ![QueryKey(id)] = Fetching(entry, id, resumed)]

\* An id is typed, or chosen from what this session has created.
Typable == {id \in DOMAIN created : created[id] = Inspects[opened.name]}
Listed == ToSet(history.lists[Inspects[opened.name]])

Inspect(id) ==
  /\ opened.name \in DOMAIN Inspects
  /\ id \in Typable \cup Listed
  /\ active' = id /\ active # id
  /\ LookUp(id)
  /\ UNCHANGED <<opened, fields, outcome, dialog, requests, backend, lists, notified,
                 owed, sent, failures>>

\* What the page shows of the id.
Shown ==
  LET entry == cache[QueryKey(active)]
  IN IF active = 0 THEN "hint"
     ELSE IF entry.error THEN "error"
     ELSE IF entry.data = NoDatum THEN "loading" ELSE "data"

\* Retry on the error of a lookup.
RetryLookup ==
  /\ Shown = "error"
  /\ cache' = [cache EXCEPT ![QueryKey(active)] = Fetching(@, active, resumed)]
  /\ UNCHANGED <<opened, page, requests, backend, lists, notified, owed, sent, failures>>

FetchAnswered(id) ==
  LET key == QueryKey(id) IN
  /\ cache[key].fetch.id = id
  /\ \E datum \in {cache[key].fetch, Current(id, resumed)} :
       cache' = [cache EXCEPT ![key] = [data |-> datum, error |-> FALSE, fetch |-> NoDatum]]
  /\ UNCHANGED <<opened, page, requests, backend, lists, notified, owed, sent, failures>>

FetchLost(id) ==
  LET key == QueryKey(id) IN
  /\ cache[key].fetch.id = id /\ failures < MaxFailures
  /\ failures' = failures + 1
  /\ cache' = [cache EXCEPT ![key].fetch = NoDatum, ![key].error = TRUE]
  /\ UNCHANGED <<opened, page, requests, backend, lists, notified, owed, sent>>

-----------------------------------------------------------------------------
(* Pages *)

\* Leaving a page unmounts it, and so does loading it again.
EnterPage(name) ==
  /\ opened.visit < MaxVisits
  /\ opened' = [name |-> name, visit |-> opened.visit + 1]
  /\ fields' = [f \in FormNames |-> "blank"]
  /\ outcome' = [f \in FormNames |-> "idle"]
  /\ dialog' = 0 /\ active' = 0 /\ notified' = {}
  /\ UNCHANGED <<requests, backend, sent, failures>>

Open(name) ==
  /\ name # opened.name
  /\ EnterPage(name)
  /\ UNCHANGED <<cache, lists, owed>>

\* load: what was stored is what is left.
ReloadPages ==
  /\ EnterPage(opened.name)
  /\ cache' = [id \in Ids |-> NoEntry]
  /\ history' = [history EXCEPT !.lists = history.stored]
  /\ answers' = IF history.works THEN answers ELSE NoLists
  /\ owed' = {}

\* The run that is shown waits for approvals.
Waiting == Shown = "data" /\ cache[QueryKey(active)].data.state = "before"

On(f) == Forms[f].screen = opened.name

Type(f, content) ==
  /\ On(f) /\ f # "deleteMemory"
  /\ content # fields[f]
  /\ f = "resumeRun" => Waiting
  /\ fields' = [fields EXCEPT ![f] = content]
  /\ UNCHANGED <<opened, outcome, dialog, active, cache, requests, backend, lists,
                 notified, owed, sent, failures>>

AskDelete(memory) ==
  /\ opened.name = "memorySearch" /\ dialog = 0
  /\ dialog' = memory
  /\ UNCHANGED <<opened, fields, outcome, active, cache, requests, backend, lists,
                 notified, owed, sent, failures>>

\* The dialog is closed, also while the deletion is under way.
CancelDelete ==
  /\ dialog # 0
  /\ dialog' = 0
  /\ UNCHANGED <<opened, fields, outcome, active, cache, requests, backend, lists,
                 notified, owed, sent, failures>>

-----------------------------------------------------------------------------
(* Submitting *)

Send(f, target) ==
  /\ sent < MaxRequests
  /\ sent' = sent + 1
  /\ outcome' = [outcome EXCEPT ![f] = "pending"]
  /\ notified' = notified \ {f}
  /\ requests' = requests \cup {[form |-> f, visit |-> opened.visit, target |-> target,
                                 content |-> fields[f]]}
  /\ UNCHANGED <<opened, fields, dialog, active, cache, backend, lists, owed, failures>>

\* submitResume: the run that is shown is resumed with all that is typed.
SubmitResume ==
  Waiting /\ fields["resumeRun"] = "ready"
  /\ Send("resumeRun", cache[QueryKey(active)].data.id)

ConfirmDelete == dialog # 0 /\ Send("deleteMemory", dialog)

\* The button of a form is disabled while a request of the form is under way.
Submit(f) ==
  /\ On(f) /\ outcome[f] # "pending"
  /\ \/ f = "resumeRun" /\ SubmitResume
     \/ f = "deleteMemory" /\ ConfirmDelete
     \/ f \notin {"resumeRun", "deleteMemory"} /\ fields[f] # "blank" /\ Send(f, 0)

\* What the page shows below a form.
Panel(f) ==
  IF outcome[f] = "pending" THEN "working"
  ELSE IF outcome[f] = "failed" /\ "panel" \in Forms[f].failure THEN "error"
  ELSE IF outcome[f] = "done" /\ "panel" \in Forms[f].success THEN "result"
  ELSE "empty"

\* Retry on the panel of an error calls the handler with what is typed by now;
\* it does not ask whether the button is disabled.
Retry(f) ==
  /\ On(f) /\ Panel(f) = "error"
  /\ fields[f] = "blank" /\ Forms[f].blank = "disabled"
  /\ Send(f, 0)

-----------------------------------------------------------------------------
(* The backend (external) *)

\* A blank form is sent by Retry only, and refused.
Empty(r) == r.content = "blank" /\ r.form # "deleteMemory"

\* The id a request that creates is answered with: a key used again gives the
\* execution it made.
IdOf(r) ==
  IF Forms[r.form].kind = "none" THEN r.target
  ELSE IF r.content = "keyed" /\ keyed # 0 THEN keyed ELSE Len(created) + 1

Perform(r) ==
  /\ created' = IF Forms[r.form].kind # "none" /\ IdOf(r) = Len(created) + 1
                THEN Append(created, Forms[r.form].kind) ELSE created
  /\ keyed' = IF r.content = "keyed" THEN IdOf(r) ELSE keyed
  /\ resumed' = IF r.form = "resumeRun" THEN resumed \cup {r.target} ELSE resumed

-----------------------------------------------------------------------------
(* Answers.  The page's callbacks run only if it is still the visit that     *)
(* sent the request.                                                         *)

\* push: the notification itself goes after some seconds, see ConsoleShell.
Notify(effects, f) ==
  notified' = IF "toast" \in effects THEN notified \cup {f} ELSE notified

\* Success of a resume reads again the run that is shown, whichever it is.
Reread(r) ==
  LET key == QueryKey(active) IN
  IF active = 0 THEN UNCHANGED <<cache, owed>>
  ELSE /\ cache' = IF cache[key].fetch # NoDatum /\ cache[key].data = NoDatum THEN cache
                   ELSE [cache EXCEPT ![key] = Fetching(@, active, resumed \cup {r.target})]
       /\ owed' = IF active = r.target /\ Shown = "data" THEN owed \cup {active} ELSE owed

Succeed(r) ==
  LET effects == Forms[r.form].success IN
  /\ outcome' = [outcome EXCEPT ![r.form] = "done"]
  /\ Notify(effects, r.form)
  /\ fields' = IF "clear" \in effects THEN [fields EXCEPT ![r.form] = "blank"] ELSE fields
  /\ dialog' = IF "close" \in effects THEN 0 ELSE dialog
  /\ IF "record" \in effects THEN Record(Forms[r.form].kind, IdOf(r)) ELSE UNCHANGED lists
  /\ active' = IF "inspect" \in effects THEN IdOf(r) ELSE active
  /\ IF "refetch" \in effects THEN Reread(r)
     ELSE /\ IF active' = active THEN UNCHANGED cache ELSE LookUp(active')
          /\ UNCHANGED owed

Fail(r) ==
  /\ outcome' = [outcome EXCEPT ![r.form] = "failed"]
  /\ Notify(Forms[r.form].failure, r.form)
  /\ UNCHANGED <<fields, dialog, active, cache, lists, owed>>

OfThisVisit(r) == r.visit = opened.visit

Answered(r) ==
  /\ ~Empty(r)
  /\ Perform(r)
  /\ requests' = requests \ {r}
  /\ IF OfThisVisit(r) THEN Succeed(r) ELSE UNCHANGED <<page, cache, lists, notified, owed>>
  /\ UNCHANGED <<opened, sent, failures>>

\* The request is refused or lost, or its answer is.
Lost(r) ==
  /\ IF Empty(r) THEN UNCHANGED <<backend, failures>>
     ELSE /\ failures < MaxFailures /\ failures' = failures + 1
          /\ Perform(r) \/ UNCHANGED backend
  /\ requests' = requests \ {r}
  /\ IF OfThisVisit(r) THEN Fail(r) ELSE UNCHANGED <<page, cache, lists, notified, owed>>
  /\ UNCHANGED <<opened, sent>>

-----------------------------------------------------------------------------
PagesNext ==
  \/ \E s \in Screens : Open(s)
  \/ ReloadPages
  \/ \E f \in FormNames : Submit(f) \/ Retry(f) \/ \E c \in Contents(f) : Type(f, c)
  \/ CancelDelete \/ \E m \in Memories : AskDelete(m)
  \/ \E id \in Ids : Inspect(id) \/ FetchAnswered(id) \/ FetchLost(id)
  \/ RetryLookup
  \/ \E r \in requests : Answered(r) \/ Lost(r)

\* A request is answered or given up, and its answer is handled.
Ends(f) == \E r \in requests :
  r.form = f /\ OfThisVisit(r) /\ (Answered(r) \/ Lost(r))

PagesFairness ==
  \A f \in FormNames : WF_pagesVars(Ends(f))

PagesSpec == PagesInit /\ [][PagesNext]_pagesVars /\ PagesFairness

-----------------------------------------------------------------------------
(* Properties *)

\* a was answered once more after the last answer of b.
Later(ids, a, b) ==
  \E i \in DOMAIN ids : ids[i] = a /\ \A j \in DOMAIN ids : ids[j] = b => j < i

\* What a list should be: ids answered, the latest answer first, each once, and
\* as many as are kept.
Latest(list, ids) ==
  /\ ToSet(list) \subseteq ToSet(ids) /\ Len(list) <= MaxEntries
  /\ \A i, j \in DOMAIN list : i < j => Later(ids, list[i], list[j])
  /\ \A id \in ToSet(ids) \ ToSet(list) :
       Len(list) = MaxEntries /\ \A e \in ToSet(list) : Later(ids, e, id)

\* session-history.ts:1-5 and 42-48: the lists hold the ids the backend
\* answered to the page that asked, newest first, each once and no other,
\* through pages left, keys used again and reloads.
HistoryIsLatest ==
  \A k \in Kinds :
    /\ Latest(history.lists[k], answers[k])
    /\ \A id \in ToSet(history.lists[k]) : created[id] = k

\* queries.ts, the keys of the lookups, and WorkflowRuns.tsx:108-114: whatever
\* answers come late, a page shows the record it was asked for, and a run that
\* was on screen when its resume was answered is not shown as it was before.
ShownIsAsked ==
  Shown = "data" =>
    LET entry == cache[QueryKey(active)]
    IN /\ entry.data.id = active
       /\ active \in owed /\ entry.fetch = NoDatum => entry.data.state = "after"

Reported(f) == f \in notified \/ Panel(f) \in {"error", "result"}

\* The handlers of the pages: what is submitted is reported, done or failed,
\* unless the operator leaves the page first, which makes its forms idle.
SubmittedIsReported ==
  \A f \in FormNames : outcome[f] = "pending" ~> outcome[f] = "idle" \/ Reported(f)

=============================================================================
