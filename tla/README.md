# Verification of Agent OS

TLA+ models of the stateful parts of Agent OS, its backend (`app/`) and its
console (`frontend/src`), the TLC runs that check them on small instances and
the TLAPS proofs that lift the most important results to every value of the
constants.

The backend is a FastAPI application on one event loop per process. Handlers run
alone between two `await`s and interleave at every `await`; several processes
share Postgres and Redis; a request can be cancelled at any `await` and a
process can die. The console is a React application: event handlers and the
callbacks of answers, timers and effects run one after the other, and anything
may happen between two of them, above all an answer to something asked long ago.
All models use one rule for atomicity: **an action is the code between two
awaits** (against a database, one statement; in the console, one event with the
renders and effects it causes). What a handler does to objects nobody else can
see is folded into the next shared step.

Contents: [inventory](#1-inventory) · [modules](#2-modules) ·
[what is modelled how](#3-from-the-code-to-the-models) · [runs](#4-runs) ·
[divergences](#5-divergences-observed) · [fairness](#6-fairness) · [proofs](#7-proofs) ·
[not modelled](#8-what-is-not-modelled) · [plan](#9-plan).

## 1. Inventory

| part | code | state it keeps | operations | what makes it correct |
|---|---|---|---|---|
| Workflow engine | `app/workflows/engine.py`, `handlers.py`, `store.py` | the row of a run; a private copy per engine call; a semaphore for steps | `start`, `resume`, `_drive`, `_execute_step` | dependencies before dependents, conditions honoured, attempts bounded over pauses, persisted work not repeated, an honest run status, every call returns |
| Governed tools | `app/tools/*`, `app/api/phase6.py` | approval grants, audit rows | `ToolExecutor.execute`, `POST /approvals`, `GET /audit` | one consequential call per approval, every answer audited |
| Connector broker | `app/integrations/broker.py` | shares grants and audit log | `ConnectorBroker.execute` | as above, with more ways to be refused |
| Integration runtime | `app/runtime/*`, `app/api/phase10.py` | execution rows; per process: idempotency locks, sliding windows, circuit states | `execute` | keys exclusive and final, window and breaker bounds, answers stored, no leaked lock |
| Job queue, worker | `app/queue/*` | Redis lists; the job in a worker's hand | `enqueue`, `dequeue`, `process_one`, `run_forever` | a job is in one place, retries counted exactly, losses bounded, every job ends |
| Migration, environment | `app/persistence/migrations.py`, `environment.py`, `scripts/migrate.py` | `schema_migrations`, `deployment_environment` | `ensure_environment`, `run_migrations` | one owner, scripts in order, success means up to date |
| Integration hub | `app/api/phase9.py`, `app/integrations/oauth/*`, `mcp/*`, `status_store.py` | OAuth states and connections, check results, MCP servers, all in memory | authorize, callback, disconnect, test, MCP create/test/delete | exchanges authorised by a state of their own, links kept, late results harmless |
| Postgres stores, pool | `app/persistence/postgres_stores.py`, `database.py` | tables; a lazily made pool | one statement per call | unique idempotency keys, single-use grants |
| Workflow API, definitions | `app/api/phase8.py`, `definition_store.py`, `factory.py` | definitions by id | run, resume, get | a run is resumed with the definition it was started with |
| Graph validation | `app/workflows/models.py:50-80`, `frontend/src/lib/workflow-validate.ts` | none | `validate_graph` and its mirror | both accept exactly the graphs whose steps can be ordered |
| Workflow editor | `pages/Workflows.tsx`, `components/workflows/*` | nodes and edges in two lists, the step dialog, errors, the run under way | connect, add, edit, remove, validate, run | only graphs are sent that the API takes |
| Planner, specialists, verifier | `app/services/*`, `app/core/orchestrator.py` | none between requests | `execute_phase5`, `run` | one specialist's failure does not lose the others |
| Memory | `app/memory/*`, `context_injection.py` | records, embeddings | remember, recall, delete, build context | record and vector together, budget kept |
| Tasks | `app/services/task_*` | tasks | create, get | – |
| Configuration, life cycle | `app/core/*`, `app/main.py` | settings, opened resources | lifespan, `/ready`, `close_all` | fail closed, honest readiness, everything closed |
| Provider adapters, URL guard, LLM | `app/integrations/*.py`, `app/llm/*` | none | one HTTP call each | mapping of answers |
| Console client and caches | `lib/api/*`, `lib/environment.ts`, `App.tsx`, `States.tsx`, `ConnectionStatus.tsx`, `Settings.tsx`, `SystemHealth.tsx` | query cache, settings in `sessionStorage`, requests under way | reads with polls and retries, writes that refresh reads, change of backend and key | answered writes are seen, polls catch up, requests go where they may, honest header and errors |
| Console pages | `pages/*.tsx`, `lib/session-history.ts` | forms, lookups, panels, the session's lists | submit, look up, resume, delete, leave | the page shows what it was asked for, lists are the latest answers, everything is reported |
| Connector marketplace | `pages/Integrations.tsx`, `components/integrations/*`, `lib/integration-hub.ts` | filters, drawer, confirmation, dialog, mutations under way | browse, test, execute, authorise, disconnect, remove, add | counts are true, confirmations are about what was pressed, returns are reported once |
| Console shell | `components/layout/*`, `lib/theme.tsx`, `lib/i18n/*`, `Toast.tsx` | palette, menus, theme, language, notifications, `localStorage` | navigate, search, choose, notify | Enter opens what is highlighted, preferences hold across tabs and loads |

How they interact. `phase8` calls the engine, which calls the tool executor,
an agent runner and the adapters; executor and broker call one `ToolPolicy`,
which consumes a grant of the approval store; `phase10` calls the runtime,
which calls adapters and the execution store; `phase9` calls the OAuth
providers and MCP servers and keeps what they said. Processes meet in Postgres
(runs, executions, grants, rows) and Redis (jobs). Nothing is held across
processes except the unique index on idempotency keys and the statement-level
atomicity of Postgres: the idempotency lock, rate limiter, circuit breaker and
OAuth states are private to a process.

In the console every page reads and writes through the hooks of `queries.ts`,
which share one query cache and one client; the settings choose the backend and
the key of every request; pages notify through the toasts of the shell and list
what they created in the session's history. Pages mount and unmount, the cache
and the requests under way outlive them.

The hard behaviours, each at its line in `PROJECT.json` under `hazards`:
copies of a run that overlap (engine), state read before an await and used
after it (hub, runtime), consume-before-act (approvals), crash between two
statements or two saves (engine, runtime, migration), pop-before-handle
(worker), counters that travel with data (attempts of steps and jobs), locks
that guard less than they seem to (migration, runtime), bounds (sliding window,
retries); in the console answers that come late or out of order, a fetch that
left before a write, drawers and forms that outlive what they were opened for,
closures over an earlier render, settings that outlive the page they were typed
on, two lists or two conditions that must agree, and polls, bodies and timers
that must end.

## 2. Modules

| module | models | used by |
|---|---|---|
| `WorkflowEngine` | engine calls driving one persisted run | `CheckpointRefinement` |
| `CheckpointedRun` | abstract: what the run store promises a reader | `CheckpointRefinement` |
| `CheckpointRefinement` | the refinement mapping from the engine's store; extends `WorkflowEngine` | `MCWorkflowEngine`, `WorkflowEngineProofs` |
| `GovernedExecution` | executor and broker over policy, grants and audit log | `LedgerRefinement` |
| `ActionLedger` | abstract: what approvals and audit rows promise | `LedgerRefinement` |
| `LedgerRefinement` | the refinement mapping from grants and rows; extends `GovernedExecution` | `MCGovernedExecution`, `GovernedExecutionProofs` |
| `IntegrationRuntime` | the runtime with limiter, breaker, locks and rows | `KeyedRefinement` |
| `KeyedExecution` | abstract: what keys and the execution store promise | `KeyedRefinement` |
| `KeyedRefinement` | the refinement mapping from the runtime's store; extends `IntegrationRuntime` | `MCIntegrationRuntime`, `IntegrationRuntimeProofs` |
| `JobWorker` | queue, dead letters and workers | `JobRefinement` |
| `JobLife` | abstract: what the queue promises about each job | `JobRefinement` |
| `JobRefinement` | the refinement mapping from lists and hands; extends `JobWorker` | `MCJobWorker`, `JobWorkerProofs` |
| `DatabaseRollout` | stamping and migrating a database | `MCDatabaseRollout`, `DatabaseRolloutProofs` |
| `IntegrationHub` | OAuth flow, checks, MCP servers | `MCIntegrationHub`, `IntegrationHubProofs` |
| `GraphValidation` | the walk and the verdict of both validators, and their reference | `WorkflowEditor` |
| `WorkflowEditor` | canvas, dialog and run of the graph editor | `MCWorkflowEditor`, `ConsoleProofs` |
| `ConsoleCache` | client, hooks, query cache, settings, header | `MCConsoleCache`, `ConsoleProofs` |
| `ConsolePages` | the pages that submit and look up, and the session's lists | `MCConsolePages`, `ConsoleScreenProofs` |
| `ConnectorPage` | the connector marketplace | `MCConnectorPage`, `ConsoleProofs` |
| `ConsoleShell` | palette, menus, preferences, notifications | `MCConsoleShell`, `ConsoleScreenProofs` |

An `MC…` module only names model values and the functions over them that a cfg
cannot write. `…Proofs` modules hold theorems, and the invariants they rest on,
only; the two of the console speak of several modules each, whose names do not
clash (`PageSpec` of `ConnectorPage`, `EditorSpec` of `WorkflowEditor`,
`PagesSpec` of `ConsolePages`). Operators called `Mut…`
are plausible bugs, each with the parameters of the definition that follows
it; substituting one for that definition makes its property fail, which shows
that the property can fail at all. No property uses them.

`map` in `PROJECT.json` gives the source lines of every definition.

## 3. From the code to the models

### WorkflowEngine
A *driver* is one engine call. `run[d]` is the pydantic object the call works
on, `store` the row. `Start`/`ResumeLoad`/`ResumeSave` are the saves and loads
of `start` and `resume`; `Launch`, `SkipOnly`, `Stop`, `Finish` are the four
ways one turn of the loop in `_drive` can go; `Join` is the end of `gather`
with its checkpoint. `task[d][s]` follows `_execute_step`: waiting for the
semaphore, trying, calling, returned. The pass over the pending steps
(`SkipsOf`, `ReadyOf`) visits steps in definition order and sees the skips it
has made itself but not those made later in the pass, hence `Order`.
`NoAttemptLeft` is the empty `range` of line 94. An approval is consumed in the
step that starts the tool's work (`BeginCall`); `Refuse` spends the attempt and
makes the step wait. A step's outcome is nondeterministic. The context of a run
starts as the client's (`input`, any of `InitialContexts`) and has the keys that
steps write, which the client may fill too, and keys that only the client writes
(`ClientKeys`); a value is `none` (`None` or absent), `match` or `other`, as much
as a condition can tell. `Abort` is a crash, a cancellation or a save that raises.

`ConditionHonoured` names one exception: a condition on an entry of a step that
is no dependency may be met by the client's value, after which that step
overwrites it. The chain of `engine_serial` has such a condition, one on a flag of
the client's and one on an entry that is written in time.

Assumed of the environment: a client learns the run id from the answer of the
start call, so resumes come after it. Nothing else keeps calls apart, and
`MaxActive` is the client discipline under study: one call at a time or two.
`GraphAssumption` is what `validate_graph` has refused otherwise: among any steps
one depends on none of the others.

### CheckpointedRun
The statuses in the row, and four kinds of change: creation, checkpoint,
conclusion, reopening. A checkpoint only moves pending steps, to an outcome
whose dependencies are settled or to skipped; a conclusion only adds skips and
is truthful; a reopening only wakes waiting steps.

### GovernedExecution
A *call* is one `execute` of executor or broker for a name with a *standing*
(unknown, without provider, not connected, without operation, ready).
`Authorize` is `ToolPolicy.authorize`, whose consume is one statement (or one
synchronous block in memory); `Invoke`/`HandlerEnds` the handler; `Record` the
audit row and the return. `Keep` trims the log in memory. `durable`, chosen in
`Init` from `Backends`, says that the store is Postgres. `Abort` ends a call at any
await, which includes a raising store; over Postgres the INSERT that was under way
may have been committed all the same (`WriteRow`), a row without an answer.

### ActionLedger
Approvals that were issued, which call used which, which calls acted, and the
entries in the order they were made: no executor, broker, policy or store. `Use`
takes an issued approval that nobody used, for a call that it covers and that has
neither acted nor been entered; `Act` needs an approval in use if the call is
consequential; `Enter` makes the one entry of a call, which must say whether it
acted, and a refusal may only be entered for a call that used none (a capability
without an operation has spent its approval by then, and is no refusal). The
mapping reads `issued` off the grants and `used` off the history of payers; the
ledger is every row ever written. A call that is cut off may have used an approval
or acted without an entry; if its row was committed, that is its entry.

### IntegrationRuntime
One request is one `execute`; a request creates at most one execution, so it
also names its row. `Lookup` waits for the lock of its key in its process
and looks for an execution to replay; `Admit` is the code without await from
limiter to registry; `Save` is `store.save`, refused by the unique index over
Postgres; `CallSucceeds`, `CallFails`, `Retry` are the loop, where a timeout, an
exception and an unsuccessful result are alike. `Cancel` distinguishes the
adapter call (recorded) from every other await (not recorded), with the save
effective or not; `Crash` loses what belongs to the process. `asyncio.Lock` is
first-come-first-served; here any waiter may be next, which allows more.

### KeyedExecution
What is stored under which key, how often the provider was called, and what
was answered: no locks, processes, limits or breakers. `Begin` stores a running
execution and calls, `CallAgain` repeats the call, `End` stores the outcome,
`TurnAway` stores a request that is not called for, `Replay` answers with a
stored success, `Lose` ends requests without an answer and, if executions are
not durable, empties the store. A key is `Available` to a new execution if it
leads to none, or, where executions are not durable, to one that is answered and
did not succeed; the provider is only called for the execution the key leads to.
`NoCallOnceSucceeded` follows: a success is never replaced while it is stored.
The mapping reads `durable` off the backend and `calls` off the attempts; `row`,
`index` and `answer` are the runtime's own.

### JobWorker
`Dequeue` pops and starts the handler, as Redis' BLPOP does; from then on the
job lives in `hand[w]`. `HandlerRaises` counts and chooses between backoff and
dead letter, `Requeue` and `Bury` push. `End` may strike anywhere, which covers
a broker error that escapes `run_forever` and a reply of BLPOP that is lost.

### JobLife
What a producer and a reader of the dead letters rely on, per job and without
workers: it waits, runs, has failed, is dead or handled; the line is served in its
order, a failed job is retried while it has starts left and given up exactly when
it has none, and only a job that runs or has failed can be lost. The mapping
computes the *set* of places where a job is found (`Whereabouts`) from the lists,
the hands and the handled ones; since `JobLife` moves a job from one place to one
place, a job that is found twice, or vanishes from a list, is no step of it.

### DatabaseRollout
`Check`/`Insert`/`Reread` are the statements of `ensure_environment`, `Fetch`
reads the versions, `Apply` executes one script and `Record` inserts its
version, which raises on a duplicate. The advisory lock has no action: it is
taken on a pooled connection and gone when that connection is returned, one
statement later. Scripts are taken to be re-executable, which the repository's
are: `CREATE … IF NOT EXISTS`, an `ADD COLUMN IF NOT EXISTS` and one change of a
column's type.

### IntegrationHub
Each handler that awaits a remote answer is two actions. `states` expire lazily
(`Expired`), `conn` holds the token by the name of the callback that obtained
it, `checked` the verdict of the last check. `LiveStatus` is the status shown in
the catalog for an OAuth connector.

### GraphValidation and WorkflowEditor
The validators look for a cycle in the same way. Their function `visit` calls
itself; here a walk is a record of the calls under way (`frames`, each with the
dependencies it has yet to visit), of `visited`, of the place the loop over all
ids has come to and of whether a cycle was met. `Enter` and `Leave` are a call and
its return; `Onward` is the set of ways to go on, because dependencies are
visited in whatever order they are listed. The console walks on after a cycle,
the API stops at the first one, which gives the same answer; they
differ in what they look at first, in duplicates (`DepsOf`, a JavaScript `Map`)
and in stopping at the first error. The reference `Orderable` does not walk. The
editor keeps `nodes` and `edges` apart as the canvas does: `RemoveSelected` drops
selected nodes and selected edges only, so an edge may lose an end and find it
again when an id is used anew. `StepsFromGraph` is what is sent. `Run` starts the
walk, `Visit` continues it and `Decide` sends or shows the errors; they are one
handler, which JavaScript does not interrupt, so nothing else happens while
`walk` is not `NoWalk`. A step is its id and its two numbers, retries and time
limit; what else the dialog edits passes through it. The API looks at the fields
too: `FieldsFit` are the bounds of `max_retries`, `timeout_seconds` and the name
and the shape of the context, none of which the editor enforces before it sends.
`call` is the request under way and whether the API accepts it, so
`SentGraphIsAccepted` says both that the graph of what is sent is always in order
and that only a field can make the API refuse it. The step dialog holds back the
pointer, not the keyboard: the toolbar and the canvas's Delete key stay in reach
behind it.

### ConsoleCache
One behaviour follows one read, with the writes that may refresh it; the tables
of hooks give for each its polling, key, retries and what its success refreshes.
`build` is what the page was built as: with a backend set in `VITE_API_BASE_URL`,
which then is the default on any host, for development, or plain, where the host
decides (`DefaultBase`). `storage` is the session's settings, `server[b]` a backend's availability and the
version of its data, `entry` the cached answer and error, `fetch` and `write` the
requests under way, each with the base URL and key it was built with. The query
library is external: `Poll`, `Mount`, `Refresh` and `Joined` follow its rules for
intervals, stale entries, invalidation and joined fetches. `FetchStalls` is the
body that never ends. `ErrorState`, `Metric` and `HeaderState` are what the
operator is told.

### ConsolePages
A table of forms says for each page what a blank form does and what an answer
does (`toast`, `panel`, `record`, `inspect`, `clear`, `close`, `refetch`).
`Submit` sends, `Succeed` and `Fail` are the callbacks of the answer, which only
a page still mounted receives (`OfThisVisit`); `LookUp`, `FetchAnswered` and
`Reread` are the lookups by id with the cache they share. `Perform` is the
backend, which executes a runtime request once per idempotency key. Leaving a
page forgets its fields, dialogs and outcomes, never its requests. `EarlierLists`
is what `load` finds: lists that earlier calls of `recordHistory` have left, so
an id is in them once and `filter` drops one entry at most.

### ConnectorPage
`Items` are catalog entries and MCP servers under one shape. `Filtered`,
`GroupByCategory`, `Counts` and `CategoryCounts` are the page's memos, written as
apart from each other as in the code. The drawer keeps the connector as it was
selected, and `Removed` closes whatever drawer is open when a removal is
answered. The drawer and the dialogs lie over the page without holding the focus:
while they do (`Covered`) whatever can be pressed by keyboard can still happen,
an open drawer may be turned to another connector by the button of a card, and
only a card that is no button itself is out of reach. Whether the drawer asks for a
confirmation is kept apart from which connector it shows: Close panel and another
card leave it (`LeaveQuestion`), Escape, Cancel and the answer of a removal take
it back. `asked` is the connector Disconnect was pressed for, and `Left` once the
operator went on with the question open. `trail` is the browser's history of the page: `Returned` adds an entry
with the provider's parameters, `Strip` replaces it.

### ConsoleShell
`palette` is the palette's state, `handler` what the key handler's closure knows
of it: `Handler` replaces it exactly when open, results or index have changed, as
the effect's dependencies say. `ArrowLocale` is the language control that may
keep the focus under the palette and change its list. Preferences live in the
document, in React state and in `storage`, which other tabs write (`OtherTab`) and
only `Reload` reads. Each notification has a timer of its own.

## 4. Runs

| run | instance | properties | shows |
|---|---|---|---|
| `engine_serial` | chain of 3 (gated middle, all conditional, listed out of order), 5 contexts from the client, retries 1/1/0, start + 2 resumes, 1 call at a time, 1 abort | `ConditionHonoured`, `CompletedNotRepeated`, `ImplementsCheckpointedRun` | the store is the abstract run when calls do not overlap, although one may die anywhere |
| `engine_concurrent` | two gated steps of one tool and a join, 2 permits, 2 approvals, 2 overlapping resumes, fairness | `DependencyOrder`, `ApprovalSingleUse`, `StatusHonest`, `CallsReturn` | what survives without client discipline; no engine call hangs |
| `worker` | 3 jobs, 2 workers, 2 retries, 2 worker ends, fairness | `ImplementsJobLife`, `LossBounded`, `EveryJobEnds` | jobs live as `JobLife` says, and the queue loses only what an ending worker held |
| `runtime` | 3 requests, 2 on one key, 1 or 2 processes, both backends, limit 2 in a window of 2, threshold 1, clock to 2, 1 abort, fairness | `SameKeyExclusive`, `WindowBound`, `BreakerEarned`, `AnswerStored`, `ImplementsKeyedExecution`, `RequestsEnd` | window and breaker hold, and the store is one of executions taking their keys in turn, across processes and crashes |
| `governed` | 4 calls (two racing for a grant, one without operation, one read), 2 grants, log of 2, 2 aborts, either store | `ImplementsActionLedger`, `AnswerAudited` | grants and rows are a ledger: approvals pay once and refusals are free, rows tell what was done, answers are audited |
| `rollout` | 2 production and 1 staging deployment, 2 scripts, 2 migrations each, 1 crash | `OneEnvironment`, `DoneMeansCurrent`, `SomeoneFinishes` | safe without the lock, as long as scripts are re-executable |
| `hub` | 2 providers (one without secret), 3 callbacks, 2 states, 2 checks, 1 MCP server and probe, TTL 1, clock to 2, 1 restart, symmetry | `ExchangeAuthorised`, `ConnectedEarned` | late and reordered answers do no more than they may |
| `editor` | 3 step ids, up to 3 edges, 1 step with numbers out of bounds, 2 names, symmetry between the two steps that are alike | `ValidatorMirrors`, `SentGraphIsAccepted` | the validators agree on everything that can be drawn, in whatever order it is walked; no graph is sent that the API refuses |
| `cache` | 3 reads (plain, refreshed, keyed), 2 writes, 2 backends, 2 builds, 1 change of data, 1 loss or outage, 1 change of settings, fairness | `WriteIsSeen`, `AddressFits`, `SignInCanHelp`, `PolledCatchesUp`, `HeaderComesTrue` | the cache is right in the end and never older than an answered write |
| `pages` | 10 pages and panels, 2 requests, 2 visits, 1 failure, lists of 2, one full, fairness | `HistoryIsLatest`, `ShownIsAsked`, `SubmittedIsReported` | late answers neither mix records nor end unreported |
| `connectors` | 4 catalog entries of 4 kinds, 1 MCP server, 3 acts and 2 more with the drawer, 1 new answer, 1 return | `ChipTruth`, `ConfirmationIsAsked`, `DisabledIsExplained`, `ReturnReportedOnce` | the marketplace says what it does |
| `shell` | 3 pages, 2 languages, 3 search words, 2 browsers, another tab, 4 acts, 2 notifications, fairness | `PaletteOpensHighlighted`, `PreferencesHold`, `ToastsGo` | closures, document and storage keep together |

Bounds, and why they are enough. Three steps show every relation the engine
looks at (dependency, sibling, grand-dependent); two overlapping resumes show
every stale copy, a third adds only another stale copy; with one abort a call is
cut off between any two steps. Retries of 1 give "first", "middle" and "last"
attempt after a pause has spent one. Two workers and three jobs fill list,
both hands and the dead letters at once. Two requests on a key suffice for every
conflict of two, the third has none and fills the window; a window of 2 ticks
contains a boundary inside it. A log of 2 rows overflows with 4 calls. Two
scripts make an order, three deployments two races (same and other
environment). A TTL of 1 and a clock to 2 put a callback at, before and after
the limit. On three steps every kind of edge exists: forward, backward, to itself,
to a removed step, a cycle of two and of three, which takes the 3 edges; one step
with `max_retries` 11 and a name of length 0 are refused, a second one would be for
the same reasons. One change of the data makes an
old and a new version, and one loss strikes any one request of a behaviour; two
requests and two visits give every order of answering and leaving, and a list of
2 that was full overflows with one more. The longest way to something that could
go wrong in the drawer is select, Disconnect, Confirm, Cancel, select another,
Disconnect, then the answer to the first removal: six acts. By keyboard the other
card is in reach without Cancel, five acts that lead to the very same state
(`MaxDrawerActs` gives the drawer two more than the rest), in both orders of an OAuth
connector and a server; a question that is left open and turned to another
connector takes three and Confirm a fourth. In the palette the longest way is open,
type, change the language, press Enter.
Every bound is a CONSTANT named in its module; none is in the code.
`Rest` actions let a finished instance of the backend's models stutter, so
deadlock checking stays on there and any other stop is an error. An operator
may stop at any time, so the console's runs switch it off where the bounds end
(`CHECK_DEADLOCK FALSE`); that something must still happen is what their
liveness properties say.

## 5. Divergences observed

Where the code does something else than a comment, a document or the name of a
thing says, the model follows the code. These came up; no run asserts them.

Backend:
- An approved step is never run: the refused attempt counts, so with
  `max_retries = 0`, the default, a resume finds an empty range, leaves the step
  running and fails the run (`engine.py:94`).
- A client may send entries under the keys that steps write (`engine.py:45`): a
  condition can pass on such an entry before the step overwrites it.
- Overlapping resumes undo checkpoints: `resume` saves a stale copy without a
  version check (`engine.py:73`).
- A failed idempotency key is unusable over Postgres: the retry inserts a second
  row (`runtime/service.py:65`) which the unique index refuses.
- From the 1001st event on the newest audit rows are not listed over Postgres:
  `ORDER BY id ASC LIMIT 1000` (`postgres_stores.py:362`).
- Migrations do not hold the advisory lock: it is released with the pooled
  connection that took it (`migrations.py:21`).

- A check that is answered after a disconnect shows the connector as connected
  (`phase9.py:322`).
- A governed call that is cancelled while its audit row is being inserted may
  leave the row although it never answered (`postgres_stores.py:340`).

Console, client and caches:
- `config.ts:16-28` keeps previews off production, but a build with
  `VITE_API_BASE_URL` set to production goes there from any host, with nothing
  typed (`config.ts:47-48`).
- The timer of a request ends with its headers (`client.ts:114`): a body without
  end is never given up, and polls join the fetch that reads it.
- Query keys do not name the backend and a change of the settings clears nothing:
  data of the former backend stays until its read is answered again.
- A first load that is under way when a write is answered is joined, and brings
  the data of before the write as fresh.
- `executeTool` does not refresh the audit log, `deleteMemory` not the memory
  that is looked up.
- The dashboard's status ignores `isError` (`Dashboard.tsx:151-162`) and stays
  online on old data; the answer of `/ready` with status 503 is shown as an error
  and its body is lost.

Console, pages:
- `session-history.ts:1-5` keeps ids so as not to lose them, but an id answered
  after its page was left is not recorded (`Tasks.tsx:53`).
- Approval ids typed for one run stay in the form and are sent to the next
  (`WorkflowRuns.tsx:92`); a success also clears what was typed after sending.
- Retry after a time-out executes again; it does not ask for what the button that
  sent first requires.
- A memory's deletion, when answered, closes whatever dialog is open by then.
- The editor sends what the API refuses for its fields: retries above 10, a time
  limit of 0, a name that is empty or longer than 200, a context that is
  no object (`StepEditorDialog.tsx:105,116`, `Workflows.tsx:216`,
  `models.py:41-47`).
- In the editor an edge whose node was removed by selection comes alive when the
  id is used again (`Workflows.tsx:131`), the dialog drops a step's input, and
  the colours of a run's answer go by ids that may have changed hands.
- Close panel, or a card reached by keyboard, leaves the question of the drawer
  open (`Drawer.tsx:49`, `ConnectorDrawer.tsx:130,147`): the next connector that is
  selected is asked about although nobody pressed Disconnect for it, and Confirm
  removes that one. Neither drawer nor dialogs hold the focus.
- Removing a connector closes the drawer of another one opened meanwhile
  (`ConnectorDrawer.tsx:176`); the error of a test stays under the next
  connector; Cancel in the MCP dialog keeps the secret that was typed; an
  unreadable list of servers counts as none; an OAuth connector that is
  configured or in error has no Disconnect.
- `i18n/index.tsx:110` says "browser language", but languages that resolve to
  English are passed over: a browser asking for English, then Hindi gets Hindi.
- A change of language under the open palette leaves its index, which may then
  point past the list; Enter does nothing there.
- Page transitions mount the new page while the old one leaves
  (`AppShell.tsx:79-89`), both reading the same route.

## 6. Fairness

Safety needs none. The liveness properties assume weak fairness of
- the tasks and drivers of the engine (`CallsReturn`): the event loop runs every
  ready task, and `asyncio.timeout` bounds every step's work; new resumes,
  approvals and aborts are never forced;
- a request's steps in the runtime (`RequestsEnd`): `wait_for` bounds the
  adapter call, sleeps end, a released lock wakes a waiter. Arrival, the clock,
  cancellation and crashes are not fair;
- a worker's steps (`EveryJobEnds`): the loop polls, sleeps end, the supervisor
  restarts the process. That handlers end is an assumption about handlers,
  since `process_one` puts no limit on them. Submission and ends are not fair;
- of the cache `Poll`, `FetchAnswered` and `FetchSettles` (`PolledCatchesUp`,
  `HeaderComesTrue`): intervals run, a backend that is up answers or the timer
  of `client.ts` ends the wait, and answers are handled. The two properties are
  about what stays on screen (`Watched`), with bodies that end and an operator
  who does not for ever press Refresh on a fetch under way, since that starts it
  over. Writes, outages, recoveries and settings are not fair;
- of the pages, the end of each form's request (`Ends`, for
  `SubmittedIsReported`): it is answered or lost. What the operator does is not
  fair;
- of the shell the timers (`Expire`, for `ToastsGo`).

No strong fairness is used. Under weak fairness a request may be overtaken at
the lock, but only finitely often because requests are finitely many.

## 7. Proofs

Checked by TLAPS for every value of the constants (sets of steps, drivers, jobs,
workers, calls, approvals, deployments, scripts, providers and callbacks, every
definition graph, limit and bound); the only hypotheses are the named `ASSUME`s
of the modules, which TLC evaluates in the runs as well.

**WorkflowEngineProofs.** For any number of overlapping calls: `TypeCorrect`,
`DependencyOrderHolds`, `ConditionHonouredHolds`, `ApprovalSingleUseHolds`,
`AttemptBoundHolds`, `StatusHonestHolds`. None of the properties is inductive:
`ConditionHonoured` could be broken by a join that changes a context entry, so
`CopyOK` adds that the entry of a step that has not completed is still the
client's; a join needs `TaskOK` (a task belongs to a batch, its step is running
and its entry the client's). `GrantOK` ties
the count of uses to the state of the grant. The invariant speaks about each
copy by itself, which is why stale copies do not disturb it: lemmas show that
each operator on copies (`WithApprovals`, `Passed`, a step update, a context
update) preserves `CopyOK`, and each action writes one such copy. `StatusHonest`
rests on `HonestInv` (a copy under way says running), on `CopyOK`, and on the
graph having no cycle: where a call stops and nothing waits, failed or is
stranded, `StoppedIsTruthful` takes a pending step that depends on no other
pending one and finds that the loop would have run or skipped it.

Under the hypothesis `MaxActive = 1`, the client discipline of `engine_serial`
(without it both fail: a stale copy undoes a checkpoint):
`CompletedNotRepeatedHolds` and `ImplementsCheckpointedRunHolds`. `SerialInv`
says what may lie between the row and the copy of the one call under way, by
where the call is: after loading steps that `resume` woke, in the loop its own
skips, in a batch the steps of its tasks. The refinement is a step simulation:
`Mapped` and `RowTypes` translate a row, `AheadMoves` shows that whatever
`SerialInv` allows to be ahead of the row is a move of `CheckpointedRun` once it
is saved, and `StepSimulated` goes through the actions; all that do not save
stutter.

**IntegrationRuntimeProofs.** `RuntimeTypeCorrect`, `SameKeyExclusiveHolds`,
`AnswerStoredHolds`, `NoCallOnceSucceededHolds`, `ImplementsKeyedExecutionHolds`,
`BreakerEarnedHolds`, `WindowBoundHolds`, over either backend and any processes. `KeyInv` connects the
three places a key is kept: the lock has one holder per process
(`KeyHeldOnce`), the index leads to a row stored under the key (`IndexFits`), and
the key of a call under way, of a success and, over Postgres, of every row leads
to it (`CallsIndexed`, `RowsIndexed`). Exclusion over several processes follows
from the index alone, over one from the lock. The two action properties follow
from `KeyInv` and `AnswersDone`; `NoCallOnceSucceeded` is proved only, since the
run checks the refinement, which is stronger. The refinement needs `StoreInv`
besides: whoever was called for has its execution stored and, until it is done,
its key leading to it. That survives the saves of others because a writer has
the key to itself (`WriterAlone`, `WriterFindsKeyFree`). `StepSimulated` then
takes every save to a beginning, an end or a turning away (`SaveSimulated`,
`LastWrite`), cancelled or not, and a crash to a loss; limiter, breaker, clock,
lock and the calls' outcomes stutter. The breaker needs no more invariant than that an
execution that failed stays where it is (`FailedStays`), so the set it is
compared with only grows. `WindowBound` is about cardinalities of two different
things, events kept and requests admitted: `Matched` says that each request still
counted has an event of its own, an injection which an admission extends, time
restricts and a crash empties.

**JobWorkerProofs.** `TypeCorrect`, `OnePlaceHolds`, `CounterHonestHolds`,
`RetryBudgetHolds`, `LossBoundedHolds`, `ImplementsJobLifeHolds`. `InRange` says which counts are possible
where: at most `MaxRetries` on any way back to a handler, one more on the way to
the dead letters. `AppendFacts` and `TailFacts` reduce the two list operations
to the set of entries. `LossBounded` is an inequality of cardinalities: a step
adds at most one lost job and only together with a fault. For the refinement,
`FoundOnce` turns the invariant into "a job found somewhere is nowhere else", a
step that is `OnlyAbout` one job leaves all others where they are
(`OthersStay`), so it suffices to find that job before and after (`Moves`);
`IdsAppend` and `IdsTail` carry the order of the lists over. When a job may be
retried or must be given up follows from `CounterHonest` and `InRange`. `OnePlace`
is the invariant behind it; a job that comes to be in two places is no step of
`JobLife`, so `OnePlace` is proved and in no run.

**GovernedExecutionProofs.** `TypeCorrect`, `PaidInFullHolds`,
`AnswerAuditedHolds`, `UnauditedBoundedHolds`, `ImplementsActionLedgerHolds`, over
either store. `Paid` keeps a
payer on record from the policy to the act; `OnePayer` that an unconsumed grant
has none; `RowsHonest` says that a row is the only one of its call, which has
returned or, over Postgres, was cut off, and tells its result, `RowsComplete` that
a returned call has one; `AbortsCounted` bounds the dead calls. The refinement needs
`StandingInv` besides, which says what the place of a call in the code implies:
nothing paid before the policy, nothing done before the handler, and a result
about to be recorded that agrees with both. Consuming, calling the handler and
recording are then `Use`, `Act` and `Enter` (`UseSimulated`, `ActSimulated`,
`RecordSimulated`), and so is the row that a cut-off call leaves; all else stutters. `PaidInFull` is what the ledger says about
payment alone, so no run checks it besides.

**DatabaseRolloutProofs.** `TypeCorrect`, `OneEnvironmentHolds`,
`ScriptsInOrderHolds`, `DoneMeansCurrentHolds`, `SomeoneFinishesHolds`.
`OneEnvironment` is nearly inductive: its first conjunct, that whoever migrates
saw its own stamp, carries the second. `HasApplied` says that a migration about
to record a version has executed a script, the latest of its own, and
`SeenRecorded` that the versions it fetched are recorded; the two make "fetch,
then execute the rest in order" correct although other migrations execute the
same scripts in between. That they do not all fail is a safety property, proved
with `LeadInv`: as long as nobody died there is a deployment that leads, having
fetched or recorded everything that is recorded; whoever is refused a version was
overtaken by the one that recorded it, which then leads.

**IntegrationHubProofs.** `TypeCorrect`, `ExchangeAuthorisedHolds`,
`LinkKeptHolds`, `ConnectedEarnedHolds`, `DeletedStaysDeletedHolds`.
`StatesFresh` says that a state in the store is as it was minted and that nobody
came in by it yet: a callback therefore cannot share its state with an earlier
one (`EntriesOK`), and the token an exchange stores is its own (`TokensOK`).
`LinksOK` covers checks under way: they were begun with a token, so a late "yes"
is about a provider that has been linked. `LinkKept` is an action property: the
proof shows that no step other than `Disconnect` and `Restart` empties a
`conn` entry, `FailedKeepsTokens` being the case that matters.

**ConsoleProofs**, of `ConsoleCache`: `RequestsFit`, `AddressFitsHolds`,
`WriteIsSeenHolds`, `SignInCanHelpHolds`, over any hosts, addresses, hooks and
bounds. `AddressFits` speaks of requests under way, which were built from
settings that may have changed since: the invariant says of the stored address
and of each request that it fits the host and what was typed or is what the page
was built for, and that what is built from fitting settings fits (`NewRequestFits`, over `UsableOverride`, the
default and the retries). `SeenInv` says of everything that carries an outcome
(both requests, the entry, what is owed) that a backend may have given it, and
of the fetch under way that if it was answered, then no earlier than the write
whose effect is owed; the case that matters is `WriteSettles`, which replaces
the fetch that may have read before it.
Of `ConnectorPage`: `PageInvariantHolds`, `ChipTruthHolds`,
`ConfirmationIsAskedHolds`, `ReturnReportedOnceHolds`, `DisabledIsExplainedHolds`,
for any catalog, servers, statuses and searches and any number of acts.
`ConfirmationIsAsked` is inductive: every way the drawer closes or changes either
takes the question back or marks it as left; `TrailPlain` says that no entry of the history left
behind still carries a provider's parameters, which is why going back reports
nothing; `ChipTruth` needs only that the filters are of their kinds, and that
grouping by category loses and doubles no card. `DisabledIsExplained` holds in
every state whatever the drawer was opened with: it compares two lists of
conditions written apart, and the proof splits on their cases.
Of `WorkflowEditor`: `ValidatorMirrorsHolds`, `SentGraphIsAcceptedHolds`, for any
number of steps and edges and any order of visiting them. The walk is a recursion
in the code, but what is proved of it needs no induction over graphs: it is an
invariant of its steps (`WalkInv`). `FramesChain` says that each call under way
visits a dependency of the one before and that no step is under way twice, so
that meeting a step under way exhibits a circle (`CircleFound`). `Explored` says
of a walk that met none that the dependencies a call has dealt with are visited,
that what is visited is closed under dependencies and that no circle lies in it:
a returning call adds its step to a closed set that the step does not occur in.
At its end a walk has been everywhere, so it met a circle exactly if there is
one (`WalkDecides`). The rest of the invariant is the canvas's (`CanvasTyped`):
no two nodes share an id, whatever is filtered out, added by the dialog or changed
behind it, which makes what is sent a graph (`StepsDrawn`, `DrawnIsUnique`).

**ConsoleScreenProofs**, of `ConsoleShell`: `PaletteOpensHighlightedHolds`,
`PreferencesHoldHolds`, for any pages, labels, languages and browsers. `Synced`
(the handler knows the palette on screen) holds because every step that changes
the palette or the language goes through the effect; `Remembers` says that what
is stored is what was chosen last or nothing, in which case the choice is what a
new browser would get; a locale that was stored is supported and is therefore
found again as it was.
Of `ConsolePages`: `HistoryIsLatestHolds`, `ShownIsAskedHolds`, for any number of
entries, requests, visits and losses. `RecordKeepsLatest` is the heart of the
first: prepending an id to the latest list, without its earlier entry and cut to
size, gives the latest list again, also when the id was answered long ago and had
fallen out. The ids must be of their kind, which takes `BackendOK` (a key leads to
an execution, and ids are left for all that was sent) and `FormsOK` (only one form
sends a key). For the second, `EntryOK` says that an entry holds and fetches the
record of its own key, and `UpToDate` that a run which was resumed on screen is
shown by an answer from after the resume, or will be by the fetch under way.

Where a fact about finite sets of numbers or steps would take an
induction, a least element is taken instead (`LeastNumber`, `GraphAssumption`).

Only model-checked: the liveness properties `CallsReturn`, `EveryJobEnds`,
`RequestsEnd`, `PolledCatchesUp`, `HeaderComesTrue`, `SubmittedIsReported` and
`ToastsGo`, since fairness and ENABLED are out of the prover's reach. Every other
property of the runs is a theorem.
`TypeOK`, `OnePlace`, `PaidInFull`, `AttemptBound`, `CounterHonest`, `RetryBudget`, `UnauditedBounded`,
`ScriptsInOrder`, `LinkKept` and `DeletedStaysDeleted` are proved and checked by
no run.

## 8. What is not modelled

Whole parts are listed with their reasons in `PROJECT.json`. Inside the modules:

- Engine: what a step computes; NOOP steps (one that always succeeds); a
  definition replaced under a run; conditions on entries that are neither the
  client's nor a step's, which read as `None` for good; several runs sharing the semaphore (to one run it is as if its
  tasks waited longer in the queue). Row contents other than statuses, attempts,
  approvals and condition values.
- Engine and approvals: with the memory backend the engine builds an approval
  store of its own (`workflows/factory.py:46`), so the grants of the model are
  those of a Postgres deployment.
- Governed path: which connector is picked; arguments and outputs. A process
  that dies with the memory backend is `Init`.
- Runtime: durations of backoff, contents of results; the growth of the lock
  dictionary.
- Worker: serialisation of a job; handlers without an end.
- Rollout: an error raised by `CREATE … IF NOT EXISTS` when two sessions race
  for it on a fresh database, be it for a bookkeeping table or inside a script:
  the caller sees a failed migration, as after `Crash`, and the script's
  transaction is rolled back; a row of `deployment_environment` edited by hand; the API's
  start on a database stamped for another environment (only
  `scripts/migrate.py` checks the stamp).
- Hub: status of connectors that do not use OAuth, `execute_integration`, URL
  validation, contents of tokens and capabilities.
- Editor: positions, selection as the canvas library keeps it between two events,
  a step's type, agent, tool and input; the texts of validation errors (`errors`
  says whether any are shown); numbers with a fraction. The run has no name longer
  than 200, the proof has names of any length.
- Cache: a development server reached from another host than the one it runs on
  (`Init` has development builds on the local host only); two reads at once (they share only settings and writes, which any number
  of behaviours of one read cover), refetches on reconnect,
  cancellation by the caller, contents of answers, the wording of errors.
- Pages: results as drawn, the audit log's filters, memory search and its graph
  beyond finding and deleting, pages that only read (Dashboard, Agents, Audit,
  Overview, About, Privacy); the context panel of the memory page.
- Marketplace: the order of cards and categories, icons, capabilities, the
  results of tests and executions.
- Shell: layout, animation, focus order, the skip link, overlays of the pages;
  storage that fails now and then (it works or it does not).
- Translation tables, types, texts: nothing in them moves.

## 9. Plan

Done: engine, approvals, runtime, worker, rollout, hub, and of the console the
graph validators with their editor, the caches, the pages, the marketplace and
the shell. Left, in this order:

1. `Platform`: the objects the factories build from a configuration, approval
   and definition stores shared or not (`factory.py:46`: with the memory backend
   the engine's approval store is not the one `POST /approvals` issues to), a
   definition saved over one that older runs are resumed with (`phase8.py:28`),
   the lazily created pool (`database.py:46`: two first users each create one),
   the lifespan check, readiness, `close_all` (`lifecycle.py:17`: the first close
   that raises ends the loop).
2. `Orchestration`: plan, specialists, verifier and synthesis under one time
   limit, one specialist failing while others run (`llm_agents.py:44`); context
   from memory; record and embedding as two steps (`semantic.py:26`); tasks.
3. Provider adapters and broker selection, as functions from configuration and
   answer to result.

Worth stating next: what the models of `Platform` and `Orchestration` promise;
and the engine's use of approvals as an `ActionLedger` too, with attempts for
calls.
