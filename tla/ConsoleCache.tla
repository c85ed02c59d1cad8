---------------------------- MODULE ConsoleCache ----------------------------
(***************************************************************************)
(* The console's requests and what it keeps of their answers: which backend *)
(* an address selects (lib/api/config.ts, lib/environment.ts), one request  *)
(* (lib/api/client.ts), the hooks that read and write (lib/api/queries.ts)  *)
(* over the query cache that App.tsx sets up, and what States.tsx, the      *)
(* header and the settings make of it.  A behaviour follows one read: reads *)
(* have nothing in common but the settings and the writes that refresh      *)
(* them.  What a backend answers is the version of its data.                *)
(***************************************************************************)
EXTENDS Naturals, TLC

CONSTANTS
  Hosts,        \* kinds of host the console may be served from
  Builds,       \* kinds of build: with a backend set in it, for development, plain
  Urls,         \* addresses the operator may type
  ReadHooks,    \* the reads that are followed, one in each behaviour
  WriteHooks,   \* the writes that are sent
  KeySet,       \* the backends with an operator key configured
  Warned,       \* the versions in which a backend reports warnings
  MaxVersion,   \* bound: changes of a backend's data
  MaxFailures,  \* bound: requests lost or stalled, backends going down
  MaxSaves      \* bound: changes of the settings

Bases == {"production", "staging", "loopback"}

ASSUME CacheAssumption ==
  /\ Hosts \subseteq {"app", "staging", "preview", "other", "local"}
  /\ Builds \subseteq Bases \cup {"dev", "plain"}
  /\ Urls \subseteq Bases /\ KeySet \subseteq Bases
  /\ {MaxVersion, MaxFailures, MaxSaves} \subseteq Nat

-----------------------------------------------------------------------------
(* The hooks: reads are polled or not, need a key or not, and are retried;  *)
(* writes name the reads they refresh.                                      *)

Read(polled, keyed, retries) ==
  [polled |-> polled, keyed |-> keyed, retries |-> retries, refreshes |-> {}]

Write(refreshes) ==
  [polled |-> FALSE, keyed |-> TRUE, retries |-> 0, refreshes |-> refreshes]

SystemHooks == "health" :> Read(TRUE, FALSE, 1) @@ "readiness" :> Read(TRUE, FALSE, 1)

TaskHooks == "task" :> Read(FALSE, TRUE, 0) @@ "createTask" :> Write({})

RunHooks == "orchestrate" :> Write({}) @@ "autonomousRun" :> Write({})

MemoryHooks ==
  "memorySearch" :> Read(FALSE, TRUE, 1) @@ "memoryGet" :> Read(FALSE, TRUE, 1)
  @@ "memoryContext" :> Write({})
  @@ "writeMemory" :> Write({"memorySearch"})
  @@ "deleteMemory" :> Write({"memorySearch"})

ToolHooks ==
  "tools" :> Read(FALSE, TRUE, 1) @@ "toolAudit" :> Read(TRUE, TRUE, 1)
  @@ "executeTool" :> Write({}) @@ "issueApproval" :> Write({})

WorkflowHooks ==
  "workflowRun" :> Read(FALSE, TRUE, 0)
  @@ "runWorkflow" :> Write({}) @@ "resumeWorkflow" :> Write({})

RuntimeHooks ==
  "runtimeExecution" :> Read(FALSE, TRUE, 0)
  @@ "runtimeStatus" :> Read(TRUE, TRUE, 1)
  @@ "executeRuntime" :> Write({})

CatalogHooks ==
  "connectorCatalog" :> Read(TRUE, FALSE, 1)
  @@ "testIntegration" :> Write({"connectorCatalog"})
  @@ "executeIntegration" :> Write({"connectorCatalog"})

ServerHooks ==
  "mcpServers" :> Read(TRUE, FALSE, 1)
  @@ "createMCPServer" :> Write({"mcpServers"})
  @@ "testMCPServer" :> Write({"mcpServers"})
  @@ "deleteMCPServer" :> Write({"mcpServers"})

OAuthHooks ==
  "oauthAuthorize" :> Write({}) @@ "oauthDisconnect" :> Write({"connectorCatalog"})

Hooks == SystemHooks @@ TaskHooks @@ RunHooks @@ MemoryHooks @@ ToolHooks
         @@ WorkflowHooks @@ RuntimeHooks @@ CatalogHooks @@ ServerHooks @@ OAuthHooks

-----------------------------------------------------------------------------
VARIABLES
  host,         \* where the console is served from
  build,        \* what it was built as
  storage,      \* sessionStorage: the address, if one is stored, and the key
  typed,        \* history: addresses the operator has saved
  server,       \* backends: whether they can be reached, version of their data
  read,         \* the hook that is followed
  mounted,      \* a component that reads is on screen
  entry,        \* the cache entry: last data, last error, fresh or stale
  fetch,        \* the request of the read that is under way
  write,        \* the write under way or last answered, with the hook it is of
  owed,         \* history: the newest answered write that refreshed the read
  failures, saves

vars == <<host, build, storage, typed, server, read, mounted, entry, fetch, write,
          owed, failures, saves>>

settings == <<host, build, storage, typed, saves>>

-----------------------------------------------------------------------------
(* Addresses *)

ComputeApiBaseUrl(h) == IF h = "app" THEN "production" ELSE "staging"

\* computeDefaultBaseUrl: VITE_API_BASE_URL comes before everything else, and a
\* development build talks to the machine it runs on.
DefaultBase ==
  IF build \in Bases THEN build
  ELSE IF build = "dev" THEN "loopback" ELSE ComputeApiBaseUrl(host)

\* Mutant of UsableOverride: the stored address always counts.
MutObeyStored(url) == TRUE

\* isUsableOverride: a page served over https cannot reach the loopback.
UsableOverride(url) == host = "local" \/ url # "loopback"

GetApiBaseUrl ==
  IF storage.url \in Bases /\ UsableOverride(storage.url)
  THEN storage.url ELSE DefaultBase

\* getEnvironmentLabel: the badge in the header; production has none.
EnvironmentLabel(h) ==
  IF h = "app" THEN "none"
  ELSE IF h = "staging" THEN "STAGING"
  ELSE IF h = "local" THEN "LOCAL" ELSE "PREVIEW"

-----------------------------------------------------------------------------
(* One request *)

Outcome(kind, base, version) == [kind |-> kind, base |-> base, version |-> version]
Nothing == Outcome("none", "none", 0)
Pending == Outcome("pending", "none", 0)
Stalled == Outcome("stalled", "none", 0)

\* apiRequest up to its fetch: address and key are read when it starts.
Request(hook) ==
  [hook |-> hook, base |-> GetApiBaseUrl, key |-> Hooks[hook].keyed /\ storage.key,
   got |-> Pending, tries |-> 0]

NoRequest == [hook |-> "none", base |-> "none", key |-> FALSE,
              got |-> Nothing, tries |-> 0]

\* What the backend answers (external): 503 if it has no operator key at all,
\* 401 if the request has none.
Reply(r, version) ==
  IF ~server[r.base].up THEN Outcome("network", r.base, 0)
  ELSE IF Hooks[r.hook].keyed /\ r.base \notin KeySet THEN Outcome("unavailable", r.base, 0)
  ELSE IF Hooks[r.hook].keyed /\ ~r.key THEN Outcome("unauthorized", r.base, 0)
  ELSE Outcome("data", r.base, version)

\* apiRequest without an answer: no connection, or the timeout aborts it.
Losses(r) == {Outcome("network", r.base, 0), Outcome("timeout", r.base, 0)}

\* Mutant of Unauthorized: 503 is taken for a missing key, as it once was.
MutFoldUnavailable(e) == e.kind \in {"unauthorized", "unavailable"}

\* ApiError: of the flags the one that decides whether to ask for a key.
Unauthorized(e) == e.kind = "unauthorized"

\* ErrorState, with the operator's way out of each: add a key, wait for the
\* deployment, or retry.
ErrorState(e) ==
  IF Unauthorized(e) THEN "authenticate"
  ELSE IF e.kind = "unavailable" THEN "service"
  ELSE "retry"

\* metricValue: what a figure on the dashboard becomes when its read failed.
Metric(e) ==
  IF Unauthorized(e) THEN "signIn"
  ELSE IF e.kind \in {"network", "timeout"} THEN "offline"
  ELSE "unavailable"

-----------------------------------------------------------------------------
Fresh(answer) == [data |-> answer, error |-> Nothing, fresh |-> TRUE]
EmptyEntry == [data |-> Nothing, error |-> Nothing, fresh |-> FALSE]

Init ==
  /\ host \in Hosts
  /\ build \in Builds /\ (build = "dev" => host = "local")
  /\ storage = [url |-> "none", key |-> FALSE]
  /\ typed = {}
  /\ server = [b \in Bases |-> [up |-> TRUE, version |-> 0]]
  /\ read \in ReadHooks
  /\ mounted = FALSE
  /\ entry = EmptyEntry
  /\ fetch = NoRequest
  /\ write = NoRequest
  /\ owed = Nothing
  /\ failures = 0 /\ saves = 0

-----------------------------------------------------------------------------
(* The query cache (external): one entry with at most one fetch *)

\* Starting a fetch of an entry without data shows it as loading again.
StartFetch ==
  /\ fetch' = Request(read)
  /\ entry' = IF entry.data = Nothing THEN EmptyEntry ELSE entry

\* Asking again replaces a fetch if there is data to go on with, and joins the
\* fetch that loads the first data.
Restart ==
  IF fetch # NoRequest /\ entry.data = Nothing
  THEN UNCHANGED <<fetch, entry>> ELSE StartFetch

\* A component that reads comes on screen.
Mount ==
  /\ ~mounted
  /\ mounted' = TRUE
  /\ IF fetch = NoRequest /\ ~entry.fresh
     THEN StartFetch ELSE UNCHANGED <<fetch, entry>>
  /\ UNCHANGED <<settings, server, read, write, owed, failures>>

\* It leaves; its request is not aborted.
Unmount ==
  /\ mounted
  /\ mounted' = FALSE
  /\ UNCHANGED <<settings, server, read, entry, fetch, write, owed, failures>>

\* staleTime passes; an entry nobody reads is collected some time later.
Age ==
  /\ entry.fresh
  /\ entry' = [entry EXCEPT !.fresh = FALSE]
  /\ UNCHANGED <<settings, server, read, mounted, fetch, write, owed, failures>>

Collect ==
  /\ ~mounted /\ fetch = NoRequest /\ entry # EmptyEntry
  /\ entry' = EmptyEntry
  /\ UNCHANGED <<settings, server, read, mounted, fetch, write, owed, failures>>

\* Mutant of Poll: after an error nobody asks again.
MutPollUntilError ==
  /\ mounted /\ Hooks[read].polled /\ fetch = NoRequest /\ entry.error = Nothing
  /\ StartFetch
  /\ UNCHANGED <<settings, server, read, mounted, write, owed, failures>>

\* refetchInterval: a tick joins the fetch that is under way.
Poll ==
  /\ mounted /\ Hooks[read].polled /\ fetch = NoRequest
  /\ StartFetch
  /\ UNCHANGED <<settings, server, read, mounted, write, owed, failures>>

\* What a card on the health page shows of its read.
Panel ==
  IF entry.error # Nothing THEN "error"
  ELSE IF entry.data = Nothing THEN "skeleton" ELSE "data"

\* Refresh, or Retry on the panel of an error.
Refetch ==
  /\ mounted /\ Panel # "skeleton" /\ Restart
  /\ UNCHANGED <<settings, server, read, mounted, write, owed, failures>>

FetchAnswered ==
  /\ fetch.got = Pending
  /\ fetch' = [fetch EXCEPT !.got = Reply(fetch, server[fetch.base].version)]
  /\ UNCHANGED <<settings, server, read, mounted, entry, write, owed, failures>>

FetchLost ==
  /\ fetch.got = Pending /\ failures < MaxFailures
  /\ \E loss \in Losses(fetch) : fetch' = [fetch EXCEPT !.got = loss]
  /\ failures' = failures + 1
  /\ UNCHANGED <<settings, server, read, mounted, entry, write, owed>>

\* apiRequest stops its timer at the headers: a body that does not end keeps
\* the request for ever.
FetchStalls ==
  /\ fetch.got.kind = "data" /\ failures < MaxFailures
  /\ fetch' = [fetch EXCEPT !.got = Stalled]
  /\ failures' = failures + 1
  /\ UNCHANGED <<settings, server, read, mounted, entry, write, owed>>

\* The answer reaches the cache.  A failure is retried while somebody reads,
\* with the settings of that moment; it leaves the data there is.
FetchSettles ==
  /\ fetch.got \notin {Nothing, Pending, Stalled}
  /\ IF fetch.got.kind = "data"
     THEN fetch' = NoRequest /\ entry' = Fresh(fetch.got)
     ELSE IF mounted /\ fetch.tries < Hooks[read].retries
     THEN /\ fetch' = [Request(read) EXCEPT !.tries = fetch.tries + 1]
          /\ UNCHANGED entry
     ELSE /\ fetch' = NoRequest
          /\ entry' = [entry EXCEPT !.error = fetch.got, !.fresh = FALSE]
  /\ UNCHANGED <<settings, server, read, mounted, write, owed, failures>>

-----------------------------------------------------------------------------
(* Writes *)

\* A button that sends is disabled while its write is under way.
WriteIdle == write.got.kind \notin {"pending", "data"}

SendWrite(hook) ==
  /\ mounted /\ WriteIdle
  /\ write' = Request(hook)
  /\ UNCHANGED <<settings, server, read, mounted, entry, fetch, owed, failures>>

\* The backend does what the write asks, if it may.
WriteAnswered ==
  /\ write.got = Pending
  /\ LET b == write.base
         reply == Reply(write, server[b].version + 1)
     IN /\ reply.kind = "data" => server[b].version < MaxVersion
        /\ write' = [write EXCEPT !.got = reply]
        /\ server' = IF reply.kind = "data"
                     THEN [server EXCEPT ![b].version = @ + 1] ELSE server
  /\ UNCHANGED <<settings, read, mounted, entry, fetch, owed, failures>>

\* The write is lost, or its answer: then it has been done all the same.
WriteLost ==
  /\ write.got = Pending \/ write.got.kind = "data"
  /\ failures < MaxFailures
  /\ \E loss \in Losses(write) : write' = [write EXCEPT !.got = loss]
  /\ failures' = failures + 1
  /\ UNCHANGED <<settings, server, read, mounted, entry, fetch, owed>>

\* A first load under way is joined by whatever asks for the same, and a fetch
\* nobody waits for is left to end.
Joined == fetch # NoRequest /\ (entry.data = Nothing \/ ~mounted)

\* Mutant of Refresh: any fetch under way will do.
MutRefreshJoins ==
  /\ entry' = [entry EXCEPT !.fresh = FALSE]
  /\ fetch' = IF mounted /\ fetch = NoRequest THEN Request(read) ELSE fetch

\* invalidateQueries: the read becomes stale, and on screen is fetched again.
Refresh ==
  /\ entry' = [entry EXCEPT !.fresh = FALSE]
  /\ fetch' = IF mounted /\ ~Joined THEN Request(read) ELSE fetch

\* onSuccess of the hook.
WriteSettles ==
  /\ write.got.kind = "data"
  /\ write' = NoRequest
  /\ IF read \notin Hooks[write.hook].refreshes
     THEN UNCHANGED <<entry, fetch, owed>>
     ELSE /\ Refresh
          /\ owed' = IF Joined THEN owed ELSE write.got
  /\ UNCHANGED <<settings, server, read, mounted, failures>>

-----------------------------------------------------------------------------
(* Backends *)

\* Somebody else changes the data.  Bound: of the backend in use.
ServerChanges ==
  LET b == GetApiBaseUrl IN
  /\ server[b].version < MaxVersion
  /\ server' = [server EXCEPT ![b].version = @ + 1]
  /\ UNCHANGED <<settings, read, mounted, entry, fetch, write, owed, failures>>

ServerFails ==
  LET b == GetApiBaseUrl IN
  /\ server[b].up /\ failures < MaxFailures
  /\ server' = [server EXCEPT ![b].up = FALSE]
  /\ failures' = failures + 1
  /\ UNCHANGED <<settings, read, mounted, entry, fetch, write, owed>>

ServerReturns(b) ==
  /\ ~server[b].up
  /\ server' = [server EXCEPT ![b].up = TRUE]
  /\ UNCHANGED <<settings, read, mounted, entry, fetch, write, owed, failures>>

-----------------------------------------------------------------------------
(* Settings.  None of them clears the cache. *)

Store(url, key) ==
  storage' = [url |-> url, key |-> key] /\ UNCHANGED <<host, build>>

\* save on the settings page, where nothing that reads is on screen: the address
\* may be left as it was shown, and an empty one stands for the default.
SaveSettings(url, key) ==
  /\ ~mounted /\ saves < MaxSaves /\ saves' = saves + 1
  /\ Store(IF url = "none" THEN DefaultBase ELSE url, key)
  /\ typed' = IF url = GetApiBaseUrl THEN typed ELSE typed \cup {url}
  /\ UNCHANGED <<server, read, mounted, entry, fetch, write, owed, failures>>

\* clear on the settings page, or Clear session in the account menu, which is
\* there on every page.
ClearSession ==
  /\ saves < MaxSaves /\ saves' = saves + 1
  /\ Store(DefaultBase, FALSE)
  /\ UNCHANGED <<typed, server, read, mounted, entry, fetch, write, owed, failures>>

\* Reset API URL on the panel of a network error, which retries at once.  There is
\* something to reset only after a save.
ResetApiUrl ==
  /\ mounted /\ entry.error.kind \in {"network", "timeout"}
  /\ GetApiBaseUrl # DefaultBase
  /\ Store(DefaultBase, storage.key)
  /\ fetch' = [Request(read) EXCEPT !.base = DefaultBase]
  /\ entry' = IF entry.data = Nothing THEN EmptyEntry ELSE entry
  /\ UNCHANGED <<typed, server, read, mounted, write, owed, failures, saves>>

\* The page is loaded again: sessionStorage stays, everything else is lost.
Reload ==
  /\ mounted' = FALSE
  /\ entry' = EmptyEntry
  /\ fetch' = NoRequest /\ write' = NoRequest
  /\ owed' = Nothing
  /\ UNCHANGED <<settings, server, read, failures>>

-----------------------------------------------------------------------------
(* What the header makes of the read of /health *)

\* Mutant of Reachable: data is enough, as on the dashboard.
MutDataIsEnough == entry.data # Nothing

Reachable == entry.data # Nothing /\ entry.error = Nothing

\* ConnectionStatus: no data and no error yet is connecting, warnings degrade.
HeaderState ==
  IF entry.data = Nothing /\ entry.error = Nothing THEN "connecting"
  ELSE IF ~Reachable THEN "offline"
  ELSE IF entry.data.version \in Warned THEN "degraded" ELSE "online"

-----------------------------------------------------------------------------
Next ==
  \/ Mount \/ Unmount \/ Age \/ Collect
  \/ Poll \/ Refetch \/ FetchAnswered \/ FetchLost \/ FetchStalls \/ FetchSettles
  \/ \E hook \in WriteHooks : SendWrite(hook)
  \/ WriteAnswered \/ WriteLost \/ WriteSettles
  \/ ServerChanges \/ ServerFails \/ \E b \in Bases : ServerReturns(b)
  \/ \E url \in Urls \cup {"none", GetApiBaseUrl}, key \in BOOLEAN : SaveSettings(url, key)
  \/ ClearSession \/ ResetApiUrl \/ Reload

\* Timers run and answers that have arrived are handled; a backend answers
\* unless it is down or the request is lost.
Fairness ==
  /\ WF_vars(Poll) /\ WF_vars(FetchAnswered) /\ WF_vars(FetchSettles)

Spec == Init /\ [][Next]_vars /\ Fairness

-----------------------------------------------------------------------------
(* Properties *)

\* queries.ts, the onSuccess of the writes: once a write has been answered, no
\* component that is done loading, and no entry that counts as fresh, shows
\* data from before the write, whatever fetches were under way.  The exception
\* is a load the write could not replace: the first one, or one that nobody was
\* waiting for.
WriteIsSeen ==
  (entry.fresh \/ (mounted /\ fetch = NoRequest /\ Panel = "data"))
    => (entry.data.base = owed.base => entry.data.version >= owed.version)

\* config.ts:16-28 and 56-66, environment.ts:9-10: no request leaves an https
\* page for the loopback, and a page that wears a badge reaches production only
\* after the operator typed that address: unless it was built to go there.
AddressFits ==
  \A r \in {fetch, write} : r.base # build =>
    /\ r.base = "loopback" => host = "local"
    /\ r.base = "production" =>
         EnvironmentLabel(host) = "none" \/ "production" \in typed

\* client.ts:35-38, States.tsx:109-112, Dashboard.tsx:61-63: the operator is sent to enter a key
\* only by a backend that has one and did not get it.
SignInCanHelp ==
  \A e \in {entry.error, write.got} :
    ErrorState(e) = "authenticate" \/ Metric(e) = "signIn" => e.base \in KeySet

\* What reads stays on screen, no body is left without end, and the operator
\* does not for ever press Refresh on a fetch under way, which starts over.
Watched ==
  /\ <>[]mounted /\ []<>(fetch.got # Stalled)
  /\ <>[][Refetch => fetch = NoRequest]_vars

EntryTrue ==
  LET truth == Reply(Request(read), server[GetApiBaseUrl].version)
  IN IF truth.kind = "data" THEN entry.data = truth /\ entry.error = Nothing
     ELSE entry.error.kind = truth.kind /\ entry.error.base = truth.base

\* queries.ts, refetchInterval: what is polled and stays on screen comes to
\* show what the selected backend holds, or the error it answers with, after
\* changes, outages and switches of the backend.
PolledCatchesUp ==
  Hooks[read].polled /\ Watched => <>[](Panel = "skeleton" \/ EntryTrue)

HeaderTrue ==
  LET backend == server[GetApiBaseUrl]
  IN HeaderState \in IF ~backend.up THEN {"offline", "connecting"}
                     ELSE IF backend.version \in Warned THEN {"degraded"}
                     ELSE {"online"}

\* ConnectionStatus.tsx:10-28: the header does not stay green over a backend
\* that is gone or reports warnings, nor red over one that has come back.
HeaderComesTrue == read = "health" /\ Watched => <>[]HeaderTrue

=============================================================================
