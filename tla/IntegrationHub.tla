---------------------------- MODULE IntegrationHub ----------------------------
(***************************************************************************)
(* What the integration API (app/api/phase9.py) keeps in the memory of its *)
(* process: the state tokens and account connections of the OAuth flow,    *)
(* the results of connection checks, and the MCP servers.  Every handler   *)
(* that asks a remote service reads before that await and writes after it, *)
(* so its two halves are two actions and anything may come between them.   *)
(***************************************************************************)
EXTENDS Naturals

CONSTANTS
  Providers,   \* the OAuth providers
  Credentials, \* Credentials[p]: which of client id and secret are set
  States,      \* the uuids authorize may draw
  Callbacks,   \* the requests that reach the callback route
  ProviderOf,  \* ProviderOf[f]: the provider in the path of callback f
  Checks,      \* the calls that test a provider
  CheckOf,     \* CheckOf[c]: the provider that c tests
  Servers,     \* ids of MCP servers
  Probes,      \* the calls that test an MCP server
  ProbeOf,     \* ProbeOf[b]: the server that b tests
  TTL,         \* STATE_TTL
  MaxTime,     \* bound: the clock stops here
  MaxRestarts, \* bound: how often the process restarts
  Nothing      \* None

ASSUME HubAssumption ==
  /\ Credentials \in [Providers -> {"none", "id", "both"}]
  /\ ProviderOf \in [Callbacks -> Providers]
  /\ CheckOf \in [Checks -> Providers]
  /\ ProbeOf \in [Probes -> Servers]
  /\ TTL \in Nat /\ MaxTime \in Nat /\ MaxRestarts \in Nat
  /\ Nothing \notin Callbacks

OAuthStateRecord == [provider : Providers, created_at : Nat]
OAuthConnectionRecord == [access_token : Callbacks \cup {Nothing},
                          last_error : BOOLEAN]
Entry == [state : States, at : Nat]

\* What a check has found out: nothing yet, connected or not.
Verdict == {"unknown", "yes", "no"}

ASSUME NothingAssumption ==
  Nothing \notin OAuthStateRecord \cup Entry \cup Verdict

VARIABLES
  states,   \* states[s]: the record the state store holds for s, or Nothing
  conn,     \* conn[p]: the connection record of p; the access token obtained
            \* by callback f is called f
  checked,  \* checked[p]: IntegrationStatusRecord.connected
  flow,     \* flow[f]: idle, exchanging or done
  check,    \* check[c]: idle, asking or done
  servers,  \* servers[m]: what is known of server m, Nothing if not stored
  probe,    \* probe[b]: idle, asking or done
  now,
  minted,   \* history: minted[s]: the record s was created with
  entered,  \* history: entered[f]: the state and time f's exchange began with
  linked,   \* history: the providers linked since the process started
  deleted,  \* history: the MCP servers deleted
  restarts

oauth == <<states, conn, flow, minted, entered, linked>>
status == <<checked, check>>
mcp == <<servers, probe, deleted>>
vars == <<oauth, status, mcp, now, restarts>>

Unlinked == [access_token |-> Nothing, last_error |-> FALSE]

Init ==
  /\ states = [s \in States |-> Nothing]
  /\ conn = [p \in Providers |-> Unlinked]
  /\ checked = [p \in Providers |-> "unknown"]
  /\ flow = [f \in Callbacks |-> "idle"]
  /\ check = [c \in Checks |-> "idle"]
  /\ servers = [m \in Servers |-> Nothing]
  /\ probe = [b \in Probes |-> "idle"]
  /\ now = 0
  /\ minted = [s \in States |-> Nothing]
  /\ entered = [f \in Callbacks |-> Nothing]
  /\ linked = {}
  /\ deleted = {}
  /\ restarts = 0

-----------------------------------------------------------------------------
(* The OAuth flow *)

\* Mutant of Kept: an expired state is good for one more tick.
MutKeptLonger(s) == states[s] # Nothing /\ states[s].created_at + TTL + 1 >= now

\* _expire_old: what stays in the state store when it is next used.
Kept(s) == states[s] # Nothing /\ states[s].created_at + TTL >= now

Expired(except) ==
  [s \in States |-> IF Kept(s) /\ s \notin except THEN states[s] ELSE Nothing]

\* oauth_authorize_route: only the client id has to be there.
Authorize(p, s) ==
  LET record == [provider |-> p, created_at |-> now]
  IN /\ Credentials[p] # "none"
     /\ minted[s] = Nothing
     /\ states' = [Expired({}) EXCEPT ![s] = record]
     /\ minted' = [minted EXCEPT ![s] = record]
     /\ UNCHANGED <<conn, flow, entered, linked, status, mcp, now, restarts>>

\* record_failure: the token, if there is one, stays.
Failed(p) == conn' = [conn EXCEPT ![p].last_error = TRUE]

\* The callback with an error parameter: no state is asked for.
CallbackError(f) ==
  /\ flow[f] = "idle"
  /\ Failed(ProviderOf[f])
  /\ flow' = [flow EXCEPT ![f] = "done"]
  /\ UNCHANGED <<states, minted, entered, linked, status, mcp, now, restarts>>

\* consume gives back the provider of a state that is kept.
Accepts(f, s) == s # Nothing /\ Kept(s) /\ states[s].provider = ProviderOf[f]

\* The exchange needs an accepted state, a code and the client secret.
Admitted(f, s, code) ==
  Accepts(f, s) /\ code /\ Credentials[ProviderOf[f]] = "both"

\* The callback up to its await: any state it names is used up, whether or not
\* it is of this provider, has a code with it, or finds a client secret.
Callback(f, s, code) ==
  /\ flow[f] = "idle"
  /\ states' = IF s = Nothing THEN states ELSE Expired({s})
  /\ IF Admitted(f, s, code)
     THEN /\ flow' = [flow EXCEPT ![f] = "exchanging"]
          /\ entered' = [entered EXCEPT ![f] = [state |-> s, at |-> now]]
     ELSE /\ flow' = [flow EXCEPT ![f] = "done"]
          /\ UNCHANGED entered
  /\ UNCHANGED <<conn, minted, linked, status, mcp, now, restarts>>

\* exchange_code after its await: refused, without a token, or unreachable, all
\* of which are recorded, or a body that cannot be read, which is not.
ExchangeFails(f) ==
  /\ flow[f] = "exchanging"
  /\ Failed(ProviderOf[f]) \/ UNCHANGED conn
  /\ flow' = [flow EXCEPT ![f] = "done"]
  /\ UNCHANGED <<states, minted, entered, linked, status, mcp, now, restarts>>

\* record_success, whatever was recorded or disconnected since the code came.
ExchangeSucceeds(f) ==
  /\ flow[f] = "exchanging"
  /\ conn' = [conn EXCEPT ![ProviderOf[f]] =
                [access_token |-> f, last_error |-> FALSE]]
  /\ linked' = linked \cup {ProviderOf[f]}
  /\ flow' = [flow EXCEPT ![f] = "done"]
  /\ UNCHANGED <<states, minted, entered, status, mcp, now, restarts>>

\* oauth_disconnect_route: the connection goes, the check result stays.
Disconnect(p) ==
  /\ conn[p] # Unlinked
  /\ conn' = [conn EXCEPT ![p] = Unlinked]
  /\ UNCHANGED <<states, flow, minted, entered, linked, status, mcp, now, restarts>>

-----------------------------------------------------------------------------
(* Checks of a provider and its status *)

HasToken(p) == conn[p].access_token # Nothing

Found(p, verdict) == checked' = [checked EXCEPT ![p] = verdict]

\* test_integration: refused unless configured; without a token the answer is
\* no, else the provider is asked with the token of now.
CheckBegins(c) ==
  LET p == CheckOf[c]
  IN /\ check[c] = "idle"
     /\ \/ /\ Credentials[p] # "both"
           /\ check' = [check EXCEPT ![c] = "done"] /\ UNCHANGED checked
        \/ /\ Credentials[p] = "both" /\ ~HasToken(p)
           /\ check' = [check EXCEPT ![c] = "done"] /\ Found(p, "no")
        \/ /\ Credentials[p] = "both" /\ HasToken(p)
           /\ check' = [check EXCEPT ![c] = "asking"] /\ UNCHANGED checked
     /\ UNCHANGED <<oauth, mcp, now, restarts>>

\* record_check with what the provider said of the token it was shown.
CheckEnds(c) ==
  /\ check[c] = "asking"
  /\ \E verdict \in {"yes", "no"} : Found(CheckOf[c], verdict)
  /\ check' = [check EXCEPT ![c] = "done"]
  /\ UNCHANGED <<oauth, mcp, now, restarts>>

\* _oauth_live_status: the status the catalog shows for p.
LiveStatus(p) ==
  IF Credentials[p] # "both" THEN "needs_setup"
  ELSE IF checked[p] = "yes" \/ HasToken(p) THEN "connected"
  ELSE IF checked[p] = "no" THEN "error"
  ELSE "configured"

-----------------------------------------------------------------------------
(* MCP servers *)

\* create_mcp_server_route: an id is drawn once.
Register(m) ==
  /\ servers[m] = Nothing /\ m \notin deleted
  /\ servers' = [servers EXCEPT ![m] = "unknown"]
  /\ UNCHANGED <<probe, deleted, oauth, status, now, restarts>>

Delete(m) ==
  /\ servers[m] # Nothing
  /\ servers' = [servers EXCEPT ![m] = Nothing]
  /\ deleted' = deleted \cup {m}
  /\ UNCHANGED <<probe, oauth, status, now, restarts>>

\* test_mcp_server_route: not found, or off to ask the server.
ProbeBegins(b) ==
  /\ probe[b] = "idle"
  /\ probe' = [probe EXCEPT ![b] = IF servers[ProbeOf[b]] = Nothing THEN "done"
                                   ELSE "asking"]
  /\ UNCHANGED <<servers, deleted, oauth, status, now, restarts>>

\* record_check skips a server that is gone; the handler then fails to read it
\* back and answers with an error.
ProbeEnds(b) ==
  /\ probe[b] = "asking"
  /\ IF servers[ProbeOf[b]] = Nothing THEN UNCHANGED servers
     ELSE \E verdict \in {"yes", "no"} :
            servers' = [servers EXCEPT ![ProbeOf[b]] = verdict]
  /\ probe' = [probe EXCEPT ![b] = "done"]
  /\ UNCHANGED <<deleted, oauth, status, now, restarts>>

-----------------------------------------------------------------------------
(* Time and restarts *)

Tick ==
  /\ now < MaxTime
  /\ now' = now + 1
  /\ UNCHANGED <<oauth, status, mcp, restarts>>

Cut(pc) == [x \in DOMAIN pc |-> IF pc[x] = "idle" THEN "idle" ELSE "done"]

\* Mutant of Restart: the check results outlive the connections.
MutStatusKept ==
  /\ restarts < MaxRestarts
  /\ restarts' = restarts + 1
  /\ states' = [s \in States |-> Nothing]
  /\ conn' = [p \in Providers |-> Unlinked]
  /\ servers' = [m \in Servers |-> Nothing]
  /\ flow' = Cut(flow) /\ check' = Cut(check) /\ probe' = Cut(probe)
  /\ linked' = {}
  /\ UNCHANGED <<checked, minted, entered, deleted, now>>

\* The process ends and starts again: nothing here is kept anywhere else.
Restart ==
  /\ restarts < MaxRestarts
  /\ restarts' = restarts + 1
  /\ states' = [s \in States |-> Nothing]
  /\ conn' = [p \in Providers |-> Unlinked]
  /\ checked' = [p \in Providers |-> "unknown"]
  /\ servers' = [m \in Servers |-> Nothing]
  /\ deleted' = deleted \cup {m \in Servers : servers[m] # Nothing}
  /\ flow' = Cut(flow) /\ check' = Cut(check) /\ probe' = Cut(probe)
  /\ linked' = {}
  /\ UNCHANGED <<minted, entered, now>>

\* No request is left: the process waits for more.
Rest ==
  /\ \A f \in Callbacks : flow[f] = "done"
  /\ \A c \in Checks : check[c] = "done"
  /\ \A b \in Probes : probe[b] = "done"
  /\ UNCHANGED vars

Next ==
  \/ \E p \in Providers, s \in States : Authorize(p, s)
  \/ \E f \in Callbacks : \E s \in States \cup {Nothing}, code \in BOOLEAN :
       Callback(f, s, code)
  \/ \E f \in Callbacks :
       CallbackError(f) \/ ExchangeFails(f) \/ ExchangeSucceeds(f)
  \/ \E p \in Providers : Disconnect(p)
  \/ \E c \in Checks : CheckBegins(c) \/ CheckEnds(c)
  \/ \E m \in Servers : Register(m) \/ Delete(m)
  \/ \E b \in Probes : ProbeBegins(b) \/ ProbeEnds(b)
  \/ Tick \/ Restart \/ Rest

Spec == Init /\ [][Next]_vars

-----------------------------------------------------------------------------
(* Properties *)

\* What the variables range over; an exchange under way has its secret.
TypeOK ==
  /\ states \in [States -> OAuthStateRecord \cup {Nothing}]
  /\ conn \in [Providers -> OAuthConnectionRecord]
  /\ checked \in [Providers -> Verdict]
  /\ flow \in [Callbacks -> {"idle", "exchanging", "done"}]
  /\ check \in [Checks -> {"idle", "asking", "done"}]
  /\ servers \in [Servers -> Verdict \cup {Nothing}]
  /\ probe \in [Probes -> {"idle", "asking", "done"}]
  /\ now \in Nat
  /\ minted \in [States -> OAuthStateRecord \cup {Nothing}]
  /\ entered \in [Callbacks -> Entry \cup {Nothing}]
  /\ linked \subseteq Providers
  /\ deleted \subseteq Servers
  /\ restarts \in Nat
  /\ \A f \in Callbacks :
       flow[f] = "exchanging" => Credentials[ProviderOf[f]] = "both"

\* phase9.py:356-357: every code exchange was let in by a state minted for that
\* provider no longer than STATE_TTL before, and no state let in two; a stored
\* token comes from such an exchange of its own provider.
ExchangeAuthorised ==
  /\ \A f \in Callbacks : entered[f] # Nothing =>
       LET m == minted[entered[f].state]
       IN /\ m # Nothing /\ m.provider = ProviderOf[f]
          /\ entered[f].at <= m.created_at + TTL
          /\ \A g \in Callbacks \ {f} : entered[g] # Nothing =>
               entered[g].state # entered[f].state
  /\ \A p \in Providers : HasToken(p) =>
       LET f == conn[p].access_token
       IN entered[f] # Nothing /\ ProviderOf[f] = p

\* A linked account is only given up by a disconnect or a restart: neither a
\* later authorisation that fails or never comes back nor a failed check, in
\* whatever order they end, leaves the provider without its token.
LinkKept ==
  [][\A p \in Providers :
       HasToken(p) /\ conn'[p].access_token = Nothing
         => Disconnect(p) \/ Restart]_conn

\* A provider the catalog shows as connected has been linked since the process
\* started, although a check reports on a token that may be gone by then.
ConnectedEarned ==
  \A p \in Providers : LiveStatus(p) = "connected" => p \in linked

\* A deleted MCP server does not come back with the result of a check that was
\* under way when it was deleted.
DeletedStaysDeleted == \A m \in deleted : servers[m] = Nothing

=============================================================================
