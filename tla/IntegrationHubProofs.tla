------------------------- MODULE IntegrationHubProofs -------------------------
(***************************************************************************)
(* What holds of the integration hub for any number of providers, states,  *)
(* callbacks, checks and servers, in whatever order the remote answers     *)
(* come, at any speed of the clock and over restarts.                      *)
(***************************************************************************)
EXTENDS IntegrationHub, TLAPS

-----------------------------------------------------------------------------
(* The invariant *)

\* A state that is kept is the one that was minted, and nobody came in by it.
StatesFresh ==
  \A s \in States : states[s] # Nothing =>
    /\ states[s] = minted[s]
    /\ \A f \in Callbacks : entered[f] # Nothing => entered[f].state # s

\* An exchange that began was let in by a state of its provider in time.
EntryOK(f) ==
  LET m == minted[entered[f].state]
  IN /\ m # Nothing /\ m.provider = ProviderOf[f]
     /\ entered[f].at <= m.created_at + TTL
     /\ \A g \in Callbacks \ {f} : entered[g] # Nothing =>
          entered[g].state # entered[f].state

EntriesOK == \A f \in Callbacks : entered[f] # Nothing => EntryOK(f)

\* An exchange under way, and a token that is stored, go back to an entry.
TokensOK ==
  /\ \A f \in Callbacks : flow[f] = "exchanging" => entered[f] # Nothing
  /\ \A p \in Providers : HasToken(p) =>
       /\ entered[conn[p].access_token] # Nothing
       /\ ProviderOf[conn[p].access_token] = p

\* A token, a good verdict and a check that asks all come from a link.
LinksOK ==
  /\ \A p \in Providers : HasToken(p) \/ checked[p] = "yes" => p \in linked
  /\ \A c \in Checks : check[c] = "asking" => CheckOf[c] \in linked

IInv == /\ TypeOK /\ StatesFresh /\ EntriesOK /\ TokensOK /\ LinksOK
        /\ DeletedStaysDeleted

-----------------------------------------------------------------------------
(* Lemmas *)

\* A connection record by its fields.
LEMMA ConnFields ==
  ASSUME TypeOK, NEW p \in Providers
  PROVE  /\ conn[p].access_token \in Callbacks \cup {Nothing}
         /\ conn[p].last_error \in BOOLEAN
         /\ conn[p] = [access_token |-> conn[p].access_token,
                       last_error |-> conn[p].last_error]
<1>1. conn[p] \in OAuthConnectionRecord
  BY DEF TypeOK
<1> QED BY <1>1 DEF OAuthConnectionRecord

\* record_failure leaves every token where it is.
LEMMA FailedKeepsTokens ==
  ASSUME TypeOK, NEW q \in Providers, Failed(q) \/ UNCHANGED conn
  PROVE  /\ conn' \in [Providers -> OAuthConnectionRecord]
         /\ \A p \in Providers : conn'[p].access_token = conn[p].access_token
<1>1. CASE Failed(q)
  <2>1. \A p \in Providers : p # q => conn'[p] = conn[p]
    BY <1>1 DEF Failed, TypeOK
  <2>2. conn'[q] = [conn[q] EXCEPT !.last_error = TRUE]
    BY <1>1 DEF Failed, TypeOK
  <2>3. conn'[q] = [access_token |-> conn[q].access_token, last_error |-> TRUE]
    BY <2>2, ConnFields
  <2>4. conn'[q] \in OAuthConnectionRecord
    <3>1. \A t \in Callbacks \cup {Nothing} :
            [access_token |-> t, last_error |-> TRUE] \in OAuthConnectionRecord
      BY DEF OAuthConnectionRecord
    <3> QED BY <2>3, <3>1, ConnFields
  <2>5. DOMAIN conn' = Providers /\ conn' = [p \in Providers |-> conn'[p]]
    BY <1>1 DEF Failed, TypeOK
  <2>6. \A p \in Providers : conn'[p] \in OAuthConnectionRecord
    BY <2>1, <2>4 DEF TypeOK
  <2> QED BY <2>1, <2>3, <2>5, <2>6
<1>2. CASE UNCHANGED conn
  BY <1>2 DEF TypeOK
<1> QED BY <1>1, <1>2

\* A record that the state store keeps, by its fields.
LEMMA StateFields ==
  ASSUME TypeOK, NEW s \in States, states[s] # Nothing
  PROVE  states[s].provider \in Providers /\ states[s].created_at \in Nat
<1>1. states[s] \in OAuthStateRecord
  BY DEF TypeOK
<1> QED BY <1>1 DEF OAuthStateRecord

\* Expiry only removes states.
LEMMA ExpiredFacts ==
  ASSUME TypeOK, NEW S \in SUBSET States
  PROVE  /\ Expired(S) \in [States -> OAuthStateRecord \cup {Nothing}]
         /\ \A s \in States : Expired(S)[s] # Nothing =>
              Expired(S)[s] = states[s] /\ s \notin S
BY DEF Expired, TypeOK

\* Steps that leave OAuth alone but for the clock.
LEMMA OAuthKept ==
  ASSUME StatesFresh, EntriesOK, TokensOK, UNCHANGED oauth
  PROVE  StatesFresh' /\ EntriesOK' /\ TokensOK'
BY DEF oauth, StatesFresh, EntriesOK, EntryOK, TokensOK, HasToken

-----------------------------------------------------------------------------
(* Init and the steps of the OAuth flow *)

LEMMA InitIInv == Init => IInv
<1> SUFFICES ASSUME Init PROVE IInv
  OBVIOUS
<1>1. \A p \in Providers : conn[p].access_token = Nothing
  BY DEF Init, Unlinked
<1>2. Unlinked \in OAuthConnectionRecord
  BY DEF Unlinked, OAuthConnectionRecord
<1>3. TypeOK
  BY <1>2, HubAssumption DEF Init, TypeOK, Verdict
<1> QED
  BY <1>1, <1>3 DEF Init, IInv, StatesFresh, EntriesOK, TokensOK, LinksOK,
     DeletedStaysDeleted, HasToken

\* A state is drawn once, so nobody can have come in by it before.
LEMMA AuthorizeIInv ==
  ASSUME IInv, NEW p \in Providers, NEW s \in States, Authorize(p, s)
  PROVE  IInv'
<1> USE DEF IInv
<1> DEFINE record == [provider |-> p, created_at |-> now]
<1>1. /\ minted[s] = Nothing
      /\ states' = [Expired({}) EXCEPT ![s] = record]
      /\ minted' = [minted EXCEPT ![s] = record]
      /\ UNCHANGED <<conn, flow, entered, linked, status, mcp, now, restarts>>
  BY DEF Authorize
<1>2. record \in OAuthStateRecord
  BY DEF TypeOK, OAuthStateRecord
<1> HIDE DEF record
<1>3. /\ Expired({}) \in [States -> OAuthStateRecord \cup {Nothing}]
      /\ \A t \in States : Expired({})[t] # Nothing => Expired({})[t] = states[t]
  BY ExpiredFacts
<1>4. \A t \in States : t # s =>
        minted'[t] = minted[t] /\ (states'[t] # Nothing => states'[t] = states[t])
  BY <1>1, <1>3 DEF TypeOK
<1>5. minted'[s] = record /\ states'[s] = record
  BY <1>1, <1>3 DEF TypeOK
<1>6. \A f \in Callbacks : entered[f] # Nothing => entered[f].state # s
  BY <1>1 DEF EntriesOK, EntryOK
<1>7. TypeOK'
  <2>1. /\ states' \in [States -> OAuthStateRecord \cup {Nothing}]
        /\ minted' \in [States -> OAuthStateRecord \cup {Nothing}]
    BY <1>1, <1>2, <1>3 DEF TypeOK
  <2> QED BY <1>1, <2>1 DEF TypeOK, status, mcp
<1>8. StatesFresh'
  BY <1>1, <1>4, <1>5, <1>6 DEF StatesFresh
<1>9. EntriesOK'
  <2> SUFFICES ASSUME NEW f \in Callbacks, entered[f] # Nothing
               PROVE  EntryOK(f)'
    BY <1>1 DEF EntriesOK
  <2>1. entered[f].state \in States
    <3>1. entered[f] \in Entry
      BY DEF TypeOK
    <3> QED BY <3>1 DEF Entry
  <2>2. minted'[entered[f].state] = minted[entered[f].state]
    BY <1>4, <1>6, <2>1
  <2> QED BY <1>1, <2>2 DEF EntriesOK, EntryOK
<1>10. TokensOK' /\ LinksOK' /\ DeletedStaysDeleted'
  BY <1>1 DEF TokensOK, LinksOK, DeletedStaysDeleted, HasToken, status, mcp
<1> QED BY <1>7, <1>8, <1>9, <1>10

LEMMA CallbackErrorIInv ==
  ASSUME IInv, NEW f \in Callbacks, CallbackError(f) PROVE IInv'
<1> USE DEF IInv
<1>1. /\ Failed(ProviderOf[f]) /\ flow' = [flow EXCEPT ![f] = "done"]
      /\ UNCHANGED <<states, minted, entered, linked, status, mcp, now, restarts>>
      /\ ProviderOf[f] \in Providers
  BY HubAssumption DEF CallbackError
<1>2. /\ conn' \in [Providers -> OAuthConnectionRecord]
      /\ \A p \in Providers : conn'[p].access_token = conn[p].access_token
  BY <1>1, FailedKeepsTokens
<1>3. \A g \in Callbacks : flow'[g] = "exchanging" => flow[g] = "exchanging"
  BY <1>1 DEF TypeOK
<1>4. TypeOK'
  <2>1. flow' \in [Callbacks -> {"idle", "exchanging", "done"}]
    BY <1>1 DEF TypeOK
  <2> QED BY <1>1, <1>2, <1>3, <2>1 DEF TypeOK, status, mcp
<1>5. StatesFresh' /\ EntriesOK'
  BY <1>1 DEF StatesFresh, EntriesOK, EntryOK
<1>6. TokensOK' /\ LinksOK' /\ DeletedStaysDeleted'
  BY <1>1, <1>2, <1>3
  DEF TokensOK, LinksOK, DeletedStaysDeleted, HasToken, status, mcp
<1> QED BY <1>4, <1>5, <1>6

\* The state is removed in the step that lets the callback in.
LEMMA CallbackIInv ==
  ASSUME IInv, NEW f \in Callbacks, NEW s \in States \cup {Nothing},
         NEW code \in BOOLEAN, Callback(f, s, code)
  PROVE  IInv'
<1> USE DEF IInv
<1>1. /\ states' \in [States -> OAuthStateRecord \cup {Nothing}]
      /\ \A t \in States : states'[t] # Nothing => states'[t] = states[t]
      /\ s # Nothing => \A t \in States : states'[t] # Nothing => t # s
  <2>1. CASE s = Nothing
    BY <2>1 DEF Callback, TypeOK
  <2>2. CASE s # Nothing
    <3>1. states' = Expired({s}) /\ {s} \in SUBSET States
      BY <2>2 DEF Callback
    <3> QED BY <3>1, ExpiredFacts
  <2> QED BY <2>1, <2>2
<1>2. UNCHANGED <<conn, minted, linked, status, mcp, now, restarts>>
  BY DEF Callback
<1>3. CASE ~Admitted(f, s, code)
  <2>1. flow' = [flow EXCEPT ![f] = "done"] /\ UNCHANGED entered
    BY <1>3 DEF Callback
  <2>2. \A g \in Callbacks : flow'[g] = "exchanging" => flow[g] = "exchanging"
    BY <2>1 DEF TypeOK
  <2>3. TypeOK'
    <3>1. flow' \in [Callbacks -> {"idle", "exchanging", "done"}]
      BY <2>1 DEF TypeOK
    <3> QED BY <1>1, <1>2, <2>1, <2>2, <3>1 DEF TypeOK, status, mcp
  <2>4. StatesFresh' /\ EntriesOK'
    BY <1>1, <1>2, <2>1 DEF StatesFresh, EntriesOK, EntryOK
  <2>5. TokensOK' /\ LinksOK' /\ DeletedStaysDeleted'
    BY <1>2, <2>1, <2>2
    DEF TokensOK, LinksOK, DeletedStaysDeleted, HasToken, status, mcp
  <2> QED BY <2>3, <2>4, <2>5
<1>4. CASE Admitted(f, s, code)
  <2> DEFINE entry == [state |-> s, at |-> now]
  <2>1. /\ flow' = [flow EXCEPT ![f] = "exchanging"]
        /\ entered' = [entered EXCEPT ![f] = entry]
    BY <1>4 DEF Callback
  <2>2. /\ s \in States /\ s # Nothing /\ Kept(s)
        /\ states[s].provider = ProviderOf[f]
        /\ Credentials[ProviderOf[f]] = "both"
    BY <1>4 DEF Admitted, Accepts
  <2>3. /\ states[s] # Nothing /\ states[s].created_at + TTL >= now
        /\ states[s].created_at \in Nat
    BY <2>2, StateFields DEF Kept
  <2>4. entry \in Entry /\ entry.state = s /\ entry.at = now
    BY <2>2 DEF Entry, TypeOK
  <2>5. entry # Nothing
    BY <2>4, NothingAssumption
  <2> HIDE DEF entry
  <2>6. /\ entered'[f] = entry
        /\ \A g \in Callbacks : g # f => entered'[g] = entered[g] /\ flow'[g] = flow[g]
    BY <2>1 DEF TypeOK
  <2>7. minted[s] = states[s]
        /\ \A g \in Callbacks : entered[g] # Nothing => entered[g].state # s
    BY <2>2, <2>3 DEF StatesFresh
  <2>8. TypeOK'
    <3>1. /\ flow' \in [Callbacks -> {"idle", "exchanging", "done"}]
          /\ entered' \in [Callbacks -> Entry \cup {Nothing}]
      BY <2>1, <2>4 DEF TypeOK
    <3>2. \A g \in Callbacks :
            flow'[g] = "exchanging" => Credentials[ProviderOf[g]] = "both"
      BY <2>2, <2>6 DEF TypeOK
    <3> QED BY <1>1, <1>2, <3>1, <3>2 DEF TypeOK, status, mcp
  <2>9. StatesFresh'
    BY <1>1, <1>2, <2>2, <2>4, <2>6 DEF StatesFresh
  <2>10. EntriesOK'
    <3>1. EntryOK(f)'
      <4>1. now <= states[s].created_at + TTL
        BY <2>3, HubAssumption DEF TypeOK
      <4> QED BY <1>2, <2>2, <2>3, <2>4, <2>6, <2>7, <4>1 DEF EntryOK
    <3>2. ASSUME NEW g \in Callbacks, g # f, entered'[g] # Nothing
          PROVE  EntryOK(g)'
      <4>1. EntryOK(g)
        BY <2>6, <3>2 DEF EntriesOK
      <4> QED BY <1>2, <2>4, <2>6, <2>7, <3>2, <4>1 DEF EntryOK
    <3> QED BY <3>1, <3>2 DEF EntriesOK
  <2>11. TokensOK' /\ LinksOK' /\ DeletedStaysDeleted'
    <3>1. \A p \in Providers : HasToken(p) => conn[p].access_token \in Callbacks
      BY ConnFields DEF HasToken
    <3>2. TokensOK'
      BY <1>2, <2>5, <2>6, <3>1 DEF TokensOK, HasToken
    <3> QED BY <1>2, <3>2 DEF LinksOK, DeletedStaysDeleted, HasToken, status, mcp
  <2> QED BY <2>8, <2>9, <2>10, <2>11
<1> QED BY <1>3, <1>4

LEMMA ExchangeFailsIInv ==
  ASSUME IInv, NEW f \in Callbacks, ExchangeFails(f) PROVE IInv'
<1> USE DEF IInv
<1>1. /\ Failed(ProviderOf[f]) \/ UNCHANGED conn
      /\ flow' = [flow EXCEPT ![f] = "done"]
      /\ UNCHANGED <<states, minted, entered, linked, status, mcp, now, restarts>>
      /\ ProviderOf[f] \in Providers
  BY HubAssumption DEF ExchangeFails
<1>2. /\ conn' \in [Providers -> OAuthConnectionRecord]
      /\ \A p \in Providers : conn'[p].access_token = conn[p].access_token
  BY <1>1, FailedKeepsTokens
<1>3. \A g \in Callbacks : flow'[g] = "exchanging" => flow[g] = "exchanging"
  BY <1>1 DEF TypeOK
<1>4. TypeOK'
  <2>1. flow' \in [Callbacks -> {"idle", "exchanging", "done"}]
    BY <1>1 DEF TypeOK
  <2> QED BY <1>1, <1>2, <1>3, <2>1 DEF TypeOK, status, mcp
<1>5. StatesFresh' /\ EntriesOK'
  BY <1>1 DEF StatesFresh, EntriesOK, EntryOK
<1>6. TokensOK' /\ LinksOK' /\ DeletedStaysDeleted'
  BY <1>1, <1>2, <1>3
  DEF TokensOK, LinksOK, DeletedStaysDeleted, HasToken, status, mcp
<1> QED BY <1>4, <1>5, <1>6

LEMMA ExchangeSucceedsIInv ==
  ASSUME IInv, NEW f \in Callbacks, ExchangeSucceeds(f) PROVE IInv'
<1> USE DEF IInv
<1> DEFINE q == ProviderOf[f]
           token == [access_token |-> f, last_error |-> FALSE]
<1>1. /\ flow[f] = "exchanging"
      /\ conn' = [conn EXCEPT ![q] = token]
      /\ linked' = linked \cup {q}
      /\ flow' = [flow EXCEPT ![f] = "done"]
      /\ UNCHANGED <<states, minted, entered, status, mcp, now, restarts>>
  BY DEF ExchangeSucceeds
<1>2. q \in Providers /\ token \in OAuthConnectionRecord /\ token.access_token = f
  BY HubAssumption DEF OAuthConnectionRecord
<1>3. entered[f] # Nothing
  BY <1>1 DEF TokensOK
<1> HIDE DEF token
<1>4. /\ conn'[q] = token
      /\ \A p \in Providers : p # q => conn'[p] = conn[p]
      /\ \A g \in Callbacks : flow'[g] = "exchanging" => flow[g] = "exchanging"
  BY <1>1, <1>2 DEF TypeOK
<1>5. TypeOK'
  <2>1. /\ flow' \in [Callbacks -> {"idle", "exchanging", "done"}]
        /\ conn' \in [Providers -> OAuthConnectionRecord]
        /\ linked' \subseteq Providers
    BY <1>1, <1>2 DEF TypeOK
  <2> QED BY <1>1, <1>4, <2>1 DEF TypeOK, status, mcp
<1>6. StatesFresh' /\ EntriesOK'
  BY <1>1 DEF StatesFresh, EntriesOK, EntryOK
<1>7. TokensOK'
  BY <1>1, <1>2, <1>3, <1>4 DEF TokensOK, HasToken
<1>8. LinksOK' /\ DeletedStaysDeleted'
  BY <1>1, <1>4 DEF LinksOK, DeletedStaysDeleted, HasToken, status, mcp
<1> QED BY <1>5, <1>6, <1>7, <1>8

LEMMA DisconnectIInv ==
  ASSUME IInv, NEW p \in Providers, Disconnect(p) PROVE IInv'
<1> USE DEF IInv
<1>1. /\ conn' = [conn EXCEPT ![p] = Unlinked]
      /\ UNCHANGED <<states, flow, minted, entered, linked, status, mcp, now, restarts>>
  BY DEF Disconnect
<1>2. Unlinked \in OAuthConnectionRecord /\ Unlinked.access_token = Nothing
  BY DEF Unlinked, OAuthConnectionRecord
<1>3. \A q \in Providers : conn'[q] = conn[q] \/ conn'[q].access_token = Nothing
  BY <1>1, <1>2 DEF TypeOK
<1>4. TypeOK'
  <2>1. conn' \in [Providers -> OAuthConnectionRecord]
    BY <1>1, <1>2 DEF TypeOK
  <2> QED BY <1>1, <2>1 DEF TypeOK, status, mcp
<1>5. StatesFresh' /\ EntriesOK'
  BY <1>1 DEF StatesFresh, EntriesOK, EntryOK
<1>6. TokensOK' /\ LinksOK' /\ DeletedStaysDeleted'
  BY <1>1, <1>3 DEF TokensOK, LinksOK, DeletedStaysDeleted, HasToken, status, mcp
<1> QED BY <1>4, <1>5, <1>6

-----------------------------------------------------------------------------
(* Checks, servers, time and restarts *)

\* A check that asks had a token to show, so its provider is linked.
LEMMA CheckBeginsIInv ==
  ASSUME IInv, NEW c \in Checks, CheckBegins(c) PROVE IInv'
<1> USE DEF IInv
<1>1. CheckOf[c] \in Providers /\ UNCHANGED <<oauth, mcp, now, restarts>>
  BY HubAssumption DEF CheckBegins
<1>2. /\ checked' \in [Providers -> Verdict]
      /\ \A p \in Providers : checked'[p] = "yes" => checked[p] = "yes"
  BY <1>1 DEF CheckBegins, Found, TypeOK, Verdict
<1>3. /\ check' \in [Checks -> {"idle", "asking", "done"}]
      /\ \A x \in Checks : check'[x] = "asking" =>
           check[x] = "asking" \/ (x = c /\ HasToken(CheckOf[c]))
  BY DEF CheckBegins, TypeOK
<1>4. TypeOK'
  BY <1>1, <1>2, <1>3 DEF TypeOK, oauth, mcp
<1>5. StatesFresh' /\ EntriesOK' /\ TokensOK'
  BY <1>1, OAuthKept
<1>6. LinksOK' /\ DeletedStaysDeleted'
  BY <1>1, <1>2, <1>3 DEF LinksOK, DeletedStaysDeleted, HasToken, oauth, mcp
<1> QED BY <1>4, <1>5, <1>6

LEMMA CheckEndsIInv ==
  ASSUME IInv, NEW c \in Checks, CheckEnds(c) PROVE IInv'
<1> USE DEF IInv
<1>1. /\ CheckOf[c] \in Providers /\ check[c] = "asking"
      /\ check' = [check EXCEPT ![c] = "done"]
      /\ UNCHANGED <<oauth, mcp, now, restarts>>
  BY HubAssumption DEF CheckEnds
<1>2. /\ checked' \in [Providers -> Verdict]
      /\ \A p \in Providers : p # CheckOf[c] => checked'[p] = checked[p]
  BY <1>1 DEF CheckEnds, Found, TypeOK, Verdict
<1>3. /\ check' \in [Checks -> {"idle", "asking", "done"}]
      /\ \A x \in Checks : check'[x] = "asking" => check[x] = "asking"
  BY <1>1 DEF TypeOK
<1>4. TypeOK'
  BY <1>1, <1>2, <1>3 DEF TypeOK, oauth, mcp
<1>5. StatesFresh' /\ EntriesOK' /\ TokensOK'
  BY <1>1, OAuthKept
<1>6. LinksOK' /\ DeletedStaysDeleted'
  BY <1>1, <1>2, <1>3 DEF LinksOK, DeletedStaysDeleted, HasToken, oauth, mcp
<1> QED BY <1>4, <1>5, <1>6

\* Registering, deleting and probing a server: its id is drawn once, and a
\* probe writes only to a server that is there.
ServerStep(m) == Register(m) \/ Delete(m)
ProbeStep(b) == ProbeBegins(b) \/ ProbeEnds(b)

LEMMA ServersIInv ==
  ASSUME IInv,
         \/ \E m \in Servers : ServerStep(m)
         \/ \E b \in Probes : ProbeStep(b)
  PROVE  IInv'
<1> USE DEF IInv
<1>1. UNCHANGED <<oauth, status, now, restarts>>
  BY DEF ServerStep, ProbeStep, Register, Delete, ProbeBegins, ProbeEnds
<1>2. /\ servers' \in [Servers -> Verdict \cup {Nothing}]
      /\ probe' \in [Probes -> {"idle", "asking", "done"}]
      /\ deleted' \subseteq Servers
      /\ DeletedStaysDeleted'
  <2>1. ASSUME NEW m \in Servers, Register(m) PROVE <1>2!:
    BY <2>1 DEF Register, TypeOK, Verdict, DeletedStaysDeleted
  <2>2. ASSUME NEW m \in Servers, Delete(m) PROVE <1>2!:
    BY <2>2 DEF Delete, TypeOK, DeletedStaysDeleted
  <2>3. ASSUME NEW b \in Probes, ProbeBegins(b) PROVE <1>2!:
    BY <2>3 DEF ProbeBegins, TypeOK, DeletedStaysDeleted
  <2>4. ASSUME NEW b \in Probes, ProbeEnds(b) PROVE <1>2!:
    <3>1. ProbeOf[b] \in Servers
      BY HubAssumption
    <3> QED BY <2>4, <3>1 DEF ProbeEnds, TypeOK, Verdict, DeletedStaysDeleted
  <2> QED BY <2>1, <2>2, <2>3, <2>4 DEF ServerStep, ProbeStep
<1>3. TypeOK'
  BY <1>1, <1>2 DEF TypeOK, oauth, status
<1>4. StatesFresh' /\ EntriesOK' /\ TokensOK'
  BY <1>1, OAuthKept
<1>5. LinksOK'
  BY <1>1 DEF LinksOK, HasToken, oauth, status
<1> QED BY <1>2, <1>3, <1>4, <1>5

LEMMA TickIInv == ASSUME IInv, Tick PROVE IInv'
<1> USE DEF IInv
<1>1. now' \in Nat /\ UNCHANGED <<oauth, status, mcp, restarts>>
  BY DEF Tick, TypeOK
<1>2. TypeOK'
  BY <1>1 DEF TypeOK, oauth, status, mcp
<1>3. StatesFresh' /\ EntriesOK' /\ TokensOK'
  BY <1>1, OAuthKept
<1>4. LinksOK' /\ DeletedStaysDeleted'
  BY <1>1 DEF LinksOK, DeletedStaysDeleted, HasToken, oauth, status, mcp
<1> QED BY <1>2, <1>3, <1>4

LEMMA RestartIInv == ASSUME IInv, Restart PROVE IInv'
<1> USE DEF IInv
<1>1. /\ restarts' \in Nat
      /\ states' = [s \in States |-> Nothing]
      /\ conn' = [p \in Providers |-> Unlinked]
      /\ checked' = [p \in Providers |-> "unknown"]
      /\ servers' = [m \in Servers |-> Nothing]
      /\ deleted' \subseteq Servers
      /\ linked' = {}
      /\ UNCHANGED <<minted, entered, now>>
  BY DEF Restart, TypeOK
<1>2. /\ flow' \in [Callbacks -> {"idle", "done"}]
      /\ check' \in [Checks -> {"idle", "done"}]
      /\ probe' \in [Probes -> {"idle", "done"}]
  BY DEF Restart, Cut, TypeOK
<1>3. Unlinked \in OAuthConnectionRecord /\ Unlinked.access_token = Nothing
  BY DEF Unlinked, OAuthConnectionRecord
<1>4. TypeOK'
  BY <1>1, <1>2, <1>3 DEF TypeOK, Verdict
<1>5. StatesFresh' /\ EntriesOK'
  BY <1>1 DEF StatesFresh, EntriesOK, EntryOK
<1>6. TokensOK' /\ LinksOK' /\ DeletedStaysDeleted'
  BY <1>1, <1>2, <1>3 DEF TokensOK, LinksOK, DeletedStaysDeleted, HasToken
<1> QED BY <1>4, <1>5, <1>6

LEMMA StepIInv == IInv /\ [Next]_vars => IInv'
<1> SUFFICES ASSUME IInv, [Next]_vars PROVE IInv'
  OBVIOUS
<1>1. ASSUME NEW p \in Providers, NEW s \in States, Authorize(p, s) PROVE IInv'
  BY <1>1, AuthorizeIInv
<1>2. ASSUME NEW f \in Callbacks, NEW s \in States \cup {Nothing},
             NEW code \in BOOLEAN, Callback(f, s, code)
      PROVE  IInv'
  BY <1>2, CallbackIInv
<1>3. ASSUME NEW f \in Callbacks,
             CallbackError(f) \/ ExchangeFails(f) \/ ExchangeSucceeds(f)
      PROVE  IInv'
  BY <1>3, CallbackErrorIInv, ExchangeFailsIInv, ExchangeSucceedsIInv
<1>4. ASSUME NEW p \in Providers, Disconnect(p) PROVE IInv'
  BY <1>4, DisconnectIInv
<1>5. ASSUME NEW c \in Checks, CheckBegins(c) \/ CheckEnds(c) PROVE IInv'
  BY <1>5, CheckBeginsIInv, CheckEndsIInv
<1>6. ASSUME \/ \E m \in Servers : Register(m) \/ Delete(m)
             \/ \E b \in Probes : ProbeBegins(b) \/ ProbeEnds(b)
      PROVE  IInv'
  BY <1>6, ServersIInv DEF ServerStep, ProbeStep
<1>7. CASE Tick
  BY <1>7, TickIInv
<1>8. CASE Restart
  BY <1>8, RestartIInv
<1>9. CASE UNCHANGED vars
  <2>1. UNCHANGED <<oauth, status, mcp, now, restarts>>
    BY <1>9 DEF vars
  <2>2. TypeOK'
    BY <2>1 DEF IInv, TypeOK, oauth, status, mcp
  <2>3. StatesFresh' /\ EntriesOK' /\ TokensOK'
    BY <2>1, OAuthKept DEF IInv
  <2>4. LinksOK' /\ DeletedStaysDeleted'
    BY <2>1 DEF IInv, LinksOK, DeletedStaysDeleted, HasToken, oauth, status, mcp
  <2> QED BY <2>2, <2>3, <2>4 DEF IInv
<1> QED
  BY <1>1, <1>2, <1>3, <1>4, <1>5, <1>6, <1>7, <1>8, <1>9 DEF Next, Rest

LEMMA Inductive == Spec => []IInv
BY InitIInv, StepIInv, PTL DEF Spec

-----------------------------------------------------------------------------
(* The theorems *)

\* Every variable keeps its kind, and an exchange under way has its client
\* secret (oauth/service.py:73-75).
THEOREM TypeCorrect == Spec => []TypeOK
<1>1. IInv => TypeOK
  BY DEF IInv
<1> QED BY <1>1, Inductive, PTL

\* Every exchange was let in by a state of its own provider, in time and by no
\* other callback, and every token comes from an exchange of its provider
\* (phase9.py:386, oauth/store.py:20-39, oauth/service.py:98).
THEOREM ExchangeAuthorisedHolds == Spec => []ExchangeAuthorised
<1>1. IInv => ExchangeAuthorised
  BY DEF IInv, EntriesOK, EntryOK, TokensOK, ExchangeAuthorised
<1> QED BY <1>1, Inductive, PTL

\* An account that is linked is given up only by a disconnect or a restart,
\* whatever fails meanwhile (oauth/store.py:61-63).
THEOREM LinkKeptHolds == Spec => LinkKept
<1> DEFINE Keeps == \A p \in Providers :
             HasToken(p) /\ conn'[p].access_token = Nothing
               => Disconnect(p) \/ Restart
<1>1. ASSUME IInv, [Next]_vars PROVE [Keeps]_conn
  <2> SUFFICES ASSUME NEW p \in Providers, HasToken(p),
                      conn'[p].access_token = Nothing, ~Restart
               PROVE  Disconnect(p)
    OBVIOUS
  <2> USE DEF IInv
  <2>1. ~ UNCHANGED conn
    BY DEF HasToken
  <2>2. ASSUME NEW f \in Callbacks, CallbackError(f) \/ ExchangeFails(f)
        PROVE  FALSE
    <3>1. Failed(ProviderOf[f]) \/ UNCHANGED conn
      BY <2>2 DEF CallbackError, ExchangeFails
    <3>2. ProviderOf[f] \in Providers
      BY HubAssumption
    <3>3. TypeOK
      BY <1>1
    <3>4. conn'[p].access_token = conn[p].access_token
      BY <3>1, <3>2, <3>3, FailedKeepsTokens
    <3> QED BY <3>4 DEF HasToken
  <2>3. ASSUME NEW f \in Callbacks, ExchangeSucceeds(f) PROVE FALSE
    <3> DEFINE token == [access_token |-> f, last_error |-> FALSE]
    <3>1. token.access_token # Nothing
      BY HubAssumption
    <3> HIDE DEF token
    <3>2. conn' = [conn EXCEPT ![ProviderOf[f]] = token]
      BY <2>3 DEF ExchangeSucceeds, token
    <3>3. conn'[p] = conn[p] \/ conn'[p] = token
      BY <1>1, <3>2 DEF TypeOK
    <3> QED BY <3>1, <3>3 DEF HasToken
  <2>4. ASSUME NEW q \in Providers, Disconnect(q) PROVE q = p
    BY <1>1, <2>4 DEF Disconnect, HasToken, TypeOK
  <2>5. ASSUME \/ \E q \in Providers, s \in States : Authorize(q, s)
               \/ \E f \in Callbacks : \E s \in States \cup {Nothing},
                                         code \in BOOLEAN : Callback(f, s, code)
        PROVE  FALSE
    BY <2>1, <2>5 DEF Authorize, Callback
  <2>6. ASSUME \/ \E c \in Checks : CheckBegins(c) \/ CheckEnds(c)
               \/ \E m \in Servers : Register(m) \/ Delete(m)
               \/ \E b \in Probes : ProbeBegins(b) \/ ProbeEnds(b)
               \/ Tick \/ Rest \/ UNCHANGED vars
        PROVE  FALSE
    <3>1. UNCHANGED oauth
      BY <2>6 DEF CheckBegins, CheckEnds, Register, Delete, ProbeBegins,
                  ProbeEnds, Tick, Rest, vars
    <3> QED BY <2>1, <3>1 DEF oauth
  <2> QED BY <1>1, <2>2, <2>3, <2>4, <2>5, <2>6 DEF Next
<1> QED BY <1>1, Inductive, PTL DEF Spec, LinkKept

\* A provider shown as connected was linked since the process started, though
\* checks report late (phase9.py:321-322).
THEOREM ConnectedEarnedHolds == Spec => []ConnectedEarned
<1>1. IInv => ConnectedEarned
  BY DEF IInv, LinksOK, LiveStatus, ConnectedEarned
<1> QED BY <1>1, Inductive, PTL

\* No probe brings a deleted server back (phase9.py:289-291).
THEOREM DeletedStaysDeletedHolds == Spec => []DeletedStaysDeleted
<1>1. IInv => DeletedStaysDeleted
  BY DEF IInv
<1> QED BY <1>1, Inductive, PTL

=============================================================================
