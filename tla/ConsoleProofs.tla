----------------------------- MODULE ConsoleProofs -----------------------------
(***************************************************************************)
(* What holds of the console's requests, of its connector page and of its  *)
(* workflow editor.  First ConsoleCache: where requests may go and what    *)
(* their answers may show, for any hosts, reads, writes and addresses      *)
(* typed, and any number of changes, failures, saves and reloads.  Then    *)
(* ConnectorPage: for any catalog, servers, searches and answers, and any  *)
(* number of acts of the operator and of returns from a provider.  Last    *)
(* WorkflowEditor: for any ids, steps and edges drawn, changed and removed *)
(* in any order, and any order in which the validators walk them.          *)
(***************************************************************************)
EXTENDS ConsoleCache, ConnectorPage, WorkflowEditor, FiniteSetTheorems,
        SequenceTheorems, TLAPS

-----------------------------------------------------------------------------
(* Requests: the invariant *)

\* A backend that a request may go to, from this host and after what was typed.
Fits(base) == base # build =>
  /\ base = "loopback" => host = "local"
  /\ base = "production" =>
       EnvironmentLabel(host) = "none" \/ "production" \in typed

\* The loopback may be stored on any host: GetApiBaseUrl does not use it there.
\* A development build runs on a local one.
StoredFits ==
  /\ build = "dev" => host = "local"
  /\ storage.url = "production" /\ build # "production" =>
       EnvironmentLabel(host) = "none" \/ "production" \in typed

Shape(r) ==
  r = [hook |-> r.hook, base |-> r.base, key |-> r.key, got |-> r.got,
       tries |-> r.tries]

RequestFits(r) == Shape(r) /\ Fits(r.base)

RequestsInv == StoredFits /\ RequestFits(fetch) /\ RequestFits(write)

-----------------------------------------------------------------------------
(* Addresses and requests *)

\* The default of a host, and the address in use, fit.
LEMMA DefaultFits == ASSUME StoredFits PROVE Fits(DefaultBase)
  BY DEF StoredFits, Fits, DefaultBase, ComputeApiBaseUrl, EnvironmentLabel

LEMMA AddressInUseFits == ASSUME StoredFits PROVE Fits(GetApiBaseUrl)
  BY DefaultFits DEF Fits, StoredFits, GetApiBaseUrl, UsableOverride

\* So does a request that starts now, or none.
LEMMA NewRequestFits ==
  ASSUME StoredFits, NEW hook PROVE RequestFits(Request(hook))
  BY AddressInUseFits DEF RequestFits, Shape, Request

LEMMA NoRequestFits == RequestFits(NoRequest)
  BY DEF RequestFits, Shape, NoRequest, Fits

\* What becomes of a request does not change where it goes.
LEMMA GotKeepsAddress ==
  ASSUME NEW r, RequestFits(r), NEW outcome
  PROVE  RequestFits([r EXCEPT !.got = outcome])
<1> DEFINE q == [r EXCEPT !.got = outcome]
<1>1. Shape(r) BY DEF RequestFits
<1>2. q = [hook |-> r.hook, base |-> r.base, key |-> r.key, got |-> outcome,
           tries |-> r.tries]
  BY <1>1 DEF Shape
<1>3. Shape(q) /\ q.base = r.base
  BY <1>2 DEF Shape
<1> QED BY <1>3 DEF RequestFits

LEMMA RetryKeepsAddress ==
  ASSUME StoredFits, NEW hook, NEW n
  PROVE  RequestFits([Request(hook) EXCEPT !.tries = n])
<1>1. [Request(hook) EXCEPT !.tries = n]
        = [hook |-> hook, base |-> GetApiBaseUrl,
           key |-> Hooks[hook].keyed /\ storage.key, got |-> Pending, tries |-> n]
  BY DEF Request
<1>2. Shape([Request(hook) EXCEPT !.tries = n])
      /\ [Request(hook) EXCEPT !.tries = n].base = GetApiBaseUrl
  BY <1>1 DEF Shape
<1> QED BY <1>2, AddressInUseFits DEF RequestFits

\* While host and build stay, what fits goes on to fit; typing more keeps it so.
LEMMA FitsLater ==
  ASSUME UNCHANGED <<host, build>>, typed \subseteq typed', NEW r, RequestFits(r)
  PROVE  Shape(r) /\ (r.base # build' =>
           /\ r.base = "loopback" => host' = "local"
           /\ r.base = "production" =>
                EnvironmentLabel(host') = "none" \/ "production" \in typed')
  BY DEF RequestFits, Fits

-----------------------------------------------------------------------------
(* The steps *)

LEMMA RequestsInitially == Init => RequestsInv
<1> SUFFICES ASSUME Init PROVE RequestsInv OBVIOUS
<1>1. StoredFits BY DEF Init, StoredFits
<1> QED BY <1>1, NoRequestFits DEF Init, RequestsInv

\* A step that leaves the settings alone: both requests must fit as before.
LEMMA SameSettings ==
  ASSUME RequestsInv, UNCHANGED settings, RequestFits(fetch'), RequestFits(write')
  PROVE  RequestsInv'
  BY DEF RequestsInv, settings, StoredFits, RequestFits, Shape, Fits, EnvironmentLabel

\* Fetches that start or go on.
LEMMA StartFits ==
  ASSUME RequestsInv, StartFetch PROVE RequestFits(fetch')
  BY NewRequestFits DEF RequestsInv, StartFetch

LEMMA ReadSteps ==
  ASSUME RequestsInv, Mount \/ Unmount \/ Age \/ Collect \/ Poll \/ Refetch
               \/ FetchAnswered \/ FetchLost \/ FetchStalls \/ FetchSettles
  PROVE  RequestsInv'
<1> USE DEF RequestsInv
<1>1. CASE Mount
  <2>1. RequestFits(fetch') BY <1>1, StartFits DEF Mount
  <2> QED BY <1>1, <2>1, SameSettings DEF Mount
<1>2. CASE Unmount \/ Age \/ Collect
  BY <1>2, SameSettings DEF Unmount, Age, Collect
<1>3. CASE Poll
  <2>1. RequestFits(fetch') BY <1>3, StartFits DEF Poll
  <2> QED BY <1>3, <2>1, SameSettings DEF Poll
<1>4. CASE Refetch
  <2>1. RequestFits(fetch') BY <1>4, StartFits DEF Refetch, Restart
  <2> QED BY <1>4, <2>1, SameSettings DEF Refetch
<1>5. CASE FetchAnswered
  <2>1. RequestFits(fetch') BY <1>5, GotKeepsAddress DEF FetchAnswered
  <2> QED BY <1>5, <2>1, SameSettings DEF FetchAnswered
<1>6. CASE FetchLost
  <2>1. RequestFits(fetch') BY <1>6, GotKeepsAddress DEF FetchLost
  <2> QED BY <1>6, <2>1, SameSettings DEF FetchLost
<1>7. CASE FetchStalls
  <2>1. RequestFits(fetch') BY <1>7, GotKeepsAddress DEF FetchStalls
  <2> QED BY <1>7, <2>1, SameSettings DEF FetchStalls
<1>8. CASE FetchSettles
  <2>1. RequestFits(fetch')
    BY <1>8, RetryKeepsAddress, NoRequestFits DEF FetchSettles
  <2> QED BY <1>8, <2>1, SameSettings DEF FetchSettles
<1> QED BY <1>1, <1>2, <1>3, <1>4, <1>5, <1>6, <1>7, <1>8

LEMMA WriteSteps ==
  ASSUME RequestsInv, (\E hook \in WriteHooks : SendWrite(hook))
               \/ WriteAnswered \/ WriteLost \/ WriteSettles
  PROVE  RequestsInv'
<1> USE DEF RequestsInv
<1>1. CASE \E hook \in WriteHooks : SendWrite(hook)
  <2>1. RequestFits(write') BY <1>1, NewRequestFits DEF SendWrite
  <2> QED BY <1>1, <2>1, SameSettings DEF SendWrite
<1>2. CASE WriteAnswered
  <2>1. RequestFits(write') BY <1>2, GotKeepsAddress DEF WriteAnswered
  <2> QED BY <1>2, <2>1, SameSettings DEF WriteAnswered
<1>3. CASE WriteLost
  <2>1. RequestFits(write') BY <1>3, GotKeepsAddress DEF WriteLost
  <2> QED BY <1>3, <2>1, SameSettings DEF WriteLost
<1>4. CASE WriteSettles
  <2>1. RequestFits(fetch')
    BY <1>4, NewRequestFits DEF WriteSettles, Refresh
  <2>2. RequestFits(write') BY <1>4, NoRequestFits DEF WriteSettles
  <2> QED BY <1>4, <2>1, <2>2, SameSettings DEF WriteSettles
<1> QED BY <1>1, <1>2, <1>3, <1>4

LEMMA BackendSteps ==
  ASSUME RequestsInv, ServerChanges \/ ServerFails \/ \E b \in Bases : ServerReturns(b)
  PROVE  RequestsInv'
  BY SameSettings DEF RequestsInv, ServerChanges, ServerFails, ServerReturns

-----------------------------------------------------------------------------
(* The settings *)

\* An address that is saved without being typed is the one in use, or the default.
LEMMA SavedFits ==
  ASSUME RequestsInv, NEW url \in Urls \cup {"none", GetApiBaseUrl}, NEW key \in BOOLEAN,
         SaveSettings(url, key)
  PROVE  RequestsInv'
<1>1. UNCHANGED <<host, build>> /\ typed \subseteq typed' /\ UNCHANGED <<fetch, write>>
  BY DEF SaveSettings, Store
<1>2. storage'.url = (IF url = "none" THEN DefaultBase ELSE url)
  BY DEF SaveSettings, Store
<1>3. StoredFits'
  <2> SUFFICES ASSUME storage'.url = "production", build' # "production"
               PROVE  EnvironmentLabel(host') = "none" \/ "production" \in typed'
    BY <1>1 DEF RequestsInv, StoredFits
  <2>1. CASE url = "none"
    BY <1>1, <1>2, <2>1, DefaultFits DEF RequestsInv, Fits
  <2>2. CASE url # "none" /\ url = GetApiBaseUrl
    BY <1>1, <1>2, <2>2, AddressInUseFits DEF RequestsInv, Fits
  <2>3. CASE url # "none" /\ url # GetApiBaseUrl
    <3>1. url = "production" BY <1>2, <2>3
    <3> QED BY <2>3, <3>1 DEF SaveSettings
  <2> QED BY <2>1, <2>2, <2>3
<1>4. RequestFits(fetch)' /\ RequestFits(write)'
  BY <1>1, FitsLater DEF RequestsInv, RequestFits, Fits, Shape, EnvironmentLabel
<1> QED BY <1>3, <1>4 DEF RequestsInv

LEMMA SettingsSteps ==
  ASSUME RequestsInv, ClearSession \/ ResetApiUrl \/ Reload
               \/ \E url \in Urls \cup {"none", GetApiBaseUrl}, key \in BOOLEAN :
                    SaveSettings(url, key)
  PROVE  RequestsInv'
<1>1. CASE ClearSession
  <2>1. UNCHANGED <<host, build, typed, fetch, write>> /\ storage'.url = DefaultBase
    BY <1>1 DEF ClearSession, Store
  <2> QED BY <2>1, DefaultFits
        DEF RequestsInv, StoredFits, RequestFits, Shape, Fits, EnvironmentLabel
<1>2. CASE ResetApiUrl
  <2>1. UNCHANGED <<host, build, typed, write>> /\ storage'.url = DefaultBase
    BY <1>2 DEF ResetApiUrl, Store
  <2>2. fetch' = [hook |-> read, base |-> DefaultBase,
                  key |-> Hooks[read].keyed /\ storage.key, got |-> Pending, tries |-> 0]
    BY <1>2 DEF ResetApiUrl, Request
  <2>3. Shape(fetch') /\ fetch'.base = DefaultBase
    BY <2>2 DEF Shape
  <2> QED BY <2>1, <2>3, DefaultFits
        DEF RequestsInv, StoredFits, RequestFits, Shape, Fits, EnvironmentLabel
<1>3. CASE Reload
  BY <1>3, NoRequestFits, SameSettings DEF Reload, RequestsInv
<1>4. CASE \E url \in Urls \cup {"none", GetApiBaseUrl}, key \in BOOLEAN :
             SaveSettings(url, key)
  BY <1>4, SavedFits
<1> QED BY <1>1, <1>2, <1>3, <1>4

LEMMA RequestsStutter == ASSUME RequestsInv, UNCHANGED vars PROVE RequestsInv'
  BY SameSettings DEF vars, settings, RequestsInv

\* Every request of the console goes where RequestsInv says.
THEOREM RequestsFit == Spec => []RequestsInv
<1>1. RequestsInv /\ [Next]_vars => RequestsInv'
  BY ReadSteps, WriteSteps, BackendSteps, SettingsSteps, RequestsStutter DEF Next
<1> QED BY RequestsInitially, <1>1, PTL DEF Spec

\* config.ts:16-28 and 56-66: whatever is typed, saved, cleared or lost, no
\* request leaves an https page for the loopback, and none of a page with a
\* badge goes to production before the operator typed that address, unless the
\* page was built for that backend.
THEOREM AddressFitsHolds == Spec => []AddressFits
<1>1. RequestsInv => AddressFits
  BY DEF RequestsInv, RequestFits, Fits, AddressFits
<1> QED BY RequestsFit, <1>1, PTL

-----------------------------------------------------------------------------
(* What the answers show *)

Versioned(s) == s \in [Bases -> [up : BOOLEAN, version : Nat]]

\* An outcome that backends may have given: a key is asked for by one that has
\* a key, and data are no newer than the backend's.
Sound(o, s) ==
  /\ o.kind = "unauthorized" => o.base \in KeySet
  /\ o.kind = "data" =>
       o.base \in Bases /\ o.version \in Nat /\ o.version <= s[o.base].version

\* Data that a write which was answered is seen in.
Current(o, w) == o.base = w.base => o.version >= w.version

\* A request that has no answer yet goes to a backend.
Sent(r) == Shape(r) /\ (r.got = Pending => r.base \in Bases)

Entered(e) == e = [data |-> e.data, error |-> e.error, fresh |-> e.fresh]

\* WriteIsSeen, of one entry.
Seen(e, m, f, w) ==
  e.fresh \/ (m /\ f = NoRequest /\ e.error = Nothing /\ e.data # Nothing)
    => Current(e.data, w)

\* Besides: the fetch that a write has not replaced is answered with the write,
\* or was answered with it.
SeenInv ==
  /\ Versioned(server)
  /\ Sent(fetch) /\ Sound(fetch.got, server)
  /\ Sent(write) /\ Sound(write.got, server)
  /\ Entered(entry) /\ Sound(entry.error, server)
  /\ owed = Nothing \/ (owed.kind = "data" /\ Sound(owed, server))
  /\ fetch.got.kind = "data" => Current(fetch.got, owed)
  /\ Seen(entry, mounted, fetch, owed)

LEMMA SeenIsWriteIsSeen == Seen(entry, mounted, fetch, owed) <=> WriteIsSeen
  BY DEF Seen, Current, WriteIsSeen, Panel

-----------------------------------------------------------------------------
(* Requests and outcomes *)

\* Nothing, a request under way and one that stalls show nothing.
LEMMA QuietOutcomes ==
  ASSUME NEW s, NEW o \in {Nothing, Pending, Stalled}
  PROVE  Sound(o, s) /\ o.kind # "data"
  BY DEF Nothing, Pending, Stalled, Outcome, Sound

Asking(r) == Sent(r) /\ r.got = Pending

LEMMA AskingIsRequest == ASSUME NEW r, Asking(r) PROVE r # NoRequest
  BY DEF Asking, NoRequest, Nothing, Pending, Outcome

LEMMA RequestAsks ==
  ASSUME NEW hook, NEW n
  PROVE  /\ Asking(Request(hook))
         /\ Asking([Request(hook) EXCEPT !.tries = n])
         /\ Asking([Request(hook) EXCEPT !.base = DefaultBase])
<1> DEFINE R(b, k, t) == [hook |-> hook, base |-> b, key |-> k, got |-> Pending,
                          tries |-> t]
           key == Hooks[hook].keyed /\ storage.key
<1>1. DefaultBase \in Bases /\ GetApiBaseUrl \in Bases
  BY DEF DefaultBase, GetApiBaseUrl, ComputeApiBaseUrl, Bases
<1>2. ASSUME NEW b \in Bases, NEW k, NEW t PROVE Asking(R(b, k, t))
  BY DEF Asking, Sent, Shape
<1>3. /\ Request(hook) = R(GetApiBaseUrl, key, 0)
      /\ [Request(hook) EXCEPT !.tries = n] = R(GetApiBaseUrl, key, n)
      /\ [Request(hook) EXCEPT !.base = DefaultBase] = R(DefaultBase, key, 0)
  BY DEF Request
<1> HIDE DEF R, key
<1> QED BY <1>1, <1>2, <1>3

LEMMA NoRequestSent == Sent(NoRequest) /\ NoRequest.got = Nothing
  BY DEF NoRequest, Sent, Shape, Nothing, Pending, Outcome

\* What becomes of a request is kept beside what was asked.
LEMMA GotKept ==
  ASSUME NEW r, Sent(r), NEW o, o # Pending
  PROVE  LET q == [r EXCEPT !.got = o] IN Sent(q) /\ q.got = o
<1> DEFINE q == [r EXCEPT !.got = o]
<1>1. r = [hook |-> r.hook, base |-> r.base, key |-> r.key, got |-> r.got,
           tries |-> r.tries]
  BY DEF Sent, Shape
<1>2. q = [hook |-> r.hook, base |-> r.base, key |-> r.key, got |-> o,
           tries |-> r.tries]
  BY <1>1
<1>3. q.got = o /\ Shape(q) BY <1>2 DEF Shape
<1> QED BY <1>3 DEF Sent

\* Only a backend that has a key misses one, and data have its version.
LEMMA ReplyIs ==
  ASSUME NEW r, NEW v
  PROVE  LET o == Reply(r, v) IN
         /\ o # Pending /\ o # Nothing
         /\ o.kind = "unauthorized" => o.base \in KeySet
         /\ o.kind = "data" => o.base = r.base /\ o.version = v
  BY DEF Reply, Outcome, Pending, Nothing

LEMMA LossIs ==
  ASSUME NEW r, NEW o \in Losses(r), NEW s
  PROVE  o # Pending /\ o # Nothing /\ o.kind # "data" /\ Sound(o, s)
  BY DEF Losses, Outcome, Pending, Nothing, Sound

\* What could have been answered could still have been when data have changed.
LEMMA SoundLater ==
  ASSUME NEW s, NEW later, Versioned(s), Versioned(later),
         \A b \in Bases : s[b].version <= later[b].version,
         NEW o, Sound(o, s)
  PROVE  Sound(o, later)
  BY DEF Sound, Versioned

\* A change of one backend.
LEMMA OneBackend ==
  ASSUME Versioned(server), NEW b \in Bases
  PROVE  /\ \A up \in BOOLEAN :
              LET s == [server EXCEPT ![b].up = up]
              IN Versioned(s) /\ \A x \in Bases : server[x].version <= s[x].version
         /\ LET s == [server EXCEPT ![b].version = @ + 1]
            IN /\ Versioned(s) /\ \A x \in Bases : server[x].version <= s[x].version
               /\ s[b].version = server[b].version + 1
  BY DEF Versioned

-----------------------------------------------------------------------------
(* The steps *)

LEMMA SeenInitially == Init => SeenInv
<1> SUFFICES ASSUME Init PROVE SeenInv OBVIOUS
<1>1. Versioned(server) BY DEF Init, Versioned
<1>2. Entered(entry) /\ entry.error = Nothing /\ ~entry.fresh
  BY DEF Init, EmptyEntry, Entered
<1>3. Seen(entry, mounted, fetch, owed)
  BY <1>2 DEF Init, Seen
<1> QED BY <1>1, <1>2, <1>3, NoRequestSent, QuietOutcomes DEF Init, SeenInv

\* Steps of the read: the backends, the write and what is owed stay.
aside == <<server, write, owed>>

LEMMA StartKeeps ==
  ASSUME SeenInv, UNCHANGED aside, Asking(fetch'), entry' \in {entry, EmptyEntry}
  PROVE  SeenInv'
<1> USE DEF SeenInv, aside
<1>1. fetch' # NoRequest BY AskingIsRequest
<1>2. Sound(fetch'.got, server) /\ fetch'.got.kind # "data"
  BY QuietOutcomes DEF Asking
<1>3. Entered(entry') /\ Sound(entry'.error, server) /\ (entry'.fresh => entry' = entry)
  BY QuietOutcomes DEF Entered, EmptyEntry
<1>4. Seen(entry', mounted', fetch', owed') BY <1>1, <1>3 DEF Seen
<1> QED BY <1>2, <1>3, <1>4 DEF Asking

LEMMA StartFetchKeeps ==
  ASSUME SeenInv, UNCHANGED aside, StartFetch PROVE SeenInv'
  BY StartKeeps, RequestAsks DEF StartFetch

LEMMA ScreenSteps ==
  ASSUME SeenInv, Mount \/ Unmount \/ Age \/ Collect \/ Poll \/ Refetch
  PROVE  SeenInv'
<1> USE DEF SeenInv
<1>1. CASE Mount
  <2>1. CASE fetch = NoRequest /\ ~entry.fresh
    BY <1>1, <2>1, StartFetchKeeps DEF Mount, aside
  <2>2. CASE ~(fetch = NoRequest /\ ~entry.fresh)
    <3>1. UNCHANGED <<server, entry, fetch, write, owed>> BY <1>1, <2>2 DEF Mount
    <3>2. Seen(entry, mounted', fetch, owed) BY <2>2 DEF Seen
    <3> QED BY <3>1, <3>2
  <2> QED BY <2>1, <2>2
<1>2. CASE Unmount
  <2>1. Seen(entry, mounted', fetch, owed) BY <1>2 DEF Unmount, Seen
  <2> QED BY <1>2, <2>1 DEF Unmount
<1>3. CASE Age
  <2>1. entry' = [data |-> entry.data, error |-> entry.error, fresh |-> FALSE]
    BY <1>3 DEF Age, Entered
  <2>2. Entered(entry') /\ entry'.error = entry.error BY <2>1 DEF Entered
  <2>3. Seen(entry', mounted, fetch, owed) BY <1>3, <2>1 DEF Age, Seen
  <2> QED BY <1>3, <2>2, <2>3 DEF Age
<1>4. CASE Collect
  <2>1. Entered(entry') /\ entry'.error = Nothing /\ ~entry'.fresh
    BY <1>4 DEF Collect, EmptyEntry, Entered
  <2>2. Seen(entry', mounted, fetch, owed) BY <1>4, <2>1 DEF Collect, Seen
  <2> QED BY <1>4, <2>1, <2>2, QuietOutcomes DEF Collect
<1>5. CASE Poll
  BY <1>5, StartFetchKeeps DEF Poll, aside
<1>6. CASE Refetch
  <2>1. CASE UNCHANGED <<fetch, entry>> BY <1>6, <2>1 DEF Refetch
  <2>2. CASE StartFetch BY <1>6, <2>2, StartFetchKeeps DEF Refetch, aside
  <2> QED BY <1>6, <2>1, <2>2 DEF Refetch, Restart
<1> QED BY <1>1, <1>2, <1>3, <1>4, <1>5, <1>6

\* An answer is as new as the backend, which is as new as what is owed.
LEMMA AnswerSteps ==
  ASSUME SeenInv, FetchAnswered \/ FetchLost \/ FetchStalls PROVE SeenInv'
<1> USE DEF SeenInv
<1>1. UNCHANGED <<server, mounted, entry, write, owed>>
  BY DEF FetchAnswered, FetchLost, FetchStalls
<1>2. PICK o : fetch' = [fetch EXCEPT !.got = o] /\ o \notin {Pending, Nothing}
               /\ Sound(o, server)
               /\ (o.kind = "data" => Current(o, owed))
  <2>1. CASE FetchAnswered
    <3>1. PICK v : v = server[fetch.base].version OBVIOUS
    <3>2. PICK o : o = Reply(fetch, v) OBVIOUS
    <3>3. fetch.base \in Bases /\ v \in Nat
      BY <2>1, <3>1 DEF FetchAnswered, Sent, Versioned
    <3>4. fetch' = [fetch EXCEPT !.got = o]
      BY <2>1, <3>1, <3>2 DEF FetchAnswered
    <3>5. o \notin {Pending, Nothing} /\ (o.kind = "unauthorized" => o.base \in KeySet)
          /\ (o.kind = "data" => o.base = fetch.base /\ o.version = v)
      BY <3>2, ReplyIs
    <3>6. Sound(o, server) BY <3>1, <3>3, <3>5 DEF Sound
    <3>7. ASSUME o.kind = "data" PROVE Current(o, owed)
      <4>1. CASE owed = Nothing
        BY <3>3, <3>5, <3>7, <4>1 DEF Current, Nothing, Outcome, Bases
      <4>2. CASE owed.kind = "data" /\ Sound(owed, server)
        BY <3>1, <3>3, <3>5, <3>7, <4>2 DEF Current, Sound
      <4> QED BY <4>1, <4>2
    <3> QED BY <3>4, <3>5, <3>6, <3>7
  <2>2. CASE FetchLost
    BY <2>2, LossIs DEF FetchLost
  <2>3. CASE FetchStalls
    <3>1. Stalled \notin {Pending, Nothing} BY DEF Stalled, Pending, Nothing, Outcome
    <3> QED BY <2>3, <3>1, QuietOutcomes DEF FetchStalls
  <2> QED BY <2>1, <2>2, <2>3
<1>3. Sent(fetch') /\ fetch'.got = o BY <1>2, GotKept
<1>4. Seen(entry, mounted, fetch', owed)
  BY <1>2, <1>3, NoRequestSent DEF Seen
<1> QED BY <1>1, <1>2, <1>3, <1>4

LEMMA SettleStep == ASSUME SeenInv, FetchSettles PROVE SeenInv'
<1> USE DEF SeenInv
<1>1. UNCHANGED <<server, mounted, write, owed>> /\ fetch.got # Nothing
  BY DEF FetchSettles
<1>2. CASE fetch.got.kind = "data"
  <2>1. fetch' = NoRequest /\ entry' = Fresh(fetch.got)
    BY <1>2 DEF FetchSettles
  <2>2. Entered(entry') /\ entry'.error = Nothing /\ entry'.data = fetch.got
    BY <2>1 DEF Fresh, Entered
  <2>3. Seen(entry', mounted, fetch', owed) BY <1>2, <2>2 DEF Seen
  <2>4. Sent(fetch') /\ Sound(fetch'.got, server) /\ fetch'.got.kind # "data"
    BY <2>1, NoRequestSent, QuietOutcomes
  <2>5. Sound(entry'.error, server) BY <2>2, QuietOutcomes
  <2> QED BY <1>1, <2>2, <2>3, <2>4, <2>5
<1>3. CASE /\ fetch.got.kind # "data"
           /\ mounted /\ fetch.tries < Hooks[read].retries
  <2>1. /\ fetch' = [Request(read) EXCEPT !.tries = fetch.tries + 1]
        /\ entry' = entry /\ UNCHANGED aside
    BY <1>3 DEF FetchSettles, aside
  <2>2. Asking(fetch') BY <2>1, RequestAsks
  <2> QED BY <2>1, <2>2, StartKeeps
<1>4. CASE /\ fetch.got.kind # "data"
           /\ ~(mounted /\ fetch.tries < Hooks[read].retries)
  <2>1. fetch' = NoRequest
        /\ entry' = [data |-> entry.data, error |-> fetch.got, fresh |-> FALSE]
    BY <1>4 DEF FetchSettles, Entered
  <2>2. Entered(entry') /\ entry'.error = fetch.got /\ ~entry'.fresh
    BY <2>1 DEF Entered
  <2>3. Seen(entry', mounted, fetch', owed) BY <1>1, <2>2 DEF Seen
  <2> QED BY <1>1, <2>1, <2>2, <2>3, NoRequestSent, QuietOutcomes
<1> QED BY <1>2, <1>3, <1>4

\* A write: what it becomes may have been answered.
LEMMA WriteKeeps ==
  ASSUME SeenInv, UNCHANGED <<mounted, entry, fetch, owed>>,
         Versioned(server'),
         \A b \in Bases : server[b].version <= server'[b].version,
         Sent(write'), Sound(write'.got, server')
  PROVE  SeenInv'
  BY SoundLater DEF SeenInv

LEMMA SendSteps ==
  ASSUME SeenInv, (\E hook \in WriteHooks : SendWrite(hook)) \/ WriteAnswered \/ WriteLost
  PROVE  SeenInv'
<1> USE DEF SeenInv
<1>1. CASE \E hook \in WriteHooks : SendWrite(hook)
  <2>1. Asking(write') BY <1>1, RequestAsks DEF SendWrite
  <2>2. Sent(write') /\ Sound(write'.got, server)
    BY <2>1, QuietOutcomes DEF Asking
  <2> QED BY <1>1, <2>2 DEF SendWrite
<1>2. CASE WriteAnswered
  <2>1. PICK b : b = write.base OBVIOUS
  <2>2. PICK o : o = Reply(write, server[b].version + 1) OBVIOUS
  <2>3. b \in Bases /\ server[b].version \in Nat
    BY <1>2, <2>1 DEF WriteAnswered, Sent, Versioned
  <2>4. /\ write' = [write EXCEPT !.got = o]
        /\ UNCHANGED <<mounted, entry, fetch, owed>>
        /\ server' = IF o.kind = "data"
                     THEN [server EXCEPT ![b].version = @ + 1] ELSE server
    BY <1>2, <2>1, <2>2 DEF WriteAnswered
  <2>5. /\ o # Pending /\ (o.kind = "unauthorized" => o.base \in KeySet)
        /\ o.kind = "data" => o.base = b /\ o.version = server[b].version + 1
    BY <2>1, <2>2, ReplyIs
  <2>6. /\ Versioned(server')
        /\ \A x \in Bases : server[x].version <= server'[x].version
        /\ o.kind = "data" => server'[b].version = server[b].version + 1
    <3>1. CASE o.kind = "data" BY <2>3, <2>4, <3>1, OneBackend
    <3>2. CASE o.kind # "data" BY <2>4, <3>2 DEF Versioned
    <3> QED BY <3>1, <3>2
  <2>7. Sound(o, server') BY <2>3, <2>5, <2>6 DEF Sound
  <2>8. Sent(write') /\ write'.got = o BY <2>4, <2>5, GotKept
  <2> QED BY <2>4, <2>6, <2>7, <2>8, WriteKeeps
<1>3. CASE WriteLost
  <2>1. PICK o \in Losses(write) : write' = [write EXCEPT !.got = o]
    BY <1>3 DEF WriteLost
  <2>2. Sent(write') /\ Sound(write'.got, server) BY <2>1, LossIs, GotKept
  <2> QED BY <1>3, <2>2 DEF WriteLost
<1> QED BY <1>1, <1>2, <1>3

\* A write that is answered makes the read stale, and replaces the fetch that
\* may not have seen it: no answer of before it is left.
LEMMA WriteSettlesKeeps == ASSUME SeenInv, WriteSettles PROVE SeenInv'
<1> USE DEF SeenInv
<1>1. UNCHANGED <<server, mounted>> /\ write' = NoRequest /\ write.got.kind = "data"
  BY DEF WriteSettles
<1>2. CASE read \notin Hooks[write.hook].refreshes
  <2>1. UNCHANGED <<entry, fetch, owed>> BY <1>2 DEF WriteSettles
  <2> QED BY <1>1, <2>1, NoRequestSent, QuietOutcomes
<1>3. CASE read \in Hooks[write.hook].refreshes
  <2>1. Refresh /\ owed' = IF Joined THEN owed ELSE write.got
    BY <1>3 DEF WriteSettles
  <2>2. entry' = [data |-> entry.data, error |-> entry.error, fresh |-> FALSE]
    BY <2>1 DEF Refresh, Entered
  <2>3. Entered(entry') /\ entry'.error = entry.error /\ entry'.data = entry.data
        /\ ~entry'.fresh
    BY <2>2 DEF Entered
  <2>4. CASE Joined
    <3>1. fetch' = fetch /\ owed' = owed BY <2>1, <2>4 DEF Refresh
    <3>2. Seen(entry', mounted, fetch, owed) BY <2>3 DEF Seen
    <3> QED BY <1>1, <2>3, <3>1, <3>2, NoRequestSent, QuietOutcomes
  <2>5. CASE ~Joined /\ mounted
    <3>1. Asking(fetch') /\ owed' = write.got
      BY <2>1, <2>5, RequestAsks DEF Refresh
    <3>2. Sent(fetch') /\ Sound(fetch'.got, server) /\ fetch'.got.kind # "data"
      BY <3>1, QuietOutcomes DEF Asking
    <3>3. Seen(entry', mounted, fetch', owed')
      BY <2>3, <3>1, AskingIsRequest DEF Seen
    <3> QED BY <1>1, <2>3, <3>1, <3>2, <3>3, NoRequestSent, QuietOutcomes
  <2>6. CASE ~Joined /\ ~mounted
    <3>1. fetch = NoRequest /\ fetch' = fetch /\ owed' = write.got
      BY <2>1, <2>6 DEF Refresh, Joined
    <3>2. fetch.got.kind # "data" BY <3>1, NoRequestSent, QuietOutcomes
    <3>3. Seen(entry', mounted, fetch, owed') BY <2>3, <2>6 DEF Seen
    <3> QED BY <1>1, <2>3, <3>1, <3>2, <3>3, NoRequestSent, QuietOutcomes
  <2> QED BY <2>4, <2>5, <2>6
<1> QED BY <1>2, <1>3

LEMMA BackendsKeep ==
  ASSUME SeenInv, ServerChanges \/ ServerFails \/ \E b \in Bases : ServerReturns(b)
  PROVE  SeenInv'
<1> USE DEF SeenInv
<1>1. GetApiBaseUrl \in Bases
  BY DEF GetApiBaseUrl, DefaultBase, ComputeApiBaseUrl, Bases
<1>2. UNCHANGED <<mounted, entry, fetch, write, owed>>
  BY DEF ServerChanges, ServerFails, ServerReturns
<1>3. Versioned(server') /\ \A b \in Bases : server[b].version <= server'[b].version
  BY <1>1, OneBackend DEF ServerChanges, ServerFails, ServerReturns
<1>4. Sound(write.got, server') BY <1>3, SoundLater
<1> QED BY <1>2, <1>3, <1>4, WriteKeeps

LEMMA SettingsKeep ==
  ASSUME SeenInv, ClearSession \/ ResetApiUrl \/ Reload
                  \/ \E url \in Urls \cup {"none", GetApiBaseUrl}, key \in BOOLEAN :
                       SaveSettings(url, key)
  PROVE  SeenInv'
<1> USE DEF SeenInv
<1>1. CASE ClearSession
           \/ \E url \in Urls \cup {"none", GetApiBaseUrl}, key \in BOOLEAN :
                SaveSettings(url, key)
  BY <1>1 DEF ClearSession, SaveSettings
<1>2. CASE ResetApiUrl
  BY <1>2, StartKeeps, RequestAsks DEF ResetApiUrl, aside
<1>3. CASE Reload
  <2>1. /\ ~mounted' /\ entry' = EmptyEntry /\ fetch' = NoRequest
        /\ write' = NoRequest /\ owed' = Nothing /\ server' = server
    BY <1>3 DEF Reload
  <2>2. Entered(entry') /\ entry'.error = Nothing /\ ~entry'.fresh
    BY <2>1 DEF EmptyEntry, Entered
  <2>3. Seen(entry', mounted', fetch', owed') BY <2>1, <2>2 DEF Seen
  <2> QED BY <2>1, <2>2, <2>3, NoRequestSent, QuietOutcomes
<1> QED BY <1>1, <1>2, <1>3

LEMMA SeenStutter == ASSUME SeenInv, UNCHANGED vars PROVE SeenInv'
  BY DEF SeenInv, vars

LEMMA AnswersAreSeen == Spec => []SeenInv
<1>1. SeenInv /\ [Next]_vars => SeenInv'
  BY ScreenSteps, AnswerSteps, SettleStep, SendSteps, WriteSettlesKeeps, BackendsKeep,
     SettingsKeep, SeenStutter DEF Next
<1> QED BY SeenInitially, <1>1, PTL DEF Spec

\* queries.ts, the onSuccess of the writes: whatever reads, writes, changes,
\* failures, retries and reloads come together, what counts as loaded shows
\* every write that refreshed it.
THEOREM WriteIsSeenHolds == Spec => []WriteIsSeen
<1>1. SeenInv => WriteIsSeen BY SeenIsWriteIsSeen DEF SeenInv
<1> QED BY AnswersAreSeen, <1>1, PTL

\* client.ts:35-38, States.tsx:109-112: only a backend with an operator key
\* ever sends the operator to enter one, however late its answer is shown.
THEOREM SignInCanHelpHolds == Spec => []SignInCanHelp
<1>1. SeenInv => SignInCanHelp
  BY DEF SeenInv, Sound, SignInCanHelp, ErrorState, Metric, Unauthorized
<1> QED BY AnswersAreSeen, <1>1, PTL

-----------------------------------------------------------------------------
(* The connector page: the invariant *)

\* The search and the two chips.
Shaped(b) ==
  b = [search |-> b.search, bucket |-> b.bucket, category |-> b.category]
BrowseShape == Shaped(browse)

\* No entry of the browser's history has a result left to report.
Addresses == {"plain", "connected", "failed"}
TrailPlain ==
  trail \in Seq(Addresses) /\ \A k \in 1..Len(trail) : trail[k] = "plain"

PageInv ==
  /\ BrowseShape /\ ConfirmationIsAsked /\ TrailPlain
  /\ returns \in Nat /\ reports = returns

tracked == <<browse, drawer, confirming, asked, trail, returns, reports>>

LEMMA PageQuiet == ASSUME PageInv, UNCHANGED tracked PROVE PageInv'
  BY DEF PageInv, tracked, BrowseShape, ConfirmationIsAsked, TrailPlain

-----------------------------------------------------------------------------
(* Cards and chips *)

LEMMA KindHasCategory ==
  ASSUME NEW c \in Connectors PROVE Kind(c).category \in Categories
<1>1. CASE c \in Servers
  BY <1>1 DEF Kind, Categories
<1>2. CASE c \notin Servers
  <2>1. c \in DOMAIN Catalog BY <1>2 DEF Connectors
  <2> QED BY <1>2, <2>1, ConnectorAssumption DEF Kind
<1> QED BY <1>1, <1>2

\* Grouping loses no card and makes none.
LEMMA GroupsHoldAll ==
  ASSUME NEW S, S \subseteq Connectors
  PROVE  CardsOf(GroupByCategory(S)) = S
<1> DEFINE G == GroupByCategory(S)
           K == Categories \cap {Kind(c).category : c \in S}
<1>1. DOMAIN G = K /\ \A k \in K : G[k] = {c \in S : Kind(c).category = k}
  BY DEF GroupByCategory
<1>2. ASSUME NEW c \in S PROVE c \in UNION {G[k] : k \in DOMAIN G}
  <2>1. Kind(c).category \in K BY <1>2, KindHasCategory
  <2>2. c \in G[Kind(c).category] BY <1>1, <2>1
  <2> QED BY <1>1, <2>1, <2>2
<1>3. ASSUME NEW c \in UNION {G[k] : k \in DOMAIN G} PROVE c \in S
  BY <1>1, <1>3
<1> QED BY <1>2, <1>3 DEF CardsOf

LEMMA SearchedAreConnectors == Searched \subseteq Connectors
  BY DEF Searched, Items, Connectors

\* What a chip counts are the cards that choosing it would leave.
LEMMA CountsAreCards ==
  ASSUME BrowseShape PROVE ChipTruth
<1> DEFINE Shown(f) == Cardinality(CardsOf(GroupByCategory(Filtered(f))))
<1>1. ASSUME NEW f PROVE CardsOf(GroupByCategory(Filtered(f))) = Filtered(f)
  <2>1. Filtered(f) \subseteq Connectors
    BY SearchedAreConnectors DEF Filtered
  <2> QED BY <2>1, GroupsHoldAll
<1>2. ASSUME NEW b PROVE Counts(b) = Shown([browse EXCEPT !.bucket = b])
  <2> DEFINE f == [browse EXCEPT !.bucket = b]
  <2>1. f.bucket = b /\ f.category = browse.category
    BY DEF BrowseShape, Shaped
  <2>2. Filtered(f) = {c \in Searched : InCategory(c, browse.category) /\ InBucket(c, b)}
    BY <2>1 DEF Filtered
  <2>3. Counts(b) = Cardinality(Filtered(f))
    BY <2>2 DEF Counts
  <2>4. CardsOf(GroupByCategory(Filtered(f))) = Filtered(f)
    BY <1>1
  <2> QED BY <2>3, <2>4
<1>3. ASSUME NEW k PROVE CategoryCounts(k) = Shown([browse EXCEPT !.category = k])
  <2> DEFINE f == [browse EXCEPT !.category = k]
  <2>1. f.bucket = browse.bucket /\ f.category = k
    BY DEF BrowseShape, Shaped
  <2>2. Filtered(f) = {c \in Searched : InBucket(c, browse.bucket) /\ InCategory(c, k)}
    BY <2>1 DEF Filtered
  <2>3. CategoryCounts(k) = Cardinality(Filtered(f))
    BY <2>2 DEF CategoryCounts
  <2>4. CardsOf(GroupByCategory(Filtered(f))) = Filtered(f)
    BY <1>1
  <2> QED BY <2>3, <2>4
<1> QED BY <1>2, <1>3 DEF ChipTruth

-----------------------------------------------------------------------------
(* The drawer *)

\* What the panels of a drawer that is open go by.
LEMMA PanelsSay ==
  ASSUME drawer # NoSelection
  PROVE  /\ AuthRequired => "signIn" \in DrawerPanels
         /\ IsComingSoon(drawer.id) => "catalogOnly" \in DrawerPanels
         /\ ~IsComingSoon(drawer.id) /\ drawer.status = "needs_setup"
              => "setup" \in DrawerPanels
  BY DEF DrawerPanels

LEMMA PanelsExplain == DisabledIsExplained
<1>1. ASSUME NEW b \in DrawerButtons, ~Enabled(b)
      PROVE  DrawerPanels \cap {"signIn", "setup"} # {}
  <2>1. drawer # NoSelection /\ ~IsComingSoon(drawer.id)
    BY <1>1 DEF DrawerButtons
  <2>2. AuthRequired \/ drawer.status = "needs_setup"
    BY <1>1 DEF Enabled, AuthRequired
  <2> QED BY <2>1, <2>2, PanelsSay
<1>2. ASSUME drawer # NoSelection, DrawerButtons = {}
      PROVE  "catalogOnly" \in DrawerPanels
  <2>1. IsComingSoon(drawer.id) BY <1>2 DEF DrawerButtons
  <2> QED BY <1>2, <2>1, PanelsSay
<1> QED BY <1>1, <1>2 DEF DisabledIsExplained

-----------------------------------------------------------------------------
(* Loading the page *)

LEMMA BlankFits ==
  ASSUME BlankPage PROVE BrowseShape' /\ ConfirmationIsAsked'
  BY DEF BlankPage, BrowseShape, Shaped, ConfirmationIsAsked, NoBrowse

\* Replacing the entry that reports leaves a trail without reports.
LEMMA StripLeavesPlain ==
  ASSUME NEW entries \in Seq(Addresses), NEW i \in 1..Len(entries),
         \A k \in 1..Len(entries) : k # i => entries[k] = "plain",
         trail' = Strip(entries, i)
  PROVE  TrailPlain'
<1>1. trail' \in Seq(Addresses) /\ Len(trail') = Len(entries)
  <2>1. "plain" \in Addresses BY DEF Addresses
  <2> QED BY <2>1, ExceptSeq DEF Strip
<1>2. ASSUME NEW k \in 1..Len(entries) PROVE trail'[k] = "plain"
  BY LenProperties DEF Strip
<1> QED BY <1>1, <1>2 DEF TrailPlain

-----------------------------------------------------------------------------
(* The steps *)

LEMMA PageInitially == PageInit => PageInv
<1> SUFFICES ASSUME PageInit PROVE PageInv OBVIOUS
<1>1. BrowseShape BY DEF PageInit, BrowseShape, Shaped, NoBrowse
<1>2. ConfirmationIsAsked BY DEF PageInit, ConfirmationIsAsked
<1>3. TrailPlain BY DEF PageInit, TrailPlain, Addresses
<1>4. returns \in Nat /\ reports = returns BY DEF PageInit
<1> QED BY <1>1, <1>2, <1>3, <1>4 DEF PageInv

LEMMA QuerySteps ==
  ASSUME PageInv, Answer \/ \E q \in DOMAIN queries : FetchAgain(q)
  PROVE  PageInv'
<1>1. UNCHANGED tracked
  BY DEF Answer, FetchAgain, tracked, page, site
<1> QED BY <1>1, PageQuiet

\* Changing one part of what is browsed keeps the shape.
LEMMA ExceptKeepsShape ==
  ASSUME NEW r, Shaped(r), NEW v
  PROVE  /\ Shaped([r EXCEPT !.search = v])
         /\ Shaped([r EXCEPT !.bucket = v])
         /\ Shaped([r EXCEPT !.category = v])
<1> DEFINE B(s, b, c) == [search |-> s, bucket |-> b, category |-> c]
<1>1. r = B(r.search, r.bucket, r.category) BY DEF Shaped
<1>2. /\ [r EXCEPT !.search = v] = B(v, r.bucket, r.category)
      /\ [r EXCEPT !.bucket = v] = B(r.search, v, r.category)
      /\ [r EXCEPT !.category = v] = B(r.search, r.bucket, v)
  BY <1>1
<1>3. ASSUME NEW s, NEW b, NEW c PROVE Shaped(B(s, b, c))
  BY DEF Shaped
<1> QED BY <1>2, <1>3

\* Searching and choosing change what is browsed, and keep its shape.
LEMMA BrowseKeeps ==
  ASSUME PageInv, NEW new, Browse(new), Shaped(new) PROVE PageInv'
<1>1. browse' = new /\ UNCHANGED <<drawer, confirming, asked, trail, returns, reports>>
  BY DEF Browse, page, site
<1>2. BrowseShape'
  <2>1. Shaped(browse') BY <1>1
  <2> QED BY <2>1 DEF BrowseShape, Shaped
<1> QED BY <1>1, <1>2 DEF PageInv, ConfirmationIsAsked, TrailPlain

LEMMA BrowseSteps ==
  ASSUME PageInv,
         (\E text \in DOMAIN Matches \cup {""} : Search(text))
         \/ (\E bucket \in STATUS_BUCKETS \cup {"all"} : ChooseBucket(bucket))
         \/ (\E category \in Categories \cup {"all"} : ChooseCategory(category))
  PROVE  PageInv'
<1>1. Shaped(browse) BY DEF PageInv, BrowseShape
<1>2. ASSUME NEW text, Search(text) PROVE PageInv'
  BY <1>1, <1>2, ExceptKeepsShape, BrowseKeeps DEF Search
<1>3. ASSUME NEW bucket, ChooseBucket(bucket) PROVE PageInv'
  BY <1>1, <1>3, ExceptKeepsShape, BrowseKeeps DEF ChooseBucket
<1>4. ASSUME NEW category, ChooseCategory(category) PROVE PageInv'
  BY <1>1, <1>4, ExceptKeepsShape, BrowseKeeps DEF ChooseCategory
<1> QED BY <1>2, <1>3, <1>4

\* A question that is open when the drawer turns to a connector counts as left.
LEMMA SelectKeeps ==
  ASSUME PageInv, NEW s, NEW c, Select(s, c) PROVE PageInv'
<1>1. LeaveQuestion /\ UNCHANGED <<browse, confirming, trail, returns, reports>>
  BY DEF Select, site
<1>2. ConfirmationIsAsked' BY <1>1 DEF LeaveQuestion, ConfirmationIsAsked
<1> QED BY <1>1, <1>2 DEF PageInv, BrowseShape, TrailPlain

\* Escape closes it together with what it asks, and Disconnect asks anew.
LEMMA DrawerSteps ==
  ASSUME PageInv, CloseDrawer \/ Escape \/ AskDisconnect \/ CancelDisconnect
  PROVE  PageInv'
<1>1. UNCHANGED <<browse, trail, returns, reports>>
  BY DEF CloseDrawer, Escape, AskDisconnect, CancelDisconnect, site
<1>2. ConfirmationIsAsked'
  <2>1. CASE CloseDrawer
    BY <2>1 DEF CloseDrawer, LeaveQuestion, ConfirmationIsAsked
  <2>2. CASE Escape
    BY <2>2 DEF Escape, PageInv, ConfirmationIsAsked
  <2>3. CASE AskDisconnect \/ CancelDisconnect
    BY <2>3 DEF AskDisconnect, CancelDisconnect, ConfirmationIsAsked
  <2> QED BY <2>1, <2>2, <2>3
<1> QED BY <1>1, <1>2 DEF PageInv, BrowseShape, TrailPlain

\* A removal that is answered closes the drawer and takes back what it asks.
LEMMA FinishedKeeps ==
  ASSUME PageInv, NEW h \in Mutations, Finished(h) PROVE PageInv'
<1>1. UNCHANGED <<browse, trail, returns, reports>>
  BY DEF Finished, site
<1>2. ConfirmationIsAsked'
  <2>1. CASE h \in {"disconnect", "deleteMcp"}
    BY <2>1 DEF Finished, Removed, ConfirmationIsAsked
  <2>2. CASE h \notin {"disconnect", "deleteMcp"}
    BY <2>2 DEF Finished, ConfirmationIsAsked, PageInv
  <2> QED BY <2>1, <2>2
<1> QED BY <1>1, <1>2 DEF PageInv, BrowseShape, TrailPlain

LEMMA QuietSteps ==
  ASSUME PageInv,
         (\E s \in Sections : \E c \in Section(s) : TestCard(s, c))
         \/ RunTest \/ RunAuthorize \/ RunExecute
         \/ (\E new \in [named : BOOLEAN, parses : BOOLEAN] : TypeJob(new))
         \/ ConfirmDisconnect \/ (\E h \in Mutations : Failed(h))
         \/ OpenDialog \/ CloseDialog \/ SubmitServer \/ ServerAdded \/ ServerRefused
         \/ (\E new \in Forms : TypeServer(new)) \/ Authorized
  PROVE  PageInv'
<1>1. CASE \E s \in Sections : \E c \in Section(s) : TestCard(s, c)
  BY <1>1, PageQuiet DEF TestCard, tracked, site
<1>2. CASE RunTest \/ RunAuthorize \/ RunExecute \/ ConfirmDisconnect
  BY <1>2, PageQuiet
  DEF RunTest, RunAuthorize, RunExecute, ConfirmDisconnect, Start, tracked, site
<1>3. CASE (\E new \in [named : BOOLEAN, parses : BOOLEAN] : TypeJob(new))
           \/ (\E h \in Mutations : Failed(h))
  BY <1>3, PageQuiet DEF TypeJob, Failed, tracked, site
<1>4. CASE OpenDialog \/ CloseDialog \/ SubmitServer
  BY <1>4, PageQuiet DEF OpenDialog, CloseDialog, SubmitServer, tracked, site
<1>5. CASE ServerAdded \/ ServerRefused \/ \E new \in Forms : TypeServer(new)
  BY <1>5, PageQuiet DEF ServerAdded, ServerRefused, TypeServer, tracked, site
<1>6. CASE Authorized
  BY <1>6, PageQuiet DEF Authorized, tracked
<1> QED BY <1>1, <1>2, <1>3, <1>4, <1>5, <1>6

\* A return is reported as its entry is stripped.
LEMMA ReturnedKeeps ==
  ASSUME PageInv, NEW result \in {"connected", "failed"}, Returned(result)
  PROVE  PageInv'
<1> DEFINE entries == Append(trail, result)
           i == Len(trail) + 1
<1>1. /\ Len(trail) \in Nat /\ trail \in Seq(Addresses)
      /\ \A k \in 1..Len(trail) : trail[k] = "plain"
  BY LenProperties DEF PageInv, TrailPlain
<1>2. /\ entries \in Seq(Addresses) /\ Len(entries) = i /\ entries[i] = result
      /\ \A k \in 1..Len(trail) : entries[k] = "plain"
  <2>1. result \in Addresses BY DEF Addresses
  <2> QED BY <1>1, <2>1, AppendProperties
<1>3. i \in 1..Len(entries) /\ \A k \in 1..Len(entries) : k # i => entries[k] = "plain"
  BY <1>1, <1>2
<1>4. BlankPage /\ trail' = Strip(entries, i) /\ reports' = reports + 1
      /\ returns' = returns + 1
  BY <1>2 DEF Returned, Load
<1>5. TrailPlain'
  BY <1>2, <1>3, <1>4, StripLeavesPlain
<1> QED BY <1>4, <1>5, BlankFits DEF PageInv

\* Nothing is left to report when the operator goes back or loads the page again.
LEMMA GoToKeeps ==
  ASSUME PageInv, NEW i \in DOMAIN trail, GoTo(i) PROVE PageInv'
<1>1. /\ trail \in Seq(Addresses) /\ i \in 1..Len(trail)
      /\ \A k \in 1..Len(trail) : trail[k] = "plain"
  BY LenProperties DEF PageInv, TrailPlain
<1>2. BlankPage /\ trail' = Strip(trail, i) /\ UNCHANGED <<returns, reports>>
  BY <1>1 DEF GoTo, Load
<1>3. TrailPlain'
  BY <1>1, <1>2, StripLeavesPlain
<1> QED BY <1>2, <1>3, BlankFits DEF PageInv

-----------------------------------------------------------------------------
(* The connector page: theorems *)

LEMMA PageStutter == ASSUME PageInv, UNCHANGED pageVars PROVE PageInv'
  BY PageQuiet DEF pageVars, page, site, tracked

\* What the other theorems rest on.
THEOREM PageInvariantHolds == PageSpec => []PageInv
<1>1. PageInv /\ [PageNext]_pageVars => PageInv'
  BY QuerySteps, BrowseSteps, SelectKeeps, DrawerSteps, FinishedKeeps, QuietSteps,
     ReturnedKeeps, GoToKeeps, PageStutter DEF PageNext
<1> QED BY PageInitially, <1>1, PTL DEF PageSpec

\* Integrations.tsx:37-40 and 124-126: for any catalog and whatever is searched
\* and chosen, a chip counts the cards it would show.
THEOREM ChipTruthHolds == PageSpec => []ChipTruth
<1>1. PageInv => ChipTruth BY CountsAreCards DEF PageInv
<1> QED BY PageInvariantHolds, <1>1, PTL

\* ConnectorDrawer.tsx:130, 176-206 and 459-476: however late removals are
\* answered, what is asked to be confirmed is what Disconnect was pressed for,
\* unless the operator went on and left the question open.
THEOREM ConfirmationIsAskedHolds == PageSpec => []ConfirmationIsAsked
<1>1. PageInv => ConfirmationIsAsked BY DEF PageInv
<1> QED BY PageInvariantHolds, <1>1, PTL

\* Integrations.tsx:88-105: every return of a provider is reported once, through
\* any number of returns, steps back and reloads.
THEOREM ReturnReportedOnceHolds == PageSpec => []ReturnReportedOnce
<1>1. PageInv => ReturnReportedOnce BY DEF PageInv, ReturnReportedOnce
<1> QED BY PageInvariantHolds, <1>1, PTL

\* ConnectorDrawer.tsx:240-257 and 396-417: for any connector and any status it
\* was opened with, a button that stays disabled, or is missing, is explained.
THEOREM DisabledIsExplainedHolds == PageSpec => []DisabledIsExplained
<1>1. PageInv => DisabledIsExplained BY PanelsExplain
<1> QED BY PageInvariantHolds, <1>1, PTL

-----------------------------------------------------------------------------
(* The editor: walks of a step graph *)

\* The definitions that can be drawn, as far as a walk depends on them.
Step == [id : StepIds, numbers : StepNumbers, depends_on : SUBSET StepIds]

Distinct(steps) == \A i, j \in DOMAIN steps : steps[i].id = steps[j].id => i = j

Drawn(steps) == steps \in Seq(Step) /\ Distinct(steps)

Frame == [node : StepIds, left : SUBSET StepIds]

WalkTyped(w) ==
  w \in [next : Nat \ {0}, frames : Seq(Frame), visited : SUBSET StepIds, cycle : BOOLEAN]

\* The calls under way lead from one to the next, and have not returned.
FramesChain(steps, w) ==
  /\ \A i \in DOMAIN w.frames :
       /\ w.frames[i].left \subseteq DependsOf(steps, w.frames[i].node)
       /\ w.frames[i].node \notin w.visited
       /\ i + 1 \in DOMAIN w.frames =>
            w.frames[i + 1].node \in DependsOf(steps, w.frames[i].node)
       /\ \A j \in DOMAIN w.frames : w.frames[i].node = w.frames[j].node => i = j

\* Nodes that depend on one another in a circle, or on themselves.
Circle(steps, S) ==
  S # {} /\ \A n \in S : DependsOf(steps, n) \cap S # {}

\* What a walk has been to without meeting a node under way.  on is the node
\* that is about to be visited, if there is one.
Explored(steps, w, on) ==
  /\ \A i \in DOMAIN w.frames :
       DependsOf(steps, w.frames[i].node) \ w.frames[i].left \subseteq
         w.visited \cup IF i + 1 \in DOMAIN w.frames THEN {w.frames[i + 1].node} ELSE on
  /\ \A n \in w.visited : DependsOf(steps, n) \subseteq w.visited
  /\ \A S \in SUBSET w.visited : ~Circle(steps, S)
  /\ \A i \in DOMAIN steps : i < w.next =>
       steps[i].id \in w.visited \cup IF w.frames # <<>> THEN {w.frames[1].node} ELSE on

WalkInv(steps, w, on) ==
  /\ WalkTyped(w) /\ FramesChain(steps, w)
  /\ IF w.cycle THEN \E S \in SUBSET StepIds : Circle(steps, S)
                ELSE Explored(steps, w, on)

\* With distinct ids the dependencies of a step are those it has.
LEMMA DependenciesOfStep ==
  ASSUME NEW steps, Drawn(steps), NEW i \in DOMAIN steps
  PROVE  /\ steps[i].id \in IdsOf(steps)
         /\ DepsOf(steps)[steps[i].id] = steps[i].depends_on
         /\ DependsOf(steps, steps[i].id) = steps[i].depends_on
<1> DEFINE n == steps[i].id
           last(k) == steps[k].id = n /\ \A j \in DOMAIN steps : steps[j].id = n => j <= k
<1>1. n \in IdsOf(steps) BY DEF IdsOf
<1>2. i \in Nat /\ last(i) BY DEF Drawn, Distinct
<1>3. \A k \in DOMAIN steps : last(k) => k = i BY DEF Drawn, Distinct
<1>4. (CHOOSE k \in DOMAIN steps : last(k)) = i BY <1>2, <1>3
<1>5. DepsOf(steps)[n] = steps[CHOOSE k \in DOMAIN steps : last(k)].depends_on
  BY <1>1 DEF DepsOf
<1> QED BY <1>1, <1>4, <1>5 DEF DependsOf

LEMMA DependenciesTyped ==
  ASSUME NEW steps, Drawn(steps), NEW n
  PROVE  /\ DependsOf(steps, n) \subseteq StepIds
         /\ n \notin IdsOf(steps) => DependsOf(steps, n) = {}
<1>1. CASE n \in IdsOf(steps)
  <2>1. PICK i \in DOMAIN steps : n = steps[i].id BY <1>1 DEF IdsOf
  <2>2. steps[i] \in Step BY DEF Drawn
  <2>3. steps[i].depends_on \subseteq StepIds BY <2>2 DEF Step
  <2> QED BY <1>1, <2>1, <2>3, DependenciesOfStep
<1> QED BY <1>1 DEF DependsOf

LEMMA WalkStarts ==
  ASSUME NEW steps, Drawn(steps) PROVE WalkInv(steps, Unvisited, {})
<1> DEFINE w == Unvisited
<1>1. /\ w.next = 1 /\ w.frames = <<>> /\ w.visited = {} /\ w.cycle = FALSE
      /\ WalkTyped(w)
  BY DEF Unvisited, WalkTyped
<1> HIDE DEF w
<1>2. \A i \in DOMAIN steps : ~(i < 1) BY DEF Drawn
<1>3. FramesChain(steps, w) BY <1>1 DEF FramesChain
<1>4. Explored(steps, w, {}) BY <1>1, <1>2 DEF Explored, Circle
<1>5. WalkInv(steps, w, {}) BY <1>1, <1>3, <1>4 DEF WalkInv
<1> QED BY <1>5 DEF w

\* Meeting a node under way closes a circle: the nodes since then.
LEMMA CircleFound ==
  ASSUME NEW steps, Drawn(steps), NEW w, WalkTyped(w), FramesChain(steps, w),
         NEW j \in DOMAIN w.frames,
         w.frames[j].node \in DependsOf(steps, w.frames[Len(w.frames)].node)
  PROVE  \E S \in SUBSET StepIds : Circle(steps, S)
<1> DEFINE f == w.frames
           m == Len(f)
           S == {f[i].node : i \in j..m}
<1>1. f \in Seq(Frame) /\ m \in Nat /\ DOMAIN f = 1..m /\ j \in 1..m
  BY DEF WalkTyped
<1>2. S \subseteq StepIds /\ f[j].node \in S
  <2>1. \A i \in j..m : i \in 1..m BY <1>1
  <2>2. \A i \in 1..m : f[i] \in Frame BY <1>1
  <2>3. \A i \in 1..m : f[i].node \in StepIds BY <2>2 DEF Frame
  <2>4. j \in j..m BY <1>1
  <2> QED BY <2>1, <2>3, <2>4
<1>3. ASSUME NEW i \in j..m PROVE DependsOf(steps, f[i].node) \cap S # {}
  <2>1. CASE i = m BY <1>2, <2>1
  <2>2. CASE i # m
    <3>1. i \in DOMAIN f /\ i + 1 \in DOMAIN f /\ i + 1 \in j..m BY <1>1, <2>2
    <3>2. f[i + 1].node \in DependsOf(steps, f[i].node) BY <3>1 DEF FramesChain
    <3> QED BY <3>1, <3>2
  <2> QED BY <2>1, <2>2
<1>4. Circle(steps, S) BY <1>2, <1>3 DEF Circle
<1> QED BY <1>2, <1>4

\* A call of visit keeps what a walk knows.
LEMMA EnterKeeps ==
  ASSUME NEW steps, Drawn(steps), NEW node \in StepIds, NEW w,
         WalkInv(steps, w, {node}),
         w.frames # <<>> => node \in DependsOf(steps, w.frames[Len(w.frames)].node)
  PROVE  WalkInv(steps, Enter(steps, node, w), {})
<1> DEFINE f == w.frames
           m == Len(f)
<1>1. /\ WalkTyped(w) /\ FramesChain(steps, w)
      /\ f \in Seq(Frame) /\ m \in Nat /\ DOMAIN f = 1..m
  BY DEF WalkInv, WalkTyped
<1>2. CASE node \in Visiting(w)
  <2>1. PICK j \in DOMAIN f : f[j].node = node BY <1>2 DEF Visiting
  <2>2. f # <<>> BY <1>1, <2>1
  <2>3. \E S \in SUBSET StepIds : Circle(steps, S) BY <1>1, <2>1, <2>2, CircleFound
  <2> DEFINE v == Reenter(w)
  <2>4. /\ v.next = w.next /\ v.frames = f /\ v.visited = w.visited /\ v.cycle = TRUE
        /\ WalkTyped(v)
    BY <1>1 DEF WalkTyped, Reenter
  <2> HIDE DEF v
  <2>5. FramesChain(steps, v) BY <1>1, <2>4 DEF FramesChain
  <2>6. WalkInv(steps, v, {}) BY <2>3, <2>4, <2>5 DEF WalkInv
  <2> QED BY <1>2, <2>6 DEF Enter, v
<1>3. CASE node \notin Visiting(w) /\ node \in w.visited
  <2>1. ~w.cycle => Explored(steps, w, {}) BY <1>3 DEF WalkInv, Explored
  <2> QED BY <1>3, <2>1 DEF Enter, WalkInv
<1>4. CASE node \notin Visiting(w) /\ node \notin w.visited
  <2> DEFINE new == [node |-> node, left |-> DependsOf(steps, node)]
             g == Append(f, new)
             v == [w EXCEPT !.frames = g]
  <2>1. new \in Frame BY DependenciesTyped DEF Frame
  <2>2. /\ g \in Seq(Frame) /\ Len(g) = m + 1 /\ g # <<>>
        /\ \A i \in 1..m : g[i] = f[i]
        /\ g[m + 1].node = node /\ g[m + 1].left = DependsOf(steps, node)
    BY <1>1, <2>1
  <2>3. DOMAIN g = 1..(m + 1) BY <2>2
  <2> HIDE DEF g
  <2>4. /\ v.next = w.next /\ v.frames = g /\ v.visited = w.visited /\ v.cycle = w.cycle
        /\ WalkTyped(v)
    BY <1>1, <2>2 DEF WalkTyped
  <2> HIDE DEF v
  <2>5. \A i \in 1..m : f[i].node # node BY <1>1, <1>4 DEF Visiting
  <2>6. \A i \in 1..m : i + 1 \in 1..m \/ (i = m /\ f # <<>>) BY <1>1
  <2>7. FramesChain(steps, v)
    <3> SUFFICES ASSUME NEW i \in 1..(m + 1)
                 PROVE  /\ g[i].left \subseteq DependsOf(steps, g[i].node)
                        /\ g[i].node \notin w.visited
                        /\ i + 1 \in 1..(m + 1) =>
                             g[i + 1].node \in DependsOf(steps, g[i].node)
                        /\ \A j \in 1..(m + 1) : g[i].node = g[j].node => i = j
      BY <2>3, <2>4 DEF FramesChain
    <3>1. CASE i = m + 1
      BY <1>1, <1>4, <2>2, <2>5, <3>1
    <3>2. CASE i \in 1..m
      <4>1. /\ f[i].left \subseteq DependsOf(steps, f[i].node)
            /\ f[i].node \notin w.visited
            /\ i + 1 \in 1..m => f[i + 1].node \in DependsOf(steps, f[i].node)
            /\ \A j \in 1..m : f[i].node = f[j].node => i = j
        BY <1>1, <3>2 DEF FramesChain
      <4>2. i + 1 \in 1..(m + 1) => g[i + 1].node \in DependsOf(steps, g[i].node)
        BY <1>1, <2>2, <2>6, <3>2, <4>1
      <4>3. \A j \in 1..(m + 1) : g[i].node = g[j].node => i = j
        <5>1. ASSUME NEW j \in 1..(m + 1), g[i].node = g[j].node PROVE i = j
          <6>1. CASE j \in 1..m BY <2>2, <3>2, <4>1, <5>1, <6>1
          <6>2. CASE j = m + 1 BY <2>2, <2>5, <3>2, <5>1, <6>2
          <6> QED BY <1>1, <6>1, <6>2
        <5> QED BY <5>1
      <4> QED BY <2>2, <3>2, <4>1, <4>2, <4>3
    <3> QED BY <1>1, <3>1, <3>2
  <2>8. ASSUME ~w.cycle PROVE Explored(steps, v, {})
    <3>1. Explored(steps, w, {node}) BY <2>8 DEF WalkInv
    <3>2. ASSUME NEW i \in 1..(m + 1)
          PROVE  DependsOf(steps, g[i].node) \ g[i].left \subseteq w.visited \cup
                   IF i + 1 \in 1..(m + 1) THEN {g[i + 1].node} ELSE {}
      <4>1. CASE i = m + 1 BY <2>2, <4>1
      <4>2. CASE i \in 1..m
        <5>1. DependsOf(steps, f[i].node) \ f[i].left \subseteq w.visited \cup
                IF i + 1 \in 1..m THEN {f[i + 1].node} ELSE {node}
          BY <1>1, <3>1, <4>2 DEF Explored
        <5>2. i + 1 \in 1..(m + 1) /\ (i + 1 \in 1..m \/ i + 1 = m + 1)
          BY <1>1, <4>2
        <5>3. g[i + 1].node = IF i + 1 \in 1..m THEN f[i + 1].node ELSE node
          BY <2>2, <5>2
        <5> QED BY <2>2, <4>2, <5>1, <5>2, <5>3
      <4> QED BY <1>1, <4>1, <4>2
    <3>3. ASSUME NEW i \in DOMAIN steps, i < w.next
          PROVE  steps[i].id \in w.visited \cup {g[1].node}
      <4>1. steps[i].id \in w.visited \cup IF f # <<>> THEN {f[1].node} ELSE {node}
        BY <3>1, <3>3 DEF Explored
      <4>2. f # <<>> => m >= 1 BY <1>1
      <4>3. f = <<>> => m = 0 BY <1>1
      <4> QED BY <2>2, <4>1, <4>2, <4>3
    <3> QED BY <2>2, <2>3, <2>4, <3>1, <3>2, <3>3 DEF Explored
  <2>9. WalkInv(steps, v, {}) BY <2>4, <2>7, <2>8 DEF WalkInv
  <2> QED BY <1>4, <2>9 DEF Enter, v, g
<1> QED BY <1>2, <1>3, <1>4

LEMMA VisitNextKeeps ==
  ASSUME NEW steps, Drawn(steps), NEW w, WalkInv(steps, w, {}),
         w.frames = <<>>, w.next \in DOMAIN steps
  PROVE  WalkInv(steps, VisitNext(steps, w), {})
<1> DEFINE node == steps[w.next].id
           v == [w EXCEPT !.next = @ + 1]
<1>1. WalkTyped(w) BY DEF WalkInv
<1>2. /\ v.next = w.next + 1 /\ v.frames = <<>> /\ v.visited = w.visited
      /\ v.cycle = w.cycle /\ WalkTyped(v) /\ w.next \in Nat
  BY <1>1 DEF WalkTyped
<1>3. node \in StepIds
  <2>1. steps[w.next] \in Step BY DEF Drawn
  <2> QED BY <2>1 DEF Step
<1> HIDE DEF v
<1>4. FramesChain(steps, v) BY <1>2 DEF FramesChain
<1>5. ASSUME ~w.cycle PROVE Explored(steps, v, {node})
  <2>1. Explored(steps, w, {}) BY <1>5 DEF WalkInv
  <2>2. \A i \in DOMAIN steps : i < w.next + 1 => i < w.next \/ i = w.next
    BY <1>2 DEF Drawn
  <2> QED BY <1>2, <2>1, <2>2 DEF Explored
<1>6. WalkInv(steps, v, {node}) BY <1>2, <1>4, <1>5 DEF WalkInv
<1>7. WalkInv(steps, Enter(steps, node, v), {}) BY <1>2, <1>3, <1>6, EnterKeeps
<1> QED BY <1>7 DEF VisitNext, v

LEMMA VisitDependencyKeeps ==
  ASSUME NEW steps, Drawn(steps), NEW w, WalkInv(steps, w, {}),
         w.frames # <<>>, NEW dep \in w.frames[Len(w.frames)].left
  PROVE  WalkInv(steps, VisitDependency(steps, dep, w), {})
<1> DEFINE f == w.frames
           m == Len(f)
           g == [f EXCEPT ![m].left = @ \ {dep}]
           v == [w EXCEPT !.frames[Len(w.frames)].left = @ \ {dep}]
<1>1. /\ WalkTyped(w) /\ FramesChain(steps, w)
      /\ f \in Seq(Frame) /\ m \in Nat \ {0} /\ DOMAIN f = 1..m
  BY DEF WalkInv, WalkTyped
<1>2. /\ g \in Seq(Frame) /\ Len(g) = m /\ DOMAIN g = 1..m
      /\ \A i \in 1..m : g[i].node = f[i].node
      /\ \A i \in 1..m : g[i].left = IF i = m THEN f[m].left \ {dep} ELSE f[i].left
  <2>1. f[m] \in Frame BY <1>1
  <2>2. /\ [f[m] EXCEPT !.left = @ \ {dep}] \in Frame
        /\ [f[m] EXCEPT !.left = @ \ {dep}].node = f[m].node
        /\ [f[m] EXCEPT !.left = @ \ {dep}].left = f[m].left \ {dep}
    BY <2>1 DEF Frame
  <2>3. g = [f EXCEPT ![m] = [f[m] EXCEPT !.left = @ \ {dep}]] OBVIOUS
  <2> QED BY <1>1, <2>2, <2>3
<1>3. g # <<>> BY <1>1, <1>2
<1>4. v = [w EXCEPT !.frames = g] BY <1>1 DEF WalkTyped
<1> HIDE DEF g, v
<1>5. /\ v.next = w.next /\ v.frames = g /\ v.visited = w.visited /\ v.cycle = w.cycle
      /\ WalkTyped(v)
  BY <1>1, <1>2, <1>4 DEF WalkTyped
<1>6. m \in 1..m /\ ~(m + 1 \in 1..m) /\ 1 \in 1..m BY <1>1
<1>7. dep \in DependsOf(steps, f[m].node) /\ dep \in StepIds
  <2>1. f[m] \in Frame BY <1>1
  <2> QED BY <1>1, <1>6, <2>1 DEF FramesChain, Frame
<1>8. FramesChain(steps, v)
  <2>1. \A i \in 1..m :
          /\ f[i].left \subseteq DependsOf(steps, f[i].node)
          /\ f[i].node \notin w.visited
          /\ i + 1 \in 1..m => f[i + 1].node \in DependsOf(steps, f[i].node)
          /\ \A j \in 1..m : f[i].node = f[j].node => i = j
    BY <1>1 DEF FramesChain
  <2>2. \A i \in 1..m :
          /\ g[i].left \subseteq DependsOf(steps, g[i].node)
          /\ g[i].node \notin w.visited
          /\ i + 1 \in 1..m => g[i + 1].node \in DependsOf(steps, g[i].node)
          /\ \A j \in 1..m : g[i].node = g[j].node => i = j
    BY <1>2, <2>1
  <2> QED BY <1>2, <1>5, <2>2 DEF FramesChain
<1>9. ASSUME ~w.cycle PROVE Explored(steps, v, {dep})
  <2>1. Explored(steps, w, {}) BY <1>9 DEF WalkInv
  <2>2. ASSUME NEW i \in 1..m
        PROVE  DependsOf(steps, g[i].node) \ g[i].left \subseteq w.visited \cup
                 IF i + 1 \in 1..m THEN {g[i + 1].node} ELSE {dep}
    <3>1. DependsOf(steps, f[i].node) \ f[i].left \subseteq w.visited \cup
            IF i + 1 \in 1..m THEN {f[i + 1].node} ELSE {}
      BY <1>1, <2>1 DEF Explored
    <3>2. i = m \/ i + 1 \in 1..m BY <1>1
    <3> QED BY <1>2, <1>6, <3>1, <3>2
  <2>3. g[1].node = f[1].node BY <1>2, <1>6
  <2> QED BY <1>2, <1>3, <1>5, <2>1, <2>2, <2>3 DEF Explored
<1>10. WalkInv(steps, v, {dep}) BY <1>5, <1>8, <1>9 DEF WalkInv
<1>11. g[Len(g)].node = f[m].node BY <1>2, <1>6
<1>12. WalkInv(steps, Enter(steps, dep, v), {})
  BY <1>5, <1>7, <1>10, <1>11, EnterKeeps
<1> QED BY <1>12 DEF VisitDependency, v

\* A call returns: its node now depends on visited nodes only, and no visited
\* node depends on it, so a set that it joins is still not a circle.
LEMMA LeaveKeeps ==
  ASSUME NEW steps, Drawn(steps), NEW w, WalkInv(steps, w, {}),
         w.frames # <<>>, w.frames[Len(w.frames)].left = {}
  PROVE  WalkInv(steps, Leave(w), {})
<1> DEFINE f == w.frames
           m == Len(f)
           n == f[m].node
           g == SubSeq(f, 1, m - 1)
           v == Leave(w)
<1>1. /\ WalkTyped(w) /\ FramesChain(steps, w)
      /\ f \in Seq(Frame) /\ m \in Nat \ {0} /\ DOMAIN f = 1..m /\ m \in 1..m
  BY DEF WalkInv, WalkTyped
<1>2. /\ g \in Seq(Frame) /\ Len(g) = m - 1 /\ DOMAIN g = 1..(m - 1)
      /\ \A i \in 1..(m - 1) : g[i] = f[i]
  BY <1>1
<1>3. n \in StepIds
  <2>1. f[m] \in Frame BY <1>1
  <2> QED BY <2>1 DEF Frame
<1>4. /\ v.next = w.next /\ v.frames = g /\ v.visited = w.visited \cup {n}
      /\ v.cycle = w.cycle /\ WalkTyped(v)
  BY <1>1, <1>2, <1>3 DEF WalkTyped, Leave
<1> HIDE DEF g, v
<1>5. n \notin w.visited BY <1>1 DEF FramesChain
<1>6. \A i \in 1..(m - 1) : i \in 1..m /\ i # m /\ i + 1 \in 1..m
  BY <1>1
<1>7. FramesChain(steps, v)
  <2>1. \A i \in 1..m :
          /\ f[i].left \subseteq DependsOf(steps, f[i].node)
          /\ f[i].node \notin w.visited
          /\ i + 1 \in 1..m => f[i + 1].node \in DependsOf(steps, f[i].node)
          /\ \A j \in 1..m : f[i].node = f[j].node => i = j
    BY <1>1 DEF FramesChain
  <2>2. \A i \in 1..(m - 1) :
          /\ g[i].left \subseteq DependsOf(steps, g[i].node)
          /\ g[i].node \notin w.visited \cup {n}
          /\ i + 1 \in 1..(m - 1) => g[i + 1].node \in DependsOf(steps, g[i].node)
          /\ \A j \in 1..(m - 1) : g[i].node = g[j].node => i = j
    BY <1>1, <1>2, <1>6, <2>1
  <2> QED BY <1>2, <1>4, <2>2 DEF FramesChain
<1>8. ASSUME ~w.cycle PROVE Explored(steps, v, {})
  <2>1. Explored(steps, w, {}) BY <1>8 DEF WalkInv
  <2>2. DependsOf(steps, n) \subseteq w.visited
    <3>1. ~(m + 1 \in 1..m) BY <1>1
    <3> QED BY <1>1, <2>1, <3>1 DEF Explored
  <2>3. ASSUME NEW i \in 1..(m - 1)
        PROVE  DependsOf(steps, g[i].node) \ g[i].left \subseteq w.visited \cup {n} \cup
                 IF i + 1 \in 1..(m - 1) THEN {g[i + 1].node} ELSE {}
    <3>1. DependsOf(steps, f[i].node) \ f[i].left \subseteq w.visited \cup {f[i + 1].node}
      BY <1>1, <1>6, <2>1 DEF Explored
    <3>2. i + 1 \in 1..(m - 1) \/ i + 1 = m BY <1>1
    <3> QED BY <1>2, <3>1, <3>2
  <2>4. ASSUME NEW S \in SUBSET (w.visited \cup {n}) PROVE ~Circle(steps, S)
    <3>1. CASE S \ {n} = {}
      BY <1>5, <2>2, <3>1 DEF Circle
    <3>2. CASE S \ {n} # {}
      <4>1. ~Circle(steps, S \ {n}) /\ S \ {n} \subseteq w.visited
        BY <2>1 DEF Explored
      <4>2. PICK k \in S \ {n} : DependsOf(steps, k) \cap (S \ {n}) = {}
        BY <3>2, <4>1 DEF Circle
      <4>3. n \notin DependsOf(steps, k) BY <1>5, <2>1, <4>1 DEF Explored
      <4> QED BY <4>2, <4>3 DEF Circle
    <3> QED BY <3>1, <3>2
  <2>5. ASSUME NEW i \in DOMAIN steps, i < w.next
        PROVE  steps[i].id \in w.visited \cup {n} \cup
                 IF g # <<>> THEN {g[1].node} ELSE {}
    <3>1. steps[i].id \in w.visited \cup {f[1].node} BY <2>1, <2>5 DEF Explored
    <3>2. m = 1 \/ 1 \in 1..(m - 1)
      <4>1. \A k \in Nat \ {0} : k = 1 \/ 1 \in 1..(k - 1) OBVIOUS
      <4> QED BY <1>1, <4>1
    <3>3. 1 \in 1..(m - 1) => g # <<>> BY <1>2
    <3> QED BY <1>2, <3>1, <3>2, <3>3
  <2> QED BY <1>2, <1>4, <2>1, <2>2, <2>3, <2>4, <2>5 DEF Explored
<1>9. WalkInv(steps, v, {}) BY <1>4, <1>7, <1>8 DEF WalkInv
<1> QED BY <1>9 DEF v

LEMMA OnwardKeeps ==
  ASSUME NEW steps, Drawn(steps), NEW w, WalkInv(steps, w, {}),
         NEW v \in Onward(steps, w)
  PROVE  WalkInv(steps, v, {})
<1>1. CASE w.frames = <<>>
  <2>1. v = VisitNext(steps, w) /\ w.next \in DOMAIN steps BY <1>1 DEF Onward
  <2> QED BY <1>1, <2>1, VisitNextKeeps
<1>2. CASE w.frames # <<>>
  <2> DEFINE left == w.frames[Len(w.frames)].left
  <2>1. CASE \E dep \in left : v = VisitDependency(steps, dep, w)
    BY <1>2, <2>1, VisitDependencyKeeps
  <2>2. CASE left = {} /\ v = Leave(w)
    BY <1>2, <2>2, LeaveKeeps
  <2> QED BY <1>2, <2>1, <2>2 DEF Onward
<1> QED BY <1>1, <1>2

\* A walk that is over has met a node under way exactly if the steps cannot be
\* put in an order.
LEMMA WalkDecides ==
  ASSUME NEW steps, Drawn(steps), NEW w, WalkInv(steps, w, {}), Walked(steps, w)
  PROVE  w.cycle <=> ~Orderable(steps)
<1>1. \A n \in IdsOf(steps) : DependsOf(steps, n) = DepsOf(steps)[n]
  BY DEF DependsOf
<1>2. Orderable(steps) <=> \A S \in SUBSET IdsOf(steps) : ~Circle(steps, S)
  BY <1>1 DEF Orderable, Circle
<1>3. ASSUME w.cycle PROVE ~Orderable(steps)
  <2>1. PICK S \in SUBSET StepIds : Circle(steps, S) BY <1>3 DEF WalkInv
  <2>2. S \subseteq IdsOf(steps) BY <2>1, DependenciesTyped DEF Circle
  <2> QED BY <1>2, <2>1, <2>2
<1>4. ASSUME ~w.cycle PROVE Orderable(steps)
  <2>1. Explored(steps, w, {}) /\ WalkTyped(w) BY <1>4 DEF WalkInv
  <2>2. \A i \in DOMAIN steps : i < w.next
    BY <2>1 DEF Walked, WalkTyped, Drawn
  <2>3. IdsOf(steps) \subseteq w.visited
    BY <2>1, <2>2 DEF Explored, Walked, IdsOf
  <2>4. \A S \in SUBSET w.visited : ~Circle(steps, S) BY <2>1 DEF Explored
  <2>5. \A S \in SUBSET IdsOf(steps) : ~Circle(steps, S) BY <2>3, <2>4
  <2> QED BY <1>2, <2>5
<1> QED BY <1>3, <1>4

-----------------------------------------------------------------------------
(* The editor: the canvas *)

CanvasTyped ==
  /\ nodes \in Seq(StepNodeData) /\ edges \subseteq StepIds \X StepIds
  /\ \A i, j \in DOMAIN nodes : nodes[i].id = nodes[j].id => i = j

EditorInv ==
  CanvasTyped /\ (walk # NoWalk => WalkInv(StepsFromGraph, walk, {}))

\* What is on the canvas can be drawn.
LEMMA StepsDrawn ==
  ASSUME CanvasTyped
  PROVE  /\ Drawn(StepsFromGraph)
         /\ DOMAIN StepsFromGraph = DOMAIN nodes
         /\ \A i \in DOMAIN nodes : StepsFromGraph[i].id = nodes[i].id
<1> DEFINE deps(i) == {e[1] : e \in {x \in edges : x[2] = nodes[i].id}}
           step(i) == [id |-> nodes[i].id, numbers |-> nodes[i].numbers,
                       depends_on |-> deps(i)]
<1>1. DOMAIN nodes = 1..Len(nodes) /\ Len(nodes) \in Nat
      /\ \A i \in DOMAIN nodes : nodes[i] \in StepNodeData
  BY DEF CanvasTyped
<1>2. StepsFromGraph = [i \in 1..Len(nodes) |-> step(i)]
  BY <1>1 DEF StepsFromGraph
<1>3. ASSUME NEW i \in 1..Len(nodes) PROVE step(i) \in Step /\ step(i).id = nodes[i].id
  <2>1. nodes[i].id \in StepIds /\ nodes[i].numbers \in StepNumbers
    BY <1>1 DEF StepNodeData
  <2>2. deps(i) \subseteq StepIds BY DEF CanvasTyped
  <2> HIDE DEF deps
  <2> QED BY <2>1, <2>2 DEF Step
<1> HIDE DEF step
<1>4. /\ StepsFromGraph \in Seq(Step) /\ DOMAIN StepsFromGraph = 1..Len(nodes)
      /\ \A i \in 1..Len(nodes) : StepsFromGraph[i].id = nodes[i].id
  BY <1>1, <1>2, <1>3
<1> QED BY <1>1, <1>4 DEF Drawn, Distinct, CanvasTyped

\* Distinct ids are as many as the steps.
LEMMA DrawnIsUnique ==
  ASSUME NEW steps, Drawn(steps) PROVE Unique(steps)
<1> DEFINE id == [i \in 1..Len(steps) |-> steps[i].id]
<1>1. Len(steps) \in Nat /\ DOMAIN steps = 1..Len(steps) BY DEF Drawn
<1>2. id \in Bijection(1..Len(steps), IdsOf(steps))
  BY <1>1 DEF Bijection, Injection, Surjection, IsInjective, Drawn, Distinct, IdsOf
<1>3. ExistsBijection(1..Len(steps), IdsOf(steps)) BY <1>2 DEF ExistsBijection
<1>4. Cardinality(IdsOf(steps)) = Len(steps) BY <1>1, <1>3, FS_CountingElements
<1> QED BY <1>4 DEF Unique

LEMMA EditorInitially == EditorInit => EditorInv
<1> SUFFICES ASSUME EditorInit PROVE EditorInv
  OBVIOUS
<1>1. StepToNode(FirstStep, NewNumbers) \in StepNodeData
  BY EditorAssumption DEF StepToNode, StepNodeData
<1> QED BY <1>1 DEF EditorInit, EditorInv, CanvasTyped

LEMMA WithoutKeeps ==
  ASSUME CanvasTyped, NEW ids, Without(ids), edges' \subseteq edges
  PROVE  CanvasTyped'
<1>1. PICK pos \in [1..Cardinality(Kept(ids)) -> Kept(ids)] :
        /\ \A i, j \in DOMAIN pos : i < j => pos[i] < pos[j]
        /\ nodes' = [i \in DOMAIN pos |-> nodes[pos[i]]]
  BY DEF Without
<1>2. DOMAIN nodes = 1..Len(nodes) /\ Len(nodes) \in Nat
      /\ Kept(ids) \subseteq DOMAIN nodes
  BY DEF CanvasTyped, Kept
<1>3. IsFiniteSet(Kept(ids))
  <2>1. IsFiniteSet(1..Len(nodes)) BY <1>2, FS_Interval
  <2> QED BY <1>2, <2>1, FS_Subset
<1>4. Cardinality(Kept(ids)) \in Nat BY <1>3, FS_CardinalityType
<1>5. nodes' \in Seq(StepNodeData) /\ DOMAIN nodes' = 1..Cardinality(Kept(ids))
  <2> DEFINE n == Cardinality(Kept(ids))
  <2>1. n \in Nat /\ DOMAIN pos = 1..n BY <1>4
  <2> HIDE DEF n
  <2>2. nodes' = [i \in 1..n |-> nodes[pos[i]]] BY <1>1, <2>1
  <2>3. \A i \in 1..n : nodes[pos[i]] \in StepNodeData
    <3>1. \A i \in 1..n : pos[i] \in DOMAIN nodes BY <1>2 DEF n
    <3> QED BY <3>1 DEF CanvasTyped
  <2> QED BY <2>1, <2>2, <2>3 DEF n
<1>6. ASSUME NEW i \in DOMAIN pos, NEW j \in DOMAIN pos, nodes'[i].id = nodes'[j].id
      PROVE  i = j
  <2>1. nodes[pos[i]].id = nodes[pos[j]].id BY <1>1, <1>6
  <2>2. pos[i] = pos[j] BY <1>2, <2>1 DEF CanvasTyped
  <2>3. pos[i] \in Nat /\ i \in Nat /\ j \in Nat BY <1>2
  <2> QED BY <1>1, <2>2, <2>3
<1> QED BY <1>1, <1>5, <1>6 DEF CanvasTyped

\* A list whose ids are those of the canvas, in their places.
LEMMA RelabelKeeps ==
  ASSUME CanvasTyped, nodes' \in Seq(StepNodeData), DOMAIN nodes' = DOMAIN nodes,
         \A i \in DOMAIN nodes : nodes'[i].id = nodes[i].id, UNCHANGED edges
  PROVE  CanvasTyped'
  BY DEF CanvasTyped

LEMMA SaveKeeps ==
  ASSUME CanvasTyped, NEW id \in StepIds, NEW numbers \in StepNumbers, SaveStep(id, numbers)
  PROVE  CanvasTyped'
<1>1. DOMAIN nodes = 1..Len(nodes) /\ Len(nodes) \in Nat
      /\ \A i \in DOMAIN nodes : nodes[i] \in StepNodeData
  BY DEF CanvasTyped
<1>2. CASE dialog.initial = NoStep
  <2> DEFINE node == StepToNode(id, numbers)
  <2>1. nodes' = Append(nodes, node) /\ UNCHANGED edges
    BY <1>2 DEF SaveStep, Saved
  <2>2. node \in StepNodeData /\ node.id = id BY DEF StepToNode, StepNodeData
  <2>3. \A i \in DOMAIN nodes : nodes[i].id # id
    BY <1>2 DEF SaveStep, Refused, ExistingIds, IdsOf
  <2> HIDE DEF node
  <2>4. /\ nodes' \in Seq(StepNodeData) /\ DOMAIN nodes' = 1..(Len(nodes) + 1)
        /\ \A i \in 1..Len(nodes) : nodes'[i] = nodes[i]
        /\ nodes'[Len(nodes) + 1] = node
    BY <1>1, <2>1, <2>2 DEF CanvasTyped
  <2>5. \A i \in 1..(Len(nodes) + 1) : i \in 1..Len(nodes) \/ i = Len(nodes) + 1
    BY <1>1
  <2>6. \A i, j \in DOMAIN nodes' : nodes'[i].id = nodes'[j].id => i = j
    BY <1>1, <2>2, <2>3, <2>4, <2>5 DEF CanvasTyped
  <2> QED BY <2>1, <2>4, <2>6 DEF CanvasTyped
<1>3. CASE dialog.initial # NoStep
  <2>1. /\ nodes' = [i \in DOMAIN nodes |->
              IF nodes[i].id = id
              THEN [nodes[i] EXCEPT !.numbers = numbers] ELSE nodes[i]]
        /\ UNCHANGED edges
    BY <1>3 DEF SaveStep, Saved
  <2>2. ASSUME NEW i \in DOMAIN nodes
        PROVE  nodes'[i] \in StepNodeData /\ nodes'[i].id = nodes[i].id
    BY <1>1, <2>1 DEF StepNodeData
  <2> QED BY <1>1, <2>1, <2>2, RelabelKeeps
<1> QED BY <1>2, <1>3

LEMMA AnswerKeeps ==
  ASSUME CanvasTyped, NEW status \in [StepIds -> RunStatuses], RunAnswered(status)
  PROVE  CanvasTyped'
<1> DEFINE end(i) == IF nodes[i].id \in call.ids THEN status[nodes[i].id] ELSE "none"
<1>1. /\ nodes' = [i \in DOMAIN nodes |-> [nodes[i] EXCEPT !.runStatus = end(i)]]
      /\ UNCHANGED edges
  BY DEF RunAnswered
<1>2. DOMAIN nodes = 1..Len(nodes) /\ Len(nodes) \in Nat
      /\ \A i \in DOMAIN nodes : nodes[i] \in StepNodeData
  BY DEF CanvasTyped
<1>3. ASSUME NEW i \in DOMAIN nodes
      PROVE  nodes'[i] \in StepNodeData /\ nodes'[i].id = nodes[i].id
  <2>1. end(i) \in RunStatuses \cup {"none"} BY <1>2 DEF StepNodeData
  <2> HIDE DEF end
  <2> QED BY <1>1, <1>2, <2>1 DEF StepNodeData
<1>4. nodes' \in Seq(StepNodeData) /\ DOMAIN nodes' = DOMAIN nodes
  <2> DEFINE node(i) == [nodes[i] EXCEPT !.runStatus = end(i)]
  <2>1. \A i \in 1..Len(nodes) : node(i) \in StepNodeData BY <1>1, <1>2, <1>3
  <2>2. nodes' = [i \in 1..Len(nodes) |-> node(i)] BY <1>1, <1>2
  <2> HIDE DEF node
  <2> QED BY <1>2, <2>1, <2>2
<1> QED BY <1>1, <1>3, <1>4, RelabelKeeps

LEMMA CanvasKeeps ==
  ASSUME CanvasTyped, Canvas PROVE CanvasTyped'
<1>1. ASSUME NEW s \in ExistingIds, NEW t \in ExistingIds, Connect(s, t)
      PROVE  CanvasTyped'
  <2>1. \A i \in DOMAIN nodes : nodes[i] \in StepNodeData BY DEF CanvasTyped
  <2>2. \A i \in DOMAIN nodes : nodes[i].id \in StepIds BY <2>1 DEF StepNodeData
  <2> QED BY <1>1, <2>2 DEF Connect, CanvasTyped, ExistingIds, IdsOf
<1>2. ASSUME NEW id, DeleteStep(id) PROVE CanvasTyped'
  BY <1>2, WithoutKeeps DEF DeleteStep
<1>3. ASSUME NEW ids, NEW picked, RemoveSelected(ids, picked) \/ DeleteKey(ids, picked)
      PROVE  CanvasTyped'
  BY <1>3, WithoutKeeps DEF RemoveSelected, DeleteKey
<1>4. ASSUME UNCHANGED <<nodes, edges>> PROVE CanvasTyped'
  BY <1>4 DEF CanvasTyped
<1>5. CASE CloseStepDialog \/ Run \/ RunFailed
           \/ \E initial \in ExistingIds \cup {NoStep} : OpenStepDialog(initial)
  BY <1>4, <1>5 DEF CloseStepDialog, Run, RunFailed, OpenStepDialog
<1> QED BY <1>1, <1>2, <1>3, <1>5, SaveKeeps, AnswerKeeps DEF Canvas

LEMMA EditorStep == EditorInv /\ [EditorNext]_editorVars => EditorInv'
<1> SUFFICES ASSUME EditorInv, [EditorNext]_editorVars PROVE EditorInv'
  OBVIOUS
<1>1. CASE walk = NoWalk /\ Canvas
  <2>1. CanvasTyped' BY <1>1, CanvasKeeps DEF EditorInv
  <2>2. walk' \in {NoWalk, Unvisited}
    BY <1>1 DEF Canvas, Connect, DeleteStep, RemoveSelected, DeleteKey, OpenStepDialog,
                CloseStepDialog, SaveStep, Run, RunAnswered, RunFailed
  <2>3. Drawn(StepsFromGraph)' BY <2>1, StepsDrawn, PTL
  <2>4. WalkInv(StepsFromGraph', Unvisited, {})
    BY <2>3, WalkStarts DEF Drawn, Distinct
  <2> QED BY <2>1, <2>2, <2>4 DEF EditorInv
<1>2. CASE walk # NoWalk /\ Visit
  <2>1. walk' \in Onward(StepsFromGraph, walk) /\ UNCHANGED <<nodes, edges>>
    BY <1>2 DEF Visit
  <2>2. WalkInv(StepsFromGraph, walk', {})
    BY <1>2, <2>1, StepsDrawn, OnwardKeeps DEF EditorInv
  <2>3. StepsFromGraph' = StepsFromGraph BY <2>1 DEF StepsFromGraph
  <2> QED BY <2>1, <2>2, <2>3 DEF EditorInv, CanvasTyped
<1>3. ASSUME NEW name, NEW context, Decide(name, context) PROVE EditorInv'
  BY <1>3 DEF Decide, EditorInv, CanvasTyped
<1>4. CASE UNCHANGED editorVars
  BY <1>4 DEF editorVars, EditorInv, CanvasTyped, StepsFromGraph
<1> QED BY <1>1, <1>2, <1>3, <1>4 DEF EditorNext

LEMMA EditorHolds == EditorSpec => []EditorInv
  BY EditorInitially, EditorStep, PTL DEF EditorSpec

\* The console finds nothing wrong exactly if the API does not, whatever the walk
\* came to.
LEMMA ValidatorsAgree ==
  ASSUME NEW steps, Drawn(steps), NEW w, w.cycle \in BOOLEAN
  PROVE  GraphErrors(steps, w) = {} <=> ValidGraph(steps, w)
<1>1. \A s : StepErrors(steps, s) = {} <=>
              s.depends_on \subseteq IdsOf(steps) /\ s.id \notin s.depends_on
  BY DEF StepErrors, Unknown
<1>2. ASSUME GraphErrors(steps, w) = {} PROVE ValidGraph(steps, w)
  <2>1. steps # <<>> BY <1>2 DEF GraphErrors
  <2>2. Unique(steps) BY <1>2 DEF GraphErrors
  <2>3. \A s \in ToSet(steps) : StepErrors(steps, s) = {}
    BY <1>2 DEF GraphErrors
  <2>4. ~w.cycle BY <1>2 DEF GraphErrors
  <2>5. Len(steps) >= 1 BY <2>1 DEF Drawn
  <2> QED BY <1>1, <2>2, <2>3, <2>4, <2>5 DEF ValidGraph
<1>3. ASSUME ValidGraph(steps, w) PROVE GraphErrors(steps, w) = {}
  <2>1. steps # <<>> BY <1>3 DEF ValidGraph, Drawn
  <2>2. \A s \in ToSet(steps) : StepErrors(steps, s) = {}
    BY <1>1, <1>3 DEF ValidGraph
  <2>3. Unique(steps) /\ ~w.cycle BY <1>3 DEF ValidGraph
  <2> QED BY <2>1, <2>2, <2>3 DEF GraphErrors
<1> QED BY <1>2, <1>3

\* Unknown steps apart, a graph the API accepts is one that can be put in order.
LEMMA ValidIsOrderable ==
  ASSUME NEW steps, Drawn(steps), NEW w, WalkInv(steps, w, {}), Walked(steps, w)
  PROVE  ValidGraph(steps, w) <=>
           /\ steps # <<>> /\ Orderable(steps)
           /\ \A i \in DOMAIN steps : steps[i].depends_on \subseteq IdsOf(steps)
<1>1. ToSet(steps) = {steps[i] : i \in DOMAIN steps} BY DEF ToSet, Drawn
<1>2. steps # <<>> <=> Len(steps) >= 1 BY DEF Drawn
<1>3. w.cycle <=> ~Orderable(steps) BY WalkDecides
<1>4. ASSUME Orderable(steps), NEW i \in DOMAIN steps
      PROVE  steps[i].id \notin steps[i].depends_on
  <2>1. {steps[i].id} \in (SUBSET IdsOf(steps)) \ {{}} BY DEF IdsOf
  <2>2. DepsOf(steps)[steps[i].id] \cap {steps[i].id} = {}
    BY <1>4, <2>1 DEF Orderable
  <2> QED BY <2>2, DependenciesOfStep
<1>5. Unique(steps) BY DrawnIsUnique
<1> QED BY <1>1, <1>2, <1>3, <1>4, <1>5 DEF ValidGraph

\* workflow-validate.ts and validate_graph: for any steps and edges the canvas can
\* come to hold, and any order of visiting them, both validators accept exactly
\* the graphs whose steps exist and can be put in an order.
THEOREM ValidatorMirrorsHolds == EditorSpec => []ValidatorMirrors
<1>1. ASSUME EditorInv PROVE ValidatorMirrors
  <2> DEFINE steps == StepsFromGraph
             known == \A i \in DOMAIN steps : steps[i].depends_on \subseteq IdsOf(steps)
             valid == ValidGraph(steps, walk)
  <2>1. Drawn(steps) BY <1>1, StepsDrawn DEF EditorInv
  <2>2. Unique(steps) BY <2>1, DrawnIsUnique
  <2>3. ASSUME walk # NoWalk, Walked(steps, walk)
        PROVE  /\ (GraphErrors(steps, walk) = {}) = valid
               /\ valid = (steps # <<>> /\ known /\ Orderable(steps))
    <3>1. WalkInv(steps, walk, {}) BY <1>1, <2>3 DEF EditorInv
    <3>2. walk.cycle \in BOOLEAN BY <3>1 DEF WalkInv, WalkTyped
    <3>3. valid <=> (steps # <<>> /\ known /\ Orderable(steps))
      BY <2>1, <2>3, <3>1, ValidIsOrderable
    <3>4. GraphErrors(steps, walk) = {} <=> valid
      BY <2>1, <3>2, ValidatorsAgree
    <3>5. valid \in BOOLEAN /\ Orderable(steps) \in BOOLEAN
      BY DEF ValidGraph, Orderable
    <3> HIDE DEF valid, steps
    <3> QED BY <3>3, <3>4, <3>5
  <2> QED BY <2>2, <2>3 DEF ValidatorMirrors
<1> QED BY <1>1, EditorHolds, PTL

\* Workflows.tsx:165-182: whatever was removed, connected or saved in whatever
\* order before, a definition that is sent has a graph that can be run, and the
\* API refuses it for no other reason than a field out of its bounds.
THEOREM SentGraphIsAcceptedHolds == EditorSpec => SentGraphIsAccepted
<1> DEFINE A == \A nameLength \in NameLengths, context \in ContextKinds :
                  walk # NoWalk /\ Decide(nameLength, context) /\ call' # call =>
                    /\ Orderable(StepsFromGraph)
                    /\ call'.accepted <=>
                         FieldsFit(StepsFromGraph, nameLength, context)
<1>1. ASSUME EditorInv PROVE A
  <2> SUFFICES ASSUME NEW nameLength \in NameLengths, NEW context \in ContextKinds,
                      walk # NoWalk, Decide(nameLength, context), call' # call
               PROVE  /\ Orderable(StepsFromGraph)
                      /\ call'.accepted <=>
                           FieldsFit(StepsFromGraph, nameLength, context)
    OBVIOUS
  <2>1. /\ GraphErrors(StepsFromGraph, walk) = {} /\ Walked(StepsFromGraph, walk)
        /\ call'.accepted = Accepts(StepsFromGraph, walk, nameLength, context)
    BY DEF Decide
  <2>2. Drawn(StepsFromGraph) /\ WalkInv(StepsFromGraph, walk, {})
    BY <1>1, StepsDrawn DEF EditorInv
  <2>3. walk.cycle \in BOOLEAN BY <2>2 DEF WalkInv, WalkTyped
  <2>4. ValidGraph(StepsFromGraph, walk) BY <2>1, <2>2, <2>3, ValidatorsAgree
  <2>5. Orderable(StepsFromGraph) BY <2>1, <2>2, <2>4, ValidIsOrderable
  <2> QED BY <2>1, <2>4, <2>5 DEF Accepts
<1>2. EditorSpec => [][A]_editorVars
  BY <1>1, EditorHolds, PTL
<1> QED BY <1>2 DEF A, SentGraphIsAccepted

=============================================================================
