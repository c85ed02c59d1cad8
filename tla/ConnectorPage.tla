---------------------------- MODULE ConnectorPage ----------------------------
(***************************************************************************)
(* The console's connector marketplace (frontend/src/pages/Integrations.tsx,*)
(* components/integrations, lib/integration-hub.ts): the cards and their     *)
(* filters, the drawer of one connector, the dialog that adds an MCP server  *)
(* and the return from an OAuth provider.  What the two queries answer is    *)
(* external.  Messages, and what a test or an execution answered, are left   *)
(* out; the text typed into a field is present or not.                       *)
(***************************************************************************)
EXTENDS Naturals, Sequences, FiniteSets

CONSTANTS
  Catalog,     \* the catalog: what is fixed of each of its connectors, by id
  Statuses,    \* Statuses[c]: the statuses the backend may report of c
  Servers,     \* the ids of MCP servers
  Reports,     \* what the backend may say of an MCP server
  Matches,     \* Matches[q]: the connectors whose text contains the search q
  MaxActs,     \* bound: what the operator does
  MaxDrawerActs, \* bound: what the operator goes on to do with the drawer alone
  MaxReads,    \* bound: answers of the queries
  MaxReturns   \* bound: returns from a provider

\* CATEGORY_ORDER; the order itself, and that of the cards, is left out.
Categories == {"ai", "automation", "productivity", "google", "developer", "data", "other"}

STATUS_BUCKETS == {"connected", "needs_verification", "needs_setup", "not_built"}

Connectors == DOMAIN Catalog \cup Servers

ASSUME ConnectorAssumption ==
  /\ \A c \in DOMAIN Catalog :
       /\ Catalog[c].category \in Categories
       /\ Catalog[c].type \in {"mcp", "api", "oauth", "webhook"}
       /\ {Catalog[c].infra, Catalog[c].implemented, Catalog[c].authority} \subseteq BOOLEAN
       /\ Statuses[c] \subseteq
            IF Catalog[c].implemented THEN {"needs_setup", "configured", "connected", "error"}
            ELSE {"available"}
  /\ DOMAIN Catalog \cap Servers = {}
  /\ Reports \subseteq [stored : BOOLEAN, enabled : BOOLEAN, connected : {"yes", "no", "unknown"}]
  /\ \A q \in DOMAIN Matches : Matches[q] \subseteq Connectors
  /\ {MaxActs, MaxDrawerActs, MaxReads, MaxReturns} \subseteq Nat

-----------------------------------------------------------------------------
(* Connectors *)

\* A server the backend does not have.
NotStored == [stored |-> FALSE, enabled |-> FALSE, connected |-> "unknown"]
\* What the backend may answer about some connectors.
Answers(cs) ==
  LET of(c) == IF c \in Servers THEN Reports ELSE Statuses[c]
  IN {d \in [cs -> UNION {of(c) : c \in cs}] : \A c \in cs : d[c] \in of(c)}

NoData == [c \in Connectors |-> IF c \in Servers THEN NotStored ELSE "unknown"]

McpStatus(report) ==
  IF ~report.enabled THEN "disabled"
  ELSE [yes |-> "connected", no |-> "error", unknown |-> "configured"][report.connected]

\* mcpServerToConnector, what does not depend on the server: what its tools may do
\* is not known.
Kind(c) ==
  IF c \in Servers
  THEN [type |-> "mcp", category |-> "other", infra |-> FALSE, implemented |-> TRUE,
        authority |-> FALSE]
  ELSE Catalog[c]

IsComingSoon(c) == ~Kind(c).implemented
IsConnected(c, status) == Kind(c).implemented /\ status = "connected"
IsSystemInfrastructure(c) == Kind(c).infra
IsOAuth(c) == Kind(c).type = "oauth" /\ Kind(c).implemented

StatusBucket(c, status) ==
  IF IsComingSoon(c) THEN "not_built"
  ELSE IF status = "connected" THEN "connected"
  ELSE IF status \in {"configured", "error"} THEN "needs_verification"
  ELSE "needs_setup"

PrimaryAction(c, status) ==
  IF IsComingSoon(c) THEN "coming_soon"
  ELSE IF status = "connected" THEN "manage"
  ELSE IF c \in Servers \/ status \in {"configured", "error"} THEN "test"
  ELSE IF Kind(c).type = "oauth" THEN "connect" ELSE "configure"

-----------------------------------------------------------------------------
NoConnector == "none"
Selection(c, status) == [id |-> c, status |-> status]
NoSelection == Selection(NoConnector, "unknown")

\* A confirmation that the operator went on from without an answer to it.
Left == "left"

\* The mutations of the page (its cards), of the drawer and of the dialog.
Mutations == {"cardTest", "cardTestMcp", "test", "testMcp", "execute", "authorize",
          "disconnect", "deleteMcp"}

\* AddMcpServerDialog: name and endpoint count as one, both are required.
Forms == [named : BOOLEAN, auth : {"none", "bearer", "header"},
          header : BOOLEAN, secret : BOOLEAN]
BlankForm == [named |-> FALSE, auth |-> "none", header |-> FALSE, secret |-> FALSE]
NoServer == BlankForm

VARIABLES
  queries,    \* of the catalog and of the servers: loading, read or failed, and
              \* whether there is data
  data,       \* what they hold of each connector
  browse,     \* the search and the chips that are chosen
  drawer,     \* the connector the drawer was opened for, as it was then
  confirming, \* the drawer asks to confirm a disconnect
  asked,      \* history: the connector whose Disconnect was pressed, or Left
  job,        \* the drawer's n8n form: a workflow is named, the payload parses
  pending,    \* the connector each mutation is under way for
  adding,     \* the dialog is open
  form,       \* what is typed into it
  creating,   \* the server it has sent
  trail,      \* the browser's history of this page: what its addresses report
  at,         \* the entry that is open, 0 while a provider's page is
  authed,     \* an operator key is set
  returns,    \* history: how often a provider has sent the operator back
  reports,    \* history: how often the page has reported on a return
  acts, reads

page == <<drawer, confirming, asked, job, pending, adding, form, creating>>
site == <<trail, at, authed, returns, reports>>
answers == <<queries, data, reads>>
pageVars == <<page, browse, site, answers, acts>>

NoBrowse == [search |-> "", bucket |-> "all", category |-> "all"]

\* The state of a page that has just been loaded or opened.
BlankPage ==
  /\ browse' = NoBrowse
  /\ drawer' = NoSelection /\ confirming' = FALSE /\ asked' = NoConnector
  /\ job' = [named |-> FALSE, parses |-> TRUE]
  /\ pending' = [h \in Mutations |-> NoConnector]
  /\ adding' = FALSE /\ form' = BlankForm /\ creating' = NoServer

Unread == [q \in {"catalog", "servers"} |-> [state |-> "loading", known |-> FALSE]]

\* The query cache may hold the answers from an earlier visit.
Known == [q \in {"catalog", "servers"} |-> [state |-> "read", known |-> TRUE]]

PageInit ==
  /\ browse = NoBrowse
  /\ drawer = NoSelection /\ confirming = FALSE /\ asked = NoConnector
  /\ job = [named |-> FALSE, parses |-> TRUE]
  /\ pending = [h \in Mutations |-> NoConnector]
  /\ adding = FALSE /\ form = BlankForm /\ creating = NoServer
  /\ \/ queries = Unread /\ data = NoData
     \/ /\ queries = Known
        /\ \E old \in Answers(DOMAIN Catalog), new \in Answers(Servers) :
             data = [c \in Connectors |-> IF c \in Servers THEN new[c] ELSE old[c]]
  /\ trail = <<"plain">> /\ at = 1
  /\ authed \in BOOLEAN
  /\ returns = 0 /\ reports = 0 /\ acts = 0 /\ reads = 0

-----------------------------------------------------------------------------
(* The queries (external) *)

CatalogRead(new) ==
  /\ queries' = [queries EXCEPT !["catalog"] = [state |-> "read", known |-> TRUE]]
  /\ data' = [c \in Connectors |-> IF c \in Servers THEN data[c] ELSE new[c]]

ServersRead(new) ==
  /\ queries' = [queries EXCEPT !["servers"] = [state |-> "read", known |-> TRUE]]
  /\ data' = [c \in Connectors |-> IF c \in Servers THEN new[c] ELSE data[c]]

Answer ==
  /\ at # 0 /\ reads < MaxReads /\ reads' = reads + 1
  /\ \/ \E new \in Answers(DOMAIN Catalog) : CatalogRead(new)
     \/ \E new \in Answers(Servers) : ServersRead(new)
     \/ \E q \in DOMAIN queries :
          queries' = [queries EXCEPT ![q].state = "failed"] /\ UNCHANGED data
  /\ UNCHANGED <<page, browse, site, acts>>

\* Retry, or the next poll: a query without data is loading again.
FetchAgain(q) ==
  /\ at # 0 /\ queries[q].state = "failed" /\ ~queries[q].known
  /\ queries' = [queries EXCEPT ![q].state = "loading"]
  /\ UNCHANGED <<page, browse, site, data, reads, acts>>

-----------------------------------------------------------------------------
(* What the page shows *)

\* allConnectors
Items ==
  {c \in Servers : queries["servers"].known /\ data[c].stored}
  \cup {c \in DOMAIN Catalog : queries["catalog"].known}

Status(c) == IF c \in Servers THEN McpStatus(data[c]) ELSE data[c]

\* A list of servers that cannot be read counts as an empty one.
IsLoading == \E q \in DOMAIN queries : queries[q].state = "loading"
IsError == queries["catalog"].state = "failed"

InBucket(c, bucket) == bucket = "all" \/ StatusBucket(c, Status(c)) = bucket
InCategory(c, category) == category = "all" \/ Kind(c).category = category

Searched ==
  {c \in Items : ~IsSystemInfrastructure(c)
                 /\ (browse.search = "" \/ c \in Matches[browse.search])}

\* Mutant of Counts: the other row of chips is forgotten.
MutCounts(bucket) == Cardinality({c \in Searched : InBucket(c, bucket)})

\* counts, and the count of all statuses
Counts(bucket) ==
  Cardinality({c \in Searched : InCategory(c, browse.category) /\ InBucket(c, bucket)})

\* categoryCounts, and their sum
CategoryCounts(category) ==
  Cardinality({c \in Searched : InBucket(c, browse.bucket) /\ InCategory(c, category)})

Filtered(filter) ==
  {c \in Searched : InBucket(c, filter.bucket) /\ InCategory(c, filter.category)}

\* groupByCategory: the cards of each category that has any.
GroupByCategory(cards) ==
  [k \in Categories \cap {Kind(c).category : c \in cards} |->
     {c \in cards : Kind(c).category = k}]

CardsOf(groups) == UNION {groups[k] : k \in DOMAIN groups}

\* The cards of each section of the page.
Section(name) ==
  IF IsError \/ IsLoading THEN {}
  ELSE CASE name = "integrated" -> {c \in Items : IsConnected(c, Status(c))}
         [] name = "ready" -> {c \in Items : InBucket(c, "needs_verification")}
         [] name = "browse" -> CardsOf(GroupByCategory(Filtered(browse)))
         [] name = "infrastructure" -> {c \in Items : IsSystemInfrastructure(c)}

Sections == {"integrated", "ready", "browse", "infrastructure"}

\* ConnectorCard: the buttons of a card.  For the action "test" there is none
\* but the one of the first two sections.
CardButtons(section, c) ==
  (IF section \in {"integrated", "ready"} /\ Kind(c).implemented
      /\ Status(c) # "needs_setup" THEN {"test"} ELSE {})
  \cup ({PrimaryAction(c, Status(c))} \ {"test"})

\* testing: of the catalog's connectors, one test stands for all.
TestingCard(c) ==
  IF c \in Servers THEN pending["cardTestMcp"] = c
  ELSE pending["cardTest"] # NoConnector

\* ConnectorDrawer: its buttons, by the status the connector had.
DrawerButtons ==
  LET c == drawer.id IN
  IF drawer = NoSelection \/ IsComingSoon(c) THEN {}
  ELSE {IF IsOAuth(c) /\ drawer.status # "connected" THEN "connect" ELSE "test"}
       \cup (IF c \in Servers \/ (IsOAuth(c) /\ drawer.status = "connected")
             THEN {"disconnect"} ELSE {})
       \cup (IF c = "n8n" /\ drawer.status # "needs_setup" THEN {"execute"} ELSE {})

\* AuthRequiredBanner, with the way to the settings.
AuthRequired == ~authed

\* Mutant of DrawerPanels: the banner is left to the page.
MutDrawerPanels ==
  IF drawer = NoSelection THEN {}
  ELSE IF IsComingSoon(drawer.id) THEN {"catalogOnly"}
  ELSE IF drawer.status = "needs_setup" THEN {"setup", "checks"} ELSE {"checks"}

\* ConnectorDrawer: what it says beside the buttons: why some cannot be pressed,
\* the last check and execution, and what connecting authorises.
DrawerPanels ==
  LET c == drawer.id
      says(p) == CASE p = "infrastructure" -> IsSystemInfrastructure(c)
                   [] p = "signIn" -> AuthRequired
                   [] p = "catalogOnly" -> IsComingSoon(c)
                   [] p = "setup" -> ~IsComingSoon(c) /\ drawer.status = "needs_setup"
                   [] p = "checks" -> ~IsComingSoon(c)
                   [] p = "executions" -> ~IsComingSoon(c) /\ c \notin Servers
                   [] p = "authority" -> Kind(c).authority
                   [] p = "unmapped" -> c \in Servers
  IN {p \in {"infrastructure", "signIn", "catalogOnly", "setup", "checks", "executions",
              "authority", "unmapped"} : drawer # NoSelection /\ says(p)}

TestHook == IF drawer.id \in Servers THEN "testMcp" ELSE "test"
RemoveHook == IF IsOAuth(drawer.id) THEN "disconnect" ELSE "deleteMcp"

\* A button that is disabled, as the account and the connector are.
Enabled(button) ==
  /\ authed
  /\ button \in {"connect", "test"} => drawer.status # "needs_setup"

\* A button that is loading cannot be pressed either; one that lies under a
\* confirmation can, by keyboard.
Pressable(button) ==
  LET idle(h) == pending[h] = NoConnector IN
  /\ button \in DrawerButtons /\ Enabled(button)
  /\ CASE button = "connect" -> idle("authorize")
       [] button = "test" -> idle(TestHook)
       [] button = "disconnect" -> TRUE
       [] button = "execute" -> job.named /\ idle("execute")

-----------------------------------------------------------------------------
(* The operator.  The drawer and the dialogs cover what is under them and do *)
(* not hold the focus: the keyboard reaches the buttons and fields below.    *)

Act == at # 0 /\ acts < MaxActs /\ acts' = acts + 1
DrawerAct == at # 0 /\ acts < MaxActs + MaxDrawerActs /\ acts' = acts + 1

Covered == drawer # NoSelection \/ adding

Browse(new) ==
  /\ Act /\ ~IsError
  /\ browse' = new /\ browse' # browse
  /\ UNCHANGED <<page, site, answers>>

Search(text) == Browse([browse EXCEPT !.search = text])

\* Chip: one that counts nothing is disabled, a category that does is not shown.
ChooseBucket(bucket) == Browse([browse EXCEPT !.bucket = bucket]) /\ Counts(bucket) > 0
ChooseCategory(category) ==
  Browse([browse EXCEPT !.category = category]) /\ CategoryCounts(category) > 0

\* What the drawer asks to confirm stays when it is closed or shows another.
LeaveQuestion == asked' = IF confirming THEN Left ELSE asked

\* A card of a section, or one of its buttons but Test, opens the drawer, or
\* turns it to another connector.
Select(section, c) ==
  /\ DrawerAct
  /\ Covered => CardButtons(section, c) \ {"test"} # {}
  /\ drawer' = Selection(c, Status(c))
  /\ LeaveQuestion
  /\ UNCHANGED <<confirming, job, pending, adding, form, creating, browse, site,
                 answers>>

\* handleTest: a test of another server takes the place of one under way.
TestCard(section, c) ==
  LET hook == IF c \in Servers THEN "cardTestMcp" ELSE "cardTest" IN
  /\ Act
  /\ "test" \in CardButtons(section, c) /\ ~TestingCard(c)
  /\ pending' = [pending EXCEPT ![hook] = c]
  /\ UNCHANGED <<drawer, confirming, asked, job, adding, form, creating, browse, site,
                 answers>>

\* Close panel, or a click beside the drawer.
CloseDrawer ==
  /\ DrawerAct /\ drawer # NoSelection
  /\ drawer' = NoSelection
  /\ LeaveQuestion
  /\ UNCHANGED <<confirming, job, pending, adding, form, creating, browse, site,
                 answers>>

\* Escape closes all that is open; a confirmation is while the drawer is.
Escape ==
  /\ DrawerAct /\ Covered
  /\ drawer' = NoSelection
  /\ confirming' = (confirming /\ drawer = NoSelection)
  /\ asked' = IF confirming' THEN asked ELSE NoConnector
  /\ adding' = FALSE /\ form' = IF adding THEN BlankForm ELSE form
  /\ UNCHANGED <<job, pending, creating, browse, site, answers>>

Start(hook) ==
  /\ pending' = [pending EXCEPT ![hook] = drawer.id]
  /\ UNCHANGED <<drawer, confirming, asked, job, adding, form, creating, browse, site,
                 answers>>

RunTest == Act /\ Pressable("test") /\ Start(TestHook)
RunAuthorize == Act /\ Pressable("connect") /\ Start("authorize")

\* runExecute: a payload that does not parse is refused.
RunExecute == Act /\ Pressable("execute") /\ job.parses /\ Start("execute")

\* What is typed for n8n stays when the drawer is closed.
TypeJob(new) ==
  /\ Act /\ "execute" \in DrawerButtons
  /\ job' = new /\ job' # job
  /\ UNCHANGED <<drawer, confirming, asked, pending, adding, form, creating, browse,
                 site, answers>>

AskDisconnect ==
  /\ DrawerAct /\ Pressable("disconnect")
  /\ confirming' = TRUE /\ asked' = drawer.id
  /\ UNCHANGED <<drawer, job, pending, adding, form, creating, browse, site, answers>>

CancelDisconnect ==
  /\ DrawerAct /\ drawer # NoSelection /\ confirming
  /\ confirming' = FALSE /\ asked' = NoConnector
  /\ UNCHANGED <<drawer, job, pending, adding, form, creating, browse, site,
                 answers>>

\* confirmRemoveMcp, confirmDisconnectOAuth: of what the drawer shows by now.
ConfirmDisconnect ==
  /\ DrawerAct /\ drawer # NoSelection /\ confirming
  /\ IsOAuth(drawer.id) \/ drawer.id \in Servers
  /\ pending[RemoveHook] = NoConnector
  /\ Start(RemoveHook)

-----------------------------------------------------------------------------
(* Answers to the drawer and the cards *)

\* Mutant of Removed: the confirmation is not taken back.
MutRemoved == drawer' = NoSelection /\ UNCHANGED confirming

\* onSuccess of a removal: closes whatever the drawer shows by now.
Removed == drawer' = NoSelection /\ confirming' = FALSE

Settled(hook) ==
  /\ at # 0 /\ pending[hook] # NoConnector
  /\ pending' = [pending EXCEPT ![hook] = NoConnector]

Finished(hook) ==
  /\ hook # "authorize" /\ Settled(hook)
  /\ IF hook \in {"disconnect", "deleteMcp"} THEN Removed ELSE UNCHANGED <<drawer, confirming>>
  /\ asked' = IF confirming' THEN asked ELSE NoConnector
  /\ UNCHANGED <<job, adding, form, creating, browse, site, answers, acts>>

Failed(hook) ==
  /\ Settled(hook)
  /\ UNCHANGED <<drawer, confirming, asked, job, adding, form, creating, browse, site,
                 answers, acts>>

-----------------------------------------------------------------------------
(* AddMcpServerDialog *)

OpenDialog ==
  /\ Act /\ authed
  /\ adding' = TRUE
  /\ UNCHANGED <<drawer, confirming, asked, job, pending, form, creating, browse, site,
                 answers>>

\* Cancel keeps what is typed, its other ways to close forget it.
CloseDialog ==
  /\ Act /\ adding
  /\ adding' = FALSE /\ form' \in {form, BlankForm}
  /\ UNCHANGED <<drawer, confirming, asked, job, pending, creating, browse, site, answers>>

\* The header's name is asked for with "header", the secret but with "none".
TypeServer(new) ==
  /\ Act /\ adding
  /\ new.header # form.header => new.auth = "header"
  /\ new.secret # form.secret => new.auth # "none"
  /\ form' = new /\ form' # form
  /\ UNCHANGED <<drawer, confirming, asked, job, pending, adding, creating, browse, site,
                 answers>>

Payload ==
  [form EXCEPT !.header = @ /\ form.auth = "header", !.secret = @ /\ form.auth # "none"]

\* submit: refused without a name and an endpoint, or the header's name.
SubmitServer ==
  /\ Act /\ adding /\ creating = NoServer
  /\ form.named /\ (form.auth = "header" => form.header)
  /\ creating' = Payload
  /\ UNCHANGED <<drawer, confirming, asked, job, pending, adding, form, browse, site,
                 answers>>

\* Success closes the dialog and empties it, also when it was opened again.
ServerAdded ==
  /\ at # 0 /\ creating # NoServer
  /\ creating' = NoServer /\ adding' = FALSE /\ form' = BlankForm
  /\ UNCHANGED <<drawer, confirming, asked, job, pending, browse, site, answers, acts>>

ServerRefused ==
  /\ at # 0 /\ creating # NoServer
  /\ creating' = NoServer
  /\ UNCHANGED <<drawer, confirming, asked, job, pending, adding, form, browse, site,
                 answers, acts>>

-----------------------------------------------------------------------------
(* The return from a provider *)

\* Mutant of Strip: the address that reports stays in the browser's history.
MutStrip(entries, i) ==
  IF entries[i] = "plain" THEN entries ELSE Append(SubSeq(entries, 1, i), "plain")

\* setSearchParams with replace
Strip(entries, i) == [entries EXCEPT ![i] = "plain"]

\* The page is loaded at an entry, and its effect reports what the address says.
Load(entries, i) ==
  /\ BlankPage
  /\ queries' = Unread /\ data' = NoData
  /\ reports' = IF entries[i] = "plain" THEN reports ELSE reports + 1
  /\ trail' = Strip(entries, i)
  /\ at' = IF Len(trail') > Len(entries) THEN Len(trail') ELSE i

\* runAuthorize's answer takes the browser to the provider.
Authorized ==
  /\ Settled("authorize")
  /\ at' = 0
  /\ UNCHANGED <<drawer, confirming, asked, job, adding, form, creating, browse, trail,
                 authed, returns, reports, answers, acts>>

\* The callback redirects here, with the result in the address.
Returned(result) ==
  /\ at = 0 /\ returns < MaxReturns
  /\ returns' = returns + 1
  /\ Load(Append(trail, result), Len(trail) + 1)
  /\ UNCHANGED <<authed, reads, acts>>

\* Back or forward, or a reload.
GoTo(i) ==
  /\ acts < MaxActs /\ acts' = acts + 1
  /\ i \in DOMAIN trail
  /\ Load(trail, i)
  /\ UNCHANGED <<authed, returns, reads>>

-----------------------------------------------------------------------------
PageNext ==
  \/ Answer \/ \E q \in DOMAIN queries : FetchAgain(q)
  \/ \E text \in DOMAIN Matches \cup {""} : Search(text)
  \/ \E bucket \in STATUS_BUCKETS \cup {"all"} : ChooseBucket(bucket)
  \/ \E category \in Categories \cup {"all"} : ChooseCategory(category)
  \/ \E s \in Sections : \E c \in Section(s) : Select(s, c) \/ TestCard(s, c)
  \/ CloseDrawer \/ Escape \/ RunTest \/ RunAuthorize \/ RunExecute
  \/ \E new \in [named : BOOLEAN, parses : BOOLEAN] : TypeJob(new)
  \/ AskDisconnect \/ CancelDisconnect \/ ConfirmDisconnect
  \/ \E h \in Mutations : Finished(h) \/ Failed(h)
  \/ OpenDialog \/ CloseDialog \/ SubmitServer \/ ServerAdded \/ ServerRefused
  \/ \E new \in Forms : TypeServer(new)
  \/ Authorized \/ \E result \in {"connected", "failed"} : Returned(result)
  \/ \E i \in DOMAIN trail : GoTo(i)

PageSpec == PageInit /\ [][PageNext]_pageVars

-----------------------------------------------------------------------------
(* Properties *)

\* Integrations.tsx:37-40 and 124-126: whatever is searched and chosen, and
\* whatever the queries answer meanwhile, the number on a chip is the number of
\* cards it would show.
ChipTruth ==
  LET shown(filter) == Cardinality(CardsOf(GroupByCategory(Filtered(filter)))) IN
  /\ \A b \in STATUS_BUCKETS \cup {"all"} : Counts(b) = shown([browse EXCEPT !.bucket = b])
  /\ \A k \in Categories \cup {"all"} :
       CategoryCounts(k) = shown([browse EXCEPT !.category = k])

\* ConnectorDrawer.tsx:240-257 and 396-417: where the drawer has a button that stays
\* disabled, or no button at all, it says why, by the status and the session that
\* the buttons go by.
DisabledIsExplained ==
  /\ \A b \in DrawerButtons : ~Enabled(b) => DrawerPanels \cap {"signIn", "setup"} # {}
  /\ drawer # NoSelection /\ DrawerButtons = {} => "catalogOnly" \in DrawerPanels

\* ConnectorDrawer.tsx:130, 176-206 and 459-476: what the drawer asks to confirm
\* is what Disconnect was pressed for, however late an earlier removal is
\* answered.  The exception is a confirmation that was left open: it stays when
\* the drawer is closed by its button and then asks about the next connector.
ConfirmationIsAsked ==
  confirming => asked \in {drawer.id, Left}

\* Integrations.tsx:88-105: a return from a provider is reported, and once,
\* whatever the operator goes back to.
ReturnReportedOnce == reports = returns

=============================================================================
