---------------------------- MODULE ConsoleShell ----------------------------
(***************************************************************************)
(* What surrounds the console's pages (frontend/src/components/layout,      *)
(* lib/theme.tsx, lib/i18n, components/ui/Toast.tsx): navigation with the    *)
(* command palette, the sidebar and the account menu, the preferences for    *)
(* theme and language and where they are kept, and the notifications.  Other *)
(* tabs share localStorage.  Layout, animation and wording are left out, and *)
(* so are the overlays of the pages themselves.                              *)
(***************************************************************************)
EXTENDS Integers, Sequences, FiniteSets, SequencesExt

CONSTANTS
  Items,       \* searchableNavItems: the pages the palette lists, in order
  SidebarOnly, \* how many of them the sidebar has: allNavItems
  English,     \* English[q]: the items whose English label or route contains q
  Localised,   \* Localised[l][q]: the items whose label in l contains q
  Supported,   \* the enabled locales
  BaseOf,      \* BaseOf[tag]: the primary subtag of a browser's language tag
  Browsers,    \* the lists of languages browsers ask for
  MaxActs,     \* bound: what the operator does, here and in other tabs
  MaxToasts    \* bound: notifications

FALLBACK_LOCALE == "en"

ASSUME ShellAssumption ==
  /\ SidebarOnly \in 0..Len(Items)
  /\ FALLBACK_LOCALE \in Supported /\ "none" \notin Supported
  /\ \A l \in Supported : DOMAIN Localised[l] = DOMAIN English
  /\ \A b \in Browsers : ToSet(b) \subseteq DOMAIN BaseOf
  /\ {MaxActs, MaxToasts} \subseteq Nat

Queries == DOMAIN English

-----------------------------------------------------------------------------
VARIABLES
  screen,     \* the page that is open
  palette,    \* the command palette: open, what is typed, the highlighted index
  handler,    \* the palette, with its results, as its key handler knows it
  mobileOpen, \* the sidebar is open over the page
  account,    \* the account menu is open
  key,        \* an operator key is set
  theme, dark, watching,  \* the preference, the document's class, and whether
                          \* a listener follows the system
  system,     \* the system asks for dark
  locale, lang,           \* the language and the document's
  storage,    \* localStorage: whether it works, and the two preferences
  chosen,     \* history: what was chosen last in any tab
  browser,    \* the languages the browser asks for
  toasts,     \* the notifications on screen
  timers,     \* those a timer will remove
  pushed, acts

navigation == <<screen, palette, handler, mobileOpen, account, key>>
preferences == <<theme, dark, watching, system, locale, lang, storage, chosen, browser>>
notifications == <<toasts, timers, pushed>>
vars == <<navigation, preferences, notifications, acts>>

-----------------------------------------------------------------------------
(* Languages *)

\* resolveLocale: a supported tag, or its primary subtag, or English.
ResolveLocale(tag) ==
  IF tag \in Supported THEN tag
  ELSE IF tag \in DOMAIN BaseOf /\ BaseOf[tag] \in Supported THEN BaseOf[tag]
  ELSE FALLBACK_LOCALE

\* The first of the browser's languages that is not English.
BrowserLocale(languages) ==
  LET others == SelectSeq(languages, LAMBDA tag : ResolveLocale(tag) # FALLBACK_LOCALE)
  IN IF others = <<>> THEN FALLBACK_LOCALE ELSE ResolveLocale(others[1])

\* detectInitialLocale: the stored choice, or the browser's.
DetectInitialLocale(stored) ==
  IF stored # "none" THEN ResolveLocale(stored) ELSE BrowserLocale(browser)

\* A key that arrows through the language control goes round.
Neighbours(l) ==
  LET order == SetToSeq(Supported)
      at == CHOOSE i \in DOMAIN order : order[i] = l
  IN {order[IF at = Len(order) THEN 1 ELSE at + 1],
      order[IF at = 1 THEN Len(order) ELSE at - 1], order[1], order[Len(order)]}

-----------------------------------------------------------------------------
(* The command palette *)

Closed == [open |-> FALSE, query |-> "", index |-> 0]

\* results: the label in the current language, the English one or the route.
Results(query, l) ==
  IF query = "" THEN Items
  ELSE SelectSeq(Items, LAMBDA i : i \in Localised[l][query] \/ i \in English[query])

Seen(p, l) == [open |-> p.open, results |-> Results(p.query, l), index |-> p.index]

\* Mutant of Handler: the effect does not depend on the results.
MutHandler(old, new) ==
  IF old.open = new.open /\ old.index = new.index THEN old ELSE new

\* The effect that registers the key handler runs when what it depends on has
\* changed: open, results, activeIndex.
Handler(old, new) ==
  IF old.open = new.open /\ old.results = new.results /\ old.index = new.index
  THEN old ELSE new

SetPalette(p) ==
  /\ palette' = p
  /\ handler' = Handler(handler, Seen(p, locale'))

-----------------------------------------------------------------------------
(* Themes *)

Resolve(t, d) == IF t = "system" THEN d ELSE t = "dark"

ORDER == <<"dark", "light", "system">>

NextTheme(t) ==
  LET at == CHOOSE i \in DOMAIN ORDER : ORDER[i] = t
  IN ORDER[(at % Len(ORDER)) + 1]

-----------------------------------------------------------------------------
Init ==
  /\ screen = Items[1]
  /\ palette = Closed
  /\ handler = [open |-> FALSE, results |-> Items, index |-> 0]
  /\ mobileOpen = FALSE /\ account = FALSE
  /\ key \in BOOLEAN
  /\ browser \in Browsers
  /\ storage \in [works : BOOLEAN, theme : {"none"}, locale : {"none"}]
  /\ theme = "dark" /\ dark = TRUE /\ watching = FALSE
  /\ system \in BOOLEAN
  /\ locale = DetectInitialLocale("none") /\ lang = locale
  /\ chosen = [theme |-> theme, locale |-> locale]
  /\ toasts = {} /\ timers = {}
  /\ pushed = 0 /\ acts = 0

Act == acts < MaxActs /\ acts' = acts + 1

-----------------------------------------------------------------------------
(* Notifications *)

\* Mutant of StartTimer: one timer serves all, and a new notification resets it.
MutStartTimer(id) == {id}

StartTimer(id) == timers \cup {id}

Push ==
  /\ pushed < MaxToasts
  /\ pushed' = pushed + 1
  /\ toasts' = toasts \cup {pushed + 1}
  /\ timers' = StartTimer(pushed + 1)

\* A page notifies.
PageNotifies == Push /\ UNCHANGED <<navigation, preferences, acts>>

Dismiss(id) ==
  /\ Act /\ id \in toasts
  /\ toasts' = toasts \ {id}
  /\ UNCHANGED <<navigation, preferences, timers, pushed>>

Expire(id) ==
  /\ id \in timers
  /\ toasts' = toasts \ {id} /\ timers' = timers \ {id}
  /\ UNCHANGED <<navigation, preferences, pushed, acts>>

-----------------------------------------------------------------------------
(* Navigation *)

\* Overlays cover the header: the palette, and the sidebar when it is open.
Header == ~palette.open /\ ~mobileOpen

\* What the palette's keys and list leave alone.
PaletteOnly ==
  UNCHANGED <<mobileOpen, key, preferences, notifications>>

\* The shortcut toggles the palette; closing it forgets what is typed.
Shortcut ==
  /\ Act /\ PaletteOnly
  /\ SetPalette(IF palette.open THEN Closed ELSE [Closed EXCEPT !.open = TRUE])
  /\ UNCHANGED <<screen, account>>

\* A press outside the account menu closes it, here and below.
OpenPalette ==
  /\ Act /\ PaletteOnly /\ Header
  /\ SetPalette([Closed EXCEPT !.open = TRUE])
  /\ account' = FALSE /\ UNCHANGED screen

ClosePalette ==
  /\ Act /\ PaletteOnly /\ palette.open
  /\ SetPalette(Closed)
  /\ account' = FALSE /\ UNCHANGED screen

\* Escape closes both the palette and the account menu.
Escape ==
  /\ Act /\ PaletteOnly /\ (palette.open \/ account)
  /\ SetPalette(Closed)
  /\ account' = FALSE /\ UNCHANGED screen

TypeQuery(query) ==
  /\ Act /\ PaletteOnly /\ palette.open /\ palette.query # query
  /\ SetPalette([palette EXCEPT !.query = query, !.index = 0])
  /\ UNCHANGED <<screen, account>>

\* ArrowDown stops at the last result, which is -1 when there is none.
Down(p) ==
  LET last == Len(handler.results) - 1
  IN [p EXCEPT !.index = IF @ + 1 < last THEN @ + 1 ELSE last]
Up(p) == [p EXCEPT !.index = IF @ - 1 > 0 THEN @ - 1 ELSE 0]

Arrow ==
  /\ Act /\ PaletteOnly /\ palette.open
  /\ SetPalette(Down(palette)) \/ SetPalette(Up(palette))
  /\ UNCHANGED <<screen, account>>

Hover(i) ==
  /\ Act /\ PaletteOnly /\ palette.open
  /\ i \in DOMAIN Results(palette.query, locale)
  /\ SetPalette([palette EXCEPT !.index = i - 1])
  /\ UNCHANGED <<screen, account>>

\* go: the page is opened and the palette closed.
Go(page) == screen' = page /\ SetPalette(Closed)

\* Enter in the palette's field, as the handler knows the palette.
Enter ==
  /\ Act /\ PaletteOnly /\ handler.open
  /\ handler.index + 1 \in DOMAIN handler.results
  /\ Go(handler.results[handler.index + 1])
  /\ UNCHANGED account

\* A result is clicked.  Enter on a result that has the focus comes to the same:
\* the highlighted one is opened, and this one after it.
Click(i) ==
  /\ Act /\ PaletteOnly /\ palette.open
  /\ i \in DOMAIN Results(palette.query, locale)
  /\ Go(Results(palette.query, locale)[i])
  /\ account' \in {account, FALSE}

\* Menu, and the sidebar's links, which close it.
OpenSidebar ==
  /\ Act /\ Header
  /\ mobileOpen' = TRUE /\ account' = FALSE
  /\ UNCHANGED <<screen, palette, handler, key, preferences, notifications>>

CloseSidebar ==
  /\ Act /\ mobileOpen /\ ~palette.open
  /\ mobileOpen' = FALSE /\ account' = FALSE
  /\ UNCHANGED <<screen, palette, handler, key, preferences, notifications>>

SidebarLink(i) ==
  /\ Act /\ ~palette.open
  /\ screen' = Items[i] /\ mobileOpen' = FALSE /\ account' = FALSE
  /\ UNCHANGED <<palette, handler, key, preferences, notifications>>

ToggleAccount ==
  /\ Act /\ Header
  /\ account' = ~account
  /\ UNCHANGED <<screen, palette, handler, mobileOpen, key, preferences, notifications>>

\* The account menu lies over everything else.
AccountLink(page) ==
  /\ Act /\ account
  /\ screen' = page /\ account' = FALSE
  /\ UNCHANGED <<palette, handler, mobileOpen, key, preferences, notifications>>

ClearSession ==
  /\ Act /\ account /\ key
  /\ key' = FALSE /\ account' = FALSE
  /\ Push
  /\ UNCHANGED <<screen, palette, handler, mobileOpen, preferences>>

-----------------------------------------------------------------------------
(* Preferences *)

\* Mutant of Watch: the listener is registered when the console is loaded only.
MutWatch(t) == watching

\* The effect that follows the system depends on the theme.
Watch(t) == t = "system"

Keep(field, value) ==
  /\ storage' = IF storage.works THEN [storage EXCEPT ![field] = value] ELSE storage
  /\ chosen' = [chosen EXCEPT ![field] = value]

\* ThemeSwitcher: one button goes round.
CycleTheme ==
  /\ Act /\ Header
  /\ theme' = NextTheme(theme)
  /\ dark' = Resolve(theme', system) /\ watching' = Watch(theme')
  /\ Keep("theme", theme')
  /\ account' = FALSE
  /\ UNCHANGED <<screen, palette, handler, mobileOpen, key, system, locale, lang,
                 browser, notifications>>

SystemChanges ==
  /\ Act
  /\ system' = ~system
  /\ dark' = IF watching THEN Resolve("system", system') ELSE dark
  /\ UNCHANGED <<navigation, theme, watching, locale, lang, storage, chosen, browser,
                 notifications>>

SetLocale(l) ==
  /\ locale' = ResolveLocale(l) /\ lang' = locale'
  /\ Keep("locale", locale')
  /\ UNCHANGED <<screen, mobileOpen, key, theme, dark, watching, system, browser,
                 notifications>>

ChooseLocale(l) ==
  /\ Act /\ Header
  /\ SetLocale(l)
  /\ SetPalette(palette) /\ account' = FALSE

\* The control can have the focus under the palette, whose list then changes, and
\* whose highlight moves with an arrow up or down.
ArrowLocale ==
  /\ Act
  /\ \E l \in Neighbours(locale) : SetLocale(l)
  /\ \/ SetPalette(palette)
     \/ palette.open /\ (SetPalette(Down(palette)) \/ SetPalette(Up(palette)))
  /\ UNCHANGED account

\* Another tab keeps its own choice, and is not heard of before the next load.
OtherTab ==
  /\ Act /\ storage.works
  /\ \/ \E t \in ToSet(ORDER) : Keep("theme", t)
     \/ \E l \in Supported : Keep("locale", l)
  /\ UNCHANGED <<navigation, theme, dark, watching, system, locale, lang, browser,
                 notifications>>

\* The console is loaded again.
Reload ==
  /\ Act
  /\ theme' = IF storage.theme = "none" THEN "dark" ELSE storage.theme
  /\ dark' = Resolve(theme', system) /\ watching' = (theme' = "system")
  /\ locale' = DetectInitialLocale(storage.locale) /\ lang' = locale'
  /\ chosen' = [theme |-> theme', locale |-> locale']
  /\ SetPalette(Closed)
  /\ mobileOpen' = FALSE /\ account' = FALSE
  /\ toasts' = {} /\ timers' = {}
  /\ UNCHANGED <<screen, key, system, storage, browser, pushed>>

-----------------------------------------------------------------------------
Next ==
  \/ PageNotifies \/ \E id \in 1..MaxToasts : Dismiss(id) \/ Expire(id)
  \/ Shortcut \/ OpenPalette \/ ClosePalette \/ Escape \/ Arrow \/ Enter
  \/ \E q \in Queries \cup {""} : TypeQuery(q)
  \/ \E i \in DOMAIN Items : Hover(i) \/ Click(i)
  \/ OpenSidebar \/ CloseSidebar \/ \E i \in 1..SidebarOnly : SidebarLink(i)
  \/ ToggleAccount \/ ClearSession \/ \E page \in ToSet(Items) : AccountLink(page)
  \/ CycleTheme \/ SystemChanges
  \/ \E l \in Supported : ChooseLocale(l)
  \/ ArrowLocale \/ OtherTab \/ Reload

Fairness == \A id \in 1..MaxToasts : WF_vars(Expire(id))

Spec == Init /\ [][Next]_vars /\ Fairness

-----------------------------------------------------------------------------
(* Properties *)

\* CommandPalette.tsx:57-76: Enter opens the page that is highlighted in the
\* list on screen, whatever was typed, hovered or translated since the palette
\* was opened.
PaletteOpensHighlighted ==
  [][Enter => LET seen == Results(palette.query, locale)
              IN palette.index + 1 \in DOMAIN seen /\ screen' = seen[palette.index + 1]]_vars

\* theme.tsx:31-56, i18n/index.tsx:114-128 and 144-157: the document follows the
\* theme, the system where the theme says so, and the language; what is chosen in
\* any tab is what the next load shows, where it could be stored.
PreferencesHold ==
  /\ [](dark = Resolve(theme, system) /\ lang = locale)
  /\ [][Reload /\ storage.works => theme' = chosen.theme /\ locale' = chosen.locale]_vars

\* Toast.tsx:30-36: every notification leaves the screen, whatever comes after it.
ToastsGo == \A id \in 1..MaxToasts : id \in toasts ~> id \notin toasts

=============================================================================
