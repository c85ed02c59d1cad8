-------------------------- MODULE ConsoleScreenProofs --------------------------
(***************************************************************************)
(* What holds of the console around its pages and on them.  Of the palette *)
(* and the preferences (ConsoleShell): for any pages, labels, languages,   *)
(* browsers and notifications, and any number of tabs' choices.  Of the    *)
(* working pages (ConsolePages): for any number of requests and of entries *)
(* kept, anything created earlier, and any number of visits.               *)
(***************************************************************************)
EXTENDS ConsoleShell, ConsolePages, SequenceTheorems, FiniteSetTheorems, TLAPS

-----------------------------------------------------------------------------
(* The shell: the invariant *)

\* The key handler knows the palette that is on screen.
Synced == handler = Seen(palette, locale)

Themes == {"dark", "light", "system"}

\* The document shows the preferences, and listens to the system if it must.
Shows ==
  /\ dark = Resolve(theme, system) /\ lang = locale
  /\ theme \in Themes /\ watching = (theme = "system")

\* What is stored is what was chosen last, or what a new browser would get.
Stored(works, t, l) == [works |-> works, theme |-> t, locale |-> l]
Chosen(t, l) == [theme |-> t, locale |-> l]
Remembers ==
  \E works \in BOOLEAN, t \in Themes \cup {"none"}, l \in Supported \cup {"none"},
     ct \in Themes, cl \in Supported :
    /\ storage = Stored(works, t, l) /\ chosen = Chosen(ct, cl)
    /\ works => /\ ct = (IF t = "none" THEN "dark" ELSE t)
                /\ cl = DetectInitialLocale(l)

IInv == Synced /\ Shows /\ Remembers

-----------------------------------------------------------------------------
(* Helpers *)

\* The handler is replaced whenever it would differ from what is seen.
LEMMA HandlerFollows ==
  ASSUME Synced, NEW p, SetPalette(p) PROVE Synced'
<1>1. handler = [open |-> palette.open, results |-> Results(palette.query, locale),
                 index |-> palette.index]
  BY DEF Synced, Seen
<1>2. Handler(handler, Seen(p, locale')) = Seen(p, locale')
  BY <1>1 DEF Handler, Seen
<1>3. palette' = p /\ handler' = Seen(p, locale')
  BY <1>2 DEF SetPalette
<1>4. handler' = Seen(palette', locale') BY <1>3
<1> QED BY <1>4 DEF Synced

LEMMA ResolvedIsSupported ==
  ASSUME NEW tag PROVE ResolveLocale(tag) \in Supported
  BY ShellAssumption DEF ResolveLocale

LEMMA DetectedIsSupported ==
  ASSUME NEW l PROVE DetectInitialLocale(l) \in Supported
  BY ShellAssumption, ResolvedIsSupported DEF DetectInitialLocale, BrowserLocale

\* A supported choice is found again as it was stored.
LEMMA StoredIsDetected ==
  ASSUME NEW l \in Supported PROVE DetectInitialLocale(l) = l
  BY ShellAssumption DEF DetectInitialLocale, ResolveLocale

LEMMA OrderIsThemes == ToSet(ORDER) = Themes
  BY DEF ToSet, ORDER, Themes

LEMMA NextIsTheme == ASSUME NEW t \in Themes PROVE NextTheme(t) \in Themes
<1> DEFINE at == CHOOSE i \in DOMAIN ORDER : ORDER[i] = t
<1>1. DOMAIN ORDER = 1..3 /\ Len(ORDER) = 3 BY DEF ORDER
<1>2. \E i \in DOMAIN ORDER : ORDER[i] = t BY <1>1 DEF ORDER, Themes
<1>3. at \in 1..3 BY <1>1, <1>2
<1>4. (at % 3) + 1 \in 1..3
  <2> HIDE DEF at
  <2> QED BY <1>3, SMT
<1>5. ORDER[(at % 3) + 1] \in Themes BY <1>4 DEF ORDER, Themes
<1> QED BY <1>1, <1>5 DEF NextTheme

-----------------------------------------------------------------------------
(* Keeping a choice *)

LEMMA KeepTheme ==
  ASSUME Remembers, NEW v \in Themes, Keep("theme", v), browser' = browser
  PROVE  Remembers'
<1>1. PICK works \in BOOLEAN, t \in Themes \cup {"none"},
           l \in Supported \cup {"none"}, ct \in Themes, cl \in Supported :
        /\ storage = Stored(works, t, l) /\ chosen = Chosen(ct, cl)
        /\ works => /\ ct = (IF t = "none" THEN "dark" ELSE t)
                    /\ cl = DetectInitialLocale(l)
  BY DEF Remembers
<1>2. storage.works = works BY <1>1 DEF Stored
<1>3. storage' = Stored(works, IF works THEN v ELSE t, l)
  <2>1. [storage EXCEPT !["theme"] = v] = Stored(works, v, l) BY <1>1 DEF Stored
  <2> QED BY <1>1, <1>2, <2>1 DEF Keep
<1>4. chosen' = Chosen(v, cl)
  <2>1. [chosen EXCEPT !["theme"] = v] = Chosen(v, cl) BY <1>1 DEF Chosen
  <2> QED BY <2>1 DEF Keep
<1>5. v # "none" BY DEF Themes
<1>6. DetectInitialLocale(l)' = DetectInitialLocale(l)
  BY DEF DetectInitialLocale
<1> QED BY <1>1, <1>3, <1>4, <1>5, <1>6 DEF Remembers

LEMMA KeepLocale ==
  ASSUME Remembers, NEW v \in Supported, Keep("locale", v), browser' = browser
  PROVE  Remembers'
<1>1. PICK works \in BOOLEAN, t \in Themes \cup {"none"},
           l \in Supported \cup {"none"}, ct \in Themes, cl \in Supported :
        /\ storage = Stored(works, t, l) /\ chosen = Chosen(ct, cl)
        /\ works => /\ ct = (IF t = "none" THEN "dark" ELSE t)
                    /\ cl = DetectInitialLocale(l)
  BY DEF Remembers
<1>2. storage.works = works BY <1>1 DEF Stored
<1>3. storage' = Stored(works, t, IF works THEN v ELSE l)
  <2>1. [storage EXCEPT !["locale"] = v] = Stored(works, t, v) BY <1>1 DEF Stored
  <2> QED BY <1>1, <1>2, <2>1 DEF Keep
<1>4. chosen' = Chosen(ct, v)
  <2>1. [chosen EXCEPT !["locale"] = v] = Chosen(ct, v) BY <1>1 DEF Chosen
  <2> QED BY <2>1 DEF Keep
<1>5. DetectInitialLocale(v)' = v
  <2>1. DetectInitialLocale(v)' = DetectInitialLocale(v) BY DEF DetectInitialLocale
  <2> QED BY <2>1, StoredIsDetected
<1> QED BY <1>1, <1>3, <1>4, <1>5 DEF Remembers

LEMMA KeepRemembers ==
  ASSUME Remembers, UNCHANGED <<storage, chosen, browser>> PROVE Remembers'
<1>1. \A l : DetectInitialLocale(l)' = DetectInitialLocale(l) BY DEF DetectInitialLocale
<1> QED BY <1>1 DEF Remembers

LEMMA KeepShows ==
  ASSUME Shows, UNCHANGED <<theme, dark, watching, system, locale, lang>> PROVE Shows'
  BY DEF Shows

LEMMA KeepSynced ==
  ASSUME Synced, UNCHANGED <<palette, handler, locale>> PROVE Synced'
  BY DEF Synced

-----------------------------------------------------------------------------
(* The steps *)

LEMMA Initially == Init => IInv
<1> SUFFICES ASSUME Init PROVE IInv OBVIOUS
<1>1. Synced
  BY DEF Init, Synced, Seen, Closed, Results
<1>2. Shows
  BY DEF Init, Shows, Resolve, Themes
<1>3. Remembers
  <2>1. PICK works \in BOOLEAN : storage = Stored(works, "none", "none")
    BY DEF Init, Stored
  <2>2. chosen = Chosen("dark", locale) /\ locale = DetectInitialLocale("none")
    BY DEF Init, Chosen
  <2>3. locale \in Supported BY <2>2, DetectedIsSupported
  <2> QED BY <2>1, <2>2, <2>3 DEF Remembers, Themes
<1> QED BY <1>1, <1>2, <1>3 DEF IInv

\* Notifications leave the palette and the preferences alone.
LEMMA Notifying ==
  ASSUME IInv, UNCHANGED <<navigation, preferences>> PROVE IInv'
<1> USE DEF navigation, preferences
<1> QED BY KeepSynced, KeepShows, KeepRemembers DEF IInv

\* The palette's own steps replace the handler.
LEMMA PaletteSteps ==
  ASSUME IInv, PaletteOnly, NEW p, SetPalette(p) PROVE IInv'
<1> USE DEF PaletteOnly, preferences
<1>1. Synced' BY HandlerFollows DEF IInv
<1> QED BY <1>1, KeepShows, KeepRemembers DEF IInv

LEMMA PaletteStep ==
  ASSUME IInv,
         \/ Shortcut \/ OpenPalette \/ ClosePalette \/ Escape \/ Arrow \/ Enter
         \/ \E q \in Queries \cup {""} : TypeQuery(q)
         \/ \E i \in DOMAIN Items : Hover(i) \/ Click(i)
  PROVE  IInv'
<1>1. PaletteOnly
  BY DEF Shortcut, OpenPalette, ClosePalette, Escape, Arrow, Enter, TypeQuery, Hover, Click
<1>2. \E p : SetPalette(p)
  BY DEF Shortcut, OpenPalette, ClosePalette, Escape, Arrow, Enter, TypeQuery, Hover, Click, Go
<1> QED BY <1>1, <1>2, PaletteSteps

LEMMA ThemeStep == ASSUME IInv, CycleTheme PROVE IInv'
<1>1. theme' \in Themes BY NextIsTheme DEF IInv, Shows, CycleTheme
<1>2. Synced' BY KeepSynced DEF IInv, CycleTheme
<1>3. Shows' BY <1>1 DEF IInv, Shows, CycleTheme, Watch, Resolve
<1>4. Keep("theme", theme') /\ browser' = browser BY DEF CycleTheme
<1>5. Remembers' BY <1>1, <1>4, KeepTheme DEF IInv
<1> QED BY <1>2, <1>3, <1>5 DEF IInv

LEMMA SystemStep == ASSUME IInv, SystemChanges PROVE IInv'
<1>1. Synced' BY KeepSynced DEF IInv, SystemChanges, navigation
<1>2. Shows' BY DEF IInv, Shows, SystemChanges, Resolve
<1>3. Remembers' BY KeepRemembers DEF IInv, SystemChanges
<1> QED BY <1>1, <1>2, <1>3 DEF IInv

LEMMA LocaleStep ==
  ASSUME IInv, NEW l, SetLocale(l), NEW p, SetPalette(p) PROVE IInv'
<1>1. Synced' BY HandlerFollows DEF IInv
<1>2. Shows' BY DEF IInv, Shows, SetLocale, Resolve
<1>3. locale' \in Supported BY ResolvedIsSupported DEF SetLocale
<1>4. Keep("locale", locale') /\ browser' = browser BY DEF SetLocale
<1>5. Remembers' BY <1>3, <1>4, KeepLocale DEF IInv
<1> QED BY <1>1, <1>2, <1>5 DEF IInv

LEMMA OtherTabStep == ASSUME IInv, OtherTab PROVE IInv'
<1>1. Synced' BY KeepSynced DEF IInv, OtherTab, navigation
<1>2. Shows' BY KeepShows DEF IInv, OtherTab
<1>3. Remembers'
  <2>1. CASE \E t \in ToSet(ORDER) : Keep("theme", t)
    BY <2>1, OrderIsThemes, KeepTheme DEF IInv, OtherTab
  <2>2. CASE \E l \in Supported : Keep("locale", l)
    BY <2>2, KeepLocale DEF IInv, OtherTab
  <2> QED BY <2>1, <2>2 DEF OtherTab
<1> QED BY <1>1, <1>2, <1>3 DEF IInv

\* What the next load shows is what was chosen last.
LEMMA LoadShowsTheChoice ==
  ASSUME IInv, Reload, storage.works
  PROVE  theme' = chosen.theme /\ locale' = chosen.locale
<1>1. PICK works \in BOOLEAN, t \in Themes \cup {"none"},
           l \in Supported \cup {"none"}, ct \in Themes, cl \in Supported :
        /\ storage = Stored(works, t, l) /\ chosen = Chosen(ct, cl)
        /\ works => /\ ct = (IF t = "none" THEN "dark" ELSE t)
                    /\ cl = DetectInitialLocale(l)
  BY DEF IInv, Remembers
<1>2. works /\ storage.theme = t /\ storage.locale = l BY <1>1 DEF Stored
<1>3. chosen.theme = ct /\ chosen.locale = cl BY <1>1 DEF Chosen
<1> QED BY <1>1, <1>2, <1>3 DEF Reload

LEMMA ReloadStep == ASSUME IInv, Reload PROVE IInv'
<1>1. PICK works \in BOOLEAN, t \in Themes \cup {"none"},
           l \in Supported \cup {"none"}, ct \in Themes, cl \in Supported :
        storage = Stored(works, t, l) /\ chosen = Chosen(ct, cl)
  BY DEF IInv, Remembers
<1>2. storage.theme = t /\ storage.locale = l BY <1>1 DEF Stored
<1>3. /\ theme' = (IF t = "none" THEN "dark" ELSE t) /\ locale' = DetectInitialLocale(l)
      /\ chosen' = Chosen(theme', locale') /\ storage' = storage /\ browser' = browser
  BY <1>2 DEF Reload, Chosen
<1>4. theme' \in Themes BY <1>3 DEF Themes
<1>5. locale' \in Supported BY <1>3, DetectedIsSupported
<1>6. Synced' BY HandlerFollows DEF IInv, Reload
<1>7. Shows' BY <1>4 DEF Shows, Reload, Resolve
<1>8. Remembers'
  <2>1. DetectInitialLocale(l)' = DetectInitialLocale(l) BY <1>3 DEF DetectInitialLocale
  <2> QED BY <1>1, <1>3, <1>4, <1>5, <2>1 DEF Remembers
<1> QED BY <1>6, <1>7, <1>8 DEF IInv

\* The sidebar, the account menu and the key.
LEMMA MenuStep ==
  ASSUME IInv,
         \/ OpenSidebar \/ CloseSidebar \/ \E i \in 1..SidebarOnly : SidebarLink(i)
         \/ ToggleAccount \/ ClearSession \/ \E item \in ToSet(Items) : AccountLink(item)
  PROVE  IInv'
<1>1. UNCHANGED <<palette, handler, preferences>>
  BY DEF OpenSidebar, CloseSidebar, SidebarLink, ToggleAccount, ClearSession, AccountLink
<1> QED BY <1>1, KeepSynced, KeepShows, KeepRemembers DEF IInv, preferences

LEMMA Step == ASSUME IInv, [Next]_vars PROVE IInv'
<1>1. CASE PageNotifies \/ \E id \in 1..MaxToasts : Dismiss(id) \/ Expire(id)
  BY <1>1, Notifying DEF PageNotifies, Dismiss, Expire
<1>2. CASE \/ Shortcut \/ OpenPalette \/ ClosePalette \/ Escape \/ Arrow \/ Enter
           \/ \E q \in Queries \cup {""} : TypeQuery(q)
           \/ \E i \in DOMAIN Items : Hover(i) \/ Click(i)
  BY <1>2, PaletteStep
<1>3. CASE \/ OpenSidebar \/ CloseSidebar \/ \E i \in 1..SidebarOnly : SidebarLink(i)
           \/ ToggleAccount \/ ClearSession \/ \E item \in ToSet(Items) : AccountLink(item)
  BY <1>3, MenuStep
<1>4. CASE CycleTheme BY <1>4, ThemeStep
<1>5. CASE SystemChanges BY <1>5, SystemStep
<1>6. CASE ArrowLocale \/ \E l \in Supported : ChooseLocale(l)
  <2>1. \E l, p : SetLocale(l) /\ SetPalette(p) BY <1>6 DEF ArrowLocale, ChooseLocale
  <2> QED BY <2>1, LocaleStep
<1>7. CASE OtherTab BY <1>7, OtherTabStep
<1>8. CASE Reload BY <1>8, ReloadStep
<1>9. CASE UNCHANGED vars BY <1>9, Notifying DEF vars
<1> QED BY <1>1, <1>2, <1>3, <1>4, <1>5, <1>6, <1>7, <1>8, <1>9 DEF Next

-----------------------------------------------------------------------------
(* What follows *)

\* The handler, the document and localStorage agree with the state of the page in
\* every reachable state (CommandPalette.tsx:57-76, theme.tsx:21-56, i18n/index.tsx).
THEOREM InSync == Spec => []IInv
<1> QED BY Initially, Step, PTL DEF Spec

\* CommandPalette.tsx:57-76: for any pages, labels and languages, Enter opens the
\* page that is highlighted in the list on screen.
THEOREM PaletteOpensHighlightedHolds == Spec => PaletteOpensHighlighted
<1>1. ASSUME IInv
      PROVE  Enter => LET seen == Results(palette.query, locale)
                      IN palette.index + 1 \in DOMAIN seen
                         /\ screen' = seen[palette.index + 1]
  <2> SUFFICES ASSUME Enter
               PROVE  LET seen == Results(palette.query, locale)
                      IN palette.index + 1 \in DOMAIN seen
                         /\ screen' = seen[palette.index + 1]
    OBVIOUS
  <2>1. handler.results = Results(palette.query, locale) /\ handler.index = palette.index
    BY <1>1 DEF IInv, Synced, Seen
  <2> QED BY <2>1 DEF Enter, Go
<1> QED BY <1>1, InSync, PTL DEF PaletteOpensHighlighted

\* theme.tsx:31-56, i18n/index.tsx:114-157: the document follows the theme and the
\* language, and a load shows what was chosen last in any tab, where it was stored.
THEOREM PreferencesHoldHolds == Spec => PreferencesHold
<1>1. IInv => dark = Resolve(theme, system) /\ lang = locale BY DEF IInv, Shows
<1>2. ASSUME IInv
      PROVE  Reload /\ storage.works => theme' = chosen.theme /\ locale' = chosen.locale
  BY <1>2, LoadShowsTheChoice
<1> QED BY <1>1, <1>2, InSync, PTL DEF PreferencesHold

-----------------------------------------------------------------------------
(* The pages: the invariant *)

Data == {NoDatum} \cup [id : Ids, state : {"before", "after"}]

\* The ids the backend has given out leave room for the requests under way.
BackendOK ==
  /\ created \in Seq(Kinds)
  /\ sent \in 0..MaxRequests
  /\ IsFiniteSet(requests)
  /\ Len(created) + Cardinality(requests) <= Len(Earlier) + sent
  /\ keyed \in 0..Len(created)
  /\ keyed # 0 => created[keyed] = "runtime-execution"

\* Only the runtime page sends a key.
FormsOK ==
  /\ fields \in [FormNames -> {"blank", "ready", "keyed"}]
  /\ \A f \in FormNames : fields[f] \in Contents(f)
  /\ \A r \in requests : r.form \in FormNames /\ r.content \in Contents(r.form)

\* An entry holds and fetches the record of its key.
EntryOK(entry, id) ==
  /\ entry \in [data : Data, error : BOOLEAN, fetch : Data]
  /\ entry.data.id \in {0, id} /\ entry.fetch.id \in {0, id}

\* What is shown of a run, or will be, is not from before its resume.
UpToDate(entry) ==
  IF entry.fetch # NoDatum THEN entry.fetch.state = "after"
  ELSE entry.error \/ entry.data = NoDatum \/ entry.data.state = "after"

CacheOK ==
  /\ active \in Ids \cup {0}
  /\ cache \in [Ids -> [data : Data, error : BOOLEAN, fetch : Data]]
  /\ \A id \in Ids : EntryOK(cache[id], id) /\ (id \in owed => UpToDate(cache[id]))
  /\ owed \subseteq resumed

\* What is stored is what is listed, if the browser stores anything.
HistoryOK ==
  /\ history.works \in BOOLEAN
  /\ history = [lists |-> history.lists, works |-> history.works,
                stored |-> IF history.works THEN history.lists ELSE NoLists]
  /\ history.lists \in [Kinds -> Seq(Nat)]
  /\ answers \in [Kinds -> Seq(Nat)]
  /\ \A k \in Kinds :
       /\ Latest(history.lists[k], answers[k])
       /\ \A id \in ToSet(history.lists[k]) :
            id \in DOMAIN created /\ created[id] = k

PagesInv == BackendOK /\ FormsOK /\ CacheOK /\ HistoryOK

-----------------------------------------------------------------------------
(* The lists *)

LEMMA InToSet == \A s : \A e : e \in ToSet(s) <=> \E i \in DOMAIN s : s[i] = e
  BY DEF ToSet

\* A list without the one entry of id, in the order it had.
LEMMA WithoutId ==
  ASSUME NEW list \in Seq(Nat), NEW id,
         \A i, j \in DOMAIN list : i < j => list[i] # list[j]
  PROVE  LET q == RemoveFirst(list, id)
         IN /\ q \in Seq(Nat)
            /\ ToSet(q) = ToSet(list) \ {id}
            /\ Len(q) >= Len(list) - 1
            /\ \A i, j \in DOMAIN q : i < j =>
                 \E a, b \in DOMAIN list :
                   a < b /\ q[i] = list[a] /\ q[j] = list[b]
<1> DEFINE q == RemoveFirst(list, id)
<1>0. Len(list) \in Nat /\ DOMAIN list = 1..Len(list)
  BY LenProperties
<1>1. CASE ~ \E i \in 1..Len(list) : list[i] = id
  <2>1. q = list
    BY <1>1 DEF RemoveFirst
  <2>2. id \notin ToSet(list)
    BY <1>0, <1>1 DEF ToSet
  <2>3. QED BY <1>0, <2>1, <2>2
<1>2. ASSUME NEW p \in 1..Len(list), list[p] = id
      PROVE  /\ q \in Seq(Nat)
             /\ ToSet(q) = ToSet(list) \ {id}
             /\ Len(q) >= Len(list) - 1
             /\ \A i, j \in DOMAIN q : i < j =>
                  \E a, b \in DOMAIN list :
                    a < b /\ q[i] = list[a] /\ q[j] = list[b]
  <2>1. \A i \in 1..Len(list) : list[i] = id <=> i = p
    BY <1>0, <1>2
  <2>2. SelectInSeq(list, LAMBDA v : v = id) = p
    <3>1. {i \in 1..Len(list) : list[i] = id} = {p}
      BY <2>1
    <3>2. Min({p}) = p
      BY <1>0 DEF Min
    <3>3. QED BY <3>1, <3>2 DEF SelectInSeq
  <2>3. q = SubSeq(list, 1, p - 1) \o SubSeq(list, p + 1, Len(list))
    BY <1>2, <2>2 DEF RemoveFirst, RemoveAt
  <2> DEFINE head == SubSeq(list, 1, p - 1)
             tail == SubSeq(list, p + 1, Len(list))
  <2>4. /\ head \in Seq(Nat) /\ Len(head) = p - 1
        /\ \A i \in 1..(p - 1) : head[i] = list[i]
    BY <1>0, SubSeqProperties
  <2>5. /\ tail \in Seq(Nat) /\ Len(tail) = Len(list) - p
        /\ \A i \in 1..(Len(list) - p) : tail[i] = list[p + i]
    <3>1. /\ p + 1 \in Int /\ Len(list) \in Int
          /\ \A i \in (p + 1)..Len(list) : list[i] \in Nat
      BY <1>0
    <3>2. /\ tail \in Seq(Nat)
          /\ Len(tail) = IF p + 1 <= Len(list) THEN Len(list) - (p + 1) + 1 ELSE 0
          /\ \A i \in 1..(Len(list) - (p + 1) + 1) : tail[i] = list[(p + 1) + i - 1]
      BY <3>1, SubSeqProperties
    <3> HIDE DEF tail
    <3>3. Len(tail) = Len(list) - p
      <4>1. Len(tail) = IF p + 1 <= Len(list) THEN Len(list) - (p + 1) + 1 ELSE 0
        BY <3>2
      <4>2. \A m, l \in Nat :
              m <= l => (IF m + 1 <= l THEN l - (m + 1) + 1 ELSE 0) = l - m
        OBVIOUS
      <4>3. p \in Nat /\ p <= Len(list)
        BY <1>0
      <4>4. QED BY <1>0, <4>1, <4>2, <4>3
    <3>4. ASSUME NEW i \in 1..(Len(list) - p) PROVE tail[i] = list[p + i]
      <4>1. i \in 1..(Len(list) - (p + 1) + 1) /\ (p + 1) + i - 1 = p + i
        BY <1>0
      <4>2. QED BY <3>2, <4>1
    <3>5. QED BY <3>2, <3>3, <3>4
  <2> HIDE DEF head, tail
  <2>6. /\ q \in Seq(Nat) /\ Len(q) = Len(list) - 1
        /\ \A i \in 1..(Len(list) - 1) :
             q[i] = IF i < p THEN list[i] ELSE list[i + 1]
    <3>1. q = head \o tail
      BY <2>3 DEF head, tail
    <3> HIDE DEF q
    <3>2. /\ q \in Seq(Nat) /\ Len(q) = Len(head) + Len(tail)
          /\ \A i \in 1..(Len(head) + Len(tail)) :
               q[i] = IF i <= Len(head) THEN head[i] ELSE tail[i - Len(head)]
      BY <2>4, <2>5, <3>1, ConcatProperties
    <3>3. Len(q) = Len(list) - 1
      BY <1>0, <2>4, <2>5, <3>2
    <3>4. ASSUME NEW i \in 1..(Len(list) - 1)
          PROVE  q[i] = IF i < p THEN list[i] ELSE list[i + 1]
      <4>1. q[i] = IF i <= p - 1 THEN head[i] ELSE tail[i - (p - 1)]
        BY <1>0, <2>4, <2>5, <3>2
      <4>2. CASE i < p
        BY <1>0, <2>4, <4>1, <4>2
      <4>3. CASE ~(i < p)
        <5>1. /\ i - (p - 1) \in 1..(Len(list) - p)
              /\ p + (i - (p - 1)) = i + 1 /\ ~(i <= p - 1)
          BY <1>0, <4>3
        <5>2. QED BY <2>5, <4>1, <4>3, <5>1
      <4>4. QED BY <4>2, <4>3
    <3>5. QED BY <3>2, <3>3, <3>4
  <2> HIDE DEF q
  <2>7. DOMAIN q = 1..(Len(list) - 1)
    BY <2>6, LenProperties
  <2>8. ToSet(q) = ToSet(list) \ {id}
    <3>1. ASSUME NEW i \in DOMAIN q PROVE q[i] \in ToSet(list) \ {id}
      <4> DEFINE k == IF i < p THEN i ELSE i + 1
      <4>0. i \in 1..(Len(list) - 1)
        BY <2>7
      <4>1. k \in 1..Len(list) /\ k # p /\ q[i] = list[k]
        <5>1. k \in 1..Len(list) /\ k # p
          BY <1>0, <4>0
        <5>2. q[i] = list[k]
          BY <2>6, <4>0
        <5>3. QED BY <5>1, <5>2
      <4> HIDE DEF k
      <4>2. list[k] # id /\ list[k] \in ToSet(list)
        BY <1>0, <2>1, <4>1, InToSet
      <4>3. QED BY <4>1, <4>2
    <3>2. ASSUME NEW i \in DOMAIN list, i # p PROVE list[i] \in ToSet(q)
      <4>1. CASE i < p
        <5>1. i \in DOMAIN q /\ q[i] = list[i]
          BY <1>0, <2>6, <2>7, <4>1
        <5>2. QED BY <5>1, InToSet
      <4>2. CASE ~(i < p)
        <5>0. i - 1 \in 1..(Len(list) - 1) /\ ~(i - 1 < p) /\ (i - 1) + 1 = i
          BY <1>0, <3>2, <4>2
        <5>1. i - 1 \in DOMAIN q /\ q[i - 1] = list[i]
          BY <2>6, <2>7, <5>0
        <5>2. QED BY <5>1, InToSet
      <4>3. QED BY <4>1, <4>2
    <3>3. \A e \in ToSet(q) : e \in ToSet(list) \ {id}
      BY <3>1, InToSet
    <3>4. \A e \in ToSet(list) \ {id} : e \in ToSet(q)
      BY <1>2, <3>2, InToSet
    <3>5. QED BY <3>3, <3>4
  <2>9. ASSUME NEW i \in DOMAIN q, NEW j \in DOMAIN q, i < j
        PROVE  \E a, b \in DOMAIN list :
                 a < b /\ q[i] = list[a] /\ q[j] = list[b]
    <3> DEFINE at(n) == IF n < p THEN n ELSE n + 1
    <3>0. ASSUME NEW m \in DOMAIN q
          PROVE  at(m) \in DOMAIN list /\ q[m] = list[at(m)]
      <4>1. m \in 1..(Len(list) - 1)
        BY <2>7
      <4>2. at(m) \in DOMAIN list
        BY <1>0, <4>1
      <4>3. q[m] = list[at(m)]
        BY <2>6, <4>1
      <4>4. QED BY <4>2, <4>3
    <3>1. /\ at(i) \in DOMAIN list /\ at(j) \in DOMAIN list
          /\ at(i) < at(j)
          /\ q[i] = list[at(i)] /\ q[j] = list[at(j)]
      <4>1. at(i) < at(j)
        BY <1>0, <2>7, <2>9
      <4>2. QED BY <3>0, <4>1
    <3>2. QED BY <3>1
  <2>10. QED BY <2>6, <2>8, <2>9, <1>0
<1>3. QED BY <1>1, <1>2

\* Recording an answer keeps the list the latest one of the ids answered.
LEMMA RecordKeepsLatest ==
  ASSUME NEW list \in Seq(Nat), NEW ids \in Seq(Nat), NEW id \in Nat,
         Latest(list, ids)
  PROVE  /\ RecordHistory(list, id) \in Seq(Nat)
         /\ ToSet(RecordHistory(list, id)) \subseteq ToSet(list) \cup {id}
         /\ Append(ids, id) \in Seq(Nat)
         /\ Latest(RecordHistory(list, id), Append(ids, id))
<1> DEFINE q == RemoveFirst(list, id)
           all == <<id>> \o q
           n == IF Len(all) < MaxEntries THEN Len(all) ELSE MaxEntries
           new == SubSeq(all, 1, n)
           now == Append(ids, id)
<1>0. /\ MaxEntries \in Nat \ {0}
      /\ Len(list) \in Nat /\ DOMAIN list = 1..Len(list)
      /\ Len(ids) \in Nat /\ DOMAIN ids = 1..Len(ids)
  BY LenProperties, PagesAssumption
<1>1. ASSUME NEW i \in DOMAIN list, NEW j \in DOMAIN list, i < j
      PROVE  list[i] # list[j]
  <2>1. PICK m \in DOMAIN ids :
          ids[m] = list[i] /\ \A l \in DOMAIN ids : ids[l] = list[j] => l < m
    BY <1>1 DEF Latest, Later
  <2>2. QED BY <1>0, <2>1
<1>2. /\ q \in Seq(Nat) /\ ToSet(q) = ToSet(list) \ {id}
      /\ Len(q) >= Len(list) - 1
      /\ \A i, j \in DOMAIN q : i < j =>
           \E a, b \in DOMAIN list : a < b /\ q[i] = list[a] /\ q[j] = list[b]
  BY <1>1, WithoutId
<1>3. Len(q) \in Nat /\ DOMAIN q = 1..Len(q)
  BY <1>2, LenProperties
<1> HIDE DEF q
<1>4. /\ all \in Seq(Nat) /\ Len(all) = Len(q) + 1 /\ all[1] = id
      /\ \A i \in 1..Len(q) : all[i + 1] = q[i]
  <2>1. <<id>> \in Seq(Nat) /\ Len(<<id>>) = 1 /\ <<id>>[1] = id
    OBVIOUS
  <2>2. QED BY <1>2, <1>3, <2>1, ConcatProperties
<1> HIDE DEF all
<1>5. n \in 1..Len(all)
  BY <1>0, <1>3, <1>4
<1> HIDE DEF n
<1>6. /\ new \in Seq(Nat) /\ Len(new) = n /\ DOMAIN new = 1..n
      /\ \A i \in 1..n : new[i] = all[i]
  <2>1. new \in Seq(Nat) /\ Len(new) = n /\ \A i \in 1..n : new[i] = all[i]
    BY <1>3, <1>4, <1>5, SubSeqProperties
  <2>2. QED BY <1>5, <2>1, LenProperties
<1>7. RecordHistory(list, id) = new
  BY DEF RecordHistory, q, all, n
<1> HIDE DEF new
<1>8. /\ new[1] = id /\ 1 \in DOMAIN new
      /\ \A i \in DOMAIN new : i # 1 => i - 1 \in DOMAIN q /\ new[i] = q[i - 1]
  BY <1>3, <1>4, <1>5, <1>6
<1>9. \A e \in ToSet(new) : e = id \/ e \in ToSet(list) \ {id}
  <2>1. ASSUME NEW i \in DOMAIN new, i # 1 PROVE new[i] \in ToSet(q)
    BY <1>8, <2>1, InToSet
  <2>2. QED BY <1>2, <1>8, <2>1, InToSet
<1>10. /\ now \in Seq(Nat) /\ DOMAIN now = 1..(Len(ids) + 1)
       /\ now[Len(ids) + 1] = id
       /\ \A i \in DOMAIN ids : now[i] = ids[i]
  <2>1. now \in Seq(Nat) /\ Len(now) = Len(ids) + 1
    BY AppendProperties
  <2>2. QED BY <1>0, <2>1, AppendProperties, LenProperties
<1> HIDE DEF now
<1>11. ToSet(now) = ToSet(ids) \cup {id}
  <2>1. ASSUME NEW i \in DOMAIN now PROVE now[i] \in ToSet(ids) \cup {id}
    <3>1. CASE i = Len(ids) + 1
      BY <1>10, <3>1
    <3>2. CASE i # Len(ids) + 1
      <4>1. i \in DOMAIN ids
        BY <1>0, <1>10, <3>2
      <4>2. QED BY <1>10, <4>1, InToSet
    <3>3. QED BY <3>1, <3>2
  <2>2. ASSUME NEW i \in DOMAIN ids PROVE ids[i] \in ToSet(now)
    <3>1. i \in DOMAIN now /\ now[i] = ids[i]
      BY <1>0, <1>10
    <3>2. QED BY <3>1, InToSet
  <2>3. id \in ToSet(now)
    <3>1. Len(ids) + 1 \in DOMAIN now
      BY <1>0, <1>10
    <3>2. QED BY <1>10, <3>1, InToSet
  <2>4. QED BY <2>1, <2>2, <2>3, InToSet
<1>12. ASSUME NEW x, x # id PROVE Later(now, id, x)
  BY <1>0, <1>10, <1>12 DEF Later
<1>13. ASSUME NEW a, NEW b, a # id, b # id, Later(ids, a, b)
       PROVE  Later(now, a, b)
  <2>1. PICK m \in DOMAIN ids :
          ids[m] = a /\ \A l \in DOMAIN ids : ids[l] = b => l < m
    BY <1>13 DEF Later
  <2>2. m \in DOMAIN now /\ now[m] = a
    BY <1>0, <1>10, <2>1
  <2>3. ASSUME NEW l \in DOMAIN now, now[l] = b PROVE l < m
    <3>1. l \in DOMAIN ids
      BY <1>0, <1>10, <1>13, <2>3
    <3>2. QED BY <1>10, <2>1, <2>3, <3>1
  <2>4. QED BY <2>2, <2>3 DEF Later
<1>14. ASSUME NEW i \in DOMAIN q, NEW j \in DOMAIN q, i < j
       PROVE  Later(now, q[i], q[j])
  <2>1. PICK a \in DOMAIN list, b \in DOMAIN list :
          a < b /\ q[i] = list[a] /\ q[j] = list[b]
    BY <1>2, <1>14
  <2>2. Later(ids, q[i], q[j])
    BY <2>1 DEF Latest
  <2>3. q[i] # id /\ q[j] # id
    <3>1. q[i] \in ToSet(q) /\ q[j] \in ToSet(q)
      BY DEF ToSet
    <3>2. QED BY <1>2, <3>1
  <2>4. QED BY <1>13, <2>2, <2>3
<1>15. ASSUME NEW i \in DOMAIN new, NEW j \in DOMAIN new, i < j
       PROVE  Later(now, new[i], new[j])
  <2>0. j # 1 /\ i \in Nat /\ j \in Nat /\ i >= 1
    BY <1>5, <1>6, <1>15
  <2>1. CASE i = 1
    <3>1. new[j] \in ToSet(q)
      BY <1>8, <2>0 DEF ToSet
    <3>2. QED BY <1>2, <1>8, <1>12, <2>1, <3>1
  <2>2. CASE i # 1
    BY <1>8, <1>14, <1>15, <2>0, <2>2
  <2>3. QED BY <2>1, <2>2
<1>16. ASSUME NEW x \in ToSet(now) \ ToSet(new)
       PROVE  /\ n = MaxEntries
              /\ \A e \in ToSet(new) : Later(now, e, x)
  <2>1. id \in ToSet(new)
    BY <1>8 DEF ToSet
  <2>2. x # id /\ x \in ToSet(ids)
    BY <1>11, <2>1
  <2>3. CASE x \in ToSet(list)
    <3>1. PICK m \in DOMAIN q : q[m] = x
      <4>1. x \in ToSet(q)
        BY <1>2, <2>2, <2>3
      <4>2. QED BY <4>1, InToSet
    <3>2. m + 1 \notin DOMAIN new
      <4>1. m + 1 \in DOMAIN new => new[m + 1] = x
        BY <1>3, <1>8, <3>1
      <4>2. QED BY <4>1 DEF ToSet
    <3>3. n < m + 1 /\ n < Len(all)
      BY <1>3, <1>4, <1>5, <1>6, <3>2
    <3>4. n = MaxEntries
      BY <3>3 DEF n
    <3>5. ASSUME NEW i \in DOMAIN new PROVE Later(now, new[i], x)
      <4>1. CASE i = 1
        BY <1>8, <1>12, <2>2, <4>1
      <4>2. CASE i # 1
        <5>1. i - 1 \in DOMAIN q /\ new[i] = q[i - 1] /\ i - 1 < m
          BY <1>3, <1>5, <1>6, <1>8, <3>3, <4>2
        <5>2. QED BY <1>14, <3>1, <5>1
      <4>3. QED BY <4>1, <4>2
    <3>6. QED BY <3>4, <3>5 DEF ToSet
  <2>4. CASE x \notin ToSet(list)
    <3>1. /\ Len(list) = MaxEntries
          /\ \A e \in ToSet(list) : Later(ids, e, x)
      BY <2>2, <2>4 DEF Latest
    <3>2. n = MaxEntries
      BY <1>0, <1>2, <1>3, <1>4, <3>1 DEF n
    <3>3. QED BY <1>9, <1>12, <1>13, <2>2, <3>1, <3>2
  <2>5. QED BY <2>3, <2>4
<1>17. n <= MaxEntries
  BY <1>0, <1>3, <1>4 DEF n
<1>18. ToSet(new) \subseteq ToSet(now)
  <2>1. ToSet(list) \subseteq ToSet(ids)
    BY DEF Latest
  <2>2. QED BY <1>9, <1>11, <2>1
<1>19. Latest(new, now)
  BY <1>6, <1>15, <1>16, <1>17, <1>18 DEF Latest
<1>20. QED BY <1>6, <1>7, <1>9, <1>10, <1>19 DEF now

-----------------------------------------------------------------------------
(* The forms and the backend *)

LEMMA PagesConstants ==
  /\ MaxEntries \in Nat \ {0} /\ MaxRequests \in Nat \ {0}
  /\ Len(Earlier) \in Nat /\ DOMAIN Earlier = 1..Len(Earlier)
  /\ Ids = 1..(Len(Earlier) + MaxRequests)
  /\ 0 \notin Ids /\ "none" \notin Kinds /\ NoLists \in [Kinds -> Seq(Nat)]
  BY PagesAssumption, LenProperties, EmptySeq DEF Ids, Kinds, NoLists

\* What the effects of a form presuppose of it.
LEMMA FormTable ==
  \A f \in DOMAIN Forms :
    /\ Forms[f].kind \in Kinds \cup {"none"}
    /\ "record" \in Forms[f].success => Forms[f].kind \in Kinds
    /\ "inspect" \in Forms[f].success => Forms[f].kind \in Kinds
    /\ "refetch" \in Forms[f].success => f = "resumeRun"
    /\ "refetch" \in Forms[f].success => "inspect" \notin Forms[f].success
    /\ f = "executeRuntime" => Forms[f].kind = "runtime-execution"
<1>1. DOMAIN Forms =
        {"createTask", "issueApproval", "executeTool", "grantApproval",
         "runWorkflow", "resumeRun", "executeRuntime", "orchestrate",
         "autonomousRun", "deleteMemory", "writeMemory"}
  BY DEF Forms
<1>2. QED
  BY <1>1
     DEF Forms, Kinds, Form, CreateTask, IssueApproval, ExecuteTool,
         GrantApproval, RunWorkflow, ResumeRun, ExecuteRuntime, Orchestrate,
         AutonomousRun, DeleteMemory, WriteMemory

\* The backend only adds to what was created.
Extended ==
  \A id \in DOMAIN created : id \in DOMAIN created' /\ created'[id] = created[id]

\* A request under way has an id left, and performing it keeps the count.
LEMMA PerformKeeps ==
  ASSUME BackendOK, FormsOK, NEW r \in requests,
         Perform(r) \/ UNCHANGED backend,
         requests' = requests \ {r}, sent' = sent
  PROVE  BackendOK' /\ Extended /\ resumed \subseteq resumed'
<1>0. /\ created \in Seq(Kinds) /\ Len(created) \in Nat
      /\ DOMAIN created = 1..Len(created)
      /\ r.form \in DOMAIN Forms /\ r.content \in Contents(r.form)
  BY LenProperties DEF BackendOK, FormsOK, FormNames
<1>1. /\ IsFiniteSet(requests') /\ Cardinality(requests) \in Nat
      /\ Cardinality(requests') = Cardinality(requests) - 1
  BY FS_RemoveElement, FS_CardinalityType DEF BackendOK
<1>2. CASE UNCHANGED backend
  BY <1>0, <1>1, <1>2, PagesConstants DEF backend, BackendOK, Extended
<1>3. CASE Perform(r)
  <2> DEFINE kind == Forms[r.form].kind
             id == IdOf(r)
             grown == kind # "none" /\ id = Len(created) + 1
  <2>1. kind \in Kinds \cup {"none"}
    BY <1>0, FormTable
  <2>2. CASE grown
    <3>1. kind \in Kinds /\ created' = Append(created, kind)
      BY <1>3, <2>1, <2>2 DEF Perform
    <3>2. /\ created' \in Seq(Kinds) /\ Len(created') = Len(created) + 1
          /\ \A i \in 1..Len(created) : created'[i] = created[i]
          /\ created'[Len(created) + 1] = kind
      BY <1>0, <3>1, AppendProperties
    <3>3. DOMAIN created' = 1..(Len(created) + 1)
      BY <3>2, LenProperties
    <3>4. Extended
      BY <1>0, <3>2, <3>3 DEF Extended
    <3>5. /\ keyed' \in 0..Len(created')
          /\ keyed' # 0 => created'[keyed'] = "runtime-execution"
      <4>1. CASE r.content = "keyed"
        <5>1. r.form = "executeRuntime"
          BY <1>0, <4>1 DEF Contents
        <5>2. keyed' = Len(created) + 1
          BY <1>3, <2>2, <4>1 DEF Perform
        <5>3. kind = "runtime-execution"
          BY <1>0, <5>1, FormTable
        <5>4. QED BY <1>0, <3>2, <5>2, <5>3
      <4>2. CASE r.content # "keyed"
        <5>1. keyed' = keyed
          BY <1>3, <4>2 DEF Perform
        <5>2. QED BY <1>0, <3>2, <5>1 DEF BackendOK
      <4>3. QED BY <4>1, <4>2
    <3>6. Len(created') + Cardinality(requests') <= Len(Earlier) + sent'
      BY <1>0, <1>1, <3>2, PagesConstants DEF BackendOK
    <3>7. QED
      BY <1>1, <1>3, <3>2, <3>4, <3>5, <3>6 DEF BackendOK, Perform
  <2>3. CASE ~grown
    <3>1. created' = created
      BY <1>3, <2>3 DEF Perform
    <3>2. keyed' \in 0..Len(created)
          /\ (keyed' # 0 => created[keyed'] = "runtime-execution")
      <4>1. CASE r.content = "keyed"
        <5>1. r.form = "executeRuntime"
          BY <1>0, <4>1 DEF Contents
        <5>2. kind # "none"
          BY <1>0, <5>1, FormTable
        <5>3. keyed' = keyed
          BY <1>3, <2>3, <4>1, <5>2 DEF Perform, IdOf
        <5>4. QED BY <5>3 DEF BackendOK
      <4>2. CASE r.content # "keyed"
        <5>1. keyed' = keyed
          BY <1>3, <4>2 DEF Perform
        <5>2. QED BY <5>1 DEF BackendOK
      <4>3. QED BY <4>1, <4>2
    <3>3. Len(created') + Cardinality(requests') <= Len(Earlier) + sent'
      BY <1>0, <1>1, <3>1, PagesConstants DEF BackendOK
    <3>4. QED
      BY <1>1, <1>3, <3>1, <3>2, <3>3 DEF BackendOK, Extended, Perform
  <2>4. QED BY <2>2, <2>3
<1>4. QED BY <1>2, <1>3

\* The id a request that creates is answered with.
LEMMA IdIsOfKind ==
  ASSUME BackendOK, FormsOK, NEW r \in requests, Perform(r),
         Forms[r.form].kind \in Kinds
  PROVE  /\ IdOf(r) \in Ids
         /\ IdOf(r) \in DOMAIN created' /\ created'[IdOf(r)] = Forms[r.form].kind
<1>0. /\ created \in Seq(Kinds) /\ Len(created) \in Nat
      /\ DOMAIN created = 1..Len(created)
      /\ r.form \in DOMAIN Forms /\ r.content \in Contents(r.form)
      /\ Forms[r.form].kind # "none"
  BY PagesConstants, LenProperties DEF BackendOK, FormsOK, FormNames
<1>1. Cardinality(requests) \in Nat \ {0}
  BY FS_CardinalityType, FS_EmptySet DEF BackendOK
<1>2. Len(created) + 1 \in Ids
  BY <1>0, <1>1, PagesConstants DEF BackendOK
<1>3. CASE IdOf(r) = Len(created) + 1
  <2>1. created' = Append(created, Forms[r.form].kind)
    BY <1>0, <1>3 DEF Perform
  <2>2. /\ Len(created') = Len(created) + 1 /\ created' \in Seq(Kinds)
        /\ created'[Len(created) + 1] = Forms[r.form].kind
    BY <1>0, <2>1, AppendProperties
  <2>3. DOMAIN created' = 1..(Len(created) + 1)
    BY <2>2, LenProperties
  <2>4. QED BY <1>0, <1>2, <1>3, <2>2, <2>3
<1>4. CASE IdOf(r) # Len(created) + 1
  <2>1. r.content = "keyed" /\ keyed # 0 /\ IdOf(r) = keyed
    BY <1>0, <1>4 DEF IdOf
  <2>2. created' = created /\ r.form = "executeRuntime"
    BY <1>0, <1>4, <2>1 DEF Perform, Contents
  <2>3. keyed \in 1..Len(created)
    BY <1>0, <2>1 DEF BackendOK
  <2>4. keyed \in Ids
    BY <1>0, <1>1, <1>2, <2>3, PagesConstants DEF BackendOK
  <2>5. created[keyed] = Forms[r.form].kind
    BY <1>0, <2>1, <2>2, FormTable DEF BackendOK
  <2>6. QED BY <1>0, <2>1, <2>2, <2>3, <2>4, <2>5
<1>5. QED BY <1>3, <1>4

-----------------------------------------------------------------------------
(* The lookups *)

LEMMA DatumFacts ==
  /\ NoDatum.id = 0 /\ NoDatum.state = "none"
  /\ \A d \in Data : d.id = 0 <=> d = NoDatum
  /\ \A done : \A id \in Ids :
       /\ Current(id, done) \in Data /\ Current(id, done).id = id
       /\ Current(id, done) # NoDatum
       /\ id \in done => Current(id, done).state = "after"
  BY PagesConstants DEF NoDatum, Datum, Data, Current

LEMMA FetchingKeeps ==
  ASSUME NEW id \in Ids, NEW entry, EntryOK(entry, id), NEW done
  PROVE  /\ EntryOK(Fetching(entry, id, done), id)
         /\ id \in done => UpToDate(Fetching(entry, id, done))
  BY DatumFacts DEF EntryOK, Fetching, UpToDate

\* One entry is replaced; only a record that is resumed by now is newly owed.
LEMMA SetEntry ==
  ASSUME CacheOK, NEW id \in Ids, NEW entry, EntryOK(entry, id),
         cache' = [cache EXCEPT ![id] = entry],
         active' \in Ids \cup {0},
         id \in owed' => UpToDate(entry),
         owed' \subseteq owed \cup {id}, owed' \subseteq resumed'
  PROVE  CacheOK'
<1>1. cache' \in [Ids -> [data : Data, error : BOOLEAN, fetch : Data]]
  BY DEF CacheOK, EntryOK
<1>2. ASSUME NEW i \in Ids
      PROVE  EntryOK(cache'[i], i) /\ (i \in owed' => UpToDate(cache'[i]))
  BY DEF CacheOK
<1>3. QED BY <1>1, <1>2 DEF CacheOK

LEMMA KeepCache ==
  ASSUME CacheOK, UNCHANGED <<cache, owed>>, active' \in Ids \cup {0},
         resumed \subseteq resumed'
  PROVE  CacheOK'
  BY DEF CacheOK

LEMMA LookUpKeeps ==
  ASSUME CacheOK, NEW id \in Ids, LookUp(id), active' = id, owed' = owed,
         resumed \subseteq resumed'
  PROVE  CacheOK'
<1>1. CASE cache' = cache
  BY <1>1, KeepCache
<1>2. CASE cache' = [cache EXCEPT ![id] = Fetching(cache[id], id, resumed)]
  <2>1. /\ EntryOK(Fetching(cache[id], id, resumed), id)
        /\ id \in owed => UpToDate(Fetching(cache[id], id, resumed))
    BY FetchingKeeps DEF CacheOK
  <2>2. QED BY <1>2, <2>1, SetEntry DEF CacheOK
<1>3. QED BY <1>1, <1>2 DEF LookUp, QueryKey

LEMMA RereadKeeps ==
  ASSUME CacheOK, NEW r, Reread(r), active' = active,
         resumed' = resumed \cup {r.target}
  PROVE  CacheOK'
<1>1. CASE active = 0
  BY <1>1, KeepCache DEF Reread, CacheOK
<1>2. CASE active # 0
  <2> DEFINE entry == cache[active]
             now == Fetching(entry, active, resumed \cup {r.target})
  <2>0. active \in Ids /\ EntryOK(entry, active)
    BY <1>2 DEF CacheOK
  <2>1. owed' \subseteq owed \cup {active} /\ owed' \subseteq resumed'
    BY <1>2 DEF Reread, CacheOK
  <2>2. CASE entry.fetch # NoDatum /\ entry.data = NoDatum
    <3>1. cache' = cache /\ owed' = owed
      BY <1>2, <2>2 DEF Reread, QueryKey, Shown
    <3>2. QED BY <2>0, <3>1, KeepCache
  <2>3. CASE ~(entry.fetch # NoDatum /\ entry.data = NoDatum)
    <3>1. cache' = [cache EXCEPT ![active] = now]
      BY <1>2, <2>3 DEF Reread, QueryKey
    <3>2. /\ EntryOK(now, active)
          /\ active \in resumed' => UpToDate(now)
      BY <2>0, FetchingKeeps
    <3> HIDE DEF now
    <3>3. QED BY <2>0, <2>1, <3>1, <3>2, SetEntry
  <2>4. QED BY <2>2, <2>3
<1>3. QED BY <1>1, <1>2

-----------------------------------------------------------------------------
(* What was recorded *)

LEMMA KeepHistory ==
  ASSUME HistoryOK, UNCHANGED lists, Extended
  PROVE  HistoryOK'
  BY DEF HistoryOK, lists, Extended

LEMMA RecordKeeps ==
  ASSUME HistoryOK, Extended, NEW kind \in Kinds, NEW id \in Ids,
         Record(kind, id), id \in DOMAIN created', created'[id] = kind
  PROVE  HistoryOK'
<1> DEFINE new == [history.lists EXCEPT ![kind] = RecordHistory(@, id)]
<1>0. id \in Nat
  BY PagesConstants
<1>1. /\ history.lists \in [Kinds -> Seq(Nat)]
      /\ answers \in [Kinds -> Seq(Nat)]
      /\ Latest(history.lists[kind], answers[kind])
  BY DEF HistoryOK
<1>2. /\ RecordHistory(history.lists[kind], id) \in Seq(Nat)
      /\ ToSet(RecordHistory(history.lists[kind], id))
           \subseteq ToSet(history.lists[kind]) \cup {id}
      /\ Append(answers[kind], id) \in Seq(Nat)
      /\ Latest(RecordHistory(history.lists[kind], id), Append(answers[kind], id))
  BY <1>0, <1>1, RecordKeepsLatest
<1>3. /\ new \in [Kinds -> Seq(Nat)]
      /\ new[kind] = RecordHistory(history.lists[kind], id)
      /\ \A k \in Kinds \ {kind} : new[k] = history.lists[k]
  BY <1>1, <1>2
<1>4. /\ answers' \in [Kinds -> Seq(Nat)]
      /\ answers'[kind] = Append(answers[kind], id)
      /\ \A k \in Kinds \ {kind} : answers'[k] = answers[k]
  BY <1>1, <1>2 DEF Record
<1>5. /\ history'.works = history.works /\ history'.lists = new
      /\ history' = [lists |-> new, works |-> history.works,
                     stored |-> IF history.works THEN new ELSE NoLists]
  <2>1. history' = [history EXCEPT !.lists = new,
                      !.stored = IF history.works THEN new ELSE @]
    BY DEF Record, Persist
  <2> HIDE DEF new
  <2>2. PICK l, w : history = [lists |-> l, works |-> w,
                               stored |-> IF w THEN l ELSE NoLists]
    BY DEF HistoryOK
  <2>3. w = history.works /\ history.stored = IF w THEN l ELSE NoLists
    BY <2>2
  <2>4. history' = [lists |-> new, works |-> w,
                    stored |-> IF w THEN new ELSE IF w THEN l ELSE NoLists]
    BY <2>1, <2>2, <2>3
  <2>5. QED BY <2>3, <2>4
<1> HIDE DEF new
<1>6. ASSUME NEW k \in Kinds
      PROVE  /\ Latest(new[k], answers'[k])
             /\ \A i \in ToSet(new[k]) : i \in DOMAIN created' /\ created'[i] = k
  <2>1. CASE k = kind
    <3>1. Latest(new[k], answers'[k])
      BY <1>2, <1>3, <1>4, <2>1
    <3>2. \A i \in ToSet(new[k]) : i \in ToSet(history.lists[kind]) \/ i = id
      BY <1>2, <1>3, <2>1
    <3>3. \A i \in ToSet(history.lists[kind]) :
            i \in DOMAIN created /\ created[i] = kind
      BY DEF HistoryOK
    <3>4. QED BY <2>1, <3>1, <3>2, <3>3 DEF Extended
  <2>2. CASE k # kind
    BY <1>3, <1>4, <2>2 DEF HistoryOK, Extended
  <2>3. QED BY <2>1, <2>2
<1>7. QED BY <1>3, <1>4, <1>5, <1>6 DEF HistoryOK

LEMMA NothingListed == \A k \in Kinds : Latest(NoLists[k], NoLists[k])
  BY PagesConstants, EmptySeq, LenProperties DEF Latest, NoLists, ToSet

\* A list is the latest one of its own ids, oldest first.
LEMMA OldestFirst ==
  ASSUME NEW list \in Seq(Nat), Len(list) <= MaxEntries,
         \A i, j \in DOMAIN list : i # j => list[i] # list[j]
  PROVE  Reverse(list) \in Seq(Nat) /\ Latest(list, Reverse(list))
<1> DEFINE ids == Reverse(list)
<1>0. Len(list) \in Nat /\ DOMAIN list = 1..Len(list)
  BY LenProperties
<1>1. /\ DOMAIN ids = 1..Len(list)
      /\ \A i \in 1..Len(list) : ids[i] = list[Len(list) - i + 1]
  BY DEF Reverse
<1>2. ids \in Seq(Nat)
  <2>1. \A i \in 1..Len(list) : list[Len(list) - i + 1] \in Nat
    BY <1>0
  <2>2. QED BY <1>0, <2>1, IsASeq DEF Reverse
<1> HIDE DEF ids
<1>3. \A i \in 1..Len(list) : /\ Len(list) - i + 1 \in 1..Len(list)
                              /\ Len(list) - (Len(list) - i + 1) + 1 = i
  BY <1>0
<1>4. ToSet(ids) = ToSet(list)
  <2>1. ASSUME NEW i \in 1..Len(list)
        PROVE  list[i] \in ToSet(ids) /\ ids[i] \in ToSet(list)
    <3>1. ids[Len(list) - i + 1] = list[i]
      BY <1>1, <1>3
    <3>2. QED BY <1>0, <1>1, <1>3, <3>1, InToSet
  <2>2. \A x : x \in ToSet(ids) <=> \E i \in 1..Len(list) : ids[i] = x
    BY <1>1, <1>2, InToSet
  <2>3. \A x : x \in ToSet(list) <=> \E i \in 1..Len(list) : list[i] = x
    BY <1>0, InToSet
  <2>4. \A x : x \in ToSet(ids) <=> x \in ToSet(list)
    BY <2>1, <2>2, <2>3
  <2>5. QED BY <2>4
<1>5. ASSUME NEW i \in DOMAIN list, NEW j \in DOMAIN list, i < j
      PROVE  Later(ids, list[i], list[j])
  <2>1. /\ Len(list) - i + 1 \in DOMAIN ids
        /\ ids[Len(list) - i + 1] = list[i]
    BY <1>0, <1>1, <1>3
  <2>2. ASSUME NEW m \in DOMAIN ids, ids[m] = list[j]
        PROVE  m < Len(list) - i + 1
    <3>1. Len(list) - m + 1 = j
      BY <1>0, <1>1, <1>3, <2>2
    <3>2. QED BY <1>0, <1>1, <1>5, <3>1
  <2>3. QED BY <2>1, <2>2 DEF Later
<1>6. QED BY <1>2, <1>4, <1>5 DEF Latest, ids

-----------------------------------------------------------------------------
(* The invariant is inductive *)

LEMMA NoEntryOK == \A id : EntryOK(NoEntry, id) /\ UpToDate(NoEntry)
  BY DatumFacts DEF EntryOK, NoEntry, UpToDate, Data

LEMMA PagesInitOK == PagesInit => PagesInv
<1> SUFFICES ASSUME PagesInit PROVE PagesInv
  OBVIOUS
<1>1. BackendOK
  <2>1. Earlier \in Seq(Kinds) /\ created = Earlier /\ requests = {}
        /\ keyed = 0 /\ sent = 0
    BY PagesAssumption DEF PagesInit
  <2>2. IsFiniteSet(requests) /\ Cardinality(requests) = 0
    BY <2>1, FS_EmptySet
  <2>3. QED BY <2>1, <2>2, PagesConstants DEF BackendOK
<1>2. FormsOK
  BY DEF PagesInit, FormsOK, Contents
<1>3. CacheOK
  BY NoEntryOK, PagesConstants DEF PagesInit, CacheOK, EntryOK
<1>4. HistoryOK
  <2>1. PICK works \in BOOLEAN :
          LET loaded == IF works THEN EarlierLists ELSE NoLists
          IN /\ history = [lists |-> loaded, stored |-> loaded, works |-> works]
             /\ answers = [k \in Kinds |-> Reverse(loaded[k])]
    BY DEF PagesInit
  <2> DEFINE loaded == IF works THEN EarlierLists ELSE NoLists
  <2>2. ASSUME NEW k \in Kinds
        PROVE  /\ loaded[k] \in Seq(Nat) /\ Len(loaded[k]) <= MaxEntries
               /\ \A i, j \in DOMAIN loaded[k] :
                    i # j => loaded[k][i] # loaded[k][j]
               /\ \A id \in ToSet(loaded[k]) :
                    id \in DOMAIN Earlier /\ Earlier[id] = k
    <3>1. CASE works
      <4> DEFINE list == EarlierLists[k]
      <4>1. /\ list \in Seq(DOMAIN Earlier) /\ Len(list) <= MaxEntries
            /\ \A i, j \in DOMAIN list :
                 Earlier[list[i]] = k /\ (i # j => list[i] # list[j])
        BY PagesAssumption
      <4> HIDE DEF list
      <4>2. /\ list \in [1..Len(list) -> DOMAIN Earlier] /\ Len(list) \in Nat
            /\ DOMAIN list = 1..Len(list)
        BY <4>1, LenProperties
      <4>3. list \in Seq(Nat)
        <5>1. \A i \in 1..Len(list) : list[i] \in Nat
          BY <4>2, PagesConstants
        <5>2. list = [i \in 1..Len(list) |-> list[i]]
          BY <4>2
        <5>3. QED BY <4>2, <5>1, <5>2, IsASeq
      <4>4. \A id \in ToSet(list) : id \in DOMAIN Earlier /\ Earlier[id] = k
        BY <4>1, <4>2, InToSet
      <4>5. loaded[k] = list
        BY <3>1 DEF list
      <4>6. QED BY <4>1, <4>3, <4>4, <4>5
    <3>2. CASE ~works
      <4>1. loaded[k] = << >>
        BY <3>2 DEF NoLists
      <4>2. << >> \in Seq(Nat) /\ Len(<< >>) = 0 /\ DOMAIN << >> = {}
            /\ ToSet(<< >>) = {}
        BY EmptySeq, LenProperties DEF ToSet
      <4> DEFINE list == << >>
      <4>3. loaded[k] = list
        BY <4>1
      <4>4. /\ list \in Seq(Nat) /\ Len(list) = 0 /\ DOMAIN list = {}
            /\ ToSet(list) = {}
        BY <4>2
      <4> HIDE DEF list, loaded
      <4>5. Len(list) <= MaxEntries
        BY <4>4, PagesConstants
      <4>6. QED BY <4>3, <4>4, <4>5
    <3>3. QED BY <3>1, <3>2
  <2>3. history = [lists |-> loaded, stored |-> loaded, works |-> works]
        /\ answers = [k \in Kinds |-> Reverse(loaded[k])]
    BY <2>1
  <2>4. loaded \in [Kinds -> Seq(Nat)]
    <3>1. loaded = [k \in Kinds |-> loaded[k]]
      BY PagesAssumption DEF NoLists
    <3>2. QED BY <2>2, <3>1
  <2>5. history = [lists |-> history.lists, works |-> history.works,
                   stored |-> IF history.works THEN history.lists ELSE NoLists]
    BY <2>3
  <2>6. history.lists = loaded /\ history.works \in BOOLEAN
    BY <2>3
  <2> HIDE DEF loaded
  <2>7. ASSUME NEW k \in Kinds
        PROVE  /\ answers[k] \in Seq(Nat)
               /\ Latest(loaded[k], answers[k])
               /\ \A id \in ToSet(loaded[k]) :
                    id \in DOMAIN created /\ created[id] = k
    <3>1. answers[k] = Reverse(loaded[k]) /\ created = Earlier
      BY <2>3 DEF PagesInit
    <3>2. QED BY <2>2, <3>1, OldestFirst
  <2>8. answers \in [Kinds -> Seq(Nat)]
    BY <2>3, <2>7
  <2>9. QED BY <2>4, <2>5, <2>6, <2>7, <2>8 DEF HistoryOK
<1>5. QED BY <1>1, <1>2, <1>3, <1>4 DEF PagesInv

\* Steps that leave the backend, the requests and the forms alone.
LEMMA QuietKeeps ==
  ASSUME PagesInv, UNCHANGED <<backend, requests, sent>>
  PROVE  /\ BackendOK' /\ Extended /\ resumed' = resumed
         /\ fields' = fields => FormsOK'
         /\ UNCHANGED lists => HistoryOK'
<1>1. Extended /\ resumed' = resumed
  BY DEF Extended, backend
<1>2. BackendOK'
  BY DEF PagesInv, BackendOK, backend
<1>3. fields' = fields => FormsOK'
  BY DEF PagesInv, FormsOK
<1>4. QED BY <1>1, <1>2, <1>3, KeepHistory DEF PagesInv

\* A page is left: its forms are blank again.
LEMMA EnterKeeps ==
  ASSUME PagesInv, NEW name, EnterPage(name)
  PROVE  /\ BackendOK' /\ FormsOK' /\ Extended /\ resumed' = resumed
         /\ active' = 0
<1>1. /\ UNCHANGED <<backend, requests, sent>> /\ active' = 0
      /\ fields' = [f \in FormNames |-> "blank"]
  BY DEF EnterPage
<1>2. FormsOK'
  BY <1>1 DEF PagesInv, FormsOK, Contents
<1>3. QED BY <1>1, <1>2, QuietKeeps

LEMMA OpenKeeps ==
  ASSUME PagesInv, NEW name, Open(name) PROVE PagesInv'
<1>1. /\ BackendOK' /\ FormsOK' /\ Extended /\ resumed' = resumed
      /\ active' = 0 /\ UNCHANGED <<cache, owed>> /\ UNCHANGED lists
  BY EnterKeeps DEF Open
<1>2. QED BY <1>1, KeepCache, KeepHistory DEF PagesInv

LEMMA ReloadKeeps ==
  ASSUME PagesInv, ReloadPages PROVE PagesInv'
<1>1. /\ BackendOK' /\ FormsOK' /\ Extended /\ active' = 0
      /\ cache' = [id \in Ids |-> NoEntry] /\ owed' = {}
  BY EnterKeeps DEF ReloadPages
<1>2. CacheOK'
  BY <1>1, NoEntryOK DEF CacheOK, EntryOK
<1>3. HistoryOK'
  <2>1. PICK l, w : history = [lists |-> l, works |-> w,
                               stored |-> IF w THEN l ELSE NoLists]
    BY DEF PagesInv, HistoryOK
  <2>2. history.works = w /\ history.lists = l /\ w \in BOOLEAN
    BY <2>1 DEF PagesInv, HistoryOK
  <2>3. CASE w
    <3>1. history' = history /\ answers' = answers
      BY <2>1, <2>2, <2>3 DEF ReloadPages
    <3>2. QED BY <1>1, <3>1, KeepHistory DEF PagesInv, lists
  <2>4. CASE ~w
    <3>1. /\ history' = [lists |-> NoLists, works |-> w, stored |-> NoLists]
          /\ answers' = NoLists
      BY <2>1, <2>2, <2>4 DEF ReloadPages
    <3>2. \A k \in Kinds : ToSet(NoLists[k]) = {}
      BY DEF NoLists, ToSet
    <3>3. QED
      BY <2>2, <2>4, <3>1, <3>2, NothingListed, PagesConstants DEF HistoryOK
  <2>5. QED BY <2>2, <2>3, <2>4
<1>4. QED BY <1>1, <1>2, <1>3 DEF PagesInv

LEMMA SendKeeps ==
  ASSUME PagesInv, NEW f \in FormNames, NEW target, Send(f, target)
  PROVE  PagesInv'
<1> DEFINE r == [form |-> f, visit |-> opened.visit, target |-> target,
                 content |-> fields[f]]
<1>1. /\ requests' = requests \cup {r} /\ sent' = sent + 1
      /\ sent < MaxRequests /\ UNCHANGED <<fields, active, cache, owed>>
      /\ UNCHANGED backend /\ UNCHANGED lists
  BY DEF Send
<1>2. r.form = f /\ r.content = fields[f]
  OBVIOUS
<1> HIDE DEF r
<1>3. IsFiniteSet(requests) /\ Cardinality(requests) \in Nat
  BY FS_CardinalityType DEF PagesInv, BackendOK
<1>4. /\ IsFiniteSet(requests') /\ Cardinality(requests') \in Nat
      /\ Cardinality(requests') <= Cardinality(requests) + 1
  <2> DEFINE now  == requests \cup {r}
             size == Cardinality(requests)
  <2>1. IsFiniteSet(now) /\ (Cardinality(now) = size \/ Cardinality(now) = size + 1)
    BY <1>3, FS_AddElement
  <2>2. size \in Nat
    BY <1>3
  <2>3. requests' = now
    BY <1>1
  <2> HIDE DEF now, size
  <2>4. Cardinality(now) \in Nat /\ Cardinality(now) <= size + 1
    BY <2>1, <2>2
  <2>5. QED BY <2>1, <2>3, <2>4 DEF size
<1>5. Len(created) \in Nat
  BY LenProperties DEF PagesInv, BackendOK
<1>6. BackendOK'
  BY <1>1, <1>3, <1>4, <1>5, PagesConstants DEF PagesInv, BackendOK, backend
<1>7. FormsOK'
  BY <1>1, <1>2 DEF PagesInv, FormsOK
<1>8. Extended /\ resumed' = resumed
  BY <1>1 DEF Extended, backend
<1>9. CacheOK'
  BY <1>1, <1>8, KeepCache DEF PagesInv, CacheOK
<1>10. QED BY <1>1, <1>6, <1>7, <1>8, <1>9, KeepHistory DEF PagesInv

LEMMA SucceedKeeps ==
  ASSUME PagesInv, NEW r \in requests, Perform(r), Succeed(r), Extended,
         requests' = requests \ {r}
  PROVE  FormsOK' /\ CacheOK' /\ HistoryOK'
<1> DEFINE effects == Forms[r.form].success
<1>0. /\ r.form \in DOMAIN Forms /\ resumed \subseteq resumed'
  BY DEF PagesInv, FormsOK, FormNames, Perform
<1>1. FormsOK'
  <2>1. fields' \in {fields, [fields EXCEPT ![r.form] = "blank"]}
    BY DEF Succeed
  <2>2. QED BY <2>1 DEF PagesInv, FormsOK, Contents
<1>2. HistoryOK'
  <2>1. CASE "record" \in effects
    <3>1. /\ Record(Forms[r.form].kind, IdOf(r))
          /\ Forms[r.form].kind \in Kinds
      BY <1>0, <2>1, FormTable DEF Succeed
    <3>2. QED BY <3>1, IdIsOfKind, RecordKeeps DEF PagesInv
  <2>2. CASE "record" \notin effects
    BY <2>2, KeepHistory DEF Succeed, PagesInv
  <2>3. QED BY <2>1, <2>2
<1>3. CacheOK'
  <2>1. CASE "refetch" \in effects
    <3>1. /\ r.form = "resumeRun" /\ "inspect" \notin effects
      BY <1>0, <2>1, FormTable
    <3>2. /\ Reread(r) /\ active' = active
          /\ resumed' = resumed \cup {r.target}
      BY <2>1, <3>1 DEF Succeed, Perform
    <3>3. QED BY <3>2, RereadKeeps DEF PagesInv
  <2>2. CASE "refetch" \notin effects /\ "inspect" \in effects
    <3>1. /\ active' = IdOf(r) /\ owed' = owed
          /\ cache' = cache \/ LookUp(IdOf(r))
      BY <2>2 DEF Succeed
    <3>2. IdOf(r) \in Ids
      BY <1>0, <2>2, FormTable, IdIsOfKind DEF PagesInv
    <3>3. QED BY <1>0, <3>1, <3>2, KeepCache, LookUpKeeps DEF PagesInv
  <2>3. CASE "refetch" \notin effects /\ "inspect" \notin effects
    <3>1. UNCHANGED <<cache, owed>> /\ active' = active
      BY <2>3 DEF Succeed
    <3>2. QED BY <1>0, <3>1, KeepCache DEF PagesInv, CacheOK
  <2>4. QED BY <2>1, <2>2, <2>3
<1>4. QED BY <1>1, <1>2, <1>3

\* The request ends without anything happening to what the page keeps.
LEMMA EndsQuietly ==
  ASSUME PagesInv, NEW r \in requests, requests' = requests \ {r},
         BackendOK', Extended, resumed \subseteq resumed',
         UNCHANGED <<fields, active, cache, owed>>, UNCHANGED lists
  PROVE  PagesInv'
<1>1. FormsOK'
  BY DEF PagesInv, FormsOK
<1>2. CacheOK'
  BY KeepCache DEF PagesInv, CacheOK
<1>3. QED BY <1>1, <1>2, KeepHistory DEF PagesInv

LEMMA AnsweredKeeps ==
  ASSUME PagesInv, NEW r \in requests, Answered(r) PROVE PagesInv'
<1>1. /\ Perform(r) /\ requests' = requests \ {r} /\ sent' = sent
  BY DEF Answered
<1>2. BackendOK' /\ Extended /\ resumed \subseteq resumed'
  BY <1>1, PerformKeeps DEF PagesInv
<1>3. CASE OfThisVisit(r)
  BY <1>1, <1>2, <1>3, SucceedKeeps DEF Answered, PagesInv
<1>4. CASE ~OfThisVisit(r)
  <2>1. UNCHANGED <<fields, active, cache, owed>> /\ UNCHANGED lists
    BY <1>4 DEF Answered, page
  <2>2. QED BY <1>1, <1>2, <2>1, EndsQuietly
<1>5. QED BY <1>3, <1>4

LEMMA LostKeeps ==
  ASSUME PagesInv, NEW r \in requests, Lost(r) PROVE PagesInv'
<1>1. /\ Perform(r) \/ UNCHANGED backend
      /\ requests' = requests \ {r} /\ sent' = sent
  BY DEF Lost
<1>2. BackendOK' /\ Extended /\ resumed \subseteq resumed'
  BY <1>1, PerformKeeps DEF PagesInv
<1>3. UNCHANGED <<fields, active, cache, owed>> /\ UNCHANGED lists
  BY DEF Lost, Fail, page
<1>4. QED BY <1>1, <1>2, <1>3, EndsQuietly

\* A fetch of a key is answered, fails, or is begun again.
LEMMA FetchKeeps ==
  ASSUME PagesInv, NEW id \in Ids,
         FetchAnswered(id) \/ FetchLost(id) \/ (RetryLookup /\ id = active)
  PROVE  PagesInv'
<1>1. /\ UNCHANGED <<backend, requests, sent>> /\ fields' = fields
      /\ UNCHANGED lists /\ owed' = owed /\ active' = active
  BY DEF FetchAnswered, FetchLost, RetryLookup, page
<1>2. /\ BackendOK' /\ FormsOK' /\ HistoryOK' /\ resumed' = resumed
  BY <1>1, QuietKeeps
<1>0. /\ CacheOK /\ EntryOK(cache[id], id) /\ cache[id] \in [data : Data, error : BOOLEAN, fetch : Data]
      /\ id \in owed => id \in resumed /\ UpToDate(cache[id])
      /\ active \in Ids \cup {0} /\ owed \subseteq resumed
  BY DEF PagesInv, CacheOK
<1>3. CASE FetchAnswered(id)
  <2>1. PICK datum \in {cache[id].fetch, Current(id, resumed)} :
          /\ cache[id].fetch.id = id
          /\ cache' = [cache EXCEPT ![id] = [data |-> datum, error |-> FALSE,
                                             fetch |-> NoDatum]]
    BY <1>3 DEF FetchAnswered, QueryKey
  <2> DEFINE entry == [data |-> datum, error |-> FALSE, fetch |-> NoDatum]
  <2>2. cache[id].fetch # NoDatum
    BY <2>1, DatumFacts, PagesConstants
  <2>3. /\ datum \in Data /\ datum.id = id
        /\ id \in owed => datum.state = "after"
    BY <1>0, <2>1, <2>2, DatumFacts DEF UpToDate
  <2>4. EntryOK(entry, id) /\ (id \in owed => UpToDate(entry))
    BY <2>3, DatumFacts DEF EntryOK, UpToDate, Data
  <2> HIDE DEF entry
  <2>5. CacheOK'
    BY <1>0, <1>1, <1>2, <2>1, <2>4, SetEntry DEF entry
  <2>6. QED BY <1>2, <2>5 DEF PagesInv
<1>4. CASE FetchLost(id)
  <2> DEFINE entry == [cache[id] EXCEPT !.fetch = NoDatum, !.error = TRUE]
  <2>1. cache' = [cache EXCEPT ![id] = entry]
    BY <1>0, <1>4 DEF FetchLost, QueryKey, CacheOK
  <2>2. EntryOK(entry, id) /\ UpToDate(entry)
    BY <1>0, DatumFacts DEF EntryOK, UpToDate, Data
  <2> HIDE DEF entry
  <2>3. CacheOK'
    BY <1>0, <1>1, <1>2, <2>1, <2>2, SetEntry
  <2>4. QED BY <1>2, <2>3 DEF PagesInv
<1>5. CASE RetryLookup /\ id = active
  <2> DEFINE entry == Fetching(cache[id], id, resumed)
  <2>1. cache' = [cache EXCEPT ![id] = entry]
    BY <1>5 DEF RetryLookup, QueryKey
  <2>2. EntryOK(entry, id) /\ (id \in owed => UpToDate(entry))
    BY <1>0, FetchingKeeps
  <2> HIDE DEF entry
  <2>3. CacheOK'
    BY <1>0, <1>1, <1>2, <2>1, <2>2, SetEntry
  <2>4. QED BY <1>2, <2>3 DEF PagesInv
<1>6. QED BY <1>3, <1>4, <1>5

LEMMA InspectKeeps ==
  ASSUME PagesInv, NEW id \in Ids, Inspect(id) PROVE PagesInv'
<1>1. /\ UNCHANGED <<backend, requests, sent>> /\ fields' = fields
      /\ UNCHANGED lists /\ owed' = owed /\ active' = id /\ LookUp(id)
  BY DEF Inspect
<1>2. /\ BackendOK' /\ FormsOK' /\ HistoryOK' /\ resumed' = resumed
  BY <1>1, QuietKeeps
<1>3. QED BY <1>1, <1>2, LookUpKeeps DEF PagesInv

\* What is typed or asked stays on the page.
LEMMA TypeKeeps ==
  ASSUME PagesInv,
         \/ \E f \in FormNames : \E c \in Contents(f) : Type(f, c)
         \/ CancelDelete \/ \E m \in Memories : AskDelete(m)
  PROVE  PagesInv'
<1>1. /\ UNCHANGED <<backend, requests, sent>> /\ UNCHANGED lists
      /\ UNCHANGED <<cache, owed, active>>
  BY DEF Type, CancelDelete, AskDelete
<1>2. /\ BackendOK' /\ HistoryOK' /\ resumed' = resumed
      /\ fields' = fields => FormsOK'
  BY <1>1, QuietKeeps
<1>3. FormsOK'
  <2>1. CASE \E f \in FormNames : \E c \in Contents(f) : Type(f, c)
    BY <1>1, <2>1 DEF PagesInv, FormsOK, Type, Contents
  <2>2. CASE CancelDelete \/ \E m \in Memories : AskDelete(m)
    BY <1>2, <2>2 DEF CancelDelete, AskDelete
  <2>3. QED BY <2>1, <2>2
<1>4. CacheOK'
  BY <1>1, <1>2, KeepCache DEF PagesInv, CacheOK
<1>5. QED BY <1>2, <1>3, <1>4 DEF PagesInv

LEMMA PagesStepOK == PagesInv /\ [PagesNext]_pagesVars => PagesInv'
<1> SUFFICES ASSUME PagesInv, [PagesNext]_pagesVars PROVE PagesInv'
  OBVIOUS
<1>1. CASE \E s \in Screens : Open(s)
  BY <1>1, OpenKeeps
<1>2. CASE ReloadPages
  BY <1>2, ReloadKeeps
<1>3. ASSUME NEW f \in FormNames, Submit(f) \/ Retry(f) PROVE PagesInv'
  <2>1. \E target : Send(f, target)
    BY <1>3 DEF Submit, SubmitResume, ConfirmDelete, Retry
  <2>2. QED BY <2>1, SendKeeps
<1>4. CASE \/ \E f \in FormNames : \E c \in Contents(f) : Type(f, c)
           \/ CancelDelete \/ \E m \in Memories : AskDelete(m)
  BY <1>4, TypeKeeps
<1>5. ASSUME NEW id \in Ids, Inspect(id) PROVE PagesInv'
  BY <1>5, InspectKeeps
<1>6. ASSUME NEW id \in Ids, FetchAnswered(id) \/ FetchLost(id) PROVE PagesInv'
  BY <1>6, FetchKeeps
<1>7. CASE RetryLookup
  <2>1. active \in Ids
    BY <1>7 DEF RetryLookup, Shown, PagesInv, CacheOK
  <2>2. QED BY <1>7, <2>1, FetchKeeps
<1>8. ASSUME NEW r \in requests, Answered(r) \/ Lost(r) PROVE PagesInv'
  BY <1>8, AnsweredKeeps, LostKeeps
<1>9. CASE UNCHANGED pagesVars
  <2>1. /\ UNCHANGED <<backend, requests, sent>> /\ UNCHANGED lists
        /\ UNCHANGED <<cache, owed, active, fields>>
    BY <1>9 DEF pagesVars, backend, lists
  <2>2. QED BY <2>1, QuietKeeps, KeepCache DEF PagesInv, CacheOK
<1>10. QED
  BY <1>1, <1>2, <1>3, <1>4, <1>5, <1>6, <1>7, <1>8, <1>9 DEF PagesNext

-----------------------------------------------------------------------------
(* Theorems of the pages *)

LEMMA PagesInvariance == PagesSpec => []PagesInv
<1>1. QED BY PagesInitOK, PagesStepOK, PTL DEF PagesSpec

\* After any answers, pages left, keys used again and reloads, the session's
\* lists hold exactly the ids answered last (session-history.ts:42-48), for any
\* number of entries kept.
THEOREM HistoryIsLatestHolds == PagesSpec => []HistoryIsLatest
<1>1. PagesInv => HistoryIsLatest
  BY DEF PagesInv, HistoryOK, HistoryIsLatest
<1>2. QED BY <1>1, PagesInvariance, PTL

\* No late answer makes a page show another record than the one asked for, or
\* a run as it was before the resume the page saw answered.
THEOREM ShownIsAskedHolds == PagesSpec => []ShownIsAsked
<1>1. ASSUME PagesInv, Shown = "data"
      PROVE  /\ cache[active].data.id = active
             /\ active \in owed /\ cache[active].fetch = NoDatum =>
                  cache[active].data.state = "after"
  <2>1. /\ active \in Ids /\ ~cache[active].error
        /\ cache[active].data # NoDatum
    BY <1>1 DEF Shown, QueryKey, PagesInv, CacheOK
  <2>2. QED
    BY <1>1, <2>1, DatumFacts DEF PagesInv, CacheOK, EntryOK, UpToDate
<1>2. PagesInv => ShownIsAsked
  BY <1>1 DEF ShownIsAsked, QueryKey
<1>3. QED BY <1>2, PagesInvariance, PTL

===============================================================================
