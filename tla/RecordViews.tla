----------------------------- MODULE RecordViews -----------------------------
(***************************************************************************)
(* A page of the web client that lists records of the panel: assemblies    *)
(* (AssembliesPage.tsx, AssemblyCard.tsx) or modules (ModulesPage.tsx,     *)
(* ModuleCard.tsx).  The page asks the panel for the records of the        *)
(* selected project and shows a card for each; the events of a stream make *)
(* it ask again, silently, and hand the new record to its card.  Nothing   *)
(* orders the answers: those to the page, those to the cards, and those by *)
(* which StreamsActivator looks up an event's project before it passes the *)
(* event on.  While the page shows its loader the cards are unmounted and  *)
(* hear nothing; so are those of modules while the panel of their version  *)
(* is closed.                                                              *)
(*                                                                         *)
(* The page of prepared configurations (ConfigurationsPage.tsx) is built   *)
(* the same way, of editors instead of cards, but has no stream: it asks   *)
(* again when a dialog closes or a deletion of its own is answered.        *)
(*                                                                         *)
(* Left out: what a card displays beside the state of its record, the      *)
(* dialogs a card opens, filters other than versions (profiles, for        *)
(* configurations), what is typed and saved in an editor, the order of the *)
(* cards, the time a panel takes to close, projects and versions that come *)
(* or go while the page is shown, and the notifications.                   *)
(*                                                                         *)
(* Definitions headed "Slip" are plausible mistakes in the definition that *)
(* follows them; no specification uses them.                               *)
(***************************************************************************)
EXTENDS Integers, Sequences, FiniteSets, SequencesExt

CONSTANTS
  Projects,    \* the tabs of the page
  Records,     \* identifiers of assemblies, or of modules
  Versions,
  ProjectOf,   \* [Records -> Projects]
  VersionOf,   \* [Records -> [1 .. MaxChanges + 1 -> Versions]], after each change
  VersionsOf,  \* [Projects -> SUBSET Versions], the versions of each project
  MaxListed,   \* how many assemblies the page asks for
  MaxChanges,  \* bound: changes of records at the panel
  MaxClicks,   \* bound: tabs and versions the user selects
  MaxFails     \* bound: requests of the page the panel answers with an error

ASSUME ConstantsAssumption ==
  /\ ProjectOf \in [Records -> Projects]
  /\ VersionOf \in [Records -> [1 .. MaxChanges + 1 -> Versions]]
  /\ VersionsOf \in [Projects -> SUBSET Versions]
  /\ MaxListed \in Nat /\ MaxChanges \in Nat /\ MaxClicks \in Nat /\ MaxFails \in Nat

Kinds == {"assemblies", "modules", "configurations"}
EventTypes == {"ADD", "UPDATE", "DELETE"}

\* How far the reading of one record by its card has come.
New == -2      \* the card has never been on the screen
Idle == -1     \* nothing is under way
Asked == 0     \* asked for; a positive number is the record on its way back

NoCard == [base |-> 0, held |-> 0, newest |-> 0, astray |-> FALSE, reading |-> Idle]
Unserved == [r \in Records |-> -1]

VARIABLES
  kind,      \* which page this is
  db,        \* [Records -> Nat]: changes of each record so far, 0 before it is added
  gone,      \* records that were deleted
  started,   \* [Records -> Nat]: when each assembly was started last
  live,      \* has the panel registered the page's stream?
  unseen,    \* history: a record changed before that
  wire,      \* events on the stream's socket, in order
  resolving, \* events whose project StreamsActivator is looking up, and
             \* deletions of configurations whose answer is on its way
  tab,       \* the selected project
  chosen,    \* the versions selected in the filter; none means all
  profiles,  \* those the filter of configurations offers, by the last answer
  filtering, \* is the loader shown?
  queries,   \* requests of the page without an outcome, in the order they were sent
  listed,    \* the list last applied: an answer
  expanded,  \* versions of modules whose panels are to be drawn open
  panels,    \* [versions -> BOOLEAN]: the panels of modules drawn last, open or closed
  late,      \* history: that list was asked for before one applied earlier
  failed,    \* history: a request of the page was answered with an error
  cards,     \* [Records -> card]
  changes, clicks

server == <<db, gone, started, changes>>
panelled == <<expanded, panels>>
page == <<tab, chosen, profiles, filtering, queries, listed, panelled, late, failed>>
vars == <<kind, server, live, unseen, wire, resolving, page, cards, clicks>>

Running(v) == v % 2 = 1      \* a record is running, or changing, after an odd number of changes
Present == {r \in Records : db[r] > 0} \ gone
HasCard(r) == cards[r] # NoCard

\* The version of a record after n changes: only an update of a module moves it.
VersionAt(r, n) == VersionOf[r][IF kind = "modules" THEN n ELSE 1]

\* A card is drawn with its page; that of a module in the panel of the version it is
\* listed with, if the selected project had that version when the panels were drawn.
Drawn(r) == HasCard(r) /\ (kind = "modules" => VersionAt(r, listed[r]) \in DOMAIN panels)

\* It is mounted, and subscribed, while the loader is not and its panel is open.
CardMounted(r) ==
  /\ ~ filtering /\ Drawn(r)
  /\ kind = "modules" => panels[VersionAt(r, listed[r])]

\* A request for a list.  The page of modules first asks for every module of the
\* project, to fill its filter, and only then for the list; that of configurations
\* asks for those of every project.
Query(step, p, vs, silent) ==
  [step |-> step, tab |-> p, chosen |-> vs, silent |-> silent,
   answer |-> Unserved, overtaken |-> FALSE]

First(k, p, vs, silent) ==
  CASE k = "assemblies" -> Query("list", p, vs, silent)
    [] k = "modules" -> Query("filter", p, {}, silent)
    [] k = "configurations" -> Query("filter", p, {}, FALSE)

Init ==
  /\ kind \in Kinds
  /\ db \in [Records -> {0, 1}]
  /\ gone = {} /\ started = [r \in Records |-> 0] /\ live = FALSE /\ unseen = FALSE
  /\ wire = <<>> /\ resolving = {}
  /\ tab \in Projects /\ chosen = {} /\ profiles = {} /\ filtering = TRUE
  /\ queries = <<First(kind, tab, {}, FALSE)>>
  /\ listed = [r \in Records |-> 0] /\ expanded = {} /\ panels = <<>>
  /\ late = FALSE /\ failed = FALSE
  /\ cards = [r \in Records |-> NoCard]
  /\ changes = 0 /\ clicks = 0

-----------------------------------------------------------------------------
(* The panel. *)

Emit(type, r, v) ==
  /\ wire' = IF live THEN Append(wire, [type |-> type, id |-> r, ver |-> v, old |-> FALSE]) ELSE wire
  /\ unseen' = (unseen \/ ~ live)

\* An assembly gets the time of its start when it is added and when it is built again.
Change(r) ==
  /\ changes < MaxChanges
  /\ changes' = changes + 1
  /\ r \notin gone
  /\ \/ /\ db' = [db EXCEPT ![r] = @ + 1]
        /\ started' = IF kind = "assemblies" /\ Running(db[r] + 1)
                      THEN [started EXCEPT ![r] = changes + 1] ELSE started
        /\ Emit(IF db[r] = 0 THEN "ADD" ELSE "UPDATE", r, db[r] + 1)
        /\ UNCHANGED gone
     \/ /\ db[r] > 0
        /\ gone' = gone \cup {r}
        /\ Emit("DELETE", r, db[r])
        /\ UNCHANGED <<db, started>>
  /\ UNCHANGED <<kind, live, resolving, page, cards, clicks>>

\* An editor of the page deletes its configuration.
DeleteConfiguration(r) ==
  /\ kind = "configurations"
  /\ changes < MaxChanges /\ changes' = changes + 1
  /\ CardMounted(r) /\ r \in Present
  /\ gone' = gone \cup {r}
  /\ resolving' = resolving \cup {[type |-> "DELETE", id |-> r, ver |-> db[r], old |-> FALSE]}
  /\ UNCHANGED <<kind, db, started, live, unseen, wire, page, cards, clicks>>

Selects(q, r) ==
  \/ kind = "configurations" /\ q.step = "filter"
  \/ /\ ProjectOf[r] = q.tab
     /\ q.chosen = {} \/ VersionAt(r, db[r]) \in q.chosen

\* What may be listed of some records: of assemblies no more than were asked for, those
\* started last.  (Starts are told apart by the second: which of two comes first may be
\* left open.)
Limited(S) ==
  IF kind = "assemblies"
  THEN {L \in SUBSET S :
          /\ Cardinality(L) <= MaxListed
          /\ Cardinality(L) < MaxListed => L = S
          /\ \A r \in L, s \in S \ L : started[s] <= started[r]}
  ELSE {S}

\* The panel answers the requests of a page in any order.
ServeQuery(i) ==
  /\ queries[i].answer = Unserved
  /\ \E L \in Limited({r \in Present : Selects(queries[i], r)}) :
       queries' = [queries EXCEPT ![i].answer = [r \in Records |-> IF r \in L THEN db[r] ELSE 0]]
  /\ UNCHANGED <<kind, server, live, unseen, wire, resolving, tab, chosen, profiles, filtering,
                 listed, panelled, late, failed, cards, clicks>>

ServeReading(r) ==
  /\ HasCard(r) /\ cards[r].reading = Asked
  /\ cards' = [cards EXCEPT ![r].reading = IF r \in Present THEN db[r] ELSE Idle]
  /\ UNCHANGED <<kind, server, live, unseen, wire, resolving, page, clicks>>

\* The stream has a connection of its own: it may be registered after the first
\* answers have come.
StreamSubscribes ==
  /\ kind # "configurations" /\ ~ live
  /\ live' = TRUE
  /\ UNCHANGED <<kind, server, unseen, wire, resolving, page, cards, clicks>>

-----------------------------------------------------------------------------
(* The page. *)

\* Slip: every request shows the loader.
FilterLoading(p, vs, silent, qs) ==
  /\ queries' = Append(qs, Query("list", p, vs, silent))
  /\ filtering' = TRUE

\* Ask for the list of the tab and the versions selected now.
Filter(p, vs, silent, qs) ==
  /\ queries' = Append(qs, Query("list", p, vs, silent))
  /\ filtering' = (filtering \/ ~ silent)

UpdateFilter(p, vs, silent, qs) ==
  IF kind = "assemblies"
  THEN Filter(p, vs, silent, qs)
  ELSE /\ queries' = Append(qs, First(kind, p, vs, silent))
       /\ UNCHANGED filtering

\* What the filter offers: the versions of the project, at once, or the profiles of
\* the configurations last heard of.
Available == IF kind = "configurations" THEN profiles ELSE VersionsOf[tab]

\* The searcher of versions keeps what is still available of its selection.
Kept(p) == IF kind = "configurations" THEN chosen ELSE chosen \cap VersionsOf[p]

\* When that is less, the page hears of a selection before it asks on its own.
SelectTab(p) ==
  /\ clicks < MaxClicks /\ clicks' = clicks + 1
  /\ p # tab /\ tab' = p
  /\ chosen' = Kept(p)
  /\ IF chosen' = chosen
     THEN UpdateFilter(p, chosen', FALSE, queries)
     ELSE /\ filtering' = TRUE
          /\ queries' = queries \o <<Query("list", p, chosen', FALSE), First(kind, p, chosen', FALSE)>>
  /\ UNCHANGED <<kind, server, live, unseen, wire, resolving, profiles, listed, panelled,
                 late, failed, cards>>

ChooseVersions(vs) ==
  /\ clicks < MaxClicks /\ clicks' = clicks + 1
  /\ vs \subseteq Available /\ vs # chosen /\ chosen' = vs
  /\ Filter(tab, vs, FALSE, queries)
  /\ UNCHANGED <<kind, server, live, unseen, wire, resolving, tab, profiles, listed, panelled,
                 late, failed, cards>>

\* The dialog that adds a configuration closes: the page asks without waiting for the
\* answer to what the dialog sends.
CloseAddition ==
  /\ kind = "configurations"
  /\ clicks < MaxClicks /\ clicks' = clicks + 1
  /\ UpdateFilter(tab, chosen, FALSE, queries)
  /\ UNCHANGED <<kind, server, live, unseen, wire, resolving, tab, chosen, profiles, listed, panelled,
                 late, failed, cards>>

\* The answer that fills the filter: ask for the list, of what is selected by now.
\* The panels of the versions that have changing modules are to be open.  The page of
\* configurations offers the profiles of its tab, and first hears of the selection
\* when less is left of it.
AnswerFilter(i) ==
  LET q == queries[i]
      rest == RemoveAt(queries, i)
  IN
  /\ q.step = "filter" /\ q.answer # Unserved
  /\ IF kind # "configurations"
     THEN /\ Filter(tab, chosen, q.silent, rest)
          /\ expanded' = expanded \cup
               {VersionAt(r, q.answer[r]) : r \in {r \in Records : q.answer[r] > 0 /\ Running(q.answer[r])}}
          /\ UNCHANGED <<chosen, profiles>>
     ELSE /\ profiles' = {VersionAt(r, q.answer[r]) :
                           r \in {r \in Records : q.answer[r] > 0 /\ ProjectOf[r] = tab}}
          /\ chosen' = chosen \cap profiles'
          /\ Filter(tab, chosen', FALSE,
               IF chosen' = chosen THEN rest ELSE Append(rest, Query("list", tab, chosen', FALSE)))
          /\ UNCHANGED expanded
  /\ UNCHANGED <<kind, server, live, unseen, wire, resolving, tab,
                 listed, panels, late, failed, cards, clicks>>

\* A card that comes on the screen for the first time: that of a running assembly
\* is open, and reads its record.  An editor reads its record until it has it.
Mounted(c) ==
  LET reads == \/ kind = "assemblies" /\ c.reading = New /\ Running(c.base)
               \/ kind = "configurations" /\ c.reading \in {New, Idle} /\ c.held = 0
  IN [c EXCEPT !.reading = IF reads THEN Asked ELSE IF @ = New THEN Idle ELSE @]

Card(v) == [NoCard EXCEPT !.base = v, !.reading = New]

\* Slip: the cards of records that are no longer in the list stay.
RefreshedKeeping(answer, shown) ==
  [r \in Records |->
    LET c == IF HasCard(r) \/ answer[r] = 0 THEN cards[r] ELSE Card(answer[r])
    IN IF shown THEN Mounted(c) ELSE c]

\* The cards after an answer: new ones for the records that have none, none for
\* those that are not in the list; a card that is there keeps what it was given.
Refreshed(answer, shown) ==
  [r \in Records |->
    IF answer[r] = 0 THEN NoCard
    ELSE LET c == IF HasCard(r) THEN cards[r] ELSE Card(answer[r])
         IN IF shown THEN Mounted(c) ELSE c]

\* The panels of modules are drawn anew with every list: those of the versions of the
\* selected project that some listed module has.
Redrawn(answer) ==
  IF kind # "modules" THEN panels
  ELSE [v \in {v \in VersionsOf[tab] : \E r \in Records : answer[r] > 0 /\ VersionAt(r, answer[r]) = v}
         |-> v \in expanded]

RefreshCards(i) ==
  LET q == queries[i] IN
  /\ q.step = "list" /\ q.answer # Unserved
  /\ filtering' = (filtering /\ q.silent)
  /\ cards' = Refreshed(q.answer, ~ filtering')
  /\ listed' = q.answer
  /\ panels' = Redrawn(q.answer)
  /\ late' = q.overtaken
  /\ queries' = [j \in 1..(Len(queries) - 1) |->
       IF j < i THEN [queries[j] EXCEPT !.overtaken = (queries[j].step = "list")]
                ELSE queries[j + 1]]
  /\ UNCHANGED <<kind, server, live, unseen, wire, resolving, tab, chosen, profiles, expanded, failed,
                 clicks>>

\* An error is only shown: nobody asks again, and the loader stays.
QueryFails(i) ==
  /\ MaxFails > 0 /\ ~ failed /\ failed' = TRUE
  /\ queries[i].answer = Unserved
  /\ queries' = RemoveAt(queries, i)
  /\ UNCHANGED <<kind, server, live, unseen, wire, resolving, tab, chosen, profiles, filtering,
                 listed, panelled, late, cards, clicks>>

-----------------------------------------------------------------------------
(* The events. *)

\* A card with the record of an event.
Handed(c, e) ==
  [c EXCEPT !.held = e.ver, !.newest = IF e.ver > @ THEN e.ver ELSE @, !.astray = @ \/ e.old]

\* Slip: only a card that has read its record takes a new one.
CardsAfterLoaded(e) ==
  [cards EXCEPT ![e.id] =
    IF @ = NoCard \/ e.type # "UPDATE" \/ @.held = 0 THEN @
    ELSE IF ~ CardMounted(e.id) THEN [@ EXCEPT !.astray = TRUE]
    ELSE Handed(@, e)]

\* A card on the screen takes the record of an event as it comes.
CardsAfter(e) ==
  [cards EXCEPT ![e.id] =
    IF @ = NoCard \/ e.type # "UPDATE" THEN @
    ELSE IF ~ CardMounted(e.id) THEN [@ EXCEPT !.astray = TRUE]
    ELSE Handed(@, e)]

\* The page of modules asks again when a module comes or goes, the others at every
\* event.
AsksAgain(e) == kind # "modules" \/ e.type # "UPDATE"

Deliver(e) ==
  /\ cards' = CardsAfter(e)
  /\ IF AsksAgain(e)
     THEN UpdateFilter(tab, chosen, TRUE, queries)
     ELSE UNCHANGED <<queries, filtering>>
  /\ UNCHANGED <<tab, chosen, profiles, listed, panelled, late, failed>>

\* A deletion is passed on at once.
Receive ==
  /\ wire # <<>>
  /\ wire' = Tail(wire)
  /\ LET e == Head(wire) IN
       IF e.type = "DELETE"
       THEN Deliver(e) /\ UNCHANGED resolving
       ELSE resolving' = resolving \cup {e} /\ UNCHANGED <<page, cards>>
  /\ UNCHANGED <<kind, server, live, unseen, clicks>>

Resolve(e) ==
  /\ resolving' = {[f EXCEPT !.old = @ \/ (f.id = e.id /\ f.ver < e.ver)] : f \in resolving \ {e}}
  /\ Deliver(e)
  /\ UNCHANGED <<kind, server, live, unseen, wire, clicks>>

\* The user opens or closes a card, which reads its record unless it has one.
Expand(r) ==
  /\ clicks < MaxClicks /\ clicks' = clicks + 1
  /\ kind # "configurations" /\ CardMounted(r)
  /\ cards[r].held = 0 /\ cards[r].reading = Idle
  /\ cards' = [cards EXCEPT ![r].reading = Asked]
  /\ UNCHANGED <<kind, server, live, unseen, wire, resolving, page>>

\* The user opens or closes the panel of a version.
TogglePanel(v) ==
  /\ clicks < MaxClicks /\ clicks' = clicks + 1
  /\ ~ filtering /\ v \in DOMAIN panels
  /\ panels' = [panels EXCEPT ![v] = ~ @]
  /\ expanded' = IF panels[v] THEN expanded \ {v} ELSE expanded \cup {v}
  /\ UNCHANGED <<kind, server, live, unseen, wire, resolving, tab, chosen, profiles, filtering,
                 queries, listed, late, failed, cards>>

\* The record read is kept, whatever the card has been handed in the meantime.
AnswerReading(r) ==
  /\ HasCard(r) /\ cards[r].reading > 0
  /\ LET n == cards[r].reading IN
       cards' = [cards EXCEPT ![r].held = n, ![r].newest = IF n > @ THEN n ELSE @,
                              ![r].reading = Idle]
  /\ UNCHANGED <<kind, server, live, unseen, wire, resolving, page, clicks>>

-----------------------------------------------------------------------------
PageStep ==
  \/ Receive
  \/ \E e \in resolving : Resolve(e)
  \/ \E i \in DOMAIN queries : ServeQuery(i) \/ AnswerFilter(i) \/ RefreshCards(i)
  \/ \E r \in Records : ServeReading(r) \/ AnswerReading(r)

Next ==
  \/ PageStep
  \/ StreamSubscribes
  \/ CloseAddition
  \/ \E r \in Records : Change(r) \/ Expand(r) \/ DeleteConfiguration(r)
  \/ \E i \in DOMAIN queries : QueryFails(i)
  \/ \E p \in Projects : SelectTab(p)
  \/ \E v \in Versions : TogglePanel(v)
  \/ \E vs \in SUBSET Versions : ChooseVersions(vs)

Spec == Init /\ [][Next]_vars

-----------------------------------------------------------------------------
(* Properties. *)

\* The loader never stays for nothing: it covers the cards only while a request
\* whose answer removes it is under way.  (After an error it does stay: nothing
\* but another click of the user removes it.)  AssembliesPage.tsx 79-111.
LoaderHasQuery ==
  filtering =>
    \/ failed
    \/ \E i \in DOMAIN queries : ~ queries[i].silent

\* Has the page been told of every change?
Told == (live \/ kind = "configurations") /\ ~ unseen

\* When nothing is under way the page shows, of the records of the selected project
\* and versions that exist, all that it asks for: of assemblies the limited number
\* started last, of modules those of a version the project has (the others are listed
\* and drawn in no panel).  It need not when the list applied last had been asked for
\* before an earlier one, when a request failed, or when a record changed before the
\* stream was registered (a configuration, by somebody else); nor where it shows a
\* module that an update moved to another version, for which no page asks again.
\* AssembliesPage.tsx 65-112, 196-198; AssemblyFilter.kt 51-53; ModulesPage.tsx 74-137,
\* 238; ConfigurationsPage.tsx 59-122.
Quiet == queries = <<>> /\ wire = <<>> /\ resolving = {}

Wanted == {r \in Present : ProjectOf[r] = tab /\ (chosen = {} \/ VersionAt(r, db[r]) \in chosen)}

Moved(r) == \E n \in 1 .. db[r] : VersionAt(r, n) # VersionAt(r, db[r])

InPanel(r) == kind = "modules" => VersionAt(r, db[r]) \in VersionsOf[tab]

QuietShowsTab ==
  Quiet /\ Told /\ ~ late /\ ~ failed =>
    \E L \in Limited(Wanted) :
      \A r \in Records : ~ Moved(r) => (Drawn(r) <=> r \in L /\ InPanel(r))

\* A card that has a record of its own has been handed the latest one when nothing
\* is under way, unless an event passed while the loader or a closed panel hid the
\* card (a card never reads twice) or events of its record changed places.  (That it
\* shows the latest one does not hold even then: what it has read may overwrite it.)
\* AssemblyCard.tsx 86-91, 311; ModuleCard.tsx 521-523; ModulesPage.tsx 136-153.
LoadedCardsHandedLatest ==
  Quiet /\ Told =>
    \A r \in Present :
      HasCard(r) /\ cards[r].held > 0 /\ cards[r].reading = Idle /\ ~ cards[r].astray
        => cards[r].newest = db[r]
=============================================================================
