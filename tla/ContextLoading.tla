---------------------------- MODULE ContextLoading ----------------------------
(***************************************************************************)
(* The data a page of the web client is built from (PlatformContext.ts).   *)
(* A context is rendered when its page is navigated to.  The first time it *)
(* starts a loader for each kind of data its page needs and shows a loader *)
(* of its own; a synchronizer counts the loaders that are done and, at the *)
(* last one, lets the context render again, now with the page.  A click on *)
(* the menu makes every context forget that it has loaded.  The pages of   *)
(* resources and of applications load their own data again, beside the     *)
(* context, when a dialog closes or a deletion is answered.                *)
(*                                                                         *)
(* The counter does not know which loader it counts, nor since when: what  *)
(* a loader answers that was started before a click, or before the page    *)
(* was left and entered again, is counted with the rest.  The model keeps  *)
(* all of this; "disturbed" says that it has happened.                     *)
(*                                                                         *)
(* Covered: one context, its page entered and left by the menu or by the   *)
(* browser, its dialogs, requests that fail.  Left out: the data.          *)
(*                                                                         *)
(* Definitions headed "Slip" are plausible mistakes in the definition that *)
(* follows them; no specification uses them.                               *)
(***************************************************************************)
EXTENDS Naturals, FiniteSets

CONSTANTS
  Pages,          \* the pages followed: a subset of DOMAIN Contexts
  ResourceTypes,  \* bound: the kinds of resources, each asked for by a request of its own
  MaxCopies,      \* bound: loads of one loader the model follows at once
  MaxClicks,      \* bound: clicks on the menu and in dialogs, and moves by the browser
  MaxFails        \* bound: requests answered with an error

-----------------------------------------------------------------------------
(* The requests that one load sends; the last answer completes it. *)

ResourcesLoader == ResourceTypes
ApplicationsLoader == {"filebeat"}
AssembliesLoader == {"assemblies"}
ModulesLoader == {"modules"}
ProjectsLoader == {"projects"}
PreparedConfigurationsLoader == {"configurations"}

Parts ==
  [resources |-> ResourcesLoader, applications |-> ApplicationsLoader,
   assemblies |-> AssembliesLoader, modules |-> ModulesLoader, projects |-> ProjectsLoader,
   configurations |-> PreparedConfigurationsLoader]

\* The loaders that the context of each page includes.
Contexts ==
  [projects |-> {"resources", "projects"},
   resources |-> {"resources"},
   assemblies |-> {"resources", "projects", "applications"},
   modules |-> {"assemblies", "projects", "resources", "configurations", "applications"},
   configurations |-> {"configurations", "modules", "projects"},
   networkAccesses |-> {"resources"},
   applications |-> {"applications", "resources"},
   administration |-> {}]

\* The loader a page uses itself: to show what its dialogs and cards have changed.
Reloads == [resources |-> {"resources"}, applications |-> {"applications"}]

OwnLoader(p) == IF p \in DOMAIN Reloads THEN Reloads[p] ELSE {}

ASSUME ContextAssumption ==
  /\ Pages # {} /\ Pages \subseteq DOMAIN Contexts
  /\ IsFiniteSet(ResourceTypes) /\ ResourceTypes # {}
  /\ MaxCopies \in Nat \ {0} /\ MaxClicks \in Nat /\ MaxFails \in Nat

-----------------------------------------------------------------------------
States == {"CREATED", "LOADING", "INITIALIZED"}

\* What the context has drawn: nothing, its loader, the page with all its data, or
\* the page without ("spoiled" when a load was disturbed).
Screens == {"none", "loader", "page", "early", "spoiled"}

VARIABLES
  page,      \* the page the context is of
  context,   \* the record of the context and its synchronizer
  clicks, fails

contextVars == <<page, context, clicks, fails>>

Loaders == Contexts[page]

FreshContext ==
  [state |-> "CREATED",
   counter |-> 0,                              \* loaders counted
   actions |-> 0,                              \* loaders to count
   paused |-> FALSE,                           \* is rendering paused?
   loads |-> {},                               \* loads under way; is the context to count them?
   deleting |-> 0,                             \* deletions of a card that are not answered
   loaded |-> [l \in Loaders |-> FALSE],
   filled |-> [l \in Loaders |-> {}],          \* the parts that have been answered
   recent |-> [l \in Loaders |-> FALSE],       \* history: loaded since the last click
   screen |-> "none",
   disturbed |-> FALSE]                        \* history: loads overlap, or the page's own failed

ContextInit == page \in Pages /\ context = FreshContext /\ clicks = 0 /\ fails = 0

\* A loader hands out its store, or throws, by "loaded".
Complete(c) == \A l \in Loaders : c.loaded[l] /\ c.recent[l] /\ c.filled[l] = Parts[l]

-----------------------------------------------------------------------------
(* Loaders. *)

Copies(c, l) == {x.copy : x \in {y \in c.loads : y.loader = l}}

\* The next free place; a load beyond the bound is not followed, which only happens
\* when the loads were disturbed long before.
FreeCopy(c, l) ==
  {k \in 1..MaxCopies : k \notin Copies(c, l) /\ \A j \in 1..(k - 1) : j \in Copies(c, l)}

\* Loaders start: each forgets its data and sends its requests.
Begun(c, started, counted) ==
  [c EXCEPT
    !.loads = @ \cup UNION {{[loader |-> l, left |-> Parts[l], copy |-> k, counted |-> counted] :
                               k \in FreeCopy(c, l)} : l \in started},
    !.loaded = [l \in Loaders |-> @[l] /\ l \notin started],
    !.filled = [l \in Loaders |-> IF l \in started THEN {} ELSE @[l]],
    !.recent = [l \in Loaders |-> @[l] \/ l \in started]]

\* One request of a load is answered; the last one completes the load.
Filled(c, x, part) ==
  LET left == x.left \ {part} IN
  [c EXCEPT
    !.loads = (@ \ {x}) \cup (IF left = {} THEN {} ELSE {[x EXCEPT !.left = left]}),
    !.filled[x.loader] = @ \cup {part},
    !.loaded[x.loader] = @ \/ left = {}]

-----------------------------------------------------------------------------
(* The context and its synchronizer. *)

Drawn(c) ==
  [c EXCEPT !.screen =
    IF c.state # "INITIALIZED" THEN "loader"
    ELSE IF Complete(c) THEN "page"
    ELSE IF c.disturbed THEN "spoiled" ELSE "early"]

\* The synchronizer starts whenever it has not counted exactly its actions: past
\* their number too, and then every loader that is done makes all of them load again.
\* When it has, it is complete, at once for a context without loaders.
Started(c) ==
  IF c.counter = c.actions THEN [c EXCEPT !.state = "INITIALIZED"]
  ELSE IF c.actions = 0 THEN [c EXCEPT !.paused = TRUE]
  ELSE Begun([c EXCEPT !.paused = TRUE], Loaders, TRUE)

\* A new context gives the synchronizer its loaders.
Prepared(c) ==
  IF c.state # "CREATED" THEN c
  ELSE [c EXCEPT !.state = "LOADING", !.actions = @ + Cardinality(Loaders)]

\* What every render does, before it draws.
Rendered(c) == Drawn(Started(Prepared(c)))

\* Slip: rendering goes on without a render.
ContinuedSilently(c) == [c EXCEPT !.paused = FALSE]

\* Rendering goes on: a context that is on the screen renders at once.
Continued(c) ==
  IF ~ c.paused THEN c
  ELSE LET d == [c EXCEPT !.paused = FALSE]
       IN IF c.screen = "none" THEN d ELSE Rendered(d)

Counted(c) == [c EXCEPT !.counter = IF c.counter > c.actions THEN @ ELSE @ + 1]

\* Slip: the last loader is not waited for.
ProcessedEarly(c) ==
  LET d == Counted(c) IN
  IF d.counter + 1 < d.actions THEN d ELSE Continued([d EXCEPT !.state = "INITIALIZED"])

\* A loader is done.  Past the number of actions nothing stops the counter; the
\* model keeps it at the first number beyond.
Processed(c) ==
  LET d == Counted(c) IN
  IF d.counter < d.actions THEN d ELSE Continued([d EXCEPT !.state = "INITIALIZED"])

\* A page on the screen draws itself again when its own load is done.
Redrawn(c) ==
  IF c.screen \in {"none", "loader"} THEN c
  ELSE [c EXCEPT !.screen =
    IF \A l \in Loaders : c.loaded[l] /\ c.filled[l] = Parts[l] THEN "page"
    ELSE IF c.disturbed \/ c.screen = "spoiled" THEN "spoiled" ELSE "early"]

Completed(c, x) == IF x.counted THEN Processed(c) ELSE Redrawn(c)

\* The page loads its own data again.
Reload(c) ==
  Begun([c EXCEPT !.disturbed = @ \/ c.loads # {}], OwnLoader(page), FALSE)

\* A click on the menu resets every context, whatever is under way.
Reloaded(c) ==
  [c EXCEPT !.state = "CREATED", !.actions = 0, !.counter = 0,
            !.recent = [l \in Loaders |-> FALSE], !.disturbed = c.loads # {}]

-----------------------------------------------------------------------------
(* Steps. *)

Answer(x, part) ==
  /\ part \in x.left
  /\ LET c == Filled(context, x, part)
     IN context' = IF x.left = {part} THEN Completed(c, x) ELSE c
  /\ UNCHANGED <<page, clicks, fails>>

\* An error is only shown: the loader is never done.
AnswerFails(x) ==
  /\ fails < MaxFails /\ fails' = fails + 1
  /\ context' = [context EXCEPT !.loads = @ \ {x}, !.disturbed = @ \/ ~ x.counted]
  /\ UNCHANGED <<page, clicks>>

Navigate(c) ==
  /\ clicks < MaxClicks /\ clicks' = clicks + 1
  /\ context' = c
  /\ UNCHANGED <<page, fails>>

\* The user enters or leaves the page without the menu: back and forward, or a
\* redirect of the client.
Enter ==
  /\ context.screen = "none"
  /\ Navigate(Rendered([context EXCEPT
       !.disturbed = @ \/ context.loads # {} \/ context.counter \notin {0, context.actions}]))

Leave == context.screen # "none" /\ Navigate([context EXCEPT !.screen = "none"])

\* The menu's item of this page: a page that is on the screen is not rendered again.
ClickThis ==
  Navigate(IF context.screen = "none" THEN Rendered(Reloaded(context)) ELSE Reloaded(context))

ClickOther == Navigate([Reloaded(context) EXCEPT !.screen = "none"])

\* A dialog of the page that adds or edits closes: the page does not wait for the
\* answer to what the dialog sends.
CloseDialog ==
  /\ context.screen \notin {"none", "loader"} /\ OwnLoader(page) # {}
  /\ Navigate(Reload(context))

\* A card asks the panel to delete its record.
Delete ==
  /\ context.screen \notin {"none", "loader"} /\ OwnLoader(page) # {}
  /\ Navigate([context EXCEPT !.deleting = @ + 1])

\* Its answer loads the data again, wherever the user is by then.
Deleted ==
  /\ context.deleting > 0
  /\ context' = Reload([context EXCEPT !.deleting = @ - 1])
  /\ UNCHANGED <<page, clicks, fails>>

Answers == \E x \in context.loads : \E part \in x.left : Answer(x, part)

ContextNext ==
  \/ Answers
  \/ \E x \in context.loads : AnswerFails(x)
  \/ Enter \/ Leave
  \/ ClickThis \/ ClickOther
  \/ CloseDialog \/ Delete \/ Deleted

ContextSpec == ContextInit /\ [][ContextNext]_contextVars

\* The panel answers every request in the end.
ContextFairSpec == ContextSpec /\ WF_contextVars(Answers)

-----------------------------------------------------------------------------
(* Properties. *)

\* A page is drawn with all its data, asked for since the last click on the menu,
\* unless loads overlapped (the menu was clicked, the page was left and entered or
\* loaded its own data while a loader was under way) or a load of the page's own
\* failed.  PlatformContext.ts 89-93, 119-165; Synchronizer.ts 23-71;
\* ResourcesPage.tsx 37; ApplicationsPage.tsx 40.
PageHasData == context.screen # "early"

\* The loader gives way, to the page or because the page is left, unless a request
\* failed: even when loads overlap.
LoaderGivesWay == context.screen = "loader" ~> (context.screen # "loader" \/ fails > 0)
=============================================================================
