# Verification of the ART platform

The repository is a CI/CD platform. A management panel (Kotlin, one JVM, its
records in Tarantool) takes calls of a web client (TypeScript), starts agents as
pods on OpenShift, and has them build projects into artifacts and deploy
artifacts as modules. There are no tests in the repository, and nearly every hard
question is about time: what tasks, streams and users do to one record and one
pod at once, what a restarted panel makes of what it finds, and what a page shows
when answers, events and clicks cross.

This directory models the parts where that matters most, checks them with TLC on small
instances and proves the central invariants with TLAPS. Paths below are short: `panel/`
is `src/management-panel/src/main/kotlin/ru/art/platform/`, `web/` is
`src/management-panel/src/main/web/src/`, `agent/` is
`src/agent/src/main/kotlin/ru/art/platform/agent/`, `openshift/` is
`src/open-shift-service/src/main/kotlin/ru/art/platform/open/shift/`.

## 1. Inventory

For each component: the state it keeps, its operations, whom it meets, what is
hard, and what makes it correct. `PROJECT.json` lists the same components with
their files and status, and every hazard at its line.

### The panel

**Assemblies** (`panel/service/AssemblyService.kt`, `ProjectAssemblyService.kt`).
*State*: one record per build (state, timestamps, log, artifacts); four maps by
assembly with the agent, the subscription, the disposable and the requester of
its stream. *Operations*: build (first cancels what it supersedes), cancel,
rebuild, delete one or a project's; `stopRunningAssemblies` after a restart.
*Interactions*: each build is an asynchronous task that starts an agent, looks
at the record before and after, subscribes to the agent's stream and writes
events back; each end spawns another task that destroys the agent. *Hard*: every
write is read, check, put without a transaction; a cancellation and a build task
find each other only through the record; a rebuild reuses the name of the pod;
a crash loses tasks and maps, not records and pods. *Correct*: a pod is always
going to be stopped by someone; a running record has a worker; a record is of
the newest attempt; DONE has artifacts; a cancellation in time is obeyed; the
states follow each other as the client expects.

**Modules** (`ModuleService.kt`, `ModuleManagementService.kt`). *State*: one record per
deployed module (state, configuration, version). *Operations*: install and update (each
of two calls), reinstall, refresh, stop, restart, uninstall, delete, and one request
that moves many modules to a version; `failChangingModules`. *Interactions*: each is a
task that asks the project's shared module manager (an agent). *Hard*: operations on one
module overlap, and a handler recognises only the state, not the operation; the agent
works on after the panel's timeout or crash; calls put the module before they look for
what they need to go on, and throw. *Correct*: a module never shows a change that nobody
works on; at rest it shows what OpenShift runs.

**Agents on OpenShift** (`openshift/manager/OpenShiftAgentManager.kt` and the
services it calls). *State*: one global lock for starts; the pod and service by
name in OpenShift. *Operations*: start (reusing or replacing), stop. *Hard*:
stops do not take the lock; objects are found and then deleted by name; waits
end in time and their result is dropped; a crash leaves half of a pair.
*Correct*: starts exclude each other, repair any leftover, hand out what stands
until it is stopped, and always give up the lock.

**Projects** (`ProjectService.kt`, `ProjectInitializationService.kt`). *State*: one
record per project with the artifacts, versions and technologies its initializer found.
*Operations*: add, update, reload, delete, `failStuckProjects`. *Interactions*: adding
and reloading start a task that has an agent send what it finds, part by part. *Hard*:
the events carry whole projects and overwrite what was put since; an update puts back
the state it read; reloads overlap; a call puts the project before it looks up the
resource, and throws if that is gone. *Correct*: a project never stays in a passing
state; it is initialized only with all its parts; an update of settings is not lost.
`AutomationService.kt`, which would reload projects upon pushes, is unreachable: its
only caller is commented out.

**Load tests** (`LoadTestingService.kt`, `ProjectLoadTestingService.kt`): the
shape of assemblies, without rebuild and without a sweep after a restart, and
with one requester for all tests.

**Restart** (`ManagementService.kt`): four sweeps in one try block, in the order
projects, assemblies, modules, shared agents, while the panel already serves.

**Agent client** (`panel/client/AgentClient.kt`): a cache of connections by
address; each request a stream with a timeout. *Correct*: a stale connection is
not used for a new agent; every stream ends.

**Registrations** (users, resources, prepared configurations, applications,
tokens): name checked, then put; nothing makes the pair atomic.

**Files, logs, external artifacts**: a chunked upload into a buffer; read, append
and put of a log; resources added under a free name.

**Events** (`src/common/.../broker/ReactiveBroker.kt`): a list of sinks; the
clients' views depend on the order in which events reach them.

**Backup, network checks**: sequential or single requests.

### The agent

**Builds** (`AgentAssemblyService.kt`, `AgentProjectBuilder.kt`, `dsl/`): Gradle,
then archives, parallel uploads, and a stream of events whose last one carries the
artifacts; emitters rewrite one current event from several threads.

**Modules** (`AgentModuleService.kt`, `AgentOpenShiftModuleManager.kt`,
`dsl/OpenShift*.kt`): install, compare and update, stop, restart and delete a
deployment and wait for its pods, through `OpenShiftDeploymentConfigService.kt`.

**Project initialization, changes, load tests, alerts and notifications**: git
and Gradle runs that end in a stream of events; messages to chats and mail.

### The web client

One page of the browser is one program without threads; everything that is hard
comes from callbacks: answers, events of streams, readers of files, timers, the
user. Nothing orders answers, and nothing cancels a request whose answer is no
longer wanted.

**Connections** (`web/client/PlatformClient.ts`, `web/index/index.ts`). *State*: a
client for requests, one more for each stream, each with a socket, a status and a
timer. *Hard*: each tick of a client that has lost its connection starts a new
try beside those under way, and looks at the status of the shared client whoever
it is itself; disposers are called at any time. *Correct*: a handler is never
fed twice; a disposed stream is silent; a request ends when its socket does; the
page comes back when the server does.

**Files of modules** (`ManagedFileLoader.tsx`, `ModuleInstallationService.ts`,
`ModuleUpdatingService.ts`, `ModuleCloningService.ts`). *State*: files picked, files
read, the readers under way; then the ids and transfers of a submission. *Hard*:
readers and ids come in any order; the button does not wait for readers.
*Correct*: the form holds what the user left in it; the panel processes a module
only with its files stored; a submission ends.

**Pages of records** (`AssembliesPage.tsx`, `ModulesPage.tsx`, `ConfigurationsPage.tsx`,
their cards, `StreamsActivator.tsx`). *State*: the tab, the filter, the cards, a loader.
*Hard*: a list asked for aloud, one asked for silently after an event, the reading of a
card and the lookup of an event's project all cross; a card hears events only while it
is mounted, that of a module only while the panel of its version is open. *Correct*: the
loader goes away; at rest the page shows the records of the selection that it asks for,
and its cards have been handed the latest ones.

**Contexts** (`PlatformContext.ts`, `Synchronizer.ts`, the six loaders): a page is
drawn when the loaders it needs have been counted. *Hard*: the counter does not
know which load it counts. *Correct*: a page is drawn with its data, and drawn.

**Forms** (dialogs of resources, projects, applications and configurations, the
pages of sign-in, registration and network checks). *Hard*: the list of names in
use comes after what it should refuse; Enter clicks later. *Correct*: the button
stands for a valid form; a duplicate is shown; one request is sent.

**Collections, selectors, searchers** (`ManagedCollection.tsx`,
`PlatformCollections.ts`, `ManagedSelector.tsx`, `ManagedSearcher.tsx`) and the two
**launchers** built of them (`BuildLauncherDialog.tsx`,
`ModulesInstallationDialog.tsx`). *Hard*: each keeps what it shows and what it reads
apart; the network page sets from outside what a validation sets; projects are switched
faster than they answer. *Correct*: a blocked collection can be mended at one place; a
settled dialog is of its project.

**Session** (`EntryPoint.ts`, `SimpleRouter.tsx`, `ApiActions.ts`): tabs share a cookie,
each keeps its user; the dialog of a user's rights (`UserPrivilegesEditingDialog.ts`)
writes back the record it read, its token with it. *Correct*: a tab acts as the user it
shows; redirections end, at the page asked for.

### Libraries

Git, Docker, Linux, process and Kotlin-script services wrap programs and
compilers. Kaniko is vendored.

## 2. Plan

What the modules below cover, in the order they were written, and what would
come next.

1. `AssemblyLifecycle`, refining `AssemblyStates`: the build, the core of the
   platform. Theorems: type correctness, no pod forgotten, the newest attempt stored
   and complete when done, an early cancellation kept, a running assembly attended to.
2. `ModuleLifecycle`: deployment. Theorems: type correctness, no change shown that
   nobody works on, a record that tells what is deployed.
3. `OpenShiftAgent`: under both. Theorems: starts exclude each other, repair what is
   left over and hand out what stays; a stop clears.
4. `ProjectLifecycle`. Theorems: type correctness, no progress shown without a
   worker, an initialized project complete, an update kept.
5. The web client, from its connections up: `PlatformClient` (theorems: handlers
   fed once, disposed streams silent, requests not forgotten), `Session` (a tab acts as
   its user, redirections end, whoever signs in is brought back), `ContextLoading` (a
   page has its data), `RecordViews` (no loader for nothing, a page at rest shows its
   tab, cards are handed the latest), `ModuleFiles` (the form and the panel have the
   files), `EntityForms` (the button justified, duplicates shown, requests sent once),
   `ItemCollections` (a way out, nothing else bad), `Choices` with `LauncherDialogs`
   (a settled dialog and the version of a build are of the project chosen).
6. Next: the four sweeps of `handleRestart` in their order and the deletion of a
   project under its builds, as a composition of the lifecycles; the uploads of a
   build and the emitter they share; assemblies on top of `OpenShiftAgent`, by
   refinement; what a watcher sees of projects and of modules, as `AssemblyStates` says it
   of assemblies, proved from the invariants there are (`OnCourse`, `TruthInv`).

Runs stay below some seven million states; proofs follow a module once TLC agrees
with its invariant.

## 3. Modules

| module | models | state and code |
|---|---|---|
| `AssemblyLifecycle` | the life of assemblies in the panel | `assemblies`: the repository. `task`, `copy`: where each attempt's task or stream stands and the record it will put. `subscriptions` stands for the maps of `ProjectAssemblyService`, `canceled` for disposed streams, `destroyers` for pending `destroyAgent` tasks by the line they are at, `pods` for OpenShift, `call` for the threads that serve users and for `handleRestart` |
| `AssemblyStates` | what an observer of one undisturbed assembly sees | `view`: its state, absent or disturbed |
| `ModuleLifecycle` | the life of modules in the panel and at the agent | `modules`: the repository. `operations`, `agent`: the two sides of each operation. `handed`: copies a client has still to send back. `batch`: how far `updateModulesVersion` has got with each module of its request. `manager`: are the project and the resource still there? `deployments`: OpenShift. `sweep`, `found`: `failChangingModules` |
| `OpenShiftAgent` | start and stop of one agent | `pc`, `seen`: each call by the request it makes next. `lock`: `STARTING_LOCK`. `pod`, `service`: OpenShift. `reusable`: the agent's configuration |
| `ProjectLifecycle` | the life of projects in the panel | `projects`: the repository. `run`: where each initialization or reload stands, the project its agent was handed and the one it is about to put; `found`: how many parts the agent has sent. `call`: the threads that serve users. `resource`: is the OpenShift resource still there? `sweep`, `stuck`: `failStuckProjects` |
| `PlatformClient` | the connections of one page | `status`, `first`, `retries`, `listening`, `socket`: each client, tries counted. `doomed`: sockets whose server has stopped, as yet unnoticed. `feeds`: subscriptions of each stream's handler. `page`: what `index.ts` shows |
| `ModuleFiles` | from the file loader of a form to the processed module | `loaded`, `current`, `reads`: `loadedFiles`, `currentFiles` and the readers. `stage`, `waiting`, `ids`, `transfers`: the service behind the button. `content`: `FileService` of the panel |
| `RecordViews` | a page that lists assemblies, modules or configurations | `db`, `gone`: the panel. `wire`, `resolving`: events on the socket, and in `StreamsActivator`. `queries`: requests of the page, in their order. `cards`: what each card was made with, holds and reads. `panels`, `expanded`: the panels of modules drawn last, and those the page remembers as open. `started`: the order of assemblies, of which the page asks for `MaxListed` |
| `ContextLoading` | the data of a page | `context`: state, screen, synchronizer, and the loads on their way, with the round they count for |
| `EntityForms` | every form with names | one machine; `Rules` gives each form its fields, what it validates and what opening, sending and closing it do |
| `ItemCollections` | seven kinds of collection, and the labels of the network page | `ids`, `key`, `error`: the items; `blocked`, `exclusion`: `additionDisabled`, `editingDisabled`; `disabled`: what each item was told; `checking`: `deletionDisabled`, while a check of the network is under way |
| `Choices` | selector and searcher | pure operators on records of what is shown and what is read |
| `LauncherDialogs` | the two dialogs that act on a chosen project | `asked`: requests on the way; `answered`: whose configuration or artifacts are held; `version`, `search`, `panels`: the widgets |
| `Session` | signing in and out of tabs | `cookie`; by tab `user`, `path`, `shown`, `referer`, `loading`, `signing`, `request`, `events`; `valid`: tokens not expired; of the users' records `held`, the number of the token, and `rights`; `editing`: the copy in the dialog of rights |
| `AssemblyLifecycleProofs`, `ModuleLifecycleProofs`, `ProjectLifecycleProofs`, `OpenShiftAgentProofs` | theorems of the module they are named after, and of `AssemblyStates` | |
| `ClientAndCollectionsProofs` | theorems of `PlatformClient` and `ItemCollections` | |
| `SessionAndContextProofs` | theorems of `Session` and `ContextLoading` | |
| `RecordsAndFormsProofs` | theorems of `RecordViews` and `EntityForms` | |
| `LaunchersAndFilesProofs` | theorems of `Choices`, `LauncherDialogs` and `ModuleFiles` | |
| `MC…` | instances for TLC | |

Where two modules share a module of proofs, the names of one are its own (`ItemsSpec`,
`ContextSpec`, `FormSpec`, `FilesSpec` for `Spec`, and so on).

In the web client an action is one callback or one handler, run to its end with
all the renders and notifications it sets off.

A read or a write of a repository, and a request to OpenShift, is one atomic step;
nothing between two of them is. A handler that reads and later writes is two actions,
with what it read kept in between. An attempt is numbered, so that the record says whose
log and timestamps it carries; artifacts are a Boolean; the configuration of a module is
a version; what an agent finds in a project is the number of parts it has sent, of
technologies, versions and artifacts. All requests to build are for one version of one
project, and `Requested` gives the artifacts each asks for.

Some variables are history: they record what the properties have to except and no action
reads them in a guard. `disturbed` marks an assembly cancelled, or rebuilt while its
last attempt was not over, until the next quiet rebuild, and a module whose operations
overlapped, wrote back what was no longer stored or acted on another state than was
clicked on, or that `updateModulesVersion` left half way. In `ProjectLifecycle` it says
which of three happened: runs that overlapped, a stale record put back, each until the
next reload that does neither, or a call that threw when it had put the project, until a
restart; `Forsaken` are the projects of the last two, which may show progress for
nothing, `Muddled` those of the first two, which may lack parts. `thrown` says the same
of a module, and of those found changing by a restart that ended before it came to sweep
them; `forsaken` are the assemblies such a restart left running. `wanted` holds the
settings of the last update that nobody held an older copy to overwrite with. `leaked`
marks pods that a crash, or a refusal of OpenShift to stop them, left behind: no code
would stop them. In `OpenShiftAgent`, `overlapped`, `answers`, `cleared` and
`unexplained` mark calls beside one of the other kind, what was handed out, what a stop
left and starts that failed without a cause. In the web client they mark what falls
short in the code itself, so that a property can except it: `early` and `alone` (streams
disposed before they were connected, or whose socket broke alone), `late`, `unseen` and
`failed` (`failed` also bounds the errors to one), `disturbed` (loads that overlapped,
files that went while they were read), `meddled` (tabs beside another that signed in or
out), `sound` and `released` (a collection opened with valid items; an item a check of
the network has forgotten), and in `RecordViews` the operator `Moved` (a module moved to
another version); or they say when a property is due: `current`, `settled`, `recent`,
`asked`, `sent`.

Definitions headed "Slip" are plausible mistakes in a definition; each is used to
see that some property notices it, and by no specification.

## 4. What is checked

| run | instance | properties | states |
|---|---|---|---|
| `assembly` | fair; 1 caller; 1 assembly, all calls, faults and 1 crash, or 1 rebuild; 2 assemblies, one superseding the other, deletions and 1 crash | `PodHasKeeper`, `RunningHasWorker`, `RecordIsNewest`, `DoneHasArtifacts`, `EarlyCancelHolds`, `PodsStopped`, `FollowsAssemblyStates` | 0.5 M |
| `module` | fair; 1 caller; 1 module, 3 operations, or 2 and 1 crash; 2 modules in 1 request | `ChangingHasWorker`, `RecordIsTrue`, `ChangeEnds` | 0.4 M |
| `project` | fair; 1 caller, 2 runs, 1 update, 1 crash, 1 deletion of the resource | `StuckHasWorker`, `InitializedIsComplete`, `SettingsKept`, `StuckEnds` | 0.9 M |
| `agent` | fair; both kinds of agent, 3 threads, 3 starts, 2 stops, 1 crash, faults | `StartsSucceed`, `AnswersStand`, `StopClears`, `CallsEnd` | 0.3 M |
| `client_connection` | fair; 1 stream, 1 request, 2 tries at once, 2 stops, 1 broken socket | `HandlerFedOnce`, `DisposedIsSilent`, `PageReturns`, `LostStreamsEnd` | 22 k |
| `module_files` | fair; 3 services, 3 picks of 2 names, 1 removal | `FormHoldsFiles`, `ProcessedIsStored`, `SubmittedEnds` | 0.1 M |
| `records_view` | 3 pages, 2 projects, 2 records of which 1 assembly is asked for, 3 changes and clicks, 1 failure | `LoaderHasQuery`, `QuietShowsTab`, `LoadedCardsHandedLatest` | 6.6 M |
| `context_loading` | fair; 7 pages, loads up to 3 times at once, 5 clicks, 1 failure | `PageHasData`, `LoaderGivesWay` | 0.2 M |
| `entity_forms` | every form, 2 late clicks | `ButtonIsJustified`, `DuplicateIsShown`, `SentOnce` | 92 k |
| `item_collections` | 7 kinds and the labels of the network page, 4 items | `BlockedHasWayOut`, `OnlyExclusionIsBad` | 0.2 M |
| `launcher_dialogs` | 3 projects, 3 answers on the way | `SettledIsOfProject`, `VersionIsOfProject` | 12 k |
| `session` | 2 tabs, 2 users, 1 expiry, 1 change of rights, 1 project added | `ActsAsShown`, `RedirectionsEnd`, `BackToAsked` | 1.0 M |

*Assemblies.* `PodHasKeeper`: whatever overlaps, an existing pod has an attempt or a
destroy task that will stop it; `PodsStopped` that they get there. `RunningHasWorker`:
no record is left running for ever, except one that a caller disturbed, and after a
crash the sweep holds it. The sweep of the code throws when an assembly is deleted
between its list and its turn: the rest of the list is then left running, which the
second assembly of the instance shows, and is excepted (`forsaken`). `RecordIsNewest`:
no late write of an old attempt lands on a quietly rebuilt assembly. `EarlyCancelHolds`:
a cancellation stored before the task's second look keeps the agent unconnected.
`FollowsAssemblyStates`: the refinement of `AssemblyStates`, its liveness included.

*Modules.* `ChangingHasWorker` is the property of the overlapping operations: each
handler leaves alone a state not its own, and this is why no state is then left alone by
all. Two things in the code leave a module changing with nobody at work (`thrown`): a
call puts it and then throws, in `createModuleManager` or `getProject`, or its task
throws before its `try` (`ModuleManagementService.kt` 29), when the project or resource
was deleted; and a restart whose sweep of the assemblies threw does not come to the
modules. `RecordIsTrue` compares the record with OpenShift at rest. `disturbed` excepts
what overlapped; a call that acts on what the module has become since the click (a
restart clicked before an update failed shows the old version as the new one); and
`updateModulesVersion`, which puts the new version of every module of the request before
it processes any: an artifact that was not assembled, or the first module without a
resource, ends it half way, with versions that OpenShift never got. Until they are
processed `Processing` excepts them too. `ChangeEnds` holds with an agent that never
answers, by the panel's timeout alone.

*Projects.* A card that shows progress has no button, so a project left there is lost to
its users until a restart. `StuckHasWorker`: reloads, deletions, events and crashes
never leave one there, however they overlap; an update that puts back a passing state it
read does, and so does a call that throws after its put, because the OpenShift resource
was deleted; both are excepted (`Forsaken`), the second until a restart.
`InitializedIsComplete`: the record says INITIALIZED only with what the last run found,
except after runs that overlapped, where the completion of one finds the record another
has cleared, or a stale put (`Muddled`). `SettingsKept`: an update is undone only by a
run that already held a copy of the project. `StuckEnds`: progress ends, by the timeout
of the stream if by nothing else, with the same exceptions as `StuckHasWorker`.

*Agents.* `StartsSucceed`: from any leftover of starts, stops and crashes, a start
beside no stop fails only for OpenShift's own reasons. `AnswersStand`: what a start
handed out is still there, whatever other starts did since. `StopClears`: a stop
beside no start leaves nothing but a pod that outlives the wait.

*Connections.* `HandlerFedOnce`: however many tries overlap, the handler of a
stream has one subscription; the first that succeeds reloads the page, and none
subscribes again. `DisposedIsSilent`: except a stream disposed before it was
connected, whose disposer finds nothing to close. `PageReturns`: the page is shown
again whenever the server stays up. `LostStreamsEnd`: a stream lost with the server
is not left shown as if it were fed; one whose socket broke alone is.

*Files.* `FormHoldsFiles`: once all readers have ended, the form holds the files
left in it, each with its own bytes, unless a file went while it was read.
`ProcessedIsStored`: the panel is asked to process a module only when the bytes of
every file are stored under the id it names. `SubmittedEnds`: every submission ends,
unless the panel refuses it or a transfer is lost.

*Pages.* `LoaderHasQuery` and `QuietShowsTab` relate the loader and the cards to
requests and events that cross; `late`, `unseen` and `failed` say where the code
falls short: an older answer applied last, a record changed before the stream was
registered, an error. What a quiet page shows is what it asks for and draws: of assemblies
the `MAX_ASSEMBLIES` started last (30, one of two here), of modules those whose version
is among the project's, in the panel of that version; the others are in its list and in no
panel. A module that an update moved to another version is excepted (`Moved`): the page asks
again only when modules come or go. `LoadedCardsHandedLatest` is about what a card was
handed. That it shows it is not so: the answer to its own reading may overwrite it. Events
that pass while the loader is shown, or the panel of its version is closed, it never hears
(`astray`).

*Contexts.* `PageHasData`: unless loads overlapped, a page is drawn with all its
data. `LoaderGivesWay`: even when they did, the loader goes, unless a request failed.

*Forms.* `ButtonIsJustified`, `DuplicateIsShown`, `SentOnce` are about the list of
names and the late click of Enter. `SentOnce` holds although the button is enabled
while the request is under way, since closing the dialog removes it.

*Collections and launchers.* `BlockedHasWayOut` and `OnlyExclusionIsBad`: the three
places in which a blocked collection keeps its state agree, whatever was added,
edited and deleted. On the network page a check disables additions and deletions from
outside and enables additions when it ends, also of a collection blocked before: what the
exclusion was is kept, but the next item may be added or edited beside it (`released`), and
with that two items may be bad, which `OnlyExclusionIsBad` excepts and `BlockedHasWayOut`
does not. `SettledIsOfProject`, `VersionIsOfProject`: switching projects
leaves nothing of the one before, once the last request is answered.

*Session.* `ActsAsShown` excepts tabs that another tab meddled with: they show one user
and act as another until they load. A refused request signs the tab out only if it had
no token, or one that has expired and is still in the record: of a token that was
replaced, or written over by the dialog of rights, no user is found, which fails the
request otherwise and is only notified (`Unauthorized`). A tab hears of its rights when
it loads or signs in, and by the event of a project it added; the dialog that changes
them tells no tab. It has no box for the default action, so that in the instance no user
is without it; what then becomes of redirections is only in the theorems' exception.
`BackToAsked` is about every step that makes a user known.

**Bounds.** `MaxAttempts` 2 gives an attempt and the one that replaces it, the only pair
whose tasks meet. `MaxDestroyers` 1 bounds destroy tasks a cancellation may add to
pending ones; handlers are not bounded by it. The one caller meets the tasks of the
panel, which are as concurrent as other callers. `FaultsOrRebuilds` explores crashes,
refused stops and deletions for a single attempt, and second attempts without them;
`SecondIsPlain` lets a second assembly be built over the first, both be deleted and the
panel crash, which is what its sweep throws in. `OneInstalledOrBothRun` starts either
with no module, and follows one, whose third operation, there to overlap the late work
of another and repair it, comes without a crash, an exception or a request for many; or
with two that run, which one request updates. Beyond it, two callers with two operations
(4.7 M states) and, by simulation, with three (78 M states visited) showed no error. Two
runs of a project beside a crash are one lost and one that meets the sweep. Three
threads give a holder of the lock, one who waits and a stop. One crash covers recovery,
and recovery beside new calls.

Two tries at once are a try and one that overtakes it; two stops are one that the reload
survives. Three picks of two names replace a file and add another. In `records_view`
every pair of requests, events and readings crosses; one of two records is of a version
its project lacks, and moves to one it has; `ThreeSteps` leaves out four changes and
clicks together. `MaxCopies` 3 of a load are the one counted, one before and one after.
The forms have no bound but the late clicks, the collections the number of items: two to
compare and one to be the third. Five switches with three answers on the way return to a
project while its old answer is still to come. Deadlock is not checked: with its bounds
used up, a system that is at rest stops.

**Fairness.** `FairSpec` (`ContextFairSpec`, `FilesFairSpec`) asks weak fairness of the
panel's executor threads (every queued task and every served call runs on), of a
stream's end (by completion or by the timeout `AgentClient` puts on it; strong fairness
for assemblies and projects, since events keep interrupting it), and in `OpenShiftAgent`
of the pods that OpenShift starts and removes. In the web client it asks it of what the
browser does by itself: tries end, timers tick, a reload happens, closed sockets are
noticed; of the answers of a panel that is up; and in `PlatformClient` that a stopped
server starts again. `MCSpec` and `BoundedFairSpec` state the same for the operations
and attempts that the bounds let begin. Users owe no call, clients no second half,
agents of modules and projects no answer, faults no occurrence.

## 5. What is proved

`tlapm` checks the proofs. They assume the `…Assumption` of each module on its constants
(bounds are natural numbers, special values are no ordinary ones), only, so the results
hold for any set of assemblies, modules, callers, threads, tabs or users, for any of the
pages, forms and kinds of collection the code has, and for any bounds. Every invariant a
run checks is proved, and every action property.

* `AssemblyLifecycleProofs!TypeCorrect`: `Spec => []TypeOK`. `TypeOK` includes
  `WellFormed`: a call that will write back a record holds one. It is inductive.
* `AssemblyLifecycleProofs!PodsAreKept`: `Spec => []PodHasKeeper`. The property is
  not inductive: a destroy task that cancels the registered stream could take the
  keeper from a pod another attempt owns. `KeeperInv` adds `Unstarted` (attempts
  beyond the count have not begun) and `CutWereConnected` (a cancelled stream, and a
  registered subscription, belongs to an attempt that got that far). With them: a
  task leaves its keeping phases only for one that spawns a destroyer or stops the pod
  itself, and `DestroyCancel` is itself on its way to stop it.
* `AssemblyLifecycleProofs!NewestIsStored`, `DoneIsWhole`: `RecordIsNewest` and
  `DoneHasArtifacts`, from `CourseInv`. Of an undisturbed assembly only the newest
  attempt is at work (`AtWork`); its record is running or deleted, no destroy task is
  about to cut it, and what it read, and is to put, fits its phase (`Working`,
  `Fits`). A rebuild is undisturbed only when all that has ended.
* `AssemblyLifecycleProofs!EarlyCancelStays`: `EarlyCancelHolds`. After a
  cancellation in time the record is cancelled or deleted, and the first attempt only
  passes phases that put nothing.
* `AssemblyLifecycleProofs!RunningIsAttended`: `RunningHasWorker`, on top of
  `CourseInv`, for any number of assemblies and deletions. `Sweeping` says where the sweep
  of a restart can be, and `Swept` which assemblies it is still to come to: a running one
  without an attempt at work is one of these, or `forsaken`, since `cancelAssembly` threw
  for an assembly before it in the list.
* `AssemblyLifecycleProofs!StatesAreFollowed`: `Spec => Abstract!SafeSpec`, the
  refinement of `AssemblyStates` step by step: each step of the panel is one of a
  watcher's, for one assembly, or changes nothing that is seen. On top of `CourseInv`,
  `OnView` says which state the record of an undisturbed assembly can be in at each
  phase of its newest attempt and what may be put next; that `AssemblyStates` also
  promises an end is liveness and left to `FollowsAssemblyStates`.
* `ModuleLifecycleProofs!TypeCorrect` and `ChangeIsAttended`: `TypeOK` and
  `ChangingHasWorker`, from one invariant. It adds `Held`: an operation about to
  announce holds a record in its own working state, and one about to end holds one at
  rest, so that no put of a stale copy makes a change that nobody attends to; and
  `Attended` says for each module whose turn it is, the operation whose kind and phase
  fit the state, the client that has the second half of the call to send, or the
  sweep, or that a call, a task or the restart threw (`thrown`). A handler that does not
  recognise a state leaves the module to the one that does.
* `ModuleLifecycleProofs!RecordTellsTruth`: `RecordIsTrue`, for any number of callers
  and of modules in a request. `TruthInv` says of an undisturbed module that one
  operation at most is at work; that what it will put, and what has become of the
  deployment, are its own (`OwnCopy`, `Agrees`); that none is at work when the record is
  at rest, which then tells the deployment (`Tells`). What a call puts starts an
  operation or disturbs the module; what `updateModulesVersion` puts is not `Settled`
  until it is processed, and disturbed if it never is.
* `OpenShiftAgentProofs!LockExcludes`: `Spec => []StartsExclude`. Its invariant adds
  `Places`, that a thread is at a known place, from which every end of a start is
  seen to give the lock up and no stop to hold it.
* `OpenShiftAgentProofs!StartsRepair`, `HandedOutStays`, `StopLeavesNothing`:
  `StartsSucceed`, `AnswersStand` and `StopClears`, together, on top of the exclusion.
  None is inductive. `Course` says what a call at each of its places knows of the pod
  and of the service when no call of the other kind ran beside it: after the wait for a
  pod's deletion it is gone or slow, after the look at the service there is none.
  `Apart` says that a start and a stop under way at once have both been marked;
  `AnswersHeld`, that an agent that was handed out meets only starts that are going to
  hand it out again. A start beyond the lock then has beside it only starts that wait,
  and stops that have marked it.
* `ProjectLifecycleProofs!TypeCorrect`: `Spec => []TypeOK`, where `TypeOK` says of
  each phase of a run, by `HeldRuns`, which projects it holds, and that an outcome
  about to be put is at rest.
* `ProjectLifecycleProofs!StuckIsAttended`: `Spec => []StuckHasWorker`, inductive
  together with `TypeOK`: a run leaves its living phases only by putting an outcome,
  which is at rest, or on finding no project; a crash leaves the sweep to read, and
  the sweep takes on all that is stuck before it counts as having read. A project whose
  call threw after its put is excepted, until a restart takes it on with the rest.
* `ProjectLifecycleProofs!InitializedHasAll`, `UpdateIsKept`: `InitializedIsComplete`
  and `SettingsKept`, from one invariant, `Whole`, in three parts. `Begun`: runs begin
  one after the other. `Kept`: while an update is wanted, the stored project, the one
  the sweep holds, and every copy a run has still to put (`Carries`) have its settings.
  `OnCourse`: of an undisturbed project only the last run is live, and it agrees with
  the stored project about the parts found and the run they are of (`Agrees`).
* `ClientAndCollectionsProofs!FedOnce`, `Silent`, `NoneIsForgotten`: `HandlerFedOnce`,
  `DisposedIsSilent` and `PendingHasSocket`, from one invariant. It adds `Fed`, that a
  stream whose first connection is under way, or that was never opened, has no
  subscription yet, and `Early`, that a stream disposed while it waits for that
  connection is one of those disposed early. Further connections never subscribe;
  if they did, a second success would feed the handler again.
* `ClientAndCollectionsProofs!BlockedCollectionsHaveAWayOut`, `OnlyTheExclusionIsBad`:
  `BlockedHasWayOut` and `OnlyExclusionIsBad`. An operation goes through several
  collections, so lemmas say of each what it makes of one (`ValidateGives`,
  `AddItemGives`), and `ChangeKeepsGood` is the argument: a validation compares the
  others with the item that changed only, and this is enough because they were good
  already. A check of the network changes the flags of a collection and none of its
  items: what it may forget is the exclusion, and then `released` says so. What a
  collection opens with is a recursive function of its items; that it has its equation,
  and a way out at each number of items, follows from the least number for which it
  would not.
* `RecordsAndFormsProofs!LoaderIsJustified`: `Spec => []LoaderHasQuery`, inductive with
  the types of requests. An answer to a silent request leaves the others, one to a
  request aloud removes the loader or asks again aloud; the lemmas on sequences say
  what is left when a request goes.
* `RecordsAndFormsProofs!QuietPageShowsTab`: `QuietShowsTab`, which speaks of a page at
  rest and so needs what will make it right before that. `ListInv`: an event that makes
  the page ask again is still to come, or a request that leads to another, or the last
  request has, or will be given, a list that fits what is wanted within the limit
  (`Followed`, `Fits`); cards are there for exactly what was listed (`Carded`), and
  panels for the versions of it that the project has (`Panelled`).
* `RecordsAndFormsProofs!LoadedCardsAreLatest`: `LoadedCardsHandedLatest`. `LatestInv`
  follows the newest event of each record from the wire through `StreamsActivator` to
  the card: on the wire none comes after it (`Ordered`), and a card that was not handed the
  latest has it still to come, or was hidden as it passed (`UpToDate`).
* `RecordsAndFormsProofs!FormsAreInOrder`, `DuplicatesAreShown`, `RequestsAreSentOnce`:
  `ButtonIsJustified`, `DuplicateIsShown` and `SentOnce`, for each form of `Rules`. The
  answer to a request enables the button of a page whatever the page holds, so the
  invariant keeps that page in order while it waits (`PageWaits`); a dialog that has
  sent is closed, its name blank and its button disabled, which is what a late Enter
  finds (`DialogIsSpent`).
* `SessionAndContextProofs!TabActsAsItsUser`: `Spec => []ActsAsShown`. The answer to the
  token a tab was loaded with makes its user known, so the invariant says of a tab that
  is loading that it shows nothing else, has no update waiting, and that its token is
  still the cookie unless another tab meddled (`WhileLoading`); and that updates of
  rights wait only in tabs that have a user (`UpdatesHaveUser`).
* `SessionAndContextProofs!RedirectionsComeToAnEnd`, `SignedInIsBroughtBack`:
  `RedirectionsEnd`, and the action property `BackToAsked`. A tab ends at a blank page
  only when its user may not see the default one; what a tab without a user keeps in
  mind is what it was last asked for, which one that is loading knows by its path alone
  (`LoadsWhatIsAsked`, `KeepsWhatIsAsked`).
* `SessionAndContextProofs!PageIsDrawnWithItsData`: `PageHasData`. While loads do not
  overlap, each loader has one load, which lacks exactly what is left of it
  (`UnderWay`), and the counter of the synchronizer does not exceed the number of
  loaders that are done (`CountsDone`); one that has reached them all has counted each.
* `LaunchersAndFilesProofs!DialogSettles`, `BuildHasVersion`: `SettledIsOfProject` and
  `VersionIsOfProject`. The first lemmas are about the operators of `Choices`: after
  each of them what is selected is one of what is available. The invariant adds that
  only a request for the project chosen is marked as the last.
* `LaunchersAndFilesProofs!FormHoldsWhatIsPicked`: `FormHoldsFiles`. Buffers are filled
  by name, by readers that end in any order: the invariant says which are still empty,
  that a name is listed once, and that no reader is left for a file that is gone.
* `LaunchersAndFilesProofs!ProcessedModulesHaveTheirFiles`: `ProcessedIsStored`. Ids
  come in any order and transfers end in any order; `ServiceInv` follows each file from
  the request for its id (`IdsCome`) to its transfer or the content of the panel
  (`FilesArrive`), which is as it was until then (`PanelIsUntouched`).

Only model-checked: the liveness properties `PodsStopped`, `ChangeEnds`, `StuckEnds`,
`CallsEnd`, `PageReturns`, `LostStreamsEnd`, `SubmittedEnds`, `LoaderGivesWay` and the
liveness of `FollowsAssemblyStates` (fairness and ENABLED are out of the prover's
reach). No module uses RECURSIVE operators. No theorem needs induction over data by the
library's rules: where a recursive function, or a sequence, has to be gone through, a
least counterexample is taken and refuted (`Least`).

## 6. What is not modelled

Repositories that fail, and `createProjectBuilder` throwing after an assembly was put as
STARTED, because its resource was deleted (of projects and modules the same is modelled).
The four sweeps of a restart in one try, but for what the sweep of the assemblies leaves
undone. Two clients that register one name at once, of modules, users, projects or
resources; two assemblies for the same artifacts. Load tests, which have the shape of
assemblies without a sweep. Texts, logs and their formatting. The credits of
`chunked`: the subscriber asks for everything, so they hold no event back. Routes and
roles of agents. The cache of agent connections. Two users who add a project at once, and
users that are deleted: `addProject` reads the user and puts it back with the project.

Of the web client: rendering, styles and texts; the time a panel takes to close, in
which its cards still hear events; projects and versions that come or go under the page
of modules; filters by module and by state; the configurators, which copy fields into a
configuration as they change; the list of users, logs and load tests; payloads.
`PROJECT.json` gives the reason for each part that is left out.

## Running

    tlc -workers 2 -config assembly.cfg MCAssemblyLifecycle
    tlc -workers 2 -config records_view.cfg MCRecordViews
    tlapm AssemblyLifecycleProofs.tla
