-------------------------- MODULE ProjectLifecycle --------------------------
(***************************************************************************)
(* The life of a project in the management panel: ProjectService takes the *)
(* calls that the cards of the web panel offer, ProjectInitializationService*)
(* has an agent find out what the project holds, and failStuckProjects     *)
(* sweeps what a restarted panel finds half done.                          *)
(*                                                                         *)
(* Covered: users who act on what a card showed while others do the same;  *)
(* each call and each handler at the granularity of one repository read or *)
(* write; events of the agent, each of which carries a whole project;      *)
(* failures of the start and of the stream; the OpenShift resource of a    *)
(* project deleted, so that a call throws when it has already put the      *)
(* project; a crash at any moment.                                         *)
(*                                                                         *)
(* Left out: names (taken to differ); the assemblies and modules deleted   *)
(* with a project; failures of the repository itself; AutomationService,   *)
(* whose only caller is commented out.                                     *)
(*                                                                         *)
(* Definitions headed "Slip" are plausible mistakes in the definition that *)
(* follows them; no specification uses them.                               *)
(***************************************************************************)
EXTENDS Naturals

CONSTANTS
  Ids,         \* the projects that are ever added
  Settings,    \* what an update sets: name, OpenShift and notifications configuration
  Callers,     \* threads that serve the calls of users
  MaxRuns,     \* bound: initializations and reloads of one project
  MaxUpdates,  \* bound: updates of one project
  MaxCrashes,  \* bound: crashes of the panel
  Absent       \* no record; no known settings

ASSUME ConstantsAssumption ==
  /\ MaxRuns \in Nat \ {0}
  /\ MaxUpdates \in Nat /\ MaxCrashes \in Nat
  /\ Absent \notin Ids \cup Settings

Runs == 1 .. MaxRuns

RestStates == {"INITIALIZED", "INITIALIZATION_FAILED"}
StuckStates == {"CREATED", "RELOAD_STARTED", "RELOADING"}

\* What the agent finds: technologies, then versions, then artifacts.
AllParts == 3

\* A stored project: whose run cleared it last, and how many parts it has since.
Record == [state : RestStates \cup StuckStates, settings : Settings,
           run : Runs, parts : 0 .. AllParts]
NoRecord == Record \cup {Absent}

ASSUME AbsentAssumption == Absent \notin Record

Buttons == {"reload", "update", "delete"}
Menu == [INITIALIZED |-> {"reload", "update", "delete"},
         INITIALIZATION_FAILED |-> {"reload", "delete"}]

\* Where a run stands; its project as the agent was handed it (base) or, while
\* the panel is about to put one, as it will be put (copy).
Phases == {"none", "added", "reloaded", "reloadingPut", "starting", "streaming", "eventPut",
           "completePut", "failing", "failPut", "done"}
Run == [phase : Phases, base : NoRecord, copy : NoRecord]
NoRun == [phase |-> "none", base |-> Absent, copy |-> Absent]

Calls == [pc : {"idle", "clicked", "put"}, id : Ids \cup {Absent},
          button : Buttons \cup {Absent}, copy : NoRecord]
Idle == [pc |-> "idle", id |-> Absent, button |-> Absent, copy |-> Absent]

VARIABLES
  projects,   \* the repository: [Ids -> NoRecord]
  runs,       \* number of runs started for each project
  run,        \* [Ids -> [Runs -> Run]]
  found,      \* parts of each run's project the agent has sent so far
  call,       \* what each thread is serving
  updates,    \* updates of each project so far
  sweep,      \* where failStuckProjects stands: "idle", "read" or "put"
  stuck,      \* [Ids -> NoRecord]: the stuck projects it read and has yet to write
  crashes,    \* crashes so far
  disturbed,  \* history: "overlap", runs overlapped; "stale", a stale record was put;
              \* "thrown", put by a call that threw then, and no restart since
  wanted,     \* history: the settings last put, when nobody held an older copy to put
  resource    \* is the resource that a project is to be initialized with still there?

recovery == <<sweep, stuck, crashes>>
vars == <<projects, runs, run, found, call, updates, recovery, disturbed, wanted, resource>>

WithState(record, state) == [record EXCEPT !.state = state]

-----------------------------------------------------------------------------
Init ==
  /\ projects = [id \in Ids |-> Absent]
  /\ runs = [id \in Ids |-> 0]
  /\ run = [id \in Ids |-> [n \in Runs |-> NoRun]]
  /\ found = [id \in Ids |-> [n \in Runs |-> 0]]
  /\ call = [t \in Callers |-> Idle]
  /\ updates = [id \in Ids |-> 0]
  /\ sweep = "idle"
  /\ stuck = [id \in Ids |-> Absent]
  /\ crashes = 0
  /\ disturbed = [id \in Ids |-> {}]
  /\ wanted = [id \in Ids |-> Absent]
  /\ resource = [id \in Ids |-> TRUE]

-----------------------------------------------------------------------------
Is(id, n, phases) == run[id][n].phase \in phases
Live(id, n) == ~ Is(id, n, {"none", "done"})

\* The run will put a project that it or its agent got hold of earlier: the one
\* of its call, an event's, or one it has read and not yet written.
HoldsCopy(id, n) ==
  \/ Is(id, n, {"reloaded", "reloadingPut", "starting", "eventPut", "completePut", "failPut"})
  \/ Is(id, n, {"streaming"}) /\ found[id][n] < AllParts

Put(id, record) == projects' = [projects EXCEPT ![id] = record]

\* createProjectInitializer looks the resource up, when the project is already put:
\* without it the call throws there, and its run never begins.
Launch(id, n, phase, base) ==
  /\ runs' = [runs EXCEPT ![id] = n]
  /\ run' = [run EXCEPT ![id][n] =
       [phase |-> IF resource[id] THEN phase ELSE "done", base |-> base, copy |-> Absent]]
Thrown(id) == IF resource[id] THEN {} ELSE {"thrown"}

-----------------------------------------------------------------------------
(* Calls of ProjectService.                                                *)

Serve(t, c) == call' = [call EXCEPT ![t] = c]

\* addProject puts the project and has it initialized.
CallAdd(id, settings) ==
  /\ runs[id] = 0
  /\ Put(id, [state |-> "CREATED", settings |-> settings, run |-> 1, parts |-> 0])
  /\ Launch(id, 1, "added", Absent)
  /\ wanted' = [wanted EXCEPT ![id] = settings]
  /\ disturbed' = [disturbed EXCEPT ![id] = Thrown(id)]
  /\ UNCHANGED <<found, call, updates, recovery, resource>>

\* A user deletes the resource on the page of resources, whoever refers to it.
DeleteResource(id) ==
  /\ resource[id]
  /\ resource' = [resource EXCEPT ![id] = FALSE]
  /\ UNCHANGED <<projects, runs, run, found, call, updates, recovery, disturbed, wanted>>

\* A user opens a dialog of a card, or clicks a button, in the state it shows.
Click(t, id, button) ==
  /\ call[t] = Idle
  /\ projects[id] # Absent
  /\ projects[id].state \in DOMAIN Menu /\ button \in Menu[projects[id].state]
  /\ Serve(t, [Idle EXCEPT !.pc = "clicked", !.id = id, !.button = button])
  /\ UNCHANGED <<projects, runs, run, found, updates, recovery, disturbed, wanted, resource>>

\* reloadProject and updateProject read the project, whatever it is by now.
CallRead(t) ==
  LET record == projects[call[t].id]
  IN /\ call[t].pc = "clicked" /\ call[t].button # "delete"
     /\ Serve(t, IF record = Absent THEN Idle ELSE [call[t] EXCEPT !.pc = "put", !.copy = record])
     /\ UNCHANGED <<projects, runs, run, found, updates, recovery, disturbed, wanted, resource>>

CallDelete(t) ==
  /\ call[t].pc = "clicked" /\ call[t].button = "delete"
  /\ Put(call[t].id, Absent)
  /\ Serve(t, Idle)
  /\ UNCHANGED <<runs, run, found, updates, recovery, disturbed, wanted, resource>>

\* The record read goes back cleared, and a run is launched with it.  Guarded by
\* the bound MaxRuns.
CallReload(t) ==
  LET c == call[t]
      id == c.id
      n == runs[id] + 1
      cleared == [state |-> "RELOAD_STARTED", settings |-> c.copy.settings,
                  run |-> n, parts |-> 0]
      overlap == \E m \in Runs : Live(id, m)
      stale == projects[id] # c.copy
  IN /\ c.pc = "put" /\ c.button = "reload"
     /\ n \in Runs
     /\ Put(id, cleared)
     /\ Launch(id, n, "reloaded", cleared)
     /\ Serve(t, Idle)
     /\ disturbed' = [disturbed EXCEPT ![id] = (IF overlap THEN {"overlap"} ELSE {})
                                        \cup (IF stale THEN {"stale"} ELSE {})
                                        \cup Thrown(id)]
     /\ wanted' = [wanted EXCEPT ![id] = IF stale THEN Absent ELSE @]
     /\ UNCHANGED <<found, updates, recovery, resource>>

\* Guarded by the bound MaxUpdates.
CallUpdate(t, settings) ==
  LET c == call[t]
      id == c.id
      stale == projects[id] # c.copy
      held == (\E n \in Runs : HoldsCopy(id, n)) \/ stuck[id] # Absent
  IN /\ c.pc = "put" /\ c.button = "update"
     /\ updates[id] < MaxUpdates
     /\ updates' = [updates EXCEPT ![id] = @ + 1]
     /\ Put(id, [c.copy EXCEPT !.settings = settings])
     /\ Serve(t, Idle)
     /\ disturbed' = [disturbed EXCEPT ![id] = IF stale THEN @ \cup {"stale"} ELSE @]
     /\ wanted' = [wanted EXCEPT ![id] = IF held THEN Absent ELSE settings]
     /\ UNCHANGED <<runs, run, found, recovery, resource>>

-----------------------------------------------------------------------------
(* ProjectInitializationService: the task and the stream of a run.         *)

Goto(id, n, phase, base, copy) ==
  run' = [run EXCEPT ![id][n] = [phase |-> phase, base |-> base, copy |-> copy]]
Step(id, n, phase, copy) == Goto(id, n, phase, run[id][n].base, copy)
Keep == UNCHANGED <<runs, call, updates, recovery, disturbed, wanted, resource>>

\* The task looks the project up; an absent one throws outside of its try block,
\* which ends it.  An initialization hands the agent the project it finds, a
\* reload the one of its call.
TaskStarts(id, n) ==
  /\ IF projects[id] = Absent THEN Step(id, n, "done", Absent)
     ELSE \/ Is(id, n, {"added"}) /\ Goto(id, n, "starting", projects[id], Absent)
          \/ /\ Is(id, n, {"reloaded"})
             /\ LET reloading == WithState(run[id][n].base, "RELOADING")
                IN Goto(id, n, "reloadingPut", reloading, reloading)
  /\ Is(id, n, {"added", "reloaded"})
  /\ UNCHANGED <<projects, found>> /\ Keep

WriteBack(id, n, phase) ==
  /\ Put(id, run[id][n].copy)
  /\ Step(id, n, phase, Absent)
  /\ UNCHANGED found /\ Keep

\* A reload puts its call's project whether or not there still is one.
ReloadingPut(id, n) == Is(id, n, {"reloadingPut"}) /\ WriteBack(id, n, "starting")

Connect(id, n) ==
  /\ Is(id, n, {"starting"})
  /\ Step(id, n, "streaming", Absent)
  /\ UNCHANGED <<projects, found>> /\ Keep

\* The git resource is gone, or the agent does not start or cannot be reached.
StartFails(id, n) ==
  /\ Is(id, n, {"reloadingPut", "starting"})
  /\ Step(id, n, "failing", Absent)
  /\ UNCHANGED <<projects, found>> /\ Keep

\* Each event carries the agent's project with one part more; it is put over the
\* stored one if there still is one.
AgentEvent(id, n) ==
  /\ Is(id, n, {"streaming"}) /\ found[id][n] < AllParts
  /\ found' = [found EXCEPT ![id][n] = @ + 1]
  /\ IF projects[id] = Absent
     THEN UNCHANGED run
     ELSE Step(id, n, "eventPut", [run[id][n].base EXCEPT !.parts = found[id][n] + 1])
  /\ UNCHANGED projects /\ Keep

EventPut(id, n) == Is(id, n, {"eventPut"}) /\ WriteBack(id, n, "streaming")

\* completeProjectInitialization and handleProjectInitializationError put what
\* they find stored, in a new state.
ReadOutcome(id, n, phase, state) ==
  /\ IF projects[id] = Absent THEN Step(id, n, "done", Absent)
                              ELSE Step(id, n, phase, WithState(projects[id], state))
  /\ UNCHANGED <<projects, found>> /\ Keep

\* Slip: the outcome is put in the project of the run.
AgentCompletesOwn(id, n) ==
  /\ Is(id, n, {"streaming"}) /\ found[id][n] = AllParts
  /\ IF projects[id] = Absent
     THEN Step(id, n, "done", Absent)
     ELSE Step(id, n, "completePut",
               [run[id][n].base EXCEPT !.state = "INITIALIZED", !.parts = AllParts])
  /\ UNCHANGED <<projects, found>> /\ Keep

\* Slip: a stream that ends before its time completes the project.
AgentCompletesEarly(id, n) ==
  /\ Is(id, n, {"streaming"})
  /\ ReadOutcome(id, n, "completePut", "INITIALIZED")

AgentCompletes(id, n) ==
  /\ Is(id, n, {"streaming"}) /\ found[id][n] = AllParts
  /\ ReadOutcome(id, n, "completePut", "INITIALIZED")

\* Slip: without the timeout only a stream that has begun to send fails.
StreamFailsBegun(id, n) ==
  /\ Is(id, n, {"streaming"}) /\ found[id][n] > 0
  /\ Step(id, n, "failing", Absent)
  /\ UNCHANGED <<projects, found>> /\ Keep

\* An error of the agent or of the connection, or the timeout of the stream.
StreamFails(id, n) ==
  /\ Is(id, n, {"streaming"})
  /\ Step(id, n, "failing", Absent)
  /\ UNCHANGED <<projects, found>> /\ Keep

HandleError(id, n) ==
  Is(id, n, {"failing"}) /\ ReadOutcome(id, n, "failPut", "INITIALIZATION_FAILED")

OutcomePut(id, n) == Is(id, n, {"completePut", "failPut"}) /\ WriteBack(id, n, "done")

-----------------------------------------------------------------------------
(* Crash and restart.                                                      *)

\* Every task, stream and call is lost; what a call left behind that threw is now
\* for the sweep to end.
Crash ==
  /\ crashes < MaxCrashes
  /\ crashes' = crashes + 1
  /\ run' = [id \in Ids |-> [n \in Runs |->
       [phase |-> IF Is(id, n, {"none"}) THEN "none" ELSE "done",
        base |-> Absent, copy |-> Absent]]]
  /\ call' = [t \in Callers |-> Idle]
  /\ sweep' = "read"
  /\ stuck' = [id \in Ids |-> Absent]
  /\ disturbed' = [id \in Ids |-> disturbed[id] \ {"thrown"}]
  /\ UNCHANGED <<projects, runs, found, updates, wanted, resource>>

\* Slip: a reload that was only started does not count as stuck.
SweepReadWorking ==
  /\ sweep = "read"
  /\ sweep' = "put"
  /\ stuck' = [id \in Ids |-> IF projects[id] # Absent /\ projects[id].state \in {"CREATED", "RELOADING"}
                              THEN projects[id] ELSE Absent]
  /\ UNCHANGED <<projects, runs, run, found, call, updates, crashes, disturbed, wanted, resource>>

SweepRead ==
  /\ sweep = "read"
  /\ sweep' = "put"
  /\ stuck' = [id \in Ids |-> IF projects[id] # Absent /\ projects[id].state \in StuckStates
                              THEN projects[id] ELSE Absent]
  /\ UNCHANGED <<projects, runs, run, found, call, updates, crashes, disturbed, wanted, resource>>

SweepPut(id) ==
  /\ stuck[id] # Absent
  /\ Put(id, WithState(stuck[id], "INITIALIZATION_FAILED"))
  /\ stuck' = [stuck EXCEPT ![id] = Absent]
  /\ disturbed' = [disturbed EXCEPT ![id] =
       IF projects[id] # stuck[id] THEN @ \cup {"stale"} ELSE @]
  /\ UNCHANGED <<runs, run, found, call, updates, sweep, crashes, wanted, resource>>

SweepDone ==
  /\ sweep = "put" /\ \A id \in Ids : stuck[id] = Absent
  /\ sweep' = "idle"
  /\ UNCHANGED <<projects, runs, run, found, call, updates, stuck, crashes, disturbed, wanted, resource>>

-----------------------------------------------------------------------------
CallStep(t) ==
  \/ CallRead(t) \/ CallDelete(t) \/ CallReload(t)
  \/ \E s \in Settings : CallUpdate(t, s)

RunStep(id, n) ==
  \/ TaskStarts(id, n) \/ ReloadingPut(id, n) \/ Connect(id, n) \/ EventPut(id, n)
  \/ HandleError(id, n) \/ OutcomePut(id, n)

StreamStep(id, n) == AgentCompletes(id, n) \/ StreamFails(id, n)

SweepStep == SweepRead \/ SweepDone \/ \E id \in Ids : SweepPut(id)

Next ==
  \/ \E id \in Ids, s \in Settings : CallAdd(id, s)
  \/ \E t \in Callers, id \in Ids, b \in Buttons : Click(t, id, b)
  \/ \E t \in Callers : CallStep(t)
  \/ \E id \in Ids : DeleteResource(id)
  \/ \E id \in Ids, n \in Runs :
       RunStep(id, n) \/ StartFails(id, n) \/ AgentEvent(id, n) \/ StreamStep(id, n)
  \/ SweepStep
  \/ Crash

Spec == Init /\ [][Next]_vars

\* Tasks of the panel's executor and the sweep run on, and every stream ends, if
\* only by its timeout.  Users owe no call and the agent no event.
Fairness ==
  /\ \A id \in Ids, n \in Runs : WF_vars(RunStep(id, n)) /\ SF_vars(StreamStep(id, n))
  /\ WF_vars(SweepStep)

FairSpec == Spec /\ Fairness

-----------------------------------------------------------------------------
\* A run that has a project to hand out or to put holds one, an outcome at rest.
HeldRuns ==
  {r \in Run :
     /\ r.phase \in {"reloaded", "reloadingPut", "starting", "streaming", "eventPut"}
          => r.base \in Record
     /\ r.phase \in {"reloadingPut", "eventPut"} => r.copy \in Record
     /\ r.phase \in {"completePut", "failPut"}
          => r.copy \in Record /\ r.copy.state \in RestStates}

HeldCalls ==
  {c \in Calls :
     /\ c.pc # "idle" => c.id \in Ids /\ c.button \in Buttons
     /\ c.pc = "put" => c.copy \in Record}

\* Every variable has its type, and what is held to be put is a project.
TypeOK ==
  /\ projects \in [Ids -> NoRecord]
  /\ runs \in [Ids -> 0 .. MaxRuns]
  /\ run \in [Ids -> [Runs -> HeldRuns]]
  /\ found \in [Ids -> [Runs -> 0 .. AllParts]]
  /\ call \in [Callers -> HeldCalls]
  /\ updates \in [Ids -> 0 .. MaxUpdates]
  /\ sweep \in {"idle", "read", "put"}
  /\ stuck \in [Ids -> NoRecord]
  /\ crashes \in 0 .. MaxCrashes
  /\ disturbed \in [Ids -> SUBSET {"overlap", "stale", "thrown"}]
  /\ wanted \in [Ids -> Settings \cup {Absent}]
  /\ resource \in [Ids -> BOOLEAN]

Stuck(id) == projects[id] # Absent /\ projects[id].state \in StuckStates

\* Progress that the code knows of no way to end: a stale record was put, or a call
\* threw when it had put the project.
Forsaken(id) == "stale" \in disturbed[id] \/ "thrown" \in disturbed[id]

\* A project whose card shows progress, and therefore no menu, has a run that will
\* end it, or is still to be swept: however reloads and deletions overlap, the only
\* ways to leave it without are a stale record put back by an update or a reload, and
\* createProjectInitializer that throws when the project is put; the latter the next
\* restart mends.
StuckHasWorker ==
  \A id \in Ids :
    Stuck(id) /\ ~ Forsaken(id) =>
      \/ \E n \in Runs : Live(id, n)
      \/ sweep = "read" \/ stuck[id] # Absent

\* What is stored need not be of the last run.
Muddled(id) == "overlap" \in disturbed[id] \/ "stale" \in disturbed[id]

\* An initialized project is complete, with what its last run found, unless runs
\* overlapped or a stale record was put back: completeProjectInitialization trusts
\* that the stored project is what the events of its own stream made of it.
InitializedIsComplete ==
  \A id \in Ids :
    /\ projects[id] # Absent /\ projects[id].state = "INITIALIZED"
    /\ ~ Muddled(id)
    => projects[id].run = runs[id] /\ projects[id].parts = AllParts

\* An update is not undone by a run that held no copy of the project when it was
\* put, one that has stored its last event included.
SettingsKept ==
  \A id \in Ids : projects[id] # Absent => wanted[id] \in {Absent, projects[id].settings}

\* A project does not show progress for ever, unless it is forsaken; one whose call
\* threw no longer is once the panel restarts.
StuckEnds ==
  \A id \in Ids : Stuck(id) /\ ~ Forsaken(id) ~> ~ Stuck(id) \/ Forsaken(id)
=============================================================================
