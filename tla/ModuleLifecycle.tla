--------------------------- MODULE ModuleLifecycle ---------------------------
(***************************************************************************)
(* The life of a module (a deployment of an artifact) in the management    *)
(* panel: ModuleService takes the calls that the cards of the web panel    *)
(* offer, ModuleManagementService has the module manager's agent carry out *)
(* each operation, and failChangingModules sweeps what a restarted panel   *)
(* finds half done.                                                        *)
(*                                                                         *)
(* Covered: users who click on what a card shows while others do the same; *)
(* each call and each handler at the granularity of one repository read or *)
(* write; the agent's work on OpenShift, which goes on when its stream has *)
(* timed out or the panel has crashed; a client that never sends the       *)
(* second half of an installation or an update; the request that updates   *)
(* many modules at once; calls and tasks that throw when they have already *)
(* put the module.                                                         *)
(*                                                                         *)
(* Left out: the contents of a configuration (its version stands for it);  *)
(* modules that share a name; failures of the repository itself.           *)
(*                                                                         *)
(* Definitions headed "Slip" are plausible mistakes in the definition that *)
(* follows them; no specification uses them.                               *)
(***************************************************************************)
EXTENDS Naturals, FiniteSets

CONSTANTS
  Ids,            \* the modules that are ever created
  Versions,       \* configurations (artifact version included) of a module
  Callers,        \* threads that serve the calls of users
  MaxOperations,  \* bound: operations on one module
  MaxCrashes,     \* bound: crashes of the panel
  Absent          \* no record, no operation, no deployment

ASSUME ConstantsAssumption ==
  /\ MaxOperations \in Nat \ {0}
  /\ MaxCrashes \in Nat
  /\ Absent \notin Ids \cup Versions

Slots == 1 .. MaxOperations

\* What the agent can be asked to do, and the states a module passes through.
Kinds == {"install", "update", "stop", "restart", "uninstall"}
StartedState ==
  [install |-> "INSTALLATION_STARTED", update |-> "UPDATE_STARTED", stop |-> "STOP_STARTED",
   restart |-> "RESTART_STARTED", uninstall |-> "UNINSTALL_STARTED"]
WorkingState ==
  [install |-> "INSTALLING", update |-> "UPDATING", stop |-> "STOPPING",
   restart |-> "RESTARTING", uninstall |-> "UNINSTALLING"]
FinalState ==
  [install |-> "RUN", update |-> "RUN", stop |-> "STOPPED", restart |-> "RUN",
   uninstall |-> "NOT_INSTALLED"]
RestStates == {"RUN", "STOPPED", "NOT_INSTALLED", "INVALID"}
ChangingStates == {StartedState[k] : k \in Kinds} \cup {WorkingState[k] : k \in Kinds}
Record == [state : RestStates \cup ChangingStates, version : Versions]
NoRecord == Record \cup {Absent}

\* The buttons of a module's card in each state, apart from the one that deletes its
\* record, and what the agent is then asked to do.
Buttons == {"reinstall", "update", "refresh", "stop", "restart", "uninstall"}
Menu ==
  [RUN |-> {"refresh", "update", "restart", "stop", "uninstall"},
   STOPPED |-> {"restart", "update", "refresh", "uninstall"},
   NOT_INSTALLED |-> {"update", "reinstall"},
   INVALID |-> {"update", "reinstall", "uninstall"}]
KindOf ==
  [reinstall |-> "install", update |-> "update", refresh |-> "update", stop |-> "stop",
   restart |-> "restart", uninstall |-> "uninstall"]
Offers(state, button) == state \in DOMAIN Menu /\ button \in Menu[state]

\* Where an operation stands in the panel and at the agent.
Phases == {"none", "queued", "announcePut", "connecting", "streaming", "eventPut", "streamed",
           "completePut", "failing", "failRead", "failPut", "done"}
Operation == [phase : Phases, kind : Kinds, version : Versions, copy : NoRecord]
AgentPhases == {"none", "working", "applied", "answered", "failed"}
Deployment == [version : Versions, up : BOOLEAN]

ASSUME AbsentAssumption == Absent \notin Record \cup Operation

\* A call concerns one module (id), but updateModulesVersion (batch) those it names:
\* its copy is then what it puts for each.
Calls == [pc : {"idle", "clicked", "put", "batch"}, id : Ids \cup {Absent},
          button : Buttons \cup {Absent}, copy : NoRecord]
Idle == [pc |-> "idle", id |-> Absent, button |-> Absent, copy |-> Absent]

\* How far updateModulesVersion has got with a module, and what it read of it.
Items == [stage : {"none", "named", "read", "put"}, copy : NoRecord]
NoItem == [stage |-> "none", copy |-> Absent]
NoBatch == [id \in Ids |-> NoItem]

VARIABLES
  modules,      \* the repository: [Ids -> NoRecord]
  created,      \* modules whose installation was ever started
  handed,       \* [Ids -> SUBSET (Kinds \X Versions)]: copies with clients to send back
  call,         \* what each thread is serving
  batch,        \* [Callers -> [Ids -> Items]]: the modules of its updateModulesVersion
  operations,   \* [Ids -> [Slots -> Operation or Absent]]
  agent,        \* [Ids -> [Slots -> AgentPhases]]
  deployments,  \* OpenShift: [Ids -> Deployment or Absent]
  manager,      \* are the project of the module and its OpenShift resource still there?
  sweep,        \* where failChangingModules stands: "idle", "read" or "put"
  found,        \* [Ids -> NoRecord]: the changing modules it read and has yet to write
  crashes,      \* crashes so far
  thrown,       \* history: modules last put by a call whose operation never began,
                \* because it threw then, and no restart since; or found changing by
                \* a restart that did not come to sweep the modules
  disturbed     \* history: an operation overlapped, wrote back a stale record or one whose
                \* state does not offer it, or updateModulesVersion left the module half way

recovery == <<sweep, found, crashes>>
vars == <<modules, created, handed, call, batch, operations, agent, deployments, manager,
          recovery, thrown, disturbed>>

Changing(record) == record # Absent /\ record.state \in ChangingStates
WithState(record, state) == [state |-> state, version |-> record.version]

-----------------------------------------------------------------------------
Init ==
  /\ modules = [id \in Ids |-> Absent]
  /\ created = {}
  /\ handed = [id \in Ids |-> {}]
  /\ call = [t \in Callers |-> Idle]
  /\ batch = [t \in Callers |-> NoBatch]
  /\ operations = [id \in Ids |-> [n \in Slots |-> Absent]]
  /\ agent = [id \in Ids |-> [n \in Slots |-> "none"]]
  /\ deployments = [id \in Ids |-> Absent]
  /\ manager = [id \in Ids |-> TRUE]
  /\ sweep = "idle"
  /\ found = [id \in Ids |-> Absent]
  /\ crashes = 0
  /\ thrown = {}
  /\ disturbed = [id \in Ids |-> FALSE]

-----------------------------------------------------------------------------
(* Operations and what is left of them.                                    *)

Put(id, record) == modules' = [modules EXCEPT ![id] = record]
Is(id, n, phases) == operations[id][n] # Absent /\ operations[id][n].phase \in phases

\* The panel has not finished with the operation, or the agent still works on it.
AtPanel(id, n) == operations[id][n] # Absent /\ operations[id][n].phase # "done"
AtAgent(id, n) == agent[id][n] \in {"working", "applied"}
Busy(id) == \E n \in Slots : AtPanel(id, n) \/ AtAgent(id, n)

Named(t, id) == batch[t][id].stage # "none"
Used(id) == Cardinality({n \in Slots : operations[id][n] # Absent})
InFlight(id) ==
  Cardinality(handed[id]) + Cardinality({t \in Callers : call[t].id = id \/ Named(t, id)})

\* updateModulesVersion has put the module as run in its new version, and has yet to
\* have it updated.
Processing(id) == \E t \in Callers : batch[t][id].stage = "put"

\* The record goes to the repository as started and the operation is queued, in the
\* first slot that is free: the bounds in Click and CallVersions leave one.  Without the
\* project or the resource, getProject or createModuleManager throws in between.
Launch(id, kind, version) ==
  /\ Put(id, [state |-> StartedState[kind], version |-> version])
  /\ \/ /\ manager[id]
        /\ \E n \in Slots :
             /\ operations[id][n] = Absent /\ \A m \in 1 .. n - 1 : operations[id][m] # Absent
             /\ operations' = [operations EXCEPT ![id][n] =
                  [phase |-> "queued", kind |-> kind, version |-> version, copy |-> Absent]]
        /\ thrown' = thrown \ {id}
     \/ ~ manager[id] /\ thrown' = thrown \cup {id} /\ UNCHANGED operations
  /\ UNCHANGED <<created, agent, deployments, manager, recovery>>

\* stale: the record written back is not the one that is stored, or the card of the
\* one that is stored does not offer the operation.
Disturbs(id, kind, stale) ==
  Busy(id) \/ stale \/ (disturbed[id] /\ kind \notin {"install", "update"})

-----------------------------------------------------------------------------
(* Calls of ModuleService.                                                 *)

Serve(t, c) == call' = [call EXCEPT ![t] = c]

\* startModuleInstallation; the client has yet to send the module back.
CallInstall(id, version) ==
  /\ id \notin created
  /\ created' = created \cup {id}
  /\ Put(id, [state |-> "INSTALLATION_STARTED", version |-> version])
  /\ handed' = [handed EXCEPT ![id] = {<<"install", version>>}]
  /\ UNCHANGED <<call, batch, operations, agent, deployments, manager, recovery, thrown,
                 disturbed>>

\* processModuleInstallation and processModuleUpdating take the client's copy
\* without looking at the repository.
CallProcess(id) ==
  \E h \in handed[id] :
    LET stale == modules[id] # [state |-> StartedState[h[1]], version |-> h[2]]
    IN /\ Launch(id, h[1], h[2])
       /\ disturbed' = [disturbed EXCEPT ![id] = Disturbs(id, h[1], stale)]
       /\ handed' = [handed EXCEPT ![id] = @ \ {h}]
       /\ UNCHANGED <<call, batch>>

\* A user clicks a button of the card that shows the module as it is now.
\* Guarded by the bound MaxOperations, counting the operations on their way.
Click(t, id, button) ==
  /\ call[t] = Idle
  /\ modules[id] # Absent
  /\ Offers(modules[id].state, button)
  /\ Used(id) + InFlight(id) < MaxOperations
  /\ Serve(t, [Idle EXCEPT !.pc = "clicked", !.id = id, !.button = button])
  /\ UNCHANGED <<modules, created, handed, batch, operations, agent, deployments, manager,
                 recovery, thrown, disturbed>>

\* The call reads the module, whatever it has become since; an absent one throws.
CallRead(t) ==
  LET c == call[t]
      record == modules[c.id]
  IN /\ c.pc = "clicked"
     /\ Serve(t, IF record = Absent THEN Idle ELSE [c EXCEPT !.pc = "put", !.copy = record])
     /\ UNCHANGED <<modules, created, handed, batch, operations, agent, deployments, manager,
                    recovery, thrown, disturbed>>

\* reinstallModule, refreshModuleArtifact, stopModule, restartModule and
\* deleteModuleFromResource write the module back as started and launch.
CallPut(t) ==
  LET c == call[t]
      stale == modules[c.id] # c.copy \/ ~ Offers(c.copy.state, c.button)
  IN /\ c.pc = "put" /\ c.button # "update"
     /\ Launch(c.id, KindOf[c.button], c.copy.version)
     /\ disturbed' = [disturbed EXCEPT ![c.id] = Disturbs(c.id, KindOf[c.button], stale)]
     /\ Serve(t, Idle)
     /\ UNCHANGED <<handed, batch>>

\* startModuleUpdating writes a new configuration and hands it to the client.
CallPutUpdate(t, version) ==
  LET c == call[t]
  IN /\ c.pc = "put" /\ c.button = "update"
     /\ Put(c.id, [state |-> "UPDATE_STARTED", version |-> version])
     /\ handed' = [handed EXCEPT ![c.id] = @ \cup {<<"update", version>>}]
     /\ Serve(t, Idle)
     /\ UNCHANGED <<created, batch, operations, agent, deployments, manager, recovery, thrown,
                    disturbed>>

\* deleteModule, alone or for a project; offered in every state.
CallDelete(id) ==
  /\ modules[id] # Absent
  /\ Put(id, Absent)
  /\ UNCHANGED <<created, handed, call, batch, operations, agent, deployments, manager, recovery,
                 thrown, disturbed>>

\* A user deletes the project of the module, or its OpenShift resource.
DeleteHome(id) ==
  /\ manager[id]
  /\ manager' = [manager EXCEPT ![id] = FALSE]
  /\ UNCHANGED <<modules, created, handed, call, batch, operations, agent, deployments, recovery,
                 thrown, disturbed>>

-----------------------------------------------------------------------------
(* updateModulesVersion, an operation of the API that names many modules:  *)
(* it reads all, puts those that run in the new version, and only then has *)
(* each of them updated.  The order within each pass is that of a list; any*)
(* is allowed here.                                                        *)

CallVersions(t, ids, version) ==
  /\ call[t] = Idle
  /\ \A id \in ids : Used(id) + InFlight(id) < MaxOperations
  /\ Serve(t, [Idle EXCEPT !.pc = "batch", !.copy = [state |-> "RUN", version |-> version]])
  /\ batch' = [batch EXCEPT ![t] =
       [id \in Ids |-> IF id \in ids THEN [stage |-> "named", copy |-> Absent] ELSE NoItem]]
  /\ UNCHANGED <<modules, created, handed, operations, agent, deployments, manager, recovery,
                 thrown, disturbed>>

None(t, stages) == \A id \in Ids : batch[t][id].stage \notin stages
Mark(t, id, item) == batch' = [batch EXCEPT ![t][id] = item]

\* The request ends, with an exception unless it is through with all its modules; those
\* that were put and not updated keep a version that OpenShift never got.
Ends(t) == Serve(t, Idle) /\ batch' = [batch EXCEPT ![t] = NoBatch]
LeftBehind(t, id) == batch[t][id].stage = "put"

\* An absent module throws; one that does not run is left alone.
VersionRead(t, id) ==
  /\ batch[t][id].stage = "named"
  /\ IF modules[id] = Absent
     THEN Ends(t)
     ELSE /\ Mark(t, id, IF modules[id].state = "RUN"
                         THEN [stage |-> "read", copy |-> modules[id]] ELSE NoItem)
          /\ UNCHANGED call
  /\ UNCHANGED <<modules, created, handed, operations, agent, deployments, manager, recovery,
                 thrown, disturbed>>

VersionPut(t, id) ==
  /\ None(t, {"named"}) /\ batch[t][id].stage = "read"
  /\ Put(id, call[t].copy)
  /\ Mark(t, id, [stage |-> "put", copy |-> call[t].copy])
  /\ disturbed' = [disturbed EXCEPT ![id] = @ \/ modules[id] # batch[t][id].copy]
  /\ UNCHANGED <<created, handed, call, operations, agent, deployments, manager, recovery, thrown>>

\* None of the assembled artifacts is that of the module whose turn it is: first throws.
VersionThrows(t) ==
  /\ None(t, {"named"}) /\ ~ None(t, {"read"})
  /\ Ends(t)
  /\ disturbed' = [id \in Ids |-> disturbed[id] \/ LeftBehind(t, id)]
  /\ UNCHANGED <<modules, created, handed, operations, agent, deployments, manager, recovery,
                 thrown>>

\* processModuleUpdating; when it throws, the rest of the request is dropped.
VersionProcess(t, id) ==
  /\ None(t, {"named", "read"}) /\ batch[t][id].stage = "put"
  /\ Launch(id, "update", call[t].copy.version)
  /\ IF manager[id] THEN Mark(t, id, NoItem) /\ UNCHANGED call ELSE Ends(t)
  /\ disturbed' = [i \in Ids |->
       IF i = id THEN Disturbs(id, "update", modules[id] # batch[t][id].copy)
                 ELSE disturbed[i] \/ (~ manager[id] /\ LeftBehind(t, i))]
  /\ UNCHANGED handed

VersionsDone(t) ==
  /\ call[t].pc = "batch" /\ None(t, {"named", "read", "put"})
  /\ Ends(t)
  /\ UNCHANGED <<modules, created, handed, operations, agent, deployments, manager, recovery,
                 thrown, disturbed>>

-----------------------------------------------------------------------------
(* ModuleManagementService: the panel's side of an operation.              *)

Goto(id, n, phase, copy) ==
  operations' = [operations EXCEPT ![id][n] =
    [phase |-> phase, kind |-> @.kind, version |-> @.version, copy |-> copy]]
Still == UNCHANGED <<created, handed, call, batch, deployments, manager, recovery, disturbed>>
Keep == Still /\ UNCHANGED thrown

\* With the manager's agent started, the module is announced as in progress if
\* its record exists; the agent is asked whether it does or not.
Announce(id, n) ==
  LET op == operations[id][n]
      working == [state |-> WorkingState[op.kind], version |-> op.version]
  IN /\ Is(id, n, {"queued"})
     /\ IF modules[id] = Absent THEN Goto(id, n, "connecting", Absent)
                                ELSE Goto(id, n, "announcePut", working)
     /\ UNCHANGED <<modules, agent>> /\ Keep

\* The task looks for the project once more, outside of its try block.
TaskThrows(id, n) ==
  /\ Is(id, n, {"queued"}) /\ ~ manager[id]
  /\ Goto(id, n, "done", Absent)
  /\ thrown' = thrown \cup {id}
  /\ UNCHANGED <<modules, agent>> /\ Still

WriteBack(id, n, phase) ==
  /\ Put(id, operations[id][n].copy)
  /\ Goto(id, n, phase, Absent)
  /\ UNCHANGED agent /\ Keep

\* The last put of an operation is preceded by one more look: a module deleted
\* before it stays deleted, one deleted after it is put all the same.
WriteBackIfPresent(id, n) ==
  \/ WriteBack(id, n, "done")
  \/ modules[id] = Absent /\ Goto(id, n, "done", Absent) /\ UNCHANGED <<modules, agent>> /\ Keep

AnnouncePut(id, n) == Is(id, n, {"announcePut"}) /\ WriteBack(id, n, "connecting")

Connect(id, n) ==
  /\ Is(id, n, {"connecting"})
  /\ Goto(id, n, "streaming", Absent)
  /\ agent' = [agent EXCEPT ![id][n] = "working"]
  /\ UNCHANGED modules /\ Keep

\* The agent cannot be started, or the request cannot be put together.
StartFails(id, n) ==
  /\ Is(id, n, {"queued", "connecting"})
  /\ Goto(id, n, "failRead", Absent)
  /\ UNCHANGED <<modules, agent>> /\ Keep

\* The handlers of the stream act only on a module still in this operation's
\* state; they cannot tell another operation of the same kind.
Mine(id, n) == modules[id] # Absent /\ modules[id].state = WorkingState[operations[id][n].kind]

\* An installation or an update sends the module back once, with its addresses.
SendsEvent == {"install", "update"}
EventRead(id, n) ==
  LET op == operations[id][n]
  IN /\ Is(id, n, {"streaming"}) /\ agent[id][n] = "answered" /\ op.kind \in SendsEvent
     /\ IF Mine(id, n)
        THEN Goto(id, n, "eventPut", [state |-> WorkingState[op.kind], version |-> op.version])
        ELSE Goto(id, n, "streamed", Absent)
     /\ UNCHANGED <<modules, agent>> /\ Keep

EventPut(id, n) == Is(id, n, {"eventPut"}) /\ WriteBack(id, n, "streamed")

CompleteRead(id, n) ==
  LET op == operations[id][n]
  IN /\ Is(id, n, {IF op.kind \in SendsEvent THEN "streamed" ELSE "streaming"})
     /\ agent[id][n] = "answered"
     /\ IF Mine(id, n)
        THEN Goto(id, n, "completePut", WithState(modules[id], FinalState[op.kind]))
        ELSE Goto(id, n, "done", Absent)
     /\ UNCHANGED <<modules, agent>> /\ Keep

CompletePut(id, n) == Is(id, n, {"completePut"}) /\ WriteBackIfPresent(id, n)

\* Slip: without the timeout only the agent's own error ends the stream badly.
StreamFailsOnError(id, n) ==
  /\ Is(id, n, {"streaming", "streamed"}) /\ agent[id][n] = "failed"
  /\ Goto(id, n, "failing", Absent)
  /\ UNCHANGED <<modules, agent>> /\ Keep

\* An error of the agent or of the connection, or the timeout of the stream.
StreamFails(id, n) ==
  /\ Is(id, n, {"streaming", "streamed"})
  /\ Goto(id, n, "failing", Absent)
  /\ UNCHANGED <<modules, agent>> /\ Keep

FailCheck(id, n) ==
  /\ Is(id, n, {"failing"})
  /\ Goto(id, n, IF Mine(id, n) THEN "failRead" ELSE "done", Absent)
  /\ UNCHANGED <<modules, agent>> /\ Keep

FailRead(id, n) ==
  /\ Is(id, n, {"failRead"})
  /\ IF modules[id] = Absent
     THEN Goto(id, n, "done", Absent)
     ELSE Goto(id, n, "failPut", WithState(modules[id], "INVALID"))
  /\ UNCHANGED <<modules, agent>> /\ Keep

FailPut(id, n) == Is(id, n, {"failPut"}) /\ WriteBackIfPresent(id, n)

-----------------------------------------------------------------------------
(* The agent's side.  It works on whatever becomes of its stream.          *)

\* What an operation makes of the deployment; stopping or restarting one that
\* does not exist changes nothing.
Effect(kind, version, deployment) ==
  IF kind \in {"install", "update"} THEN [version |-> version, up |-> TRUE]
  ELSE IF kind = "uninstall" \/ deployment = Absent THEN Absent
  ELSE [version |-> deployment.version, up |-> kind = "restart"]

\* Whether the wait that ends the operation may end well.
Reached(kind, deployment) ==
  LET up == deployment # Absent /\ deployment.up
  IN IF kind \in {"stop", "uninstall"} THEN ~ up ELSE up

KeepAgent == UNCHANGED <<modules, created, handed, call, batch, operations, manager, recovery,
                         thrown, disturbed>>

AgentApplies(id, n) ==
  /\ agent[id][n] = "working"
  /\ agent' = [agent EXCEPT ![id][n] = "applied"]
  /\ deployments' = [deployments EXCEPT ![id] =
       Effect(operations[id][n].kind, operations[id][n].version, @)]
  /\ KeepAgent

\* Slip: the agent answers without having waited for the deployment.
AgentAnswersEarly(id, n) ==
  /\ agent[id][n] \in {"working", "applied"}
  /\ agent' = [agent EXCEPT ![id][n] = "answered"]
  /\ UNCHANGED deployments /\ KeepAgent

AgentAnswers(id, n) ==
  /\ agent[id][n] = "applied"
  /\ Reached(operations[id][n].kind, deployments[id])
  /\ agent' = [agent EXCEPT ![id][n] = "answered"]
  /\ UNCHANGED deployments /\ KeepAgent

AgentFails(id, n) ==
  /\ agent[id][n] \in {"working", "applied"}
  /\ agent' = [agent EXCEPT ![id][n] = "failed"]
  /\ UNCHANGED deployments /\ KeepAgent

-----------------------------------------------------------------------------
(* Crash and restart.                                                      *)

\* The panel's operations and calls are lost; the agents work on.  A module
\* whose new version was written and not yet processed keeps it, and one that a
\* call left changing is now for the sweep to end.
Crash ==
  /\ crashes < MaxCrashes
  /\ crashes' = crashes + 1
  /\ call' = [t \in Callers |-> Idle]
  /\ batch' = [t \in Callers |-> NoBatch]
  /\ operations' = [id \in Ids |-> [n \in Slots |->
       IF operations[id][n] = Absent THEN Absent
       ELSE [phase |-> "done", kind |-> operations[id][n].kind,
             version |-> operations[id][n].version, copy |-> Absent]]]
  /\ sweep' = "read"
  /\ found' = [id \in Ids |-> Absent]
  /\ thrown' = {}
  /\ disturbed' = [id \in Ids |-> disturbed[id] \/ Processing(id)]
  /\ UNCHANGED <<modules, created, handed, agent, deployments, manager>>

\* Slip: only the states in progress count as changing.
SweepReadWorking ==
  /\ sweep = "read"
  /\ sweep' = "put"
  /\ found' = [id \in Ids |->
       IF modules[id] # Absent /\ \E k \in Kinds : modules[id].state = WorkingState[k]
       THEN modules[id] ELSE Absent]
  /\ UNCHANGED <<modules, created, handed, call, batch, operations, agent, deployments, manager,
                 crashes, thrown, disturbed>>

\* handleRestart sweeps the assemblies first; where cancelAssembly throws, for one that a
\* user deletes beside it, the modules are not swept.
SweepSkipped ==
  /\ sweep = "read"
  /\ sweep' = "idle"
  /\ thrown' = {id \in Ids : Changing(modules[id])}
  /\ UNCHANGED <<modules, created, handed, call, batch, operations, agent, deployments, manager,
                 found, crashes, disturbed>>

\* failChangingModules: the modules found changing, with what was read of them.
SweepRead ==
  /\ sweep = "read"
  /\ sweep' = "put"
  /\ found' = [id \in Ids |-> IF Changing(modules[id]) THEN modules[id] ELSE Absent]
  /\ UNCHANGED <<modules, created, handed, call, batch, operations, agent, deployments, manager,
                 crashes, thrown, disturbed>>

\* Each goes back as INVALID, whatever has been stored since.
SweepPut(id) ==
  /\ found[id] # Absent
  /\ Put(id, WithState(found[id], "INVALID"))
  /\ found' = [found EXCEPT ![id] = Absent]
  /\ disturbed' = [disturbed EXCEPT ![id] = @ \/ modules[id] # found[id]]
  /\ UNCHANGED <<created, handed, call, batch, operations, agent, deployments, manager, sweep,
                 crashes, thrown>>

SweepDone ==
  /\ sweep = "put" /\ \A id \in Ids : found[id] = Absent
  /\ sweep' = "idle"
  /\ UNCHANGED <<modules, created, handed, call, batch, operations, agent, deployments, manager,
                 found, crashes, thrown, disturbed>>

-----------------------------------------------------------------------------
UserStep(id) ==
  \/ \E v \in Versions : CallInstall(id, v)
  \/ CallProcess(id)
  \/ CallDelete(id)
  \/ DeleteHome(id)
  \/ \E t \in Callers, b \in Buttons : Click(t, id, b)

CallStep(t) ==
  \/ CallRead(t) \/ CallPut(t) \/ \E v \in Versions : CallPutUpdate(t, v)
  \/ VersionThrows(t) \/ VersionsDone(t)
  \/ \E id \in Ids : VersionRead(t, id) \/ VersionPut(t, id) \/ VersionProcess(t, id)

PanelStep(id, n) ==
  \/ Announce(id, n) \/ AnnouncePut(id, n) \/ Connect(id, n) \/ EventPut(id, n)
  \/ CompletePut(id, n) \/ FailCheck(id, n) \/ FailRead(id, n) \/ FailPut(id, n)

StreamStep(id, n) == EventRead(id, n) \/ CompleteRead(id, n) \/ StreamFails(id, n)

AgentStep(id, n) == AgentApplies(id, n) \/ AgentAnswers(id, n) \/ AgentFails(id, n)

SweepStep == SweepRead \/ SweepDone \/ \E id \in Ids : SweepPut(id)

Next ==
  \/ \E id \in Ids : UserStep(id)
  \/ \E t \in Callers : CallStep(t)
  \/ \E t \in Callers, ids \in SUBSET Ids \ {{}}, v \in Versions : CallVersions(t, ids, v)
  \/ \E id \in Ids, n \in Slots :
       \/ PanelStep(id, n) \/ TaskThrows(id, n) \/ StartFails(id, n)
       \/ StreamStep(id, n) \/ AgentStep(id, n)
  \/ SweepStep \/ SweepSkipped
  \/ Crash

Spec == Init /\ [][Next]_vars

\* Tasks of the panel's executor, calls and the sweep run on, and every stream
\* ends, if only by its timeout.  Clients owe no second half, agents no answer.
Fairness ==
  /\ \A id \in Ids, n \in Slots : WF_vars(PanelStep(id, n)) /\ WF_vars(StreamStep(id, n))
  /\ \A t \in Callers : WF_vars(CallStep(t))
  /\ WF_vars(SweepStep)

FairSpec == Spec /\ Fairness

-----------------------------------------------------------------------------
TypeOK ==
  /\ modules \in [Ids -> NoRecord]
  /\ created \subseteq Ids
  /\ handed \in [Ids -> SUBSET (Kinds \X Versions)]
  /\ call \in [Callers -> Calls]
  /\ batch \in [Callers -> [Ids -> Items]]
  /\ operations \in [Ids -> [Slots -> Operation \cup {Absent}]]
  /\ agent \in [Ids -> [Slots -> AgentPhases]]
  /\ deployments \in [Ids -> Deployment \cup {Absent}]
  /\ manager \in [Ids -> BOOLEAN]
  /\ sweep \in {"idle", "read", "put"}
  /\ found \in [Ids -> NoRecord]
  /\ crashes \in 0 .. MaxCrashes
  /\ thrown \subseteq Ids
  /\ disturbed \in [Ids -> BOOLEAN]

\* Where an operation still stands when the record shows it as started, and as
\* in progress: it will write the record once more, or find that another did.
BeforeAnnounced == {"queued", "announcePut", "failRead", "failPut"}
AfterAnnounced == {"connecting", "streaming", "eventPut", "streamed", "completePut", "failing",
                   "failRead", "failPut"}
Worker(id) ==
  \E n \in Slots :
    \/ /\ Is(id, n, BeforeAnnounced)
       /\ modules[id].state = StartedState[operations[id][n].kind]
    \/ /\ Is(id, n, AfterAnnounced)
       /\ modules[id].state = WorkingState[operations[id][n].kind]

\* However calls and operations on a module overlap, it never shows a change that
\* nobody is working on: the record is never left changing after the last handler
\* that recognises its state, except for a client that has yet to send the module
\* back, and after a crash until the sweep.  Two things do so: an exception between the
\* put and the operation, which the next restart mends, and an exception in the sweep of
\* the assemblies, which is where that restart ends.
ChangingHasWorker ==
  \A id \in Ids :
    Changing(modules[id]) /\ id \notin thrown =>
      \/ Worker(id)
      \/ \E h \in handed[id] : modules[id].state = StartedState[h[1]]
      \/ sweep = "read" \/ found[id] # Absent

\* The record tells the truth about OpenShift: unless operations overlapped, one
\* with another or with the agent's late work for one that had timed out, or a call or
\* the sweep wrote back a stale record or one that does not offer the operation, or
\* updateModulesVersion has put the new version and not got it deployed, a module shown
\* as run is up in the version shown, and one shown as stopped or not installed is not.
RecordIsTrue ==
  \A id \in Ids :
    modules[id] # Absent /\ ~ disturbed[id] /\ ~ Processing(id) =>
      LET deployment == deployments[id]
      IN CASE modules[id].state = "RUN" ->
                deployment = [version |-> modules[id].version, up |-> TRUE]
           [] modules[id].state = "STOPPED" -> deployment = Absent \/ ~ deployment.up
           [] modules[id].state = "NOT_INSTALLED" -> deployment = Absent
           [] OTHER -> TRUE

\* A module does not stay changing for ever: it comes to rest, or is deleted, or
\* is in the hands of a client that started an installation or update, or of a call
\* that threw; after a restart that sweeps the modules not even then.
ChangeEnds ==
  \A id \in Ids :
    Changing(modules[id]) /\ handed[id] = {} /\ id \notin thrown
      ~> ~ Changing(modules[id]) \/ handed[id] # {} \/ id \in thrown
=============================================================================
