-------------------------- MODULE AssemblyLifecycle --------------------------
(***************************************************************************)
(* The life of an assembly (one build of a project) in the management      *)
(* panel: AssemblyService takes the calls of users, ProjectAssemblyService *)
(* runs each attempt to build on a project builder (an OpenShift pod), and *)
(* ManagementService sweeps the assemblies a restarted panel finds running.*)
(*                                                                         *)
(* Covered: every call of the service, interleaved with the asynchronous   *)
(* build and destroy tasks at the granularity of one repository read or    *)
(* write; the agent's stream of events; failures of the start, of the      *)
(* connection and of the stream (its timeout included); OpenShift failing  *)
(* to stop a pod; a crash and restart of the panel.                        *)
(*                                                                         *)
(* Left out: the text of the log; failures of the repository itself; flow *)
(* control of the agent's stream, whose subscriber asks for everything, so *)
(* that the credits of `chunked` never hold an event back.  The maps       *)
(* disposables and subscriptions cancel the same stream and are one        *)
(* variable; the maps agents and requester follow it.                      *)
(*                                                                         *)
(* Definitions headed "Slip" are plausible mistakes in the definition that *)
(* follows them; no specification uses them.                               *)
(***************************************************************************)
EXTENDS Naturals, FiniteSets

CONSTANTS
  Ids,              \* the assemblies that are ever created
  Requested,        \* Requested[id]: the artifact configurations id was asked to build
  Callers,          \* threads that serve the calls of users
  Recovery,         \* the thread of ManagementService.handleRestart
  Operations,       \* the calls users make, a subset of AllOperations
  MaxAttempts,      \* bound: builds of one assembly (1 + rebuilds)
  MaxDestroyers,    \* bound: calls may not start more pending destroy tasks than this
  MaxCrashes,       \* bound: crashes of the panel
  OpenShiftFaults,  \* may OpenShift refuse to stop a pod?
  Absent            \* no record

AllOperations == {"build", "cancel", "rebuild", "delete", "purge"}
Attempts == 1 .. MaxAttempts
Threads == Callers \cup {Recovery}

ASSUME ConstantsAssumption ==
  /\ MaxAttempts \in Nat \ {0}
  /\ MaxDestroyers \in Nat
  /\ MaxCrashes \in Nat
  /\ OpenShiftFaults \in BOOLEAN
  /\ Operations \subseteq AllOperations
  /\ Recovery \notin Callers
  /\ Absent \notin Ids

RunningStates == {"STARTED", "RESTARTED", "STARTED_ON_RESOURCE", "BUILDING"}
States == RunningStates \cup {"DONE", "FAILED", "CANCELED"}

\* A stored assembly: its state, the attempt whose log and timestamps it
\* carries, and whether it holds the built artifacts.
Record == [state : States, attempt : Attempts, artifacts : BOOLEAN]
NoRecord == Record \cup {Absent}

ASSUME AbsentAssumption == Absent \notin Record

\* Where an attempt's task or stream stands.
TaskPhases == {"none", "queued", "starting", "creating", "recheck", "stopping",
               "stamping", "stampPut", "connecting", "streaming", "progressPut",
               "finalPut", "finished", "completePut", "failing", "failPut", "done"}
StreamPhases == {"streaming", "progressPut", "finalPut", "finished"}
BeforeSecondLook == {"queued", "starting", "creating", "recheck"}
DestroyPhases == {"cancel", "stop", "remove"}

\* A thread of the panel: where it is, the assembly its call is about, the one
\* it is cancelling and the record it read to do so, the record a rebuild read
\* before that, the assemblies still to cancel, and what follows a cancellation.
Pcs == {"idle", "cancelPut", "rebuildCancel", "rebuildPut", "delete", "sweepRead", "sweep"}
Calls == [pc : Pcs, id : Ids \cup {Absent}, target : Ids \cup {Absent},
          read : NoRecord, kept : NoRecord, todo : SUBSET Ids,
          then : {"idle", "rebuildPut", "delete", "sweep"}]
\* What a call still needs from what it read: a rebuild its first record, a
\* cancellation the record it will write back.
WellFormed(c) ==
  /\ c.pc = "cancelPut" => c.read \in Record /\ c.target \in Ids
  /\ c.pc \in {"rebuildCancel", "rebuildPut"} \/ c.then = "rebuildPut"
       => c.kept \in Record /\ c.id \in Ids
  /\ c.pc = "delete" \/ c.then = "delete" => c.id \in Ids
Idle == [pc |-> "idle", id |-> Absent, target |-> Absent, read |-> Absent,
         kept |-> Absent, todo |-> {}, then |-> "idle"]

VARIABLES
  assemblies,     \* the repository: [Ids -> NoRecord]
  attempts,       \* number of attempts started for each assembly
  task,           \* [Ids -> [Attempts -> TaskPhases]]
  copy,           \* the record each attempt read and is about to write back
  canceled,       \* the attempts whose stream was cancelled, a set of pairs
  subscriptions,  \* the attempt whose stream is registered for each assembly, or 0
  pods,           \* the assemblies whose builder pod exists
  destroyers,     \* [Ids -> [DestroyPhases -> Nat]]: pending destroyAgent tasks
  call,           \* what each thread is serving
  crashes,        \* crashes so far
  disturbed,      \* history: cancelled, or rebuilt while unsettled, in this attempt
  barred,         \* history: assemblies whose first attempt was cancelled in time
  leaked,         \* history: pods a crash or a failed stop left behind
  forsaken        \* history: left running by a sweep that threw, in this attempt

panel == <<attempts, task, copy, canceled, subscriptions, destroyers>>
history == <<crashes, disturbed, barred, leaked, forsaken>>
vars == <<assemblies, panel, pods, call, history>>

Running(record) == record # Absent /\ record.state \in RunningStates
Canceled(record) == record # Absent /\ record.state = "CANCELED"
WithState(record, state) == [record EXCEPT !.state = state]

-----------------------------------------------------------------------------
(* What is still at work for an assembly.                                  *)

\* The attempt's task or stream will take another step of its own accord.
Live(id, n) ==
  /\ task[id][n] \notin {"none", "done"}
  /\ task[id][n] \in StreamPhases => <<id, n>> \notin canceled

Destroying(id) == \E p \in DestroyPhases : destroyers[id][p] > 0

\* No task, stream or destroy task of the assembly remains; a cancelled
\* stream may still be inside an event handler.
Settled(id) ==
  /\ \A n \in Attempts : ~ Live(id, n) /\ task[id][n] \notin {"progressPut", "finalPut"}
  /\ ~ Destroying(id)

-----------------------------------------------------------------------------
Init ==
  /\ assemblies = [id \in Ids |-> Absent]
  /\ attempts = [id \in Ids |-> 0]
  /\ task = [id \in Ids |-> [n \in Attempts |-> "none"]]
  /\ copy = [id \in Ids |-> [n \in Attempts |-> Absent]]
  /\ canceled = {}
  /\ subscriptions = [id \in Ids |-> 0]
  /\ pods = {}
  /\ destroyers = [id \in Ids |-> [p \in DestroyPhases |-> 0]]
  /\ call = [t \in Threads |-> Idle]
  /\ crashes = 0
  /\ disturbed = [id \in Ids |-> FALSE]
  /\ barred = {}
  /\ leaked = {}
  /\ forsaken = {}

-----------------------------------------------------------------------------
(* Calls of AssemblyService.  A call that finds nothing to do returns      *)
(* without a step; one that throws leaves what it already wrote.           *)

Serve(t, c) == call' = [call EXCEPT ![t] = c]
At(t, pc) == [call[t] EXCEPT !.pc = pc]
Free(t, operation) == t \in Callers /\ call[t].pc = "idle" /\ operation \in Operations
For(id) == [Idle EXCEPT !.id = id]

\* cancelAssembly has read a running record of id; next puts it back as CANCELED.
Canceling(c, id, then) ==
  [pc |-> "cancelPut", id |-> c.id, target |-> id, read |-> assemblies[id],
   kept |-> c.kept, todo |-> c.todo, then |-> then]
\* The cancellation is done and the call goes on with what follows it.
Resumed(c) ==
  IF c.then = "idle" THEN Idle
  ELSE [pc |-> c.then, id |-> c.id, target |-> Absent, read |-> Absent,
        kept |-> c.kept, todo |-> c.todo, then |-> "idle"]

Put(id, record) == assemblies' = [assemblies EXCEPT ![id] = record]
Spawn(id) == destroyers' = [destroyers EXCEPT ![id]["cancel"] = @ + 1]
StartAttempt(id, n) ==
  /\ attempts' = [attempts EXCEPT ![id] = n]
  /\ task' = [task EXCEPT ![id][n] = "queued"]
  /\ UNCHANGED <<copy, canceled, subscriptions, destroyers>>

\* The running assemblies a request for id supersedes: those asked to build no
\* more than it (all requests here are for one version of one project).
Superseded(id) == {old \in Ids : /\ Running(assemblies[old])
                                 /\ Requested[old] \subseteq Requested[id]}

CallBuild(t, id) ==
  /\ Free(t, "build")
  /\ attempts[id] = 0
  /\ \A u \in Threads : call[u].id # id
  /\ Serve(t, [For(id) EXCEPT !.pc = "sweep", !.todo = Superseded(id)])
  /\ UNCHANGED <<assemblies, panel, pods, history>>

CallCancel(t, id) ==
  /\ Free(t, "cancel")
  /\ Running(assemblies[id])
  /\ Serve(t, Canceling(For(id), id, "idle"))
  /\ UNCHANGED <<assemblies, panel, pods, history>>

\* Guarded by the bound MaxAttempts, counting the rebuilds under way.
CallRebuild(t, id) ==
  /\ Free(t, "rebuild")
  /\ assemblies[id] # Absent
  /\ attempts[id] + Cardinality({u \in Callers : call[u].id = id /\ call[u].kept # Absent}) < MaxAttempts
  /\ Serve(t, [For(id) EXCEPT
                 !.pc = IF Running(assemblies[id]) THEN "rebuildCancel" ELSE "rebuildPut",
                 !.kept = assemblies[id]])
  /\ UNCHANGED <<assemblies, panel, pods, history>>

CallDelete(t, id) ==
  /\ Free(t, "delete")
  /\ assemblies[id] # Absent
  /\ Put(id, Absent)
  /\ UNCHANGED <<panel, pods, call, history>>

\* deleteProjectAssemblies, for one assembly of the project.
CallPurge(t, id) ==
  /\ Free(t, "purge")
  /\ assemblies[id] # Absent
  /\ Serve(t, IF Running(assemblies[id]) THEN Canceling(For(id), id, "delete")
                                         ELSE [For(id) EXCEPT !.pc = "delete"])
  /\ UNCHANGED <<assemblies, panel, pods, history>>

\* The record read earlier goes back as CANCELED, whatever was stored since; the
\* agent is destroyed only if that record had reached the resource.  Guarded by
\* the bound MaxDestroyers.
CancelPut(t) ==
  LET c == call[t]
      id == c.target
  IN /\ c.pc = "cancelPut"
     /\ \A p \in DestroyPhases : destroyers[id][p] < MaxDestroyers
     /\ Put(id, WithState(c.read, "CANCELED"))
     /\ IF c.read.state \in {"BUILDING", "STARTED_ON_RESOURCE"}
        THEN Spawn(id) ELSE UNCHANGED destroyers
     /\ Serve(t, Resumed(c))
     /\ disturbed' = [disturbed EXCEPT ![id] = TRUE]
     /\ barred' = IF attempts[id] = 1 /\ task[id][1] \in BeforeSecondLook
                  THEN barred \cup {id} ELSE barred
     /\ UNCHANGED <<attempts, task, copy, canceled, subscriptions, pods, crashes, leaked,
                    forsaken>>

\* The cancellation inside a rebuild reads the record again.
RebuildCancel(t) ==
  LET id == call[t].id
  IN /\ call[t].pc = "rebuildCancel"
     /\ Serve(t, IF assemblies[id] = Absent THEN Idle
                 ELSE IF Running(assemblies[id]) THEN Canceling(call[t], id, "rebuildPut")
                 ELSE At(t, "rebuildPut"))
     /\ UNCHANGED <<assemblies, panel, pods, history>>

\* Slip: the record goes back with the log of the attempt before.
RebuildPutOldLog(t) ==
  LET id == call[t].id
  IN /\ call[t].pc = "rebuildPut"
     /\ attempts[id] + 1 \in Attempts
     /\ Put(id, WithState(call[t].kept, "RESTARTED"))
     /\ StartAttempt(id, attempts[id] + 1)
     /\ disturbed' = [disturbed EXCEPT ![id] = ~ Settled(id)]
     /\ Serve(t, Idle)
     /\ forsaken' = forsaken \ {id}
     /\ UNCHANGED <<pods, crashes, barred, leaked>>

\* The record read first goes back as RESTARTED with a new log, without
\* artifacts, and a new attempt is queued.
RebuildPut(t) ==
  LET id == call[t].id
      n == attempts[id] + 1
  IN /\ call[t].pc = "rebuildPut"
     /\ n \in Attempts
     /\ Put(id, [call[t].kept EXCEPT !.state = "RESTARTED", !.attempt = n, !.artifacts = FALSE])
     /\ StartAttempt(id, n)
     /\ disturbed' = [disturbed EXCEPT ![id] = ~ Settled(id)]
     /\ Serve(t, Idle)
     /\ forsaken' = forsaken \ {id}
     /\ UNCHANGED <<pods, crashes, barred, leaked>>

\* deleteAssembly throws when the record is gone.
DeleteAfterCancel(t) ==
  /\ call[t].pc = "delete"
  /\ Put(call[t].id, Absent)
  /\ Serve(t, Idle)
  /\ UNCHANGED <<panel, pods, history>>

\* What the sweep of a restart leaves running if it ends at old.
Left(t, old) == {id \in call[t].todo \ {old} : t = Recovery /\ Running(assemblies[id])}

\* cancelAssembly for one of the assemblies to sweep; an absent one throws and
\* ends the call, be it a user's or handleRestart.
Sweep(t) ==
  /\ call[t].pc = "sweep"
  /\ \E old \in call[t].todo :
       LET rest == [call[t] EXCEPT !.todo = @ \ {old}]
       IN /\ Serve(t, IF assemblies[old] = Absent THEN Idle
                      ELSE IF Running(assemblies[old]) THEN Canceling(rest, old, "sweep")
                      ELSE rest)
          /\ forsaken' = IF assemblies[old] = Absent THEN forsaken \cup Left(t, old) ELSE forsaken
  /\ UNCHANGED <<assemblies, panel, pods, crashes, disturbed, barred, leaked>>

\* With every superseded assembly cancelled, a build puts its own assembly and
\* queues the first attempt.
BuildPut(t) ==
  LET id == call[t].id
  IN /\ call[t].pc = "sweep" /\ call[t].todo = {} /\ id # Absent
     /\ attempts[id] = 0
     /\ Put(id, [state |-> "STARTED", attempt |-> 1, artifacts |-> FALSE])
     /\ StartAttempt(id, 1)
     /\ Serve(t, Idle)
     /\ UNCHANGED <<pods, history>>

-----------------------------------------------------------------------------
(* ProjectAssemblyService: the asynchronous task of an attempt.            *)

Goto(id, n, phase) == task' = [task EXCEPT ![id][n] = phase]
Move(id, n, phase) ==
  /\ Goto(id, n, phase)
  /\ UNCHANGED <<assemblies, attempts, copy, canceled, subscriptions, pods, destroyers,
                 call, history>>

\* The builder's pod is gone, or (re)created by the panel: no longer left behind.
PodGone(id) == pods' = pods \ {id} /\ leaked' = leaked \ {id}
PodCreated(id) == pods' = pods \cup {id} /\ leaked' = leaked \ {id}

\* Slip: the second look returns without stopping the agent just started.
CheckLeavingAgent(id, n) ==
  /\ task[id][n] \in {"queued", "recheck"}
  /\ Move(id, n, IF assemblies[id] = Absent THEN "failing"
                 ELSE IF Canceled(assemblies[id])
                      THEN IF task[id][n] = "queued" THEN "stopping" ELSE "done"
                 ELSE IF task[id][n] = "queued" THEN "starting" ELSE "stamping")

\* Slip: the record is looked up only before the agent is started.
CheckOnce(id, n) ==
  \/ /\ task[id][n] = "queued"
     /\ Move(id, n, IF assemblies[id] = Absent THEN "failing"
                    ELSE IF Canceled(assemblies[id]) THEN "stopping" ELSE "starting")
  \/ task[id][n] = "recheck" /\ Move(id, n, "stamping")

\* The record is looked up before the agent is started and again once it runs:
\* a missing record throws, a cancelled one makes the task stop the agent.
Check(id, n) ==
  /\ task[id][n] \in {"queued", "recheck"}
  /\ Move(id, n, IF assemblies[id] = Absent THEN "failing"
                 ELSE IF Canceled(assemblies[id]) THEN "stopping"
                 ELSE IF task[id][n] = "queued" THEN "starting" ELSE "stamping")

StopAbandoned(id, n) ==
  /\ task[id][n] = "stopping"
  /\ Goto(id, n, "done")
  /\ PodGone(id)
  /\ UNCHANGED <<assemblies, attempts, copy, canceled, subscriptions, destroyers, call,
                 crashes, disturbed, barred, forsaken>>

\* startAgent replaces the pod of that name, then waits until it is ready.
StartAgent(id, n) ==
  /\ task[id][n] = "starting"
  /\ Goto(id, n, "creating")
  /\ PodCreated(id)
  /\ UNCHANGED <<assemblies, attempts, copy, canceled, subscriptions, destroyers, call,
                 crashes, disturbed, barred, forsaken>>

AgentReady(id, n) == task[id][n] = "creating" /\ Move(id, n, "recheck")

\* An exception while starting, or between the start and the subscription, or
\* of OpenShift refusing to stop the agent of a cancelled assembly.
StartFails(id, n) ==
  /\ \/ task[id][n] \in {"starting", "creating", "stamping", "connecting"}
     \/ OpenShiftFaults /\ task[id][n] = "stopping"
  /\ Move(id, n, "failing")

\* A handler reads the record and, if it is running, keeps what it will write.
ReadRunning(id, n, record, found, missing) ==
  /\ IF Running(assemblies[id])
     THEN copy' = [copy EXCEPT ![id][n] = record] /\ Goto(id, n, found)
     ELSE Goto(id, n, missing) /\ UNCHANGED copy
  /\ UNCHANGED <<assemblies, attempts, canceled, subscriptions, pods, call, history>>

\* The record the agent was handed, and that a stream event carries back.
Stamped(n) == [state |-> "STARTED_ON_RESOURCE", attempt |-> n, artifacts |-> FALSE]

ReadForStamp(id, n) ==
  /\ task[id][n] = "stamping"
  /\ ReadRunning(id, n, Stamped(n), "stampPut", "connecting")
  /\ UNCHANGED destroyers

\* The second half of a handler: the record kept goes to the repository.
WriteBack(id, n, phase) ==
  /\ Put(id, copy[id][n])
  /\ copy' = [copy EXCEPT ![id][n] = Absent]
  /\ Goto(id, n, phase)
  /\ UNCHANGED <<attempts, canceled, subscriptions, pods, call, history>>

StampPut(id, n) ==
  /\ task[id][n] = "stampPut"
  /\ WriteBack(id, n, "connecting")
  /\ UNCHANGED destroyers

Subscribe(id, n) ==
  /\ task[id][n] = "connecting"
  /\ Goto(id, n, "streaming")
  /\ subscriptions' = [subscriptions EXCEPT ![id] = n]
  /\ UNCHANGED <<assemblies, attempts, copy, canceled, pods, destroyers, call, history>>

-----------------------------------------------------------------------------
(* The agent's stream.  Its signals are delivered one after another; none  *)
(* is delivered once the subscription is cancelled.                        *)

Open(id, n, phases) == task[id][n] \in phases /\ <<id, n>> \notin canceled

\* An event is stored as BUILDING when its assembly differs from the stored one;
\* the artifacts are no part of that comparison.
Differs(event, stored) == <<event.state, event.attempt>> # <<stored.state, stored.attempt>>

AgentProgress(id, n) ==
  /\ Open(id, n, {"streaming"})
  /\ Running(assemblies[id]) /\ Differs(Stamped(n), assemblies[id])
  /\ ReadRunning(id, n, WithState(Stamped(n), "BUILDING"), "progressPut", "streaming")
  /\ UNCHANGED destroyers

\* The last event differs by its end timestamp and carries all artifacts.
FinalEvent(n) == [state |-> "BUILDING", attempt |-> n, artifacts |-> TRUE]

\* Slip: the last event's end timestamp is no part of the comparison either.
AgentFinalIfNew(id, n) ==
  /\ Open(id, n, {"streaming"})
  /\ IF Running(assemblies[id]) /\ ~ Differs(Stamped(n), assemblies[id])
     THEN Move(id, n, "finished")
     ELSE ReadRunning(id, n, FinalEvent(n), "finalPut", "finished") /\ UNCHANGED destroyers

AgentFinal(id, n) ==
  /\ Open(id, n, {"streaming"})
  /\ ReadRunning(id, n, FinalEvent(n), "finalPut", "finished")
  /\ UNCHANGED destroyers

EventPut(id, n) ==
  /\ \/ task[id][n] = "progressPut" /\ WriteBack(id, n, "streaming")
     \/ task[id][n] = "finalPut" /\ WriteBack(id, n, "finished")
  /\ UNCHANGED destroyers

\* Slip: without a running record to update the agent stays.
ReadOutcomeLeavingAgent(id, n, state, found) ==
  /\ ReadRunning(id, n, IF Running(assemblies[id]) THEN WithState(assemblies[id], state)
                                                   ELSE Absent, found, "done")
  /\ UNCHANGED destroyers

\* handleAssemblyError and completeAssembly destroy the agent whether or not
\* there was a running record to update.
ReadOutcome(id, n, state, found) ==
  /\ ReadRunning(id, n, IF Running(assemblies[id]) THEN WithState(assemblies[id], state)
                                                   ELSE Absent, found, "done")
  /\ IF Running(assemblies[id]) THEN UNCHANGED destroyers ELSE Spawn(id)

\* Slip: a stream that ends early completes the assembly.
AgentCompletesEarly(id, n) ==
  /\ Open(id, n, {"streaming", "finished"})
  /\ ReadOutcome(id, n, "DONE", "completePut")

AgentCompletes(id, n) ==
  /\ Open(id, n, {"finished"})
  /\ ReadOutcome(id, n, "DONE", "completePut")

\* An error of the agent, of the connection, or the timeout of the stream.
StreamFails(id, n) ==
  /\ Open(id, n, {"streaming", "finished"})
  /\ Move(id, n, "failing")

HandleError(id, n) ==
  /\ task[id][n] = "failing"
  /\ ReadOutcome(id, n, "FAILED", "failPut")

OutcomePut(id, n) ==
  /\ task[id][n] \in {"completePut", "failPut"}
  /\ WriteBack(id, n, "done")
  /\ Spawn(id)

-----------------------------------------------------------------------------
(* destroyAgent.                                                           *)

Advance(id, from, to) ==
  /\ destroyers[id][from] > 0
  /\ destroyers' = [destroyers EXCEPT ![id][from] = @ - 1, ![id][to] = @ + 1]
  /\ UNCHANGED <<assemblies, attempts, task, copy, call, crashes, disturbed, barred, forsaken>>

DestroyCancel(id) ==
  /\ Advance(id, "cancel", "stop")
  /\ canceled' = IF subscriptions[id] = 0 THEN canceled
                 ELSE canceled \cup {<<id, subscriptions[id]>>}
  /\ UNCHANGED <<subscriptions, pods, leaked>>

DestroyStop(id) ==
  /\ Advance(id, "stop", "remove")
  /\ PodGone(id)
  /\ UNCHANGED <<canceled, subscriptions>>

\* OpenShift refuses: the exception ends the task before it clears the maps.
DestroyStopFails(id) ==
  /\ OpenShiftFaults
  /\ destroyers[id]["stop"] > 0
  /\ destroyers' = [destroyers EXCEPT ![id]["stop"] = @ - 1]
  /\ leaked' = leaked \cup (pods \cap {id})
  /\ UNCHANGED <<assemblies, attempts, task, copy, canceled, subscriptions, pods, call,
                 crashes, disturbed, barred, forsaken>>

DestroyRemove(id) ==
  /\ destroyers[id]["remove"] > 0
  /\ destroyers' = [destroyers EXCEPT ![id]["remove"] = @ - 1]
  /\ subscriptions' = [subscriptions EXCEPT ![id] = 0]
  /\ UNCHANGED <<assemblies, attempts, task, copy, canceled, pods, call, history>>

-----------------------------------------------------------------------------
(* A crash loses every task, stream and map of the panel; the repository   *)
(* and the pods stay.  The restarted panel serves calls at once, while     *)
(* handleRestart cancels the assemblies it finds running.                  *)

Crash ==
  /\ crashes < MaxCrashes
  /\ crashes' = crashes + 1
  /\ task' = [id \in Ids |-> [n \in Attempts |-> IF task[id][n] = "none" THEN "none" ELSE "done"]]
  /\ copy' = [id \in Ids |-> [n \in Attempts |-> Absent]]
  /\ canceled' = {}
  /\ subscriptions' = [id \in Ids |-> 0]
  /\ destroyers' = [id \in Ids |-> [p \in DestroyPhases |-> 0]]
  /\ call' = [t \in Threads |-> IF t = Recovery THEN [Idle EXCEPT !.pc = "sweepRead"] ELSE Idle]
  /\ leaked' = pods
  /\ UNCHANGED <<assemblies, attempts, pods, disturbed, barred, forsaken>>

\* Slip: the restarted panel sweeps only the assemblies that were building.
StopBuildingAssemblies ==
  /\ call[Recovery].pc = "sweepRead"
  /\ Serve(Recovery, [Idle EXCEPT
       !.pc = "sweep",
       !.todo = {id \in Ids : assemblies[id] # Absent /\ assemblies[id].state = "BUILDING"}])
  /\ UNCHANGED <<assemblies, panel, pods, history>>

StopRunningAssemblies ==
  /\ call[Recovery].pc = "sweepRead"
  /\ Serve(Recovery, [Idle EXCEPT !.pc = "sweep", !.todo = {id \in Ids : Running(assemblies[id])}])
  /\ UNCHANGED <<assemblies, panel, pods, history>>

RecoveryDone ==
  /\ call[Recovery].pc = "sweep" /\ call[Recovery].todo = {}
  /\ Serve(Recovery, Idle)
  /\ UNCHANGED <<assemblies, panel, pods, history>>

-----------------------------------------------------------------------------
UserCall(t, id) ==
  \/ CallBuild(t, id) \/ CallCancel(t, id) \/ CallRebuild(t, id)
  \/ CallDelete(t, id) \/ CallPurge(t, id)

CallStep(t) ==
  \/ CancelPut(t) \/ RebuildCancel(t) \/ RebuildPut(t)
  \/ DeleteAfterCancel(t) \/ Sweep(t) \/ BuildPut(t)

TaskStep(id, n) ==
  \/ Check(id, n) \/ StopAbandoned(id, n) \/ StartAgent(id, n) \/ AgentReady(id, n)
  \/ StartFails(id, n) \/ ReadForStamp(id, n) \/ StampPut(id, n) \/ Subscribe(id, n)
  \/ EventPut(id, n) \/ HandleError(id, n) \/ OutcomePut(id, n)

StreamEnd(id, n) == AgentFinal(id, n) \/ AgentCompletes(id, n) \/ StreamFails(id, n)

DestroyStep(id) ==
  DestroyCancel(id) \/ DestroyStop(id) \/ DestroyStopFails(id) \/ DestroyRemove(id)

RecoveryStep == StopRunningAssemblies \/ RecoveryDone

Next ==
  \/ \E t \in Callers, id \in Ids : UserCall(t, id)
  \/ \E t \in Threads : CallStep(t)
  \/ \E id \in Ids, n \in Attempts :
       TaskStep(id, n) \/ StreamEnd(id, n) \/ AgentProgress(id, n)
  \/ \E id \in Ids : DestroyStep(id)
  \/ RecoveryStep
  \/ Crash

Spec == Init /\ [][Next]_vars

\* Tasks of the panel's executor and calls being served run on; a stream ends,
\* by its last event, its completion or its timeout, even if it makes progress
\* again and again.  Users owe no call, and nothing owes a fault.
Fairness ==
  /\ \A id \in Ids, n \in Attempts :
       WF_vars(TaskStep(id, n)) /\ SF_vars(StreamEnd(id, n))
  /\ \A id \in Ids :
       WF_vars(DestroyCancel(id)) /\ WF_vars(DestroyStop(id)) /\ WF_vars(DestroyRemove(id))
  /\ \A t \in Threads : WF_vars(CallStep(t))
  /\ WF_vars(RecoveryStep)

FairSpec == Spec /\ Fairness

-----------------------------------------------------------------------------
TypeOK ==
  /\ assemblies \in [Ids -> NoRecord]
  /\ attempts \in [Ids -> 0 .. MaxAttempts]
  /\ task \in [Ids -> [Attempts -> TaskPhases]]
  /\ copy \in [Ids -> [Attempts -> NoRecord]]
  /\ canceled \subseteq Ids \X Attempts
  /\ subscriptions \in [Ids -> 0 .. MaxAttempts]
  /\ pods \subseteq Ids
  /\ destroyers \in [Ids -> [DestroyPhases -> Nat]]
  /\ call \in [Threads -> Calls] /\ \A t \in Threads : WellFormed(call[t])
  /\ crashes \in 0 .. MaxCrashes
  /\ disturbed \in [Ids -> BOOLEAN]
  /\ barred \subseteq Ids
  /\ leaked \subseteq pods
  /\ forsaken \subseteq Ids

\* Something will still stop the builder's pod of id: an attempt past its start
\* or a destroy task that has not stopped it yet.
Keeper(id) ==
  \/ \E n \in Attempts : Live(id, n) /\ task[id][n] \notin {"queued", "starting"}
  \/ destroyers[id]["cancel"] > 0
  \/ destroyers[id]["stop"] > 0

\* However cancellations, rebuilds, failures and completions interleave, a
\* builder's pod is never forgotten: unless a crash or a failed stop left it
\* behind, some task is still bound to stop it (destroyAgent, and the two looks
\* at the record around startAgent).
PodHasKeeper == \A id \in pods \ leaked : Keeper(id)

\* A running assembly that nobody cancelled, or rebuilt over a live attempt, has
\* an attempt at work that will end it, or is on the list of the restart sweep;
\* unless that sweep came, before it, to an assembly deleted since and threw.
RunningHasWorker ==
  \A id \in Ids :
    Running(assemblies[id]) /\ ~ disturbed[id]
      => \/ \E n \in Attempts : Live(id, n)
         \/ call[Recovery].pc = "sweepRead"
         \/ id \in call[Recovery].todo
         \/ call[Recovery].target = id
         \/ id \in forsaken

\* Undisturbed, the stored record is the newest attempt's: no write of an older
\* attempt, read before the rebuild, lands on it.
RecordIsNewest ==
  \A id \in Ids :
    assemblies[id] # Absent /\ ~ disturbed[id] => assemblies[id].attempt = attempts[id]

\* Undisturbed, an assembly is DONE only with its artifacts stored, which
\* getLatestAssembledArtifacts hands out.
DoneHasArtifacts ==
  \A id \in Ids :
    assemblies[id] # Absent /\ ~ disturbed[id] /\ assemblies[id].state = "DONE"
      => assemblies[id].artifacts

\* A cancellation stored before the task looks at the record the second time is
\* not lost: unless the assembly is rebuilt, its first attempt connects no agent.
EarlyCancelHolds ==
  \A id \in barred :
    attempts[id] = 1 =>
      task[id][1] \in BeforeSecondLook \cup {"stopping", "failing", "failPut", "done"}

\* Every builder's pod is stopped in the end, unless a crash or a refused stop leaves it
\* behind (destroyAgent in each way an attempt ends).
PodsStopped == \A id \in Ids : (id \in pods \ leaked) ~> (id \notin pods \ leaked)

\* What an observer sees of an assembly nobody disturbs, and the machine of states
\* it then follows.
View == [id \in Ids |-> IF disturbed[id] \/ id \in forsaken THEN "disturbed"
                        ELSE IF assemblies[id] = Absent THEN "absent"
                        ELSE assemblies[id].state]
Abstract == INSTANCE AssemblyStates WITH view <- View

\* Undisturbed assemblies follow AssemblyStates step by step and come to an end.
FollowsAssemblyStates == Abstract!Spec
=============================================================================
