----------------------- MODULE AssemblyLifecycleProofs -----------------------
(***************************************************************************)
(* Type correctness of AssemblyLifecycle; that no builder's pod is ever    *)
(* forgotten; that an undisturbed assembly shows what its newest attempt   *)
(* made of it; that a cancellation in time is not lost; that a running     *)
(* assembly is attended to; and that what a watcher sees follows           *)
(* AssemblyStates: for any number of assemblies, callers, rebuilds,        *)
(* crashes and OpenShift faults.                                           *)
(***************************************************************************)
EXTENDS AssemblyLifecycle, TLAPS

USE ConstantsAssumption DEF Attempts, Threads, NoRecord

LEMMA IdleIsCall == Idle \in Calls /\ WellFormed(Idle)
BY DEF Idle, Calls, Pcs, WellFormed

\* A thread that takes a well-formed call leaves the others as they were.
LEMMA ServeType ==
  ASSUME TypeOK, NEW t \in Threads, NEW c \in Calls, WellFormed(c), Serve(t, c)
  PROVE  /\ call' \in [Threads -> Calls]
         /\ \A u \in Threads : WellFormed(call'[u])
BY DEF TypeOK, Serve

LEMMA InitType == Init => TypeOK
BY IdleIsCall DEF Init, TypeOK, TaskPhases, DestroyPhases

\* Starting to cancel a running assembly keeps a call well-formed.
LEMMA CancelingType ==
  ASSUME TypeOK, NEW c \in Calls, WellFormed(c), NEW id \in Ids, Running(assemblies[id]),
         NEW then \in {"idle", "rebuildPut", "delete", "sweep"},
         then = "rebuildPut" => c.kept \in Record,
         then \in {"rebuildPut", "delete"} => c.id \in Ids
  PROVE  Canceling(c, id, then) \in Calls /\ WellFormed(Canceling(c, id, then))
<1>1. assemblies[id] \in Record
  BY DEF TypeOK, Running
<1>2. /\ c.pc \in Pcs /\ c.id \in Ids \cup {Absent} /\ c.target \in Ids \cup {Absent}
      /\ c.read \in NoRecord /\ c.kept \in NoRecord /\ c.todo \in SUBSET Ids
      /\ c.then \in {"idle", "rebuildPut", "delete", "sweep"}
      /\ c = [pc |-> c.pc, id |-> c.id, target |-> c.target, read |-> c.read,
              kept |-> c.kept, todo |-> c.todo, then |-> c.then]
  BY DEF Calls
<1> QED
  BY <1>1, <1>2 DEF Canceling, Calls, Pcs, WellFormed

\* Calls that only move the calling thread, or delete a record.
LEMMA UserCallType ==
  ASSUME TypeOK, NEW t \in Callers, NEW id \in Ids, UserCall(t, id)
  PROVE  TypeOK'
<1>0. t \in Threads /\ call[t] \in Calls
  BY DEF TypeOK
<1>a. For(id) \in Calls /\ WellFormed(For(id)) /\ For(id).id = id
  BY DEF For, Idle, Calls, Pcs, WellFormed
<1>1. CASE CallBuild(t, id)
  <2>1. [For(id) EXCEPT !.pc = "sweep", !.todo = Superseded(id)] \in Calls
    BY DEF For, Idle, Calls, Pcs, Superseded
  <2>2. WellFormed([For(id) EXCEPT !.pc = "sweep", !.todo = Superseded(id)])
    BY DEF For, Idle, WellFormed
  <2> QED
    BY <1>0, <1>1, <2>1, <2>2, ServeType DEF CallBuild, TypeOK, panel, history
<1>2. CASE CallCancel(t, id)
  BY <1>0, <1>a, <1>2, ServeType, CancelingType DEF CallCancel, TypeOK, panel, history
<1>3. CASE CallRebuild(t, id)
  <2> DEFINE c == [For(id) EXCEPT
                     !.pc = IF Running(assemblies[id]) THEN "rebuildCancel" ELSE "rebuildPut",
                     !.kept = assemblies[id]]
  <2>1. assemblies[id] \in Record
    BY <1>3 DEF CallRebuild, TypeOK
  <2>2. c \in Calls /\ WellFormed(c)
    BY <2>1 DEF For, Idle, Calls, Pcs, WellFormed
  <2>3. Serve(t, c)
    BY <1>3 DEF CallRebuild
  <2> HIDE DEF c
  <2> QED
    BY <1>0, <1>3, <2>2, <2>3, ServeType DEF CallRebuild, TypeOK, panel, history
<1>4. CASE CallDelete(t, id)
  BY <1>4, <1>0 DEF CallDelete, Put, TypeOK, panel, history
<1>5. CASE CallPurge(t, id)
  <2>1. CASE Running(assemblies[id])
    BY <1>0, <1>a, <1>5, <2>1, ServeType, CancelingType DEF CallPurge, TypeOK, panel, history
  <2>2. CASE ~ Running(assemblies[id])
    <3>1. [For(id) EXCEPT !.pc = "delete"] \in Calls
      BY DEF For, Idle, Calls, Pcs
    <3>2. WellFormed([For(id) EXCEPT !.pc = "delete"])
      BY DEF For, Idle, WellFormed
    <3> QED
      BY <1>0, <1>5, <2>2, <3>1, <3>2, ServeType DEF CallPurge, TypeOK, panel, history
  <2> QED
    BY <2>1, <2>2
<1> QED
  BY <1>1, <1>2, <1>3, <1>4, <1>5 DEF UserCall

LEMMA FieldTypes ==
  ASSUME TypeOK, NEW t \in Threads
  PROVE  /\ call[t].pc \in Pcs /\ call[t].id \in Ids \cup {Absent}
         /\ call[t].target \in Ids \cup {Absent} /\ call[t].read \in NoRecord
         /\ call[t].kept \in NoRecord /\ call[t].todo \in SUBSET Ids
         /\ call[t].then \in {"idle", "rebuildPut", "delete", "sweep"}
         /\ WellFormed(call[t])
BY DEF TypeOK, Calls

LEMMA RecordWithState ==
  ASSUME NEW r \in Record, NEW s \in States
  PROVE  WithState(r, s) \in Record
BY DEF WithState, Record

\* Destroy tasks are natural numbers per phase.
LEMMA SpawnType ==
  ASSUME TypeOK, NEW id \in Ids, Spawn(id)
  PROVE  destroyers' \in [Ids -> [DestroyPhases -> Nat]]
<1>1. destroyers[id] \in [DestroyPhases -> Nat] /\ "cancel" \in DestroyPhases
  BY DEF TypeOK, DestroyPhases
<1>2. [destroyers[id] EXCEPT !["cancel"] = @ + 1] \in [DestroyPhases -> Nat]
  BY <1>1
<1> QED
  BY <1>1, <1>2 DEF Spawn, TypeOK

\* A step of a task leaves every phase a phase.
LEMMA GotoType ==
  ASSUME TypeOK, NEW id \in Ids, NEW n \in Attempts, NEW p \in TaskPhases, Goto(id, n, p)
  PROVE  task' \in [Ids -> [Attempts -> TaskPhases]]
<1>1. [task[id] EXCEPT ![n] = p] \in [Attempts -> TaskPhases]
  BY DEF TypeOK
<1> QED
  BY <1>1 DEF Goto, TypeOK

LEMMA StartAttemptType ==
  ASSUME TypeOK, NEW id \in Ids, NEW n \in Attempts, StartAttempt(id, n)
  PROVE  /\ attempts' \in [Ids -> 0 .. MaxAttempts]
         /\ task' \in [Ids -> [Attempts -> TaskPhases]]
<1>1. "queued" \in TaskPhases
  BY DEF TaskPhases
<1>2. task' \in [Ids -> [Attempts -> TaskPhases]]
  BY <1>1, GotoType DEF StartAttempt, Goto
<1> QED
  BY <1>2 DEF StartAttempt, TypeOK

\* The steps of a call under way.
LEMMA CallStepType ==
  ASSUME TypeOK, NEW t \in Threads, CallStep(t)
  PROVE  TypeOK'
<1>0. call[t] \in Calls
  BY DEF TypeOK
<1>1. CASE CancelPut(t)
  <2> DEFINE id == call[t].target
  <2>1. call[t].read \in Record /\ id \in Ids
    BY <1>1, FieldTypes DEF CancelPut, WellFormed
  <2>2. WithState(call[t].read, "CANCELED") \in Record
    BY <2>1, RecordWithState DEF States
  <2>3. Resumed(call[t]) \in Calls /\ WellFormed(Resumed(call[t]))
    BY FieldTypes, IdleIsCall DEF Resumed, Calls, Pcs, WellFormed
  <2>4. /\ call' \in [Threads -> Calls]
        /\ \A u \in Threads : WellFormed(call'[u])
    BY <1>1, <2>3, ServeType DEF CancelPut
  <2>5. assemblies' \in [Ids -> NoRecord]
    BY <1>1, <2>1, <2>2 DEF CancelPut, Put, TypeOK
  <2>6. destroyers' \in [Ids -> [DestroyPhases -> Nat]]
    BY <1>1, <2>1, SpawnType DEF CancelPut, TypeOK
  <2> QED
    BY <1>1, <2>1, <2>4, <2>5, <2>6 DEF CancelPut, TypeOK
<1>2. CASE RebuildCancel(t)
  <2>1. call[t].id \in Ids /\ call[t].kept \in Record
    BY <1>2, FieldTypes DEF RebuildCancel, WellFormed
  <2>2. CASE assemblies[call[t].id] = Absent
    BY <1>2, <2>2, ServeType, IdleIsCall DEF RebuildCancel, TypeOK, panel, history
  <2>3. CASE Running(assemblies[call[t].id])
    <3>1. assemblies[call[t].id] # Absent
      BY <2>3 DEF Running
    <3> QED
      BY <1>0, <1>2, <2>1, <2>3, <3>1, FieldTypes, ServeType, CancelingType
      DEF RebuildCancel, TypeOK, panel, history
  <2>4. CASE assemblies[call[t].id] # Absent /\ ~ Running(assemblies[call[t].id])
    <3>1. At(t, "rebuildPut") \in Calls /\ WellFormed(At(t, "rebuildPut"))
      BY <1>0, <2>1, <1>2, FieldTypes DEF RebuildCancel, At, Calls, Pcs, WellFormed
    <3> QED
      BY <1>2, <2>4, <3>1, ServeType DEF RebuildCancel, TypeOK, panel, history
  <2> QED
    BY <2>2, <2>3, <2>4
<1>3. CASE RebuildPut(t)
  <2> DEFINE id == call[t].id
             n == attempts[id] + 1
             r == [call[t].kept EXCEPT !.state = "RESTARTED", !.attempt = n, !.artifacts = FALSE]
  <2>1. call[t].kept \in Record /\ id \in Ids /\ n \in Attempts
    BY <1>3, FieldTypes DEF RebuildPut, WellFormed
  <2>2. r \in Record
    BY <2>1 DEF Record, States, RunningStates
  <2>3. assemblies' \in [Ids -> NoRecord]
    BY <1>3, <2>1, <2>2 DEF RebuildPut, Put, TypeOK
  <2>4. /\ attempts' \in [Ids -> 0 .. MaxAttempts]
        /\ task' \in [Ids -> [Attempts -> TaskPhases]]
    BY <1>3, <2>1, StartAttemptType DEF RebuildPut
  <2>5. disturbed' \in [Ids -> BOOLEAN]
    BY <1>3 DEF RebuildPut, TypeOK, Settled
  <2> QED
    BY <1>3, <2>3, <2>4, <2>5, ServeType, IdleIsCall DEF RebuildPut, StartAttempt, TypeOK
<1>4. CASE DeleteAfterCancel(t)
  <2>1. call[t].id \in Ids
    BY <1>4, FieldTypes DEF DeleteAfterCancel, WellFormed
  <2> QED
    BY <1>4, <2>1, ServeType, IdleIsCall DEF DeleteAfterCancel, Put, TypeOK, panel, history
<1>5. CASE Sweep(t)
  <2>1. PICK old \in call[t].todo :
          LET rest == [call[t] EXCEPT !.todo = @ \ {old}]
          IN Serve(t, IF assemblies[old] = Absent THEN Idle
                      ELSE IF Running(assemblies[old]) THEN Canceling(rest, old, "sweep")
                      ELSE rest)
    BY <1>5 DEF Sweep
  <2>a. forsaken' \subseteq Ids
    BY <1>5, FieldTypes DEF Sweep, Left, TypeOK
  <2> DEFINE rest == [call[t] EXCEPT !.todo = @ \ {old}]
  <2>2. old \in Ids
    BY FieldTypes
  <2>3. rest \in Calls /\ WellFormed(rest)
    BY <1>0, FieldTypes DEF Calls, WellFormed
  <2> HIDE DEF rest
  <2>4. CASE assemblies[old] = Absent
    BY <1>5, <2>a, <2>1, <2>4, ServeType, IdleIsCall DEF Sweep, TypeOK, panel
  <2>5. CASE assemblies[old] # Absent /\ Running(assemblies[old])
    <3>1. Serve(t, Canceling(rest, old, "sweep"))
      BY <2>1, <2>5 DEF rest
    <3> QED
      BY <1>5, <2>a, <2>2, <2>3, <2>5, <3>1, ServeType, CancelingType DEF Sweep, TypeOK, panel
  <2>6. CASE assemblies[old] # Absent /\ ~ Running(assemblies[old])
    <3>1. Serve(t, rest)
      BY <2>1, <2>6 DEF rest
    <3> QED
      BY <1>5, <2>a, <2>3, <3>1, ServeType DEF Sweep, TypeOK, panel
  <2> QED
    BY <2>4, <2>5, <2>6
<1>6. CASE BuildPut(t)
  <2>1. call[t].id \in Ids
    BY <1>6, FieldTypes DEF BuildPut
  <2>2. [state |-> "STARTED", attempt |-> 1, artifacts |-> FALSE] \in Record
    BY DEF Record, States, RunningStates
  <2>3. assemblies' \in [Ids -> NoRecord]
    BY <1>6, <2>1, <2>2 DEF BuildPut, Put, TypeOK
  <2>4. /\ attempts' \in [Ids -> 0 .. MaxAttempts]
        /\ task' \in [Ids -> [Attempts -> TaskPhases]]
    BY <1>6, <2>1, StartAttemptType DEF BuildPut
  <2> QED
    BY <1>6, <2>1, <2>3, <2>4, ServeType, IdleIsCall
    DEF BuildPut, StartAttempt, TypeOK, history
<1> QED
  BY <1>1, <1>2, <1>3, <1>4, <1>5, <1>6 DEF CallStep

\* Half a handler: what it read is a record or nothing.
LEMMA ReadRunningType ==
  ASSUME TypeOK, NEW id \in Ids, NEW n \in Attempts, NEW r \in NoRecord,
         NEW found \in TaskPhases, NEW missing \in TaskPhases,
         ReadRunning(id, n, r, found, missing),
         destroyers' \in [Ids -> [DestroyPhases -> Nat]]
  PROVE  TypeOK'
<1>1. task' \in [Ids -> [Attempts -> TaskPhases]]
  BY GotoType DEF ReadRunning
<1>2. copy' \in [Ids -> [Attempts -> NoRecord]]
  <2>1. [copy[id] EXCEPT ![n] = r] \in [Attempts -> NoRecord]
    BY DEF TypeOK
  <2> QED
    BY <2>1 DEF ReadRunning, TypeOK
<1> QED
  BY <1>1, <1>2 DEF ReadRunning, TypeOK, history

LEMMA WriteBackType ==
  ASSUME TypeOK, NEW id \in Ids, NEW n \in Attempts, NEW p \in TaskPhases,
         WriteBack(id, n, p), destroyers' \in [Ids -> [DestroyPhases -> Nat]]
  PROVE  TypeOK'
<1>1. task' \in [Ids -> [Attempts -> TaskPhases]]
  BY GotoType DEF WriteBack
<1>2. copy' \in [Ids -> [Attempts -> NoRecord]]
  <2>1. [copy[id] EXCEPT ![n] = Absent] \in [Attempts -> NoRecord]
    BY DEF TypeOK
  <2> QED
    BY <2>1 DEF WriteBack, TypeOK
<1>3. assemblies' \in [Ids -> NoRecord]
  BY DEF WriteBack, Put, TypeOK
<1> QED
  BY <1>1, <1>2, <1>3 DEF WriteBack, TypeOK, history

LEMMA MoveType ==
  ASSUME TypeOK, NEW id \in Ids, NEW n \in Attempts, NEW p \in TaskPhases, Move(id, n, p)
  PROVE  TypeOK'
<1>1. task' \in [Ids -> [Attempts -> TaskPhases]]
  BY GotoType DEF Move
<1> QED
  BY <1>1 DEF Move, TypeOK, history

LEMMA HandedOutRecords ==
  ASSUME NEW n \in Attempts
  PROVE  /\ Stamped(n) \in Record
         /\ WithState(Stamped(n), "BUILDING") \in Record
         /\ FinalEvent(n) \in Record
BY DEF Stamped, FinalEvent, WithState, Record, States, RunningStates

\* The steps of an attempt's task and of its stream.
LEMMA AttemptType ==
  ASSUME TypeOK, NEW id \in Ids, NEW n \in Attempts,
         TaskStep(id, n) \/ StreamEnd(id, n) \/ AgentProgress(id, n)
  PROVE  TypeOK'
<1> USE DEF TaskPhases
<1>d. UNCHANGED destroyers => destroyers' \in [Ids -> [DestroyPhases -> Nat]]
  BY DEF TypeOK
<1>1. CASE Check(id, n)
  BY <1>1, MoveType DEF Check
<1>2. CASE StopAbandoned(id, n)
  BY <1>2, GotoType DEF StopAbandoned, PodGone, TypeOK
<1>3. CASE StartAgent(id, n)
  BY <1>3, GotoType DEF StartAgent, PodCreated, TypeOK
<1>4. CASE AgentReady(id, n)
  BY <1>4, MoveType DEF AgentReady
<1>5. CASE StartFails(id, n)
  BY <1>5, MoveType DEF StartFails
<1>6. CASE ReadForStamp(id, n)
  BY <1>6, <1>d, ReadRunningType, HandedOutRecords DEF ReadForStamp
<1>7. CASE StampPut(id, n)
  BY <1>7, <1>d, WriteBackType DEF StampPut
<1>8. CASE Subscribe(id, n)
  BY <1>8, GotoType DEF Subscribe, TypeOK, history
<1>9. CASE EventPut(id, n)
  BY <1>9, <1>d, WriteBackType DEF EventPut
<1>10. ASSUME NEW s \in States, NEW found \in TaskPhases, ReadOutcome(id, n, s, found)
       PROVE  TypeOK'
  <2> DEFINE r == IF Running(assemblies[id]) THEN WithState(assemblies[id], s) ELSE Absent
  <2>1. r \in NoRecord
    BY RecordWithState DEF Running, TypeOK
  <2>2. destroyers' \in [Ids -> [DestroyPhases -> Nat]]
    BY <1>d, <1>10, SpawnType DEF ReadOutcome
  <2> QED
    BY <1>10, <2>1, <2>2, ReadRunningType DEF ReadOutcome
<1>11. CASE HandleError(id, n)
  BY <1>10, <1>11 DEF HandleError, States
<1>12. CASE OutcomePut(id, n)
  BY <1>12, SpawnType, WriteBackType DEF OutcomePut
<1>13. CASE AgentFinal(id, n)
  BY <1>13, <1>d, ReadRunningType, HandedOutRecords DEF AgentFinal
<1>14. CASE AgentCompletes(id, n)
  BY <1>10, <1>14 DEF AgentCompletes, States
<1>15. CASE StreamFails(id, n)
  BY <1>15, MoveType DEF StreamFails
<1>16. CASE AgentProgress(id, n)
  BY <1>16, <1>d, ReadRunningType, HandedOutRecords DEF AgentProgress
<1> QED
  BY <1>1, <1>2, <1>3, <1>4, <1>5, <1>6, <1>7, <1>8, <1>9, <1>11, <1>12, <1>13, <1>14,
     <1>15, <1>16 DEF TaskStep, StreamEnd

\* destroyAgent.
LEMMA DestroyType ==
  ASSUME TypeOK, NEW id \in Ids, DestroyStep(id)
  PROVE  TypeOK'
<1>0. destroyers[id] \in [DestroyPhases -> Nat]
  BY DEF TypeOK
<1>a. ASSUME NEW p \in DestroyPhases, NEW q \in DestroyPhases, Advance(id, p, q)
      PROVE  destroyers' \in [Ids -> [DestroyPhases -> Nat]]
  <2>1. [destroyers[id] EXCEPT ![p] = @ - 1] \in [DestroyPhases -> Nat]
    BY <1>0, <1>a DEF Advance
  <2>2. [[destroyers[id] EXCEPT ![p] = @ - 1] EXCEPT ![q] = @ + 1] \in [DestroyPhases -> Nat]
    BY <2>1
  <2> QED
    BY <1>a, <2>2 DEF Advance, TypeOK
<1>b. ASSUME NEW p \in DestroyPhases, destroyers[id][p] > 0,
             destroyers' = [destroyers EXCEPT ![id][p] = @ - 1]
      PROVE  destroyers' \in [Ids -> [DestroyPhases -> Nat]]
  <2>1. [destroyers[id] EXCEPT ![p] = @ - 1] \in [DestroyPhases -> Nat]
    BY <1>0, <1>b
  <2> QED
    BY <1>b, <2>1 DEF TypeOK
<1>p. {"cancel", "stop", "remove"} \subseteq DestroyPhases
  BY DEF DestroyPhases
<1>1. CASE DestroyCancel(id)
  <2>1. canceled' \subseteq Ids \X Attempts
    BY <1>1 DEF DestroyCancel, TypeOK
  <2>2. destroyers' \in [Ids -> [DestroyPhases -> Nat]]
    BY <1>1, <1>a, <1>p DEF DestroyCancel
  <2> QED
    BY <1>1, <2>1, <2>2 DEF DestroyCancel, Advance, TypeOK
<1>2. CASE DestroyStop(id)
  <2>1. destroyers' \in [Ids -> [DestroyPhases -> Nat]]
    BY <1>2, <1>a, <1>p DEF DestroyStop
  <2> QED
    BY <1>2, <2>1 DEF DestroyStop, Advance, PodGone, TypeOK
<1>3. CASE DestroyStopFails(id)
  <2>1. destroyers' \in [Ids -> [DestroyPhases -> Nat]]
    BY <1>3, <1>b, <1>p DEF DestroyStopFails
  <2> QED
    BY <1>3, <2>1 DEF DestroyStopFails, TypeOK
<1>4. CASE DestroyRemove(id)
  <2>1. destroyers' \in [Ids -> [DestroyPhases -> Nat]]
    BY <1>4, <1>b, <1>p DEF DestroyRemove
  <2> QED
    BY <1>4, <2>1 DEF DestroyRemove, TypeOK, history
<1> QED
  BY <1>1, <1>2, <1>3, <1>4 DEF DestroyStep

\* A crash, and the sweep of the restarted panel.
LEMMA RestartType ==
  ASSUME TypeOK, RecoveryStep \/ Crash
  PROVE  TypeOK'
<1>0. Recovery \in Threads
  OBVIOUS
<1>1. CASE StopRunningAssemblies
  <2> DEFINE c == [Idle EXCEPT !.pc = "sweep", !.todo = {id \in Ids : Running(assemblies[id])}]
  <2>1. c \in Calls /\ WellFormed(c)
    BY DEF Idle, Calls, Pcs, WellFormed
  <2>2. Serve(Recovery, c)
    BY <1>1 DEF StopRunningAssemblies
  <2> HIDE DEF c
  <2> QED
    BY <1>0, <1>1, <2>1, <2>2, ServeType DEF StopRunningAssemblies, TypeOK, panel, history
<1>2. CASE RecoveryDone
  BY <1>0, <1>2, ServeType, IdleIsCall DEF RecoveryDone, TypeOK, panel, history
<1>3. CASE Crash
  <2>1. /\ call' \in [Threads -> Calls]
        /\ \A t \in Threads : WellFormed(call'[t])
    <3>1. /\ [Idle EXCEPT !.pc = "sweepRead"] \in Calls
          /\ WellFormed([Idle EXCEPT !.pc = "sweepRead"])
      BY DEF Idle, Calls, Pcs, WellFormed
    <3> QED
      BY <1>3, <3>1, IdleIsCall DEF Crash
  <2>2. task' \in [Ids -> [Attempts -> TaskPhases]]
    BY <1>3 DEF Crash, TypeOK, TaskPhases
  <2>3. destroyers' \in [Ids -> [DestroyPhases -> Nat]]
    BY <1>3 DEF Crash
  <2>4. crashes' \in 0 .. MaxCrashes
    BY <1>3 DEF Crash, TypeOK
  <2>5. copy' \in [Ids -> [Attempts -> NoRecord]] /\ subscriptions' \in [Ids -> 0 .. MaxAttempts]
    BY <1>3 DEF Crash
  <2>6. /\ assemblies' \in [Ids -> NoRecord] /\ attempts' \in [Ids -> 0 .. MaxAttempts]
        /\ pods' \subseteq Ids /\ disturbed' \in [Ids -> BOOLEAN] /\ barred' \subseteq Ids
        /\ leaked' \subseteq pods' /\ canceled' \subseteq Ids \X Attempts
        /\ forsaken' \subseteq Ids
    BY <1>3 DEF Crash, TypeOK
  <2> QED
    BY <2>1, <2>2, <2>3, <2>4, <2>5, <2>6 DEF TypeOK
<1> QED
  BY <1>1, <1>2, <1>3 DEF RecoveryStep

LEMMA NextType == TypeOK /\ [Next]_vars => TypeOK'
<1> SUFFICES ASSUME TypeOK, [Next]_vars PROVE TypeOK'
  OBVIOUS
<1>1. CASE Next
  BY <1>1, UserCallType, CallStepType, AttemptType, DestroyType, RestartType DEF Next
<1>2. CASE UNCHANGED vars
  BY <1>2 DEF vars, panel, history, TypeOK
<1> QED
  BY <1>1, <1>2

\* Every reachable state is well-typed: records, tasks, registered streams and
\* calls of AssemblyService and ProjectAssemblyService keep their shape, and a
\* pod counts as left behind only while it exists.
THEOREM TypeCorrect == Spec => []TypeOK
BY InitType, NextType, PTL DEF Spec

-----------------------------------------------------------------------------
(* No builder's pod is forgotten.                                          *)

\* Attempts not started yet have no task: a new attempt displaces none.
Unstarted == \A id \in Ids, n \in Attempts : n > attempts[id] => task[id][n] = "none"

\* Only a task that connected its agent has a stream that is registered or cut.
Connected == StreamPhases \cup {"completePut", "failing", "failPut", "done"}
CutWereConnected ==
  \A id \in Ids, n \in Attempts :
    <<id, n>> \in canceled \/ subscriptions[id] = n => task[id][n] \in Connected

KeeperInv == PodHasKeeper /\ Unstarted /\ CutWereConnected

\* The attempt is past its start and will take another step.
Active(id, n) == Live(id, n) /\ task[id][n] \notin {"queued", "starting"}

\* What a step of an attempt does to its phase and to the streams.
LEMMA AttemptMoves ==
  ASSUME TypeOK, NEW id \in Ids, NEW n \in Attempts,
         TaskStep(id, n) \/ StreamEnd(id, n) \/ AgentProgress(id, n)
  PROVE  /\ task[id][n] # "none"
         /\ \E p \in TaskPhases : Goto(id, n, p) /\ (task[id][n] \in Connected => p \in Connected)
         /\ UNCHANGED <<attempts, canceled>>
         /\ \/ UNCHANGED subscriptions
            \/ /\ subscriptions' = [subscriptions EXCEPT ![id] = n]
               /\ task' = [task EXCEPT ![id][n] = "streaming"]
<1> USE DEF TaskPhases, Connected, StreamPhases
<1>1. CASE Check(id, n)
  BY <1>1 DEF Check, Move
<1>2. CASE StopAbandoned(id, n)
  BY <1>2 DEF StopAbandoned
<1>3. CASE StartAgent(id, n)
  BY <1>3 DEF StartAgent
<1>4. CASE AgentReady(id, n)
  BY <1>4 DEF AgentReady, Move
<1>5. CASE StartFails(id, n)
  BY <1>5 DEF StartFails, Move
<1>6. CASE ReadForStamp(id, n)
  BY <1>6 DEF ReadForStamp, ReadRunning
<1>7. CASE StampPut(id, n)
  BY <1>7 DEF StampPut, WriteBack
<1>8. CASE Subscribe(id, n)
  BY <1>8 DEF Subscribe, Goto
<1>9. CASE EventPut(id, n)
  BY <1>9 DEF EventPut, WriteBack
<1>11. CASE HandleError(id, n)
  BY <1>11 DEF HandleError, ReadOutcome, ReadRunning
<1>12. CASE OutcomePut(id, n)
  BY <1>12 DEF OutcomePut, WriteBack
<1>13. CASE AgentFinal(id, n)
  BY <1>13 DEF AgentFinal, ReadRunning, Open
<1>14. CASE AgentCompletes(id, n)
  BY <1>14 DEF AgentCompletes, ReadOutcome, ReadRunning, Open
<1>15. CASE StreamFails(id, n)
  BY <1>15 DEF StreamFails, Move, Open
<1>16. CASE AgentProgress(id, n)
  BY <1>16 DEF AgentProgress, ReadRunning, Open
<1> QED
  BY <1>1, <1>2, <1>3, <1>4, <1>5, <1>6, <1>7, <1>8, <1>9, <1>11, <1>12, <1>13, <1>14,
     <1>15, <1>16 DEF TaskStep, StreamEnd

\* A call touches tasks only by queueing the next attempt or a destroy task.
LEMMA CallMoves ==
  ASSUME TypeOK,
         \/ \E t \in Callers, id \in Ids : UserCall(t, id)
         \/ \E t \in Threads : CallStep(t)
         \/ RecoveryStep
  PROVE  /\ UNCHANGED <<canceled, subscriptions, pods, leaked>>
         /\ \/ UNCHANGED <<attempts, task, destroyers>>
            \/ UNCHANGED <<attempts, task>> /\ \E id \in Ids : Spawn(id)
            \/ \E id \in Ids : attempts[id] + 1 \in Attempts /\ StartAttempt(id, attempts[id] + 1)
<1>1. ASSUME NEW t \in Callers, NEW id \in Ids, UserCall(t, id)
      PROVE  UNCHANGED <<canceled, subscriptions, pods, leaked, attempts, task, destroyers>>
  BY <1>1 DEF UserCall, CallBuild, CallCancel, CallRebuild, CallDelete, CallPurge, panel, history
<1>2. ASSUME NEW t \in Threads, CancelPut(t)
      PROVE  /\ UNCHANGED <<canceled, subscriptions, pods, leaked, attempts, task>>
             /\ UNCHANGED destroyers \/ \E id \in Ids : Spawn(id)
  BY <1>2, FieldTypes DEF CancelPut, WellFormed
<1>3. ASSUME NEW t \in Threads, RebuildPut(t)
      PROVE  /\ UNCHANGED <<canceled, subscriptions, pods, leaked>>
             /\ \E id \in Ids : attempts[id] + 1 \in Attempts /\ StartAttempt(id, attempts[id] + 1)
  BY <1>3, FieldTypes DEF RebuildPut, WellFormed, StartAttempt
<1>4. ASSUME NEW t \in Threads, BuildPut(t)
      PROVE  /\ UNCHANGED <<canceled, subscriptions, pods, leaked>>
             /\ \E id \in Ids : attempts[id] + 1 \in Attempts /\ StartAttempt(id, attempts[id] + 1)
  <2>1. call[t].id \in Ids
    BY <1>4, FieldTypes DEF BuildPut
  <2>2. attempts[call[t].id] + 1 = 1 /\ 1 \in Attempts
    BY <1>4, <2>1 DEF BuildPut
  <2> QED
    BY <1>4, <2>1, <2>2 DEF BuildPut, StartAttempt, history
<1>5. ASSUME NEW t \in Threads, RebuildCancel(t) \/ DeleteAfterCancel(t) \/ Sweep(t)
      PROVE  UNCHANGED <<canceled, subscriptions, pods, leaked, attempts, task, destroyers>>
  BY <1>5 DEF RebuildCancel, DeleteAfterCancel, Sweep, panel, history
<1>6. ASSUME RecoveryStep
      PROVE  UNCHANGED <<canceled, subscriptions, pods, leaked, attempts, task, destroyers>>
  BY <1>6 DEF RecoveryStep, StopRunningAssemblies, RecoveryDone, panel, history
<1>7. ASSUME NEW t \in Threads, CallStep(t)
      PROVE  /\ UNCHANGED <<canceled, subscriptions, pods, leaked>>
             /\ \/ UNCHANGED <<attempts, task, destroyers>>
                \/ UNCHANGED <<attempts, task>> /\ \E id \in Ids : Spawn(id)
                \/ \E id \in Ids : attempts[id] + 1 \in Attempts /\ StartAttempt(id, attempts[id] + 1)
  BY <1>2, <1>3, <1>4, <1>5, <1>7 DEF CallStep
<1> QED
  BY <1>1, <1>6, <1>7

\* Spawning adds one task to the first phase of destroyAgent and takes none away.
LEMMA SpawnAdds ==
  ASSUME TypeOK, NEW id \in Ids, Spawn(id)
  PROVE  /\ destroyers'[id]["cancel"] > 0
         /\ \A i \in Ids : /\ destroyers[i]["cancel"] > 0 => destroyers'[i]["cancel"] > 0
                           /\ destroyers[i]["stop"] > 0 => destroyers'[i]["stop"] > 0
         /\ \A i \in Ids \ {id} : destroyers'[i] = destroyers[i]
<1>1. /\ destroyers[id] \in [DestroyPhases -> Nat]
      /\ "cancel" \in DestroyPhases /\ "stop" \in DestroyPhases
  BY DEF TypeOK, DestroyPhases
<1>2. destroyers' = [destroyers EXCEPT ![id] = [destroyers[id] EXCEPT !["cancel"] = @ + 1]]
  BY DEF Spawn
<1>3. /\ destroyers'[id]["cancel"] = destroyers[id]["cancel"] + 1
      /\ destroyers'[id]["stop"] = destroyers[id]["stop"]
      /\ \A i \in Ids \ {id} : destroyers'[i] = destroyers[i]
  BY <1>1, <1>2 DEF TypeOK
<1> QED
  BY <1>1, <1>3

\* A queued attempt takes the place of no task.
LEMMA StartAdds ==
  ASSUME TypeOK, Unstarted, NEW id \in Ids, attempts[id] + 1 \in Attempts,
         StartAttempt(id, attempts[id] + 1)
  PROVE  /\ task[id][attempts[id] + 1] = "none"
         /\ \A i \in Ids, m \in Attempts :
              task[i][m] # "none" => task'[i][m] = task[i][m]
<1>1. attempts[id] \in 0 .. MaxAttempts
  BY DEF TypeOK
<1>2. task[id][attempts[id] + 1] = "none"
  BY <1>1 DEF Unstarted
<1>3. task' = [task EXCEPT ![id] = [task[id] EXCEPT ![attempts[id] + 1] = "queued"]]
  BY DEF StartAttempt
<1> QED
  BY <1>2, <1>3 DEF TypeOK

\* destroyAgent moves no attempt, and cuts only the stream that is registered.
LEMMA DestroyMoves ==
  ASSUME TypeOK, NEW id \in Ids, DestroyStep(id)
  PROVE  /\ UNCHANGED <<attempts, task>>
         /\ \/ UNCHANGED canceled
            \/ /\ DestroyCancel(id) /\ subscriptions[id] # 0
               /\ canceled' = canceled \cup {<<id, subscriptions[id]>>}
         /\ UNCHANGED subscriptions \/ subscriptions' = [subscriptions EXCEPT ![id] = 0]
BY DEF DestroyStep, DestroyCancel, DestroyStop, DestroyStopFails, DestroyRemove, Advance, history

LEMMA UnstartedStep == TypeOK /\ Unstarted /\ [Next]_vars => Unstarted'
<1> SUFFICES ASSUME TypeOK, Unstarted, [Next]_vars,
                    NEW i \in Ids, NEW m \in Attempts, m > attempts'[i]
             PROVE  task'[i][m] = "none"
  BY DEF Unstarted
<1>1. CASE \/ \E t \in Callers, id \in Ids : UserCall(t, id)
           \/ \E t \in Threads : CallStep(t)
           \/ RecoveryStep
  <2>1. CASE UNCHANGED <<attempts, task>>
    BY <2>1 DEF Unstarted
  <2>2. CASE \E id \in Ids : attempts[id] + 1 \in Attempts /\ StartAttempt(id, attempts[id] + 1)
    <3>1. PICK id \in Ids : attempts[id] + 1 \in Attempts /\ StartAttempt(id, attempts[id] + 1)
      BY <2>2
    <3>2. /\ attempts' = [attempts EXCEPT ![id] = attempts[id] + 1]
          /\ task' = [task EXCEPT ![id] = [task[id] EXCEPT ![attempts[id] + 1] = "queued"]]
      BY <3>1 DEF StartAttempt
    <3> QED
      BY <3>1, <3>2 DEF Unstarted, TypeOK
  <2> QED
    BY <1>1, <2>1, <2>2, CallMoves
<1>2. ASSUME NEW id \in Ids, NEW n \in Attempts,
             TaskStep(id, n) \/ StreamEnd(id, n) \/ AgentProgress(id, n)
      PROVE  task'[i][m] = "none"
  <2>1. PICK p \in TaskPhases : Goto(id, n, p)
    BY <1>2, AttemptMoves
  <2>2. task' = [task EXCEPT ![id] = [task[id] EXCEPT ![n] = p]]
    BY <2>1 DEF Goto
  <2>3. task[id][n] # "none" /\ attempts' = attempts
    BY <1>2, AttemptMoves
  <2> QED
    BY <2>2, <2>3 DEF Unstarted, TypeOK
<1>3. ASSUME NEW id \in Ids, DestroyStep(id)
      PROVE  task'[i][m] = "none"
  BY <1>3, DestroyMoves DEF Unstarted
<1>4. CASE Crash
  BY <1>4 DEF Crash, Unstarted
<1>5. CASE UNCHANGED vars
  BY <1>5 DEF vars, panel, Unstarted
<1> QED
  BY <1>1, <1>2, <1>3, <1>4, <1>5 DEF Next

LEMMA CutWereConnectedStep ==
  TypeOK /\ Unstarted /\ CutWereConnected /\ [Next]_vars => CutWereConnected'
<1> SUFFICES ASSUME TypeOK, Unstarted, CutWereConnected, [Next]_vars,
                    NEW i \in Ids, NEW m \in Attempts,
                    <<i, m>> \in canceled' \/ subscriptions'[i] = m
             PROVE  task'[i][m] \in Connected
  BY DEF CutWereConnected
<1>0. "none" \notin Connected
  BY DEF Connected, StreamPhases
<1>1. CASE \/ \E t \in Callers, id \in Ids : UserCall(t, id)
           \/ \E t \in Threads : CallStep(t)
           \/ RecoveryStep
  <2>1. task[i][m] \in Connected
    BY <1>1, CallMoves DEF CutWereConnected
  <2>2. CASE UNCHANGED <<attempts, task>>
    BY <2>1, <2>2
  <2>3. CASE \E id \in Ids : attempts[id] + 1 \in Attempts /\ StartAttempt(id, attempts[id] + 1)
    BY <1>0, <2>1, <2>3, StartAdds
  <2> QED
    BY <1>1, <2>2, <2>3, CallMoves
<1>2. ASSUME NEW id \in Ids, NEW n \in Attempts,
             TaskStep(id, n) \/ StreamEnd(id, n) \/ AgentProgress(id, n)
      PROVE  task'[i][m] \in Connected
  <2>1. PICK p \in TaskPhases : Goto(id, n, p) /\ (task[id][n] \in Connected => p \in Connected)
    BY <1>2, AttemptMoves
  <2>2. task' = [task EXCEPT ![id] = [task[id] EXCEPT ![n] = p]]
    BY <2>1 DEF Goto
  <2>3. CASE task[i][m] \in Connected
    BY <2>1, <2>2, <2>3 DEF TypeOK
  <2>4. CASE task[i][m] \notin Connected
    <3>1. <<i, m>> \notin canceled' /\ subscriptions[i] # m
      BY <1>2, <2>4, AttemptMoves DEF CutWereConnected
    <3>2. /\ subscriptions' = [subscriptions EXCEPT ![id] = n]
          /\ task' = [task EXCEPT ![id][n] = "streaming"]
      BY <1>2, <3>1, AttemptMoves
    <3>3. i = id /\ m = n
      BY <3>1, <3>2 DEF TypeOK
    <3>4. task' = [task EXCEPT ![id] = [task[id] EXCEPT ![n] = "streaming"]]
      BY <3>2
    <3> QED
      BY <3>3, <3>4 DEF TypeOK, Connected, StreamPhases
  <2> QED
    BY <2>3, <2>4
<1>3. ASSUME NEW id \in Ids, DestroyStep(id)
      PROVE  task'[i][m] \in Connected
  <2>1. subscriptions'[i] = m => subscriptions[i] = m
    <3>1. UNCHANGED subscriptions \/ subscriptions' = [subscriptions EXCEPT ![id] = 0]
      BY <1>3, DestroyMoves
    <3>2. subscriptions \in [Ids -> 0 .. MaxAttempts] /\ m # 0
      BY DEF TypeOK
    <3> QED
      BY <3>1, <3>2
  <2>2. <<i, m>> \in canceled' => <<i, m>> \in canceled \/ subscriptions[i] = m
    BY <1>3, DestroyMoves
  <2> QED
    BY <1>3, <2>1, <2>2, DestroyMoves DEF CutWereConnected
<1>4. CASE Crash
  BY <1>4 DEF Crash
<1>5. CASE UNCHANGED vars
  BY <1>5 DEF vars, panel, CutWereConnected
<1> QED
  BY <1>1, <1>2, <1>3, <1>4, <1>5 DEF Next

\* What an attempt at work does for its own pod: unless the pod goes, or a task
\* to destroy it is queued, the attempt stays at work, or was not at work before.
LEMMA AttemptKeeps ==
  ASSUME TypeOK, CutWereConnected, NEW id \in Ids, NEW n \in Attempts,
         TaskStep(id, n) \/ StreamEnd(id, n) \/ AgentProgress(id, n),
         id \in pods' \ leaked'
  PROVE  \/ Active(id, n)'
         \/ destroyers'[id]["cancel"] > 0
         \/ id \in pods \ leaked /\ ~ Active(id, n)
<1> USE DEF Active, Live, StreamPhases
<1>a. ASSUME NEW p \in TaskPhases, Goto(id, n, p)
      PROVE  task'[id][n] = p
  <2>1. task' = [task EXCEPT ![id] = [task[id] EXCEPT ![n] = p]]
    BY <1>a DEF Goto
  <2> QED
    BY <2>1 DEF TypeOK
<1>b. Spawn(id) => destroyers'[id]["cancel"] > 0
  BY SpawnAdds
<1>c. UNCHANGED canceled
  BY AttemptMoves
<1> USE DEF TaskPhases
<1>1. CASE Check(id, n)
  <2>1. UNCHANGED <<pods, leaked>>
    BY <1>1 DEF Check, Move, history
  <2>2. task[id][n] = "recheck" => task'[id][n] \in {"failing", "stopping", "stamping"}
    BY <1>1, <1>a DEF Check, Move
  <2>3. task[id][n] \in {"queued", "recheck"}
    BY <1>1 DEF Check
  <2> QED
    BY <2>1, <2>2, <2>3
<1>2. CASE StopAbandoned(id, n)
  BY <1>2 DEF StopAbandoned, PodGone
<1>3. CASE StartAgent(id, n)
  BY <1>3, <1>a DEF StartAgent
<1>4. CASE AgentReady(id, n)
  BY <1>4, <1>a DEF AgentReady, Move
<1>5. CASE StartFails(id, n)
  BY <1>5, <1>a DEF StartFails, Move
<1>6. CASE ReadForStamp(id, n)
  BY <1>6, <1>a DEF ReadForStamp, ReadRunning
<1>7. CASE StampPut(id, n)
  BY <1>7, <1>a DEF StampPut, WriteBack
<1>8. CASE Subscribe(id, n)
  <2>1. <<id, n>> \notin canceled
    BY <1>8 DEF Subscribe, CutWereConnected, Connected
  <2> QED
    BY <1>8, <1>a, <1>c, <2>1 DEF Subscribe
<1>9. CASE EventPut(id, n)
  <2>1. task'[id][n] \in {"streaming", "finished"} /\ UNCHANGED <<pods, leaked>>
    BY <1>9, <1>a DEF EventPut, WriteBack, history
  <2>2. task[id][n] \in {"progressPut", "finalPut"}
    BY <1>9 DEF EventPut
  <2> QED
    BY <1>c, <2>1, <2>2
<1>11. CASE HandleError(id, n)
  BY <1>11, <1>a, <1>b DEF HandleError, ReadOutcome, ReadRunning
<1>12. CASE OutcomePut(id, n)
  BY <1>12, <1>b DEF OutcomePut
<1>13. CASE AgentFinal(id, n)
  BY <1>13, <1>a, <1>c DEF AgentFinal, ReadRunning, Open
<1>14. CASE AgentCompletes(id, n)
  BY <1>14, <1>a, <1>b, <1>c DEF AgentCompletes, ReadOutcome, ReadRunning, Open
<1>15. CASE StreamFails(id, n)
  BY <1>15, <1>a DEF StreamFails, Move, Open
<1>16. CASE AgentProgress(id, n)
  BY <1>16, <1>a, <1>c DEF AgentProgress, ReadRunning, Open
<1> QED
  BY <1>1, <1>2, <1>3, <1>4, <1>5, <1>6, <1>7, <1>8, <1>9, <1>11, <1>12, <1>13, <1>14,
     <1>15, <1>16 DEF TaskStep, StreamEnd

\* What a step of an attempt leaves alone.
LEMMA AttemptLeaves ==
  ASSUME TypeOK, NEW id \in Ids, NEW n \in Attempts,
         TaskStep(id, n) \/ StreamEnd(id, n) \/ AgentProgress(id, n)
  PROVE  /\ \A i \in Ids \ {id} : i \in pods' \ leaked' => i \in pods \ leaked
         /\ UNCHANGED destroyers \/ Spawn(id)
         /\ \A i \in Ids, m \in Attempts :
              <<i, m>> # <<id, n>> => task'[i][m] = task[i][m]
<1>1. \A i \in Ids, m \in Attempts : <<i, m>> # <<id, n>> => task'[i][m] = task[i][m]
  <2>1. PICK p \in TaskPhases : Goto(id, n, p)
    BY AttemptMoves
  <2>2. task' = [task EXCEPT ![id] = [task[id] EXCEPT ![n] = p]]
    BY <2>1 DEF Goto
  <2> QED
    BY <2>2 DEF TypeOK
<1>2. CASE StopAbandoned(id, n)
  BY <1>1, <1>2 DEF StopAbandoned, PodGone
<1>3. CASE StartAgent(id, n)
  BY <1>1, <1>3 DEF StartAgent, PodCreated
<1> DEFINE Kept == UNCHANGED <<pods, leaked>> /\ (UNCHANGED destroyers \/ Spawn(id))
<1>4. CASE Kept
  BY <1>1, <1>4
<1>5. Check(id, n) \/ AgentReady(id, n) \/ StartFails(id, n) \/ StreamFails(id, n) => Kept
  BY DEF Check, AgentReady, StartFails, StreamFails, Move, history
<1>6. ReadForStamp(id, n) \/ StampPut(id, n) \/ Subscribe(id, n) \/ EventPut(id, n) => Kept
  BY DEF ReadForStamp, StampPut, Subscribe, EventPut, ReadRunning, WriteBack, history
<1>7. HandleError(id, n) \/ OutcomePut(id, n) \/ AgentCompletes(id, n) => Kept
  BY DEF HandleError, OutcomePut, AgentCompletes, ReadOutcome, ReadRunning, WriteBack, history
<1>8. AgentFinal(id, n) \/ AgentProgress(id, n) => Kept
  BY DEF AgentFinal, AgentProgress, ReadRunning, history
<1> QED
  BY <1>2, <1>3, <1>4, <1>5, <1>6, <1>7, <1>8 DEF TaskStep, StreamEnd

\* What keeps a pod survives a step that neither moves the attempt, cuts its
\* stream, nor takes a destroy task away.
LEMMA KeeperSurvives ==
  ASSUME TypeOK, NEW id \in Ids, Keeper(id),
         \A m \in Attempts : Active(id, m) => Active(id, m)',
         destroyers[id]["cancel"] > 0 => destroyers'[id]["cancel"] > 0,
         destroyers[id]["stop"] > 0 => destroyers'[id]["stop"] > 0
  PROVE  Keeper(id)'
BY DEF Keeper, Active

LEMMA KeeperCall ==
  ASSUME TypeOK, PodHasKeeper, Unstarted,
         \/ \E t \in Callers, id \in Ids : UserCall(t, id)
         \/ \E t \in Threads : CallStep(t)
         \/ RecoveryStep,
         NEW i \in pods' \ leaked'
  PROVE  Keeper(i)'
<1>1. UNCHANGED <<canceled, pods, leaked>>
  BY CallMoves
<1>2. i \in Ids /\ Keeper(i)
  BY <1>1 DEF PodHasKeeper, TypeOK
<1>3. CASE UNCHANGED <<attempts, task, destroyers>>
  BY <1>1, <1>2, <1>3 DEF Keeper, Live
<1>4. CASE UNCHANGED <<attempts, task>> /\ \E id \in Ids : Spawn(id)
  <2>1. \A m \in Attempts : Active(i, m) => Active(i, m)'
    BY <1>1, <1>4 DEF Active, Live
  <2>2. /\ destroyers[i]["cancel"] > 0 => destroyers'[i]["cancel"] > 0
        /\ destroyers[i]["stop"] > 0 => destroyers'[i]["stop"] > 0
    BY <1>2, <1>4, SpawnAdds
  <2> QED
    BY <1>2, <2>1, <2>2, KeeperSurvives
<1>5. CASE \E id \in Ids : attempts[id] + 1 \in Attempts /\ StartAttempt(id, attempts[id] + 1)
  <2>1. \A m \in Attempts : task[i][m] # "none" => task'[i][m] = task[i][m]
    BY <1>2, <1>5, StartAdds
  <2>2. \A m \in Attempts : Active(i, m) => Active(i, m)'
    BY <1>1, <2>1 DEF Active, Live
  <2>3. UNCHANGED destroyers
    BY <1>5 DEF StartAttempt
  <2> QED
    BY <1>2, <2>2, <2>3, KeeperSurvives
<1> QED
  BY <1>3, <1>4, <1>5, CallMoves

LEMMA KeeperAttempt ==
  ASSUME TypeOK, PodHasKeeper, CutWereConnected, NEW id \in Ids, NEW n \in Attempts,
         TaskStep(id, n) \/ StreamEnd(id, n) \/ AgentProgress(id, n),
         NEW i \in Ids, i \in pods' \ leaked'
  PROVE  Keeper(i)'
<1>1. UNCHANGED canceled
  BY AttemptMoves
<1>2. /\ destroyers[i]["cancel"] > 0 => destroyers'[i]["cancel"] > 0
      /\ destroyers[i]["stop"] > 0 => destroyers'[i]["stop"] > 0
  BY AttemptLeaves, SpawnAdds
<1>3. \A m \in Attempts : <<i, m>> # <<id, n>> => (Active(i, m) => Active(i, m)')
  BY <1>1, AttemptLeaves DEF Active, Live
<1>4. CASE i # id
  <2>1. Keeper(i)
    BY <1>4, AttemptLeaves DEF PodHasKeeper
  <2> QED
    BY <1>2, <1>3, <1>4, <2>1, KeeperSurvives
<1>5. CASE i = id
  <2>1. CASE Active(id, n)'
    BY <1>5, <2>1 DEF Active, Keeper
  <2>2. CASE destroyers'[id]["cancel"] > 0
    BY <1>5, <2>2 DEF Keeper
  <2>3. CASE id \in pods \ leaked /\ ~ Active(id, n)
    <3>1. Keeper(i)
      BY <1>5, <2>3 DEF PodHasKeeper
    <3>2. \A m \in Attempts : Active(i, m) => Active(i, m)'
      BY <1>3, <1>5, <2>3
    <3> QED
      BY <1>2, <3>1, <3>2, KeeperSurvives
  <2> QED
    BY <1>5, <2>1, <2>2, <2>3, AttemptKeeps
<1> QED
  BY <1>4, <1>5

\* Arithmetic of the phases of destroyAgent.
LEMMA PhaseSteps ==
  ASSUME TypeOK, NEW id \in Ids, NEW from \in DestroyPhases, NEW to \in DestroyPhases,
         from # to, Advance(id, from, to)
  PROVE  /\ destroyers'[id][to] > 0
         /\ \A i \in Ids \ {id} : destroyers'[i] = destroyers[i]
<1>1. destroyers[id] \in [DestroyPhases -> Nat] /\ destroyers \in [Ids -> [DestroyPhases -> Nat]]
  BY DEF TypeOK
<1>2. destroyers' = [destroyers EXCEPT ![id] =
                       [[destroyers[id] EXCEPT ![from] = @ - 1] EXCEPT ![to] = @ + 1]]
  BY <1>1 DEF Advance
<1>3. destroyers'[id][to] = destroyers[id][to] + 1
  BY <1>1, <1>2
<1> QED
  BY <1>1, <1>2, <1>3

LEMMA KeeperDestroy ==
  ASSUME TypeOK, PodHasKeeper, NEW id \in Ids, DestroyStep(id),
         NEW i \in Ids, i \in pods' \ leaked'
  PROVE  Keeper(i)'
<1>p. "cancel" \in DestroyPhases /\ "stop" \in DestroyPhases /\ "remove" \in DestroyPhases
  BY DEF DestroyPhases
<1>t. destroyers \in [Ids -> [DestroyPhases -> Nat]] /\ destroyers[id] \in [DestroyPhases -> Nat]
  BY DEF TypeOK
<1>a. UNCHANGED task /\ (i # id => \A m \in Attempts : <<i, m>> \in canceled' => <<i, m>> \in canceled)
  BY DestroyMoves
<1>1. CASE i = id /\ DestroyCancel(id)
  BY <1>p, <1>1, PhaseSteps DEF DestroyCancel, Keeper
<1>2. CASE i = id /\ DestroyStop(id)
  BY <1>2 DEF DestroyStop, PodGone
<1>3. CASE i = id /\ DestroyStopFails(id)
  BY <1>3 DEF DestroyStopFails
<1>4. CASE i = id /\ DestroyRemove(id)
  <2>1. UNCHANGED <<pods, leaked, canceled>>
    BY <1>4 DEF DestroyRemove, history
  <2>2. destroyers' = [destroyers EXCEPT ![id] = [destroyers[id] EXCEPT !["remove"] = @ - 1]]
    BY <1>4 DEF DestroyRemove
  <2>3. /\ destroyers'[id]["cancel"] = destroyers[id]["cancel"]
        /\ destroyers'[id]["stop"] = destroyers[id]["stop"]
    BY <1>p, <1>t, <2>2
  <2>4. Keeper(id)
    BY <1>4, <2>1 DEF PodHasKeeper
  <2>5. \A m \in Attempts : Active(id, m) => Active(id, m)'
    BY <1>a, <2>1 DEF Active, Live
  <2> QED
    BY <1>4, <2>3, <2>4, <2>5, KeeperSurvives
<1>5. CASE i # id
  <2>1. i \in pods \ leaked
    BY <1>5 DEF DestroyStep, DestroyCancel, DestroyStop, DestroyStopFails, DestroyRemove,
               PodGone, history
  <2>2. destroyers'[i] = destroyers[i]
    <3>1. CASE DestroyCancel(id) \/ DestroyStop(id)
      BY <1>p, <1>5, <3>1, PhaseSteps DEF DestroyCancel, DestroyStop
    <3>2. CASE DestroyStopFails(id) \/ DestroyRemove(id)
      BY <1>t, <1>5, <3>2 DEF DestroyStopFails, DestroyRemove
    <3> QED
      BY <3>1, <3>2 DEF DestroyStep
  <2>3. Keeper(i)
    BY <2>1 DEF PodHasKeeper
  <2>4. \A m \in Attempts : Active(i, m) => Active(i, m)'
    BY <1>5, <1>a DEF Active, Live
  <2> QED
    BY <2>2, <2>3, <2>4, KeeperSurvives
<1> QED
  BY <1>1, <1>2, <1>3, <1>4, <1>5 DEF DestroyStep

LEMMA KeeperStep == TypeOK /\ KeeperInv /\ [Next]_vars => KeeperInv'
<1> SUFFICES ASSUME TypeOK, KeeperInv, [Next]_vars PROVE KeeperInv'
  OBVIOUS
<1>1. Unstarted' /\ CutWereConnected'
  BY UnstartedStep, CutWereConnectedStep DEF KeeperInv
<1>2. ASSUME NEW i \in pods' \ leaked'
      PROVE  Keeper(i)'
  <2>0. i \in Ids /\ PodHasKeeper /\ Unstarted /\ CutWereConnected
    BY NextType DEF TypeOK, KeeperInv
  <2>1. CASE \/ \E t \in Callers, id \in Ids : UserCall(t, id)
             \/ \E t \in Threads : CallStep(t)
             \/ RecoveryStep
    BY <1>2, <2>0, <2>1, KeeperCall
  <2>2. CASE \E id \in Ids, n \in Attempts :
               TaskStep(id, n) \/ StreamEnd(id, n) \/ AgentProgress(id, n)
    BY <1>2, <2>0, <2>2, KeeperAttempt
  <2>3. CASE \E id \in Ids : DestroyStep(id)
    BY <1>2, <2>0, <2>3, KeeperDestroy
  <2>4. CASE Crash
    BY <1>2, <2>4 DEF Crash
  <2>5. CASE UNCHANGED vars
    BY <1>2, <2>0, <2>5 DEF vars, panel, history, PodHasKeeper, Keeper, Live
  <2> QED
    BY <2>1, <2>2, <2>3, <2>4, <2>5 DEF Next
<1> QED
  BY <1>1, <1>2 DEF KeeperInv, PodHasKeeper

LEMMA KeeperHolds == Spec => []KeeperInv
<1>1. Init => KeeperInv
  BY DEF Init, KeeperInv, PodHasKeeper, Unstarted, CutWereConnected
<1> QED
  BY <1>1, TypeCorrect, KeeperStep, PTL DEF Spec

\* No builder's pod is ever forgotten: in every reachable state each pod that no
\* crash and no failed stop left behind has an attempt past its start, or a
\* destroyAgent task, that has still to stop it.
THEOREM PodsAreKept == Spec => []PodHasKeeper
<1>1. KeeperInv => PodHasKeeper
  BY DEF KeeperInv
<1> QED
  BY <1>1, KeeperHolds, PTL

-----------------------------------------------------------------------------
(* What is stored.  Of an assembly that nobody disturbed only the newest   *)
(* attempt is at work, and it agrees with the stored record.               *)

\* The attempt will take another step, or its stream is inside a handler.
AtWork(id, n) == Live(id, n) \/ task[id][n] \in {"progressPut", "finalPut"}

ToPut == {"stampPut", "progressPut", "finalPut", "completePut", "failPut"}

\* Record r is what attempt n may put where it stands.
Fits(r, n, phase) ==
  /\ phase \in ToPut => r # Absent /\ r.attempt = n
  /\ phase \in {"stampPut", "progressPut", "finalPut"} => r.state \in RunningStates
  /\ phase \in {"finalPut", "completePut"} => r.artifacts
  /\ phase = "completePut" => r.state = "DONE"
  /\ phase = "failPut" => r.state = "FAILED"

\* What is true of an attempt at work: nobody is about to cut or stop it.
Working(id, n) ==
  /\ n = attempts[id]
  /\ ~ Destroying(id) /\ <<id, n>> \notin canceled
  /\ task[id][n] # "stopping"
  /\ assemblies[id] # Absent => Running(assemblies[id])
  /\ task[id][n] = "finished" /\ assemblies[id] # Absent => assemblies[id].artifacts
  /\ Fits(copy[id][n], n, task[id][n])

\* A record of attempt n.
OfAttempt(r, n) == r.attempt = n /\ (r.state = "DONE" => r.artifacts)

OnCourse(id) ==
  ~ disturbed[id] =>
    /\ attempts[id] = 0 => ~ Destroying(id)
    /\ assemblies[id] # Absent => OfAttempt(assemblies[id], attempts[id])
    /\ \A n \in Attempts : AtWork(id, n) => Working(id, n)

CourseInv == \A id \in Ids : OnCourse(id)

LEMMA CourseGives == CourseInv => RecordIsNewest /\ DoneHasArtifacts
BY DEF CourseInv, OnCourse, OfAttempt, RecordIsNewest, DoneHasArtifacts

LEMMA InitCourse == Init => CourseInv
BY DEF Init, CourseInv, OnCourse, AtWork, Live, Destroying, StreamPhases

\* A step that leaves all that is known of an assembly, or only deletes its record.
LEMMA CourseStays ==
  ASSUME TypeOK, NEW id \in Ids, OnCourse(id),
         assemblies'[id] \in {assemblies[id], Absent},
         attempts'[id] = attempts[id], task'[id] = task[id], copy'[id] = copy[id],
         destroyers'[id] = destroyers[id], disturbed'[id] = disturbed[id],
         \A n \in Attempts : <<id, n>> \in canceled' <=> <<id, n>> \in canceled
  PROVE  OnCourse(id)'
<1> SUFFICES ASSUME ~ disturbed'[id]
             PROVE  OnCourse(id)'
  BY DEF OnCourse
<1>1. Destroying(id)' <=> Destroying(id)
  BY DEF Destroying
<1>2. ASSUME NEW n \in Attempts, AtWork(id, n)'
      PROVE  Working(id, n)'
  <2>1. AtWork(id, n)
    BY <1>2 DEF AtWork, Live
  <2>2. Working(id, n)
    BY <2>1 DEF OnCourse
  <2> QED
    BY <1>1, <2>2 DEF Working, Fits, ToPut
<1>3. assemblies'[id] # Absent => OfAttempt(assemblies'[id], attempts'[id])
  BY DEF OnCourse
<1> QED
  BY <1>1, <1>2, <1>3 DEF OnCourse

\* What a step of an attempt finds: the attempt is at work.
LEMMA StepsAtWork ==
  ASSUME TypeOK, NEW id \in Ids, NEW n \in Attempts,
         TaskStep(id, n) \/ StreamEnd(id, n) \/ AgentProgress(id, n)
  PROVE  AtWork(id, n)
<1> USE DEF AtWork, Live, StreamPhases
<1>1. Check(id, n) \/ StopAbandoned(id, n) \/ StartAgent(id, n) \/ AgentReady(id, n)
        \/ StartFails(id, n) \/ ReadForStamp(id, n) \/ StampPut(id, n) \/ Subscribe(id, n)
        => AtWork(id, n)
  BY DEF Check, StopAbandoned, StartAgent, AgentReady, StartFails, ReadForStamp, StampPut,
         Subscribe
<1>2. EventPut(id, n) \/ HandleError(id, n) \/ OutcomePut(id, n) => AtWork(id, n)
  BY DEF EventPut, HandleError, OutcomePut
<1>3. StreamEnd(id, n) \/ AgentProgress(id, n) => AtWork(id, n)
  BY DEF StreamEnd, AgentFinal, AgentCompletes, StreamFails, AgentProgress, Open
<1> QED
  BY <1>1, <1>2, <1>3 DEF TaskStep

\* The attempt at work goes on to phase p, or ends with the assembly at rest.
GoesOn(id, n, p) ==
  /\ Goto(id, n, p)
  /\ UNCHANGED <<attempts, canceled, disturbed>>
  /\ ~ disturbed[id] =>
       /\ assemblies'[id] # Absent => OfAttempt(assemblies'[id], n)
       /\ \/ p = "done" /\ ~ Running(assemblies'[id])
          \/ p \notin {"none", "done"} /\ Working(id, n)'

LEMMA GoingOn ==
  ASSUME TypeOK, NEW id \in Ids, NEW n \in Attempts, OnCourse(id), AtWork(id, n),
         NEW p \in TaskPhases, GoesOn(id, n, p)
  PROVE  OnCourse(id)'
<1> SUFFICES ASSUME ~ disturbed[id]
             PROVE  OnCourse(id)'
  BY DEF GoesOn, OnCourse
<1>1. n = attempts[id] /\ attempts'[id] = n /\ n # 0
  BY DEF OnCourse, Working, GoesOn
<1>2. task' = [task EXCEPT ![id] = [task[id] EXCEPT ![n] = p]]
  BY DEF GoesOn, Goto
<1>3. task'[id][n] = p /\ \A m \in Attempts \ {n} : task'[id][m] = task[id][m]
  BY <1>2 DEF TypeOK
<1>4. ASSUME NEW m \in Attempts, AtWork(id, m)'
      PROVE  Working(id, m)'
  <2>1. CASE m = n
    BY <1>3, <1>4, <2>1 DEF GoesOn, AtWork, Live
  <2>2. CASE m # n
    <3>1. AtWork(id, m)
      BY <1>3, <1>4, <2>2 DEF AtWork, Live, GoesOn
    <3> QED
      BY <1>1, <2>2, <3>1 DEF OnCourse, Working
  <2> QED
    BY <2>1, <2>2
<1> QED
  BY <1>1, <1>4 DEF OnCourse, GoesOn

\* Of an undisturbed assembly: what is known at a step of the attempt.
LEMMA WorkKnown ==
  ASSUME TypeOK, NEW id \in Ids, NEW n \in Attempts, OnCourse(id), AtWork(id, n),
         ~ disturbed[id]
  PROVE  /\ Working(id, n)
         /\ assemblies[id] # Absent =>
              /\ assemblies[id] \in Record /\ Running(assemblies[id])
              /\ assemblies[id].attempt = n
BY DEF OnCourse, Working, OfAttempt, TypeOK

LEMMA MoveGoesOn ==
  ASSUME TypeOK, NEW id \in Ids, NEW n \in Attempts, OnCourse(id), AtWork(id, n),
         NEW p \in TaskPhases, Move(id, n, p),
         p \notin ToPut \cup {"finished", "none"},
         ~ disturbed[id] => p # "stopping" /\ p # "done"
  PROVE  GoesOn(id, n, p)
<1>1. Goto(id, n, p) /\ UNCHANGED <<assemblies, attempts, canceled, destroyers, disturbed>>
  BY DEF Move, history
<1>2. task'[id][n] = p
  <2>1. task' = [task EXCEPT ![id] = [task[id] EXCEPT ![n] = p]]
    BY <1>1 DEF Goto
  <2> QED
    BY <2>1 DEF TypeOK
<1>3. ASSUME ~ disturbed[id]
      PROVE  Working(id, n)'
  <2>1. Working(id, n) /\ p # "stopping"
    BY <1>3, WorkKnown
  <2>2. UNCHANGED copy
    BY DEF Move
  <2> QED
    BY <1>1, <1>2, <2>1, <2>2 DEF Working, Fits, ToPut, Destroying
<1> QED
  BY <1>1, <1>3, WorkKnown DEF GoesOn, OnCourse, Working

LEMMA RecordIsPresent == \A r \in Record : r # Absent
BY AbsentAssumption

\* A handler reads: it goes on to put record r, which is its own, or goes on without.
Reads(id, n, r, found, missing) ==
  /\ r \in NoRecord /\ found \in ToPut
  /\ missing \in {"connecting", "streaming", "finished", "done"}
  /\ ReadRunning(id, n, r, found, missing)
  /\ \/ UNCHANGED destroyers
     \/ missing = "done" /\ ~ Running(assemblies[id])
  /\ Running(assemblies[id]) /\ ~ disturbed[id] => Fits(r, n, found)

LEMMA ReadGoesOn ==
  ASSUME TypeOK, NEW id \in Ids, NEW n \in Attempts, OnCourse(id), AtWork(id, n),
         NEW r, NEW found, NEW missing, Reads(id, n, r, found, missing)
  PROVE  \E p \in TaskPhases : GoesOn(id, n, p)
<1>h. /\ r \in NoRecord /\ found \in ToPut
      /\ missing \in {"connecting", "streaming", "finished", "done"}
      /\ ReadRunning(id, n, r, found, missing)
      /\ UNCHANGED destroyers \/ (missing = "done" /\ ~ Running(assemblies[id]))
      /\ Running(assemblies[id]) /\ ~ disturbed[id] => Fits(r, n, found)
  BY DEF Reads
<1>p. /\ found \in TaskPhases /\ missing \in TaskPhases
      /\ found \notin {"none", "done"} /\ missing # "none"
  BY <1>h DEF TaskPhases, ToPut
<1>0. UNCHANGED <<assemblies, attempts, canceled, disturbed>>
  BY <1>h DEF ReadRunning, history
<1>a. ASSUME NEW p \in TaskPhases, Goto(id, n, p)
      PROVE  task'[id][n] = p
  <2>1. task' = [task EXCEPT ![id] = [task[id] EXCEPT ![n] = p]]
    BY <1>a DEF Goto
  <2> QED
    BY <2>1 DEF TypeOK
<1>b. ~ disturbed[id] => (assemblies'[id] # Absent => OfAttempt(assemblies'[id], n))
  BY <1>0, WorkKnown DEF OnCourse, Working
<1>1. CASE Running(assemblies[id])
  <2>1. Goto(id, n, found) /\ copy' = [copy EXCEPT ![id] = [copy[id] EXCEPT ![n] = r]]
    BY <1>h, <1>1 DEF ReadRunning
  <2>2. task'[id][n] = found /\ copy'[id][n] = r
    BY <1>a, <1>p, <2>1 DEF TypeOK
  <2>3. ~ disturbed[id] => Working(id, n)'
    BY <1>h, <1>0, <1>1, <2>2, WorkKnown DEF Working, ToPut, Destroying
  <2> QED
    BY <1>0, <1>p, <1>b, <2>1, <2>3 DEF GoesOn
<1>2. CASE ~ Running(assemblies[id])
  <2>1. Goto(id, n, missing) /\ UNCHANGED copy
    BY <1>h, <1>2 DEF ReadRunning
  <2>2. task'[id][n] = missing
    BY <1>a, <1>p, <2>1
  <2>3. CASE missing = "done"
    BY <1>h, <1>0, <1>p, <1>2, <1>b, <2>1, <2>3 DEF GoesOn
  <2>4. CASE missing # "done"
    <3>1. UNCHANGED destroyers
      BY <1>h, <2>4
    <3>2. ~ disturbed[id] => assemblies[id] = Absent
      BY <1>2, WorkKnown
    <3>3. ~ disturbed[id] => Working(id, n)'
      BY <1>h, <1>0, <2>1, <2>2, <2>4, <3>1, <3>2, WorkKnown DEF Working, Fits, ToPut, Destroying
    <3> QED
      BY <1>0, <1>p, <1>b, <2>1, <2>4, <3>3 DEF GoesOn
  <2> QED
    BY <2>3, <2>4
<1> QED
  BY <1>1, <1>2

\* A put of a stamp or of an event leaves a running record, the last one with the
\* artifacts; a put of an outcome ends the attempt.
LEMMA WriteGoesOn ==
  ASSUME TypeOK, NEW id \in Ids, NEW n \in Attempts, OnCourse(id), AtWork(id, n),
         NEW p \in TaskPhases, WriteBack(id, n, p),
         \/ p \in {"connecting", "streaming"} /\ UNCHANGED destroyers
              /\ task[id][n] \in {"stampPut", "progressPut"}
         \/ p = "finished" /\ UNCHANGED destroyers /\ task[id][n] = "finalPut"
         \/ p = "done" /\ task[id][n] \in {"completePut", "failPut"}
  PROVE  GoesOn(id, n, p)
<1>1. /\ assemblies'[id] = copy[id][n]
      /\ copy' = [copy EXCEPT ![id] = [copy[id] EXCEPT ![n] = Absent]]
      /\ Goto(id, n, p)
      /\ UNCHANGED <<attempts, canceled, disturbed>>
  BY DEF WriteBack, Put, TypeOK, history
<1>2. task'[id][n] = p
  <2>1. task' = [task EXCEPT ![id] = [task[id] EXCEPT ![n] = p]]
    BY <1>1 DEF Goto
  <2> QED
    BY <2>1 DEF TypeOK
<1> SUFFICES ASSUME ~ disturbed[id]
             PROVE  /\ assemblies'[id] # Absent => OfAttempt(assemblies'[id], n)
                    /\ \/ p = "done" /\ ~ Running(assemblies'[id])
                       \/ p \notin {"none", "done"} /\ Working(id, n)'
  BY <1>1 DEF GoesOn
<1>3. Working(id, n)
  BY WorkKnown
<1>4. CASE p = "done"
  <2>1. /\ assemblies'[id] # Absent /\ assemblies'[id].attempt = n
        /\ assemblies'[id].state \in {"DONE", "FAILED"}
        /\ assemblies'[id].state = "DONE" => assemblies'[id].artifacts
    BY <1>1, <1>3, <1>4 DEF Working, Fits, ToPut
  <2> QED
    BY <1>4, <2>1 DEF OfAttempt, Running, RunningStates
<1>5. CASE p # "done"
  <2>1. /\ assemblies'[id] # Absent /\ assemblies'[id].attempt = n
        /\ assemblies'[id].state \in RunningStates
        /\ p = "finished" => assemblies'[id].artifacts
    BY <1>1, <1>3, <1>5 DEF Working, Fits, ToPut
  <2>2. Running(assemblies'[id]) /\ OfAttempt(assemblies'[id], n)
    BY <2>1 DEF Running, OfAttempt, RunningStates
  <2>3. Working(id, n)'
    BY <1>1, <1>2, <1>3, <1>5, <2>1, <2>2 DEF Working, Fits, ToPut, Destroying
  <2> QED
    BY <1>5, <2>2, <2>3
<1> QED
  BY <1>4, <1>5

\* The steps of an attempt.
LEMMA AttemptGoesOn ==
  ASSUME TypeOK, NEW id \in Ids, NEW n \in Attempts, OnCourse(id),
         TaskStep(id, n) \/ StreamEnd(id, n) \/ AgentProgress(id, n)
  PROVE  \E p \in TaskPhases : GoesOn(id, n, p)
<1>p. /\ {"failing", "stopping", "starting", "stamping", "recheck"} \subseteq TaskPhases
      /\ {"creating", "connecting", "streaming", "finished", "done"} \subseteq TaskPhases
      /\ {"stampPut", "progressPut", "finalPut", "completePut", "failPut"} \subseteq TaskPhases
  BY DEF TaskPhases
<1>0. AtWork(id, n)
  BY StepsAtWork
<1>1. CASE Check(id, n)
  <2> DEFINE p == IF assemblies[id] = Absent THEN "failing"
                  ELSE IF Canceled(assemblies[id]) THEN "stopping"
                  ELSE IF task[id][n] = "queued" THEN "starting" ELSE "stamping"
  <2>1. ~ disturbed[id] => p # "stopping"
    BY <1>0, <1>p, WorkKnown DEF Running, Canceled, RunningStates
  <2>2. Move(id, n, p)
    BY <1>1 DEF Check
  <2>3. p \in {"failing", "stopping", "starting", "stamping"}
    OBVIOUS
  <2> HIDE DEF p
  <2> QED
    BY <1>0, <1>p, <2>1, <2>2, <2>3, MoveGoesOn DEF ToPut
<1>2. CASE StopAbandoned(id, n)
  <2>1. disturbed[id]
    BY <1>0, <1>2, WorkKnown DEF StopAbandoned, Working
  <2> QED
    BY <1>p, <1>2, <2>1 DEF StopAbandoned, GoesOn
<1>3. CASE StartAgent(id, n) \/ Subscribe(id, n)
  <2>1. PICK p \in {"creating", "streaming"} :
          /\ Goto(id, n, p)
          /\ UNCHANGED <<assemblies, attempts, copy, canceled, destroyers, disturbed>>
    BY <1>3 DEF StartAgent, Subscribe, history
  <2>2. task' = [task EXCEPT ![id] = [task[id] EXCEPT ![n] = p]]
    BY <2>1 DEF Goto
  <2>3. task'[id][n] = p
    BY <1>p, <2>2 DEF TypeOK
  <2>4. ~ disturbed[id] => Working(id, n)'
    BY <1>0, <2>1, <2>3, WorkKnown DEF Working, Fits, ToPut, Destroying
  <2>5. ~ disturbed[id] => (assemblies'[id] # Absent => OfAttempt(assemblies'[id], n))
    BY <1>0, <2>1, WorkKnown DEF OnCourse, Working
  <2> QED
    BY <1>p, <2>1, <2>4, <2>5 DEF GoesOn
<1>4. CASE AgentReady(id, n) \/ StartFails(id, n) \/ StreamFails(id, n)
  <2>1. PICK p \in {"recheck", "failing"} : Move(id, n, p)
    BY <1>4 DEF AgentReady, StartFails, StreamFails
  <2> QED
    BY <1>0, <1>p, <2>1, MoveGoesOn DEF ToPut
<1>5. Stamped(n) \in Record /\ FinalEvent(n) \in Record
  BY HandedOutRecords
<1>6. CASE ReadForStamp(id, n)
  <2>1. Fits(Stamped(n), n, "stampPut")
    BY <1>5, RecordIsPresent DEF Fits, Stamped, RunningStates
  <2>2. ReadRunning(id, n, Stamped(n), "stampPut", "connecting") /\ UNCHANGED destroyers
    BY <1>6 DEF ReadForStamp
  <2>3. Reads(id, n, Stamped(n), "stampPut", "connecting")
    BY <1>5, <2>1, <2>2 DEF Reads, ToPut
  <2> QED
    BY <1>0, <2>3, ReadGoesOn
<1>7. CASE AgentProgress(id, n)
  <2> DEFINE r == WithState(Stamped(n), "BUILDING")
  <2>1. r \in Record /\ r.attempt = n /\ r.state \in RunningStates
    BY HandedOutRecords DEF Stamped, WithState, RunningStates
  <2>2. ReadRunning(id, n, r, "progressPut", "streaming") /\ UNCHANGED destroyers
    BY <1>7 DEF AgentProgress
  <2> HIDE DEF r
  <2>3. Fits(r, n, "progressPut")
    BY <2>1, RecordIsPresent DEF Fits
  <2>4. Reads(id, n, r, "progressPut", "streaming")
    BY <2>1, <2>2, <2>3 DEF Reads, ToPut
  <2> QED
    BY <1>0, <2>4, ReadGoesOn
<1>8. CASE AgentFinal(id, n)
  <2>1. Fits(FinalEvent(n), n, "finalPut")
    BY <1>5, RecordIsPresent DEF Fits, FinalEvent, RunningStates
  <2>2. ReadRunning(id, n, FinalEvent(n), "finalPut", "finished") /\ UNCHANGED destroyers
    BY <1>8 DEF AgentFinal
  <2>3. Reads(id, n, FinalEvent(n), "finalPut", "finished")
    BY <1>5, <2>1, <2>2 DEF Reads, ToPut
  <2> QED
    BY <1>0, <2>3, ReadGoesOn
<1>9. CASE StampPut(id, n)
  BY <1>0, <1>p, <1>9, WriteGoesOn DEF StampPut
<1>10. CASE EventPut(id, n)
  BY <1>0, <1>p, <1>10, WriteGoesOn DEF EventPut
<1>11. CASE OutcomePut(id, n)
  BY <1>0, <1>p, <1>11, WriteGoesOn DEF OutcomePut
<1>12. ASSUME NEW s, s = "FAILED" \/ s = "DONE", NEW found,
              \/ s = "FAILED" /\ found = "failPut"
              \/ s = "DONE" /\ found = "completePut" /\ task[id][n] = "finished",
              ReadOutcome(id, n, s, found)
       PROVE  \E p \in TaskPhases : GoesOn(id, n, p)
  <2> DEFINE r == IF Running(assemblies[id]) THEN WithState(assemblies[id], s) ELSE Absent
  <2>1. s \in States /\ found \in TaskPhases
    BY <1>12, <1>p DEF States
  <2>2. Running(assemblies[id]) => assemblies[id] \in Record /\ assemblies[id] # Absent
    BY DEF Running, TypeOK
  <2>3. r \in NoRecord
    BY <2>1, <2>2, RecordWithState
  <2>4. Running(assemblies[id]) /\ ~ disturbed[id] =>
          /\ r \in Record /\ r.attempt = n /\ r.state = s
          /\ found = "completePut" => r.artifacts
    <3>1. ASSUME Running(assemblies[id]), ~ disturbed[id]
          PROVE  /\ assemblies[id].attempt = n
                 /\ found = "completePut" => assemblies[id].artifacts
      BY <1>0, <1>p, <1>12, <2>2, <3>1, WorkKnown DEF Working
    <3>2. ASSUME Running(assemblies[id])
          PROVE  /\ r \in Record /\ r.attempt = assemblies[id].attempt /\ r.state = s
                 /\ r.artifacts = assemblies[id].artifacts
      BY <2>1, <2>2, <3>2, RecordWithState DEF WithState, Record
    <3> QED
      BY <3>1, <3>2
  <2>5. /\ ReadRunning(id, n, r, found, "done")
        /\ UNCHANGED destroyers \/ ~ Running(assemblies[id])
    BY <1>12 DEF ReadOutcome
  <2> HIDE DEF r
  <2>6. Running(assemblies[id]) /\ ~ disturbed[id] => Fits(r, n, found)
    BY <1>12, <2>4, RecordIsPresent DEF Fits
  <2>7. found \in ToPut
    BY <1>12 DEF ToPut
  <2>8. Reads(id, n, r, found, "done")
    BY <2>3, <2>5, <2>6, <2>7 DEF Reads
  <2> QED
    BY <1>0, <2>8, ReadGoesOn
<1>13. CASE HandleError(id, n)
  BY <1>12, <1>13 DEF HandleError
<1>14. CASE AgentCompletes(id, n)
  BY <1>12, <1>14 DEF AgentCompletes, Open
<1> QED
  BY <1>1, <1>2, <1>3, <1>4, <1>6, <1>7, <1>8, <1>9, <1>10, <1>11, <1>13, <1>14
  DEF TaskStep, StreamEnd

\* A step of an attempt touches nothing of another assembly.
LEMMA AttemptIsApart ==
  ASSUME TypeOK, NEW id \in Ids, NEW n \in Attempts,
         TaskStep(id, n) \/ StreamEnd(id, n) \/ AgentProgress(id, n)
  PROVE  /\ UNCHANGED <<disturbed, barred, forsaken, call>>
         /\ \A i \in Ids \ {id} : /\ assemblies'[i] = assemblies[i]
                                  /\ copy'[i] = copy[i] /\ task'[i] = task[i]
<1> DEFINE Apart == /\ UNCHANGED <<disturbed, barred, forsaken, call>>
                    /\ \A i \in Ids \ {id} : /\ assemblies'[i] = assemblies[i]
                                             /\ copy'[i] = copy[i]
<1>1. ASSUME NEW r, NEW found, NEW missing, ReadRunning(id, n, r, found, missing)
      PROVE  Apart
  BY <1>1 DEF ReadRunning, history, TypeOK
<1>2. ASSUME NEW p, WriteBack(id, n, p)
      PROVE  Apart
  BY <1>2 DEF WriteBack, Put, history, TypeOK
<1>3. Check(id, n) \/ AgentReady(id, n) \/ StartFails(id, n) \/ StreamFails(id, n) => Apart
  BY DEF Check, AgentReady, StartFails, StreamFails, Move, history
<1>4. StopAbandoned(id, n) \/ StartAgent(id, n) \/ Subscribe(id, n) => Apart
  BY DEF StopAbandoned, StartAgent, Subscribe, history
<1>5. ReadForStamp(id, n) \/ AgentProgress(id, n) \/ AgentFinal(id, n) => Apart
  BY <1>1 DEF ReadForStamp, AgentProgress, AgentFinal
<1>6. HandleError(id, n) \/ AgentCompletes(id, n) => Apart
  BY <1>1 DEF HandleError, AgentCompletes, ReadOutcome
<1>7. StampPut(id, n) \/ EventPut(id, n) \/ OutcomePut(id, n) => Apart
  BY <1>2 DEF StampPut, EventPut, OutcomePut
<1>8. \A i \in Ids \ {id} : task'[i] = task[i]
  <2>1. PICK p \in TaskPhases : Goto(id, n, p)
    BY AttemptMoves
  <2> QED
    BY <2>1 DEF Goto, TypeOK
<1>9. Apart
  BY <1>3, <1>4, <1>5, <1>6, <1>7 DEF TaskStep, StreamEnd
<1> QED
  BY <1>8, <1>9

\* Starting an attempt where nothing is at work, and no task to destroy is left.
LEMMA StartOnCourse ==
  ASSUME TypeOK, Unstarted, CutWereConnected, NEW id \in Ids, OnCourse(id),
         attempts[id] + 1 \in Attempts, StartAttempt(id, attempts[id] + 1),
         assemblies'[id] # Absent, Running(assemblies'[id]),
         assemblies'[id].attempt = attempts[id] + 1,
         ~ disturbed'[id] => Settled(id) \/ (attempts[id] = 0 /\ ~ disturbed[id])
  PROVE  OnCourse(id)'
<1> DEFINE n == attempts[id] + 1
<1> SUFFICES ASSUME ~ disturbed'[id]
             PROVE  OnCourse(id)'
  BY DEF OnCourse
<1>0. attempts[id] \in 0 .. MaxAttempts
  BY DEF TypeOK
<1>1. /\ attempts' = [attempts EXCEPT ![id] = n]
      /\ task' = [task EXCEPT ![id] = [task[id] EXCEPT ![n] = "queued"]]
      /\ UNCHANGED <<copy, canceled, destroyers>>
  BY DEF StartAttempt
<1>2. /\ attempts'[id] = n /\ task'[id][n] = "queued"
      /\ \A m \in Attempts \ {n} : task'[id][m] = task[id][m]
  BY <1>1 DEF TypeOK
<1>3. <<id, n>> \notin canceled
  <2>1. task[id][n] = "none"
    BY StartAdds
  <2> QED
    BY <2>1 DEF CutWereConnected, Connected, StreamPhases
<1>4. ~ Destroying(id) /\ \A m \in Attempts : ~ AtWork(id, m)
  <2>1. CASE Settled(id)
    BY <2>1 DEF Settled, AtWork
  <2>2. CASE attempts[id] = 0 /\ ~ disturbed[id]
    <3>1. \A m \in Attempts : task[id][m] = "none"
      BY <2>2 DEF Unstarted
    <3> QED
      BY <2>2, <3>1 DEF OnCourse, AtWork, Live
  <2> QED
    BY <2>1, <2>2
<1>5. ~ Destroying(id)'
  BY <1>1, <1>4 DEF Destroying
<1>6. ASSUME NEW m \in Attempts, AtWork(id, m)'
      PROVE  Working(id, m)'
  <2>1. m = n
    BY <1>1, <1>2, <1>4, <1>6 DEF AtWork, Live
  <2> QED
    BY <1>1, <1>2, <1>3, <1>5, <2>1 DEF Working, Fits, ToPut
<1>7. OfAttempt(assemblies'[id], n)
  BY DEF OfAttempt, Running, RunningStates
<1> QED
  BY <1>0, <1>2, <1>5, <1>6, <1>7 DEF OnCourse

\* The calls of users, and the sweep of a restart.
LEMMA CallOnCourse ==
  ASSUME TypeOK, CourseInv, Unstarted, CutWereConnected,
         \/ \E t \in Callers, id \in Ids : UserCall(t, id)
         \/ \E t \in Threads : CallStep(t)
         \/ RecoveryStep,
         NEW i \in Ids
  PROVE  OnCourse(i)'
<1>0. OnCourse(i)
  BY DEF CourseInv
<1>1. ASSUME NEW id \in Ids \cup {Absent}, UNCHANGED <<panel, disturbed, barred, leaked>>,
             UNCHANGED assemblies \/ Put(id, Absent)
      PROVE  OnCourse(i)'
  <2>1. assemblies'[i] \in {assemblies[i], Absent}
    BY <1>1 DEF Put, TypeOK
  <2>2. UNCHANGED <<attempts, task, copy, destroyers, disturbed, canceled>>
    BY <1>1 DEF panel, history
  <2> QED
    BY <1>0, <2>1, <2>2, CourseStays
<1>2. ASSUME NEW t \in Callers, NEW id \in Ids, UserCall(t, id)
      PROVE  OnCourse(i)'
  BY <1>1, <1>2
  DEF UserCall, CallBuild, CallCancel, CallRebuild, CallDelete, CallPurge, history
<1>3. ASSUME NEW t \in Threads, RebuildCancel(t) \/ DeleteAfterCancel(t) \/ Sweep(t)
      PROVE  OnCourse(i)'
  <2>1. call[t].id \in Ids \cup {Absent}
    BY FieldTypes
  <2> QED
    BY <1>1, <1>3, <2>1 DEF RebuildCancel, DeleteAfterCancel, Sweep, history
<1>4. CASE RecoveryStep
  BY <1>1, <1>4 DEF RecoveryStep, StopRunningAssemblies, RecoveryDone, history
<1>5. ASSUME NEW t \in Threads, CancelPut(t)
      PROVE  OnCourse(i)'
  <2> DEFINE id == call[t].target
  <2>1. id \in Ids /\ disturbed' = [disturbed EXCEPT ![id] = TRUE]
    BY <1>5, FieldTypes DEF CancelPut, WellFormed
  <2>2. CASE i = id
    BY <2>1, <2>2 DEF OnCourse, TypeOK
  <2>3. CASE i # id
    <3>1. assemblies'[i] = assemblies[i] /\ disturbed'[i] = disturbed[i]
      BY <1>5, <2>1, <2>3 DEF CancelPut, Put, TypeOK
    <3>2. destroyers'[i] = destroyers[i]
      BY <1>5, <2>1, <2>3, SpawnAdds DEF CancelPut
    <3>3. UNCHANGED <<attempts, task, copy, canceled>>
      BY <1>5 DEF CancelPut
    <3> QED
      BY <1>0, <3>1, <3>2, <3>3, CourseStays
  <2> QED
    BY <2>2, <2>3
<1>6. ASSUME NEW id \in Ids, attempts[id] + 1 \in Attempts,
             StartAttempt(id, attempts[id] + 1),
             NEW r \in Record, Put(id, r), Running(r), r.attempt = attempts[id] + 1,
             \A j \in Ids \ {id} : disturbed'[j] = disturbed[j],
             ~ disturbed'[id] => Settled(id) \/ (attempts[id] = 0 /\ ~ disturbed[id])
      PROVE  OnCourse(i)'
  <2>1. /\ assemblies'[id] = r
        /\ \A j \in Ids \ {id} : assemblies'[j] = assemblies[j]
    BY <1>6 DEF Put, TypeOK
  <2>2. CASE i = id
    <3>1. assemblies'[id] = r /\ r # Absent /\ OnCourse(id)
      BY <1>0, <2>1, <2>2, RecordIsPresent
    <3>2. /\ assemblies'[id] # Absent /\ Running(assemblies'[id])
          /\ assemblies'[id].attempt = attempts[id] + 1
      BY <1>6, <3>1
    <3>3. OnCourse(id)'
      BY <1>6, <3>1, <3>2, StartOnCourse
    <3> QED
      BY <2>2, <3>3
  <2>3. CASE i # id
    <3>1. /\ attempts'[i] = attempts[i] /\ task'[i] = task[i]
          /\ UNCHANGED <<copy, canceled, destroyers>>
      BY <1>6, <2>3 DEF StartAttempt, TypeOK
    <3> QED
      BY <1>0, <1>6, <2>1, <2>3, <3>1, CourseStays
  <2> QED
    BY <2>2, <2>3
<1>7. ASSUME NEW t \in Threads, RebuildPut(t)
      PROVE  OnCourse(i)'
  <2> DEFINE id == call[t].id
             r == [call[t].kept EXCEPT !.state = "RESTARTED", !.attempt = attempts[id] + 1,
                                       !.artifacts = FALSE]
  <2>1. id \in Ids /\ call[t].kept \in Record /\ attempts[id] + 1 \in Attempts
    BY <1>7, FieldTypes DEF RebuildPut, WellFormed
  <2>2. r \in Record /\ r.attempt = attempts[id] + 1 /\ r.state = "RESTARTED"
    BY <2>1 DEF Record, States, RunningStates
  <2>3. Running(r)
    BY <2>2, RecordIsPresent DEF Running, RunningStates
  <2>4. Put(id, r) /\ StartAttempt(id, attempts[id] + 1)
    BY <1>7 DEF RebuildPut
  <2>5. /\ \A j \in Ids \ {id} : disturbed'[j] = disturbed[j]
        /\ disturbed'[id] = ~ Settled(id)
    BY <1>7, <2>1 DEF RebuildPut, TypeOK
  <2> HIDE DEF r, id
  <2>6. ~ disturbed'[id] => Settled(id)
    BY <2>5
  <2> QED
    BY <1>6, <2>1, <2>2, <2>3, <2>4, <2>5, <2>6
<1>8. ASSUME NEW t \in Threads, BuildPut(t)
      PROVE  OnCourse(i)'
  <2> DEFINE id == call[t].id
             r == [state |-> "STARTED", attempt |-> 1, artifacts |-> FALSE]
  <2>1. id \in Ids /\ attempts[id] = 0 /\ attempts[id] + 1 \in Attempts
    BY <1>8, FieldTypes DEF BuildPut
  <2>2. r \in Record /\ r.attempt = attempts[id] + 1 /\ r.state = "STARTED"
    BY <2>1 DEF Record, States, RunningStates
  <2>3. Running(r)
    BY <2>2, RecordIsPresent DEF Running, RunningStates
  <2>4. Put(id, r) /\ StartAttempt(id, attempts[id] + 1) /\ disturbed' = disturbed
    BY <1>8, <2>1 DEF BuildPut, history
  <2> HIDE DEF r, id
  <2> QED
    BY <1>6, <2>1, <2>2, <2>3, <2>4
<1> QED
  BY <1>2, <1>3, <1>4, <1>5, <1>7, <1>8 DEF CallStep

\* The steps of an attempt, for every assembly.
LEMMA AttemptOnCourse ==
  ASSUME TypeOK, CourseInv, NEW id \in Ids, NEW n \in Attempts,
         TaskStep(id, n) \/ StreamEnd(id, n) \/ AgentProgress(id, n),
         NEW i \in Ids
  PROVE  OnCourse(i)'
<1>0. OnCourse(i)
  BY DEF CourseInv
<1>1. CASE i = id
  BY <1>0, <1>1, StepsAtWork, AttemptGoesOn, GoingOn
<1>2. CASE i # id
  <2>1. assemblies'[i] = assemblies[i] /\ copy'[i] = copy[i] /\ task'[i] = task[i]
    BY <1>2, AttemptIsApart
  <2>2. destroyers'[i] = destroyers[i]
    BY <1>2, AttemptLeaves, SpawnAdds
  <2>3. UNCHANGED <<attempts, canceled, disturbed>>
    BY AttemptIsApart, AttemptMoves
  <2> QED
    BY <1>0, <2>1, <2>2, <2>3, CourseStays
<1> QED
  BY <1>1, <1>2

\* destroyAgent meets no attempt at work of an undisturbed assembly.
LEMMA DestroyOnCourse ==
  ASSUME TypeOK, CourseInv, NEW id \in Ids, DestroyStep(id), NEW i \in Ids
  PROVE  OnCourse(i)'
<1>0. OnCourse(i)
  BY DEF CourseInv
<1>1. UNCHANGED <<assemblies, attempts, task, copy, disturbed>>
  BY DEF DestroyStep, DestroyCancel, DestroyStop, DestroyStopFails, DestroyRemove, Advance,
         history
<1>2. CASE i # id
  <2>1. destroyers'[i] = destroyers[i]
    <3>1. destroyers \in [Ids -> [DestroyPhases -> Nat]]
      BY DEF TypeOK
    <3> QED
      BY <1>2, <3>1
      DEF DestroyStep, DestroyCancel, DestroyStop, DestroyStopFails, DestroyRemove, Advance
  <2>2. \A m \in Attempts : <<i, m>> \in canceled' <=> <<i, m>> \in canceled
    BY <1>2, DestroyMoves
  <2> QED
    BY <1>0, <1>1, <2>1, <2>2, CourseStays
<1>3. CASE i = id
  <2>1. Destroying(id)
    BY DEF DestroyStep, DestroyCancel, DestroyStop, DestroyStopFails, DestroyRemove, Advance,
           Destroying, DestroyPhases
  <2>2. \A m \in Attempts : AtWork(id, m)' => AtWork(id, m)
    <3>1. canceled \subseteq canceled'
      BY DestroyMoves
    <3> QED
      BY <1>1, <3>1 DEF AtWork, Live
  <2> QED
    BY <1>0, <1>1, <1>3, <2>1, <2>2 DEF OnCourse, Working
<1> QED
  BY <1>2, <1>3

LEMMA CrashOnCourse ==
  ASSUME TypeOK, CourseInv, Crash, NEW i \in Ids
  PROVE  OnCourse(i)'
<1>1. \A m \in Attempts : ~ AtWork(i, m)'
  BY DEF Crash, AtWork, Live
<1>2. ~ Destroying(i)'
  BY DEF Crash, Destroying
<1>3. UNCHANGED <<assemblies, attempts, disturbed>> /\ OnCourse(i)
  BY DEF Crash, CourseInv
<1> QED
  BY <1>1, <1>2, <1>3 DEF OnCourse

LEMMA CourseStep ==
  TypeOK /\ CourseInv /\ Unstarted /\ CutWereConnected /\ [Next]_vars => CourseInv'
<1> SUFFICES ASSUME TypeOK, CourseInv, Unstarted, CutWereConnected, [Next]_vars,
                    NEW i \in Ids
             PROVE  OnCourse(i)'
  BY DEF CourseInv
<1>1. CASE UNCHANGED vars
  <2>1. OnCourse(i)
    BY DEF CourseInv
  <2> QED
    BY <1>1, <2>1, CourseStays DEF vars, panel, history
<1>2. CASE Next
  BY <1>2, CallOnCourse, AttemptOnCourse, DestroyOnCourse, CrashOnCourse DEF Next
<1> QED
  BY <1>1, <1>2

LEMMA CourseHolds == Spec => []CourseInv
<1>1. KeeperInv => Unstarted /\ CutWereConnected
  BY DEF KeeperInv
<1> QED
  BY <1>1, InitCourse, CourseStep, TypeCorrect, KeeperHolds, PTL DEF Spec

\* Undisturbed, the stored record is the newest attempt's: what an older attempt
\* read before the rebuild is never put over it.
THEOREM NewestIsStored == Spec => []RecordIsNewest
BY CourseGives, CourseHolds, PTL

\* Undisturbed, an assembly is DONE only with its artifacts stored: the last event is
\* put before completeAssembly reads the record it completes.
THEOREM DoneIsWhole == Spec => []DoneHasArtifacts
BY CourseGives, CourseHolds, PTL

-----------------------------------------------------------------------------
(* A cancellation in time is not lost.                                     *)

\* The first attempt of an assembly cancelled in time goes on without its agent, as
\* long as nobody rebuilds the assembly: no write of its own brings it back.
BarredStays(id) ==
  id \in barred =>
    /\ attempts[id] # 0
    /\ attempts[id] = 1 =>
         /\ task[id][1] \in BeforeSecondLook \cup {"stopping", "failing", "done"}
         /\ assemblies[id] = Absent \/ Canceled(assemblies[id])

BarredInv == \A id \in Ids : BarredStays(id)

LEMMA BarredGives == TypeOK /\ BarredInv => EarlyCancelHolds
BY DEF TypeOK, BarredInv, BarredStays, EarlyCancelHolds

LEMMA CanceledRests == \A r : Canceled(r) => ~ Running(r)
BY DEF Canceled, Running, RunningStates

LEMMA BarredIdles ==
  ASSUME TypeOK, NEW id \in Ids, BarredStays(id),
         assemblies'[id] \in {assemblies[id], Absent},
         attempts'[id] = attempts[id], task'[id] = task[id], id \in barred' => id \in barred
  PROVE  BarredStays(id)'
BY DEF BarredStays

LEMMA AttemptBarred ==
  ASSUME TypeOK, BarredInv, Unstarted, NEW id \in Ids, NEW n \in Attempts,
         TaskStep(id, n) \/ StreamEnd(id, n) \/ AgentProgress(id, n), NEW i \in Ids
  PROVE  BarredStays(i)'
<1>0. BarredStays(i) /\ UNCHANGED <<attempts, barred>>
  BY AttemptMoves, AttemptIsApart DEF BarredInv
<1>1. CASE i # id
  BY <1>0, <1>1, AttemptIsApart, BarredIdles
<1>2. CASE i = id
  <2> SUFFICES ASSUME id \in barred, attempts[id] = 1
               PROVE  /\ task'[id][1] \in BeforeSecondLook \cup {"stopping", "failing", "done"}
                      /\ assemblies'[id] = assemblies[id]
    BY <1>0, <1>2 DEF BarredStays
  <2>1. n = 1
    <3>1. task[id][n] # "none"
      BY AttemptMoves
    <3> QED
      BY <3>1 DEF Unstarted
  <2>2. /\ task[id][n] \in BeforeSecondLook \cup {"stopping", "failing", "done"}
        /\ assemblies[id] = Absent \/ Canceled(assemblies[id])
    BY <1>0, <1>2, <2>1 DEF BarredStays
  <2>3. ~ Running(assemblies[id])
    BY <2>2, CanceledRests DEF Running
  <2>a. ASSUME NEW p, Goto(id, n, p)
        PROVE  task'[id][n] = p
    <3>1. task' = [task EXCEPT ![id] = [task[id] EXCEPT ![n] = p]]
      BY <2>a DEF Goto
    <3> QED
      BY <3>1 DEF TypeOK
  <2> USE DEF BeforeSecondLook
  <2>4. CASE Check(id, n)
    <3>1. PICK p \in {"failing", "stopping"} : Move(id, n, p)
      BY <2>2, <2>4 DEF Check
    <3> QED
      BY <2>1, <2>a, <3>1 DEF Move
  <2>5. CASE StopAbandoned(id, n) \/ StartAgent(id, n)
    BY <2>1, <2>5, <2>a DEF StopAbandoned, StartAgent
  <2>6. CASE AgentReady(id, n) \/ StartFails(id, n)
    BY <2>1, <2>6, <2>a DEF AgentReady, StartFails, Move
  <2>7. CASE HandleError(id, n)
    BY <2>1, <2>3, <2>7, <2>a DEF HandleError, ReadOutcome, ReadRunning
  <2>8. ~ (ReadForStamp(id, n) \/ StampPut(id, n) \/ Subscribe(id, n) \/ EventPut(id, n)
             \/ OutcomePut(id, n))
    BY <2>2 DEF ReadForStamp, StampPut, Subscribe, EventPut, OutcomePut
  <2>9. ~ (StreamEnd(id, n) \/ AgentProgress(id, n))
    BY <2>2 DEF StreamEnd, AgentFinal, AgentCompletes, StreamFails, AgentProgress, Open
  <2> QED
    BY <2>4, <2>5, <2>6, <2>7, <2>8, <2>9 DEF TaskStep
<1> QED
  BY <1>1, <1>2

LEMMA CallBarred ==
  ASSUME TypeOK, BarredInv,
         \/ \E t \in Callers, id \in Ids : UserCall(t, id)
         \/ \E t \in Threads : CallStep(t)
         \/ RecoveryStep,
         NEW i \in Ids
  PROVE  BarredStays(i)'
<1>0. BarredStays(i)
  BY DEF BarredInv
<1>1. ASSUME NEW id \in Ids \cup {Absent}, UNCHANGED <<panel, disturbed, barred, leaked>>,
             UNCHANGED assemblies \/ Put(id, Absent)
      PROVE  BarredStays(i)'
  <2>1. assemblies'[i] \in {assemblies[i], Absent}
    BY <1>1 DEF Put, TypeOK
  <2> QED
    BY <1>0, <1>1, <2>1, BarredIdles DEF panel, history
<1>2. ASSUME NEW t \in Callers, NEW id \in Ids, UserCall(t, id)
      PROVE  BarredStays(i)'
  BY <1>1, <1>2
  DEF UserCall, CallBuild, CallCancel, CallRebuild, CallDelete, CallPurge, history
<1>3. ASSUME NEW t \in Threads, RebuildCancel(t) \/ DeleteAfterCancel(t) \/ Sweep(t)
      PROVE  BarredStays(i)'
  <2>1. call[t].id \in Ids \cup {Absent}
    BY FieldTypes
  <2> QED
    BY <1>1, <1>3, <2>1 DEF RebuildCancel, DeleteAfterCancel, Sweep, history
<1>4. CASE RecoveryStep
  BY <1>1, <1>4 DEF RecoveryStep, StopRunningAssemblies, RecoveryDone, history
<1>5. ASSUME NEW t \in Threads, CancelPut(t)
      PROVE  BarredStays(i)'
  <2> DEFINE id == call[t].target
             r == WithState(call[t].read, "CANCELED")
  <2>1. /\ id \in Ids /\ r \in Record /\ Put(id, r)
        /\ UNCHANGED <<attempts, task>>
        /\ barred' = IF attempts[id] = 1 /\ task[id][1] \in BeforeSecondLook
                     THEN barred \cup {id} ELSE barred
    BY <1>5, FieldTypes, RecordWithState DEF CancelPut, WellFormed, States
  <2>2. Canceled(r)
    BY <1>5, <2>1, FieldTypes, RecordIsPresent DEF CancelPut, WellFormed, WithState, Record, Canceled
  <2> HIDE DEF r, id
  <2>3. CASE i = id
    <3>1. assemblies'[i] = r
      BY <2>1, <2>3 DEF Put, TypeOK
    <3> QED
      BY <1>0, <2>1, <2>2, <2>3, <3>1 DEF BarredStays
  <2>4. CASE i # id
    <3>1. assemblies'[i] = assemblies[i] /\ (i \in barred' => i \in barred)
      BY <2>1, <2>4 DEF Put, TypeOK
    <3> QED
      BY <1>0, <2>1, <3>1, BarredIdles
  <2> QED
    BY <2>3, <2>4
<1>6. ASSUME NEW id \in Ids, StartAttempt(id, attempts[id] + 1), NEW r, Put(id, r),
             UNCHANGED barred
      PROVE  BarredStays(i)'
  <2>1. /\ attempts' = [attempts EXCEPT ![id] = attempts[id] + 1]
        /\ task' = [task EXCEPT ![id] = [task[id] EXCEPT ![attempts[id] + 1] = "queued"]]
    BY <1>6 DEF StartAttempt
  <2>2. CASE i = id
    BY <1>0, <1>6, <2>1, <2>2 DEF BarredStays, TypeOK
  <2>3. CASE i # id
    <3>1. assemblies'[i] = assemblies[i]
      BY <1>6, <2>3 DEF Put, TypeOK
    <3>2. attempts'[i] = attempts[i] /\ task'[i] = task[i]
      BY <2>1, <2>3 DEF TypeOK
    <3> QED
      BY <1>0, <1>6, <3>1, <3>2, BarredIdles
  <2> QED
    BY <2>2, <2>3
<1>7. ASSUME NEW t \in Threads, RebuildPut(t)
      PROVE  BarredStays(i)'
  BY <1>6, <1>7, FieldTypes DEF RebuildPut, WellFormed
<1>8. ASSUME NEW t \in Threads, BuildPut(t)
      PROVE  BarredStays(i)'
  <2>1. call[t].id \in Ids /\ attempts[call[t].id] + 1 = 1 /\ UNCHANGED barred
    BY <1>8, FieldTypes DEF BuildPut, history
  <2> QED
    BY <1>6, <1>8, <2>1 DEF BuildPut
<1> QED
  BY <1>2, <1>3, <1>4, <1>5, <1>7, <1>8 DEF CallStep

LEMMA BarredStep == TypeOK /\ BarredInv /\ Unstarted /\ [Next]_vars => BarredInv'
<1> SUFFICES ASSUME TypeOK, BarredInv, Unstarted, [Next]_vars, NEW i \in Ids
             PROVE  BarredStays(i)'
  BY DEF BarredInv
<1>0. BarredStays(i)
  BY DEF BarredInv
<1>1. ASSUME NEW id \in Ids, DestroyStep(id)
      PROVE  BarredStays(i)'
  <2>1. UNCHANGED <<assemblies, attempts, task, barred>>
    BY <1>1 DEF DestroyStep, DestroyCancel, DestroyStop, DestroyStopFails, DestroyRemove,
                Advance, history
  <2> QED
    BY <1>0, <2>1, BarredIdles
<1>2. CASE Crash
  <2>1. task'[i][1] = IF task[i][1] = "none" THEN "none" ELSE "done"
    BY <1>2 DEF Crash
  <2>2. UNCHANGED <<assemblies, attempts, barred>>
    BY <1>2 DEF Crash
  <2> QED
    BY <1>0, <2>1, <2>2 DEF BarredStays, BeforeSecondLook
<1>3. CASE UNCHANGED vars
  BY <1>0, <1>3, BarredIdles DEF vars, panel, history
<1> QED
  BY <1>1, <1>2, <1>3, CallBarred, AttemptBarred DEF Next

\* A cancellation stored before the task looks at the record the second time is not
\* lost: unless the assembly is rebuilt, its first attempt connects no agent.
THEOREM EarlyCancelStays == Spec => []EarlyCancelHolds
<1>1. Init => BarredInv
  BY DEF Init, BarredInv, BarredStays
<1>2. KeeperInv => Unstarted
  BY DEF KeeperInv
<1> QED
  BY <1>1, <1>2, BarredGives, BarredStep, TypeCorrect, KeeperHolds, PTL DEF Spec

-----------------------------------------------------------------------------
(* A running assembly is attended to.                                      *)

\* The sweep of a restart will come to the assembly.
Swept(id) ==
  \/ call[Recovery].pc = "sweepRead"
  \/ id \in call[Recovery].todo
  \/ call[Recovery].target = id

HasWorker(id) ==
  Running(assemblies[id]) /\ ~ disturbed[id]
    => Swept(id) \/ id \in forsaken \/ \E n \in Attempts : Live(id, n)

\* The thread of handleRestart only sweeps.
Sweeping ==
  LET c == call[Recovery]
  IN /\ c.id = Absent
     /\ c.pc \in {"idle", "sweepRead", "sweep", "cancelPut"}
     /\ c.pc = "cancelPut" => c.then = "sweep"
     /\ c.pc # "cancelPut" => c.target = Absent

WorkerInv == Sweeping /\ \A id \in Ids : HasWorker(id)

LEMMA WorkerGives == WorkerInv => RunningHasWorker
BY DEF WorkerInv, HasWorker, Swept, RunningHasWorker

LEMMA InitWorker == Init => WorkerInv
BY DEF Init, WorkerInv, Sweeping, HasWorker, Running, Idle

\* The thread of the restart takes part in no call of a user.
LEMMA OthersCall ==
  ASSUME TypeOK, NEW t \in Callers, NEW c, Serve(t, c)
  PROVE  call'[Recovery] = call[Recovery]
BY DEF Serve, TypeOK

\* A step that serves a call of a user leaves the sweep alone.
LEMMA UsersCall ==
  ASSUME TypeOK,
         \/ \E t \in Callers, id \in Ids : UserCall(t, id)
         \/ \E t \in Callers : CallStep(t)
  PROVE  call'[Recovery] = call[Recovery]
<1>1. ASSUME NEW t \in Callers, NEW id \in Ids, UserCall(t, id)
      PROVE  call' = call \/ \E c : Serve(t, c)
  BY <1>1 DEF UserCall, CallBuild, CallCancel, CallRebuild, CallDelete, CallPurge
<1>2. ASSUME NEW t \in Callers, CallStep(t)
      PROVE  \E c : Serve(t, c)
  <2>1. CancelPut(t) => \E c : Serve(t, c)
    BY DEF CancelPut
  <2>2. RebuildCancel(t) => \E c : Serve(t, c)
    BY DEF RebuildCancel
  <2>3. RebuildPut(t) \/ DeleteAfterCancel(t) \/ BuildPut(t) => \E c : Serve(t, c)
    BY DEF RebuildPut, DeleteAfterCancel, BuildPut
  <2>4. Sweep(t) => \E c : Serve(t, c)
    BY DEF Sweep
  <2> QED
    BY <1>2, <2>1, <2>2, <2>3, <2>4 DEF CallStep
<1> QED
  BY <1>1, <1>2, OthersCall

\* The steps of the sweep of a restart.
LEMMA SweepSteps ==
  ASSUME TypeOK, Sweeping, CallStep(Recovery) \/ RecoveryStep
  PROVE  \/ CancelPut(Recovery) /\ call[Recovery].then = "sweep"
         \/ Sweep(Recovery) /\ call[Recovery].pc = "sweep"
         \/ RecoveryStep
<1>1. ~ (RebuildCancel(Recovery) \/ RebuildPut(Recovery) \/ DeleteAfterCancel(Recovery)
           \/ BuildPut(Recovery))
  BY DEF Sweeping, RebuildCancel, RebuildPut, DeleteAfterCancel, BuildPut
<1>2. CancelPut(Recovery) => call[Recovery].then = "sweep"
  BY DEF Sweeping, CancelPut
<1>3. Sweep(Recovery) => call[Recovery].pc = "sweep"
  BY DEF Sweep
<1> QED
  BY <1>1, <1>2, <1>3 DEF CallStep

\* What the thread of the restart does next.
LEMMA SweepingStep ==
  ASSUME TypeOK, Sweeping, [Next]_vars
  PROVE  Sweeping'
<1>0. Recovery \in Threads /\ call[Recovery] \in Calls
  BY DEF TypeOK
<1>a. Serve(Recovery, Idle) => Sweeping'
  BY <1>0 DEF Serve, TypeOK, Sweeping, Idle
<1>1. CASE call'[Recovery] = call[Recovery]
  BY <1>1 DEF Sweeping
<1>2. CASE CancelPut(Recovery) /\ call[Recovery].then = "sweep"
  <2>1. call'[Recovery] = Resumed(call[Recovery])
    BY <1>0, <1>2 DEF CancelPut, Serve, TypeOK
  <2> QED
    BY <1>2, <2>1 DEF Sweeping, Resumed
<1>3. CASE Sweep(Recovery) /\ call[Recovery].pc = "sweep"
  <2>1. PICK old \in call[Recovery].todo :
          LET rest == [call[Recovery] EXCEPT !.todo = @ \ {old}]
          IN Serve(Recovery, IF assemblies[old] = Absent THEN Idle
                             ELSE IF Running(assemblies[old]) THEN Canceling(rest, old, "sweep")
                             ELSE rest)
    BY <1>3 DEF Sweep
  <2> DEFINE rest == [call[Recovery] EXCEPT !.todo = @ \ {old}]
  <2>2. rest.id = Absent /\ rest.pc = "sweep" /\ rest.target = Absent
    BY <1>0, <1>3 DEF Sweeping, Calls
  <2>3. \/ Serve(Recovery, Idle)
        \/ call'[Recovery] = Canceling(rest, old, "sweep")
        \/ call'[Recovery] = rest
    BY <1>0, <2>1 DEF Serve, TypeOK
  <2> HIDE DEF rest
  <2> QED
    BY <1>a, <2>2, <2>3 DEF Sweeping, Canceling
<1>4. CASE RecoveryStep
  <2>1. StopRunningAssemblies =>
          call'[Recovery] = [Idle EXCEPT !.pc = "sweep",
                                         !.todo = {id \in Ids : Running(assemblies[id])}]
    BY <1>0 DEF StopRunningAssemblies, Serve, TypeOK
  <2>2. StopRunningAssemblies => Sweeping'
    BY <2>1 DEF Sweeping, Idle
  <2> QED
    BY <1>a, <1>4, <2>2 DEF RecoveryStep, RecoveryDone
<1>5. CASE Crash
  <2>1. call'[Recovery] = [Idle EXCEPT !.pc = "sweepRead"]
    BY <1>0, <1>5 DEF Crash
  <2> QED
    BY <2>1 DEF Sweeping, Idle
<1>6. CASE \/ \E id \in Ids, n \in Attempts :
                TaskStep(id, n) \/ StreamEnd(id, n) \/ AgentProgress(id, n)
           \/ \E id \in Ids : DestroyStep(id)
           \/ UNCHANGED vars
  <2>1. ASSUME NEW id \in Ids, DestroyStep(id)
        PROVE  UNCHANGED call
    BY <2>1 DEF DestroyStep, DestroyCancel, DestroyStop, DestroyStopFails, DestroyRemove, Advance
  <2>2. UNCHANGED vars => UNCHANGED call
    BY DEF vars
  <2>3. UNCHANGED call
    BY <1>6, <2>1, <2>2, AttemptIsApart
  <2> QED
    BY <1>1, <2>3
<1>7. CASE \/ \E t \in Callers, id \in Ids : UserCall(t, id)
           \/ \E t \in Callers : CallStep(t)
  BY <1>1, <1>7, UsersCall
<1> QED
  BY <1>2, <1>3, <1>4, <1>5, <1>6, <1>7, SweepSteps DEF Next

\* What keeps its worker: an assembly whose attempts, record and place in the sweep
\* stay as they are, or that stops to run undisturbed.
LEMMA WorkerStays ==
  ASSUME TypeOK, NEW id \in Ids, HasWorker(id),
         Running(assemblies'[id]) /\ ~ disturbed'[id] => Running(assemblies[id]) /\ ~ disturbed[id],
         Swept(id) /\ Running(assemblies'[id]) /\ ~ disturbed'[id] => Swept(id)' \/ id \in forsaken',
         id \in forsaken => id \in forsaken',
         \A n \in Attempts : Live(id, n) => Live(id, n)'
  PROVE  HasWorker(id)'
BY DEF HasWorker

\* An assembly on the list of the sweep stays there until it is cancelled, unless the
\* sweep ends before it.
LEMMA SweptOn ==
  ASSUME TypeOK, Sweeping, CallStep(Recovery) \/ RecoveryStep,
         NEW i \in Ids, Swept(i), Running(assemblies[i]), ~ disturbed'[i]
  PROVE  Swept(i)' \/ i \in forsaken'
<1>0. Recovery \in Threads /\ call[Recovery] \in Calls
  BY DEF TypeOK
<1>1. CASE CancelPut(Recovery) /\ call[Recovery].then = "sweep"
  <2>1. call'[Recovery] = Resumed(call[Recovery]) /\ call[Recovery].pc = "cancelPut"
    BY <1>0, <1>1 DEF CancelPut, Serve, TypeOK
  <2>2. i # call[Recovery].target
    BY <1>1 DEF CancelPut, TypeOK
  <2>3. i \in call[Recovery].todo
    BY <2>1, <2>2 DEF Swept
  <2> QED
    BY <1>1, <2>1, <2>3 DEF Swept, Resumed
<1>2. CASE Sweep(Recovery) /\ call[Recovery].pc = "sweep"
  <2>1. PICK old \in call[Recovery].todo :
          LET rest == [call[Recovery] EXCEPT !.todo = @ \ {old}]
          IN /\ Serve(Recovery, IF assemblies[old] = Absent THEN Idle
                                ELSE IF Running(assemblies[old]) THEN Canceling(rest, old, "sweep")
                                ELSE rest)
             /\ forsaken' = IF assemblies[old] = Absent THEN forsaken \cup Left(Recovery, old)
                            ELSE forsaken
    BY <1>2 DEF Sweep
  <2> DEFINE rest == [call[Recovery] EXCEPT !.todo = @ \ {old}]
  <2>2. rest.todo = call[Recovery].todo \ {old}
    BY <1>0 DEF Calls
  <2>3. i \in call[Recovery].todo
    BY <1>2 DEF Swept, Sweeping
  <2>4. CASE assemblies[old] = Absent
    <3>1. i # old
      BY <2>4 DEF Running
    <3> QED
      BY <2>1, <2>3, <2>4, <3>1 DEF Left
  <2>5. CASE assemblies[old] # Absent /\ Running(assemblies[old])
    <3>1. call'[Recovery] = Canceling(rest, old, "sweep")
      BY <1>0, <2>1, <2>5 DEF Serve, TypeOK
    <3> HIDE DEF rest
    <3> QED
      BY <2>2, <2>3, <3>1 DEF Swept, Canceling
  <2>6. CASE assemblies[old] # Absent /\ ~ Running(assemblies[old])
    <3>1. call'[Recovery] = rest /\ i # old
      BY <1>0, <2>1, <2>6 DEF Serve, TypeOK
    <3> HIDE DEF rest
    <3> QED
      BY <2>2, <2>3, <3>1 DEF Swept
  <2> QED
    BY <2>4, <2>5, <2>6
<1>3. CASE StopRunningAssemblies
  <2>1. call'[Recovery] = [Idle EXCEPT !.pc = "sweep",
                                       !.todo = {id \in Ids : Running(assemblies[id])}]
    BY <1>0, <1>3 DEF StopRunningAssemblies, Serve, TypeOK
  <2> QED
    BY <2>1 DEF Swept, Idle
<1>4. ~ RecoveryDone
  BY DEF RecoveryDone, Swept, Sweeping
<1> QED
  BY <1>1, <1>2, <1>3, <1>4, SweepSteps DEF RecoveryStep

\* A step of an attempt.
LEMMA AttemptWorker ==
  ASSUME TypeOK, CourseInv, NEW id \in Ids, NEW n \in Attempts,
         TaskStep(id, n) \/ StreamEnd(id, n) \/ AgentProgress(id, n),
         NEW i \in Ids, HasWorker(i)
  PROVE  HasWorker(i)'
<1>0. UNCHANGED <<call, disturbed, canceled, forsaken>>
  BY AttemptIsApart, AttemptMoves
<1>1. CASE i = id
  <2> SUFFICES ASSUME Running(assemblies'[id]), ~ disturbed[id]
               PROVE  Live(id, n)'
    BY <1>0, <1>1 DEF HasWorker
  <2>1. PICK p \in TaskPhases : GoesOn(id, n, p)
    BY AttemptGoesOn DEF CourseInv
  <2>2. p \notin {"none", "done"} /\ Working(id, n)'
    BY <2>1 DEF GoesOn
  <2>3. task' = [task EXCEPT ![id] = [task[id] EXCEPT ![n] = p]]
    BY <2>1 DEF GoesOn, Goto
  <2>4. task'[id][n] = p
    BY <2>3 DEF TypeOK
  <2> QED
    BY <2>2, <2>4 DEF Working, Live
<1>2. CASE i # id
  <2>1. assemblies'[i] = assemblies[i] /\ task'[i] = task[i]
    BY <1>2, AttemptIsApart
  <2> QED
    BY <1>0, <2>1 DEF HasWorker, Swept, Live
<1> QED
  BY <1>1, <1>2

\* The calls of users and the sweep.
LEMMA CallWorker ==
  ASSUME TypeOK, Unstarted, Sweeping,
         \/ \E t \in Callers, id \in Ids : UserCall(t, id)
         \/ \E t \in Threads : CallStep(t)
         \/ RecoveryStep,
         NEW i \in Ids, HasWorker(i)
  PROVE  HasWorker(i)'
<1>1. \A n \in Attempts : Live(i, n) => Live(i, n)'
  <2>1. UNCHANGED canceled
    BY CallMoves
  <2>2. \A n \in Attempts : task[i][n] # "none" => task'[i][n] = task[i][n]
    BY CallMoves, StartAdds
  <2> QED
    BY <2>1, <2>2 DEF Live
<1>2. Swept(i) /\ Running(assemblies[i]) /\ ~ disturbed'[i] => Swept(i)' \/ i \in forsaken'
  <2>1. CASE call'[Recovery] = call[Recovery]
    BY <2>1 DEF Swept
  <2>2. CASE CallStep(Recovery) \/ RecoveryStep
    BY <2>2, SweptOn
  <2> QED
    BY <2>1, <2>2, UsersCall
<1>3. ASSUME UNCHANGED disturbed, forsaken \subseteq forsaken', NEW id, UNCHANGED assemblies \/ Put(id, Absent)
      PROVE  HasWorker(i)'
  <2>1. assemblies'[i] \in {assemblies[i], Absent}
    BY <1>3 DEF Put, TypeOK
  <2>2. Running(assemblies'[i]) => Running(assemblies[i])
    BY <2>1 DEF Running
  <2> QED
    BY <1>1, <1>2, <1>3, <2>2, WorkerStays
<1>4. ASSUME NEW t \in Callers, NEW id \in Ids, UserCall(t, id)
      PROVE  HasWorker(i)'
  BY <1>3, <1>4 DEF UserCall, CallBuild, CallCancel, CallRebuild, CallDelete, CallPurge, history
<1>5. ASSUME NEW t \in Threads, RebuildCancel(t) \/ DeleteAfterCancel(t) \/ Sweep(t)
      PROVE  HasWorker(i)'
  BY <1>3, <1>5 DEF RebuildCancel, DeleteAfterCancel, Sweep, history
<1>6. CASE RecoveryStep
  BY <1>3, <1>6 DEF RecoveryStep, StopRunningAssemblies, RecoveryDone, history
<1>7. ASSUME NEW t \in Threads, CancelPut(t)
      PROVE  HasWorker(i)'
  <2>1. CASE i = call[t].target
    BY <1>7, <2>1 DEF CancelPut, HasWorker, TypeOK
  <2>2. CASE i # call[t].target
    <3>1. /\ assemblies'[i] = assemblies[i] /\ disturbed'[i] = disturbed[i]
          /\ UNCHANGED forsaken
      BY <1>7, <2>2 DEF CancelPut, Put, TypeOK
    <3> QED
      BY <1>1, <1>2, <3>1, WorkerStays
  <2> QED
    BY <2>1, <2>2
<1>8. ASSUME NEW id \in Ids, attempts[id] + 1 \in Attempts,
             StartAttempt(id, attempts[id] + 1), NEW r, Put(id, r),
             \A j \in Ids \ {id} : disturbed'[j] = disturbed[j],
             forsaken \ {id} \subseteq forsaken'
      PROVE  HasWorker(i)'
  <2>1. CASE i = id
    <3>1. PICK n \in Attempts : n = attempts[id] + 1
      BY <1>8
    <3>2. task' = [task EXCEPT ![id] = [task[id] EXCEPT ![n] = "queued"]]
      BY <1>8, <3>1 DEF StartAttempt
    <3>3. task'[id][n] = "queued"
      BY <3>2 DEF TypeOK
    <3>4. Live(id, n)'
      BY <3>3 DEF Live, StreamPhases
    <3> QED
      BY <2>1, <3>4 DEF HasWorker
  <2>2. CASE i # id
    <3>1. assemblies'[i] = assemblies[i] /\ disturbed'[i] = disturbed[i]
      BY <1>8, <2>2 DEF Put, TypeOK
    <3> QED
      BY <1>1, <1>2, <1>8, <2>2, <3>1, WorkerStays
  <2> QED
    BY <2>1, <2>2
<1>9. ASSUME NEW t \in Threads, RebuildPut(t)
      PROVE  HasWorker(i)'
  <2> DEFINE id == call[t].id
             r == [call[t].kept EXCEPT !.state = "RESTARTED", !.attempt = attempts[id] + 1,
                                       !.artifacts = FALSE]
  <2>1. /\ id \in Ids /\ attempts[id] + 1 \in Attempts
        /\ StartAttempt(id, attempts[id] + 1) /\ Put(id, r)
    BY <1>9, FieldTypes DEF RebuildPut, WellFormed
  <2>2. /\ \A j \in Ids \ {id} : disturbed'[j] = disturbed[j]
        /\ forsaken \ {id} \subseteq forsaken'
    BY <1>9 DEF RebuildPut, TypeOK
  <2> HIDE DEF id, r
  <2> QED
    BY <1>8, <2>1, <2>2
<1>10. ASSUME NEW t \in Threads, BuildPut(t)
       PROVE  HasWorker(i)'
  <2>1. /\ call[t].id \in Ids /\ attempts[call[t].id] + 1 = 1 /\ 1 \in Attempts
        /\ UNCHANGED <<disturbed, forsaken>>
    BY <1>10, FieldTypes DEF BuildPut, history
  <2> QED
    BY <1>8, <1>10, <2>1 DEF BuildPut
<1> QED
  BY <1>4, <1>5, <1>6, <1>7, <1>9, <1>10 DEF CallStep

LEMMA WorkerStep ==
  TypeOK /\ WorkerInv /\ CourseInv /\ Unstarted /\ [Next]_vars => WorkerInv'
<1> SUFFICES ASSUME TypeOK, WorkerInv, CourseInv, Unstarted, [Next]_vars,
                    NEW i \in Ids
             PROVE  HasWorker(i)'
  BY SweepingStep DEF WorkerInv
<1>0. Sweeping /\ HasWorker(i)
  BY DEF WorkerInv
<1>1. ASSUME NEW id \in Ids, DestroyStep(id)
      PROVE  HasWorker(i)'
  <2>1. UNCHANGED <<assemblies, attempts, task, call, disturbed, forsaken>>
    BY <1>1 DEF DestroyStep, DestroyCancel, DestroyStop, DestroyStopFails, DestroyRemove,
                Advance, history
  <2>2. CASE i = id
    <3>1. Destroying(id)
      BY <1>1 DEF DestroyStep, DestroyCancel, DestroyStop, DestroyStopFails, DestroyRemove,
                  Advance, Destroying, DestroyPhases
    <3>2. ~ disturbed[id] => \A m \in Attempts : ~ Live(id, m)
      BY <3>1 DEF CourseInv, OnCourse, AtWork, Working
    <3> QED
      BY <1>0, <2>1, <2>2, <3>2 DEF HasWorker, Swept
  <2>3. CASE i # id
    <3>1. \A m \in Attempts : <<i, m>> \in canceled' => <<i, m>> \in canceled
      BY <1>1, <2>3, DestroyMoves
    <3> QED
      BY <1>0, <2>1, <3>1 DEF HasWorker, Swept, Live
  <2> QED
    BY <2>2, <2>3
<1>2. CASE Crash
  <2>1. call'[Recovery] = [Idle EXCEPT !.pc = "sweepRead"]
    BY <1>2 DEF Crash
  <2> QED
    BY <2>1 DEF HasWorker, Swept, Idle
<1>3. CASE UNCHANGED vars
  BY <1>0, <1>3 DEF vars, panel, history, HasWorker, Swept, Live
<1> QED
  BY <1>0, <1>1, <1>2, <1>3, CallWorker, AttemptWorker DEF Next

\* A running assembly that nobody cancelled, or rebuilt over a live attempt, has an
\* attempt at work that will end it, or the sweep of a restart will come to it, for any
\* number of assemblies, callers, crashes and deletions; unless that sweep came before
\* it to an assembly deleted since, for which cancelAssembly throws.
THEOREM RunningIsAttended == Spec => []RunningHasWorker
<1>1. KeeperInv => Unstarted
  BY DEF KeeperInv
<1>2. TypeOK /\ WorkerInv /\ CourseInv /\ KeeperInv /\ [Next]_vars => WorkerInv'
  BY <1>1, WorkerStep
<1> QED
  BY <1>2, InitWorker, WorkerGives, TypeCorrect, KeeperHolds, CourseHolds, PTL DEF Spec

-----------------------------------------------------------------------------
(* What is seen of an assembly follows AssemblyStates.  The state of its   *)
(* record goes with the phase of the attempt at work.                      *)

Early == BeforeSecondLook \cup {"stamping", "stampPut"}
Building == {"connecting", "streaming", "progressPut", "finalPut"}
Late == {"finished", "completePut"}

\* The stored record r and the copy c of an attempt in a phase.
Shows(r, c, phase) ==
  /\ r # Absent =>
       /\ phase \in Early => r.state \in {"STARTED", "RESTARTED"}
       /\ phase \in Building => r.state \in {"STARTED_ON_RESOURCE", "BUILDING"}
       /\ phase \in Late => r.state = "BUILDING"
  /\ phase = "stampPut" => c.state = "STARTED_ON_RESOURCE"
  /\ phase \in {"progressPut", "finalPut"} => c.state = "BUILDING"

Rebuilding(id) == \E t \in Threads : call[t].pc = "rebuildPut" /\ call[t].id = id

\* A rebuild about to put its record is not without a live attempt to disturb, if
\* the record runs again.
OnView(id) ==
  ~ disturbed[id] =>
    /\ ~ Canceled(assemblies[id])
    /\ \A n \in Attempts : AtWork(id, n) => Shows(assemblies[id], copy[id][n], task[id][n])
    /\ Running(assemblies[id]) /\ Rebuilding(id) => \E n \in Attempts : AtWork(id, n)

RebuildsItsOwn == \A t \in Threads : call[t].then = "rebuildPut" => call[t].target = call[t].id

ViewInv == RebuildsItsOwn /\ \A id \in Ids : OnView(id)

LEMMA InitView == Init => ViewInv
BY DEF Init, ViewInv, RebuildsItsOwn, OnView, AtWork, Live, Rebuilding, Canceled, Running, Idle

\* What is seen of id stays or moves to a successor.
Watched(id) == View'[id] = View[id] \/ View'[id] \in Abstract!Successors[View[id]]

\* At most one assembly is seen to change, or the sweep of a restart throws.
OneSeen ==
  \/ \A i, j \in Ids : i = j \/ View'[i] = View[i] \/ View'[j] = View[j]
  \/ Abstract!Leave

LEMMA WatchedAll ==
  ASSUME \A id \in Ids : Watched(id), OneSeen
  PROVE  Abstract!Next \/ View' = View
<1>1. CASE \A i \in Ids : View'[i] = View[i]
  BY <1>1 DEF View
<1>2. ASSUME NEW id \in Ids, View'[id] # View[id],
             \A i, j \in Ids : i = j \/ View'[i] = View[i] \/ View'[j] = View[j]
      PROVE  Abstract!Next
  <2>1. \A i \in Ids \ {id} : View'[i] = View[i]
    BY <1>2
  <2>2. View' = [View EXCEPT ![id] = View'[id]]
    BY <2>1 DEF View
  <2>3. View'[id] \in Abstract!Successors[View[id]]
    BY <1>2 DEF Watched
  <2> QED
    BY <2>2, <2>3 DEF Abstract!Next, Abstract!Step
<1> QED
  BY <1>1, <1>2 DEF OneSeen, Abstract!Next

LEMMA Seen ==
  ASSUME NEW id \in Ids
  PROVE  /\ View[id] = IF disturbed[id] \/ id \in forsaken THEN "disturbed"
                       ELSE IF assemblies[id] = Absent THEN "absent" ELSE assemblies[id].state
         /\ View'[id] = IF disturbed'[id] \/ id \in forsaken' THEN "disturbed"
                        ELSE IF assemblies'[id] = Absent THEN "absent" ELSE assemblies'[id].state
BY DEF View

LEMMA AbstractSteps ==
  /\ Abstract!Successors["absent"] =
       {"STARTED", "RESTARTED", "STARTED_ON_RESOURCE", "BUILDING", "DONE", "FAILED", "disturbed"}
  /\ Abstract!Successors["STARTED"] = {"STARTED_ON_RESOURCE", "FAILED", "absent", "disturbed"}
  /\ Abstract!Successors["RESTARTED"] = {"STARTED_ON_RESOURCE", "FAILED", "absent", "disturbed"}
  /\ Abstract!Successors["STARTED_ON_RESOURCE"] = {"BUILDING", "FAILED", "absent", "disturbed"}
  /\ Abstract!Successors["BUILDING"] = {"DONE", "FAILED", "absent", "disturbed"}
  /\ Abstract!Successors["DONE"] = {"RESTARTED", "absent", "disturbed"}
  /\ Abstract!Successors["FAILED"] = {"RESTARTED", "absent", "disturbed"}
  /\ Abstract!Successors["disturbed"] = {"RESTARTED"}
BY DEF Abstract!Successors, Abstract!Views, Abstract!RunningViews

LEMMA GotoIs ==
  ASSUME TypeOK, NEW id \in Ids, NEW n \in Attempts, NEW p, Goto(id, n, p)
  PROVE  task'[id][n] = p
<1>1. task' = [task EXCEPT ![id] = [task[id] EXCEPT ![n] = p]]
  BY DEF Goto
<1> QED
  BY <1>1 DEF TypeOK

\* A step of an undisturbed attempt leaves the record, or puts one that follows it.
FollowsOn(id) ==
  \/ assemblies'[id] = assemblies[id]
  \/ /\ assemblies'[id] # Absent /\ assemblies'[id].state # "CANCELED"
     /\ \/ assemblies[id] = Absent /\ assemblies'[id].state \in Abstract!Successors["absent"]
        \/ assemblies[id] # Absent /\ assemblies'[id].state = assemblies[id].state
        \/ /\ assemblies[id] # Absent
           /\ assemblies'[id].state \in Abstract!Successors[assemblies[id].state]

\* The attempt at hand, undisturbed.
Seeing(id, n) ==
  /\ OnCourse(id) /\ AtWork(id, n) /\ ~ disturbed[id]
  /\ Shows(assemblies[id], copy[id][n], task[id][n])

Shown(id, n) == Shows(assemblies[id], copy[id][n], task[id][n])' /\ FollowsOn(id)

LEMMA MoveShows ==
  ASSUME TypeOK, NEW id \in Ids, NEW n \in Attempts, Seeing(id, n),
         NEW p, Goto(id, n, p), UNCHANGED <<assemblies, copy>>,
         \/ p \notin Early \cup Building \cup Late
         \/ p \in Early \ ToPut /\ task[id][n] \in Early
         \/ p \in Building \ ToPut /\ task[id][n] \in Building
  PROVE  Shown(id, n)
<1>1. task'[id][n] = p
  BY GotoIs
<1> QED
  BY <1>1 DEF Seeing, Shown, Shows, FollowsOn, Early, Building, Late, BeforeSecondLook, ToPut

LEMMA ReadShows ==
  ASSUME TypeOK, NEW id \in Ids, NEW n \in Attempts, Seeing(id, n),
         NEW r \in NoRecord, NEW found, NEW missing, missing \notin ToPut,
         ReadRunning(id, n, r, found, missing),
         Running(assemblies[id]) => Shows(assemblies[id], r, found)
  PROVE  Shown(id, n)
<1>0. UNCHANGED assemblies
  BY DEF ReadRunning
<1>1. CASE Running(assemblies[id])
  <2>1. Goto(id, n, found) /\ copy' = [copy EXCEPT ![id] = [copy[id] EXCEPT ![n] = r]]
    BY <1>1 DEF ReadRunning
  <2>2. task'[id][n] = found /\ copy'[id][n] = r
    BY <2>1, GotoIs DEF TypeOK
  <2> QED
    BY <1>0, <1>1, <2>2 DEF Shown, FollowsOn
<1>2. CASE ~ Running(assemblies[id])
  <2>1. Goto(id, n, missing) /\ UNCHANGED copy
    BY <1>2 DEF ReadRunning
  <2>2. task'[id][n] = missing
    BY <2>1, GotoIs
  <2>3. assemblies[id] = Absent
    BY <1>2, WorkKnown DEF Seeing
  <2> QED
    BY <1>0, <2>1, <2>2, <2>3 DEF Shown, Shows, FollowsOn, ToPut
<1> QED
  BY <1>1, <1>2

LEMMA WriteShows ==
  ASSUME TypeOK, NEW id \in Ids, NEW n \in Attempts, Seeing(id, n),
         NEW p, WriteBack(id, n, p),
         \/ p = "connecting" /\ task[id][n] = "stampPut"
         \/ p = "streaming" /\ task[id][n] = "progressPut"
         \/ p = "finished" /\ task[id][n] = "finalPut"
         \/ p = "done" /\ task[id][n] \in {"completePut", "failPut"}
  PROVE  Shown(id, n)
<1>1. /\ assemblies'[id] = copy[id][n]
      /\ copy' = [copy EXCEPT ![id] = [copy[id] EXCEPT ![n] = Absent]]
      /\ Goto(id, n, p)
  BY DEF WriteBack, Put, TypeOK
<1>2. task'[id][n] = p
  BY <1>1, GotoIs
<1>3. /\ Working(id, n) /\ copy[id][n] # Absent
      /\ assemblies[id] # Absent => Running(assemblies[id])
  BY WorkKnown DEF Seeing, Working, Fits, ToPut
<1>4. CASE task[id][n] = "stampPut"
  <2>1. /\ copy[id][n].state = "STARTED_ON_RESOURCE"
        /\ assemblies[id] # Absent => assemblies[id].state \in {"STARTED", "RESTARTED"}
    BY <1>4 DEF Seeing, Shows, Early
  <2> QED
    BY <1>1, <1>2, <1>3, <1>4, <2>1, AbstractSteps
    DEF Shown, FollowsOn, Shows, Early, Building, Late, BeforeSecondLook
<1>5. CASE task[id][n] \in {"progressPut", "finalPut"}
  <2>1. /\ copy[id][n].state = "BUILDING"
        /\ assemblies[id] # Absent => assemblies[id].state \in {"STARTED_ON_RESOURCE", "BUILDING"}
    BY <1>5 DEF Seeing, Shows, Building
  <2> QED
    BY <1>1, <1>2, <1>3, <1>5, <2>1, AbstractSteps
    DEF Shown, FollowsOn, Shows, Early, Building, Late, BeforeSecondLook
<1>6. CASE task[id][n] = "completePut"
  <2>1. /\ copy[id][n].state = "DONE"
        /\ assemblies[id] # Absent => assemblies[id].state = "BUILDING"
    BY <1>3, <1>6 DEF Seeing, Shows, Late, Working, Fits
  <2> QED
    BY <1>1, <1>2, <1>3, <1>6, <2>1, AbstractSteps
    DEF Shown, FollowsOn, Shows, Early, Building, Late, BeforeSecondLook
<1>7. CASE task[id][n] = "failPut"
  <2>1. copy[id][n].state = "FAILED"
    BY <1>3, <1>7 DEF Working, Fits
  <2> QED
    BY <1>1, <1>2, <1>3, <1>7, <2>1, AbstractSteps
    DEF Shown, FollowsOn, Shows, Early, Building, Late, BeforeSecondLook, Running, RunningStates
<1> QED
  BY <1>4, <1>5, <1>6, <1>7

LEMMA AttemptShows ==
  ASSUME TypeOK, NEW id \in Ids, NEW n \in Attempts, Seeing(id, n),
         TaskStep(id, n) \/ StreamEnd(id, n) \/ AgentProgress(id, n)
  PROVE  Shown(id, n)
<1>r. /\ Stamped(n) \in NoRecord /\ FinalEvent(n) \in NoRecord
      /\ WithState(Stamped(n), "BUILDING") \in NoRecord
  BY HandedOutRecords
<1>1. CASE Check(id, n)
  BY <1>1, MoveShows
  DEF Check, Move, Early, Building, Late, BeforeSecondLook, ToPut
<1>2. CASE StopAbandoned(id, n) \/ StartAgent(id, n) \/ Subscribe(id, n)
  BY <1>2, MoveShows
  DEF StopAbandoned, StartAgent, Subscribe, Early, Building, Late, BeforeSecondLook, ToPut
<1>3. CASE AgentReady(id, n) \/ StartFails(id, n) \/ StreamFails(id, n)
  BY <1>3, MoveShows
  DEF AgentReady, StartFails, StreamFails, Move, Early, Building, Late, BeforeSecondLook, ToPut
<1>4. CASE ReadForStamp(id, n)
  <2>1. task[id][n] = "stamping" /\ ReadRunning(id, n, Stamped(n), "stampPut", "connecting")
    BY <1>4 DEF ReadForStamp
  <2>2. Shows(assemblies[id], Stamped(n), "stampPut")
    BY <2>1 DEF Seeing, Shows, Stamped, Early, Building, Late, BeforeSecondLook
  <2> QED
    BY <1>r, <2>1, <2>2, ReadShows DEF ToPut
<1>5. CASE AgentProgress(id, n)
  <2>1. /\ task[id][n] = "streaming"
        /\ ReadRunning(id, n, WithState(Stamped(n), "BUILDING"), "progressPut", "streaming")
    BY <1>5 DEF AgentProgress, Open
  <2>2. Shows(assemblies[id], WithState(Stamped(n), "BUILDING"), "progressPut")
    BY <2>1 DEF Seeing, Shows, Stamped, WithState, Early, Building, Late, BeforeSecondLook
  <2> QED
    BY <1>r, <2>1, <2>2, ReadShows DEF ToPut
<1>6. CASE AgentFinal(id, n)
  <2>1. task[id][n] = "streaming" /\ ReadRunning(id, n, FinalEvent(n), "finalPut", "finished")
    BY <1>6 DEF AgentFinal, Open
  <2>2. Shows(assemblies[id], FinalEvent(n), "finalPut")
    BY <2>1 DEF Seeing, Shows, FinalEvent, Early, Building, Late, BeforeSecondLook
  <2> QED
    BY <1>r, <2>1, <2>2, ReadShows DEF ToPut
<1>7. ASSUME NEW s \in States, NEW found,
             \/ found = "failPut"
             \/ found = "completePut" /\ task[id][n] = "finished",
             ReadOutcome(id, n, s, found)
       PROVE  Shown(id, n)
  <2> DEFINE r == IF Running(assemblies[id]) THEN WithState(assemblies[id], s) ELSE Absent
  <2>1. r \in NoRecord
    BY RecordWithState DEF Running, TypeOK
  <2>2. ReadRunning(id, n, r, found, "done")
    BY <1>7 DEF ReadOutcome
  <2>3. Shows(assemblies[id], r, found)
    BY <1>7 DEF Seeing, Shows, Early, Building, Late, BeforeSecondLook
  <2> HIDE DEF r
  <2> QED
    BY <2>1, <2>2, <2>3, ReadShows DEF ToPut
<1>8. CASE HandleError(id, n)
  BY <1>7, <1>8 DEF HandleError, States
<1>9. CASE AgentCompletes(id, n)
  BY <1>7, <1>9 DEF AgentCompletes, Open, States
<1>10. CASE StampPut(id, n) \/ EventPut(id, n) \/ OutcomePut(id, n)
  BY <1>10, WriteShows DEF StampPut, EventPut, OutcomePut
<1> QED
  BY <1>1, <1>2, <1>3, <1>4, <1>5, <1>6, <1>8, <1>9, <1>10 DEF TaskStep, StreamEnd

\* The assemblies other than the one a step is about, or whose record is deleted.
LEMMA ViewStays ==
  ASSUME TypeOK, NEW i \in Ids, OnView(i),
         assemblies'[i] \in {assemblies[i], Absent}, copy'[i] = copy[i], task'[i] = task[i],
         disturbed'[i] = disturbed[i],
         \A n \in Attempts : <<i, n>> \in canceled' <=> <<i, n>> \in canceled,
         Rebuilding(i)' => Rebuilding(i) \/ ~ Running(assemblies[i])
  PROVE  OnView(i)' /\ ((i \in forsaken' <=> i \in forsaken) => Watched(i))
<1>1. Running(assemblies'[i]) => Running(assemblies[i])
  BY DEF Running
<1>2. Canceled(assemblies'[i]) => Canceled(assemblies[i])
  BY DEF Canceled
<1>3. \A n \in Attempts : AtWork(i, n)' <=> AtWork(i, n)
  BY DEF AtWork, Live
<1>4. ASSUME NEW n \in Attempts, Shows(assemblies[i], copy[i][n], task[i][n])
      PROVE  Shows(assemblies'[i], copy'[i][n], task'[i][n])
  BY <1>4 DEF Shows
<1>5. OnView(i)'
  BY <1>1, <1>2, <1>3, <1>4 DEF OnView
<1>6. ASSUME ~ disturbed[i], assemblies[i] # Absent, assemblies'[i] = Absent
      PROVE  "absent" \in Abstract!Successors[assemblies[i].state]
  <2>1. assemblies[i].state \in States \ {"CANCELED"}
    BY <1>6 DEF OnView, Canceled, TypeOK, Record
  <2> QED
    BY <2>1, AbstractSteps DEF States, RunningStates
<1> QED
  BY <1>5, <1>6, Seen DEF Watched

LEMMA AttemptView ==
  ASSUME TypeOK, CourseInv, ViewInv, NEW id \in Ids, NEW n \in Attempts,
         TaskStep(id, n) \/ StreamEnd(id, n) \/ AgentProgress(id, n)
  PROVE  /\ RebuildsItsOwn'
         /\ \A i \in Ids : OnView(i)' /\ Watched(i)
         /\ \A i \in Ids \ {id} : View'[i] = View[i]
<1>0. UNCHANGED <<call, disturbed, canceled, forsaken>>
  BY AttemptIsApart, AttemptMoves
<1>1. ASSUME NEW i \in Ids \ {id}
      PROVE  OnView(i)' /\ Watched(i) /\ View'[i] = View[i]
  <2>1. assemblies'[i] = assemblies[i] /\ copy'[i] = copy[i] /\ task'[i] = task[i]
    BY AttemptIsApart
  <2>2. OnView(i)' /\ Watched(i)
    BY <1>0, <2>1, ViewStays DEF ViewInv, Rebuilding
  <2> QED
    BY <1>0, <2>1, <2>2, Seen
<1>2. CASE disturbed[id]
  BY <1>0, <1>1, <1>2, Seen DEF ViewInv, RebuildsItsOwn, OnView, Watched
<1>3. CASE ~ disturbed[id]
  <2>1. OnCourse(id) /\ AtWork(id, n) /\ OnView(id)
    BY StepsAtWork DEF CourseInv, ViewInv
  <2>2. Shown(id, n) /\ Seeing(id, n)
    BY <1>3, <2>1, AttemptShows DEF Seeing, OnView
  <2>3. PICK p \in TaskPhases : GoesOn(id, n, p)
    BY <2>1, AttemptGoesOn
  <2>4. task'[id][n] = p
    BY <2>3, GotoIs DEF GoesOn
  <2>5. ASSUME NEW m \in Attempts, AtWork(id, m)'
        PROVE  m = n
    <3>1. ASSUME m # n
          PROVE  task'[id][m] = task[id][m]
      BY <2>3, <3>1 DEF GoesOn, Goto, TypeOK
    <3>2. n = attempts[id] /\ (AtWork(id, m) => m = attempts[id])
      BY <1>3, <2>1 DEF OnCourse, Working
    <3> QED
      BY <1>0, <2>5, <3>1, <3>2 DEF AtWork, Live
  <2>6. Running(assemblies'[id]) => AtWork(id, n)'
    BY <1>3, <2>3, <2>4 DEF GoesOn, AtWork, Live, Working
  <2>7. ~ Canceled(assemblies'[id])
    BY <1>3, <2>1, <2>2 DEF Shown, FollowsOn, OnView, Canceled
  <2>8. OnView(id)'
    BY <2>2, <2>5, <2>6, <2>7 DEF OnView, Shown
  <2>9. Watched(id)
    BY <1>0, <1>3, <2>2, Seen DEF Watched, Shown, FollowsOn
  <2> QED
    BY <1>0, <1>1, <2>8, <2>9 DEF ViewInv, RebuildsItsOwn
<1> QED
  BY <1>2, <1>3

LEMMA DestroyView ==
  ASSUME TypeOK, CourseInv, ViewInv, NEW id \in Ids, DestroyStep(id)
  PROVE  RebuildsItsOwn' /\ \A i \in Ids : OnView(i)' /\ View'[i] = View[i]
<1>1. UNCHANGED <<assemblies, task, copy, disturbed, forsaken, call>>
  BY DEF DestroyStep, DestroyCancel, DestroyStop, DestroyStopFails, DestroyRemove, Advance,
         history
<1>2. ASSUME NEW i \in Ids
      PROVE  OnView(i)'
  <2>0. OnView(i) /\ OnCourse(i)
    BY DEF ViewInv, CourseInv
  <2>1. CASE i # id
    <3>1. \A m \in Attempts : <<i, m>> \in canceled' <=> <<i, m>> \in canceled
      BY <2>1, DestroyMoves
    <3> QED
      BY <1>1, <2>0, <3>1, ViewStays DEF Rebuilding
  <2>2. CASE i = id
    <3>1. Destroying(id)
      BY DEF DestroyStep, DestroyCancel, DestroyStop, DestroyStopFails, DestroyRemove, Advance,
             Destroying, DestroyPhases
    <3>2. \A m \in Attempts : AtWork(id, m)' => AtWork(id, m)
      <4>1. canceled \subseteq canceled'
        BY DestroyMoves
      <4> QED
        BY <1>1, <4>1 DEF AtWork, Live
    <3>3. ~ disturbed[id] => \A m \in Attempts : ~ AtWork(id, m)
      BY <2>0, <2>2, <3>1 DEF OnCourse, Working
    <3> QED
      BY <1>1, <2>0, <2>2, <3>2, <3>3 DEF OnView, Rebuilding
  <2> QED
    BY <2>1, <2>2
<1> QED
  BY <1>1, <1>2, Seen DEF ViewInv, RebuildsItsOwn

LEMMA CrashView ==
  ASSUME ViewInv, Crash
  PROVE  RebuildsItsOwn' /\ \A i \in Ids : OnView(i)' /\ View'[i] = View[i]
<1>1. \A i \in Ids, m \in Attempts : ~ AtWork(i, m)'
  BY DEF Crash, AtWork, Live
<1>2. \A i \in Ids : ~ Rebuilding(i)'
  BY DEF Crash, Rebuilding, Idle
<1>3. RebuildsItsOwn'
  BY DEF Crash, RebuildsItsOwn, Idle
<1>4. UNCHANGED <<assemblies, disturbed, forsaken>>
  BY DEF Crash
<1>5. \A i \in Ids : OnView(i)'
  BY <1>1, <1>2, <1>4 DEF OnView, ViewInv
<1> QED
  BY <1>3, <1>4, <1>5, Seen

\* A thread stays where it is or takes a call about a record that does not run, if
\* the call is about to rebuild it.
CallsOn ==
  \A u \in Threads :
    \/ call'[u] = call[u]
    \/ /\ call'[u].then = "rebuildPut" => call'[u].target = call'[u].id
       /\ call'[u].pc = "rebuildPut" => ~ Running(assemblies[call'[u].id])

LEMMA ServedOn ==
  ASSUME TypeOK, NEW t \in Threads, NEW c, Serve(t, c),
         c.then = "rebuildPut" => c.target = c.id,
         c.pc = "rebuildPut" => ~ Running(assemblies[c.id])
  PROVE  CallsOn
BY DEF Serve, CallsOn, TypeOK

\* A call that only moves threads, or deletes a record.
LEMMA ServeView ==
  ASSUME TypeOK, ViewInv, UNCHANGED <<panel, disturbed, barred, leaked>>, CallsOn,
         NEW id \in Ids \cup {Absent}, UNCHANGED assemblies \/ Put(id, Absent)
  PROVE  /\ RebuildsItsOwn'
         /\ \A i \in Ids : OnView(i)'
         /\ forsaken' = forsaken =>
              (\A i \in Ids : Watched(i)) /\ \A i \in Ids \ {id} : View'[i] = View[i]
<1>1. UNCHANGED <<attempts, task, copy, canceled, disturbed>>
  BY DEF panel, history
<1>2. /\ \A i \in Ids : assemblies'[i] \in {assemblies[i], Absent}
      /\ \A i \in Ids \ {id} : assemblies'[i] = assemblies[i]
  BY DEF Put, TypeOK
<1>4. RebuildsItsOwn'
  BY DEF RebuildsItsOwn, ViewInv, CallsOn
<1>5. ASSUME NEW i \in Ids
      PROVE  OnView(i)' /\ (forsaken' = forsaken => Watched(i))
  <2>1. Rebuilding(i)' => Rebuilding(i) \/ ~ Running(assemblies[i])
    BY DEF Rebuilding, CallsOn
  <2> QED
    BY <1>1, <1>2, <2>1, ViewStays DEF ViewInv
<1>6. ASSUME NEW i \in Ids \ {id}, forsaken' = forsaken
      PROVE  View'[i] = View[i]
  BY <1>1, <1>2, <1>6, Seen
<1> QED
  BY <1>4, <1>5, <1>6

ViewGoesOn == RebuildsItsOwn' /\ (\A i \in Ids : OnView(i)' /\ Watched(i)) /\ OneSeen

LEMMA UserCallView ==
  ASSUME TypeOK, ViewInv, NEW t \in Callers, NEW id \in Ids, UserCall(t, id)
  PROVE  ViewGoesOn
<1>1. /\ UNCHANGED <<panel, disturbed, barred, leaked, forsaken>>
      /\ UNCHANGED assemblies \/ Put(id, Absent)
  BY DEF UserCall, CallBuild, CallCancel, CallRebuild, CallDelete, CallPurge, history
<1>2. CallsOn
  <2>1. CASE CallBuild(t, id)
    BY <2>1, ServedOn DEF CallBuild, For, Idle
  <2>2. CASE CallCancel(t, id)
    BY <2>2, ServedOn DEF CallCancel, Canceling
  <2>3. CASE CallRebuild(t, id)
    BY <2>3, ServedOn DEF CallRebuild, For, Idle
  <2>4. CASE CallDelete(t, id)
    BY <2>4 DEF CallDelete, CallsOn
  <2>5. CASE CallPurge(t, id)
    BY <2>5, ServedOn DEF CallPurge, Canceling, For, Idle
  <2> QED
    BY <2>1, <2>2, <2>3, <2>4, <2>5 DEF UserCall
<1> QED
  BY <1>1, <1>2, ServeView DEF OneSeen, ViewGoesOn

\* A sweep that comes to a deleted assembly: what the sweep of a restart had still to
\* come to is out of sight at once.
LEMMA SweepEndsView ==
  ASSUME TypeOK, ViewInv, NEW t \in Threads, NEW old \in Ids, UNCHANGED <<assemblies, disturbed>>,
         forsaken' = forsaken \cup Left(t, old)
  PROVE  (\A i \in Ids : Watched(i)) /\ OneSeen
<1> DEFINE left == {i \in Left(t, old) : ~ disturbed[i] /\ i \notin forsaken}
<1>1. ASSUME NEW i \in Ids
      PROVE  View'[i] = IF i \in left THEN "disturbed" ELSE View[i]
  BY <1>1, Seen
<1>2. ASSUME NEW i \in left
      PROVE  i \in Ids /\ View[i] \in RunningStates
  <2>1. i \in Ids /\ Running(assemblies[i])
    BY FieldTypes DEF Left
  <2> QED
    BY <2>1, Seen DEF Running
<1>3. ASSUME NEW i \in Ids
      PROVE  Watched(i)
  BY <1>1, <1>2, AbstractSteps DEF Watched, RunningStates
<1>4. Abstract!Leave
  <2>1. left \subseteq {i \in Ids : View[i] \in Abstract!RunningViews}
    BY <1>2 DEF Abstract!RunningViews, RunningStates
  <2>2. View' = [i \in Ids |-> IF i \in left THEN "disturbed" ELSE View[i]]
    BY <1>1 DEF View
  <2> HIDE DEF left
  <2> QED
    BY <2>1, <2>2 DEF Abstract!Leave
<1> QED
  BY <1>3, <1>4 DEF OneSeen

\* The steps of a call that put no record, or delete it, and the sweep.
LEMMA ReadingCallView ==
  ASSUME TypeOK, ViewInv,
         \/ \E t \in Threads : RebuildCancel(t) \/ DeleteAfterCancel(t) \/ Sweep(t)
         \/ RecoveryStep
  PROVE  ViewGoesOn
<1>1. \E id \in Ids \cup {Absent} :
        /\ UNCHANGED <<panel, disturbed, barred, leaked>>
        /\ UNCHANGED assemblies \/ Put(id, Absent)
  BY FieldTypes
  DEF RebuildCancel, DeleteAfterCancel, Sweep, RecoveryStep, StopRunningAssemblies, RecoveryDone,
      history
<1>a. \/ forsaken' = forsaken
      \/ (\A i \in Ids : Watched(i)) /\ OneSeen
  <2>1. ASSUME NEW t \in Threads, Sweep(t)
        PROVE  \/ forsaken' = forsaken
               \/ (\A i \in Ids : Watched(i)) /\ OneSeen
    <3>1. PICK old \in call[t].todo :
            forsaken' = IF assemblies[old] = Absent THEN forsaken \cup Left(t, old) ELSE forsaken
      BY <2>1 DEF Sweep
    <3>2. old \in Ids /\ UNCHANGED <<assemblies, disturbed>>
      BY <2>1, FieldTypes DEF Sweep
    <3> QED
      BY <3>1, <3>2, SweepEndsView
  <2>2. ASSUME NEW t \in Threads, RebuildCancel(t) \/ DeleteAfterCancel(t)
        PROVE  forsaken' = forsaken
    BY <2>2 DEF RebuildCancel, DeleteAfterCancel, history
  <2>3. RecoveryStep => forsaken' = forsaken
    BY DEF RecoveryStep, StopRunningAssemblies, RecoveryDone, history
  <2> QED
    BY <2>1, <2>2, <2>3
<1>2. ASSUME NEW t \in Threads, RebuildCancel(t)
      PROVE  CallsOn
  <2> DEFINE id == call[t].id
             c == IF assemblies[id] = Absent THEN Idle
                  ELSE IF Running(assemblies[id]) THEN Canceling(call[t], id, "rebuildPut")
                  ELSE At(t, "rebuildPut")
  <2>1. Serve(t, c)
    BY <1>2 DEF RebuildCancel
  <2>2. call[t].then = "rebuildPut" => call[t].target = id
    BY DEF ViewInv, RebuildsItsOwn
  <2>3. /\ At(t, "rebuildPut").then = call[t].then /\ At(t, "rebuildPut").target = call[t].target
        /\ At(t, "rebuildPut").id = id
    BY DEF At, TypeOK, Calls
  <2>4. c.then = "rebuildPut" => c.target = c.id
    BY <2>2, <2>3 DEF Idle, Canceling
  <2>5. c.pc = "rebuildPut" => ~ Running(assemblies[c.id])
    BY <2>3 DEF Idle, Canceling
  <2> HIDE DEF c
  <2> QED
    BY <2>1, <2>4, <2>5, ServedOn
<1>3. ASSUME NEW t \in Threads, DeleteAfterCancel(t)
      PROVE  CallsOn
  BY <1>3, ServedOn DEF DeleteAfterCancel, Idle
<1>4. ASSUME NEW t \in Threads, Sweep(t)
      PROVE  CallsOn
  <2>1. PICK old \in call[t].todo :
          LET rest == [call[t] EXCEPT !.todo = @ \ {old}]
          IN Serve(t, IF assemblies[old] = Absent THEN Idle
                      ELSE IF Running(assemblies[old]) THEN Canceling(rest, old, "sweep")
                      ELSE rest)
    BY <1>4 DEF Sweep
  <2> DEFINE rest == [call[t] EXCEPT !.todo = @ \ {old}]
             c == IF assemblies[old] = Absent THEN Idle
                  ELSE IF Running(assemblies[old]) THEN Canceling(rest, old, "sweep")
                  ELSE rest
  <2>2. rest.then = call[t].then /\ rest.target = call[t].target /\ rest.id = call[t].id
          /\ rest.pc = "sweep"
    BY <1>4 DEF Sweep, TypeOK, Calls
  <2>3. call[t].then = "rebuildPut" => call[t].target = call[t].id
    BY DEF ViewInv, RebuildsItsOwn
  <2>4. Serve(t, c)
    BY <2>1
  <2> HIDE DEF rest
  <2>5. (c.then = "rebuildPut" => c.target = c.id) /\ c.pc # "rebuildPut"
    BY <2>2, <2>3 DEF Idle, Canceling
  <2> HIDE DEF c
  <2> QED
    BY <2>4, <2>5, ServedOn
<1>5. RecoveryStep => CallsOn
  BY ServedOn DEF RecoveryStep, StopRunningAssemblies, RecoveryDone, Idle
<1> QED
  BY <1>1, <1>a, <1>2, <1>3, <1>4, <1>5, ServeView DEF OneSeen, ViewGoesOn

LEMMA CancelView ==
  ASSUME TypeOK, ViewInv, NEW t \in Threads, CancelPut(t)
  PROVE  ViewGoesOn
<1> DEFINE c == Resumed(call[t])
<1>0. PICK id \in Ids : id = call[t].target
  BY FieldTypes DEF CancelPut, WellFormed
<1>1. disturbed' = [disturbed EXCEPT ![id] = TRUE] /\ forsaken' = forsaken
  BY <1>0 DEF CancelPut
<1>2. call' = [call EXCEPT ![t] = c]
  BY DEF CancelPut, Serve
<1>3. c.then = "idle" /\ (c.pc = "rebuildPut" => c.id = id)
  BY <1>0 DEF Resumed, Idle, ViewInv, RebuildsItsOwn
<1> HIDE DEF c
<1>4. RebuildsItsOwn'
  BY <1>2, <1>3 DEF ViewInv, RebuildsItsOwn, TypeOK
<1>5. OnView(id)' /\ Watched(id)
  <2>1. disturbed'[id]
    BY <1>1 DEF TypeOK
  <2>2. ~ disturbed[id] /\ assemblies[id] # Absent
          => assemblies[id].state \in States \ {"CANCELED"}
    BY <1>1 DEF ViewInv, OnView, Canceled, TypeOK, Record
  <2> QED
    BY <1>1, <2>1, <2>2, Seen, AbstractSteps DEF OnView, Watched, States, RunningStates
<1>6. ASSUME NEW i \in Ids \ {id}
      PROVE  OnView(i)' /\ Watched(i) /\ View'[i] = View[i]
  <2>1. assemblies'[i] = assemblies[i] /\ disturbed'[i] = disturbed[i]
    BY <1>0, <1>1 DEF CancelPut, Put, TypeOK
  <2>2. UNCHANGED <<task, copy, canceled>>
    BY DEF CancelPut
  <2>3. Rebuilding(i)' => Rebuilding(i)
    BY <1>2, <1>3 DEF Rebuilding, TypeOK
  <2> QED
    BY <1>1, <2>1, <2>2, <2>3, ViewStays, Seen DEF ViewInv
<1> QED
  BY <1>4, <1>5, <1>6 DEF ViewGoesOn, OneSeen

\* A record goes in as STARTED or RESTARTED with its attempt.
LEMMA StartView ==
  ASSUME TypeOK, ViewInv, NEW t \in Threads, NEW id \in Ids, call[t].id = id, Serve(t, Idle),
         NEW n \in Attempts, n = attempts[id] + 1, StartAttempt(id, n),
         NEW r \in Record, Put(id, r), r.state \in {"STARTED", "RESTARTED"},
         \A j \in Ids \ {id} : /\ disturbed'[j] = disturbed[j]
                               /\ j \in forsaken' <=> j \in forsaken,
         OnCourse(id)', Watched(id)
  PROVE  ViewGoesOn
<1>1. /\ attempts'[id] = n /\ assemblies'[id] = r
      /\ \A j \in Ids \ {id} : /\ assemblies'[j] = assemblies[j] /\ task'[j] = task[j]
      /\ UNCHANGED <<copy, canceled>>
  BY DEF StartAttempt, Put, TypeOK
<1>2. task'[id][n] = "queued"
  <2>1. task' = [task EXCEPT ![id] = [task[id] EXCEPT ![n] = "queued"]]
    BY DEF StartAttempt
  <2> QED
    BY <2>1 DEF TypeOK
<1>3. \A u \in Threads : call'[u] = call[u] \/ call'[u] = Idle
  BY DEF Serve, TypeOK
<1>4. RebuildsItsOwn'
  BY <1>3 DEF ViewInv, RebuildsItsOwn, Idle
<1>5. OnView(id)'
  <2>1. AtWork(id, n)'
    BY <1>2 DEF AtWork, Live, StreamPhases
  <2>2. ASSUME ~ disturbed'[id], NEW m \in Attempts, AtWork(id, m)'
        PROVE  Shows(assemblies[id], copy[id][m], task[id][m])'
    <3>1. m = n
      BY <1>1, <2>2 DEF OnCourse, Working
    <3> QED
      BY <1>1, <1>2, <3>1 DEF Shows, Early, Building, Late, BeforeSecondLook
  <2>3. ~ Canceled(assemblies'[id])
    BY <1>1 DEF Canceled
  <2> QED
    BY <2>1, <2>2, <2>3 DEF OnView
<1>6. ASSUME NEW i \in Ids \ {id}
      PROVE  OnView(i)' /\ Watched(i) /\ View'[i] = View[i]
  <2>1. Rebuilding(i)' => Rebuilding(i)
    BY <1>3 DEF Rebuilding, Idle
  <2> QED
    BY <1>1, <2>1, ViewStays, Seen DEF ViewInv
<1> QED
  BY <1>4, <1>5, <1>6 DEF ViewGoesOn, OneSeen

LEMMA RebuildView ==
  ASSUME TypeOK, ViewInv, CourseInv', NEW t \in Threads, RebuildPut(t)
  PROVE  ViewGoesOn
<1>0. PICK id \in Ids : call[t].id = id
  BY FieldTypes DEF RebuildPut, WellFormed
<1>1. PICK n \in Attempts : n = attempts[id] + 1
  BY <1>0 DEF RebuildPut
<1>a. call[t].kept \in Record
  BY FieldTypes DEF RebuildPut, WellFormed
<1>b. PICK r : r = [call[t].kept EXCEPT !.state = "RESTARTED", !.attempt = n, !.artifacts = FALSE]
  OBVIOUS
<1>2. r \in Record /\ r.state = "RESTARTED"
  BY <1>a, <1>b DEF Record, States, RunningStates
<1>3. Put(id, r) /\ StartAttempt(id, n) /\ Serve(t, Idle)
  BY <1>0, <1>1, <1>b DEF RebuildPut
<1>4. /\ \A j \in Ids \ {id} : /\ disturbed'[j] = disturbed[j]
                               /\ j \in forsaken' <=> j \in forsaken
      /\ disturbed'[id] = ~ Settled(id) /\ id \notin forsaken'
  BY <1>0 DEF RebuildPut, TypeOK
<1>5. Rebuilding(id)
  BY <1>0 DEF RebuildPut, Rebuilding
<1>6. OnCourse(id)' /\ OnView(id)
  BY DEF CourseInv, ViewInv
<1>7. assemblies'[id] = r /\ r # Absent
  BY <1>2, <1>3, RecordIsPresent DEF Put, TypeOK
<1>8. ~ disturbed[id] /\ assemblies[id] # Absent => assemblies[id].state \in States \ {"CANCELED"}
  BY <1>1, <1>6 DEF OnView, Canceled, TypeOK, Record
<1>9. Settled(id) /\ ~ disturbed[id] => ~ Running(assemblies[id])
  BY <1>5, <1>6 DEF OnView, Settled, AtWork
<1>10. Watched(id)
  <2>1. CASE Settled(id)
    <3>1. View'[id] = "RESTARTED"
      BY <1>1, <1>2, <1>4, <1>7, <2>1, Seen
    <3>2. View[id] \in {"disturbed", "absent", "DONE", "FAILED"}
      BY <1>1, <1>8, <1>9, <2>1, Seen DEF Running, States
    <3> QED
      BY <3>1, <3>2, AbstractSteps DEF Watched
  <2>2. CASE ~ Settled(id)
    <3>1. View'[id] = "disturbed"
      BY <1>1, <1>4, <2>2, Seen
    <3>2. View[id] \in (States \ {"CANCELED"}) \cup {"disturbed", "absent"}
      BY <1>1, <1>8, Seen
    <3> QED
      BY <3>1, <3>2, AbstractSteps DEF Watched, States, RunningStates
  <2> QED
    BY <2>1, <2>2
<1> QED
  BY <1>0, <1>1, <1>2, <1>3, <1>4, <1>6, <1>10, StartView

LEMMA BuildView ==
  ASSUME TypeOK, ViewInv, CourseInv, CourseInv', NEW t \in Threads, BuildPut(t)
  PROVE  ViewGoesOn
<1>0. PICK id \in Ids : call[t].id = id
  BY FieldTypes DEF BuildPut
<1>1. attempts[id] = 0 /\ 1 \in Attempts /\ 1 = attempts[id] + 1
  BY <1>0 DEF BuildPut
<1>a. PICK r : r = [state |-> "STARTED", attempt |-> 1, artifacts |-> FALSE]
  OBVIOUS
<1>2. r \in Record /\ r.state = "STARTED"
  BY <1>1, <1>a DEF Record, States, RunningStates
<1>3. /\ Put(id, r) /\ StartAttempt(id, 1) /\ Serve(t, Idle)
      /\ disturbed' = disturbed /\ forsaken' = forsaken
  BY <1>0, <1>a DEF BuildPut, history
<1>4. OnCourse(id)' /\ OnCourse(id)
  BY DEF CourseInv
<1>5. assemblies'[id] = r /\ r # Absent
  BY <1>2, <1>3, RecordIsPresent DEF Put, TypeOK
<1>6. ~ disturbed[id] => assemblies[id] = Absent
  <2>1. assemblies[id] # Absent => assemblies[id].attempt \in Attempts
    BY <1>1 DEF TypeOK, Record
  <2> QED
    BY <1>1, <1>4, <2>1 DEF OnCourse, OfAttempt
<1>7. Watched(id)
  BY <1>1, <1>2, <1>3, <1>5, <1>6, Seen, AbstractSteps DEF Watched
<1> QED
  BY <1>0, <1>1, <1>2, <1>3, <1>4, <1>7, StartView

LEMMA ViewStep ==
  ASSUME TypeOK, CourseInv, CourseInv', ViewInv, Next
  PROVE  ViewGoesOn
<1>1. CASE \E t \in Callers, id \in Ids : UserCall(t, id)
  BY <1>1, UserCallView
<1>2. CASE (\E t \in Threads : CallStep(t)) \/ RecoveryStep
  BY <1>2, CancelView, RebuildView, BuildView, ReadingCallView DEF CallStep
<1>3. CASE \E id \in Ids, n \in Attempts :
             TaskStep(id, n) \/ StreamEnd(id, n) \/ AgentProgress(id, n)
  BY <1>3, AttemptView DEF ViewGoesOn, OneSeen
<1>4. CASE \E id \in Ids : DestroyStep(id)
  BY <1>4, DestroyView DEF ViewGoesOn, OneSeen, Watched
<1>5. CASE Crash
  BY <1>5, CrashView DEF ViewGoesOn, OneSeen, Watched
<1> QED
  BY <1>1, <1>2, <1>3, <1>4, <1>5 DEF Next

LEMMA ViewStutter ==
  ASSUME ViewInv, UNCHANGED vars
  PROVE  ViewInv' /\ View' = View
<1>1. UNCHANGED <<assemblies, copy, task, canceled, disturbed, forsaken, call>>
  BY DEF vars, panel, history
<1> QED
  BY <1>1 DEF ViewInv, RebuildsItsOwn, OnView, Rebuilding, AtWork, Live, View, Canceled, Running

LEMMA ViewHolds == Spec => []ViewInv
<1>1. TypeOK /\ CourseInv /\ CourseInv' /\ ViewInv /\ [Next]_vars => ViewInv'
  BY ViewStep, ViewStutter DEF ViewGoesOn, ViewInv
<1> QED
  BY <1>1, InitView, TypeCorrect, CourseHolds, PTL DEF Spec

\* What a watcher sees of assemblies follows AssemblyStates, for any number of them
\* and of callers, whatever crashes: an undisturbed assembly goes through STARTED or
\* RESTARTED, STARTED_ON_RESOURCE and BUILDING to DONE, from each of them only to
\* FAILED or out of sight, and comes back only through a rebuild.
THEOREM StatesAreFollowed == Spec => Abstract!SafeSpec
<1>1. Init => Abstract!Init
  BY DEF Init, Abstract!Init, View
<1>2. TypeOK /\ CourseInv /\ CourseInv' /\ ViewInv /\ [Next]_vars => [Abstract!Next]_View
  BY ViewStep, ViewStutter, WatchedAll DEF ViewGoesOn, OneSeen
<1> QED
  BY <1>1, <1>2, TypeCorrect, CourseHolds, ViewHolds, PTL DEF Spec, Abstract!SafeSpec
=============================================================================
