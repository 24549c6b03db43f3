----------------------- MODULE ProjectLifecycleProofs -----------------------
(***************************************************************************)
(* Type correctness of ProjectLifecycle; that no project shows progress    *)
(* without somebody who will end it; that an initialized project has all   *)
(* its parts; and that an update is kept: for any number of projects,      *)
(* callers, runs, updates and crashes.                                     *)
(***************************************************************************)
EXTENDS ProjectLifecycle, TLAPS

USE ConstantsAssumption DEF Runs, NoRecord, AllParts

-----------------------------------------------------------------------------
(* Types.                                                                  *)

LEMMA RecordWithState ==
  ASSUME NEW r \in Record, NEW s \in RestStates \cup StuckStates
  PROVE  /\ WithState(r, s) \in Record
         /\ WithState(r, s).state = s
BY DEF WithState, Record

LEMMA IdleIsCall == Idle \in HeldCalls
BY DEF Idle, HeldCalls, Calls

LEMMA NoRunIsRun == NoRun \in HeldRuns
BY DEF NoRun, HeldRuns, Run, Phases

\* The projects that an update and an event put.
LEMMA RecordUpdates ==
  ASSUME NEW r \in Record, NEW s \in Settings, NEW k \in 0 .. AllParts
  PROVE  /\ [r EXCEPT !.settings = s] \in Record
         /\ [r EXCEPT !.settings = s].state = r.state
         /\ [r EXCEPT !.parts = k] \in Record
BY DEF Record, StuckStates

LEMMA PutIsCall ==
  ASSUME NEW c \in HeldCalls, c.pc = "clicked", NEW r \in Record
  PROVE  [c EXCEPT !.pc = "put", !.copy = r] \in HeldCalls
BY DEF HeldCalls, Calls

LEMMA InitType == Init => TypeOK
BY IdleIsCall, NoRunIsRun DEF Init, TypeOK

\* The fields of a call.
LEMMA CallFields ==
  ASSUME TypeOK, NEW t \in Callers
  PROVE  /\ call[t] \in HeldCalls
         /\ call[t].pc \in {"idle", "clicked", "put"}
         /\ call[t].pc # "idle" => call[t].id \in Ids /\ call[t].button \in Buttons
         /\ call[t].pc = "put" => call[t].copy \in Record
BY DEF TypeOK, HeldCalls, Calls

\* The fields of a run.
LEMMA RunFields ==
  ASSUME TypeOK, NEW id \in Ids, NEW n \in Runs
  PROVE  /\ run[id][n] \in HeldRuns
         /\ run[id][n].phase \in Phases
         /\ run[id][n].base \in NoRecord /\ run[id][n].copy \in NoRecord
         /\ Is(id, n, {"reloaded", "reloadingPut", "starting", "streaming", "eventPut"})
              => run[id][n].base \in Record
         /\ Is(id, n, {"reloadingPut", "eventPut"}) => run[id][n].copy \in Record
         /\ Is(id, n, {"completePut", "failPut"})
              => run[id][n].copy \in Record /\ run[id][n].copy.state \in RestStates
<1>1. run[id][n] \in HeldRuns
  BY DEF TypeOK
<1> QED
  BY <1>1 DEF HeldRuns, Run, Is

LEMMA ServeType ==
  ASSUME TypeOK, NEW t \in Callers, NEW c \in HeldCalls, Serve(t, c)
  PROVE  call' \in [Callers -> HeldCalls]
BY DEF TypeOK, Serve

\* A step of one run replaces it and leaves the others alone.
LEMMA GotoType ==
  ASSUME TypeOK, NEW id \in Ids, NEW n \in Runs, NEW r \in HeldRuns,
         run' = [run EXCEPT ![id][n] = r]
  PROVE  /\ run' \in [Ids -> [Runs -> HeldRuns]]
         /\ run'[id][n] = r
         /\ \A i \in Ids : i # id => run'[i] = run[i]
<1>1. run[id] \in [Runs -> HeldRuns]
  BY DEF TypeOK
<1>2. [run[id] EXCEPT ![n] = r] \in [Runs -> HeldRuns]
  BY <1>1
<1> QED
  BY <1>1, <1>2 DEF TypeOK

\* The calls of users.
LEMMA CallAddType ==
  ASSUME TypeOK, NEW id \in Ids, NEW s \in Settings, CallAdd(id, s)
  PROVE  TypeOK'
<1> DEFINE r == [phase |-> IF resource[id] THEN "added" ELSE "done",
                 base |-> Absent, copy |-> Absent]
<1>1. r \in HeldRuns
  BY DEF HeldRuns, Run, Phases
<1>2. 1 \in Runs
  OBVIOUS
<1>3. run' \in [Ids -> [Runs -> HeldRuns]]
  BY <1>1, <1>2, GotoType DEF CallAdd, Launch
<1>4. [state |-> "CREATED", settings |-> s, run |-> 1, parts |-> 0] \in Record
  BY <1>2 DEF Record, StuckStates
<1>5. disturbed' \in [Ids -> SUBSET {"overlap", "stale", "thrown"}]
  BY DEF CallAdd, Thrown, TypeOK
<1> QED
  BY <1>2, <1>3, <1>4, <1>5 DEF CallAdd, Put, Launch, TypeOK, recovery

LEMMA ClickType ==
  ASSUME TypeOK, NEW t \in Callers, NEW id \in Ids, NEW b \in Buttons, Click(t, id, b)
  PROVE  TypeOK'
<1>1. [Idle EXCEPT !.pc = "clicked", !.id = id, !.button = b] \in HeldCalls
  BY DEF Idle, HeldCalls, Calls
<1>2. call' \in [Callers -> HeldCalls]
  BY <1>1, ServeType DEF Click
<1> QED
  BY <1>2 DEF Click, TypeOK, recovery

LEMMA CallStepType ==
  ASSUME TypeOK, NEW t \in Callers, CallStep(t)
  PROVE  TypeOK'
<1> DEFINE c == call[t]
<1>0. /\ c \in HeldCalls
      /\ c.pc # "idle" => c.id \in Ids /\ c.button \in Buttons
      /\ c.pc = "put" => c.copy \in Record
  BY CallFields
<1>1. CASE CallRead(t)
  <2>1. [c EXCEPT !.pc = "put", !.copy = projects[c.id]] \in HeldCalls
        \/ projects[c.id] = Absent
    <3>1. c.id \in Ids /\ projects[c.id] \in Record \cup {Absent}
      BY <1>0, <1>1 DEF CallRead, TypeOK
    <3> QED
      BY <1>0, <1>1, <3>1, PutIsCall DEF CallRead
  <2>2. call' \in [Callers -> HeldCalls]
    BY <1>1, <2>1, IdleIsCall, ServeType DEF CallRead
  <2> QED
    BY <1>1, <2>2 DEF CallRead, TypeOK, recovery
<1>2. CASE CallDelete(t)
  <2>1. call' \in [Callers -> HeldCalls]
    BY <1>2, IdleIsCall, ServeType DEF CallDelete
  <2> QED
    BY <1>2, <2>1 DEF CallDelete, Put, TypeOK, recovery
<1>3. CASE CallReload(t)
  <2> DEFINE n == runs[c.id] + 1
             cleared == [state |-> "RELOAD_STARTED", settings |-> c.copy.settings,
                         run |-> n, parts |-> 0]
             r == [phase |-> IF resource[c.id] THEN "reloaded" ELSE "done",
                   base |-> cleared, copy |-> Absent]
  <2>1. c.id \in Ids /\ c.copy \in Record /\ n \in Runs
    BY <1>0, <1>3 DEF CallReload
  <2>2. cleared \in Record
    BY <2>1 DEF Record, StuckStates
  <2>3. r \in HeldRuns
    BY <2>2 DEF HeldRuns, Run, Phases
  <2>4. run' = [run EXCEPT ![c.id][n] = r]
    BY <1>3 DEF CallReload, Launch
  <2>5. run' \in [Ids -> [Runs -> HeldRuns]]
    BY <2>1, <2>3, <2>4, GotoType
  <2>6. call' \in [Callers -> HeldCalls]
    BY <1>3, IdleIsCall, ServeType DEF CallReload
  <2>7. /\ projects' = [projects EXCEPT ![c.id] = cleared]
        /\ runs' = [runs EXCEPT ![c.id] = n]
    BY <1>3 DEF CallReload, Put, Launch
  <2>8. projects' \in [Ids -> NoRecord] /\ runs' \in [Ids -> 0 .. MaxRuns]
    BY <2>1, <2>2, <2>7 DEF TypeOK
  <2>9. /\ disturbed' \in [Ids -> SUBSET {"overlap", "stale", "thrown"}]
        /\ wanted' \in [Ids -> Settings \cup {Absent}]
    BY <1>3 DEF CallReload, Thrown, TypeOK
  <2> QED
    BY <1>3, <2>5, <2>6, <2>8, <2>9 DEF CallReload, TypeOK, recovery
<1>4. ASSUME NEW s \in Settings, CallUpdate(t, s)
      PROVE  TypeOK'
  <2>1. c.id \in Ids /\ c.copy \in Record
    BY <1>0, <1>4 DEF CallUpdate
  <2>2. [c.copy EXCEPT !.settings = s] \in Record
    BY <2>1 DEF Record
  <2>3. call' \in [Callers -> HeldCalls]
    BY <1>4, IdleIsCall, ServeType DEF CallUpdate
  <2>4. projects' \in [Ids -> NoRecord]
    BY <1>4, <2>2 DEF CallUpdate, Put, TypeOK
  <2>5. /\ disturbed' \in [Ids -> SUBSET {"overlap", "stale", "thrown"}]
        /\ wanted' \in [Ids -> Settings \cup {Absent}]
    BY <1>4 DEF CallUpdate, TypeOK
  <2>6. updates' \in [Ids -> 0 .. MaxUpdates]
    BY <1>4, <2>1 DEF CallUpdate, TypeOK
  <2> QED
    BY <1>4, <2>3, <2>4, <2>5, <2>6 DEF CallUpdate, TypeOK, recovery
<1> QED
  BY <1>1, <1>2, <1>3, <1>4 DEF CallStep

\* What holds after a step of run n of project id that leaves it as r, calls and
\* recovery alone, and the project one that may be stored.
LEMMA StepType ==
  ASSUME TypeOK, NEW id \in Ids, NEW n \in Runs, NEW r \in HeldRuns,
         run' = [run EXCEPT ![id][n] = r], Keep,
         projects' \in [Ids -> NoRecord], found' \in [Ids -> [Runs -> 0 .. AllParts]]
  PROVE  TypeOK'
<1>1. run' \in [Ids -> [Runs -> HeldRuns]]
  BY GotoType
<1> QED
  BY <1>1 DEF Keep, TypeOK, recovery

\* A run that has only to be moved on: it holds nothing to put and keeps its project.
LEMMA MovedRun ==
  ASSUME TypeOK, NEW id \in Ids, NEW n \in Runs,
         NEW p \in {"streaming", "failing", "done"}, NEW b \in NoRecord,
         p = "streaming" => b \in Record
  PROVE  [phase |-> p, base |-> b, copy |-> Absent] \in HeldRuns
BY DEF HeldRuns, Run, Phases

\* The outcome of a run is at rest.
LEMMA OutcomeRun ==
  ASSUME TypeOK, NEW id \in Ids, NEW n \in Runs, projects[id] # Absent,
         NEW p \in {"completePut", "failPut"}, NEW s \in RestStates
  PROVE  [phase |-> p, base |-> run[id][n].base, copy |-> WithState(projects[id], s)] \in HeldRuns
<1>1. projects[id] \in Record
  BY DEF TypeOK
<1>2. WithState(projects[id], s) \in Record /\ WithState(projects[id], s).state \in RestStates
  BY <1>1, RecordWithState
<1> QED
  BY <1>2, RunFields DEF HeldRuns, Run, Phases

LEMMA ReadOutcomeType ==
  ASSUME TypeOK, NEW id \in Ids, NEW n \in Runs,
         NEW p \in {"completePut", "failPut"}, NEW s \in RestStates,
         ReadOutcome(id, n, p, s)
  PROVE  TypeOK'
<1>0. run[id][n].base \in NoRecord /\ projects \in [Ids -> NoRecord]
      /\ found \in [Ids -> [Runs -> 0 .. AllParts]]
  BY RunFields DEF TypeOK
<1>1. CASE projects[id] = Absent
  BY <1>0, <1>1, MovedRun, StepType DEF ReadOutcome, Step, Goto
<1>2. CASE projects[id] # Absent
  BY <1>0, <1>2, OutcomeRun, StepType DEF ReadOutcome, Step, Goto
<1> QED
  BY <1>1, <1>2

LEMMA WriteBackType ==
  ASSUME TypeOK, NEW id \in Ids, NEW n \in Runs,
         NEW p \in {"starting", "streaming", "done"}, WriteBack(id, n, p),
         p # "done" => run[id][n].base \in Record
  PROVE  TypeOK'
<1>1. [phase |-> p, base |-> run[id][n].base, copy |-> Absent] \in HeldRuns
  BY RunFields DEF HeldRuns, Run, Phases
<1>2. projects' \in [Ids -> NoRecord] /\ found' \in [Ids -> [Runs -> 0 .. AllParts]]
  BY RunFields DEF WriteBack, Put, TypeOK
<1>3. run' = [run EXCEPT ![id][n] = [phase |-> p, base |-> run[id][n].base, copy |-> Absent]]
      /\ Keep
  BY DEF WriteBack, Step, Goto
<1> QED
  BY <1>1, <1>2, <1>3, StepType

\* The task and the stream of a run.
LEMMA TaskStartsType ==
  ASSUME TypeOK, NEW id \in Ids, NEW n \in Runs, TaskStarts(id, n)
  PROVE  TypeOK'
<1> DEFINE reloading == WithState(run[id][n].base, "RELOADING")
<1>0. /\ run[id][n].base \in NoRecord /\ projects \in [Ids -> NoRecord]
      /\ found \in [Ids -> [Runs -> 0 .. AllParts]]
      /\ projects' = projects /\ found' = found /\ Keep
  BY RunFields DEF TypeOK, TaskStarts
<1>1. CASE projects[id] = Absent
  BY <1>0, <1>1, MovedRun, StepType DEF TaskStarts, Step, Goto
<1>2. CASE projects[id] # Absent /\ Goto(id, n, "starting", projects[id], Absent)
  <2>1. [phase |-> "starting", base |-> projects[id], copy |-> Absent] \in HeldRuns
    BY <1>0, <1>2 DEF HeldRuns, Run, Phases
  <2> QED
    BY <1>0, <1>2, <2>1, StepType DEF Goto
<1>3. CASE Is(id, n, {"reloaded"}) /\ Goto(id, n, "reloadingPut", reloading, reloading)
  <2>1. run[id][n].base \in Record
    BY <1>3, RunFields DEF Is
  <2>2. reloading \in Record
    BY <2>1, RecordWithState DEF StuckStates
  <2>3. [phase |-> "reloadingPut", base |-> reloading, copy |-> reloading] \in HeldRuns
    BY <2>2 DEF HeldRuns, Run, Phases
  <2> QED
    BY <1>0, <1>3, <2>3, StepType DEF Goto
<1> QED
  BY <1>1, <1>2, <1>3 DEF TaskStarts

LEMMA AgentEventType ==
  ASSUME TypeOK, NEW id \in Ids, NEW n \in Runs, AgentEvent(id, n)
  PROVE  TypeOK'
<1> DEFINE k == found[id][n] + 1
           event == [run[id][n].base EXCEPT !.parts = k]
           r == [phase |-> "eventPut", base |-> run[id][n].base, copy |-> event]
<1>1. run[id][n].base \in Record /\ found[id][n] \in 0 .. AllParts /\ k \in 0 .. AllParts
  BY RunFields DEF AgentEvent, Is, TypeOK
<1>2. found' \in [Ids -> [Runs -> 0 .. AllParts]]
  <2>1. found[id] \in [Runs -> 0 .. AllParts]
    BY DEF TypeOK
  <2>2. [found[id] EXCEPT ![n] = k] \in [Runs -> 0 .. AllParts]
    BY <1>1, <2>1
  <2> QED
    BY <2>2 DEF AgentEvent, TypeOK
<1>3. projects' = projects /\ projects' \in [Ids -> NoRecord] /\ Keep
  BY DEF AgentEvent, TypeOK
<1>4. CASE projects[id] = Absent
  BY <1>2, <1>3, <1>4 DEF AgentEvent, Keep, TypeOK, recovery
<1>5. CASE projects[id] # Absent
  <2>1. event \in Record
    <3> HIDE DEF k
    <3> QED
      BY <1>1 DEF Record
  <2>2. r \in HeldRuns
    <3> HIDE DEF event
    <3> QED
      BY <1>1, <2>1 DEF HeldRuns, Run, Phases
  <2>3. run' = [run EXCEPT ![id][n] = r]
    BY <1>5 DEF AgentEvent, Step, Goto
  <2> HIDE DEF r
  <2> QED
    BY <1>2, <1>3, <2>2, <2>3, StepType
<1> QED
  BY <1>4, <1>5

LEMMA RunActionType ==
  ASSUME TypeOK, NEW id \in Ids, NEW n \in Runs,
         \/ RunStep(id, n) \/ StartFails(id, n) \/ AgentEvent(id, n) \/ StreamStep(id, n)
  PROVE  TypeOK'
<1>0. /\ run[id][n].base \in NoRecord /\ projects \in [Ids -> NoRecord]
      /\ found \in [Ids -> [Runs -> 0 .. AllParts]]
      /\ Is(id, n, {"reloadingPut", "starting", "streaming", "eventPut"})
           => run[id][n].base \in Record
  BY RunFields DEF TypeOK, Is
<1>1. CASE TaskStarts(id, n)
  BY <1>1, TaskStartsType
<1>2. CASE ReloadingPut(id, n)
  BY <1>0, <1>2, WriteBackType DEF ReloadingPut, Is
<1>3. CASE Connect(id, n)
  BY <1>0, <1>3, MovedRun, StepType DEF Connect, Step, Goto, Is
<1>4. CASE EventPut(id, n)
  BY <1>0, <1>4, WriteBackType DEF EventPut, Is
<1>5. CASE HandleError(id, n)
  BY <1>5, ReadOutcomeType DEF HandleError, RestStates
<1>6. CASE OutcomePut(id, n)
  BY <1>6, WriteBackType DEF OutcomePut
<1>7. CASE StartFails(id, n)
  BY <1>0, <1>7, MovedRun, StepType DEF StartFails, Step, Goto
<1>8. CASE AgentEvent(id, n)
  BY <1>8, AgentEventType
<1>9. CASE AgentCompletes(id, n)
  BY <1>9, ReadOutcomeType DEF AgentCompletes, RestStates
<1>10. CASE StreamFails(id, n)
  BY <1>0, <1>10, MovedRun, StepType DEF StreamFails, Step, Goto
<1> QED
  BY <1>1, <1>2, <1>3, <1>4, <1>5, <1>6, <1>7, <1>8, <1>9, <1>10 DEF RunStep, StreamStep

\* The sweep, and the crash before it.
LEMMA SweepStepType == TypeOK /\ SweepStep => TypeOK'
<1>1. ASSUME TypeOK, SweepRead
      PROVE  TypeOK'
  BY <1>1 DEF SweepRead, TypeOK
<1>2. ASSUME TypeOK, SweepDone
      PROVE  TypeOK'
  BY <1>2 DEF SweepDone, TypeOK
<1>3. ASSUME TypeOK, NEW id \in Ids, SweepPut(id)
      PROVE  TypeOK'
  <2>1. stuck[id] \in Record
    BY <1>3 DEF SweepPut, TypeOK
  <2>2. WithState(stuck[id], "INITIALIZATION_FAILED") \in Record
    BY <2>1, RecordWithState DEF RestStates
  <2>3. /\ projects' \in [Ids -> NoRecord] /\ stuck' \in [Ids -> NoRecord]
        /\ disturbed' \in [Ids -> SUBSET {"overlap", "stale", "thrown"}]
    BY <1>3, <2>2 DEF SweepPut, Put, TypeOK
  <2> QED
    BY <1>3, <2>3 DEF SweepPut, TypeOK
<1> QED
  BY <1>1, <1>2, <1>3 DEF SweepStep

LEMMA CrashType == TypeOK /\ Crash => TypeOK'
<1> SUFFICES ASSUME TypeOK, Crash
             PROVE  TypeOK'
  OBVIOUS
<1>1. run' \in [Ids -> [Runs -> HeldRuns]]
  <2>1. ASSUME NEW id \in Ids, NEW n \in Runs
        PROVE  [phase |-> IF Is(id, n, {"none"}) THEN "none" ELSE "done",
                base |-> Absent, copy |-> Absent] \in HeldRuns
    BY DEF HeldRuns, Run, Phases
  <2> QED
    BY <2>1 DEF Crash
<1>2. call' \in [Callers -> HeldCalls]
  BY IdleIsCall DEF Crash
<1>3. disturbed' \in [Ids -> SUBSET {"overlap", "stale", "thrown"}]
  BY DEF Crash, TypeOK
<1> QED
  BY <1>1, <1>2, <1>3 DEF Crash, TypeOK

LEMMA NextType == TypeOK /\ [Next]_vars => TypeOK'
<1> SUFFICES ASSUME TypeOK, [Next]_vars
             PROVE  TypeOK'
  OBVIOUS
<1>1. CASE UNCHANGED vars
  BY <1>1 DEF vars, recovery, TypeOK
<1>2. ASSUME NEW id \in Ids, DeleteResource(id)
      PROVE  TypeOK'
  BY <1>2 DEF DeleteResource, recovery, TypeOK
<1> QED
  BY <1>1, <1>2, CallAddType, ClickType, CallStepType, RunActionType, SweepStepType, CrashType
     DEF Next

\* Every variable of a project's life keeps its type; in particular every task and
\* call that is about to put a project still holds one.
THEOREM TypeCorrect == Spec => []TypeOK
BY InitType, NextType, PTL DEF Spec

-----------------------------------------------------------------------------
(* Progress that is shown has somebody who will end it.  With the types    *)
(* the invariant is inductive: the outcomes of runs are at rest, a run     *)
(* whose outcome is not yet put is alive, and a crash leaves the sweep to  *)
(* come.                                                                   *)

\* StuckHasWorker of one project.
Attended(id) ==
  Stuck(id) /\ ~ Forsaken(id) =>
    \/ \E n \in Runs : Live(id, n)
    \/ sweep = "read" \/ stuck[id] # Absent

LEMMA AllAttended == StuckHasWorker <=> \A id \in Ids : Attended(id)
BY DEF StuckHasWorker, Attended

\* A step that leaves a project, its runs and the sweep alone.
LEMMA Undisturbed ==
  ASSUME NEW id \in Ids, Attended(id),
         projects'[id] = projects[id], run'[id] = run[id], disturbed'[id] = disturbed[id],
         sweep' = sweep, stuck'[id] = stuck[id]
  PROVE  Attended(id)'
BY DEF Attended, Stuck, Forsaken, Live, Is

\* A step of a run that leaves it alive, or its project at rest or absent.
LEMMA RunAttends ==
  ASSUME TypeOK, StuckHasWorker, NEW id \in Ids, NEW n \in Runs, NEW r \in HeldRuns,
         run' = [run EXCEPT ![id][n] = r], Keep,
         \A i \in Ids : i # id => projects'[i] = projects[i],
         r.phase \notin {"none", "done"} \/ ~ Stuck(id)'
  PROVE  StuckHasWorker'
<1>1. run'[id][n] = r /\ \A i \in Ids : i # id => run'[i] = run[i]
  BY GotoType
<1>2. Attended(id)'
  BY <1>1 DEF Attended, Live, Is
<1>3. ASSUME NEW i \in Ids, i # id
      PROVE  Attended(i)'
  BY <1>1, <1>3, AllAttended, Undisturbed DEF Keep, recovery
<1> QED
  BY <1>2, <1>3 DEF StuckHasWorker, Attended

LEMMA ReadOutcomeAttends ==
  ASSUME TypeOK, StuckHasWorker, NEW id \in Ids, NEW n \in Runs,
         NEW p \in {"completePut", "failPut"}, NEW s \in RestStates,
         ReadOutcome(id, n, p, s)
  PROVE  StuckHasWorker'
<1>0. run[id][n].base \in NoRecord /\ projects' = projects /\ Keep
  BY RunFields DEF ReadOutcome
<1>1. CASE projects[id] = Absent
  <2>1. ~ Stuck(id)'
    BY <1>0, <1>1 DEF Stuck
  <2> QED
    BY <1>0, <1>1, <2>1, MovedRun, RunAttends DEF ReadOutcome, Step, Goto
<1>2. CASE projects[id] # Absent
  BY <1>0, <1>2, OutcomeRun, RunAttends DEF ReadOutcome, Step, Goto
<1> QED
  BY <1>1, <1>2

LEMMA WriteBackAttends ==
  ASSUME TypeOK, StuckHasWorker, NEW id \in Ids, NEW n \in Runs,
         NEW p \in {"starting", "streaming", "done"}, WriteBack(id, n, p),
         p # "done" => run[id][n].base \in Record,
         p = "done" => run[id][n].copy.state \in RestStates
  PROVE  StuckHasWorker'
<1>1. [phase |-> p, base |-> run[id][n].base, copy |-> Absent] \in HeldRuns
  BY RunFields DEF HeldRuns, Run, Phases
<1>2. /\ projects' = [projects EXCEPT ![id] = run[id][n].copy]
      /\ run' = [run EXCEPT ![id][n] = [phase |-> p, base |-> run[id][n].base, copy |-> Absent]]
      /\ Keep
  BY DEF WriteBack, Put, Step, Goto
<1>3. projects'[id] = run[id][n].copy /\ \A i \in Ids : i # id => projects'[i] = projects[i]
  BY <1>2 DEF TypeOK
<1>4. p = "done" => ~ Stuck(id)'
  BY <1>3 DEF Stuck, RestStates, StuckStates
<1> QED
  BY <1>1, <1>2, <1>3, <1>4, RunAttends

LEMMA RunActionAttends ==
  ASSUME TypeOK, StuckHasWorker, NEW id \in Ids, NEW n \in Runs,
         \/ RunStep(id, n) \/ StartFails(id, n) \/ AgentEvent(id, n) \/ StreamStep(id, n)
  PROVE  StuckHasWorker'
<1>0. /\ run[id][n].base \in NoRecord
      /\ Is(id, n, {"reloadingPut", "starting", "streaming", "eventPut"})
           => run[id][n].base \in Record
      /\ Is(id, n, {"completePut", "failPut"}) => run[id][n].copy.state \in RestStates
  BY RunFields DEF Is
<1>1. CASE TaskStarts(id, n)
  <2> DEFINE reloading == WithState(run[id][n].base, "RELOADING")
  <2>0. projects' = projects /\ Keep
    BY <1>1 DEF TaskStarts
  <2>1. CASE projects[id] = Absent
    <3>1. ~ Stuck(id)'
      BY <2>0, <2>1 DEF Stuck
    <3> QED
      BY <1>0, <1>1, <2>0, <2>1, <3>1, MovedRun, RunAttends DEF TaskStarts, Step, Goto
  <2>2. CASE projects[id] # Absent /\ Goto(id, n, "starting", projects[id], Absent)
    <3>1. [phase |-> "starting", base |-> projects[id], copy |-> Absent] \in HeldRuns
      BY <2>2 DEF HeldRuns, Run, Phases, TypeOK
    <3> QED
      BY <2>0, <2>2, <3>1, RunAttends DEF Goto
  <2>3. CASE Is(id, n, {"reloaded"}) /\ Goto(id, n, "reloadingPut", reloading, reloading)
    <3>1. run[id][n].base \in Record
      BY <2>3, RunFields DEF Is
    <3>2. reloading \in Record
      BY <3>1, RecordWithState DEF StuckStates
    <3>3. [phase |-> "reloadingPut", base |-> reloading, copy |-> reloading] \in HeldRuns
      BY <3>2 DEF HeldRuns, Run, Phases
    <3> QED
      BY <2>0, <2>3, <3>3, RunAttends DEF Goto
  <2> QED
    BY <1>1, <2>1, <2>2, <2>3 DEF TaskStarts
<1>2. CASE ReloadingPut(id, n)
  BY <1>0, <1>2, WriteBackAttends DEF ReloadingPut, Is
<1>3. CASE Connect(id, n)
  BY <1>0, <1>3, MovedRun, RunAttends DEF Connect, Step, Goto, Is
<1>4. CASE EventPut(id, n)
  BY <1>0, <1>4, WriteBackAttends DEF EventPut, Is
<1>5. CASE HandleError(id, n)
  BY <1>5, ReadOutcomeAttends DEF HandleError, RestStates
<1>6. CASE OutcomePut(id, n)
  BY <1>0, <1>6, WriteBackAttends DEF OutcomePut
<1>7. CASE StartFails(id, n)
  BY <1>0, <1>7, MovedRun, RunAttends DEF StartFails, Step, Goto
<1>8. CASE AgentEvent(id, n)
  <2> DEFINE event == [run[id][n].base EXCEPT !.parts = found[id][n] + 1]
             r == [phase |-> "eventPut", base |-> run[id][n].base, copy |-> event]
  <2>1. projects' = projects /\ Keep
    BY <1>8 DEF AgentEvent
  <2>2. CASE projects[id] = Absent
    BY <1>8, <2>1, <2>2, AllAttended, Undisturbed
       DEF AgentEvent, Keep, recovery, StuckHasWorker, Attended
  <2>3. CASE projects[id] # Absent
    <3>1. run' = [run EXCEPT ![id][n] = r]
      BY <1>8, <2>3 DEF AgentEvent, Step, Goto
    <3>2. r \in HeldRuns
      <4>1. run' \in [Ids -> [Runs -> HeldRuns]] /\ run'[id][n] = r
        BY <1>8, <3>1, AgentEventType DEF TypeOK
      <4> QED
        BY <4>1
    <3> HIDE DEF event
    <3> QED
      BY <2>1, <3>1, <3>2, RunAttends
  <2> QED
    BY <2>2, <2>3
<1>9. CASE AgentCompletes(id, n)
  BY <1>9, ReadOutcomeAttends DEF AgentCompletes, RestStates
<1>10. CASE StreamFails(id, n)
  BY <1>0, <1>10, MovedRun, RunAttends DEF StreamFails, Step, Goto
<1> QED
  BY <1>1, <1>2, <1>3, <1>4, <1>5, <1>6, <1>7, <1>8, <1>9, <1>10 DEF RunStep, StreamStep

\* The calls.  An update that is not stale leaves the state it finds, a reload
\* launches a run, and a deletion leaves nothing to attend to.
LEMMA CallAttends ==
  ASSUME TypeOK, StuckHasWorker, NEW t \in Callers, CallStep(t)
  PROVE  StuckHasWorker'
<1> DEFINE c == call[t]
<1>0. /\ c.pc # "idle" => c.id \in Ids
      /\ c.pc = "put" => c.copy \in Record
  BY CallFields
<1>1. CASE CallRead(t)
  BY <1>1, AllAttended, Undisturbed DEF CallRead, recovery, StuckHasWorker, Attended
<1>2. CASE CallDelete(t)
  <2>0. PICK id \in Ids : id = c.id
    BY <1>0, <1>2 DEF CallDelete
  <2>1. projects'[id] = Absent /\ \A i \in Ids : i # id => projects'[i] = projects[i]
    BY <1>2, <2>0 DEF CallDelete, Put, TypeOK
  <2>2. Attended(id)'
    BY <2>1 DEF Attended, Stuck
  <2>3. ASSUME NEW i \in Ids, i # id
        PROVE  Attended(i)'
    BY <1>2, <2>1, <2>3, AllAttended, Undisturbed DEF CallDelete, recovery
  <2> QED
    BY <2>2, <2>3 DEF StuckHasWorker, Attended
<1>3. CASE CallReload(t)
  <2> DEFINE cleared == [state |-> "RELOAD_STARTED", settings |-> c.copy.settings,
                         run |-> runs[c.id] + 1, parts |-> 0]
             r == [phase |-> IF resource[c.id] THEN "reloaded" ELSE "done",
                   base |-> cleared, copy |-> Absent]
  <2>0. PICK id \in Ids : id = c.id
    BY <1>0, <1>3 DEF CallReload
  <2>1. PICK n \in Runs : n = runs[c.id] + 1
    BY <1>3 DEF CallReload
  <2>2. cleared \in Record
    BY <1>0, <1>3, <2>1 DEF CallReload, Record, StuckStates
  <2>3. r \in HeldRuns
    BY <2>2 DEF HeldRuns, Run, Phases
  <2>4. run' = [run EXCEPT ![id][n] = r]
    BY <1>3, <2>0, <2>1 DEF CallReload, Launch
  <2>5. run'[id][n] = r /\ \A i \in Ids : i # id => run'[i] = run[i]
    <3> HIDE DEF r
    <3> QED
      BY <2>3, <2>4, GotoType
  <2>6. \A i \in Ids : i # id => projects'[i] = projects[i] /\ disturbed'[i] = disturbed[i]
    BY <1>3, <2>0 DEF CallReload, Put, TypeOK
  <2>7. Attended(id)'
    <3>1. CASE resource[id]
      <4>1. Live(id, n)'
        BY <2>0, <2>5, <3>1 DEF Live, Is
      <4> QED
        BY <4>1 DEF Attended
    <3>2. CASE ~ resource[id]
      <4>1. "thrown" \in disturbed'[id]
        BY <1>3, <2>0, <3>2 DEF CallReload, Thrown, TypeOK
      <4> QED
        BY <4>1 DEF Attended, Forsaken
    <3> QED
      BY <3>1, <3>2
  <2>8. ASSUME NEW i \in Ids, i # id
        PROVE  Attended(i)'
    BY <1>3, <2>5, <2>6, <2>8, AllAttended, Undisturbed DEF CallReload, recovery
  <2> QED
    BY <2>7, <2>8 DEF StuckHasWorker, Attended
<1>4. ASSUME NEW s \in Settings, CallUpdate(t, s)
      PROVE  StuckHasWorker'
  <2>0. PICK id \in Ids : id = c.id
    BY <1>0, <1>4 DEF CallUpdate
  <2>1. PICK copy \in Record : copy = c.copy
    BY <1>0, <1>4 DEF CallUpdate
  <2>2. [copy EXCEPT !.settings = s].state = copy.state
    BY DEF Record
  <2>3. /\ projects'[id] = [copy EXCEPT !.settings = s]
        /\ \A i \in Ids : i # id => projects'[i] = projects[i]
    BY <1>4, <2>0, <2>1 DEF CallUpdate, Put, TypeOK
  <2>4. /\ projects[id] # copy => disturbed'[id] = disturbed[id] \cup {"stale"}
        /\ projects[id] = copy => disturbed'[id] = disturbed[id]
        /\ \A i \in Ids : i # id => disturbed'[i] = disturbed[i]
    BY <1>4, <2>0, <2>1 DEF CallUpdate, TypeOK
  <2>5. run' = run /\ sweep' = sweep /\ stuck' = stuck
    BY <1>4 DEF CallUpdate, recovery
  <2>6. Attended(id)'
    <3>1. CASE projects[id] # copy
      BY <2>4, <3>1 DEF Attended, Forsaken
    <3>2. CASE projects[id] = copy
      <4>1. copy # Absent
        BY AbsentAssumption
      <4>2. Stuck(id)' => Stuck(id)
        BY <2>2, <2>3, <3>2, <4>1 DEF Stuck
      <4> QED
        BY <2>4, <2>5, <3>2, <4>2, AllAttended DEF Attended, Forsaken, Live, Is
    <3> QED
      BY <3>1, <3>2
  <2>7. ASSUME NEW i \in Ids, i # id
        PROVE  Attended(i)'
    BY <2>3, <2>4, <2>5, <2>7, AllAttended, Undisturbed
  <2> QED
    BY <2>6, <2>7 DEF StuckHasWorker, Attended
<1> QED
  BY <1>1, <1>2, <1>3, <1>4 DEF CallStep

LEMMA CallAddAttends ==
  ASSUME TypeOK, StuckHasWorker, NEW id \in Ids, NEW s \in Settings, CallAdd(id, s)
  PROVE  StuckHasWorker'
<1> DEFINE r == [phase |-> IF resource[id] THEN "added" ELSE "done",
                 base |-> Absent, copy |-> Absent]
<1>1. 1 \in Runs
  OBVIOUS
<1>2. r \in HeldRuns
  BY DEF HeldRuns, Run, Phases
<1>3. run'[id][1] = r /\ \A i \in Ids : i # id => run'[i] = run[i]
  <2>1. run' = [run EXCEPT ![id][1] = r]
    BY DEF CallAdd, Launch
  <2> HIDE DEF r
  <2> QED
    BY <1>1, <1>2, <2>1, GotoType
<1>4. resource[id] => Live(id, 1)'
  BY <1>3 DEF Live, Is
<1>5. Attended(id)'
  <2>1. ~ resource[id] => Forsaken(id)'
    BY DEF CallAdd, Thrown, Forsaken, TypeOK
  <2> QED
    BY <1>1, <1>4, <2>1 DEF Attended
<1>6. ASSUME NEW i \in Ids, i # id
      PROVE  Attended(i)'
  BY <1>3, <1>6, AllAttended, Undisturbed DEF CallAdd, Put, TypeOK, recovery
<1> QED
  BY <1>5, <1>6 DEF StuckHasWorker, Attended

\* The sweep takes on every stuck project before it counts as having read, and
\* leaves each one it writes at rest.
LEMMA SweepAttends ==
  ASSUME TypeOK, StuckHasWorker, SweepStep
  PROVE  StuckHasWorker'
<1>1. CASE SweepRead
  BY <1>1 DEF SweepRead, StuckHasWorker, Stuck
<1>2. CASE SweepDone
  BY <1>2 DEF SweepDone, StuckHasWorker, Stuck, Forsaken, Live, Is
<1>3. ASSUME NEW id \in Ids, SweepPut(id)
      PROVE  StuckHasWorker'
  <2>1. WithState(stuck[id], "INITIALIZATION_FAILED").state \notin StuckStates
    BY <1>3, RecordWithState DEF SweepPut, TypeOK, RestStates, StuckStates
  <2>2. projects'[id] = WithState(stuck[id], "INITIALIZATION_FAILED")
    BY <1>3 DEF SweepPut, Put, TypeOK
  <2>3. Attended(id)'
    BY <2>1, <2>2 DEF Attended, Stuck
  <2>4. ASSUME NEW i \in Ids, i # id
        PROVE  Attended(i)'
    BY <1>3, <2>4, AllAttended, Undisturbed DEF SweepPut, Put, TypeOK
  <2> QED
    BY <2>3, <2>4 DEF StuckHasWorker, Attended
<1> QED
  BY <1>1, <1>2, <1>3 DEF SweepStep

LEMMA NextAttends == TypeOK /\ StuckHasWorker /\ [Next]_vars => StuckHasWorker'
<1> SUFFICES ASSUME TypeOK, StuckHasWorker, [Next]_vars
             PROVE  StuckHasWorker'
  OBVIOUS
<1>1. CASE UNCHANGED vars
  BY <1>1 DEF vars, recovery, StuckHasWorker, Stuck, Forsaken, Live, Is
<1>2. ASSUME NEW t \in Callers, NEW id \in Ids, NEW b \in Buttons, Click(t, id, b)
      PROVE  StuckHasWorker'
  BY <1>2 DEF Click, recovery, StuckHasWorker, Stuck, Forsaken, Live, Is
<1>4. ASSUME NEW id \in Ids, DeleteResource(id)
      PROVE  StuckHasWorker'
  BY <1>4 DEF DeleteResource, recovery, StuckHasWorker, Stuck, Forsaken, Live, Is
<1>3. CASE Crash
  BY <1>3 DEF Crash, StuckHasWorker
<1> QED
  BY <1>1, <1>2, <1>3, <1>4, CallAddAttends, CallAttends, RunActionAttends, SweepAttends DEF Next

\* A project whose card shows progress is never forgotten, however many users act on
\* it, whenever the panel crashes and whatever resources are deleted: a run or the
\* restart sweep is still to end it, unless a stale record was put back, or its last
\* call threw when it had put the project and the panel was not restarted since.
THEOREM StuckIsAttended == Spec => []StuckHasWorker
<1>1. Init => StuckHasWorker
  BY DEF Init, StuckHasWorker, Stuck
<1> QED
  BY <1>1, InitType, NextType, NextAttends, PTL DEF Spec

-----------------------------------------------------------------------------
(* What is put.  An undisturbed project has one run, the last, and what    *)
(* every copy of it says is what that run has found; an update that nobody *)
(* held a copy against is in every copy made since.                        *)

\* Runs begin one after the other, and a project that was never added is nowhere.
Begun(id) ==
  /\ \A n \in Runs : n > runs[id] => run[id][n].phase = "none" /\ found[id][n] = 0
  /\ runs[id] = 0 => projects[id] = Absent /\ stuck[id] = Absent

\* What run r, whose agent has sent k parts, is going to put has the settings s.
Carries(r, k, s) ==
  /\ r.phase \in {"reloadingPut", "eventPut", "completePut", "failPut"} => r.copy.settings = s
  /\ (\/ r.phase \in {"reloaded", "reloadingPut", "starting"}
      \/ r.phase \in {"streaming", "eventPut"} /\ k < AllParts)
       => r.base.settings = s

Kept(id) ==
  wanted[id] # Absent =>
    /\ projects[id] # Absent => projects[id].settings = wanted[id]
    /\ stuck[id] # Absent => stuck[id].settings = wanted[id]
    /\ \A n \in Runs : Carries(run[id][n], found[id][n], wanted[id])

\* A project as run m leaves it.
OfRun(p, m) == p.run = m /\ (p.state = "INITIALIZED" => p.parts = AllParts)

\* Run m, as r, whose agent has sent k parts, and the stored project p agree.
Agrees(r, k, p, m) ==
  /\ r.phase \in {"added", "reloaded", "reloadingPut", "starting"}
       => k = 0 /\ (p # Absent => p.parts = 0)
  /\ r.phase \in {"reloaded", "reloadingPut", "starting", "streaming", "eventPut"}
       => r.base.run = m /\ r.base.state # "INITIALIZED"
  /\ r.phase \in {"reloaded", "reloadingPut"} => r.base.parts = 0
  /\ r.phase = "reloadingPut" => r.copy = r.base
  /\ r.phase = "streaming" /\ p # Absent => p.parts = k
  /\ r.phase = "eventPut" => r.copy = [r.base EXCEPT !.parts = k]
  /\ r.phase = "completePut" => r.copy.run = m /\ r.copy.parts = AllParts
  /\ r.phase = "failPut" => r.copy.run = m /\ r.copy.state = "INITIALIZATION_FAILED"

Ended == {"none", "done"}

OnCourse(id) ==
  ~ Muddled(id) =>
    /\ projects[id] # Absent => OfRun(projects[id], runs[id])
    /\ \A n \in Runs : Live(id, n) =>
         n = runs[id] /\ Agrees(run[id][n], found[id][n], projects[id], runs[id])

Whole ==
  /\ \A id \in Ids : Begun(id) /\ Kept(id) /\ OnCourse(id)
  /\ \A t \in Callers : call[t].pc # "idle" => runs[call[t].id] > 0

\* Whole, of one project.
Fine(id) == Begun(id) /\ Kept(id) /\ OnCourse(id)

LEMMA WholeGives == TypeOK /\ Whole => InitializedIsComplete /\ SettingsKept
<1> SUFFICES ASSUME TypeOK, Whole
             PROVE  InitializedIsComplete /\ SettingsKept
  OBVIOUS
<1>1. InitializedIsComplete
  BY DEF Whole, OnCourse, OfRun, InitializedIsComplete
<1>2. SettingsKept
  BY DEF Whole, Kept, SettingsKept
<1> QED
  BY <1>1, <1>2

LEMMA InitWhole == Init => Whole
BY DEF Init, Whole, Begun, Kept, OnCourse, Live, Is, Idle, NoRun

\* A step that leaves all there is of a project alone.
LEMMA FineStays ==
  ASSUME NEW id \in Ids, Fine(id),
         projects'[id] = projects[id], runs'[id] = runs[id], run'[id] = run[id],
         found'[id] = found[id], stuck'[id] = stuck[id],
         disturbed'[id] = disturbed[id], wanted'[id] = wanted[id]
  PROVE  Fine(id)'
<1>1. Begun(id)'
  BY DEF Fine, Begun
<1>2. Kept(id)'
  BY DEF Fine, Kept
<1>3. OnCourse(id)'
  BY DEF Fine, OnCourse, Muddled, Live, Is
<1> QED
  BY <1>1, <1>2, <1>3 DEF Fine

\* A step of a live run: what it makes of itself (r), of its project (p) and of what its
\* agent has sent (k).  No other run of an undisturbed project is live.
LEMMA RunFine ==
  ASSUME TypeOK, Whole, NEW id \in Ids, NEW n \in Runs, NEW r \in HeldRuns,
         NEW p \in NoRecord, NEW k \in 0 .. AllParts,
         run' = [run EXCEPT ![id][n] = r], projects' = [projects EXCEPT ![id] = p],
         found' = [found EXCEPT ![id][n] = k], Keep,
         Live(id, n),
         wanted[id] # Absent => (p # Absent => p.settings = wanted[id]) /\ Carries(r, k, wanted[id]),
         ~ Muddled(id) =>
           /\ p # Absent => OfRun(p, runs[id])
           /\ r.phase \notin Ended => Agrees(r, k, p, runs[id])
  PROVE  Whole'
<1>1. /\ UNCHANGED <<runs, call, stuck, disturbed, wanted>>
      /\ projects'[id] = p /\ \A i \in Ids : i # id => projects'[i] = projects[i]
  BY DEF Keep, recovery, TypeOK
<1>2. /\ run'[id][n] = r /\ \A m \in Runs : m # n => run'[id][m] = run[id][m]
      /\ \A i \in Ids : i # id => run'[i] = run[i]
  <2>1. run[id] \in [Runs -> HeldRuns] /\ run \in [Ids -> [Runs -> HeldRuns]]
    BY DEF TypeOK
  <2> QED
    BY <2>1
<1>3. /\ found'[id][n] = k /\ \A m \in Runs : m # n => found'[id][m] = found[id][m]
      /\ \A i \in Ids : i # id => found'[i] = found[i]
  <2>1. found[id] \in [Runs -> 0 .. AllParts] /\ found \in [Ids -> [Runs -> 0 .. AllParts]]
    BY DEF TypeOK
  <2> QED
    BY <2>1
<1>4. Fine(id)
  BY DEF Whole, Fine
<1>5. ~ (n > runs[id])
  BY <1>4 DEF Fine, Begun, Live, Is
<1>6. Begun(id)'
  <2>1. runs[id] # 0
    BY <1>5
  <2> QED
    BY <1>1, <1>2, <1>3, <1>4, <1>5, <2>1 DEF Fine, Begun
<1>7. Kept(id)'
  <2> SUFFICES ASSUME wanted[id] # Absent
               PROVE  Kept(id)'
    BY <1>1 DEF Kept
  <2>1. \A m \in Runs : Carries(run'[id][m], found'[id][m], wanted[id])
    BY <1>2, <1>3, <1>4 DEF Fine, Kept
  <2> QED
    BY <1>1, <1>4, <2>1 DEF Fine, Kept
<1>8. OnCourse(id)'
  <2> SUFFICES ASSUME ~ Muddled(id)
               PROVE  OnCourse(id)'
    BY <1>1 DEF OnCourse, Muddled
  <2>1. n = runs[id] /\ \A m \in Runs : m # n => ~ Live(id, m)
    BY <1>4 DEF Fine, OnCourse
  <2>2. \A m \in Runs : Live(id, m)' => m = n /\ r.phase \notin Ended
    BY <1>2, <2>1 DEF Live, Is, Ended
  <2> QED
    BY <1>1, <1>2, <1>3, <2>1, <2>2 DEF OnCourse
<1>9. ASSUME NEW i \in Ids
      PROVE  Fine(i)'
  <2>1. CASE i = id
    BY <1>6, <1>7, <1>8, <2>1 DEF Fine
  <2>2. CASE i # id
    <3>1. Fine(i)
      BY DEF Whole, Fine
    <3> QED
      BY <1>1, <1>2, <1>3, <2>2, <3>1, FineStays
  <2> QED
    BY <2>1, <2>2
<1>10. \A t \in Callers : call'[t].pc # "idle" => runs'[call'[t].id] > 0
  BY <1>1 DEF Whole
<1> QED
  BY <1>9, <1>10 DEF Whole, Fine

\* What a live run knows: it carries the settings, and agrees with its project.
LEMMA LiveRun ==
  ASSUME TypeOK, Whole, NEW id \in Ids, NEW n \in Runs, Live(id, n)
  PROVE  /\ wanted[id] # Absent =>
              /\ projects[id] # Absent => projects[id].settings = wanted[id]
              /\ Carries(run[id][n], found[id][n], wanted[id])
         /\ ~ Muddled(id) =>
              /\ projects[id] # Absent => OfRun(projects[id], runs[id])
              /\ Agrees(run[id][n], found[id][n], projects[id], runs[id])
<1>1. Kept(id) /\ OnCourse(id)
  BY DEF Whole
<1> QED
  BY <1>1 DEF Kept, OnCourse

\* An assignment of what is there changes nothing.
LEMMA SameAgain ==
  ASSUME TypeOK, NEW id \in Ids, NEW n \in Runs
  PROVE  /\ projects = [projects EXCEPT ![id] = projects[id]]
         /\ found = [found EXCEPT ![id][n] = found[id][n]]
         /\ run = [run EXCEPT ![id][n] = run[id][n]]
         /\ projects[id] \in NoRecord /\ found[id][n] \in 0 .. AllParts
BY DEF TypeOK

\* A step of a run that leaves its project and its agent alone.
LEMMA RunMoves ==
  ASSUME TypeOK, Whole, NEW id \in Ids, NEW n \in Runs, NEW r \in HeldRuns,
         run' = [run EXCEPT ![id][n] = r], projects' = projects, found' = found, Keep,
         Live(id, n),
         wanted[id] # Absent => Carries(r, found[id][n], wanted[id]),
         ~ Muddled(id) /\ r.phase \notin Ended
           => Agrees(r, found[id][n], projects[id], runs[id])
  PROVE  Whole'
<1> DEFINE p == projects[id]
           k == found[id][n]
<1>1. /\ p \in NoRecord /\ k \in 0 .. AllParts
      /\ projects' = [projects EXCEPT ![id] = p] /\ found' = [found EXCEPT ![id][n] = k]
  BY SameAgain
<1>2. wanted[id] # Absent => (p # Absent => p.settings = wanted[id]) /\ Carries(r, k, wanted[id])
  BY LiveRun
<1>3. ~ Muddled(id) =>
        /\ p # Absent => OfRun(p, runs[id])
        /\ r.phase \notin Ended => Agrees(r, k, p, runs[id])
  BY LiveRun
<1> HIDE DEF p, k
<1> QED
  BY <1>1, <1>2, <1>3, RunFine

\* A run that lets go of what it held.
LEMMA LetsGo ==
  ASSUME TypeOK, Whole, NEW id \in Ids, NEW n \in Runs, Live(id, n),
         NEW phase \in {"failing", "done"}, Step(id, n, phase, Absent),
         projects' = projects, found' = found, Keep
  PROVE  Whole'
<1> DEFINE r == [phase |-> phase, base |-> run[id][n].base, copy |-> Absent]
<1>1. r \in HeldRuns
  BY MovedRun, RunFields
<1>2. run' = [run EXCEPT ![id][n] = r]
  BY DEF Step, Goto
<1>3. Carries(r, found[id][n], wanted[id]) /\ Agrees(r, found[id][n], projects[id], runs[id])
  BY DEF Carries, Agrees
<1> HIDE DEF r
<1> QED
  BY <1>1, <1>2, <1>3, RunMoves

LEMMA ReadOutcomeWhole ==
  ASSUME TypeOK, Whole, NEW id \in Ids, NEW n \in Runs, Live(id, n),
         NEW phase \in {"completePut", "failPut"}, NEW state \in RestStates,
         ReadOutcome(id, n, phase, state),
         \/ phase = "failPut" /\ state = "INITIALIZATION_FAILED"
         \/ Is(id, n, {"streaming"}) /\ found[id][n] = AllParts /\ phase = "completePut"
  PROVE  Whole'
<1>1. CASE projects[id] = Absent
  BY <1>1, LetsGo DEF ReadOutcome
<1>2. CASE projects[id] # Absent
  <2> DEFINE c == WithState(projects[id], state)
             r == [phase |-> phase, base |-> run[id][n].base, copy |-> c]
  <2>1. r \in HeldRuns
    BY <1>2, OutcomeRun
  <2>2. run' = [run EXCEPT ![id][n] = r] /\ projects' = projects /\ found' = found /\ Keep
    BY <1>2 DEF ReadOutcome, Step, Goto
  <2>3. projects[id] \in Record
    BY <1>2 DEF TypeOK
  <2>4. /\ c.settings = projects[id].settings /\ c.run = projects[id].run
        /\ c.parts = projects[id].parts /\ c.state = state
    BY <2>3 DEF WithState, Record
  <2>5. wanted[id] # Absent => Carries(r, found[id][n], wanted[id])
    BY <1>2, <2>4, LiveRun DEF Carries
  <2>6. ~ Muddled(id) => Agrees(r, found[id][n], projects[id], runs[id])
    <3> SUFFICES ASSUME ~ Muddled(id)
                 PROVE  Agrees(r, found[id][n], projects[id], runs[id])
      OBVIOUS
    <3>1. c.run = runs[id]
      BY <1>2, <2>4, LiveRun DEF OfRun
    <3>2. phase = "completePut" => c.parts = AllParts
      BY <1>2, <2>4, LiveRun DEF Agrees, Is
    <3> QED
      BY <2>4, <3>1, <3>2 DEF Agrees
  <2> HIDE DEF r
  <2> QED
    BY <2>1, <2>2, <2>5, <2>6, RunMoves
<1> QED
  BY <1>1, <1>2

LEMMA WriteBackWhole ==
  ASSUME TypeOK, Whole, NEW id \in Ids, NEW n \in Runs, NEW phase,
         \/ Is(id, n, {"reloadingPut"}) /\ phase = "starting"
         \/ Is(id, n, {"eventPut"}) /\ phase = "streaming"
         \/ Is(id, n, {"completePut", "failPut"}) /\ phase = "done",
         WriteBack(id, n, phase)
  PROVE  Whole'
<1> DEFINE old == run[id][n]
           r == [phase |-> phase, base |-> old.base, copy |-> Absent]
           k == found[id][n]
<1>1. Live(id, n) /\ old.copy \in Record
  BY RunFields DEF Live, Is
<1>2. /\ run' = [run EXCEPT ![id][n] = r] /\ projects' = [projects EXCEPT ![id] = old.copy]
      /\ found' = found /\ Keep
  BY DEF WriteBack, Put, Step, Goto
<1>3. r \in HeldRuns
  BY RunFields DEF HeldRuns, Run, Phases, Is
<1>4. wanted[id] # Absent => old.copy.settings = wanted[id] /\ Carries(r, k, wanted[id])
  BY <1>1, LiveRun DEF Carries, Is
<1>5. ASSUME ~ Muddled(id)
      PROVE  OfRun(old.copy, runs[id]) /\ (phase # "done" => Agrees(r, k, old.copy, runs[id]))
  <2>1. Agrees(old, k, projects[id], runs[id])
    BY <1>1, <1>5, LiveRun
  <2>2. old.base \in Record \/ phase = "done"
    BY RunFields DEF Is
  <2>3. CASE Is(id, n, {"reloadingPut"}) /\ phase = "starting"
    BY <1>1, <2>1, <2>3 DEF Agrees, OfRun, Is
  <2>4. CASE Is(id, n, {"eventPut"}) /\ phase = "streaming"
    <3>1. old.copy.run = old.base.run /\ old.copy.state = old.base.state /\ old.copy.parts = k
      BY <2>1, <2>2, <2>4 DEF Agrees, Is, Record
    <3> QED
      BY <2>1, <2>4, <3>1 DEF Agrees, OfRun, Is
  <2>5. CASE Is(id, n, {"completePut", "failPut"}) /\ phase = "done"
    BY <2>1, <2>5 DEF Agrees, OfRun, Is
  <2> QED
    BY <2>3, <2>4, <2>5
<1>6. old.copy \in NoRecord /\ k \in 0 .. AllParts /\ found' = [found EXCEPT ![id][n] = k]
  BY <1>1, <1>2, SameAgain
<1>7. r.phase \notin Ended => phase # "done"
  BY DEF Ended
<1> HIDE DEF r, k
<1> QED
  BY <1>1, <1>2, <1>3, <1>4, <1>5, <1>6, <1>7, RunFine

LEMMA TaskStartsWhole ==
  ASSUME TypeOK, Whole, NEW id \in Ids, NEW n \in Runs, TaskStarts(id, n)
  PROVE  Whole'
<1> DEFINE old == run[id][n]
           k == found[id][n]
           reloading == WithState(old.base, "RELOADING")
<1>1. Live(id, n) /\ projects' = projects /\ found' = found /\ Keep
  BY DEF TaskStarts, Live, Is
<1>2. CASE projects[id] = Absent
  BY <1>1, <1>2, LetsGo DEF TaskStarts
<1>3. CASE projects[id] # Absent /\ Is(id, n, {"added"}) /\ Goto(id, n, "starting", projects[id], Absent)
  <2> DEFINE r == [phase |-> "starting", base |-> projects[id], copy |-> Absent]
  <2>1. r \in HeldRuns /\ run' = [run EXCEPT ![id][n] = r]
    BY <1>3 DEF HeldRuns, Run, Phases, TypeOK, Goto
  <2>2. wanted[id] # Absent => Carries(r, k, wanted[id])
    BY <1>1, <1>3, LiveRun DEF Carries
  <2>3. ASSUME ~ Muddled(id)
        PROVE  Agrees(r, k, projects[id], runs[id])
    <3>1. k = 0 /\ projects[id].parts = 0 /\ OfRun(projects[id], runs[id])
      BY <1>1, <1>3, <2>3, LiveRun DEF Agrees, Is
    <3> QED
      BY <3>1 DEF Agrees, OfRun
  <2> HIDE DEF r
  <2> QED
    BY <1>1, <2>1, <2>2, <2>3, RunMoves
<1>4. CASE Is(id, n, {"reloaded"}) /\ Goto(id, n, "reloadingPut", reloading, reloading)
  <2> DEFINE r == [phase |-> "reloadingPut", base |-> reloading, copy |-> reloading]
  <2>1. old.base \in Record
    BY <1>4, RunFields DEF Is
  <2>2. /\ reloading \in Record /\ reloading.settings = old.base.settings
        /\ reloading.run = old.base.run /\ reloading.parts = old.base.parts
        /\ reloading.state = "RELOADING"
    BY <2>1, RecordWithState DEF StuckStates, WithState, Record
  <2> HIDE DEF reloading
  <2>3. r \in HeldRuns /\ run' = [run EXCEPT ![id][n] = r]
    BY <1>4, <2>2 DEF HeldRuns, Run, Phases, Goto
  <2>4. wanted[id] # Absent => Carries(r, k, wanted[id])
    BY <1>1, <1>4, <2>2, LiveRun DEF Carries, Is
  <2>5. ~ Muddled(id) => Agrees(r, k, projects[id], runs[id])
    BY <1>1, <1>4, <2>2, LiveRun DEF Agrees, OfRun, Is
  <2> HIDE DEF r
  <2> QED
    BY <1>1, <2>3, <2>4, <2>5, RunMoves
<1> QED
  BY <1>2, <1>3, <1>4 DEF TaskStarts

LEMMA ConnectWhole ==
  ASSUME TypeOK, Whole, NEW id \in Ids, NEW n \in Runs, Connect(id, n)
  PROVE  Whole'
<1> DEFINE old == run[id][n]
           k == found[id][n]
           r == [phase |-> "streaming", base |-> old.base, copy |-> Absent]
<1>1. Live(id, n) /\ old.phase = "starting" /\ projects' = projects /\ found' = found /\ Keep
  BY DEF Connect, Live, Is
<1>2. r \in HeldRuns /\ run' = [run EXCEPT ![id][n] = r]
  BY <1>1, RunFields, MovedRun DEF Connect, Step, Goto, Is
<1>3. wanted[id] # Absent => Carries(r, k, wanted[id])
  BY <1>1, LiveRun DEF Carries
<1>4. ASSUME ~ Muddled(id)
      PROVE  Agrees(r, k, projects[id], runs[id])
  <2>1. /\ k = 0 /\ (projects[id] # Absent => projects[id].parts = 0)
        /\ old.base.run = runs[id] /\ old.base.state # "INITIALIZED"
    BY <1>1, <1>4, LiveRun DEF Agrees
  <2> HIDE DEF k, old
  <2> QED
    BY <2>1 DEF Agrees
<1> HIDE DEF r
<1> QED
  BY <1>1, <1>2, <1>3, <1>4, RunMoves

LEMMA AgentEventWhole ==
  ASSUME TypeOK, Whole, NEW id \in Ids, NEW n \in Runs, AgentEvent(id, n)
  PROVE  Whole'
<1> DEFINE old == run[id][n]
           k == found[id][n] + 1
           event == [old.base EXCEPT !.parts = k]
           r == [phase |-> "eventPut", base |-> old.base, copy |-> event]
<1>1. /\ Live(id, n) /\ old.phase = "streaming" /\ found[id][n] < AllParts
      /\ projects' = projects /\ Keep /\ old.base \in Record
  BY RunFields DEF AgentEvent, Live, Is
<1>2. k \in 0 .. AllParts /\ found' = [found EXCEPT ![id][n] = k]
  <2>1. found[id][n] \in 0 .. AllParts
    BY DEF TypeOK
  <2>2. found' = [found EXCEPT ![id][n] = k]
    BY DEF AgentEvent
  <2> QED
    BY <1>1, <2>1, <2>2
<1>3. wanted[id] # Absent => old.base.settings = wanted[id]
  BY <1>1, LiveRun DEF Carries
<1>4. ~ Muddled(id) => old.base.run = runs[id] /\ old.base.state # "INITIALIZED"
  BY <1>1, LiveRun DEF Agrees
<1>5. CASE projects[id] = Absent
  <2>1. wanted[id] # Absent => Carries(old, k, wanted[id])
    BY <1>1, <1>3 DEF Carries
  <2>2. ~ Muddled(id) => Agrees(old, k, projects[id], runs[id])
    BY <1>1, <1>4, <1>5 DEF Agrees
  <2>3. run' = [run EXCEPT ![id][n] = old] /\ old \in HeldRuns
    BY <1>5, SameAgain, RunFields DEF AgentEvent
  <2>4. projects' = [projects EXCEPT ![id] = projects[id]] /\ projects[id] \in NoRecord
    BY <1>1, SameAgain
  <2> HIDE DEF old, k
  <2> QED
    BY <1>1, <1>2, <1>5, <2>1, <2>2, <2>3, <2>4, RunFine
<1>6. CASE projects[id] # Absent
  <2>1. event.settings = old.base.settings /\ event \in Record
    <3> HIDE DEF k
    <3> QED
      BY <1>1, <1>2 DEF Record
  <2>2. run' = [run EXCEPT ![id][n] = r]
    BY <1>6 DEF AgentEvent, Step, Goto
  <2>3. r \in HeldRuns
    <3> HIDE DEF event
    <3> QED
      BY <1>1, <2>1 DEF HeldRuns, Run, Phases
  <2>4. wanted[id] # Absent => Carries(r, k, wanted[id])
    BY <1>3, <2>1 DEF Carries
  <2>5. ~ Muddled(id) => Agrees(r, k, projects[id], runs[id])
    <3> HIDE DEF k
    <3> QED
      BY <1>4 DEF Agrees
  <2>6. projects' = [projects EXCEPT ![id] = projects[id]] /\ projects[id] \in NoRecord
    BY <1>1, SameAgain
  <2>7. /\ wanted[id] # Absent /\ projects[id] # Absent => projects[id].settings = wanted[id]
        /\ ~ Muddled(id) /\ projects[id] # Absent => OfRun(projects[id], runs[id])
    BY <1>1, LiveRun
  <2> HIDE DEF r, k
  <2> QED
    BY <1>1, <1>2, <2>2, <2>3, <2>4, <2>5, <2>6, <2>7, RunFine
<1> QED
  BY <1>5, <1>6

LEMMA RunActionWhole ==
  ASSUME TypeOK, Whole, NEW id \in Ids, NEW n \in Runs,
         \/ RunStep(id, n) \/ StartFails(id, n) \/ AgentEvent(id, n) \/ StreamStep(id, n)
  PROVE  Whole'
<1>1. CASE TaskStarts(id, n)
  BY <1>1, TaskStartsWhole
<1>2. CASE ReloadingPut(id, n)
  BY <1>2, WriteBackWhole DEF ReloadingPut
<1>3. CASE Connect(id, n)
  BY <1>3, ConnectWhole
<1>4. CASE EventPut(id, n)
  BY <1>4, WriteBackWhole DEF EventPut
<1>5. CASE HandleError(id, n)
  BY <1>5, ReadOutcomeWhole DEF HandleError, RestStates, Live, Is
<1>6. CASE OutcomePut(id, n)
  BY <1>6, WriteBackWhole DEF OutcomePut
<1>7. CASE StartFails(id, n)
  BY <1>7, LetsGo DEF StartFails, Live, Is
<1>8. CASE AgentEvent(id, n)
  BY <1>8, AgentEventWhole
<1>9. CASE AgentCompletes(id, n)
  BY <1>9, ReadOutcomeWhole DEF AgentCompletes, RestStates, Live, Is
<1>10. CASE StreamFails(id, n)
  BY <1>10, LetsGo DEF StreamFails, Live, Is
<1> QED
  BY <1>1, <1>2, <1>3, <1>4, <1>5, <1>6, <1>7, <1>8, <1>9, <1>10 DEF RunStep, StreamStep

\* A step that concerns one project and leaves it fine, or no project at all.
LEMMA OneFine ==
  ASSUME TypeOK, Whole, NEW id \in Ids, Fine(id)',
         \A i \in Ids : i # id =>
           /\ projects'[i] = projects[i] /\ runs'[i] = runs[i] /\ run'[i] = run[i]
           /\ found'[i] = found[i] /\ stuck'[i] = stuck[i]
           /\ disturbed'[i] = disturbed[i] /\ wanted'[i] = wanted[i],
         \A t \in Callers : call'[t].pc # "idle" => runs'[call'[t].id] > 0
  PROVE  Whole'
<1>1. ASSUME NEW i \in Ids
      PROVE  Fine(i)'
  <2>1. CASE i = id
    BY <2>1
  <2>2. CASE i # id
    <3>1. Fine(i)
      BY DEF Whole, Fine
    <3> QED
      BY <2>2, <3>1, FineStays
  <2> QED
    BY <2>1, <2>2
<1> QED
  BY <1>1 DEF Whole, Fine

LEMMA NoneFine ==
  ASSUME Whole,
         UNCHANGED <<projects, runs, run, found, stuck, disturbed, wanted>>,
         \A t \in Callers : call'[t].pc # "idle" => runs[call'[t].id] > 0
  PROVE  Whole'
<1>1. ASSUME NEW i \in Ids
      PROVE  Fine(i)'
  BY FineStays DEF Whole, Fine
<1> QED
  BY <1>1 DEF Whole, Fine

\* Runs only grow in number, so that calls that go on, and those that end, are of
\* projects that were added.
LEMMA CallsGoOn ==
  ASSUME TypeOK, Whole, NEW t \in Callers, NEW c,
         Serve(t, c), c.pc = "idle" \/ (call[t].pc # "idle" /\ c.id = call[t].id),
         \A i \in Ids : runs'[i] \in Nat /\ runs'[i] >= runs[i]
  PROVE  \A u \in Callers : call'[u].pc # "idle" => runs'[call'[u].id] > 0
<1> SUFFICES ASSUME NEW u \in Callers, call'[u].pc # "idle"
             PROVE  runs'[call'[u].id] > 0
  OBVIOUS
<1>1. call'[u] = IF u = t THEN c ELSE call[u]
  BY DEF Serve, TypeOK
<1>2. call[u].pc # "idle" /\ call'[u].id = call[u].id
  BY <1>1
<1>3. call[u].id \in Ids /\ runs[call[u].id] > 0
  BY <1>2, CallFields DEF Whole
<1>4. PICK i \in Ids : i = call[u].id
  BY <1>3
<1>5. runs[i] \in Nat /\ runs'[i] \in Nat /\ runs'[i] >= runs[i] /\ runs[i] > 0
  BY <1>3, <1>4 DEF TypeOK
<1> QED
  BY <1>2, <1>4, <1>5

LEMMA CallAddWhole ==
  ASSUME TypeOK, Whole, NEW id \in Ids, NEW s \in Settings, CallAdd(id, s)
  PROVE  Whole'
<1> DEFINE r == [phase |-> IF resource[id] THEN "added" ELSE "done",
                 base |-> Absent, copy |-> Absent]
           p == [state |-> "CREATED", settings |-> s, run |-> 1, parts |-> 0]
<1>1. /\ runs[id] = 0 /\ Fine(id) /\ 1 \in Runs
      /\ found' = found /\ call' = call /\ stuck' = stuck
      /\ \A i \in Ids : i # id => disturbed'[i] = disturbed[i]
  BY DEF CallAdd, recovery, Whole, Fine, TypeOK
<1>2. /\ projects'[id] = p /\ runs'[id] = 1 /\ wanted'[id] = s
      /\ \A i \in Ids : i # id =>
           projects'[i] = projects[i] /\ runs'[i] = runs[i] /\ wanted'[i] = wanted[i]
  BY DEF CallAdd, Put, Launch, TypeOK
<1>3. /\ run'[id][1] = r /\ \A m \in Runs : m # 1 => run'[id][m] = run[id][m]
      /\ \A i \in Ids : i # id => run'[i] = run[i]
  <2>1. run[id] \in [Runs -> HeldRuns] /\ run \in [Ids -> [Runs -> HeldRuns]]
    BY DEF TypeOK
  <2>2. run' = [run EXCEPT ![id][1] = r]
    BY DEF CallAdd, Launch
  <2> HIDE DEF r
  <2> QED
    BY <1>1, <2>1, <2>2
<1>4. \A m \in Runs : run[id][m].phase = "none" /\ found[id][m] = 0
  BY <1>1 DEF Fine, Begun
<1>5. projects[id] = Absent /\ stuck[id] = Absent
  BY <1>1 DEF Fine, Begun
<1>6. Begun(id)'
  BY <1>1, <1>2, <1>3, <1>4 DEF Begun
<1>7. Kept(id)'
  BY <1>1, <1>2, <1>3, <1>4, <1>5 DEF Kept, Carries
<1>8. OnCourse(id)'
  <2>1. \A m \in Runs : Live(id, m)' => m = 1
    BY <1>3, <1>4 DEF Live, Is
  <2>2. Agrees(r, 0, p, 1) /\ OfRun(p, 1)
    BY DEF Agrees, OfRun
  <2> HIDE DEF r, p
  <2> QED
    BY <1>1, <1>2, <1>3, <1>4, <2>1, <2>2 DEF OnCourse
<1>9. \A t \in Callers : call'[t].pc # "idle" => runs'[call'[t].id] > 0
  <2> SUFFICES ASSUME NEW t \in Callers, call[t].pc # "idle"
               PROVE  runs'[call[t].id] > 0
    BY <1>1
  <2>1. call[t].id \in Ids /\ runs[call[t].id] > 0
    BY CallFields DEF Whole
  <2> QED
    BY <1>1, <1>2, <2>1
<1> QED
  BY <1>1, <1>2, <1>3, <1>6, <1>7, <1>8, <1>9, OneFine DEF Fine

LEMMA ClickWhole ==
  ASSUME TypeOK, Whole, NEW t \in Callers, NEW id \in Ids, NEW b \in Buttons, Click(t, id, b)
  PROVE  Whole'
<1>1. UNCHANGED <<projects, runs, run, found, stuck, disturbed, wanted>>
  BY DEF Click, recovery
<1>2. runs[id] > 0
  BY DEF Click, Whole, Begun, TypeOK
<1>3. \A u \in Callers : call'[u].pc # "idle" => runs[call'[u].id] > 0
  BY <1>2 DEF Click, Serve, Idle, Whole, TypeOK
<1> QED
  BY <1>1, <1>3, NoneFine

\* A deletion leaves nothing that could be wrong with the project.
LEMMA CallDeleteWhole ==
  ASSUME TypeOK, Whole, NEW t \in Callers, CallDelete(t)
  PROVE  Whole'
<1>0. PICK id \in Ids : id = call[t].id
  BY CallFields DEF CallDelete
<1>1. /\ UNCHANGED <<runs, run, found, stuck, disturbed, wanted>>
      /\ projects'[id] = Absent /\ \A i \in Ids : i # id => projects'[i] = projects[i]
      /\ Fine(id)
  BY <1>0 DEF CallDelete, Put, TypeOK, recovery, Whole, Fine
<1>2. Begun(id)' /\ Kept(id)'
  BY <1>1 DEF Fine, Begun, Kept
<1>3. OnCourse(id)'
  <2>1. ASSUME NEW r, NEW k, NEW p, NEW m, Agrees(r, k, p, m)
        PROVE  Agrees(r, k, Absent, m)
    BY <2>1 DEF Agrees
  <2> QED
    BY <1>1, <2>1 DEF Fine, OnCourse, Muddled, Live, Is
<1>4. \A u \in Callers : call'[u].pc # "idle" => runs'[call'[u].id] > 0
  <2>1. Serve(t, Idle) /\ Idle.pc = "idle" /\ \A i \in Ids : runs'[i] \in Nat /\ runs'[i] >= runs[i]
    BY <1>1 DEF CallDelete, Idle, TypeOK
  <2> QED
    BY <2>1, CallsGoOn
<1> QED
  BY <1>1, <1>2, <1>3, <1>4, OneFine DEF Fine

LEMMA CallReadWhole ==
  ASSUME TypeOK, Whole, NEW t \in Callers, CallRead(t)
  PROVE  Whole'
<1> DEFINE c == IF projects[call[t].id] = Absent THEN Idle
                ELSE [call[t] EXCEPT !.pc = "put", !.copy = projects[call[t].id]]
<1>1. /\ UNCHANGED <<projects, runs, run, found, stuck, disturbed, wanted>>
      /\ Serve(t, c) /\ call[t].pc = "clicked"
  BY DEF CallRead, recovery
<1>2. c.pc = "idle" \/ (call[t].pc # "idle" /\ c.id = call[t].id)
  BY <1>1, CallFields DEF Idle, HeldCalls, Calls
<1>3. \A i \in Ids : runs'[i] \in Nat /\ runs'[i] >= runs[i]
  BY <1>1 DEF TypeOK
<1>4. \A u \in Callers : call'[u].pc # "idle" => runs'[call'[u].id] > 0
  <2> HIDE DEF c
  <2> QED
    BY <1>1, <1>2, <1>3, CallsGoOn
<1> QED
  BY <1>1, <1>4, NoneFine

\* A reload that is neither stale nor beside another run makes the new run the only one.
LEMMA CallReloadWhole ==
  ASSUME TypeOK, Whole, NEW t \in Callers, CallReload(t)
  PROVE  Whole'
<1> DEFINE c == call[t]
<1>0. PICK id \in Ids : id = c.id
  BY CallFields DEF CallReload
<1>1. PICK n \in Runs : n = runs[id] + 1
  BY <1>0 DEF CallReload
<1> DEFINE cleared == [state |-> "RELOAD_STARTED", settings |-> c.copy.settings,
                       run |-> n, parts |-> 0]
           r == [phase |-> IF resource[id] THEN "reloaded" ELSE "done",
                 base |-> cleared, copy |-> Absent]
<1>2. /\ UNCHANGED <<found, stuck>> /\ Fine(id) /\ runs[id] \in Nat
      /\ Serve(t, Idle) /\ c.copy \in Record
  BY CallFields DEF CallReload, recovery, Whole, Fine, TypeOK
<1>3. /\ projects'[id] = cleared /\ runs'[id] = n
      /\ projects[id] = c.copy => wanted'[id] = wanted[id]
      /\ projects[id] # c.copy => wanted'[id] = Absent /\ Muddled(id)'
      /\ (\E m \in Runs : Live(id, m)) => Muddled(id)'
  BY <1>0, <1>1 DEF CallReload, Put, Launch, Muddled, TypeOK
<1>4. \A i \in Ids : i # id =>
        /\ projects'[i] = projects[i] /\ runs'[i] = runs[i]
        /\ wanted'[i] = wanted[i] /\ disturbed'[i] = disturbed[i]
  BY <1>0, <1>1 DEF CallReload, Put, Launch, TypeOK
<1>5. /\ run'[id][n] = r /\ \A m \in Runs : m # n => run'[id][m] = run[id][m]
      /\ \A i \in Ids : i # id => run'[i] = run[i]
  <2>1. run[id] \in [Runs -> HeldRuns] /\ run \in [Ids -> [Runs -> HeldRuns]]
    BY DEF TypeOK
  <2>2. run' = [run EXCEPT ![id][n] = r]
    BY <1>0, <1>1 DEF CallReload, Launch
  <2> HIDE DEF r
  <2> QED
    BY <2>1, <2>2
<1>6. Begun(id)'
  BY <1>1, <1>2, <1>3, <1>5 DEF Fine, Begun
<1>7. Kept(id)'
  <2> SUFFICES ASSUME wanted'[id] # Absent
               PROVE  Kept(id)'
    BY DEF Kept
  <2>1. projects[id] = c.copy /\ wanted'[id] = wanted[id] /\ c.copy # Absent
    BY <1>2, <1>3, AbsentAssumption
  <2>2. c.copy.settings = wanted[id]
    BY <1>2, <2>1 DEF Fine, Kept
  <2>3. \A m \in Runs : Carries(run'[id][m], found'[id][m], wanted[id])
    <3>1. Carries(r, found[id][n], wanted[id])
      BY <2>2 DEF Carries
    <3> HIDE DEF r
    <3> QED
      BY <1>2, <1>5, <2>1, <3>1 DEF Fine, Kept
  <2> QED
    BY <1>2, <1>3, <2>1, <2>2, <2>3 DEF Fine, Kept
<1>8. OnCourse(id)'
  <2> SUFFICES ASSUME ~ Muddled(id)'
               PROVE  OnCourse(id)'
    BY DEF OnCourse
  <2>1. \A m \in Runs : ~ Live(id, m)
    BY <1>3
  <2>2. \A m \in Runs : Live(id, m)' => m = n
    BY <1>5, <2>1 DEF Live, Is
  <2>3. found[id][n] = 0
    BY <1>1, <1>2 DEF Fine, Begun
  <2>4. Agrees(r, 0, cleared, n) /\ OfRun(cleared, n)
    BY DEF Agrees, OfRun
  <2> HIDE DEF r, cleared
  <2> QED
    BY <1>2, <1>3, <1>5, <2>2, <2>3, <2>4 DEF OnCourse
<1>9. \A u \in Callers : call'[u].pc # "idle" => runs'[call'[u].id] > 0
  <2>0. runs'[id] = n /\ \A i \in Ids : runs[i] \in Nat
    BY <1>3 DEF TypeOK
  <2>1. \A i \in Ids : runs'[i] \in Nat /\ runs'[i] >= runs[i]
    <3> SUFFICES ASSUME NEW i \in Ids
                 PROVE  runs'[i] \in Nat /\ runs'[i] >= runs[i]
      OBVIOUS
    <3>1. CASE i = id
      BY <1>1, <2>0, <3>1
    <3>2. CASE i # id
      BY <1>4, <2>0, <3>2
    <3> QED
      BY <3>1, <3>2
  <2>2. Idle.pc = "idle"
    BY DEF Idle
  <2> QED
    BY <1>2, <2>1, <2>2, CallsGoOn
<1> QED
  BY <1>2, <1>4, <1>5, <1>6, <1>7, <1>8, <1>9, OneFine DEF Fine

\* An update that is not stale changes nothing but the settings; it wants them kept when
\* no run and no sweep has a copy to put.
LEMMA CallUpdateWhole ==
  ASSUME TypeOK, Whole, NEW t \in Callers, NEW s \in Settings, CallUpdate(t, s)
  PROVE  Whole'
<1> DEFINE c == call[t]
           p == [c.copy EXCEPT !.settings = s]
<1>0. PICK id \in Ids : id = c.id
  BY CallFields DEF CallUpdate
<1>1. /\ UNCHANGED <<runs, run, found, stuck>> /\ Fine(id) /\ runs[id] > 0
      /\ Serve(t, Idle) /\ c.copy \in Record
  BY <1>0, CallFields DEF CallUpdate, recovery, Whole, Fine, TypeOK
<1>2. /\ projects'[id] = p
      /\ projects[id] # c.copy => Muddled(id)'
      /\ ~ Muddled(id)' => ~ Muddled(id)
      /\ wanted'[id] # Absent =>
           wanted'[id] = s /\ stuck[id] = Absent /\ \A n \in Runs : ~ HoldsCopy(id, n)
  BY <1>0 DEF CallUpdate, Put, Muddled, TypeOK
<1>3. \A i \in Ids : i # id =>
        projects'[i] = projects[i] /\ wanted'[i] = wanted[i] /\ disturbed'[i] = disturbed[i]
  BY <1>0 DEF CallUpdate, Put, TypeOK
<1>4. /\ p.settings = s /\ p.run = c.copy.run /\ p.parts = c.copy.parts /\ p.state = c.copy.state
  BY <1>1 DEF Record
<1> HIDE DEF p
<1>5. Begun(id)'
  BY <1>1 DEF Fine, Begun
<1>6. Kept(id)'
  <2>1. \A n \in Runs : ~ HoldsCopy(id, n) => Carries(run[id][n], found[id][n], s)
    BY DEF HoldsCopy, Carries, Is
  <2> QED
    BY <1>1, <1>2, <1>4, <2>1 DEF Kept
<1>7. OnCourse(id)'
  <2> SUFFICES ASSUME ~ Muddled(id)'
               PROVE  OnCourse(id)'
    BY DEF OnCourse
  <2>1. projects[id] = c.copy /\ ~ Muddled(id) /\ c.copy # Absent
    BY <1>1, <1>2, AbsentAssumption
  <2>2. OfRun(projects[id], runs[id])
    BY <1>1, <2>1 DEF Fine, OnCourse
  <2>3. OfRun(p, runs[id])
    BY <1>4, <2>1, <2>2 DEF OfRun
  <2>4. ASSUME NEW n \in Runs, Live(id, n)
        PROVE  n = runs[id] /\ Agrees(run[id][n], found[id][n], p, runs[id])
    <3>1. n = runs[id] /\ Agrees(run[id][n], found[id][n], projects[id], runs[id])
      BY <1>1, <2>1, <2>4 DEF Fine, OnCourse
    <3> QED
      BY <1>4, <2>1, <3>1 DEF Agrees
  <2> QED
    BY <1>1, <1>2, <2>3, <2>4 DEF OnCourse, Live, Is
<1>8. \A u \in Callers : call'[u].pc # "idle" => runs'[call'[u].id] > 0
  <2>1. \A i \in Ids : runs'[i] \in Nat /\ runs'[i] >= runs[i]
    BY <1>1 DEF TypeOK
  <2>2. Idle.pc = "idle"
    BY DEF Idle
  <2> QED
    BY <1>1, <2>1, <2>2, CallsGoOn
<1> QED
  BY <1>1, <1>3, <1>5, <1>6, <1>7, <1>8, OneFine DEF Fine

\* The sweep puts what it read; what it read of an undisturbed project is still there.
LEMMA SweepWhole ==
  ASSUME TypeOK, Whole, SweepStep
  PROVE  Whole'
<1>1. CASE SweepRead
  <2>1. UNCHANGED <<projects, runs, run, found, call, disturbed, wanted>>
    BY <1>1 DEF SweepRead
  <2>2. \A i \in Ids : stuck'[i] \in {projects[i], Absent}
    BY <1>1 DEF SweepRead
  <2>3. ASSUME NEW i \in Ids
        PROVE  Begun(i)' /\ Kept(i)' /\ OnCourse(i)'
    <3>1. Begun(i) /\ Kept(i) /\ OnCourse(i)
      BY DEF Whole
    <3> QED
      BY <2>1, <2>2, <3>1 DEF Begun, Kept, OnCourse, Muddled, Live, Is
  <2> QED
    BY <2>1, <2>3 DEF Whole
<1>2. CASE SweepDone
  BY <1>2, NoneFine DEF SweepDone, Whole
<1>3. ASSUME NEW id \in Ids, SweepPut(id)
      PROVE  Whole'
  <2> DEFINE p == WithState(stuck[id], "INITIALIZATION_FAILED")
  <2>1. /\ UNCHANGED <<runs, run, found, call, wanted>> /\ Fine(id)
        /\ stuck[id] \in Record /\ stuck[id] # Absent
        /\ projects'[id] = p /\ stuck'[id] = Absent
        /\ projects[id] # stuck[id] => Muddled(id)'
        /\ projects[id] = stuck[id] => disturbed'[id] = disturbed[id]
    BY <1>3 DEF SweepPut, Put, Muddled, TypeOK, Whole, Fine
  <2>2. \A i \in Ids : i # id =>
          projects'[i] = projects[i] /\ stuck'[i] = stuck[i] /\ disturbed'[i] = disturbed[i]
    BY <1>3 DEF SweepPut, Put, TypeOK
  <2>3. /\ p.settings = stuck[id].settings /\ p.run = stuck[id].run
        /\ p.parts = stuck[id].parts /\ p.state = "INITIALIZATION_FAILED"
    BY <2>1 DEF WithState, Record
  <2> HIDE DEF p
  <2>4. Begun(id)' /\ Kept(id)'
    BY <2>1, <2>3 DEF Fine, Begun, Kept
  <2>5. OnCourse(id)'
    <3> SUFFICES ASSUME ~ Muddled(id)'
                 PROVE  OnCourse(id)'
      BY DEF OnCourse
    <3>1. projects[id] = stuck[id] /\ ~ Muddled(id)
      BY <2>1 DEF Muddled
    <3>2. OfRun(p, runs[id])
      BY <2>1, <2>3, <3>1 DEF Fine, OnCourse, OfRun
    <3>3. ASSUME NEW n \in Runs, Live(id, n)
          PROVE  n = runs[id] /\ Agrees(run[id][n], found[id][n], p, runs[id])
      <4>1. n = runs[id] /\ Agrees(run[id][n], found[id][n], projects[id], runs[id])
        BY <2>1, <3>1, <3>3 DEF Fine, OnCourse
      <4> QED
        BY <2>1, <2>3, <3>1, <4>1 DEF Agrees
    <3> QED
      BY <2>1, <3>2, <3>3 DEF OnCourse, Live, Is
  <2>6. \A u \in Callers : call'[u].pc # "idle" => runs'[call'[u].id] > 0
    BY <2>1 DEF Whole
  <2> QED
    BY <2>1, <2>2, <2>4, <2>5, <2>6, OneFine DEF Fine
<1> QED
  BY <1>1, <1>2, <1>3 DEF SweepStep

LEMMA CrashWhole ==
  ASSUME TypeOK, Whole, Crash
  PROVE  Whole'
<1>1. /\ UNCHANGED <<projects, runs, found, wanted>>
      /\ \A id \in Ids : Muddled(id)' <=> Muddled(id)
  BY DEF Crash, Muddled, TypeOK
<1>2. ASSUME NEW id \in Ids, NEW n \in Runs
      PROVE  /\ run'[id][n].phase = IF run[id][n].phase = "none" THEN "none" ELSE "done"
             /\ ~ Live(id, n)'
  BY DEF Crash, Live, Is
<1>3. \A id \in Ids : stuck'[id] = Absent
  BY DEF Crash
<1>4. ASSUME NEW id \in Ids
      PROVE  Begun(id)' /\ Kept(id)' /\ OnCourse(id)'
  <2>1. Begun(id) /\ Kept(id) /\ OnCourse(id)
    BY DEF Whole
  <2>2. Begun(id)'
    BY <1>1, <1>2, <1>3, <2>1 DEF Begun
  <2>3. Kept(id)'
    BY <1>1, <1>2, <1>3, <2>1 DEF Kept, Carries
  <2>4. OnCourse(id)'
    BY <1>1, <1>2, <2>1 DEF OnCourse
  <2> QED
    BY <2>2, <2>3, <2>4
<1>5. \A t \in Callers : call'[t].pc = "idle"
  BY DEF Crash, Idle
<1> QED
  BY <1>4, <1>5 DEF Whole

LEMMA NextWhole == TypeOK /\ Whole /\ [Next]_vars => Whole'
<1> SUFFICES ASSUME TypeOK, Whole, [Next]_vars
             PROVE  Whole'
  OBVIOUS
<1>1. CASE UNCHANGED vars
  BY <1>1, NoneFine DEF vars, recovery, Whole
<1>2. ASSUME NEW t \in Callers, CallStep(t)
      PROVE  Whole'
  BY <1>2, CallReadWhole, CallDeleteWhole, CallReloadWhole, CallUpdateWhole DEF CallStep
<1>3. ASSUME NEW id \in Ids, DeleteResource(id)
      PROVE  Whole'
  BY <1>3, NoneFine DEF DeleteResource, recovery, Whole
<1> QED
  BY <1>1, <1>2, <1>3, CallAddWhole, ClickWhole, RunActionWhole, SweepWhole, CrashWhole DEF Next

LEMMA WholeHolds == Spec => []Whole
BY InitType, NextType, InitWhole, NextWhole, PTL DEF Spec

\* A project says that it is initialized only with all that its last run found, for any
\* number of runs, callers, events and crashes, unless runs overlapped or a stale record
\* was put.
THEOREM InitializedHasAll == Spec => []InitializedIsComplete
<1> QED
  BY TypeCorrect, WholeHolds, WholeGives, PTL

\* An update is undone by no run and no sweep that held no copy of the project when it
\* was put, and by no reload, update or event that follows.
THEOREM UpdateIsKept == Spec => []SettingsKept
<1> QED
  BY TypeCorrect, WholeHolds, WholeGives, PTL

=============================================================================
