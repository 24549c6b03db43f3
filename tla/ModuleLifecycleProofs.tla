------------------------ MODULE ModuleLifecycleProofs ------------------------
(***************************************************************************)
(* Type correctness of ModuleLifecycle, and that a module never shows a    *)
(* change nobody works on, for any number of modules, configurations,      *)
(* callers, operations and crashes, and that the record of a module that   *)
(* nobody disturbed tells the truth.                                       *)
(*                                                                         *)
(* The invariant adds to both what threads and operations hold between a   *)
(* read and the put that follows it: a handler about to announce holds a   *)
(* record in its own working state, one about to end holds one at rest.    *)
(***************************************************************************)
EXTENDS ModuleLifecycle, TLAPS

USE DEF NoRecord

\* What a call that is being served holds.
HeldCall(c) ==
  /\ c.pc \in {"clicked", "put"} => c.id \in Ids /\ c.button \in Buttons
  /\ c.pc \in {"put", "batch"} => c.copy \in Record
  /\ c.pc = "batch" => c.copy.state = "RUN"

\* updateModulesVersion is through with the names of its modules before it puts one.
HeldBatch(t) ==
  /\ call[t].pc # "batch" => \A id \in Ids : batch[t][id].stage = "none"
  /\ \A i, j \in Ids : batch[t][i].stage = "put" => batch[t][j].stage # "named"

HeldCalls ==
  /\ call \in [Callers -> Calls] /\ batch \in [Callers -> [Ids -> Items]]
  /\ \A t \in Callers : HeldCall(call[t]) /\ HeldBatch(t)

\* What an operation about to put a record holds.
HeldOperation(o) ==
  /\ o.phase \in {"announcePut", "eventPut"} =>
       o.copy \in Record /\ o.copy.state = WorkingState[o.kind]
  /\ o.phase \in {"completePut", "failPut"} => o.copy \in Record /\ o.copy.state \in RestStates

Held ==
  /\ HeldCalls
  /\ \A id \in Ids, n \in Slots : operations[id][n] # Absent => HeldOperation(operations[id][n])
  /\ \A id \in Ids, n \in Slots : agent[id][n] # "none" => operations[id][n] # Absent

\* An operation of this kind in this phase attends to a module in this state.
Attends(phase, kind, state) ==
  \/ phase \in BeforeAnnounced /\ state = StartedState[kind]
  \/ phase \in AfterAnnounced /\ state = WorkingState[kind]

Attended(id) ==
  Changing(modules[id]) /\ id \notin thrown =>
    \/ \E n \in Slots :
         /\ operations[id][n] # Absent
         /\ Attends(operations[id][n].phase, operations[id][n].kind, modules[id].state)
    \/ \E h \in handed[id] : modules[id].state = StartedState[h[1]]
    \/ sweep = "read" \/ found[id] # Absent

IInv == TypeOK /\ Held /\ \A id \in Ids : Attended(id)

LEMMA AttendedAll == (\A id \in Ids : Attended(id)) => ChangingHasWorker
BY DEF Attended, Attends, ChangingHasWorker, Worker, Is

-----------------------------------------------------------------------------
(* The states.                                                             *)

LEMMA StatesOfKind ==
  ASSUME NEW k \in Kinds
  PROVE  /\ StartedState[k] \in ChangingStates /\ WorkingState[k] \in ChangingStates
         /\ FinalState[k] \in RestStates
BY DEF Kinds, StartedState, WorkingState, FinalState, ChangingStates, RestStates

LEMMA RestIsNotChanging == RestStates \cap ChangingStates = {}
BY DEF Kinds, StartedState, WorkingState, ChangingStates, RestStates

LEMMA WithStateIsRecord ==
  ASSUME NEW r \in Record, NEW s \in RestStates \cup ChangingStates
  PROVE  WithState(r, s) \in Record /\ WithState(r, s).state = s
BY DEF WithState, Record

LEMMA KindOfButton == \A b \in Buttons : KindOf[b] \in Kinds
BY DEF Buttons, KindOf, Kinds

LEMMA InitInv == Init => IInv
<1> SUFFICES ASSUME Init PROVE IInv
  OBVIOUS
<1>1. TypeOK
  BY ConstantsAssumption DEF Init, TypeOK, Calls, Idle, AgentPhases, Items, NoItem, NoBatch
<1>2. Held
  BY <1>1 DEF Init, TypeOK, Held, HeldCalls, HeldCall, HeldBatch, Idle, NoItem, NoBatch
<1> QED BY <1>1, <1>2 DEF Init, IInv, Attended, Changing

-----------------------------------------------------------------------------
(* Operations.                                                             *)

\* The entry of an operation alone changes.
LEMMA GotoGives ==
  ASSUME TypeOK, NEW id \in Ids, NEW n \in Slots, operations[id][n] # Absent,
         NEW phase \in Phases, NEW copy \in NoRecord, Goto(id, n, phase, copy)
  PROVE  /\ operations' \in [Ids -> [Slots -> Operation \cup {Absent}]]
         /\ operations'[id][n] = [phase |-> phase, kind |-> operations[id][n].kind,
                                  version |-> operations[id][n].version, copy |-> copy]
         /\ operations'[id][n] \in Operation
         /\ operations'[id][n] # Absent
         /\ \A i \in Ids, m \in Slots :
              i # id \/ m # n => operations'[i][m] = operations[i][m]
<1> DEFINE o == [phase |-> phase, kind |-> operations[id][n].kind,
                 version |-> operations[id][n].version, copy |-> copy]
<1>1. operations' = [operations EXCEPT ![id][n] = o]
  BY DEF Goto, TypeOK
<1>2. o \in Operation
  BY DEF TypeOK, Operation
<1> HIDE DEF o
<1>3. operations' \in [Ids -> [Slots -> Operation \cup {Absent}]] /\ operations'[id][n] = o
      /\ \A i \in Ids, m \in Slots : i # id \/ m # n => operations'[i][m] = operations[i][m]
  BY <1>1, <1>2 DEF TypeOK
<1> QED BY <1>2, <1>3, AbsentAssumption DEF o

\* A step of an operation that holds what its phase asks for, and either leaves the
\* record and still attends to it, or puts one that is at rest or attended to.
LEMMA OperationStep ==
  ASSUME IInv, NEW id \in Ids, NEW n \in Slots, operations[id][n] # Absent,
         NEW phase \in Phases, NEW copy \in NoRecord, Goto(id, n, phase, copy),
         HeldOperation([phase |-> phase, kind |-> operations[id][n].kind,
                        version |-> operations[id][n].version, copy |-> copy]),
         \/ /\ UNCHANGED modules
            /\ Changing(modules[id])
               /\ Attends(operations[id][n].phase, operations[id][n].kind, modules[id].state)
               => Attends(phase, operations[id][n].kind, modules[id].state)
         \/ \E r \in Record :
              /\ Put(id, r)
              /\ r.state \in RestStates \/ Attends(phase, operations[id][n].kind, r.state),
         \/ UNCHANGED agent
         \/ agent' = [agent EXCEPT ![id][n] = "working"],
         Keep
  PROVE  IInv'
<1> DEFINE kind == operations[id][n].kind
<1>1. /\ operations' \in [Ids -> [Slots -> Operation \cup {Absent}]]
      /\ operations'[id][n] = [phase |-> phase, kind |-> kind,
                               version |-> operations[id][n].version, copy |-> copy]
      /\ operations'[id][n] # Absent
      /\ \A i \in Ids, m \in Slots : i # id \/ m # n => operations'[i][m] = operations[i][m]
  BY GotoGives DEF IInv
<1>2. modules' \in [Ids -> NoRecord] /\ \A i \in Ids : i # id => modules'[i] = modules[i]
  BY DEF IInv, TypeOK, Put
<1>3. agent' \in [Ids -> [Slots -> AgentPhases]]
      /\ \A i \in Ids, m \in Slots : i # id \/ m # n => agent'[i][m] = agent[i][m]
  <2>0. agent \in [Ids -> [Slots -> AgentPhases]] /\ "working" \in AgentPhases
    BY DEF IInv, TypeOK, AgentPhases
  <2>1. CASE UNCHANGED agent
    BY <2>0, <2>1
  <2>2. CASE agent' = [agent EXCEPT ![id][n] = "working"]
    BY <2>0, <2>2
  <2> QED BY <2>1, <2>2
<1>4. TypeOK'
  BY <1>1, <1>2, <1>3 DEF Keep, Still, recovery, IInv, TypeOK
<1>5. Held'
  <2>1. ASSUME NEW i \in Ids, NEW m \in Slots, operations'[i][m] # Absent
        PROVE  HeldOperation(operations'[i][m])
    BY <1>1, <2>1 DEF IInv, Held
  <2>2. ASSUME NEW i \in Ids, NEW m \in Slots, agent'[i][m] # "none"
        PROVE  operations'[i][m] # Absent
    BY <1>1, <1>3, <2>2 DEF IInv, Held
  <2>3. UNCHANGED <<call, batch>>
    BY DEF Keep, Still
  <2> QED BY <2>1, <2>2, <2>3 DEF IInv, Held, HeldCalls, HeldBatch
<1>6. ASSUME NEW i \in Ids, i # id
      PROVE  Attended(i)'
  BY <1>1, <1>2, <1>6 DEF IInv, Attended, Keep, Still, recovery
<1>7. Attended(id)'
  <2>1. CASE UNCHANGED modules
             /\ (Changing(modules[id]) /\ Attends(operations[id][n].phase, kind, modules[id].state)
                 => Attends(phase, kind, modules[id].state))
    <3>1. Attended(id)
      BY DEF IInv
    <3> SUFFICES ASSUME Changing(modules[id]), id \notin thrown PROVE Attended(id)'
      BY <2>1 DEF Attended, Keep
    <3>2. ASSUME NEW m \in Slots, operations[id][m] # Absent,
                 Attends(operations[id][m].phase, operations[id][m].kind, modules[id].state)
          PROVE  Attended(id)'
      <4>1. Attends(operations'[id][m].phase, operations'[id][m].kind, modules'[id].state)
            /\ operations'[id][m] # Absent
        BY <1>1, <2>1, <3>2
      <4> QED BY <4>1 DEF Attended
    <3> QED BY <2>1, <3>1, <3>2 DEF Attended, Keep, Still, recovery
  <2>2. ASSUME NEW r \in Record, Put(id, r),
               r.state \in RestStates \/ Attends(phase, kind, r.state)
        PROVE  Attended(id)'
    <3>1. modules'[id] = r
      BY <2>2 DEF Put, IInv, TypeOK
    <3> QED BY <1>1, <2>2, <3>1, RestIsNotChanging DEF Attended, Changing
  <2> QED BY <2>1, <2>2
<1> QED BY <1>4, <1>5, <1>6, <1>7 DEF IInv

\* The fields of an operation.
LEMMA OperationFields ==
  ASSUME IInv, NEW id \in Ids, NEW n \in Slots, operations[id][n] # Absent
  PROVE  /\ operations[id][n].phase \in Phases /\ operations[id][n].kind \in Kinds
         /\ operations[id][n].version \in Versions
         /\ HeldOperation(operations[id][n])
         /\ modules[id] \in NoRecord
BY DEF IInv, TypeOK, Held, Operation

\* A step that changes neither the record nor what is held, into a phase that attends to
\* all that the one before did.
LEMMA QuietStep ==
  ASSUME IInv, NEW id \in Ids, NEW n \in Slots, operations[id][n] # Absent,
         NEW phase \in Phases \ {"announcePut", "eventPut", "completePut", "failPut"},
         Goto(id, n, phase, Absent), UNCHANGED modules, Keep,
         Changing(modules[id])
           /\ Attends(operations[id][n].phase, operations[id][n].kind, modules[id].state)
           => Attends(phase, operations[id][n].kind, modules[id].state),
         \/ UNCHANGED agent
         \/ agent' = [agent EXCEPT ![id][n] = "working"]
  PROVE  IInv'
<1>1. HeldOperation([phase |-> phase, kind |-> operations[id][n].kind,
                     version |-> operations[id][n].version, copy |-> Absent])
  BY DEF HeldOperation
<1> QED BY <1>1, OperationStep

\* A step that makes ready to put a record, in a phase that attends to all that the one
\* before did.
LEMMA ReadStep ==
  ASSUME IInv, NEW id \in Ids, NEW n \in Slots, operations[id][n] # Absent,
         NEW phase \in Phases, NEW copy \in Record,
         phase \in {"announcePut", "eventPut"} => copy.state = WorkingState[operations[id][n].kind],
         phase \in {"completePut", "failPut"} => copy.state \in RestStates,
         Goto(id, n, phase, copy), UNCHANGED <<modules, agent>>, Keep,
         Attends(operations[id][n].phase, operations[id][n].kind, modules[id].state)
           => Attends(phase, operations[id][n].kind, modules[id].state)
  PROVE  IInv'
<1>1. HeldOperation([phase |-> phase, kind |-> operations[id][n].kind,
                     version |-> operations[id][n].version, copy |-> copy])
  BY DEF HeldOperation
<1> QED BY <1>1, OperationStep

\* The put of the record held, which attends to it or leaves it at rest.
LEMMA WriteBackPreserves ==
  ASSUME IInv, NEW id \in Ids, NEW n \in Slots, operations[id][n] # Absent,
         NEW phase \in Phases \ {"announcePut", "eventPut", "completePut", "failPut"},
         WriteBack(id, n, phase),
         \/ operations[id][n].phase \in {"announcePut", "eventPut"} /\ phase \in AfterAnnounced
         \/ operations[id][n].phase \in {"completePut", "failPut"}
  PROVE  IInv'
<1> DEFINE r == operations[id][n].copy
<1>1. HeldOperation(operations[id][n])
  BY OperationFields
<1>2. r \in Record /\ (r.state \in RestStates \/ Attends(phase, operations[id][n].kind, r.state))
  BY <1>1 DEF HeldOperation, Attends
<1>3. HeldOperation([phase |-> phase, kind |-> operations[id][n].kind,
                     version |-> operations[id][n].version, copy |-> Absent])
  BY DEF HeldOperation
<1> QED BY <1>2, <1>3, OperationStep DEF WriteBack

LEMMA WriteBackIfPresentPreserves ==
  ASSUME IInv, NEW id \in Ids, NEW n \in Slots, operations[id][n] # Absent,
         operations[id][n].phase \in {"completePut", "failPut"}, WriteBackIfPresent(id, n)
  PROVE  IInv'
<1>1. "done" \in Phases \ {"announcePut", "eventPut", "completePut", "failPut"}
  BY DEF Phases
<1>2. CASE WriteBack(id, n, "done")
  BY <1>1, <1>2, WriteBackPreserves
<1>3. CASE modules[id] = Absent /\ Goto(id, n, "done", Absent) /\ UNCHANGED <<modules, agent>> /\ Keep
  BY <1>1, <1>3, QuietStep DEF Changing
<1> QED BY <1>2, <1>3 DEF WriteBackIfPresent

LEMMA AnnouncePreserves ==
  ASSUME IInv, NEW id \in Ids, NEW n \in Slots, Announce(id, n)
  PROVE  IInv'
<1> DEFINE op == operations[id][n]
           working == [state |-> WorkingState[op.kind], version |-> op.version]
<1>1. op # Absent /\ op.phase = "queued" /\ UNCHANGED <<modules, agent>> /\ Keep
  BY DEF Announce, Is
<1>2. CASE modules[id] = Absent
  <2>1. Goto(id, n, "connecting", Absent)
    BY <1>2 DEF Announce
  <2>2. "connecting" \in Phases \ {"announcePut", "eventPut", "completePut", "failPut"}
    BY DEF Phases
  <2> QED BY <1>1, <1>2, <2>1, <2>2, QuietStep DEF Changing
<1>3. CASE modules[id] # Absent
  <2>1. Goto(id, n, "announcePut", working)
    BY <1>3 DEF Announce
  <2>2. working \in Record /\ working.state = WorkingState[op.kind]
    BY <1>1, OperationFields, StatesOfKind DEF Record
  <2>3. "announcePut" \in Phases
    BY DEF Phases
  <2>4. Attends(op.phase, op.kind, modules[id].state)
          => Attends("announcePut", op.kind, modules[id].state)
    BY <1>1 DEF Attends, BeforeAnnounced, AfterAnnounced
  <2> HIDE DEF working
  <2> QED BY <1>1, <2>1, <2>2, <2>3, <2>4, ReadStep
<1> QED BY <1>2, <1>3

\* A handler that finds another state than its own leaves nothing it attends to.
LEMMA NotMine ==
  ASSUME NEW id \in Ids, NEW n \in Slots, ~ Mine(id, n), Changing(modules[id]),
         operations[id][n].phase \notin BeforeAnnounced
  PROVE  ~ Attends(operations[id][n].phase, operations[id][n].kind, modules[id].state)
BY DEF Mine, Attends, Changing

LEMMA ConnectPreserves ==
  ASSUME IInv, NEW id \in Ids, NEW n \in Slots, Connect(id, n) \/ StartFails(id, n)
  PROVE  IInv'
<1>1. CASE Connect(id, n)
  <2>1. "streaming" \in Phases \ {"announcePut", "eventPut", "completePut", "failPut"}
    BY DEF Phases
  <2>2. operations[id][n] # Absent /\ operations[id][n].phase = "connecting"
    BY <1>1 DEF Connect, Is
  <2>3. Attends(operations[id][n].phase, operations[id][n].kind, modules[id].state)
          => Attends("streaming", operations[id][n].kind, modules[id].state)
    BY <2>2 DEF Attends, BeforeAnnounced, AfterAnnounced
  <2> QED BY <1>1, <2>1, <2>2, <2>3, QuietStep DEF Connect
<1>2. CASE StartFails(id, n)
  <2>1. "failRead" \in Phases \ {"announcePut", "eventPut", "completePut", "failPut"}
    BY DEF Phases
  <2>2. operations[id][n] # Absent /\ operations[id][n].phase \in {"queued", "connecting"}
    BY <1>2 DEF StartFails, Is
  <2>3. Attends(operations[id][n].phase, operations[id][n].kind, modules[id].state)
          => Attends("failRead", operations[id][n].kind, modules[id].state)
    BY <2>2 DEF Attends, BeforeAnnounced, AfterAnnounced
  <2> QED BY <1>2, <2>1, <2>2, <2>3, QuietStep DEF StartFails
<1> QED BY <1>1, <1>2

\* A task that ends with an exception is told of.
LEMMA TaskThrowsPreserves ==
  ASSUME IInv, NEW id \in Ids, NEW n \in Slots, TaskThrows(id, n)
  PROVE  IInv'
<1>1. operations[id][n] # Absent /\ Goto(id, n, "done", Absent) /\ "done" \in Phases
      /\ thrown' = thrown \cup {id} /\ UNCHANGED <<modules, agent>> /\ Still
  BY DEF TaskThrows, Is, Phases
<1>2. /\ operations' \in [Ids -> [Slots -> Operation \cup {Absent}]]
      /\ operations'[id][n] = [phase |-> "done", kind |-> operations[id][n].kind,
                               version |-> operations[id][n].version, copy |-> Absent]
      /\ operations'[id][n] # Absent
      /\ \A i \in Ids, m \in Slots : i # id \/ m # n => operations'[i][m] = operations[i][m]
  BY <1>1, GotoGives DEF IInv
<1>3. TypeOK'
  BY <1>1, <1>2 DEF Still, recovery, IInv, TypeOK
<1>4. Held'
  <2>1. HeldOperation(operations'[id][n])
    BY <1>2 DEF HeldOperation
  <2>2. ASSUME NEW i \in Ids, NEW m \in Slots
        PROVE  /\ operations'[i][m] # Absent => HeldOperation(operations'[i][m])
               /\ agent'[i][m] # "none" => operations'[i][m] # Absent
    BY <1>1, <1>2, <2>1 DEF IInv, Held
  <2> QED BY <1>1, <2>2 DEF IInv, Held, HeldCalls, HeldBatch, Still
<1>5. ASSUME NEW i \in Ids PROVE Attended(i)'
  <2>1. CASE i = id
    BY <1>1, <2>1 DEF Attended
  <2>2. CASE i # id
    <3>1. Attended(i) /\ \A m \in Slots : operations'[i][m] = operations[i][m]
      BY <1>2, <2>2 DEF IInv
    <3> QED BY <1>1, <2>2, <3>1 DEF Attended, Still, recovery
  <2> QED BY <2>1, <2>2
<1> QED BY <1>3, <1>4, <1>5 DEF IInv

LEMMA EventReadPreserves ==
  ASSUME IInv, NEW id \in Ids, NEW n \in Slots, EventRead(id, n)
  PROVE  IInv'
<1> DEFINE op == operations[id][n]
           working == [state |-> WorkingState[op.kind], version |-> op.version]
<1>1. op # Absent /\ op.phase = "streaming" /\ UNCHANGED <<modules, agent>> /\ Keep
  BY DEF EventRead, Is
<1>2. ASSUME NEW phase \in {"eventPut", "streamed"}
      PROVE  /\ phase \in Phases
             /\ Attends(op.phase, op.kind, modules[id].state)
                  => Attends(phase, op.kind, modules[id].state)
  BY <1>1 DEF Attends, BeforeAnnounced, AfterAnnounced, Phases
<1>3. CASE Mine(id, n)
  <2>1. Goto(id, n, "eventPut", working)
    BY <1>3 DEF EventRead
  <2>2. working \in Record /\ working.state = WorkingState[op.kind]
    BY <1>1, OperationFields, StatesOfKind DEF Record
  <2> HIDE DEF working
  <2> QED BY <1>1, <1>2, <2>1, <2>2, ReadStep
<1>4. CASE ~ Mine(id, n)
  <2>1. Goto(id, n, "streamed", Absent)
    BY <1>4 DEF EventRead
  <2> QED BY <1>1, <1>2, <2>1, QuietStep
<1> QED BY <1>3, <1>4

LEMMA CompleteReadPreserves ==
  ASSUME IInv, NEW id \in Ids, NEW n \in Slots, CompleteRead(id, n)
  PROVE  IInv'
<1> DEFINE op == operations[id][n]
           final == WithState(modules[id], FinalState[op.kind])
<1>1. op # Absent /\ op.phase \in {"streamed", "streaming"} /\ UNCHANGED <<modules, agent>> /\ Keep
  BY DEF CompleteRead, Is
<1>2. CASE Mine(id, n)
  <2>1. Goto(id, n, "completePut", final)
    BY <1>2 DEF CompleteRead
  <2>2. final \in Record /\ final.state \in RestStates
    BY <1>1, <1>2, OperationFields, StatesOfKind, WithStateIsRecord DEF Mine
  <2>3. "completePut" \in Phases
    BY DEF Phases
  <2>4. Attends(op.phase, op.kind, modules[id].state)
          => Attends("completePut", op.kind, modules[id].state)
    BY <1>1 DEF Attends, BeforeAnnounced, AfterAnnounced
  <2> HIDE DEF final
  <2> QED BY <1>1, <2>1, <2>2, <2>3, <2>4, ReadStep
<1>3. CASE ~ Mine(id, n)
  <2>1. Goto(id, n, "done", Absent)
    BY <1>3 DEF CompleteRead
  <2>2. "done" \in Phases \ {"announcePut", "eventPut", "completePut", "failPut"}
    BY DEF Phases
  <2>3. op.phase \notin BeforeAnnounced
    BY <1>1 DEF BeforeAnnounced
  <2> QED BY <1>1, <1>3, <2>1, <2>2, <2>3, NotMine, QuietStep
<1> QED BY <1>2, <1>3

LEMMA FailurePreserves ==
  ASSUME IInv, NEW id \in Ids, NEW n \in Slots,
         StreamFails(id, n) \/ FailCheck(id, n) \/ FailRead(id, n)
  PROVE  IInv'
<1> DEFINE op == operations[id][n]
<1>1. CASE StreamFails(id, n)
  <2>1. op # Absent /\ op.phase \in {"streaming", "streamed"}
    BY <1>1 DEF StreamFails, Is
  <2>2. "failing" \in Phases \ {"announcePut", "eventPut", "completePut", "failPut"}
    BY DEF Phases
  <2>3. Attends(op.phase, op.kind, modules[id].state) => Attends("failing", op.kind, modules[id].state)
    BY <2>1 DEF Attends, BeforeAnnounced, AfterAnnounced
  <2> QED BY <1>1, <2>1, <2>2, <2>3, QuietStep DEF StreamFails
<1>2. CASE FailCheck(id, n)
  <2>1. op # Absent /\ op.phase = "failing" /\ UNCHANGED <<modules, agent>> /\ Keep
    BY <1>2 DEF FailCheck, Is
  <2>2. {"failRead", "done"} \subseteq Phases \ {"announcePut", "eventPut", "completePut", "failPut"}
    BY DEF Phases
  <2>3. op.phase \notin BeforeAnnounced
    BY <2>1 DEF BeforeAnnounced
  <2>4. CASE Mine(id, n)
    <3>1. Goto(id, n, "failRead", Absent)
      BY <1>2, <2>4 DEF FailCheck
    <3>2. Attends(op.phase, op.kind, modules[id].state) => Attends("failRead", op.kind, modules[id].state)
      BY <2>1 DEF Attends, BeforeAnnounced, AfterAnnounced
    <3> QED BY <2>1, <2>2, <3>1, <3>2, QuietStep
  <2>5. CASE ~ Mine(id, n)
    <3>1. Goto(id, n, "done", Absent)
      BY <1>2, <2>5 DEF FailCheck
    <3> QED BY <2>1, <2>2, <2>3, <2>5, <3>1, NotMine, QuietStep
  <2> QED BY <2>4, <2>5
<1>3. CASE FailRead(id, n)
  <2>1. op # Absent /\ op.phase = "failRead" /\ UNCHANGED <<modules, agent>> /\ Keep
    BY <1>3 DEF FailRead, Is
  <2>2. CASE modules[id] = Absent
    <3>1. Goto(id, n, "done", Absent)
      BY <1>3, <2>2 DEF FailRead
    <3>2. "done" \in Phases \ {"announcePut", "eventPut", "completePut", "failPut"}
      BY DEF Phases
    <3> QED BY <2>1, <2>2, <3>1, <3>2, QuietStep DEF Changing
  <2>3. CASE modules[id] # Absent
    <3> DEFINE invalid == WithState(modules[id], "INVALID")
    <3>1. Goto(id, n, "failPut", invalid)
      BY <1>3, <2>3 DEF FailRead
    <3>2. invalid \in Record /\ invalid.state \in RestStates
      BY <2>1, <2>3, OperationFields, WithStateIsRecord DEF RestStates
    <3>3. "failPut" \in Phases
      BY DEF Phases
    <3>4. Attends(op.phase, op.kind, modules[id].state) => Attends("failPut", op.kind, modules[id].state)
      BY <2>1 DEF Attends, BeforeAnnounced, AfterAnnounced
    <3> HIDE DEF invalid
    <3> QED BY <2>1, <3>1, <3>2, <3>3, <3>4, ReadStep
  <2> QED BY <2>2, <2>3
<1> QED BY <1>1, <1>2, <1>3

\* The puts of an operation.
LEMMA PutsPreserve ==
  ASSUME IInv, NEW id \in Ids, NEW n \in Slots,
         AnnouncePut(id, n) \/ EventPut(id, n) \/ CompletePut(id, n) \/ FailPut(id, n)
  PROVE  IInv'
<1>1. {"connecting", "streamed"} \subseteq
        (Phases \ {"announcePut", "eventPut", "completePut", "failPut"}) \cap AfterAnnounced
  BY DEF Phases, AfterAnnounced
<1>2. CASE AnnouncePut(id, n)
  BY <1>1, <1>2, WriteBackPreserves DEF AnnouncePut, Is
<1>3. CASE EventPut(id, n)
  BY <1>1, <1>3, WriteBackPreserves DEF EventPut, Is
<1>4. CASE CompletePut(id, n) \/ FailPut(id, n)
  BY <1>4, WriteBackIfPresentPreserves DEF CompletePut, FailPut, Is
<1> QED BY <1>2, <1>3, <1>4

-----------------------------------------------------------------------------
(* The agent.                                                              *)

LEMMA EffectIsDeployment ==
  ASSUME NEW k \in Kinds, NEW v \in Versions, NEW d \in Deployment \cup {Absent}
  PROVE  Effect(k, v, d) \in Deployment \cup {Absent}
<1>1. CASE k \in {"install", "update"} \/ k = "uninstall" \/ d = Absent
  BY <1>1 DEF Effect, Deployment
<1>2. CASE k \notin {"install", "update", "uninstall"} /\ d # Absent
  <2>1. [version |-> d.version, up |-> k = "restart"] \in Deployment
    BY <1>2 DEF Deployment
  <2> QED BY <1>2, <2>1 DEF Effect
<1> QED BY <1>1, <1>2

\* What the agent does leaves the panel as it is.
LEMMA AgentPreserves ==
  ASSUME IInv, NEW id \in Ids, NEW n \in Slots, AgentStep(id, n)
  PROVE  IInv'
<1>1. UNCHANGED <<modules, created, handed, call, batch, operations, manager, recovery, thrown,
                  disturbed>>
  BY DEF AgentStep, AgentApplies, AgentAnswers, AgentFails, KeepAgent
<1>2. PICK a \in AgentPhases : agent' = [agent EXCEPT ![id][n] = a]
  BY DEF AgentStep, AgentApplies, AgentAnswers, AgentFails, AgentPhases
<1>3. operations[id][n] # Absent
  BY DEF AgentStep, AgentApplies, AgentAnswers, AgentFails, IInv, Held
<1>4. agent' \in [Ids -> [Slots -> AgentPhases]]
      /\ \A i \in Ids, m \in Slots : i # id \/ m # n => agent'[i][m] = agent[i][m]
  BY <1>2 DEF IInv, TypeOK
<1>5. deployments' \in [Ids -> Deployment \cup {Absent}]
  <2>1. CASE AgentApplies(id, n)
    <3> DEFINE d == Effect(operations[id][n].kind, operations[id][n].version, deployments[id])
    <3>1. d \in Deployment \cup {Absent}
      BY <1>3, OperationFields, EffectIsDeployment DEF IInv, TypeOK
    <3>2. deployments' = [deployments EXCEPT ![id] = d]
      BY <2>1 DEF AgentApplies, IInv, TypeOK
    <3> HIDE DEF d
    <3> QED BY <3>1, <3>2 DEF IInv, TypeOK
  <2>2. CASE AgentAnswers(id, n) \/ AgentFails(id, n)
    BY <2>2 DEF AgentAnswers, AgentFails, IInv, TypeOK
  <2> QED BY <2>1, <2>2 DEF AgentStep
<1>6. TypeOK'
  BY <1>1, <1>4, <1>5 DEF recovery, IInv, TypeOK
<1>7. Held'
  BY <1>1, <1>3, <1>4 DEF IInv, Held, HeldCalls, HeldBatch
<1> QED BY <1>1, <1>6, <1>7 DEF IInv, Attended, recovery

-----------------------------------------------------------------------------
(* Calls.                                                                  *)

\* The fields of a call.
LEMMA CallFields ==
  ASSUME IInv, NEW t \in Callers
  PROVE  call[t] \in Calls /\ HeldCall(call[t]) /\ HeldBatch(t)
BY DEF IInv, TypeOK, Held, HeldCalls

\* An operation that is launched attends to the record it puts; one whose launch throws
\* is told of.
LEMMA LaunchPreserves ==
  ASSUME IInv, NEW id \in Ids, NEW kind \in Kinds, NEW version \in Versions,
         Launch(id, kind, version),
         handed' \in [Ids -> SUBSET (Kinds \X Versions)],
         \A i \in Ids : i # id => handed'[i] = handed[i],
         disturbed' \in [Ids -> BOOLEAN], HeldCalls'
  PROVE  IInv'
<1> DEFINE r == [state |-> StartedState[kind], version |-> version]
           o == [phase |-> "queued", kind |-> kind, version |-> version, copy |-> Absent]
<1>1. \/ /\ thrown' = thrown \ {id}
         /\ \E n \in Slots : operations[id][n] = Absent /\ operations' = [operations EXCEPT ![id][n] = o]
      \/ thrown' = thrown \cup {id} /\ UNCHANGED operations
  BY DEF Launch
<1>2. r \in Record /\ r.state = StartedState[kind]
  BY StatesOfKind DEF Record
<1>3. o \in Operation /\ HeldOperation(o) /\ o.phase = "queued" /\ o.kind = kind
  BY DEF Operation, HeldOperation, Phases
<1>4. modules' = [modules EXCEPT ![id] = r]
      /\ UNCHANGED <<created, agent, deployments, manager, recovery>>
  BY DEF Launch, Put
<1> HIDE DEF r, o
<1>5. /\ modules' \in [Ids -> NoRecord] /\ modules'[id] = r
      /\ \A i \in Ids : i # id => modules'[i] = modules[i]
  BY <1>2, <1>4 DEF IInv, TypeOK
<1>6. o # Absent
  BY <1>3, AbsentAssumption
<1>7. ASSUME NEW n \in Slots, operations[id][n] = Absent,
             operations' = [operations EXCEPT ![id][n] = o], thrown' = thrown \ {id}
      PROVE  IInv'
  <2>1. /\ operations' \in [Ids -> [Slots -> Operation \cup {Absent}]]
        /\ operations'[id][n] = o
        /\ \A i \in Ids, m \in Slots : i # id \/ m # n => operations'[i][m] = operations[i][m]
    BY <1>3, <1>7 DEF IInv, TypeOK
  <2>2. TypeOK'
    BY <1>4, <1>5, <1>7, <2>1 DEF recovery, IInv, TypeOK, HeldCalls
  <2>3. Held'
    <3>1. ASSUME NEW i \in Ids, NEW m \in Slots, operations'[i][m] # Absent
          PROVE  HeldOperation(operations'[i][m])
      BY <1>3, <2>1, <3>1 DEF IInv, Held
    <3>2. ASSUME NEW i \in Ids, NEW m \in Slots, agent'[i][m] # "none"
          PROVE  operations'[i][m] # Absent
      BY <1>4, <1>6, <2>1, <3>2 DEF IInv, Held
    <3> QED BY <3>1, <3>2 DEF Held
  <2>4. ASSUME NEW i \in Ids PROVE Attended(i)'
    <3>1. CASE i = id
      BY <1>2, <1>3, <1>5, <1>6, <2>1, <3>1 DEF Attended, Attends, BeforeAnnounced
    <3>2. CASE i # id
      BY <1>4, <1>5, <1>7, <2>1, <3>2 DEF IInv, Attended, recovery
    <3> QED BY <3>1, <3>2
  <2> QED BY <2>2, <2>3, <2>4 DEF IInv
<1>8. CASE thrown' = thrown \cup {id} /\ UNCHANGED operations
  <2>1. TypeOK'
    BY <1>4, <1>5, <1>8 DEF recovery, IInv, TypeOK, HeldCalls
  <2>2. Held'
    BY <1>4, <1>8 DEF IInv, Held
  <2>3. ASSUME NEW i \in Ids PROVE Attended(i)'
    BY <1>4, <1>5, <1>8 DEF IInv, Attended, recovery
  <2> QED BY <2>1, <2>2, <2>3 DEF IInv
<1> QED BY <1>1, <1>7, <1>8

\* A step that puts one record, at rest or about to be sent back by a client, and
\* touches no operation.
LEMMA PutPreserves ==
  ASSUME IInv, NEW id \in Ids, NEW r \in NoRecord, Put(id, r),
         handed' \in [Ids -> SUBSET (Kinds \X Versions)],
         \A i \in Ids : i # id => handed'[i] = handed[i],
         \/ ~ Changing(r)
         \/ \E h \in handed'[id] : r.state = StartedState[h[1]],
         HeldCalls', created' \subseteq Ids,
         UNCHANGED <<operations, agent, deployments, manager, sweep, crashes, thrown>>,
         found' \in [Ids -> NoRecord], \A i \in Ids : i # id => found'[i] = found[i],
         disturbed' \in [Ids -> BOOLEAN]
  PROVE  IInv'
<1>1. /\ modules' \in [Ids -> NoRecord] /\ modules'[id] = r
      /\ \A i \in Ids : i # id => modules'[i] = modules[i]
  BY DEF Put, IInv, TypeOK
<1>2. TypeOK'
  BY <1>1 DEF IInv, TypeOK, HeldCalls
<1>3. Held'
  BY DEF IInv, Held
<1>4. ASSUME NEW i \in Ids PROVE Attended(i)'
  <2>1. CASE i = id
    BY <1>1, <2>1 DEF Attended
  <2>2. CASE i # id
    BY <1>1, <2>2 DEF IInv, Attended
  <2> QED BY <2>1, <2>2
<1> QED BY <1>2, <1>3, <1>4 DEF IInv

LEMMA IdleIsCall == Idle \in Calls /\ HeldCall(Idle) /\ Idle.pc = "idle"
BY DEF Idle, Calls, HeldCall

LEMMA NoBatchIsEmpty ==
  NoBatch \in [Ids -> Items] /\ \A id \in Ids : NoBatch[id].stage = "none"
BY DEF NoBatch, NoItem, Items

\* A thread that serves no updateModulesVersion goes on to serve another call.
LEMMA ServeGives ==
  ASSUME IInv, NEW t \in Callers, NEW c \in Calls, HeldCall(c), Serve(t, c),
         call[t].pc # "batch", UNCHANGED batch
  PROVE  HeldCalls'
<1>1. call' \in [Callers -> Calls] /\ call'[t] = c /\ \A u \in Callers \ {t} : call'[u] = call[u]
  BY DEF Serve, IInv, TypeOK
<1> QED BY <1>1 DEF IInv, Held, HeldCalls, HeldBatch

\* updateModulesVersion goes on with one of its modules.
LEMMA MarkGives ==
  ASSUME IInv, NEW t \in Callers, NEW id \in Ids, NEW item \in Items, Mark(t, id, item),
         call[t].pc = "batch", UNCHANGED call, item.stage # "named",
         item.stage = "put" => None(t, {"named"})
  PROVE  HeldCalls'
<1>1. /\ batch' \in [Callers -> [Ids -> Items]] /\ batch'[t][id] = item
      /\ \A i \in Ids \ {id} : batch'[t][i] = batch[t][i]
      /\ \A u \in Callers \ {t} : batch'[u] = batch[u]
  BY DEF Mark, IInv, TypeOK
<1>2. HeldBatch(t)'
  BY <1>1 DEF None, IInv, Held, HeldCalls, HeldBatch
<1>3. ASSUME NEW u \in Callers \ {t} PROVE HeldBatch(u)'
  BY <1>1 DEF IInv, Held, HeldCalls, HeldBatch
<1> QED BY <1>1, <1>2, <1>3 DEF IInv, Held, HeldCalls

\* It ends.
LEMMA EndsGives ==
  ASSUME IInv, NEW t \in Callers, Ends(t)
  PROVE  HeldCalls'
<1>1. /\ call' \in [Callers -> Calls] /\ call'[t] = Idle
      /\ \A u \in Callers \ {t} : call'[u] = call[u]
  BY IdleIsCall DEF Ends, Serve, IInv, TypeOK
<1>2. /\ batch' \in [Callers -> [Ids -> Items]] /\ batch'[t] = NoBatch
      /\ \A u \in Callers \ {t} : batch'[u] = batch[u]
  BY NoBatchIsEmpty DEF Ends, IInv, TypeOK
<1>3. HeldBatch(t)'
  BY <1>1, <1>2, NoBatchIsEmpty DEF HeldBatch
<1>4. ASSUME NEW u \in Callers \ {t} PROVE HeldBatch(u)'
  BY <1>1, <1>2 DEF IInv, Held, HeldCalls, HeldBatch
<1> QED BY <1>1, <1>2, <1>3, <1>4, IdleIsCall DEF IInv, Held, HeldCalls

\* A step that changes nothing but what threads serve, what is known to be disturbed and
\* the homes of modules.
LEMMA ServePreserves ==
  ASSUME IInv, HeldCalls', disturbed' \in [Ids -> BOOLEAN], manager' \in [Ids -> BOOLEAN],
         UNCHANGED <<modules, created, handed, operations, agent, deployments, recovery, thrown>>
  PROVE  IInv'
<1>1. TypeOK' /\ Held'
  BY DEF recovery, IInv, TypeOK, Held, HeldCalls
<1> QED BY <1>1 DEF IInv, Attended, recovery

\* What a step does to disturbed is of its type.
LEMMA DisturbedTypes ==
  ASSUME IInv,
         \/ \E id \in Ids, b \in BOOLEAN : disturbed' = [disturbed EXCEPT ![id] = b]
         \/ \E f \in [Ids -> BOOLEAN] : disturbed' = f
  PROVE  disturbed' \in [Ids -> BOOLEAN]
BY DEF IInv, TypeOK

LEMMA UserPreserves ==
  ASSUME IInv, NEW id \in Ids, UserStep(id)
  PROVE  IInv'
<1>1. UNCHANGED <<call, batch>> => HeldCalls'
  BY DEF IInv, Held, HeldCalls, HeldBatch
<1>2. ASSUME NEW v \in Versions, CallInstall(id, v)
      PROVE  IInv'
  <2> DEFINE r == [state |-> "INSTALLATION_STARTED", version |-> v]
  <2>1. "install" \in Kinds /\ StartedState["install"] = "INSTALLATION_STARTED"
    BY DEF Kinds, StartedState
  <2>2. r \in Record /\ r.state = "INSTALLATION_STARTED"
    BY <2>1, StatesOfKind DEF Record
  <2>3. handed' = [handed EXCEPT ![id] = {<<"install", v>>}] /\ Put(id, r)
        /\ created' = created \cup {id}
        /\ UNCHANGED <<call, batch, operations, agent, deployments, manager, recovery, thrown,
                       disturbed>>
    BY <1>2 DEF CallInstall
  <2>4. handed' \in [Ids -> SUBSET (Kinds \X Versions)] /\ handed'[id] = {<<"install", v>>}
        /\ \A i \in Ids : i # id => handed'[i] = handed[i]
    BY <2>1, <2>3 DEF IInv, TypeOK
  <2>5. created' \subseteq Ids /\ disturbed' \in [Ids -> BOOLEAN] /\ found' \in [Ids -> NoRecord]
    BY <2>3 DEF recovery, IInv, TypeOK
  <2>6. \E h \in handed'[id] : r.state = StartedState[h[1]]
    BY <2>1, <2>2, <2>4
  <2> HIDE DEF r
  <2> QED BY <1>1, <2>2, <2>3, <2>4, <2>5, <2>6, PutPreserves DEF recovery
<1>3. CASE CallProcess(id)
  <2>1. PICK h \in handed[id] :
          /\ Launch(id, h[1], h[2])
          /\ disturbed' = [disturbed EXCEPT ![id] =
               Disturbs(id, h[1], modules[id] # [state |-> StartedState[h[1]], version |-> h[2]])]
          /\ handed' = [handed EXCEPT ![id] = handed[id] \ {h}]
          /\ UNCHANGED <<call, batch>>
    BY <1>3 DEF CallProcess, IInv, TypeOK
  <2>2. h[1] \in Kinds /\ h[2] \in Versions
    BY DEF IInv, TypeOK
  <2>3. handed' \in [Ids -> SUBSET (Kinds \X Versions)] /\ \A i \in Ids : i # id => handed'[i] = handed[i]
    BY <2>1 DEF IInv, TypeOK
  <2>4. disturbed' \in [Ids -> BOOLEAN]
    <3>1. Disturbs(id, h[1], modules[id] # [state |-> StartedState[h[1]], version |-> h[2]]) \in BOOLEAN
      BY DEF Disturbs
    <3> QED BY <2>1, <3>1, DisturbedTypes
  <2> QED BY <1>1, <2>1, <2>2, <2>3, <2>4, LaunchPreserves
<1>4. CASE CallDelete(id)
  BY <1>1, <1>4, PutPreserves DEF CallDelete, Changing, recovery, IInv, TypeOK
<1>5. ASSUME NEW t \in Callers, NEW b \in Buttons, Click(t, id, b)
      PROVE  IInv'
  <2> DEFINE c == [Idle EXCEPT !.pc = "clicked", !.id = id, !.button = b]
  <2>1. c \in Calls /\ HeldCall(c)
    BY DEF Idle, Calls, HeldCall
  <2>2. Serve(t, c) /\ call[t].pc # "batch"
        /\ UNCHANGED <<modules, created, handed, batch, operations, agent, deployments, manager,
                       recovery, thrown, disturbed>>
    BY <1>5, IdleIsCall DEF Click
  <2> HIDE DEF c
  <2>3. HeldCalls'
    BY <2>1, <2>2, ServeGives
  <2> QED BY <2>2, <2>3, ServePreserves DEF IInv, TypeOK
<1>6. CASE DeleteHome(id)
  <2>1. manager' \in [Ids -> BOOLEAN]
    BY <1>6 DEF DeleteHome, IInv, TypeOK
  <2> QED BY <1>1, <1>6, <2>1, ServePreserves DEF DeleteHome, IInv, TypeOK
<1> QED BY <1>2, <1>3, <1>4, <1>5, <1>6 DEF UserStep

LEMMA CallPreserves ==
  ASSUME IInv, NEW t \in Callers,
         CallRead(t) \/ CallPut(t) \/ \E v \in Versions : CallPutUpdate(t, v)
  PROVE  IInv'
<1> DEFINE c == call[t]
<1>1. c \in Calls /\ HeldCall(c) /\ c.pc \in {"clicked", "put"}
  BY CallFields DEF CallRead, CallPut, CallPutUpdate
<1>2. c.id \in Ids /\ c.button \in Buttons /\ KindOf[c.button] \in Kinds /\ modules[c.id] \in NoRecord
  BY <1>1, KindOfButton DEF HeldCall, IInv, TypeOK
<1>3. ASSUME c.pc = "put"
      PROVE  c.copy \in Record /\ c.copy.version \in Versions
  BY <1>1, <1>3 DEF HeldCall, Record
<1>4. ASSUME NEW d \in Calls, HeldCall(d), Serve(t, d), UNCHANGED batch
      PROVE  HeldCalls'
  BY <1>1, <1>4, ServeGives
<1>5. CASE CallRead(t)
  <2> DEFINE read == [c EXCEPT !.pc = "put", !.copy = modules[c.id]]
             next == IF modules[c.id] = Absent THEN Idle ELSE read
  <2>1. Serve(t, next) /\ c.pc = "clicked"
        /\ UNCHANGED <<modules, created, handed, batch, operations, agent, deployments, manager,
                       recovery, thrown, disturbed>>
    BY <1>5 DEF CallRead
  <2>2. next \in Calls /\ HeldCall(next)
    <3>1. CASE next = Idle
      BY <3>1, IdleIsCall
    <3>2. CASE next # Idle
      <4>1. next = read /\ modules[c.id] \in Record
        BY <1>2, <2>1, <3>2
      <4>2. read \in Calls /\ HeldCall(read)
        BY <1>1, <1>2, <2>1, <4>1 DEF Calls, HeldCall
      <4> QED BY <4>1, <4>2
    <3> QED BY <3>1, <3>2
  <2> HIDE DEF next
  <2>3. HeldCalls'
    BY <1>4, <2>1, <2>2
  <2> QED BY <2>1, <2>3, ServePreserves DEF IInv, TypeOK
<1>6. CASE CallPut(t)
  <2> DEFINE b == Disturbs(c.id, KindOf[c.button],
                           modules[c.id] # c.copy \/ ~ Offers(c.copy.state, c.button))
  <2>1. c.pc = "put" /\ Launch(c.id, KindOf[c.button], c.copy.version)
        /\ disturbed' = [disturbed EXCEPT ![c.id] = b]
        /\ Serve(t, Idle) /\ UNCHANGED <<handed, batch>>
    BY <1>6 DEF CallPut
  <2>2. HeldCalls'
    BY <1>4, <2>1, IdleIsCall
  <2>3. handed' \in [Ids -> SUBSET (Kinds \X Versions)]
    BY <2>1 DEF IInv, TypeOK
  <2>4. disturbed' \in [Ids -> BOOLEAN]
    <3>1. b \in BOOLEAN
      BY DEF Disturbs
    <3> HIDE DEF b
    <3> QED BY <1>2, <2>1, <3>1, DisturbedTypes
  <2> QED BY <1>2, <1>3, <2>1, <2>2, <2>3, <2>4, LaunchPreserves
<1>7. ASSUME NEW v \in Versions, CallPutUpdate(t, v)
      PROVE  IInv'
  <2> DEFINE r == [state |-> "UPDATE_STARTED", version |-> v]
             id == c.id
  <2>1. c.pc = "put" /\ Put(id, r) /\ Serve(t, Idle)
        /\ handed' = [handed EXCEPT ![id] = handed[id] \cup {<<"update", v>>}]
        /\ UNCHANGED <<created, batch, operations, agent, deployments, manager, recovery, thrown,
                       disturbed>>
    BY <1>7 DEF CallPutUpdate, IInv, TypeOK
  <2>2. "update" \in Kinds /\ StartedState["update"] = "UPDATE_STARTED"
    BY DEF Kinds, StartedState
  <2>3. r \in Record /\ r.state = "UPDATE_STARTED"
    BY <2>2, StatesOfKind DEF Record
  <2>4. HeldCalls'
    BY <1>4, <2>1, IdleIsCall
  <2>5. id \in Ids
    BY <1>2, <2>1
  <2> HIDE DEF r, id
  <2>6. handed' \in [Ids -> SUBSET (Kinds \X Versions)] /\ <<"update", v>> \in handed'[id]
        /\ \A i \in Ids : i # id => handed'[i] = handed[i]
    BY <2>1, <2>2, <2>5 DEF IInv, TypeOK
  <2>7. created' \subseteq Ids /\ disturbed' \in [Ids -> BOOLEAN] /\ found' \in [Ids -> NoRecord]
    BY <2>1 DEF recovery, IInv, TypeOK
  <2>8. \E h \in handed'[id] : r.state = StartedState[h[1]]
    BY <2>2, <2>3, <2>6
  <2> QED BY <2>1, <2>3, <2>4, <2>5, <2>6, <2>7, <2>8, PutPreserves DEF recovery
<1> QED BY <1>5, <1>6, <1>7

\* The request that names many modules begins.
LEMMA VersionsPreserves ==
  ASSUME IInv, NEW t \in Callers, NEW ids \in SUBSET Ids, NEW v \in Versions,
         CallVersions(t, ids, v)
  PROVE  IInv'
<1> DEFINE r == [state |-> "RUN", version |-> v]
           c == [Idle EXCEPT !.pc = "batch", !.copy = r]
           named == [stage |-> "named", copy |-> Absent]
           b == [id \in Ids |-> IF id \in ids THEN named ELSE NoItem]
<1>1. Serve(t, c) /\ batch' = [batch EXCEPT ![t] = b] /\ call[t].pc # "batch"
      /\ UNCHANGED <<modules, created, handed, operations, agent, deployments, manager, recovery,
                     thrown, disturbed>>
  BY IdleIsCall DEF CallVersions
<1>2. r \in Record /\ r.state = "RUN"
  BY DEF Record, RestStates
<1> HIDE DEF r
<1>3. c \in Calls /\ HeldCall(c) /\ c.pc = "batch"
  BY <1>2 DEF Idle, Calls, HeldCall
<1>4. named \in Items /\ NoItem \in Items /\ named.stage = "named" /\ NoItem.stage = "none"
  BY DEF Items, NoItem
<1> HIDE DEF c, named
<1>5. b \in [Ids -> Items] /\ \A i \in Ids : b[i].stage # "put"
  BY <1>4
<1> HIDE DEF b
<1>6. /\ call' \in [Callers -> Calls] /\ call'[t] = c /\ \A u \in Callers \ {t} : call'[u] = call[u]
      /\ batch' \in [Callers -> [Ids -> Items]] /\ batch'[t] = b
      /\ \A u \in Callers \ {t} : batch'[u] = batch[u]
  BY <1>1, <1>3, <1>5 DEF Serve, IInv, TypeOK
<1>7. HeldCalls'
  BY <1>3, <1>5, <1>6 DEF IInv, Held, HeldCalls, HeldBatch
<1> QED BY <1>1, <1>7, ServePreserves DEF IInv, TypeOK

\* A thread with a module under way serves updateModulesVersion.
LEMMA BatchFields ==
  ASSUME IInv, NEW t \in Callers, NEW id \in Ids, batch[t][id].stage # "none"
  PROVE  /\ call[t].pc = "batch" /\ batch[t][id] \in Items
         /\ call[t].copy \in Record /\ call[t].copy.state = "RUN" /\ call[t].copy.version \in Versions
BY CallFields DEF HeldBatch, HeldCall, Record, IInv, TypeOK

LEMMA BatchPreserves ==
  ASSUME IInv, NEW t \in Callers,
         \/ VersionThrows(t) \/ VersionsDone(t)
         \/ \E id \in Ids : VersionRead(t, id) \/ VersionPut(t, id) \/ VersionProcess(t, id)
  PROVE  IInv'
<1>0. NoItem \in Items /\ NoItem.stage = "none"
  BY DEF NoItem, Items
<1>1. CASE VersionThrows(t)
  <2>1. disturbed' = [id \in Ids |-> disturbed[id] \/ LeftBehind(t, id)]
        /\ UNCHANGED <<modules, created, handed, operations, agent, deployments, manager, recovery,
                       thrown>> /\ Ends(t)
    BY <1>1 DEF VersionThrows
  <2>2. disturbed' \in [Ids -> BOOLEAN]
    BY <2>1
  <2> QED BY <2>1, <2>2, EndsGives, ServePreserves DEF IInv, TypeOK
<1>2. CASE VersionsDone(t)
  BY <1>2, EndsGives, ServePreserves DEF VersionsDone, IInv, TypeOK
<1>3. ASSUME NEW id \in Ids, VersionRead(t, id)
      PROVE  IInv'
  <2> DEFINE read == [stage |-> "read", copy |-> modules[id]]
             item == IF modules[id].state = "RUN" THEN read ELSE NoItem
  <2>1. /\ batch[t][id].stage = "named"
        /\ Ends(t) \/ (modules[id] # Absent /\ Mark(t, id, item) /\ UNCHANGED call)
        /\ UNCHANGED <<modules, created, handed, operations, agent, deployments, manager, recovery,
                       thrown, disturbed>>
    BY <1>3 DEF VersionRead
  <2>2. read \in Items /\ read.stage = "read"
    BY DEF Items, IInv, TypeOK
  <2> HIDE DEF read
  <2>3. item \in Items /\ item.stage \in {"read", "none"}
    BY <1>0, <2>2
  <2> HIDE DEF item
  <2>4. HeldCalls'
    BY <2>1, <2>3, BatchFields, EndsGives, MarkGives
  <2> QED BY <2>1, <2>4, ServePreserves DEF IInv, TypeOK
<1>4. ASSUME NEW id \in Ids, VersionPut(t, id)
      PROVE  IInv'
  <2> DEFINE r == call[t].copy
             item == [stage |-> "put", copy |-> r]
             b == disturbed[id] \/ modules[id] # batch[t][id].copy
  <2>1. /\ None(t, {"named"}) /\ batch[t][id].stage = "read" /\ Put(id, r) /\ Mark(t, id, item)
        /\ UNCHANGED <<created, handed, call, operations, agent, deployments, manager, recovery,
                       thrown>>
    BY <1>4 DEF VersionPut
  <2>2. call[t].pc = "batch" /\ r \in Record /\ r.state = "RUN"
    BY <2>1, BatchFields
  <2>3. item \in Items /\ item.stage = "put"
    BY <2>2 DEF Items
  <2>4. ~ Changing(r)
    BY <2>2, RestIsNotChanging DEF Changing, RestStates
  <2> HIDE DEF item
  <2>5. HeldCalls'
    BY <2>1, <2>2, <2>3, MarkGives
  <2>6. disturbed' \in [Ids -> BOOLEAN]
    <3>1. b \in BOOLEAN /\ disturbed' = [disturbed EXCEPT ![id] = b]
      BY <1>4 DEF VersionPut, IInv, TypeOK
    <3> HIDE DEF b
    <3> QED BY <3>1, DisturbedTypes
  <2> HIDE DEF r
  <2>7. created' \subseteq Ids /\ found' \in [Ids -> NoRecord]
        /\ handed' \in [Ids -> SUBSET (Kinds \X Versions)]
    BY <2>1 DEF recovery, IInv, TypeOK
  <2> QED BY <2>1, <2>2, <2>4, <2>5, <2>6, <2>7, PutPreserves DEF recovery
<1>5. ASSUME NEW id \in Ids, VersionProcess(t, id)
      PROVE  IInv'
  <2> DEFINE f == [i \in Ids |->
                     IF i = id THEN Disturbs(id, "update", modules[id] # batch[t][id].copy)
                     ELSE disturbed[i] \/ (~ manager[id] /\ LeftBehind(t, i))]
  <2>1. /\ batch[t][id].stage = "put" /\ Launch(id, "update", call[t].copy.version)
        /\ (Mark(t, id, NoItem) /\ UNCHANGED call) \/ Ends(t)
        /\ disturbed' = f /\ UNCHANGED handed
    BY <1>5 DEF VersionProcess
  <2>2. f \in [Ids -> BOOLEAN]
    BY DEF Disturbs, IInv, TypeOK
  <2> HIDE DEF f
  <2>3. HeldCalls'
    BY <1>0, <2>1, BatchFields, EndsGives, MarkGives
  <2>4. "update" \in Kinds /\ handed' \in [Ids -> SUBSET (Kinds \X Versions)]
    BY <2>1 DEF Kinds, IInv, TypeOK
  <2> QED BY <2>1, <2>2, <2>3, <2>4, BatchFields, LaunchPreserves
<1> QED BY <1>1, <1>2, <1>3, <1>4, <1>5

-----------------------------------------------------------------------------
(* Crash and restart.                                                      *)

\* A crash leaves everything to the sweep.
LEMMA CrashPreserves == IInv /\ Crash => IInv'
<1> SUFFICES ASSUME IInv, Crash PROVE IInv'
  OBVIOUS
<1> DEFINE over(id, n) == IF operations[id][n] = Absent THEN Absent
                          ELSE [phase |-> "done", kind |-> operations[id][n].kind,
                                version |-> operations[id][n].version, copy |-> Absent]
<1>1. operations' = [id \in Ids |-> [n \in Slots |-> over(id, n)]]
  BY DEF Crash
<1>2. ASSUME NEW id \in Ids, NEW n \in Slots
      PROVE  /\ over(id, n) \in Operation \cup {Absent}
             /\ operations[id][n] # Absent => over(id, n) # Absent
             /\ over(id, n) # Absent => HeldOperation(over(id, n))
  <2>1. CASE operations[id][n] = Absent
    BY <2>1
  <2>2. CASE operations[id][n] # Absent
    <3>1. over(id, n) \in Operation /\ HeldOperation(over(id, n))
      BY <2>2, OperationFields DEF Operation, Phases, HeldOperation
    <3> QED BY <2>2, <3>1, AbsentAssumption
  <2> QED BY <2>1, <2>2
<1> HIDE DEF over
<1>3. operations' \in [Ids -> [Slots -> Operation \cup {Absent}]]
      /\ \A id \in Ids, n \in Slots : operations'[id][n] = over(id, n)
  BY <1>1, <1>2
<1>4. /\ call' = [t \in Callers |-> Idle] /\ batch' = [t \in Callers |-> NoBatch]
      /\ sweep' = "read" /\ thrown' = {}
      /\ found' = [id \in Ids |-> Absent] /\ crashes' \in 0 .. MaxCrashes
      /\ disturbed' \in [Ids -> BOOLEAN]
      /\ UNCHANGED <<modules, created, handed, agent, deployments, manager>>
  BY ConstantsAssumption DEF Crash, IInv, TypeOK
<1>5. HeldCalls'
  <2>1. /\ call' \in [Callers -> Calls] /\ batch' \in [Callers -> [Ids -> Items]]
        /\ \A t \in Callers : call'[t] = Idle /\ batch'[t] = NoBatch
    BY <1>4, IdleIsCall, NoBatchIsEmpty
  <2> QED BY <2>1, IdleIsCall, NoBatchIsEmpty DEF HeldCalls, HeldBatch
<1>6. TypeOK'
  BY <1>3, <1>4, <1>5 DEF IInv, TypeOK, HeldCalls
<1>7. Held'
  BY <1>2, <1>3, <1>4, <1>5 DEF IInv, Held
<1> QED BY <1>4, <1>6, <1>7 DEF IInv, Attended

LEMMA SweepPreserves ==
  ASSUME IInv, SweepStep
  PROVE  IInv'
<1>0. HeldCalls'
  <2>1. UNCHANGED <<call, batch>>
    BY DEF SweepStep, SweepRead, SweepPut, SweepDone
  <2> QED BY <2>1 DEF IInv, Held, HeldCalls, HeldBatch
<1>1. CASE SweepRead
  <2>1. found' = [id \in Ids |-> IF Changing(modules[id]) THEN modules[id] ELSE Absent]
        /\ sweep' = "put"
        /\ UNCHANGED <<modules, created, handed, operations, agent, deployments, manager, crashes,
                       thrown, disturbed>>
    BY <1>1 DEF SweepRead
  <2>2. TypeOK'
    BY <1>0, <2>1 DEF IInv, TypeOK, HeldCalls
  <2>3. Held'
    BY <1>0, <2>1 DEF IInv, Held
  <2>4. ASSUME NEW id \in Ids PROVE Attended(id)'
    BY <2>1 DEF Attended, Changing
  <2> QED BY <2>2, <2>3, <2>4 DEF IInv
<1>2. CASE SweepDone
  BY <1>0, <1>2 DEF SweepDone, IInv, TypeOK, Held, Attended
<1>3. ASSUME NEW id \in Ids, SweepPut(id)
      PROVE  IInv'
  <2> DEFINE r == WithState(found[id], "INVALID")
  <2>1. r \in Record /\ r.state = "INVALID"
    BY <1>3, WithStateIsRecord DEF SweepPut, RestStates, IInv, TypeOK
  <2>2. Put(id, r) /\ ~ Changing(r)
    BY <1>3, <2>1, RestIsNotChanging DEF SweepPut, Changing, RestStates
  <2> HIDE DEF r
  <2>3. found' \in [Ids -> NoRecord] /\ (\A i \in Ids : i # id => found'[i] = found[i])
        /\ disturbed' \in [Ids -> BOOLEAN]
        /\ UNCHANGED <<created, handed, operations, agent, deployments, manager, sweep, crashes,
                       thrown>>
    BY <1>3 DEF SweepPut, IInv, TypeOK
  <2>4. handed' \in [Ids -> SUBSET (Kinds \X Versions)] /\ created' \subseteq Ids
    BY <2>3 DEF IInv, TypeOK
  <2> QED BY <1>0, <2>1, <2>2, <2>3, <2>4, PutPreserves
<1> QED BY <1>1, <1>2, <1>3 DEF SweepStep

\* A restart that does not come to the modules leaves them to the next one.
LEMMA SkipPreserves ==
  ASSUME IInv, SweepSkipped
  PROVE  IInv'
<1>1. /\ UNCHANGED <<modules, created, handed, call, batch, operations, agent, deployments, manager,
                      found, crashes, disturbed>>
      /\ sweep' = "idle" /\ thrown' = {id \in Ids : Changing(modules[id])}
  BY DEF SweepSkipped
<1>2. TypeOK' /\ Held'
  BY <1>1 DEF IInv, TypeOK, Held, HeldCalls, HeldBatch
<1>3. ASSUME NEW id \in Ids PROVE Attended(id)'
  BY <1>1 DEF Attended, Changing
<1> QED BY <1>2, <1>3 DEF IInv

LEMMA StepPreserves == IInv /\ [Next]_vars => IInv'
<1> SUFFICES ASSUME IInv, [Next]_vars PROVE IInv'
  OBVIOUS
<1>1. ASSUME NEW id \in Ids, UserStep(id) PROVE IInv'
  BY <1>1, UserPreserves
<1>2. ASSUME NEW t \in Callers, CallStep(t) PROVE IInv'
  BY <1>2, CallPreserves, BatchPreserves DEF CallStep
<1>3. ASSUME NEW t \in Callers, NEW ids \in SUBSET Ids \ {{}}, NEW v \in Versions,
             CallVersions(t, ids, v)
      PROVE  IInv'
  BY <1>3, VersionsPreserves
<1>4. ASSUME NEW id \in Ids, NEW n \in Slots,
             PanelStep(id, n) \/ TaskThrows(id, n) \/ StartFails(id, n)
      PROVE  IInv'
  BY <1>4, AnnouncePreserves, ConnectPreserves, TaskThrowsPreserves, FailurePreserves, PutsPreserve
     DEF PanelStep
<1>5. ASSUME NEW id \in Ids, NEW n \in Slots, StreamStep(id, n) PROVE IInv'
  BY <1>5, EventReadPreserves, CompleteReadPreserves, FailurePreserves DEF StreamStep
<1>6. ASSUME NEW id \in Ids, NEW n \in Slots, AgentStep(id, n) PROVE IInv'
  BY <1>6, AgentPreserves
<1>7. CASE SweepStep \/ SweepSkipped \/ Crash
  BY <1>7, SweepPreserves, SkipPreserves, CrashPreserves
<1>8. CASE UNCHANGED vars
  BY <1>8 DEF vars, recovery, IInv, TypeOK, Held, HeldCalls, HeldBatch, Attended
<1> QED BY <1>1, <1>2, <1>3, <1>4, <1>5, <1>6, <1>7, <1>8 DEF Next

\* Every put of ModuleService and ModuleManagementService keeps a record well formed,
\* and what is held between a read and its put.
THEOREM TypeCorrect == Spec => []TypeOK
<1>1. IInv => TypeOK
  BY DEF IInv
<1> QED BY InitInv, StepPreserves, <1>1, PTL DEF Spec

\* However calls, operations and crashes overlap, a module that is shown as changing is
\* still in the hands of an operation, a client or the sweep: ModuleManagementService's
\* handlers and failChangingModules leave none behind.
THEOREM ChangeIsAttended == Spec => []ChangingHasWorker
<1>1. IInv => ChangingHasWorker
  BY AttendedAll DEF IInv
<1> QED BY InitInv, StepPreserves, <1>1, PTL DEF Spec

-----------------------------------------------------------------------------
(* The record tells the truth: of a module that nobody disturbed one       *)
(* operation at most is at work, and it agrees with the record and the     *)
(* deployment.                                                             *)

BusyAt(id, n) == AtPanel(id, n) \/ AtAgent(id, n)

\* What RecordIsTrue speaks of.
Settled(id) == ~ disturbed[id] /\ ~ Processing(id)

InStates(r, states) == r # Absent /\ r.state \in states
StartedStates == {StartedState[k] : k \in Kinds}
WorkingStates == {WorkingState[k] : k \in Kinds}
TellingStates == {"RUN", "STOPPED", "NOT_INSTALLED"}

\* What an operation is about to put is its own, as is the record in progress.
OwnCopy(o, a, r) ==
  /\ o.phase # "done" /\ InStates(r, WorkingStates) => r.version = o.version
  /\ o.phase \in {"announcePut", "eventPut"} => o.copy.version = o.version
  /\ o.phase = "completePut" =>
       a = "answered" /\ o.copy = [state |-> FinalState[o.kind], version |-> o.version]
  /\ o.phase = "failPut" => o.copy.state = "INVALID"

\* What deployment d has become under the agent's work on an operation.
Agrees(kind, version, a, d) ==
  /\ kind \in {"restart", "stop"} => d = Absent \/ d.version = version
  /\ kind \in {"install", "update", "uninstall"} /\ a \in {"applied", "answered"}
       => d = Effect(kind, version, d)
  /\ a = "answered" => Reached(kind, d)

Tells(r, d) ==
  r # Absent =>
    /\ r.state = "RUN" => d = [version |-> r.version, up |-> TRUE]
    /\ r.state = "STOPPED" => d = Absent \/ d = [version |-> r.version, up |-> FALSE]
    /\ r.state = "NOT_INSTALLED" => d = Absent

Keeps(id, n) ==
  /\ OwnCopy(operations[id][n], agent[id][n], modules[id])
  /\ Agrees(operations[id][n].kind, operations[id][n].version, agent[id][n], deployments[id])

Truth(id) ==
  Settled(id) =>
    /\ \A m, n \in Slots : BusyAt(id, m) /\ BusyAt(id, n) => m = n
    /\ \A n \in Slots : BusyAt(id, n) => Keeps(id, n)
    /\ InStates(modules[id], TellingStates) => ~ Busy(id)
    /\ Tells(modules[id], deployments[id])

\* Clients send back only installations and updates.
SentBack(id) == \A h \in handed[id] : h[1] \in {"install", "update"}

TruthInv == \A id \in Ids : Truth(id) /\ SentBack(id)

LEMMA InitTruth == Init => TruthInv
BY DEF Init, TruthInv, Truth, SentBack, BusyAt, AtPanel, AtAgent, Busy, InStates, Tells

LEMMA TruthGives == IInv /\ TruthInv => RecordIsTrue
<1> SUFFICES ASSUME IInv, TruthInv, NEW id \in Ids, modules[id] # Absent, ~ disturbed[id],
                    ~ Processing(id)
             PROVE  LET deployment == deployments[id]
                    IN CASE modules[id].state = "RUN" ->
                              deployment = [version |-> modules[id].version, up |-> TRUE]
                         [] modules[id].state = "STOPPED" -> deployment = Absent \/ ~ deployment.up
                         [] modules[id].state = "NOT_INSTALLED" -> deployment = Absent
                         [] OTHER -> TRUE
  BY DEF RecordIsTrue
<1>1. Tells(modules[id], deployments[id])
  BY DEF TruthInv, Truth, Settled
<1>2. CASE modules[id].state = "RUN"
  BY <1>1, <1>2 DEF Tells
<1>3. CASE modules[id].state = "STOPPED"
  BY <1>1, <1>3 DEF Tells
<1>4. CASE modules[id].state = "NOT_INSTALLED"
  BY <1>1, <1>4 DEF Tells
<1>5. CASE modules[id].state \notin {"RUN", "STOPPED", "NOT_INSTALLED"}
  BY <1>5
<1> QED
  BY <1>2, <1>3, <1>4, <1>5

\* The kinds of states of a record.
LEMMA StatesAreApart ==
  /\ StartedStates \cap WorkingStates = {} /\ StartedStates \cap TellingStates = {}
  /\ WorkingStates \cap TellingStates = {}
  /\ "INVALID" \notin StartedStates \cup WorkingStates \cup TellingStates
  /\ ChangingStates = StartedStates \cup WorkingStates
  /\ \A k \in Kinds : /\ StartedState[k] \in StartedStates
                      /\ WorkingState[k] \in WorkingStates
BY DEF StartedStates, WorkingStates, TellingStates, Kinds, StartedState, WorkingState, ChangingStates

-----------------------------------------------------------------------------
\* The modules that a step is not about.
LEMMA TruthStays ==
  ASSUME NEW i \in Ids, Truth(i), SentBack(i),
         modules'[i] = modules[i], operations'[i] = operations[i], agent'[i] = agent[i],
         deployments'[i] = deployments[i], handed'[i] \subseteq handed[i],
         Settled(i)' => Settled(i)
  PROVE  Truth(i)' /\ SentBack(i)'
<1>1. /\ \A n \in Slots : BusyAt(i, n)' <=> BusyAt(i, n)
      /\ Busy(i)' <=> Busy(i)
      /\ \A n \in Slots : Keeps(i, n)' <=> Keeps(i, n)
  BY DEF BusyAt, Busy, AtPanel, AtAgent, Keeps
<1>2. Truth(i)'
  BY <1>1 DEF Truth
<1>3. SentBack(i)'
  BY DEF SentBack
<1> QED
  BY <1>2, <1>3

\* A step about one module leaves the others to what was known of them.
LEMMA OnlyAbout ==
  ASSUME TruthInv, NEW id \in Ids,
         \A i \in Ids \ {id} :
           /\ modules'[i] = modules[i] /\ operations'[i] = operations[i] /\ agent'[i] = agent[i]
           /\ deployments'[i] = deployments[i] /\ handed'[i] \subseteq handed[i]
           /\ Settled(i)' => Settled(i),
         Truth(id)', SentBack(id)'
  PROVE  TruthInv'
<1> SUFFICES ASSUME NEW i \in Ids PROVE Truth(i)' /\ SentBack(i)'
  BY DEF TruthInv
<1>1. CASE i = id
  BY <1>1
<1>2. CASE i # id
  BY <1>2, TruthStays DEF TruthInv
<1> QED
  BY <1>1, <1>2

\* A step that changes neither records nor operations nor deployments.
LEMMA NothingTruth ==
  ASSUME TruthInv, UNCHANGED <<modules, operations, agent, deployments, handed>>,
         \A i \in Ids : Settled(i)' => Settled(i)
  PROVE  TruthInv'
BY TruthStays DEF TruthInv

\* A step of an operation at work.
LEMMA OperationTruth ==
  ASSUME IInv, TruthInv, NEW id \in Ids, NEW n \in Slots, operations[id][n] # Absent,
         operations[id][n].phase # "done",
         NEW phase \in Phases, NEW copy \in NoRecord, Goto(id, n, phase, copy), Still,
         NEW r \in NoRecord, (UNCHANGED modules /\ r = modules[id]) \/ Put(id, r),
         UNCHANGED agent \/ (agent' = [agent EXCEPT ![id][n] = "working"] /\ phase = "streaming"),
         Keeps(id, n)
           => OwnCopy([phase |-> phase, kind |-> operations[id][n].kind,
                       version |-> operations[id][n].version, copy |-> copy], agent[id][n], r),
         Keeps(id, n) =>
           \/ r = modules[id]
           \/ ~ InStates(r, TellingStates)
           \/ /\ phase = "done" /\ UNCHANGED agent /\ agent[id][n] = "answered"
              /\ Tells(r, deployments[id])
  PROVE  TruthInv'
<1> DEFINE op == operations[id][n]
           o == [phase |-> phase, kind |-> op.kind, version |-> op.version, copy |-> copy]
<1>1. /\ operations'[id][n] = o /\ operations'[id][n] # Absent
      /\ \A i \in Ids, m \in Slots : i # id \/ m # n => operations'[i][m] = operations[i][m]
      /\ operations' \in [Ids -> [Slots -> Operation \cup {Absent}]]
  BY GotoGives DEF IInv
<1>2. modules'[id] = r /\ \A i \in Ids \ {id} : modules'[i] = modules[i]
  BY DEF Put, IInv, TypeOK
<1>3. UNCHANGED <<handed, batch, deployments, disturbed>>
  BY DEF Still
<1>4. /\ \A i \in Ids, m \in Slots : i # id \/ m # n => agent'[i][m] = agent[i][m]
      /\ agent'[id][n] \in {agent[id][n], "working"}
      /\ \A i \in Ids \ {id} : agent'[i] = agent[i]
  BY DEF IInv, TypeOK
<1>5. \A i \in Ids \ {id} : operations'[i] = operations[i]
  BY DEF Goto, IInv, TypeOK
<1>6. BusyAt(id, n) /\ Busy(id)
  BY DEF BusyAt, Busy, AtPanel
<1>7. \A m \in Slots \ {n} : BusyAt(id, m)' <=> BusyAt(id, m)
  BY <1>1, <1>4 DEF BusyAt, AtPanel, AtAgent
<1>8. Truth(id) /\ SentBack(id) /\ \A i \in Ids : Settled(i)' <=> Settled(i)
  BY <1>3 DEF TruthInv, Settled, Processing
<1> HIDE DEF op, o
<1>9. Truth(id)'
  <2> SUFFICES ASSUME Settled(id)
               PROVE  Truth(id)'
    BY <1>8 DEF Truth
  <2>1. \A m \in Slots \ {n} : ~ BusyAt(id, m)
    BY <1>6, <1>8 DEF Truth
  <2>2. Keeps(id, n) /\ ~ InStates(modules[id], TellingStates)
    BY <1>6, <1>8 DEF Truth
  <2>3. OwnCopy(o, agent[id][n], r)
    BY <2>2 DEF o, op
  <2>4. OwnCopy(operations'[id][n], agent'[id][n], modules'[id])
    BY <1>1, <1>2, <2>3 DEF OwnCopy, o
  <2>5. Agrees(op.kind, op.version, agent[id][n], deployments[id])
    BY <2>2 DEF Keeps, op
  <2>6. Agrees(operations'[id][n].kind, operations'[id][n].version, agent'[id][n], deployments'[id])
    BY <1>1, <1>3, <1>4, <2>5 DEF Agrees, o
  <2>7. \/ ~ InStates(modules'[id], TellingStates) /\ Tells(modules'[id], deployments'[id])
        \/ (\A m \in Slots : ~ BusyAt(id, m)') /\ Tells(modules'[id], deployments'[id])
    <3>1. ASSUME ~ InStates(r, TellingStates)
          PROVE  Tells(r, deployments[id])
      BY <3>1 DEF InStates, Tells, TellingStates
    <3>2. CASE ~ InStates(r, TellingStates)
      BY <1>2, <1>3, <3>1, <3>2
    <3>3. CASE /\ phase = "done" /\ UNCHANGED agent /\ agent[id][n] = "answered"
               /\ Tells(r, deployments[id])
      <4>1. ~ BusyAt(id, n)'
        BY <1>1, <3>3 DEF BusyAt, AtPanel, AtAgent, o
      <4> QED
        BY <1>2, <1>3, <1>7, <2>1, <3>3, <4>1
    <3> QED
      BY <2>2, <3>2, <3>3
  <2>8. InStates(modules'[id], TellingStates) => ~ Busy(id)'
    BY <2>7 DEF Busy, BusyAt
  <2>9. \A m \in Slots : BusyAt(id, m)' => m = n
    BY <1>7, <2>1
  <2>10. Keeps(id, n)'
    BY <2>4, <2>6 DEF Keeps
  <2> QED
    BY <2>7, <2>8, <2>9, <2>10 DEF Truth
<1>10. SentBack(id)'
  BY <1>3, <1>8 DEF SentBack
<1> QED
  BY <1>2, <1>3, <1>4, <1>5, <1>8, <1>9, <1>10, OnlyAbout

\* A step that leaves the record as it is.
LEMMA ReadTruth ==
  ASSUME IInv, TruthInv, NEW id \in Ids, NEW n \in Slots, operations[id][n] # Absent,
         operations[id][n].phase # "done",
         NEW phase \in Phases, NEW copy \in NoRecord, Goto(id, n, phase, copy), Still,
         UNCHANGED modules,
         UNCHANGED agent \/ (agent' = [agent EXCEPT ![id][n] = "working"] /\ phase = "streaming"),
         phase \in {"announcePut", "eventPut"} => copy.version = operations[id][n].version,
         phase = "completePut" =>
           /\ agent[id][n] = "answered" /\ Mine(id, n)
           /\ copy = WithState(modules[id], FinalState[operations[id][n].kind]),
         phase = "failPut" => copy.state = "INVALID"
  PROVE  TruthInv'
<1> DEFINE op == operations[id][n]
           o == [phase |-> phase, kind |-> op.kind, version |-> op.version, copy |-> copy]
<1>1. op.kind \in Kinds /\ modules[id] \in NoRecord
  BY OperationFields
<1>2. ASSUME Keeps(id, n)
      PROVE  OwnCopy(o, agent[id][n], modules[id])
  <2>1. InStates(modules[id], WorkingStates) => modules[id].version = op.version
    BY <1>2 DEF Keeps, OwnCopy
  <2>2. phase = "completePut" => copy = [state |-> FinalState[op.kind], version |-> op.version]
    BY <1>1, <2>1, StatesAreApart DEF Mine, InStates, WithState
  <2> QED
    BY <2>1, <2>2 DEF OwnCopy
<1> QED
  BY <1>1, <1>2, OperationTruth

LEMMA StartTruth ==
  ASSUME IInv, TruthInv, NEW id \in Ids, NEW n \in Slots,
         Announce(id, n) \/ Connect(id, n) \/ TaskThrows(id, n) \/ StartFails(id, n)
  PROVE  TruthInv'
<1> DEFINE op == operations[id][n]
           working == [state |-> WorkingState[op.kind], version |-> op.version]
<1>1. {"announcePut", "connecting", "streaming", "failRead", "done"} \subseteq Phases
  BY DEF Phases
<1>2. CASE Announce(id, n)
  <2>1. op # Absent /\ op.phase = "queued" /\ UNCHANGED <<modules, agent>> /\ Still
    BY <1>2 DEF Announce, Is, Keep
  <2>2. CASE modules[id] = Absent
    <3>1. Goto(id, n, "connecting", Absent)
      BY <1>2, <2>2 DEF Announce
    <3> QED
      BY <1>1, <2>1, <3>1, ReadTruth
  <2>3. CASE modules[id] # Absent
    <3>1. Goto(id, n, "announcePut", working)
      BY <1>2, <2>3 DEF Announce
    <3>2. working \in Record /\ working.version = op.version
      BY <2>1, OperationFields, StatesOfKind DEF Record
    <3> HIDE DEF working
    <3> QED
      BY <1>1, <2>1, <3>1, <3>2, ReadTruth
  <2> QED
    BY <2>2, <2>3
<1>3. CASE Connect(id, n)
  BY <1>1, <1>3, ReadTruth DEF Connect, Is, Keep
<1>4. CASE TaskThrows(id, n)
  BY <1>1, <1>4, ReadTruth DEF TaskThrows, Is
<1>5. CASE StartFails(id, n)
  BY <1>1, <1>5, ReadTruth DEF StartFails, Is, Keep
<1> QED
  BY <1>2, <1>3, <1>4, <1>5

LEMMA StreamTruth ==
  ASSUME IInv, TruthInv, NEW id \in Ids, NEW n \in Slots, StreamStep(id, n)
  PROVE  TruthInv'
<1> DEFINE op == operations[id][n]
           working == [state |-> WorkingState[op.kind], version |-> op.version]
           final == WithState(modules[id], FinalState[op.kind])
<1>1. {"eventPut", "streamed", "completePut", "failing", "done"} \subseteq Phases
  BY DEF Phases
<1>2. op # Absent /\ op.phase \in {"streaming", "streamed"} /\ UNCHANGED <<modules, agent>>
      /\ Still
  BY DEF StreamStep, EventRead, CompleteRead, StreamFails, Is, Keep
<1>3. CASE EventRead(id, n) /\ Mine(id, n)
  <2>1. Goto(id, n, "eventPut", working)
    BY <1>3 DEF EventRead
  <2>2. working \in Record /\ working.version = op.version
    BY <1>2, OperationFields, StatesOfKind DEF Record
  <2> HIDE DEF working
  <2> QED
    BY <1>1, <1>2, <2>1, <2>2, ReadTruth
<1>4. CASE EventRead(id, n) /\ ~ Mine(id, n)
  <2>1. Goto(id, n, "streamed", Absent)
    BY <1>4 DEF EventRead
  <2> QED
    BY <1>1, <1>2, <2>1, ReadTruth
<1>5. CASE CompleteRead(id, n) /\ Mine(id, n)
  <2>1. Goto(id, n, "completePut", final) /\ agent[id][n] = "answered"
    BY <1>5 DEF CompleteRead
  <2>2. final \in Record
    BY <1>2, <1>5, OperationFields, StatesOfKind, WithStateIsRecord DEF Mine
  <2> QED
    BY <1>1, <1>2, <1>5, <2>1, <2>2, ReadTruth
<1>6. CASE CompleteRead(id, n) /\ ~ Mine(id, n)
  <2>1. Goto(id, n, "done", Absent)
    BY <1>6 DEF CompleteRead
  <2> QED
    BY <1>1, <1>2, <2>1, ReadTruth
<1>7. CASE StreamFails(id, n)
  BY <1>1, <1>2, <1>7, ReadTruth DEF StreamFails
<1> QED
  BY <1>3, <1>4, <1>5, <1>6, <1>7 DEF StreamStep

LEMMA FailureTruth ==
  ASSUME IInv, TruthInv, NEW id \in Ids, NEW n \in Slots, FailCheck(id, n) \/ FailRead(id, n)
  PROVE  TruthInv'
<1> DEFINE op == operations[id][n]
           invalid == WithState(modules[id], "INVALID")
<1>1. {"failRead", "failPut", "done"} \subseteq Phases
  BY DEF Phases
<1>2. CASE FailCheck(id, n)
  <2>1. op # Absent /\ op.phase = "failing" /\ UNCHANGED <<modules, agent>> /\ Still
        /\ (Goto(id, n, "failRead", Absent) \/ Goto(id, n, "done", Absent))
    BY <1>2 DEF FailCheck, Is, Keep
  <2> QED
    BY <1>1, <2>1, ReadTruth
<1>3. CASE FailRead(id, n)
  <2>1. op # Absent /\ op.phase = "failRead" /\ UNCHANGED <<modules, agent>> /\ Still
    BY <1>3 DEF FailRead, Is, Keep
  <2>2. CASE modules[id] = Absent
    <3>1. Goto(id, n, "done", Absent)
      BY <1>3, <2>2 DEF FailRead
    <3> QED
      BY <1>1, <2>1, <2>2, <3>1, ReadTruth
  <2>3. CASE modules[id] # Absent
    <3>1. Goto(id, n, "failPut", invalid)
      BY <1>3, <2>3 DEF FailRead
    <3>2. invalid \in Record /\ invalid.state = "INVALID"
      BY <2>1, <2>3, OperationFields, WithStateIsRecord DEF RestStates
    <3> HIDE DEF invalid
    <3> QED
      BY <1>1, <2>1, <3>1, <3>2, ReadTruth
  <2> QED
    BY <2>2, <2>3
<1> QED
  BY <1>2, <1>3

\* What an operation that ended well puts is what the deployment has become.
LEMMA AgreesTells ==
  ASSUME NEW kind \in Kinds, NEW version \in Versions, NEW d \in Deployment \cup {Absent},
         Agrees(kind, version, "answered", d)
  PROVE  Tells([state |-> FinalState[kind], version |-> version], d)
<1>1. d # Absent => d.up \in BOOLEAN /\ d = [version |-> d.version, up |-> d.up]
  BY DEF Deployment
<1>2. CASE kind \in {"install", "update"}
  BY <1>2 DEF Agrees, Effect, Tells, FinalState
<1>3. CASE kind = "uninstall"
  BY <1>3 DEF Agrees, Effect, Tells, FinalState
<1>4. CASE kind = "restart"
  <2>1. d # Absent /\ d.up /\ d.version = version
    BY <1>4 DEF Agrees, Reached
  <2>2. d = [version |-> version, up |-> TRUE]
    BY <1>1, <2>1
  <2> QED
    BY <1>4, <2>2 DEF Tells, FinalState
<1>5. CASE kind = "stop"
  <2>1. d = Absent \/ (~ d.up /\ d.version = version)
    BY <1>5 DEF Agrees, Reached
  <2>2. d = Absent \/ d = [version |-> version, up |-> FALSE]
    BY <1>1, <2>1
  <2> QED
    BY <1>5, <2>2 DEF Tells, FinalState
<1> QED
  BY <1>2, <1>3, <1>4, <1>5 DEF Kinds

\* The put of a record in progress.
LEMMA WorkingPutTruth ==
  ASSUME IInv, TruthInv, NEW id \in Ids, NEW n \in Slots, AnnouncePut(id, n) \/ EventPut(id, n)
  PROVE  TruthInv'
<1> DEFINE op == operations[id][n]
<1>1. PICK phase \in {"connecting", "streamed"} : WriteBack(id, n, phase)
  BY DEF AnnouncePut, EventPut
<1>2. op # Absent /\ op.phase \in {"announcePut", "eventPut"} /\ phase \in Phases
  BY <1>1 DEF AnnouncePut, EventPut, Is, Phases
<1>3. Put(id, op.copy) /\ Goto(id, n, phase, Absent) /\ UNCHANGED agent /\ Still
  BY <1>1 DEF WriteBack, Keep
<1>4. op.kind \in Kinds /\ op.copy \in Record /\ op.copy.state \in WorkingStates
  BY <1>2, OperationFields, StatesAreApart DEF HeldOperation
<1>5. ~ InStates(op.copy, TellingStates)
  BY <1>4, StatesAreApart DEF InStates
<1>6. ASSUME Keeps(id, n)
      PROVE  OwnCopy([phase |-> phase, kind |-> op.kind, version |-> op.version, copy |-> Absent],
                     agent[id][n], op.copy)
  BY <1>2, <1>6 DEF Keeps, OwnCopy
<1> QED
  BY <1>2, <1>3, <1>4, <1>5, <1>6, OperationTruth

\* The last put of an operation, or the end of one whose module was deleted.
LEMMA LastPutTruth ==
  ASSUME IInv, TruthInv, NEW id \in Ids, NEW n \in Slots, CompletePut(id, n) \/ FailPut(id, n)
  PROVE  TruthInv'
<1> DEFINE op == operations[id][n]
<1>1. op # Absent /\ op.phase \in {"completePut", "failPut"} /\ "done" \in Phases
      /\ WriteBackIfPresent(id, n)
  BY DEF CompletePut, FailPut, Is, Phases
<1>2. CASE modules[id] = Absent /\ Goto(id, n, "done", Absent) /\ UNCHANGED <<modules, agent>> /\ Keep
  BY <1>1, <1>2, ReadTruth DEF Keep
<1>3. CASE WriteBack(id, n, "done")
  <2>1. Put(id, op.copy) /\ Goto(id, n, "done", Absent) /\ UNCHANGED agent /\ Still
    BY <1>3 DEF WriteBack, Keep
  <2>2. op.kind \in Kinds /\ op.version \in Versions /\ op.copy \in Record
        /\ op.copy.state \in RestStates
    BY <1>1, OperationFields DEF HeldOperation
  <2>3. ASSUME Keeps(id, n)
        PROVE  OwnCopy([phase |-> "done", kind |-> op.kind, version |-> op.version, copy |-> Absent],
                       agent[id][n], op.copy)
    BY DEF OwnCopy
  <2>4. ASSUME Keeps(id, n)
        PROVE  \/ ~ InStates(op.copy, TellingStates)
               \/ agent[id][n] = "answered" /\ Tells(op.copy, deployments[id])
    <3>1. CASE op.phase = "failPut"
      BY <2>4, <3>1 DEF Keeps, OwnCopy, InStates, TellingStates
    <3>2. CASE op.phase = "completePut"
      <4>1. agent[id][n] = "answered"
            /\ op.copy = [state |-> FinalState[op.kind], version |-> op.version]
        BY <2>4, <3>2 DEF Keeps, OwnCopy
      <4>2. Agrees(op.kind, op.version, "answered", deployments[id])
        BY <2>4, <4>1 DEF Keeps
      <4>3. deployments[id] \in Deployment \cup {Absent}
        BY DEF IInv, TypeOK
      <4> QED
        BY <2>2, <4>1, <4>2, <4>3, AgreesTells
    <3> QED
      BY <1>1, <3>1, <3>2
  <2> QED
    BY <1>1, <2>1, <2>2, <2>3, <2>4, OperationTruth
<1> QED
  BY <1>1, <1>2, <1>3 DEF WriteBackIfPresent

-----------------------------------------------------------------------------
\* The agent at work makes of the deployment what the operation asks for.
LEMMA AgentTruth ==
  ASSUME IInv, TruthInv, NEW id \in Ids, NEW n \in Slots, AgentStep(id, n)
  PROVE  TruthInv'
<1> DEFINE op == operations[id][n]
<1>1. UNCHANGED <<modules, handed, batch, operations, disturbed>>
      /\ agent[id][n] \in {"working", "applied"}
  BY DEF AgentStep, AgentApplies, AgentAnswers, AgentFails, KeepAgent
<1>2. PICK a \in {"applied", "answered", "failed"} :
        /\ agent' = [agent EXCEPT ![id][n] = a]
        /\ \/ a = "applied" /\ AgentApplies(id, n)
           \/ a = "answered" /\ AgentAnswers(id, n)
           \/ a = "failed" /\ AgentFails(id, n)
  BY DEF AgentStep, AgentApplies, AgentAnswers, AgentFails
<1>3. op # Absent
  BY <1>1 DEF IInv, Held
<1>4. op.kind \in Kinds /\ op.version \in Versions /\ deployments[id] \in Deployment \cup {Absent}
  BY <1>3, OperationFields DEF IInv, TypeOK
<1>5. agent'[id][n] = a /\ \A i \in Ids, m \in Slots : i # id \/ m # n => agent'[i][m] = agent[i][m]
  BY <1>2 DEF IInv, TypeOK
<1>6. \A i \in Ids \ {id} : agent'[i] = agent[i]
  BY <1>2 DEF IInv, TypeOK
<1>7. /\ \A i \in Ids \ {id} : deployments'[i] = deployments[i]
      /\ deployments'[id] = IF a = "applied" THEN Effect(op.kind, op.version, deployments[id])
                            ELSE deployments[id]
  <2>1. CASE a = "applied"
    BY <1>2, <2>1 DEF AgentApplies, IInv, TypeOK
  <2>2. CASE a # "applied"
    BY <1>2, <2>2 DEF AgentAnswers, AgentFails
  <2> QED
    BY <2>1, <2>2
<1>8. BusyAt(id, n) /\ Busy(id)
  BY <1>1 DEF BusyAt, Busy, AtAgent
<1>9. \A m \in Slots : BusyAt(id, m)' => BusyAt(id, m)
  BY <1>1, <1>5, <1>8 DEF BusyAt, AtPanel, AtAgent
<1>10. Truth(id) /\ SentBack(id) /\ \A i \in Ids : Settled(i)' <=> Settled(i)
  BY <1>1 DEF TruthInv, Settled, Processing
<1>11. Truth(id)'
  <2> SUFFICES ASSUME Settled(id)
               PROVE  Truth(id)'
    BY <1>10 DEF Truth
  <2>1. \A m \in Slots : BusyAt(id, m) => m = n
    BY <1>8, <1>10 DEF Truth
  <2>2. Keeps(id, n) /\ ~ InStates(modules[id], TellingStates)
    BY <1>8, <1>10 DEF Truth
  <2>3. OwnCopy(op, agent'[id][n], modules'[id])
    BY <1>1, <1>5, <2>2 DEF OwnCopy, Keeps
  <2>4. Agrees(op.kind, op.version, a, deployments'[id])
    <3>0. Agrees(op.kind, op.version, agent[id][n], deployments[id])
      BY <2>2 DEF Keeps
    <3>1. CASE a = "applied"
      BY <1>1, <1>4, <1>7, <3>0, <3>1 DEF Agrees, Effect, Deployment
    <3>2. CASE a = "answered"
      <4>1. Reached(op.kind, deployments[id]) /\ agent[id][n] = "applied"
        BY <1>2, <3>2 DEF AgentAnswers
      <4> QED
        BY <1>7, <3>0, <3>2, <4>1 DEF Agrees
    <3>3. CASE a = "failed"
      BY <1>7, <3>0, <3>3 DEF Agrees
    <3> QED
      BY <3>1, <3>2, <3>3
  <2>5. Keeps(id, n)'
    BY <1>1, <1>5, <2>3, <2>4 DEF Keeps
  <2>6. Tells(modules'[id], deployments'[id]) /\ ~ InStates(modules'[id], TellingStates)
    BY <1>1, <2>2 DEF InStates, Tells, TellingStates
  <2> QED
    BY <1>9, <2>1, <2>5, <2>6 DEF Truth
<1>12. SentBack(id)'
  BY <1>1, <1>10 DEF SentBack
<1> QED
  BY <1>1, <1>6, <1>7, <1>10, <1>11, <1>12, OnlyAbout

-----------------------------------------------------------------------------
\* An operation that is launched on a module at rest is the only one at work on it.
LEMMA LaunchTruth ==
  ASSUME IInv, TruthInv, NEW id \in Ids, NEW kind \in Kinds, NEW version \in Versions,
         Launch(id, kind, version),
         \A i \in Ids : handed'[i] \subseteq handed[i],
         \A i \in Ids \ {id} : Settled(i)' => Settled(i),
         Settled(id)' =>
           /\ ~ Busy(id)
           /\ kind \in {"restart", "stop"} =>
                deployments[id] = Absent \/ deployments[id].version = version
  PROVE  TruthInv'
<1> DEFINE r == [state |-> StartedState[kind], version |-> version]
           o == [phase |-> "queued", kind |-> kind, version |-> version, copy |-> Absent]
<1>1. \/ \E n \in Slots : operations[id][n] = Absent /\ operations' = [operations EXCEPT ![id][n] = o]
      \/ UNCHANGED operations
  BY DEF Launch
<1>2. modules' = [modules EXCEPT ![id] = r] /\ UNCHANGED <<agent, deployments>>
  BY DEF Launch, Put
<1>3. InStates(r, StartedStates)
  <2>1. r \in Record /\ r.state = StartedState[kind]
    BY StatesOfKind DEF Record
  <2> HIDE DEF r
  <2> QED
    BY <2>1, AbsentAssumption, StatesAreApart DEF InStates
<1> HIDE DEF r, o
<1>4. modules'[id] = r /\ \A i \in Ids \ {id} : modules'[i] = modules[i]
  BY <1>2 DEF IInv, TypeOK
<1>5. ~ InStates(r, WorkingStates) /\ ~ InStates(r, TellingStates)
  BY <1>3, StatesAreApart DEF InStates
<1>6. Tells(modules'[id], deployments'[id])
  BY <1>4, <1>5 DEF InStates, Tells, TellingStates
<1>7. SentBack(id)'
  BY DEF TruthInv, SentBack
<1>8. ASSUME NEW n \in Slots, operations[id][n] = Absent, operations' = [operations EXCEPT ![id][n] = o]
      PROVE  TruthInv'
  <2>1. /\ operations'[id][n] = o
        /\ \A m \in Slots \ {n} : operations'[id][m] = operations[id][m]
        /\ \A i \in Ids \ {id} : operations'[i] = operations[i]
    BY <1>8 DEF IInv, TypeOK
  <2>2. agent[id][n] = "none"
    BY <1>8 DEF IInv, Held
  <2>3. \A m \in Slots \ {n} : BusyAt(id, m)' => BusyAt(id, m)
    BY <1>2, <2>1 DEF BusyAt, AtPanel, AtAgent
  <2>4. Truth(id)'
    <3> SUFFICES ASSUME Settled(id)'
                 PROVE  Truth(id)'
      BY DEF Truth
    <3>1. \A m \in Slots : BusyAt(id, m)' => m = n
      BY <2>3 DEF Busy, BusyAt
    <3>2. OwnCopy(operations'[id][n], agent'[id][n], modules'[id])
      BY <1>4, <1>5, <2>1 DEF OwnCopy, o
    <3>3. Agrees(kind, version, "none", deployments[id])
      BY DEF Agrees
    <3>4. Keeps(id, n)'
      BY <1>2, <2>1, <2>2, <3>2, <3>3 DEF Keeps, o
    <3> QED
      BY <1>4, <1>5, <1>6, <3>1, <3>4 DEF Truth
  <2> QED
    BY <1>2, <1>4, <1>7, <2>1, <2>4, OnlyAbout
<1>9. CASE UNCHANGED operations
  <2>1. Truth(id)'
    <3> SUFFICES ASSUME Settled(id)'
                 PROVE  Truth(id)'
      BY DEF Truth
    <3>1. \A m \in Slots : ~ BusyAt(id, m)'
      BY <1>2, <1>9 DEF Busy, BusyAt, AtPanel, AtAgent
    <3> QED
      BY <1>4, <1>5, <1>6, <3>1 DEF Truth
  <2> QED
    BY <1>2, <1>4, <1>7, <1>9, <2>1, OnlyAbout
<1> QED
  BY <1>1, <1>8, <1>9

\* A step that puts one record, which tells the truth and is not in progress, and
\* touches no operation.
LEMMA PutTruth ==
  ASSUME IInv, TruthInv, NEW id \in Ids, NEW r \in NoRecord, Put(id, r),
         UNCHANGED <<operations, agent, deployments>>,
         \A i \in Ids \ {id} : handed'[i] \subseteq handed[i],
         \A i \in Ids : Settled(i)' => Settled(i),
         ~ InStates(r, WorkingStates),
         InStates(r, TellingStates) /\ Settled(id)' => ~ Busy(id),
         Settled(id)' => Tells(r, deployments[id]),
         SentBack(id)'
  PROVE  TruthInv'
<1>1. modules'[id] = r /\ \A i \in Ids \ {id} : modules'[i] = modules[i]
  BY DEF Put, IInv, TypeOK
<1>2. /\ \A n \in Slots : BusyAt(id, n)' <=> BusyAt(id, n)
      /\ Busy(id)' <=> Busy(id)
  BY DEF BusyAt, Busy, AtPanel, AtAgent
<1>3. Truth(id)'
  <2> SUFFICES ASSUME Settled(id)'
               PROVE  Truth(id)'
    BY DEF Truth
  <2>1. Truth(id)
    BY DEF TruthInv
  <2>2. ASSUME NEW n \in Slots, Keeps(id, n)
        PROVE  Keeps(id, n)'
    BY <1>1, <2>2 DEF Keeps, OwnCopy
  <2> QED
    BY <1>1, <1>2, <2>1, <2>2 DEF Truth
<1> QED
  BY <1>1, <1>3, OnlyAbout

\* A record that starts something tells nothing.
LEMMA StartedTellsNothing ==
  ASSUME NEW kind \in Kinds, NEW version \in Versions, NEW d
  PROVE  LET r == [state |-> StartedState[kind], version |-> version]
         IN  /\ r \in Record /\ ~ InStates(r, WorkingStates) /\ ~ InStates(r, TellingStates)
             /\ Tells(r, d)
<1> DEFINE r == [state |-> StartedState[kind], version |-> version]
<1>1. r \in Record /\ r.state \in StartedStates
  BY StatesOfKind, StatesAreApart DEF Record
<1> HIDE DEF r
<1>2. ~ InStates(r, WorkingStates) /\ ~ InStates(r, TellingStates)
  BY <1>1, StatesAreApart DEF InStates
<1>3. Tells(r, d)
  BY <1>2 DEF InStates, Tells, TellingStates
<1> QED
  BY <1>1, <1>2, <1>3 DEF r

\* What the launch of an operation makes of what is settled.
LEMMA DisturbsTells ==
  ASSUME IInv, NEW id \in Ids, NEW kind, NEW stale \in BOOLEAN, UNCHANGED batch,
         disturbed' = [disturbed EXCEPT ![id] = Disturbs(id, kind, stale)]
  PROVE  /\ \A i \in Ids \ {id} : Settled(i)' <=> Settled(i)
         /\ Settled(id)' => ~ Busy(id) /\ ~ stale /\ ~ Processing(id)
         /\ Settled(id)' /\ kind \notin {"install", "update"} => Settled(id)
<1> DEFINE b == Disturbs(id, kind, stale)
<1>1. b <=> Busy(id) \/ stale \/ (disturbed[id] /\ kind \notin {"install", "update"})
  BY DEF Disturbs
<1> HIDE DEF b
<1>2. disturbed' = [disturbed EXCEPT ![id] = b]
  BY DEF b
<1>3. disturbed'[id] = b /\ \A i \in Ids \ {id} : disturbed'[i] = disturbed[i]
  BY <1>2, Zenon DEF IInv, TypeOK
<1>4. \A i \in Ids : Processing(i)' <=> Processing(i)
  BY DEF Processing
<1> QED
  BY <1>1, <1>3, <1>4 DEF Settled

\* What a user does to a module.
LEMMA UserTruth ==
  ASSUME IInv, TruthInv, NEW id \in Ids, UserStep(id)
  PROVE  TruthInv'
<1>1. Truth(id) /\ SentBack(id)
  BY DEF TruthInv
<1>2. ASSUME UNCHANGED <<batch, disturbed>>
      PROVE  \A i \in Ids : Settled(i)' <=> Settled(i)
  BY <1>2 DEF Settled, Processing
<1>3. ASSUME NEW v \in Versions, CallInstall(id, v)
      PROVE  TruthInv'
  <2> DEFINE r == [state |-> StartedState["install"], version |-> v]
  <2>1. "install" \in Kinds /\ StartedState["install"] = "INSTALLATION_STARTED"
    BY DEF Kinds, StartedState
  <2>2. handed' = [handed EXCEPT ![id] = {<<"install", v>>}] /\ Put(id, r)
        /\ UNCHANGED <<batch, operations, agent, deployments, disturbed>>
    BY <1>3, <2>1 DEF CallInstall
  <2>3. r \in Record /\ ~ InStates(r, WorkingStates) /\ ~ InStates(r, TellingStates)
        /\ Tells(r, deployments[id])
    BY <2>1, StartedTellsNothing
  <2> HIDE DEF r
  <2>4. handed'[id] = {<<"install", v>>} /\ \A i \in Ids \ {id} : handed'[i] = handed[i]
    BY <2>2 DEF IInv, TypeOK
  <2>5. SentBack(id)'
    BY <2>4 DEF SentBack
  <2> QED
    BY <1>2, <2>2, <2>3, <2>4, <2>5, PutTruth
<1>4. CASE CallProcess(id)
  <2> DEFINE stale(h) == modules[id] # [state |-> StartedState[h[1]], version |-> h[2]]
  <2>1. PICK h \in handed[id] :
          /\ Launch(id, h[1], h[2])
          /\ disturbed' = [disturbed EXCEPT ![id] = Disturbs(id, h[1], stale(h))]
          /\ handed' = [handed EXCEPT ![id] = handed[id] \ {h}]
          /\ UNCHANGED <<call, batch>>
    BY <1>4 DEF CallProcess, IInv, TypeOK
  <2>2. h[1] \in {"install", "update"} /\ h[1] \in Kinds /\ h[2] \in Versions
    BY <1>1 DEF SentBack, IInv, TypeOK
  <2>3. \A i \in Ids : handed'[i] \subseteq handed[i]
    BY <2>1 DEF IInv, TypeOK
  <2>4. stale(h) \in BOOLEAN
    OBVIOUS
  <2> HIDE DEF stale
  <2>5. (\A i \in Ids \ {id} : Settled(i)' <=> Settled(i)) /\ (Settled(id)' => ~ Busy(id))
    BY <2>1, <2>4, DisturbsTells
  <2> QED
    BY <2>1, <2>2, <2>3, <2>5, LaunchTruth
<1>5. CASE CallDelete(id)
  <2>1. Put(id, Absent) /\ UNCHANGED <<handed, batch, operations, agent, deployments, disturbed>>
    BY <1>5 DEF CallDelete
  <2>2. ~ InStates(Absent, WorkingStates) /\ ~ InStates(Absent, TellingStates)
        /\ Tells(Absent, deployments[id])
    BY DEF InStates, Tells
  <2>3. SentBack(id)'
    BY <1>1, <2>1 DEF SentBack
  <2> QED
    BY <1>2, <2>1, <2>2, <2>3, PutTruth
<1>6. CASE DeleteHome(id) \/ \E t \in Callers, b \in Buttons : Click(t, id, b)
  BY <1>2, <1>6, NothingTruth DEF DeleteHome, Click
<1> QED
  BY <1>3, <1>4, <1>5, <1>6 DEF UserStep

\* What a thread does for a call about one module.
LEMMA CallTruth ==
  ASSUME IInv, TruthInv, NEW t \in Callers,
         CallRead(t) \/ CallPut(t) \/ \E v \in Versions : CallPutUpdate(t, v)
  PROVE  TruthInv'
<1> DEFINE c == call[t]
<1>1. c \in Calls /\ HeldCall(c) /\ c.id \in Ids /\ c.button \in Buttons
  BY CallFields DEF CallRead, CallPut, CallPutUpdate, HeldCall
<1>2. PICK id \in Ids : id = c.id
  BY <1>1
<1>3. Truth(id) /\ SentBack(id)
  BY DEF TruthInv
<1>4. ASSUME UNCHANGED <<batch, disturbed>>
      PROVE  \A i \in Ids : Settled(i)' <=> Settled(i)
  BY <1>4 DEF Settled, Processing
<1>5. CASE CallRead(t)
  BY <1>4, <1>5, NothingTruth DEF CallRead
<1>6. CASE CallPut(t)
  <2> DEFINE kind == KindOf[c.button]
             stale == modules[id] # c.copy \/ ~ Offers(c.copy.state, c.button)
  <2>1. c.pc = "put" /\ Launch(id, kind, c.copy.version)
        /\ disturbed' = [disturbed EXCEPT ![id] = Disturbs(id, kind, stale)]
        /\ UNCHANGED <<handed, batch>>
    BY <1>2, <1>6 DEF CallPut
  <2>2. kind \in Kinds /\ (kind \in {"restart", "stop"} => c.button \in {"restart", "stop"})
    BY <1>1, KindOfButton DEF Buttons, KindOf
  <2>3. c.copy \in Record /\ c.copy # Absent /\ c.copy.version \in Versions
    BY <1>1, <2>1, AbsentAssumption DEF HeldCall, Record
  <2>4. stale \in BOOLEAN
    OBVIOUS
  <2> HIDE DEF kind, stale
  <2>5. /\ \A i \in Ids \ {id} : Settled(i)' <=> Settled(i)
        /\ Settled(id)' => ~ Busy(id) /\ ~ stale
        /\ Settled(id)' /\ kind \in {"restart", "stop"} => Settled(id)
    BY <2>1, <2>4, DisturbsTells
  <2>6. ASSUME Settled(id)', kind \in {"restart", "stop"}
        PROVE  deployments[id] = Absent \/ deployments[id].version = c.copy.version
    <3>1. modules[id] = c.copy /\ Offers(c.copy.state, c.button) /\ c.button \in {"restart", "stop"}
      BY <2>2, <2>5, <2>6 DEF stale
    <3>2. c.copy.state \in {"RUN", "STOPPED"}
      BY <3>1 DEF Offers, Menu
    <3>3. Tells(c.copy, deployments[id])
      BY <1>3, <2>5, <2>6, <3>1 DEF Truth
    <3> QED
      BY <2>3, <3>2, <3>3 DEF Tells
  <2> QED
    BY <2>1, <2>2, <2>3, <2>5, <2>6, LaunchTruth
<1>7. ASSUME NEW v \in Versions, CallPutUpdate(t, v)
      PROVE  TruthInv'
  <2> DEFINE r == [state |-> StartedState["update"], version |-> v]
  <2>1. "update" \in Kinds /\ StartedState["update"] = "UPDATE_STARTED"
    BY DEF Kinds, StartedState
  <2>2. Put(id, r) /\ handed' = [handed EXCEPT ![id] = handed[id] \cup {<<"update", v>>}]
        /\ UNCHANGED <<batch, operations, agent, deployments, disturbed>>
    BY <1>2, <1>7, <2>1 DEF CallPutUpdate, IInv, TypeOK
  <2>3. r \in Record /\ ~ InStates(r, WorkingStates) /\ ~ InStates(r, TellingStates)
        /\ Tells(r, deployments[id])
    BY <2>1, StartedTellsNothing
  <2> HIDE DEF r
  <2>4. handed'[id] = handed[id] \cup {<<"update", v>>} /\ \A i \in Ids \ {id} : handed'[i] = handed[i]
    BY <2>2 DEF IInv, TypeOK
  <2>5. SentBack(id)'
    BY <1>3, <2>4 DEF SentBack
  <2> QED
    BY <1>4, <2>2, <2>3, <2>4, <2>5, PutTruth
<1> QED
  BY <1>5, <1>6, <1>7

-----------------------------------------------------------------------------
\* A thread that goes on with one module of its request, or ends it, leaves those of
\* other threads, and of its own all but that one and those left behind.
LEMMA MarkTells ==
  ASSUME IInv, NEW t \in Callers, NEW id \in Ids, NEW item \in Items, Mark(t, id, item)
  PROVE  /\ \A i \in Ids \ {id} : Processing(i)' <=> Processing(i)
         /\ item.stage = "put" => Processing(id)'
         /\ batch[t][id].stage # "put" => (Processing(id) => Processing(id)')
<1>1. /\ batch'[t][id] = item /\ \A i \in Ids \ {id} : batch'[t][i] = batch[t][i]
      /\ \A u \in Callers \ {t} : batch'[u] = batch[u]
  BY DEF Mark, IInv, TypeOK
<1> QED
  BY <1>1 DEF Processing

LEMMA EndsTells ==
  ASSUME IInv, NEW t \in Callers, Ends(t)
  PROVE  \A i \in Ids : Processing(i) => Processing(i)' \/ LeftBehind(t, i)
<1>1. \A u \in Callers \ {t} : batch'[u] = batch[u]
  BY DEF Ends, IInv, TypeOK
<1> QED
  BY <1>1 DEF Processing, LeftBehind

\* The request that names many modules: what it puts tells nothing until it is processed,
\* and is disturbed when it is not.
LEMMA BatchTruth ==
  ASSUME IInv, TruthInv, NEW t \in Callers,
         \/ VersionThrows(t) \/ VersionsDone(t)
         \/ \E id \in Ids : VersionRead(t, id) \/ VersionPut(t, id) \/ VersionProcess(t, id)
  PROVE  TruthInv'
<1>0. NoItem \in Items /\ NoItem.stage = "none"
  BY DEF NoItem, Items
<1>1. CASE VersionThrows(t)
  <2>1. Ends(t) /\ UNCHANGED <<modules, operations, agent, deployments, handed>>
        /\ \A i \in Ids : disturbed'[i] <=> disturbed[i] \/ LeftBehind(t, i)
    BY <1>1 DEF VersionThrows
  <2>2. \A i \in Ids : Settled(i)' => Settled(i)
    BY <2>1, EndsTells DEF Settled
  <2> QED
    BY <2>1, <2>2, NothingTruth
<1>2. CASE VersionsDone(t)
  <2>1. Ends(t) /\ UNCHANGED <<modules, operations, agent, deployments, handed, disturbed>>
        /\ \A i \in Ids : ~ LeftBehind(t, i)
    BY <1>2 DEF VersionsDone, None, LeftBehind
  <2>2. \A i \in Ids : Settled(i)' => Settled(i)
    BY <2>1, EndsTells DEF Settled
  <2> QED
    BY <2>1, <2>2, NothingTruth
<1>3. ASSUME NEW id \in Ids, VersionRead(t, id)
      PROVE  TruthInv'
  <2> DEFINE read == [stage |-> "read", copy |-> modules[id]]
             item == IF modules[id].state = "RUN" THEN read ELSE NoItem
  <2>1. /\ batch[t][id].stage = "named"
        /\ Ends(t) \/ Mark(t, id, item)
        /\ UNCHANGED <<modules, operations, agent, deployments, handed, disturbed>>
    BY <1>3 DEF VersionRead
  <2>2. item \in Items
    BY <1>0 DEF Items, IInv, TypeOK
  <2> HIDE DEF item
  <2>3. \A i \in Ids : ~ LeftBehind(t, i)
    BY <2>1, CallFields DEF HeldBatch, LeftBehind
  <2>4. ASSUME NEW i \in Ids PROVE Settled(i)' => Settled(i)
    <3>1. CASE Ends(t)
      BY <2>1, <2>3, <3>1, EndsTells DEF Settled
    <3>2. CASE Mark(t, id, item)
      BY <2>1, <2>2, <3>2, MarkTells DEF Settled
    <3> QED
      BY <2>1, <3>1, <3>2
  <2> QED
    BY <2>1, <2>4, NothingTruth
<1>4. ASSUME NEW id \in Ids, VersionPut(t, id)
      PROVE  TruthInv'
  <2> DEFINE r == call[t].copy
             item == [stage |-> "put", copy |-> r]
             b == disturbed[id] \/ modules[id] # batch[t][id].copy
  <2>1. /\ batch[t][id].stage = "read" /\ Put(id, r) /\ Mark(t, id, item)
        /\ UNCHANGED <<handed, operations, agent, deployments>>
    BY <1>4 DEF VersionPut
  <2>2. r \in Record /\ r.state = "RUN"
    BY <2>1, BatchFields
  <2>3. item \in Items /\ item.stage = "put"
    BY <2>2 DEF Items
  <2> HIDE DEF item
  <2>4. disturbed' = [disturbed EXCEPT ![id] = b]
    BY <1>4 DEF VersionPut, IInv, TypeOK
  <2> HIDE DEF b
  <2>5. \A i \in Ids \ {id} : disturbed'[i] = disturbed[i]
    BY <2>4, Zenon DEF IInv, TypeOK
  <2>6. ~ Settled(id)' /\ \A i \in Ids \ {id} : Settled(i)' <=> Settled(i)
    BY <2>1, <2>3, <2>5, MarkTells DEF Settled
  <2> HIDE DEF r
  <2>7. ~ InStates(r, WorkingStates)
    BY <2>2, StatesAreApart DEF InStates, TellingStates
  <2>8. SentBack(id)'
    BY <2>1 DEF TruthInv, SentBack
  <2>9. \A i \in Ids : Settled(i)' => Settled(i)
    BY <2>6
  <2> QED
    BY <2>1, <2>2, <2>6, <2>7, <2>8, <2>9, PutTruth
<1>5. ASSUME NEW id \in Ids, VersionProcess(t, id)
      PROVE  TruthInv'
  <2> DEFINE stale == modules[id] # batch[t][id].copy
             f == [i \in Ids |-> IF i = id THEN Disturbs(id, "update", stale)
                                 ELSE disturbed[i] \/ (~ manager[id] /\ LeftBehind(t, i))]
  <2>1. /\ batch[t][id].stage = "put" /\ Launch(id, "update", call[t].copy.version)
        /\ disturbed' = f /\ UNCHANGED handed
        /\ \/ manager[id] /\ Mark(t, id, NoItem)
           \/ ~ manager[id] /\ Ends(t)
    BY <1>5 DEF VersionProcess
  <2>2. /\ f[id] <=> Disturbs(id, "update", stale)
        /\ \A i \in Ids \ {id} : f[i] <=> disturbed[i] \/ (~ manager[id] /\ LeftBehind(t, i))
    OBVIOUS
  <2> HIDE DEF f
  <2>3. Settled(id)' => ~ Busy(id)
    BY <2>1, <2>2 DEF Settled, Disturbs
  <2>4. ASSUME NEW i \in Ids \ {id} PROVE Settled(i)' => Settled(i)
    <3>1. disturbed'[i] <=> disturbed[i] \/ (~ manager[id] /\ LeftBehind(t, i))
      BY <2>1, <2>2
    <3>2. CASE manager[id] /\ Mark(t, id, NoItem)
      <4>1. Processing(i)' <=> Processing(i)
        BY <1>0, <3>2, MarkTells
      <4> QED
        BY <3>1, <4>1 DEF Settled
    <3>3. CASE ~ manager[id] /\ Ends(t)
      <4>1. Processing(i) => Processing(i)' \/ LeftBehind(t, i)
        BY <3>3, EndsTells
      <4> QED
        BY <3>1, <3>3, <4>1 DEF Settled
    <3> QED
      BY <2>1, <3>2, <3>3
  <2>5. "update" \in Kinds /\ call[t].copy.version \in Versions
    BY <2>1, BatchFields DEF Kinds
  <2> QED
    BY <2>1, <2>3, <2>4, <2>5, LaunchTruth
<1> QED
  BY <1>1, <1>2, <1>3, <1>4, <1>5

LEMMA VersionsTruth ==
  ASSUME IInv, TruthInv, NEW t \in Callers, NEW ids \in SUBSET Ids, NEW v \in Versions,
         CallVersions(t, ids, v)
  PROVE  TruthInv'
<1>1. UNCHANGED <<modules, operations, agent, deployments, handed, disturbed>>
      /\ (\A u \in Callers \ {t} : batch'[u] = batch[u])
      /\ call[t].pc # "batch"
  BY IdleIsCall DEF CallVersions, IInv, TypeOK
<1>2. \A i \in Ids : Processing(i) => Processing(i)'
  BY <1>1, CallFields DEF Processing, HeldBatch
<1> QED
  BY <1>1, <1>2, NothingTruth DEF Settled

-----------------------------------------------------------------------------
\* A crash takes the calls and the panel's operations and leaves the agents at work.
LEMMA CrashTruth ==
  ASSUME IInv, TruthInv, Crash
  PROVE  TruthInv'
<1> SUFFICES ASSUME NEW id \in Ids PROVE Truth(id)' /\ SentBack(id)'
  BY DEF TruthInv
<1> DEFINE over(n) == [phase |-> "done", kind |-> operations[id][n].kind,
                       version |-> operations[id][n].version, copy |-> Absent]
<1>0. ASSUME NEW n \in Slots
      PROVE  /\ operations[id][n] = Absent => operations'[id][n] = Absent
             /\ operations[id][n] # Absent =>
                  /\ operations'[id][n].phase = "done"
                  /\ operations'[id][n].kind = operations[id][n].kind
                  /\ operations'[id][n].version = operations[id][n].version
  <2>1. over(n).phase = "done" /\ over(n).kind = operations[id][n].kind
        /\ over(n).version = operations[id][n].version
    OBVIOUS
  <2> HIDE DEF over
  <2>2. operations'[id][n] = IF operations[id][n] = Absent THEN Absent ELSE over(n)
    BY DEF Crash, over
  <2>3. CASE operations[id][n] = Absent
    BY <2>2, <2>3
  <2>4. CASE operations[id][n] # Absent
    <3>1. operations'[id][n] = over(n)
      BY <2>2, <2>4
    <3> QED
      BY <2>1, <2>4, <3>1
  <2> QED
    BY <2>3, <2>4
<1> HIDE DEF over
<1>1. Truth(id) /\ SentBack(id)
  BY DEF TruthInv
<1>2. UNCHANGED <<modules, handed, agent, deployments>>
  BY DEF Crash
<1>3. Settled(id)' => Settled(id)
  BY DEF Crash, Settled
<1>4. \A n \in Slots : BusyAt(id, n)' => BusyAt(id, n) /\ AtAgent(id, n)
  <2>1. \A n \in Slots : operations'[id][n] # Absent => operations'[id][n].phase = "done"
    BY <1>0
  <2>2. \A n \in Slots : ~ AtPanel(id, n)' /\ (AtAgent(id, n)' <=> AtAgent(id, n))
    BY <1>2, <2>1 DEF AtPanel, AtAgent
  <2> QED
    BY <2>2 DEF BusyAt
<1>5. \A n \in Slots : BusyAt(id, n)' /\ Keeps(id, n) => Keeps(id, n)'
  <2> SUFFICES ASSUME NEW n \in Slots, BusyAt(id, n)', Keeps(id, n)
               PROVE  Keeps(id, n)'
    OBVIOUS
  <2>1. operations[id][n] # Absent
    BY <1>4 DEF AtAgent, IInv, Held
  <2>2. /\ operations'[id][n].phase = "done"
        /\ operations'[id][n].kind = operations[id][n].kind
        /\ operations'[id][n].version = operations[id][n].version
    BY <1>0, <2>1
  <2> QED
    BY <1>2, <2>2 DEF Keeps, OwnCopy
<1>6. Busy(id)' => Busy(id)
  BY <1>4 DEF Busy, BusyAt
<1>7. Truth(id)'
  <2> SUFFICES ASSUME Settled(id)' PROVE Truth(id)'
    BY DEF Truth
  <2> QED
    BY <1>1, <1>2, <1>3, <1>4, <1>5, <1>6 DEF Truth
<1>8. SentBack(id)'
  BY <1>1, <1>2 DEF SentBack
<1> QED
  BY <1>7, <1>8

LEMMA SweepTruth ==
  ASSUME IInv, TruthInv, SweepStep
  PROVE  TruthInv'
<1>1. UNCHANGED <<handed, batch, operations, agent, deployments>>
  BY DEF SweepStep, SweepRead, SweepPut, SweepDone
<1>2. CASE SweepRead \/ SweepDone
  BY <1>1, <1>2, NothingTruth DEF SweepRead, SweepDone, Settled, Processing
<1>3. ASSUME NEW id \in Ids, SweepPut(id)
      PROVE  TruthInv'
  <2> DEFINE r == WithState(found[id], "INVALID")
             b == disturbed[id] \/ modules[id] # found[id]
  <2>1. r \in Record /\ r.state = "INVALID"
    BY <1>3, WithStateIsRecord DEF SweepPut, RestStates, IInv, TypeOK
  <2>2. Put(id, r) /\ disturbed' = [disturbed EXCEPT ![id] = b]
    BY <1>3 DEF SweepPut, IInv, TypeOK
  <2> HIDE DEF r
  <2>3. \A i \in Ids : disturbed[i] => disturbed'[i]
    <3>1. disturbed[id] => b
      OBVIOUS
    <3> HIDE DEF b
    <3> QED
      BY <2>2, <3>1, Zenon DEF IInv, TypeOK
  <2>4. \A i \in Ids : Settled(i)' => Settled(i)
    BY <1>1, <2>3 DEF Settled, Processing
  <2>5. ~ InStates(r, WorkingStates) /\ ~ InStates(r, TellingStates)
    BY <2>1, StatesAreApart DEF InStates
  <2>6. Tells(r, deployments[id])
    BY <2>5 DEF InStates, Tells, TellingStates
  <2>7. SentBack(id)'
    BY <1>1 DEF TruthInv, SentBack
  <2> QED
    BY <1>1, <2>1, <2>2, <2>4, <2>5, <2>6, <2>7, PutTruth
<1> QED
  BY <1>2, <1>3 DEF SweepStep

LEMMA StepTruth == IInv /\ TruthInv /\ [Next]_vars => TruthInv'
<1> SUFFICES ASSUME IInv, TruthInv, [Next]_vars PROVE TruthInv'
  OBVIOUS
<1>1. ASSUME NEW id \in Ids, UserStep(id) PROVE TruthInv'
  BY <1>1, UserTruth
<1>2. ASSUME NEW t \in Callers, CallStep(t) PROVE TruthInv'
  BY <1>2, CallTruth, BatchTruth DEF CallStep
<1>3. ASSUME NEW t \in Callers, NEW ids \in SUBSET Ids \ {{}}, NEW v \in Versions,
             CallVersions(t, ids, v)
      PROVE  TruthInv'
  BY <1>3, VersionsTruth
<1>4. ASSUME NEW id \in Ids, NEW n \in Slots,
             PanelStep(id, n) \/ TaskThrows(id, n) \/ StartFails(id, n)
      PROVE  TruthInv'
  BY <1>4, StartTruth, FailureTruth, WorkingPutTruth, LastPutTruth DEF PanelStep
<1>5. ASSUME NEW id \in Ids, NEW n \in Slots, StreamStep(id, n) PROVE TruthInv'
  BY <1>5, StreamTruth
<1>6. ASSUME NEW id \in Ids, NEW n \in Slots, AgentStep(id, n) PROVE TruthInv'
  BY <1>6, AgentTruth
<1>7. CASE SweepStep \/ Crash
  BY <1>7, SweepTruth, CrashTruth
<1>8. CASE UNCHANGED vars \/ SweepSkipped
  BY <1>8, NothingTruth DEF vars, recovery, SweepSkipped, Settled, Processing
<1> QED
  BY <1>1, <1>2, <1>3, <1>4, <1>5, <1>6, <1>7, <1>8 DEF Next

\* For any number of callers: the record tells the truth about OpenShift through every put
\* of ModuleService and of ModuleManagementService's handlers, the agent's late work,
\* crashes and sweeps, as long as no operation overlapped another, no stale record was put
\* and updateModulesVersion got through with what it had put.
THEOREM RecordTellsTruth == Spec => []RecordIsTrue
<1>1. Init => IInv /\ TruthInv
  BY InitInv, InitTruth
<1>2. (IInv /\ TruthInv) /\ [Next]_vars => (IInv /\ TruthInv)'
  BY StepPreserves, StepTruth
<1> QED
  BY <1>1, <1>2, TruthGives, PTL DEF Spec
=============================================================================
