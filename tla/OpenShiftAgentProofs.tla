-------------------------- MODULE OpenShiftAgentProofs --------------------------
(***************************************************************************)
(* Proofs about the agent of one name, for any threads, bounds and faults. *)
(*                                                                         *)
(* First, that two starts are never under way at once: the property is     *)
(* inductive beside the type of pc and lock, and what a step does to the   *)
(* cloud or to the history has no part in it.                              *)
(*                                                                         *)
(* Then, what starts and stops leave: that a start repairs, that what was  *)
(* handed out stays, that a stop clears.  They are proved together, from   *)
(* what a call knows of the pod and of the service at each of its places   *)
(* when no call of the other kind ran beside it, and from the exclusion:   *)
(* one lemma for each way a call goes on, begins or ends, one for each     *)
(* step of OpenShift and of a crash.                                       *)
(***************************************************************************)
EXTENDS OpenShiftAgent, TLAPS

\* What the argument needs of the types.
Places == pc \in [Threads -> Pcs] /\ lock \in Threads \cup {Nobody}
Inv == Places /\ StartsExclude

\* A thread that holds the lock, or needs none where it goes, moves.
LEMMA MovePreserves ==
  ASSUME Inv, NEW t \in Threads, NEW place \in Pcs, Goto(t, place), lock' = lock,
         (Starting(t) /\ pc[t] # "lock") \/ place \notin StartPcs \/ place = "lock"
  PROVE  Inv'
BY DEF Inv, Places, StartsExclude, Goto, Starting

\* A call ends: a start beyond the lock gives it up, a stop has no lock to give.
LEMMA EndPreserves ==
  ASSUME Inv, NEW t \in Threads, pc[t] # "lock", Goto(t, "idle"),
         lock' = IF Starting(t) THEN Nobody ELSE lock
  PROVE  Inv'
<1>1. pc' \in [Threads -> Pcs] /\ lock' \in Threads \cup {Nobody}
  BY DEF Inv, Places, Goto, Pcs
<1>2. ASSUME NEW u \in Threads, Starting(u)', pc'[u] # "lock"
      PROVE  lock' = u
  <2>1. u # t /\ Starting(u) /\ pc[u] # "lock"
    BY <1>2 DEF Inv, Places, Goto, Starting, StartPcs
  <2>2. lock = u
    BY <2>1 DEF Inv, StartsExclude
  <2>3. ~ Starting(t)
    BY <2>1, <2>2 DEF Inv, StartsExclude
  <2> QED BY <2>2, <2>3
<1> QED BY <1>1, <1>2 DEF Inv, Places, StartsExclude

LEMMA InitInv == Init => Inv
BY DEF Init, Inv, Places, StartsExclude, Starting, StartPcs, Pcs

\* The steps of a start beyond the lock, each a move, an answer or an exception.
LEMMA StartStepPreserves ==
  ASSUME Inv, NEW t \in Threads, StartStep(t)
  PROVE  Inv'
<1> USE DEF Move, Throw, End, Answered
<1>1. CASE Lock(t)
  <2>1. pc' = [pc EXCEPT ![t] = "look"] /\ lock' = t /\ lock = Nobody
    BY <1>1 DEF Lock, Goto
  <2>2. pc' \in [Threads -> Pcs] /\ lock' \in Threads \cup {Nobody}
    BY <2>1 DEF Inv, Places, Pcs, StartPcs
  <2>3. ASSUME NEW u \in Threads, Starting(u)', pc'[u] # "lock"
        PROVE  u = t
    <3>1. SUFFICES ASSUME u # t PROVE FALSE
      OBVIOUS
    <3>2. Starting(u) /\ pc[u] # "lock"
      BY <2>1, <2>3, <3>1 DEF Inv, Places, Starting
    <3> QED BY <2>1, <3>2, ConstantsAssumption DEF Inv, StartsExclude
  <2> QED BY <2>1, <2>2, <2>3 DEF Inv, Places, StartsExclude
<1>2. CASE Look(t)
  BY <1>2, MovePreserves DEF Look, At, Starting, StartPcs, Pcs
<1>3. CASE DropService(t)
  BY <1>3, MovePreserves, EndPreserves
     DEF DropService, FindService, DeleteService, At, Starting, StartPcs, Pcs
<1>4. CASE LookPod(t)
  BY <1>4, MovePreserves, EndPreserves DEF LookPod, At, Starting, StartPcs, Pcs
<1>5. CASE ClearPod(t)
  BY <1>5, MovePreserves, EndPreserves
     DEF ClearPod, FindPod, DeletePod, WaitForPodDeleted, At, Starting, StartPcs, Pcs
<1>6. CASE Serve(t)
  BY <1>6, MovePreserves, EndPreserves
     DEF Serve, FindService, DeleteService, At, Starting, StartPcs, Pcs
<1>7. CASE CreateService(t)
  BY <1>7, MovePreserves, EndPreserves DEF CreateService, At, Starting, StartPcs, Pcs
<1>8. CASE CreatePod(t)
  BY <1>8, MovePreserves, EndPreserves DEF CreatePod, At, Starting, StartPcs, Pcs
<1>9. CASE AwaitReady(t)
  BY <1>9, MovePreserves, EndPreserves DEF AwaitReady, At, Starting, StartPcs, Pcs
<1>10. CASE ReadPorts(t)
  BY <1>10, EndPreserves DEF ReadPorts, At
<1> QED
  BY <1>1, <1>2, <1>3, <1>4, <1>5, <1>6, <1>7, <1>8, <1>9, <1>10 DEF StartStep

\* A stop never touches the lock.
LEMMA StopStepPreserves ==
  ASSUME Inv, NEW t \in Threads, StopStep(t)
  PROVE  Inv'
<1> USE DEF Move, Throw, End
<1>1. CASE StopPod(t)
  BY <1>1, MovePreserves, EndPreserves
     DEF StopPod, FindPod, DeletePod, WaitForPodDeleted, At, StartPcs, StopPcs, Pcs
<1>2. CASE StopService(t)
  BY <1>2, MovePreserves, EndPreserves DEF StopService, Stopped, At, StartPcs, StopPcs, Pcs
<1> QED BY <1>1, <1>2 DEF StopStep

LEMMA NextPreserves == Inv /\ [Next]_vars => Inv'
<1> SUFFICES ASSUME Inv, [Next]_vars PROVE Inv'
  OBVIOUS
<1>1. CASE UNCHANGED vars
  BY <1>1 DEF vars, Inv, Places, StartsExclude, Starting
<1>2. ASSUME NEW t \in Threads, Start(t) PROVE Inv'
  BY <1>2, MovePreserves DEF Start, StartPcs, Pcs
<1>3. ASSUME NEW t \in Threads, Stop(t) PROVE Inv'
  BY <1>3, MovePreserves DEF Stop, StartPcs, StopPcs, Pcs
<1>4. CASE PodChanges
  BY <1>4 DEF PodChanges, Inv, Places, StartsExclude, Starting
<1>5. CASE Crash
  BY <1>5 DEF Crash, Inv, Places, StartsExclude, Starting, StartPcs, Pcs
<1> QED
  BY <1>1, <1>2, <1>3, <1>4, <1>5, StartStepPreserves, StopStepPreserves DEF Next

\* STARTING_LOCK keeps the starts of an agent apart, however they end and however
\* many threads there are: it is released on every way out of start, and by
\* nobody but its holder.
THEOREM LockExcludes == Spec => []StartsExclude
<1>1. Inv => StartsExclude
  BY DEF Inv
<1> QED BY InitInv, NextPreserves, <1>1, PTL DEF Spec

-----------------------------------------------------------------------------
(* What starts and stops meet.  A call that no call of the other kind ran   *)
(* beside finds the pod and the service as it left them; an agent that was  *)
(* handed out is met only by starts that use it again.                      *)

Up == {"new", "ready", "failed"}
Seen == [service : Nat, going : BOOLEAN]

\* What an undisturbed call that is at a place, having seen s, knows of the pod p and of
\* the service n.
Course(place, s, p, n) ==
  /\ place = "lookPod" => s.service = n
  /\ place \in {"dropNow", "serveNow", "createPod", "await", "ports"} => n # 0
  /\ place = "clearPodNow" /\ ~ s.going => p \in Up
  /\ place \in {"clearPodWait", "stopPodWait"} => p \in {NoPod} \cup Going
  /\ place \in {"serve", "serveNow", "createService", "createPod", "stopService", "stopServiceNow"}
       => p \in {NoPod, "slow"}
  /\ place = "createService" => n = 0
  /\ place = "await" => p \in Up
  /\ place = "ports" => p = "ready"

OnCourse(t) == t \notin overlapped => Course(pc[t], seen[t], pod, service)

\* A start and a stop that are under way at once have each been marked.
Apart == \A t, u \in Threads : Starting(t) /\ Stopping(u) => {t, u} \subseteq overlapped

\* A start that finds the agent handed out is on its way to hand it out again.
UsesAgain(t) ==
  \/ pc[t] = "lock"
  \/ pc[t] = "look" /\ reusable
  \/ pc[t] = "lookPod" /\ seen[t].service = service

AnswersHeld ==
  answers # {} =>
    /\ \A number \in answers : number = service
    /\ service # 0 /\ pod \in Up
    /\ \A t \in Threads : ~ Stopping(t) /\ (Starting(t) => UsesAgain(t))

ClearedHeld ==
  cleared => service = 0 /\ pod \in {NoPod, "slow"} /\ \A t \in Threads : ~ Starting(t)

Rest ==
  /\ TypeOK /\ Apart /\ AnswersHeld /\ ClearedHeld /\ StartsSucceed
  /\ \A t \in Threads : OnCourse(t)

LEMMA RestGives == Rest => AnswersStand /\ StopClears /\ StartsSucceed
BY DEF Rest, AnswersHeld, AnswersStand, ClearedHeld, StopClears, Up, NoPod

LEMMA InitRest == Init => Rest
<1> SUFFICES ASSUME Init PROVE Rest
  OBVIOUS
<1>1. TypeOK
  BY DEF Init, TypeOK, Pcs, Unseen, PodStates, NoPod
<1> QED
  BY <1>1 DEF Init, Rest, Apart, AnswersHeld, ClearedHeld, StartsSucceed, OnCourse, Course,
              Starting, StartPcs, Stopping, StopPcs, NoPod

\* Who a start beyond the lock has beside it.
LEMMA Beside ==
  ASSUME Inv, Rest, NEW t \in Threads, Starting(t), pc[t] # "lock"
  PROVE  /\ \A u \in Threads \ {t} : Starting(u) => pc[u] = "lock"
         /\ ~ cleared
<1>1. ~ cleared
  BY DEF Rest, ClearedHeld
<1>2. \A u \in Threads \ {t} : Starting(u) => pc[u] = "lock"
  BY DEF Inv, StartsExclude
<1> QED BY <1>1, <1>2

LEMMA Beside2 ==
  ASSUME Inv, Rest, NEW t \in Threads, Starting(t), pc[t] # "lock",
         NEW u \in Threads \ {t}, u \notin overlapped
  PROVE  pc[u] \in {"lock", "idle"}
BY DEF Inv, Places, StartsExclude, Rest, Apart, Pcs, Starting, Stopping

\* A start beyond the lock goes on.
LEMMA StartGoesOn ==
  ASSUME Inv, Rest, NEW t \in Threads, Starting(t), pc[t] # "lock",
         NEW place \in StartPcs \ {"lock"}, Goto(t, place), lock' = lock,
         NEW s \in Seen, seen' = [seen EXCEPT ![t] = s],
         pod' \in PodStates, service' \in Nat, created' \in Nat, UNCHANGED history,
         t \notin overlapped => Course(place, s, pod', service'),
         answers # {} => pod' = pod /\ service' = service /\ place = "lookPod" /\ s.service = service
  PROVE  Rest'
<1>1. /\ pc' = [pc EXCEPT ![t] = place]
      /\ pc \in [Threads -> Pcs] /\ seen \in [Threads -> Seen]
      /\ UNCHANGED <<reusable, begun, overlapped, answers, cleared, unexplained>>
  BY DEF Goto, Rest, TypeOK, Seen, history
<1>2. /\ pc'[t] = place /\ seen'[t] = s /\ Starting(t)' /\ ~ Stopping(t)'
      /\ \A u \in Threads \ {t} : /\ pc'[u] = pc[u] /\ seen'[u] = seen[u]
                                 /\ Starting(u)' = Starting(u) /\ Stopping(u)' = Stopping(u)
  BY <1>1 DEF Starting, Stopping, StartPcs, StopPcs
<1>3. TypeOK'
  <2>1. pc' \in [Threads -> Pcs]
    BY <1>1 DEF Pcs
  <2>2. seen' \in [Threads -> Seen]
    BY <1>1
  <2> QED BY <1>1, <2>1, <2>2 DEF Rest, TypeOK, Seen
<1>4. Apart'
  BY <1>1, <1>2 DEF Rest, Apart
<1>5. ASSUME NEW u \in Threads PROVE OnCourse(u)'
  <2>1. CASE u = t
    BY <1>1, <1>2, <2>1 DEF OnCourse
  <2>2. CASE u # t
    <3> SUFFICES ASSUME u \notin overlapped PROVE OnCourse(u)'
      BY <1>1 DEF OnCourse
    <3>1. pc'[u] \in {"lock", "idle"}
      BY <1>2, <2>2, Beside2
    <3> QED BY <3>1 DEF OnCourse, Course
  <2> QED BY <2>1, <2>2
<1>6. AnswersHeld'
  <2> SUFFICES ASSUME answers # {} PROVE AnswersHeld'
    BY <1>1 DEF AnswersHeld
  <2>1. pod' = pod /\ service' = service /\ place = "lookPod" /\ s.service = service
    OBVIOUS
  <2>2. UsesAgain(t)'
    BY <1>2, <2>1 DEF UsesAgain
  <2>3. \A u \in Threads \ {t} : UsesAgain(u) => UsesAgain(u)'
    BY <1>1, <1>2, <2>1 DEF UsesAgain
  <2> QED BY <1>1, <1>2, <2>1, <2>2, <2>3 DEF Rest, AnswersHeld
<1>7. ClearedHeld'
  BY <1>1, Beside DEF ClearedHeld
<1> QED BY <1>1, <1>3, <1>4, <1>5, <1>6, <1>7 DEF Rest, StartsSucceed

\* A start beyond the lock ends, by an answer or by an exception.
LEMMA StartEnds ==
  ASSUME Inv, Rest, NEW t \in Threads, Starting(t), pc[t] # "lock", End(t),
         cleared' = cleared, unexplained' = FALSE,
         \/ answers' = answers
         \/ /\ answers' = answers \cup {service}
            /\ t \notin overlapped /\ service # 0 /\ pod \in Up
  PROVE  Rest'
<1>1. /\ pc' = [pc EXCEPT ![t] = "idle"] /\ seen' = [seen EXCEPT ![t] = Unseen]
      /\ lock' \in Threads \cup {Nobody} /\ overlapped' = overlapped \ {t}
      /\ UNCHANGED <<pod, service, created, reusable, begun, cleared>>
      /\ pc \in [Threads -> Pcs] /\ seen \in [Threads -> Seen]
  BY DEF End, Goto, cloud, Rest, TypeOK, Seen
<1>2. /\ pc'[t] = "idle" /\ ~ Starting(t)' /\ ~ Stopping(t)'
      /\ \A u \in Threads \ {t} : /\ pc'[u] = pc[u] /\ seen'[u] = seen[u]
                                 /\ Starting(u)' = Starting(u) /\ Stopping(u)' = Stopping(u)
  BY <1>1 DEF Starting, Stopping, StartPcs, StopPcs
<1>3. TypeOK'
  <2>1. pc' \in [Threads -> Pcs]
    BY <1>1 DEF Pcs
  <2>2. seen' \in [Threads -> Seen]
    BY <1>1 DEF Unseen, Seen
  <2>3. service \in Nat /\ answers' \subseteq Nat
    BY DEF Rest, TypeOK
  <2> QED BY <1>1, <2>1, <2>2, <2>3 DEF Rest, TypeOK, Seen
<1>4. Apart'
  BY <1>1, <1>2 DEF Rest, Apart
<1>5. ASSUME NEW u \in Threads PROVE OnCourse(u)'
  BY <1>1, <1>2 DEF Rest, OnCourse, Course
<1>6. AnswersHeld'
  <2> SUFFICES ASSUME answers' # {} PROVE AnswersHeld'
    BY DEF AnswersHeld
  <2>1. \A u \in Threads : ~ Stopping(u)
    BY DEF Rest, AnswersHeld, Apart
  <2>2. /\ \A number \in answers' : number = service
        /\ service # 0 /\ pod \in Up
    BY DEF Rest, AnswersHeld
  <2>3. ASSUME NEW u \in Threads, Starting(u)' PROVE UsesAgain(u)'
    BY <1>2, <2>3, Beside DEF UsesAgain
  <2> QED BY <1>1, <1>2, <2>1, <2>2, <2>3 DEF AnswersHeld
<1>7. ClearedHeld'
  BY <1>1, Beside DEF ClearedHeld
<1> QED BY <1>3, <1>4, <1>5, <1>6, <1>7 DEF Rest, StartsSucceed

\* A stop goes on.  Whatever it does to the pod and to the service, another stop can do.
LEMMA StopGoesOn ==
  ASSUME Inv, Rest, NEW t \in Threads, Stopping(t),
         NEW place \in StopPcs, Goto(t, place), lock' = lock,
         NEW s \in Seen, seen' = [seen EXCEPT ![t] = s],
         pod' \in PodStates, UNCHANGED <<service, created>>, UNCHANGED history,
         pod \in {NoPod} \cup Going => pod' \in {NoPod} \cup Going,
         pod \in {NoPod, "slow"} => pod' \in {NoPod, "slow"},
         t \notin overlapped => Course(place, s, pod', service)
  PROVE  Rest'
<1>1. /\ pc' = [pc EXCEPT ![t] = place]
      /\ pc \in [Threads -> Pcs] /\ seen \in [Threads -> Seen]
      /\ UNCHANGED <<reusable, begun, overlapped, answers, cleared, unexplained>>
  BY DEF Goto, Rest, TypeOK, Seen, history
<1>2. /\ pc'[t] = place /\ seen'[t] = s /\ Stopping(t)' /\ ~ Starting(t)'
      /\ \A u \in Threads \ {t} : /\ pc'[u] = pc[u] /\ seen'[u] = seen[u]
                                 /\ Starting(u)' = Starting(u) /\ Stopping(u)' = Stopping(u)
  BY <1>1 DEF Starting, Stopping, StartPcs, StopPcs
<1>3. TypeOK'
  <2>1. pc' \in [Threads -> Pcs]
    BY <1>1 DEF Pcs
  <2>2. seen' \in [Threads -> Seen]
    BY <1>1
  <2> QED BY <1>1, <2>1, <2>2 DEF Rest, TypeOK, Seen
<1>4. Apart'
  BY <1>1, <1>2 DEF Rest, Apart
<1>5. ASSUME NEW u \in Threads PROVE OnCourse(u)'
  <2>1. CASE u = t
    BY <1>1, <1>2, <2>1 DEF OnCourse
  <2>2. CASE u # t
    <3> SUFFICES ASSUME u \notin overlapped PROVE OnCourse(u)'
      BY <1>1 DEF OnCourse
    <3>1. ~ Starting(u) /\ Course(pc[u], seen[u], pod, service)
      BY DEF Rest, Apart, OnCourse
    <3>2. Course(pc[u], seen[u], pod', service')
      BY <3>1 DEF Course, Starting, StartPcs
    <3> QED BY <1>2, <2>2, <3>2 DEF OnCourse
  <2> QED BY <2>1, <2>2
<1>6. answers' = {}
  BY <1>1 DEF Rest, AnswersHeld
<1>7. ClearedHeld'
  BY <1>1, <1>2 DEF Rest, ClearedHeld
<1> QED BY <1>1, <1>3, <1>4, <1>5, <1>6, <1>7 DEF Rest, StartsSucceed, AnswersHeld

\* A stop ends.
LEMMA StopEnds ==
  ASSUME Inv, Rest, NEW t \in Threads, Stopping(t), Goto(t, "idle"), lock' = lock,
         seen' = [seen EXCEPT ![t] = Unseen], overlapped' = overlapped \ {t},
         UNCHANGED <<pod, created, reusable, begun, answers>>,
         service' \in {service, 0}, unexplained' = FALSE,
         cleared' \in BOOLEAN,
         cleared' => cleared \/ (t \notin overlapped /\ service' = 0 /\ pod \in {NoPod, "slow"})
  PROVE  Rest'
<1>1. /\ pc' = [pc EXCEPT ![t] = "idle"]
      /\ pc \in [Threads -> Pcs] /\ seen \in [Threads -> Seen]
  BY DEF Goto, Rest, TypeOK, Seen
<1>2. /\ pc'[t] = "idle" /\ ~ Starting(t)' /\ ~ Stopping(t)'
      /\ \A u \in Threads \ {t} : /\ pc'[u] = pc[u] /\ seen'[u] = seen[u]
                                 /\ Starting(u)' = Starting(u) /\ Stopping(u)' = Stopping(u)
  BY <1>1 DEF Starting, Stopping, StartPcs, StopPcs
<1>3. TypeOK'
  <2>1. pc' \in [Threads -> Pcs]
    BY <1>1 DEF Pcs
  <2>2. seen' \in [Threads -> Seen]
    BY <1>1 DEF Unseen, Seen
  <2>3. service' \in Nat
    BY DEF Rest, TypeOK
  <2>4. overlapped' \subseteq Threads /\ unexplained' \in BOOLEAN
    BY DEF Rest, TypeOK
  <2> QED BY <2>1, <2>2, <2>3, <2>4 DEF Rest, TypeOK, Seen
<1>4. Apart'
  BY <1>1, <1>2 DEF Rest, Apart
<1>5. ASSUME NEW u \in Threads PROVE OnCourse(u)'
  <2>1. CASE u = t
    BY <1>2, <2>1 DEF OnCourse, Course
  <2>2. CASE u # t
    <3> SUFFICES ASSUME u \notin overlapped PROVE OnCourse(u)'
      BY <2>2 DEF OnCourse
    <3>1. ~ Starting(u) /\ Course(pc[u], seen[u], pod, service)
      BY DEF Rest, Apart, OnCourse
    <3>2. Course(pc[u], seen[u], pod', service')
      BY <3>1 DEF Course, Starting, StartPcs
    <3> QED BY <1>2, <2>2, <3>2 DEF OnCourse
  <2> QED BY <2>1, <2>2
<1>6. answers' = {}
  BY DEF Rest, AnswersHeld
<1>7. ClearedHeld'
  <2>1. cleared' => \A u \in Threads : ~ Starting(u)
    BY DEF Rest, ClearedHeld, Apart
  <2> QED BY <1>1, <1>2, <2>1 DEF Rest, ClearedHeld
<1> QED BY <1>3, <1>4, <1>5, <1>6, <1>7 DEF Rest, StartsSucceed, AnswersHeld

\* A call begins, and marks those of the other kind that it finds.
LEMMA StartBegins ==
  ASSUME Rest, NEW t \in Threads, Start(t)
  PROVE  Rest'
<1>1. /\ pc' = [pc EXCEPT ![t] = "lock"] /\ pc[t] = "idle"
      /\ UNCHANGED <<lock, seen, pod, service, created, reusable, answers, unexplained>>
      /\ cleared' = FALSE /\ pc \in [Threads -> Pcs] /\ overlapped \subseteq overlapped'
  BY DEF Start, At, Goto, cloud, Rest, TypeOK
<1>2. /\ pc'[t] = "lock" /\ Starting(t)' /\ ~ Stopping(t)' /\ ~ Stopping(t)
      /\ \A u \in Threads \ {t} : /\ pc'[u] = pc[u]
                                 /\ Starting(u)' = Starting(u) /\ Stopping(u)' = Stopping(u)
  BY <1>1 DEF Starting, Stopping, StartPcs, StopPcs
<1>3. TypeOK'
  <2>1. pc' \in [Threads -> Pcs]
    BY <1>1 DEF Pcs, StartPcs
  <2>2. begun' \in [{"start", "stop", "crash"} -> Nat] /\ overlapped' \subseteq Threads
    BY DEF Start, Rest, TypeOK
  <2> QED BY <1>1, <2>1, <2>2 DEF Rest, TypeOK
<1>4. Apart'
  <2> SUFFICES ASSUME NEW u \in Threads, NEW v \in Threads, Starting(u)', Stopping(v)'
               PROVE  {u, v} \subseteq overlapped'
    BY DEF Apart
  <2>1. v # t /\ Stopping(v)
    BY <1>2
  <2>2. CASE u = t
    BY <2>1, <2>2 DEF Start
  <2>3. CASE u # t
    BY <1>1, <1>2, <2>1, <2>3 DEF Rest, Apart
  <2> QED BY <2>2, <2>3
<1>5. ASSUME NEW u \in Threads PROVE OnCourse(u)'
  BY <1>1, <1>2 DEF Rest, OnCourse, Course
<1>6. AnswersHeld'
  BY <1>1, <1>2 DEF Rest, AnswersHeld, UsesAgain
<1> QED BY <1>1, <1>3, <1>4, <1>5, <1>6 DEF Rest, StartsSucceed, ClearedHeld

LEMMA StopBegins ==
  ASSUME Rest, NEW t \in Threads, Stop(t)
  PROVE  Rest'
<1>1. /\ pc' = [pc EXCEPT ![t] = "stopPod"] /\ pc[t] = "idle"
      /\ UNCHANGED <<lock, seen, pod, service, created, reusable, cleared, unexplained>>
      /\ answers' = {} /\ pc \in [Threads -> Pcs] /\ overlapped \subseteq overlapped'
  BY DEF Stop, At, Goto, cloud, Rest, TypeOK
<1>2. /\ pc'[t] = "stopPod" /\ Stopping(t)' /\ ~ Starting(t)' /\ ~ Starting(t)
      /\ \A u \in Threads \ {t} : /\ pc'[u] = pc[u]
                                 /\ Starting(u)' = Starting(u) /\ Stopping(u)' = Stopping(u)
  BY <1>1 DEF Starting, Stopping, StartPcs, StopPcs
<1>3. TypeOK'
  <2>1. pc' \in [Threads -> Pcs]
    BY <1>1 DEF Pcs, StopPcs
  <2>2. begun' \in [{"start", "stop", "crash"} -> Nat] /\ overlapped' \subseteq Threads
    BY DEF Stop, Rest, TypeOK
  <2> QED BY <1>1, <2>1, <2>2 DEF Rest, TypeOK
<1>4. Apart'
  <2> SUFFICES ASSUME NEW u \in Threads, NEW v \in Threads, Starting(u)', Stopping(v)'
               PROVE  {u, v} \subseteq overlapped'
    BY DEF Apart
  <2>1. u # t /\ Starting(u)
    BY <1>2
  <2>2. CASE v = t
    BY <2>1, <2>2 DEF Stop
  <2>3. CASE v # t
    BY <1>1, <1>2, <2>1, <2>3 DEF Rest, Apart
  <2> QED BY <2>2, <2>3
<1>5. ASSUME NEW u \in Threads PROVE OnCourse(u)'
  BY <1>1, <1>2 DEF Rest, OnCourse, Course
<1>6. ClearedHeld'
  BY <1>1, <1>2 DEF Rest, ClearedHeld
<1> QED BY <1>1, <1>3, <1>4, <1>5, <1>6 DEF Rest, StartsSucceed, AnswersHeld

\* A start of an agent that is replaced withdraws what was handed out.
LEMMA LockTaken ==
  ASSUME Rest, NEW t \in Threads, Lock(t)
  PROVE  Rest'
<1>1. /\ pc' = [pc EXCEPT ![t] = "look"] /\ pc[t] = "lock" /\ lock' = t
      /\ UNCHANGED <<seen, pod, service, created, reusable, begun, overlapped, cleared, unexplained>>
      /\ answers' = (IF reusable THEN answers ELSE {}) /\ pc \in [Threads -> Pcs]
  BY DEF Lock, At, Goto, cloud, Rest, TypeOK
<1>2. /\ pc'[t] = "look" /\ Starting(t) /\ Starting(t)' /\ ~ Stopping(t)' /\ ~ Stopping(t)
      /\ \A u \in Threads \ {t} : /\ pc'[u] = pc[u]
                                 /\ Starting(u)' = Starting(u) /\ Stopping(u)' = Stopping(u)
  BY <1>1 DEF Starting, Stopping, StartPcs, StopPcs
<1>3. TypeOK'
  <2>1. pc' \in [Threads -> Pcs]
    BY <1>1 DEF Pcs, StartPcs
  <2> QED BY <1>1, <2>1 DEF Rest, TypeOK
<1>4. Apart'
  BY <1>1, <1>2 DEF Rest, Apart
<1>5. ASSUME NEW u \in Threads PROVE OnCourse(u)'
  BY <1>1, <1>2 DEF Rest, OnCourse, Course
<1>6. AnswersHeld'
  BY <1>1, <1>2 DEF Rest, AnswersHeld, UsesAgain
<1>7. ClearedHeld'
  BY <1>1, <1>2 DEF Rest, ClearedHeld
<1> QED BY <1>1, <1>3, <1>4, <1>5, <1>6, <1>7 DEF Rest, StartsSucceed

LEMMA PodChangesKeeps ==
  ASSUME Rest, PodChanges
  PROVE  Rest'
<1>1. /\ UNCHANGED <<pc, lock, seen, service, created, reusable, begun, overlapped, answers,
                     cleared, unexplained>>
      /\ pod' \in PodStates
  BY DEF PodChanges, history, PodStates, NoPod
<1>2. /\ pod \in Up => pod' \in Up
      /\ pod = "ready" => pod' = "ready"
      /\ pod \in {NoPod} \cup Going => pod' \in {NoPod} \cup Going
      /\ pod \in {NoPod, "slow"} => pod' \in {NoPod, "slow"}
  BY DEF PodChanges, Up, Going, NoPod
<1>3. TypeOK' /\ Apart'
  BY <1>1 DEF Rest, TypeOK, Apart, Starting, Stopping
<1>4. ASSUME NEW u \in Threads PROVE OnCourse(u)'
  BY <1>1, <1>2 DEF Rest, OnCourse, Course
<1>5. AnswersHeld' /\ ClearedHeld'
  BY <1>1, <1>2 DEF Rest, AnswersHeld, ClearedHeld, UsesAgain, Starting, Stopping
<1> QED BY <1>1, <1>3, <1>4, <1>5 DEF Rest, StartsSucceed

LEMMA CrashKeeps ==
  ASSUME Rest, Crash
  PROVE  Rest'
<1>1. /\ UNCHANGED <<pod, service, created, reusable, cleared, unexplained>>
      /\ \A u \in Threads : pc'[u] = "idle" /\ ~ Starting(u)' /\ ~ Stopping(u)'
  BY DEF Crash, cloud, Starting, Stopping, StartPcs, StopPcs
<1>2. TypeOK'
  BY <1>1 DEF Crash, Rest, TypeOK, Pcs, Unseen
<1> QED
  BY <1>1, <1>2 DEF Crash, Rest, Apart, OnCourse, Course, AnswersHeld, ClearedHeld, StartsSucceed

\* Each step of a start, by the lemma for what it does.
LEMMA StartStepKeeps ==
  ASSUME Inv, Rest, NEW t \in Threads, StartStep(t)
  PROVE  Rest'
<1>1. /\ pc \in [Threads -> Pcs] /\ seen \in [Threads -> Seen] /\ seen[t] \in Seen
      /\ seen = [seen EXCEPT ![t] = seen[t]]
      /\ pod \in PodStates /\ service \in Nat /\ created \in Nat /\ ~ unexplained
  BY DEF Rest, TypeOK, Seen, StartsSucceed
<1>2. t \notin overlapped => Course(pc[t], seen[t], pod, service)
  BY DEF Rest, OnCourse
<1>3. answers # {} /\ Starting(t) => UsesAgain(t) /\ service # 0 /\ pod \in Up
  BY DEF Rest, AnswersHeld
<1>4. ASSUME NEW explained, Throw(t, explained), Starting(t), pc[t] # "lock",
             explained = TRUE \/ t \in overlapped
      PROVE  Rest'
  BY <1>1, <1>4, StartEnds DEF Throw
<1>5. ASSUME Answered(t, service), Starting(t), pc[t] # "lock",
             t \notin overlapped /\ pod \notin Going => service # 0 /\ pod \in Up
      PROVE  Rest'
  <2>1. End(t) /\ cleared' = cleared /\ unexplained' = FALSE
    BY <1>1, <1>5 DEF Answered
  <2>2. \/ answers' = answers
        \/ /\ answers' = answers \cup {service}
           /\ t \notin overlapped /\ service # 0 /\ pod \in Up
    BY <1>5 DEF Answered
  <2> QED BY <1>5, <2>1, <2>2, StartEnds
<1>6. ASSUME NEW place \in StartPcs \ {"lock"}, Move(t, place), Starting(t), pc[t] # "lock",
             t \notin overlapped => Course(place, seen[t], pod, service),
             answers # {} => place = "lookPod" /\ seen[t].service = service
      PROVE  Rest'
  BY <1>1, <1>6, StartGoesOn DEF Move, cloud
<1>7. CASE Lock(t)
  BY <1>7, LockTaken
<1>8. CASE Look(t)
  <2> DEFINE s == [seen[t] EXCEPT !.service = service]
             place == IF service # 0 /\ ~ reusable THEN "drop" ELSE "lookPod"
  <2>1. /\ pc[t] = "look" /\ Starting(t) /\ seen' = [seen EXCEPT ![t] = s]
        /\ Goto(t, place) /\ lock' = lock /\ UNCHANGED <<pod, service, created>> /\ UNCHANGED history
    BY <1>1, <1>8 DEF Look, At, Starting, StartPcs, cloud, Seen
  <2>2. s \in Seen /\ s.service = service
    BY <1>1 DEF Seen
  <2>3. answers # {} => place = "lookPod"
    BY <1>3, <2>1 DEF UsesAgain
  <2>4. place \in StartPcs \ {"lock"} /\ Course(place, s, pod, service)
    BY <2>2 DEF StartPcs, Course
  <2> HIDE DEF s, place
  <2> QED BY <1>1, <2>1, <2>2, <2>3, <2>4, StartGoesOn
<1>9. CASE LookPod(t)
  <2>1. pc[t] = "lookPod" /\ Starting(t)
    BY <1>9 DEF LookPod, At, Starting, StartPcs
  <2>2. CASE pod = NoPod
    BY <1>2, <1>3, <1>6, <1>9, <2>1, <2>2 DEF LookPod, StartPcs, Course, Up, NoPod
  <2>3. CASE pod # NoPod /\ seen[t].service = 0
    BY <1>2, <1>3, <1>6, <1>9, <2>1, <2>3 DEF LookPod, StartPcs, Course, UsesAgain
  <2>4. CASE pod # NoPod /\ seen[t].service # 0
    <3>1. pod \notin Going => pod \in Up
      BY <1>1, <2>4 DEF PodStates, Going, Up, NoPod
    <3>2. Answered(t, seen[t].service)
      BY <1>9, <2>4 DEF LookPod
    <3>3. CASE t \in overlapped
      <4>1. End(t) /\ cleared' = cleared /\ unexplained' = FALSE /\ answers' = answers
        BY <1>1, <3>2, <3>3 DEF Answered
      <4> QED BY <2>1, <4>1, StartEnds
    <3>4. CASE t \notin overlapped
      BY <1>2, <1>5, <2>1, <2>4, <3>1, <3>2, <3>4 DEF Course
    <3> QED BY <3>3, <3>4
  <2> QED BY <2>2, <2>3, <2>4
<1>10. CASE ~ (Lock(t) \/ Look(t) \/ LookPod(t))
  <2>1. Starting(t) /\ pc[t] \notin {"lock", "look", "lookPod"} /\ answers = {}
    <3>1. Starting(t) /\ pc[t] \notin {"lock", "look", "lookPod"}
      BY <1>10 DEF StartStep, DropService, FindService, DeleteService, ClearPod, FindPod, DeletePod,
                   WaitForPodDeleted, Serve, CreateService, CreatePod, AwaitReady, ReadPorts, At,
                   Starting, StartPcs
    <3> QED BY <1>3, <3>1 DEF UsesAgain
  <2>2. CASE DropService(t)
    <3>1. CASE FindService(t, "drop", "dropNow", "clearPod")
      BY <1>6, <2>1, <3>1 DEF FindService, StartPcs, Course
    <3>2. CASE DeleteService(t, "dropNow", "clearPod") /\ service = 0
      BY <1>2, <1>4, <2>1, <3>2 DEF DeleteService, At, Course
    <3>3. CASE DeleteService(t, "dropNow", "clearPod") /\ service # 0
      <4>1. Course("clearPod", seen[t], pod, 0)
        BY DEF Course
      <4> QED BY <1>1, <2>1, <3>3, <4>1, StartGoesOn DEF DeleteService, StartPcs
    <3> QED BY <2>2, <3>1, <3>2, <3>3 DEF DropService
  <2>3. CASE Serve(t)
    <3>1. CASE FindService(t, "serve", "serveNow", "createService")
      BY <1>2, <1>6, <2>1, <3>1 DEF FindService, At, StartPcs, Course
    <3>2. CASE DeleteService(t, "serveNow", "createService") /\ service = 0
      BY <1>2, <1>4, <2>1, <3>2 DEF DeleteService, At, Course
    <3>3. CASE DeleteService(t, "serveNow", "createService") /\ service # 0
      <4>1. t \notin overlapped => Course("createService", seen[t], pod, 0)
        BY <1>2, <3>3 DEF DeleteService, At, Course
      <4> QED BY <1>1, <2>1, <3>3, <4>1, StartGoesOn DEF DeleteService, StartPcs
    <3> QED BY <2>3, <3>1, <3>2, <3>3 DEF Serve
  <2>4. CASE ClearPod(t)
    <3>1. CASE FindPod(t, "clearPod", "clearPodNow", "serve")
      <4> DEFINE s == [seen[t] EXCEPT !.going = pod \in Going]
                 place == IF pod # NoPod THEN "clearPodNow" ELSE "serve"
      <4>1. /\ seen' = [seen EXCEPT ![t] = s] /\ Goto(t, place) /\ lock' = lock
            /\ UNCHANGED <<pod, service, created>> /\ UNCHANGED history
        BY <1>1, <3>1 DEF FindPod, cloud, Seen
      <4>2. s \in Seen /\ (~ s.going => pod \notin Going)
        <5>1. (pod \in Going) \in BOOLEAN
          OBVIOUS
        <5>2. s = [service |-> seen[t].service, going |-> pod \in Going]
          BY <1>1 DEF Seen
        <5> QED BY <1>1, <5>1, <5>2 DEF Seen
      <4>3. place \in StartPcs \ {"lock"} /\ Course(place, s, pod, service)
        BY <1>1, <4>2 DEF StartPcs, Course, PodStates, Up, Going, NoPod
      <4> HIDE DEF s, place
      <4> QED BY <1>1, <2>1, <4>1, <4>2, <4>3, StartGoesOn
    <3>2. CASE DeletePod(t, "clearPodNow", "clearPodWait") /\ pod = NoPod
      <4>1. seen[t].going = TRUE \/ t \in overlapped
        BY <1>1, <1>2, <3>2 DEF DeletePod, At, Course, Up, NoPod, Seen
      <4>2. Throw(t, seen[t].going)
        BY <3>2 DEF DeletePod
      <4> QED BY <1>4, <2>1, <4>1, <4>2
    <3>3. CASE DeletePod(t, "clearPodNow", "clearPodWait") /\ pod # NoPod
      <4>1. pod' \in Going /\ pod' \in PodStates
        BY <3>3 DEF DeletePod, Going, PodStates
      <4>2. Course("clearPodWait", seen[t], pod', service)
        BY <4>1 DEF Course
      <4> QED BY <1>1, <2>1, <3>3, <4>1, <4>2, StartGoesOn DEF DeletePod, StartPcs
    <3>4. CASE WaitForPodDeleted(t, "clearPodWait", "serve")
      <4>1. pod' \in PodStates /\ (t \notin overlapped => pod' \in {NoPod, "slow"})
        BY <1>1, <1>2, <3>4 DEF WaitForPodDeleted, Move, cloud, At, Course, PodStates, NoPod
      <4>2. t \notin overlapped => Course("serve", seen[t], pod', service)
        BY <4>1 DEF Course
      <4>3. /\ Goto(t, "serve") /\ lock' = lock /\ seen' = seen
            /\ UNCHANGED <<service, created>> /\ UNCHANGED history
        BY <3>4 DEF WaitForPodDeleted, Move, cloud
      <4> QED BY <1>1, <2>1, <4>1, <4>2, <4>3, StartGoesOn DEF StartPcs
    <3> QED BY <2>4, <3>1, <3>2, <3>3, <3>4 DEF ClearPod
  <2>5. CASE CreateService(t)
    <3>1. CASE service # 0
      BY <1>2, <1>4, <2>1, <2>5, <3>1 DEF CreateService, At, Course
    <3>2. CASE service = 0
      <4>1. t \notin overlapped => Course("createPod", seen[t], pod, created + 1)
        BY <1>1, <1>2, <2>5 DEF CreateService, At, Course
      <4>2. created + 1 \in Nat
        BY <1>1
      <4> QED BY <1>1, <2>1, <2>5, <3>2, <4>1, <4>2, StartGoesOn DEF CreateService, StartPcs
    <3> QED BY <3>1, <3>2
  <2>6. CASE CreatePod(t)
    <3>1. CASE pod # NoPod
      BY <1>2, <1>4, <2>1, <2>6, <3>1 DEF CreatePod, At, Course
    <3>2. CASE pod = NoPod
      <4>1. t \notin overlapped => Course("await", seen[t], "new", service)
        BY <1>2, <2>6 DEF CreatePod, At, Course, Up
      <4>2. "new" \in PodStates
        BY DEF PodStates
      <4> QED BY <1>1, <2>1, <2>6, <3>2, <4>1, <4>2, StartGoesOn DEF CreatePod, StartPcs
    <3> QED BY <3>1, <3>2
  <2>7. CASE AwaitReady(t)
    BY <1>2, <1>4, <1>6, <2>1, <2>7 DEF AwaitReady, At, StartPcs, Course, Up, NoPod
  <2>8. CASE ReadPorts(t)
    <3>1. CASE service = 0
      BY <1>2, <1>4, <2>1, <2>8, <3>1 DEF ReadPorts, At, Course
    <3>2. CASE service # 0
      BY <1>2, <1>5, <2>1, <2>8, <3>2 DEF ReadPorts, At, Course, Up
    <3> QED BY <3>1, <3>2
  <2> QED BY <1>10, <2>2, <2>3, <2>4, <2>5, <2>6, <2>7, <2>8 DEF StartStep
<1> QED BY <1>7, <1>8, <1>9, <1>10

\* Each step of a stop.
LEMMA StopStepKeeps ==
  ASSUME Inv, Rest, NEW t \in Threads, StopStep(t)
  PROVE  Rest'
<1>1. /\ pc \in [Threads -> Pcs] /\ seen \in [Threads -> Seen] /\ seen[t] \in Seen
      /\ seen = [seen EXCEPT ![t] = seen[t]]
      /\ pod \in PodStates /\ service \in Nat /\ cleared \in BOOLEAN /\ unexplained = FALSE
  BY DEF Rest, TypeOK, Seen, StartsSucceed
<1>2. t \notin overlapped => Course(pc[t], seen[t], pod, service)
  BY DEF Rest, OnCourse
<1>3. Stopping(t) /\ ~ Starting(t)
  BY DEF StopStep, StopPod, FindPod, DeletePod, WaitForPodDeleted, StopService, At,
         Stopping, StopPcs, Starting, StartPcs
<1>4. ASSUME NEW explained, Throw(t, explained)
      PROVE  Rest'
  <2>1. /\ Goto(t, "idle") /\ lock' = lock /\ seen' = [seen EXCEPT ![t] = Unseen]
        /\ overlapped' = overlapped \ {t}
        /\ UNCHANGED <<pod, created, reusable, begun, answers>>
        /\ service' = service /\ unexplained' = FALSE /\ cleared' = cleared
    BY <1>1, <1>3, <1>4 DEF Throw, End, cloud
  <2>2. service' \in {service, 0} /\ cleared' \in BOOLEAN /\ (cleared' => cleared)
    BY <1>1, <2>1
  <2> QED BY <1>3, <2>1, <2>2, StopEnds
<1>5. ASSUME Stopped(t), pc[t] \in {"stopService", "stopServiceNow"},
             service' = 0, UNCHANGED <<pod, created>>
      PROVE  Rest'
  <2>1. t \notin overlapped => pod \in {NoPod, "slow"}
    BY <1>2, <1>5 DEF Course
  <2>2. /\ Goto(t, "idle") /\ lock' = lock /\ seen' = [seen EXCEPT ![t] = Unseen]
        /\ overlapped' = overlapped \ {t}
        /\ UNCHANGED <<pod, created, reusable, begun, answers>>
        /\ unexplained' = FALSE /\ cleared' \in BOOLEAN
        /\ cleared' => cleared \/ t \notin overlapped
    BY <1>1, <1>5 DEF Stopped
  <2>3. service' \in {service, 0}
    BY <1>5
  <2>4. cleared' => cleared \/ (t \notin overlapped /\ service' = 0 /\ pod \in {NoPod, "slow"})
    BY <1>5, <2>1, <2>2
  <2> QED BY <1>3, <2>2, <2>3, <2>4, StopEnds
<1>6. CASE FindPod(t, "stopPod", "stopPodNow", "stopService")
  <2> DEFINE s == [seen[t] EXCEPT !.going = pod \in Going]
             place == IF pod # NoPod THEN "stopPodNow" ELSE "stopService"
  <2>1. /\ seen' = [seen EXCEPT ![t] = s] /\ Goto(t, place) /\ lock' = lock
        /\ UNCHANGED <<pod, service, created>> /\ UNCHANGED history
    BY <1>1, <1>6 DEF FindPod, cloud, Seen
  <2>2. s \in Seen
    <3>1. (pod \in Going) \in BOOLEAN
      OBVIOUS
    <3>2. s = [service |-> seen[t].service, going |-> pod \in Going]
      BY <1>1 DEF Seen
    <3> QED BY <1>1, <3>1, <3>2 DEF Seen
  <2>3. place \in StopPcs /\ Course(place, s, pod, service)
    BY DEF StopPcs, Course, NoPod
  <2> HIDE DEF s, place
  <2> QED BY <1>1, <1>3, <2>1, <2>2, <2>3, StopGoesOn
<1>7. CASE DeletePod(t, "stopPodNow", "stopPodWait")
  <2>1. CASE pod = NoPod
    BY <1>4, <1>7, <2>1 DEF DeletePod
  <2>2. CASE pod # NoPod
    <3>1. /\ pod' \in Going /\ pod' \in PodStates
          /\ pod \in {NoPod, "slow"} => pod' \in {NoPod, "slow"}
      BY <1>7, <2>2 DEF DeletePod, Going, PodStates, NoPod
    <3>2. Course("stopPodWait", seen[t], pod', service)
      BY <3>1 DEF Course
    <3> QED BY <1>1, <1>3, <1>7, <2>2, <3>1, <3>2, StopGoesOn DEF DeletePod, StopPcs
  <2> QED BY <2>1, <2>2
<1>8. CASE WaitForPodDeleted(t, "stopPodWait", "stopService")
  <2>1. /\ pod' \in PodStates
        /\ pod \in {NoPod} \cup Going => pod' \in {NoPod, "slow"}
        /\ {NoPod, "slow"} \subseteq {NoPod} \cup Going
    BY <1>1, <1>8 DEF WaitForPodDeleted, Move, cloud, PodStates, Going, NoPod
  <2>2. t \notin overlapped => Course("stopService", seen[t], pod', service)
    BY <1>2, <1>8, <2>1 DEF WaitForPodDeleted, At, Course
  <2>3. /\ Goto(t, "stopService") /\ lock' = lock /\ seen' = seen
        /\ UNCHANGED <<service, created>> /\ UNCHANGED history
    BY <1>8 DEF WaitForPodDeleted, Move, cloud
  <2> QED BY <1>1, <1>3, <2>1, <2>2, <2>3, StopGoesOn DEF StopPcs
<1>9. CASE StopService(t)
  <2>1. CASE At(t, "stopService") /\ service # 0 /\ Move(t, "stopServiceNow")
    <3>1. t \notin overlapped => Course("stopServiceNow", seen[t], pod, service)
      BY <1>2, <2>1 DEF At, Course
    <3> QED BY <1>1, <1>3, <2>1, <3>1, StopGoesOn DEF Move, cloud, StopPcs
  <2>2. CASE At(t, "stopService") /\ service = 0 /\ Stopped(t) /\ UNCHANGED cloud
    BY <1>5, <2>2 DEF At, cloud
  <2>3. CASE At(t, "stopServiceNow") /\ service = 0 /\ Throw(t, FALSE)
    BY <1>4, <2>3
  <2>4. CASE At(t, "stopServiceNow") /\ service' = 0 /\ UNCHANGED <<pod, created>> /\ Stopped(t)
    BY <1>5, <2>4 DEF At
  <2> QED BY <1>9, <2>1, <2>2, <2>3, <2>4 DEF StopService
<1> QED BY <1>6, <1>7, <1>8, <1>9 DEF StopStep, StopPod

LEMMA NextKeepsRest == Inv /\ Rest /\ [Next]_vars => Rest'
<1> SUFFICES ASSUME Inv, Rest, [Next]_vars PROVE Rest'
  OBVIOUS
<1>1. CASE UNCHANGED vars
  BY <1>1 DEF vars, cloud, history, Rest, TypeOK, Apart, AnswersHeld, ClearedHeld, StartsSucceed,
              OnCourse, UsesAgain, Starting, Stopping
<1> QED
  BY <1>1, StartBegins, StopBegins, StartStepKeeps, StopStepKeeps, PodChangesKeeps, CrashKeeps
     DEF Next

LEMMA RestHolds == Spec => []Rest
BY InitInv, NextPreserves, InitRest, NextKeepsRest, PTL DEF Spec

\* The state of the agent's threads, of its pod and of its service keeps its type.
THEOREM TypeCorrect == Spec => []TypeOK
<1>1. Rest => TypeOK
  BY DEF Rest
<1> QED BY RestHolds, <1>1, PTL

\* A start fails for nothing that the panel left behind: whatever a crash, a stop or a
\* failed start leaves of the pod and of the service, the next start that no stop
\* runs beside replaces or completes.
THEOREM StartsRepair == Spec => []StartsSucceed
<1> QED BY RestHolds, RestGives, PTL

\* An agent that start handed out stays, with its pod, for as long as nobody stops it,
\* however many other starts there are meanwhile.
THEOREM HandedOutStays == Spec => []AnswersStand
<1> QED BY RestHolds, RestGives, PTL

\* A stop that no start runs beside leaves neither service nor pod, except a pod that is
\* slow to go.
THEOREM StopLeavesNothing == Spec => []StopClears
<1> QED BY RestHolds, RestGives, PTL
=============================================================================
