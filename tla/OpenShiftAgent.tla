---------------------------- MODULE OpenShiftAgent ----------------------------
(***************************************************************************)
(* Starting and stopping one agent, by name, in one OpenShift project:     *)
(* OpenShiftAgentManager, whose starts hold STARTING_LOCK and whose stops  *)
(* do not, against the pod and the service of that name.  Modules and      *)
(* projects share a reusable agent; an assembly or a load test has one of  *)
(* its own, which every start replaces.                                    *)
(*                                                                         *)
(* Covered: concurrent starts and stops at the granularity of one request  *)
(* to OpenShift; a pod that never gets ready, or outlives the wait for its *)
(* deletion; a crash of the panel between two requests.                    *)
(*                                                                         *)
(* Left out: the route, which no agent of the panel asks for; the project, *)
(* taken to exist; roles, images and ports within a service (the service's *)
(* number stands for its node ports); failures of a request as such.  The  *)
(* flag awaitingDeletion never outlives a call, since every call makes its *)
(* own manager: it is always down at the start of a call.                  *)
(*                                                                         *)
(* Definitions headed "Slip" are plausible mistakes in the definition that *)
(* follows them; no specification uses them.                               *)
(***************************************************************************)
EXTENDS Naturals, FiniteSets

CONSTANTS
  Threads,      \* the panel's threads that start and stop the agent
  Nobody,       \* not a thread
  MaxStarts,    \* bound: calls of start
  MaxStops,     \* bound: calls of stop
  MaxCrashes,   \* bound: crashes of the panel
  Faults        \* may a pod fail to get ready, or outlive a wait?

ASSUME ConstantsAssumption ==
  /\ Nobody \notin Threads
  /\ Faults \in BOOLEAN
  /\ MaxStarts \in Nat /\ MaxStops \in Nat /\ MaxCrashes \in Nat

NoPod == "none"
Unseen == [service |-> 0, going |-> FALSE]
\* A pod being deleted stays listed until it is gone; a slow one outlived a wait.
PodStates == {"none", "new", "ready", "failed", "terminating", "slow"}
Going == {"terminating", "slow"}

StartPcs == {"lock", "look", "drop", "dropNow", "lookPod", "clearPod", "clearPodNow", "clearPodWait",
             "serve", "serveNow", "createService", "createPod", "await", "ports"}
StopPcs == {"stopPod", "stopPodNow", "stopPodWait", "stopService", "stopServiceNow"}
Pcs == {"idle"} \cup StartPcs \cup StopPcs

VARIABLES
  pc,           \* where each thread is
  lock,         \* the holder of STARTING_LOCK
  seen,         \* what each call found: the service, and whether the pod was going
  pod,          \* OpenShift: the pod of that name
  service,      \* OpenShift: the service of that name, 0 when there is none
  created,      \* services created so far
  reusable,     \* the agent's configuration: is a running one handed out again?
  begun,        \* [{"start", "stop", "crash"} -> Nat]: calls and crashes so far
  overlapped,   \* history: calls that ran beside one of the other kind
  answers,      \* history: services handed out, none of whose starts a stop overlapped,
                \* since the last stop (or replacing start) began
  cleared,      \* history: a stop that no start overlapped ended, and no start has begun since
  unexplained   \* history: a start failed for no fault of OpenShift and beside no stop

cloud == <<pod, service, created>>
history == <<reusable, begun, overlapped, answers, cleared, unexplained>>
vars == <<pc, lock, seen, cloud, history>>

Init ==
  /\ pc = [t \in Threads |-> "idle"]
  /\ lock = Nobody
  /\ seen = [t \in Threads |-> Unseen]
  /\ pod = NoPod
  /\ service = 0
  /\ created = 0
  /\ reusable \in BOOLEAN
  /\ begun = [c \in {"start", "stop", "crash"} |-> 0]
  /\ overlapped = {}
  /\ answers = {}
  /\ cleared = FALSE
  /\ unexplained = FALSE

-----------------------------------------------------------------------------
Starting(t) == pc[t] \in StartPcs
Stopping(t) == pc[t] \in StopPcs

At(t, place) == pc[t] = place
Goto(t, place) == pc' = [pc EXCEPT ![t] = place]
Move(t, place) == Goto(t, place) /\ UNCHANGED <<lock, seen, cloud, history>>

\* A call ends, by its answer or by an exception; a start gives up the lock.
End(t) ==
  /\ Goto(t, "idle")
  /\ lock' = IF Starting(t) THEN Nobody ELSE lock
  /\ seen' = [seen EXCEPT ![t] = Unseen]
  /\ overlapped' = overlapped \ {t}
  /\ UNCHANGED <<cloud, reusable, begun>>

\* Slip: an exception leaves the lock held.
ThrowLocked(t, explained) ==
  /\ Goto(t, "idle")
  /\ seen' = [seen EXCEPT ![t] = Unseen]
  /\ overlapped' = overlapped \ {t}
  /\ unexplained' = (unexplained \/ (Starting(t) /\ ~ explained /\ t \notin overlapped))
  /\ UNCHANGED <<lock, cloud, reusable, begun, answers, cleared>>

Throw(t, explained) ==
  /\ End(t)
  /\ unexplained' = (unexplained \/ (Starting(t) /\ ~ explained /\ t \notin overlapped))
  /\ UNCHANGED <<answers, cleared>>

-----------------------------------------------------------------------------
(* Requests that starts and stops have in common.  Objects are found by    *)
(* listing and then deleted by name, so that the deletion hits whatever    *)
(* has that name by then, and throws when nothing has.                     *)

FindService(t, at, now, next) ==
  At(t, at) /\ Move(t, IF service # 0 THEN now ELSE next)

DeleteService(t, now, next) ==
  /\ At(t, now)
  /\ IF service = 0
     THEN Throw(t, FALSE)
     ELSE /\ service' = 0
          /\ Goto(t, next)
          /\ UNCHANGED <<lock, seen, pod, created, history>>

FindPod(t, at, now, next) ==
  /\ At(t, at)
  /\ seen' = [seen EXCEPT ![t].going = pod \in Going]
  /\ Goto(t, IF pod # NoPod THEN now ELSE next)
  /\ UNCHANGED <<lock, cloud, history>>

DeletePod(t, now, wait) ==
  /\ At(t, now)
  /\ IF pod = NoPod
     THEN Throw(t, seen[t].going)
     ELSE /\ pod' = IF pod = "slow" THEN "slow" ELSE "terminating"
          /\ Goto(t, wait)
          /\ UNCHANGED <<lock, seen, service, created, history>>

\* The wait ends with the pod gone, or in time; its result is not looked at.
WaitForPodDeleted(t, wait, next) ==
  /\ At(t, wait)
  /\ \/ pod = NoPod /\ Move(t, next)
     \/ /\ Faults /\ pod # NoPod
        /\ pod' = IF pod \in Going THEN "slow" ELSE pod
        /\ Goto(t, next)
        /\ UNCHANGED <<lock, seen, service, created, history>>

-----------------------------------------------------------------------------
(* start                                                                   *)

\* Guarded by the bound MaxStarts.
Start(t) ==
  /\ At(t, "idle")
  /\ begun.start < MaxStarts
  /\ begun' = [begun EXCEPT !.start = @ + 1]
  /\ Goto(t, "lock")
  /\ overlapped' = IF \E u \in Threads : Stopping(u)
                   THEN overlapped \cup {t} \cup {u \in Threads : Stopping(u)}
                   ELSE overlapped
  /\ cleared' = FALSE
  /\ UNCHANGED <<lock, seen, cloud, reusable, answers, unexplained>>

\* From here on a start of an agent that is not reusable replaces the one there is.
Lock(t) ==
  /\ At(t, "lock")
  /\ lock = Nobody
  /\ lock' = t
  /\ Goto(t, "look")
  /\ answers' = IF reusable THEN answers ELSE {}
  /\ UNCHANGED <<seen, cloud, reusable, begun, overlapped, cleared, unexplained>>

\* Slip: even a reusable agent is replaced.
LookReplacing(t) ==
  /\ At(t, "look")
  /\ seen' = [seen EXCEPT ![t].service = service]
  /\ Goto(t, IF service # 0 THEN "drop" ELSE "lookPod")
  /\ UNCHANGED <<lock, cloud, history>>

\* The service of the name decides: none, one to replace, or one to use again.
Look(t) ==
  /\ At(t, "look")
  /\ seen' = [seen EXCEPT ![t].service = service]
  /\ Goto(t, IF service # 0 /\ ~ reusable THEN "drop" ELSE "lookPod")
  /\ UNCHANGED <<lock, cloud, history>>

DropService(t) ==
  \/ FindService(t, "drop", "dropNow", "clearPod")
  \/ DeleteService(t, "dropNow", "clearPod")

Answered(t, number) ==
  /\ End(t)
  /\ answers' = IF t \in overlapped \/ pod \in Going THEN answers ELSE answers \cup {number}
  /\ UNCHANGED <<cleared, unexplained>>

\* Slip: a pod that is there without its service is not cleared away.
LookPodKeeping(t) ==
  /\ At(t, "lookPod")
  /\ IF pod # NoPod /\ seen[t].service # 0 THEN Answered(t, seen[t].service)
                                   ELSE Move(t, "serve")

\* A service without its pod is served anew; a pod without its service is cleared
\* away first.  A pod beside its service is an answer, in whatever state it is.
LookPod(t) ==
  /\ At(t, "lookPod")
  /\ IF pod = NoPod THEN Move(t, "serve")
     ELSE IF seen[t].service = 0 THEN Move(t, "clearPod")
     ELSE Answered(t, seen[t].service)

ClearPod(t) ==
  \/ FindPod(t, "clearPod", "clearPodNow", "serve")
  \/ DeletePod(t, "clearPodNow", "clearPodWait")
  \/ WaitForPodDeleted(t, "clearPodWait", "serve")

\* createAgent: a fresh service, then the pod.
Serve(t) ==
  \/ FindService(t, "serve", "serveNow", "createService")
  \/ DeleteService(t, "serveNow", "createService")

CreateService(t) ==
  /\ At(t, "createService")
  /\ IF service # 0
     THEN Throw(t, FALSE)
     ELSE /\ created' = created + 1
          /\ service' = created + 1
          /\ Goto(t, "createPod")
          /\ UNCHANGED <<lock, seen, pod, history>>

CreatePod(t) ==
  /\ At(t, "createPod")
  /\ IF pod # NoPod
     THEN Throw(t, pod = "slow")
     ELSE /\ pod' = "new"
          /\ Goto(t, "await")
          /\ UNCHANGED <<lock, seen, service, created, history>>

\* waitForPodContainersReadiness: true once the pod is ready, false when it is
\* seen to fail or the time is over.
AwaitReady(t) ==
  /\ At(t, "await")
  /\ \/ pod = "ready" /\ Move(t, "ports")
     \/ pod = "failed" /\ Throw(t, TRUE)
     \/ pod \in {NoPod, "terminating", "slow"} /\ Throw(t, FALSE)
     \/ Faults /\ pod = "new" /\ Throw(t, TRUE)

ReadPorts(t) ==
  /\ At(t, "ports")
  /\ IF service = 0 THEN Throw(t, FALSE) ELSE Answered(t, service)

-----------------------------------------------------------------------------
(* stop                                                                    *)

\* Guarded by the bound MaxStops.
Stop(t) ==
  /\ At(t, "idle")
  /\ begun.stop < MaxStops
  /\ begun' = [begun EXCEPT !.stop = @ + 1]
  /\ Goto(t, "stopPod")
  /\ overlapped' = IF \E u \in Threads : Starting(u)
                   THEN overlapped \cup {t} \cup {u \in Threads : Starting(u)}
                   ELSE overlapped
  /\ answers' = {}
  /\ UNCHANGED <<lock, seen, cloud, reusable, cleared, unexplained>>

StopPod(t) ==
  \/ FindPod(t, "stopPod", "stopPodNow", "stopService")
  \/ DeletePod(t, "stopPodNow", "stopPodWait")
  \/ WaitForPodDeleted(t, "stopPodWait", "stopService")

Stopped(t) ==
  /\ Goto(t, "idle")
  /\ seen' = [seen EXCEPT ![t] = Unseen]
  /\ overlapped' = overlapped \ {t}
  /\ cleared' = (cleared \/ t \notin overlapped)
  /\ UNCHANGED <<lock, reusable, begun, answers, unexplained>>

\* Slip: the service stays.
StopServiceKeeping(t) ==
  At(t, "stopService") /\ Stopped(t) /\ UNCHANGED cloud

StopService(t) ==
  \/ At(t, "stopService") /\ service # 0 /\ Move(t, "stopServiceNow")
  \/ At(t, "stopService") /\ service = 0 /\ Stopped(t) /\ UNCHANGED cloud
  \/ /\ At(t, "stopServiceNow")
     /\ IF service = 0
        THEN Throw(t, FALSE)
        ELSE service' = 0 /\ UNCHANGED <<pod, created>> /\ Stopped(t)

-----------------------------------------------------------------------------
(* OpenShift, and the panel's crash.                                       *)

\* A container that failed may still come up after another restart.
PodChanges ==
  /\ \/ pod \in {"new", "failed"} /\ pod' = "ready"
     \/ Faults /\ pod = "new" /\ pod' = "failed"
     \/ pod \in Going /\ pod' = NoPod
  /\ UNCHANGED <<pc, lock, seen, service, created, history>>

Crash ==
  /\ begun.crash < MaxCrashes
  /\ begun' = [begun EXCEPT !.crash = @ + 1]
  /\ pc' = [t \in Threads |-> "idle"]
  /\ lock' = Nobody
  /\ seen' = [t \in Threads |-> Unseen]
  /\ overlapped' = {}
  /\ answers' = {}
  /\ UNCHANGED <<cloud, reusable, cleared, unexplained>>

-----------------------------------------------------------------------------
StartStep(t) ==
  \/ Lock(t) \/ Look(t) \/ DropService(t) \/ LookPod(t) \/ ClearPod(t) \/ Serve(t)
  \/ CreateService(t) \/ CreatePod(t) \/ AwaitReady(t) \/ ReadPorts(t)

StopStep(t) == StopPod(t) \/ StopService(t)

Next ==
  \/ \E t \in Threads : Start(t) \/ StartStep(t) \/ Stop(t) \/ StopStep(t)
  \/ PodChanges
  \/ Crash

Spec == Init /\ [][Next]_vars

\* Every thread runs on, and a wait ends in time if by nothing else.  A pod that
\* is healthy gets ready, and one that is deleted goes.
Fairness ==
  /\ \A t \in Threads : WF_vars(StartStep(t)) /\ WF_vars(StopStep(t))
  /\ WF_vars(PodChanges)

FairSpec == Spec /\ Fairness

-----------------------------------------------------------------------------
TypeOK ==
  /\ pc \in [Threads -> Pcs]
  /\ lock \in Threads \cup {Nobody}
  /\ seen \in [Threads -> [service : Nat, going : BOOLEAN]]
  /\ pod \in PodStates
  /\ service \in Nat
  /\ created \in Nat
  /\ reusable \in BOOLEAN
  /\ begun \in [{"start", "stop", "crash"} -> Nat]
  /\ overlapped \subseteq Threads
  /\ answers \subseteq Nat
  /\ cleared \in BOOLEAN
  /\ unexplained \in BOOLEAN

\* STARTING_LOCK keeps every two starts apart from the look at the service to the
\* answer, whichever way they end.
StartsExclude ==
  \A t \in Threads : Starting(t) /\ pc[t] # "lock" => lock = t

\* A start repairs whatever earlier starts, stops and crashes left behind, a pod
\* without its service or a service without its pod: beside no stop, it fails
\* only because a pod does not get ready or outlives the wait for its deletion.
StartsSucceed == ~ unexplained

\* Two users are given the same agent, and it stays until somebody stops it: what
\* start handed out is the service there is, with its pod, whatever other starts
\* do meanwhile (unless the pod was on its way out when it was handed out).
AnswersStand ==
  \A number \in answers : number = service /\ pod # NoPod

\* What a stop leaves: nothing, unless a start ran beside it, except a pod whose
\* deletion takes longer than the wait.
StopClears == cleared => service = 0 /\ pod \in {NoPod, "slow"}

\* Every start and every stop ends, so that no exception or wait leaves the lock
\* held for ever.
CallsEnd == \A t \in Threads : pc[t] # "idle" ~> pc[t] = "idle"
=============================================================================
