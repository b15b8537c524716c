----------------------------- MODULE MCShutdown -----------------------------
(***************************************************************************)
(* Does whatever is stopped come to rest, and nothing outlive what it uses?*)
(* WaitTokenStorage, and as instances TaskProcessorShutdown,               *)
(* ComponentSystem and PeriodicTask. They share nothing, so a behaviour    *)
(* exercises one of them, its subject, and the others stay in their initial*)
(* states. FailingSystem has hooks that throw as well as constructors;     *)
(* PeriodicTask has a period and testsuite tasks that call it, a           *)
(* WaitingTask neither: it steps when it is told to.                       *)
(***************************************************************************)
EXTENDS WaitTokenStorage, SequencesExt

CONSTANTS
  Subjects,                                                 \* the components to look at
  Workers, NoTask, StopMark,                                    \* TaskProcessorShutdown
  Components, FewComponents,                                \* ComponentSystem
  Forcers, Debuggers, MaxVersion, MaxForces                 \* PeriodicTask

VARIABLES
  subject,
  \* TaskProcessorShutdown
  tpLife, tpCancelled, tpRefs, tpHandle, tpAdd, tpNode, tpAwaiter, tpNodes, tpFree, tpPointer,
  tpNewCancel, tpCleaner, tpCursor, tpHeld, tpQueue, tpWorker,
  \* ComponentSystem
  syWants, syDeps, syFound, syAlive, syStage, syCancelled, syNotified, syPc, syPending, syPhase,
  syTodo, syFailing,
  \* PeriodicTask
  ptTask, ptCancelled, ptSettings, ptWriting, ptEvent, ptForce, ptSuspended, ptStepping, ptRpc,
  ptFailed, ptPeriod, ptOpc, ptStarting, ptSpc, ptFpc, ptForces, ptDpc, ptOwed

TP == INSTANCE TaskProcessorShutdown WITH
  life <- tpLife, cancelled <- tpCancelled, refs <- tpRefs, handle <- tpHandle, add <- tpAdd,
  node <- tpNode, awaiter <- tpAwaiter, nodes <- tpNodes, free <- tpFree, pointer <- tpPointer,
  newCancel <- tpNewCancel, cleaner <- tpCleaner, cursor <- tpCursor, held <- tpHeld,
  queue <- tpQueue, worker <- tpWorker

SY == INSTANCE ComponentSystem WITH
  MayThrow <- {"constructor"}, wants <- syWants, deps <- syDeps, found <- syFound, alive <- syAlive,
  stage <- syStage, cancelled <- syCancelled, notified <- syNotified, pc <- syPc,
  pending <- syPending, phase <- syPhase, todo <- syTodo, failing <- syFailing

SF == INSTANCE ComponentSystem WITH
  Components <- FewComponents, MayThrow <- {"constructor", "OnAllComponentsLoaded"},
  wants <- syWants, deps <- syDeps, found <- syFound, alive <- syAlive, stage <- syStage,
  cancelled <- syCancelled, notified <- syNotified, pc <- syPc, pending <- syPending,
  phase <- syPhase, todo <- syTodo, failing <- syFailing

PT == INSTANCE PeriodicTask WITH
  kNow <- FALSE, Timed <- TRUE, task <- ptTask, cancelled <- ptCancelled, settings <- ptSettings,
  writing <- ptWriting, event <- ptEvent, force <- ptForce, suspended <- ptSuspended,
  stepping <- ptStepping, rpc <- ptRpc, failed <- ptFailed, period <- ptPeriod, opc <- ptOpc,
  starting <- ptStarting, spc <- ptSpc, fpc <- ptFpc, forces <- ptForces, dpc <- ptDpc,
  owed <- ptOwed

PW == INSTANCE PeriodicTask WITH
  Debuggers <- {}, kNow <- TRUE, Timed <- FALSE, task <- ptTask, cancelled <- ptCancelled,
  settings <- ptSettings, writing <- ptWriting, event <- ptEvent, force <- ptForce,
  suspended <- ptSuspended, stepping <- ptStepping, rpc <- ptRpc, failed <- ptFailed,
  period <- ptPeriod, opc <- ptOpc, starting <- ptStarting, spc <- ptSpc, fpc <- ptFpc,
  forces <- ptForces, dpc <- ptDpc, owed <- ptOwed

ASSUME StoppedAssumption ==
       /\ StorageAssumption /\ TP!ShutdownAssumption /\ SY!SystemAssumption /\ SF!SystemAssumption
       /\ PT!PeriodicAssumption /\ PW!PeriodicAssumption

tokenVars == vars
tpVars ==
  <<tpLife, tpCancelled, tpRefs, tpHandle, tpAdd, tpNode, tpAwaiter, tpNodes, tpFree, tpPointer,
    tpNewCancel, tpCleaner, tpCursor, tpHeld, tpQueue, tpWorker>>
syVars ==
  <<syWants, syDeps, syFound, syAlive, syStage, syCancelled, syNotified, syPc, syPending, syPhase,
    syTodo, syFailing>>
ptVars ==
  <<ptTask, ptCancelled, ptSettings, ptWriting, ptEvent, ptForce, ptSuspended, ptStepping, ptRpc,
    ptFailed, ptPeriod, ptOpc, ptStarting, ptSpc, ptFpc, ptForces, ptDpc, ptOwed>>
allVars == <<subject, tokenVars, tpVars, syVars, ptVars>>

Systems == {"ComponentSystem", "FailingSystem"}
PeriodicTasks == {"PeriodicTask", "WaitingTask"}

\* Components are interchangeable: they are named in the order of how many others they want.
Ordered ==
  LET cs == SetToSeq(Components) IN
  \A i \in 1 .. Len(cs) - 1 : Cardinality(syWants[cs[i]]) <= Cardinality(syWants[cs[i + 1]])

AllInit ==
  /\ subject \in Subjects
  /\ Init /\ TP!Init
  /\ IF subject = "FailingSystem" THEN SF!Init ELSE SY!Init
  /\ subject = "ComponentSystem" => Ordered
  /\ subject \notin Systems => \A c \in Components : syWants[c] = {}
  /\ IF subject = "WaitingTask" THEN PW!Init ELSE PT!Init

\* The components whose name is not in subjects rest.
OthersRest(subjects) ==
  /\ subject \in subjects
  /\ UNCHANGED subject
  /\ IF "WaitTokenStorage" \in subjects THEN TRUE ELSE UNCHANGED tokenVars
  /\ IF "TaskProcessor" \in subjects THEN TRUE ELSE UNCHANGED tpVars
  /\ IF "ComponentSystem" \in subjects THEN TRUE ELSE UNCHANGED syVars
  /\ IF "PeriodicTask" \in subjects THEN TRUE ELSE UNCHANGED ptVars

AllNext ==
  \/ OthersRest({"WaitTokenStorage"}) /\ Next
  \/ OthersRest({"TaskProcessor"}) /\ TP!Next
  \/ OthersRest(Systems) /\ \/ subject = "ComponentSystem" /\ SY!Next
                            \/ subject = "FailingSystem" /\ SF!Next
  \/ OthersRest(PeriodicTasks) /\ \/ subject = "PeriodicTask" /\ PT!Next
                                  \/ subject = "WaitingTask" /\ PW!Next

\* Each component is run with its fairness, when it is the subject. One at rest has no
\* fair step enabled, unless the subject is named here. Constructors and hooks return and
\* the service is stopped one day; the periodic callback returns, and whoever has begun a
\* call of PeriodicTask goes on.
AllFairness ==
  /\ Fairness
  /\ TP!Fairness
  /\ \A c \in Components : /\ WF_syVars(subject = "ComponentSystem" /\ SY!ConstructStep(c))
                           /\ WF_syVars(subject = "ComponentSystem" /\ SY!SwitchStep(c))
  /\ WF_syVars(subject = "ComponentSystem" /\ SY!ManagerStep)
  /\ \A c \in FewComponents : /\ WF_syVars(subject = "FailingSystem" /\ SF!ConstructStep(c))
                              /\ WF_syVars(subject = "FailingSystem" /\ SF!SwitchStep(c))
  /\ WF_syVars(subject = "FailingSystem" /\ SF!ManagerStep)
  /\ WF_ptVars(subject = "WaitingTask" /\ PW!Run)
  /\ WF_ptVars(subject = "WaitingTask" /\ PW!OwnerStep)
  /\ WF_ptVars(subject = "WaitingTask" /\ PW!SendChanged)
  /\ \A f \in Forcers : WF_ptVars(subject = "WaitingTask" /\ PW!SendForce(f))

AllSpec == AllInit /\ [][AllNext]_allVars /\ AllFairness

----------------------------------------------------------------------------
(* Properties *)

\* WaitForAllTokens() returns, and the storage is destroyed, only when no token is alive,
\* and it sleeps only while a token is alive or one that died is about to signal; late
\* signals of tokens of an earlier storage of the same object do not count.
TokenStorageSafe == TypeOK /\ NoTokenOutlivesWait /\ NoLostSignal

\* Cleanup() of a TaskProcessor misses no detached task, whichever way Add() and
\* RequestCancellation() interleave; the tokens hold no dangling and leak no live
\* TaskContext; and a "stop" in the queue never overtakes a task.
TaskProcessorSafe ==
  TP!TypeOK /\ TP!DetachedAreCancelled /\ TP!RefsExact /\ TP!TokensAreOwned /\ TP!NothingAfterStop

\* The components one has found outlive it, through failed loads and cancelled searches.
\* If only constructors throw, the dependencies have no circle, whoever was created is
\* told of a failed load, and the hooks run in the order of the dependencies.
ComponentSystemSafe ==
  IF subject = "FailingSystem"
  THEN SF!TypeOK /\ SF!DependenciesOutlive
  ELSE SY!TypeOK /\ SY!DependenciesAcyclic /\ SY!DependenciesOutlive /\ SY!CreatedIsTold /\ SY!HooksInOrder

\* A forced step is never forgotten and a replaced period never waited for, whichever
\* waits time out; a suspended task makes no step; and, unless a testsuite task steps it,
\* the callback is not running once Stop() has returned.
PeriodicTaskSafe ==
  IF subject = "WaitingTask"
  THEN PW!TypeOK /\ PW!ForceNotLost /\ PW!NoStalePeriod /\ PW!StoppedIsQuiet
  ELSE PT!TypeOK /\ PT!ForceNotLost /\ PT!NoStalePeriod /\ PT!SuspendedIsQuiet

Stopping ==
  \/ subject = "WaitTokenStorage" /\ opc = "wait"
  \/ subject = "TaskProcessor" /\ tpCleaner = "flagged"
  \/ subject \in Systems
  \/ subject = "WaitingTask" /\ (ptOpc # "idle" \/ (ptOwed /\ ptTask))

Stopped ==
  \/ subject = "WaitTokenStorage" /\ opc = "done"
  \/ subject = "TaskProcessor" /\ tpCleaner = "down"
  \/ subject \in Systems /\ syPhase = "end"
  \/ subject = "WaitingTask" /\ ptOpc = "idle" /\ ~(ptOwed /\ ptTask)

\* Whatever is being stopped comes to its end: WaitForAllTokens() and Cleanup() return, a
\* service is torn down in the end whatever its components want and whatever fails, and
\* Start() and Stop() of a periodic task return. A step that was forced is made without
\* a period to wait for, unless the task is stopped.
StopsEnd == Stopping ~> Stopped
=============================================================================
