----------------------------- MODULE MCWakeups -----------------------------
(***************************************************************************)
(* Does anybody who waits sleep on, beside what it waits for? Mutex, and   *)
(* as instances Semaphore, LightMutex, ConditionVariable, SharedMutex,     *)
(* WaitAny, SingleConsumerEvent, WaitAllChecked and WorkStealing. They     *)
(* share nothing, so a behaviour exercises one of them, its subject, and   *)
(* the others stay in their initial states.                                *)
(***************************************************************************)
EXTENDS Mutex

CONSTANTS
  Subjects,                                     \* the components to look at
  Pair,                                         \* two tasks, of LightMutex and CancellableSemaphore
  MaxSets, CounterModulus,                      \* Semaphore
  Consumers, Producers, MaxItems,               \* ConditionVariable
  MaxWaits,                                     \* WaitAny and SingleConsumerEvent
  Readers, Writers, kWriterLock,                \* SharedMutex
  Awaitables, MaxAppends,                       \* WaitAny
  Senders, MaxSends,                            \* SingleConsumerEvent
  Size,                                         \* WaitAllChecked
  Workers, Stopper, Jobs,                       \* WorkStealing
  LocalCapacity, GrabBatchCap, StealSize, StealSeries

VARIABLES
  subject,
  \* Semaphore
  seAcquired, seCapacity, seSleepies, seList, seNeed, seTimed, seCancelled, seSeen, seStatus,
  seSignals, seLocks, sePc, seAdmin, seSets,
  \* LightMutex
  lmOwner, lmWord, lmEpoch, lmSignals, lmTimed, lmLocks, lmResult, lmCarried, lmPc,
  \* ConditionVariable
  cvOwner, cvItems, cvList, cvSleepies, cvSignals, cvTimed, cvCancelled, cvStatus, cvCalls, cvPc,
  \* SharedMutex
  smAcquired, smSemList, smWriters, smCvOwner, smCvList, smSignals, smTimed, smCancelled,
  smReleased, smPc,
  \* WaitAny
  waLinked, waTaken, waStage, waAwaitable, waSubscribed, waPending, waUnused, waNotified, waCount,
  waRefs, waEvent, waPc, waNext, waWaits, waAppended, waReported,
  \* SingleConsumerEvent
  evWord, evEpoch, evSignals, evTimed, evCancelled, evStatus, evPc, evCarried, evSends, evUnread,
  \* WaitAllChecked
  alOutcome, alReady, alLinked, alStage, alWakes, alPending, alSource, alEvent, alRefs,
  alSubscribed, alIndex, alPc, alStatus,
  \* WorkStealing
  wsGlobal, wsLocal, wsBuf, wsHand, wsPc, wsVictims, wsRounds, wsIdle, wsSpinning, wsWoken, wsNpc,
  wsTarget, wsStop, wsFresh

SE == INSTANCE Semaphore WITH
  Cancellable <- FALSE, Needs <- {1}, InitialCapacity <- 1, Capacities <- {0, 2},
  acquired <- seAcquired, capacity <- seCapacity, sleepies <- seSleepies, list <- seList,
  need <- seNeed, timed <- seTimed, cancelled <- seCancelled, seen <- seSeen, status <- seStatus,
  signals <- seSignals, locks <- seLocks, pc <- sePc, admin <- seAdmin, sets <- seSets

CS == INSTANCE Semaphore WITH
  Tasks <- Pair, Cancellable <- TRUE, Needs <- {1, 2}, InitialCapacity <- 2, Capacities <- {1},
  acquired <- seAcquired, capacity <- seCapacity, sleepies <- seSleepies, list <- seList,
  need <- seNeed, timed <- seTimed, cancelled <- seCancelled, seen <- seSeen, status <- seStatus,
  signals <- seSignals, locks <- seLocks, pc <- sePc, admin <- seAdmin, sets <- seSets

LM == INSTANCE LightMutex WITH
  Tasks <- Pair, owner <- lmOwner, word <- lmWord, epoch <- lmEpoch, signals <- lmSignals,
  timed <- lmTimed, locks <- lmLocks, result <- lmResult, carried <- lmCarried, pc <- lmPc

CV == INSTANCE ConditionVariable WITH
  MaxWaits <- 1, owner <- cvOwner, items <- cvItems, list <- cvList, sleepies <- cvSleepies,
  signals <- cvSignals, timed <- cvTimed, cancelled <- cvCancelled, status <- cvStatus,
  calls <- cvCalls, pc <- cvPc

SM == INSTANCE SharedMutex WITH
  acquired <- smAcquired, semList <- smSemList, writers <- smWriters, cvOwner <- smCvOwner,
  cvList <- smCvList, signals <- smSignals, timed <- smTimed, cancelled <- smCancelled,
  released <- smReleased, pc <- smPc

WA == INSTANCE WaitAny WITH
  linked <- waLinked, taken <- waTaken, stage <- waStage, awaitable <- waAwaitable,
  subscribed <- waSubscribed, pending <- waPending, unused <- waUnused, notified <- waNotified,
  count <- waCount, refs <- waRefs, event <- waEvent, pc <- waPc, next <- waNext, waits <- waWaits,
  appended <- waAppended, reported <- waReported

EV == INSTANCE SingleConsumerEvent WITH
  IsAutoReset <- TRUE, word <- evWord, epoch <- evEpoch, signals <- evSignals, timed <- evTimed,
  cancelled <- evCancelled, status <- evStatus, pc <- evPc, carried <- evCarried, sends <- evSends,
  unread <- evUnread

ME == INSTANCE SingleConsumerEvent WITH
  IsAutoReset <- FALSE, word <- evWord, epoch <- evEpoch, signals <- evSignals, timed <- evTimed,
  cancelled <- evCancelled, status <- evStatus, pc <- evPc, carried <- evCarried, sends <- evSends,
  unread <- evUnread

AL == INSTANCE WaitAllChecked WITH
  outcome <- alOutcome, ready <- alReady, linked <- alLinked, stage <- alStage, wakes <- alWakes,
  pending <- alPending, source <- alSource, event <- alEvent, refs <- alRefs,
  subscribed <- alSubscribed, index <- alIndex, pc <- alPc, status <- alStatus

WS == INSTANCE WorkStealing WITH
  Tasks <- Jobs, None <- NoTask, global <- wsGlobal, local <- wsLocal, buf <- wsBuf, hand <- wsHand,
  pc <- wsPc, victims <- wsVictims, rounds <- wsRounds, idle <- wsIdle, spinning <- wsSpinning,
  woken <- wsWoken, npc <- wsNpc, target <- wsTarget, stop <- wsStop, fresh <- wsFresh

ASSUME WakeupsAssumption ==
       /\ SE!SemaphoreAssumption /\ CS!SemaphoreAssumption /\ LM!LightMutexAssumption
       /\ CV!CvAssumption /\ SM!SharedMutexAssumption /\ WA!WaitAnyAssumption
       /\ EV!EventAssumption /\ AL!SizeAssumption /\ WS!StealingAssumption

mutexVars == vars
seVars ==
  <<seAcquired, seCapacity, seSleepies, seList, seNeed, seTimed, seCancelled, seSeen, seStatus,
    seSignals, seLocks, sePc, seAdmin, seSets>>
lmVars == <<lmOwner, lmWord, lmEpoch, lmSignals, lmTimed, lmLocks, lmResult, lmCarried, lmPc>>
cvVars ==
  <<cvOwner, cvItems, cvList, cvSleepies, cvSignals, cvTimed, cvCancelled, cvStatus, cvCalls, cvPc>>
smVars ==
  <<smAcquired, smSemList, smWriters, smCvOwner, smCvList, smSignals, smTimed, smCancelled,
    smReleased, smPc>>
waVars ==
  <<waLinked, waTaken, waStage, waAwaitable, waSubscribed, waPending, waUnused, waNotified, waCount,
    waRefs, waEvent, waPc, waNext, waWaits, waAppended, waReported>>
evVars ==
  <<evWord, evEpoch, evSignals, evTimed, evCancelled, evStatus, evPc, evCarried, evSends, evUnread>>
alVars ==
  <<alOutcome, alReady, alLinked, alStage, alWakes, alPending, alSource, alEvent, alRefs,
    alSubscribed, alIndex, alPc, alStatus>>
wsVars ==
  <<wsGlobal, wsLocal, wsBuf, wsHand, wsPc, wsVictims, wsRounds, wsIdle, wsSpinning, wsWoken, wsNpc,
    wsTarget, wsStop, wsFresh>>
allVars == <<subject, mutexVars, seVars, lmVars, cvVars, smVars, waVars, evVars, alVars, wsVars>>

Mutexes == {"Mutex", "HeldMutex"}     \* whose owner unlocks in the end, or need not
Semaphores == {"Semaphore", "CancellableSemaphore"}
Events == {"AutoResetEvent", "ManualResetEvent"}

AllInit ==
  /\ subject \in Subjects
  /\ Init
  /\ IF subject = "CancellableSemaphore" THEN CS!Init ELSE SE!Init
  /\ LM!Init /\ CV!Init /\ SM!Init /\ WA!Init /\ EV!Init /\ WS!Init
  /\ AL!Init
  /\ subject # "WaitAllChecked" => /\ alOutcome = [t \in AL!Targets |-> "value"]
                                   /\ alReady = [t \in AL!Targets |-> FALSE]

\* The components whose name is not in subjects rest.
OthersRest(subjects) ==
  /\ subject \in subjects
  /\ UNCHANGED subject
  /\ IF "Mutex" \in subjects THEN TRUE ELSE UNCHANGED mutexVars
  /\ IF "Semaphore" \in subjects THEN TRUE ELSE UNCHANGED seVars
  /\ IF "LightMutex" \in subjects THEN TRUE ELSE UNCHANGED lmVars
  /\ IF "ConditionVariable" \in subjects THEN TRUE ELSE UNCHANGED cvVars
  /\ IF "SharedMutex" \in subjects THEN TRUE ELSE UNCHANGED smVars
  /\ IF "WaitAny" \in subjects THEN TRUE ELSE UNCHANGED waVars
  /\ IF "AutoResetEvent" \in subjects THEN TRUE ELSE UNCHANGED evVars
  /\ IF "WaitAllChecked" \in subjects THEN TRUE ELSE UNCHANGED alVars
  /\ IF "WorkStealing" \in subjects THEN TRUE ELSE UNCHANGED wsVars

AllNext ==
  \/ OthersRest(Mutexes) /\ Next
  \/ OthersRest(Semaphores) /\ \/ subject = "Semaphore" /\ SE!Next
                               \/ subject = "CancellableSemaphore" /\ CS!Next
  \/ OthersRest({"LightMutex"}) /\ LM!Next
  \/ OthersRest({"ConditionVariable"}) /\ CV!Next
  \/ OthersRest({"SharedMutex"}) /\ SM!Next
  \/ OthersRest({"WaitAny"}) /\ WA!Next
  \/ OthersRest(Events) /\ \/ subject = "AutoResetEvent" /\ EV!Next
                           \/ subject = "ManualResetEvent" /\ ME!Next
  \/ OthersRest({"WaitAllChecked"}) /\ AL!Next
  \/ OthersRest({"WorkStealing"}) /\ WS!Next

AllSpec == AllInit /\ [][AllNext]_allVars

\* Each component is run with its own fairness, when it is the subject. One at rest has
\* no fair step enabled, unless the subject is named here.
AllFairness ==
  /\ \A t \in Tasks : /\ WF_mutexVars(subject = "Mutex" /\ Step(t))
                      /\ WF_mutexVars(subject = "HeldMutex" /\ Step(t) /\ pc[t] # "locked")
                      /\ WF_mutexVars(DeadlineTimer(t))
  /\ WF_seVars(subject = "Semaphore" /\ SE!AdminStep)
  /\ \A t \in Tasks : /\ WF_seVars(subject = "Semaphore" /\ SE!LockStep(t))
                      /\ WF_seVars(subject = "Semaphore" /\ SE!UnlockStep(t))
                      /\ WF_seVars(subject = "Semaphore" /\ SE!DeadlineTimer(t))
  /\ LM!Fairness /\ CV!Fairness /\ SM!Fairness /\ WA!Fairness
  /\ WF_evVars(subject = "AutoResetEvent" /\ EV!ConsumerStep)
  /\ WF_evVars(subject = "ManualResetEvent" /\ ME!ConsumerStep)
  /\ \A s \in Senders : WF_evVars(EV!DoNotify(s))
  /\ WF_alVars(subject = "WaitAllChecked" /\ AL!ConsumerStep)
  /\ \A t \in AL!Targets : WF_alVars(AL!NotifyAndDispose(t))
  /\ \A w \in Workers : WF_wsVars(subject = "WorkStealing" /\ WS!WorkerStep(w))
  /\ \A a \in WS!Notifiers : WF_wsVars(WS!Notify(a))

FairSpec == AllSpec /\ AllFairness

----------------------------------------------------------------------------
(* Properties *)

\* The semaphore neither leaks nor invents permits, respects its capacity, and leaves no
\* waiter beside permits that it could use: each of them has a task that will take it or
\* wake somebody. A CancellableSemaphore, whose waiters are cancelled and ask for
\* different counts, keeps the count and the bound.
SemaphoreSafe ==
  IF subject = "CancellableSemaphore"
  THEN CS!TypeOK /\ CS!PermitsAccounted /\ CS!CapacityRespected
  ELSE SE!TypeOK /\ SE!PermitsAccounted /\ SE!CapacityRespected /\ SE!NoLostWakeup /\ SE!EveryPermitHasTaker

\* The users of the one-word list. SingleWaitingTaskMutex lets in one task, the word never
\* holds the awaiter of a call that is over, and no unlock() falls between the failed try
\* and the entry. The signal of an event is never lost and never reported for another
\* wait, in either reset mode: what a timed-out wait left behind is kept for the next one.
LightListsSafe ==
  /\ LM!TypeOK /\ LM!MutualExclusion /\ LM!WordIsOfWaiter /\ LM!NoLostWakeup
  /\ EV!TypeOK /\ EV!ReadyWhenNotified /\ EV!SignalKept /\ EV!NoLostSignal

\* A predicate is looked at under the mutex, and no item stays beside a sleeping
\* consumer though deadlines and cancellations race the notifications.
ConditionVariableSafe == CV!TypeOK /\ CV!UnderMutex /\ CV!EveryItemHasTaker

\* A writer is alone, also beside one that turns into a reader, and neither kind of
\* waiter is forgotten, in the semaphore or in the condition variable.
SharedMutexSafe == SM!TypeOK /\ SM!WriterIsAlone /\ SM!NoLostWakeup /\ SM!NoForgottenReader

\* WaitAnyContext reports an awaitable only when it is ready, keeps every append in one
\* place, frees what notifiers use after them, and does not sleep beside a notification.
\* WaitAllChecked() reports success only when every target succeeded, does not sleep
\* beside a failure, and frees what notifiers use after them.
WaitSetsSafe ==
  /\ WA!TypeOK /\ WA!NotifiedAreReady /\ WA!SizeExact /\ WA!RefsExact /\ WA!NoLostNotification
  /\ AL!TypeOK /\ AL!ReadyMeansAllSucceeded /\ AL!NoLostWakeup /\ AL!RefsExact

\* The workers are never all asleep beside a task with nobody about to wake one: every
\* order of pushing, spinning, stepping down and looking again. Who sleeps can be found.
WorkStealingSafe == WS!TypeOK /\ WS!NoTaskStranded /\ WS!SleeperIsListed

\* Somebody waits and can be served. Tasks of one kind are interchangeable: one of each
\* stands for them.
ATask == CHOOSE t \in Tasks : TRUE
OneOfPair == CHOOSE t \in Pair : TRUE
AConsumer == CHOOSE c \in Consumers : TRUE
AWriter == CHOOSE w \in Writers : TRUE
AJob == CHOOSE j \in Jobs : TRUE

Waiting ==
  \/ subject = "Mutex" /\ pc[ATask] = "lock" /\ ~timed[ATask]
  \/ subject = "HeldMutex" /\ pc[ATask] = "lock" /\ timed[ATask]
  \/ subject = "Semaphore" /\ sePc[ATask] = "count"
  \/ subject = "LightMutex" /\ lmPc[OneOfPair] = "sleep" /\ ~lmTimed[OneOfPair]
  \/ subject = "ConditionVariable" /\ cvPc[AConsumer] = "asleep" /\ cvItems > 0
  \/ subject = "SharedMutex" /\ smPc[AWriter] = "try" /\ ~smTimed[AWriter]
  \/ subject = "WaitAny" /\ waPc = "wait" /\ WA!SubscribedToReady
  \/ subject \in Events /\ evPc = "asleep" /\ evUnread
  \/ subject = "WaitAllChecked" /\ (AL!AllEnded \/ AL!SomeFailed)
  \/ subject = "WorkStealing" /\ AJob \in WS!Queued

Served ==
  \/ subject = "Mutex" /\ Inside(ATask)
  \/ subject = "HeldMutex" /\ (Inside(ATask) \/ pc[ATask] = "idle")
  \/ subject = "Semaphore" /\ sePc[ATask] \in {"held", "idle"}
  \/ subject = "LightMutex" /\ lmPc[OneOfPair] = "locked"
  \/ subject = "ConditionVariable" /\ (cvPc[AConsumer] # "asleep" \/ cvItems = 0)
  \/ subject = "SharedMutex" /\ smPc[AWriter] = "exclusive"
  \/ subject = "WaitAny" /\ waPc \in {"idle", "gone"}
  \/ subject \in Events /\ evPc = "idle"
  \/ subject = "WaitAllChecked" /\ alPc = "gone"
  \/ subject = "WorkStealing" /\ (wsStop \/ \E w \in Workers : wsHand[w] = AJob)

\* Whoever waits is served: lock() without a deadline gets its mutex, a call with one ends
\* even if the owner never unlocks, a semaphore call ends, a consumer wakes beside an
\* item, a writer gets in though readers keep coming ("writers don't starve",
\* shared_mutex.hpp), a context with a ready awaitable and the waiter of a signalled event
\* go on, WaitAllChecked() ends with the last target or the first failure, and a task
\* that is pushed is run although the workers go to sleep meanwhile.
WaitsEnd == Waiting ~> Served
=============================================================================
