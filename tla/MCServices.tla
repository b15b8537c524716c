----------------------------- MODULE MCServices -----------------------------
(***************************************************************************)
(* Do the services built on the engine keep their promises? As instances:  *)
(* the connection pool, requests of the HTTP client, the asynchronous      *)
(* logger, FdPoller, the event channel and the config storage on it, cache *)
(* updates, dumps, and DistLockedTask. They share nothing, so a behaviour  *)
(* exercises one of them, its subject, and the others stay in their        *)
(* initial states. PlainRequest has no resolver, no deadline and ignores   *)
(* cancellations; BlockingLogger blocks when its queue is full;            *)
(* SharedChannel has two senders; Dumper reports every change itself,      *)
(* CacheDumper is a cache that reports updates, TestedDumper one that is   *)
(* also told to write dumps.                                               *)
(***************************************************************************)
EXTENDS Naturals, FiniteSets

CONSTANTS
  Subjects,                                                 \* the components to look at
  Owner, Worker, Task, None, Debuggers, MaxVersion, MaxFailures, MaxConfigs, MaxCrashes,
  Clients, MinSize, MaxSize, MaxQueueSize, MaxConnects, MaxMaintains, MaxCleaned,
                                                            \* ConnectionPool
  Retries, MaxRequests,                                     \* HttpRequest
  Loggers, Flusher, QueueBound, kMaxVectorBatchSize, PushMayFail, MaxLogs, MaxStarts,
                                                            \* TpLogger
  MaxEpoch,                                                 \* FdPoller
  Senders, Listeners,                                       \* AsyncEventChannel, StorageData
  Users, Timed, FailedUpdatesBeforeExpiration, MaxChanges, MaxInvalidations, MaxDebugs,
                                                            \* CacheUpdates
  Signallers, Caches, MaxCount, MaxChecks,                  \* Dumper
  Hosts, Nobody, Dead, Ttls, Margin, MaxAnswer              \* DistLock

VARIABLES
  subject,
  \* ConnectionPool
  cpVersion, cpSize, cpUsed, cpWaiting, cpPending, cpConnecting, cpQueue, cpCleanup, cpCleaned,
  cpClosing, cpUpc, cpSeen, cpOwn, cpMpc, cpCount, cpDropLeft, cpMown, cpDpc, cpConnects,
  cpMaintains,
  \* HttpRequest
  hrTask, hrRequest, hrCompleted, hrCancelled, hrCurrent, hrPromise, hrCounter, hrCancelledMax,
  hrRead, hrResolver, hrQueue, hrRegistered, hrTimer, hrFinishing, hrStopped, hrLate,
  \* TpLogger
  tlState, tlQueue, tlEmptyEvent, tlStartEvent, tlPass, tlProduced, tlConsumed, tlMutex, tlPc,
  tlBatch, tlMine, tlDone, tlPushed, tlWritten, tlBefore, tlStarts,
  \* FdPoller
  fdSlot, fdEvents, fdValid, fdPc, fdThen, fdNotified, fdDirty, fdRunning, fdPending, fdOp,
  fdInQueue, fdCount, fdDelivered, fdQueue, fdEvpc, fdWanted, fdReady, fdOpen,
  \* StorageData
  ecVersion, ecSending, ecSpc, ecWriter, ecReaders, ecDataOwner, ecListeners, ecVisit, ecTasks,
  ecCallback, ecSkipped, ecCb, ecOp, ecKind, ecCaller, ecLast, ecMissed, ecUpc, ecUwriter, ecUreaders,
  ecUlock,
  \* CacheUpdates
  cuConf, cuDump, cuSource, cuCache, cuNull, cuRunning, cuFirst, cuForceFull, cuDumpFirst,
  cuAttempted, cuFailures, cuUpdated, cuEnabled, cuMutex, cuForced, cuPc, cuType, cuRead, cuRet,
  cuNeed, cuSynced, cuChanges, cuInvalidations, cuFails, cuConfigs, cuDebugs,
  \* Dumper
  duClock, duVersion, duFiles, duTmps, duData, duUpdTime, duStatus, duDataSignal, duConfigSignal,
  duEnabled, duDumped, duUpdLock, duDumpLock, duCancelled, duUpc, duUtime, duUver, duWpc, duWtime,
  duPrevOk, duSeen, duLpc, duLoading, duCpc, duChecks, duFailures, duCrashes, duConfigs, duDurable,
  duKnownAt, duDisk,
  \* DistLock
  dlLease, dlLocker, dlRequest, dlStray, dlWatchdog, dlWorker, dlCrashes

ALogger == CHOOSE t \in Loggers : TRUE
ASender == CHOOSE s \in Senders : TRUE
AListener == CHOOSE k \in Listeners : TRUE

\* The static configs of a cache: every way to start it, with both types of updates; a
\* cache whose updates are not timed is only told to update.
Configs ==
  {[types |-> IF Timed THEN "FullAndIncremental" ELSE "OnlyIncremental", mode |-> m, first |-> f,
    failOk |-> ok, noFirst |-> n, periodic |-> p] :
     m \in IF Timed THEN {"Skip", "Required", "BestEffort"} ELSE {"Skip"},
     f \in {"Full", "IncrementalThenAsyncFull"},
     ok \in IF Timed THEN BOOLEAN ELSE {FALSE}, n \in BOOLEAN, p \in BOOLEAN}

\* The configs that a run takes. Without a dump mode and first are not looked at, nor is noFirst
\* without periodic updates, and with a dump noFirst is what mode Skip is: one stands for all. To
\* keep the run small, a first update that may fail is taken without a dump only.
ConfigMatters(c, dump) ==
  /\ ~dump => c.first = "Full" /\ (Timed => c.mode = "Required")
  /\ c.noFirst => c.periodic /\ (Timed => ~dump)
  /\ c.failOk => ~dump

CP == INSTANCE ConnectionPool WITH
  Users <- Clients, MaxVersion <- 1, version <- cpVersion, size <- cpSize, used <- cpUsed,
  waiting <- cpWaiting, pending <- cpPending, connecting <- cpConnecting, queue <- cpQueue,
  cleanup <- cpCleanup, cleaned <- cpCleaned, closing <- cpClosing, upc <- cpUpc, seen <- cpSeen,
  own <- cpOwn, mpc <- cpMpc, count <- cpCount, dropLeft <- cpDropLeft, mown <- cpMown,
  dpc <- cpDpc, connects <- cpConnects, maintains <- cpMaintains

HR == INSTANCE HttpRequest WITH
  OnFails <- TRUE, HasResolver <- TRUE, HasDeadline <- TRUE, CancelPolicy <- TRUE, task <- hrTask,
  request <- hrRequest, completed <- hrCompleted, cancelled <- hrCancelled, current <- hrCurrent,
  promise <- hrPromise, counter <- hrCounter, cancelledMax <- hrCancelledMax, read <- hrRead,
  resolver <- hrResolver, queue <- hrQueue, registered <- hrRegistered, timer <- hrTimer,
  finishing <- hrFinishing, stopped <- hrStopped, late <- hrLate

HP == INSTANCE HttpRequest WITH
  OnFails <- TRUE, HasResolver <- FALSE, HasDeadline <- FALSE, CancelPolicy <- FALSE,
  task <- hrTask, request <- hrRequest, completed <- hrCompleted, cancelled <- hrCancelled,
  current <- hrCurrent, promise <- hrPromise, counter <- hrCounter, cancelledMax <- hrCancelledMax,
  read <- hrRead, resolver <- hrResolver, queue <- hrQueue, registered <- hrRegistered,
  timer <- hrTimer, finishing <- hrFinishing, stopped <- hrStopped, late <- hrLate

TL == INSTANCE TpLogger WITH
  Loggers <- {ALogger}, Block <- FALSE, FlushQueueSize <- 1, state <- tlState, queue <- tlQueue,
  emptyEvent <- tlEmptyEvent, startEvent <- tlStartEvent, pass <- tlPass, produced <- tlProduced,
  consumed <- tlConsumed, mutex <- tlMutex, pc <- tlPc, batch <- tlBatch, mine <- tlMine,
  done <- tlDone, pushed <- tlPushed, written <- tlWritten, before <- tlBefore, starts <- tlStarts

TB == INSTANCE TpLogger WITH
  Block <- TRUE, FlushQueueSize <- 0, QueueBound <- 1, MaxStarts <- 0, state <- tlState,
  queue <- tlQueue, emptyEvent <- tlEmptyEvent, startEvent <- tlStartEvent, pass <- tlPass,
  produced <- tlProduced, consumed <- tlConsumed, mutex <- tlMutex, pc <- tlPc, batch <- tlBatch,
  mine <- tlMine, done <- tlDone, pushed <- tlPushed, written <- tlWritten, before <- tlBefore,
  starts <- tlStarts

FD == INSTANCE FdPoller WITH
  slot <- fdSlot, events <- fdEvents, valid <- fdValid, pc <- fdPc, then <- fdThen,
  notified <- fdNotified, dirty <- fdDirty, running <- fdRunning, pending <- fdPending, op <- fdOp,
  inQueue <- fdInQueue, count <- fdCount, delivered <- fdDelivered, queue <- fdQueue,
  evpc <- fdEvpc, wanted <- fdWanted, ready <- fdReady, open <- fdOpen

EC == INSTANCE AsyncEventChannel WITH
  Senders <- {ASender}, MaxVersion <- 1, Kinds <- {"add", "update", "scoped"},
  CallbackCalls <- {"subscribe", "unsubscribe"}, version <- ecVersion, sending <- ecSending,
  spc <- ecSpc, writer <- ecWriter, readers <- ecReaders, dataOwner <- ecDataOwner,
  listeners <- ecListeners, visit <- ecVisit, tasks <- ecTasks, callback <- ecCallback,
  skipped <- ecSkipped, cb <- ecCb, op <- ecOp, kind <- ecKind, caller <- ecCaller, last <- ecLast,
  missed <- ecMissed

ES == INSTANCE AsyncEventChannel WITH
  Kinds <- {"add"}, CallbackCalls <- {}, version <- ecVersion, sending <- ecSending,
  spc <- ecSpc, writer <- ecWriter, readers <- ecReaders, dataOwner <- ecDataOwner,
  listeners <- ecListeners, visit <- ecVisit, tasks <- ecTasks, callback <- ecCallback,
  skipped <- ecSkipped, cb <- ecCb, op <- ecOp, kind <- ecKind, caller <- ecCaller, last <- ecLast,
  missed <- ecMissed

ST == INSTANCE StorageData WITH
  Listeners <- {AListener}, Kinds <- {"update", "scoped"}, CallbackCalls <- {},
  version <- ecVersion, sending <- ecSending, spc <- ecSpc, writer <- ecWriter,
  readers <- ecReaders, dataOwner <- ecDataOwner, listeners <- ecListeners, visit <- ecVisit,
  tasks <- ecTasks, callback <- ecCallback, skipped <- ecSkipped, cb <- ecCb, op <- ecOp,
  kind <- ecKind, caller <- ecCaller, last <- ecLast, missed <- ecMissed, upc <- ecUpc,
  uwriter <- ecUwriter, ureaders <- ecUreaders, ulock <- ecUlock

CU == INSTANCE CacheUpdates WITH
  conf <- cuConf, dump <- cuDump, source <- cuSource, cache <- cuCache, null <- cuNull,
  running <- cuRunning, first <- cuFirst, forceFull <- cuForceFull, dumpFirst <- cuDumpFirst,
  attempted <- cuAttempted, failures <- cuFailures, updated <- cuUpdated, enabled <- cuEnabled,
  mutex <- cuMutex, forced <- cuForced, pc <- cuPc, type <- cuType, read <- cuRead, ret <- cuRet,
  need <- cuNeed, synced <- cuSynced, changes <- cuChanges, invalidations <- cuInvalidations,
  fails <- cuFails, configs <- cuConfigs, debugs <- cuDebugs

DU == INSTANCE Dumper WITH
  Caches <- {}, Debuggers <- {}, ZeroInterval <- FALSE, MaxAge <- 2, ReadWhileUpdating <- FALSE,
  MaxChecks <- 0, clock <- duClock, version <- duVersion, files <- duFiles, tmps <- duTmps,
  data <- duData, updTime <- duUpdTime, status <- duStatus, dataSignal <- duDataSignal,
  configSignal <- duConfigSignal, enabled <- duEnabled, dumped <- duDumped, updLock <- duUpdLock,
  dumpLock <- duDumpLock, cancelled <- duCancelled, upc <- duUpc, utime <- duUtime, uver <- duUver,
  wpc <- duWpc, wtime <- duWtime, prevOk <- duPrevOk, seen <- duSeen, lpc <- duLpc,
  loading <- duLoading, cpc <- duCpc, checks <- duChecks, failures <- duFailures,
  crashes <- duCrashes, configs <- duConfigs, durable <- duDurable, knownAt <- duKnownAt,
  disk <- duDisk

DC == INSTANCE Dumper WITH
  Signallers <- {}, Debuggers <- {}, ZeroInterval <- FALSE, MaxAge <- 1, ReadWhileUpdating <- FALSE,
  MaxFailures <- 0, MaxConfigs <- 0,
  clock <- duClock, version <- duVersion, files <- duFiles, tmps <- duTmps, data <- duData,
  updTime <- duUpdTime, status <- duStatus, dataSignal <- duDataSignal,
  configSignal <- duConfigSignal, enabled <- duEnabled, dumped <- duDumped, updLock <- duUpdLock,
  dumpLock <- duDumpLock, cancelled <- duCancelled, upc <- duUpc, utime <- duUtime, uver <- duUver,
  wpc <- duWpc, wtime <- duWtime, prevOk <- duPrevOk, seen <- duSeen, lpc <- duLpc,
  loading <- duLoading, cpc <- duCpc, checks <- duChecks, failures <- duFailures,
  crashes <- duCrashes, configs <- duConfigs, durable <- duDurable, knownAt <- duKnownAt,
  disk <- duDisk

DT == INSTANCE Dumper WITH
  Signallers <- {}, ZeroInterval <- FALSE, MaxAge <- 1, ReadWhileUpdating <- FALSE, MaxVersion <- 1,
  MaxCrashes <- 0, MaxConfigs <- 0,
  clock <- duClock, version <- duVersion, files <- duFiles, tmps <- duTmps, data <- duData,
  updTime <- duUpdTime, status <- duStatus, dataSignal <- duDataSignal,
  configSignal <- duConfigSignal, enabled <- duEnabled, dumped <- duDumped, updLock <- duUpdLock,
  dumpLock <- duDumpLock, cancelled <- duCancelled, upc <- duUpc, utime <- duUtime, uver <- duUver,
  wpc <- duWpc, wtime <- duWtime, prevOk <- duPrevOk, seen <- duSeen, lpc <- duLpc,
  loading <- duLoading, cpc <- duCpc, checks <- duChecks, failures <- duFailures,
  crashes <- duCrashes, configs <- duConfigs, durable <- duDurable, knownAt <- duKnownAt,
  disk <- duDisk

DL == INSTANCE DistLock WITH
  Mode <- "kOneshot", WaitingMode <- "kNoWait", RetryMode <- "kSingleAttempt", lease <- dlLease,
  locker <- dlLocker, request <- dlRequest, stray <- dlStray, watchdog <- dlWatchdog,
  worker <- dlWorker, crashes <- dlCrashes

ASSUME ServicesAssumption ==
       /\ CP!PoolAssumption /\ HR!HttpRequestAssumption /\ HP!HttpRequestAssumption
       /\ TL!LoggerAssumption /\ TB!LoggerAssumption /\ FD!FdPollerAssumption
       /\ EC!AsyncEventChannelAssumption /\ ES!AsyncEventChannelAssumption
       /\ ST!AsyncEventChannelAssumption
       /\ CU!CacheAssumption /\ DU!DumperAssumption /\ DC!DumperAssumption
       /\ DT!DumperAssumption

cpVars ==
  <<cpVersion, cpSize, cpUsed, cpWaiting, cpPending, cpConnecting, cpQueue, cpCleanup, cpCleaned,
    cpClosing, cpUpc, cpSeen, cpOwn, cpMpc, cpCount, cpDropLeft, cpMown, cpDpc, cpConnects,
    cpMaintains>>
hrVars ==
  <<hrTask, hrRequest, hrCompleted, hrCancelled, hrCurrent, hrPromise, hrCounter, hrCancelledMax,
    hrRead, hrResolver, hrQueue, hrRegistered, hrTimer, hrFinishing, hrStopped, hrLate>>
tlVars ==
  <<tlState, tlQueue, tlEmptyEvent, tlStartEvent, tlPass, tlProduced, tlConsumed, tlMutex, tlPc,
    tlBatch, tlMine, tlDone, tlPushed, tlWritten, tlBefore, tlStarts>>
fdVars ==
  <<fdSlot, fdEvents, fdValid, fdPc, fdThen, fdNotified, fdDirty, fdRunning, fdPending, fdOp,
    fdInQueue, fdCount, fdDelivered, fdQueue, fdEvpc, fdWanted, fdReady, fdOpen>>
ecVars ==
  <<ecVersion, ecSending, ecSpc, ecWriter, ecReaders, ecDataOwner, ecListeners, ecVisit, ecTasks,
    ecCallback, ecSkipped, ecCb, ecOp, ecKind, ecCaller, ecLast, ecMissed, ecUpc, ecUwriter,
    ecUreaders, ecUlock>>
cuVars ==
  <<cuConf, cuDump, cuSource, cuCache, cuNull, cuRunning, cuFirst, cuForceFull, cuDumpFirst,
    cuAttempted, cuFailures, cuUpdated, cuEnabled, cuMutex, cuForced, cuPc, cuType, cuRead, cuRet,
    cuNeed, cuSynced, cuChanges, cuInvalidations, cuFails, cuConfigs, cuDebugs>>
duVars ==
  <<duClock, duVersion, duFiles, duTmps, duData, duUpdTime, duStatus, duDataSignal, duConfigSignal,
    duEnabled, duDumped, duUpdLock, duDumpLock, duCancelled, duUpc, duUtime, duUver, duWpc, duWtime,
    duPrevOk, duSeen, duLpc, duLoading, duCpc, duChecks, duFailures, duCrashes, duConfigs,
    duDurable, duKnownAt, duDisk>>
dlVars == <<dlLease, dlLocker, dlRequest, dlStray, dlWatchdog, dlWorker, dlCrashes>>
allVars == <<subject, cpVars, hrVars, tlVars, fdVars, ecVars, cuVars, duVars, dlVars>>

Requests == {"HttpRequest", "PlainRequest"}
AsyncLoggers == {"TpLogger", "BlockingLogger"}
Channels == {"AsyncEventChannel", "SharedChannel", "StorageData"}
Dumpers == {"Dumper", "CacheDumper", "TestedDumper"}

AllInit ==
  /\ subject \in Subjects
  /\ CP!Init /\ HR!Init /\ FD!Init /\ DL!Init
  /\ IF subject = "BlockingLogger" THEN TB!Init ELSE TL!Init
  /\ CASE subject = "AsyncEventChannel" -> EC!Init
       [] subject = "SharedChannel" -> ES!Init
       [] OTHER -> ST!StorageInit
  /\ subject \in Channels \ {"StorageData"} =>
       ecUpc = <<>> /\ ecUwriter = None /\ ecUreaders = {} /\ ecUlock = <<>>
  /\ CU!Init
  /\ subject = "CacheUpdates" => ConfigMatters(cuConf, cuDump)
  /\ subject # "CacheUpdates" => cuConf = (CHOOSE c \in Configs : TRUE) /\ ~cuDump
  /\ CASE subject = "CacheDumper" -> DC!Init
       [] subject = "TestedDumper" -> DT!Init
       [] OTHER -> DU!Init
  /\ subject \notin Dumpers => duFiles = {}

\* The components whose name is not in subjects rest.
OthersRest(subjects) ==
  /\ subject \in subjects
  /\ UNCHANGED subject
  /\ IF "ConnectionPool" \in subjects THEN TRUE ELSE UNCHANGED cpVars
  /\ IF "HttpRequest" \in subjects THEN TRUE ELSE UNCHANGED hrVars
  /\ IF "TpLogger" \in subjects THEN TRUE ELSE UNCHANGED tlVars
  /\ IF "FdPoller" \in subjects THEN TRUE ELSE UNCHANGED fdVars
  /\ IF "StorageData" \in subjects THEN TRUE ELSE UNCHANGED ecVars
  /\ IF "CacheUpdates" \in subjects THEN TRUE ELSE UNCHANGED cuVars
  /\ IF "Dumper" \in subjects THEN TRUE ELSE UNCHANGED duVars
  /\ IF "DistLockedTask" \in subjects THEN TRUE ELSE UNCHANGED dlVars

AllNext ==
  \/ OthersRest({"ConnectionPool"}) /\ CP!Next
  \/ OthersRest(Requests) /\ \/ subject = "HttpRequest" /\ HR!Next
                             \/ subject = "PlainRequest" /\ HP!Next
  \/ OthersRest(AsyncLoggers) /\ \/ subject = "TpLogger" /\ TL!Next
                                 \/ subject = "BlockingLogger" /\ TB!Next
  \/ OthersRest({"FdPoller"}) /\ FD!Next
  \/ OthersRest(Channels) /\ \/ /\ \/ subject = "AsyncEventChannel" /\ EC!Next
                                   \/ subject = "SharedChannel" /\ ES!Next
                                /\ UNCHANGED <<ecUpc, ecUwriter, ecUreaders, ecUlock>>
                             \/ subject = "StorageData" /\ ST!StorageNext
  \/ OthersRest({"CacheUpdates"}) /\ CU!Next
  \/ OthersRest(Dumpers) /\ \/ subject = "Dumper" /\ DU!Next
                            \/ subject = "CacheDumper" /\ DC!Next
                            \/ subject = "TestedDumper" /\ DT!Next
  \/ OthersRest({"DistLockedTask"}) /\ DL!Next

AllSpec == AllInit /\ [][AllNext]_allVars

\* Each component is run with its own fairness, when it is the subject. One at rest has
\* no fair step enabled, unless the subject is named here. The connection pool: users give
\* their connections back and tasks end, by their deadlines at the latest. Requests: curl
\* ends every attempt, it has a timeout. The logger: flushes are seconds apart, so that
\* again and again the consumer has caught up with them. FdPoller: the ev thread goes
\* round its loop. Cache and dumps: whoever has begun a call goes on, a mutex is not
\* given to others for ever. DistLockedTask: time passes, calls of the strategy end.
AllFairness ==
  /\ CP!Fairness
  /\ HP!Fairness
  /\ WF_tlVars(subject = "BlockingLogger" /\ TB!WorkerStep)
  /\ WF_tlVars(subject = "BlockingLogger" /\ TB!OwnerStep)
  /\ WF_tlVars(subject = "BlockingLogger" /\ TB!FlusherStep)
  /\ \A t \in Loggers : WF_tlVars(subject = "BlockingLogger" /\ TB!LoggerStep(t))
  /\ []<>(subject = "BlockingLogger" => TB!CaughtUp)
  /\ FD!Fairness
  /\ CU!Fairness
  /\ WF_duVars(subject = "Dumper" /\ DU!Load)
  /\ WF_duVars(subject = "Dumper" /\ DU!TaskStep)
  /\ \A w \in DU!Writers : SF_duVars(subject = "Dumper" /\ DU!LockDumpData(w))
                           /\ WF_duVars(subject = "Dumper" /\ DU!WriteStep(w))
  /\ \A u \in DU!Updaters : WF_duVars(subject = "Dumper" /\ DU!Notify(u))
  /\ WF_duVars(subject = "Dumper" /\ DU!SendConfig)
  /\ WF_dlVars(subject = "DistLockedTask" /\ DL!Tick)
  /\ \A h \in Hosts : DL!HostFairness(h)

FairSpec == AllSpec /\ AllFairness

----------------------------------------------------------------------------
(* Properties. Each is about its subjects: a component at rest stays in an   *)
(* initial state.                                                           *)

\* Every permit of the pool's size semaphore belongs to one connection or connect task,
\* the statistics count what is in use, and nothing is left when the destructor returns.
ConnectionPoolSafe ==
  subject = "ConnectionPool" =>
    CP!TypeOK /\ CP!PermitsAccounted /\ CP!UsedExact /\ CP!NothingLeftBehind

\* A RequestState is used by one request at a time, though a resolver, the ev thread and
\* a timer hold it, and a cancelled request makes at most one more attempt.
HttpRequestSafe ==
  /\ subject = "PlainRequest" => HP!TypeOK /\ HP!OneRequestAtATime
  /\ subject = "HttpRequest" => HR!TypeOK /\ HR!OneRequestAtATime /\ HR!FewLateAttempts

\* The logger's queue has one consumer through all changes of the mode, logs are written
\* in their order and once, Flush() returns when all before it are written, and a queue
\* that blocks exceeds its bound by no more than the writers that raced for the last place.
TpLoggerSafe ==
  /\ subject = "BlockingLogger" =>
       TB!TypeOK /\ TB!OneConsumer /\ TB!WrittenInOrder /\ TB!FlushedIsWritten /\ TB!CapacityKept
  /\ subject = "TpLogger" =>
       TL!TypeOK /\ TL!OneConsumer /\ TL!WrittenInOrder /\ TL!FlushedIsWritten

\* The ev thread neither watches nor touches a descriptor that may be closed, readiness of
\* an earlier wait does not count for this one, and merged starts and stops lose no wait.
FdPollerSafe ==
  subject = "FdPoller" =>
    FD!TypeOK /\ FD!ClosedIsQuiet /\ FD!ReadyIsReal /\ FD!SleeperIsWatched

\* After RemoveListener() the callback does not run; a subscriber misses nothing sent
\* since it subscribed but what its cancelled task should have processed; one event is
\* processed at a time, unless a sender is cancelled; and with no Update() under way
\* every subscriber to config diffs has seen the current config, with the same exception.
EventChannelSafe ==
  /\ subject = "AsyncEventChannel" =>
       EC!TypeOK /\ EC!QuietAfterUnsubscribe /\ EC!SubscriberIsCurrent
  /\ subject = "SharedChannel" => ES!TypeOK /\ ES!QuietAfterUnsubscribe /\ ES!OneEventAtATime
  /\ subject = "StorageData" => ST!StorageTypeOK /\ ST!ConfigIsCurrent

\* A started cache has the data that its config requires, and whoever updates it, it
\* never goes back to older changes of its source.
CacheUpdatesSafe ==
  /\ [](subject = "CacheUpdates" => CU!TypeOK /\ CU!StartedHasData)
  /\ CU!NeverBackward

\* Wherever a crash strikes, the newest dump written is found again, after a reset of the
\* machine the newest whose name had reached the disk; every dump is whole and holds
\* everything that was known by the time in its name.
DumperSafe ==
  /\ subject = "CacheDumper" =>
       DC!TypeOK /\ DC!NewestDumpKept /\ DC!DumpsAreWhole /\ DC!DumpAsFreshAsNamed
  /\ subject = "TestedDumper" =>
       DT!TypeOK /\ DT!NewestDumpKept /\ DT!DumpsAreWhole /\ DT!DumpAsFreshAsNamed
  /\ subject = "Dumper" =>
       DU!TypeOK /\ DU!NewestDumpKept /\ DU!DumpsAreWhole /\ DU!DumpAsFreshAsNamed

Asked ==
  \/ subject = "ConnectionPool" /\ cpDpc = "maintain"
  \/ subject = "PlainRequest" /\ hrPromise = "pending"
  \/ subject = "BlockingLogger" /\ tlPc[ALogger] = "sleep"
  \/ subject = "FdPoller" /\ fdPc = "asleep" /\ fdReady \cap fdWanted # {}
  \/ subject = "CacheUpdates" /\ cuPc[Owner] = "up" /\ cuCache.inc < cuNeed.inc
  \/ subject = "Dumper" /\ duCancelled
  \/ subject = "DistLockedTask" /\ \E h \in Hosts : dlLocker[h].cancelled

Answered ==
  \/ subject = "ConnectionPool" /\ cpDpc = "dead"
  \/ subject = "PlainRequest" /\ hrPromise # "pending"
  \/ subject = "BlockingLogger" /\ tlPc[ALogger] = "idle"
  \/ subject = "FdPoller" /\ fdPc # "asleep"
  \/ subject = "CacheUpdates" /\ (cuCache.inc >= cuNeed.inc \/ cuPc[Owner] # "up")
  \/ subject = "Dumper" /\ duWpc[Task] = "done"
  \/ subject = "DistLockedTask" /\ \A h \in Hosts : ~dlLocker[h].cancelled

\* Whoever asks gets an answer: the destructor of a pool returns, a request is answered,
\* a Log() that waits for a place returns, a ready descriptor wakes its task,
\* InvalidateAsync() brings into the cache what was in the source when it was called,
\* CancelWriteTaskAndWait() of a dumper and Stop() of a locked task return.
AnswersCome == Asked ~> Answered
=============================================================================
