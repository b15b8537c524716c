----------------------------- MODULE MCLockFree -----------------------------
(***************************************************************************)
(* Do the structures that are read and written without a lock behave as if *)
(* each operation were one step? SpmcQueue, and as instances MpscQueue,    *)
(* ReadIndicator, Rcu (destroying values in tasks or at once) and MpmcQueue*)
(* (with its two semaphores). They share nothing, so a behaviour exercises *)
(* one of them, its subject, and the others stay in their initial states.  *)
(***************************************************************************)
EXTENDS SpmcQueue

CONSTANTS
  Subjects,                                                 \* the components to look at
  Nodes, Producers, Stub, None,                             \* MpscQueue
  Handles, Stripes, Modulus, MaxLocks, MaxChecks,           \* ReadIndicator
  Readers, Writers, MaxRecords, MaxCommits,                 \* Rcu
  Consumers, MaxSize, MaxPushes, MaxLives                   \* MpmcQueue

VARIABLES
  subject,
  \* MpscQueue
  mqHead, mqTail, mqNext, mqFree, mqPpc, mqNode, mqPrev, mqBack, mqCpc, mqWeak, mqResult,
  \* ReadIndicator
  riAcquired, riReleased, riHeld, riLocks, riPhase, riUnread, riSum, riEstimate, riHeldBetween,
  riChecks,
  \* Rcu
  rcData, rcSize, rcCurrent, rcRetired, rcFree, rcHandles, rcLockers, rcMutex, rcStarts, rcCommits,
  rcWpc, rcWrec, rcToScan, rcRpc, rcRrec, rcRold, rcSeen,
  \* MpmcQueue
  cqQueue, cqUsed, cqClosed, cqPermits, cqOpen, cqProducers, cqConsumers, cqPpc, cqCpc, cqPushes,
  cqLives

MQ == INSTANCE MpscQueue WITH
  head <- mqHead, tail <- mqTail, next <- mqNext, free <- mqFree, ppc <- mqPpc, node <- mqNode,
  prev <- mqPrev, back <- mqBack, cpc <- mqCpc, weak <- mqWeak, result <- mqResult

RI == INSTANCE ReadIndicator WITH
  acquired <- riAcquired, released <- riReleased, held <- riHeld, locks <- riLocks,
  phase <- riPhase, unread <- riUnread, sum <- riSum, estimate <- riEstimate,
  heldBetween <- riHeldBetween, checks <- riChecks

RA == INSTANCE Rcu WITH
  IsAsync <- TRUE, data <- rcData, size <- rcSize, current <- rcCurrent, retired <- rcRetired,
  free <- rcFree, handles <- rcHandles, lockers <- rcLockers, mutex <- rcMutex, starts <- rcStarts,
  commits <- rcCommits, wpc <- rcWpc, wrec <- rcWrec, toScan <- rcToScan, rpc <- rcRpc,
  rrec <- rcRrec, rold <- rcRold, seen <- rcSeen

RS == INSTANCE Rcu WITH
  IsAsync <- FALSE, data <- rcData, size <- rcSize, current <- rcCurrent, retired <- rcRetired,
  free <- rcFree, handles <- rcHandles, lockers <- rcLockers, mutex <- rcMutex, starts <- rcStarts,
  commits <- rcCommits, wpc <- rcWpc, wrec <- rcWrec, toScan <- rcToScan, rpc <- rcRpc,
  rrec <- rcRrec, rold <- rcRold, seen <- rcSeen

CQ == INSTANCE MpmcQueue WITH
  ConcurrentRevival <- FALSE, queue <- cqQueue, used <- cqUsed, closed <- cqClosed,
  permits <- cqPermits, open <- cqOpen, producers <- cqProducers, consumers <- cqConsumers,
  ppc <- cqPpc, cpc <- cqCpc, pushes <- cqPushes, lives <- cqLives

ASSUME LockFreeAssumption ==
       /\ MQ!QueueAssumption /\ RI!WidthAssumption /\ RA!RcuAssumption /\ RS!RcuAssumption
       /\ CQ!QueueAssumption

spmcVars == vars
mqVars == <<mqHead, mqTail, mqNext, mqFree, mqPpc, mqNode, mqPrev, mqBack, mqCpc, mqWeak, mqResult>>
riVars ==
  <<riAcquired, riReleased, riHeld, riLocks, riPhase, riUnread, riSum, riEstimate, riHeldBetween,
    riChecks>>
rcVars ==
  <<rcData, rcSize, rcCurrent, rcRetired, rcFree, rcHandles, rcLockers, rcMutex, rcStarts,
    rcCommits, rcWpc, rcWrec, rcToScan, rcRpc, rcRrec, rcRold, rcSeen>>
cqVars ==
  <<cqQueue, cqUsed, cqClosed, cqPermits, cqOpen, cqProducers, cqConsumers, cqPpc, cqCpc, cqPushes,
    cqLives>>
allVars == <<subject, spmcVars, mqVars, riVars, rcVars, cqVars>>

Rcus == {"AsyncRcu", "SyncRcu"}

AllInit ==
  /\ subject \in Subjects
  /\ Init /\ MQ!Init /\ RA!Init /\ CQ!Init
  /\ RI!Init
  /\ subject # "ReadIndicator" => \A s \in Stripes : riAcquired[s] = 0 /\ riReleased[s] = 0

\* The components whose name is not in subjects rest.
OthersRest(subjects) ==
  /\ subject \in subjects
  /\ UNCHANGED subject
  /\ IF "SpmcQueue" \in subjects THEN TRUE ELSE UNCHANGED spmcVars
  /\ IF "MpscQueue" \in subjects THEN TRUE ELSE UNCHANGED mqVars
  /\ IF "ReadIndicator" \in subjects THEN TRUE ELSE UNCHANGED riVars
  /\ IF "AsyncRcu" \in subjects THEN TRUE ELSE UNCHANGED rcVars
  /\ IF "MpmcQueue" \in subjects THEN TRUE ELSE UNCHANGED cqVars

AllNext ==
  \/ OthersRest({"SpmcQueue"}) /\ Next
  \/ OthersRest({"MpscQueue"}) /\ MQ!Next
  \/ OthersRest({"ReadIndicator"}) /\ RI!Next
  \/ OthersRest(Rcus) /\ \/ subject = "AsyncRcu" /\ RA!Next
                         \/ subject = "SyncRcu" /\ RS!Next
  \/ OthersRest({"MpmcQueue"}) /\ CQ!Next

AllSpec == AllInit /\ [][AllNext]_allVars

----------------------------------------------------------------------------
(* Properties *)

\* The list in two parts is one FIFO queue: each push takes effect at its exchange, each
\* pop in one step, and what they return is what FifoQueue would. (The steps of the other
\* subjects leave the queue alone, and are not looked at.) And a popped node may be freed.
MpscIsFifo ==
  /\ MQ!Fifo!Init
  /\ [][subject = "MpscQueue" => [MQ!Fifo!Next]_(MQ!Fifo!fifoVars)]_allVars
  /\ [](subject = "MpscQueue" => MQ!NoDangling)

\* GetActiveCountUpperEstimate() never shows fewer locks than were held when the reads of
\* its two counters meet, through wrap-around and moves between the stripes, and never
\* trips its own assertion: IsFree() is not falsely true. So what a ReadablePtr refers to
\* lives as long as it does, though its record was retired, recycled and published again
\* meanwhile; no write transaction is lost and no record leaks or is in two places.
RcuSafe ==
  /\ RI!TypeOK /\ RI!NeverUnderestimates /\ RI!AcquiredNotBelowReleased
  /\ RA!TypeOK /\ RA!ReaderKeepsValue /\ RA!NoLostUpdate /\ RA!RecordsAccounted

\* The two semaphores of the queue agree with its content through every failed push and
\* pop, and it refuses pushes, or lets consumers through without an element, only while
\* the other side is dead, though both sides die and come back concurrently.
MpmcQueueSafe ==
  CQ!TypeOK /\ CQ!PermitsAccounted /\ CQ!ClosedOnlyWithoutConsumers /\ CQ!OpenOnlyWithoutProducers
=============================================================================
