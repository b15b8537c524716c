--------------------------- MODULE ServicesProofs ---------------------------
(***************************************************************************)
(* Theorems about the services as MCServices runs them, for every value of  *)
(* the constants.                                                           *)
(***************************************************************************)
EXTENDS MCServices, Integers, SequenceTheorems, FiniteSetTheorems, TLAPS

----------------------------------------------------------------------------
(* FdPoller *)

Callback == {"cbStop", "cbStore", "cbSignal", "cbEnd"}

FdFlags ==
  /\ fdValid \in BOOLEAN /\ fdNotified \in BOOLEAN /\ fdDirty \in BOOLEAN /\ fdRunning \in BOOLEAN
  /\ fdPending \in BOOLEAN /\ fdInQueue \in BOOLEAN /\ fdOpen \in BOOLEAN
FdPlaces ==
  /\ fdSlot \in [who : {"null", "awaiter", "signaled"}, epoch : 0 .. MaxEpoch]
  /\ fdEvents \subseteq FD!Kinds /\ fdWanted \subseteq FD!Kinds /\ fdReady \subseteq FD!Kinds
  /\ fdPc \in {"closed", "idle", "start", "stop", "enqueue", "asleep", "remove", "stopCount", "stopRunning",
               "removed", "ready", "syncCount", "syncRunning", "syncPush", "syncWait", "syncDone", "synced"}
  /\ fdThen \in {"closed", "asleep", "removed"}
  /\ fdOp \in [type : {"none", "start", "stop"}, epoch : 0 .. MaxEpoch]
  /\ fdDelivered \in 0 .. MaxEpoch
  /\ fdEvpc \in {"loop", "perform", "release", "cbStop", "cbStore", "cbSignal", "cbEnd"}
FdTypes == FdFlags /\ FdPlaces

\* What is queued on the ev thread, and the count of the operations under way.
One(P) == IF P THEN 1 ELSE 0
FdCounted ==
  /\ fdQueue = IF fdInQueue THEN IF fdPc = "syncWait" THEN <<"payload", "sync">> ELSE <<"payload">>
                            ELSE IF fdPc = "syncWait" THEN <<"sync">> ELSE <<>>
  /\ fdCount = One(fdInQueue) + One(fdEvpc # "loop") + One(fdPc \in {"syncWait", "syncDone"})

\* Where the owner goes after it has pushed an operation.
FdThen ==
  /\ fdPc = "start" => fdThen = "asleep"
  /\ fdPc \in {"stop", "stopCount", "stopRunning"} => fdThen = "removed"
  /\ fdPc = "enqueue" => fdThen \in {"asleep", "removed"}

\* An operation that was not performed has its payload queued, or the owner is about to.
FdOpQueued == fdOp.type # "none" => fdInQueue \/ fdEvpc = "perform" \/ fdPc = "enqueue"

\* The owner that does not wait has stopped the watcher, or has sent for it.
FdStopped ==
  \/ fdPc \in {"removed", "idle", "ready", "syncCount", "syncPush", "syncWait"}
  \/ fdPc = "enqueue" /\ fdThen = "removed"
FdStill == ~fdRunning /\ fdEvpc = "loop" /\ ~fdInQueue /\ fdOp.type = "none"
FdStops ==
  /\ fdPending => fdRunning
  /\ fdEvpc \in {"cbStore", "cbSignal", "cbEnd"} => ~fdRunning
  /\ FdStopped => fdOp.type # "start" /\ (fdRunning => fdOp.type = "stop")
  /\ fdPc = "stopRunning" => fdOp.type = "none"
  /\ fdPc \in {"syncRunning", "syncDone", "synced", "closed"} => FdStill
  /\ ~fdValid => fdPc = "closed"

\* The owner waits, or is about to, and the awaiter was not called yet.
FdWaits == ~fdNotified /\ (fdPc \in {"start", "asleep"} \/ (fdPc = "enqueue" /\ fdThen = "asleep"))
FdWatched ==
  \/ fdRunning /\ fdDelivered = fdSlot.epoch
  \/ fdOp = FD!Start(fdSlot.epoch)
  \/ fdEvpc \in {"cbStore", "cbSignal"} /\ fdDelivered = fdSlot.epoch
FdSleeps ==
  /\ FdWaits => fdSlot.who = "awaiter" /\ (fdPc # "start" => FdWatched)
  /\ fdPc = "asleep" \/ (fdPc = "enqueue" /\ fdThen = "asleep") => fdOp \in {FD!NoOp, FD!Start(fdSlot.epoch)}

\* Of the present epoch, the watcher and the word speak only when the owner has waited in
\* it, and of readiness only when there is some.
FdEpochs ==
  /\ fdDelivered <= fdSlot.epoch
  /\ fdOp.type = "start" => fdOp.epoch <= fdSlot.epoch /\ (fdOp.epoch = fdSlot.epoch => fdDirty)
  /\ fdPc = "start" => fdDirty
  /\ fdPc = "closed" => ~fdDirty
  /\ fdDelivered = fdSlot.epoch /\ (fdRunning \/ fdEvpc \in {"cbStop", "cbStore", "cbSignal"}) => fdDirty
  /\ fdDelivered = fdSlot.epoch /\ (fdPending \/ fdEvpc \in {"cbStop", "cbStore", "cbSignal"})
       => fdReady \cap fdWanted # {}
  /\ fdSlot.who # "null" => fdDirty
  /\ fdSlot.who = "signaled" \/ fdPc = "ready" => fdReady \cap fdWanted # {}

FdInv == FdTypes /\ FdCounted /\ FdThen /\ FdOpQueued /\ FdStops /\ FdSleeps /\ FdEpochs

\* What the proofs use of the bound.
LEMMA FdBound == MaxEpoch \in Nat
  BY ServicesAssumption DEF ServicesAssumption, FD!FdPollerAssumption

\* The owner sets up, waits and goes on.
LEMMA FdWaiting ==
  ASSUME FdInv,
         FD!Reset \/ FD!Drain \/ FD!PeerActs \/ FD!TryAppendAwaiter \/ FD!Notified \/ FD!Deadline \/ FD!RemoveAwaiter \/ FD!LeaveReady \/ FD!GetReady \/ FD!WaitReturns
  PROVE  FdInv'
<1> USE FdBound DEF FD!pollVars, FD!ownerVars, FD!watcherVars, FD!evVars, FD!fdVars, FD!Goto, FD!EvGoto
<1>0. FdFlags /\ FdPlaces /\ FdCounted /\ FdThen /\ FdOpQueued /\ FdStops /\ FdSleeps /\ FdEpochs
  BY DEF FdInv, FdTypes
<1> USE <1>0
<1>1. CASE FD!Reset
  <2> USE <1>1
  <2>1. FdFlags'
    BY Zenon DEF FdFlags, FD!Reset
  <2>2. FdPlaces'
    BY DEF FdPlaces, FD!Kinds, FD!Reset
  <2>3. FdCounted'
    BY DEF FdFlags, FdPlaces, FdCounted, One, FD!Reset
  <2>4. FdThen' /\ FdOpQueued'
    BY DEF FdFlags, FdPlaces, FdThen, FdOpQueued, FD!Reset
  <2>5. FdStops'
    BY DEF FdFlags, FdPlaces, FdCounted, One, FdThen, FdOpQueued, FdStops, FdStopped, FdStill, FD!Reset
  <2>6. FdSleeps'
    BY DEF FdFlags, FdPlaces, FdThen, FdOpQueued, FdStops, FdStopped, FdStill, FdSleeps, FdWaits, FdWatched,
       FdEpochs, FD!Reset
  <2>7. FdEpochs'
    BY DEF FdFlags, FdPlaces, FdThen, FdStops, FdStill, FdEpochs, FD!Reset
  <2> QED
    BY <2>1, <2>2, <2>3, <2>4, <2>5, <2>6, <2>7 DEF FdInv, FdTypes
<1>2. CASE FD!Drain
  <2> USE <1>2
  <2>1. FdFlags'
    BY Zenon DEF FdFlags, FD!Drain
  <2>2. FdPlaces'
    BY DEF FdPlaces, FD!Kinds, FD!Drain
  <2>3. FdCounted'
    BY DEF FdFlags, FdPlaces, FdCounted, One, FD!Drain
  <2>4. FdThen' /\ FdOpQueued'
    BY DEF FdFlags, FdPlaces, FdThen, FdOpQueued, FD!Drain
  <2>5. FdStops'
    BY DEF FdFlags, FdPlaces, FdCounted, One, FdThen, FdOpQueued, FdStops, FdStopped, FdStill, FD!Drain
  <2>6. FdSleeps'
    BY DEF FdFlags, FdPlaces, FdThen, FdOpQueued, FdStops, FdStopped, FdStill, FdSleeps, FdWaits, FdWatched,
       FdEpochs, FD!Drain
  <2>7. FdEpochs'
    BY DEF FdFlags, FdPlaces, FdThen, FdStops, FdStill, FdEpochs, FD!Drain
  <2> QED
    BY <2>1, <2>2, <2>3, <2>4, <2>5, <2>6, <2>7 DEF FdInv, FdTypes
<1>3. CASE FD!PeerActs
  <2> USE <1>3
  <2>1. FdFlags'
    BY Zenon DEF FdFlags, FD!PeerActs
  <2>2. FdPlaces'
    BY DEF FdPlaces, FD!Kinds, FD!PeerActs
  <2>3. FdCounted'
    BY DEF FdFlags, FdPlaces, FdCounted, One, FD!PeerActs
  <2>4. FdThen' /\ FdOpQueued'
    BY DEF FdFlags, FdPlaces, FdThen, FdOpQueued, FD!PeerActs
  <2>5. FdStops'
    BY DEF FdFlags, FdPlaces, FdCounted, One, FdThen, FdOpQueued, FdStops, FdStopped, FdStill, FD!PeerActs
  <2>6. FdSleeps'
    BY DEF FdFlags, FdPlaces, FdThen, FdOpQueued, FdStops, FdStopped, FdStill, FdSleeps, FdWaits, FdWatched,
       FdEpochs, FD!PeerActs
  <2>7. FdEpochs'
    BY DEF FdFlags, FdPlaces, FdThen, FdStops, FdStill, FdEpochs, FD!PeerActs
  <2> QED
    BY <2>1, <2>2, <2>3, <2>4, <2>5, <2>6, <2>7 DEF FdInv, FdTypes
<1>4. CASE FD!TryAppendAwaiter
  <2> USE <1>4
  <2>1. FdFlags'
    BY Zenon DEF FdFlags, FD!TryAppendAwaiter
  <2>2. FdPlaces'
    BY DEF FdPlaces, FD!Kinds, FD!TryAppendAwaiter
  <2>3. FdCounted'
    BY DEF FdFlags, FdPlaces, FdCounted, One, FD!TryAppendAwaiter
  <2>4. FdThen' /\ FdOpQueued'
    BY DEF FdFlags, FdPlaces, FdThen, FdOpQueued, FD!TryAppendAwaiter
  <2>5. FdStops'
    BY DEF FdFlags, FdPlaces, FdCounted, One, FdThen, FdOpQueued, FdStops, FdStopped, FdStill, FD!TryAppendAwaiter
  <2>6. FdSleeps'
    BY DEF FdFlags, FdPlaces, FdThen, FdOpQueued, FdStops, FdStopped, FdStill, FdSleeps, FdWaits, FdWatched,
       FdEpochs, FD!TryAppendAwaiter
  <2>7. FdEpochs'
    BY DEF FdFlags, FdPlaces, FdThen, FdStops, FdStill, FdEpochs, FD!TryAppendAwaiter
  <2> QED
    BY <2>1, <2>2, <2>3, <2>4, <2>5, <2>6, <2>7 DEF FdInv, FdTypes
<1>5. CASE FD!Notified
  <2> USE <1>5
  <2>1. FdFlags'
    BY Zenon DEF FdFlags, FD!Notified
  <2>2. FdPlaces'
    BY DEF FdPlaces, FD!Kinds, FD!Notified
  <2>3. FdCounted'
    BY DEF FdFlags, FdPlaces, FdCounted, One, FD!Notified
  <2>4. FdThen' /\ FdOpQueued'
    BY DEF FdFlags, FdPlaces, FdThen, FdOpQueued, FD!Notified
  <2>5. FdStops'
    BY DEF FdFlags, FdPlaces, FdCounted, One, FdThen, FdOpQueued, FdStops, FdStopped, FdStill, FD!Notified
  <2>6. FdSleeps'
    BY DEF FdFlags, FdPlaces, FdThen, FdOpQueued, FdStops, FdStopped, FdStill, FdSleeps, FdWaits, FdWatched,
       FdEpochs, FD!Notified
  <2>7. FdEpochs'
    BY DEF FdFlags, FdPlaces, FdThen, FdStops, FdStill, FdEpochs, FD!Notified
  <2> QED
    BY <2>1, <2>2, <2>3, <2>4, <2>5, <2>6, <2>7 DEF FdInv, FdTypes
<1>6. CASE FD!Deadline
  <2> USE <1>6
  <2>1. FdFlags'
    BY Zenon DEF FdFlags, FD!Deadline
  <2>2. FdPlaces'
    BY DEF FdPlaces, FD!Kinds, FD!Deadline
  <2>3. FdCounted'
    BY DEF FdFlags, FdPlaces, FdCounted, One, FD!Deadline
  <2>4. FdThen' /\ FdOpQueued'
    BY DEF FdFlags, FdPlaces, FdThen, FdOpQueued, FD!Deadline
  <2>5. FdStops'
    BY DEF FdFlags, FdPlaces, FdCounted, One, FdThen, FdOpQueued, FdStops, FdStopped, FdStill, FD!Deadline
  <2>6. FdSleeps'
    BY DEF FdFlags, FdPlaces, FdThen, FdOpQueued, FdStops, FdStopped, FdStill, FdSleeps, FdWaits, FdWatched,
       FdEpochs, FD!Deadline
  <2>7. FdEpochs'
    BY DEF FdFlags, FdPlaces, FdThen, FdStops, FdStill, FdEpochs, FD!Deadline
  <2> QED
    BY <2>1, <2>2, <2>3, <2>4, <2>5, <2>6, <2>7 DEF FdInv, FdTypes
<1>7. CASE FD!RemoveAwaiter
  <2> USE <1>7
  <2>1. FdFlags'
    BY Zenon DEF FdFlags, FD!RemoveAwaiter
  <2>2. FdPlaces'
    BY DEF FdPlaces, FD!Kinds, FD!RemoveAwaiter
  <2>3. FdCounted'
    BY DEF FdFlags, FdPlaces, FdCounted, One, FD!RemoveAwaiter
  <2>4. FdThen' /\ FdOpQueued'
    BY DEF FdFlags, FdPlaces, FdThen, FdOpQueued, FD!RemoveAwaiter
  <2>5. FdStops'
    BY DEF FdFlags, FdPlaces, FdCounted, One, FdThen, FdOpQueued, FdStops, FdStopped, FdStill, FD!RemoveAwaiter
  <2>6. FdSleeps'
    BY DEF FdFlags, FdPlaces, FdThen, FdOpQueued, FdStops, FdStopped, FdStill, FdSleeps, FdWaits, FdWatched,
       FdEpochs, FD!RemoveAwaiter
  <2>7. FdEpochs'
    BY DEF FdFlags, FdPlaces, FdThen, FdStops, FdStill, FdEpochs, FD!RemoveAwaiter
  <2> QED
    BY <2>1, <2>2, <2>3, <2>4, <2>5, <2>6, <2>7 DEF FdInv, FdTypes
<1>8. CASE FD!LeaveReady
  <2> USE <1>8
  <2>1. FdFlags'
    BY Zenon DEF FdFlags, FD!LeaveReady
  <2>2. FdPlaces'
    BY DEF FdPlaces, FD!Kinds, FD!LeaveReady
  <2>3. FdCounted'
    BY DEF FdFlags, FdPlaces, FdCounted, One, FD!LeaveReady
  <2>4. FdThen' /\ FdOpQueued'
    BY DEF FdFlags, FdPlaces, FdThen, FdOpQueued, FD!LeaveReady
  <2>5. FdStops'
    BY DEF FdFlags, FdPlaces, FdCounted, One, FdThen, FdOpQueued, FdStops, FdStopped, FdStill, FD!LeaveReady
  <2>6. FdSleeps'
    BY DEF FdFlags, FdPlaces, FdThen, FdOpQueued, FdStops, FdStopped, FdStill, FdSleeps, FdWaits, FdWatched,
       FdEpochs, FD!LeaveReady
  <2>7. FdEpochs'
    BY DEF FdFlags, FdPlaces, FdThen, FdStops, FdStill, FdEpochs, FD!LeaveReady
  <2> QED
    BY <2>1, <2>2, <2>3, <2>4, <2>5, <2>6, <2>7 DEF FdInv, FdTypes
<1>9. CASE FD!GetReady
  <2> USE <1>9
  <2>1. FdFlags'
    BY Zenon DEF FdFlags, FD!GetReady
  <2>2. FdPlaces'
    BY DEF FdPlaces, FD!Kinds, FD!GetReady
  <2>3. FdCounted'
    BY DEF FdFlags, FdPlaces, FdCounted, One, FD!GetReady
  <2>4. FdThen' /\ FdOpQueued'
    BY DEF FdFlags, FdPlaces, FdThen, FdOpQueued, FD!GetReady
  <2>5. FdStops'
    BY DEF FdFlags, FdPlaces, FdCounted, One, FdThen, FdOpQueued, FdStops, FdStopped, FdStill, FD!GetReady
  <2>6. FdSleeps'
    BY DEF FdFlags, FdPlaces, FdThen, FdOpQueued, FdStops, FdStopped, FdStill, FdSleeps, FdWaits, FdWatched,
       FdEpochs, FD!GetReady
  <2>7. FdEpochs'
    BY DEF FdFlags, FdPlaces, FdThen, FdStops, FdStill, FdEpochs, FD!GetReady
  <2> QED
    BY <2>1, <2>2, <2>3, <2>4, <2>5, <2>6, <2>7 DEF FdInv, FdTypes
<1>10. CASE FD!WaitReturns
  <2> USE <1>10
  <2>1. FdFlags'
    BY Zenon DEF FdFlags, FD!WaitReturns
  <2>2. FdPlaces'
    BY DEF FdPlaces, FD!Kinds, FD!WaitReturns
  <2>3. FdCounted'
    BY DEF FdFlags, FdPlaces, FdCounted, One, FD!WaitReturns
  <2>4. FdThen' /\ FdOpQueued'
    BY DEF FdFlags, FdPlaces, FdThen, FdOpQueued, FD!WaitReturns
  <2>5. FdStops'
    BY DEF FdFlags, FdPlaces, FdCounted, One, FdThen, FdOpQueued, FdStops, FdStopped, FdStill, FD!WaitReturns
  <2>6. FdSleeps'
    BY DEF FdFlags, FdPlaces, FdThen, FdOpQueued, FdStops, FdStopped, FdStill, FdSleeps, FdWaits, FdWatched,
       FdEpochs, FD!WaitReturns
  <2>7. FdEpochs'
    BY DEF FdFlags, FdPlaces, FdThen, FdStops, FdStill, FdEpochs, FD!WaitReturns
  <2> QED
    BY <2>1, <2>2, <2>3, <2>4, <2>5, <2>6, <2>7 DEF FdInv, FdTypes
<1> QED
  BY <1>1, <1>2, <1>3, <1>4, <1>5, <1>6, <1>7, <1>8, <1>9, <1>10

\* The owner pushes operations and looks whether the watcher is active.
LEMMA FdPushing ==
  ASSUME FdInv,
         FD!StoreOp \/ FD!Enqueue \/ FD!StopAsync \/ FD!Stop
  PROVE  FdInv'
<1> USE FdBound DEF FD!pollVars, FD!ownerVars, FD!watcherVars, FD!evVars, FD!fdVars, FD!Goto, FD!EvGoto
<1>0. FdFlags /\ FdPlaces /\ FdCounted /\ FdThen /\ FdOpQueued /\ FdStops /\ FdSleeps /\ FdEpochs
  BY DEF FdInv, FdTypes
<1> USE <1>0
<1>1. CASE FD!StoreOp
  <2> USE <1>1
  <2>1. FdFlags'
    BY Zenon DEF FdFlags, FD!StoreOp, FD!StopOp, FD!Start, FD!NoOp
  <2>2. FdPlaces'
    BY DEF FdPlaces, FD!Kinds, FD!StoreOp, FD!StopOp, FD!Start, FD!NoOp
  <2>3. FdCounted'
    BY DEF FdFlags, FdPlaces, FdCounted, One, FD!StoreOp, FD!StopOp, FD!Start, FD!NoOp
  <2>4. FdThen' /\ FdOpQueued'
    BY DEF FdFlags, FdPlaces, FdThen, FdOpQueued, FD!StoreOp, FD!StopOp, FD!Start, FD!NoOp
  <2>5. FdStops'
    BY DEF FdFlags, FdPlaces, FdCounted, One, FdThen, FdOpQueued, FdStops, FdStopped, FdStill, FD!StoreOp, FD!StopOp, FD!Start, FD!NoOp
  <2>6. FdSleeps'
    BY DEF FdFlags, FdPlaces, FdThen, FdOpQueued, FdStops, FdStopped, FdStill, FdSleeps, FdWaits, FdWatched,
       FdEpochs, FD!StoreOp, FD!StopOp, FD!Start, FD!NoOp
  <2>7. FdEpochs'
    BY DEF FdFlags, FdPlaces, FdThen, FdStops, FdStill, FdEpochs, FD!StoreOp, FD!StopOp, FD!Start, FD!NoOp
  <2> QED
    BY <2>1, <2>2, <2>3, <2>4, <2>5, <2>6, <2>7 DEF FdInv, FdTypes
<1>2. CASE FD!Enqueue
  <2> USE <1>2
  <2>1. FdFlags'
    BY Zenon DEF FdFlags, FD!Enqueue
  <2>2. FdPlaces'
    BY DEF FdPlaces, FD!Kinds, FD!Enqueue
  <2>3. FdCounted'
    BY DEF FdFlags, FdPlaces, FdCounted, One, FD!Enqueue
  <2>4. FdThen' /\ FdOpQueued'
    BY DEF FdFlags, FdPlaces, FdThen, FdOpQueued, FD!Enqueue
  <2>5. FdStops'
    BY DEF FdFlags, FdPlaces, FdCounted, One, FdThen, FdOpQueued, FdStops, FdStopped, FdStill, FD!Enqueue
  <2>6. FdSleeps'
    BY DEF FdFlags, FdPlaces, FdThen, FdOpQueued, FdStops, FdStopped, FdStill, FdSleeps, FdWaits, FdWatched,
       FdEpochs, FD!Enqueue
  <2>7. FdEpochs'
    BY DEF FdFlags, FdPlaces, FdThen, FdStops, FdStill, FdEpochs, FD!Enqueue
  <2> QED
    BY <2>1, <2>2, <2>3, <2>4, <2>5, <2>6, <2>7 DEF FdInv, FdTypes
<1>3. CASE FD!StopAsync
  <2> USE <1>3
  <2>1. FdFlags'
    BY Zenon DEF FdFlags, FD!StopAsync, FD!IsActive
  <2>2. FdPlaces'
    BY DEF FdPlaces, FD!Kinds, FD!StopAsync, FD!IsActive
  <2>3. FdCounted'
    BY DEF FdFlags, FdPlaces, FdCounted, One, FD!StopAsync, FD!IsActive
  <2>4. FdThen' /\ FdOpQueued'
    BY DEF FdFlags, FdPlaces, FdThen, FdOpQueued, FD!StopAsync, FD!IsActive
  <2>5. FdStops'
    BY DEF FdFlags, FdPlaces, FdCounted, One, FdThen, FdOpQueued, FdStops, FdStopped, FdStill, FD!StopAsync, FD!IsActive
  <2>6. FdSleeps'
    BY DEF FdFlags, FdPlaces, FdThen, FdOpQueued, FdStops, FdStopped, FdStill, FdSleeps, FdWaits, FdWatched,
       FdEpochs, FD!StopAsync, FD!IsActive
  <2>7. FdEpochs'
    BY DEF FdFlags, FdPlaces, FdThen, FdStops, FdStill, FdEpochs, FD!StopAsync, FD!IsActive
  <2> QED
    BY <2>1, <2>2, <2>3, <2>4, <2>5, <2>6, <2>7 DEF FdInv, FdTypes
<1>4. CASE FD!Stop
  <2> USE <1>4
  <2>1. FdFlags'
    BY Zenon DEF FdFlags, FD!Stop, FD!IsActive
  <2>2. FdPlaces'
    BY DEF FdPlaces, FD!Kinds, FD!Stop, FD!IsActive
  <2>3. FdCounted'
    BY DEF FdFlags, FdPlaces, FdCounted, One, FD!Stop, FD!IsActive
  <2>4. FdThen' /\ FdOpQueued'
    BY DEF FdFlags, FdPlaces, FdThen, FdOpQueued, FD!Stop, FD!IsActive
  <2>5. FdStops'
    BY DEF FdFlags, FdPlaces, FdCounted, One, FdThen, FdOpQueued, FdStops, FdStopped, FdStill, FD!Stop, FD!IsActive
  <2>6. FdSleeps'
    BY DEF FdFlags, FdPlaces, FdThen, FdOpQueued, FdStops, FdStopped, FdStill, FdSleeps, FdWaits, FdWatched,
       FdEpochs, FD!Stop, FD!IsActive
  <2>7. FdEpochs'
    BY DEF FdFlags, FdPlaces, FdThen, FdStops, FdStill, FdEpochs, FD!Stop, FD!IsActive
  <2> QED
    BY <2>1, <2>2, <2>3, <2>4, <2>5, <2>6, <2>7 DEF FdInv, FdTypes
<1> QED
  BY <1>1, <1>2, <1>3, <1>4

\* The owner invalidates the poller and closes the descriptor.
LEMMA FdClosing ==
  ASSUME FdInv,
         FD!Invalidate \/ FD!StopSync \/ FD!StopSynced \/ FD!Invalidated \/ FD!Close
  PROVE  FdInv'
<1> USE FdBound DEF FD!pollVars, FD!ownerVars, FD!watcherVars, FD!evVars, FD!fdVars, FD!Goto, FD!EvGoto
<1>0. FdFlags /\ FdPlaces /\ FdCounted /\ FdThen /\ FdOpQueued /\ FdStops /\ FdSleeps /\ FdEpochs
  BY DEF FdInv, FdTypes
<1> USE <1>0
<1>1. CASE FD!Invalidate
  <2> USE <1>1
  <2>1. FdFlags'
    BY Zenon DEF FdFlags, FD!Invalidate
  <2>2. FdPlaces'
    BY DEF FdPlaces, FD!Kinds, FD!Invalidate
  <2>3. FdCounted'
    BY DEF FdFlags, FdPlaces, FdCounted, One, FD!Invalidate
  <2>4. FdThen' /\ FdOpQueued'
    BY DEF FdFlags, FdPlaces, FdThen, FdOpQueued, FD!Invalidate
  <2>5. FdStops'
    BY DEF FdFlags, FdPlaces, FdCounted, One, FdThen, FdOpQueued, FdStops, FdStopped, FdStill, FD!Invalidate
  <2>6. FdSleeps'
    BY DEF FdFlags, FdPlaces, FdThen, FdOpQueued, FdStops, FdStopped, FdStill, FdSleeps, FdWaits, FdWatched,
       FdEpochs, FD!Invalidate
  <2>7. FdEpochs'
    BY DEF FdFlags, FdPlaces, FdThen, FdStops, FdStill, FdEpochs, FD!Invalidate
  <2> QED
    BY <2>1, <2>2, <2>3, <2>4, <2>5, <2>6, <2>7 DEF FdInv, FdTypes
<1>2. CASE FD!StopSync
  <2> USE <1>2
  <2>1. FdFlags'
    BY Zenon DEF FdFlags, FD!StopSync
  <2>2. FdPlaces'
    BY DEF FdPlaces, FD!Kinds, FD!StopSync
  <2>3. FdCounted'
    BY DEF FdFlags, FdPlaces, FdCounted, One, FD!StopSync
  <2>4. FdThen' /\ FdOpQueued'
    BY DEF FdFlags, FdPlaces, FdThen, FdOpQueued, FD!StopSync
  <2>5. FdStops'
    BY DEF FdFlags, FdPlaces, FdCounted, One, FdThen, FdOpQueued, FdStops, FdStopped, FdStill, FD!StopSync
  <2>6. FdSleeps'
    BY DEF FdFlags, FdPlaces, FdThen, FdOpQueued, FdStops, FdStopped, FdStill, FdSleeps, FdWaits, FdWatched,
       FdEpochs, FD!StopSync
  <2>7. FdEpochs'
    BY DEF FdFlags, FdPlaces, FdThen, FdStops, FdStill, FdEpochs, FD!StopSync
  <2> QED
    BY <2>1, <2>2, <2>3, <2>4, <2>5, <2>6, <2>7 DEF FdInv, FdTypes
<1>3. CASE FD!StopSynced
  <2> USE <1>3
  <2>1. FdFlags'
    BY Zenon DEF FdFlags, FD!StopSynced
  <2>2. FdPlaces'
    BY DEF FdPlaces, FD!Kinds, FD!StopSynced
  <2>3. FdCounted'
    BY DEF FdFlags, FdPlaces, FdCounted, One, FD!StopSynced
  <2>4. FdThen' /\ FdOpQueued'
    BY DEF FdFlags, FdPlaces, FdThen, FdOpQueued, FD!StopSynced
  <2>5. FdStops'
    BY DEF FdFlags, FdPlaces, FdCounted, One, FdThen, FdOpQueued, FdStops, FdStopped, FdStill, FD!StopSynced
  <2>6. FdSleeps'
    BY DEF FdFlags, FdPlaces, FdThen, FdOpQueued, FdStops, FdStopped, FdStill, FdSleeps, FdWaits, FdWatched,
       FdEpochs, FD!StopSynced
  <2>7. FdEpochs'
    BY DEF FdFlags, FdPlaces, FdThen, FdStops, FdStill, FdEpochs, FD!StopSynced
  <2> QED
    BY <2>1, <2>2, <2>3, <2>4, <2>5, <2>6, <2>7 DEF FdInv, FdTypes
<1>4. CASE FD!Invalidated
  <2> USE <1>4
  <2>1. FdFlags'
    BY Zenon DEF FdFlags, FD!Invalidated
  <2>2. FdPlaces'
    BY DEF FdPlaces, FD!Kinds, FD!Invalidated
  <2>3. FdCounted'
    BY DEF FdFlags, FdPlaces, FdCounted, One, FD!Invalidated
  <2>4. FdThen' /\ FdOpQueued'
    BY DEF FdFlags, FdPlaces, FdThen, FdOpQueued, FD!Invalidated
  <2>5. FdStops'
    BY DEF FdFlags, FdPlaces, FdCounted, One, FdThen, FdOpQueued, FdStops, FdStopped, FdStill, FD!Invalidated
  <2>6. FdSleeps'
    BY DEF FdFlags, FdPlaces, FdThen, FdOpQueued, FdStops, FdStopped, FdStill, FdSleeps, FdWaits, FdWatched,
       FdEpochs, FD!Invalidated
  <2>7. FdEpochs'
    BY DEF FdFlags, FdPlaces, FdThen, FdStops, FdStill, FdEpochs, FD!Invalidated
  <2> QED
    BY <2>1, <2>2, <2>3, <2>4, <2>5, <2>6, <2>7 DEF FdInv, FdTypes
<1>5. CASE FD!Close
  <2> USE <1>5
  <2>1. FdFlags'
    BY Zenon DEF FdFlags, FD!Close
  <2>2. FdPlaces'
    BY DEF FdPlaces, FD!Kinds, FD!Close
  <2>3. FdCounted'
    BY DEF FdFlags, FdPlaces, FdCounted, One, FD!Close
  <2>4. FdThen' /\ FdOpQueued'
    BY DEF FdFlags, FdPlaces, FdThen, FdOpQueued, FD!Close
  <2>5. FdStops'
    BY DEF FdFlags, FdPlaces, FdCounted, One, FdThen, FdOpQueued, FdStops, FdStopped, FdStill, FD!Close
  <2>6. FdSleeps'
    BY DEF FdFlags, FdPlaces, FdThen, FdOpQueued, FdStops, FdStopped, FdStill, FdSleeps, FdWaits, FdWatched,
       FdEpochs, FD!Close
  <2>7. FdEpochs'
    BY DEF FdFlags, FdPlaces, FdThen, FdStops, FdStill, FdEpochs, FD!Close
  <2> QED
    BY <2>1, <2>2, <2>3, <2>4, <2>5, <2>6, <2>7 DEF FdInv, FdTypes
<1> QED
  BY <1>1, <1>2, <1>3, <1>4, <1>5

\* The ev thread performs what is queued.
LEMMA FdPayloads ==
  ASSUME FdInv,
         FD!TakePayload \/ FD!Perform \/ FD!Release \/ FD!PerformSync
  PROVE  FdInv'
<1> USE FdBound DEF FD!pollVars, FD!ownerVars, FD!watcherVars, FD!evVars, FD!fdVars, FD!Goto, FD!EvGoto
<1>0. FdFlags /\ FdPlaces /\ FdCounted /\ FdThen /\ FdOpQueued /\ FdStops /\ FdSleeps /\ FdEpochs
  BY DEF FdInv, FdTypes
<1> USE <1>0
<1>1. CASE FD!TakePayload
  <2> USE <1>1
  <2>1. FdFlags'
    BY Zenon DEF FdFlags, FD!TakePayload
  <2>2. FdPlaces'
    BY DEF FdPlaces, FD!Kinds, FD!TakePayload
  <2>3. FdCounted'
    BY DEF FdFlags, FdPlaces, FdCounted, One, FD!TakePayload
  <2>4. FdThen' /\ FdOpQueued'
    BY DEF FdFlags, FdPlaces, FdThen, FdOpQueued, FD!TakePayload
  <2>5. FdStops'
    BY DEF FdFlags, FdPlaces, FdCounted, One, FdThen, FdOpQueued, FdStops, FdStopped, FdStill, FD!TakePayload
  <2>6. FdSleeps'
    BY DEF FdFlags, FdPlaces, FdThen, FdOpQueued, FdStops, FdStopped, FdStill, FdSleeps, FdWaits, FdWatched,
       FdEpochs, FD!TakePayload
  <2>7. FdEpochs'
    BY DEF FdFlags, FdPlaces, FdThen, FdStops, FdStill, FdEpochs, FD!TakePayload
  <2> QED
    BY <2>1, <2>2, <2>3, <2>4, <2>5, <2>6, <2>7 DEF FdInv, FdTypes
<1>2. CASE FD!Perform
  <2> USE <1>2
  <2>1. FdFlags'
    BY Zenon DEF FdFlags, FD!Perform, FD!StartImpl, FD!StopImpl, FD!NoOp, FD!Start
  <2>2. FdPlaces'
    BY DEF FdPlaces, FD!Kinds, FD!Perform, FD!StartImpl, FD!StopImpl, FD!NoOp, FD!Start
  <2>3. FdCounted'
    BY DEF FdFlags, FdPlaces, FdCounted, One, FD!Perform, FD!StartImpl, FD!StopImpl, FD!NoOp, FD!Start
  <2>4. FdThen' /\ FdOpQueued'
    BY DEF FdFlags, FdPlaces, FdThen, FdOpQueued, FD!Perform, FD!StartImpl, FD!StopImpl, FD!NoOp, FD!Start
  <2>5. FdStops'
    BY DEF FdFlags, FdPlaces, FdCounted, One, FdThen, FdOpQueued, FdStops, FdStopped, FdStill, FD!Perform, FD!StartImpl, FD!StopImpl, FD!NoOp, FD!Start
  <2>6. FdSleeps'
    BY DEF FdFlags, FdPlaces, FdThen, FdOpQueued, FdStops, FdStopped, FdStill, FdSleeps, FdWaits, FdWatched,
       FdEpochs, FD!Perform, FD!StartImpl, FD!StopImpl, FD!NoOp, FD!Start
  <2>7. FdEpochs'
    BY DEF FdFlags, FdPlaces, FdThen, FdStops, FdStill, FdEpochs, FD!Perform, FD!StartImpl, FD!StopImpl, FD!NoOp, FD!Start
  <2> QED
    BY <2>1, <2>2, <2>3, <2>4, <2>5, <2>6, <2>7 DEF FdInv, FdTypes
<1>3. CASE FD!Release
  <2> USE <1>3
  <2>1. FdFlags'
    BY Zenon DEF FdFlags, FD!Release
  <2>2. FdPlaces'
    BY DEF FdPlaces, FD!Kinds, FD!Release
  <2>3. FdCounted'
    BY DEF FdFlags, FdPlaces, FdCounted, One, FD!Release
  <2>4. FdThen' /\ FdOpQueued'
    BY DEF FdFlags, FdPlaces, FdThen, FdOpQueued, FD!Release
  <2>5. FdStops'
    BY DEF FdFlags, FdPlaces, FdCounted, One, FdThen, FdOpQueued, FdStops, FdStopped, FdStill, FD!Release
  <2>6. FdSleeps'
    BY DEF FdFlags, FdPlaces, FdThen, FdOpQueued, FdStops, FdStopped, FdStill, FdSleeps, FdWaits, FdWatched,
       FdEpochs, FD!Release
  <2>7. FdEpochs'
    BY DEF FdFlags, FdPlaces, FdThen, FdStops, FdStill, FdEpochs, FD!Release
  <2> QED
    BY <2>1, <2>2, <2>3, <2>4, <2>5, <2>6, <2>7 DEF FdInv, FdTypes
<1>4. CASE FD!PerformSync
  <2> USE <1>4
  <2>1. FdFlags'
    BY Zenon DEF FdFlags, FD!PerformSync, FD!StopImpl
  <2>2. FdPlaces'
    BY DEF FdPlaces, FD!Kinds, FD!PerformSync, FD!StopImpl
  <2>3. FdCounted'
    BY DEF FdFlags, FdPlaces, FdCounted, One, FD!PerformSync, FD!StopImpl
  <2>4. FdThen' /\ FdOpQueued'
    BY DEF FdFlags, FdPlaces, FdCounted, FdThen, FdOpQueued, FD!PerformSync, FD!StopImpl
  <2>5. FdStops'
    BY DEF FdFlags, FdPlaces, FdCounted, One, FdThen, FdOpQueued, FdStops, FdStopped, FdStill, FD!PerformSync, FD!StopImpl
  <2>6. FdSleeps'
    BY DEF FdFlags, FdPlaces, FdThen, FdOpQueued, FdStops, FdStopped, FdStill, FdSleeps, FdWaits, FdWatched,
       FdEpochs, FD!PerformSync, FD!StopImpl
  <2>7. FdEpochs'
    BY DEF FdFlags, FdPlaces, FdThen, FdStops, FdStill, FdEpochs, FD!PerformSync, FD!StopImpl
  <2> QED
    BY <2>1, <2>2, <2>3, <2>4, <2>5, <2>6, <2>7 DEF FdInv, FdTypes
<1> QED
  BY <1>1, <1>2, <1>3, <1>4

\* The ev thread polls and runs the callback.
LEMMA FdCallbacks ==
  ASSUME FdInv,
         FD!Poll \/ FD!IoWatcherCb \/ FD!StopWithinEvCallback \/ FD!StoreEvents \/ FD!SetSignal \/ FD!EndCallback
  PROVE  FdInv'
<1> USE FdBound DEF FD!pollVars, FD!ownerVars, FD!watcherVars, FD!evVars, FD!fdVars, FD!Goto, FD!EvGoto
<1>0. FdFlags /\ FdPlaces /\ FdCounted /\ FdThen /\ FdOpQueued /\ FdStops /\ FdSleeps /\ FdEpochs
  BY DEF FdInv, FdTypes
<1> USE <1>0
<1>1. CASE FD!Poll
  <2> USE <1>1
  <2>1. FdFlags'
    BY Zenon DEF FdFlags, FD!Poll
  <2>2. FdPlaces'
    BY DEF FdPlaces, FD!Kinds, FD!Poll
  <2>3. FdCounted'
    BY DEF FdFlags, FdPlaces, FdCounted, One, FD!Poll
  <2>4. FdThen' /\ FdOpQueued'
    BY DEF FdFlags, FdPlaces, FdThen, FdOpQueued, FD!Poll
  <2>5. FdStops'
    BY DEF FdFlags, FdPlaces, FdCounted, One, FdThen, FdOpQueued, FdStops, FdStopped, FdStill, FD!Poll
  <2>6. FdSleeps'
    BY DEF FdFlags, FdPlaces, FdThen, FdOpQueued, FdStops, FdStopped, FdStill, FdSleeps, FdWaits, FdWatched,
       FdEpochs, FD!Poll
  <2>7. FdEpochs'
    BY DEF FdFlags, FdPlaces, FdThen, FdStops, FdStill, FdEpochs, FD!Poll
  <2> QED
    BY <2>1, <2>2, <2>3, <2>4, <2>5, <2>6, <2>7 DEF FdInv, FdTypes
<1>2. CASE FD!IoWatcherCb
  <2> USE <1>2
  <2>1. FdFlags'
    BY Zenon DEF FdFlags, FD!IoWatcherCb
  <2>2. FdPlaces'
    BY DEF FdPlaces, FD!Kinds, FD!IoWatcherCb
  <2>3. FdCounted'
    BY DEF FdFlags, FdPlaces, FdCounted, One, FD!IoWatcherCb
  <2>4. FdThen' /\ FdOpQueued'
    BY DEF FdFlags, FdPlaces, FdThen, FdOpQueued, FD!IoWatcherCb
  <2>5. FdStops'
    BY DEF FdFlags, FdPlaces, FdCounted, One, FdThen, FdOpQueued, FdStops, FdStopped, FdStill, FD!IoWatcherCb
  <2>6. FdSleeps'
    BY DEF FdFlags, FdPlaces, FdThen, FdOpQueued, FdStops, FdStopped, FdStill, FdSleeps, FdWaits, FdWatched,
       FdEpochs, FD!IoWatcherCb
  <2>7. FdEpochs'
    BY DEF FdFlags, FdPlaces, FdThen, FdStops, FdStill, FdEpochs, FD!IoWatcherCb
  <2> QED
    BY <2>1, <2>2, <2>3, <2>4, <2>5, <2>6, <2>7 DEF FdInv, FdTypes
<1>3. CASE FD!StopWithinEvCallback
  <2> USE <1>3
  <2>1. FdFlags'
    BY Zenon DEF FdFlags, FD!StopWithinEvCallback, FD!StopImpl
  <2>2. FdPlaces'
    BY DEF FdPlaces, FD!Kinds, FD!StopWithinEvCallback, FD!StopImpl
  <2>3. FdCounted'
    BY DEF FdFlags, FdPlaces, FdCounted, One, FD!StopWithinEvCallback, FD!StopImpl
  <2>4. FdThen' /\ FdOpQueued'
    BY DEF FdFlags, FdPlaces, FdThen, FdOpQueued, FD!StopWithinEvCallback, FD!StopImpl
  <2>5. FdStops'
    BY DEF FdFlags, FdPlaces, FdCounted, One, FdThen, FdOpQueued, FdStops, FdStopped, FdStill, FD!StopWithinEvCallback, FD!StopImpl
  <2>6. FdSleeps'
    BY DEF FdFlags, FdPlaces, FdThen, FdOpQueued, FdStops, FdStopped, FdStill, FdSleeps, FdWaits, FdWatched,
       FdEpochs, FD!StopWithinEvCallback, FD!StopImpl
  <2>7. FdEpochs'
    BY DEF FdFlags, FdPlaces, FdThen, FdStops, FdStill, FdEpochs, FD!StopWithinEvCallback, FD!StopImpl
  <2> QED
    BY <2>1, <2>2, <2>3, <2>4, <2>5, <2>6, <2>7 DEF FdInv, FdTypes
<1>4. CASE FD!StoreEvents
  <2> USE <1>4
  <2>1. FdFlags'
    BY Zenon DEF FdFlags, FD!StoreEvents
  <2>2. FdPlaces'
    BY DEF FdPlaces, FD!Kinds, FD!StoreEvents
  <2>3. FdCounted'
    BY DEF FdFlags, FdPlaces, FdCounted, One, FD!StoreEvents
  <2>4. FdThen' /\ FdOpQueued'
    BY DEF FdFlags, FdPlaces, FdThen, FdOpQueued, FD!StoreEvents
  <2>5. FdStops'
    BY DEF FdFlags, FdPlaces, FdCounted, One, FdThen, FdOpQueued, FdStops, FdStopped, FdStill, FD!StoreEvents
  <2>6. FdSleeps'
    BY DEF FdFlags, FdPlaces, FdThen, FdOpQueued, FdStops, FdStopped, FdStill, FdSleeps, FdWaits, FdWatched,
       FdEpochs, FD!StoreEvents
  <2>7. FdEpochs'
    BY DEF FdFlags, FdPlaces, FdThen, FdStops, FdStill, FdEpochs, FD!StoreEvents
  <2> QED
    BY <2>1, <2>2, <2>3, <2>4, <2>5, <2>6, <2>7 DEF FdInv, FdTypes
<1>5. CASE FD!SetSignal
  <2> USE <1>5
  <2>1. FdFlags'
    BY Zenon DEF FdFlags, FD!SetSignal
  <2>2. FdPlaces'
    BY DEF FdPlaces, FD!Kinds, FD!SetSignal
  <2>3. FdCounted'
    BY DEF FdFlags, FdPlaces, FdCounted, One, FD!SetSignal
  <2>4. FdThen' /\ FdOpQueued'
    BY DEF FdFlags, FdPlaces, FdThen, FdOpQueued, FD!SetSignal
  <2>5. FdStops'
    BY DEF FdFlags, FdPlaces, FdCounted, One, FdThen, FdOpQueued, FdStops, FdStopped, FdStill, FD!SetSignal
  <2>6. FdSleeps'
    BY DEF FdFlags, FdPlaces, FdThen, FdOpQueued, FdStops, FdStopped, FdStill, FdSleeps, FdWaits, FdWatched,
       FdEpochs, FD!SetSignal
  <2>7. FdEpochs'
    BY DEF FdFlags, FdPlaces, FdThen, FdStops, FdStill, FdEpochs, FD!SetSignal
  <2> QED
    BY <2>1, <2>2, <2>3, <2>4, <2>5, <2>6, <2>7 DEF FdInv, FdTypes
<1>6. CASE FD!EndCallback
  <2> USE <1>6
  <2>1. FdFlags'
    BY Zenon DEF FdFlags, FD!EndCallback
  <2>2. FdPlaces'
    BY DEF FdPlaces, FD!Kinds, FD!EndCallback
  <2>3. FdCounted'
    BY DEF FdFlags, FdPlaces, FdCounted, One, FD!EndCallback
  <2>4. FdThen' /\ FdOpQueued'
    BY DEF FdFlags, FdPlaces, FdThen, FdOpQueued, FD!EndCallback
  <2>5. FdStops'
    BY DEF FdFlags, FdPlaces, FdCounted, One, FdThen, FdOpQueued, FdStops, FdStopped, FdStill, FD!EndCallback
  <2>6. FdSleeps'
    BY DEF FdFlags, FdPlaces, FdThen, FdOpQueued, FdStops, FdStopped, FdStill, FdSleeps, FdWaits, FdWatched,
       FdEpochs, FD!EndCallback
  <2>7. FdEpochs'
    BY DEF FdFlags, FdPlaces, FdThen, FdStops, FdStill, FdEpochs, FD!EndCallback
  <2> QED
    BY <2>1, <2>2, <2>3, <2>4, <2>5, <2>6, <2>7 DEF FdInv, FdTypes
<1> QED
  BY <1>1, <1>2, <1>3, <1>4, <1>5, <1>6

\* The ev thread touches nothing that was closed, an earlier wait does not count for this
\* one, and no wait is lost when starts and stops are merged, for any number of uses.
THEOREM PollerIsSafe == AllSpec => []FdPollerSafe
<1>1. AllInit => FdInv
  <2>1. SUFFICES ASSUME FD!Init PROVE FdInv
    BY DEF AllInit
  <2>2. FdFlags
    BY <2>1, Zenon DEF FD!Init, FdFlags
  <2>3. FdPlaces
    BY <2>1, FdBound DEF FD!Init, FdPlaces, FD!NoOp, FD!Kinds
  <2> QED
    BY <2>1, <2>2, <2>3 DEF FD!Init, FdInv, FdTypes, FdCounted, One, FdThen, FdOpQueued, FdStops, FdStopped, FdStill,
       FdSleeps, FdWaits, FdEpochs, FD!NoOp
<1>2. FdInv /\ [AllNext]_allVars => FdInv'
  <2>1. SUFFICES ASSUME FdInv, FD!Next \/ UNCHANGED fdVars PROVE FdInv'
    BY DEF AllNext, allVars, OthersRest, Requests, AsyncLoggers, Channels, Dumpers
  <2>2. CASE FD!Next
    BY <2>1, <2>2, FdWaiting, FdPushing, FdClosing, FdPayloads, FdCallbacks
       DEF FD!Next, FD!OwnerStep, FD!UserStep, FD!QueueStep, FD!CallbackStep
  <2>3. CASE UNCHANGED fdVars
    BY <2>1, <2>3 DEF fdVars, FdInv, FdTypes, FdFlags, FdPlaces, FdCounted, FdThen, FdOpQueued, FdStops, FdStopped, FdStill,
       FdSleeps, FdWaits, FdWatched, FdEpochs
  <2> QED
    BY <2>1, <2>2, <2>3
<1>3. FdInv => FdPollerSafe
  <2>1. SUFFICES ASSUME FdInv PROVE FdPollerSafe
    OBVIOUS
  <2>2. FdFlags /\ FdPlaces /\ FdCounted /\ FdThen /\ FdOpQueued /\ FdStops /\ FdSleeps /\ FdEpochs
    BY <2>1 DEF FdInv, FdTypes
  <2>3. FD!TypeOK
    BY <2>2, FdBound DEF FD!TypeOK, FdFlags, FdPlaces, FdCounted, One
  <2>4. FD!ClosedIsQuiet
    BY <2>2 DEF FdFlags, FdPlaces, FdCounted, One, FdStops, FdStill, FD!ClosedIsQuiet
  <2>5. FD!ReadyIsReal
    BY <2>2 DEF FdEpochs, FD!ReadyIsReal
  <2>6. FD!SleeperIsWatched
    BY <2>2 DEF FdFlags, FdPlaces, FdOpQueued, FdSleeps, FdWaits, FdWatched, FD!SleeperIsWatched, FD!Start
  <2> QED
    BY <2>3, <2>4, <2>5, <2>6 DEF FdPollerSafe
<1> QED
  BY <1>1, <1>2, <1>3, PTL DEF AllSpec

----------------------------------------------------------------------------
(* HttpRequest *)

HrFlags == hrCompleted \in BOOLEAN /\ hrCancelled \in BOOLEAN /\ hrStopped \in BOOLEAN
HrPlaces ==
  /\ hrTask \in {"idle", "perform", "start", "wait", "cancel", "post", "sync"}
  /\ hrRequest \in 0 .. MaxRequests
  /\ hrCurrent \in 1 .. Retries
  /\ hrPromise \in {"none", "pending", "value", "error"}
  /\ hrCounter \in Nat /\ hrCancelledMax \in Nat /\ hrRead \in Nat /\ hrLate \in Nat
  /\ hrResolver \in {"none", "resolve", "post"}
  /\ hrQueue \in Seq([kind : {"perform", "cancel"}, num : Nat, req : 0 .. MaxRequests])
  /\ hrRegistered \in 0 .. MaxRequests /\ hrTimer \in 0 .. MaxRequests /\ hrFinishing \in 0 .. MaxRequests

\* The numbers that cancel() compares were given out by the easy handle.
HrNumbers ==
  /\ hrCancelledMax <= hrCounter /\ hrRead <= hrCounter
  /\ \A i \in 1 .. Len(hrQueue) : hrQueue[i].num <= hrCounter

\* The handler of the request is in at most one place, in none before the first attempt and
\* after the request was completed, and it is that of the present request.
HrPosted == \E i \in 1 .. Len(hrQueue) : hrQueue[i].kind = "perform"
HrNowhere == hrResolver = "none" /\ hrRegistered = 0 /\ hrTimer = 0 /\ hrFinishing = 0 /\ ~HrPosted
HrOnePlace ==
  /\ hrCompleted \/ hrTask = "start" => HrNowhere
  /\ hrResolver # "none" => hrRegistered = 0 /\ hrTimer = 0 /\ hrFinishing = 0 /\ ~HrPosted
  /\ hrRegistered # 0 => hrTimer = 0 /\ hrFinishing = 0 /\ ~HrPosted
  /\ hrTimer # 0 => hrFinishing = 0 /\ ~HrPosted
  /\ hrFinishing # 0 => ~HrPosted
  /\ {hrRegistered, hrTimer, hrFinishing} \subseteq {0, hrRequest}
HrQueued ==
  \A i, j \in 1 .. Len(hrQueue) :
    hrQueue[i].kind = "perform" =>
      hrQueue[i].req = hrRequest /\ (hrQueue[j].kind = "perform" => i = j)
HrFirst ==
  /\ hrRequest = 0 => hrCompleted /\ ~hrCancelled /\ hrTask \in {"idle", "perform"} /\ hrCounter = 0
  /\ hrTask = "start" => ~hrCancelled /\ ~hrCompleted
  /\ hrTask = "perform" => hrRequest < MaxRequests

\* An attempt is due: the counter will be advanced for this request.
HrDue == hrTask = "start" \/ hrResolver = "resolve" \/ hrTimer # 0
HrBudget ==
  hrRequest # 0 => hrCounter + One(HrDue) <= (hrRequest - 1) * Retries + hrCurrent

\* The one attempt that is started for a cancelled request is the last.
HrLateOnce ==
  /\ hrLate <= 1
  /\ hrLate = 1 => hrCancelled /\ hrTimer = 0 /\ hrResolver = "none" /\ ~HrPosted

HrInv ==
  HrFlags /\ HrPlaces /\ HrNumbers /\ HrOnePlace /\ HrQueued /\ HrFirst /\ HrBudget /\ HrLateOnce

\* The steps of both instances. A request without a resolver, a deadline or cancellations
\* differs in how it starts and in what a user that gives up does.
HrNext == HR!Next \/ HP!PerformRequest \/ HP!GiveUp

\* What the proofs use of the bounds.
LEMMA HrBounds == Retries \in Nat \ {0} /\ MaxRequests \in Nat
  BY ServicesAssumption DEF ServicesAssumption, HR!HttpRequestAssumption

\* No step but HrNext concerns the request.
LEMMA HrMoves == ASSUME [AllNext]_allVars PROVE HrNext \/ UNCHANGED hrVars
<1>1. HP!Next => HrNext
  <2>1. /\ HP!AsyncPerform => HR!AsyncPerform
        /\ HP!Start => HR!Start \/ HP!PerformRequest
        /\ HP!Resolving => HR!Resolving
    BY DEF HP!AsyncPerform, HR!AsyncPerform, HP!Start, HR!Start, HP!ResetDataForNewRequest, HR!ResetDataForNewRequest,
       HP!NewRequest, HR!NewRequest, HP!HandleDeadlineAlreadyPassed, HP!Resolving, HR!Resolving, HP!Resolve, HR!Resolve,
       HP!ResolveFails, HR!ResolveFails, HP!PostPerform, HR!PostPerform, HP!Perform, HR!Perform,
       HP!easy, HR!easy, HP!chain, HR!chain, HP!user, HR!user
  <2>2. \A req, outcome : HP!OnRetry(req, outcome) => HR!OnRetry(req, outcome)
    BY DEF HP!OnRetry, HR!OnRetry, HP!Answer, HR!Answer, HP!NotNeedRetry, HR!NotNeedRetry, HP!OnCompleted, HR!OnCompleted
  <2>3. /\ HP!Payload => HR!Payload
        /\ HP!Attempt => HR!Attempt
        /\ HP!RequestCompleted => HR!RequestCompleted
        /\ HP!OnRetryTimer => HR!OnRetryTimer
    BY <2>2 DEF HP!Payload, HR!Payload, HP!DoEvAsyncPerform, HR!DoEvAsyncPerform, HP!DoEvCancel, HR!DoEvCancel,
       HP!IsHead, HR!IsHead, HP!Quiet, HR!Quiet, HP!StartAttempt, HR!StartAttempt, HP!Attempt, HR!Attempt,
       HP!HandleCompletion, HR!HandleCompletion, HP!Outcomes, HR!Outcomes, HP!RequestCompleted, HR!RequestCompleted,
       HP!OnRetryTimer, HR!OnRetryTimer, HP!easy, HR!easy, HP!chain, HR!chain, HP!user, HR!user
  <2>4. HP!Future => HR!Future
    BY DEF HP!Future, HR!Future, HP!Get, HR!Get, HP!Cancel, HR!Cancel, HP!PostCancel, HR!PostCancel, HP!Cancelled,
       HR!Cancelled, HP!CancelUpTo, HR!CancelUpTo, HP!easy, HR!easy, HP!chain, HR!chain, HP!user, HR!user
  <2> QED
    BY <2>1, <2>3, <2>4 DEF HP!Next, HrNext, HR!Next
<1> QED
  BY <1>1 DEF AllNext, allVars, OthersRest, Requests, AsyncLoggers, Channels, Dumpers, HrNext

HrPayload == [kind : {"perform", "cancel"}, num : Nat, req : 0 .. MaxRequests]

\* What a payload at the end of the queue changes.
LEMMA HrAppend ==
  ASSUME HrPlaces, HrNumbers, HrQueued, NEW x \in HrPayload, hrQueue' = Append(hrQueue, x),
         x.num <= hrCounter', hrCounter <= hrCounter', hrCounter' \in Nat, hrRequest' = hrRequest,
         x.kind = "perform" => x.req = hrRequest /\ ~HrPosted
  PROVE  /\ hrQueue' \in Seq(HrPayload)
         /\ \A i \in 1 .. Len(hrQueue') : hrQueue'[i].num <= hrCounter'
         /\ HrQueued'
         /\ HrPosted' <=> HrPosted \/ x.kind = "perform"
<1>1. hrQueue \in Seq(HrPayload)
  BY DEF HrPlaces, HrPayload
<1>2. /\ hrQueue' \in Seq(HrPayload) /\ Len(hrQueue') = Len(hrQueue) + 1 /\ Len(hrQueue) \in Nat
      /\ hrQueue'[Len(hrQueue) + 1] = x
      /\ \A i \in 1 .. Len(hrQueue) : hrQueue'[i] = hrQueue[i] /\ hrQueue[i] \in HrPayload
  BY <1>1
<1> USE <1>2
<1>3. \A i \in 1 .. Len(hrQueue') : i = Len(hrQueue) + 1 \/ i \in 1 .. Len(hrQueue)
  OBVIOUS
<1>4. ASSUME NEW i \in 1 .. Len(hrQueue') PROVE hrQueue'[i].num <= hrCounter'
  <2>1. CASE i = Len(hrQueue) + 1
    BY <2>1
  <2>2. CASE i \in 1 .. Len(hrQueue)
    <3>1. hrQueue[i].num \in Nat /\ hrQueue[i].num <= hrCounter /\ hrCounter \in Nat
      BY <2>2 DEF HrNumbers, HrPlaces, HrPayload
    <3> QED
      BY <2>2, <3>1
  <2> QED
    BY <1>3, <2>1, <2>2
<1>5. HrPosted' <=> HrPosted \/ x.kind = "perform"
  BY <1>3 DEF HrPosted
<1>6. HrQueued'
  BY <1>3 DEF HrQueued, HrPosted
<1> QED
  BY <1>4, <1>5, <1>6

\* What it changes that the ev thread takes the payload at the head.
LEMMA HrTail ==
  ASSUME HrPlaces, HrNumbers, HrQueued, hrQueue # <<>>, hrQueue' = Tail(hrQueue),
         hrCounter' = hrCounter, hrRequest' = hrRequest
  PROVE  /\ hrQueue' \in Seq(HrPayload)
         /\ Head(hrQueue) \in HrPayload /\ Head(hrQueue).num <= hrCounter
         /\ \A i \in 1 .. Len(hrQueue') : hrQueue'[i].num <= hrCounter'
         /\ HrQueued'
         /\ Head(hrQueue).kind = "perform" => HrPosted /\ ~HrPosted' /\ Head(hrQueue).req = hrRequest
         /\ Head(hrQueue).kind = "cancel" => (HrPosted' <=> HrPosted)
<1>1. hrQueue \in Seq(HrPayload)
  BY DEF HrPlaces, HrPayload
<1>2. /\ hrQueue' \in Seq(HrPayload) /\ Len(hrQueue') = Len(hrQueue) - 1 /\ Len(hrQueue) \in Nat /\ Len(hrQueue) > 0
      /\ Head(hrQueue) = hrQueue[1] /\ hrQueue[1] \in HrPayload
      /\ \A i \in 1 .. Len(hrQueue') : hrQueue'[i] = hrQueue[i + 1] /\ i + 1 \in 1 .. Len(hrQueue)
  BY <1>1
<1> USE <1>2
<1>3. \A j \in 1 .. Len(hrQueue) : j = 1 \/ (j - 1 \in 1 .. Len(hrQueue') /\ hrQueue'[j - 1] = hrQueue[j])
  OBVIOUS
<1>4. \A i \in 1 .. Len(hrQueue') : hrQueue'[i].num <= hrCounter'
  BY DEF HrNumbers
<1>5. HrQueued'
  <2>1. SUFFICES ASSUME NEW i \in 1 .. Len(hrQueue'), NEW j \in 1 .. Len(hrQueue'), hrQueue'[i].kind = "perform"
                 PROVE  hrQueue'[i].req = hrRequest /\ (hrQueue'[j].kind = "perform" => i = j)
    BY DEF HrQueued
  <2>2. hrQueue[i + 1].req = hrRequest /\ (hrQueue[j + 1].kind = "perform" => i + 1 = j + 1)
    BY <2>1 DEF HrQueued
  <2> QED
    BY <2>2
<1>6. Head(hrQueue).kind = "cancel" => (HrPosted' <=> HrPosted)
  <2>1. HrPosted' => HrPosted
    BY DEF HrPosted
  <2>2. Head(hrQueue).kind = "cancel" /\ HrPosted => HrPosted'
    BY <1>3 DEF HrPosted
  <2> QED
    BY <2>1, <2>2
<1>7. Head(hrQueue).kind = "perform" => HrPosted /\ ~HrPosted' /\ Head(hrQueue).req = hrRequest
  <2>1. SUFFICES ASSUME hrQueue[1].kind = "perform" PROVE HrPosted /\ ~HrPosted' /\ hrQueue[1].req = hrRequest
    OBVIOUS
  <2>2. HrPosted /\ hrQueue[1].req = hrRequest
    BY <2>1 DEF HrPosted, HrQueued
  <2>3. ASSUME NEW i \in 1 .. Len(hrQueue'), hrQueue'[i].kind = "perform" PROVE FALSE
    BY <2>1, <2>3 DEF HrQueued
  <2> QED
    BY <2>2, <2>3 DEF HrPosted
<1>8. Head(hrQueue).num <= hrCounter
  BY DEF HrNumbers
<1> QED
  BY <1>4, <1>5, <1>6, <1>7, <1>8

\* The handler of an attempt keeps the types.
LEMMA HrOnRetry ==
  ASSUME HrPlaces, NEW req \in 0 .. MaxRequests, NEW outcome, HR!OnRetry(req, outcome)
  PROVE  /\ hrCurrent' \in 1 .. Retries /\ hrPromise' \in {"none", "pending", "value", "error"}
         /\ hrTimer' \in 0 .. MaxRequests /\ hrFinishing' \in 0 .. MaxRequests
  BY HrBounds DEF HrPlaces, HR!OnRetry, HR!Answer, HR!NotNeedRetry, HR!OnCompleted

\* The queue is as it was.
LEMMA HrSameQueue ==
  ASSUME HrPlaces, HrNumbers, HrQueued, UNCHANGED hrQueue, hrCounter <= hrCounter', hrCounter' \in Nat
  PROVE  /\ \A i \in 1 .. Len(hrQueue') : hrQueue'[i].num <= hrCounter'
         /\ HrPosted' <=> HrPosted
         /\ hrRequest' = hrRequest \/ ~HrPosted => HrQueued'
<1>1. hrQueue \in Seq(HrPayload)
  BY DEF HrPlaces, HrPayload
<1>2. \A i \in 1 .. Len(hrQueue) : hrQueue[i] \in HrPayload
  BY <1>1
<1>3. \A i \in 1 .. Len(hrQueue') : hrQueue'[i].num <= hrCounter'
  BY <1>2 DEF HrNumbers, HrPayload, HrPlaces
<1>4. HrPosted' <=> HrPosted
  BY DEF HrPosted
<1>5. hrRequest' = hrRequest \/ ~HrPosted => HrQueued'
  BY DEF HrQueued, HrPosted
<1> QED
  BY <1>3, <1>4, <1>5

\* The task begins a request.
LEMMA HrPerformSteps ==
  ASSUME HrInv, HR!AsyncPerform \/ HR!ResetDataForNewRequest \/ HR!HandleDeadlineAlreadyPassed \/ HR!PerformRequest \/ HP!PerformRequest
  PROVE  HrInv'
<1> USE HrBounds DEF HR!easy, HR!chain, HR!user, HP!easy, HP!chain, HP!user
<1>0. HrFlags /\ HrPlaces /\ HrNumbers /\ HrOnePlace /\ HrQueued /\ HrFirst /\ HrBudget /\ HrLateOnce
  BY DEF HrInv
<1> USE <1>0
<1>1. CASE HR!AsyncPerform
  <2> USE <1>1
  <2>1. /\ hrQueue' = hrQueue /\ hrCounter <= hrCounter' /\ hrCounter' \in Nat
        /\ hrRequest' = hrRequest \/ ~HrPosted
    BY DEF HrPlaces, HrOnePlace, HrNowhere, HR!AsyncPerform
  <2>2. /\ \A i \in 1 .. Len(hrQueue') : hrQueue'[i].num <= hrCounter'
        /\ HrPosted' <=> HrPosted
        /\ HrQueued'
    BY <2>1, HrSameQueue
  <2> USE <2>2
  <2>3. hrQueue' \in Seq(HrPayload)
    BY <2>1 DEF HrPlaces, HrPayload
  <2>4. HrFlags'
    BY Zenon DEF HrFlags, HR!AsyncPerform
  <2>5. HrPlaces'
    BY <2>3 DEF HrFlags, HrPlaces, HrFirst, HrPayload, HR!AsyncPerform
  <2>6. HrNumbers'
    BY DEF HrPlaces, HrNumbers, HR!AsyncPerform
  <2>7. HrOnePlace'
    BY DEF HrFlags, HrPlaces, HrOnePlace, HrNowhere, HrFirst, HR!AsyncPerform
  <2>8. HrFirst'
    BY DEF HrFlags, HrPlaces, HrOnePlace, HrNowhere, HrFirst, HR!AsyncPerform
  <2>9. HrBudget'
    BY DEF HrFlags, HrPlaces, HrOnePlace, HrNowhere, HrFirst, HrBudget, HrDue, One, HR!AsyncPerform
  <2>10. HrLateOnce'
    BY DEF HrFlags, HrPlaces, HrOnePlace, HrNowhere, HrFirst, HrLateOnce, HR!AsyncPerform
  <2> QED
    BY <2>4, <2>5, <2>6, <2>7, <2>8, <2>9, <2>10 DEF HrInv
<1>2. CASE HR!ResetDataForNewRequest
  <2> USE <1>2
  <2>1. /\ hrQueue' = hrQueue /\ hrCounter <= hrCounter' /\ hrCounter' \in Nat
        /\ hrRequest' = hrRequest \/ ~HrPosted
    BY DEF HrPlaces, HrOnePlace, HrNowhere, HR!ResetDataForNewRequest, HR!NewRequest
  <2>2. /\ \A i \in 1 .. Len(hrQueue') : hrQueue'[i].num <= hrCounter'
        /\ HrPosted' <=> HrPosted
        /\ HrQueued'
    BY <2>1, HrSameQueue
  <2> USE <2>2
  <2>3. hrQueue' \in Seq(HrPayload)
    BY <2>1 DEF HrPlaces, HrPayload
  <2>4. HrFlags'
    BY Zenon DEF HrFlags, HR!ResetDataForNewRequest, HR!NewRequest
  <2>5. HrPlaces'
    BY <2>3 DEF HrFlags, HrPlaces, HrFirst, HrPayload, HR!ResetDataForNewRequest, HR!NewRequest
  <2>6. HrNumbers'
    BY DEF HrPlaces, HrNumbers, HR!ResetDataForNewRequest, HR!NewRequest
  <2>7. HrOnePlace'
    BY DEF HrFlags, HrPlaces, HrOnePlace, HrNowhere, HrFirst, HR!ResetDataForNewRequest, HR!NewRequest
  <2>8. HrFirst'
    BY DEF HrFlags, HrPlaces, HrOnePlace, HrNowhere, HrFirst, HR!ResetDataForNewRequest, HR!NewRequest
  <2>9. HrBudget'
    BY DEF HrFlags, HrPlaces, HrOnePlace, HrNowhere, HrFirst, HrBudget, HrDue, One, HR!ResetDataForNewRequest, HR!NewRequest
  <2>10. HrLateOnce'
    BY DEF HrFlags, HrPlaces, HrOnePlace, HrNowhere, HrFirst, HrLateOnce, HR!ResetDataForNewRequest, HR!NewRequest
  <2> QED
    BY <2>4, <2>5, <2>6, <2>7, <2>8, <2>9, <2>10 DEF HrInv
<1>3. CASE HR!HandleDeadlineAlreadyPassed
  <2> USE <1>3
  <2>1. /\ hrQueue' = hrQueue /\ hrCounter <= hrCounter' /\ hrCounter' \in Nat
        /\ hrRequest' = hrRequest \/ ~HrPosted
    BY DEF HrPlaces, HrOnePlace, HrNowhere, HR!HandleDeadlineAlreadyPassed
  <2>2. /\ \A i \in 1 .. Len(hrQueue') : hrQueue'[i].num <= hrCounter'
        /\ HrPosted' <=> HrPosted
        /\ HrQueued'
    BY <2>1, HrSameQueue
  <2> USE <2>2
  <2>3. hrQueue' \in Seq(HrPayload)
    BY <2>1 DEF HrPlaces, HrPayload
  <2>4. HrFlags'
    BY Zenon DEF HrFlags, HR!HandleDeadlineAlreadyPassed
  <2>5. HrPlaces'
    BY <2>3 DEF HrFlags, HrPlaces, HrFirst, HrPayload, HR!HandleDeadlineAlreadyPassed
  <2>6. HrNumbers'
    BY DEF HrPlaces, HrNumbers, HR!HandleDeadlineAlreadyPassed
  <2>7. HrOnePlace'
    BY DEF HrFlags, HrPlaces, HrOnePlace, HrNowhere, HrFirst, HR!HandleDeadlineAlreadyPassed
  <2>8. HrFirst'
    BY DEF HrFlags, HrPlaces, HrOnePlace, HrNowhere, HrFirst, HR!HandleDeadlineAlreadyPassed
  <2>9. HrBudget'
    BY DEF HrFlags, HrPlaces, HrOnePlace, HrNowhere, HrFirst, HrBudget, HrDue, One, HR!HandleDeadlineAlreadyPassed
  <2>10. HrLateOnce'
    BY DEF HrFlags, HrPlaces, HrOnePlace, HrNowhere, HrFirst, HrLateOnce, HR!HandleDeadlineAlreadyPassed
  <2> QED
    BY <2>4, <2>5, <2>6, <2>7, <2>8, <2>9, <2>10 DEF HrInv
<1>4. CASE HR!PerformRequest
  <2> USE <1>4
  <2>1. /\ hrQueue' = hrQueue /\ hrCounter <= hrCounter' /\ hrCounter' \in Nat
        /\ hrRequest' = hrRequest \/ ~HrPosted
    BY DEF HrPlaces, HrOnePlace, HrNowhere, HR!PerformRequest
  <2>2. /\ \A i \in 1 .. Len(hrQueue') : hrQueue'[i].num <= hrCounter'
        /\ HrPosted' <=> HrPosted
        /\ HrQueued'
    BY <2>1, HrSameQueue
  <2> USE <2>2
  <2>3. hrQueue' \in Seq(HrPayload)
    BY <2>1 DEF HrPlaces, HrPayload
  <2>4. HrFlags'
    BY Zenon DEF HrFlags, HR!PerformRequest
  <2>5. HrPlaces'
    BY <2>3 DEF HrFlags, HrPlaces, HrFirst, HrPayload, HR!PerformRequest
  <2>6. HrNumbers'
    BY DEF HrPlaces, HrNumbers, HR!PerformRequest
  <2>7. HrOnePlace'
    BY DEF HrFlags, HrPlaces, HrOnePlace, HrNowhere, HrFirst, HR!PerformRequest
  <2>8. HrFirst'
    BY DEF HrFlags, HrPlaces, HrOnePlace, HrNowhere, HrFirst, HR!PerformRequest
  <2>9. HrBudget'
    BY DEF HrFlags, HrPlaces, HrOnePlace, HrNowhere, HrFirst, HrBudget, HrDue, One, HR!PerformRequest
  <2>10. HrLateOnce'
    BY DEF HrFlags, HrPlaces, HrOnePlace, HrNowhere, HrFirst, HrLateOnce, HR!PerformRequest
  <2> QED
    BY <2>4, <2>5, <2>6, <2>7, <2>8, <2>9, <2>10 DEF HrInv
<1>5. CASE HP!PerformRequest
  <2> USE <1>5
  <2> DEFINE x == HP!Perform(hrCounter + 1)
  <2>1. /\ x \in HrPayload /\ x.kind = "perform" /\ hrQueue' = Append(hrQueue, x)
        /\ hrRequest' = hrRequest
        /\ x.num <= hrCounter' /\ hrCounter <= hrCounter' /\ hrCounter' \in Nat
        /\ x.kind = "perform" => x.req = hrRequest /\ ~HrPosted
    BY DEF HrPlaces, HrNumbers, HrOnePlace, HrNowhere, HrPayload, HP!Perform, HP!PerformRequest, HP!Perform
  <2> HIDE DEF x
  <2>2. /\ \A i \in 1 .. Len(hrQueue') : hrQueue'[i].num <= hrCounter'
        /\ HrPosted' <=> HrPosted \/ x.kind = "perform"
        /\ HrQueued'
    BY <2>1, HrAppend
  <2> USE <2>2
  <2>3. hrQueue' \in Seq(HrPayload)
    BY <2>1, HrAppend
  <2>4. HrFlags'
    BY Zenon DEF HrFlags, HP!PerformRequest, HP!Perform
  <2>5. HrPlaces'
    BY <2>3 DEF HrFlags, HrPlaces, HrFirst, HrPayload, HP!PerformRequest, HP!Perform
  <2>6. HrNumbers'
    BY DEF HrPlaces, HrNumbers, HP!PerformRequest, HP!Perform
  <2>7. HrOnePlace'
    BY DEF HrFlags, HrPlaces, HrOnePlace, HrNowhere, HrFirst, HP!PerformRequest, HP!Perform
  <2>8. HrFirst'
    BY DEF HrFlags, HrPlaces, HrOnePlace, HrNowhere, HrFirst, HP!PerformRequest, HP!Perform
  <2>9. HrBudget'
    BY DEF HrFlags, HrPlaces, HrOnePlace, HrNowhere, HrFirst, HrBudget, HrDue, One, HP!PerformRequest, HP!Perform
  <2>10. HrLateOnce'
    BY DEF HrFlags, HrPlaces, HrOnePlace, HrNowhere, HrFirst, HrLateOnce, HP!PerformRequest, HP!Perform
  <2> QED
    BY <2>4, <2>5, <2>6, <2>7, <2>8, <2>9, <2>10 DEF HrInv
<1> QED
  BY <1>1, <1>2, <1>3, <1>4, <1>5

\* The detached task resolves the host.
LEMMA HrResolveSteps ==
  ASSUME HrInv, HR!Resolve \/ HR!ResolveFails \/ HR!PostPerform
  PROVE  HrInv'
<1> USE HrBounds DEF HR!easy, HR!chain, HR!user
<1>0. HrFlags /\ HrPlaces /\ HrNumbers /\ HrOnePlace /\ HrQueued /\ HrFirst /\ HrBudget /\ HrLateOnce
  BY DEF HrInv
<1> USE <1>0
<1>1. CASE HR!Resolve
  <2> USE <1>1
  <2>1. /\ hrQueue' = hrQueue /\ hrCounter <= hrCounter' /\ hrCounter' \in Nat
        /\ hrRequest' = hrRequest \/ ~HrPosted
    BY DEF HrPlaces, HrOnePlace, HrNowhere, HR!Resolve
  <2>2. /\ \A i \in 1 .. Len(hrQueue') : hrQueue'[i].num <= hrCounter'
        /\ HrPosted' <=> HrPosted
        /\ HrQueued'
    BY <2>1, HrSameQueue
  <2> USE <2>2
  <2>3. hrQueue' \in Seq(HrPayload)
    BY <2>1 DEF HrPlaces, HrPayload
  <2>4. HrFlags'
    BY Zenon DEF HrFlags, HR!Resolve
  <2>5. HrPlaces'
    BY <2>3 DEF HrFlags, HrPlaces, HrFirst, HrPayload, HR!Resolve
  <2>6. HrNumbers'
    BY DEF HrPlaces, HrNumbers, HR!Resolve
  <2>7. HrOnePlace'
    BY DEF HrFlags, HrPlaces, HrOnePlace, HrNowhere, HrFirst, HR!Resolve
  <2>8. HrFirst'
    BY DEF HrFlags, HrPlaces, HrOnePlace, HrNowhere, HrFirst, HR!Resolve
  <2>9. HrBudget'
    BY DEF HrFlags, HrPlaces, HrOnePlace, HrNowhere, HrFirst, HrBudget, HrDue, One, HR!Resolve
  <2>10. HrLateOnce'
    BY DEF HrFlags, HrPlaces, HrOnePlace, HrNowhere, HrFirst, HrLateOnce, HR!Resolve
  <2> QED
    BY <2>4, <2>5, <2>6, <2>7, <2>8, <2>9, <2>10 DEF HrInv
<1>2. CASE HR!ResolveFails
  <2> USE <1>2
  <2>1. /\ hrQueue' = hrQueue /\ hrCounter <= hrCounter' /\ hrCounter' \in Nat
        /\ hrRequest' = hrRequest \/ ~HrPosted
    BY DEF HrPlaces, HrOnePlace, HrNowhere, HR!ResolveFails
  <2>2. /\ \A i \in 1 .. Len(hrQueue') : hrQueue'[i].num <= hrCounter'
        /\ HrPosted' <=> HrPosted
        /\ HrQueued'
    BY <2>1, HrSameQueue
  <2> USE <2>2
  <2>3. hrQueue' \in Seq(HrPayload)
    BY <2>1 DEF HrPlaces, HrPayload
  <2>4. HrFlags'
    BY Zenon DEF HrFlags, HR!ResolveFails
  <2>5. HrPlaces'
    BY <2>3 DEF HrFlags, HrPlaces, HrFirst, HrPayload, HR!ResolveFails
  <2>6. HrNumbers'
    BY DEF HrPlaces, HrNumbers, HR!ResolveFails
  <2>7. HrOnePlace'
    BY DEF HrFlags, HrPlaces, HrOnePlace, HrNowhere, HrFirst, HR!ResolveFails
  <2>8. HrFirst'
    BY DEF HrFlags, HrPlaces, HrOnePlace, HrNowhere, HrFirst, HR!ResolveFails
  <2>9. HrBudget'
    BY DEF HrFlags, HrPlaces, HrOnePlace, HrNowhere, HrFirst, HrBudget, HrDue, One, HR!ResolveFails
  <2>10. HrLateOnce'
    BY DEF HrFlags, HrPlaces, HrOnePlace, HrNowhere, HrFirst, HrLateOnce, HR!ResolveFails
  <2> QED
    BY <2>4, <2>5, <2>6, <2>7, <2>8, <2>9, <2>10 DEF HrInv
<1>3. CASE HR!PostPerform
  <2> USE <1>3
  <2> DEFINE x == HR!Perform(hrCounter)
  <2>1. /\ x \in HrPayload /\ x.kind = "perform" /\ hrQueue' = Append(hrQueue, x)
        /\ hrRequest' = hrRequest
        /\ x.num <= hrCounter' /\ hrCounter <= hrCounter' /\ hrCounter' \in Nat
        /\ x.kind = "perform" => x.req = hrRequest /\ ~HrPosted
    BY DEF HrPlaces, HrNumbers, HrOnePlace, HrNowhere, HrPayload, HR!Perform, HR!PostPerform, HR!Perform
  <2> HIDE DEF x
  <2>2. /\ \A i \in 1 .. Len(hrQueue') : hrQueue'[i].num <= hrCounter'
        /\ HrPosted' <=> HrPosted \/ x.kind = "perform"
        /\ HrQueued'
    BY <2>1, HrAppend
  <2> USE <2>2
  <2>3. hrQueue' \in Seq(HrPayload)
    BY <2>1, HrAppend
  <2>4. HrFlags'
    BY Zenon DEF HrFlags, HR!PostPerform, HR!Perform
  <2>5. HrPlaces'
    BY <2>3 DEF HrFlags, HrPlaces, HrFirst, HrPayload, HR!PostPerform, HR!Perform
  <2>6. HrNumbers'
    BY DEF HrPlaces, HrNumbers, HR!PostPerform, HR!Perform
  <2>7. HrOnePlace'
    BY DEF HrFlags, HrPlaces, HrOnePlace, HrNowhere, HrFirst, HR!PostPerform, HR!Perform
  <2>8. HrFirst'
    BY DEF HrFlags, HrPlaces, HrOnePlace, HrNowhere, HrFirst, HR!PostPerform, HR!Perform
  <2>9. HrBudget'
    BY DEF HrFlags, HrPlaces, HrOnePlace, HrNowhere, HrFirst, HrBudget, HrDue, One, HR!PostPerform, HR!Perform
  <2>10. HrLateOnce'
    BY DEF HrFlags, HrPlaces, HrOnePlace, HrNowhere, HrFirst, HrLateOnce, HR!PostPerform, HR!Perform
  <2> QED
    BY <2>4, <2>5, <2>6, <2>7, <2>8, <2>9, <2>10 DEF HrInv
<1> QED
  BY <1>1, <1>2, <1>3

\* The ev thread ends an attempt, completes the request or starts a retry.
LEMMA HrAttemptSteps ==
  ASSUME HrInv, NEW outcome \in HR!Outcomes, HR!RequestCompleted \/ HR!HandleCompletion(outcome) \/ HR!OnRetryTimer
  PROVE  HrInv'
<1> USE HrBounds DEF HR!easy, HR!chain, HR!user
<1>0. HrFlags /\ HrPlaces /\ HrNumbers /\ HrOnePlace /\ HrQueued /\ HrFirst /\ HrBudget /\ HrLateOnce
  BY DEF HrInv
<1> USE <1>0
<1>1. CASE HR!RequestCompleted
  <2> USE <1>1
  <2>1. /\ hrQueue' = hrQueue /\ hrCounter <= hrCounter' /\ hrCounter' \in Nat
        /\ hrRequest' = hrRequest \/ ~HrPosted
    BY DEF HrPlaces, HrOnePlace, HrNowhere, HR!RequestCompleted
  <2>2. /\ \A i \in 1 .. Len(hrQueue') : hrQueue'[i].num <= hrCounter'
        /\ HrPosted' <=> HrPosted
        /\ HrQueued'
    BY <2>1, HrSameQueue
  <2> USE <2>2
  <2>3. hrQueue' \in Seq(HrPayload)
    BY <2>1 DEF HrPlaces, HrPayload
  <2>4. HrFlags'
    BY Zenon DEF HrFlags, HR!RequestCompleted
  <2>5. HrPlaces'
    BY <2>3 DEF HrFlags, HrPlaces, HrFirst, HrPayload, HR!RequestCompleted
  <2>6. HrNumbers'
    BY DEF HrPlaces, HrNumbers, HR!RequestCompleted
  <2>7. HrOnePlace'
    BY DEF HrFlags, HrPlaces, HrOnePlace, HrNowhere, HrFirst, HR!RequestCompleted
  <2>8. HrFirst'
    BY DEF HrFlags, HrPlaces, HrOnePlace, HrNowhere, HrFirst, HR!RequestCompleted
  <2>9. HrBudget'
    BY DEF HrFlags, HrPlaces, HrOnePlace, HrNowhere, HrFirst, HrBudget, HrDue, One, HR!RequestCompleted
  <2>10. HrLateOnce'
    BY DEF HrFlags, HrPlaces, HrOnePlace, HrNowhere, HrFirst, HrLateOnce, HR!RequestCompleted
  <2> QED
    BY <2>4, <2>5, <2>6, <2>7, <2>8, <2>9, <2>10 DEF HrInv
<1>2. CASE HR!HandleCompletion(outcome)
  <2> USE <1>2
  <2>1. /\ hrQueue' = hrQueue /\ hrCounter <= hrCounter' /\ hrCounter' \in Nat
        /\ hrRequest' = hrRequest \/ ~HrPosted
    BY DEF HrPlaces, HrOnePlace, HrNowhere, HR!HandleCompletion, HR!OnRetry, HR!Answer, HR!NotNeedRetry, HR!OnCompleted, HR!Quiet
  <2>2. /\ \A i \in 1 .. Len(hrQueue') : hrQueue'[i].num <= hrCounter'
        /\ HrPosted' <=> HrPosted
        /\ HrQueued'
    BY <2>1, HrSameQueue
  <2> USE <2>2
  <2>3. hrQueue' \in Seq(HrPayload)
    BY <2>1 DEF HrPlaces, HrPayload
  <2>4. HrFlags'
    BY Zenon DEF HrFlags, HR!HandleCompletion, HR!OnRetry, HR!Answer, HR!NotNeedRetry, HR!OnCompleted, HR!Quiet
  <2>5. HrPlaces'
    BY <2>3 DEF HrFlags, HrPlaces, HrFirst, HrPayload, HR!HandleCompletion, HR!OnRetry, HR!Answer, HR!NotNeedRetry, HR!OnCompleted, HR!Quiet
  <2>6. HrNumbers'
    BY DEF HrPlaces, HrNumbers, HR!HandleCompletion, HR!OnRetry, HR!Answer, HR!NotNeedRetry, HR!OnCompleted, HR!Quiet
  <2>7. HrOnePlace'
    BY DEF HrFlags, HrPlaces, HrOnePlace, HrNowhere, HrFirst, HR!HandleCompletion, HR!OnRetry, HR!Answer, HR!NotNeedRetry, HR!OnCompleted, HR!Quiet
  <2>8. HrFirst'
    BY DEF HrFlags, HrPlaces, HrOnePlace, HrNowhere, HrFirst, HR!HandleCompletion, HR!OnRetry, HR!Answer, HR!NotNeedRetry, HR!OnCompleted, HR!Quiet
  <2>9. HrBudget'
    BY DEF HrFlags, HrPlaces, HrOnePlace, HrNowhere, HrFirst, HrBudget, HrDue, One, HR!HandleCompletion, HR!OnRetry, HR!Answer, HR!NotNeedRetry, HR!OnCompleted, HR!Quiet
  <2>10. HrLateOnce'
    BY DEF HrFlags, HrPlaces, HrOnePlace, HrNowhere, HrFirst, HrLateOnce, HR!HandleCompletion, HR!OnRetry, HR!Answer, HR!NotNeedRetry, HR!OnCompleted, HR!Quiet
  <2> QED
    BY <2>4, <2>5, <2>6, <2>7, <2>8, <2>9, <2>10 DEF HrInv
<1>3. CASE HR!OnRetryTimer
  <2> USE <1>3
  <2>1. /\ hrQueue' = hrQueue /\ hrCounter <= hrCounter' /\ hrCounter' \in Nat
        /\ hrRequest' = hrRequest \/ ~HrPosted
    BY DEF HrPlaces, HrOnePlace, HrNowhere, HR!OnRetryTimer, HR!StartAttempt, HR!Quiet
  <2>2. /\ \A i \in 1 .. Len(hrQueue') : hrQueue'[i].num <= hrCounter'
        /\ HrPosted' <=> HrPosted
        /\ HrQueued'
    BY <2>1, HrSameQueue
  <2> USE <2>2
  <2>3. hrQueue' \in Seq(HrPayload)
    BY <2>1 DEF HrPlaces, HrPayload
  <2>4. HrFlags'
    BY Zenon DEF HrFlags, HR!OnRetryTimer, HR!StartAttempt, HR!Quiet
  <2>5. HrPlaces'
    BY <2>3 DEF HrFlags, HrPlaces, HrFirst, HrPayload, HR!OnRetryTimer, HR!StartAttempt, HR!Quiet
  <2>6. HrNumbers'
    BY DEF HrPlaces, HrNumbers, HR!OnRetryTimer, HR!StartAttempt, HR!Quiet
  <2>7. HrOnePlace'
    BY DEF HrFlags, HrPlaces, HrOnePlace, HrNowhere, HrFirst, HR!OnRetryTimer, HR!StartAttempt, HR!Quiet
  <2>8. HrFirst'
    BY DEF HrFlags, HrPlaces, HrOnePlace, HrNowhere, HrFirst, HR!OnRetryTimer, HR!StartAttempt, HR!Quiet
  <2>9. HrBudget'
    BY DEF HrFlags, HrPlaces, HrOnePlace, HrNowhere, HrFirst, HrBudget, HrDue, One, HR!OnRetryTimer, HR!StartAttempt, HR!Quiet
  <2>10. HrLateOnce'
    BY DEF HrFlags, HrPlaces, HrOnePlace, HrNowhere, HrFirst, HrLateOnce, HR!OnRetryTimer, HR!StartAttempt, HR!Quiet
  <2> QED
    BY <2>4, <2>5, <2>6, <2>7, <2>8, <2>9, <2>10 DEF HrInv
<1> QED
  BY <1>1, <1>2, <1>3

\* The ev thread performs a payload.
LEMMA HrPayloadSteps ==
  ASSUME HrInv, HR!DoEvAsyncPerform \/ HR!DoEvCancel
  PROVE  HrInv'
<1> USE HrBounds DEF HR!easy, HR!chain, HR!user
<1>0. HrFlags /\ HrPlaces /\ HrNumbers /\ HrOnePlace /\ HrQueued /\ HrFirst /\ HrBudget /\ HrLateOnce
  BY DEF HrInv
<1> USE <1>0
<1>1. CASE HR!DoEvAsyncPerform
  <2> USE <1>1
  <2>1. /\ hrQueue # <<>> /\ hrQueue' = Tail(hrQueue)
        /\ UNCHANGED <<hrCounter, hrRequest>>
    BY DEF HR!DoEvAsyncPerform, HR!IsHead, HR!Quiet, HR!StartAttempt
  <2>2. /\ Head(hrQueue) \in HrPayload /\ Head(hrQueue).num <= hrCounter
        /\ \A i \in 1 .. Len(hrQueue') : hrQueue'[i].num <= hrCounter'
        /\ Head(hrQueue).kind = "perform" => HrPosted /\ ~HrPosted' /\ Head(hrQueue).req = hrRequest
        /\ Head(hrQueue).kind = "cancel" => (HrPosted' <=> HrPosted)
        /\ HrQueued'
    BY <2>1, HrTail
  <2> USE <2>2
  <2>3. hrQueue' \in Seq(HrPayload)
    BY <2>1, HrTail
  <2>4. HrFlags'
    BY Zenon DEF HrFlags, HR!DoEvAsyncPerform, HR!IsHead, HR!Quiet, HR!StartAttempt
  <2>5. HrPlaces'
    <3>1. hrCancelledMax' \in Nat /\ hrLate' \in Nat
      BY DEF HrPlaces, HrPayload, HR!DoEvAsyncPerform, HR!StartAttempt
    <3>2. hrRegistered' \in 0 .. MaxRequests
      BY DEF HrPlaces, HrPayload, HR!DoEvAsyncPerform, HR!StartAttempt
    <3> QED
      BY <2>3, <3>1, <3>2 DEF HrPlaces, HrPayload, HR!DoEvAsyncPerform
  <2>6. HrNumbers'
    BY DEF HrPlaces, HrNumbers, HrPayload, HR!DoEvAsyncPerform, HR!IsHead, HR!Quiet, HR!StartAttempt
  <2>7. HrOnePlace'
    BY DEF HrFlags, HrPlaces, HrOnePlace, HrNowhere, HrFirst, HrPayload, HR!DoEvAsyncPerform, HR!IsHead, HR!Quiet, HR!StartAttempt
  <2>8. HrFirst'
    BY DEF HrFlags, HrPlaces, HrOnePlace, HrNowhere, HrFirst, HR!DoEvAsyncPerform, HR!IsHead, HR!Quiet, HR!StartAttempt
  <2>9. HrBudget'
    BY DEF HrFlags, HrPlaces, HrOnePlace, HrNowhere, HrFirst, HrBudget, HrDue, One, HR!DoEvAsyncPerform, HR!IsHead, HR!Quiet, HR!StartAttempt
  <2>10. HrLateOnce'
    BY DEF HrFlags, HrPlaces, HrOnePlace, HrNowhere, HrFirst, HrLateOnce, HR!DoEvAsyncPerform, HR!IsHead, HR!Quiet, HR!StartAttempt
  <2> QED
    BY <2>4, <2>5, <2>6, <2>7, <2>8, <2>9, <2>10 DEF HrInv
<1>2. CASE HR!DoEvCancel
  <2> USE <1>2
  <2>1. /\ hrQueue # <<>> /\ hrQueue' = Tail(hrQueue)
        /\ UNCHANGED <<hrCounter, hrRequest>>
    BY DEF HR!DoEvCancel, HR!IsHead, HR!Quiet, HR!OnRetry, HR!Answer, HR!NotNeedRetry, HR!OnCompleted
  <2>2. /\ Head(hrQueue) \in HrPayload /\ Head(hrQueue).num <= hrCounter
        /\ \A i \in 1 .. Len(hrQueue') : hrQueue'[i].num <= hrCounter'
        /\ Head(hrQueue).kind = "perform" => HrPosted /\ ~HrPosted' /\ Head(hrQueue).req = hrRequest
        /\ Head(hrQueue).kind = "cancel" => (HrPosted' <=> HrPosted)
        /\ HrQueued'
    BY <2>1, HrTail
  <2> USE <2>2
  <2>3. hrQueue' \in Seq(HrPayload)
    BY <2>1, HrTail
  <2>4. HrFlags'
    BY Zenon DEF HrFlags, HR!DoEvCancel, HR!IsHead, HR!Quiet, HR!OnRetry, HR!Answer, HR!NotNeedRetry, HR!OnCompleted
  <2>5. HrPlaces'
    <3>1. /\ hrCurrent' \in 1 .. Retries /\ hrPromise' \in {"none", "pending", "value", "error"}
          /\ hrTimer' \in 0 .. MaxRequests /\ hrFinishing' \in 0 .. MaxRequests
      <4>1. hrRegistered \in 0 .. MaxRequests
        BY DEF HrPlaces
      <4> QED
        BY <4>1, HrOnRetry DEF HrPlaces, HR!DoEvCancel
    <3>2. hrCancelledMax' \in Nat
      BY DEF HrPlaces, HrPayload, HR!DoEvCancel
    <3> QED
      BY <2>3, <3>1, <3>2 DEF HrPlaces, HrPayload, HR!DoEvCancel
  <2>6. HrNumbers'
    BY DEF HrPlaces, HrNumbers, HrPayload, HR!DoEvCancel, HR!IsHead, HR!Quiet, HR!OnRetry, HR!Answer, HR!NotNeedRetry, HR!OnCompleted
  <2>7. HrOnePlace'
    BY DEF HrFlags, HrPlaces, HrOnePlace, HrNowhere, HrFirst, HrPayload, HR!DoEvCancel, HR!IsHead, HR!Quiet, HR!OnRetry, HR!Answer, HR!NotNeedRetry, HR!OnCompleted
  <2>8. HrFirst'
    BY DEF HrFlags, HrPlaces, HrOnePlace, HrNowhere, HrFirst, HR!DoEvCancel, HR!IsHead, HR!Quiet, HR!OnRetry, HR!Answer, HR!NotNeedRetry, HR!OnCompleted
  <2>9. HrBudget'
    BY DEF HrFlags, HrPlaces, HrOnePlace, HrNowhere, HrFirst, HrBudget, HrDue, One, HR!DoEvCancel, HR!IsHead, HR!Quiet, HR!OnRetry, HR!Answer, HR!NotNeedRetry, HR!OnCompleted
  <2>10. HrLateOnce'
    BY DEF HrFlags, HrPlaces, HrOnePlace, HrNowhere, HrFirst, HrLateOnce, HR!DoEvCancel, HR!IsHead, HR!Quiet, HR!OnRetry, HR!Answer, HR!NotNeedRetry, HR!OnCompleted
  <2> QED
    BY <2>4, <2>5, <2>6, <2>7, <2>8, <2>9, <2>10 DEF HrInv
<1> QED
  BY <1>1, <1>2

\* The task gets the answer, gives up or cancels.
LEMMA HrFutureSteps ==
  ASSUME HrInv, HR!Get \/ HR!GiveUp \/ HP!GiveUp \/ HR!Cancel \/ HR!PostCancel \/ HR!Cancelled
  PROVE  HrInv'
<1> USE HrBounds DEF HR!easy, HR!chain, HR!user, HP!easy, HP!chain, HP!user
<1>0. HrFlags /\ HrPlaces /\ HrNumbers /\ HrOnePlace /\ HrQueued /\ HrFirst /\ HrBudget /\ HrLateOnce
  BY DEF HrInv
<1> USE <1>0
<1>1. CASE HR!Get
  <2> USE <1>1
  <2>1. /\ hrQueue' = hrQueue /\ hrCounter <= hrCounter' /\ hrCounter' \in Nat
        /\ hrRequest' = hrRequest \/ ~HrPosted
    BY DEF HrPlaces, HrOnePlace, HrNowhere, HR!Get
  <2>2. /\ \A i \in 1 .. Len(hrQueue') : hrQueue'[i].num <= hrCounter'
        /\ HrPosted' <=> HrPosted
        /\ HrQueued'
    BY <2>1, HrSameQueue
  <2> USE <2>2
  <2>3. hrQueue' \in Seq(HrPayload)
    BY <2>1 DEF HrPlaces, HrPayload
  <2>4. HrFlags'
    BY Zenon DEF HrFlags, HR!Get
  <2>5. HrPlaces'
    BY <2>3 DEF HrFlags, HrPlaces, HrFirst, HrPayload, HR!Get
  <2>6. HrNumbers'
    BY DEF HrPlaces, HrNumbers, HR!Get
  <2>7. HrOnePlace'
    BY DEF HrFlags, HrPlaces, HrOnePlace, HrNowhere, HrFirst, HR!Get
  <2>8. HrFirst'
    BY DEF HrFlags, HrPlaces, HrOnePlace, HrNowhere, HrFirst, HR!Get
  <2>9. HrBudget'
    BY DEF HrFlags, HrPlaces, HrOnePlace, HrNowhere, HrFirst, HrBudget, HrDue, One, HR!Get
  <2>10. HrLateOnce'
    BY DEF HrFlags, HrPlaces, HrOnePlace, HrNowhere, HrFirst, HrLateOnce, HR!Get
  <2> QED
    BY <2>4, <2>5, <2>6, <2>7, <2>8, <2>9, <2>10 DEF HrInv
<1>2. CASE HR!GiveUp
  <2> USE <1>2
  <2>1. /\ hrQueue' = hrQueue /\ hrCounter <= hrCounter' /\ hrCounter' \in Nat
        /\ hrRequest' = hrRequest \/ ~HrPosted
    BY DEF HrPlaces, HrOnePlace, HrNowhere, HR!GiveUp
  <2>2. /\ \A i \in 1 .. Len(hrQueue') : hrQueue'[i].num <= hrCounter'
        /\ HrPosted' <=> HrPosted
        /\ HrQueued'
    BY <2>1, HrSameQueue
  <2> USE <2>2
  <2>3. hrQueue' \in Seq(HrPayload)
    BY <2>1 DEF HrPlaces, HrPayload
  <2>4. HrFlags'
    BY Zenon DEF HrFlags, HR!GiveUp
  <2>5. HrPlaces'
    BY <2>3 DEF HrFlags, HrPlaces, HrFirst, HrPayload, HR!GiveUp
  <2>6. HrNumbers'
    BY DEF HrPlaces, HrNumbers, HR!GiveUp
  <2>7. HrOnePlace'
    BY DEF HrFlags, HrPlaces, HrOnePlace, HrNowhere, HrFirst, HR!GiveUp
  <2>8. HrFirst'
    BY DEF HrFlags, HrPlaces, HrOnePlace, HrNowhere, HrFirst, HR!GiveUp
  <2>9. HrBudget'
    BY DEF HrFlags, HrPlaces, HrOnePlace, HrNowhere, HrFirst, HrBudget, HrDue, One, HR!GiveUp
  <2>10. HrLateOnce'
    BY DEF HrFlags, HrPlaces, HrOnePlace, HrNowhere, HrFirst, HrLateOnce, HR!GiveUp
  <2> QED
    BY <2>4, <2>5, <2>6, <2>7, <2>8, <2>9, <2>10 DEF HrInv
<1>3. CASE HP!GiveUp
  <2> USE <1>3
  <2>1. /\ hrQueue' = hrQueue /\ hrCounter <= hrCounter' /\ hrCounter' \in Nat
        /\ hrRequest' = hrRequest \/ ~HrPosted
    BY DEF HrPlaces, HrOnePlace, HrNowhere, HP!GiveUp
  <2>2. /\ \A i \in 1 .. Len(hrQueue') : hrQueue'[i].num <= hrCounter'
        /\ HrPosted' <=> HrPosted
        /\ HrQueued'
    BY <2>1, HrSameQueue
  <2> USE <2>2
  <2>3. hrQueue' \in Seq(HrPayload)
    BY <2>1 DEF HrPlaces, HrPayload
  <2>4. HrFlags'
    BY Zenon DEF HrFlags, HP!GiveUp
  <2>5. HrPlaces'
    BY <2>3 DEF HrFlags, HrPlaces, HrFirst, HrPayload, HP!GiveUp
  <2>6. HrNumbers'
    BY DEF HrPlaces, HrNumbers, HP!GiveUp
  <2>7. HrOnePlace'
    BY DEF HrFlags, HrPlaces, HrOnePlace, HrNowhere, HrFirst, HP!GiveUp
  <2>8. HrFirst'
    BY DEF HrFlags, HrPlaces, HrOnePlace, HrNowhere, HrFirst, HP!GiveUp
  <2>9. HrBudget'
    BY DEF HrFlags, HrPlaces, HrOnePlace, HrNowhere, HrFirst, HrBudget, HrDue, One, HP!GiveUp
  <2>10. HrLateOnce'
    BY DEF HrFlags, HrPlaces, HrOnePlace, HrNowhere, HrFirst, HrLateOnce, HP!GiveUp
  <2> QED
    BY <2>4, <2>5, <2>6, <2>7, <2>8, <2>9, <2>10 DEF HrInv
<1>4. CASE HR!Cancel
  <2> USE <1>4
  <2>1. /\ hrQueue' = hrQueue /\ hrCounter <= hrCounter' /\ hrCounter' \in Nat
        /\ hrRequest' = hrRequest \/ ~HrPosted
    BY DEF HrPlaces, HrOnePlace, HrNowhere, HR!Cancel
  <2>2. /\ \A i \in 1 .. Len(hrQueue') : hrQueue'[i].num <= hrCounter'
        /\ HrPosted' <=> HrPosted
        /\ HrQueued'
    BY <2>1, HrSameQueue
  <2> USE <2>2
  <2>3. hrQueue' \in Seq(HrPayload)
    BY <2>1 DEF HrPlaces, HrPayload
  <2>4. HrFlags'
    BY Zenon DEF HrFlags, HR!Cancel
  <2>5. HrPlaces'
    BY <2>3 DEF HrFlags, HrPlaces, HrFirst, HrPayload, HR!Cancel
  <2>6. HrNumbers'
    BY DEF HrPlaces, HrNumbers, HR!Cancel
  <2>7. HrOnePlace'
    BY DEF HrFlags, HrPlaces, HrOnePlace, HrNowhere, HrFirst, HR!Cancel
  <2>8. HrFirst'
    BY DEF HrFlags, HrPlaces, HrOnePlace, HrNowhere, HrFirst, HR!Cancel
  <2>9. HrBudget'
    BY DEF HrFlags, HrPlaces, HrOnePlace, HrNowhere, HrFirst, HrBudget, HrDue, One, HR!Cancel
  <2>10. HrLateOnce'
    BY DEF HrFlags, HrPlaces, HrOnePlace, HrNowhere, HrFirst, HrLateOnce, HR!Cancel
  <2> QED
    BY <2>4, <2>5, <2>6, <2>7, <2>8, <2>9, <2>10 DEF HrInv
<1>5. CASE HR!PostCancel
  <2> USE <1>5
  <2> DEFINE x == HR!CancelUpTo(hrRead)
  <2>1. /\ x \in HrPayload /\ x.kind = "cancel" /\ hrQueue' = Append(hrQueue, x)
        /\ hrRequest' = hrRequest
        /\ x.num <= hrCounter' /\ hrCounter <= hrCounter' /\ hrCounter' \in Nat
        /\ x.kind = "perform" => x.req = hrRequest /\ ~HrPosted
    BY DEF HrPlaces, HrNumbers, HrOnePlace, HrNowhere, HrPayload, HR!CancelUpTo, HR!PostCancel, HR!CancelUpTo
  <2> USE <2>1
  <2> HIDE DEF x
  <2>2. /\ \A i \in 1 .. Len(hrQueue') : hrQueue'[i].num <= hrCounter'
        /\ HrPosted' <=> HrPosted \/ x.kind = "perform"
        /\ HrQueued'
    BY HrAppend
  <2> USE <2>2
  <2>3. hrQueue' \in Seq(HrPayload)
    BY HrAppend
  <2>4. HrFlags'
    BY Zenon DEF HrFlags, HR!PostCancel, HR!CancelUpTo
  <2>5. HrPlaces'
    BY <2>3 DEF HrFlags, HrPlaces, HrFirst, HrPayload, HR!PostCancel, HR!CancelUpTo
  <2>6. HrNumbers'
    BY DEF HrPlaces, HrNumbers, HR!PostCancel, HR!CancelUpTo
  <2>7. HrOnePlace'
    BY DEF HrFlags, HrPlaces, HrOnePlace, HrNowhere, HrFirst, HR!PostCancel, HR!CancelUpTo
  <2>8. HrFirst'
    BY DEF HrFlags, HrPlaces, HrOnePlace, HrNowhere, HrFirst, HR!PostCancel, HR!CancelUpTo
  <2>9. HrBudget'
    BY DEF HrFlags, HrPlaces, HrOnePlace, HrNowhere, HrFirst, HrBudget, HrDue, One, HR!PostCancel, HR!CancelUpTo
  <2>10. HrLateOnce'
    BY DEF HrFlags, HrPlaces, HrOnePlace, HrNowhere, HrFirst, HrLateOnce, HR!PostCancel, HR!CancelUpTo
  <2> QED
    BY <2>4, <2>5, <2>6, <2>7, <2>8, <2>9, <2>10 DEF HrInv
<1>6. CASE HR!Cancelled
  <2> USE <1>6
  <2>1. /\ hrQueue' = hrQueue /\ hrCounter <= hrCounter' /\ hrCounter' \in Nat
        /\ hrRequest' = hrRequest \/ ~HrPosted
    BY DEF HrPlaces, HrOnePlace, HrNowhere, HR!Cancelled
  <2>2. /\ \A i \in 1 .. Len(hrQueue') : hrQueue'[i].num <= hrCounter'
        /\ HrPosted' <=> HrPosted
        /\ HrQueued'
    BY <2>1, HrSameQueue
  <2> USE <2>2
  <2>3. hrQueue' \in Seq(HrPayload)
    BY <2>1 DEF HrPlaces, HrPayload
  <2>4. HrFlags'
    BY Zenon DEF HrFlags, HR!Cancelled
  <2>5. HrPlaces'
    BY <2>3 DEF HrFlags, HrPlaces, HrFirst, HrPayload, HR!Cancelled
  <2>6. HrNumbers'
    BY DEF HrPlaces, HrNumbers, HR!Cancelled
  <2>7. HrOnePlace'
    BY DEF HrFlags, HrPlaces, HrOnePlace, HrNowhere, HrFirst, HR!Cancelled
  <2>8. HrFirst'
    BY DEF HrFlags, HrPlaces, HrOnePlace, HrNowhere, HrFirst, HR!Cancelled
  <2>9. HrBudget'
    BY DEF HrFlags, HrPlaces, HrOnePlace, HrNowhere, HrFirst, HrBudget, HrDue, One, HR!Cancelled
  <2>10. HrLateOnce'
    BY DEF HrFlags, HrPlaces, HrOnePlace, HrNowhere, HrFirst, HrLateOnce, HR!Cancelled
  <2> QED
    BY <2>4, <2>5, <2>6, <2>7, <2>8, <2>9, <2>10 DEF HrInv
<1> QED
  BY <1>1, <1>2, <1>3, <1>4, <1>5, <1>6

\* A RequestState is used by one request at a time, whoever resolves, retries, times out
\* or cancels, and a cancelled request makes at most one more attempt.
THEOREM RequestIsSafe == AllSpec => []HttpRequestSafe
<1>1. AllInit => HrInv
  <2>1. SUFFICES ASSUME HR!Init PROVE HrInv
    BY DEF AllInit
  <2>2. HrFlags
    BY <2>1, Zenon DEF HR!Init, HrFlags
  <2>3. HrPlaces
    BY <2>1, HrBounds DEF HR!Init, HrPlaces
  <2>4. ~HrPosted /\ HrQueued /\ HrNumbers
    BY <2>1 DEF HR!Init, HrPosted, HrQueued, HrNumbers
  <2> QED
    BY <2>1, <2>2, <2>3, <2>4 DEF HR!Init, HrInv, HrOnePlace, HrNowhere, HrFirst, HrBudget, HrLateOnce
<1>2. HrInv /\ [AllNext]_allVars => HrInv'
  <2>1. SUFFICES ASSUME HrInv, HrNext \/ UNCHANGED hrVars PROVE HrInv'
    BY HrMoves
  <2>2. CASE HrNext
    <3>1. HR!AsyncPerform \/ HR!Start \/ HP!PerformRequest => HrInv'
      BY <2>1, HrPerformSteps DEF HR!Start
    <3>2. HR!Resolving => HrInv'
      BY <2>1, HrResolveSteps DEF HR!Resolving
    <3>3. HR!Attempt => HrInv'
      BY <2>1, HrAttemptSteps DEF HR!Attempt
    <3>4. HR!RequestCompleted \/ HR!OnRetryTimer => HrInv'
      <4>1. "ok" \in HR!Outcomes
        BY DEF HR!Outcomes
      <4> QED
        BY <2>1, <4>1, HrAttemptSteps
    <3>5. HR!Payload => HrInv'
      BY <2>1, HrPayloadSteps DEF HR!Payload
    <3>6. HR!Future \/ HR!GiveUp \/ HP!GiveUp => HrInv'
      BY <2>1, HrFutureSteps DEF HR!Future
    <3> QED
      BY <2>2, <3>1, <3>2, <3>3, <3>4, <3>5, <3>6 DEF HrNext, HR!Next
  <2>3. CASE UNCHANGED hrVars
    BY <2>1, <2>3 DEF hrVars, HrInv, HrFlags, HrPlaces, HrNumbers, HrOnePlace, HrNowhere, HrPosted, HrQueued, HrFirst,
       HrBudget, HrDue, HrLateOnce
  <2> QED
    BY <2>1, <2>2, <2>3
<1>3. HrInv => HttpRequestSafe
  <2>1. SUFFICES ASSUME HrInv PROVE HttpRequestSafe
    OBVIOUS
  <2>2. HrFlags /\ HrPlaces /\ HrNumbers /\ HrOnePlace /\ HrQueued /\ HrFirst /\ HrBudget /\ HrLateOnce
    BY <2>1 DEF HrInv
  <2>3. hrRequest # 0 => hrCounter <= MaxRequests * Retries /\ 1 <= MaxRequests * Retries
    <3>1. SUFFICES ASSUME hrRequest # 0 PROVE hrCounter <= MaxRequests * Retries /\ 1 <= MaxRequests * Retries
      OBVIOUS
    <3> DEFINE b == (hrRequest - 1) * Retries
    <3>2. hrRequest \in 1 .. MaxRequests /\ hrCurrent \in 1 .. Retries /\ hrCounter \in Nat
      BY <2>2, <3>1 DEF HrPlaces
    <3>3. b \in Int
      BY <3>2, HrBounds
    <3>4. b + Retries = hrRequest * Retries
      BY <3>2, HrBounds
    <3>5. hrRequest * Retries <= MaxRequests * Retries /\ 1 <= hrRequest * Retries
      BY <3>2, HrBounds
    <3>6. hrCounter + One(HrDue) <= b + hrCurrent
      BY <2>2, <3>1 DEF HrBudget
    <3> HIDE DEF b
    <3>7. hrCounter <= b + hrCurrent
      BY <3>2, <3>3, <3>6 DEF One
    <3> QED
      BY <3>2, <3>3, <3>4, <3>5, <3>7, HrBounds
  <2>4. hrCounter \in Nat /\ hrCounter <= MaxRequests * Retries /\ MaxRequests * Retries \in Nat
    BY <2>2, <2>3, HrBounds DEF HrPlaces, HrFirst
  <2>5. hrLate <= MaxRequests * Retries
    <3>1. hrLate = 0 \/ hrRequest # 0
      BY <2>2 DEF HrLateOnce, HrPlaces, HrFirst
    <3> QED
      BY <2>2, <2>3, <2>4, <3>1 DEF HrPlaces, HrLateOnce
  <2>6. hrQueue \in Seq([kind : {"perform", "cancel"}, num : 0 .. MaxRequests * Retries, req : 0 .. MaxRequests])
    <3> DEFINE B == [kind : {"perform", "cancel"}, num : 0 .. MaxRequests * Retries, req : 0 .. MaxRequests]
    <3>1. hrQueue \in Seq(HrPayload)
      BY <2>2 DEF HrPlaces, HrPayload
    <3>2. \A i \in 1 .. Len(hrQueue) : hrQueue[i] \in HrPayload /\ hrQueue[i].num <= hrCounter
      BY <2>2, <3>1 DEF HrNumbers
    <3>3. \A i \in 1 .. Len(hrQueue) : hrQueue[i] \in B
      BY <2>4, <3>2 DEF HrPayload
    <3> HIDE DEF B
    <3>4. Len(hrQueue) \in Nat /\ hrQueue \in [1 .. Len(hrQueue) -> B]
      BY <3>1, <3>3
    <3>5. hrQueue \in UNION {[1 .. n -> B] : n \in Nat}
      BY <3>4, Zenon
    <3>6. hrQueue \in Seq(B)
      BY <3>5, SeqDef, Zenon
    <3> QED
      BY <3>6 DEF B
  <2>7. HR!TypeOK /\ HP!TypeOK
    <3>1. {hrCompleted, hrCancelled, hrStopped} \subseteq BOOLEAN
      BY <2>2 DEF HrFlags
    <3>2. {hrCounter, hrCancelledMax, hrRead, hrLate} \subseteq 0 .. MaxRequests * Retries
      BY <2>2, <2>4, <2>5 DEF HrPlaces, HrNumbers
    <3>3. hrRequest \in {0} \cup (1 .. MaxRequests)
      BY <2>2, HrBounds DEF HrPlaces
    <3> QED
      BY <2>2, <2>6, <3>1, <3>2, <3>3 DEF HrPlaces, HR!TypeOK, HP!TypeOK, HR!Requests, HP!Requests
  <2>8. HR!Posted = {} \/ \E i \in 1 .. Len(hrQueue) : HR!Posted = {i}
    BY <2>2 DEF HrQueued, HR!Posted
  <2>9. /\ HR!Posted = {} <=> ~HrPosted
        /\ HR!Cardinality(HR!Posted) = Cardinality(HR!Posted)
        /\ Cardinality(HR!Posted) = One(HrPosted)
    <3>1. HR!Posted = {} <=> ~HrPosted
      BY DEF HR!Posted, HrPosted
    <3>2. HR!Cardinality(HR!Posted) = Cardinality(HR!Posted)
      BY DEF HR!Cardinality, Cardinality
    <3>3. Cardinality(HR!Posted) = One(HrPosted)
      BY <2>8, <3>1, FS_EmptySet, FS_Singleton DEF One
    <3> QED
      BY <3>1, <3>2, <3>3
  <2>10. HR!OneRequestAtATime
    <3>1. HR!Holders \subseteq {hrRequest}
      BY <2>2 DEF HR!Holders, HR!Posted, HrQueued, HrOnePlace
    <3> QED
      BY <2>2, <2>9, <3>1 DEF HR!OneRequestAtATime, HR!Count, One, HrFlags, HrPlaces, HrOnePlace, HrNowhere
  <2>11. HP!OneRequestAtATime
    BY <2>10 DEF HR!OneRequestAtATime, HP!OneRequestAtATime, HR!Count, HP!Count, HR!Posted, HP!Posted, HR!Holders, HP!Holders,
       HR!Cardinality, HP!Cardinality
  <2> QED
    BY <2>2, <2>7, <2>10, <2>11 DEF HttpRequestSafe, HR!FewLateAttempts, HrLateOnce
<1> QED
  BY <1>1, <1>2, <1>3, PTL DEF AllSpec

----------------------------------------------------------------------------
(* The connection pool: the permits of its semaphore and its statistics count   *)
(* the connections in bags, in the hands of users and in the maintain task.     *)

CpBags == [CP!Versions -> 0 .. MaxConnects]
CpPlaces == {"idle", "pop", "create", "refused", "wait", "got", "using", "released"}

\* How many users are at one of these places.
CpAt(pcs, where) == Cardinality({u \in Clients : pcs[u] \in where})

CpHolders == CpAt(cpUpc, {"got", "using"})
CpUsers == CpAt(cpUpc, {"using", "released"})
CpWaiters == CpAt(cpUpc, {"refused", "create", "wait"})
CpPending == CP!Total(cpPending)
CpConnecting == CP!Total(cpConnecting)
CpQueued == CP!Total(cpQueue)
CpCleaning == CP!Total(cpCleanup)
CpMaintained == IF cpMpc = "got" THEN 1 ELSE 0
CpPinged == IF cpMpc \in {"got", "released"} THEN 1 ELSE 0

CpBagTypes == cpPending \in CpBags /\ cpConnecting \in CpBags /\ cpQueue \in CpBags /\ cpCleanup \in CpBags
CpUserTypes ==
  /\ cpUpc \in [Clients -> CpPlaces]
  /\ cpSeen \in [Clients -> CP!Versions] /\ cpOwn \in [Clients -> CP!Versions]
CpNumberTypes ==
  /\ cpVersion \in CP!Versions /\ cpMown \in CP!Versions
  /\ cpSize \in 0 .. MaxSize /\ cpUsed \in Nat /\ cpWaiting \in Nat
  /\ cpCleaned \in Nat /\ cpClosing \in Nat
  /\ cpMpc \in {"idle", "loop", "acquire", "got", "released", "check"}
  /\ cpCount \in 0 .. MaxSize /\ cpDropLeft \in 0 .. 1
  /\ cpDpc \in {"new", "alive", "maintain", "connect", "clear", "drain", "close", "dead"}
  /\ cpConnects \in 0 .. MaxConnects /\ cpMaintains \in 0 .. MaxMaintains

\* What each counter of the pool counts.
CpCounted ==
  /\ cpSize = CpConnecting + CpQueued + CpCleaning + cpClosing + CpHolders + CpMaintained
  /\ cpUsed = CpUsers + CpCleaning + cpCleaned + CpPinged
  /\ cpWaiting = CpWaiters

\* Every connection was a connect task, of which there are so many.
CpMade ==
  CpPending + CpConnecting + CpQueued + CpCleaning + CpHolders + CpMaintained <= cpConnects

\* The maintain task has a connection left to look at.
CpLoops == cpMpc \in {"loop", "acquire", "got", "released"} => cpCount > 0

\* What the destructor has waited for does not come back.
CpGone ==
  /\ cpDpc = "new" => /\ cpSize = 0 /\ cpClosing = 0 /\ cpConnecting = CP!NoBag /\ cpPending = CP!NoBag
                      /\ cpConnects = 0
  /\ cpDpc # "alive" => \A u \in Clients : cpUpc[u] = "idle"
  /\ cpDpc \notin {"alive", "maintain"} => cpMpc = "idle"
  /\ cpDpc \in {"clear", "drain", "close", "dead"} => cpPending = CP!NoBag /\ cpConnecting = CP!NoBag
  /\ cpDpc \in {"drain", "close", "dead"} => cpCleanup = CP!NoBag /\ cpCleaned = 0
  /\ cpDpc \in {"close", "dead"} => cpQueue = CP!NoBag
  /\ cpDpc = "dead" => cpClosing = 0

CpInv ==
  /\ CpBagTypes /\ CpUserTypes /\ CpNumberTypes
  /\ CpCounted /\ CpMade /\ CpLoops /\ CpGone

\* What the proofs use of the constants.
LEMMA CpConstants ==
  /\ IsFiniteSet(Clients)
  /\ MinSize \in Nat /\ MaxSize \in Nat /\ MaxConnects \in Nat /\ MaxMaintains \in Nat
  /\ MinSize <= MaxSize /\ MinSize <= MaxConnects
  /\ CP!Versions = 0 .. 1
BY ServicesAssumption DEF CP!PoolAssumption, CP!IsFiniteSet, IsFiniteSet, CP!Versions

----------------------------------------------------------------------------
(* Bags *)

CpTokens(bag) == {t \in CP!Versions \X (1 .. MaxConnects) : t[2] <= bag[t[1]]}

\* A bag has finitely many tokens, and Total() is their number.
LEMMA CpTokensFinite ==
  ASSUME NEW bag
  PROVE  /\ IsFiniteSet(CpTokens(bag))
         /\ CP!Total(bag) = Cardinality(CpTokens(bag)) /\ CP!Total(bag) \in Nat
<1>1. IsFiniteSet(CP!Versions) /\ IsFiniteSet(1 .. MaxConnects)
  <2>1. MaxConnects \in Int /\ 0 \in Int /\ 1 \in Int
    BY CpConstants
  <2>2. IsFiniteSet(0 .. 1) /\ IsFiniteSet(1 .. MaxConnects)
    BY <2>1, FS_Interval
  <2> QED BY <2>2, CpConstants
<1>2. IsFiniteSet(CP!Versions \X (1 .. MaxConnects))
  BY <1>1, FS_Product
<1>3. IsFiniteSet(CpTokens(bag))
  BY <1>2, FS_Subset DEF CpTokens
<1>4. CP!Total(bag) = Cardinality(CpTokens(bag))
  BY DEF CP!Total, CpTokens, CP!Cardinality, Cardinality
<1> QED BY <1>3, <1>4, FS_CardinalityType

\* Put() adds one.
LEMMA CpPut ==
  ASSUME NEW bag \in CpBags, NEW v \in CP!Versions, bag[v] < MaxConnects
  PROVE  /\ CP!Put(bag, v) \in CpBags
         /\ CP!Total(CP!Put(bag, v)) = CP!Total(bag) + 1
<1> DEFINE new == CP!Put(bag, v)
<1> DEFINE t == <<v, bag[v] + 1>>
<1>1. new \in CpBags /\ new[v] = bag[v] + 1 /\ \A w \in CP!Versions : w # v => new[w] = bag[w]
  BY CpConstants DEF CpBags, CP!Put
<1>2. bag[v] \in Nat /\ \A w \in CP!Versions : bag[w] \in Nat
  BY CpConstants DEF CpBags
<1> HIDE DEF new
<1>3. CpTokens(new) = CpTokens(bag) \cup {t} /\ t \notin CpTokens(bag)
  BY <1>1, <1>2, CpConstants DEF CpTokens
<1> HIDE DEF t
<1>4. Cardinality(CpTokens(new)) = Cardinality(CpTokens(bag)) + 1
  BY <1>3, CpTokensFinite, FS_AddElement
<1> QED BY <1>1, <1>4, CpTokensFinite DEF new

\* Take() removes one.
LEMMA CpTake ==
  ASSUME NEW bag \in CpBags, NEW v \in CP!Versions, bag[v] > 0
  PROVE  /\ CP!Take(bag, v) \in CpBags
         /\ CP!Total(CP!Take(bag, v)) = CP!Total(bag) - 1
<1> DEFINE old == CP!Take(bag, v)
<1>1. old \in CpBags /\ old[v] = bag[v] - 1
  BY CpConstants DEF CpBags, CP!Take
<1> USE <1>1
<1>2. CP!Put(old, v) = bag
  <2>1. old = [bag EXCEPT ![v] = bag[v] - 1] /\ bag[v] \in Int
    BY CpConstants DEF CP!Take, CpBags
  <2>2. CP!Put(old, v) = [old EXCEPT ![v] = old[v] + 1]
    BY DEF CP!Put
  <2> HIDE DEF old
  <2>3. old[v] + 1 = bag[v]
    BY <2>1
  <2> QED BY <2>1, <2>2, <2>3 DEF CpBags
<1>3. old[v] < MaxConnects
  BY CpConstants DEF CpBags
<1> HIDE DEF old
<1>4. CP!Total(bag) = CP!Total(old) + 1
  BY <1>2, <1>3, CpPut
<1> QED BY <1>4, CpTokensFinite DEF old

\* No version has more than the total, and the empty bag has none.
LEMMA CpTotal ==
  /\ CP!NoBag \in CpBags /\ CP!Total(CP!NoBag) = 0
  /\ \A bag \in CpBags, v \in CP!Versions : bag[v] \in Nat /\ bag[v] <= CP!Total(bag)
<1>1. CP!NoBag \in CpBags
  BY CpConstants DEF CP!NoBag, CpBags
<1>2. CP!Total(CP!NoBag) = 0
  <2>1. CpTokens(CP!NoBag) = {}
    BY CpConstants DEF CpTokens, CP!NoBag
  <2> QED BY <2>1, CpTokensFinite, FS_EmptySet
<1>3. ASSUME NEW bag \in CpBags, NEW v \in CP!Versions
      PROVE  bag[v] \in Nat /\ bag[v] <= CP!Total(bag)
  <2> DEFINE n == bag[v]
  <2>1. n \in 0 .. MaxConnects
    BY DEF CpBags
  <2> USE <2>1
  <2>2. {v} \X (1 .. n) \subseteq CpTokens(bag)
    BY CpConstants DEF CpTokens
  <2> HIDE DEF n
  <2>3. IsFiniteSet({v}) /\ Cardinality({v}) = 1
    BY FS_Singleton
  <2>4. IsFiniteSet(1 .. n) /\ Cardinality(1 .. n) = n
    BY CpConstants, FS_Interval
  <2>5. Cardinality({v} \X (1 .. n)) = Cardinality({v}) * Cardinality(1 .. n)
    BY <2>3, <2>4, FS_Product
  <2>6. Cardinality({v} \X (1 .. n)) = n
    BY <2>3, <2>4, <2>5
  <2>7. n <= Cardinality(CpTokens(bag))
    BY <2>2, <2>6, CpTokensFinite, FS_Subset
  <2> QED BY <2>7, CpTokensFinite DEF n
<1> QED BY <1>1, <1>2, <1>3

\* Versions of one kind only.
LEMMA CpSingle ==
  ASSUME NEW v \in CP!Versions, NEW n \in 0 .. MaxConnects
  PROVE  /\ [CP!NoBag EXCEPT ![v] = n] \in CpBags
         /\ CP!Total([CP!NoBag EXCEPT ![v] = n]) = n
<1> DEFINE bag == [CP!NoBag EXCEPT ![v] = n]
<1>1. bag \in CpBags /\ bag[v] = n /\ \A w \in CP!Versions : w # v => bag[w] = 0
  BY CpConstants DEF CpBags, CP!NoBag
<1> HIDE DEF bag
<1>2. CpTokens(bag) = {v} \X (1 .. n)
  BY <1>1, CpConstants DEF CpTokens
<1>3. IsFiniteSet({v}) /\ Cardinality({v}) = 1
  BY FS_Singleton
<1>4. IsFiniteSet(1 .. n) /\ Cardinality(1 .. n) = n
  BY CpConstants, FS_Interval
<1>5. Cardinality({v} \X (1 .. n)) = Cardinality({v}) * Cardinality(1 .. n)
  BY <1>3, <1>4, FS_Product
<1>6. Cardinality(CpTokens(bag)) = n
  BY <1>2, <1>3, <1>4, <1>5, CpConstants
<1> QED BY <1>1, <1>6, CpTokensFinite DEF bag

----------------------------------------------------------------------------
(* What the parts of an action do to the counts. *)

\* Only so many users can be anywhere.
LEMMA CpAtType ==
  ASSUME NEW f, NEW Q PROVE CpAt(f, Q) \in Nat /\ CpAt(f, Q) <= Cardinality(Clients)
<1> DEFINE F == {u \in Clients : f[u] \in Q}
<1>1. F \subseteq Clients
  OBVIOUS
<1> HIDE DEF F
<1>2. IsFiniteSet(F) /\ Cardinality(F) <= Cardinality(Clients)
  BY <1>1, CpConstants, FS_Subset
<1> QED BY <1>2, FS_CardinalityType DEF CpAt, F

\* The counts are numbers.
LEMMA CpNumbers ==
  /\ CpHolders \in Nat /\ CpUsers \in Nat /\ CpWaiters \in Nat
  /\ CpPending \in Nat /\ CpConnecting \in Nat /\ CpQueued \in Nat /\ CpCleaning \in Nat
  /\ CpWaiters <= Cardinality(Clients)
BY CpAtType, CpTokensFinite
DEF CpHolders, CpUsers, CpWaiters, CpPending, CpConnecting, CpQueued, CpCleaning

\* What does not move is not counted anew.
LEMMA CpRests ==
  /\ UNCHANGED cpUpc => UNCHANGED <<CpHolders, CpUsers, CpWaiters>>
  /\ UNCHANGED cpPending => UNCHANGED CpPending
  /\ UNCHANGED cpConnecting => UNCHANGED CpConnecting
  /\ UNCHANGED cpQueue => UNCHANGED CpQueued
  /\ UNCHANGED cpCleanup => UNCHANGED CpCleaning
  /\ UNCHANGED cpMpc => UNCHANGED <<CpMaintained, CpPinged>>
BY DEF CpHolders, CpUsers, CpWaiters, CpAt, CpPending, CpConnecting, CpQueued, CpCleaning,
       CP!Total, CpMaintained, CpPinged

\* Whether a user at v is one of those at Q.
CpBit(v, Q) == IF v \in Q THEN 1 ELSE 0
CpOnlyMoves(f, g, u) == u \in Clients /\ \A w \in Clients : w # u => g[w] = f[w]

\* One user moves: every count of users changes by at most one.
LEMMA CpRecount ==
  ASSUME NEW f, NEW g, NEW u, NEW Q, CpOnlyMoves(f, g, u)
  PROVE  CpAt(g, Q) = CpAt(f, Q) + CpBit(g[u], Q) - CpBit(f[u], Q)
<1> USE DEF CpOnlyMoves
<1> DEFINE F == {w \in Clients : f[w] \in Q}
<1> DEFINE G == {w \in Clients : g[w] \in Q}
<1> DEFINE R == F \ {u}
<1>1. IsFiniteSet(F) /\ IsFiniteSet(G) /\ IsFiniteSet(R)
  BY CpConstants, FS_Subset
<1>2. Cardinality(F) \in Nat /\ Cardinality(G) \in Nat /\ Cardinality(R) \in Nat
  BY <1>1, FS_CardinalityType
<1> USE <1>2
<1>3. Cardinality(F) = Cardinality(R) + CpBit(f[u], Q)
  <2>1. CASE u \in F
    <3>1. Cardinality(R) = Cardinality(F) - 1
      BY <1>1, <2>1, FS_RemoveElement, Zenon
    <3> QED BY <2>1, <3>1 DEF CpBit
  <2>2. CASE u \notin F
    <3>1. R = F
      BY <2>2
    <3> QED BY <2>2, <3>1 DEF CpBit
  <2> QED BY <2>1, <2>2
<1>4. Cardinality(G) = Cardinality(R) + CpBit(g[u], Q)
  <2>1. CASE u \in G
    <3>1. G = R \cup {u} /\ u \notin R
      BY <2>1
    <3> QED BY <1>1, <2>1, <3>1, FS_AddElement DEF CpBit
  <2>2. CASE u \notin G
    <3>1. R = G
      BY <2>2
    <3> QED BY <2>2, <3>1 DEF CpBit
  <2> QED BY <2>1, <2>2
<1>5. CpAt(f, Q) = Cardinality(F) /\ CpAt(g, Q) = Cardinality(G)
  BY DEF CpAt
<1> HIDE DEF F, G, R
<1> QED BY <1>3, <1>4, <1>5 DEF CpBit

\* What the move of a user does to the counts.
CpMoved(u, s) ==
  /\ cpUpc' \in [Clients -> CpPlaces]
  /\ cpUpc'[u] = s /\ \A w \in Clients : w # u => cpUpc'[w] = cpUpc[w]
  /\ CpHolders' = CpHolders + CpBit(s, {"got", "using"}) - CpBit(cpUpc[u], {"got", "using"})
  /\ CpUsers' = CpUsers + CpBit(s, {"using", "released"}) - CpBit(cpUpc[u], {"using", "released"})
  /\ CpWaiters' = CpWaiters + CpBit(s, {"refused", "create", "wait"})
                            - CpBit(cpUpc[u], {"refused", "create", "wait"})
  /\ CpHolders' \in Nat /\ CpUsers' \in Nat /\ CpWaiters' \in Nat

\* A user moves.
LEMMA CpRecounted ==
  ASSUME NEW u, NEW Q, CpOnlyMoves(cpUpc, cpUpc', u)
  PROVE  CpAt(cpUpc', Q) = CpAt(cpUpc, Q) + CpBit(cpUpc'[u], Q) - CpBit(cpUpc[u], Q)
BY CpRecount

\* A user moves: what becomes of the counts of users.
LEMMA CpMoves ==
  ASSUME CpUserTypes, NEW u \in Clients, NEW s \in CpPlaces, cpUpc' = [cpUpc EXCEPT ![u] = s]
  PROVE  CpMoved(u, s)
<1>1. /\ cpUpc' \in [Clients -> CpPlaces]
      /\ cpUpc'[u] = s /\ \A w \in Clients : w # u => cpUpc'[w] = cpUpc[w]
  BY DEF CpUserTypes
<1>2. ASSUME NEW Q PROVE CpAt(cpUpc', Q) = CpAt(cpUpc, Q) + CpBit(s, Q) - CpBit(cpUpc[u], Q)
  <2>1. CpOnlyMoves(cpUpc, cpUpc', u)
    BY <1>1 DEF CpOnlyMoves
  <2> QED BY <1>1, <2>1, CpRecounted, Zenon
<1>3. /\ CpHolders' = CpHolders + CpBit(s, {"got", "using"}) - CpBit(cpUpc[u], {"got", "using"})
      /\ CpUsers' = CpUsers + CpBit(s, {"using", "released"}) - CpBit(cpUpc[u], {"using", "released"})
      /\ CpWaiters' = CpWaiters + CpBit(s, {"refused", "create", "wait"})
                                - CpBit(cpUpc[u], {"refused", "create", "wait"})
  BY <1>2 DEF CpHolders, CpUsers, CpWaiters
<1>4. CpHolders' \in Nat /\ CpUsers' \in Nat /\ CpWaiters' \in Nat
  BY CpAtType DEF CpHolders, CpUsers, CpWaiters
<1> QED BY <1>1, <1>3, <1>4 DEF CpMoved

\* Connections move between the bags.
LEMMA CpBagMoves ==
  ASSUME CpBagTypes, NEW v \in CP!Versions
  PROVE  /\ cpPending[v] > 0 /\ cpPending' = CP!Take(cpPending, v) =>
              cpPending' \in CpBags /\ CpPending' = CpPending - 1 /\ CpPending >= 1
         /\ cpConnecting[v] > 0 /\ cpConnecting' = CP!Take(cpConnecting, v) =>
              cpConnecting' \in CpBags /\ CpConnecting' = CpConnecting - 1 /\ CpConnecting >= 1
         /\ cpQueue[v] > 0 /\ cpQueue' = CP!Take(cpQueue, v) =>
              cpQueue' \in CpBags /\ CpQueued' = CpQueued - 1 /\ CpQueued >= 1
         /\ cpCleanup[v] > 0 /\ cpCleanup' = CP!Take(cpCleanup, v) =>
              cpCleanup' \in CpBags /\ CpCleaning' = CpCleaning - 1 /\ CpCleaning >= 1
         /\ CpPending < MaxConnects /\ cpPending' = CP!Put(cpPending, v) =>
              cpPending' \in CpBags /\ CpPending' = CpPending + 1
         /\ CpConnecting < MaxConnects /\ cpConnecting' = CP!Put(cpConnecting, v) =>
              cpConnecting' \in CpBags /\ CpConnecting' = CpConnecting + 1
         /\ CpQueued < MaxConnects /\ cpQueue' = CP!Put(cpQueue, v) =>
              cpQueue' \in CpBags /\ CpQueued' = CpQueued + 1
         /\ CpCleaning < MaxConnects /\ cpCleanup' = CP!Put(cpCleanup, v) =>
              cpCleanup' \in CpBags /\ CpCleaning' = CpCleaning + 1
<1>1. ASSUME NEW bag \in CpBags, NEW new, bag[v] > 0, new = CP!Take(bag, v)
      PROVE  new \in CpBags /\ CP!Total(new) = CP!Total(bag) - 1 /\ CP!Total(bag) >= 1
  <2>1. new \in CpBags /\ CP!Total(new) = CP!Total(bag) - 1
    BY <1>1, CpTake
  <2> QED BY <2>1, CpTokensFinite
<1>2. ASSUME NEW bag \in CpBags, NEW new, CP!Total(bag) < MaxConnects, new = CP!Put(bag, v)
      PROVE  new \in CpBags /\ CP!Total(new) = CP!Total(bag) + 1
  <2>1. bag[v] < MaxConnects
    BY <1>2, CpTotal, CpTokensFinite, CpConstants
  <2> QED BY <1>2, <2>1, CpPut
<1> USE DEF CpBagTypes, CpPending, CpConnecting, CpQueued, CpCleaning
<1>3. cpPending[v] > 0 /\ cpPending' = CP!Take(cpPending, v) =>
        cpPending' \in CpBags /\ CpPending' = CpPending - 1 /\ CpPending >= 1
  BY <1>1
<1>4. cpConnecting[v] > 0 /\ cpConnecting' = CP!Take(cpConnecting, v) =>
        cpConnecting' \in CpBags /\ CpConnecting' = CpConnecting - 1 /\ CpConnecting >= 1
  BY <1>1
<1>5. cpQueue[v] > 0 /\ cpQueue' = CP!Take(cpQueue, v) =>
        cpQueue' \in CpBags /\ CpQueued' = CpQueued - 1 /\ CpQueued >= 1
  BY <1>1
<1>6. cpCleanup[v] > 0 /\ cpCleanup' = CP!Take(cpCleanup, v) =>
        cpCleanup' \in CpBags /\ CpCleaning' = CpCleaning - 1 /\ CpCleaning >= 1
  BY <1>1
<1>7. CpPending < MaxConnects /\ cpPending' = CP!Put(cpPending, v) =>
        cpPending' \in CpBags /\ CpPending' = CpPending + 1
  BY <1>2
<1>8. CpConnecting < MaxConnects /\ cpConnecting' = CP!Put(cpConnecting, v) =>
        cpConnecting' \in CpBags /\ CpConnecting' = CpConnecting + 1
  BY <1>2
<1>9. CpQueued < MaxConnects /\ cpQueue' = CP!Put(cpQueue, v) =>
        cpQueue' \in CpBags /\ CpQueued' = CpQueued + 1
  BY <1>2
<1>10. CpCleaning < MaxConnects /\ cpCleanup' = CP!Put(cpCleanup, v) =>
         cpCleanup' \in CpBags /\ CpCleaning' = CpCleaning + 1
  BY <1>2
<1> QED BY <1>3, <1>4, <1>5, <1>6, <1>7, <1>8, <1>9, <1>10, Zenon

\* Push(): the connection is in the queue or is being closed.
CpPushed ==
  /\ cpQueue' \in CpBags
  /\ \/ CpQueued' = CpQueued /\ cpClosing' = cpClosing + 1
     \/ CpQueued' = CpQueued + 1 /\ cpClosing' = cpClosing

\* Push() of a connection that was not in the queue.
LEMMA CpPushes ==
  ASSUME CpInv, NEW v \in CP!Versions, CP!Push(v), CpQueued < MaxConnects
  PROVE  CpPushed
<1>1. CpBagTypes /\ cpClosing \in Nat
  BY DEF CpInv, CpNumberTypes
<1>2. CASE CP!Delete
  BY <1>1, <1>2, CpRests, CpNumbers DEF CP!Delete, CpPushed, CpBagTypes
<1>3. CASE cpQueue' = CP!Put(cpQueue, v) /\ UNCHANGED cpClosing
  <2>1. cpQueue' \in CpBags /\ CpQueued' = CpQueued + 1
    BY <1>1, <1>3, CpBagMoves, Zenon
  <2> QED BY <1>1, <1>3, <2>1, CpNumbers DEF CpPushed
<1> QED BY <1>2, <1>3 DEF CP!Push

\* TryCreateConnectionAsync(): a permit for a task, a task that waits, or nothing.
CpCreated ==
  /\ cpPending' \in CpBags /\ cpConnecting' \in CpBags
  /\ cpSize' \in 0 .. MaxSize /\ cpConnects' \in 0 .. MaxConnects
  /\ \/ UNCHANGED <<cpSize, cpConnects, CpPending, CpConnecting>>
     \/ /\ cpSize' = cpSize + 1 /\ CpConnecting' = CpConnecting + 1
        /\ cpConnects' = cpConnects + 1 /\ UNCHANGED CpPending
     \/ /\ CpPending' = CpPending + 1 /\ cpConnects' = cpConnects + 1
        /\ UNCHANGED <<cpSize, CpConnecting>>

\* TryCreateConnectionAsync() counts a permit with its task.
LEMMA CpCreates == ASSUME CpInv, CP!TryCreateConnectionAsync PROVE CpCreated
<1>1. CpBagTypes /\ CpNumberTypes /\ CpMade
  BY DEF CpInv
<1> USE <1>1
<1>2. CASE UNCHANGED <<cpSize, cpPending, cpConnecting, cpConnects>>
  BY <1>2, CpRests, CpNumbers, CpConstants DEF CpCreated, CpBagTypes, CpNumberTypes
<1>3. ASSUME cpConnects < MaxConnects, cpConnects' = cpConnects + 1, cpSize < MaxSize,
             cpSize' = cpSize + 1, cpConnecting' = CP!Put(cpConnecting, cpVersion), UNCHANGED cpPending
      PROVE  CpCreated
  <2> USE <1>3
  <2>0. /\ cpVersion \in CP!Versions /\ CpMaintained \in Nat
        /\ cpSize \in 0 .. MaxSize /\ cpConnects \in 0 .. MaxConnects
    BY DEF CpNumberTypes, CpMaintained
  <2>1. CpConnecting < MaxConnects
    BY <2>0, CpNumbers, CpConstants DEF CpMade
  <2>2. cpConnecting' \in CpBags /\ CpConnecting' = CpConnecting + 1
    BY <2>0, <2>1, CpBagMoves, Zenon
  <2>3. cpPending' \in CpBags /\ CpPending' = CpPending
    BY CpRests DEF CpBagTypes
  <2> QED BY <2>0, <2>2, <2>3, CpNumbers, CpConstants DEF CpCreated
<1>4. ASSUME cpConnects < MaxConnects, cpConnects' = cpConnects + 1,
             cpPending' = CP!Put(cpPending, cpVersion), UNCHANGED <<cpSize, cpConnecting>>
      PROVE  CpCreated
  <2> USE <1>4
  <2>0. /\ cpVersion \in CP!Versions /\ CpMaintained \in Nat
        /\ cpSize \in 0 .. MaxSize /\ cpConnects \in 0 .. MaxConnects
    BY DEF CpNumberTypes, CpMaintained
  <2>1. CpPending < MaxConnects
    BY <2>0, CpNumbers, CpConstants DEF CpMade
  <2>2. cpPending' \in CpBags /\ CpPending' = CpPending + 1
    BY <2>0, <2>1, CpBagMoves, Zenon
  <2>3. cpConnecting' \in CpBags /\ CpConnecting' = CpConnecting
    BY CpRests DEF CpBagTypes
  <2> QED BY <2>0, <2>2, <2>3, CpNumbers, CpConstants DEF CpCreated
<1> QED BY <1>2, <1>3, <1>4 DEF CP!TryCreateConnectionAsync

\* The tasks of the pool move permits along with the connections.
LEMMA CpTaskSteps ==
  ASSUME CpInv, NEW v \in CP!Versions,
         CP!GetSizeLock(v) \/ CP!ConnectFails(v) \/ CP!DoConnect(v) \/ CP!CleanupConnection(v)
  PROVE  CpInv'
<1>0. CpBagTypes /\ CpUserTypes /\ CpNumberTypes /\ CpCounted /\ CpMade /\ CpLoops /\ CpGone
  BY DEF CpInv
<1> USE <1>0, CpConstants, CpNumbers
<1>1. CASE CP!GetSizeLock(v)
  <2> USE <1>1
  <2>1. CASE cpSize < MaxSize /\ cpSize' = cpSize + 1 /\ cpConnecting' = CP!Put(cpConnecting, v)
    <3> USE <2>1
    <3>1. cpPending[v] > 0 /\ cpPending' = CP!Take(cpPending, v)
      BY DEF CP!GetSizeLock
    <3>2. cpPending' \in CpBags /\ CpPending' = CpPending - 1 /\ CpPending >= 1
      BY <3>1, CpBagMoves, Zenon
    <3> USE <3>2
    <3>3. CpConnecting < MaxConnects /\ cpConnecting' = CP!Put(cpConnecting, v) /\ v \in CP!Versions
      BY DEF CpNumberTypes, CpUserTypes,
           CpMade, CpMaintained, CpMoved, CpBit, CP!Busy, CP!GetSizeLock
    <3>4. cpConnecting' \in CpBags /\ CpConnecting' = CpConnecting + 1
      BY <3>3, CpBagMoves, Zenon
    <3> USE <3>4
    <3>5. UNCHANGED <<cpUpc, cpQueue, cpCleanup, CpHolders, CpUsers, CpWaiters, CpQueued,
         CpCleaning>>
      BY CpRests DEF CP!GetSizeLock, CP!userVars, CP!Push, CP!Delete, CP!Busy
    <3> USE <3>5
    <3>6. CpBagTypes' /\ CpUserTypes'
      BY DEF CpBagTypes, CpUserTypes, CpNumberTypes, CpPlaces, CP!GetSizeLock, CP!userVars,
           CP!maintainVars, CP!bounds, CP!Busy
    <3>7. CpCounted'
      BY DEF CpNumberTypes, CpCounted, CpMaintained, CpPinged, CpBit, CP!GetSizeLock,
           CP!userVars, CP!maintainVars, CP!bounds, CP!Busy
    <3>8. CpMade'
      BY DEF CpNumberTypes, CpMade, CpMaintained, CpBit, CP!GetSizeLock, CP!userVars,
           CP!maintainVars, CP!bounds, CP!Busy
    <3>9. CpNumberTypes'
      BY DEF CpNumberTypes, CpCounted, CpMade, CpMaintained, CpPinged, CpLoops, CpBit,
           CP!kIdleDropLimit, CP!GetSizeLock, CP!userVars, CP!maintainVars, CP!bounds,
           CP!Busy
    <3>10. CpLoops'
      BY DEF CpNumberTypes, CpLoops, CP!GetSizeLock, CP!userVars, CP!maintainVars, CP!bounds, CP!Busy
    <3>11. CpGone'
      BY DEF CpNumberTypes, CpUserTypes, CpGone, CP!NoBag, CP!GetSizeLock, CP!userVars,
           CP!maintainVars, CP!bounds, CP!Busy
    <3> QED BY <3>6, <3>7, <3>8, <3>9, <3>10, <3>11 DEF CpInv
  <2>2. CASE UNCHANGED <<cpSize, cpConnecting>>
    <3> USE <2>2
    <3>1. cpPending[v] > 0 /\ cpPending' = CP!Take(cpPending, v)
      BY DEF CP!GetSizeLock
    <3>2. cpPending' \in CpBags /\ CpPending' = CpPending - 1 /\ CpPending >= 1
      BY <3>1, CpBagMoves, Zenon
    <3> USE <3>2
    <3>3. UNCHANGED <<cpUpc, cpConnecting, cpQueue, cpCleanup, CpHolders, CpUsers,
         CpWaiters, CpConnecting, CpQueued, CpCleaning>>
      BY CpRests DEF CP!GetSizeLock, CP!userVars
    <3> USE <3>3
    <3>4. CpBagTypes' /\ CpUserTypes'
      BY DEF CpBagTypes, CpUserTypes, CpNumberTypes, CpPlaces, CP!GetSizeLock, CP!userVars,
           CP!maintainVars, CP!bounds
    <3>5. CpCounted'
      BY DEF CpNumberTypes, CpCounted, CpMaintained, CpPinged, CpBit, CP!GetSizeLock,
           CP!userVars, CP!maintainVars, CP!bounds
    <3>6. CpMade'
      BY DEF CpNumberTypes, CpMade, CpMaintained, CpBit, CP!GetSizeLock, CP!userVars,
           CP!maintainVars, CP!bounds
    <3>7. CpNumberTypes'
      BY DEF CpNumberTypes, CpCounted, CpMade, CpMaintained, CpPinged, CpLoops, CpBit,
           CP!kIdleDropLimit, CP!GetSizeLock, CP!userVars, CP!maintainVars, CP!bounds
    <3>8. CpLoops'
      BY DEF CpNumberTypes, CpLoops, CP!GetSizeLock, CP!userVars, CP!maintainVars, CP!bounds
    <3>9. CpGone'
      BY DEF CpNumberTypes, CpUserTypes, CpGone, CP!NoBag, CP!GetSizeLock, CP!userVars,
           CP!maintainVars, CP!bounds
    <3> QED BY <3>4, <3>5, <3>6, <3>7, <3>8, <3>9 DEF CpInv
  <2> QED BY <2>1, <2>2 DEF CP!GetSizeLock
<1>2. CASE CP!ConnectFails(v)
  <2> USE <1>2
  <2>1. cpConnecting[v] > 0 /\ cpConnecting' = CP!Take(cpConnecting, v)
    BY DEF CP!ConnectFails
  <2>2. cpConnecting' \in CpBags /\ CpConnecting' = CpConnecting - 1 /\ CpConnecting >= 1
    BY <2>1, CpBagMoves, Zenon
  <2> USE <2>2
  <2>3. UNCHANGED <<cpUpc, cpPending, cpQueue, cpCleanup, CpHolders, CpUsers, CpWaiters,
       CpPending, CpQueued, CpCleaning>>
    BY CpRests DEF CP!ConnectFails, CP!userVars
  <2> USE <2>3
  <2>4. CpBagTypes' /\ CpUserTypes'
    BY DEF CpBagTypes, CpUserTypes, CpNumberTypes, CpPlaces, CP!ConnectFails, CP!userVars,
         CP!maintainVars, CP!bounds
  <2>5. CpCounted'
    BY DEF CpNumberTypes, CpCounted, CpMaintained, CpPinged, CpBit, CP!ConnectFails,
         CP!userVars, CP!maintainVars, CP!bounds
  <2>6. CpMade'
    BY DEF CpNumberTypes, CpMade, CpMaintained, CpBit, CP!ConnectFails, CP!userVars,
         CP!maintainVars, CP!bounds
  <2>7. CpNumberTypes'
    BY DEF CpNumberTypes, CpCounted, CpMade, CpMaintained, CpPinged, CpLoops, CpBit,
         CP!kIdleDropLimit, CP!ConnectFails, CP!userVars, CP!maintainVars, CP!bounds
  <2>8. CpLoops'
    BY DEF CpNumberTypes, CpLoops, CP!ConnectFails, CP!userVars, CP!maintainVars, CP!bounds
  <2>9. CpGone'
    BY DEF CpNumberTypes, CpUserTypes, CpGone, CP!NoBag, CP!ConnectFails, CP!userVars,
         CP!maintainVars, CP!bounds
  <2> QED BY <2>4, <2>5, <2>6, <2>7, <2>8, <2>9 DEF CpInv
<1>3. CASE CP!DoConnect(v)
  <2> USE <1>3
  <2>1. cpConnecting[v] > 0 /\ cpConnecting' = CP!Take(cpConnecting, v)
    BY DEF CP!DoConnect
  <2>2. cpConnecting' \in CpBags /\ CpConnecting' = CpConnecting - 1 /\ CpConnecting >= 1
    BY <2>1, CpBagMoves, Zenon
  <2> USE <2>2
  <2>3. CpQueued < MaxConnects /\ CP!Push(v) /\ v \in CP!Versions
    BY DEF CpNumberTypes, CpUserTypes, CpMade,
         CpMaintained, CpMoved, CpBit, CP!DoConnect
  <2>4. CpPushed
    BY <2>3, CpPushes, Zenon
  <2> USE <2>4
  <2>5. UNCHANGED <<cpUpc, cpPending, cpCleanup, CpHolders, CpUsers, CpWaiters, CpPending,
       CpCleaning>>
    BY CpRests DEF CP!DoConnect, CP!userVars, CP!Push, CP!Delete, CP!Busy
  <2> USE <2>5
  <2>6. CpBagTypes' /\ CpUserTypes'
    BY DEF CpPushed, CpBagTypes, CpUserTypes, CpNumberTypes, CpPlaces, CP!DoConnect,
         CP!userVars, CP!maintainVars, CP!bounds
  <2>7. CpCounted'
    BY DEF CpPushed, CpNumberTypes, CpCounted, CpMaintained, CpPinged, CpBit, CP!DoConnect,
         CP!userVars, CP!maintainVars, CP!bounds
  <2>8. CpMade'
    BY DEF CpPushed, CpNumberTypes, CpMade, CpMaintained, CpBit, CP!DoConnect, CP!userVars,
         CP!maintainVars, CP!bounds
  <2>9. CpNumberTypes'
    BY DEF CpPushed, CpNumberTypes, CpCounted, CpMade, CpMaintained, CpPinged, CpLoops, CpBit,
         CP!kIdleDropLimit, CP!DoConnect, CP!userVars, CP!maintainVars, CP!bounds
  <2>10. CpLoops'
    BY DEF CpNumberTypes, CpLoops, CP!DoConnect, CP!userVars, CP!maintainVars, CP!bounds
  <2>11. CpGone'
    BY DEF CpPushed, CpNumberTypes, CpUserTypes, CpGone, CP!NoBag, CP!DoConnect, CP!userVars,
         CP!maintainVars, CP!bounds
  <2> QED BY <2>6, <2>7, <2>8, <2>9, <2>10, <2>11 DEF CpInv
<1>4. CASE CP!CleanupConnection(v)
  <2> USE <1>4
  <2>1. cpCleanup[v] > 0 /\ cpCleanup' = CP!Take(cpCleanup, v)
    BY DEF CP!CleanupConnection
  <2>2. cpCleanup' \in CpBags /\ CpCleaning' = CpCleaning - 1 /\ CpCleaning >= 1
    BY <2>1, CpBagMoves, Zenon
  <2> USE <2>2
  <2>3. CpQueued < MaxConnects /\ CP!Push(v) /\ v \in CP!Versions
    BY DEF CpNumberTypes, CpUserTypes, CpMade,
         CpMaintained, CpMoved, CpBit, CP!CleanupConnection
  <2>4. CpPushed
    BY <2>3, CpPushes, Zenon
  <2> USE <2>4
  <2>5. UNCHANGED <<cpUpc, cpPending, cpConnecting, CpHolders, CpUsers, CpWaiters, CpPending,
       CpConnecting>>
    BY CpRests DEF CP!CleanupConnection, CP!userVars, CP!Push, CP!Delete, CP!Busy
  <2> USE <2>5
  <2>6. CpBagTypes' /\ CpUserTypes'
    BY DEF CpPushed, CpBagTypes, CpUserTypes, CpNumberTypes, CpPlaces, CP!CleanupConnection,
         CP!userVars, CP!maintainVars, CP!bounds
  <2>7. CpCounted'
    BY DEF CpPushed, CpNumberTypes, CpCounted, CpMaintained, CpPinged, CpBit,
         CP!CleanupConnection, CP!userVars, CP!maintainVars, CP!bounds
  <2>8. CpMade'
    BY DEF CpPushed, CpNumberTypes, CpMade, CpMaintained, CpBit, CP!CleanupConnection,
         CP!userVars, CP!maintainVars, CP!bounds
  <2>9. CpNumberTypes'
    BY DEF CpPushed, CpNumberTypes, CpCounted, CpMade, CpMaintained, CpPinged, CpLoops, CpBit,
         CP!kIdleDropLimit, CP!CleanupConnection, CP!userVars, CP!maintainVars, CP!bounds
  <2>10. CpLoops'
    BY DEF CpNumberTypes, CpLoops, CP!CleanupConnection, CP!userVars, CP!maintainVars, CP!bounds
  <2>11. CpGone'
    BY DEF CpPushed, CpNumberTypes, CpUserTypes, CpGone, CP!NoBag, CP!CleanupConnection,
         CP!userVars, CP!maintainVars, CP!bounds, CpCounted, CpMaintained
  <2> QED BY <2>6, <2>7, <2>8, <2>9, <2>10, <2>11 DEF CpInv
<1> QED BY <1>1, <1>2, <1>3, <1>4

\* The steps of a user.
LEMMA CpUserSteps ==
  ASSUME CpInv, NEW u \in Clients,
         CP!Acquire(u) \/ CP!PopEmpty(u) \/ CP!Create(u) \/ CP!PopTimesOut(u) \/
              CP!Acquired(u) \/ CP!Release(u) \/ CP!ReleaseEnds(u)
  PROVE  CpInv'
<1>0. CpBagTypes /\ CpUserTypes /\ CpNumberTypes /\ CpCounted /\ CpMade /\ CpLoops /\ CpGone
  BY DEF CpInv
<1> USE <1>0, CpConstants, CpNumbers
<1>1. CASE CP!Acquire(u)
  <2> USE <1>1
  <2>1. cpUpc[u] = "idle" /\ cpUpc' = [cpUpc EXCEPT ![u] = "pop"]
    BY DEF CP!Acquire
  <2> USE <2>1
  <2>2. CpMoved(u, "pop")
    BY CpMoves DEF CpPlaces
  <2> USE <2>2
  <2>3. UNCHANGED <<cpPending, cpConnecting, cpQueue, cpCleanup, CpPending, CpConnecting,
       CpQueued, CpCleaning>>
    BY CpRests DEF CP!Acquire, CP!userVars
  <2> USE <2>3
  <2>4. CpBagTypes' /\ CpUserTypes'
    BY DEF CpMoved, CpBagTypes, CpUserTypes, CpNumberTypes, CpPlaces, CP!Acquire, CP!userVars,
         CP!maintainVars, CP!bounds
  <2>5. CpCounted'
    BY DEF CpMoved, CpNumberTypes, CpCounted, CpMaintained, CpPinged, CpBit, CP!Acquire,
         CP!userVars, CP!maintainVars, CP!bounds
  <2>6. CpMade'
    BY DEF CpMoved, CpNumberTypes, CpMade, CpMaintained, CpBit, CP!Acquire, CP!userVars,
         CP!maintainVars, CP!bounds
  <2>7. CpNumberTypes'
    BY DEF CpMoved, CpNumberTypes, CpCounted, CpMade, CpMaintained, CpPinged, CpLoops, CpBit,
         CP!kIdleDropLimit, CP!Acquire, CP!userVars, CP!maintainVars, CP!bounds
  <2>8. CpLoops'
    BY DEF CpNumberTypes, CpLoops, CP!Acquire, CP!userVars, CP!maintainVars, CP!bounds
  <2>9. CpGone'
    BY DEF CpMoved, CpNumberTypes, CpUserTypes, CpGone, CP!NoBag, CP!Acquire, CP!userVars,
         CP!maintainVars, CP!bounds
  <2> QED BY <2>4, <2>5, <2>6, <2>7, <2>8, <2>9 DEF CpInv
<1>2. CASE CP!PopEmpty(u)
  <2> USE <1>2
  <2>1. cpUpc[u] = "pop" /\ cpUpc' = [cpUpc EXCEPT ![u] = IF cpWaiting + 1 > MaxQueueSize THEN
       "refused" ELSE "create"]
    BY DEF CP!PopEmpty
  <2> USE <2>1
  <2>2. CpMoved(u, IF cpWaiting + 1 > MaxQueueSize THEN "refused" ELSE "create")
    BY CpMoves DEF CpPlaces
  <2> USE <2>2
  <2>3. UNCHANGED <<cpPending, cpConnecting, cpQueue, cpCleanup, CpPending, CpConnecting,
       CpQueued, CpCleaning>>
    BY CpRests DEF CP!PopEmpty, CP!userVars
  <2> USE <2>3
  <2>4. CpBagTypes' /\ CpUserTypes'
    BY DEF CpMoved, CpBagTypes, CpUserTypes, CpNumberTypes, CpPlaces, CP!PopEmpty, CP!userVars,
         CP!maintainVars, CP!bounds
  <2>5. CpCounted'
    BY DEF CpMoved, CpNumberTypes, CpCounted, CpMaintained, CpPinged, CpBit, CP!PopEmpty,
         CP!userVars, CP!maintainVars, CP!bounds
  <2>6. CpMade'
    BY DEF CpMoved, CpNumberTypes, CpMade, CpMaintained, CpBit, CP!PopEmpty, CP!userVars,
         CP!maintainVars, CP!bounds
  <2>7. CpNumberTypes'
    BY DEF CpMoved, CpNumberTypes, CpCounted, CpMade, CpMaintained, CpPinged, CpLoops, CpBit,
         CP!kIdleDropLimit, CP!PopEmpty, CP!userVars, CP!maintainVars, CP!bounds
  <2>8. CpLoops'
    BY DEF CpNumberTypes, CpLoops, CP!PopEmpty, CP!userVars, CP!maintainVars, CP!bounds
  <2>9. CpGone'
    BY DEF CpMoved, CpNumberTypes, CpUserTypes, CpGone, CP!NoBag, CP!PopEmpty, CP!userVars,
         CP!maintainVars, CP!bounds
  <2> QED BY <2>4, <2>5, <2>6, <2>7, <2>8, <2>9 DEF CpInv
<1>3. CASE CP!Create(u)
  <2> USE <1>3
  <2>1. cpUpc[u] = "create" /\ cpUpc' = [cpUpc EXCEPT ![u] = "wait"]
    BY DEF CP!Create
  <2> USE <2>1
  <2>2. CpMoved(u, "wait")
    BY CpMoves DEF CpPlaces
  <2> USE <2>2
  <2>3. CpCreated
    BY CpCreates DEF CP!Create
  <2> USE <2>3
  <2>4. UNCHANGED <<cpQueue, cpCleanup, CpQueued, CpCleaning>>
    BY CpRests DEF CP!Create, CP!userVars
  <2> USE <2>4
  <2>5. CpBagTypes' /\ CpUserTypes'
    BY DEF CpCreated, CpMoved, CpBagTypes, CpUserTypes, CpNumberTypes, CpPlaces, CP!Create,
         CP!userVars, CP!maintainVars, CP!bounds
  <2>6. CpCounted'
    BY DEF CpCreated, CpMoved, CpNumberTypes, CpCounted, CpMaintained, CpPinged, CpBit,
         CP!Create, CP!userVars, CP!maintainVars, CP!bounds
  <2>7. CpMade'
    BY DEF CpCreated, CpMoved, CpNumberTypes, CpMade, CpMaintained, CpBit, CP!Create,
         CP!userVars, CP!maintainVars, CP!bounds
  <2>8. CpNumberTypes'
    BY DEF CpCreated, CpMoved, CpNumberTypes, CpCounted, CpMade, CpMaintained, CpPinged,
         CpLoops, CpBit, CP!kIdleDropLimit, CP!Create, CP!userVars, CP!maintainVars,
         CP!bounds
  <2>9. CpLoops'
    BY DEF CpNumberTypes, CpLoops, CP!Create, CP!userVars, CP!maintainVars, CP!bounds
  <2>10. CpGone'
    BY DEF CpCreated, CpMoved, CpNumberTypes, CpUserTypes, CpGone, CP!NoBag, CP!Create,
         CP!userVars, CP!maintainVars, CP!bounds
  <2> QED BY <2>5, <2>6, <2>7, <2>8, <2>9, <2>10 DEF CpInv
<1>4. CASE CP!PopTimesOut(u)
  <2> USE <1>4
  <2>1. cpUpc[u] \in {"wait", "refused"} /\ cpUpc' = [cpUpc EXCEPT ![u] = "idle"]
    BY DEF CP!PopTimesOut
  <2> USE <2>1
  <2>2. CpMoved(u, "idle")
    BY CpMoves DEF CpPlaces
  <2> USE <2>2
  <2>3. UNCHANGED <<cpPending, cpConnecting, cpQueue, cpCleanup, CpPending, CpConnecting,
       CpQueued, CpCleaning>>
    BY CpRests DEF CP!PopTimesOut, CP!userVars
  <2> USE <2>3
  <2>4. CpBagTypes' /\ CpUserTypes'
    BY DEF CpMoved, CpBagTypes, CpUserTypes, CpNumberTypes, CpPlaces, CP!PopTimesOut,
         CP!userVars, CP!maintainVars, CP!bounds
  <2>5. CpCounted'
    BY DEF CpMoved, CpNumberTypes, CpCounted, CpMaintained, CpPinged, CpBit, CP!PopTimesOut,
         CP!userVars, CP!maintainVars, CP!bounds
  <2>6. CpMade'
    BY DEF CpMoved, CpNumberTypes, CpMade, CpMaintained, CpBit, CP!PopTimesOut, CP!userVars,
         CP!maintainVars, CP!bounds
  <2>7. CpNumberTypes'
    BY DEF CpMoved, CpNumberTypes, CpCounted, CpMade, CpMaintained, CpPinged, CpLoops, CpBit,
         CP!kIdleDropLimit, CP!PopTimesOut, CP!userVars, CP!maintainVars, CP!bounds
  <2>8. CpLoops'
    BY DEF CpNumberTypes, CpLoops, CP!PopTimesOut, CP!userVars, CP!maintainVars, CP!bounds
  <2>9. CpGone'
    BY DEF CpMoved, CpNumberTypes, CpUserTypes, CpGone, CP!NoBag, CP!PopTimesOut, CP!userVars,
         CP!maintainVars, CP!bounds
  <2> QED BY <2>4, <2>5, <2>6, <2>7, <2>8, <2>9 DEF CpInv
<1>5. CASE CP!Acquired(u)
  <2> USE <1>5
  <2>1. cpUpc[u] = "got" /\ cpUpc' = [cpUpc EXCEPT ![u] = "using"]
    BY DEF CP!Acquired
  <2> USE <2>1
  <2>2. CpMoved(u, "using")
    BY CpMoves DEF CpPlaces
  <2> USE <2>2
  <2>3. UNCHANGED <<cpPending, cpConnecting, cpQueue, cpCleanup, CpPending, CpConnecting,
       CpQueued, CpCleaning>>
    BY CpRests DEF CP!Acquired, CP!userVars
  <2> USE <2>3
  <2>4. CpBagTypes' /\ CpUserTypes'
    BY DEF CpMoved, CpBagTypes, CpUserTypes, CpNumberTypes, CpPlaces, CP!Acquired, CP!userVars,
         CP!maintainVars, CP!bounds
  <2>5. CpCounted'
    BY DEF CpMoved, CpNumberTypes, CpCounted, CpMaintained, CpPinged, CpBit, CP!Acquired,
         CP!userVars, CP!maintainVars, CP!bounds
  <2>6. CpMade'
    BY DEF CpMoved, CpNumberTypes, CpMade, CpMaintained, CpBit, CP!Acquired, CP!userVars,
         CP!maintainVars, CP!bounds
  <2>7. CpNumberTypes'
    BY DEF CpMoved, CpNumberTypes, CpCounted, CpMade, CpMaintained, CpPinged, CpLoops, CpBit,
         CP!kIdleDropLimit, CP!Acquired, CP!userVars, CP!maintainVars, CP!bounds
  <2>8. CpLoops'
    BY DEF CpNumberTypes, CpLoops, CP!Acquired, CP!userVars, CP!maintainVars, CP!bounds
  <2>9. CpGone'
    BY DEF CpMoved, CpNumberTypes, CpUserTypes, CpGone, CP!NoBag, CP!Acquired, CP!userVars,
         CP!maintainVars, CP!bounds
  <2> QED BY <2>4, <2>5, <2>6, <2>7, <2>8, <2>9 DEF CpInv
<1>6. CASE CP!Release(u)
  <2> USE <1>6
  <2>1. CASE CP!Push(cpOwn[u]) /\ cpUpc' = [cpUpc EXCEPT ![u] = "released"] /\ UNCHANGED
       <<cpUsed, cpCleanup>>
    <3> USE <2>1
    <3>1. cpUpc[u] = "using" /\ cpUpc' = [cpUpc EXCEPT ![u] = "released"]
      BY DEF CP!Release
    <3> USE <3>1
    <3>2. CpMoved(u, "released")
      BY CpMoves DEF CpPlaces
    <3> USE <3>2
    <3>3. CpQueued < MaxConnects /\ CP!Push(cpOwn[u]) /\ cpOwn[u] \in CP!Versions
      BY DEF CpNumberTypes,
           CpUserTypes, CpMade, CpMaintained, CpMoved, CpBit, CP!Release
    <3>4. CpPushed
      BY <3>3, CpPushes, Zenon
    <3> USE <3>4
    <3>5. UNCHANGED <<cpPending, cpConnecting, cpCleanup, CpPending, CpConnecting, CpCleaning>>
      BY CpRests DEF CP!Release, CP!userVars, CP!Push, CP!Delete, CP!Busy
    <3> USE <3>5
    <3>6. CpBagTypes' /\ CpUserTypes'
      BY DEF CpPushed, CpMoved, CpBagTypes, CpUserTypes, CpNumberTypes, CpPlaces, CP!Release,
           CP!userVars, CP!maintainVars, CP!bounds
    <3>7. CpCounted'
      BY DEF CpPushed, CpMoved, CpNumberTypes, CpCounted, CpMaintained, CpPinged, CpBit,
           CP!Release, CP!userVars, CP!maintainVars, CP!bounds
    <3>8. CpMade'
      BY DEF CpPushed, CpMoved, CpNumberTypes, CpMade, CpMaintained, CpBit, CP!Release,
           CP!userVars, CP!maintainVars, CP!bounds
    <3>9. CpNumberTypes'
      BY DEF CpPushed, CpMoved, CpNumberTypes, CpCounted, CpMade, CpMaintained, CpPinged,
           CpLoops, CpBit, CP!kIdleDropLimit, CP!Release, CP!userVars, CP!maintainVars,
           CP!bounds
    <3>10. CpLoops'
      BY DEF CpNumberTypes, CpLoops, CP!Release, CP!userVars, CP!maintainVars, CP!bounds
    <3>11. CpGone'
      BY DEF CpPushed, CpMoved, CpNumberTypes, CpUserTypes, CpGone, CP!NoBag, CP!Release,
           CP!userVars, CP!maintainVars, CP!bounds
    <3> QED BY <3>6, <3>7, <3>8, <3>9, <3>10, <3>11 DEF CpInv
  <2>2. CASE CP!Busy(cpOwn[u]) /\ cpUpc' = [cpUpc EXCEPT ![u] = "idle"]
    <3> USE <2>2
    <3>1. cpUpc[u] = "using" /\ cpUpc' = [cpUpc EXCEPT ![u] = "idle"]
      BY DEF CP!Release
    <3> USE <3>1
    <3>2. CpMoved(u, "idle")
      BY CpMoves DEF CpPlaces
    <3> USE <3>2
    <3>3. CpCleaning < MaxConnects /\ cpCleanup' = CP!Put(cpCleanup, cpOwn[u]) /\ cpOwn[u]
         \in CP!Versions
      BY DEF CpNumberTypes,
           CpUserTypes, CpMade, CpMaintained, CpMoved, CpBit, CP!Busy, CP!Release
    <3>4. cpCleanup' \in CpBags /\ CpCleaning' = CpCleaning + 1
      BY <3>3, CpBagMoves, Zenon
    <3> USE <3>4
    <3>5. UNCHANGED <<cpPending, cpConnecting, cpQueue, CpPending, CpConnecting, CpQueued>>
      BY CpRests DEF CP!Release, CP!userVars, CP!Push, CP!Delete, CP!Busy
    <3> USE <3>5
    <3>6. CpBagTypes' /\ CpUserTypes'
      BY DEF CpMoved, CpBagTypes, CpUserTypes, CpNumberTypes, CpPlaces, CP!Release,
           CP!userVars, CP!maintainVars, CP!bounds, CP!Busy
    <3>7. CpCounted'
      BY DEF CpMoved, CpNumberTypes, CpCounted, CpMaintained, CpPinged, CpBit, CP!Release,
           CP!userVars, CP!maintainVars, CP!bounds, CP!Busy
    <3>8. CpMade'
      BY DEF CpMoved, CpNumberTypes, CpMade, CpMaintained, CpBit, CP!Release, CP!userVars,
           CP!maintainVars, CP!bounds, CP!Busy
    <3>9. CpNumberTypes'
      BY DEF CpMoved, CpNumberTypes, CpCounted, CpMade, CpMaintained, CpPinged, CpLoops,
           CpBit, CP!kIdleDropLimit, CP!Release, CP!userVars, CP!maintainVars, CP!bounds,
           CP!Busy
    <3>10. CpLoops'
      BY DEF CpNumberTypes, CpLoops, CP!Release, CP!userVars, CP!maintainVars, CP!bounds, CP!Busy
    <3>11. CpGone'
      BY DEF CpMoved, CpNumberTypes, CpUserTypes, CpGone, CP!NoBag, CP!Release, CP!userVars,
           CP!maintainVars, CP!bounds, CP!Busy
    <3> QED BY <3>6, <3>7, <3>8, <3>9, <3>10, <3>11 DEF CpInv
  <2> QED BY <2>1, <2>2 DEF CP!Release
<1>7. CASE CP!ReleaseEnds(u)
  <2> USE <1>7
  <2>1. cpUpc[u] = "released" /\ cpUpc' = [cpUpc EXCEPT ![u] = "idle"]
    BY DEF CP!ReleaseEnds
  <2> USE <2>1
  <2>2. CpMoved(u, "idle")
    BY CpMoves DEF CpPlaces
  <2> USE <2>2
  <2>3. UNCHANGED <<cpPending, cpConnecting, cpQueue, cpCleanup, CpPending, CpConnecting,
       CpQueued, CpCleaning>>
    BY CpRests DEF CP!ReleaseEnds, CP!userVars
  <2> USE <2>3
  <2>4. CpBagTypes' /\ CpUserTypes'
    BY DEF CpMoved, CpBagTypes, CpUserTypes, CpNumberTypes, CpPlaces, CP!ReleaseEnds,
         CP!userVars, CP!maintainVars, CP!bounds
  <2>5. CpCounted'
    BY DEF CpMoved, CpNumberTypes, CpCounted, CpMaintained, CpPinged, CpBit, CP!ReleaseEnds,
         CP!userVars, CP!maintainVars, CP!bounds
  <2>6. CpMade'
    BY DEF CpMoved, CpNumberTypes, CpMade, CpMaintained, CpBit, CP!ReleaseEnds, CP!userVars,
         CP!maintainVars, CP!bounds
  <2>7. CpNumberTypes'
    BY DEF CpMoved, CpNumberTypes, CpCounted, CpMade, CpMaintained, CpPinged, CpLoops, CpBit,
         CP!kIdleDropLimit, CP!ReleaseEnds, CP!userVars, CP!maintainVars, CP!bounds
  <2>8. CpLoops'
    BY DEF CpNumberTypes, CpLoops, CP!ReleaseEnds, CP!userVars, CP!maintainVars, CP!bounds
  <2>9. CpGone'
    BY DEF CpMoved, CpNumberTypes, CpUserTypes, CpGone, CP!NoBag, CP!ReleaseEnds, CP!userVars,
         CP!maintainVars, CP!bounds
  <2> QED BY <2>4, <2>5, <2>6, <2>7, <2>8, <2>9 DEF CpInv
<1> QED BY <1>1, <1>2, <1>3, <1>4, <1>5, <1>6, <1>7

\* A user pops a connection, which is his or is closed.
LEMMA CpPopSteps ==
  ASSUME CpInv, NEW u \in Clients, NEW v \in CP!Versions,
         CP!PopIdle(u, v) \/ CP!PopWaits(u, v)
  PROVE  CpInv'
<1>0. CpBagTypes /\ CpUserTypes /\ CpNumberTypes /\ CpCounted /\ CpMade /\ CpLoops /\ CpGone
  BY DEF CpInv
<1> USE <1>0, CpConstants, CpNumbers
<1>1. CASE CP!PopIdle(u, v)
  <2> USE <1>1
  <2>1. CASE cpClosing' = cpClosing + 1 /\ UNCHANGED <<cpUpc, cpOwn>>
    <3> USE <2>1
    <3>1. cpQueue[v] > 0 /\ cpQueue' = CP!Take(cpQueue, v)
      BY DEF CP!PopIdle
    <3>2. cpQueue' \in CpBags /\ CpQueued' = CpQueued - 1 /\ CpQueued >= 1
      BY <3>1, CpBagMoves, Zenon
    <3> USE <3>2
    <3>3. UNCHANGED <<cpUpc, cpPending, cpConnecting, cpCleanup, CpHolders, CpUsers,
         CpWaiters, CpPending, CpConnecting, CpCleaning>>
      BY CpRests DEF CP!PopIdle, CP!userVars
    <3> USE <3>3
    <3>4. CpBagTypes' /\ CpUserTypes'
      BY DEF CpBagTypes, CpUserTypes, CpNumberTypes, CpPlaces, CP!PopIdle, CP!userVars,
           CP!maintainVars, CP!bounds
    <3>5. CpCounted'
      BY DEF CpNumberTypes, CpCounted, CpMaintained, CpPinged, CpBit, CP!PopIdle,
           CP!userVars, CP!maintainVars, CP!bounds
    <3>6. CpMade'
      BY DEF CpNumberTypes, CpMade, CpMaintained, CpBit, CP!PopIdle, CP!userVars,
           CP!maintainVars, CP!bounds
    <3>7. CpNumberTypes'
      BY DEF CpNumberTypes, CpCounted, CpMade, CpMaintained, CpPinged, CpLoops, CpBit,
           CP!kIdleDropLimit, CP!PopIdle, CP!userVars, CP!maintainVars, CP!bounds
    <3>8. CpLoops'
      BY DEF CpNumberTypes, CpLoops, CP!PopIdle, CP!userVars, CP!maintainVars, CP!bounds
    <3>9. CpGone'
      BY DEF CpNumberTypes, CpUserTypes, CpGone, CP!NoBag, CP!PopIdle, CP!userVars,
           CP!maintainVars, CP!bounds
    <3> QED BY <3>4, <3>5, <3>6, <3>7, <3>8, <3>9 DEF CpInv
  <2>2. CASE v >= cpSeen[u] /\ cpOwn' = [cpOwn EXCEPT ![u] = v] /\ cpUpc' = [cpUpc EXCEPT ![u]
       = "got"] /\ UNCHANGED cpClosing
    <3> USE <2>2
    <3>1. cpQueue[v] > 0 /\ cpQueue' = CP!Take(cpQueue, v)
      BY DEF CP!PopIdle
    <3>2. cpQueue' \in CpBags /\ CpQueued' = CpQueued - 1 /\ CpQueued >= 1
      BY <3>1, CpBagMoves, Zenon
    <3> USE <3>2
    <3>3. cpUpc[u] = "pop" /\ cpUpc' = [cpUpc EXCEPT ![u] = "got"]
      BY DEF CP!PopIdle
    <3> USE <3>3
    <3>4. CpMoved(u, "got")
      BY CpMoves DEF CpPlaces
    <3> USE <3>4
    <3>5. UNCHANGED <<cpPending, cpConnecting, cpCleanup, CpPending, CpConnecting, CpCleaning>>
      BY CpRests DEF CP!PopIdle, CP!userVars
    <3> USE <3>5
    <3>6. CpBagTypes' /\ CpUserTypes'
      BY DEF CpMoved, CpBagTypes, CpUserTypes, CpNumberTypes, CpPlaces, CP!PopIdle,
           CP!userVars, CP!maintainVars, CP!bounds
    <3>7. CpCounted'
      BY DEF CpMoved, CpNumberTypes, CpCounted, CpMaintained, CpPinged, CpBit, CP!PopIdle,
           CP!userVars, CP!maintainVars, CP!bounds
    <3>8. CpMade'
      BY DEF CpMoved, CpNumberTypes, CpMade, CpMaintained, CpBit, CP!PopIdle, CP!userVars,
           CP!maintainVars, CP!bounds
    <3>9. CpNumberTypes'
      BY DEF CpMoved, CpNumberTypes, CpCounted, CpMade, CpMaintained, CpPinged, CpLoops,
           CpBit, CP!kIdleDropLimit, CP!PopIdle, CP!userVars, CP!maintainVars, CP!bounds
    <3>10. CpLoops'
      BY DEF CpNumberTypes, CpLoops, CP!PopIdle, CP!userVars, CP!maintainVars, CP!bounds
    <3>11. CpGone'
      BY DEF CpMoved, CpNumberTypes, CpUserTypes, CpGone, CP!NoBag, CP!PopIdle, CP!userVars,
           CP!maintainVars, CP!bounds
    <3> QED BY <3>6, <3>7, <3>8, <3>9, <3>10, <3>11 DEF CpInv
  <2> QED BY <2>1, <2>2 DEF CP!PopIdle
<1>2. CASE CP!PopWaits(u, v)
  <2> USE <1>2
  <2>1. cpQueue[v] > 0 /\ cpQueue' = CP!Take(cpQueue, v)
    BY DEF CP!PopWaits
  <2>2. cpQueue' \in CpBags /\ CpQueued' = CpQueued - 1 /\ CpQueued >= 1
    BY <2>1, CpBagMoves, Zenon
  <2> USE <2>2
  <2>3. cpUpc[u] = "wait" /\ cpUpc' = [cpUpc EXCEPT ![u] = "got"]
    BY DEF CP!PopWaits
  <2> USE <2>3
  <2>4. CpMoved(u, "got")
    BY CpMoves DEF CpPlaces
  <2> USE <2>4
  <2>5. UNCHANGED <<cpPending, cpConnecting, cpCleanup, CpPending, CpConnecting, CpCleaning>>
    BY CpRests DEF CP!PopWaits, CP!userVars
  <2> USE <2>5
  <2>6. CpBagTypes' /\ CpUserTypes'
    BY DEF CpMoved, CpBagTypes, CpUserTypes, CpNumberTypes, CpPlaces, CP!PopWaits, CP!userVars,
         CP!maintainVars, CP!bounds
  <2>7. CpCounted'
    BY DEF CpMoved, CpNumberTypes, CpCounted, CpMaintained, CpPinged, CpBit, CP!PopWaits,
         CP!userVars, CP!maintainVars, CP!bounds
  <2>8. CpMade'
    BY DEF CpMoved, CpNumberTypes, CpMade, CpMaintained, CpBit, CP!PopWaits, CP!userVars,
         CP!maintainVars, CP!bounds
  <2>9. CpNumberTypes'
    BY DEF CpMoved, CpNumberTypes, CpCounted, CpMade, CpMaintained, CpPinged, CpLoops, CpBit,
         CP!kIdleDropLimit, CP!PopWaits, CP!userVars, CP!maintainVars, CP!bounds
  <2>10. CpLoops'
    BY DEF CpNumberTypes, CpLoops, CP!PopWaits, CP!userVars, CP!maintainVars, CP!bounds
  <2>11. CpGone'
    BY DEF CpMoved, CpNumberTypes, CpUserTypes, CpGone, CP!NoBag, CP!PopWaits, CP!userVars,
         CP!maintainVars, CP!bounds
  <2> QED BY <2>6, <2>7, <2>8, <2>9, <2>10, <2>11 DEF CpInv
<1> QED BY <1>1, <1>2

\* The steps of the maintain task.
LEMMA CpMaintainSteps ==
  ASSUME CpInv,
         CP!MaintainConnections \/ CP!ReadSettings \/ CP!AllBusy \/ CP!DropIdle \/
              CP!Ping \/ CP!PingReleased \/ CP!CheckMinPoolSizeUnderflow
  PROVE  CpInv'
<1>0. CpBagTypes /\ CpUserTypes /\ CpNumberTypes /\ CpCounted /\ CpMade /\ CpLoops /\ CpGone
  BY DEF CpInv
<1> USE <1>0, CpConstants, CpNumbers
<1>1. CASE CP!MaintainConnections
  <2> USE <1>1
  <2>1. UNCHANGED <<cpUpc, cpPending, cpConnecting, cpQueue, cpCleanup, CpHolders, CpUsers,
       CpWaiters, CpPending, CpConnecting, CpQueued, CpCleaning>>
    BY CpRests DEF CP!MaintainConnections, CP!userVars
  <2> USE <2>1
  <2>2. CpBagTypes' /\ CpUserTypes'
    BY DEF CpBagTypes, CpUserTypes, CpNumberTypes, CpPlaces, CP!MaintainConnections,
         CP!userVars, CP!maintainVars, CP!bounds
  <2>3. CpCounted'
    BY DEF CpNumberTypes, CpCounted, CpMaintained, CpPinged, CpBit, CP!MaintainConnections,
         CP!userVars, CP!maintainVars, CP!bounds
  <2>4. CpMade'
    BY DEF CpNumberTypes, CpMade, CpMaintained, CpBit, CP!MaintainConnections, CP!userVars,
         CP!maintainVars, CP!bounds
  <2>5. CpNumberTypes'
    BY DEF CpNumberTypes, CpCounted, CpMade, CpMaintained, CpPinged, CpLoops, CpBit,
         CP!kIdleDropLimit, CP!MaintainConnections, CP!userVars, CP!maintainVars, CP!bounds
  <2>6. CpLoops'
    BY DEF CpNumberTypes, CpLoops, CP!MaintainConnections, CP!userVars, CP!maintainVars, CP!bounds
  <2>7. CpGone'
    BY DEF CpNumberTypes, CpUserTypes, CpGone, CP!NoBag, CP!MaintainConnections, CP!userVars,
         CP!maintainVars, CP!bounds
  <2> QED BY <2>2, <2>3, <2>4, <2>5, <2>6, <2>7 DEF CpInv
<1>2. CASE CP!ReadSettings
  <2> USE <1>2
  <2>1. UNCHANGED <<cpUpc, cpPending, cpConnecting, cpQueue, cpCleanup, CpHolders, CpUsers,
       CpWaiters, CpPending, CpConnecting, CpQueued, CpCleaning>>
    BY CpRests DEF CP!ReadSettings, CP!userVars
  <2> USE <2>1
  <2>2. CpBagTypes' /\ CpUserTypes'
    BY DEF CpBagTypes, CpUserTypes, CpNumberTypes, CpPlaces, CP!ReadSettings, CP!userVars,
         CP!maintainVars, CP!bounds
  <2>3. CpCounted'
    BY DEF CpNumberTypes, CpCounted, CpMaintained, CpPinged, CpBit, CP!ReadSettings,
         CP!userVars, CP!maintainVars, CP!bounds
  <2>4. CpMade'
    BY DEF CpNumberTypes, CpMade, CpMaintained, CpBit, CP!ReadSettings, CP!userVars,
         CP!maintainVars, CP!bounds
  <2>5. CpNumberTypes'
    BY DEF CpNumberTypes, CpCounted, CpMade, CpMaintained, CpPinged, CpLoops, CpBit,
         CP!kIdleDropLimit, CP!ReadSettings, CP!userVars, CP!maintainVars, CP!bounds
  <2>6. CpLoops'
    BY DEF CpNumberTypes, CpLoops, CP!ReadSettings, CP!userVars, CP!maintainVars, CP!bounds
  <2>7. CpGone'
    BY DEF CpNumberTypes, CpUserTypes, CpGone, CP!NoBag, CP!ReadSettings, CP!userVars,
         CP!maintainVars, CP!bounds
  <2> QED BY <2>2, <2>3, <2>4, <2>5, <2>6, <2>7 DEF CpInv
<1>3. CASE CP!AllBusy
  <2> USE <1>3
  <2>1. UNCHANGED <<cpUpc, cpPending, cpConnecting, cpQueue, cpCleanup, CpHolders, CpUsers,
       CpWaiters, CpPending, CpConnecting, CpQueued, CpCleaning>>
    BY CpRests DEF CP!AllBusy, CP!userVars
  <2> USE <2>1
  <2>2. CpBagTypes' /\ CpUserTypes'
    BY DEF CpBagTypes, CpUserTypes, CpNumberTypes, CpPlaces, CP!AllBusy, CP!userVars,
         CP!maintainVars, CP!bounds
  <2>3. CpCounted'
    BY DEF CpNumberTypes, CpCounted, CpMaintained, CpPinged, CpBit, CP!AllBusy, CP!userVars,
         CP!maintainVars, CP!bounds
  <2>4. CpMade'
    BY DEF CpNumberTypes, CpMade, CpMaintained, CpBit, CP!AllBusy, CP!userVars,
         CP!maintainVars, CP!bounds
  <2>5. CpNumberTypes'
    BY DEF CpNumberTypes, CpCounted, CpMade, CpMaintained, CpPinged, CpLoops, CpBit,
         CP!kIdleDropLimit, CP!AllBusy, CP!userVars, CP!maintainVars, CP!bounds
  <2>6. CpLoops'
    BY DEF CpNumberTypes, CpLoops, CP!AllBusy, CP!userVars, CP!maintainVars, CP!bounds
  <2>7. CpGone'
    BY DEF CpNumberTypes, CpUserTypes, CpGone, CP!NoBag, CP!AllBusy, CP!userVars,
         CP!maintainVars, CP!bounds
  <2> QED BY <2>2, <2>3, <2>4, <2>5, <2>6, <2>7 DEF CpInv
<1>4. CASE CP!DropIdle
  <2> USE <1>4
  <2>1. UNCHANGED <<cpUpc, cpPending, cpConnecting, cpQueue, cpCleanup, CpHolders, CpUsers,
       CpWaiters, CpPending, CpConnecting, CpQueued, CpCleaning>>
    BY CpRests DEF CP!DropIdle, CP!userVars
  <2> USE <2>1
  <2>2. CpBagTypes' /\ CpUserTypes'
    BY DEF CpBagTypes, CpUserTypes, CpNumberTypes, CpPlaces, CP!DropIdle, CP!userVars,
         CP!maintainVars, CP!bounds, CP!MaintainNext
  <2>3. CpCounted'
    BY DEF CpNumberTypes, CpCounted, CpMaintained, CpPinged, CpBit, CP!DropIdle, CP!userVars,
         CP!maintainVars, CP!bounds, CP!MaintainNext
  <2>4. CpMade'
    BY DEF CpNumberTypes, CpMade, CpMaintained, CpBit, CP!DropIdle, CP!userVars,
         CP!maintainVars, CP!bounds, CP!MaintainNext
  <2>5. CpNumberTypes'
    BY DEF CpNumberTypes, CpCounted, CpMade, CpMaintained, CpPinged, CpLoops, CpBit,
         CP!kIdleDropLimit, CP!DropIdle, CP!userVars, CP!maintainVars, CP!bounds,
         CP!MaintainNext
  <2>6. CpLoops'
    BY DEF CpNumberTypes, CpLoops, CP!DropIdle, CP!userVars, CP!maintainVars, CP!bounds,
         CP!MaintainNext
  <2>7. CpGone'
    BY DEF CpNumberTypes, CpUserTypes, CpGone, CP!NoBag, CP!DropIdle, CP!userVars,
         CP!maintainVars, CP!bounds, CP!MaintainNext
  <2> QED BY <2>2, <2>3, <2>4, <2>5, <2>6, <2>7 DEF CpInv
<1>5. CASE CP!Ping
  <2> USE <1>5
  <2>1. CASE CP!Push(cpMown) /\ cpMpc' = "released" /\ UNCHANGED <<cpUsed, cpCleanup, cpCount>>
    <3> USE <2>1
    <3>1. CpQueued < MaxConnects /\ CP!Push(cpMown) /\ cpMown \in CP!Versions
      BY DEF CpNumberTypes, CpUserTypes, CpMade,
           CpMaintained, CpMoved, CpBit, CP!Ping
    <3>2. CpPushed
      BY <3>1, CpPushes, Zenon
    <3> USE <3>2
    <3>3. UNCHANGED <<cpUpc, cpPending, cpConnecting, cpCleanup, CpHolders, CpUsers,
         CpWaiters, CpPending, CpConnecting, CpCleaning>>
      BY CpRests DEF CP!Ping, CP!userVars, CP!Push, CP!Delete, CP!Busy
    <3> USE <3>3
    <3>4. CpBagTypes' /\ CpUserTypes'
      BY DEF CpPushed, CpBagTypes, CpUserTypes, CpNumberTypes, CpPlaces, CP!Ping,
           CP!userVars, CP!maintainVars, CP!bounds, CP!MaintainNext
    <3>5. CpCounted'
      BY DEF CpPushed, CpNumberTypes, CpCounted, CpMaintained, CpPinged, CpBit, CP!Ping,
           CP!userVars, CP!maintainVars, CP!bounds, CP!MaintainNext
    <3>6. CpMade'
      BY DEF CpPushed, CpNumberTypes, CpMade, CpMaintained, CpBit, CP!Ping, CP!userVars,
           CP!maintainVars, CP!bounds, CP!MaintainNext
    <3>7. CpNumberTypes'
      BY DEF CpPushed, CpNumberTypes, CpCounted, CpMade, CpMaintained, CpPinged, CpLoops,
           CpBit, CP!kIdleDropLimit, CP!Ping, CP!userVars, CP!maintainVars, CP!bounds,
           CP!MaintainNext
    <3>8. CpLoops'
      BY DEF CpNumberTypes, CpLoops, CP!Ping, CP!userVars, CP!maintainVars, CP!bounds, CP!MaintainNext
    <3>9. CpGone'
      BY DEF CpPushed, CpNumberTypes, CpUserTypes, CpGone, CP!NoBag, CP!Ping, CP!userVars,
           CP!maintainVars, CP!bounds, CP!MaintainNext
    <3> QED BY <3>4, <3>5, <3>6, <3>7, <3>8, <3>9 DEF CpInv
  <2>2. CASE CP!Busy(cpMown) /\ CP!MaintainNext
    <3> USE <2>2
    <3>1. CpCleaning < MaxConnects /\ cpCleanup' = CP!Put(cpCleanup, cpMown) /\ cpMown \in
         CP!Versions
      BY DEF CpNumberTypes, CpUserTypes, CpMade,
           CpMaintained, CpMoved, CpBit, CP!Busy, CP!Ping
    <3>2. cpCleanup' \in CpBags /\ CpCleaning' = CpCleaning + 1
      BY <3>1, CpBagMoves, Zenon
    <3> USE <3>2
    <3>3. UNCHANGED <<cpUpc, cpPending, cpConnecting, cpQueue, CpHolders, CpUsers,
         CpWaiters, CpPending, CpConnecting, CpQueued>>
      BY CpRests DEF CP!Ping, CP!userVars, CP!Push, CP!Delete, CP!Busy
    <3> USE <3>3
    <3>4. CpBagTypes' /\ CpUserTypes'
      BY DEF CpBagTypes, CpUserTypes, CpNumberTypes, CpPlaces, CP!Ping, CP!userVars,
           CP!maintainVars, CP!bounds, CP!MaintainNext, CP!Busy
    <3>5. CpCounted'
      BY DEF CpNumberTypes, CpCounted, CpMaintained, CpPinged, CpBit, CP!Ping, CP!userVars,
           CP!maintainVars, CP!bounds, CP!MaintainNext, CP!Busy
    <3>6. CpMade'
      BY DEF CpNumberTypes, CpMade, CpMaintained, CpBit, CP!Ping, CP!userVars,
           CP!maintainVars, CP!bounds, CP!MaintainNext, CP!Busy
    <3>7. CpNumberTypes'
      BY DEF CpNumberTypes, CpCounted, CpMade, CpMaintained, CpPinged, CpLoops, CpBit,
           CP!kIdleDropLimit, CP!Ping, CP!userVars, CP!maintainVars, CP!bounds,
           CP!MaintainNext, CP!Busy
    <3>8. CpLoops'
      BY DEF CpNumberTypes, CpLoops, CP!Ping, CP!userVars, CP!maintainVars, CP!bounds,
           CP!MaintainNext, CP!Busy
    <3>9. CpGone'
      BY DEF CpNumberTypes, CpUserTypes, CpGone, CP!NoBag, CP!Ping, CP!userVars,
           CP!maintainVars, CP!bounds, CP!MaintainNext, CP!Busy
    <3> QED BY <3>4, <3>5, <3>6, <3>7, <3>8, <3>9 DEF CpInv
  <2> QED BY <2>1, <2>2 DEF CP!Ping
<1>6. CASE CP!PingReleased
  <2> USE <1>6
  <2>1. UNCHANGED <<cpUpc, cpPending, cpConnecting, cpQueue, cpCleanup, CpHolders, CpUsers,
       CpWaiters, CpPending, CpConnecting, CpQueued, CpCleaning>>
    BY CpRests DEF CP!PingReleased, CP!userVars
  <2> USE <2>1
  <2>2. CpBagTypes' /\ CpUserTypes'
    BY DEF CpBagTypes, CpUserTypes, CpNumberTypes, CpPlaces, CP!PingReleased, CP!userVars,
         CP!maintainVars, CP!bounds, CP!MaintainNext
  <2>3. CpCounted'
    BY DEF CpNumberTypes, CpCounted, CpMaintained, CpPinged, CpBit, CP!PingReleased,
         CP!userVars, CP!maintainVars, CP!bounds, CP!MaintainNext
  <2>4. CpMade'
    BY DEF CpNumberTypes, CpMade, CpMaintained, CpBit, CP!PingReleased, CP!userVars,
         CP!maintainVars, CP!bounds, CP!MaintainNext
  <2>5. CpNumberTypes'
    BY DEF CpNumberTypes, CpCounted, CpMade, CpMaintained, CpPinged, CpLoops, CpBit,
         CP!kIdleDropLimit, CP!PingReleased, CP!userVars, CP!maintainVars, CP!bounds,
         CP!MaintainNext
  <2>6. CpLoops'
    BY DEF CpNumberTypes, CpLoops, CP!PingReleased, CP!userVars, CP!maintainVars, CP!bounds,
         CP!MaintainNext
  <2>7. CpGone'
    BY DEF CpNumberTypes, CpUserTypes, CpGone, CP!NoBag, CP!PingReleased, CP!userVars,
         CP!maintainVars, CP!bounds, CP!MaintainNext
  <2> QED BY <2>2, <2>3, <2>4, <2>5, <2>6, <2>7 DEF CpInv
<1>7. CASE CP!CheckMinPoolSizeUnderflow
  <2> USE <1>7
  <2>1. CASE cpSize >= MinSize /\ UNCHANGED <<cpSize, cpPending, cpConnecting, cpConnects>>
    <3> USE <2>1
    <3>1. UNCHANGED <<cpUpc, cpPending, cpConnecting, cpQueue, cpCleanup, CpHolders,
         CpUsers, CpWaiters, CpPending, CpConnecting, CpQueued, CpCleaning>>
      BY CpRests DEF CP!CheckMinPoolSizeUnderflow, CP!userVars
    <3> USE <3>1
    <3>2. CpBagTypes' /\ CpUserTypes'
      BY DEF CpBagTypes, CpUserTypes, CpNumberTypes, CpPlaces, CP!CheckMinPoolSizeUnderflow,
           CP!userVars, CP!maintainVars, CP!bounds
    <3>3. CpCounted'
      BY DEF CpNumberTypes, CpCounted, CpMaintained, CpPinged, CpBit,
           CP!CheckMinPoolSizeUnderflow, CP!userVars, CP!maintainVars, CP!bounds
    <3>4. CpMade'
      BY DEF CpNumberTypes, CpMade, CpMaintained, CpBit, CP!CheckMinPoolSizeUnderflow,
           CP!userVars, CP!maintainVars, CP!bounds
    <3>5. CpNumberTypes'
      BY DEF CpNumberTypes, CpCounted, CpMade, CpMaintained, CpPinged, CpLoops, CpBit,
           CP!kIdleDropLimit, CP!CheckMinPoolSizeUnderflow, CP!userVars, CP!maintainVars,
           CP!bounds
    <3>6. CpLoops'
      BY DEF CpNumberTypes, CpLoops, CP!CheckMinPoolSizeUnderflow, CP!userVars,
           CP!maintainVars, CP!bounds
    <3>7. CpGone'
      BY DEF CpNumberTypes, CpUserTypes, CpGone, CP!NoBag, CP!CheckMinPoolSizeUnderflow,
           CP!userVars, CP!maintainVars, CP!bounds
    <3> QED BY <3>2, <3>3, <3>4, <3>5, <3>6, <3>7 DEF CpInv
  <2>2. CASE cpSize < MinSize /\ CP!TryCreateConnectionAsync
    <3> USE <2>2
    <3>1. CpCreated
      BY CpCreates DEF CP!CheckMinPoolSizeUnderflow
    <3> USE <3>1
    <3>2. CpMaintained = 0 /\ CpPinged = 0 /\ CpMaintained' = 0 /\ CpPinged' = 0 /\ cpUsed'
         = cpUsed /\ cpClosing' = cpClosing /\ cpCleaned' = cpCleaned /\ cpWaiting' =
         cpWaiting
      BY DEF CpMaintained, CpPinged, CP!CheckMinPoolSizeUnderflow, CP!userVars,
           CP!maintainVars
    <3> USE <3>2
    <3>3. UNCHANGED <<cpUpc, cpQueue, cpCleanup, CpHolders, CpUsers, CpWaiters, CpQueued,
         CpCleaning>>
      BY CpRests DEF CP!CheckMinPoolSizeUnderflow, CP!userVars
    <3> USE <3>3
    <3>4. CpBagTypes' /\ CpUserTypes'
      BY DEF CpCreated, CpBagTypes, CpUserTypes, CpNumberTypes, CpPlaces,
           CP!CheckMinPoolSizeUnderflow, CP!userVars, CP!maintainVars, CP!bounds
    <3>5. CpCounted'
      <4>1. cpUsed' = CpUsers' + CpCleaning' + cpCleaned' + CpPinged' /\ cpWaiting' = CpWaiters'
        BY DEF CpCounted
      <4>2. /\ cpSize = CpConnecting + CpQueued + CpCleaning + cpClosing + CpHolders
            /\ cpSize \in Int /\ cpClosing \in Int
        BY DEF CpCounted, CpNumberTypes
      <4>3. cpSize' = CpConnecting' + CpQueued + CpCleaning + cpClosing + CpHolders
        <5>1. CASE cpSize' = cpSize /\ CpConnecting' = CpConnecting
          BY <4>2, <5>1
        <5>2. CASE cpSize' = cpSize + 1 /\ CpConnecting' = CpConnecting + 1
          BY <4>2, <5>2
        <5> QED BY <5>1, <5>2 DEF CpCreated
      <4>4. CpConnecting' \in Int
        BY DEF CpCreated
      <4>5. cpSize' = CpConnecting' + CpQueued' + CpCleaning' + cpClosing' + CpHolders' +
           CpMaintained'
        BY <4>2, <4>3, <4>4
      <4> QED BY <4>1, <4>5 DEF CpCounted
    <3>6. CpMade'
      BY DEF CpCreated, CpNumberTypes, CpMade, CpMaintained, CpBit,
           CP!CheckMinPoolSizeUnderflow, CP!userVars, CP!maintainVars, CP!bounds
    <3>7. CpNumberTypes'
      BY DEF CpCreated, CpNumberTypes, CpCounted, CpMade, CpMaintained, CpPinged, CpLoops,
           CpBit, CP!kIdleDropLimit, CP!CheckMinPoolSizeUnderflow, CP!userVars,
           CP!maintainVars, CP!bounds
    <3>8. CpLoops'
      BY DEF CpNumberTypes, CpLoops, CP!CheckMinPoolSizeUnderflow, CP!userVars,
           CP!maintainVars, CP!bounds
    <3>9. CpGone'
      BY DEF CpCreated, CpNumberTypes, CpUserTypes, CpGone, CP!NoBag,
           CP!CheckMinPoolSizeUnderflow, CP!userVars, CP!maintainVars, CP!bounds
    <3> QED BY <3>4, <3>5, <3>6, <3>7, <3>8, <3>9 DEF CpInv
  <2> QED BY <2>1, <2>2 DEF CP!CheckMinPoolSizeUnderflow
<1> QED BY <1>1, <1>2, <1>3, <1>4, <1>5, <1>6, <1>7

\* AcquireImmediate(), and the destructor's loop that closes what is idle.
LEMMA CpAcquireSteps ==
  ASSUME CpInv, NEW v \in CP!Versions,
         CP!AcquireImmediate(v) \/ CP!Drain(v)
  PROVE  CpInv'
<1>0. CpBagTypes /\ CpUserTypes /\ CpNumberTypes /\ CpCounted /\ CpMade /\ CpLoops /\ CpGone
  BY DEF CpInv
<1> USE <1>0, CpConstants, CpNumbers
<1>1. CASE CP!AcquireImmediate(v)
  <2> USE <1>1
  <2>1. cpQueue[v] > 0 /\ cpQueue' = CP!Take(cpQueue, v)
    BY DEF CP!AcquireImmediate
  <2>2. cpQueue' \in CpBags /\ CpQueued' = CpQueued - 1 /\ CpQueued >= 1
    BY <2>1, CpBagMoves, Zenon
  <2> USE <2>2
  <2>3. UNCHANGED <<cpUpc, cpPending, cpConnecting, cpCleanup, CpHolders, CpUsers, CpWaiters,
       CpPending, CpConnecting, CpCleaning>>
    BY CpRests DEF CP!AcquireImmediate, CP!userVars
  <2> USE <2>3
  <2>4. CpBagTypes' /\ CpUserTypes'
    BY DEF CpBagTypes, CpUserTypes, CpNumberTypes, CpPlaces, CP!AcquireImmediate, CP!userVars,
         CP!maintainVars, CP!bounds
  <2>5. CpCounted'
    BY DEF CpNumberTypes, CpCounted, CpMaintained, CpPinged, CpBit, CP!AcquireImmediate,
         CP!userVars, CP!maintainVars, CP!bounds
  <2>6. CpMade'
    BY DEF CpNumberTypes, CpMade, CpMaintained, CpBit, CP!AcquireImmediate, CP!userVars,
         CP!maintainVars, CP!bounds
  <2>7. CpNumberTypes'
    BY DEF CpNumberTypes, CpCounted, CpMade, CpMaintained, CpPinged, CpLoops, CpBit,
         CP!kIdleDropLimit, CP!AcquireImmediate, CP!userVars, CP!maintainVars, CP!bounds
  <2>8. CpLoops'
    BY DEF CpNumberTypes, CpLoops, CP!AcquireImmediate, CP!userVars, CP!maintainVars, CP!bounds
  <2>9. CpGone'
    BY DEF CpNumberTypes, CpUserTypes, CpGone, CP!NoBag, CP!AcquireImmediate, CP!userVars,
         CP!maintainVars, CP!bounds
  <2> QED BY <2>4, <2>5, <2>6, <2>7, <2>8, <2>9 DEF CpInv
<1>2. CASE CP!Drain(v)
  <2> USE <1>2
  <2>1. cpQueue[v] > 0 /\ cpQueue' = CP!Take(cpQueue, v)
    BY DEF CP!Drain
  <2>2. cpQueue' \in CpBags /\ CpQueued' = CpQueued - 1 /\ CpQueued >= 1
    BY <2>1, CpBagMoves, Zenon
  <2> USE <2>2
  <2>3. UNCHANGED <<cpUpc, cpPending, cpConnecting, cpCleanup, CpHolders, CpUsers, CpWaiters,
       CpPending, CpConnecting, CpCleaning>>
    BY CpRests DEF CP!Drain, CP!userVars
  <2> USE <2>3
  <2>4. CpBagTypes' /\ CpUserTypes'
    BY DEF CpBagTypes, CpUserTypes, CpNumberTypes, CpPlaces, CP!Drain, CP!userVars,
         CP!maintainVars, CP!bounds
  <2>5. CpCounted'
    BY DEF CpNumberTypes, CpCounted, CpMaintained, CpPinged, CpBit, CP!Drain, CP!userVars,
         CP!maintainVars, CP!bounds
  <2>6. CpMade'
    BY DEF CpNumberTypes, CpMade, CpMaintained, CpBit, CP!Drain, CP!userVars, CP!maintainVars,
         CP!bounds
  <2>7. CpNumberTypes'
    BY DEF CpNumberTypes, CpCounted, CpMade, CpMaintained, CpPinged, CpLoops, CpBit,
         CP!kIdleDropLimit, CP!Drain, CP!userVars, CP!maintainVars, CP!bounds
  <2>8. CpLoops'
    BY DEF CpNumberTypes, CpLoops, CP!Drain, CP!userVars, CP!maintainVars, CP!bounds
  <2>9. CpGone'
    BY DEF CpNumberTypes, CpUserTypes, CpGone, CP!NoBag, CP!Drain, CP!userVars,
         CP!maintainVars, CP!bounds
  <2> QED BY <2>4, <2>5, <2>6, <2>7, <2>8, <2>9 DEF CpInv
<1> QED BY <1>1, <1>2

\* The owner, from WarmUp() to the destructor, and the ends of tasks.
LEMMA CpOwnerSteps ==
  ASSUME CpInv,
         CP!WarmUp \/ CP!CleanupEnds \/ CP!CloseDone \/ CP!SetConnectionSettings \/
              CP!StopMaintainTask \/ CP!StopConnectTasks \/ CP!WaitConnectTasks \/
              CP!Clear \/ CP!Drained \/ CP!Destroyed
  PROVE  CpInv'
<1>0. CpBagTypes /\ CpUserTypes /\ CpNumberTypes /\ CpCounted /\ CpMade /\ CpLoops /\ CpGone
  BY DEF CpInv
<1> USE <1>0, CpConstants, CpNumbers
<1>1. CASE CP!WarmUp
  <2> USE <1>1
  <2>1. cpConnecting = CP!NoBag /\ cpVersion \in CP!Versions /\ MinSize \in 0 .. MaxConnects
    BY DEF CpGone, CpNumberTypes, CP!WarmUp
  <2>2. cpConnecting' = [CP!NoBag EXCEPT ![cpVersion] = MinSize]
    BY <2>1 DEF CP!WarmUp
  <2>3. cpConnecting' \in CpBags /\ CP!Total(cpConnecting') = MinSize /\ CP!Total(cpConnecting) = 0
    BY <2>1, <2>2, CpSingle, CpTotal
  <2>4. cpConnecting' \in CpBags /\ CpConnecting' = MinSize /\ CpConnecting = 0
    BY <2>3 DEF CpConnecting
  <2> USE <2>4
  <2>5. CpQueued = 0 /\ CpCleaning = 0 /\ cpClosing = 0 /\ CpHolders = 0 /\ CpMaintained = 0
       /\ CpPending = 0
    BY CpTotal DEF CpGone, CpNumberTypes, CpCounted,
         CpMaintained, CpPending, CP!WarmUp
  <2> USE <2>5
  <2>6. UNCHANGED <<cpUpc, cpPending, cpQueue, cpCleanup, CpHolders, CpUsers, CpWaiters,
       CpPending, CpQueued, CpCleaning>>
    BY CpRests DEF CP!WarmUp, CP!userVars
  <2> USE <2>6
  <2>7. CpBagTypes' /\ CpUserTypes'
    BY DEF CpBagTypes, CpUserTypes, CpNumberTypes, CpPlaces, CP!WarmUp, CP!userVars,
         CP!maintainVars, CP!bounds
  <2>8. CpCounted'
    BY DEF CpNumberTypes, CpCounted, CpMaintained, CpPinged, CpBit, CP!WarmUp, CP!userVars,
         CP!maintainVars, CP!bounds
  <2>9. CpMade'
    BY DEF CpNumberTypes, CpMade, CpMaintained, CpBit, CP!WarmUp, CP!userVars, CP!maintainVars,
         CP!bounds
  <2>10. CpNumberTypes'
    BY DEF CpNumberTypes, CpCounted, CpMade, CpMaintained, CpPinged, CpLoops, CpBit,
         CP!kIdleDropLimit, CP!WarmUp, CP!userVars, CP!maintainVars, CP!bounds
  <2>11. CpLoops'
    BY DEF CpNumberTypes, CpLoops, CP!WarmUp, CP!userVars, CP!maintainVars, CP!bounds
  <2>12. CpGone'
    BY DEF CpNumberTypes, CpUserTypes, CpGone, CP!NoBag, CP!WarmUp, CP!userVars,
         CP!maintainVars, CP!bounds
  <2> QED BY <2>7, <2>8, <2>9, <2>10, <2>11, <2>12 DEF CpInv
<1>2. CASE CP!CleanupEnds
  <2> USE <1>2
  <2>1. UNCHANGED <<cpUpc, cpPending, cpConnecting, cpQueue, cpCleanup, CpHolders, CpUsers,
       CpWaiters, CpPending, CpConnecting, CpQueued, CpCleaning>>
    BY CpRests DEF CP!CleanupEnds, CP!userVars
  <2> USE <2>1
  <2>2. CpBagTypes' /\ CpUserTypes'
    BY DEF CpBagTypes, CpUserTypes, CpNumberTypes, CpPlaces, CP!CleanupEnds, CP!userVars,
         CP!maintainVars, CP!bounds
  <2>3. CpCounted'
    BY DEF CpNumberTypes, CpCounted, CpMaintained, CpPinged, CpBit, CP!CleanupEnds,
         CP!userVars, CP!maintainVars, CP!bounds
  <2>4. CpMade'
    BY DEF CpNumberTypes, CpMade, CpMaintained, CpBit, CP!CleanupEnds, CP!userVars,
         CP!maintainVars, CP!bounds
  <2>5. CpNumberTypes'
    BY DEF CpNumberTypes, CpCounted, CpMade, CpMaintained, CpPinged, CpLoops, CpBit,
         CP!kIdleDropLimit, CP!CleanupEnds, CP!userVars, CP!maintainVars, CP!bounds
  <2>6. CpLoops'
    BY DEF CpNumberTypes, CpLoops, CP!CleanupEnds, CP!userVars, CP!maintainVars, CP!bounds
  <2>7. CpGone'
    BY DEF CpNumberTypes, CpUserTypes, CpGone, CP!NoBag, CP!CleanupEnds, CP!userVars,
         CP!maintainVars, CP!bounds
  <2> QED BY <2>2, <2>3, <2>4, <2>5, <2>6, <2>7 DEF CpInv
<1>3. CASE CP!CloseDone
  <2> USE <1>3
  <2>1. UNCHANGED <<cpUpc, cpPending, cpConnecting, cpQueue, cpCleanup, CpHolders, CpUsers,
       CpWaiters, CpPending, CpConnecting, CpQueued, CpCleaning>>
    BY CpRests DEF CP!CloseDone, CP!userVars
  <2> USE <2>1
  <2>2. CpBagTypes' /\ CpUserTypes'
    BY DEF CpBagTypes, CpUserTypes, CpNumberTypes, CpPlaces, CP!CloseDone, CP!userVars,
         CP!maintainVars, CP!bounds
  <2>3. CpCounted'
    BY DEF CpNumberTypes, CpCounted, CpMaintained, CpPinged, CpBit, CP!CloseDone, CP!userVars,
         CP!maintainVars, CP!bounds
  <2>4. CpMade'
    BY DEF CpNumberTypes, CpMade, CpMaintained, CpBit, CP!CloseDone, CP!userVars,
         CP!maintainVars, CP!bounds
  <2>5. CpNumberTypes'
    BY DEF CpNumberTypes, CpCounted, CpMade, CpMaintained, CpPinged, CpLoops, CpBit,
         CP!kIdleDropLimit, CP!CloseDone, CP!userVars, CP!maintainVars, CP!bounds
  <2>6. CpLoops'
    BY DEF CpNumberTypes, CpLoops, CP!CloseDone, CP!userVars, CP!maintainVars, CP!bounds
  <2>7. CpGone'
    BY DEF CpNumberTypes, CpUserTypes, CpGone, CP!NoBag, CP!CloseDone, CP!userVars,
         CP!maintainVars, CP!bounds
  <2> QED BY <2>2, <2>3, <2>4, <2>5, <2>6, <2>7 DEF CpInv
<1>4. CASE CP!SetConnectionSettings
  <2> USE <1>4
  <2>1. UNCHANGED <<cpUpc, cpPending, cpConnecting, cpQueue, cpCleanup, CpHolders, CpUsers,
       CpWaiters, CpPending, CpConnecting, CpQueued, CpCleaning>>
    BY CpRests DEF CP!SetConnectionSettings, CP!userVars
  <2> USE <2>1
  <2>2. CpBagTypes' /\ CpUserTypes'
    BY DEF CpBagTypes, CpUserTypes, CpNumberTypes, CpPlaces, CP!SetConnectionSettings,
         CP!userVars, CP!maintainVars, CP!bounds
  <2>3. CpCounted'
    BY DEF CpNumberTypes, CpCounted, CpMaintained, CpPinged, CpBit, CP!SetConnectionSettings,
         CP!userVars, CP!maintainVars, CP!bounds
  <2>4. CpMade'
    BY DEF CpNumberTypes, CpMade, CpMaintained, CpBit, CP!SetConnectionSettings, CP!userVars,
         CP!maintainVars, CP!bounds
  <2>5. CpNumberTypes'
    BY DEF CpNumberTypes, CpCounted, CpMade, CpMaintained, CpPinged, CpLoops, CpBit,
         CP!kIdleDropLimit, CP!SetConnectionSettings, CP!userVars, CP!maintainVars,
         CP!bounds
  <2>6. CpLoops'
    BY DEF CpNumberTypes, CpLoops, CP!SetConnectionSettings, CP!userVars, CP!maintainVars, CP!bounds
  <2>7. CpGone'
    BY DEF CpNumberTypes, CpUserTypes, CpGone, CP!NoBag, CP!SetConnectionSettings, CP!userVars,
         CP!maintainVars, CP!bounds
  <2> QED BY <2>2, <2>3, <2>4, <2>5, <2>6, <2>7 DEF CpInv
<1>5. CASE CP!StopMaintainTask
  <2> USE <1>5
  <2>1. UNCHANGED <<cpUpc, cpPending, cpConnecting, cpQueue, cpCleanup, CpHolders, CpUsers,
       CpWaiters, CpPending, CpConnecting, CpQueued, CpCleaning>>
    BY CpRests DEF CP!StopMaintainTask, CP!userVars
  <2> USE <2>1
  <2>2. CpBagTypes' /\ CpUserTypes'
    BY DEF CpBagTypes, CpUserTypes, CpNumberTypes, CpPlaces, CP!StopMaintainTask, CP!userVars,
         CP!maintainVars, CP!bounds
  <2>3. CpCounted'
    BY DEF CpNumberTypes, CpCounted, CpMaintained, CpPinged, CpBit, CP!StopMaintainTask,
         CP!userVars, CP!maintainVars, CP!bounds
  <2>4. CpMade'
    BY DEF CpNumberTypes, CpMade, CpMaintained, CpBit, CP!StopMaintainTask, CP!userVars,
         CP!maintainVars, CP!bounds
  <2>5. CpNumberTypes'
    BY DEF CpNumberTypes, CpCounted, CpMade, CpMaintained, CpPinged, CpLoops, CpBit,
         CP!kIdleDropLimit, CP!StopMaintainTask, CP!userVars, CP!maintainVars, CP!bounds
  <2>6. CpLoops'
    BY DEF CpNumberTypes, CpLoops, CP!StopMaintainTask, CP!userVars, CP!maintainVars, CP!bounds
  <2>7. CpGone'
    BY DEF CpNumberTypes, CpUserTypes, CpGone, CP!NoBag, CP!StopMaintainTask, CP!userVars,
         CP!maintainVars, CP!bounds
  <2> QED BY <2>2, <2>3, <2>4, <2>5, <2>6, <2>7 DEF CpInv
<1>6. CASE CP!StopConnectTasks
  <2> USE <1>6
  <2>1. UNCHANGED <<cpUpc, cpPending, cpConnecting, cpQueue, cpCleanup, CpHolders, CpUsers,
       CpWaiters, CpPending, CpConnecting, CpQueued, CpCleaning>>
    BY CpRests DEF CP!StopConnectTasks, CP!userVars
  <2> USE <2>1
  <2>2. CpBagTypes' /\ CpUserTypes'
    BY DEF CpBagTypes, CpUserTypes, CpNumberTypes, CpPlaces, CP!StopConnectTasks, CP!userVars,
         CP!maintainVars, CP!bounds
  <2>3. CpCounted'
    BY DEF CpNumberTypes, CpCounted, CpMaintained, CpPinged, CpBit, CP!StopConnectTasks,
         CP!userVars, CP!maintainVars, CP!bounds
  <2>4. CpMade'
    BY DEF CpNumberTypes, CpMade, CpMaintained, CpBit, CP!StopConnectTasks, CP!userVars,
         CP!maintainVars, CP!bounds
  <2>5. CpNumberTypes'
    BY DEF CpNumberTypes, CpCounted, CpMade, CpMaintained, CpPinged, CpLoops, CpBit,
         CP!kIdleDropLimit, CP!StopConnectTasks, CP!userVars, CP!maintainVars, CP!bounds
  <2>6. CpLoops'
    BY DEF CpNumberTypes, CpLoops, CP!StopConnectTasks, CP!userVars, CP!maintainVars, CP!bounds
  <2>7. CpGone'
    BY DEF CpNumberTypes, CpUserTypes, CpGone, CP!NoBag, CP!StopConnectTasks, CP!userVars,
         CP!maintainVars, CP!bounds
  <2> QED BY <2>2, <2>3, <2>4, <2>5, <2>6, <2>7 DEF CpInv
<1>7. CASE CP!WaitConnectTasks
  <2> USE <1>7
  <2>1. UNCHANGED <<cpUpc, cpPending, cpConnecting, cpQueue, cpCleanup, CpHolders, CpUsers,
       CpWaiters, CpPending, CpConnecting, CpQueued, CpCleaning>>
    BY CpRests DEF CP!WaitConnectTasks, CP!userVars
  <2> USE <2>1
  <2>2. CpBagTypes' /\ CpUserTypes'
    BY DEF CpBagTypes, CpUserTypes, CpNumberTypes, CpPlaces, CP!WaitConnectTasks, CP!userVars,
         CP!maintainVars, CP!bounds
  <2>3. CpCounted'
    BY DEF CpNumberTypes, CpCounted, CpMaintained, CpPinged, CpBit, CP!WaitConnectTasks,
         CP!userVars, CP!maintainVars, CP!bounds
  <2>4. CpMade'
    BY DEF CpNumberTypes, CpMade, CpMaintained, CpBit, CP!WaitConnectTasks, CP!userVars,
         CP!maintainVars, CP!bounds
  <2>5. CpNumberTypes'
    BY DEF CpNumberTypes, CpCounted, CpMade, CpMaintained, CpPinged, CpLoops, CpBit,
         CP!kIdleDropLimit, CP!WaitConnectTasks, CP!userVars, CP!maintainVars, CP!bounds
  <2>6. CpLoops'
    BY DEF CpNumberTypes, CpLoops, CP!WaitConnectTasks, CP!userVars, CP!maintainVars, CP!bounds
  <2>7. CpGone'
    BY DEF CpNumberTypes, CpUserTypes, CpGone, CP!NoBag, CP!WaitConnectTasks, CP!userVars,
         CP!maintainVars, CP!bounds
  <2> QED BY <2>2, <2>3, <2>4, <2>5, <2>6, <2>7 DEF CpInv
<1>8. CASE CP!Clear
  <2> USE <1>8
  <2>1. UNCHANGED <<cpUpc, cpPending, cpConnecting, cpQueue, cpCleanup, CpHolders, CpUsers,
       CpWaiters, CpPending, CpConnecting, CpQueued, CpCleaning>>
    BY CpRests DEF CP!Clear, CP!userVars
  <2> USE <2>1
  <2>2. CpBagTypes' /\ CpUserTypes'
    BY DEF CpBagTypes, CpUserTypes, CpNumberTypes, CpPlaces, CP!Clear, CP!userVars,
         CP!maintainVars, CP!bounds
  <2>3. CpCounted'
    BY DEF CpNumberTypes, CpCounted, CpMaintained, CpPinged, CpBit, CP!Clear, CP!userVars,
         CP!maintainVars, CP!bounds
  <2>4. CpMade'
    BY DEF CpNumberTypes, CpMade, CpMaintained, CpBit, CP!Clear, CP!userVars, CP!maintainVars,
         CP!bounds
  <2>5. CpNumberTypes'
    BY DEF CpNumberTypes, CpCounted, CpMade, CpMaintained, CpPinged, CpLoops, CpBit,
         CP!kIdleDropLimit, CP!Clear, CP!userVars, CP!maintainVars, CP!bounds
  <2>6. CpLoops'
    BY DEF CpNumberTypes, CpLoops, CP!Clear, CP!userVars, CP!maintainVars, CP!bounds
  <2>7. CpGone'
    BY DEF CpNumberTypes, CpUserTypes, CpGone, CP!NoBag, CP!Clear, CP!userVars,
         CP!maintainVars, CP!bounds
  <2> QED BY <2>2, <2>3, <2>4, <2>5, <2>6, <2>7 DEF CpInv
<1>9. CASE CP!Drained
  <2> USE <1>9
  <2>1. UNCHANGED <<cpUpc, cpPending, cpConnecting, cpQueue, cpCleanup, CpHolders, CpUsers,
       CpWaiters, CpPending, CpConnecting, CpQueued, CpCleaning>>
    BY CpRests DEF CP!Drained, CP!userVars
  <2> USE <2>1
  <2>2. CpBagTypes' /\ CpUserTypes'
    BY DEF CpBagTypes, CpUserTypes, CpNumberTypes, CpPlaces, CP!Drained, CP!userVars,
         CP!maintainVars, CP!bounds
  <2>3. CpCounted'
    BY DEF CpNumberTypes, CpCounted, CpMaintained, CpPinged, CpBit, CP!Drained, CP!userVars,
         CP!maintainVars, CP!bounds
  <2>4. CpMade'
    BY DEF CpNumberTypes, CpMade, CpMaintained, CpBit, CP!Drained, CP!userVars,
         CP!maintainVars, CP!bounds
  <2>5. CpNumberTypes'
    BY DEF CpNumberTypes, CpCounted, CpMade, CpMaintained, CpPinged, CpLoops, CpBit,
         CP!kIdleDropLimit, CP!Drained, CP!userVars, CP!maintainVars, CP!bounds
  <2>6. CpLoops'
    BY DEF CpNumberTypes, CpLoops, CP!Drained, CP!userVars, CP!maintainVars, CP!bounds
  <2>7. CpGone'
    BY DEF CpNumberTypes, CpUserTypes, CpGone, CP!NoBag, CP!Drained, CP!userVars,
         CP!maintainVars, CP!bounds
  <2> QED BY <2>2, <2>3, <2>4, <2>5, <2>6, <2>7 DEF CpInv
<1>10. CASE CP!Destroyed
  <2> USE <1>10
  <2>1. UNCHANGED <<cpUpc, cpPending, cpConnecting, cpQueue, cpCleanup, CpHolders, CpUsers,
       CpWaiters, CpPending, CpConnecting, CpQueued, CpCleaning>>
    BY CpRests DEF CP!Destroyed, CP!userVars
  <2> USE <2>1
  <2>2. CpBagTypes' /\ CpUserTypes'
    BY DEF CpBagTypes, CpUserTypes, CpNumberTypes, CpPlaces, CP!Destroyed, CP!userVars,
         CP!maintainVars, CP!bounds
  <2>3. CpCounted'
    BY DEF CpNumberTypes, CpCounted, CpMaintained, CpPinged, CpBit, CP!Destroyed, CP!userVars,
         CP!maintainVars, CP!bounds
  <2>4. CpMade'
    BY DEF CpNumberTypes, CpMade, CpMaintained, CpBit, CP!Destroyed, CP!userVars,
         CP!maintainVars, CP!bounds
  <2>5. CpNumberTypes'
    BY DEF CpNumberTypes, CpCounted, CpMade, CpMaintained, CpPinged, CpLoops, CpBit,
         CP!kIdleDropLimit, CP!Destroyed, CP!userVars, CP!maintainVars, CP!bounds
  <2>6. CpLoops'
    BY DEF CpNumberTypes, CpLoops, CP!Destroyed, CP!userVars, CP!maintainVars, CP!bounds
  <2>7. CpGone'
    BY DEF CpNumberTypes, CpUserTypes, CpGone, CP!NoBag, CP!Destroyed, CP!userVars,
         CP!maintainVars, CP!bounds
  <2> QED BY <2>2, <2>3, <2>4, <2>5, <2>6, <2>7 DEF CpInv
<1> QED BY <1>1, <1>2, <1>3, <1>4, <1>5, <1>6, <1>7, <1>8, <1>9, <1>10

\* The pool starts empty.
LEMMA CpStarts == CP!Init => CpInv
<1> SUFFICES ASSUME CP!Init PROVE CpInv
  OBVIOUS
<1>1. /\ cpPending = CP!NoBag /\ cpConnecting = CP!NoBag /\ cpQueue = CP!NoBag /\ cpCleanup = CP!NoBag
      /\ \A u \in Clients : cpUpc[u] = "idle"
  BY DEF CP!Init
<1> USE <1>1
<1>2. ASSUME NEW Q, "idle" \notin Q PROVE CpAt(cpUpc, Q) = 0
  <2>1. {u \in Clients : cpUpc[u] \in Q} = {}
    BY <1>2
  <2> QED BY <2>1, FS_EmptySet DEF CpAt
<1>3. CpHolders = 0 /\ CpUsers = 0 /\ CpWaiters = 0
  BY <1>2 DEF CpHolders, CpUsers, CpWaiters
<1>4. CpPending = 0 /\ CpConnecting = 0 /\ CpQueued = 0 /\ CpCleaning = 0
  BY CpTotal DEF CpPending, CpConnecting, CpQueued, CpCleaning
<1>5. CpBagTypes /\ CpUserTypes
  BY CpTotal, CpConstants DEF CP!Init, CpBagTypes, CpUserTypes, CpPlaces
<1>6. CpNumberTypes
  BY CpConstants DEF CP!Init, CpNumberTypes
<1>7. CpCounted /\ CpMade /\ CpLoops
  BY <1>3, <1>4 DEF CP!Init, CpCounted, CpMade, CpLoops, CpMaintained, CpPinged
<1>8. CpGone
  BY DEF CP!Init, CpGone
<1> QED BY <1>5, <1>6, <1>7, <1>8 DEF CpInv

\* Every step keeps the invariant: those of the other subjects leave the pool alone.
LEMMA CpKeeps == CpInv /\ [AllNext]_allVars => CpInv'
<1> SUFFICES ASSUME CpInv, [AllNext]_allVars PROVE CpInv'
  OBVIOUS
<1>1. CASE CP!Next
  BY <1>1, CpTaskSteps, CpUserSteps, CpPopSteps, CpMaintainSteps, CpAcquireSteps, CpOwnerSteps
  DEF CP!Next, CP!UserStep, CP!TaskStep, CP!MaintainStep, CP!DestructorStep
<1>2. CASE UNCHANGED cpVars
  <2>1. UNCHANGED <<cpVersion, cpSize, cpUsed, cpWaiting, cpPending, cpConnecting, cpQueue,
                    cpCleanup, cpCleaned, cpClosing, cpUpc, cpSeen, cpOwn, cpMpc, cpCount,
                    cpDropLeft, cpMown, cpDpc, cpConnects, cpMaintains>>
    BY <1>2 DEF cpVars
  <2>2. CpBagTypes' /\ CpUserTypes' /\ CpNumberTypes'
    BY <2>1 DEF CpInv, CpBagTypes, CpUserTypes, CpNumberTypes
  <2>3. CpCounted' /\ CpMade'
    BY <2>1, CpRests DEF CpInv, CpCounted, CpMade
  <2>4. CpLoops' /\ CpGone'
    BY <2>1 DEF CpInv, CpLoops, CpGone
  <2> QED BY <2>2, <2>3, <2>4 DEF CpInv
<1>3. CP!Next \/ UNCHANGED cpVars
  BY DEF AllNext, OthersRest, Requests, AsyncLoggers, Channels, Dumpers, allVars
<1> QED BY <1>1, <1>2, <1>3

\* What the invariant says of the pool.
LEMMA CpSafe == CpInv => ConnectionPoolSafe
<1> SUFFICES ASSUME CpInv PROVE ConnectionPoolSafe
  OBVIOUS
<1>0. CpBagTypes /\ CpUserTypes /\ CpNumberTypes /\ CpCounted /\ CpMade /\ CpLoops /\ CpGone
  BY DEF CpInv
<1> USE <1>0
<1>1. \A S : CP!Cardinality(S) = Cardinality(S)
  BY DEF CP!Cardinality, Cardinality
<1>2. \A Q : CP!With(Q) = CpAt(cpUpc, Q)
  BY <1>1 DEF CP!With, CpAt
<1>3. CP!TypeOK
  <2>1. cpWaiting \in 0 .. Cardinality(Clients)
    BY CpNumbers, CpConstants, FS_CardinalityType DEF CpCounted
  <2>2. {cpPending, cpConnecting, cpQueue, cpCleanup} \subseteq [CP!Versions -> 0 .. MaxConnects]
    BY DEF CpBagTypes, CpBags
  <2>3. /\ cpUpc \in [Clients -> CpPlaces]
        /\ {cpSeen, cpOwn} \subseteq [Clients -> CP!Versions] /\ {cpCleaned, cpClosing} \subseteq Nat
    BY DEF CpUserTypes, CpNumberTypes
  <2> QED
    BY <1>1, <2>1, <2>2, <2>3
    DEF CP!TypeOK, CpNumberTypes, CpPlaces, CP!kIdleDropLimit
<1>4. CP!PermitsAccounted
  BY <1>2
  DEF CP!PermitsAccounted, CpCounted, CpConnecting, CpQueued, CpCleaning, CpHolders, CpMaintained
<1>5. CP!UsedExact
  BY <1>2 DEF CP!UsedExact, CpCounted, CpCleaning, CpUsers, CpWaiters, CpPinged
<1>6. CP!NothingLeftBehind
  <2> SUFFICES ASSUME cpDpc = "dead"
               PROVE  cpSize = 0 /\ cpUsed = 0 /\ cpCleaned = 0
                      /\ {cpPending, cpConnecting, cpQueue, cpCleanup} = {CP!NoBag}
    BY DEF CP!NothingLeftBehind
  <2>1. /\ cpPending = CP!NoBag /\ cpConnecting = CP!NoBag /\ cpQueue = CP!NoBag /\ cpCleanup = CP!NoBag
        /\ cpCleaned = 0 /\ cpClosing = 0 /\ cpMpc = "idle" /\ \A u \in Clients : cpUpc[u] = "idle"
    BY DEF CpGone
  <2> USE <2>1
  <2>2. CpConnecting = 0 /\ CpQueued = 0 /\ CpCleaning = 0
    BY CpTotal DEF CpConnecting, CpQueued, CpCleaning
  <2>3. CpHolders = 0 /\ CpUsers = 0
    <3>1. /\ {u \in Clients : cpUpc[u] \in {"got", "using"}} = {}
          /\ {u \in Clients : cpUpc[u] \in {"using", "released"}} = {}
      OBVIOUS
    <3> QED BY <3>1, FS_EmptySet DEF CpHolders, CpUsers, CpAt
  <2>4. cpSize = 0 /\ cpUsed = 0
    BY <2>2, <2>3 DEF CpCounted, CpMaintained, CpPinged
  <2> QED BY <2>4
<1> QED BY <1>3, <1>4, <1>5, <1>6 DEF ConnectionPoolSafe

\* No permit of the size semaphore is lost or given twice, whichever way a connection of
\* the pool ends, its statistics are exact, and its destructor leaves nothing behind, for
\* every number of users and every size of the pool.
THEOREM PoolIsSafe == AllSpec => []ConnectionPoolSafe
<1>1. AllInit => CpInv
  BY CpStarts DEF AllInit
<1> QED BY <1>1, CpKeeps, CpSafe, PTL DEF AllSpec

----------------------------------------------------------------------------
(* CacheUpdates *)

CuPcs == {"off", "wait", "idle", "first", "lock", "fetch", "set", "exchange", "invalidate", "task", "up", "stop",
          "join", "down", "cas"}
CuTypes ==
  /\ cuConf \in Configs /\ cuDump \in BOOLEAN /\ cuUpdated \in BOOLEAN
  /\ cuSource \in CU!Versions /\ cuCache \in CU!Versions /\ cuNeed \in CU!Versions
  /\ cuFirst \in {"No", "Yes", "Finished"} /\ cuDumpFirst \in {None, "full", "incremental"}
  /\ cuFailures \in Nat /\ cuRet \in {"exchange", "task"} /\ cuChanges \in 1 .. MaxChanges
CuFlags ==
  /\ cuNull \in BOOLEAN /\ cuRunning \in BOOLEAN /\ cuForceFull \in BOOLEAN /\ cuAttempted \in BOOLEAN
  /\ cuEnabled \in BOOLEAN /\ cuForced \in BOOLEAN /\ cuSynced \in BOOLEAN
CuPlaces ==
  /\ cuMutex \in CU!Actors \cup {None} /\ cuPc \in [CU!Actors -> CuPcs]
  /\ cuType \in [CU!Actors -> {None, "full", "incremental"}] /\ cuRead \in [CU!Actors -> CU!Versions]

\* The lock of updates is held exactly while an update runs.
CuUpdating == {"fetch", "set"}
CuLocked == \A a \in CU!Actors : cuPc[a] \in CuUpdating <=> cuMutex = a

\* The cache is behind what an update that holds the lock has read, and that behind the source.
CuNotAfter(v, w) == v.inc <= w.inc /\ v.full <= w.full
CuOrdered ==
  /\ cuSource.inc <= cuChanges /\ cuSource.full <= cuChanges /\ CuNotAfter(cuCache, cuSource)
  /\ \A a \in CU!Actors : cuPc[a] = "set" => CuNotAfter(cuCache, cuRead[a]) /\ CuNotAfter(cuRead[a], cuSource)

\* Until StartPeriodicUpdates() is past the first update nobody else updates the cache, so that
\* this one is the first attempt: it is made though updates are disabled.
CuStarting ==
  \/ cuPc[Owner] \in {"idle", "first", "exchange"}
  \/ cuRet = "exchange" /\ cuPc[Owner] \in CuUpdating \cup {"lock"}
CuAlone ==
  CuStarting =>
    /\ cuFirst # "Finished" /\ cuRet = "exchange"
    /\ \A a \in CU!Actors : a # Owner => cuPc[a] \in {"idle", "cas", "off"}
    /\ cuPc[Owner] \in {"idle", "first", "lock"} => ~cuAttempted

\* The owner does not start twice, nor the task.
CuRuns ==
  /\ cuPc[Owner] \notin {"idle", "stop", "join", "down"} => cuRunning
  /\ cuPc[Owner] \notin {"up", "join"} => cuPc[Task] = "off"
CuOwnerPcs == cuPc[Owner] # "cas" /\ (cuRet = "exchange" => cuPc[Owner] \notin {"invalidate", "task", "up"})

\* What the config requires is there when the first update is over.
CuRequired ==
  ~cuConf.failOk /\ (~cuConf.noFirst \/ ~cuConf.periodic) => cuUpdated /\ (cuConf.mode = "Required" => cuSynced)
CuStarted ==
  /\ cuPc[Owner] # "idle" /\ cuDump => cuUpdated
  /\ cuPc[Owner] \in {"exchange", "invalidate", "task", "up"} => CuRequired
  /\ cuRet = "task" /\ cuPc[Owner] \in CuUpdating \cup {"lock"} => CuRequired

CuInv ==
  /\ CuTypes /\ CuFlags /\ CuPlaces
  /\ CuLocked /\ CuOrdered /\ CuAlone /\ CuRuns /\ CuOwnerPcs /\ CuStarted

\* What the proofs use of the constants.
LEMMA CuConstants ==
  /\ Owner \in CU!Actors /\ Task \in CU!Actors /\ Owner # Task /\ None \notin CU!Actors
  /\ \A u \in Users \cup Debuggers : u \in CU!Actors /\ u # Owner /\ u # Task
  /\ MaxChanges \in Nat \ {0}
  /\ \A c \in Configs : c.failOk \in BOOLEAN /\ c.noFirst \in BOOLEAN /\ c.periodic \in BOOLEAN
<1>1. CU!CacheAssumption
  BY ServicesAssumption
<1>2. /\ Owner # Task /\ {Owner, Task} \cap (Users \cup Debuggers) = {} /\ None \notin CU!Actors
      /\ MaxChanges \in Nat \ {0}
  BY <1>1 DEF CU!CacheAssumption
<1>3. \A c \in Configs : c.failOk \in BOOLEAN /\ c.noFirst \in BOOLEAN /\ c.periodic \in BOOLEAN
  BY <1>1 DEF CU!CacheAssumption
<1> QED BY <1>2, <1>3 DEF CU!Actors

\* An update begins, or is skipped: the first one is not.
LEMMA CuTry ==
  ASSUME CuInv, NEW a \in CU!Actors, CU!DoPeriodicUpdate(a)
  PROVE  CuInv'
<1>0. /\ CuTypes /\ CuFlags /\ CuPlaces /\ CuLocked /\ CuOrdered /\ CuAlone /\ CuRuns /\ CuOwnerPcs /\ CuStarted
  BY DEF CuInv
<1> USE <1>0, CuConstants
<1>1. CuTypes'
  BY DEF CU!DoPeriodicUpdate, CU!stateVars, CU!boundVars, CU!GoTo, CU!Return, CU!CountFailure, CU!NextUpdateType, CU!Full, CU!Incremental, CuTypes, CU!Versions
<1>2. CuFlags'
  BY DEF CU!DoPeriodicUpdate, CU!stateVars, CU!boundVars, CU!GoTo, CU!Return, CU!CountFailure, CU!NextUpdateType, CU!Full, CU!Incremental, CuFlags
<1>3. CuPlaces'
  BY DEF CU!DoPeriodicUpdate, CU!stateVars, CU!boundVars, CU!GoTo, CU!Return, CU!CountFailure, CU!NextUpdateType, CU!Full, CU!Incremental, CuPlaces, CuTypes, CuPcs, CU!Versions, CU!Zero
<1>4. CuLocked'
  BY DEF CU!DoPeriodicUpdate, CU!stateVars, CU!boundVars, CU!GoTo, CU!Return, CU!CountFailure, CuPlaces, CuTypes, CuLocked, CuUpdating
<1>5. CuOrdered'
  BY DEF CU!DoPeriodicUpdate, CU!stateVars, CU!boundVars, CU!GoTo, CU!Return, CU!CountFailure, CU!NextUpdateType, CU!Full, CU!Incremental, CuPlaces, CuTypes, CuLocked, CuUpdating, CuOrdered, CuNotAfter, CU!Versions, CU!Zero
<1>6. CuAlone'
  BY DEF CU!DoPeriodicUpdate, CU!stateVars, CU!boundVars, CU!GoTo, CU!Return, CU!CountFailure, CuPlaces, CuTypes, CuUpdating, CuStarting, CuAlone, CuOwnerPcs
<1>7. CuRuns' /\ CuOwnerPcs'
  BY DEF CU!DoPeriodicUpdate, CU!stateVars, CU!boundVars, CU!GoTo, CU!Return, CU!CountFailure, CuPlaces, CuTypes, CuUpdating, CuStarting, CuAlone, CuRuns, CuOwnerPcs
<1>8. CuStarted'
  BY DEF CU!DoPeriodicUpdate, CU!stateVars, CU!boundVars, CU!GoTo, CU!Return, CU!CountFailure, CuPlaces, CuTypes, CuUpdating, CuStarting, CuAlone, CuOwnerPcs, CuStarted, CuRequired, CuFlags
<1> QED BY <1>1, <1>2, <1>3, <1>4, <1>5, <1>6, <1>7, <1>8 DEF CuInv

\* An update reads the source.
LEMMA CuFetch ==
  ASSUME CuInv, NEW a \in CU!Actors, CU!Fetch(a)
  PROVE  CuInv'
<1>0. /\ CuTypes /\ CuFlags /\ CuPlaces /\ CuLocked /\ CuOrdered /\ CuAlone /\ CuRuns /\ CuOwnerPcs /\ CuStarted
  BY DEF CuInv
<1> USE <1>0, CuConstants
<1>1. CuTypes'
  BY DEF CU!Fetch, CU!stateVars, CU!boundVars, CU!GoTo, CU!Full, CU!Incremental, CuTypes, CU!Versions
<1>2. CuFlags'
  BY DEF CU!Fetch, CU!stateVars, CU!boundVars, CU!GoTo, CU!Full, CU!Incremental, CuFlags
<1>3. CuPlaces'
  BY DEF CU!Fetch, CU!stateVars, CU!boundVars, CU!GoTo, CU!Full, CU!Incremental, CuPlaces, CuTypes, CuPcs, CU!Versions, CU!Zero
<1>4. CuLocked'
  BY DEF CU!Fetch, CU!stateVars, CU!boundVars, CU!GoTo, CuPlaces, CuTypes, CuLocked, CuUpdating
<1>5. CuOrdered'
  BY DEF CU!Fetch, CU!stateVars, CU!boundVars, CU!GoTo, CU!Full, CU!Incremental, CuPlaces, CuTypes, CuLocked, CuUpdating, CuOrdered, CuNotAfter, CU!Versions, CU!Zero
<1>6. CuAlone'
  BY DEF CU!Fetch, CU!stateVars, CU!boundVars, CU!GoTo, CuPlaces, CuTypes, CuUpdating, CuStarting, CuAlone, CuOwnerPcs
<1>7. CuRuns' /\ CuOwnerPcs'
  BY DEF CU!Fetch, CU!stateVars, CU!boundVars, CU!GoTo, CuPlaces, CuTypes, CuUpdating, CuStarting, CuAlone, CuRuns, CuOwnerPcs
<1>8. CuStarted'
  BY DEF CU!Fetch, CU!stateVars, CU!boundVars, CU!GoTo, CuPlaces, CuTypes, CuUpdating, CuStarting, CuAlone, CuOwnerPcs, CuStarted, CuRequired, CuFlags
<1> QED BY <1>1, <1>2, <1>3, <1>4, <1>5, <1>6, <1>7, <1>8 DEF CuInv

\* An update sets what it has read: nobody has changed the cache meanwhile.
LEMMA CuSucceeds ==
  ASSUME CuInv, NEW a \in CU!Actors, CU!UpdateSucceeds(a)
  PROVE  CuInv'
<1>0. /\ CuTypes /\ CuFlags /\ CuPlaces /\ CuLocked /\ CuOrdered /\ CuAlone /\ CuRuns /\ CuOwnerPcs /\ CuStarted
  BY DEF CuInv
<1> USE <1>0, CuConstants
<1>1. CuTypes'
  BY DEF CU!UpdateSucceeds, CU!stateVars, CU!boundVars, CU!GoTo, CU!Return, CU!Full, CU!Incremental, CuTypes, CU!Versions, CuPlaces
<1>2. CuFlags'
  BY DEF CU!UpdateSucceeds, CU!stateVars, CU!boundVars, CU!GoTo, CU!Return, CU!Full, CU!Incremental, CuFlags
<1>3. CuPlaces'
  BY DEF CU!UpdateSucceeds, CU!stateVars, CU!boundVars, CU!GoTo, CU!Return, CU!Full, CU!Incremental, CuPlaces, CuTypes, CuPcs, CU!Versions, CU!Zero
<1>4. CuLocked'
  BY DEF CU!UpdateSucceeds, CU!stateVars, CU!boundVars, CU!GoTo, CU!Return, CuPlaces, CuTypes, CuLocked, CuUpdating
<1>5. CuOrdered'
  BY DEF CU!UpdateSucceeds, CU!stateVars, CU!boundVars, CU!GoTo, CU!Return, CU!Full, CU!Incremental, CuPlaces, CuTypes, CuLocked, CuUpdating, CuOrdered, CuNotAfter, CU!Versions, CU!Zero
<1>6. CuAlone'
  BY DEF CU!UpdateSucceeds, CU!stateVars, CU!boundVars, CU!GoTo, CU!Return, CuPlaces, CuTypes, CuUpdating, CuStarting, CuAlone, CuOwnerPcs
<1>7. CuRuns' /\ CuOwnerPcs'
  BY DEF CU!UpdateSucceeds, CU!stateVars, CU!boundVars, CU!GoTo, CU!Return, CuPlaces, CuTypes, CuUpdating, CuStarting, CuAlone, CuRuns, CuOwnerPcs
<1>8. CuStarted'
  BY DEF CU!UpdateSucceeds, CU!stateVars, CU!boundVars, CU!GoTo, CU!Return, CuPlaces, CuTypes, CuUpdating, CuStarting, CuAlone, CuOwnerPcs, CuStarted, CuRequired, CuFlags
<1> QED BY <1>1, <1>2, <1>3, <1>4, <1>5, <1>6, <1>7, <1>8 DEF CuInv

\* An update fails.
LEMMA CuFails ==
  ASSUME CuInv, NEW a \in CU!Actors, CU!UpdateFails(a)
  PROVE  CuInv'
<1>0. /\ CuTypes /\ CuFlags /\ CuPlaces /\ CuLocked /\ CuOrdered /\ CuAlone /\ CuRuns /\ CuOwnerPcs /\ CuStarted
  BY DEF CuInv
<1> USE <1>0, CuConstants
<1>1. CuTypes'
  BY DEF CU!UpdateFails, CU!stateVars, CU!boundVars, CU!GoTo, CU!Return, CU!CountFailure, CuTypes, CU!Versions
<1>2. CuFlags'
  BY DEF CU!UpdateFails, CU!stateVars, CU!boundVars, CU!GoTo, CU!Return, CU!CountFailure, CuFlags
<1>3. CuPlaces'
  BY DEF CU!UpdateFails, CU!stateVars, CU!boundVars, CU!GoTo, CU!Return, CU!CountFailure, CuPlaces, CuTypes, CuPcs, CU!Versions, CU!Zero
<1>4. CuLocked'
  BY DEF CU!UpdateFails, CU!stateVars, CU!boundVars, CU!GoTo, CU!Return, CU!CountFailure, CuPlaces, CuTypes, CuLocked, CuUpdating
<1>5. CuOrdered'
  BY DEF CU!UpdateFails, CU!stateVars, CU!boundVars, CU!GoTo, CU!Return, CU!CountFailure, CuPlaces, CuTypes, CuLocked, CuUpdating, CuOrdered, CuNotAfter, CU!Versions, CU!Zero
<1>6. CuAlone'
  BY DEF CU!UpdateFails, CU!stateVars, CU!boundVars, CU!GoTo, CU!Return, CU!CountFailure, CuPlaces, CuTypes, CuUpdating, CuStarting, CuAlone, CuOwnerPcs
<1>7. CuRuns' /\ CuOwnerPcs'
  BY DEF CU!UpdateFails, CU!stateVars, CU!boundVars, CU!GoTo, CU!Return, CU!CountFailure, CuPlaces, CuTypes, CuUpdating, CuStarting, CuAlone, CuRuns, CuOwnerPcs
<1>8. CuStarted'
  BY DEF CU!UpdateFails, CU!stateVars, CU!boundVars, CU!GoTo, CU!Return, CU!CountFailure, CuPlaces, CuTypes, CuUpdating, CuStarting, CuAlone, CuOwnerPcs, CuStarted, CuRequired, CuFlags
<1> QED BY <1>1, <1>2, <1>3, <1>4, <1>5, <1>6, <1>7, <1>8 DEF CuInv

\* A test updates the cache.
LEMMA CuDebug ==
  ASSUME CuInv, NEW d \in Debuggers, NEW t \in {CU!Full, CU!Incremental}, CU!UpdateSyncDebug(d, t)
  PROVE  CuInv'
<1>0. /\ CuTypes /\ CuFlags /\ CuPlaces /\ CuLocked /\ CuOrdered /\ CuAlone /\ CuRuns /\ CuOwnerPcs /\ CuStarted
  BY DEF CuInv
<1> USE <1>0, CuConstants
<1>1. CuTypes'
  BY DEF CU!UpdateSyncDebug, CU!stateVars, CU!boundVars, CU!GoTo, CU!Full, CU!Incremental, CuTypes, CU!Versions
<1>2. CuFlags'
  BY DEF CU!UpdateSyncDebug, CU!stateVars, CU!boundVars, CU!GoTo, CU!Full, CU!Incremental, CuFlags
<1>3. CuPlaces'
  BY DEF CU!UpdateSyncDebug, CU!stateVars, CU!boundVars, CU!GoTo, CU!Full, CU!Incremental, CuPlaces, CuTypes, CuPcs, CU!Versions, CU!Zero
<1>4. CuLocked'
  BY DEF CU!UpdateSyncDebug, CU!stateVars, CU!boundVars, CU!GoTo, CuPlaces, CuTypes, CuLocked, CuUpdating
<1>5. CuOrdered'
  BY DEF CU!UpdateSyncDebug, CU!stateVars, CU!boundVars, CU!GoTo, CU!Full, CU!Incremental, CuPlaces, CuTypes, CuLocked, CuUpdating, CuOrdered, CuNotAfter, CU!Versions, CU!Zero
<1>6. CuAlone'
  BY DEF CU!UpdateSyncDebug, CU!stateVars, CU!boundVars, CU!GoTo, CuPlaces, CuTypes, CuUpdating, CuStarting, CuAlone, CuOwnerPcs
<1>7. CuRuns' /\ CuOwnerPcs'
  BY DEF CU!UpdateSyncDebug, CU!stateVars, CU!boundVars, CU!GoTo, CuPlaces, CuTypes, CuUpdating, CuStarting, CuAlone, CuRuns, CuOwnerPcs
<1>8. CuStarted'
  BY DEF CU!UpdateSyncDebug, CU!stateVars, CU!boundVars, CU!GoTo, CuPlaces, CuTypes, CuUpdating, CuStarting, CuAlone, CuOwnerPcs, CuStarted, CuRequired, CuFlags
<1> QED BY <1>1, <1>2, <1>3, <1>4, <1>5, <1>6, <1>7, <1>8 DEF CuInv

\* The source changes.
LEMMA CuChange ==
  ASSUME CuInv, NEW kind \in {"inc", "full"}, CU!ChangeSource(kind)
  PROVE  CuInv'
<1>0. /\ CuTypes /\ CuFlags /\ CuPlaces /\ CuLocked /\ CuOrdered /\ CuAlone /\ CuRuns /\ CuOwnerPcs /\ CuStarted
  BY DEF CuInv
<1> USE <1>0, CuConstants
<1>1. CuTypes'
  BY DEF CU!ChangeSource, CU!stateVars, CU!boundVars, CU!GoTo, CuTypes, CU!Versions
<1>2. CuFlags'
  BY DEF CU!ChangeSource, CU!stateVars, CU!boundVars, CU!GoTo, CuFlags
<1>3. CuPlaces'
  BY DEF CU!ChangeSource, CU!stateVars, CU!boundVars, CU!GoTo, CuPlaces, CuTypes, CuPcs, CU!Versions, CU!Zero
<1>4. CuLocked'
  BY DEF CU!ChangeSource, CU!stateVars, CU!boundVars, CU!GoTo, CuPlaces, CuTypes, CuLocked, CuUpdating
<1>5. CuOrdered'
  BY DEF CU!ChangeSource, CU!stateVars, CU!boundVars, CU!GoTo, CuPlaces, CuTypes, CuLocked, CuUpdating, CuOrdered, CuNotAfter, CU!Versions, CU!Zero
<1>6. CuAlone'
  BY DEF CU!ChangeSource, CU!stateVars, CU!boundVars, CU!GoTo, CuPlaces, CuTypes, CuUpdating, CuStarting, CuAlone, CuOwnerPcs
<1>7. CuRuns' /\ CuOwnerPcs'
  BY DEF CU!ChangeSource, CU!stateVars, CU!boundVars, CU!GoTo, CuPlaces, CuTypes, CuUpdating, CuStarting, CuAlone, CuRuns, CuOwnerPcs
<1>8. CuStarted'
  BY DEF CU!ChangeSource, CU!stateVars, CU!boundVars, CU!GoTo, CuPlaces, CuTypes, CuUpdating, CuStarting, CuAlone, CuOwnerPcs, CuStarted, CuRequired, CuFlags
<1> QED BY <1>1, <1>2, <1>3, <1>4, <1>5, <1>6, <1>7, <1>8 DEF CuInv

\* A user invalidates the cache.
LEMMA CuInvalidate ==
  ASSUME CuInv, NEW u \in Users, NEW t \in {CU!Full, CU!Incremental}, CU!InvalidateAsync(u, t)
  PROVE  CuInv'
<1>0. /\ CuTypes /\ CuFlags /\ CuPlaces /\ CuLocked /\ CuOrdered /\ CuAlone /\ CuRuns /\ CuOwnerPcs /\ CuStarted
  BY DEF CuInv
<1> USE <1>0, CuConstants
<1>1. CuTypes'
  BY DEF CU!InvalidateAsync, CU!stateVars, CU!boundVars, CU!GoTo, CU!Full, CU!Incremental, CuTypes, CU!Versions
<1>2. CuFlags'
  BY DEF CU!InvalidateAsync, CU!stateVars, CU!boundVars, CU!GoTo, CU!Full, CU!Incremental, CuFlags
<1>3. CuPlaces'
  BY DEF CU!InvalidateAsync, CU!stateVars, CU!boundVars, CU!GoTo, CU!Full, CU!Incremental, CuPlaces, CuTypes, CuPcs, CU!Versions, CU!Zero
<1>4. CuLocked'
  BY DEF CU!InvalidateAsync, CU!stateVars, CU!boundVars, CU!GoTo, CuPlaces, CuTypes, CuLocked, CuUpdating
<1>5. CuOrdered'
  BY DEF CU!InvalidateAsync, CU!stateVars, CU!boundVars, CU!GoTo, CU!Full, CU!Incremental, CuPlaces, CuTypes, CuLocked, CuUpdating, CuOrdered, CuNotAfter, CU!Versions, CU!Zero
<1>6. CuAlone'
  BY DEF CU!InvalidateAsync, CU!stateVars, CU!boundVars, CU!GoTo, CuPlaces, CuTypes, CuUpdating, CuStarting, CuAlone, CuOwnerPcs
<1>7. CuRuns' /\ CuOwnerPcs'
  BY DEF CU!InvalidateAsync, CU!stateVars, CU!boundVars, CU!GoTo, CuPlaces, CuTypes, CuUpdating, CuStarting, CuAlone, CuRuns, CuOwnerPcs
<1>8. CuStarted'
  BY DEF CU!InvalidateAsync, CU!stateVars, CU!boundVars, CU!GoTo, CuPlaces, CuTypes, CuUpdating, CuStarting, CuAlone, CuOwnerPcs, CuStarted, CuRequired, CuFlags
<1> QED BY <1>1, <1>2, <1>3, <1>4, <1>5, <1>6, <1>7, <1>8 DEF CuInv

\* It leaves that to the first update, unless this one is over.
LEMMA CuMark ==
  ASSUME CuInv, NEW u \in Users, CU!MarkFirstUpdate(u)
  PROVE  CuInv'
<1>0. /\ CuTypes /\ CuFlags /\ CuPlaces /\ CuLocked /\ CuOrdered /\ CuAlone /\ CuRuns /\ CuOwnerPcs /\ CuStarted
  BY DEF CuInv
<1> USE <1>0, CuConstants
<1>1. CuTypes'
  BY DEF CU!MarkFirstUpdate, CU!stateVars, CU!boundVars, CU!GoTo, CuTypes, CU!Versions
<1>2. CuFlags'
  BY DEF CU!MarkFirstUpdate, CU!stateVars, CU!boundVars, CU!GoTo, CuFlags
<1>3. CuPlaces'
  BY DEF CU!MarkFirstUpdate, CU!stateVars, CU!boundVars, CU!GoTo, CuPlaces, CuTypes, CuPcs, CU!Versions, CU!Zero
<1>4. CuLocked'
  BY DEF CU!MarkFirstUpdate, CU!stateVars, CU!boundVars, CU!GoTo, CuPlaces, CuTypes, CuLocked, CuUpdating
<1>5. CuOrdered'
  BY DEF CU!MarkFirstUpdate, CU!stateVars, CU!boundVars, CU!GoTo, CuPlaces, CuTypes, CuLocked, CuUpdating, CuOrdered, CuNotAfter, CU!Versions, CU!Zero
<1>6. CuAlone'
  BY DEF CU!MarkFirstUpdate, CU!stateVars, CU!boundVars, CU!GoTo, CuPlaces, CuTypes, CuUpdating, CuStarting, CuAlone, CuOwnerPcs
<1>7. CuRuns' /\ CuOwnerPcs'
  BY DEF CU!MarkFirstUpdate, CU!stateVars, CU!boundVars, CU!GoTo, CuPlaces, CuTypes, CuUpdating, CuStarting, CuAlone, CuRuns, CuOwnerPcs
<1>8. CuStarted'
  BY DEF CU!MarkFirstUpdate, CU!stateVars, CU!boundVars, CU!GoTo, CuPlaces, CuTypes, CuUpdating, CuStarting, CuAlone, CuOwnerPcs, CuStarted, CuRequired, CuFlags
<1> QED BY <1>1, <1>2, <1>3, <1>4, <1>5, <1>6, <1>7, <1>8 DEF CuInv

\* An update is forced.
LEMMA CuForce ==
  ASSUME CuInv, NEW a \in Users \cup {Owner}, CU!DoInvalidateAsync(a)
  PROVE  CuInv'
<1>0. /\ CuTypes /\ CuFlags /\ CuPlaces /\ CuLocked /\ CuOrdered /\ CuAlone /\ CuRuns /\ CuOwnerPcs /\ CuStarted
  BY DEF CuInv
<1> USE <1>0, CuConstants
<1>1. CuTypes'
  BY DEF CU!DoInvalidateAsync, CU!stateVars, CU!boundVars, CU!GoTo, CuTypes, CU!Versions
<1>2. CuFlags'
  BY DEF CU!DoInvalidateAsync, CU!stateVars, CU!boundVars, CU!GoTo, CuFlags
<1>3. CuPlaces'
  BY DEF CU!DoInvalidateAsync, CU!stateVars, CU!boundVars, CU!GoTo, CuPlaces, CuTypes, CuPcs, CU!Versions, CU!Zero
<1>4. CuLocked'
  BY DEF CU!DoInvalidateAsync, CU!stateVars, CU!boundVars, CU!GoTo, CuPlaces, CuTypes, CuLocked, CuUpdating
<1>5. CuOrdered'
  BY DEF CU!DoInvalidateAsync, CU!stateVars, CU!boundVars, CU!GoTo, CuPlaces, CuTypes, CuLocked, CuUpdating, CuOrdered, CuNotAfter, CU!Versions, CU!Zero
<1>6. CuAlone'
  BY DEF CU!DoInvalidateAsync, CU!stateVars, CU!boundVars, CU!GoTo, CuPlaces, CuTypes, CuUpdating, CuStarting, CuAlone, CuOwnerPcs, CuRuns
<1>7. CuRuns' /\ CuOwnerPcs'
  BY DEF CU!DoInvalidateAsync, CU!stateVars, CU!boundVars, CU!GoTo, CuPlaces, CuTypes, CuUpdating, CuStarting, CuAlone, CuRuns, CuOwnerPcs
<1>8. CuStarted'
  BY DEF CU!DoInvalidateAsync, CU!stateVars, CU!boundVars, CU!GoTo, CuPlaces, CuTypes, CuUpdating, CuStarting, CuAlone, CuOwnerPcs, CuStarted, CuRequired, CuFlags
<1> QED BY <1>1, <1>2, <1>3, <1>4, <1>5, <1>6, <1>7, <1>8 DEF CuInv

\* The owner starts the updates.
LEMMA CuStart ==
  ASSUME CuInv, CU!StartPeriodicUpdates
  PROVE  CuInv'
<1>0. /\ CuTypes /\ CuFlags /\ CuPlaces /\ CuLocked /\ CuOrdered /\ CuAlone /\ CuRuns /\ CuOwnerPcs /\ CuStarted
  BY DEF CuInv
<1> USE <1>0, CuConstants
<1>1. CuTypes'
  BY DEF CU!StartPeriodicUpdates, CU!stateVars, CU!boundVars, CU!GoTo, CU!Full, CU!Incremental, CuTypes, CU!Versions
<1>2. CuFlags'
  BY DEF CU!StartPeriodicUpdates, CU!stateVars, CU!boundVars, CU!GoTo, CU!Full, CU!Incremental, CuFlags
<1>3. CuPlaces'
  BY DEF CU!StartPeriodicUpdates, CU!stateVars, CU!boundVars, CU!GoTo, CU!Full, CU!Incremental, CuPlaces, CuTypes, CuPcs, CU!Versions, CU!Zero
<1>4. CuLocked'
  BY DEF CU!StartPeriodicUpdates, CU!stateVars, CU!boundVars, CU!GoTo, CuPlaces, CuTypes, CuLocked, CuUpdating
<1>5. CuOrdered'
  BY DEF CU!StartPeriodicUpdates, CU!stateVars, CU!boundVars, CU!GoTo, CU!Full, CU!Incremental, CuPlaces, CuTypes, CuLocked, CuUpdating, CuOrdered, CuNotAfter, CU!Versions, CU!Zero
<1>6. CuAlone'
  BY DEF CU!StartPeriodicUpdates, CU!stateVars, CU!boundVars, CU!GoTo, CuPlaces, CuTypes, CuUpdating, CuStarting, CuAlone, CuOwnerPcs
<1>7. CuRuns' /\ CuOwnerPcs'
  BY DEF CU!StartPeriodicUpdates, CU!stateVars, CU!boundVars, CU!GoTo, CuPlaces, CuTypes, CuUpdating, CuStarting, CuAlone, CuRuns, CuOwnerPcs
<1>8. CuStarted'
  BY DEF CU!StartPeriodicUpdates, CU!stateVars, CU!boundVars, CU!GoTo, CuPlaces, CuTypes, CuUpdating, CuStarting, CuAlone, CuOwnerPcs, CuStarted, CuRequired, CuFlags
<1> QED BY <1>1, <1>2, <1>3, <1>4, <1>5, <1>6, <1>7, <1>8 DEF CuInv

\* The first update is made next.
LEMMA CuReset ==
  ASSUME CuInv, CU!ResetFirstUpdate
  PROVE  CuInv'
<1>0. /\ CuTypes /\ CuFlags /\ CuPlaces /\ CuLocked /\ CuOrdered /\ CuAlone /\ CuRuns /\ CuOwnerPcs /\ CuStarted
  BY DEF CuInv
<1> USE <1>0, CuConstants
<1>1. CuTypes'
  BY DEF CU!ResetFirstUpdate, CU!stateVars, CU!boundVars, CU!GoTo, CuTypes, CU!Versions
<1>2. CuFlags'
  BY DEF CU!ResetFirstUpdate, CU!stateVars, CU!boundVars, CU!GoTo, CuFlags
<1>3. CuPlaces'
  BY DEF CU!ResetFirstUpdate, CU!stateVars, CU!boundVars, CU!GoTo, CuPlaces, CuTypes, CuPcs, CU!Versions, CU!Zero
<1>4. CuLocked'
  BY DEF CU!ResetFirstUpdate, CU!stateVars, CU!boundVars, CU!GoTo, CuPlaces, CuTypes, CuLocked, CuUpdating
<1>5. CuOrdered'
  BY DEF CU!ResetFirstUpdate, CU!stateVars, CU!boundVars, CU!GoTo, CuPlaces, CuTypes, CuLocked, CuUpdating, CuOrdered, CuNotAfter, CU!Versions, CU!Zero
<1>6. CuAlone'
  BY DEF CU!ResetFirstUpdate, CU!stateVars, CU!boundVars, CU!GoTo, CuPlaces, CuTypes, CuUpdating, CuStarting, CuAlone, CuOwnerPcs
<1>7. CuRuns' /\ CuOwnerPcs'
  BY DEF CU!ResetFirstUpdate, CU!stateVars, CU!boundVars, CU!GoTo, CuPlaces, CuTypes, CuUpdating, CuStarting, CuAlone, CuRuns, CuOwnerPcs
<1>8. CuStarted'
  BY DEF CU!ResetFirstUpdate, CU!stateVars, CU!boundVars, CU!GoTo, CuPlaces, CuTypes, CuUpdating, CuStarting, CuAlone, CuOwnerPcs, CuStarted, CuRequired, CuFlags
<1> QED BY <1>1, <1>2, <1>3, <1>4, <1>5, <1>6, <1>7, <1>8 DEF CuInv

\* The first update is over.
LEMMA CuFinish ==
  ASSUME CuInv, CU!FinishFirstUpdate
  PROVE  CuInv'
<1>0. /\ CuTypes /\ CuFlags /\ CuPlaces /\ CuLocked /\ CuOrdered /\ CuAlone /\ CuRuns /\ CuOwnerPcs /\ CuStarted
  BY DEF CuInv
<1> USE <1>0, CuConstants
<1>1. CuTypes'
  BY DEF CU!FinishFirstUpdate, CU!stateVars, CU!boundVars, CU!GoTo, CU!Full, CU!Incremental, CuTypes, CU!Versions
<1>2. CuFlags'
  BY DEF CU!FinishFirstUpdate, CU!stateVars, CU!boundVars, CU!GoTo, CU!Full, CU!Incremental, CuFlags
<1>3. CuPlaces'
  BY DEF CU!FinishFirstUpdate, CU!stateVars, CU!boundVars, CU!GoTo, CU!Full, CU!Incremental, CuPlaces, CuTypes, CuPcs, CU!Versions, CU!Zero
<1>4. CuLocked'
  BY DEF CU!FinishFirstUpdate, CU!stateVars, CU!boundVars, CU!GoTo, CuPlaces, CuTypes, CuLocked, CuUpdating
<1>5. CuOrdered'
  BY DEF CU!FinishFirstUpdate, CU!stateVars, CU!boundVars, CU!GoTo, CU!Full, CU!Incremental, CuPlaces, CuTypes, CuLocked, CuUpdating, CuOrdered, CuNotAfter, CU!Versions, CU!Zero
<1>6. CuAlone'
  BY DEF CU!FinishFirstUpdate, CU!stateVars, CU!boundVars, CU!GoTo, CuPlaces, CuTypes, CuUpdating, CuStarting, CuAlone, CuOwnerPcs
<1>7. CuRuns' /\ CuOwnerPcs'
  BY DEF CU!FinishFirstUpdate, CU!stateVars, CU!boundVars, CU!GoTo, CuPlaces, CuTypes, CuUpdating, CuStarting, CuAlone, CuRuns, CuOwnerPcs
<1>8. CuStarted'
  BY DEF CU!FinishFirstUpdate, CU!stateVars, CU!boundVars, CU!GoTo, CuPlaces, CuTypes, CuUpdating, CuStarting, CuAlone, CuOwnerPcs, CuStarted, CuRequired, CuFlags
<1> QED BY <1>1, <1>2, <1>3, <1>4, <1>5, <1>6, <1>7, <1>8 DEF CuInv

\* The periodic task starts.
LEMMA CuTask ==
  ASSUME CuInv, CU!StartTask
  PROVE  CuInv'
<1>0. /\ CuTypes /\ CuFlags /\ CuPlaces /\ CuLocked /\ CuOrdered /\ CuAlone /\ CuRuns /\ CuOwnerPcs /\ CuStarted
  BY DEF CuInv
<1> USE <1>0, CuConstants
<1>1. CuTypes'
  BY DEF CU!StartTask, CU!stateVars, CU!boundVars, CU!GoTo, CuTypes, CU!Versions
<1>2. CuFlags'
  BY DEF CU!StartTask, CU!stateVars, CU!boundVars, CU!GoTo, CuFlags
<1>3. CuPlaces'
  BY DEF CU!StartTask, CU!stateVars, CU!boundVars, CU!GoTo, CuPlaces, CuTypes, CuPcs, CU!Versions, CU!Zero
<1>4. CuLocked'
  BY DEF CU!StartTask, CU!stateVars, CU!boundVars, CU!GoTo, CuPlaces, CuTypes, CuLocked, CuUpdating, CuRuns
<1>5. CuOrdered'
  BY DEF CU!StartTask, CU!stateVars, CU!boundVars, CU!GoTo, CuPlaces, CuTypes, CuLocked, CuUpdating, CuOrdered, CuNotAfter, CU!Versions, CU!Zero
<1>6. CuAlone'
  BY DEF CU!StartTask, CU!stateVars, CU!boundVars, CU!GoTo, CuPlaces, CuTypes, CuUpdating, CuStarting, CuAlone, CuOwnerPcs
<1>7. CuRuns' /\ CuOwnerPcs'
  BY DEF CU!StartTask, CU!stateVars, CU!boundVars, CU!GoTo, CuPlaces, CuTypes, CuUpdating, CuStarting, CuAlone, CuRuns, CuOwnerPcs
<1>8. CuStarted'
  BY DEF CU!StartTask, CU!stateVars, CU!boundVars, CU!GoTo, CuPlaces, CuTypes, CuUpdating, CuStarting, CuAlone, CuOwnerPcs, CuStarted, CuRequired, CuFlags
<1> QED BY <1>1, <1>2, <1>3, <1>4, <1>5, <1>6, <1>7, <1>8 DEF CuInv

\* A step of the periodic task begins.
LEMMA CuStep ==
  ASSUME CuInv, CU!Step
  PROVE  CuInv'
<1>0. /\ CuTypes /\ CuFlags /\ CuPlaces /\ CuLocked /\ CuOrdered /\ CuAlone /\ CuRuns /\ CuOwnerPcs /\ CuStarted
  BY DEF CuInv
<1> USE <1>0, CuConstants
<1>1. CuTypes'
  BY DEF CU!Step, CU!stateVars, CU!boundVars, CU!GoTo, CuTypes, CU!Versions
<1>2. CuFlags'
  BY DEF CU!Step, CU!stateVars, CU!boundVars, CU!GoTo, CuFlags
<1>3. CuPlaces'
  BY DEF CU!Step, CU!stateVars, CU!boundVars, CU!GoTo, CuPlaces, CuTypes, CuPcs, CU!Versions, CU!Zero
<1>4. CuLocked'
  BY DEF CU!Step, CU!stateVars, CU!boundVars, CU!GoTo, CuPlaces, CuTypes, CuLocked, CuUpdating
<1>5. CuOrdered'
  BY DEF CU!Step, CU!stateVars, CU!boundVars, CU!GoTo, CuPlaces, CuTypes, CuLocked, CuUpdating, CuOrdered, CuNotAfter, CU!Versions, CU!Zero
<1>6. CuAlone'
  BY DEF CU!Step, CU!stateVars, CU!boundVars, CU!GoTo, CuPlaces, CuTypes, CuUpdating, CuStarting, CuAlone, CuOwnerPcs
<1>7. CuRuns' /\ CuOwnerPcs'
  BY DEF CU!Step, CU!stateVars, CU!boundVars, CU!GoTo, CuPlaces, CuTypes, CuUpdating, CuStarting, CuAlone, CuRuns, CuOwnerPcs
<1>8. CuStarted'
  BY DEF CU!Step, CU!stateVars, CU!boundVars, CU!GoTo, CuPlaces, CuTypes, CuUpdating, CuStarting, CuAlone, CuOwnerPcs, CuStarted, CuRequired, CuFlags
<1> QED BY <1>1, <1>2, <1>3, <1>4, <1>5, <1>6, <1>7, <1>8 DEF CuInv

\* The owner stops the updates.
LEMMA CuStop ==
  ASSUME CuInv, CU!StopPeriodicUpdates
  PROVE  CuInv'
<1>0. /\ CuTypes /\ CuFlags /\ CuPlaces /\ CuLocked /\ CuOrdered /\ CuAlone /\ CuRuns /\ CuOwnerPcs /\ CuStarted
  BY DEF CuInv
<1> USE <1>0, CuConstants
<1>1. CuTypes'
  BY DEF CU!StopPeriodicUpdates, CU!stateVars, CU!boundVars, CU!GoTo, CuTypes, CU!Versions
<1>2. CuFlags'
  BY DEF CU!StopPeriodicUpdates, CU!stateVars, CU!boundVars, CU!GoTo, CuFlags
<1>3. CuPlaces'
  BY DEF CU!StopPeriodicUpdates, CU!stateVars, CU!boundVars, CU!GoTo, CuPlaces, CuTypes, CuPcs, CU!Versions, CU!Zero
<1>4. CuLocked'
  BY DEF CU!StopPeriodicUpdates, CU!stateVars, CU!boundVars, CU!GoTo, CuPlaces, CuTypes, CuLocked, CuUpdating
<1>5. CuOrdered'
  BY DEF CU!StopPeriodicUpdates, CU!stateVars, CU!boundVars, CU!GoTo, CuPlaces, CuTypes, CuLocked, CuUpdating, CuOrdered, CuNotAfter, CU!Versions, CU!Zero
<1>6. CuAlone'
  BY DEF CU!StopPeriodicUpdates, CU!stateVars, CU!boundVars, CU!GoTo, CuPlaces, CuTypes, CuUpdating, CuStarting, CuAlone, CuOwnerPcs
<1>7. CuRuns' /\ CuOwnerPcs'
  BY DEF CU!StopPeriodicUpdates, CU!stateVars, CU!boundVars, CU!GoTo, CuPlaces, CuTypes, CuUpdating, CuStarting, CuAlone, CuRuns, CuOwnerPcs
<1>8. CuStarted'
  BY DEF CU!StopPeriodicUpdates, CU!stateVars, CU!boundVars, CU!GoTo, CuPlaces, CuTypes, CuUpdating, CuStarting, CuAlone, CuOwnerPcs, CuStarted, CuRequired, CuFlags
<1> QED BY <1>1, <1>2, <1>3, <1>4, <1>5, <1>6, <1>7, <1>8 DEF CuInv

\* The periodic task is over.
LEMMA CuJoin ==
  ASSUME CuInv, CU!JoinTask
  PROVE  CuInv'
<1>0. /\ CuTypes /\ CuFlags /\ CuPlaces /\ CuLocked /\ CuOrdered /\ CuAlone /\ CuRuns /\ CuOwnerPcs /\ CuStarted
  BY DEF CuInv
<1> USE <1>0, CuConstants
<1>1. CuTypes'
  BY DEF CU!JoinTask, CU!stateVars, CU!boundVars, CU!GoTo, CuTypes, CU!Versions
<1>2. CuFlags'
  BY DEF CU!JoinTask, CU!stateVars, CU!boundVars, CU!GoTo, CuFlags
<1>3. CuPlaces'
  BY DEF CU!JoinTask, CU!stateVars, CU!boundVars, CU!GoTo, CuPlaces, CuTypes, CuPcs, CU!Versions, CU!Zero
<1>4. CuLocked'
  BY DEF CU!JoinTask, CU!stateVars, CU!boundVars, CU!GoTo, CuPlaces, CuTypes, CuLocked, CuUpdating
<1>5. CuOrdered'
  BY DEF CU!JoinTask, CU!stateVars, CU!boundVars, CU!GoTo, CuPlaces, CuTypes, CuLocked, CuUpdating, CuOrdered, CuNotAfter, CU!Versions, CU!Zero
<1>6. CuAlone'
  BY DEF CU!JoinTask, CU!stateVars, CU!boundVars, CU!GoTo, CuPlaces, CuTypes, CuUpdating, CuStarting, CuAlone, CuOwnerPcs
<1>7. CuRuns' /\ CuOwnerPcs'
  BY DEF CU!JoinTask, CU!stateVars, CU!boundVars, CU!GoTo, CuPlaces, CuTypes, CuUpdating, CuStarting, CuAlone, CuRuns, CuOwnerPcs
<1>8. CuStarted'
  BY DEF CU!JoinTask, CU!stateVars, CU!boundVars, CU!GoTo, CuPlaces, CuTypes, CuUpdating, CuStarting, CuAlone, CuOwnerPcs, CuStarted, CuRequired, CuFlags
<1> QED BY <1>1, <1>2, <1>3, <1>4, <1>5, <1>6, <1>7, <1>8 DEF CuInv

\* Updates are enabled or disabled.
LEMMA CuConfig ==
  ASSUME CuInv, CU!OnConfigUpdate
  PROVE  CuInv'
<1>0. /\ CuTypes /\ CuFlags /\ CuPlaces /\ CuLocked /\ CuOrdered /\ CuAlone /\ CuRuns /\ CuOwnerPcs /\ CuStarted
  BY DEF CuInv
<1> USE <1>0, CuConstants
<1>1. CuTypes'
  BY DEF CU!OnConfigUpdate, CU!stateVars, CU!boundVars, CU!GoTo, CuTypes, CU!Versions
<1>2. CuFlags'
  BY DEF CU!OnConfigUpdate, CU!stateVars, CU!boundVars, CU!GoTo, CuFlags
<1>3. CuPlaces'
  BY DEF CU!OnConfigUpdate, CU!stateVars, CU!boundVars, CU!GoTo, CuPlaces, CuTypes, CuPcs, CU!Versions, CU!Zero
<1>4. CuLocked'
  BY DEF CU!OnConfigUpdate, CU!stateVars, CU!boundVars, CU!GoTo, CuPlaces, CuTypes, CuLocked, CuUpdating
<1>5. CuOrdered'
  BY DEF CU!OnConfigUpdate, CU!stateVars, CU!boundVars, CU!GoTo, CuPlaces, CuTypes, CuLocked, CuUpdating, CuOrdered, CuNotAfter, CU!Versions, CU!Zero
<1>6. CuAlone'
  BY DEF CU!OnConfigUpdate, CU!stateVars, CU!boundVars, CU!GoTo, CuPlaces, CuTypes, CuUpdating, CuStarting, CuAlone, CuOwnerPcs
<1>7. CuRuns' /\ CuOwnerPcs'
  BY DEF CU!OnConfigUpdate, CU!stateVars, CU!boundVars, CU!GoTo, CuPlaces, CuTypes, CuUpdating, CuStarting, CuAlone, CuRuns, CuOwnerPcs
<1>8. CuStarted'
  BY DEF CU!OnConfigUpdate, CU!stateVars, CU!boundVars, CU!GoTo, CuPlaces, CuTypes, CuUpdating, CuStarting, CuAlone, CuOwnerPcs, CuStarted, CuRequired, CuFlags
<1> QED BY <1>1, <1>2, <1>3, <1>4, <1>5, <1>6, <1>7, <1>8 DEF CuInv

\* The invariant holds in the beginning.
LEMMA CuStarts == CU!Init => CuInv
<1> SUFFICES ASSUME CU!Init PROVE CuInv
  OBVIOUS
<1>1. CuTypes
  <2>1. cuDump \in BOOLEAN /\ cuUpdated \in BOOLEAN
    BY Zenon DEF CU!Init
  <2>2. cuSource \in CU!Versions /\ cuCache \in CU!Versions /\ cuNeed \in CU!Versions
    BY CuConstants DEF CU!Init, CU!Versions, CU!Zero
  <2>3. /\ cuConf \in Configs /\ cuFirst = "No" /\ cuDumpFirst = None /\ cuFailures = 0
        /\ cuRet = "exchange" /\ cuChanges = 1
    BY Zenon DEF CU!Init
  <2> QED BY <2>1, <2>2, <2>3, CuConstants DEF CuTypes
<1>2. CuFlags
  BY Zenon DEF CU!Init, CuFlags
<1>3. CuPlaces
  BY CuConstants DEF CU!Init, CuPlaces, CuPcs, CU!Versions, CU!Zero
<1>4. CuLocked /\ CuAlone /\ CuRuns /\ CuOwnerPcs /\ CuStarted
  BY CuConstants DEF CU!Init, CuLocked, CuUpdating, CuStarting, CuAlone, CuRuns, CuOwnerPcs, CuStarted
<1>5. CuOrdered
  BY CuConstants DEF CU!Init, CuOrdered, CuNotAfter, CU!Zero
<1> QED BY <1>1, <1>2, <1>3, <1>4, <1>5 DEF CuInv

\* A step of the cache, or of something else.
LEMMA CuMoves == ASSUME [AllNext]_allVars PROVE CU!Next \/ UNCHANGED cuVars
BY DEF AllNext, allVars, OthersRest, Requests, AsyncLoggers, Channels, Dumpers

\* Every step keeps the invariant.
LEMMA CuKeeps == ASSUME CuInv, [AllNext]_allVars PROVE CuInv'
<1>1. CASE CU!Next
  <2> USE <1>1
  <2>1. CASE \E a \in CU!Actors : CU!Update(a)
    BY <2>1, CuTry, CuFetch, CuSucceeds, CuFails DEF CU!Update
  <2>2. CASE \E d \in Debuggers, t \in {CU!Full, CU!Incremental} : CU!UpdateSyncDebug(d, t)
    BY <2>2, CuDebug
  <2>3. CASE \E kind \in {"inc", "full"} : CU!ChangeSource(kind)
    BY <2>3, CuChange
  <2>4. CASE \E u \in Users : \/ \E t \in {CU!Full, CU!Incremental} : CU!InvalidateAsync(u, t)
                             \/ CU!MarkFirstUpdate(u) \/ CU!DoInvalidateAsync(u)
    BY <2>4, CuInvalidate, CuMark, CuForce
  <2>5. CASE CU!StartPeriodicUpdates \/ CU!StopPeriodicUpdates \/ CU!OwnerStep \/ CU!Step \/ CU!OnConfigUpdate
    BY <2>5, CuStart, CuStop, CuReset, CuFinish, CuTask, CuJoin, CuForce, CuStep, CuConfig DEF CU!OwnerStep
  <2> QED BY <2>1, <2>2, <2>3, <2>4, <2>5 DEF CU!Next
<1>2. CASE UNCHANGED cuVars
  BY <1>2 DEF cuVars, CuInv, CuTypes, CuFlags, CuPlaces, CuLocked, CuOrdered, CuStarting, CuAlone, CuRuns, CuOwnerPcs,
     CuStarted, CuRequired
<1> QED BY <1>1, <1>2, CuMoves

\* No step takes the cache back: one that sets it holds the lock since it has read the source.
LEMMA CuForward == ASSUME CuInv, [AllNext]_allVars PROVE CuNotAfter(cuCache, cuCache')
<1>0. CuTypes /\ CuPlaces /\ CuOrdered
  BY DEF CuInv
<1>1. CuNotAfter(cuCache, cuCache)
  BY <1>0 DEF CuTypes, CuNotAfter, CU!Versions
<1>2. ASSUME NEW a \in CU!Actors, CU!UpdateSucceeds(a) PROVE CuNotAfter(cuCache, cuCache')
  <2>1. cuCache' = [cuCache EXCEPT !.inc = cuRead[a].inc, !.full = IF cuType[a] = "full" THEN cuRead[a].full ELSE @]
    BY <1>2, Zenon DEF CU!UpdateSucceeds, CU!Full
  <2>2. CuNotAfter(cuCache, cuRead[a]) /\ cuRead[a] \in CU!Versions /\ cuCache \in CU!Versions
    BY <1>0, <1>2 DEF CuOrdered, CuTypes, CuPlaces, CU!UpdateSucceeds
  <2> QED BY <2>1, <2>2 DEF CuNotAfter, CU!Versions
<1>3. cuCache' = cuCache \/ \E a \in CU!Actors : CU!UpdateSucceeds(a)
  <2>1. CASE CU!Next
    BY <2>1 DEF CU!Next, CU!Update, CU!OwnerStep, CU!DoPeriodicUpdate, CU!Fetch, CU!UpdateFails, CU!UpdateSyncDebug,
       CU!ChangeSource, CU!InvalidateAsync, CU!MarkFirstUpdate, CU!DoInvalidateAsync, CU!StartPeriodicUpdates,
       CU!StopPeriodicUpdates, CU!ResetFirstUpdate, CU!FinishFirstUpdate, CU!StartTask, CU!JoinTask, CU!Step,
       CU!OnConfigUpdate
  <2>2. CASE UNCHANGED cuVars
    BY <2>2 DEF cuVars
  <2> QED BY <2>1, <2>2, CuMoves
<1> QED BY <1>1, <1>2, <1>3

\* The invariant implies what the run checks of every state.
LEMMA CuSafe == CuInv => CU!TypeOK /\ CU!StartedHasData
<1> SUFFICES ASSUME CuInv PROVE CU!TypeOK /\ CU!StartedHasData
  OBVIOUS
<1>0. CuTypes /\ CuFlags /\ CuPlaces /\ CuLocked /\ CuStarted
  BY DEF CuInv
<1>1. {cuNull, cuRunning, cuForceFull, cuAttempted, cuUpdated, cuEnabled, cuForced, cuSynced, cuDump} \subseteq BOOLEAN
  BY <1>0, Zenon DEF CuTypes, CuFlags
<1>2. CU!TypeOK
  BY <1>0, <1>1 DEF CU!TypeOK, CuTypes, CuPlaces, CuLocked, CuUpdating, CU!Full, CU!Incremental
<1>3. CU!StartedHasData
  BY <1>0 DEF CU!StartedHasData, CuStarted, CuRequired
<1> QED BY <1>2, <1>3

\* Cache updates, for any number of users, tests, changes, failures and every config: a cache that has
\* started has the data that its config requires, though updates were disabled or failed; and no step, of
\* the periodic task, a user or a test, brings back older changes of the source.
THEOREM CacheIsSafe == AllSpec => CacheUpdatesSafe
<1>1. AllInit => CuInv
  BY CuStarts DEF AllInit
<1>2. CuInv /\ [AllNext]_allVars => CuInv'
  BY CuKeeps
<1>3. CuInv => (subject = "CacheUpdates" => CU!TypeOK /\ CU!StartedHasData)
  BY CuSafe
<1>4. CuInv /\ [AllNext]_allVars => [cuCache'.inc >= cuCache.inc /\ cuCache'.full >= cuCache.full]_CU!vars
  <2>1. SUFFICES ASSUME CuInv, [AllNext]_allVars PROVE cuCache'.inc >= cuCache.inc /\ cuCache'.full >= cuCache.full
    OBVIOUS
  <2>2. CuNotAfter(cuCache, cuCache') /\ cuCache \in CU!Versions /\ cuCache' \in CU!Versions
    BY <2>1, CuForward, CuKeeps DEF CuInv, CuTypes
  <2> QED BY <2>2 DEF CuNotAfter, CU!Versions
<1> QED BY <1>1, <1>2, <1>3, <1>4, PTL DEF AllSpec, CacheUpdatesSafe, CU!NeverBackward

=============================================================================
