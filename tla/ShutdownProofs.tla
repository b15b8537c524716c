--------------------------- MODULE ShutdownProofs ---------------------------
(***************************************************************************)
(* What is stopped uses nothing after it: the invariants of the run of      *)
(* MCShutdown for every set of tasks and workers and for every bound. A     *)
(* behaviour exercises one component and leaves the others alone, so each    *)
(* part is the invariant of one component and the frame of the others.       *)
(***************************************************************************)
EXTENDS MCShutdown, TLAPS, FiniteSetTheorems

----------------------------------------------------------------------------
(* WaitTokenStorage *)

\* The storage's own token, between its constructor and the drop of the token.
OwnToken == opc \in {"open", "estimate", "unlock", "start", "drop"}

\* Every token that is alive is counted, once.
TokensCounted ==
  /\ acquired = storages + given
  /\ IsFiniteSet(Holders)
  /\ acquired - released = Cardinality(Holders) + IF OwnToken THEN 1 ELSE 0

\* What IsFree() has read of `released` is not ahead of it.
SnapshotsBehind == \A p \in Processes : snapshot[p] <= released

\* The optimistic path is taken by the owner of the last token; a storage that is being
\* waited for has said so.
ShutdownSeen ==
  /\ opc \in {"unlock", "done", "gone"} => Holders = {}
  /\ opc \in {"drop", "check", "checked", "predicate", "predicated", "wait"} => shutdown

\* A task whose token has died and that will signal, if there are no more tokens.
Signaller(t) ==
  \/ tpc[t] \in {"load", "mutex", "check", "send"}
  \/ tpc[t] = "checked" /\ snapshot[t] = acquired

\* The owner is about to sleep, or does, though the last token has died: somebody signals.
SignalOnItsWay ==
  /\ opc = "wait" \/ (opc = "predicated" /\ snapshot[Owner] # acquired)
  /\ ~event /\ acquired = released
  => \E t \in Tasks : Signaller(t)

TokenTypes ==
  /\ acquired \in Nat /\ released \in Nat
  /\ shutdown \in BOOLEAN /\ mutex \in BOOLEAN /\ event \in BOOLEAN
  /\ opc \in {"gone", "open", "estimate", "unlock", "start", "drop", "check", "checked", "predicate",
              "predicated", "wait", "done"}
  /\ tpc \in [Tasks -> {"idle", "hold", "load", "mutex", "check", "checked", "send"}]
  /\ snapshot \in [Processes -> Nat]
  /\ storages \in 0 .. MaxStorages
  /\ given \in 0 .. MaxTokens

TokenInv == TokenTypes /\ TokensCounted /\ SnapshotsBehind /\ ShutdownSeen /\ SignalOnItsWay

\* What the proofs use of the constants.
LEMMA TokenBounds == MaxStorages \in Nat /\ MaxTokens \in Nat /\ Owner \notin Tasks
  BY StoppedAssumption DEF StoppedAssumption, StorageAssumption

\* The owner and the tasks read into snapshots of their own.
LEMMA ProcessTypes == Owner \in Processes /\ \A t \in Tasks : t \in Processes
  BY DEF Processes

\* A step of the owner alone leaves the holders as they are.
LEMMA HoldersStay == ASSUME UNCHANGED tpc PROVE UNCHANGED Holders
  BY DEF Holders

\* So does a step of a task that neither takes nor drops a token.
LEMMA HoldersStayOfTask ==
  ASSUME TokenTypes, NEW t \in Tasks, NEW l, l # "hold", tpc[t] # "hold",
         tpc' = [tpc EXCEPT ![t] = l]
  PROVE  UNCHANGED Holders
  BY DEF Holders, TokenTypes

\* There is nobody among the holders when all that was acquired is released.
LEMMA DrainedIsEmpty ==
  ASSUME TokenTypes, TokensCounted
  PROVE  /\ released <= acquired
         /\ acquired = released => Holders = {} /\ ~OwnToken
         /\ acquired - released = 1 /\ OwnToken => Holders = {}
         /\ ~OwnToken /\ Holders = {} => acquired = released
<1> DEFINE k == Cardinality(Holders)
<1>1. k \in Nat /\ (k = 0 <=> Holders = {})
  BY FS_CardinalityType, FS_EmptySet DEF TokensCounted
<1>2. acquired - released = k + IF OwnToken THEN 1 ELSE 0
  BY DEF TokensCounted
<1> HIDE DEF k
<1> QED
  BY <1>1, <1>2 DEF TokenTypes

\* A storage is not there at first.
LEMMA TokenInitInv == Init => TokenInv
<1> SUFFICES ASSUME Init PROVE TokenInv
  OBVIOUS
<1>1. Holders = {}
  BY DEF Init, Holders
<1>2. TokenTypes
  <2>1. shutdown \in BOOLEAN /\ mutex \in BOOLEAN /\ event \in BOOLEAN
    BY Zenon DEF Init
  <2> QED
    BY <2>1, TokenBounds DEF Init, TokenTypes
<1>3. TokensCounted
  BY <1>1, FS_EmptySet DEF Init, TokensCounted, OwnToken
<1> QED
  BY <1>1, <1>2, <1>3 DEF Init, TokenInv, SnapshotsBehind, ShutdownSeen, SignalOnItsWay

\* A step of the owner preserves the invariant.
LEMMA OwnerKeepsTokenInv ==
  ASSUME TokenInv,
         Construct \/ DestroyUnwaited \/ Destroy \/ OwnerReads("open", "estimate") \/ OwnerStep
  PROVE  TokenInv'
<1> USE DEF countVars
<1>0. TokenTypes /\ TokensCounted /\ SnapshotsBehind /\ ShutdownSeen /\ SignalOnItsWay
  BY DEF TokenInv
<1>1. UNCHANGED <<tpc, Holders, given>>
  BY HoldersStay DEF Construct, DestroyUnwaited, Destroy, OwnerReads, OwnerStep, WaitForAllTokens,
     UnlockOptimistic, StartShutdown, DropInitialToken, SendToSelf, Predicate, TakeSignal
<1>2. TokenTypes'
  <2>1. shutdown' \in BOOLEAN /\ mutex' \in BOOLEAN /\ event' \in BOOLEAN
    BY <1>0, Zenon DEF TokenTypes, Construct, DestroyUnwaited, Destroy, OwnerReads, OwnerStep,
       WaitForAllTokens, UnlockOptimistic, StartShutdown, DropInitialToken, SendToSelf, Predicate, TakeSignal
  <2> QED
    BY <1>0, <2>1, TokenBounds, ProcessTypes DEF TokenTypes, Construct, DestroyUnwaited, Destroy, OwnerReads, OwnerStep,
     WaitForAllTokens, UnlockOptimistic, StartShutdown, DropInitialToken, SendToSelf, Predicate, TakeSignal
<1>3. TokensCounted'
  <2> DEFINE k == Cardinality(Holders)
  <2>1. k \in Nat /\ k' = k /\ IsFiniteSet(Holders')
    BY <1>0, <1>1, FS_CardinalityType DEF TokensCounted
  <2>2. acquired = storages + given /\ acquired - released = k + IF OwnToken THEN 1 ELSE 0
    BY <1>0 DEF TokensCounted
  <2>3. SUFFICES acquired' = storages' + given' /\ acquired' - released' = k' + IF OwnToken' THEN 1 ELSE 0
    BY <2>1 DEF TokensCounted
  <2> HIDE DEF k
  <2> QED
    BY <1>0, <1>1, <2>1, <2>2 DEF TokenTypes, OwnToken, Construct, DestroyUnwaited, Destroy, OwnerReads, OwnerStep,
     WaitForAllTokens, UnlockOptimistic, StartShutdown, DropInitialToken, SendToSelf, Predicate, TakeSignal
<1>4. SnapshotsBehind'
  BY <1>0, ProcessTypes DEF SnapshotsBehind, TokenTypes, Construct, DestroyUnwaited, Destroy, OwnerReads, OwnerStep,
     WaitForAllTokens, UnlockOptimistic, StartShutdown, DropInitialToken, SendToSelf, Predicate, TakeSignal
<1>5. ShutdownSeen'
  <2>1. snapshot[Owner] <= released /\ snapshot[Owner] \in Nat
    BY <1>0, ProcessTypes DEF SnapshotsBehind, TokenTypes
  <2> QED
    BY <1>0, <1>1, <2>1, DrainedIsEmpty DEF ShutdownSeen, TokenTypes, OwnToken, Construct, DestroyUnwaited, Destroy,
       OwnerReads, OwnerStep, WaitForAllTokens, UnlockOptimistic, StartShutdown, DropInitialToken,
       SendToSelf, Predicate, TakeSignal
<1>6. SignalOnItsWay'
  <2>1. CASE OwnerReads("predicate", "predicated")
    BY <1>0, <2>1, ProcessTypes DEF SignalOnItsWay, OwnerReads, TokenTypes
  <2>2. CASE Predicate
    BY <1>0, <2>2 DEF SignalOnItsWay, Predicate, Signaller
  <2>3. CASE opc' \notin {"predicated", "wait"}
    BY <2>3 DEF SignalOnItsWay
  <2> QED
    BY <2>1, <2>2, <2>3 DEF Construct, DestroyUnwaited, Destroy, OwnerReads, OwnerStep,
     WaitForAllTokens, UnlockOptimistic, StartShutdown, DropInitialToken, SendToSelf, Predicate, TakeSignal
<1> QED
  BY <1>2, <1>3, <1>4, <1>5, <1>6 DEF TokenInv

\* A step of a task preserves the invariant.
LEMMA TaskKeepsTokenInv ==
  ASSUME TokenInv, NEW t \in Tasks, DoLock(t) \/ TaskStep(t)
  PROVE  TokenInv'
<1> USE DEF countVars
<1>0. TokenTypes /\ TokensCounted /\ SnapshotsBehind /\ ShutdownSeen /\ SignalOnItsWay
  BY DEF TokenInv
<1>1. TokenTypes'
  <2>1. shutdown' \in BOOLEAN /\ mutex' \in BOOLEAN /\ event' \in BOOLEAN
    BY <1>0, Zenon DEF TokenTypes, DoLock, TaskStep, DoUnlock, LoadShutdown, PassMutex, ReadReleased,
       ReadAcquired, Send
  <2> QED
    BY <1>0, <2>1, TokenBounds, ProcessTypes DEF TokenTypes, DoLock, TaskStep, DoUnlock, LoadShutdown, PassMutex,
     ReadReleased, ReadAcquired, Send
<1>2. SnapshotsBehind'
  BY <1>0, ProcessTypes DEF SnapshotsBehind, TokenTypes, DoLock, TaskStep, DoUnlock, LoadShutdown, PassMutex,
     ReadReleased, ReadAcquired, Send
<1>3. UNCHANGED opc /\ (shutdown => shutdown') /\ (OwnToken' <=> OwnToken)
  BY DEF OwnToken, DoLock, TaskStep, DoUnlock, LoadShutdown, PassMutex, ReadReleased, ReadAcquired, Send
<1> DEFINE k == Cardinality(Holders)
<1>4. k \in Nat /\ IsFiniteSet(Holders) /\ acquired = storages + given
      /\ acquired - released = k + IF OwnToken THEN 1 ELSE 0
  BY <1>0, FS_CardinalityType DEF TokensCounted
<1>5. CASE DoLock(t)
  <2>1. Holders' = Holders \cup {t} /\ t \notin Holders
    BY <1>0, <1>5 DEF Holders, DoLock, TokenTypes
  <2>2. k' = k + 1 /\ IsFiniteSet(Holders')
    BY <1>4, <2>1, FS_AddElement
  <2>3. TokensCounted'
    <3> HIDE DEF k
    <3>1. acquired' = storages' + given' /\ acquired' - released' = k' + IF OwnToken' THEN 1 ELSE 0
      BY <1>0, <1>3, <1>4, <1>5, <2>2 DEF DoLock, TokenTypes
    <3> QED
      BY <2>2, <3>1 DEF TokensCounted, k
  <2>4. ShutdownSeen'
    BY <1>0, <1>3, <1>5 DEF ShutdownSeen, DoLock
  <2>5. acquired' # released'
      <3>1. (acquired = released => Holders = {})'
      BY <1>1, <2>3, DrainedIsEmpty, PTL
    <3> QED
      BY <2>1, <3>1
  <2> QED
    BY <1>1, <1>2, <2>3, <2>4, <2>5 DEF TokenInv, SignalOnItsWay
<1>6. CASE DoUnlock(t)
  <2>1. Holders' = Holders \ {t} /\ t \in Holders
    BY <1>0, <1>6 DEF Holders, DoUnlock, TokenTypes
  <2>2. k' = k - 1 /\ IsFiniteSet(Holders')
    BY <1>4, <2>1, FS_RemoveElement
  <2>3. TokensCounted'
    <3> HIDE DEF k
    <3>1. acquired' = storages' + given' /\ acquired' - released' = k' + IF OwnToken' THEN 1 ELSE 0
      BY <1>0, <1>3, <1>4, <1>6, <2>2 DEF DoUnlock, TokenTypes
    <3> QED
      BY <2>2, <3>1 DEF TokensCounted, k
  <2>4. ShutdownSeen'
    BY <1>0, <1>3, <2>1 DEF ShutdownSeen
  <2>5. Signaller(t)'
    BY <1>0, <1>6 DEF DoUnlock, Signaller, TokenTypes
  <2> QED
    BY <1>1, <1>2, <2>3, <2>4, <2>5 DEF TokenInv, SignalOnItsWay
<1>7. CASE LoadShutdown(t) \/ PassMutex(t) \/ ReadReleased(t) \/ ReadAcquired(t) \/ Send(t)
  <2>1. UNCHANGED <<Holders, acquired, released, storages, given, shutdown>>
    BY <1>0, <1>7, HoldersStayOfTask DEF LoadShutdown, PassMutex, ReadReleased, ReadAcquired, Send
  <2>2. TokensCounted'
    BY <1>0, <1>3, <2>1 DEF TokensCounted
  <2>3. ShutdownSeen'
    BY <1>0, <1>3, <2>1 DEF ShutdownSeen
  <2>4. SignalOnItsWay'
    <3>1. SUFFICES ASSUME opc = "wait" \/ (opc = "predicated" /\ snapshot'[Owner] # acquired),
                          ~event', acquired = released
                   PROVE  \E u \in Tasks : Signaller(u)'
      BY <1>3, <2>1 DEF SignalOnItsWay
    <3>2. snapshot'[Owner] = snapshot[Owner] /\ ~event /\ shutdown
      BY <1>0, <1>7, <3>1, ProcessTypes, TokenBounds
         DEF LoadShutdown, PassMutex, ReadReleased, ReadAcquired, Send, TokenTypes, ShutdownSeen
    <3>3. PICK u \in Tasks : Signaller(u)
      BY <1>0, <3>1, <3>2 DEF SignalOnItsWay
    <3>4. CASE u # t
      <4>1. tpc'[u] = tpc[u] /\ snapshot'[u] = snapshot[u]
        BY <1>0, <1>7, <3>4, ProcessTypes
           DEF LoadShutdown, PassMutex, ReadReleased, ReadAcquired, Send, TokenTypes
      <4> QED
        BY <2>1, <3>3, <4>1 DEF Signaller
    <3>5. CASE u = t
      <4>1. tpc[t] \in {"load", "mutex", "check", "send"} \/ (tpc[t] = "checked" /\ snapshot[t] = acquired)
        BY <3>3, <3>5 DEF Signaller
      <4>2. \/ tpc'[t] \in {"mutex", "check", "send"}
            \/ tpc'[t] = "checked" /\ snapshot'[t] = acquired'
        BY <1>0, <1>7, <2>1, <3>1, <3>2, <4>1, ProcessTypes
           DEF LoadShutdown, PassMutex, ReadReleased, ReadAcquired, Send, TokenTypes
      <4> QED
        BY <4>2 DEF Signaller
    <3> QED
      BY <3>4, <3>5
  <2> QED
    BY <1>1, <1>2, <2>2, <2>3, <2>4 DEF TokenInv
<1> QED
  BY <1>5, <1>6, <1>7 DEF TaskStep

\* The steps that concern the storage are its own.
LEMMA StorageSteps == ASSUME [AllNext]_allVars PROVE [Next]_vars
  BY DEF AllNext, allVars, OthersRest, tokenVars, Systems, PeriodicTasks

\* The invariant says what the run checks.
LEMMA TokenInvIsEnough == ASSUME TokenInv PROVE TokenStorageSafe
<1>1. TokenTypes /\ TokensCounted /\ SnapshotsBehind /\ ShutdownSeen /\ SignalOnItsWay
  BY DEF TokenInv
<1>2. released \in 0 .. acquired /\ acquired \in 0 .. MaxStorages + MaxTokens
  BY <1>1, DrainedIsEmpty, TokenBounds DEF TokenTypes, TokensCounted
<1>3. TypeOK
  BY <1>1, <1>2, TokenBounds DEF TokenTypes, TypeOK, SnapshotsBehind
<1>4. NoTokenOutlivesWait
  BY <1>1, DrainedIsEmpty DEF NoTokenOutlivesWait, ShutdownSeen, OwnToken
<1>5. NoLostSignal
  <2>1. SUFFICES ASSUME opc = "wait", ~event PROVE \E t \in Tasks : tpc[t] # "idle"
    BY DEF NoLostSignal
  <2>2. CASE acquired = released
    BY <1>1, <2>1, <2>2 DEF SignalOnItsWay, Signaller
  <2>3. CASE acquired # released
    BY <1>1, <2>1, <2>3, DrainedIsEmpty DEF OwnToken, Holders
  <2> QED
    BY <2>2, <2>3
<1> QED
  BY <1>3, <1>4, <1>5 DEF TokenStorageSafe

\* WaitForAllTokens() returns, and the storage is destroyed, only when no token is alive,
\* and never sleeps beside a storage without tokens, for any number of tasks and of
\* storages that the pooled object has served.
THEOREM StorageIsSafe == AllSpec => []TokenStorageSafe
<1>1. AllInit => TokenInv
  BY TokenInitInv DEF AllInit
<1>2. TokenInv /\ [AllNext]_allVars => TokenInv'
  <2>1. SUFFICES ASSUME TokenInv, [Next]_vars PROVE TokenInv'
    BY StorageSteps
  <2>2. CASE Next
    BY <2>1, <2>2, OwnerKeepsTokenInv, TaskKeepsTokenInv DEF Next
  <2>3. CASE UNCHANGED vars
    BY <2>1, <2>3 DEF vars, countVars, TokenInv, TokenTypes, TokensCounted, SnapshotsBehind, ShutdownSeen,
       SignalOnItsWay, Signaller, Holders, OwnToken
  <2> QED
    BY <2>1, <2>2, <2>3
<1> QED
  BY <1>1, <1>2, TokenInvIsEnough, PTL DEF AllSpec

----------------------------------------------------------------------------
(* TaskProcessorShutdown *)

\* The engine holds a reference to a task from its bootstrap to its end.
Engaged(t) == tpLife[t] \in {"queued", "running", "asleep"}

\* A worker notifies the awaiters of the task that it has completed.
Notifies(w, t) == tpWorker[w].at = "notify" /\ tpWorker[w].task = t
Notified(t) == \E w \in Workers : Notifies(w, t)

\* A token points to the task.
Pointed(t) == \E n \in 1 .. TP!MaxNodes : tpPointer[n] = t

\* The task is between Acquire() of a token and its Dispose().
Uses(t) ==
  \/ tpAdd[t] \in {"acquired", "stored"}
  \/ tpAwaiter[t] # 0
  \/ \E w \in Workers : Notifies(w, t) /\ tpWorker[w].token # 0

Appended(t) == tpAdd[t] \in {"appended", "cancel", "release", "done"}

TpTypes ==
  /\ tpLife \in [Tasks -> {"unborn", "bound", "queued", "running", "asleep", "finished", "gone"}]
  /\ tpCancelled \in [Tasks -> BOOLEAN]
  /\ tpRefs \in [Tasks -> Int]
  /\ tpHandle \in [Tasks -> BOOLEAN]
  /\ tpAdd \in [Tasks -> {"none", "acquired", "stored", "appended", "cancel", "release", "done"}]
  /\ tpNode \in [Tasks -> 0 .. TP!MaxNodes]
  /\ tpAwaiter \in [Tasks -> 0 .. TP!MaxNodes]
  /\ tpNodes \in 0 .. TP!MaxNodes
  /\ tpFree \subseteq 1 .. tpNodes
  /\ tpPointer \in [1 .. TP!MaxNodes -> Tasks \cup {NoTask}]
  /\ tpNewCancel \in BOOLEAN
  /\ tpCleaner \in {"up", "flagged", "walking", "waiting", "joining", "down"}
  /\ tpCursor \in 0 .. tpNodes
  /\ tpHeld \in Tasks \cup {NoTask}
  /\ tpQueue \subseteq Tasks \cup {StopMark}
  /\ tpWorker \in [Workers -> [at : {"idle", "run", "notify", "stop", "exited"},
                               task : Tasks \cup {NoTask}, token : 0 .. TP!MaxNodes]]

\* A worker runs a running task or notifies the awaiters of a finished one, which Add()
\* has appended its token to if there is one; no two workers have the same task.
WorkerOK(w) ==
  /\ tpWorker[w].at = "run" => tpWorker[w].task \in Tasks /\ tpLife[tpWorker[w].task] = "running"
  /\ tpWorker[w].at = "notify" =>
       /\ tpWorker[w].task \in Tasks /\ tpLife[tpWorker[w].task] = "finished"
       /\ tpWorker[w].token # 0 => /\ tpWorker[w].token = tpNode[tpWorker[w].task]
                                   /\ Appended(tpWorker[w].task)
SameTask(v, w) ==
  /\ tpWorker[v].at \in {"run", "notify"} /\ tpWorker[w].at \in {"run", "notify"}
  /\ tpWorker[v].task = tpWorker[w].task
TpWorkers ==
  /\ \A w \in Workers : WorkerOK(w)
  /\ \A v, w \in Workers : SameTask(v, w) => v = w
TpQueue == \A t \in Tasks : t \in tpQueue => tpLife[t] = "queued"

\* Add() works for a task that has started and has its handle, until it releases it. The
\* token of a task that has not finished is among its awaiters.
AddOK(t) ==
  /\ tpAdd[t] # "none" => tpLife[t] \notin {"unborn", "bound"}
  /\ tpAdd[t] \in {"acquired", "stored", "appended", "cancel", "release"} => tpHandle[t]
  /\ tpAwaiter[t] # 0 => tpAwaiter[t] = tpNode[t] /\ Appended(t) /\ Engaged(t)
  /\ Engaged(t) /\ Appended(t) => tpAwaiter[t] # 0
TpAdds == \A t \in Tasks : AddOK(t)

\* A token is free or used by one task, and points to the task that uses it or to none;
\* it is the walk that takes a pointer away from its user.
UserOK(t) ==
  Uses(t) => /\ tpNode[t] \in 1 .. tpNodes /\ tpNode[t] \notin tpFree
             /\ ~tpNewCancel /\ tpAdd[t] # "acquired" => tpPointer[tpNode[t]] = t
PointerOK(n) ==
  tpPointer[n] # NoTask =>
    Uses(tpPointer[n]) /\ tpNode[tpPointer[n]] = n /\ tpAdd[tpPointer[n]] # "acquired"
TpTokens ==
  /\ \A t \in Tasks : UserOK(t)
  /\ \A t, u \in Tasks : Uses(t) /\ Uses(u) /\ tpNode[t] = tpNode[u] => t = u
  /\ \A n \in 1 .. tpNodes : n \notin tpFree => \E t \in Tasks : Uses(t) /\ tpNode[t] = n
  /\ \A n \in 1 .. TP!MaxNodes : PointerOK(n)

\* The references are exact, and a context without any is gone.
RefsOK(t) ==
  /\ tpRefs[t] = TP!Count(tpHandle[t]) + TP!Count(Engaged(t)) + TP!Count(Notified(t))
                   + TP!Count(Pointed(t)) + TP!Count(tpHeld = t)
  /\ tpLife[t] \in {"unborn", "gone"} => tpRefs[t] = 0
TpRefs == \A t \in Tasks : RefsOK(t)

\* A detached task that Add() did not cancel is cancelled, or the walk has it or will
\* find its token.
WalkOK(t) ==
  tpNewCancel /\ tpAdd[t] \in {"release", "done"} /\ Engaged(t) =>
    \/ tpCancelled[t] \/ tpHeld = t
    \/ tpCleaner = "walking" /\ tpNode[t] <= tpCursor /\ tpPointer[tpNode[t]] = t
TpWalk ==
  /\ tpNewCancel <=> tpCleaner \notin {"up", "flagged"}
  /\ tpHeld # NoTask => tpCleaner = "walking"
  /\ \A t \in Tasks : WalkOK(t)

TpInv ==
  /\ TpTypes /\ TpWorkers /\ TpQueue /\ TpAdds /\ TpTokens /\ TpRefs /\ TpWalk /\ TP!NothingAfterStop

\* What the proofs use of the constants.
LEMMA TpConstants ==
  /\ NoTask \notin Tasks /\ StopMark \notin Tasks /\ StopMark # NoTask
  /\ IsFiniteSet(Tasks) /\ TP!MaxNodes = Cardinality(Tasks) /\ TP!MaxNodes \in Nat
<1>1. TP!ShutdownAssumption
  BY StoppedAssumption DEF StoppedAssumption
<1>2. IsFiniteSet(Tasks)
  BY <1>1 DEF TP!ShutdownAssumption, TP!IsFiniteSet, IsFiniteSet
<1>3. TP!MaxNodes = Cardinality(Tasks)
  BY DEF TP!MaxNodes, TP!Cardinality, Cardinality
<1> QED
  BY <1>1, <1>2, <1>3, FS_CardinalityType DEF TP!ShutdownAssumption

\* Tokens are the business of Add(), of NotifyAll() and of the walk.
LEMMA TokensStay ==
  ASSUME TpTokens, UNCHANGED <<tpAdd, tpNode, tpAwaiter, tpNodes, tpFree, tpPointer, tpNewCancel, tpWorker>>
  PROVE  /\ TpTokens'
         /\ \A u \in Tasks : /\ Uses(u)' <=> Uses(u)
                             /\ Appended(u)' <=> Appended(u)
                             /\ Notified(u)' <=> Notified(u)
                             /\ Pointed(u)' <=> Pointed(u)
<1>1. \A u : Uses(u)' <=> Uses(u)
  BY DEF Uses, Notifies
<1>2. ASSUME NEW u \in Tasks PROVE UserOK(u)'
  BY <1>1 DEF TpTokens, UserOK
<1>3. ASSUME NEW n \in 1 .. TP!MaxNodes PROVE PointerOK(n)'
  BY <1>1 DEF TpTokens, PointerOK
<1>4. TpTokens'
  BY <1>1, <1>2, <1>3 DEF TpTokens
<1> QED
  BY <1>1, <1>4 DEF Notifies, Notified, Appended, Pointed

\* A task that uses a token does so whatever the others do.
LEMMA UsesStays ==
  ASSUME NEW u, tpAdd'[u] = tpAdd[u], tpAwaiter'[u] = tpAwaiter[u], UNCHANGED tpWorker
  PROVE  (Uses(u)' <=> Uses(u)) /\ (Appended(u)' <=> Appended(u)) /\ (Notified(u)' <=> Notified(u))
  BY DEF Uses, Appended, Notified, Notifies

\* A context is constructed; it cannot be after the stop, when no task runs.
LEMMA TpSpawn ==
  ASSUME TpInv, NEW t \in Tasks, TP!Spawn(t)
  PROVE  TpInv'
<1> USE TpConstants DEF TP!taskVars, TP!addVars, TP!poolVars, TP!cleanVars
<1>0. TpTypes /\ TpWorkers /\ TpQueue /\ TpAdds /\ TpTokens /\ TpRefs /\ TpWalk /\ TP!NothingAfterStop
  BY DEF TpInv
<1>1. TpTypes'
  BY <1>0 DEF TpTypes, TP!Spawn
<1>2. /\ TpTokens'
      /\ \A u \in Tasks : /\ Uses(u)' <=> Uses(u)
                          /\ Appended(u)' <=> Appended(u)
                          /\ Notified(u)' <=> Notified(u)
                          /\ Pointed(u)' <=> Pointed(u)
  BY <1>0, TokensStay DEF TP!Spawn
<1>3. TpWorkers'
  <2>1. ASSUME NEW v \in Workers PROVE WorkerOK(v)'
    <3>1. WorkerOK(v)
      BY <1>0 DEF TpWorkers
    <3> QED
      BY <1>0, <1>2, <3>1 DEF TpTypes, WorkerOK, TP!Spawn
  <2> QED
    BY <1>0, <2>1 DEF TpWorkers, SameTask, TP!Spawn
<1>4. TpQueue'
  BY <1>0 DEF TpTypes, TpQueue, TP!Spawn
<1>5. TpAdds'
  <2>1. SUFFICES ASSUME NEW u \in Tasks PROVE AddOK(u)'
    BY DEF TpAdds
  <2>2. AddOK(u) /\ RefsOK(u)
    BY <1>0 DEF TpAdds, TpRefs
  <2>3. CASE u = t
    BY <1>0, <1>2, <2>2, <2>3 DEF TpTypes, AddOK, RefsOK, Engaged, Appended, TP!Spawn
  <2>4. CASE u # t
    BY <1>0, <1>2, <2>2, <2>4 DEF TpTypes, AddOK, Engaged, TP!Spawn
  <2> QED
    BY <2>3, <2>4
<1>6. TpRefs'
  <2>1. SUFFICES ASSUME NEW u \in Tasks PROVE RefsOK(u)'
    BY DEF TpRefs
  <2>2. RefsOK(u)
    BY <1>0 DEF TpRefs
  <2>3. CASE u = t
    BY <1>0, <1>2, <2>2, <2>3 DEF TpTypes, RefsOK, Engaged, TP!Count, TP!Spawn
  <2>4. CASE u # t
    BY <1>0, <1>2, <2>2, <2>4 DEF TpTypes, RefsOK, Engaged, TP!Count, TP!Spawn
  <2> QED
    BY <2>3, <2>4
<1>7. TpWalk'
  <2>1. SUFFICES ASSUME NEW u \in Tasks PROVE WalkOK(u)'
    BY <1>0 DEF TpWalk, TP!Spawn
  <2>2. WalkOK(u) /\ AddOK(u)
    BY <1>0 DEF TpWalk, TpAdds
  <2> QED
    BY <1>0, <1>2, <2>2 DEF TpTypes, WalkOK, AddOK, Engaged, TP!Spawn
<1>8. TP!NothingAfterStop'
  <2>1. ASSUME NEW w \in Workers, tpWorker[w].at = "run" PROVE tpCleaner \notin {"joining", "down"}
    BY <1>0, <2>1 DEF TpWorkers, WorkerOK, TP!NothingAfterStop, TP!Alive
  <2> QED
    BY <1>0, <2>1 DEF TpTypes, TP!NothingAfterStop, TP!Alive, TP!ShuttingDown, TP!Spawn
<1> QED
  BY <1>1, <1>2, <1>3, <1>4, <1>5, <1>6, <1>7, <1>8 DEF TpInv

\* The bootstrap of a task preserves the invariant.
LEMMA TpSchedule ==
  ASSUME TpInv, NEW t \in Tasks, TP!Schedule(t)
  PROVE  TpInv'
<1> USE TpConstants DEF TP!taskVars, TP!addVars, TP!poolVars, TP!cleanVars
<1>0. TpTypes /\ TpWorkers /\ TpQueue /\ TpAdds /\ TpTokens /\ TpRefs /\ TpWalk /\ TP!NothingAfterStop
  BY DEF TpInv
<1>1. TpTypes'
  BY <1>0 DEF TpTypes, TP!Schedule, TP!Enqueue, TP!ShuttingDown
<1>2. /\ TpTokens'
      /\ \A u \in Tasks : /\ Uses(u)' <=> Uses(u)
                          /\ Appended(u)' <=> Appended(u)
                          /\ Notified(u)' <=> Notified(u)
                          /\ Pointed(u)' <=> Pointed(u)
  BY <1>0, TokensStay DEF TP!Schedule, TP!Enqueue, TP!ShuttingDown
<1>3. TpWorkers'
  <2>1. ASSUME NEW v \in Workers PROVE WorkerOK(v)'
    <3>1. WorkerOK(v)
      BY <1>0 DEF TpWorkers
    <3> QED
      BY <1>0, <1>2, <3>1 DEF TpTypes, WorkerOK, TP!Schedule, TP!Enqueue, TP!ShuttingDown
  <2> QED
    BY <1>0, <2>1 DEF TpWorkers, SameTask, TP!Schedule, TP!Enqueue, TP!ShuttingDown
<1>4. TpQueue'
  BY <1>0 DEF TpTypes, TpQueue, TP!Schedule, TP!Enqueue, TP!ShuttingDown
<1>5. TpAdds'
  <2>1. SUFFICES ASSUME NEW u \in Tasks PROVE AddOK(u)'
    BY DEF TpAdds
  <2>2. AddOK(u) /\ RefsOK(u)
    BY <1>0 DEF TpAdds, TpRefs
  <2>3. CASE u = t
    BY <1>0, <1>2, <2>2, <2>3 DEF TpTypes, AddOK, RefsOK, Engaged, Appended, TP!Schedule, TP!Enqueue, TP!ShuttingDown
  <2>4. CASE u # t
    BY <1>0, <1>2, <2>2, <2>4 DEF TpTypes, AddOK, Engaged, TP!Schedule, TP!Enqueue, TP!ShuttingDown
  <2> QED
    BY <2>3, <2>4
<1>6. TpRefs'
  <2>1. SUFFICES ASSUME NEW u \in Tasks PROVE RefsOK(u)'
    BY DEF TpRefs
  <2>2. RefsOK(u)
    BY <1>0 DEF TpRefs
  <2>3. CASE u = t
    BY <1>0, <1>2, <2>2, <2>3 DEF TpTypes, RefsOK, Engaged, TP!Count, TP!Schedule, TP!Enqueue, TP!ShuttingDown
  <2>4. CASE u # t
    BY <1>0, <1>2, <2>2, <2>4 DEF TpTypes, RefsOK, Engaged, TP!Count, TP!Schedule, TP!Enqueue, TP!ShuttingDown
  <2> QED
    BY <2>3, <2>4
<1>7. TpWalk'
  <2>1. SUFFICES ASSUME NEW u \in Tasks PROVE WalkOK(u)'
    BY <1>0 DEF TpWalk, TP!Schedule, TP!Enqueue, TP!ShuttingDown
  <2>2. WalkOK(u) /\ AddOK(u)
    BY <1>0 DEF TpWalk, TpAdds
  <2> QED
    BY <1>0, <1>2, <2>2 DEF TpTypes, WalkOK, AddOK, Engaged, TP!Schedule, TP!Enqueue, TP!ShuttingDown
<1>8. TP!NothingAfterStop'
  BY <1>0 DEF TpTypes, TpWorkers, WorkerOK, TP!NothingAfterStop, TP!Alive, TP!Schedule, TP!Enqueue, TP!ShuttingDown
<1> QED
  BY <1>1, <1>2, <1>3, <1>4, <1>5, <1>6, <1>7, <1>8 DEF TpInv

\* So does a wakeup.
LEMMA TpWakeup ==
  ASSUME TpInv, NEW t \in Tasks, TP!Wakeup(t)
  PROVE  TpInv'
<1> USE TpConstants DEF TP!taskVars, TP!addVars, TP!poolVars, TP!cleanVars
<1>0. TpTypes /\ TpWorkers /\ TpQueue /\ TpAdds /\ TpTokens /\ TpRefs /\ TpWalk /\ TP!NothingAfterStop
  BY DEF TpInv
<1>1. TpTypes'
  BY <1>0 DEF TpTypes, TP!Wakeup, TP!Enqueue, TP!ShuttingDown
<1>2. /\ TpTokens'
      /\ \A u \in Tasks : /\ Uses(u)' <=> Uses(u)
                          /\ Appended(u)' <=> Appended(u)
                          /\ Notified(u)' <=> Notified(u)
                          /\ Pointed(u)' <=> Pointed(u)
  BY <1>0, TokensStay DEF TP!Wakeup, TP!Enqueue, TP!ShuttingDown
<1>3. TpWorkers'
  <2>1. ASSUME NEW v \in Workers PROVE WorkerOK(v)'
    <3>1. WorkerOK(v)
      BY <1>0 DEF TpWorkers
    <3> QED
      BY <1>0, <1>2, <3>1 DEF TpTypes, WorkerOK, TP!Wakeup, TP!Enqueue, TP!ShuttingDown
  <2> QED
    BY <1>0, <2>1 DEF TpWorkers, SameTask, TP!Wakeup, TP!Enqueue, TP!ShuttingDown
<1>4. TpQueue'
  BY <1>0 DEF TpTypes, TpQueue, TP!Wakeup, TP!Enqueue, TP!ShuttingDown
<1>5. TpAdds'
  <2>1. SUFFICES ASSUME NEW u \in Tasks PROVE AddOK(u)'
    BY DEF TpAdds
  <2>2. AddOK(u) /\ RefsOK(u)
    BY <1>0 DEF TpAdds, TpRefs
  <2>3. CASE u = t
    BY <1>0, <1>2, <2>2, <2>3 DEF TpTypes, AddOK, RefsOK, Engaged, Appended, TP!Wakeup, TP!Enqueue, TP!ShuttingDown
  <2>4. CASE u # t
    BY <1>0, <1>2, <2>2, <2>4 DEF TpTypes, AddOK, Engaged, TP!Wakeup, TP!Enqueue, TP!ShuttingDown
  <2> QED
    BY <2>3, <2>4
<1>6. TpRefs'
  <2>1. SUFFICES ASSUME NEW u \in Tasks PROVE RefsOK(u)'
    BY DEF TpRefs
  <2>2. RefsOK(u)
    BY <1>0 DEF TpRefs
  <2>3. CASE u = t
    BY <1>0, <1>2, <2>2, <2>3 DEF TpTypes, RefsOK, Engaged, TP!Count, TP!Wakeup, TP!Enqueue, TP!ShuttingDown
  <2>4. CASE u # t
    BY <1>0, <1>2, <2>2, <2>4 DEF TpTypes, RefsOK, Engaged, TP!Count, TP!Wakeup, TP!Enqueue, TP!ShuttingDown
  <2> QED
    BY <2>3, <2>4
<1>7. TpWalk'
  <2>1. SUFFICES ASSUME NEW u \in Tasks PROVE WalkOK(u)'
    BY <1>0 DEF TpWalk, TP!Wakeup, TP!Enqueue, TP!ShuttingDown
  <2>2. WalkOK(u) /\ AddOK(u)
    BY <1>0 DEF TpWalk, TpAdds
  <2> QED
    BY <1>0, <1>2, <2>2 DEF TpTypes, WalkOK, AddOK, Engaged, TP!Wakeup, TP!Enqueue, TP!ShuttingDown
<1>8. TP!NothingAfterStop'
  BY <1>0 DEF TpTypes, TpWorkers, WorkerOK, TP!NothingAfterStop, TP!Alive, TP!Wakeup, TP!Enqueue, TP!ShuttingDown
<1> QED
  BY <1>1, <1>2, <1>3, <1>4, <1>5, <1>6, <1>7, <1>8 DEF TpInv

\* So does the cancellation by an owner that waits.
LEMMA TpTerminate ==
  ASSUME TpInv, NEW t \in Tasks, TP!Terminate(t)
  PROVE  TpInv'
<1> USE TpConstants DEF TP!taskVars, TP!addVars, TP!poolVars, TP!cleanVars
<1>0. TpTypes /\ TpWorkers /\ TpQueue /\ TpAdds /\ TpTokens /\ TpRefs /\ TpWalk /\ TP!NothingAfterStop
  BY DEF TpInv
<1>1. TpTypes'
  BY <1>0 DEF TpTypes, TP!Terminate, TP!Cancel, TP!Enqueue, TP!ShuttingDown
<1>2. /\ TpTokens'
      /\ \A u \in Tasks : /\ Uses(u)' <=> Uses(u)
                          /\ Appended(u)' <=> Appended(u)
                          /\ Notified(u)' <=> Notified(u)
                          /\ Pointed(u)' <=> Pointed(u)
  BY <1>0, TokensStay DEF TP!Terminate, TP!Cancel, TP!Enqueue, TP!ShuttingDown
<1>3. TpWorkers'
  <2>1. ASSUME NEW v \in Workers PROVE WorkerOK(v)'
    <3>1. WorkerOK(v)
      BY <1>0 DEF TpWorkers
    <3> QED
      BY <1>0, <1>2, <3>1 DEF TpTypes, WorkerOK, TP!Terminate, TP!Cancel, TP!Enqueue, TP!ShuttingDown
  <2> QED
    BY <1>0, <2>1 DEF TpWorkers, SameTask, TP!Terminate, TP!Cancel, TP!Enqueue, TP!ShuttingDown
<1>4. TpQueue'
  BY <1>0 DEF TpTypes, TpQueue, TP!Terminate, TP!Cancel, TP!Enqueue, TP!ShuttingDown
<1>5. TpAdds'
  <2>1. SUFFICES ASSUME NEW u \in Tasks PROVE AddOK(u)'
    BY DEF TpAdds
  <2>2. AddOK(u) /\ RefsOK(u)
    BY <1>0 DEF TpAdds, TpRefs
  <2>3. CASE u = t
    BY <1>0, <1>2, <2>2, <2>3 DEF TpTypes, AddOK, RefsOK, Engaged, Appended, TP!Terminate, TP!Cancel, TP!Enqueue, TP!ShuttingDown
  <2>4. CASE u # t
    BY <1>0, <1>2, <2>2, <2>4 DEF TpTypes, AddOK, Engaged, TP!Terminate, TP!Cancel, TP!Enqueue, TP!ShuttingDown
  <2> QED
    BY <2>3, <2>4
<1>6. TpRefs'
  <2>1. SUFFICES ASSUME NEW u \in Tasks PROVE RefsOK(u)'
    BY DEF TpRefs
  <2>2. RefsOK(u)
    BY <1>0 DEF TpRefs
  <2>3. CASE u = t
    BY <1>0, <1>2, <2>2, <2>3 DEF TpTypes, RefsOK, Engaged, TP!Count, TP!Terminate, TP!Cancel, TP!Enqueue, TP!ShuttingDown
  <2>4. CASE u # t
    BY <1>0, <1>2, <2>2, <2>4 DEF TpTypes, RefsOK, Engaged, TP!Count, TP!Terminate, TP!Cancel, TP!Enqueue, TP!ShuttingDown
  <2> QED
    BY <2>3, <2>4
<1>7. TpWalk'
  <2>1. SUFFICES ASSUME NEW u \in Tasks PROVE WalkOK(u)'
    BY <1>0 DEF TpWalk, TP!Terminate, TP!Cancel, TP!Enqueue, TP!ShuttingDown
  <2>2. WalkOK(u) /\ AddOK(u)
    BY <1>0 DEF TpWalk, TpAdds
  <2> QED
    BY <1>0, <1>2, <2>2 DEF TpTypes, WalkOK, AddOK, Engaged, TP!Terminate, TP!Cancel, TP!Enqueue, TP!ShuttingDown
<1>8. TP!NothingAfterStop'
  BY <1>0 DEF TpTypes, TpWorkers, WorkerOK, TP!NothingAfterStop, TP!Alive, TP!Terminate, TP!Cancel, TP!Enqueue, TP!ShuttingDown
<1> QED
  BY <1>1, <1>2, <1>3, <1>4, <1>5, <1>6, <1>7, <1>8 DEF TpInv

\* The owner of a finished task lets go: the worker that notifies keeps the context.
LEMMA TpDropHandle ==
  ASSUME TpInv, NEW t \in Tasks, TP!DropHandle(t)
  PROVE  TpInv'
<1> USE TpConstants DEF TP!taskVars, TP!addVars, TP!poolVars, TP!cleanVars
<1>0. TpTypes /\ TpWorkers /\ TpQueue /\ TpAdds /\ TpTokens /\ TpRefs /\ TpWalk /\ TP!NothingAfterStop
  BY DEF TpInv
<1>1. TpTypes'
  BY <1>0 DEF TpTypes, TP!DropHandle, TP!Release
<1>2. /\ TpTokens'
      /\ \A u \in Tasks : /\ Uses(u)' <=> Uses(u)
                          /\ Appended(u)' <=> Appended(u)
                          /\ Notified(u)' <=> Notified(u)
                          /\ Pointed(u)' <=> Pointed(u)
  BY <1>0, TokensStay DEF TP!DropHandle, TP!Release
<1>3. TpWorkers'
  <2>1. ASSUME NEW v \in Workers PROVE WorkerOK(v)'
    <3>1. WorkerOK(v) /\ RefsOK(t)
      BY <1>0 DEF TpWorkers, TpRefs
    <3>2. tpWorker[v].at = "notify" => Notified(tpWorker[v].task)
      BY DEF Notified, Notifies
    <3>3. Engaged(t) \/ Notified(t) => tpRefs[t] > 1
      BY <1>0, <3>1 DEF TpTypes, RefsOK, TP!Count, TP!DropHandle, TP!Release
    <3>4. tpLife'[tpWorker[v].task] = tpLife[tpWorker[v].task] \/ tpWorker[v].at \notin {"run", "notify"}
      BY <1>0, <3>1, <3>2, <3>3 DEF TpTypes, WorkerOK, Engaged, TP!DropHandle, TP!Release
    <3> QED
      BY <1>0, <1>2, <3>1, <3>4 DEF TpTypes, WorkerOK, TP!DropHandle, TP!Release
  <2> QED
    BY <1>0, <2>1 DEF TpWorkers, SameTask, TP!DropHandle, TP!Release
<1>4. TpQueue'
  BY <1>0 DEF TpTypes, TpQueue, TP!DropHandle, TP!Release
<1>5. TpAdds'
  <2>1. SUFFICES ASSUME NEW u \in Tasks PROVE AddOK(u)'
    BY DEF TpAdds
  <2>2. AddOK(u) /\ RefsOK(u)
    BY <1>0 DEF TpAdds, TpRefs
  <2>3. CASE u = t
    BY <1>0, <1>2, <2>2, <2>3 DEF TpTypes, AddOK, RefsOK, Engaged, Appended, TP!DropHandle, TP!Release
  <2>4. CASE u # t
    BY <1>0, <1>2, <2>2, <2>4 DEF TpTypes, AddOK, Engaged, TP!DropHandle, TP!Release
  <2> QED
    BY <2>3, <2>4
<1>6. TpRefs'
  <2>1. SUFFICES ASSUME NEW u \in Tasks PROVE RefsOK(u)'
    BY DEF TpRefs
  <2>2. RefsOK(u)
    BY <1>0 DEF TpRefs
  <2>3. CASE u = t
    BY <1>0, <1>2, <2>2, <2>3 DEF TpTypes, RefsOK, Engaged, TP!Count, TP!DropHandle, TP!Release
  <2>4. CASE u # t
    BY <1>0, <1>2, <2>2, <2>4 DEF TpTypes, RefsOK, Engaged, TP!Count, TP!DropHandle, TP!Release
  <2> QED
    BY <2>3, <2>4
<1>7. TpWalk'
  <2>1. SUFFICES ASSUME NEW u \in Tasks PROVE WalkOK(u)'
    BY <1>0 DEF TpWalk, TP!DropHandle, TP!Release
  <2>2. WalkOK(u) /\ AddOK(u)
    BY <1>0 DEF TpWalk, TpAdds
  <2> QED
    BY <1>0, <1>2, <2>2 DEF TpTypes, WalkOK, AddOK, Engaged, TP!DropHandle, TP!Release
<1>8. TP!NothingAfterStop'
  BY <1>0 DEF TpTypes, TpWorkers, WorkerOK, TP!NothingAfterStop, TP!Alive, TP!DropHandle, TP!Release
<1> QED
  BY <1>1, <1>2, <1>3, <1>4, <1>5, <1>6, <1>7, <1>8 DEF TpInv

\* Add() looks at the flag: a task that it lets go is one the walk will find.
LEMMA TpLoadCancelNewTasks ==
  ASSUME TpInv, NEW t \in Tasks, TP!LoadCancelNewTasks(t)
  PROVE  TpInv'
<1> USE TpConstants DEF TP!taskVars, TP!addVars, TP!poolVars, TP!cleanVars
<1>0. TpTypes /\ TpWorkers /\ TpQueue /\ TpAdds /\ TpTokens /\ TpRefs /\ TpWalk /\ TP!NothingAfterStop
  BY DEF TpInv
<1>1. TpTypes'
  BY <1>0 DEF TpTypes, TP!LoadCancelNewTasks
<1>2. /\ TpTokens'
      /\ \A u \in Tasks : /\ Uses(u)' <=> Uses(u)
                          /\ Appended(u)' <=> Appended(u)
                          /\ Notified(u)' <=> Notified(u)
                          /\ Pointed(u)' <=> Pointed(u)
  <2>1. ASSUME NEW u \in Tasks
        PROVE  /\ Uses(u)' <=> Uses(u)
               /\ Appended(u)' <=> Appended(u)
               /\ Notified(u)' <=> Notified(u)
               /\ Pointed(u)' <=> Pointed(u)
               /\ tpAdd'[u] = "acquired" <=> tpAdd[u] = "acquired"
    <3>1. CASE u = t
      BY <1>0, <3>1 DEF TpTypes, Uses, Appended, Notified, Notifies, Pointed, TP!LoadCancelNewTasks
    <3>2. CASE u # t
      BY <1>0, <3>2, UsesStays DEF TpTypes, Pointed, TP!LoadCancelNewTasks
    <3> QED
      BY <3>1, <3>2
  <2>2. UNCHANGED <<tpNode, tpNodes, tpFree, tpPointer, tpNewCancel>>
    BY DEF TP!LoadCancelNewTasks
  <2>3. ASSUME NEW u \in Tasks PROVE UserOK(u)'
    BY <1>0, <2>1, <2>2 DEF TpTokens, UserOK
  <2>4. ASSUME NEW n \in 1 .. TP!MaxNodes PROVE PointerOK(n)'
    <3>1. tpPointer[n] \in Tasks \cup {NoTask} /\ PointerOK(n)
      BY <1>0 DEF TpTypes, TpTokens
    <3> QED
      BY <2>1, <2>2, <3>1 DEF PointerOK
  <2> QED
    BY <1>0, <2>1, <2>2, <2>3, <2>4 DEF TpTokens
<1>3. TpWorkers'
  <2>1. ASSUME NEW v \in Workers PROVE WorkerOK(v)'
    <3>1. WorkerOK(v)
      BY <1>0 DEF TpWorkers
    <3> QED
      BY <1>0, <1>2, <3>1 DEF TpTypes, WorkerOK, TP!LoadCancelNewTasks
  <2> QED
    BY <1>0, <2>1 DEF TpWorkers, SameTask, TP!LoadCancelNewTasks
<1>4. TpQueue'
  BY <1>0 DEF TpTypes, TpQueue, TP!LoadCancelNewTasks
<1>5. TpAdds'
  <2>1. SUFFICES ASSUME NEW u \in Tasks PROVE AddOK(u)'
    BY DEF TpAdds
  <2>2. AddOK(u) /\ RefsOK(u)
    BY <1>0 DEF TpAdds, TpRefs
  <2>3. CASE u = t
    BY <1>0, <1>2, <2>2, <2>3 DEF TpTypes, AddOK, RefsOK, Engaged, Appended, TP!LoadCancelNewTasks
  <2>4. CASE u # t
    BY <1>0, <1>2, <2>2, <2>4 DEF TpTypes, AddOK, Engaged, TP!LoadCancelNewTasks
  <2> QED
    BY <2>3, <2>4
<1>6. TpRefs'
  <2>1. SUFFICES ASSUME NEW u \in Tasks PROVE RefsOK(u)'
    BY DEF TpRefs
  <2>2. RefsOK(u)
    BY <1>0 DEF TpRefs
  <2>3. CASE u = t
    BY <1>0, <1>2, <2>2, <2>3 DEF TpTypes, RefsOK, Engaged, TP!Count, TP!LoadCancelNewTasks
  <2>4. CASE u # t
    BY <1>0, <1>2, <2>2, <2>4 DEF TpTypes, RefsOK, Engaged, TP!Count, TP!LoadCancelNewTasks
  <2> QED
    BY <2>3, <2>4
<1>7. TpWalk'
  <2>1. SUFFICES ASSUME NEW u \in Tasks PROVE WalkOK(u)'
    BY <1>0 DEF TpWalk, TP!LoadCancelNewTasks
  <2>2. WalkOK(u) /\ AddOK(u)
    BY <1>0 DEF TpWalk, TpAdds
  <2>3. CASE u = t
    BY <1>0, <2>3 DEF TpTypes, WalkOK, TP!LoadCancelNewTasks
  <2>4. CASE u # t
    BY <1>0, <2>2, <2>4 DEF TpTypes, WalkOK, Engaged, TP!LoadCancelNewTasks
  <2> QED
    BY <2>3, <2>4
<1>8. TP!NothingAfterStop'
  BY <1>0 DEF TpTypes, TpWorkers, WorkerOK, TP!NothingAfterStop, TP!Alive, TP!LoadCancelNewTasks
<1> QED
  BY <1>1, <1>2, <1>3, <1>4, <1>5, <1>6, <1>7, <1>8 DEF TpInv

\* Add() cancels a task that the walk may have missed.
LEMMA TpCancelNewTask ==
  ASSUME TpInv, NEW t \in Tasks, TP!CancelNewTask(t)
  PROVE  TpInv'
<1> USE TpConstants DEF TP!taskVars, TP!addVars, TP!poolVars, TP!cleanVars
<1>0. TpTypes /\ TpWorkers /\ TpQueue /\ TpAdds /\ TpTokens /\ TpRefs /\ TpWalk /\ TP!NothingAfterStop
  BY DEF TpInv
<1>1. TpTypes'
  BY <1>0 DEF TpTypes, TP!CancelNewTask, TP!Cancel, TP!Enqueue, TP!ShuttingDown
<1>2. /\ TpTokens'
      /\ \A u \in Tasks : /\ Uses(u)' <=> Uses(u)
                          /\ Appended(u)' <=> Appended(u)
                          /\ Notified(u)' <=> Notified(u)
                          /\ Pointed(u)' <=> Pointed(u)
  <2>1. ASSUME NEW u \in Tasks
        PROVE  /\ Uses(u)' <=> Uses(u)
               /\ Appended(u)' <=> Appended(u)
               /\ Notified(u)' <=> Notified(u)
               /\ Pointed(u)' <=> Pointed(u)
               /\ tpAdd'[u] = "acquired" <=> tpAdd[u] = "acquired"
    <3>1. CASE u = t
      BY <1>0, <3>1 DEF TpTypes, Uses, Appended, Notified, Notifies, Pointed, TP!CancelNewTask, TP!Cancel, TP!Enqueue, TP!ShuttingDown
    <3>2. CASE u # t
      BY <1>0, <3>2, UsesStays DEF TpTypes, Pointed, TP!CancelNewTask, TP!Cancel, TP!Enqueue, TP!ShuttingDown
    <3> QED
      BY <3>1, <3>2
  <2>2. UNCHANGED <<tpNode, tpNodes, tpFree, tpPointer, tpNewCancel>>
    BY DEF TP!CancelNewTask, TP!Cancel, TP!Enqueue, TP!ShuttingDown
  <2>3. ASSUME NEW u \in Tasks PROVE UserOK(u)'
    BY <1>0, <2>1, <2>2 DEF TpTokens, UserOK
  <2>4. ASSUME NEW n \in 1 .. TP!MaxNodes PROVE PointerOK(n)'
    <3>1. tpPointer[n] \in Tasks \cup {NoTask} /\ PointerOK(n)
      BY <1>0 DEF TpTypes, TpTokens
    <3> QED
      BY <2>1, <2>2, <3>1 DEF PointerOK
  <2> QED
    BY <1>0, <2>1, <2>2, <2>3, <2>4 DEF TpTokens
<1>3. TpWorkers'
  <2>1. ASSUME NEW v \in Workers PROVE WorkerOK(v)'
    <3>1. WorkerOK(v)
      BY <1>0 DEF TpWorkers
    <3> QED
      BY <1>0, <1>2, <3>1 DEF TpTypes, WorkerOK, TP!CancelNewTask, TP!Cancel, TP!Enqueue, TP!ShuttingDown
  <2> QED
    BY <1>0, <2>1 DEF TpWorkers, SameTask, TP!CancelNewTask, TP!Cancel, TP!Enqueue, TP!ShuttingDown
<1>4. TpQueue'
  BY <1>0 DEF TpTypes, TpQueue, TP!CancelNewTask, TP!Cancel, TP!Enqueue, TP!ShuttingDown
<1>5. TpAdds'
  <2>1. SUFFICES ASSUME NEW u \in Tasks PROVE AddOK(u)'
    BY DEF TpAdds
  <2>2. AddOK(u) /\ RefsOK(u)
    BY <1>0 DEF TpAdds, TpRefs
  <2>3. CASE u = t
    BY <1>0, <1>2, <2>2, <2>3 DEF TpTypes, AddOK, RefsOK, Engaged, Appended, TP!CancelNewTask, TP!Cancel, TP!Enqueue, TP!ShuttingDown
  <2>4. CASE u # t
    BY <1>0, <1>2, <2>2, <2>4 DEF TpTypes, AddOK, Engaged, TP!CancelNewTask, TP!Cancel, TP!Enqueue, TP!ShuttingDown
  <2> QED
    BY <2>3, <2>4
<1>6. TpRefs'
  <2>1. SUFFICES ASSUME NEW u \in Tasks PROVE RefsOK(u)'
    BY DEF TpRefs
  <2>2. RefsOK(u)
    BY <1>0 DEF TpRefs
  <2>3. CASE u = t
    BY <1>0, <1>2, <2>2, <2>3 DEF TpTypes, RefsOK, Engaged, TP!Count, TP!CancelNewTask, TP!Cancel, TP!Enqueue, TP!ShuttingDown
  <2>4. CASE u # t
    BY <1>0, <1>2, <2>2, <2>4 DEF TpTypes, RefsOK, Engaged, TP!Count, TP!CancelNewTask, TP!Cancel, TP!Enqueue, TP!ShuttingDown
  <2> QED
    BY <2>3, <2>4
<1>7. TpWalk'
  <2>1. SUFFICES ASSUME NEW u \in Tasks PROVE WalkOK(u)'
    BY <1>0 DEF TpWalk, TP!CancelNewTask, TP!Cancel, TP!Enqueue, TP!ShuttingDown
  <2>2. WalkOK(u) /\ AddOK(u)
    BY <1>0 DEF TpWalk, TpAdds
  <2> QED
    BY <1>0, <1>2, <2>2 DEF TpTypes, WalkOK, AddOK, Engaged, TP!CancelNewTask, TP!Cancel, TP!Enqueue, TP!ShuttingDown
<1>8. TP!NothingAfterStop'
  BY <1>0 DEF TpTypes, TpWorkers, WorkerOK, TP!NothingAfterStop, TP!Alive, TP!CancelNewTask, TP!Cancel, TP!Enqueue, TP!ShuttingDown
<1> QED
  BY <1>1, <1>2, <1>3, <1>4, <1>5, <1>6, <1>7, <1>8 DEF TpInv

\* Add() is over and gives up the handle.
LEMMA TpReleaseHandle ==
  ASSUME TpInv, NEW t \in Tasks, TP!ReleaseHandle(t)
  PROVE  TpInv'
<1> USE TpConstants DEF TP!taskVars, TP!addVars, TP!poolVars, TP!cleanVars
<1>0. TpTypes /\ TpWorkers /\ TpQueue /\ TpAdds /\ TpTokens /\ TpRefs /\ TpWalk /\ TP!NothingAfterStop
  BY DEF TpInv
<1>1. TpTypes'
  BY <1>0 DEF TpTypes, TP!ReleaseHandle, TP!Release
<1>2. /\ TpTokens'
      /\ \A u \in Tasks : /\ Uses(u)' <=> Uses(u)
                          /\ Appended(u)' <=> Appended(u)
                          /\ Notified(u)' <=> Notified(u)
                          /\ Pointed(u)' <=> Pointed(u)
  <2>1. ASSUME NEW u \in Tasks
        PROVE  /\ Uses(u)' <=> Uses(u)
               /\ Appended(u)' <=> Appended(u)
               /\ Notified(u)' <=> Notified(u)
               /\ Pointed(u)' <=> Pointed(u)
               /\ tpAdd'[u] = "acquired" <=> tpAdd[u] = "acquired"
    <3>1. CASE u = t
      BY <1>0, <3>1 DEF TpTypes, Uses, Appended, Notified, Notifies, Pointed, TP!ReleaseHandle, TP!Release
    <3>2. CASE u # t
      BY <1>0, <3>2, UsesStays DEF TpTypes, Pointed, TP!ReleaseHandle, TP!Release
    <3> QED
      BY <3>1, <3>2
  <2>2. UNCHANGED <<tpNode, tpNodes, tpFree, tpPointer, tpNewCancel>>
    BY DEF TP!ReleaseHandle, TP!Release
  <2>3. ASSUME NEW u \in Tasks PROVE UserOK(u)'
    BY <1>0, <2>1, <2>2 DEF TpTokens, UserOK
  <2>4. ASSUME NEW n \in 1 .. TP!MaxNodes PROVE PointerOK(n)'
    <3>1. tpPointer[n] \in Tasks \cup {NoTask} /\ PointerOK(n)
      BY <1>0 DEF TpTypes, TpTokens
    <3> QED
      BY <2>1, <2>2, <3>1 DEF PointerOK
  <2> QED
    BY <1>0, <2>1, <2>2, <2>3, <2>4 DEF TpTokens
<1>9. tpHandle[t] /\ (Engaged(t) => tpRefs[t] > 1) /\ (Notified(t) => tpRefs[t] > 1)
  <2>1. AddOK(t) /\ RefsOK(t)
    BY <1>0 DEF TpAdds, TpRefs
  <2>2. tpHandle[t]
    BY <2>1 DEF AddOK, TP!ReleaseHandle, TP!Release
  <2> QED
    BY <1>0, <2>1, <2>2 DEF TpTypes, RefsOK, TP!Count
<1>3. TpWorkers'
  <2>1. ASSUME NEW v \in Workers PROVE WorkerOK(v)'
    <3>1. WorkerOK(v) /\ RefsOK(t)
      BY <1>0 DEF TpWorkers, TpRefs
    <3>2. tpWorker[v].at = "notify" => Notified(tpWorker[v].task)
      BY DEF Notified, Notifies
    <3>4. tpLife'[tpWorker[v].task] = tpLife[tpWorker[v].task] \/ tpWorker[v].at \notin {"run", "notify"}
      BY <1>0, <3>1, <3>2, <1>9 DEF TpTypes, WorkerOK, Engaged, TP!ReleaseHandle, TP!Release
    <3> QED
      BY <1>0, <1>2, <3>1, <3>4 DEF TpTypes, WorkerOK, TP!ReleaseHandle, TP!Release
  <2> QED
    BY <1>0, <2>1 DEF TpWorkers, SameTask, TP!ReleaseHandle, TP!Release
<1>4. TpQueue'
  BY <1>0, <1>9 DEF TpTypes, TpQueue, Engaged, TP!ReleaseHandle, TP!Release
<1>5. TpAdds'
  <2>1. SUFFICES ASSUME NEW u \in Tasks PROVE AddOK(u)'
    BY DEF TpAdds
  <2>2. AddOK(u)
    BY <1>0 DEF TpAdds
  <2>3. Engaged(u)' <=> Engaged(u)
    BY <1>0, <1>9 DEF TpTypes, Engaged, TP!ReleaseHandle, TP!Release
  <2> QED
    BY <1>0, <1>2, <2>2, <2>3 DEF TpTypes, AddOK, TP!ReleaseHandle, TP!Release
<1>6. TpRefs'
  <2>1. SUFFICES ASSUME NEW u \in Tasks PROVE RefsOK(u)'
    BY DEF TpRefs
  <2>2. RefsOK(u)
    BY <1>0 DEF TpRefs
  <2>3. Engaged(u)' <=> Engaged(u)
    BY <1>0, <1>9 DEF TpTypes, Engaged, TP!ReleaseHandle, TP!Release
  <2>4. CASE u = t
    BY <1>0, <1>2, <1>9, <2>2, <2>3, <2>4 DEF TpTypes, RefsOK, TP!Count, TP!ReleaseHandle, TP!Release
  <2>5. CASE u # t
    BY <1>0, <1>2, <2>2, <2>3, <2>5 DEF TpTypes, RefsOK, TP!Count, TP!ReleaseHandle, TP!Release
  <2> QED
    BY <2>4, <2>5
<1>7. TpWalk'
  <2>1. SUFFICES ASSUME NEW u \in Tasks PROVE WalkOK(u)'
    BY <1>0 DEF TpWalk, TP!ReleaseHandle, TP!Release
  <2>2. WalkOK(u) /\ AddOK(u)
    BY <1>0 DEF TpWalk, TpAdds
  <2> QED
    BY <1>0, <1>2, <2>2 DEF TpTypes, WalkOK, AddOK, Engaged, TP!ReleaseHandle, TP!Release
<1>8. TP!NothingAfterStop'
  BY <1>0 DEF TpTypes, TpWorkers, WorkerOK, TP!NothingAfterStop, TP!Alive, TP!ReleaseHandle, TP!Release
<1> QED
  BY <1>1, <1>2, <1>3, <1>4, <1>5, <1>6, <1>7, <1>8 DEF TpInv

\* A task that Add() has not begun with uses no token.
LEMMA NoTokenYet ==
  ASSUME TpInv, NEW t \in Tasks, tpAdd[t] = "none"
  PROVE  ~Uses(t) /\ tpAwaiter[t] = 0
<1>1. AddOK(t) /\ ~Appended(t)
  BY DEF TpInv, TpAdds, Appended
<1>2. ASSUME NEW w \in Workers, Notifies(w, t), tpWorker[w].token # 0 PROVE FALSE
  BY <1>1, <1>2 DEF TpInv, TpWorkers, WorkerOK, Notifies
<1> QED
  BY <1>1, <1>2 DEF AddOK, Uses

\* Add() acquires a token that nobody uses.
LEMMA TpAcquire ==
  ASSUME TpInv, NEW t \in Tasks, TP!Acquire(t)
  PROVE  TpInv'
<1> USE TpConstants DEF TP!taskVars, TP!addVars, TP!poolVars, TP!cleanVars
<1>0. TpTypes /\ TpWorkers /\ TpQueue /\ TpAdds /\ TpTokens /\ TpRefs /\ TpWalk /\ TP!NothingAfterStop
  BY DEF TpInv
<1>9. ~Uses(t) /\ tpAwaiter[t] = 0
  BY NoTokenYet DEF TP!Acquire
<1>1. TpTypes'
  <2>3. tpNodes \in 0 .. TP!MaxNodes /\ tpFree \subseteq 1 .. tpNodes /\ tpNode \in [Tasks -> 0 .. TP!MaxNodes]
    BY <1>0 DEF TpTypes
  <2>4. ASSUME NEW n \in tpFree PROVE n \in 0 .. TP!MaxNodes
    BY <2>3
  <2>1. tpNode' \in [Tasks -> 0 .. TP!MaxNodes]
    BY <1>9, <2>3, <2>4 DEF TP!Acquire
  <2>2. tpNodes' \in 0 .. TP!MaxNodes /\ tpNodes <= tpNodes' /\ tpFree' \subseteq 1 .. tpNodes'
    <3>1. ASSUME NEW n \in tpFree, tpFree' = tpFree \ {n}, UNCHANGED tpNodes
          PROVE  tpNodes' \in 0 .. TP!MaxNodes /\ tpNodes <= tpNodes' /\ tpFree' \subseteq 1 .. tpNodes'
      BY <2>3, <3>1
    <3>2. ASSUME tpNodes < TP!MaxNodes, tpNodes' = tpNodes + 1, UNCHANGED tpFree
          PROVE  tpNodes' \in 0 .. TP!MaxNodes /\ tpNodes <= tpNodes' /\ tpFree' \subseteq 1 .. tpNodes'
      BY <2>3, <3>2
    <3> QED
      BY <3>1, <3>2 DEF TP!Acquire
  <2> QED
    BY <1>0, <2>1, <2>2 DEF TpTypes, TP!Acquire
<1>2. /\ TpTokens'
      /\ \A u \in Tasks : /\ u # t => (Uses(u)' <=> Uses(u))
                          /\ Appended(u)' <=> Appended(u)
                          /\ Notified(u)' <=> Notified(u)
                          /\ Pointed(u)' <=> Pointed(u)
  <2>1. ASSUME NEW u \in Tasks, u # t
        PROVE  /\ Uses(u)' <=> Uses(u)
               /\ Appended(u)' <=> Appended(u)
               /\ Notified(u)' <=> Notified(u)
               /\ tpAdd'[u] = tpAdd[u] /\ tpNode'[u] = tpNode[u]
    BY <1>0, <2>1, UsesStays DEF TpTypes, TP!Acquire
  <2>2. /\ Uses(t)' /\ tpAdd'[t] = "acquired"
        /\ tpNode'[t] \in 1 .. tpNodes' /\ tpNode'[t] \notin tpFree'
        /\ tpNode'[t] \in tpFree \/ tpNode'[t] = tpNodes + 1
        /\ tpFree' = tpFree \ {tpNode'[t]} /\ 1 .. tpNodes' = 1 .. tpNodes \cup {tpNode'[t]}
    BY <1>0, <1>9 DEF TpTypes, Uses, TP!Acquire
  <2>3. UNCHANGED <<tpPointer, tpNewCancel>> /\ tpNodes <= tpNodes' /\ tpNodes \in Nat /\ tpNodes' \in Nat
    BY <1>0, <1>1 DEF TpTypes, TP!Acquire
  <2>4. ASSUME NEW u \in Tasks, u # t, Uses(u) PROVE UserOK(u)' /\ tpNode[u] # tpNode'[t]
    <3>1. UserOK(u)
      BY <1>0 DEF TpTokens
    <3> QED
      BY <2>1, <2>2, <2>3, <2>4, <3>1 DEF UserOK
  <2>5. ASSUME NEW u \in Tasks PROVE UserOK(u)'
    BY <2>1, <2>2, <2>4 DEF UserOK
  <2>6. ASSUME NEW u \in Tasks, NEW r \in Tasks, Uses(u)', Uses(r)', tpNode'[u] = tpNode'[r] PROVE u = r
    BY <1>0, <2>1, <2>4, <2>6 DEF TpTokens
  <2>7. ASSUME NEW n \in 1 .. tpNodes', n \notin tpFree' PROVE \E u \in Tasks : Uses(u)' /\ tpNode'[u] = n
    <3>1. CASE n = tpNode'[t]
      BY <2>2, <3>1
    <3>2. CASE n # tpNode'[t]
      <4>1. n \in 1 .. tpNodes /\ n \notin tpFree
        BY <2>2, <2>7, <3>2
      <4>2. PICK u \in Tasks : Uses(u) /\ tpNode[u] = n
        BY <1>0, <4>1 DEF TpTokens
      <4> QED
        BY <1>9, <2>1, <4>2
    <3> QED
      BY <3>1, <3>2
  <2>8. ASSUME NEW n \in 1 .. TP!MaxNodes PROVE PointerOK(n)'
    <3>1. tpPointer[n] \in Tasks \cup {NoTask} /\ PointerOK(n)
      BY <1>0 DEF TpTypes, TpTokens
    <3> QED
      BY <1>9, <2>1, <2>3, <3>1 DEF PointerOK
  <2>9. Appended(t)' <=> Appended(t)
    BY <1>0 DEF TpTypes, Appended, TP!Acquire
  <2>10. Notified(t)' <=> Notified(t)
    BY DEF Notified, Notifies, TP!Acquire
  <2> QED
    BY <1>0, <2>1, <2>3, <2>5, <2>6, <2>7, <2>8, <2>9, <2>10 DEF TpTokens, Pointed
<1>3. TpWorkers'
  <2>1. ASSUME NEW v \in Workers PROVE WorkerOK(v)'
    <3>1. WorkerOK(v) /\ ~Appended(t)
      BY <1>0 DEF TpWorkers, Appended, TP!Acquire
    <3> QED
      BY <1>0, <1>2, <3>1 DEF TpTypes, WorkerOK, TP!Acquire
  <2> QED
    BY <1>0, <2>1 DEF TpWorkers, SameTask, TP!Acquire
<1>4. TpQueue'
  BY <1>0 DEF TpTypes, TpQueue, TP!Acquire
<1>5. TpAdds'
  <2>1. SUFFICES ASSUME NEW u \in Tasks PROVE AddOK(u)'
    BY DEF TpAdds
  <2>2. AddOK(u)
    BY <1>0 DEF TpAdds
  <2>3. CASE u = t
    BY <1>0, <1>9, <2>2, <2>3 DEF TpTypes, AddOK, Engaged, Appended, TP!Acquire
  <2>4. CASE u # t
    BY <1>0, <1>2, <2>2, <2>4 DEF TpTypes, AddOK, Engaged, TP!Acquire
  <2> QED
    BY <2>3, <2>4
<1>6. TpRefs'
  <2>1. SUFFICES ASSUME NEW u \in Tasks PROVE RefsOK(u)'
    BY DEF TpRefs
  <2>2. RefsOK(u)
    BY <1>0 DEF TpRefs
  <2>3. CASE u = t
    BY <1>0, <1>2, <2>2, <2>3 DEF TpTypes, RefsOK, Engaged, TP!Count, TP!Acquire
  <2>4. CASE u # t
    BY <1>0, <1>2, <2>2, <2>4 DEF TpTypes, RefsOK, Engaged, TP!Count, TP!Acquire
  <2> QED
    BY <2>3, <2>4
<1>7. TpWalk'
  <2>1. SUFFICES ASSUME NEW u \in Tasks PROVE WalkOK(u)'
    BY <1>0 DEF TpWalk, TP!Acquire
  <2>2. WalkOK(u) /\ AddOK(u)
    BY <1>0 DEF TpWalk, TpAdds
  <2> QED
    BY <1>0, <1>2, <2>2 DEF TpTypes, WalkOK, AddOK, Engaged, TP!Acquire
<1>8. TP!NothingAfterStop'
  BY <1>0 DEF TpTypes, TpWorkers, WorkerOK, TP!NothingAfterStop, TP!Alive, TP!Acquire
<1> QED
  BY <1>1, <1>2, <1>3, <1>4, <1>5, <1>6, <1>7, <1>8 DEF TpInv

\* The token, which was empty, gets its pointer and the reference.
LEMMA TpStorePointer ==
  ASSUME TpInv, NEW t \in Tasks, TP!StorePointer(t)
  PROVE  TpInv'
<1> USE TpConstants DEF TP!taskVars, TP!addVars, TP!poolVars, TP!cleanVars
<1>0. TpTypes /\ TpWorkers /\ TpQueue /\ TpAdds /\ TpTokens /\ TpRefs /\ TpWalk /\ TP!NothingAfterStop
  BY DEF TpInv
<1>9. Uses(t) /\ tpNode[t] \in 1 .. TP!MaxNodes /\ ~Pointed(t) /\ tpPointer[tpNode[t]] = NoTask
  <2>1. Uses(t) /\ UserOK(t)
    BY <1>0 DEF Uses, TpTokens, TP!StorePointer
  <2>2. tpNode[t] \in 1 .. TP!MaxNodes
    BY <1>0, <2>1 DEF TpTypes, UserOK
  <2>3. ASSUME NEW n \in 1 .. TP!MaxNodes, n = tpNode[t] \/ tpPointer[n] = t PROVE tpPointer[n] = NoTask
    <3>1. tpPointer[n] \in Tasks \cup {NoTask} /\ PointerOK(n)
      BY <1>0 DEF TpTypes, TpTokens
    <3> QED
      BY <1>0, <2>1, <2>3, <3>1 DEF PointerOK, TpTokens, TP!StorePointer
  <2> QED
    BY <2>1, <2>2, <2>3 DEF Pointed
<1>1. TpTypes'
  BY <1>0, <1>9 DEF TpTypes, TP!StorePointer
<1>2. /\ TpTokens'
      /\ \A u \in Tasks : /\ Uses(u)' <=> Uses(u)
                          /\ Appended(u)' <=> Appended(u)
                          /\ Notified(u)' <=> Notified(u)
                          /\ Pointed(u)' <=> (u = t \/ Pointed(u))
  <2>1. ASSUME NEW u \in Tasks, u # t
        PROVE  /\ Uses(u)' <=> Uses(u)
               /\ Appended(u)' <=> Appended(u)
               /\ Notified(u)' <=> Notified(u)
               /\ tpAdd'[u] = tpAdd[u] /\ tpNode'[u] = tpNode[u]
    BY <1>0, <2>1, UsesStays DEF TpTypes, TP!StorePointer
  <2>2. /\ Uses(t)' /\ tpAdd'[t] = "stored" /\ (Appended(t)' <=> Appended(t))
        /\ Notified(t)' <=> Notified(t)
    BY <1>0 DEF TpTypes, Uses, Appended, Notified, Notifies, TP!StorePointer
  <2>3. UNCHANGED <<tpNode, tpNodes, tpFree, tpNewCancel>>
    BY DEF TP!StorePointer
  <2>4. tpPointer' = [tpPointer EXCEPT ![tpNode[t]] = t] /\ tpPointer \in [1 .. TP!MaxNodes -> Tasks \cup {NoTask}]
    BY <1>0 DEF TpTypes, TP!StorePointer
  <2>5. ASSUME NEW u \in Tasks PROVE UserOK(u)'
    <3>1. UserOK(u) /\ UserOK(t) /\ (u # t /\ Uses(u) => tpNode[u] # tpNode[t])
      BY <1>0, <1>9 DEF TpTokens
    <3>2. Uses(u) => tpNode[u] \in 1 .. TP!MaxNodes
      BY <1>0, <3>1 DEF UserOK, TpTypes
    <3> QED
      BY <1>9, <2>1, <2>2, <2>3, <2>4, <3>1, <3>2 DEF UserOK
  <2>6. ASSUME NEW n \in 1 .. TP!MaxNodes PROVE PointerOK(n)'
    <3>1. tpPointer[n] \in Tasks \cup {NoTask} /\ PointerOK(n)
      BY <1>0 DEF TpTypes, TpTokens
    <3> QED
      BY <1>9, <2>1, <2>2, <2>3, <2>4, <3>1 DEF PointerOK
  <2>7. \A u \in Tasks : Pointed(u)' <=> (u = t \/ Pointed(u))
    <3>1. Pointed(t)'
      BY <1>9, <2>4 DEF Pointed
    <3>2. ASSUME NEW u \in Tasks, u # t PROVE Pointed(u)' <=> Pointed(u)
      BY <1>9, <2>4, <3>2 DEF Pointed
    <3> QED
      BY <3>1, <3>2
  <2> QED
    BY <1>0, <1>9, <2>1, <2>2, <2>3, <2>5, <2>6, <2>7 DEF TpTokens
<1>3. TpWorkers'
  <2>1. ASSUME NEW v \in Workers PROVE WorkerOK(v)'
    <3>1. WorkerOK(v)
      BY <1>0 DEF TpWorkers
    <3> QED
      BY <1>0, <1>2, <3>1 DEF TpTypes, WorkerOK, TP!StorePointer
  <2> QED
    BY <1>0, <2>1 DEF TpWorkers, SameTask, TP!StorePointer
<1>4. TpQueue'
  BY <1>0 DEF TpTypes, TpQueue, TP!StorePointer
<1>5. TpAdds'
  <2>1. SUFFICES ASSUME NEW u \in Tasks PROVE AddOK(u)'
    BY DEF TpAdds
  <2>2. AddOK(u) /\ RefsOK(u)
    BY <1>0 DEF TpAdds, TpRefs
  <2>3. CASE u = t
    BY <1>0, <1>2, <2>2, <2>3 DEF TpTypes, AddOK, RefsOK, Engaged, Appended, TP!StorePointer
  <2>4. CASE u # t
    BY <1>0, <1>2, <2>2, <2>4 DEF TpTypes, AddOK, Engaged, TP!StorePointer
  <2> QED
    BY <2>3, <2>4
<1>6. TpRefs'
  <2>1. SUFFICES ASSUME NEW u \in Tasks PROVE RefsOK(u)'
    BY DEF TpRefs
  <2>2. RefsOK(u) /\ AddOK(u)
    BY <1>0 DEF TpRefs, TpAdds
  <2>3. CASE u = t
    BY <1>0, <1>2, <1>9, <2>2, <2>3 DEF TpTypes, RefsOK, AddOK, Engaged, TP!Count, TP!StorePointer
  <2>4. CASE u # t
    BY <1>0, <1>2, <2>2, <2>4 DEF TpTypes, RefsOK, Engaged, TP!Count, TP!StorePointer
  <2> QED
    BY <2>3, <2>4
<1>7. TpWalk'
  <2>1. SUFFICES ASSUME NEW u \in Tasks PROVE WalkOK(u)'
    BY <1>0 DEF TpWalk, TP!StorePointer
  <2>2. WalkOK(u) /\ AddOK(u) /\ UserOK(u)
    BY <1>0 DEF TpWalk, TpAdds, TpTokens
  <2>3. CASE u = t
    BY <1>0, <2>3 DEF TpTypes, WalkOK, TP!StorePointer
  <2>4. CASE u # t
    <3>1. tpAwaiter[u] # 0 => Uses(u) /\ tpNode[u] # tpNode[t] /\ tpNode[u] \in 1 .. TP!MaxNodes
      BY <1>0, <1>9, <2>2, <2>4 DEF Uses, TpTokens, TpTypes, UserOK
    <3> QED
      BY <1>0, <1>9, <2>2, <2>4, <3>1 DEF TpTypes, WalkOK, AddOK, Engaged, Appended, TP!StorePointer
  <2> QED
    BY <2>3, <2>4
<1>8. TP!NothingAfterStop'
  BY <1>0 DEF TpTypes, TpWorkers, WorkerOK, TP!NothingAfterStop, TP!Alive, TP!StorePointer
<1> QED
  BY <1>1, <1>2, <1>3, <1>4, <1>5, <1>6, <1>7, <1>8 DEF TpInv

\* The token goes among the awaiters of a task that has not finished.
LEMMA TpAppendAwaiter ==
  ASSUME TpInv, NEW t \in Tasks, TP!AppendAwaiter(t),
         tpLife[t] # "finished"
  PROVE  TpInv'
<1> USE TpConstants DEF TP!taskVars, TP!addVars, TP!poolVars, TP!cleanVars
<1>0. TpTypes /\ TpWorkers /\ TpQueue /\ TpAdds /\ TpTokens /\ TpRefs /\ TpWalk /\ TP!NothingAfterStop
  BY DEF TpInv
<1>9. /\ Uses(t) /\ UserOK(t) /\ AddOK(t) /\ RefsOK(t) /\ tpHandle[t]
      /\ tpNode[t] \in 1 .. TP!MaxNodes
      /\ tpLife[t] \notin {"unborn", "bound", "gone"}
  <2>1. Uses(t) /\ UserOK(t) /\ AddOK(t) /\ RefsOK(t)
    BY <1>0 DEF Uses, TpTokens, TpAdds, TpRefs, TP!AppendAwaiter
  <2>2. tpHandle[t] /\ tpNode[t] \in 1 .. TP!MaxNodes /\ tpLife[t] \notin {"unborn", "bound"}
    BY <1>0, <2>1 DEF TpTypes, UserOK, AddOK, TP!AppendAwaiter
  <2>3. tpRefs[t] # 0
    BY <1>0, <2>1, <2>2 DEF TpTypes, RefsOK, TP!Count
  <2> QED
    BY <2>1, <2>2, <2>3 DEF RefsOK
<1>1. TpTypes'
  BY <1>0, <1>9 DEF TpTypes, TP!AppendAwaiter
<1>2. /\ TpTokens'
      /\ \A u \in Tasks : /\ Uses(u)' <=> Uses(u)
                          /\ Appended(u)' <=> (u = t \/ Appended(u))
                          /\ Notified(u)' <=> Notified(u)
                          /\ Pointed(u)' <=> Pointed(u)
  <2>1. ASSUME NEW u \in Tasks, u # t
        PROVE  /\ Uses(u)' <=> Uses(u)
               /\ Appended(u)' <=> Appended(u)
               /\ Notified(u)' <=> Notified(u)
               /\ tpAdd'[u] = tpAdd[u] /\ tpNode'[u] = tpNode[u]
    BY <1>0, <2>1, UsesStays DEF TpTypes, TP!AppendAwaiter
  <2>2. /\ Uses(t)' /\ Appended(t)' /\ tpAdd'[t] # "acquired" /\ tpAdd[t] # "acquired"
        /\ Notified(t)' <=> Notified(t)
    BY <1>0, <1>9 DEF TpTypes, Uses, Appended, Notified, Notifies, TP!AppendAwaiter
  <2>3. UNCHANGED <<tpNode, tpNodes, tpFree, tpNewCancel, tpPointer>>
    BY DEF TP!AppendAwaiter
  <2>4. ASSUME NEW u \in Tasks PROVE UserOK(u)'
    BY <1>0, <1>9, <2>1, <2>2, <2>3 DEF TpTokens, UserOK
  <2>5. ASSUME NEW n \in 1 .. TP!MaxNodes PROVE PointerOK(n)'
    <3>1. tpPointer[n] \in Tasks \cup {NoTask} /\ PointerOK(n)
      BY <1>0 DEF TpTypes, TpTokens
    <3> QED
      BY <2>1, <2>2, <2>3, <3>1 DEF PointerOK
  <2> QED
    BY <1>0, <1>9, <2>1, <2>2, <2>3, <2>4, <2>5 DEF TpTokens, Pointed
<1>3. TpWorkers'
  <2>1. ASSUME NEW v \in Workers PROVE WorkerOK(v)'
    <3>1. WorkerOK(v)
      BY <1>0 DEF TpWorkers
    <3> QED
      BY <1>0, <1>2, <3>1 DEF TpTypes, WorkerOK, TP!AppendAwaiter
  <2> QED
    BY <1>0, <2>1 DEF TpWorkers, SameTask, TP!AppendAwaiter
<1>4. TpQueue'
  BY <1>0 DEF TpTypes, TpQueue, TP!AppendAwaiter
<1>5. TpAdds'
  <2>1. SUFFICES ASSUME NEW u \in Tasks PROVE AddOK(u)'
    BY DEF TpAdds
  <2>2. AddOK(u)
    BY <1>0 DEF TpAdds
  <2>3. CASE u = t
    BY <1>0, <1>2, <1>9, <2>3 DEF TpTypes, AddOK, Engaged, TP!AppendAwaiter
  <2>4. CASE u # t
    BY <1>0, <1>2, <2>2, <2>4 DEF TpTypes, AddOK, Engaged, TP!AppendAwaiter
  <2> QED
    BY <2>3, <2>4
<1>6. TpRefs'
  <2>1. SUFFICES ASSUME NEW u \in Tasks PROVE RefsOK(u)'
    BY DEF TpRefs
  <2>2. RefsOK(u)
    BY <1>0 DEF TpRefs
  <2>3. CASE u = t
    BY <1>0, <1>2, <2>2, <2>3 DEF TpTypes, RefsOK, Engaged, TP!Count, TP!AppendAwaiter
  <2>4. CASE u # t
    BY <1>0, <1>2, <2>2, <2>4 DEF TpTypes, RefsOK, Engaged, TP!Count, TP!AppendAwaiter
  <2> QED
    BY <2>3, <2>4
<1>7. TpWalk'
  <2>1. SUFFICES ASSUME NEW u \in Tasks PROVE WalkOK(u)'
    BY <1>0 DEF TpWalk, TP!AppendAwaiter
  <2>2. WalkOK(u) /\ AddOK(u)
    BY <1>0 DEF TpWalk, TpAdds
  <2> QED
    BY <1>0, <1>2, <2>2 DEF TpTypes, WalkOK, AddOK, Engaged, TP!AppendAwaiter
<1>8. TP!NothingAfterStop'
  BY <1>0 DEF TpTypes, TpWorkers, WorkerOK, TP!NothingAfterStop, TP!Alive, TP!AppendAwaiter
<1> QED
  BY <1>1, <1>2, <1>3, <1>4, <1>5, <1>6, <1>7, <1>8 DEF TpInv

\* The token of a task that has finished is disposed of at once.
LEMMA TpAppendFinished ==
  ASSUME TpInv, NEW t \in Tasks, TP!AppendAwaiter(t),
         tpLife[t] = "finished"
  PROVE  TpInv'
<1> USE TpConstants DEF TP!taskVars, TP!addVars, TP!poolVars, TP!cleanVars
<1>0. TpTypes /\ TpWorkers /\ TpQueue /\ TpAdds /\ TpTokens /\ TpRefs /\ TpWalk /\ TP!NothingAfterStop
  BY DEF TpInv
<1>9. /\ Uses(t) /\ UserOK(t) /\ AddOK(t) /\ RefsOK(t) /\ tpHandle[t]
      /\ tpNode[t] \in 1 .. TP!MaxNodes
      /\ tpLife[t] \notin {"unborn", "bound", "gone"}
  <2>1. Uses(t) /\ UserOK(t) /\ AddOK(t) /\ RefsOK(t)
    BY <1>0 DEF Uses, TpTokens, TpAdds, TpRefs, TP!AppendAwaiter
  <2>2. tpHandle[t] /\ tpNode[t] \in 1 .. TP!MaxNodes /\ tpLife[t] \notin {"unborn", "bound"}
    BY <1>0, <2>1 DEF TpTypes, UserOK, AddOK, TP!AppendAwaiter
  <2>3. tpRefs[t] # 0
    BY <1>0, <2>1, <2>2 DEF TpTypes, RefsOK, TP!Count
  <2> QED
    BY <2>1, <2>2, <2>3 DEF RefsOK
<1>10. /\ tpPointer[tpNode[t]] \in {NoTask, t} /\ (Pointed(t) <=> tpPointer[tpNode[t]] = t)
       /\ tpAwaiter[t] = 0
  <2>1. ASSUME NEW n \in 1 .. TP!MaxNodes, n = tpNode[t] \/ tpPointer[n] = t
        PROVE  tpPointer[n] \in {NoTask, t} /\ (tpPointer[n] = t => n = tpNode[t])
    <3>1. tpPointer[n] \in Tasks \cup {NoTask} /\ PointerOK(n)
      BY <1>0 DEF TpTypes, TpTokens
    <3> QED
      BY <1>0, <1>9, <2>1, <3>1 DEF PointerOK, TpTokens
  <2> QED
    BY <1>9, <2>1 DEF Pointed, AddOK, Engaged
<1>11. /\ tpRefs' = [tpRefs EXCEPT ![t] = @ - TP!Count(Pointed(t))]
       /\ UNCHANGED tpLife
  <2>1. tpRefs[t] > TP!Count(Pointed(t))
    BY <1>0, <1>9 DEF TpTypes, RefsOK, TP!Count
  <2>2. TP!Count(Pointed(t)) = IF tpPointer[tpNode[t]] = NoTask THEN 0 ELSE 1
    BY <1>10 DEF TP!Count
  <2>3. TP!Count(Pointed(t)) \in Int
    BY DEF TP!Count
  <2> QED
    BY <1>0, <2>1, <2>2, <2>3 DEF TpTypes, TP!AppendAwaiter, TP!Dispose, TP!Release
<1>1. TpTypes'
  <2>1. TP!Count(Pointed(t)) \in Int
    BY DEF TP!Count
  <2>2. tpFree' \subseteq 1 .. tpNodes'
    <3>1. tpFree' = tpFree \cup {tpNode[t]} /\ UNCHANGED tpNodes
      BY DEF TP!AppendAwaiter, TP!Dispose, TP!Release
    <3> QED
      BY <1>0, <1>9, <3>1 DEF TpTypes, UserOK
  <2>3. tpRefs' \in [Tasks -> Int]
    BY <1>0, <1>11, <2>1 DEF TpTypes
  <2> QED
    BY <1>0, <1>9, <1>11, <2>2, <2>3 DEF TpTypes, TP!AppendAwaiter, TP!Dispose, TP!Release
<1>2. /\ TpTokens'
      /\ \A u \in Tasks : /\ u # t => (Uses(u)' <=> Uses(u))
                          /\ Appended(u)' <=> (u = t \/ Appended(u))
                          /\ Notified(u)' <=> Notified(u)
                          /\ Pointed(u)' <=> (u # t /\ Pointed(u))
  <2>1. ASSUME NEW u \in Tasks, u # t
        PROVE  /\ Uses(u)' <=> Uses(u)
               /\ Appended(u)' <=> Appended(u)
               /\ Notified(u)' <=> Notified(u)
               /\ tpAdd'[u] = tpAdd[u] /\ tpNode'[u] = tpNode[u]
    BY <1>0, <2>1, UsesStays DEF TpTypes, TP!AppendAwaiter, TP!Dispose, TP!Release
  <2>2. /\ ~Uses(t)' /\ Appended(t)' /\ (Notified(t)' <=> Notified(t))
    <3>1. ASSUME NEW v \in Workers, Notifies(v, t), tpWorker[v].token # 0 PROVE FALSE
      BY <1>0, <3>1 DEF TpWorkers, WorkerOK, Notifies, Appended, TP!AppendAwaiter, TP!Dispose, TP!Release
    <3> QED
      BY <1>0, <1>10, <3>1 DEF TpTypes, Uses, Appended, Notified, Notifies, TP!AppendAwaiter, TP!Dispose, TP!Release
  <2>3. /\ UNCHANGED <<tpNode, tpNodes, tpNewCancel>> /\ tpFree' = tpFree \cup {tpNode[t]}
        /\ tpPointer' = [tpPointer EXCEPT ![tpNode[t]] = NoTask]
        /\ tpPointer \in [1 .. TP!MaxNodes -> Tasks \cup {NoTask}]
    BY <1>0 DEF TpTypes, TP!AppendAwaiter, TP!Dispose, TP!Release
  <2>4. ASSUME NEW u \in Tasks PROVE UserOK(u)'
    <3>1. CASE u # t
      <4>1. UserOK(u) /\ (Uses(u) => tpNode[u] # tpNode[t])
        BY <1>0, <1>9, <3>1 DEF TpTokens
      <4>2. Uses(u) => tpNode[u] \in 1 .. TP!MaxNodes
        BY <1>0, <4>1 DEF UserOK, TpTypes
      <4> QED
        BY <2>1, <2>3, <3>1, <4>1, <4>2 DEF UserOK
    <3> QED
      BY <2>2, <3>1 DEF UserOK
  <2>5. ASSUME NEW n \in 1 .. TP!MaxNodes PROVE PointerOK(n)' /\ (tpPointer'[n] = tpPointer[n] \/ n = tpNode[t])
    <3>1. tpPointer[n] \in Tasks \cup {NoTask} /\ PointerOK(n)
      BY <1>0 DEF TpTypes, TpTokens
    <3> QED
      BY <2>1, <2>2, <2>3, <3>1 DEF PointerOK
  <2>6. ASSUME NEW n \in 1 .. tpNodes', n \notin tpFree' PROVE \E u \in Tasks : Uses(u)' /\ tpNode'[u] = n
    <3>1. PICK u \in Tasks : Uses(u) /\ tpNode[u] = n
      BY <1>0, <2>3, <2>6 DEF TpTokens
    <3> QED
      BY <2>1, <2>3, <2>6, <3>1
  <2>7. \A u \in Tasks : Pointed(u)' <=> (u # t /\ Pointed(u))
    <3>1. ~Pointed(t)'
      BY <1>9, <2>2, <2>5, <2>3 DEF Pointed, PointerOK
    <3>2. ASSUME NEW u \in Tasks, u # t PROVE Pointed(u)' <=> Pointed(u)
      BY <1>9, <1>10, <2>3, <3>2 DEF Pointed
    <3> QED
      BY <3>1, <3>2
  <2>8. \A r, u \in Tasks : Uses(r)' /\ Uses(u)' /\ tpNode'[r] = tpNode'[u] => r = u
    BY <1>0, <2>1, <2>2, <2>3 DEF TpTokens
  <2> QED
    BY <1>0, <1>9, <2>1, <2>2, <2>4, <2>5, <2>6, <2>7, <2>8 DEF TpTokens
<1>3. TpWorkers'
  <2>1. ASSUME NEW v \in Workers PROVE WorkerOK(v)'
    <3>1. WorkerOK(v)
      BY <1>0 DEF TpWorkers
    <3> QED
      BY <1>0, <1>2, <1>11, <3>1 DEF TpTypes, WorkerOK, TP!AppendAwaiter
  <2> QED
    BY <1>0, <2>1 DEF TpWorkers, SameTask, TP!AppendAwaiter
<1>4. TpQueue'
  BY <1>0, <1>11 DEF TpQueue, TP!AppendAwaiter
<1>5. TpAdds'
  <2>1. SUFFICES ASSUME NEW u \in Tasks PROVE AddOK(u)'
    BY DEF TpAdds
  <2>2. AddOK(u)
    BY <1>0 DEF TpAdds
  <2> QED
    BY <1>0, <1>2, <1>9, <1>10, <1>11, <2>2 DEF TpTypes, AddOK, Engaged, TP!AppendAwaiter, TP!Dispose, TP!Release
<1>6. TpRefs'
  <2>1. SUFFICES ASSUME NEW u \in Tasks PROVE RefsOK(u)'
    BY DEF TpRefs
  <2>2. RefsOK(u) /\ UNCHANGED <<tpHandle, tpHeld>> /\ (Engaged(u)' <=> Engaged(u))
    BY <1>0, <1>11 DEF TpRefs, Engaged, TP!AppendAwaiter, TP!Dispose, TP!Release
  <2> QED
    BY <1>0, <1>2, <1>9, <1>11, <2>2 DEF TpTypes, RefsOK, TP!Count
<1>7. TpWalk'
  <2>1. SUFFICES ASSUME NEW u \in Tasks PROVE WalkOK(u)'
    BY <1>0 DEF TpWalk, TP!AppendAwaiter, TP!Dispose, TP!Release
  <2>2. CASE u = t
    BY <1>0, <1>11, <2>2 DEF TpTypes, WalkOK, TP!AppendAwaiter, TP!Dispose, TP!Release
  <2>3. CASE u # t
    <3>1. WalkOK(u) /\ AddOK(u) /\ UserOK(u)
      BY <1>0 DEF TpWalk, TpAdds, TpTokens
    <3>2. tpAwaiter[u] # 0 => Uses(u) /\ tpNode[u] # tpNode[t] /\ tpNode[u] \in 1 .. TP!MaxNodes
      BY <1>0, <1>9, <2>3, <3>1 DEF Uses, TpTokens, TpTypes, UserOK
    <3> QED
      BY <1>0, <1>9, <1>11, <2>3, <3>1, <3>2 DEF TpTypes, WalkOK, AddOK, Engaged, Appended, TP!AppendAwaiter, TP!Dispose, TP!Release
  <2> QED
    BY <2>2, <2>3
<1>8. TP!NothingAfterStop'
  BY <1>0, <1>11 DEF TP!NothingAfterStop, TP!Alive, TP!AppendAwaiter
<1> QED
  BY <1>1, <1>2, <1>3, <1>4, <1>5, <1>6, <1>7, <1>8 DEF TpInv

\* The tokens stay as they are when the same tasks use them.
LEMMA TokensStayUsed ==
  ASSUME TpTypes, TpTokens, \A u \in Tasks : Uses(u)' <=> Uses(u),
         UNCHANGED <<tpAdd, tpNode, tpNodes, tpFree, tpPointer>>, tpNewCancel => tpNewCancel'
  PROVE  TpTokens'
<1>1. ASSUME NEW u \in Tasks PROVE UserOK(u)'
  BY DEF TpTokens, UserOK
<1>2. ASSUME NEW n \in 1 .. TP!MaxNodes PROVE PointerOK(n)'
  <2>1. tpPointer[n] \in Tasks \cup {NoTask} /\ PointerOK(n)
    BY DEF TpTypes, TpTokens
  <2> QED
    BY <2>1 DEF PointerOK
<1> QED
  BY <1>1, <1>2 DEF TpTokens

\* A worker takes a task, that no other worker has.
LEMMA TpPopTask ==
  ASSUME TpInv, NEW w \in Workers, tpWorker[w].at = "idle", NEW x \in tpQueue, x # StopMark,
         tpQueue' = tpQueue \ {x},
         tpWorker' = [tpWorker EXCEPT ![w] = [at |-> "run", task |-> x, token |-> 0]],
         tpLife' = [tpLife EXCEPT ![x] = "running"],
         UNCHANGED <<tpCancelled, tpRefs, TP!addVars, TP!poolVars, TP!cleanVars>>
  PROVE  TpInv'
<1> USE TpConstants DEF TP!taskVars, TP!addVars, TP!poolVars, TP!cleanVars
<1>0. TpTypes /\ TpWorkers /\ TpQueue /\ TpAdds /\ TpTokens /\ TpRefs /\ TpWalk /\ TP!NothingAfterStop
  BY DEF TpInv
<1>10. x \in Tasks /\ tpLife[x] = "queued"
  BY <1>0 DEF TpTypes, TpQueue
<1>9. \A u \in Tasks : /\ Engaged(u)' <=> Engaged(u)
                       /\ tpLife'[u] \in {"unborn", "bound", "gone"} <=> tpLife[u] \in {"unborn", "bound", "gone"}
                       /\ tpLife'[u] \in {"unborn", "gone"} <=> tpLife[u] \in {"unborn", "gone"}
                       /\ tpLife'[u] \in {"unborn", "bound"} <=> tpLife[u] \in {"unborn", "bound"}
  BY <1>0, <1>10 DEF TpTypes, Engaged
<1>1. TpTypes'
  <2>1. ASSUME NEW v \in Workers PROVE tpWorker'[v] \in [at : {"idle", "run", "notify", "stop", "exited"},
                                    task : Tasks \cup {NoTask}, token : 0 .. TP!MaxNodes]
    BY <1>0, <1>10 DEF TpTypes
  <2>2. tpWorker' = [v \in Workers |-> tpWorker'[v]]
    BY <1>0 DEF TpTypes
  <2>3. tpWorker' \in [Workers -> [at : {"idle", "run", "notify", "stop", "exited"},
                                   task : Tasks \cup {NoTask}, token : 0 .. TP!MaxNodes]]
    BY <2>1, <2>2
  <2> QED
    BY <1>0, <1>10, <2>3 DEF TpTypes
<1>2. /\ TpTokens'
      /\ \A u \in Tasks : /\ Uses(u)' <=> Uses(u)
                          /\ Appended(u)' <=> Appended(u)
                          /\ Notified(u)' <=> Notified(u)
                          /\ Pointed(u)' <=> Pointed(u)
  <2>1. ASSUME NEW v \in Workers, NEW u
        PROVE  /\ Notifies(v, u)' <=> Notifies(v, u)
               /\ Notifies(v, u) => tpWorker'[v].token = tpWorker[v].token
    BY <1>0 DEF TpTypes, Notifies, TP!Idle
  <2>2. UNCHANGED <<tpAdd, tpNode, tpAwaiter, tpNodes, tpFree, tpPointer, tpNewCancel>>
    OBVIOUS
  <2>3. \A u \in Tasks : /\ Uses(u)' <=> Uses(u)
                         /\ Appended(u)' <=> Appended(u)
                         /\ Notified(u)' <=> Notified(u)
                         /\ Pointed(u)' <=> Pointed(u)
    BY <2>1, <2>2 DEF Uses, Appended, Notified, Pointed
  <2> QED
    BY <1>0, <2>2, <2>3, TokensStayUsed
<1>3. TpWorkers'
  <2>1. ASSUME NEW v \in Workers PROVE WorkerOK(v)'
    <3>1. WorkerOK(v) /\ WorkerOK(w) /\ (SameTask(v, w) => v = w)
      BY <1>0, <1>10 DEF TpWorkers
    <3>2. CASE v = w
      BY <1>0, <1>10, <1>2, <3>1, <3>2 DEF TpTypes, WorkerOK, TP!Idle
    <3>3. CASE v # w
      BY <1>0, <1>10, <1>2, <3>1, <3>3 DEF TpTypes, WorkerOK, SameTask, TP!Idle
    <3> QED
      BY <3>2, <3>3
  <2>2. ASSUME NEW u \in Workers, NEW v \in Workers, SameTask(u, v)' PROVE u = v
    <3>1. WorkerOK(u) /\ WorkerOK(v) /\ (SameTask(u, v) => u = v)
      BY <1>0, <1>10 DEF TpWorkers
    <3> QED
      BY <1>0, <1>10, <2>2, <3>1 DEF TpTypes, WorkerOK, SameTask, TP!Idle
  <2> QED
    BY <2>1, <2>2 DEF TpWorkers
<1>4. TpQueue'
  BY <1>0 DEF TpTypes, TpQueue
<1>5. TpAdds'
  <2>1. SUFFICES ASSUME NEW u \in Tasks PROVE AddOK(u)'
    BY DEF TpAdds
  <2>2. AddOK(u) /\ UNCHANGED <<tpAdd, tpHandle, tpAwaiter, tpNode>>
    BY <1>0 DEF TpAdds
  <2> QED
    BY <1>2, <1>9, <2>2 DEF AddOK
<1>6. TpRefs'
  <2>1. SUFFICES ASSUME NEW u \in Tasks PROVE RefsOK(u)'
    BY DEF TpRefs
  <2>2. RefsOK(u) /\ UNCHANGED <<tpRefs, tpHandle, tpHeld>>
    BY <1>0 DEF TpRefs
  <2> QED
    BY <1>2, <1>9, <2>2 DEF RefsOK, TP!Count
<1>7. TpWalk'
  <2>1. SUFFICES ASSUME NEW u \in Tasks PROVE WalkOK(u)'
    BY <1>0 DEF TpWalk
  <2>2. WalkOK(u) /\ UNCHANGED <<tpNewCancel, tpAdd, tpCancelled, tpHeld, tpCleaner, tpNode, tpCursor, tpPointer>>
    BY <1>0 DEF TpWalk
  <2> QED
    BY <1>9, <2>2 DEF WalkOK
<1>8. TP!NothingAfterStop'
  <2>1. UNCHANGED tpCleaner
    OBVIOUS
  <2> QED
    BY <1>0, <1>9, <2>1 DEF TP!NothingAfterStop, TP!Alive
<1> QED
  BY <1>1, <1>2, <1>3, <1>4, <1>5, <1>6, <1>7, <1>8 DEF TpInv

\* Or it takes the stop mark.
LEMMA TpPopStop ==
  ASSUME TpInv, NEW w \in Workers, tpWorker[w].at = "idle", StopMark \in tpQueue, tpQueue' = tpQueue \ {StopMark},
         tpWorker' = [tpWorker EXCEPT ![w].at = "stop"], UNCHANGED tpLife,
         UNCHANGED <<tpCancelled, tpRefs, TP!addVars, TP!poolVars, TP!cleanVars>>
  PROVE  TpInv'
<1> USE TpConstants DEF TP!taskVars, TP!addVars, TP!poolVars, TP!cleanVars
<1>0. TpTypes /\ TpWorkers /\ TpQueue /\ TpAdds /\ TpTokens /\ TpRefs /\ TpWalk /\ TP!NothingAfterStop
  BY DEF TpInv
<1>9. \A u \in Tasks : /\ Engaged(u)' <=> Engaged(u)
                       /\ tpLife'[u] \in {"unborn", "bound", "gone"} <=> tpLife[u] \in {"unborn", "bound", "gone"}
                       /\ tpLife'[u] \in {"unborn", "gone"} <=> tpLife[u] \in {"unborn", "gone"}
                       /\ tpLife'[u] \in {"unborn", "bound"} <=> tpLife[u] \in {"unborn", "bound"}
  BY DEF Engaged
<1>1. TpTypes'
  <2>1. ASSUME NEW v \in Workers PROVE tpWorker'[v] \in [at : {"idle", "run", "notify", "stop", "exited"},
                                    task : Tasks \cup {NoTask}, token : 0 .. TP!MaxNodes]
    BY <1>0 DEF TpTypes, TP!Idle
  <2>2. tpWorker' = [v \in Workers |-> tpWorker'[v]]
    BY <1>0 DEF TpTypes
  <2>3. tpWorker' \in [Workers -> [at : {"idle", "run", "notify", "stop", "exited"},
                                   task : Tasks \cup {NoTask}, token : 0 .. TP!MaxNodes]]
    BY <2>1, <2>2
  <2> QED
    BY <1>0, <2>3 DEF TpTypes
<1>2. /\ TpTokens'
      /\ \A u \in Tasks : /\ Uses(u)' <=> Uses(u)
                          /\ Appended(u)' <=> Appended(u)
                          /\ Notified(u)' <=> Notified(u)
                          /\ Pointed(u)' <=> Pointed(u)
  <2>1. ASSUME NEW v \in Workers, NEW u
        PROVE  /\ Notifies(v, u)' <=> Notifies(v, u)
               /\ Notifies(v, u) => tpWorker'[v].token = tpWorker[v].token
    BY <1>0 DEF TpTypes, Notifies, TP!Idle
  <2>2. UNCHANGED <<tpAdd, tpNode, tpAwaiter, tpNodes, tpFree, tpPointer, tpNewCancel>>
    OBVIOUS
  <2>3. \A u \in Tasks : /\ Uses(u)' <=> Uses(u)
                         /\ Appended(u)' <=> Appended(u)
                         /\ Notified(u)' <=> Notified(u)
                         /\ Pointed(u)' <=> Pointed(u)
    BY <2>1, <2>2 DEF Uses, Appended, Notified, Pointed
  <2> QED
    BY <1>0, <2>2, <2>3, TokensStayUsed
<1>3. TpWorkers'
  <2>1. ASSUME NEW v \in Workers PROVE WorkerOK(v)'
    <3>1. WorkerOK(v) /\ WorkerOK(w) /\ (SameTask(v, w) => v = w)
      BY <1>0 DEF TpWorkers
    <3>2. CASE v = w
      BY <1>0, <1>2, <3>1, <3>2 DEF TpTypes, TpQueue, WorkerOK, TP!Idle
    <3>3. CASE v # w
      BY <1>0, <1>2, <3>1, <3>3 DEF TpTypes, TpQueue, WorkerOK, SameTask, TP!Idle
    <3> QED
      BY <3>2, <3>3
  <2>2. ASSUME NEW u \in Workers, NEW v \in Workers, SameTask(u, v)' PROVE u = v
    <3>1. WorkerOK(u) /\ WorkerOK(v) /\ (SameTask(u, v) => u = v)
      BY <1>0 DEF TpWorkers
    <3> QED
      BY <1>0, <2>2, <3>1 DEF TpTypes, TpQueue, WorkerOK, SameTask, TP!Idle
  <2> QED
    BY <2>1, <2>2 DEF TpWorkers
<1>4. TpQueue'
  BY <1>0 DEF TpTypes, TpQueue
<1>5. TpAdds'
  <2>1. SUFFICES ASSUME NEW u \in Tasks PROVE AddOK(u)'
    BY DEF TpAdds
  <2>2. AddOK(u) /\ UNCHANGED <<tpAdd, tpHandle, tpAwaiter, tpNode>>
    BY <1>0 DEF TpAdds
  <2> QED
    BY <1>2, <1>9, <2>2 DEF AddOK
<1>6. TpRefs'
  <2>1. SUFFICES ASSUME NEW u \in Tasks PROVE RefsOK(u)'
    BY DEF TpRefs
  <2>2. RefsOK(u) /\ UNCHANGED <<tpRefs, tpHandle, tpHeld>>
    BY <1>0 DEF TpRefs
  <2> QED
    BY <1>2, <1>9, <2>2 DEF RefsOK, TP!Count
<1>7. TpWalk'
  <2>1. SUFFICES ASSUME NEW u \in Tasks PROVE WalkOK(u)'
    BY <1>0 DEF TpWalk
  <2>2. WalkOK(u) /\ UNCHANGED <<tpNewCancel, tpAdd, tpCancelled, tpHeld, tpCleaner, tpNode, tpCursor, tpPointer>>
    BY <1>0 DEF TpWalk
  <2> QED
    BY <1>9, <2>2 DEF WalkOK
<1>8. TP!NothingAfterStop'
  <2>1. UNCHANGED tpCleaner
    OBVIOUS
  <2> QED
    BY <1>0, <1>9, <2>1 DEF TP!NothingAfterStop, TP!Alive
<1> QED
  BY <1>1, <1>2, <1>3, <1>4, <1>5, <1>6, <1>7, <1>8 DEF TpInv

\* The stop mark goes back, beside no task.
LEMMA TpReturnStop ==
  ASSUME TpInv, NEW w \in Workers, TP!ReturnStop(w)
  PROVE  TpInv'
<1> USE TpConstants DEF TP!taskVars, TP!addVars, TP!poolVars, TP!cleanVars
<1>0. TpTypes /\ TpWorkers /\ TpQueue /\ TpAdds /\ TpTokens /\ TpRefs /\ TpWalk /\ TP!NothingAfterStop
  BY DEF TpInv
<1>1. TpTypes'
  <2>1. ASSUME NEW v \in Workers PROVE tpWorker'[v] \in [at : {"idle", "run", "notify", "stop", "exited"},
                                    task : Tasks \cup {NoTask}, token : 0 .. TP!MaxNodes]
    BY <1>0 DEF TpTypes, TP!Idle, TP!ReturnStop
  <2>2. tpWorker' = [v \in Workers |-> tpWorker'[v]]
    BY <1>0 DEF TpTypes, TP!ReturnStop
  <2>3. tpWorker' \in [Workers -> [at : {"idle", "run", "notify", "stop", "exited"},
                                   task : Tasks \cup {NoTask}, token : 0 .. TP!MaxNodes]]
    BY <2>1, <2>2
  <2> QED
    BY <1>0, <2>3 DEF TpTypes, TP!ReturnStop
<1>2. /\ TpTokens'
      /\ \A u \in Tasks : /\ Uses(u)' <=> Uses(u)
                          /\ Appended(u)' <=> Appended(u)
                          /\ Notified(u)' <=> Notified(u)
                          /\ Pointed(u)' <=> Pointed(u)
  <2>1. ASSUME NEW v \in Workers, NEW u
        PROVE  /\ Notifies(v, u)' <=> Notifies(v, u)
               /\ Notifies(v, u) => tpWorker'[v].token = tpWorker[v].token
    BY <1>0 DEF TpTypes, Notifies, TP!Idle, TP!ReturnStop
  <2>2. UNCHANGED <<tpAdd, tpNode, tpAwaiter, tpNodes, tpFree, tpPointer, tpNewCancel>>
    BY DEF TP!ReturnStop
  <2>3. \A u \in Tasks : /\ Uses(u)' <=> Uses(u)
                         /\ Appended(u)' <=> Appended(u)
                         /\ Notified(u)' <=> Notified(u)
                         /\ Pointed(u)' <=> Pointed(u)
    BY <2>1, <2>2 DEF Uses, Appended, Notified, Pointed
  <2> QED
    BY <1>0, <2>2, <2>3, TokensStayUsed
<1>3. TpWorkers'
  <2>1. ASSUME NEW v \in Workers PROVE WorkerOK(v)'
    <3>1. WorkerOK(v) /\ WorkerOK(w) /\ (SameTask(v, w) => v = w)
      BY <1>0 DEF TpWorkers
    <3>2. CASE v = w
      BY <1>0, <1>2, <3>1, <3>2 DEF TpTypes, TpQueue, WorkerOK, TP!Idle, TP!ReturnStop
    <3>3. CASE v # w
      BY <1>0, <1>2, <3>1, <3>3 DEF TpTypes, TpQueue, WorkerOK, SameTask, TP!Idle, TP!ReturnStop
    <3> QED
      BY <3>2, <3>3
  <2>2. ASSUME NEW u \in Workers, NEW v \in Workers, SameTask(u, v)' PROVE u = v
    <3>1. WorkerOK(u) /\ WorkerOK(v) /\ (SameTask(u, v) => u = v)
      BY <1>0 DEF TpWorkers
    <3> QED
      BY <1>0, <2>2, <3>1 DEF TpTypes, TpQueue, WorkerOK, SameTask, TP!Idle, TP!ReturnStop
  <2> QED
    BY <2>1, <2>2 DEF TpWorkers
<1>4. TpQueue'
  BY <1>0 DEF TpTypes, TpQueue, TP!ReturnStop
<1>5. TpAdds'
  <2>1. SUFFICES ASSUME NEW u \in Tasks PROVE AddOK(u)'
    BY DEF TpAdds
  <2>2. AddOK(u) /\ RefsOK(u)
    BY <1>0 DEF TpAdds, TpRefs
  <2> QED
    BY <1>0, <1>2, <2>2 DEF TpTypes, AddOK, Engaged, TP!ReturnStop
<1>6. TpRefs'
  <2>1. SUFFICES ASSUME NEW u \in Tasks PROVE RefsOK(u)'
    BY DEF TpRefs
  <2>2. RefsOK(u)
    BY <1>0 DEF TpRefs
  <2> QED
    BY <1>0, <1>2, <2>2 DEF TpTypes, RefsOK, Engaged, TP!Count, TP!ReturnStop
<1>7. TpWalk'
  <2>1. SUFFICES ASSUME NEW u \in Tasks PROVE WalkOK(u)'
    BY <1>0 DEF TpWalk, TP!ReturnStop
  <2>2. WalkOK(u) /\ AddOK(u)
    BY <1>0 DEF TpWalk, TpAdds
  <2> QED
    BY <1>0, <1>2, <2>2 DEF TpTypes, WalkOK, AddOK, Engaged, TP!ReturnStop
<1>8. TP!NothingAfterStop'
  BY <1>0 DEF TpTypes, TpWorkers, WorkerOK, TP!NothingAfterStop, TP!Alive, TP!ReturnStop
<1> QED
  BY <1>1, <1>2, <1>3, <1>4, <1>5, <1>6, <1>7, <1>8 DEF TpInv

\* A step of a task ends with its sleep.
LEMMA TpSleep ==
  ASSUME TpInv, NEW w \in Workers, TP!Sleep(w)
  PROVE  TpInv'
<1> USE TpConstants DEF TP!taskVars, TP!addVars, TP!poolVars, TP!cleanVars
<1>0. TpTypes /\ TpWorkers /\ TpQueue /\ TpAdds /\ TpTokens /\ TpRefs /\ TpWalk /\ TP!NothingAfterStop
  BY DEF TpInv
<1>10. tpWorker[w].task \in Tasks /\ tpLife[tpWorker[w].task] = "running"
  BY <1>0 DEF TpWorkers, WorkerOK, TP!Sleep
<1>9. \A u \in Tasks : /\ Engaged(u)' <=> Engaged(u)
                       /\ tpLife'[u] \in {"unborn", "bound", "gone"} <=> tpLife[u] \in {"unborn", "bound", "gone"}
                       /\ tpLife'[u] \in {"unborn", "gone"} <=> tpLife[u] \in {"unborn", "gone"}
                       /\ tpLife'[u] \in {"unborn", "bound"} <=> tpLife[u] \in {"unborn", "bound"}
  BY <1>0, <1>10 DEF TpTypes, Engaged, TP!Sleep
<1>1. TpTypes'
  <2>1. ASSUME NEW v \in Workers PROVE tpWorker'[v] \in [at : {"idle", "run", "notify", "stop", "exited"},
                                    task : Tasks \cup {NoTask}, token : 0 .. TP!MaxNodes]
    BY <1>0 DEF TpTypes, TP!Idle, TP!Sleep
  <2>2. tpWorker' = [v \in Workers |-> tpWorker'[v]]
    BY <1>0 DEF TpTypes, TP!Sleep
  <2>3. tpWorker' \in [Workers -> [at : {"idle", "run", "notify", "stop", "exited"},
                                   task : Tasks \cup {NoTask}, token : 0 .. TP!MaxNodes]]
    BY <2>1, <2>2
  <2> QED
    BY <1>0, <2>3 DEF TpTypes, TP!Sleep
<1>2. /\ TpTokens'
      /\ \A u \in Tasks : /\ Uses(u)' <=> Uses(u)
                          /\ Appended(u)' <=> Appended(u)
                          /\ Notified(u)' <=> Notified(u)
                          /\ Pointed(u)' <=> Pointed(u)
  <2>1. ASSUME NEW v \in Workers, NEW u
        PROVE  /\ Notifies(v, u)' <=> Notifies(v, u)
               /\ Notifies(v, u) => tpWorker'[v].token = tpWorker[v].token
    BY <1>0 DEF TpTypes, Notifies, TP!Idle, TP!Sleep
  <2>2. UNCHANGED <<tpAdd, tpNode, tpAwaiter, tpNodes, tpFree, tpPointer, tpNewCancel>>
    BY DEF TP!Sleep
  <2>3. \A u \in Tasks : /\ Uses(u)' <=> Uses(u)
                         /\ Appended(u)' <=> Appended(u)
                         /\ Notified(u)' <=> Notified(u)
                         /\ Pointed(u)' <=> Pointed(u)
    BY <2>1, <2>2 DEF Uses, Appended, Notified, Pointed
  <2> QED
    BY <1>0, <2>2, <2>3, TokensStayUsed
<1>3. TpWorkers'
  <2>1. ASSUME NEW v \in Workers PROVE WorkerOK(v)'
    <3>1. WorkerOK(v) /\ WorkerOK(w) /\ (SameTask(v, w) => v = w)
      BY <1>0 DEF TpWorkers
    <3>2. CASE v = w
      BY <1>0, <1>2, <3>1, <3>2 DEF TpTypes, TpQueue, WorkerOK, TP!Idle, TP!Sleep
    <3>3. CASE v # w
      BY <1>0, <1>2, <3>1, <3>3 DEF TpTypes, TpQueue, WorkerOK, SameTask, TP!Idle, TP!Sleep
    <3> QED
      BY <3>2, <3>3
  <2>2. ASSUME NEW u \in Workers, NEW v \in Workers, SameTask(u, v)' PROVE u = v
    <3>1. WorkerOK(u) /\ WorkerOK(v) /\ (SameTask(u, v) => u = v)
      BY <1>0 DEF TpWorkers
    <3> QED
      BY <1>0, <2>2, <3>1 DEF TpTypes, TpQueue, WorkerOK, SameTask, TP!Idle, TP!Sleep
  <2> QED
    BY <2>1, <2>2 DEF TpWorkers
<1>4. TpQueue'
  BY <1>0, <1>10 DEF TpTypes, TpQueue, TP!Sleep
<1>5. TpAdds'
  <2>1. SUFFICES ASSUME NEW u \in Tasks PROVE AddOK(u)'
    BY DEF TpAdds
  <2>2. AddOK(u) /\ UNCHANGED <<tpAdd, tpHandle, tpAwaiter, tpNode>>
    BY <1>0 DEF TpAdds, TP!Sleep
  <2> QED
    BY <1>2, <1>9, <2>2 DEF AddOK
<1>6. TpRefs'
  <2>1. SUFFICES ASSUME NEW u \in Tasks PROVE RefsOK(u)'
    BY DEF TpRefs
  <2>2. RefsOK(u) /\ UNCHANGED <<tpRefs, tpHandle, tpHeld>>
    BY <1>0 DEF TpRefs, TP!Sleep
  <2> QED
    BY <1>2, <1>9, <2>2 DEF RefsOK, TP!Count
<1>7. TpWalk'
  <2>1. SUFFICES ASSUME NEW u \in Tasks PROVE WalkOK(u)'
    BY <1>0 DEF TpWalk, TP!Sleep
  <2>2. WalkOK(u) /\ UNCHANGED <<tpNewCancel, tpAdd, tpCancelled, tpHeld, tpCleaner, tpNode, tpCursor, tpPointer>>
    BY <1>0 DEF TpWalk, TP!Sleep
  <2> QED
    BY <1>9, <2>2 DEF WalkOK
<1>8. TP!NothingAfterStop'
  <2>1. UNCHANGED tpCleaner
    BY DEF TP!Sleep
  <2> QED
    BY <1>0, <1>9, <2>1 DEF TP!NothingAfterStop, TP!Alive
<1> QED
  BY <1>1, <1>2, <1>3, <1>4, <1>5, <1>6, <1>7, <1>8 DEF TpInv

\* The flag of the shutdown leaves all as it is.
LEMMA TpInitiateShutdown ==
  ASSUME TpInv, TP!InitiateShutdown
  PROVE  TpInv'
<1> USE TpConstants DEF TP!taskVars, TP!addVars, TP!poolVars, TP!cleanVars
<1>0. TpTypes /\ TpWorkers /\ TpQueue /\ TpAdds /\ TpTokens /\ TpRefs /\ TpWalk /\ TP!NothingAfterStop
  BY DEF TpInv
<1>1. TpTypes'
  BY <1>0 DEF TpTypes, TP!InitiateShutdown
<1>2. /\ TpTokens'
      /\ \A u \in Tasks : /\ Uses(u)' <=> Uses(u)
                          /\ Appended(u)' <=> Appended(u)
                          /\ Notified(u)' <=> Notified(u)
                          /\ Pointed(u)' <=> Pointed(u)
  BY <1>0, TokensStay DEF TP!InitiateShutdown
<1>3. TpWorkers'
  <2>1. ASSUME NEW v \in Workers PROVE WorkerOK(v)'
    <3>1. WorkerOK(v)
      BY <1>0 DEF TpWorkers
    <3> QED
      BY <1>0, <1>2, <3>1 DEF TpTypes, WorkerOK, TP!InitiateShutdown
  <2> QED
    BY <1>0, <2>1 DEF TpWorkers, SameTask, TP!InitiateShutdown
<1>4. TpQueue'
  BY <1>0 DEF TpTypes, TpQueue, TP!InitiateShutdown
<1>5. TpAdds'
  <2>1. SUFFICES ASSUME NEW u \in Tasks PROVE AddOK(u)'
    BY DEF TpAdds
  <2>2. AddOK(u) /\ RefsOK(u)
    BY <1>0 DEF TpAdds, TpRefs
  <2> QED
    BY <1>0, <1>2, <2>2 DEF TpTypes, AddOK, Engaged, TP!InitiateShutdown
<1>6. TpRefs'
  <2>1. SUFFICES ASSUME NEW u \in Tasks PROVE RefsOK(u)'
    BY DEF TpRefs
  <2>2. RefsOK(u)
    BY <1>0 DEF TpRefs
  <2> QED
    BY <1>0, <1>2, <2>2 DEF TpTypes, RefsOK, Engaged, TP!Count, TP!InitiateShutdown
<1>7. TpWalk'
  <2>1. SUFFICES ASSUME NEW u \in Tasks PROVE WalkOK(u)'
    BY <1>0 DEF TpWalk, TP!InitiateShutdown
  <2>2. WalkOK(u) /\ AddOK(u)
    BY <1>0 DEF TpWalk, TpAdds
  <2> QED
    BY <1>0, <1>2, <2>2 DEF TpTypes, WalkOK, AddOK, Engaged, TP!InitiateShutdown
<1>8. TP!NothingAfterStop'
  BY <1>0 DEF TpTypes, TpWorkers, WorkerOK, TP!NothingAfterStop, TP!Alive, TP!InitiateShutdown
<1> QED
  BY <1>1, <1>2, <1>3, <1>4, <1>5, <1>6, <1>7, <1>8 DEF TpInv

\* So does the join of the workers.
LEMMA TpJoin ==
  ASSUME TpInv, TP!Join
  PROVE  TpInv'
<1> USE TpConstants DEF TP!taskVars, TP!addVars, TP!poolVars, TP!cleanVars
<1>0. TpTypes /\ TpWorkers /\ TpQueue /\ TpAdds /\ TpTokens /\ TpRefs /\ TpWalk /\ TP!NothingAfterStop
  BY DEF TpInv
<1>1. TpTypes'
  BY <1>0 DEF TpTypes, TP!Join
<1>2. /\ TpTokens'
      /\ \A u \in Tasks : /\ Uses(u)' <=> Uses(u)
                          /\ Appended(u)' <=> Appended(u)
                          /\ Notified(u)' <=> Notified(u)
                          /\ Pointed(u)' <=> Pointed(u)
  BY <1>0, TokensStay DEF TP!Join
<1>3. TpWorkers'
  <2>1. ASSUME NEW v \in Workers PROVE WorkerOK(v)'
    <3>1. WorkerOK(v)
      BY <1>0 DEF TpWorkers
    <3> QED
      BY <1>0, <1>2, <3>1 DEF TpTypes, WorkerOK, TP!Join
  <2> QED
    BY <1>0, <2>1 DEF TpWorkers, SameTask, TP!Join
<1>4. TpQueue'
  BY <1>0 DEF TpTypes, TpQueue, TP!Join
<1>5. TpAdds'
  <2>1. SUFFICES ASSUME NEW u \in Tasks PROVE AddOK(u)'
    BY DEF TpAdds
  <2>2. AddOK(u) /\ RefsOK(u)
    BY <1>0 DEF TpAdds, TpRefs
  <2> QED
    BY <1>0, <1>2, <2>2 DEF TpTypes, AddOK, Engaged, TP!Join
<1>6. TpRefs'
  <2>1. SUFFICES ASSUME NEW u \in Tasks PROVE RefsOK(u)'
    BY DEF TpRefs
  <2>2. RefsOK(u)
    BY <1>0 DEF TpRefs
  <2> QED
    BY <1>0, <1>2, <2>2 DEF TpTypes, RefsOK, Engaged, TP!Count, TP!Join
<1>7. TpWalk'
  <2>1. SUFFICES ASSUME NEW u \in Tasks PROVE WalkOK(u)'
    BY <1>0 DEF TpWalk, TP!Join
  <2>2. WalkOK(u) /\ AddOK(u)
    BY <1>0 DEF TpWalk, TpAdds
  <2> QED
    BY <1>0, <1>2, <2>2 DEF TpTypes, WalkOK, AddOK, Engaged, TP!Join
<1>8. TP!NothingAfterStop'
  BY <1>0 DEF TpTypes, TpWorkers, WorkerOK, TP!NothingAfterStop, TP!Alive, TP!Join
<1> QED
  BY <1>1, <1>2, <1>3, <1>4, <1>5, <1>6, <1>7, <1>8 DEF TpInv

\* The queue is stopped when no context is left.
LEMMA TpStopProcessing ==
  ASSUME TpInv, TP!StopProcessing
  PROVE  TpInv'
<1> USE TpConstants DEF TP!taskVars, TP!addVars, TP!poolVars, TP!cleanVars
<1>0. TpTypes /\ TpWorkers /\ TpQueue /\ TpAdds /\ TpTokens /\ TpRefs /\ TpWalk /\ TP!NothingAfterStop
  BY DEF TpInv
<1>1. TpTypes'
  BY <1>0 DEF TpTypes, TP!StopProcessing
<1>2. /\ TpTokens'
      /\ \A u \in Tasks : /\ Uses(u)' <=> Uses(u)
                          /\ Appended(u)' <=> Appended(u)
                          /\ Notified(u)' <=> Notified(u)
                          /\ Pointed(u)' <=> Pointed(u)
  BY <1>0, TokensStay DEF TP!StopProcessing
<1>3. TpWorkers'
  <2>1. ASSUME NEW v \in Workers PROVE WorkerOK(v)'
    <3>1. WorkerOK(v)
      BY <1>0 DEF TpWorkers
    <3> QED
      BY <1>0, <1>2, <3>1 DEF TpTypes, WorkerOK, TP!StopProcessing
  <2> QED
    BY <1>0, <2>1 DEF TpWorkers, SameTask, TP!StopProcessing
<1>4. TpQueue'
  BY <1>0 DEF TpTypes, TpQueue, TP!StopProcessing
<1>5. TpAdds'
  <2>1. SUFFICES ASSUME NEW u \in Tasks PROVE AddOK(u)'
    BY DEF TpAdds
  <2>2. AddOK(u) /\ RefsOK(u)
    BY <1>0 DEF TpAdds, TpRefs
  <2> QED
    BY <1>0, <1>2, <2>2 DEF TpTypes, AddOK, Engaged, TP!StopProcessing
<1>6. TpRefs'
  <2>1. SUFFICES ASSUME NEW u \in Tasks PROVE RefsOK(u)'
    BY DEF TpRefs
  <2>2. RefsOK(u)
    BY <1>0 DEF TpRefs
  <2> QED
    BY <1>0, <1>2, <2>2 DEF TpTypes, RefsOK, Engaged, TP!Count, TP!StopProcessing
<1>7. TpWalk'
  <2>1. SUFFICES ASSUME NEW u \in Tasks PROVE WalkOK(u)'
    BY <1>0 DEF TpWalk, TP!StopProcessing
  <2>2. WalkOK(u) /\ AddOK(u)
    BY <1>0 DEF TpWalk, TpAdds
  <2> QED
    BY <1>0, <1>2, <2>2 DEF TpTypes, WalkOK, AddOK, Engaged, TP!StopProcessing
<1>8. TP!NothingAfterStop'
  BY <1>0 DEF TpTypes, TpWorkers, WorkerOK, TP!NothingAfterStop, TP!Alive, TP!StopProcessing
<1> QED
  BY <1>1, <1>2, <1>3, <1>4, <1>5, <1>6, <1>7, <1>8 DEF TpInv

\* A task is complete: its token goes from its awaiters to the worker that notifies.
LEMMA TpComplete ==
  ASSUME TpInv, NEW w \in Workers, TP!Complete(w)
  PROVE  TpInv'
<1> USE TpConstants DEF TP!taskVars, TP!addVars, TP!poolVars, TP!cleanVars
<1>0. TpTypes /\ TpWorkers /\ TpQueue /\ TpAdds /\ TpTokens /\ TpRefs /\ TpWalk /\ TP!NothingAfterStop
  BY DEF TpInv
<1>9. PICK t \in Tasks : /\ t = tpWorker[w].task /\ tpLife[t] = "running"
                         /\ AddOK(t) /\ \A v \in Workers : ~Notifies(v, t)
  BY <1>0 DEF TpWorkers, TpAdds, WorkerOK, Notifies, TP!Complete
<1>10. /\ tpWorker' = [tpWorker EXCEPT ![w] = [at |-> "notify", task |-> t, token |-> tpAwaiter[t]]]
       /\ tpLife' = [tpLife EXCEPT ![t] = "finished"]
       /\ tpAwaiter' = [tpAwaiter EXCEPT ![t] = 0]
       /\ UNCHANGED <<tpCancelled, tpRefs, tpHandle, tpAdd, tpNode, TP!poolVars, TP!cleanVars, tpQueue>>
  BY <1>9 DEF TP!Complete
<1>1. TpTypes'
  BY <1>0, <1>10 DEF TpTypes
<1>2. /\ TpTokens'
      /\ \A u \in Tasks : /\ Uses(u)' <=> Uses(u)
                          /\ Appended(u)' <=> Appended(u)
                          /\ Notified(u)' <=> (u = t \/ Notified(u))
                          /\ Pointed(u)' <=> Pointed(u)
  <2>1. ASSUME NEW v \in Workers, NEW u \in Tasks
        PROVE  /\ Notifies(v, u)' <=> ((v = w /\ u = t) \/ Notifies(v, u))
               /\ v # w => tpWorker'[v].token = tpWorker[v].token
               /\ v = w => tpWorker'[v].token = tpAwaiter[t]
    BY <1>0, <1>9, <1>10 DEF TpTypes, TpWorkers, WorkerOK, Notifies, TP!Complete
  <2>2. tpWorker[w].at = "run"
    BY DEF TP!Complete
  <2>3. ASSUME NEW u \in Tasks, u # t
        PROVE  (Uses(u)' <=> Uses(u)) /\ (Notified(u)' <=> Notified(u))
    <3>1. ~Notifies(w, u) /\ tpAwaiter'[u] = tpAwaiter[u] /\ tpAdd'[u] = tpAdd[u]
      BY <1>0, <1>10, <2>2, <2>3 DEF TpTypes, Notifies
    <3> QED
      BY <2>1, <2>3, <3>1 DEF Uses, Notified
  <2>4. (Uses(t)' <=> Uses(t)) /\ Notified(t)'
    <3>1. tpAwaiter'[t] = 0 /\ tpAdd'[t] = tpAdd[t]
      BY <1>0, <1>10 DEF TpTypes
    <3> QED
      BY <1>9, <2>1, <3>1 DEF Uses, Notified
  <2>5. TpTokens'
    BY <1>0, <1>10, <2>3, <2>4, TokensStayUsed
  <2> QED
    BY <1>10, <2>3, <2>4, <2>5 DEF Appended, Pointed
<1>3. TpWorkers'
  <2>1. ASSUME NEW v \in Workers PROVE WorkerOK(v)'
    <3>1. WorkerOK(v) /\ (SameTask(v, w) => v = w)
      BY <1>0 DEF TpWorkers
    <3>2. CASE v = w
      BY <1>0, <1>2, <1>9, <1>10, <3>2 DEF TpTypes, AddOK, WorkerOK
    <3>3. CASE v # w
      BY <1>0, <1>2, <1>9, <1>10, <3>1, <3>3 DEF TpTypes, WorkerOK, SameTask, TP!Complete
    <3> QED
      BY <3>2, <3>3
  <2>2. ASSUME NEW u \in Workers, NEW v \in Workers, SameTask(u, v)' PROVE u = v
    <3>1. SameTask(u, v) => u = v
      BY <1>0 DEF TpWorkers
    <3>2. \A s \in Workers : /\ tpWorker'[s].at \in {"run", "notify"} => tpWorker[s].at \in {"run", "notify"}
                             /\ tpWorker'[s].task = tpWorker[s].task
      BY <1>0, <1>9, <1>10 DEF TpTypes, TP!Complete
    <3> QED
      BY <2>2, <3>1, <3>2 DEF SameTask
  <2> QED
    BY <2>1, <2>2 DEF TpWorkers
<1>4. TpQueue'
  BY <1>0, <1>9, <1>10 DEF TpTypes, TpQueue
<1>5. TpAdds'
  <2>1. SUFFICES ASSUME NEW u \in Tasks PROVE AddOK(u)'
    BY DEF TpAdds
  <2>2. AddOK(u)
    BY <1>0 DEF TpAdds
  <2>3. CASE u = t
    BY <1>0, <1>2, <1>9, <1>10, <2>3 DEF TpTypes, AddOK, Engaged
  <2>4. CASE u # t
    BY <1>0, <1>2, <1>10, <2>2, <2>4 DEF TpTypes, AddOK, Engaged
  <2> QED
    BY <2>3, <2>4
<1>6. TpRefs'
  <2>1. SUFFICES ASSUME NEW u \in Tasks PROVE RefsOK(u)'
    BY DEF TpRefs
  <2>2. RefsOK(u) /\ (u = t => ~Notified(u))
    BY <1>0, <1>9 DEF TpRefs, Notified
  <2>3. CASE u = t
    BY <1>0, <1>2, <1>9, <1>10, <2>2, <2>3 DEF TpTypes, RefsOK, Engaged, TP!Count
  <2>4. CASE u # t
    BY <1>0, <1>2, <1>10, <2>2, <2>4 DEF TpTypes, RefsOK, Engaged, TP!Count
  <2> QED
    BY <2>3, <2>4
<1>7. TpWalk'
  <2>1. SUFFICES ASSUME NEW u \in Tasks PROVE WalkOK(u)'
    BY <1>0, <1>10 DEF TpWalk
  <2>2. WalkOK(u)
    BY <1>0 DEF TpWalk
  <2> QED
    BY <1>0, <1>10, <2>2 DEF TpTypes, WalkOK, Engaged
<1>8. TP!NothingAfterStop'
  BY <1>0, <1>9, <1>10 DEF TpTypes, TP!NothingAfterStop, TP!Alive
<1> QED
  BY <1>1, <1>2, <1>3, <1>4, <1>5, <1>6, <1>7, <1>8 DEF TpInv

\* A worker lets go of a finished task without a token.
LEMMA TpNotifyNobody ==
  ASSUME TpInv, NEW w \in Workers, TP!NotifyAll(w),
         tpWorker[w].token = 0
  PROVE  TpInv'
<1> USE TpConstants DEF TP!taskVars, TP!addVars, TP!poolVars, TP!cleanVars
<1>0. TpTypes /\ TpWorkers /\ TpQueue /\ TpAdds /\ TpTokens /\ TpRefs /\ TpWalk /\ TP!NothingAfterStop
  BY DEF TpInv
<1>9. PICK t \in Tasks : /\ t = tpWorker[w].task /\ tpLife[t] = "finished"
                         /\ AddOK(t) /\ RefsOK(t) /\ Notified(t) /\ ~Engaged(t)
                         /\ \A v \in Workers : Notifies(v, t) => v = w
  <2>1. WorkerOK(w) /\ \A v \in Workers : SameTask(v, w) => v = w
    BY <1>0 DEF TpWorkers
  <2> QED
    BY <1>0, <2>1 DEF TpAdds, TpRefs, WorkerOK, SameTask, Notified, Notifies, Engaged, TP!NotifyAll
<1>10. /\ tpWorker' = [tpWorker EXCEPT ![w] = TP!Idle]
       /\ tpRefs' = [tpRefs EXCEPT ![t] = @ - 1]
       /\ tpLife' = IF tpRefs[t] = 1 THEN [tpLife EXCEPT ![t] = "gone"] ELSE tpLife
       /\ UNCHANGED <<tpCancelled, TP!addVars, TP!poolVars, TP!cleanVars, tpQueue>>
  BY <1>9 DEF TP!NotifyAll, TP!Release
<1>1. TpTypes'
  <2>1. tpWorker' \in [Workers -> [at : {"idle", "run", "notify", "stop", "exited"},
                                   task : Tasks \cup {NoTask}, token : 0 .. TP!MaxNodes]]
    BY <1>0, <1>10 DEF TpTypes, TP!Idle
  <2> QED
    BY <1>0, <1>10, <2>1 DEF TpTypes
<1>2. /\ TpTokens'
      /\ \A u \in Tasks : /\ Uses(u)' <=> Uses(u)
                          /\ Appended(u)' <=> Appended(u)
                          /\ Notified(u)' <=> (u # t /\ Notified(u))
                          /\ Pointed(u)' <=> Pointed(u)
  <2>1. ASSUME NEW v \in Workers, NEW u \in Tasks
        PROVE  /\ Notifies(v, u)' <=> (v # w /\ Notifies(v, u))
               /\ v # w => tpWorker'[v].token = tpWorker[v].token
    BY <1>0, <1>10 DEF TpTypes, Notifies, TP!Idle
  <2>2. ASSUME NEW u \in Tasks PROVE (Uses(u)' <=> Uses(u)) /\ (Notified(u)' <=> (u # t /\ Notified(u)))
    <3>1. ~Notifies(w, u) \/ u = t
      BY <1>9 DEF Notifies
    <3>2. UNCHANGED <<tpAwaiter, tpAdd>>
      BY <1>10
    <3> QED
      BY <1>9, <2>1, <3>1, <3>2 DEF Uses, Notified
  <2>3. TpTokens'
    BY <1>0, <1>10, <2>2, TokensStayUsed
  <2> QED
    BY <1>10, <2>2, <2>3 DEF Appended, Pointed
<1>3. TpWorkers'
  <2>1. ASSUME NEW v \in Workers PROVE WorkerOK(v)'
    <3>1. WorkerOK(v) /\ (SameTask(v, w) => v = w)
      BY <1>0 DEF TpWorkers
    <3>2. CASE v = w
      BY <1>0, <1>10, <3>2 DEF TpTypes, WorkerOK, TP!Idle
    <3>3. CASE v # w
      BY <1>0, <1>2, <1>9, <1>10, <3>1, <3>3 DEF TpTypes, WorkerOK, SameTask, TP!NotifyAll
    <3> QED
      BY <3>2, <3>3
  <2>2. ASSUME NEW u \in Workers, NEW v \in Workers, SameTask(u, v)' PROVE u = v
    <3>1. SameTask(u, v) => u = v
      BY <1>0 DEF TpWorkers
    <3>2. u # w /\ v # w
      BY <1>0, <1>10, <2>2 DEF TpTypes, SameTask, TP!Idle
    <3> QED
      BY <1>0, <1>10, <2>2, <3>1, <3>2 DEF TpTypes, SameTask
  <2> QED
    BY <2>1, <2>2 DEF TpWorkers
<1>4. TpQueue'
  BY <1>0, <1>9, <1>10 DEF TpTypes, TpQueue
<1>5. TpAdds'
  <2>1. SUFFICES ASSUME NEW u \in Tasks PROVE AddOK(u)'
    BY DEF TpAdds
  <2>2. AddOK(u) /\ (Engaged(u)' <=> Engaged(u))
    BY <1>0, <1>9, <1>10 DEF TpTypes, TpAdds, Engaged
  <2> QED
    BY <1>0, <1>2, <1>9, <1>10, <2>2 DEF TpTypes, AddOK
<1>6. TpRefs'
  <2>1. SUFFICES ASSUME NEW u \in Tasks PROVE RefsOK(u)'
    BY DEF TpRefs
  <2>2. RefsOK(u)
    BY <1>0 DEF TpRefs
  <2>3. CASE u = t
    BY <1>0, <1>2, <1>9, <1>10, <2>2, <2>3 DEF TpTypes, RefsOK, Engaged, TP!Count
  <2>4. CASE u # t
    BY <1>0, <1>2, <1>10, <2>2, <2>4 DEF TpTypes, RefsOK, Engaged, TP!Count
  <2> QED
    BY <2>3, <2>4
<1>7. TpWalk'
  <2>1. SUFFICES ASSUME NEW u \in Tasks PROVE WalkOK(u)'
    BY <1>0, <1>10 DEF TpWalk
  <2>2. WalkOK(u) /\ AddOK(u) /\ UserOK(u) /\ (Engaged(u)' <=> Engaged(u))
    BY <1>0, <1>9, <1>10 DEF TpTypes, TpWalk, TpAdds, TpTokens, Engaged
  <2> QED
    BY <1>0, <1>9, <1>10, <2>2 DEF TpTypes, WalkOK
<1>8. TP!NothingAfterStop'
  BY <1>0, <1>9, <1>10 DEF TpTypes, TP!NothingAfterStop, TP!Alive
<1> QED
  BY <1>1, <1>2, <1>3, <1>4, <1>5, <1>6, <1>7, <1>8 DEF TpInv

\* A worker notifies the token of a finished task, which is disposed of with its reference.
LEMMA TpNotifyToken ==
  ASSUME TpInv, NEW w \in Workers, TP!NotifyAll(w),
         tpWorker[w].token # 0
  PROVE  TpInv'
<1> USE TpConstants DEF TP!taskVars, TP!addVars, TP!poolVars, TP!cleanVars
<1>0. TpTypes /\ TpWorkers /\ TpQueue /\ TpAdds /\ TpTokens /\ TpRefs /\ TpWalk /\ TP!NothingAfterStop
  BY DEF TpInv
<1>9. PICK t \in Tasks : /\ t = tpWorker[w].task /\ tpLife[t] = "finished"
                         /\ AddOK(t) /\ RefsOK(t) /\ Notified(t) /\ ~Engaged(t)
                         /\ \A v \in Workers : Notifies(v, t) => v = w
  <2>1. WorkerOK(w) /\ \A v \in Workers : SameTask(v, w) => v = w
    BY <1>0 DEF TpWorkers
  <2> QED
    BY <1>0, <2>1 DEF TpAdds, TpRefs, WorkerOK, SameTask, Notified, Notifies, Engaged, TP!NotifyAll
<1>11. /\ tpWorker[w].token = tpNode[t] /\ Appended(t) /\ Uses(t) /\ UserOK(t)
       /\ tpNode[t] \in 1 .. TP!MaxNodes
       /\ tpPointer[tpNode[t]] \in {NoTask, t} /\ (Pointed(t) <=> tpPointer[tpNode[t]] = t)
       /\ tpAwaiter[t] = 0
  <2>1. tpWorker[w].token = tpNode[t] /\ Appended(t) /\ Uses(t) /\ UserOK(t)
    BY <1>0, <1>9 DEF TpWorkers, TpTokens, WorkerOK, Uses, Notified, Notifies, TP!NotifyAll
  <2>2. tpNode[t] \in 1 .. TP!MaxNodes
    BY <1>0, <2>1 DEF TpTypes, UserOK
  <2>3. ASSUME NEW n \in 1 .. TP!MaxNodes, n = tpNode[t] \/ tpPointer[n] = t
        PROVE  tpPointer[n] \in {NoTask, t} /\ (tpPointer[n] = t => n = tpNode[t])
    <3>1. tpPointer[n] \in Tasks \cup {NoTask} /\ PointerOK(n)
      BY <1>0 DEF TpTypes, TpTokens
    <3> QED
      BY <1>0, <2>1, <2>3, <3>1 DEF PointerOK, TpTokens
  <2> QED
    BY <1>9, <2>1, <2>2, <2>3 DEF Pointed, AddOK
<1> DEFINE k == 1 + IF tpPointer[tpNode[t]] = NoTask THEN 0 ELSE 1
<1>10. /\ tpWorker' = [tpWorker EXCEPT ![w] = TP!Idle]
       /\ tpRefs' = [tpRefs EXCEPT ![t] = @ - k]
       /\ tpLife' = IF tpRefs[t] = k THEN [tpLife EXCEPT ![t] = "gone"] ELSE tpLife
       /\ tpFree' = tpFree \cup {tpNode[t]}
       /\ tpPointer' = [tpPointer EXCEPT ![tpNode[t]] = NoTask]
       /\ UNCHANGED <<tpCancelled, TP!addVars, tpNodes, TP!cleanVars, tpQueue>>
  BY <1>9, <1>11 DEF TP!NotifyAll, TP!Dispose, TP!Release
<1>12. k \in Int /\ k = TP!Count(Notified(t)) + TP!Count(Pointed(t))
  BY <1>9, <1>11 DEF TP!Count
<1> HIDE DEF k
<1>1. TpTypes'
  <2>1. tpWorker' \in [Workers -> [at : {"idle", "run", "notify", "stop", "exited"},
                                   task : Tasks \cup {NoTask}, token : 0 .. TP!MaxNodes]]
    BY <1>0, <1>10 DEF TpTypes, TP!Idle
  <2>2. tpFree' \subseteq 1 .. tpNodes'
    BY <1>0, <1>10, <1>11 DEF TpTypes, UserOK
  <2>3. tpRefs' \in [Tasks -> Int]
    BY <1>0, <1>10, <1>12 DEF TpTypes
  <2> QED
    BY <1>0, <1>10, <2>1, <2>2, <2>3 DEF TpTypes
<1>2. /\ TpTokens'
      /\ \A u \in Tasks : /\ u # t => (Uses(u)' <=> Uses(u))
                          /\ Appended(u)' <=> Appended(u)
                          /\ Notified(u)' <=> (u # t /\ Notified(u))
                          /\ Pointed(u)' <=> (u # t /\ Pointed(u))
  <2>1. ASSUME NEW v \in Workers, NEW u \in Tasks
        PROVE  /\ Notifies(v, u)' <=> (v # w /\ Notifies(v, u))
               /\ v # w => tpWorker'[v].token = tpWorker[v].token
    BY <1>0, <1>10 DEF TpTypes, Notifies, TP!Idle
  <2>2. UNCHANGED <<tpAwaiter, tpAdd, tpNode, tpNodes, tpNewCancel>>
    BY <1>10
  <2>3. ASSUME NEW u \in Tasks, u # t
        PROVE  (Uses(u)' <=> Uses(u)) /\ (Notified(u)' <=> Notified(u))
    <3>1. ~Notifies(w, u)
      BY <1>9, <2>3 DEF Notifies
    <3> QED
      BY <2>1, <2>2, <2>3, <3>1 DEF Uses, Notified
  <2>4. ~Uses(t)' /\ ~Notified(t)'
    <3>1. tpAdd[t] \notin {"acquired", "stored"}
      BY <1>11 DEF Appended
    <3> QED
      BY <1>9, <1>11, <2>1, <2>2, <3>1 DEF Uses, Notified
  <2>5. ASSUME NEW u \in Tasks PROVE UserOK(u)'
    <3>1. CASE u # t
      <4>1. UserOK(u) /\ (Uses(u) => tpNode[u] # tpNode[t])
        BY <1>0, <1>11, <3>1 DEF TpTokens
      <4>2. Uses(u) => tpNode[u] \in 1 .. TP!MaxNodes
        BY <1>0, <4>1 DEF UserOK, TpTypes
      <4>3. tpPointer \in [1 .. TP!MaxNodes -> Tasks \cup {NoTask}]
        BY <1>0 DEF TpTypes
      <4> QED
        BY <1>10, <2>2, <2>3, <3>1, <4>1, <4>2, <4>3 DEF UserOK
    <3> QED
      BY <2>4, <3>1 DEF UserOK
  <2>6. ASSUME NEW n \in 1 .. TP!MaxNodes
        PROVE  PointerOK(n)' /\ tpPointer'[n] = IF n = tpNode[t] THEN NoTask ELSE tpPointer[n]
    <3>1. tpPointer[n] \in Tasks \cup {NoTask} /\ PointerOK(n)
      BY <1>0 DEF TpTypes, TpTokens
    <3>2. tpPointer'[n] = IF n = tpNode[t] THEN NoTask ELSE tpPointer[n]
      BY <1>0, <1>10 DEF TpTypes
    <3> QED
      BY <1>11, <2>2, <2>3, <3>1, <3>2 DEF PointerOK
  <2>7. ASSUME NEW n \in 1 .. tpNodes', n \notin tpFree' PROVE \E u \in Tasks : Uses(u)' /\ tpNode'[u] = n
    <3>1. PICK u \in Tasks : Uses(u) /\ tpNode[u] = n
      BY <1>0, <1>10, <2>7 DEF TpTokens
    <3> QED
      BY <1>10, <2>3, <2>7, <3>1
  <2>8. \A u \in Tasks : Pointed(u)' <=> (u # t /\ Pointed(u))
    <3>1. ~Pointed(t)'
      BY <2>4, <2>6 DEF Pointed, PointerOK
    <3>2. ASSUME NEW u \in Tasks, u # t PROVE Pointed(u)' <=> Pointed(u)
      BY <1>11, <2>6, <3>2 DEF Pointed
    <3> QED
      BY <3>1, <3>2
  <2>9. \A s, u \in Tasks : Uses(s)' /\ Uses(u)' /\ tpNode'[s] = tpNode'[u] => s = u
    BY <1>0, <2>2, <2>3, <2>4 DEF TpTokens
  <2>10. \A u \in Tasks : Appended(u)' <=> Appended(u)
    BY <2>2 DEF Appended
  <2> QED
    BY <2>3, <2>4, <2>5, <2>6, <2>7, <2>8, <2>9, <2>10 DEF TpTokens
<1>3. TpWorkers'
  <2>1. ASSUME NEW v \in Workers PROVE WorkerOK(v)'
    <3>1. WorkerOK(v) /\ (SameTask(v, w) => v = w)
      BY <1>0 DEF TpWorkers
    <3>2. CASE v = w
      BY <1>0, <1>10, <3>2 DEF TpTypes, WorkerOK, TP!Idle
    <3>3. CASE v # w
      BY <1>0, <1>2, <1>9, <1>10, <3>1, <3>3 DEF TpTypes, WorkerOK, SameTask, TP!NotifyAll
    <3> QED
      BY <3>2, <3>3
  <2>2. ASSUME NEW u \in Workers, NEW v \in Workers, SameTask(u, v)' PROVE u = v
    <3>1. SameTask(u, v) => u = v
      BY <1>0 DEF TpWorkers
    <3>2. u # w /\ v # w
      BY <1>0, <1>10, <2>2 DEF TpTypes, SameTask, TP!Idle
    <3> QED
      BY <1>0, <1>10, <2>2, <3>1, <3>2 DEF TpTypes, SameTask
  <2> QED
    BY <2>1, <2>2 DEF TpWorkers
<1>4. TpQueue'
  BY <1>0, <1>9, <1>10 DEF TpTypes, TpQueue
<1>5. TpAdds'
  <2>1. SUFFICES ASSUME NEW u \in Tasks PROVE AddOK(u)'
    BY DEF TpAdds
  <2>2. AddOK(u) /\ (Engaged(u)' <=> Engaged(u))
    BY <1>0, <1>9, <1>10 DEF TpTypes, TpAdds, Engaged
  <2> QED
    BY <1>0, <1>2, <1>9, <1>10, <2>2 DEF TpTypes, AddOK
<1>6. TpRefs'
  <2>1. SUFFICES ASSUME NEW u \in Tasks PROVE RefsOK(u)'
    BY DEF TpRefs
  <2>2. RefsOK(u)
    BY <1>0 DEF TpRefs
  <2>3. CASE u = t
    BY <1>0, <1>2, <1>9, <1>10, <1>12, <2>2, <2>3 DEF TpTypes, RefsOK, Engaged, TP!Count
  <2>4. CASE u # t
    BY <1>0, <1>2, <1>10, <2>2, <2>4 DEF TpTypes, RefsOK, Engaged, TP!Count
  <2> QED
    BY <2>3, <2>4
<1>7. TpWalk'
  <2>1. SUFFICES ASSUME NEW u \in Tasks PROVE WalkOK(u)'
    BY <1>0, <1>10 DEF TpWalk
  <2>2. CASE u = t
    BY <1>0, <1>9, <1>10, <2>2 DEF TpTypes, WalkOK, Engaged
  <2>3. CASE u # t
    <3>1. WalkOK(u) /\ AddOK(u) /\ UserOK(u) /\ (Engaged(u)' <=> Engaged(u))
      BY <1>0, <1>9, <1>10 DEF TpTypes, TpWalk, TpAdds, TpTokens, Engaged
    <3>2. tpAwaiter[u] # 0 => Uses(u) /\ tpNode[u] # tpNode[t] /\ tpNode[u] \in 1 .. TP!MaxNodes
      BY <1>0, <1>11, <2>3, <3>1 DEF Uses, TpTokens, TpTypes, UserOK
    <3> QED
      BY <1>0, <1>9, <1>10, <1>11, <2>3, <3>1, <3>2 DEF TpTypes, WalkOK, AddOK, Appended
  <2> QED
    BY <2>2, <2>3
<1>8. TP!NothingAfterStop'
  BY <1>0, <1>9, <1>10 DEF TpTypes, TP!NothingAfterStop, TP!Alive
<1> QED
  BY <1>1, <1>2, <1>3, <1>4, <1>5, <1>6, <1>7, <1>8 DEF TpInv

\* The flag is stored before the walk: who was let go without a look at it has a token that points to it.
LEMMA TpStoreCancelNewTasks ==
  ASSUME TpInv, TP!StoreCancelNewTasks
  PROVE  TpInv'
<1> USE TpConstants DEF TP!taskVars, TP!addVars, TP!poolVars, TP!cleanVars
<1>0. TpTypes /\ TpWorkers /\ TpQueue /\ TpAdds /\ TpTokens /\ TpRefs /\ TpWalk /\ TP!NothingAfterStop
  BY DEF TpInv
<1>1. TpTypes'
  BY <1>0 DEF TpTypes, TP!StoreCancelNewTasks
<1>2. /\ TpTokens'
      /\ \A u \in Tasks : /\ Uses(u)' <=> Uses(u)
                          /\ Appended(u)' <=> Appended(u)
                          /\ Notified(u)' <=> Notified(u)
                          /\ Pointed(u)' <=> Pointed(u)
  <2>1. UNCHANGED <<tpAdd, tpNode, tpAwaiter, tpNodes, tpFree, tpPointer, tpWorker>> /\ tpNewCancel'
    BY DEF TP!StoreCancelNewTasks
  <2>2. \A u \in Tasks : /\ Uses(u)' <=> Uses(u)
                         /\ Appended(u)' <=> Appended(u)
                         /\ Notified(u)' <=> Notified(u)
                         /\ Pointed(u)' <=> Pointed(u)
    BY <2>1 DEF Uses, Notifies, Appended, Notified, Pointed
  <2> QED
    BY <1>0, <2>1, <2>2, TokensStayUsed
<1>3. TpWorkers'
  <2>1. ASSUME NEW v \in Workers PROVE WorkerOK(v)'
    <3>1. WorkerOK(v)
      BY <1>0 DEF TpWorkers
    <3> QED
      BY <1>0, <1>2, <3>1 DEF TpTypes, WorkerOK, TP!StoreCancelNewTasks
  <2> QED
    BY <1>0, <2>1 DEF TpWorkers, SameTask, TP!StoreCancelNewTasks
<1>4. TpQueue'
  BY <1>0 DEF TpTypes, TpQueue, TP!StoreCancelNewTasks
<1>5. TpAdds'
  <2>1. SUFFICES ASSUME NEW u \in Tasks PROVE AddOK(u)'
    BY DEF TpAdds
  <2>2. AddOK(u) /\ RefsOK(u)
    BY <1>0 DEF TpAdds, TpRefs
  <2> QED
    BY <1>0, <1>2, <2>2 DEF TpTypes, AddOK, Engaged, TP!StoreCancelNewTasks
<1>6. TpRefs'
  <2>1. SUFFICES ASSUME NEW u \in Tasks PROVE RefsOK(u)'
    BY DEF TpRefs
  <2>2. RefsOK(u)
    BY <1>0 DEF TpRefs
  <2> QED
    BY <1>0, <1>2, <2>2 DEF TpTypes, RefsOK, Engaged, TP!Count, TP!StoreCancelNewTasks
<1>7. TpWalk'
  <2>1. SUFFICES ASSUME NEW u \in Tasks, tpAdd[u] \in {"release", "done"}, Engaged(u)
                 PROVE  tpNode[u] <= tpCursor' /\ tpPointer[tpNode[u]] = u
    BY <1>0 DEF TpWalk, WalkOK, Engaged, TP!StoreCancelNewTasks
  <2>2. AddOK(u) /\ UserOK(u) /\ ~tpNewCancel
    BY <1>0 DEF TpAdds, TpTokens, TpWalk, TP!StoreCancelNewTasks
  <2>3. Uses(u)
    BY <2>1, <2>2 DEF Uses, AddOK, Appended
  <2> QED
    BY <1>0, <2>1, <2>2, <2>3 DEF TpTypes, UserOK, TP!StoreCancelNewTasks
<1>8. TP!NothingAfterStop'
  BY <1>0 DEF TpTypes, TpWorkers, WorkerOK, TP!NothingAfterStop, TP!Alive, TP!StoreCancelNewTasks
<1> QED
  BY <1>1, <1>2, <1>3, <1>4, <1>5, <1>6, <1>7, <1>8 DEF TpInv

\* The walk takes the pointer out of a token, with its reference.
LEMMA TpWalkExchange ==
  ASSUME TpInv, TP!WalkExchange
  PROVE  TpInv'
<1> USE TpConstants DEF TP!taskVars, TP!addVars, TP!poolVars, TP!cleanVars
<1>0. TpTypes /\ TpWorkers /\ TpQueue /\ TpAdds /\ TpTokens /\ TpRefs /\ TpWalk /\ TP!NothingAfterStop
  BY DEF TpInv
<1>9. tpCursor \in 1 .. TP!MaxNodes /\ tpCursor \in 1 .. tpNodes /\ tpNewCancel /\ tpHeld = NoTask
      /\ tpPointer[tpCursor] \in Tasks \cup {NoTask} /\ tpCleaner = "walking"
  <2>1. tpCursor \in 1 .. TP!MaxNodes /\ tpCursor \in 1 .. tpNodes /\ tpCleaner = "walking" /\ tpHeld = NoTask
    BY <1>0 DEF TpTypes, TP!WalkExchange
  <2> QED
    BY <1>0, <2>1 DEF TpTypes, TpWalk
<1>10. /\ tpPointer' = [tpPointer EXCEPT ![tpCursor] = NoTask] /\ tpHeld' = tpPointer[tpCursor]
       /\ tpCursor' = tpCursor - 1
       /\ UNCHANGED <<TP!taskVars, TP!addVars, tpNodes, tpFree, tpNewCancel, tpCleaner, tpQueue, tpWorker>>
  BY DEF TP!WalkExchange
<1>1. TpTypes'
  BY <1>0, <1>9, <1>10 DEF TpTypes
<1>2. /\ TpTokens'
      /\ \A u \in Tasks : /\ Uses(u)' <=> Uses(u)
                          /\ Appended(u)' <=> Appended(u)
                          /\ Notified(u)' <=> Notified(u)
                          /\ Pointed(u)' <=> (Pointed(u) /\ u # tpHeld')
                          /\ u = tpHeld' => Pointed(u)
  <2>1. ASSUME NEW u \in Tasks
        PROVE  /\ Uses(u)' <=> Uses(u)
               /\ Appended(u)' <=> Appended(u)
               /\ Notified(u)' <=> Notified(u)
    BY <1>10, UsesStays
  <2>2. ASSUME NEW u \in Tasks PROVE UserOK(u)'
    BY <1>0, <1>9, <1>10, <2>1 DEF TpTokens, UserOK
  <2>3. ASSUME NEW n \in 1 .. TP!MaxNodes
        PROVE  /\ PointerOK(n)' /\ PointerOK(n)
               /\ tpPointer[n] \in Tasks \cup {NoTask}
               /\ tpPointer'[n] = IF n = tpCursor THEN NoTask ELSE tpPointer[n]
    <3>1. tpPointer[n] \in Tasks \cup {NoTask} /\ PointerOK(n)
      BY <1>0 DEF TpTypes, TpTokens
    <3>2. tpPointer'[n] = IF n = tpCursor THEN NoTask ELSE tpPointer[n]
      BY <1>0, <1>10 DEF TpTypes
    <3> QED
      BY <1>10, <2>1, <3>1, <3>2 DEF PointerOK
  <2>4. ASSUME NEW u \in Tasks
        PROVE  (Pointed(u)' <=> (Pointed(u) /\ u # tpHeld')) /\ (u = tpHeld' => Pointed(u))
    <3>1. \A n \in 1 .. TP!MaxNodes : tpPointer[n] = u => n = tpNode[u]
      BY <2>3 DEF PointerOK
    <3> QED
      BY <1>9, <1>10, <2>3, <3>1 DEF Pointed
  <2> QED
    BY <1>0, <1>10, <2>1, <2>2, <2>3, <2>4 DEF TpTokens
<1>3. TpWorkers'
  <2>1. ASSUME NEW v \in Workers PROVE WorkerOK(v)'
    <3>1. WorkerOK(v)
      BY <1>0 DEF TpWorkers
    <3> QED
      BY <1>0, <1>2, <3>1 DEF TpTypes, WorkerOK, TP!WalkExchange
  <2> QED
    BY <1>0, <2>1 DEF TpWorkers, SameTask, TP!WalkExchange
<1>4. TpQueue'
  BY <1>0 DEF TpTypes, TpQueue, TP!WalkExchange
<1>5. TpAdds'
  <2>1. SUFFICES ASSUME NEW u \in Tasks PROVE AddOK(u)'
    BY DEF TpAdds
  <2>2. AddOK(u) /\ RefsOK(u)
    BY <1>0 DEF TpAdds, TpRefs
  <2> QED
    BY <1>0, <1>2, <2>2 DEF TpTypes, AddOK, Engaged, TP!WalkExchange
<1>6. TpRefs'
  <2>1. SUFFICES ASSUME NEW u \in Tasks PROVE RefsOK(u)'
    BY DEF TpRefs
  <2>2. RefsOK(u) /\ (Engaged(u)' <=> Engaged(u))
    BY <1>0, <1>10 DEF TpRefs, Engaged
  <2> QED
    BY <1>0, <1>2, <1>9, <1>10, <2>2 DEF TpTypes, RefsOK, TP!Count
<1>7. TpWalk'
  <2>1. SUFFICES ASSUME NEW u \in Tasks PROVE WalkOK(u)'
    BY <1>0, <1>9, <1>10 DEF TpWalk
  <2>2. WalkOK(u) /\ AddOK(u) /\ UserOK(u)
    BY <1>0 DEF TpWalk, TpAdds, TpTokens
  <2>3. tpAwaiter[u] # 0 => tpNode[u] \in 1 .. TP!MaxNodes
    BY <1>0, <2>2 DEF Uses, TpTypes, UserOK
  <2> QED
    BY <1>0, <1>9, <1>10, <2>2, <2>3 DEF TpTypes, WalkOK, AddOK, Engaged, Appended
<1>8. TP!NothingAfterStop'
  BY <1>0 DEF TpTypes, TpWorkers, WorkerOK, TP!NothingAfterStop, TP!Alive, TP!WalkExchange
<1> QED
  BY <1>1, <1>2, <1>3, <1>4, <1>5, <1>6, <1>7, <1>8 DEF TpInv

\* The walk cancels the task that it holds and drops the reference.
LEMMA TpWalkCancel ==
  ASSUME TpInv, TP!WalkCancel
  PROVE  TpInv'
<1> USE TpConstants DEF TP!taskVars, TP!addVars, TP!poolVars, TP!cleanVars
<1>0. TpTypes /\ TpWorkers /\ TpQueue /\ TpAdds /\ TpTokens /\ TpRefs /\ TpWalk /\ TP!NothingAfterStop
  BY DEF TpInv
<1>9. PICK t \in Tasks : t = tpHeld /\ RefsOK(t) /\ (Engaged(t) => tpRefs[t] # 1) /\ (Notified(t) => tpRefs[t] # 1)
  BY <1>0 DEF TpTypes, TpRefs, RefsOK, TP!Count, TP!WalkCancel
<1>1. TpTypes'
  <2>1. tpQueue' \subseteq Tasks \cup {StopMark}
    BY <1>0, <1>9 DEF TpTypes, TP!WalkCancel
  <2>2. tpLife' \in [Tasks -> {"unborn", "bound", "queued", "running", "asleep", "finished", "gone"}]
    <3>1. tpLife \in [Tasks -> {"unborn", "bound", "queued", "running", "asleep", "finished", "gone"}]
      BY <1>0 DEF TpTypes
    <3>2. \/ tpLife' = [tpLife EXCEPT ![t] = "gone"]
          \/ tpLife' = [tpLife EXCEPT ![t] = "queued"]
          \/ tpLife' = tpLife
      BY <1>9 DEF TP!WalkCancel
    <3> QED
      BY <3>1, <3>2
  <2> QED
    BY <1>0, <1>9, <2>1, <2>2 DEF TpTypes, TP!WalkCancel
<1>10. \A u \in Tasks : Engaged(u)' <=> Engaged(u)
  BY <1>0, <1>9 DEF TpTypes, Engaged, TP!WalkCancel
<1>2. /\ TpTokens'
      /\ \A u \in Tasks : /\ Uses(u)' <=> Uses(u)
                          /\ Appended(u)' <=> Appended(u)
                          /\ Notified(u)' <=> Notified(u)
                          /\ Pointed(u)' <=> Pointed(u)
  BY <1>0, TokensStay DEF TP!WalkCancel
<1>3. TpWorkers'
  <2>1. ASSUME NEW v \in Workers PROVE WorkerOK(v)'
    <3>1. WorkerOK(v)
      BY <1>0 DEF TpWorkers
    <3>2. tpWorker[v].at = "notify" => Notified(tpWorker[v].task)
      BY DEF Notified, Notifies
    <3>3. tpLife'[tpWorker[v].task] = tpLife[tpWorker[v].task] \/ tpWorker[v].at \notin {"run", "notify"}
      BY <1>0, <1>9, <3>1, <3>2 DEF TpTypes, WorkerOK, Engaged, TP!WalkCancel
    <3> QED
      BY <1>0, <1>2, <3>1, <3>3 DEF TpTypes, WorkerOK, TP!WalkCancel
  <2> QED
    BY <1>0, <2>1 DEF TpWorkers, SameTask, TP!WalkCancel
<1>4. TpQueue'
  BY <1>0, <1>9 DEF TpTypes, TpQueue, Engaged, TP!WalkCancel
<1>5. TpAdds'
  <2>1. SUFFICES ASSUME NEW u \in Tasks PROVE AddOK(u)'
    BY DEF TpAdds
  <2>2. AddOK(u)
    BY <1>0 DEF TpAdds
  <2> QED
    BY <1>0, <1>2, <1>9, <1>10, <2>2 DEF TpTypes, AddOK, TP!WalkCancel
<1>6. TpRefs'
  <2>1. SUFFICES ASSUME NEW u \in Tasks PROVE RefsOK(u)'
    BY DEF TpRefs
  <2>2. RefsOK(u)
    BY <1>0 DEF TpRefs
  <2>3. CASE u = t
    BY <1>0, <1>2, <1>9, <1>10, <2>2, <2>3 DEF TpTypes, RefsOK, TP!Count, TP!WalkCancel
  <2>4. CASE u # t
    BY <1>0, <1>2, <1>9, <1>10, <2>2, <2>4 DEF TpTypes, RefsOK, TP!Count, TP!WalkCancel
  <2> QED
    BY <2>3, <2>4
<1>7. TpWalk'
  <2>1. SUFFICES ASSUME NEW u \in Tasks PROVE WalkOK(u)'
    BY <1>0 DEF TpWalk, TP!WalkCancel
  <2>2. WalkOK(u)
    BY <1>0 DEF TpWalk
  <2> QED
    BY <1>0, <1>9, <1>10, <2>2 DEF TpTypes, WalkOK, TP!WalkCancel
<1>8. TP!NothingAfterStop'
  BY <1>0 DEF TpTypes, TpWalk, TP!NothingAfterStop, TP!WalkCancel
<1> QED
  BY <1>1, <1>2, <1>3, <1>4, <1>5, <1>6, <1>7, <1>8 DEF TpInv

\* The walk is over: it has looked at every token.
LEMMA TpWalkEnd ==
  ASSUME TpInv, TP!WalkEnd
  PROVE  TpInv'
<1> USE TpConstants DEF TP!taskVars, TP!addVars, TP!poolVars, TP!cleanVars
<1>0. TpTypes /\ TpWorkers /\ TpQueue /\ TpAdds /\ TpTokens /\ TpRefs /\ TpWalk /\ TP!NothingAfterStop
  BY DEF TpInv
<1>1. TpTypes'
  BY <1>0 DEF TpTypes, TP!WalkEnd
<1>2. /\ TpTokens'
      /\ \A u \in Tasks : /\ Uses(u)' <=> Uses(u)
                          /\ Appended(u)' <=> Appended(u)
                          /\ Notified(u)' <=> Notified(u)
                          /\ Pointed(u)' <=> Pointed(u)
  BY <1>0, TokensStay DEF TP!WalkEnd
<1>3. TpWorkers'
  <2>1. ASSUME NEW v \in Workers PROVE WorkerOK(v)'
    <3>1. WorkerOK(v)
      BY <1>0 DEF TpWorkers
    <3> QED
      BY <1>0, <1>2, <3>1 DEF TpTypes, WorkerOK, TP!WalkEnd
  <2> QED
    BY <1>0, <2>1 DEF TpWorkers, SameTask, TP!WalkEnd
<1>4. TpQueue'
  BY <1>0 DEF TpTypes, TpQueue, TP!WalkEnd
<1>5. TpAdds'
  <2>1. SUFFICES ASSUME NEW u \in Tasks PROVE AddOK(u)'
    BY DEF TpAdds
  <2>2. AddOK(u) /\ RefsOK(u)
    BY <1>0 DEF TpAdds, TpRefs
  <2> QED
    BY <1>0, <1>2, <2>2 DEF TpTypes, AddOK, Engaged, TP!WalkEnd
<1>6. TpRefs'
  <2>1. SUFFICES ASSUME NEW u \in Tasks PROVE RefsOK(u)'
    BY DEF TpRefs
  <2>2. RefsOK(u)
    BY <1>0 DEF TpRefs
  <2> QED
    BY <1>0, <1>2, <2>2 DEF TpTypes, RefsOK, Engaged, TP!Count, TP!WalkEnd
<1>7. TpWalk'
  <2>1. SUFFICES ASSUME NEW u \in Tasks PROVE WalkOK(u)'
    BY <1>0 DEF TpWalk, TP!WalkEnd
  <2>2. WalkOK(u) /\ AddOK(u) /\ UserOK(u)
    BY <1>0 DEF TpWalk, TpAdds, TpTokens
  <2>3. tpAwaiter[u] # 0 => tpNode[u] \in 1 .. TP!MaxNodes
    BY <1>0, <2>2 DEF Uses, TpTypes, UserOK
  <2> QED
    BY <1>0, <2>2, <2>3 DEF TpTypes, WalkOK, AddOK, Engaged, Appended, TP!WalkEnd
<1>8. TP!NothingAfterStop'
  BY <1>0 DEF TpTypes, TpWorkers, WorkerOK, TP!NothingAfterStop, TP!Alive, TP!WalkEnd
<1> QED
  BY <1>1, <1>2, <1>3, <1>4, <1>5, <1>6, <1>7, <1>8 DEF TpInv

\* The processor starts with no task.
LEMMA TpInitInv == TP!Init => TpInv
<1> SUFFICES ASSUME TP!Init PROVE TpInv
  OBVIOUS
<1> USE TpConstants
<1>1. \A t \in Tasks : ~Uses(t) /\ ~Notified(t) /\ ~Pointed(t) /\ ~Engaged(t)
  BY DEF TP!Init, TP!Idle, Uses, Notified, Notifies, Pointed, Engaged
<1>2. TpTypes
  <2>1. tpCancelled \in [Tasks -> BOOLEAN] /\ tpHandle \in [Tasks -> BOOLEAN] /\ tpNewCancel \in BOOLEAN
    BY Zenon DEF TP!Init
  <2>2. tpWorker \in [Workers -> [at : {"idle", "run", "notify", "stop", "exited"},
                                  task : Tasks \cup {NoTask}, token : 0 .. TP!MaxNodes]]
    BY DEF TP!Init, TP!Idle
  <2> QED
    BY <2>1, <2>2 DEF TP!Init, TpTypes
<1>3. TpWorkers /\ TpQueue
  BY DEF TP!Init, TP!Idle, TpWorkers, WorkerOK, SameTask, TpQueue
<1>4. TpAdds /\ TpWalk
  BY <1>1 DEF TP!Init, TpAdds, AddOK, TpWalk, WalkOK
<1>5. TpTokens
  BY <1>1 DEF TP!Init, TpTokens, UserOK, PointerOK
<1>6. TpRefs
  <2>1. ASSUME NEW t \in Tasks PROVE RefsOK(t)
    <3>1. tpRefs[t] = 0 /\ ~tpHandle[t] /\ tpHeld # t
      BY DEF TP!Init
    <3> QED
      BY <1>1, <3>1 DEF RefsOK, TP!Count
  <2> QED
    BY <2>1 DEF TpRefs
<1> QED
  BY <1>2, <1>3, <1>4, <1>5, <1>6 DEF TpInv, TP!Init, TP!NothingAfterStop

\* The steps that concern the processor are its own.
LEMMA TpSteps == ASSUME [AllNext]_allVars PROVE TP!Next \/ UNCHANGED tpVars
  BY DEF AllNext, allVars, OthersRest, Systems, PeriodicTasks

\* Every step of the processor preserves the invariant.
LEMMA TpStep == ASSUME TpInv, TP!Next PROVE TpInv'
<1>1. ASSUME NEW t \in Tasks,
             TP!Spawn(t) \/ TP!Schedule(t) \/ TP!Wakeup(t) \/ TP!Terminate(t) \/ TP!DropHandle(t)
               \/ TP!Acquire(t) \/ TP!AddStep(t)
      PROVE  TpInv'
  BY <1>1, TpSpawn, TpSchedule, TpWakeup, TpTerminate, TpDropHandle, TpAcquire, TpStorePointer,
     TpAppendAwaiter, TpAppendFinished, TpLoadCancelNewTasks, TpCancelNewTask, TpReleaseHandle DEF TP!AddStep
<1>2. ASSUME NEW w \in Workers, TP!Pop(w) PROVE TpInv'
  <2>1. PICK x \in tpQueue :
          /\ tpQueue' = tpQueue \ {x}
          /\ \/ /\ x = StopMark
                /\ tpWorker' = [tpWorker EXCEPT ![w].at = "stop"]
                /\ UNCHANGED tpLife
             \/ /\ x # StopMark
                /\ tpWorker' = [tpWorker EXCEPT ![w] = [at |-> "run", task |-> x, token |-> 0]]
                /\ tpLife' = [tpLife EXCEPT ![x] = "running"]
    BY <1>2 DEF TP!Pop
  <2>2. /\ tpWorker[w].at = "idle"
        /\ UNCHANGED <<tpCancelled, tpRefs, TP!addVars, TP!poolVars, TP!cleanVars>>
    BY <1>2 DEF TP!Pop
  <2> QED
    BY <2>1, <2>2, TpPopTask, TpPopStop
<1>3. ASSUME NEW w \in Workers, TP!ReturnStop(w) \/ TP!Sleep(w) \/ TP!Complete(w) \/ TP!NotifyAll(w)
      PROVE  TpInv'
  BY <1>3, TpReturnStop, TpSleep, TpComplete, TpNotifyNobody, TpNotifyToken
<1>4. ASSUME TP!InitiateShutdown \/ TP!CleanupStep PROVE TpInv'
  BY <1>4, TpInitiateShutdown, TpStoreCancelNewTasks, TpWalkExchange, TpWalkCancel, TpWalkEnd,
     TpStopProcessing, TpJoin DEF TP!CleanupStep
<1> QED
  BY <1>1, <1>2, <1>3, <1>4 DEF TP!Next

\* The invariant says what the run checks.
LEMMA TpInvIsEnough == ASSUME TpInv PROVE TaskProcessorSafe
<1> USE TpConstants
<1>0. TpTypes /\ TpWorkers /\ TpQueue /\ TpAdds /\ TpTokens /\ TpRefs /\ TpWalk /\ TP!NothingAfterStop
  BY DEF TpInv
<1>1. TP!TypeOK
  <2>1. ASSUME NEW t \in Tasks PROVE tpRefs[t] \in 0 .. 4
    <3>1. ~(Engaged(t) /\ Notified(t))
      BY <1>0 DEF TpWorkers, WorkerOK, Engaged, Notified, Notifies
    <3>2. RefsOK(t)
      BY <1>0 DEF TpRefs
    <3> QED
      BY <3>1, <3>2 DEF RefsOK, TP!Count
  <2> QED
    BY <1>0, <2>1 DEF TpTypes, TP!TypeOK
<1>2. TP!DetachedAreCancelled
  <2>1. SUFFICES ASSUME NEW t \in Tasks, tpCleaner \in {"waiting", "joining", "down"},
                        tpAdd[t] \in {"release", "done"}, Engaged(t)
                 PROVE  tpCancelled[t]
    BY DEF TP!DetachedAreCancelled, Engaged
  <2> QED
    BY <1>0, <2>1 DEF TpWalk, WalkOK
<1>3. TP!RefsExact
  <2>1. ASSUME NEW t \in Tasks
        PROVE  TP!Cardinality({n \in 1 .. TP!MaxNodes : tpPointer[n] = t}) = TP!Count(Pointed(t))
    <3> DEFINE S == {n \in 1 .. TP!MaxNodes : tpPointer[n] = t}
    <3>2. TP!Cardinality(S) = Cardinality(S)
      BY DEF TP!Cardinality, Cardinality
    <3>3. \A n \in S : n = tpNode[t]
      BY <1>0 DEF TpTokens, PointerOK
    <3>4. CASE Pointed(t)
      <4>1. S = {tpNode[t]}
        BY <3>3, <3>4 DEF Pointed
      <4> QED
        BY <3>2, <3>4, <4>1, FS_Singleton DEF TP!Count
    <3>5. CASE ~Pointed(t)
      <4>1. S = {}
        BY <3>5 DEF Pointed
      <4> QED
        BY <3>2, <3>5, <4>1, FS_EmptySet DEF TP!Count
    <3> QED
      BY <3>4, <3>5
  <2>2. ASSUME NEW t \in Tasks
        PROVE  tpRefs[t] = TP!Count(tpHandle[t]) + TP!Count(tpLife[t] \in {"queued", "running", "asleep"})
                 + TP!Count(\E w \in Workers : tpWorker[w].at = "notify" /\ tpWorker[w].task = t)
                 + TP!Cardinality({n \in 1 .. TP!MaxNodes : tpPointer[n] = t}) + TP!Count(tpHeld = t)
    <3>1. RefsOK(t)
      BY <1>0 DEF TpRefs
    <3>2. TP!Count(Engaged(t)) = TP!Count(tpLife[t] \in {"queued", "running", "asleep"})
      BY DEF Engaged
    <3>3. TP!Count(Notified(t))
            = TP!Count(\E w \in Workers : tpWorker[w].at = "notify" /\ tpWorker[w].task = t)
      BY DEF Notified, Notifies
    <3> QED
      BY <2>1, <3>1, <3>2, <3>3 DEF RefsOK
  <2> QED
    BY <2>2 DEF TP!RefsExact
<1>4. TP!TokensAreOwned
  <2>1. ASSUME NEW n \in 1 .. TP!MaxNodes
        PROVE  /\ n \in tpFree => tpPointer[n] = NoTask
               /\ tpPointer[n] # NoTask => tpNode[tpPointer[n]] = n
    <3>1. tpPointer[n] \in Tasks \cup {NoTask} /\ PointerOK(n)
      BY <1>0 DEF TpTypes, TpTokens
    <3> QED
      BY <1>0, <3>1 DEF TpTokens, UserOK, PointerOK
  <2>2. tpFree \subseteq 1 .. TP!MaxNodes /\ 1 .. tpNodes \subseteq 1 .. TP!MaxNodes
    BY <1>0 DEF TpTypes
  <2>3. ASSUME NEW t \in Tasks, tpAwaiter[t] # 0 PROVE tpAwaiter[t] \notin tpFree
    BY <1>0, <2>3 DEF TpAdds, AddOK, TpTokens, UserOK, Uses
  <2> QED
    BY <2>1, <2>2, <2>3 DEF TP!TokensAreOwned
<1> QED
  BY <1>0, <1>1, <1>2, <1>3, <1>4 DEF TaskProcessorSafe

\* Cleanup() misses no detached task, no token holds the address of a destroyed context and
\* none is leaked, tokens are not shared, and the stop of the queue overtakes no task, for
\* any number of tasks and workers.
THEOREM ProcessorIsSafe == AllSpec => []TaskProcessorSafe
<1>1. AllInit => TpInv
  BY TpInitInv DEF AllInit
<1>2. TpInv /\ [AllNext]_allVars => TpInv'
  <2>1. SUFFICES ASSUME TpInv, TP!Next \/ UNCHANGED tpVars PROVE TpInv'
    BY TpSteps
  <2>2. CASE UNCHANGED tpVars
    <3>1. TpTypes /\ TpWorkers /\ TpQueue /\ TpAdds /\ TpTokens /\ TpRefs /\ TpWalk /\ TP!NothingAfterStop
      BY <2>1 DEF TpInv
    <3>2. /\ TpTokens'
          /\ \A u \in Tasks : /\ Uses(u)' <=> Uses(u)
                              /\ Appended(u)' <=> Appended(u)
                              /\ Notified(u)' <=> Notified(u)
                              /\ Pointed(u)' <=> Pointed(u)
      BY <2>2, <3>1, TokensStay DEF tpVars
    <3>3. \A u \in Tasks : Engaged(u)' <=> Engaged(u)
      BY <2>2 DEF Engaged, tpVars
    <3>4. TpTypes' /\ TpQueue' /\ TP!NothingAfterStop'
      BY <2>2, <3>1 DEF tpVars, TpTypes, TpQueue, TP!NothingAfterStop, TP!Alive
    <3>5. TpWorkers'
      BY <2>2, <3>1, <3>2 DEF tpVars, TpWorkers, WorkerOK, SameTask, Appended
    <3>6. TpAdds' /\ TpWalk'
      BY <2>2, <3>1, <3>2, <3>3 DEF tpVars, TpAdds, AddOK, TpWalk, WalkOK
    <3>7. ASSUME NEW u \in Tasks PROVE RefsOK(u)'
      BY <2>2, <3>1, <3>2, <3>3 DEF tpVars, TpRefs, RefsOK, TP!Count
    <3> QED
      BY <3>2, <3>4, <3>5, <3>6, <3>7 DEF TpInv, TpRefs
  <2> QED
    BY <2>1, <2>2, TpStep
<1> QED
  BY <1>1, <1>2, TpInvIsEnough, PTL DEF AllSpec

----------------------------------------------------------------------------
(* PeriodicTask *)

\* Nobody calls the testsuite's methods of a WaitingTask.
PtDebuggers == IF subject = "WaitingTask" THEN {} ELSE Debuggers

PtFlags ==
  /\ ptTask \in BOOLEAN /\ ptCancelled \in BOOLEAN /\ ptWriting \in BOOLEAN /\ ptEvent \in BOOLEAN
  /\ ptForce \in BOOLEAN /\ ptSuspended \in BOOLEAN /\ ptStepping \in BOOLEAN
  /\ ptFailed \in BOOLEAN /\ ptStarting \in BOOLEAN /\ ptOwed \in BOOLEAN
PtPlaces ==
  /\ ptSettings \in 0 .. MaxVersion
  /\ ptRpc \in {"none", "begin", "loop", "lock", "step", "read", "wait", "woken", "done"}
  /\ ptPeriod \in (0 .. MaxVersion) \X BOOLEAN
  /\ ptOpc \in {"idle", "sync", "reset", "clear", "start"}
  /\ ptSpc \in {"idle", "send"}
  /\ ptFpc \in [Forcers -> {"idle", "send"}]
  /\ ptForces \in 0 .. MaxForces
  /\ ptDpc \in [PtDebuggers -> {"idle", "lock", "step"}]
PtTypes == PtFlags /\ PtPlaces

\* Start() keeps SetSettings() out from its first to its last step; Stop() waits for the
\* end of Run() before it resets what the next Run() will look at.
PtOwner ==
  /\ ptTask <=> ptRpc # "none"
  /\ ptWriting <=> (ptStarting /\ ptOpc # "idle")
  /\ ptWriting => ptSettings < MaxVersion
  /\ ptOpc \in {"sync", "reset", "clear"} => ptTask
  /\ ptOpc \in {"reset", "clear"} => ptRpc = "done"
  /\ ptOpc = "start" => ptStarting /\ ~ptTask

\* Who makes a step has step_mutex.
PtSteps ==
  /\ ptStepping => ptRpc = "step" \/ \E d \in PtDebuggers : ptDpc[d] = "step"
  /\ ptRpc = "step" => ptStepping /\ ~ptSuspended /\ \A d \in PtDebuggers : ptDpc[d] # "step"
  /\ \A d \in PtDebuggers : ptDpc[d] = "step" => ptStepping
  /\ \A d, e \in PtDebuggers : ptDpc[d] = "step" /\ ptDpc[e] = "step" => d = e

PtInv == PtTypes /\ PtOwner /\ PtSteps /\ PT!ForceNotLost /\ PT!NoStalePeriod

\* The steps of both instances. They differ in the first round of Run() and in whether a
\* period ends, and what ends a wait in one does so in the other.
PtNext ==
  \/ PT!Run \/ PW!Loop
  \/ PT!Start \/ PT!Stop \/ PT!OwnerStep
  \/ PT!SetSettings \/ PT!SendChanged
  \/ \E f \in Forcers : PT!SetForce(f) \/ PT!SendForce(f)
  \/ \E d \in PtDebuggers :
       PT!SynchronizeDebug(d) \/ PT!DebugStep(d) \/ PT!SuspendDebug(d) \/ PT!ResumeDebug(d)

\* What the proofs use of the bounds.
LEMMA PtBounds == MaxVersion \in Nat /\ MaxForces \in Nat
  BY StoppedAssumption DEF StoppedAssumption, PT!PeriodicAssumption

\* No step but PtNext concerns the periodic task.
LEMMA PtMoves == ASSUME [AllNext]_allVars PROVE subject' = subject /\ (PtNext \/ UNCHANGED ptVars)
<1>1. ASSUME subject = "PeriodicTask", PT!Next PROVE PtNext
  BY <1>1 DEF PT!Next, PtNext, PtDebuggers
<1>2. ASSUME PW!Next PROVE PtNext
  <2>1. PW!WaitEnds => PT!WaitEnds
    BY DEF PW!WaitEnds, PT!WaitEnds, PW!ownerVars, PT!ownerVars
  <2>2. /\ PW!BeginStep => PT!BeginStep
        /\ PW!EndStep => PT!EndStep
        /\ PW!ReadSettings => PT!ReadSettings
        /\ PW!Woken => PT!Woken
    BY DEF PW!BeginStep, PT!BeginStep, PW!EndStep, PT!EndStep, PW!ReadSettings, PT!ReadSettings, PW!Woken, PT!Woken,
       PW!ownerVars, PT!ownerVars
  <2>3. /\ PW!Start => PT!Start
        /\ PW!Stop => PT!Stop
        /\ PW!OwnerStep => PT!OwnerStep
    BY DEF PW!Start, PT!Start, PW!Stop, PT!Stop, PW!OwnerStep, PT!OwnerStep, PW!SyncCancel, PT!SyncCancel,
       PW!ResetEvent, PT!ResetEvent, PW!ClearForce, PT!ClearForce, PW!DoStart, PT!DoStart, PW!runVars, PT!runVars
  <2>4. /\ PW!SetSettings => PT!SetSettings
        /\ PW!SendChanged => PT!SendChanged
        /\ \A f \in Forcers : PW!SetForce(f) \/ PW!SendForce(f) => PT!SetForce(f) \/ PT!SendForce(f)
    BY DEF PW!SetSettings, PT!SetSettings, PW!SendChanged, PT!SendChanged, PW!SetForce, PT!SetForce,
       PW!SendForce, PT!SendForce, PW!runVars, PT!runVars, PW!ownerVars, PT!ownerVars
  <2> QED
    BY <1>2, <2>1, <2>2, <2>3, <2>4 DEF PW!Next, PW!Run, PT!Run, PtNext
<1> QED
  BY <1>1, <1>2 DEF AllNext, allVars, OthersRest, Systems, PeriodicTasks

\* A task that was not started has no step, no settings and nobody calling.
LEMMA PtInitInv == ASSUME AllInit PROVE PtInv
<1>1. PT!Init \/ (subject = "WaitingTask" /\ PW!Init)
  BY DEF AllInit
<1>3. ptDpc = [d \in PtDebuggers |-> "idle"]
  <2>1. CASE subject = "WaitingTask"
    BY <2>1 DEF AllInit, PW!Init, PtDebuggers
  <2>2. CASE subject # "WaitingTask"
    BY <2>2 DEF AllInit, PT!Init, PtDebuggers
  <2> QED
    BY <2>1, <2>2
<1>4. PtTypes
  <2>1. PtFlags
    BY <1>1, Zenon DEF PT!Init, PW!Init, PtFlags
  <2>2. PtPlaces
    <3>1. ptPeriod \in (0 .. MaxVersion) \X BOOLEAN
      <4>1. ptPeriod = <<0, FALSE>>
        BY <1>1, Zenon DEF PT!Init, PW!Init
      <4>2. 0 \in 0 .. MaxVersion
        BY PtBounds
      <4>3. FALSE \in BOOLEAN
        BY Zenon
      <4> QED
        BY <4>1, <4>2, <4>3, Zenon
    <3>2. ptFpc \in [Forcers -> {"idle", "send"}]
      BY <1>1 DEF PT!Init, PW!Init
    <3>3. ptDpc \in [PtDebuggers -> {"idle", "lock", "step"}]
      BY <1>3
    <3>4. ptSettings = 0 /\ ptForces = 0 /\ ptRpc = "none" /\ ptOpc = "idle" /\ ptSpc = "idle"
      BY <1>1 DEF PT!Init, PW!Init
    <3> QED
      BY <3>1, <3>2, <3>3, <3>4, PtBounds DEF PtPlaces
  <2> QED
    BY <2>1, <2>2 DEF PtTypes
<1> QED
  BY <1>1, <1>3, <1>4 DEF PT!Init, PW!Init, PtInv, PtOwner, PtSteps, PT!ForceNotLost, PT!NoStalePeriod

\* Run() keeps the invariant.
LEMMA PtRunStep ==
  ASSUME PtInv, subject' = subject, PT!Run \/ PW!Loop
  PROVE  PtInv'
<1> USE PtBounds
<1>0. PtTypes /\ PtOwner /\ PtSteps /\ PT!ForceNotLost /\ PT!NoStalePeriod
  BY DEF PtInv
<1>1. PtDebuggers' = PtDebuggers
  BY DEF PtDebuggers
<1>9. UNCHANGED <<ptTask, ptOpc, ptStarting, ptWriting, ptCancelled, ptSettings, ptSuspended, ptSpc, ptFpc, ptForces, ptDpc>>
  BY DEF PT!Run, PT!Loop, PW!Loop, PT!BeginStep, PT!EndStep, PT!ReadSettings, PT!WaitEnds, PT!Woken,
     PT!ownerVars, PW!ownerVars
<1>10. /\ ptRpc \notin {"none", "done"}
       /\ ptRpc' \in {"done", "read", "lock", "step", "wait", "woken", "loop"}
  BY <1>0 DEF PT!Run, PT!Loop, PW!Loop, PT!BeginStep, PT!EndStep, PT!ReadSettings, PT!WaitEnds, PT!Woken
<1>2. PtTypes'
  <2>1. {ptEvent', ptForce', ptStepping', ptFailed', ptOwed'} \subseteq BOOLEAN
    <3>1. {ptEvent, ptForce, ptStepping, ptFailed, ptOwed} \subseteq BOOLEAN
      BY <1>0 DEF PtTypes, PtFlags
    <3>2. ptEvent' \in BOOLEAN /\ ptForce' \in BOOLEAN
      BY <3>1, Zenon DEF PT!Run, PT!Loop, PW!Loop, PT!BeginStep, PT!EndStep, PT!ReadSettings, PT!WaitEnds, PT!Woken
    <3>3. ptStepping' \in BOOLEAN /\ ptOwed' \in BOOLEAN
      BY <3>1, Zenon DEF PT!Run, PT!Loop, PW!Loop, PT!BeginStep, PT!EndStep, PT!ReadSettings, PT!WaitEnds, PT!Woken
    <3>4. ptFailed' \in BOOLEAN
      BY <3>1, Zenon DEF PT!Run, PT!Loop, PW!Loop, PT!BeginStep, PT!EndStep, PT!ReadSettings, PT!WaitEnds, PT!Woken
    <3> QED
      BY <3>2, <3>3, <3>4
  <2>2. ptPeriod' \in (0 .. MaxVersion) \X BOOLEAN
    BY <1>0 DEF PtTypes, PtFlags, PtPlaces, PT!Run, PT!Loop, PW!Loop, PT!BeginStep, PT!EndStep, PT!ReadSettings,
       PT!WaitEnds, PT!Woken
  <2> QED
    BY <1>0, <1>1, <1>9, <1>10, <2>1, <2>2 DEF PtTypes, PtFlags, PtPlaces
<1>3. PtOwner'
  BY <1>0, <1>9, <1>10 DEF PtOwner
<1>4. PtSteps'
  BY <1>0, <1>1, <1>9 DEF PtTypes, PtFlags, PtPlaces, PtSteps, PtOwner, PT!Run, PT!Loop, PW!Loop, PT!BeginStep, PT!EndStep,
     PT!ReadSettings, PT!WaitEnds, PT!Woken
<1>5. PT!ForceNotLost'
  BY <1>0, <1>9 DEF PtTypes, PtFlags, PtPlaces, PtOwner, PT!ForceNotLost, PT!Run, PT!Loop, PW!Loop, PT!BeginStep,
     PT!EndStep, PT!ReadSettings, PT!WaitEnds, PT!Woken
<1>6. PT!NoStalePeriod'
  BY <1>0, <1>9 DEF PtTypes, PtFlags, PtPlaces, PtOwner, PT!NoStalePeriod, PT!Run, PT!Loop, PW!Loop, PT!BeginStep,
     PT!EndStep, PT!ReadSettings, PT!WaitEnds, PT!Woken
<1> QED
  BY <1>2, <1>3, <1>4, <1>5, <1>6 DEF PtInv

\* So do Start() and Stop().
LEMMA PtOwnerStep ==
  ASSUME PtInv, subject' = subject, PT!Start \/ PT!Stop \/ PT!OwnerStep
  PROVE  PtInv'
<1> USE PtBounds
<1>0. PtTypes /\ PtOwner /\ PtSteps /\ PT!ForceNotLost /\ PT!NoStalePeriod
  BY DEF PtInv
<1>1. PtDebuggers' = PtDebuggers
  BY DEF PtDebuggers
<1>2. PtTypes'
  <2>1. PtFlags'
    BY <1>0, Zenon DEF PtTypes, PtFlags, PT!Start, PT!Stop, PT!OwnerStep, PT!SyncCancel, PT!ResetEvent, PT!ClearForce, PT!DoStart, PT!runVars
  <2>2. PtPlaces'
    BY <1>0, <1>1 DEF PtTypes, PtFlags, PtPlaces, PtOwner, PT!Start, PT!Stop, PT!OwnerStep, PT!SyncCancel, PT!ResetEvent, PT!ClearForce, PT!DoStart, PT!runVars
  <2> QED
    BY <2>1, <2>2 DEF PtTypes
<1>3. PtOwner'
  BY <1>0 DEF PtTypes, PtFlags, PtPlaces, PtOwner, PT!Start, PT!Stop, PT!OwnerStep, PT!SyncCancel, PT!ResetEvent, PT!ClearForce, PT!DoStart, PT!runVars
<1>4. PtSteps'
  BY <1>0, <1>1 DEF PtTypes, PtFlags, PtPlaces, PtSteps, PtOwner, PT!Start, PT!Stop, PT!OwnerStep, PT!SyncCancel, PT!ResetEvent, PT!ClearForce, PT!DoStart, PT!runVars
<1>5. PT!ForceNotLost'
  BY <1>0 DEF PtTypes, PtFlags, PtPlaces, PtOwner, PT!ForceNotLost, PT!Start, PT!Stop, PT!OwnerStep, PT!SyncCancel, PT!ResetEvent, PT!ClearForce, PT!DoStart, PT!runVars
<1>6. PT!NoStalePeriod'
  BY <1>0 DEF PtTypes, PtFlags, PtPlaces, PtOwner, PT!NoStalePeriod, PT!Start, PT!Stop, PT!OwnerStep, PT!SyncCancel, PT!ResetEvent, PT!ClearForce, PT!DoStart, PT!runVars
<1> QED
  BY <1>2, <1>3, <1>4, <1>5, <1>6 DEF PtInv

\* So does SetSettings().
LEMMA PtSettingsStep ==
  ASSUME PtInv, subject' = subject, PT!SetSettings \/ PT!SendChanged
  PROVE  PtInv'
<1> USE PtBounds
<1>0. PtTypes /\ PtOwner /\ PtSteps /\ PT!ForceNotLost /\ PT!NoStalePeriod
  BY DEF PtInv
<1>1. PtDebuggers' = PtDebuggers
  BY DEF PtDebuggers
<1>2. PtTypes'
  <2>1. PtFlags'
    BY <1>0, Zenon DEF PtTypes, PtFlags, PT!SetSettings, PT!SendChanged, PT!runVars, PT!ownerVars
  <2>2. PtPlaces'
    BY <1>0, <1>1 DEF PtTypes, PtFlags, PtPlaces, PtOwner, PT!SetSettings, PT!SendChanged, PT!runVars, PT!ownerVars
  <2> QED
    BY <2>1, <2>2 DEF PtTypes
<1>3. PtOwner'
  BY <1>0 DEF PtTypes, PtFlags, PtPlaces, PtOwner, PT!SetSettings, PT!SendChanged, PT!runVars, PT!ownerVars
<1>4. PtSteps'
  BY <1>0, <1>1 DEF PtTypes, PtFlags, PtPlaces, PtSteps, PtOwner, PT!SetSettings, PT!SendChanged, PT!runVars, PT!ownerVars
<1>5. PT!ForceNotLost'
  BY <1>0 DEF PtTypes, PtFlags, PtPlaces, PtOwner, PT!ForceNotLost, PT!SetSettings, PT!SendChanged, PT!runVars, PT!ownerVars
<1>6. PT!NoStalePeriod'
  BY <1>0 DEF PtTypes, PtFlags, PtPlaces, PtOwner, PT!NoStalePeriod, PT!SetSettings, PT!SendChanged, PT!runVars, PT!ownerVars
<1> QED
  BY <1>2, <1>3, <1>4, <1>5, <1>6 DEF PtInv

\* So does ForceStepAsync().
LEMMA PtForceStep ==
  ASSUME PtInv, subject' = subject, NEW f \in Forcers, PT!SetForce(f) \/ PT!SendForce(f)
  PROVE  PtInv'
<1> USE PtBounds
<1>0. PtTypes /\ PtOwner /\ PtSteps /\ PT!ForceNotLost /\ PT!NoStalePeriod
  BY DEF PtInv
<1>1. PtDebuggers' = PtDebuggers
  BY DEF PtDebuggers
<1>2. PtTypes'
  <2>1. PtFlags'
    BY <1>0, Zenon DEF PtTypes, PtFlags, PT!SetForce, PT!SendForce, PT!runVars, PT!ownerVars
  <2>2. PtPlaces'
    BY <1>0, <1>1 DEF PtTypes, PtFlags, PtPlaces, PtOwner, PT!SetForce, PT!SendForce, PT!runVars, PT!ownerVars
  <2> QED
    BY <2>1, <2>2 DEF PtTypes
<1>3. PtOwner'
  BY <1>0 DEF PtTypes, PtFlags, PtPlaces, PtOwner, PT!SetForce, PT!SendForce, PT!runVars, PT!ownerVars
<1>4. PtSteps'
  BY <1>0, <1>1 DEF PtTypes, PtFlags, PtPlaces, PtSteps, PtOwner, PT!SetForce, PT!SendForce, PT!runVars, PT!ownerVars
<1>5. PT!ForceNotLost'
  BY <1>0 DEF PtTypes, PtFlags, PtPlaces, PtOwner, PT!ForceNotLost, PT!SetForce, PT!SendForce, PT!runVars, PT!ownerVars
<1>6. PT!NoStalePeriod'
  BY <1>0 DEF PtTypes, PtFlags, PtPlaces, PtOwner, PT!NoStalePeriod, PT!SetForce, PT!SendForce, PT!runVars, PT!ownerVars
<1> QED
  BY <1>2, <1>3, <1>4, <1>5, <1>6 DEF PtInv

\* So do the methods for the testsuite.
LEMMA PtDebugStep ==
  ASSUME PtInv, subject' = subject, NEW d \in PtDebuggers, PT!SynchronizeDebug(d) \/ PT!DebugStep(d) \/ PT!SuspendDebug(d) \/ PT!ResumeDebug(d)
  PROVE  PtInv'
<1> USE PtBounds
<1>0. PtTypes /\ PtOwner /\ PtSteps /\ PT!ForceNotLost /\ PT!NoStalePeriod
  BY DEF PtInv
<1>1. PtDebuggers' = PtDebuggers
  BY DEF PtDebuggers
<1>2. PtTypes'
  <2>1. PtFlags'
    BY <1>0, Zenon DEF PtTypes, PtFlags, PT!SynchronizeDebug, PT!DebugStep, PT!StepDebug, PT!EndStepDebug, PT!SuspendDebug, PT!ResumeDebug, PT!runVars, PT!ownerVars
  <2>2. PtPlaces'
    BY <1>0, <1>1 DEF PtTypes, PtFlags, PtPlaces, PtOwner, PT!SynchronizeDebug, PT!DebugStep, PT!StepDebug, PT!EndStepDebug, PT!SuspendDebug, PT!ResumeDebug, PT!runVars, PT!ownerVars
  <2> QED
    BY <2>1, <2>2 DEF PtTypes
<1>3. PtOwner'
  BY <1>0 DEF PtTypes, PtFlags, PtPlaces, PtOwner, PT!SynchronizeDebug, PT!DebugStep, PT!StepDebug, PT!EndStepDebug, PT!SuspendDebug, PT!ResumeDebug, PT!runVars, PT!ownerVars
<1>4. PtSteps'
  BY <1>0, <1>1 DEF PtTypes, PtFlags, PtPlaces, PtSteps, PtOwner, PT!SynchronizeDebug, PT!DebugStep, PT!StepDebug, PT!EndStepDebug, PT!SuspendDebug, PT!ResumeDebug, PT!runVars, PT!ownerVars
<1>5. PT!ForceNotLost'
  BY <1>0 DEF PtTypes, PtFlags, PtPlaces, PtOwner, PT!ForceNotLost, PT!SynchronizeDebug, PT!DebugStep, PT!StepDebug, PT!EndStepDebug, PT!SuspendDebug, PT!ResumeDebug, PT!runVars, PT!ownerVars
<1>6. PT!NoStalePeriod'
  BY <1>0 DEF PtTypes, PtFlags, PtPlaces, PtOwner, PT!NoStalePeriod, PT!SynchronizeDebug, PT!DebugStep, PT!StepDebug, PT!EndStepDebug, PT!SuspendDebug, PT!ResumeDebug, PT!runVars, PT!ownerVars
<1> QED
  BY <1>2, <1>3, <1>4, <1>5, <1>6 DEF PtInv

\* A forced step is never forgotten and a replaced period never waited for, whichever
\* waits time out and whoever stops, starts, suspends or forces the task meanwhile; a
\* suspended task makes no step, and a stopped one has none in progress.
THEOREM PeriodicIsSafe == AllSpec => []PeriodicTaskSafe
<1>1. AllInit => PtInv
  BY PtInitInv
<1>2. PtInv /\ [AllNext]_allVars => PtInv'
  <2>1. SUFFICES ASSUME PtInv, subject' = subject, PtNext \/ UNCHANGED ptVars PROVE PtInv'
    BY PtMoves
  <2>2. CASE UNCHANGED ptVars
    BY <2>1, <2>2 DEF ptVars, PtInv, PtTypes, PtFlags, PtPlaces, PtDebuggers, PtOwner, PtSteps, PT!ForceNotLost, PT!NoStalePeriod
  <2>3. CASE PtNext
    BY <2>1, <2>3, PtRunStep, PtOwnerStep, PtSettingsStep, PtForceStep, PtDebugStep DEF PtNext
  <2> QED
    BY <2>1, <2>2, <2>3
<1>3. PtInv => PeriodicTaskSafe
  <2>1. SUFFICES ASSUME PtInv PROVE PeriodicTaskSafe
    OBVIOUS
  <2>2. CASE subject = "WaitingTask"
    BY <2>1, <2>2 DEF PeriodicTaskSafe, PtInv, PtTypes, PtFlags, PtPlaces, PtDebuggers, PtOwner, PtSteps, PT!ForceNotLost,
       PT!NoStalePeriod, PW!TypeOK, PW!ForceNotLost, PW!NoStalePeriod, PW!StoppedIsQuiet
  <2>3. CASE subject # "WaitingTask"
    BY <2>1, <2>3 DEF PeriodicTaskSafe, PtInv, PtTypes, PtFlags, PtPlaces, PtDebuggers, PtOwner, PtSteps, PT!ForceNotLost,
       PT!NoStalePeriod, PT!TypeOK, PT!SuspendedIsQuiet
  <2> QED
    BY <2>2, <2>3
<1> QED
  BY <1>1, <1>2, <1>3, PTL DEF AllSpec

=============================================================================
