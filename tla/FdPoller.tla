------------------------------ MODULE FdPoller ------------------------------
(***************************************************************************)
(* engine::io::FdPoller: one coroutine waits for a file descriptor that an  *)
(* ev thread watches. The parts are                                         *)
(*   WaitListLightWithEpoch  one word: an awaiter or the signal, with the   *)
(*                           epoch of the present use;                      *)
(*   ev::Watcher             asynchronous starts and stops, merged into one *)
(*                           pending operation and one queued payload, and  *)
(*                           the count of operations under way, which the   *)
(*                           owner looks at to know whether to stop.        *)
(* The ev thread is a loop that polls descriptors, runs the callbacks of    *)
(* ready watchers and performs queued payloads in the order of their        *)
(* arrival. The operations on the word are one step each: their loops end   *)
(* with the compare-and-exchange that decides, and only the owner changes   *)
(* the epoch.                                                               *)
(***************************************************************************)
EXTENDS Integers, Sequences

CONSTANT MaxEpoch   \* bound on the uses of the poller; the code counts modulo 2^32

FdPollerAssumption == MaxEpoch \in Nat

VARIABLES
  slot,       \* state_ of awaiters_: who ("null", "awaiter" or "signaled") and the epoch
  events,     \* events_that_happened_
  valid,      \* state_ of the poller is not kInvalid
  pc,         \* where the owner is
  then,       \* where the owner goes when the operation it pushes is queued
  notified,   \* the present sleep of the owner was ended by the awaiter
  dirty,      \* the owner has appended an awaiter in this epoch
  running,    \* is_running_ of the watcher, and active in libev
  pending,    \* libev has found the descriptor ready and will call the callback
  op,         \* pending_async_op_
  inQueue,    \* is_in_queue_
  count,      \* pending_op_count_
  delivered,  \* delivered_epoch_
  queue,      \* payloads of this watcher queued on the ev thread
  evpc,       \* where the ev thread is with this watcher
  wanted,     \* the kinds of the last Reset()
  ready,      \* kinds for which the descriptor is ready
  open        \* the descriptor is open

pollVars == <<slot, events>>
ownerVars == <<valid, pc, then, notified, dirty>>
watcherVars == <<op, inQueue, count, queue>>
evVars == <<running, pending, delivered, evpc>>
fdVars == <<wanted, ready, open>>
vars == <<pollVars, ownerVars, watcherVars, evVars, fdVars>>

Kinds == {"read", "write"}
NoOp == [type |-> "none", epoch |-> 0]
Start(e) == [type |-> "start", epoch |-> e]
StopOp == [type |-> "stop", epoch |-> 0]

Goto(l) == pc' = l
EvGoto(l) == evpc' = l

Init ==
  /\ slot = [who |-> "null", epoch |-> 0]
  /\ events = {}
  /\ valid = FALSE /\ pc = "closed" /\ then = "closed" /\ notified = FALSE /\ dirty = FALSE
  /\ running = FALSE /\ pending = FALSE /\ delivered = 0 /\ evpc = "loop"
  /\ op = NoOp /\ inQueue = FALSE /\ count = 0 /\ queue = <<>>
  /\ wanted = {} /\ ready = {} /\ open = FALSE

-----------------------------------------------------------------------------
(* The owner: setting up, and I/O *)

\* Reset(fd, kind) with a new descriptor.
Reset ==
  /\ pc = "closed"
  /\ ~open
  /\ \E k \in (SUBSET Kinds) \ {{}} : wanted' = k
  /\ valid' = TRUE /\ open' = TRUE /\ ready' = {}
  /\ Goto("idle")
  /\ UNCHANGED <<pollVars, then, notified, dirty, watcherVars, evVars>>

\* The owner reads or writes until the descriptor would block. The readiness of an earlier wait was reset before.
Drain ==
  /\ pc = "idle" /\ ~dirty
  /\ ready' = {}
  /\ UNCHANGED <<pollVars, ownerVars, watcherVars, evVars, wanted, open>>

PeerActs ==
  /\ open
  /\ \E k \in Kinds \ ready : ready' = ready \cup {k}
  /\ UNCHANGED <<pollVars, ownerVars, watcherVars, evVars, wanted, open>>

-----------------------------------------------------------------------------
(* The owner: waiting *)

\* TryAppendAwaiter(): the signal is there, or the awaiter is stored and the watcher has to be started.
TryAppendAwaiter ==
  /\ pc = "idle"
  /\ IF slot.who = "signaled"
     THEN Goto("removed") /\ UNCHANGED <<slot, then, notified, dirty>>
     ELSE /\ slot' = [slot EXCEPT !.who = "awaiter"]
          /\ dirty' = TRUE
          /\ notified' = FALSE
          /\ then' = "asleep"
          /\ Goto("start")
  /\ UNCHANGED <<events, valid, watcherVars, evVars, fdVars>>

\* PushAsyncOp(): the operation replaces the one that was not performed yet.
StoreOp ==
  /\ \/ pc = "start" /\ op' = Start(slot.epoch)
     \/ pc = "stop" /\ op' = StopOp
  /\ Goto("enqueue")
  /\ UNCHANGED <<pollVars, valid, then, notified, dirty, inQueue, count, queue, evVars, fdVars>>

\* PrepareEnqueue(): the payload is queued unless it already is.
Enqueue ==
  /\ pc = "enqueue"
  /\ inQueue' = TRUE
  /\ IF inQueue
     THEN UNCHANGED <<count, queue>>
     ELSE count' = count + 1 /\ queue' = Append(queue, "payload")
  /\ Goto(then)
  /\ UNCHANGED <<pollVars, valid, then, notified, dirty, op, evVars, fdVars>>

\* The task runs again, notified or because of its deadline or cancellation.
Notified ==
  /\ pc = "asleep" /\ notified
  /\ Goto("remove")
  /\ UNCHANGED <<pollVars, valid, then, notified, dirty, watcherVars, evVars, fdVars>>

Deadline ==
  /\ pc = "asleep"
  /\ Goto("remove")
  /\ UNCHANGED <<pollVars, valid, then, notified, dirty, watcherVars, evVars, fdVars>>

\* RemoveAwaiter(): a signal stays where it is. StopAsync() follows.
RemoveAwaiter ==
  /\ pc = "remove"
  /\ slot' = IF slot.who = "awaiter" THEN [slot EXCEPT !.who = "null"] ELSE slot
  /\ then' = "removed"
  /\ Goto("stopCount")
  /\ UNCHANGED <<events, valid, notified, dirty, watcherVars, evVars, fdVars>>

\* IsActive(): two loads, first the count and then is_running_.
IsActive(first, second, active, inactive) ==
  /\ \/ pc = first /\ Goto(IF count # 0 THEN active ELSE second)
     \/ pc = second /\ Goto(IF running THEN active ELSE inactive)
  /\ UNCHANGED <<pollVars, valid, then, notified, dirty, watcherVars, evVars, fdVars>>

StopAsync == IsActive("stopCount", "stopRunning", "stop", "removed")

\* A user of WaitAny() that was woken by something else and leaves the readiness alone.
LeaveReady ==
  /\ pc = "removed"
  /\ Goto("idle")
  /\ UNCHANGED <<pollVars, valid, then, notified, dirty, watcherVars, evVars, fdVars>>

\* Mutant: the epoch stays.
GetReadySameEpoch ==
  /\ pc \in {"removed", "idle"}
  /\ slot.epoch < MaxEpoch
  /\ slot' = [who |-> "null", epoch |-> slot.epoch]
  /\ dirty' = FALSE
  /\ Goto(IF slot.who = "signaled" THEN "ready" ELSE "idle")
  /\ UNCHANGED <<events, valid, then, notified, watcherVars, evVars, fdVars>>

\* GetReady() and ResetReady(): a new epoch; the result is events_that_happened_ if there was a signal.
GetReady ==
  /\ pc \in {"removed", "idle"}
  /\ slot.epoch < MaxEpoch
  /\ slot' = [who |-> "null", epoch |-> slot.epoch + 1]
  /\ dirty' = FALSE
  /\ Goto(IF slot.who = "signaled" THEN "ready" ELSE "idle")
  /\ UNCHANGED <<events, valid, then, notified, watcherVars, evVars, fdVars>>

WaitReturns ==
  /\ pc = "ready"
  /\ Goto("idle")
  /\ UNCHANGED <<pollVars, valid, then, notified, dirty, watcherVars, evVars, fdVars>>

-----------------------------------------------------------------------------
(* The owner: Invalidate(), and close() *)

Invalidate ==
  /\ pc = "idle"
  /\ Goto("syncCount")
  /\ UNCHANGED <<pollVars, valid, then, notified, dirty, watcherVars, evVars, fdVars>>

\* Stop() returns at once if the watcher is not active.
Stop == IsActive("syncCount", "syncRunning", "syncPush", "synced")

\* RunInBoundEvLoopSync()
StopSync ==
  /\ pc = "syncPush"
  /\ count' = count + 1
  /\ queue' = Append(queue, "sync")
  /\ Goto("syncWait")
  /\ UNCHANGED <<pollVars, valid, then, notified, dirty, op, inQueue, evVars, fdVars>>

\* The function was run on the ev thread ("syncDone"); the guard is destroyed.
StopSynced ==
  /\ pc = "syncDone"
  /\ count' = count - 1
  /\ Goto("synced")
  /\ UNCHANGED <<pollVars, valid, then, notified, dirty, op, inQueue, queue, evVars, fdVars>>

\* GetAndResetSignal(), and the state of the poller.
Invalidated ==
  /\ pc = "synced"
  /\ slot' = [slot EXCEPT !.who = "null"]
  /\ dirty' = FALSE
  /\ valid' = FALSE
  /\ Goto("closed")
  /\ UNCHANGED <<events, then, notified, watcherVars, evVars, fdVars>>

\* FdControl::Close()
Close ==
  /\ pc = "closed" /\ open
  /\ open' = FALSE /\ ready' = {}
  /\ UNCHANGED <<pollVars, ownerVars, watcherVars, evVars, wanted>>

-----------------------------------------------------------------------------
(* The ev thread *)

\* PerformAndRelease(): from here on the payload may be queued again.
TakePayload ==
  /\ evpc = "loop"
  /\ queue # <<>> /\ Head(queue) = "payload"
  /\ inQueue' = FALSE
  /\ queue' = Tail(queue)
  /\ EvGoto("perform")
  /\ UNCHANGED <<pollVars, ownerVars, op, count, running, pending, delivered, fdVars>>

\* StartImpl(): a running watcher is stopped first, which drops what libev has found.
StartImpl == running' = TRUE /\ pending' = FALSE
StopImpl == running' = FALSE /\ pending' = FALSE

\* DoPerformAndRelease()
Perform ==
  /\ evpc = "perform"
  /\ op' = NoOp
  /\ \/ op.type = "none" /\ UNCHANGED <<running, pending, delivered>>
     \/ op.type = "start" /\ delivered' = op.epoch /\ StartImpl
     \/ op.type = "stop" /\ StopImpl /\ UNCHANGED delivered
  /\ EvGoto("release")
  /\ UNCHANGED <<pollVars, ownerVars, inQueue, count, queue, fdVars>>

\* The watcher may be dead after this.
Release ==
  /\ evpc = "release"
  /\ count' = count - 1
  /\ EvGoto("loop")
  /\ UNCHANGED <<pollVars, ownerVars, op, inQueue, queue, running, pending, delivered, fdVars>>

\* The function of Stop().
PerformSync ==
  /\ evpc = "loop"
  /\ queue # <<>> /\ Head(queue) = "sync"
  /\ queue' = Tail(queue)
  /\ StopImpl
  /\ Goto("syncDone")
  /\ UNCHANGED <<pollVars, valid, then, notified, dirty, op, inQueue, count, delivered, evpc, fdVars>>

\* libev finds the descriptor ready.
Poll ==
  /\ evpc = "loop"
  /\ running /\ ~pending
  /\ ready \cap wanted # {}
  /\ pending' = TRUE
  /\ UNCHANGED <<pollVars, ownerVars, watcherVars, running, delivered, evpc, fdVars>>

\* IoWatcherCb(), StopWithinEvCallback(): the guard, then StopImpl().
IoWatcherCb ==
  /\ evpc = "loop" /\ pending
  /\ count' = count + 1
  /\ EvGoto("cbStop")
  /\ UNCHANGED <<pollVars, ownerVars, op, inQueue, queue, running, pending, delivered, fdVars>>

StopWithinEvCallback ==
  /\ evpc = "cbStop"
  /\ StopImpl
  /\ EvGoto("cbStore")
  /\ UNCHANGED <<pollVars, ownerVars, watcherVars, delivered, fdVars>>

\* The events of the watcher, which are the ones it was set up for.
StoreEvents ==
  /\ evpc = "cbStore"
  /\ events' = wanted
  /\ EvGoto("cbSignal")
  /\ UNCHANGED <<slot, ownerVars, watcherVars, running, pending, delivered, fdVars>>

\* SetSignalAndNotifyOneIfEpochMatches()
SetSignal ==
  /\ evpc = "cbSignal"
  /\ slot' = IF slot.epoch = delivered THEN [slot EXCEPT !.who = "signaled"] ELSE slot
  /\ notified' = (notified \/ (slot.epoch = delivered /\ slot.who = "awaiter"))
  /\ EvGoto("cbEnd")
  /\ UNCHANGED <<events, valid, pc, then, dirty, watcherVars, running, pending, delivered, fdVars>>

\* The guard is destroyed.
EndCallback ==
  /\ evpc = "cbEnd"
  /\ count' = count - 1
  /\ EvGoto("loop")
  /\ UNCHANGED <<pollVars, ownerVars, op, inQueue, queue, running, pending, delivered, fdVars>>

-----------------------------------------------------------------------------
OwnerStep ==
  \/ StoreOp \/ Enqueue \/ Notified \/ RemoveAwaiter \/ StopAsync \/ Stop \/ StopSync \/ StopSynced \/ Invalidated
UserStep ==
  \/ Reset \/ Drain \/ TryAppendAwaiter \/ Deadline \/ LeaveReady \/ GetReady \/ WaitReturns \/ Invalidate \/ Close
QueueStep == TakePayload \/ Perform \/ Release \/ PerformSync
CallbackStep == IoWatcherCb \/ StopWithinEvCallback \/ StoreEvents \/ SetSignal \/ EndCallback

Next == OwnerStep \/ UserStep \/ PeerActs \/ QueueStep \/ Poll \/ CallbackStep

Spec == Init /\ [][Next]_vars

\* The task runs; the ev thread goes round its loop, which performs what is queued and what was polled.
Fairness ==
  /\ WF_vars(OwnerStep) /\ SF_vars(QueueStep) /\ WF_vars(Poll) /\ SF_vars(CallbackStep)

-----------------------------------------------------------------------------
\* Type invariant; the count does not wrap.
TypeOK ==
  /\ slot \in [who : {"null", "awaiter", "signaled"}, epoch : 0 .. MaxEpoch]
  /\ events \subseteq Kinds /\ wanted \subseteq Kinds /\ ready \subseteq Kinds
  /\ {valid, notified, dirty, running, pending, inQueue, open} \subseteq BOOLEAN
  /\ pc \in {"closed", "idle", "start", "stop", "enqueue", "asleep", "remove", "stopCount", "stopRunning", "removed",
             "ready", "syncCount", "syncRunning", "syncPush", "syncWait", "syncDone", "synced"}
  /\ then \in {"closed", "asleep", "removed"}
  /\ op \in [type : {"none", "start", "stop"}, epoch : 0 .. MaxEpoch]
  /\ count \in 0 .. 3 /\ delivered \in 0 .. MaxEpoch
  /\ queue \in {<<>>, <<"payload">>, <<"sync">>, <<"payload", "sync">>}
  /\ evpc \in {"loop", "perform", "release", "cbStop", "cbStore", "cbSignal", "cbEnd"}

\* Invalidate() has returned: the descriptor may be closed and the poller destroyed, for the ev thread does
\* not watch the one and will not touch the other.
ClosedIsQuiet ==
  ~valid => /\ ~running /\ ~pending
            /\ evpc = "loop" /\ queue = <<>> /\ count = 0

\* Wait() and GetReady() report readiness only if the descriptor is ready; a callback for an earlier wait,
\* which was ended by its deadline, does not count for this one.
ReadyIsReal == pc = "ready" => ready \cap wanted # {}

\* While the owner sleeps, the watcher runs for its epoch, or will be started for it; starts and stops that
\* are merged do not lose it.
SleeperIsWatched ==
  pc = "asleep" /\ ~notified =>
    \/ running /\ delivered = slot.epoch
    \/ op = Start(slot.epoch) /\ (inQueue \/ evpc = "perform")
    \/ evpc \in {"cbStore", "cbSignal"} /\ delivered = slot.epoch

\* GetReady() gives the "event kind that was triggered".
KindWasTriggered == pc = "ready" => events \subseteq ready
=============================================================================
