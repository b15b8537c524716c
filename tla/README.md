# A TLA+ project for userver

userver runs the requests of a service as stackful coroutines ("tasks") on pools
of worker threads. Everything else in the repository (HTTP, drivers, caches,
dynamic config, distributed locks) blocks by putting a task to sleep and goes on
when somebody wakes it. This project models that core, the synchronisation built
on it, the lock-free structures below it, and the services above it whose
correctness is a question of order: who does what while somebody else is in the
middle of something. Parsing, formatting, protocols and generated code, most of
the repository's lines, are left aside.

Paths are relative to `src/core/src/engine/` unless they begin otherwise.
`PROJECT.json` lists every component, the source lines of every definition
(`map`), the hazards the properties are for, and the mutant of the code that
each property was seen to catch.

## The system

**The task** (`task/task_context.cpp`). One atomic word, `sleep_state_`, holds flags
(who wants the task awake, `kSleeping`, `kNonCancellable`) and the 32-bit number of
the present sleep, its epoch. `Wakeup()` may be called by any thread, `DoStep()` is
run by a worker, `Sleep()` by the task. The word elects the one caller that puts the
task into the queue. Hard: `Sleep()` loads and stores the word in two steps;
wakeups arrive late, for a sleep that is over or a task that has finished; one
timer serves two deadlines; the task processor may cancel the very task it is
scheduling. Right means: never run by two workers, never queued twice, never
forgotten; a sleep ends for a reason of its own; a cancellation or a deadline is not
lost; a finished task stays finished.

**The timer** (`task/context_timer.cpp`, `ev/data_pipe_to_ev.*`). A task hands new
parameters to the ev thread through two buffers and one atomic word, and a payload
that is queued at most once. Right means: no race on a buffer, no lost update, no
older update after a newer one, nothing left when the finalizer has run.

**Waiting** (`impl/wait_list.*`, `impl/wait_list_light.*`, mutexes, semaphores,
events, condition variables, `WaitAny`, `WaitAllChecked`, the work stealing queue).
A waiter is between its failed attempt and its entry in a list when the owner
unlocks; a notification races a deadline or a cancellation; a counter is read
outside of the lock that guards the list. Right means: exclusion, permits that add
up, and nobody who sleeps beside what it waits for.

**Without locks** (the local queue of a worker, the intrusive MPSC queue,
`rcu::Variable` with its striped read indicator, the MPMC queue). Right means: as if
each operation were one step; nothing freed or reused while somebody refers to it.

**Stopping** (`WaitTokenStorage`, `TaskProcessor::Cleanup()`, the component system,
`PeriodicTask`). Right means: quiet when the stop returns, and the stop returns.

**Services** (PostgreSQL connection pool, HTTP client requests, the asynchronous
logger, `FdPoller`, event channels and the config storage, cache updates, dumps,
distributed locks). They meet failures from outside: lost answers, crashes, requests
that time out, callbacks that call back.

### How they interact

A primitive calls `TaskContext::Sleep()` with an awaitable that keeps an awaiter
(task and epoch); a notifier calls `Wakeup(kNotify, epoch)` on it; `Sleep()` arms the
timer, whose ev thread calls `Wakeup(kDeadlineTimer, epoch)` or `RequestCancel()`.
`TaskLife` is the seam: `TaskContext` is proved to implement it, and the modules of
the primitives use a sleep as `TaskLife` describes it. Likewise upwards: each module
uses the ones below as their own modules show them to behave.

| uses | in one step, because |
|---|---|
| a sleep | `TaskContext` implements `TaskLife` |
| the timer slot of `TaskContext` | `ContextTimer`: `NewerOnly`, `NothingLost`, `EventuallyArmed` |
| the semaphore and condition variable of `SharedMutex`, the semaphores of `MpmcQueue` | `Semaphore`, `ConditionVariable` |
| the local queues of `WorkStealing` | `SpmcQueue` takes the oldest items |
| the queue of `TpLogger` | `MpscQueue` implements `FifoQueue` |
| the indicator of `Rcu` and of `WaitTokenStorage` | `ReadIndicator`: `IsFree()` is wrong in one direction only |
| `event_mutex_` and `update_mutex_` of channels | `SharedMutex`; a reader looks at the writers in one step and takes its permit in another |
| the periodic tasks of pools, caches and dumps | `PeriodicTask` |

## Modules

| module | models |
|---|---|
| `TaskLife` | what a task promises: sleeps that begin, are signalled and end |
| `TaskContext` | `TaskContext`, with the task processor and the timer as the task meets them |
| `ContextTimer` | `ContextTimer`, `DataPipeToEv`, `MultiShotAsyncPayload` |
| `Mutex`, `LightMutex` | `MutexImpl` over `WaitList` and over `WaitListLight` |
| `Semaphore` | `Semaphore` and `CancellableSemaphore`, with `SetCapacity()` |
| `SingleConsumerEvent`, `ConditionVariable`, `SharedMutex` | the classes of these names |
| `WaitAny`, `WaitAllChecked` | `WaitAnyContext`, `WaitAllChecked()` |
| `WorkStealing`, `SpmcQueue` | the work stealing queue and the local queue in it |
| `MpscQueue`, `FifoQueue` | the intrusive MPSC queue, and what it promises |
| `Rcu`, `ReadIndicator` | `rcu::Variable`, `StripedReadIndicator` |
| `MpmcQueue` | `concurrent::GenericQueue` with many producers and consumers |
| `WaitTokenStorage` | the class, which `BackgroundTaskStorage` waits on |
| `TaskProcessorShutdown` | `Cleanup()`, the workers, `DetachedTasksSyncBlock` |
| `ComponentSystem` | loading, lifetime stages and destruction of components |
| `PeriodicTask`, `ConnectionPool`, `HttpRequest`, `TpLogger`, `FdPoller` | the classes of these names (`RequestState` and the easy handle for `HttpRequest`) |
| `AsyncEventChannel`, `StorageData` | event channels; the storage of the dynamic config on them |
| `CacheUpdates`, `Dumper` | `CacheUpdateTrait::Impl`; `dump::Dumper` with its files |
| `DistLock` | `dist_lock::impl::Locker` on several hosts and their database |
| `MCTaskContext`, `MCWakeups`, `MCLockFree`, `MCShutdown`, `MCServices` | instances for TLC |
| `TaskContextProofs`, `ContextTimerProofs`, `RcuProofs`, `DistLockProofs` | theorems about one component |
| `WakeupsProofs`, `LockFreeProofs`, `ShutdownProofs`, `ServicesProofs` | theorems about the components of the MC module of that name |

An action is one access of shared state with the local computation around it; a call
stack is flattened into `pc`. A lock held over several accesses is a position that
keeps others out. A `compare_exchange_weak` in a loop is one step with the last value
read. Every bound is a constant `Max...` in a guard.

### What the modules assume and leave out

* `TaskContext`. Cancellation reasons but out-of-memory are one value. A deadline is
  none, before or after that of the task; time is a choice, as are overload and
  shutdown on each pass through the processor. Memory is sequentially consistent but
  for the relaxed store in `Sleep()` followed by the read of `cancellation_reason_`,
  which may come first (`SleepCheckBeforeStore`): the second look in `DoStep()` is for
  that order. The epoch does not wrap within `MaxEpoch` (`EpochAssumption`): a wakeup
  delayed over 2^32 sleeps is not covered.
* `ContextTimer`: `Restart()` with a deadline already reached pushes nothing.
* `Semaphore`: the two counters of line 31 are loaded in either order.
* `WorkStealing`: what is claimed is that no task is stranded, not that no worker idles
  beside a task, which the code does not promise.
* `Rcu`, `MpscQueue`, `SpmcQueue`, `WaitTokenStorage`: sequentially consistent.
  `WaitTokenStorage` leaves out the wait of a thread outside of coroutines.
* `PeriodicTask`: the settings are a version; every version has other periods.
* `ComponentSystem`: prints, health and configs are left out.
* `ConnectionPool`: connections are interchangeable but for their version, so bags count
  them; limits on connecting are failures that may happen.
  Changes of the settings (`SetSettings()`, `SetMaxConnectionsCc()`, `pool.cpp:391-442`), and with them
  of the pool's capacity, are left out.
* `WaitAny`: an awaitable is appended once at a time; `wait_any.cpp:88-90` would allow more.
  `MpmcQueue`: every consumer has a `Consumer` of its own, so an attempt to pop fails beside others
  only if there are others; tasks that share one `MultiConsumer` are left out.
* `TpLogger`: two policies at a full queue; `Reopen()` is pushed and answered like `Flush()`; a
  `Log()` that cannot make its node throws (`PushMayFail`).
* `AsyncEventChannel`: a sender may be cancelled while it waits for its callbacks (`Interrupt`), and
  a task that has not begun may be cancelled, by that sender or by an overloaded task processor
  (`SkipCallback`). `missed` remembers the listeners that went without an event, or without a config
  because `after_assign_hook` threw (`HookThrows` of `StorageData`), until they are called again.
* `CacheUpdates`: the data is the newest change of either kind. The owner starts once; that
  `first_update_attempted_` survives a restart (`cache_update_trait_impl.cpp:320`) is left out.
* `Dumper`: the data is a version. Every reading of a clock is later than the one before, and
  up to `MaxOutage` passes between a crash and the restart. A killed process loses its memory
  (`Crash`), and stops `Cleanup()` halfway if it was there, as an error does. A machine that is reset
  (`Reset`) also loses the names that have not reached the disk: `FileWriter::Finish()`
  (`dump/operations_file.cpp:46-58`) flushes the file and not the directory, unlike
  `RewriteFileContentsAtomically()` (`write.cpp:106`). `disk` is what has reached it; each change of
  the directory brings it up to date or leaves it behind (`DiskFollows`), that is, the file system
  is assumed to keep the order of renames and removals, as a journal does.
* `HttpRequest`: one Request, a FIFO to the ev thread; timeouts are choices, and so is the veto of
  a middleware against a retry.
* `FdPoller`: the word's operations are steps; the ev loop polls, calls back and performs
  payloads in turn.
* `DistLock`: time in ticks, ages since events; answers are lost or come at any age up to
  `MaxAnswer`; a `Release()` that fails has no effect later; a cancelled worker stops at
  once, as `dist_locked_worker.hpp` demands of it.

## Runs

`MCWakeups`, `MCLockFree`, `MCShutdown` and `MCServices` each ask one question of several
components. These share nothing, so a behaviour exercises one of them, its `subject`,
and the others rest: the states are the sum of the components' states, not the product.
A property of such a run is a conjunction of a component's own invariants, each claimed of
the behaviours whose subject it is. Some components are subjects more than once, with other
constants: `PlainRequest` has no resolver, no deadline and does not cancel; `BlockingLogger` blocks
at a full queue and is never started, so that its pushers consume (the handover to the worker is in
`TpLogger`; a `Log()` that blocks beside the worker is in neither); `SharedChannel` has two senders;
`CacheDumper` is a cache that reports its updates, also those without changes; `TestedDumper` is
told to write by the testsuite as well.

| run | instance | shows |
|---|---|---|
| `task_safety` | 2 workers, a creator, a client, the ev thread, 2 sleeps | ownership, states, outcomes of sleeps, end of the task, refinement of `TaskLife` |
| `task_live` | the same with 1 worker | a notification, a deadline or a cancellation ends the sleep |
| `timer` | 4 restarts | buffers are exclusive, no parameters lost, the newest get armed |
| `dist_lock` | 2 hosts, `lock_ttl` 4, margin 2, answers up to 2 late, a crash | workers of two hosts do not overlap; a lock is released when its worker is done |
| `wakeups` | 2 or 3 tasks in each primitive; 2 workers and 2 jobs in the queue | nobody sleeps beside what it waits for; exclusion; permits |
| `wakeups_live` | 2 tasks each | who waits is served; a timed call ends though the owner never unlocks; writers do not starve |
| `lock_free` | ring of 4, 1 thief; 3 nodes, 2 producers; 2 readers, 2 writers, 3 records; 2 producers, 2 consumers | each structure does what its operations say |
| `shutdown` | 2 tasks; 2 workers; 3 components; 2 forcers and a testsuite task | quiet after the stop; the stop returns |
| `services` | see `MCServices.cfg` | the invariants of each service with its failures |
| `services_live` | smaller | each service answers its caller |
| `components_hooks`, `event_channel_subscribe` | 2 components; 1 sender, 2 listeners | violations, see Findings |

*Why the bounds are enough.* A stale wakeup needs an epoch that has passed: two sleeps
after the bootstrap. A double run needs two workers. A lost update of the pipe needs a
push while the consumer reads and one before it returns; the worst case of the loop
takes a third, and `MaxPush = 4` leaves one more. A lost wakeup needs an owner, a waiter
that takes the notification away, and one that sleeps on. A recycled RCU record needs
three records and two commits after the reader's load. A ring of 4 with 7 pushes goes
round, so that slots are reused under a thief. A brain split needs two hosts and one
lost answer. A cache that goes backward needs two changes of the source (`MaxChanges = 2`), one
between the reads of two updates; of the configs that `CacheUpdates` cannot tell apart one is taken
(`ConfigMatters`), and the theorem covers all. A dump that is only renamed needs an update without changes
(`MaxChecks = 1`), one that is too old a clock that runs past `MaxAge` (1 or 2, with an outage of
2), a name that is lost a reset after the rename. The instance of the pool leaves the queue of
pending connects short; the theorem covers it. Where a theorem states the same property, no bound
matters.

*Deadlock* is checked in `dist_lock`, where time always passes. Elsewhere what the
processes do is bounded and they may stop; that nobody is stuck is said by the liveness
properties.

*Symmetry* of threads is used in `task_safety` only, which has no liveness property.

*Fairness.* Every thread that can take a step in the library's code takes one in the
end (weak fairness per thread: the OS schedules threads, workers block on an empty queue
only), and an armed timer expires. What user code does is fair only where a caller waits
for it and the documentation demands it: owners unlock (not in `HeldMutex`, where a call
with a deadline still ends), users return connections, callbacks, constructors and hooks
return, curl ends an attempt by its timeout. A `Flush()` of the blocking logger is assumed
to come seldom enough for the consumer to catch up again and again. Nobody has to cancel,
to notify, or to call again.

## Findings

Two violations are kept as runs:

* `components_hooks` (`HooksInOrder`). `WaitStage()` never throws
  `StageSwitchingCancelledException`, since the predicate it waits for is true when the
  switching is cancelled. When `OnAllComponentsLoaded()` of a component throws, the
  components that depend on it call theirs nevertheless.
* `event_channel_subscribe` (`SendReturns`). `RemoveListener()` waits for the running callback
  under the mutex of the map; if that callback subscribes another listener, the callback,
  `RemoveListener()` and `SendEvent()` wait for each other for ever.

Others were found on the way. Each is a violation of the property in the module, under
the constants given:

| module, property | constants | what happens |
|---|---|---|
| `Semaphore`, `NoLostWakeup` | `Cancellable`, 3 tasks, `Needs = {1}`, capacity 1 | the one notified waiter of a `CancellableSemaphore` is cancelled as well, leaves without the permit and tells nobody (`semaphore.hpp:83`: "it is woken up") |
| the same | not `Cancellable`, 4 tasks, `Needs = {1, 2}`, capacity 2 | one released permit notifies a waiter that needs two; one that needs one sleeps on |
| `DistLock`, `NoBrainSplit` | `Ttls = {4, 6}` | `lock_ttl` is raised while the lock is held: the watchdog counts the new one for the old lease (`locker.cpp:242`) |
| the same | `Ttls = {4}`, `MaxAnswer = 5` | an answer later than `lock_ttl`: the worker is started before the deadline is looked at (`locker.cpp:233`) |
| `MpmcQueue`, `ClosedOnlyWithoutConsumers` | `ConcurrentRevival = TRUE` | `GetConsumer()` between the two steps of `MarkConsumerIsDead()`: pushes are refused for good |
| `PeriodicTask`, `StoppedIsQuiet` | a debugger, `Timed`, `kNow` | `SynchronizeDebug()` steps in its caller's task; `Stop()` does not wait for it |
| `Dumper`, `UpdateIsDumped` | `ReadWhileUpdating = TRUE` | an update reported while the dump is being read is overwritten and not dumped |
| `CacheUpdates`, `FullRequestKept` | full and incremental updates | a request for a full update that comes during one is forgotten |
| `CacheUpdates`, `ExpiredIsRepaired` | only incremental, expiry after 1 failure | an expired cache is never filled again |
| `HttpRequest`, `RequestCanBeReused` | `HasResolver`, 2 requests | a cancel that overtakes the posted attempt: its handler is never called |
| `HttpRequest`, `CancelStopsRetries` | `Retries = 2` | the retry timer armed before `Cancel()` sends one more attempt |
| `AsyncEventChannel`, `SendReturns` | 2 senders, `CallbackCalls = {"unsubscribe"}` | a callback that unsubscribes while another `SendEvent()` waits |
| `StorageData`, `OneDiffPerConfig` | `Kinds = {"update"}`, 2 versions | a subscriber gets the same config twice, which the comment at `storage_data.cpp:85` means to exclude |
| `TpLogger`, `AnswersCome` | `Block`, `PushMayFail = TRUE` | a `Log()` that fails to make its node takes its claim back (`tp_logger.cpp:201-205`) and notifies nobody: one that blocks for capacity may wait on although there is room. The live run has `PushMayFail = FALSE` |
| `StorageData`, `UpdateCompletes` | `Kinds = {"scoped"}`, 2 senders | two locks taken in both orders |
| `FdPoller`, `KindWasTriggered` | `MaxEpoch = 1` | the kind reported is the mask that was asked for, not what happened |

Two more show in what the properties have to except:

* `SendEvent()` of a sender that is cancelled in `WaitForTask()`: `WaitFor()` throws outside of the `try`
  (`core/src/concurrent/async_event_channel.cpp:18`), and `tmp_lock` (`async_event_channel.hpp:237`) is
  destroyed before `tasks` (`hpp:227`). The next event is sent while callbacks of this one run, though
  `hpp:219` says "Strict FIFO serialization is guaranteed", and the callbacks that had not begun never run.
  The same happens to a callback whose task an overloaded task processor cancels.
  `OneEventAtATime` excepts the senders that unwind, `SubscriberIsCurrent` and `ConfigIsCurrent` the
  listeners in `missed`.
* An `after_assign_hook` that throws (`core/src/dynamic_config/storage_data.cpp:56`): the config is assigned
  and readable and no diff is sent; subscribers stay behind until the next update (`ConfigIsCurrent`).

The theorem `NoSplit` says of the two about `DistLock` where the line is: its hypothesis
`Timely` is what they violate.

## Proofs

All theorems hold for every value of the constants that the modules' assumptions (and the
hypotheses named below) allow: any number of threads, tasks, readers, hosts, sleeps and
calls. Each invariant was checked with TLC before it was proved. A theorem about a component
of an MC module is about its `AllSpec`: the definition the run checks, for all constants,
where a step of another component is a stutter.

| run | invariants that a theorem states |
|---|---|
| `task_safety`, `timer`, `dist_lock` | all |
| `wakeups` | `MutualExclusion`, `NoLostWakeup`, `LightListsSafe`, `ConditionVariableSafe`, `SharedMutexSafe`, `WorkStealingSafe` |
| `lock_free` | `HeadNotAfterTail`, `TakesTheOldest`, `MpmcQueueSafe` (and three theorems about `Rcu`) |
| `shutdown` | `TokenStorageSafe`, `TaskProcessorSafe`, `PeriodicTaskSafe` |
| `services` | `FdPollerSafe`, `HttpRequestSafe`, `ConnectionPoolSafe`, `CacheUpdatesSafe` |

**The task.** `TypeCorrect` (`TaskContextProofs`); then

    OwnershipInv == TypeOK /\ Ownership /\ BootInv /\ SleepInv

`SingleOwner` is not inductive: a step of `Wakeup()` knows the word and not the queue.
`Ownership` ties them: the word is *quiet* (`kSleeping`, no source that counts) exactly when
nobody owns the unfinished task. `BootInv`: the bootstrap, which is always obeyed, is sent
once, before anyone touches the task. `SleepInv`: between the clearing of the word and
`kSleeping`, nobody else sets it. One lemma about flags (`ElectsOne`), five about how ownership
moves, and a case per action that names which applies. Hence `OneOwner`, `QuietIffUnowned`
and the action property `FinalWhenFinished`.

    TaskInv == OwnershipInv /\ PlacesInv /\ SourcesInv

`PlacesInv` says what each owner's place, the queue and "nobody" mean for `state_` and
the coroutine. `SourcesInv` is about claims: a pending wakeup, whether a call begun, a shot
in the pipe or an armed timer, claims a notification only if its entry was popped, a
cancellation only if one was requested, and a deadline only of an earlier epoch or one this
sleep has; the flags of the word inherit that. A step may start calls only with cause
(`Honest`), which is one lemma per way to call and not one per action. Hence
`StateFollowsOwner`, `SourceAlwaysFound`, `OutcomeOfThisSleep`, and `TaskLifeImplemented`: every
step maps to a step of `TaskLife` or to a stutter. That last theorem is what allows the other
modules to use a sleep as `TaskLife` has it.

**The timer.** `NoRaceOnBuffers` needs `ConsumerView` (the consumer's exchange starts from a word in
which its buffer is free) and `FinalizerLast`. The other theorems rest on

    FlowInv == PipeInv /\ QueueInv /\ Numbers /\ DataIsNewest /\ DeliveredOrOffered /\ OfferIsTaken

in which the parameters are numbered: what the word calls data is the newest; if it offers
none the ev thread has it; while it offers some, a payload is queued or about to be, or the
consumer is about to look. Hence `NoUpdateLost`, `TimerMovesForward`, `QuietAfterFinalize`,
`PayloadQueuedOnce`, `OneNewestBuffer`. `FourAttempts`, the assertion in `LockProducer()`, counts
the changes that the consumer can still make to the word under the producer (`AttemptInv`).

**Mutex.** `Exclusion` needs only the types of `owner`, `result` and `pc`: it does not depend on who
is woken. `NoWakeupLost` depends on everything else, and its invariant `WaitInv` counts `sleepies_`
with every task that may be in the list (cardinalities of finite sets), keeps list and positions
in step, and hands the duty to wake on.

**The light lists** (`LightListsAreSafe`). The single-waiting-task mutex: in `LmInv` one task waits at a time
(`LmAlone`), a task that goes to sleep without a signal is in the word or with an unlocker that has
taken it out (`LmKept`, `LmCarried`), and one that sleeps beside a free mutex and is still in the word has
an unlocker at its exchange (`LmExchange`). Its assumption, at most two tasks, is the contract of the
class. The event: `EvInv` adds to the property that the awaiter in the word is that of the present sleep
(`EvWord`), that senders carry this epoch or an earlier one (`EvEpochs`), and that a notification of this
sleep has left the signal in the word (`EvNotified`): a late one must not end the next wait.

**Condition variable** (`ConditionVariableIsSafe`).

    CvInv == TypeOK /\ CvCounted /\ CvListed /\ CvOwned /\ CvTaken

That no item stays beside a sleeper is a matter of numbers, so `CvTaken` counts: while anyone waits,
those who were notified or are about to look are at least as many as the items. That needs `sleepies_`
to be exact (`CvCounted`), every sleeper to be in the list once, and gone from it only if notified
(`CvListed`), and the mutex to be held from the predicate to the entry (`CvOwned`): it is what makes the
items zero at the entry, and what a `Wait()` that unlocks first would lose.

**Shared mutex** (`SharedMutexIsSafe`). `SmInv` has ten parts: the permits of the semaphore are those of the
tasks inside (`SmAlone`) and the registered writers are exact (`SmCounted`); its list has the sleepers
without a notification (`SmListed`); a writer
that sleeps beside free permits has somebody who will try next (`SmWritersWait`); a reader sleeps only for
a writer that is inside or about to notify all (`SmReadersWait`, `SmReadersTold`); the mutex of the
condition variable is held from a reader's predicate to its entry, and the last writer passes through it.
The last is the point: `registered_writers_count_` is decremented outside of that mutex, so a reader may
have looked at it and not be in the list yet. The assumption that `kWriterLock`, the largest number of
the counter's type, is more than the tasks and more than 2 is what the code relies on.

**Work stealing** (`WorkStealingIsSafe`).

    WsInv == types /\ WsLocals /\ WsBufs /\ WsSpins /\ WsLinked /\ WsTargets /\ WsListed /\ WsWatched

No task is stranded because a worker that has found its local queue empty leaves it so until it runs a task
(`WsLocals`) and tasks are in a worker's buffer only while it moves them (`WsBufs`): when all workers sleep,
only the global queue matters. `WsWatched` is about that queue: when every worker has looked at it for the
last time and no notifier is at work, it is empty. A worker enters the list before that last look, so one
that will sleep and was not woken is in the list or with who will wake it (`WsListed`); the list has each
worker once, between stepping down and becoming active (`WsLinked`). `WsSpins` says that the count of
spinning workers is exact and at most half: a producer that sees spinners wakes nobody. The spinner it relied
on is not past its last look: if it finds nothing it steps down, and then looks at the global queue again.
Assumption: the workers are finitely many and there is one.

**The local queue.** `SpmcInv`: the ring has room for what is about to be stored (`Room`); the slots
between `head` and what is stored hold their items (`Kept`); what a taker has read is behind
(`Snapshot`); and *if head has not moved*, its copy is right (`Copied`). `DifferentSlots` is the
arithmetic of the ring. Hence `HeadNotAfterTailHolds` and `TakesTheOldestHolds`.

**The MPMC queue** (`QueueIsSafe`). `CqInv == CqTypes /\ CqCounted /\ CqSides`: the counters of both
semaphores are the elements and the tasks between two steps of a push or a pop, and the counter of a
side is the number of its living members (`CqCounted`); the counter stays -1 while the last death is
handled, and whoever makes it rise undoes what that death did (`CqSides`). The instance has
`ConcurrentRevival <- FALSE`, a side is revived only after that; Findings shows the other case.

**RCU.** `RcuInv`: every record is in one place; the current one and a writer's copy have the committed
value; a reader past its second look has locked a record that is *published* (current, with the
writer that retires it, or in the retired list). A lock taken before that look may be on a record
that was recycled and protects nothing, so the invariant claims nothing of it. Hence
`ReaderValueKept`, `UpdatesKept`, `RecordInOnePlace`, for both deleters. Hypotheses: `RcuAssumption`
and that no writer is called "none".

**Stopping.** `StorageIsSafe`: `TokenInv` counts the tokens by their holders (`TokensCounted`), allows a snapshot of
the striped counters to be behind and never ahead (`SnapshotsBehind`), and says that while the owner sleeps
or is about to, and the last token has died, somebody is on the way to the signal (`SignalOnItsWay`).

`ProcessorIsSafe`: `TpInv` follows a detached task through its token (`TpTokens`: free, or used by one task
and pointing to it or to none), the references that keep its context, counted one by one (`TpRefs`), the
steps of `Add()` (`TpAdds`) and the walk of `Cleanup()`: a detached task that `Add()` did not cancel is
cancelled, or the walk has it or will find its token (`TpWalk`). `TpQueue` and `TpWorkers` say that no two
workers have the same task.

`PeriodicIsSafe`: `PtInv` adds to `ForceNotLost` and `NoStalePeriod` where `Start()`, `Stop()` and the task may be
together (`PtOwner`) and who holds the mutex of a step (`PtSteps`). The theorem covers both instances of the
run, those that do and do not begin with a step.

**Services.** `PollerIsSafe`: in `FdInv` an operation that was not performed has its payload queued, in
hand, or about to be queued (`FdOpQueued`, `FdCounted`); an owner that does not wait has stopped the
watcher or has sent for it (`FdStops`); one that waits is watched in its epoch (`FdSleeps`); and of the
present epoch the watcher and the word speak only if there was readiness in it (`FdEpochs`).

`RequestIsSafe`: in `HrInv` the handler of a request is in at most one place (the resolver, the queue to the ev
thread, curl, the retry timer, or being called: `HrOnePlace`, `HrQueued`), attempts stay in the budget of
retries, one that is due included (`HrBudget`), and the one attempt started for a cancelled request is the
last (`HrLateOnce`).

`PoolIsSafe`: `CpInv` counts. The semaphore and the statistics are sums over bags of connections, users at
their places and the maintenance task (`CpCounted`); every connection was a connect task (`CpMade`, which
bounds the bags); what the destructor has waited for does not come back (`CpGone`): it begins when no user is
left, and each of its waits closes one way for a connection to appear. `NothingLeftBehind` follows from
the last and the counts, not from either alone.

`CacheIsSafe`: that the cache never goes backward is a matter of who has read what. `CuInv` says that the
mutex is held exactly by the one that updates (`CuLocked`), and that the cache is not newer than what
the update under the mutex has read, nor that than the source (`CuOrdered`). Until the first update is over
nobody else updates (`CuAlone`, `CuRuns`), which is why a start that succeeds leaves data (`CuStarted`).

**Distributed lock.** `DistInv` is about two clocks: the age of the lease as the host counts it, from
before the request, is never less than its age in the database (`LeaseOk`), and no request or watchdog
gets older than it may (`AgeOk`). Hence `NoSplit`, `WorkIsUnderLease`, `WorkerIsOwner`, `IdleWhenReleased`,
under `Timely`: calls of the strategy fail before the shortest `lock_ttl`, and `lock_ttl` changes by
less than half the margin. The run `dist_lock` satisfies it; Findings shows what happens beyond it.

*Model-checked only.* Liveness (fairness and `ENABLED` are out of the prover's reach): `SleepEnds`,
`EventuallyArmed`, `WaitsEnd`, `StopsEnd`, `AnswersCome`. What folds and recursive functions compute for
every input (induction over data): the sums in `ReadIndicator` (in `RcuSafe`), in `SemaphoreSafe` and in
`WaitSetsSafe`, and the paths between components in `ComponentSystemSafe`. The selections from sequences in
`TpLoggerSafe`, the order of files in `DumperSafe`, `EventChannelSafe`
and the refinement of `FifoQueue` need invariants that were not worked out; nothing else stands against them.

## Not modelled, and what is left

The repository has some 370 000 lines: drivers for a dozen databases, serialization and
generated code, HTTP and gRPC, utilities. What a model checker adds to them is little: they are
sequential code over libraries that are not in the repository. The project maps the parts in
which threads, hosts or callbacks wait for each other, a few per cent of the lines.

Left out in what is modelled: the coroutine switch, reference counts of `TaskContext`, statistics,
`GenericWaitList`, `FutureState`, `MultiConsumerEvent`, `RcuMap`, the coroutine pool, the token
bucket, the deadlock detector, LRU caches, the transfer loops of sockets and TLS.

What a further step would take first: futures and `WaitUntil()` on another task, the connections of the
HTTP server, the subscription state machine of Redis and `ExpirableLruCache` as models;
`EventChannelSafe`, and `NoDangling` of `MpscQueue` with its refinement of `FifoQueue` as proofs.
