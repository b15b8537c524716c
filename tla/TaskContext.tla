---------------------------- MODULE TaskContext ----------------------------
(***************************************************************************)
(* One coroutine task of userver's engine (engine::impl::TaskContext) and  *)
(* every thread that touches it:                                           *)
(*   - the thread that constructs the TaskBase and bootstraps the task;    *)
(*   - the worker threads of its TaskProcessor (ProcessTasks, DoStep);     *)
(*   - clients: threads that hold a handle of the task and cancel it, or   *)
(*     that notify the awaitable it sleeps on;                             *)
(*   - the ev thread that runs its ContextTimer.                           *)
(* The task meets them in one atomic word, sleep_state_ (flags, epoch),    *)
(* and each access of that word is an action of its own.                   *)
(***************************************************************************)
EXTENDS Integers

CONSTANTS
  Workers,        \* worker threads of the task processor
  Clients,        \* threads that cancel the task or notify its awaitable
  Creator,        \* the thread that runs the constructor of TaskBase
  EvThread,       \* the timer thread
  MaxEpoch,       \* bound: how many times the task sleeps
  EpochModulus    \* 2^32 in the code: Epoch is a std::uint32_t

ASSUME ThreadsAssumption ==
  /\ Creator \notin Workers \cup Clients
  /\ EvThread \notin Workers \cup Clients \cup {Creator}
  /\ Workers \cap Clients = {}

ASSUME EpochAssumption ==
  /\ MaxEpoch \in Nat
  /\ EpochModulus \in Nat
  /\ MaxEpoch + 1 < EpochModulus

VARIABLES
  flags,          \* sleep_state_.flags
  epoch,          \* sleep_state_.epoch
  state,          \* state_
  reason,         \* cancellation_reason_
  finished,       \* finish_awaiters_ is signalled: IsFinished()
  cancellable,    \* is_cancellable_
  critical,       \* is_critical_, never changes
  cancelDeadline, \* cancel_deadline_ is reachable
  hasCoro,        \* coro_ is set
  finalState,     \* pending_final_state_
  queue,          \* how often the task is in the queue of its processor
  co,             \* where the coroutine is
  sleepEpoch,     \* local of Sleep(): the epoch of this sleep
  deadline,       \* argument of Sleep(): against cancel_deadline_
  result,         \* what the last Sleep() returned, until the next one
  awaiters,       \* epochs registered with the awaitable
  popped,         \* history: the epochs the awaitable has signalled
  timer,          \* life of deadline_timer_
  pipe,           \* params_pipe_to_ev_: the newest parameters not yet popped
  armed,          \* params_ of the active ev timer
  pc,             \* where each thread is
  arg             \* its arguments of the call of Wakeup() in progress

sleepVars == <<flags, epoch>>
timerVars == <<timer, pipe, armed>>
coVars    == <<co, sleepEpoch, deadline, result>>
awaitVars == <<awaiters, popped>>
taskVars  == <<cancellable, critical, cancelDeadline, hasCoro, finalState>>
vars == <<sleepVars, state, reason, finished, taskVars, queue, coVars,
          awaitVars, timerVars, pc, arg>>

----------------------------------------------------------------------------
(* Values *)

Threads == Workers \cup Clients \cup {Creator, EvThread}

\* WakeupSource: each source is one bit of SleepFlags.
Sources == {"kNotify", "kDeadlineTimer", "kCancelRequest", "kBootstrap"}

SleepFlags == Sources \cup {"kSleeping", "kNonCancellable"}

States == {"kNew", "kQueued", "kRunning", "kSuspended", "kCancelled", "kCompleted"}

\* TaskCancellationReason: kRequested stands for kUserRequest, kDeadline,
\* kOverload, kAbandoned and kShutdown, which the engine treats alike.
Reasons == {"kNone", "kRequested", "kOOM"}

NoEpoch == -1

\* The epochs of the sleeps within the bound.
Epochs == 0 .. MaxEpoch

\* ContextTimer::Impl::Params
NoShot == [action |-> "none", epoch |-> 0]
CancelShot == [action |-> "kCancel", epoch |-> 0]
WakeupShot(e) == [action |-> "kWakeupByEpoch", epoch |-> e]
Shots == [action : {"none", "kCancel", "kWakeupByEpoch"}, epoch : Epochs]

\* A deadline is unreachable, earlier than cancel_deadline_, or not earlier.
Deadlines == IF cancelDeadline THEN {"none", "before", "after"} ELSE {"none", "before"}

CallPcs  == {"wakeup", "set"}
SchedPcs == {"schedule", "admit", "push"}
ReadyPcs == {"popped", "step", "resume"}
RunPcs   == {"run", "suspend", "complete", "finalize", "signal"}
HoldPcs  == SchedPcs \cup ReadyPcs \cup RunPcs
RestPcs  == {"idle", "done"}
Pcs      == CallPcs \cup HoldPcs \cup RestPcs \cup {"recheck"}

Positions == {"start", "body", "store", "late", "check", "append", "arm", "yield",
              "asleep", "woken", "remove", "flags", "done"}

Home(t) == IF t = Creator THEN "done" ELSE "idle"

----------------------------------------------------------------------------
(* The functions of the code that are pure *)

IsCritical == critical \/ hasCoro

ShouldCancel == reason # "kNone" /\ cancellable

MakeNextEpoch(e) == (e + 1) % EpochModulus

\* The flags that count: a cancellation does not when it is blocked.
EffectiveFlags(fl) ==
  IF "kNonCancellable" \in fl THEN fl \ {"kNonCancellable", "kCancelRequest"} ELSE fl

\* Mutant: every source schedules a sleeping task.
ShouldScheduleAlways(prev, source) == "kSleeping" \in prev /\ source \in Sources

\* Mutant: kNonCancellable is taken for a source.
ShouldScheduleExact(prev, source) ==
  \/ "kSleeping" \in prev /\ source = "kBootstrap"
  \/ prev = {"kSleeping"}

ShouldSchedule(prev, source) ==
  /\ "kSleeping" \in prev
  /\ \/ source = "kBootstrap"
     \/ source = "kCancelRequest" /\ prev = {"kSleeping"}
     \/ source \in {"kNotify", "kDeadlineTimer"} /\ EffectiveFlags(prev) = {"kSleeping"}

\* The sources GetPrimaryWakeupSource() can return for these flags.
ValidSources(fl) == EffectiveFlags(fl) \cap Sources

GetPrimaryWakeupSource(fl) ==
  CASE "kNotify" \in fl -> "kNotify"
    [] "kNotify" \notin fl /\ "kDeadlineTimer" \in fl -> "kDeadlineTimer"
    [] fl \cap {"kNotify", "kDeadlineTimer"} = {} /\ "kBootstrap" \in fl -> "kBootstrap"
    [] OTHER -> "kCancelRequest"

\* Sleep(): a deadline not before the task's own is left to the cancellation timer.
HasDeadline == deadline # "none" /\ (~cancellable \/ deadline = "before")

----------------------------------------------------------------------------
(* Calls. At(t) is where thread t is, a nested call of Wakeup() aside.      *)

NoArg(t) == [src |-> "kBootstrap", epoch |-> 0, ret |-> Home(t)]

Goto(t, l) ==
  /\ pc' = [pc EXCEPT ![t] = l]
  /\ arg' = [arg EXCEPT ![t] = NoArg(t)]

Wakeup(t, source, e, ret) ==
  /\ pc' = [pc EXCEPT ![t] = "wakeup"]
  /\ arg' = [arg EXCEPT ![t] = [src |-> source, epoch |-> e, ret |-> ret]]

At(t) == IF pc[t] \in CallPcs THEN arg[t].ret ELSE pc[t]

Holds(t) == At(t) \in HoldPcs

Owned == queue > 0 \/ \E t \in Threads : Holds(t)

\* RequestCancel(): the first reason stays.
RequestCancel(t, ret) ==
  \/ /\ reason = "kNone"
     /\ reason' = "kRequested"
     /\ Wakeup(t, "kCancelRequest", NoEpoch, ret)
  \/ /\ reason # "kNone"
     /\ Goto(t, ret)
     /\ UNCHANGED reason

InvokeTimerFunction(t, shot, ret) ==
  \/ shot.action = "kCancel" /\ RequestCancel(t, ret)
  \/ /\ shot.action = "kWakeupByEpoch"
     /\ Wakeup(t, "kDeadlineTimer", shot.epoch, ret)
     /\ UNCHANGED reason

\* ContextTimer::Impl::Start() and Restart(): a deadline already reached is
\* served on the spot, any other replaces what the ev thread has not popped.
RestartTimer(t, shot, ret) ==
  /\ timer' = "started"
  /\ UNCHANGED armed
  /\ \/ InvokeTimerFunction(t, shot, ret) /\ UNCHANGED pipe
     \/ pipe' = shot /\ Goto(t, ret) /\ UNCHANGED reason

ArmCancellationTimer(t, ret) ==
  \/ cancelDeadline /\ RestartTimer(t, CancelShot, ret)
  \/ ~cancelDeadline /\ Goto(t, ret) /\ UNCHANGED <<reason, timerVars>>

----------------------------------------------------------------------------
(* Wakeup() and Schedule(), on any thread *)

WakeupCheckFinished(t) ==
  /\ pc[t] = "wakeup"
  /\ \/ finished /\ Goto(t, arg[t].ret)
     \/ ~finished /\ pc' = [pc EXCEPT ![t] = "set"] /\ UNCHANGED arg
  /\ UNCHANGED <<sleepVars, state, reason, finished, taskVars, queue, coVars, awaitVars, timerVars>>

\* Mutant: the epoch is not compared.
WakeupSetSourceAnyEpoch(t) ==
  /\ pc[t] = "set"
  /\ flags' = flags \cup {arg[t].src}
  /\ Goto(t, IF ShouldSchedule(flags, arg[t].src) THEN "schedule" ELSE arg[t].ret)
  /\ UNCHANGED <<epoch, state, reason, finished, taskVars, queue, coVars, awaitVars, timerVars>>

\* SetSleepStateWakeupSourceForEpoch(), or FetchOrFlags() when there is no epoch.
WakeupSetSource(t) ==
  /\ pc[t] = "set"
  /\ arg[t].epoch \in {NoEpoch, epoch}
  /\ flags' = flags \cup {arg[t].src}
  /\ Goto(t, IF ShouldSchedule(flags, arg[t].src) THEN "schedule" ELSE arg[t].ret)
  /\ UNCHANGED <<epoch, state, reason, finished, taskVars, queue, coVars, awaitVars, timerVars>>

WakeupStaleEpoch(t) ==
  /\ pc[t] = "set"
  /\ arg[t].epoch \notin {NoEpoch, epoch}
  /\ Goto(t, arg[t].ret)
  /\ UNCHANGED <<sleepVars, state, reason, finished, taskVars, queue, coVars, awaitVars, timerVars>>

Schedule(t) ==
  /\ pc[t] = "schedule"
  /\ state' = "kQueued"
  /\ Goto(t, "admit")
  /\ UNCHANGED <<sleepVars, reason, finished, taskVars, queue, coVars, awaitVars, timerVars>>

\* TaskProcessor::Schedule() cancels on overload (not a critical task) or at
\* shutdown (any task), then pushes.
ScheduleAdmit(t) ==
  /\ pc[t] = "admit"
  /\ \/ RequestCancel(t, "push")
     \/ Goto(t, "push") /\ UNCHANGED reason
  /\ UNCHANGED <<sleepVars, state, finished, taskVars, queue, coVars, awaitVars, timerVars>>

SchedulePush(t) ==
  /\ pc[t] = "push"
  /\ queue' = queue + 1
  /\ Goto(t, Home(t))
  /\ UNCHANGED <<sleepVars, state, reason, finished, taskVars, coVars, awaitVars, timerVars>>

----------------------------------------------------------------------------
(* A worker: ProcessTasks() and DoStep() *)

PopBlocking(w) ==
  /\ pc[w] = "idle"
  /\ queue > 0
  /\ queue' = queue - 1
  /\ Goto(w, "popped")
  /\ UNCHANGED <<sleepVars, state, reason, finished, taskVars, coVars, awaitVars, timerVars>>

CheckWaitTime(w) ==
  /\ pc[w] = "popped"
  /\ \/ ~IsCritical /\ RequestCancel(w, "step")
     \/ Goto(w, "step") /\ UNCHANGED reason
  /\ UNCHANGED <<sleepVars, state, finished, taskVars, queue, coVars, awaitVars, timerVars>>

\* DoStep() returns at once if IsFinished(): a finished task is never popped
\* (FinishedIsFinal), so that return is not an action and ~finished is a guard.
DoStepGetCoroutine(w) ==
  /\ pc[w] = "step"
  /\ ~finished
  /\ ~hasCoro
  /\ hasCoro' = TRUE
  /\ ArmCancellationTimer(w, "resume")
  /\ UNCHANGED <<sleepVars, state, finished, cancellable, critical, cancelDeadline, finalState,
                 queue, coVars, awaitVars>>

\* GetCoroutine() throws: out of memory.
DoStepOutOfMemory(w) ==
  /\ pc[w] = "step"
  /\ ~finished
  /\ ~hasCoro
  /\ reason' = "kOOM"
  /\ state' = "kCancelled"
  /\ Goto(w, "signal")
  /\ UNCHANGED <<sleepVars, finished, taskVars, queue, coVars, awaitVars, timerVars>>

DoStepHasCoroutine(w) ==
  /\ pc[w] = "step"
  /\ ~finished
  /\ hasCoro
  /\ Goto(w, "resume")
  /\ UNCHANGED <<sleepVars, state, reason, finished, taskVars, queue, coVars, awaitVars, timerVars>>

\* The coroutine enters CoroFunc(): a task cancelled before its start does not
\* run its payload, and must not be interrupted while it destroys it.
ResumeStart(w) ==
  /\ pc[w] = "resume"
  /\ co = "start"
  /\ state' = "kRunning"
  /\ co' = "body"
  /\ \/ /\ reason # "kNone" /\ ~critical
        /\ cancellable' = FALSE
        /\ finalState' = "kCancelled"
     \/ /\ reason = "kNone" \/ critical
        /\ UNCHANGED <<cancellable, finalState>>
  /\ Goto(w, "run")
  /\ UNCHANGED <<sleepVars, reason, finished, critical, cancelDeadline, hasCoro, queue,
                 sleepEpoch, deadline, result, awaitVars, timerVars>>

ResumeSleep(w) ==
  /\ pc[w] = "resume"
  /\ co = "asleep"
  /\ state' = "kRunning"
  /\ co' = "woken"
  /\ Goto(w, "run")
  /\ UNCHANGED <<sleepVars, reason, finished, taskVars, queue, sleepEpoch, deadline, result,
                 awaitVars, timerVars>>

\* Mutant: a blocked cancellation counts.
DoStepSuspendUnmasked(w) ==
  /\ pc[w] = "suspend"
  /\ flags' = flags \cup {"kSleeping"} \cup (IF cancellable THEN {} ELSE {"kNonCancellable"})
  /\ Goto(w, IF flags # {} THEN "schedule" ELSE Home(w))
  /\ UNCHANGED <<epoch, state, reason, finished, taskVars, queue, coVars, awaitVars, timerVars>>

\* kTaskWaiting: kSleeping goes into the word, and what was there decides.
DoStepSuspend(w) ==
  LET new  == {"kSleeping"} \cup (IF cancellable THEN {} ELSE {"kNonCancellable"})
      prev == IF cancellable THEN flags ELSE flags \ {"kCancelRequest", "kNonCancellable"}
  IN  /\ pc[w] = "suspend"
      /\ flags' = flags \cup new
      /\ \/ prev # {} /\ Goto(w, "schedule")
         \/ /\ prev = {} /\ cancellable
            /\ pc' = [pc EXCEPT ![w] = "recheck"]
            /\ arg' = [arg EXCEPT ![w] = [src |-> "kCancelRequest", epoch |-> epoch, ret |-> Home(w)]]
         \/ prev = {} /\ ~cancellable /\ Goto(w, Home(w))
      /\ UNCHANGED <<epoch, state, reason, finished, taskVars, queue, coVars, awaitVars, timerVars>>

\* Mutant: the reason is not looked at.
DoStepNoRecheck(w) ==
  /\ pc[w] = "recheck"
  /\ Goto(w, Home(w))
  /\ UNCHANGED <<sleepVars, state, reason, finished, taskVars, queue, coVars, awaitVars, timerVars>>

\* cancellation_reason_ is the source of truth: Sleep() may have erased the flag.
DoStepRecheckCancel(w) ==
  /\ pc[w] = "recheck"
  /\ \/ reason # "kNone" /\ Wakeup(w, "kCancelRequest", arg[w].epoch, Home(w))
     \/ reason = "kNone" /\ Goto(w, Home(w))
  /\ UNCHANGED <<sleepVars, state, reason, finished, taskVars, queue, coVars, awaitVars, timerVars>>

\* Mutant: the awaiters are signalled before the timer is finalized.
DoStepCompleteSignalled(w) ==
  /\ pc[w] = "complete"
  /\ hasCoro' = FALSE
  /\ state' = finalState
  /\ finished' = TRUE
  /\ Goto(w, "finalize")
  /\ UNCHANGED <<sleepVars, reason, cancellable, critical, cancelDeadline, finalState,
                 queue, coVars, awaitVars, timerVars>>

\* kTaskComplete, in the order of the code: the state, the timer, the awaiters.
DoStepComplete(w) ==
  /\ pc[w] = "complete"
  /\ hasCoro' = FALSE
  /\ state' = finalState
  /\ Goto(w, "finalize")
  /\ UNCHANGED <<sleepVars, reason, finished, cancellable, critical, cancelDeadline, finalState,
                 queue, coVars, awaitVars, timerVars>>

DoStepFinalizeTimer(w) ==
  /\ pc[w] = "finalize"
  /\ timer' = IF timer = "started" THEN "finalizing" ELSE timer
  /\ Goto(w, "signal")
  /\ UNCHANGED <<sleepVars, state, reason, finished, taskVars, queue, coVars, awaitVars, pipe, armed>>

DoStepSignal(w) ==
  /\ pc[w] = "signal"
  /\ finished' = TRUE
  /\ Goto(w, Home(w))
  /\ UNCHANGED <<sleepVars, state, reason, taskVars, queue, coVars, awaitVars, timerVars>>

----------------------------------------------------------------------------
(* The coroutine, on the worker w that runs it *)

\* Sleep() returns; its argument is gone.
Returns(source) == result' = source /\ deadline' = "none"

\* Sleep() reads the word here and overwrites it in the next step.
SleepLoad(w) ==
  /\ pc[w] = "run" /\ co = "body"
  /\ epoch < MaxEpoch
  /\ deadline' \in Deadlines
  /\ sleepEpoch' = MakeNextEpoch(epoch)
  /\ co' = "store"
  /\ UNCHANGED <<sleepVars, state, reason, finished, taskVars, queue, result, awaitVars, timerVars, pc, arg>>

\* The store is relaxed: the hardware may keep it back until ShouldCancel() has
\* read the reason. A reason it finds then is there after the store too, so
\* only the case that it finds none is a case of its own.
SleepCheckBeforeStore(w) ==
  /\ pc[w] = "run" /\ co = "store"
  /\ ~ShouldCancel
  /\ co' = "late"
  /\ UNCHANGED <<sleepVars, state, reason, finished, taskVars, queue, sleepEpoch, deadline, result,
                 awaitVars, timerVars, pc, arg>>

\* Mutant: the epoch advances, the flags stay.
SleepStoreEpochOnly(w) ==
  /\ pc[w] = "run" /\ co \in {"store", "late"}
  /\ epoch' = sleepEpoch
  /\ co' = IF co = "store" THEN "check" ELSE "append"
  /\ result' = "kNone"
  /\ UNCHANGED <<flags, state, reason, finished, taskVars, queue, sleepEpoch, deadline,
                 awaitVars, timerVars, pc, arg>>

SleepStore(w) ==
  /\ pc[w] = "run" /\ co \in {"store", "late"}
  /\ flags' = {}
  /\ epoch' = sleepEpoch
  /\ co' = IF co = "store" THEN "check" ELSE "append"
  /\ result' = "kNone"
  /\ UNCHANGED <<state, reason, finished, taskVars, queue, sleepEpoch, deadline,
                 awaitVars, timerVars, pc, arg>>

SleepCheckCancel(w) ==
  /\ pc[w] = "run" /\ co = "check"
  /\ \/ ShouldCancel /\ co' = "body" /\ Returns("kCancelRequest")
     \/ ~ShouldCancel /\ co' = "append" /\ UNCHANGED <<result, deadline>>
  /\ UNCHANGED <<sleepVars, state, reason, finished, taskVars, queue, sleepEpoch,
                 awaitVars, timerVars, pc, arg>>

\* TryAppendAwaiter(): the awaitable is ready, or it keeps the awaiter.
SleepAppend(w) ==
  /\ pc[w] = "run" /\ co = "append"
  /\ \/ /\ co' = "body" /\ Returns("kNotify")
        /\ popped' = popped \cup {sleepEpoch}
        /\ UNCHANGED awaiters
     \/ /\ co' = "arm"
        /\ awaiters' = awaiters \cup {sleepEpoch}
        /\ UNCHANGED <<popped, result, deadline>>
  /\ UNCHANGED <<sleepVars, state, reason, finished, taskVars, queue, sleepEpoch,
                 timerVars, pc, arg>>

SleepArmDeadline(w) ==
  /\ pc[w] = "run" /\ co = "arm"
  /\ co' = "yield"
  /\ \/ HasDeadline /\ RestartTimer(w, WakeupShot(sleepEpoch), "run")
     \/ ~HasDeadline /\ UNCHANGED <<reason, timerVars, pc, arg>>
  /\ UNCHANGED <<sleepVars, state, finished, taskVars, queue, sleepEpoch, deadline, result, awaitVars>>

\* Mutant: the state is not set to kSuspended.
SleepYieldRunning(w) ==
  /\ pc[w] = "run" /\ co = "yield"
  /\ co' = "asleep"
  /\ Goto(w, "suspend")
  /\ UNCHANGED <<sleepVars, state, reason, finished, taskVars, queue, sleepEpoch, deadline, result,
                 awaitVars, timerVars>>

SleepYield(w) ==
  /\ pc[w] = "run" /\ co = "yield"
  /\ co' = "asleep"
  /\ state' = "kSuspended"
  /\ Goto(w, "suspend")
  /\ UNCHANGED <<sleepVars, reason, finished, taskVars, queue, sleepEpoch, deadline, result,
                 awaitVars, timerVars>>

SleepRearm(w) ==
  /\ pc[w] = "run" /\ co = "woken"
  /\ co' = "remove"
  /\ \/ HasDeadline /\ ArmCancellationTimer(w, "run")
     \/ ~HasDeadline /\ UNCHANGED <<reason, timerVars, pc, arg>>
  /\ UNCHANGED <<sleepVars, state, finished, taskVars, queue, sleepEpoch, deadline, result, awaitVars>>

SleepRemoveAwaiter(w) ==
  /\ pc[w] = "run" /\ co = "remove"
  /\ awaiters' = awaiters \ {sleepEpoch}
  /\ co' = "flags"
  /\ UNCHANGED <<sleepVars, state, reason, finished, taskVars, queue, sleepEpoch, deadline, result,
                 popped, timerVars, pc, arg>>

SleepReturn(w) ==
  /\ pc[w] = "run" /\ co = "flags"
  /\ Returns(GetPrimaryWakeupSource(flags))
  /\ co' = "body"
  /\ UNCHANGED <<sleepVars, state, reason, finished, taskVars, queue, sleepEpoch,
                 awaitVars, timerVars, pc, arg>>

\* TaskCancellationBlocker and its destructor, which restores the old value: a
\* task cancelled before its start stays non-cancellable.
SetCancellable(w) ==
  /\ pc[w] = "run" /\ co = "body"
  /\ finalState = "kCompleted"
  /\ cancellable' \in BOOLEAN
  /\ UNCHANGED <<sleepVars, state, reason, finished, critical, cancelDeadline, hasCoro, finalState,
                 queue, coVars, awaitVars, timerVars, pc, arg>>

SetCancelDeadline(w) ==
  /\ pc[w] = "run" /\ co = "body"
  /\ cancelDeadline' \in BOOLEAN
  /\ \/ cancelDeadline' /\ RestartTimer(w, CancelShot, "run")
     \/ ~cancelDeadline' /\ UNCHANGED <<reason, timerVars, pc, arg>>
  /\ UNCHANGED <<sleepVars, state, finished, cancellable, critical, hasCoro, finalState, queue,
                 coVars, awaitVars>>

\* The payload returns, or CancellationPoint() unwinds it.
BodyReturn(w) ==
  /\ pc[w] = "run" /\ co = "body"
  /\ co' = "done"
  /\ \/ UNCHANGED finalState
     \/ ShouldCancel /\ finalState' = "kCancelled"
  /\ Goto(w, "complete")
  /\ UNCHANGED <<sleepVars, state, reason, finished, cancellable, critical, cancelDeadline, hasCoro,
                 queue, sleepEpoch, deadline, result, awaitVars, timerVars>>

----------------------------------------------------------------------------
(* Clients and the ev thread *)

\* A client has a handle once the constructor of TaskBase has returned.
ClientCancel(c) ==
  /\ pc[c] = "idle"
  /\ pc[Creator] = "done"
  /\ RequestCancel(c, "idle")
  /\ UNCHANGED <<sleepVars, state, finished, taskVars, queue, coVars, awaitVars, timerVars>>

\* The awaitable drops the awaiter first and calls Notify() on it later.
ClientNotify(c) ==
  /\ pc[c] = "idle"
  /\ \E e \in awaiters :
       /\ awaiters' = awaiters \ {e}
       /\ popped' = popped \cup {e}
       /\ Wakeup(c, "kNotify", e, "idle")
  /\ UNCHANGED <<sleepVars, state, reason, finished, taskVars, queue, coVars, timerVars>>

EvArmTimer ==
  /\ pc[EvThread] = "idle"
  /\ pipe # NoShot
  /\ armed' = pipe
  /\ pipe' = NoShot
  /\ UNCHANGED <<sleepVars, state, reason, finished, taskVars, queue, coVars, awaitVars, timer, pc, arg>>

EvOnTimer ==
  /\ pc[EvThread] = "idle"
  /\ armed # NoShot
  /\ InvokeTimerFunction(EvThread, armed, "idle")
  /\ armed' = NoShot
  /\ UNCHANGED <<sleepVars, state, finished, taskVars, queue, coVars, awaitVars, timer, pipe>>

EvFinalizeTimer ==
  /\ pc[EvThread] = "idle"
  /\ timer = "finalizing"
  /\ timer' = "stopped"
  /\ armed' = NoShot
  /\ pipe' = NoShot
  /\ UNCHANGED <<sleepVars, state, reason, finished, taskVars, queue, coVars, awaitVars, pc, arg>>

----------------------------------------------------------------------------

\* TaskContext and TaskBase are constructed; the bootstrap Wakeup() is called.
Init ==
  /\ flags = {"kSleeping"}
  /\ epoch = 0
  /\ state = "kNew"
  /\ reason = "kNone"
  /\ finished = FALSE
  /\ cancellable = TRUE
  /\ critical \in BOOLEAN
  /\ cancelDeadline \in BOOLEAN
  /\ hasCoro = FALSE
  /\ finalState = "kCompleted"
  /\ queue = 0
  /\ co = "start"
  /\ sleepEpoch = 0
  /\ deadline = "none"
  /\ result = "kNone"
  /\ awaiters = {}
  /\ popped = {}
  /\ timer = "new"
  /\ pipe = NoShot
  /\ armed = NoShot
  /\ pc = [t \in Threads |-> IF t = Creator THEN "wakeup" ELSE "idle"]
  /\ arg = [t \in Threads |-> NoArg(t)]

CallStep(t) ==
  \/ WakeupCheckFinished(t) \/ WakeupSetSource(t) \/ WakeupStaleEpoch(t)
  \/ Schedule(t) \/ ScheduleAdmit(t) \/ SchedulePush(t)

\* What a worker does without a choice of the task's own code.
EngineStep(w) ==
  \/ PopBlocking(w) \/ CheckWaitTime(w)
  \/ DoStepGetCoroutine(w) \/ DoStepOutOfMemory(w) \/ DoStepHasCoroutine(w)
  \/ ResumeStart(w) \/ ResumeSleep(w)
  \/ DoStepSuspend(w) \/ DoStepRecheckCancel(w)
  \/ DoStepComplete(w) \/ DoStepFinalizeTimer(w) \/ DoStepSignal(w)
  \/ SleepCheckBeforeStore(w) \/ SleepStore(w) \/ SleepCheckCancel(w)
  \/ SleepAppend(w) \/ SleepArmDeadline(w) \/ SleepYield(w)
  \/ SleepRearm(w) \/ SleepRemoveAwaiter(w) \/ SleepReturn(w)

BodyStep(w) == SleepLoad(w) \/ SetCancellable(w) \/ SetCancelDeadline(w) \/ BodyReturn(w)

EvStep == EvArmTimer \/ EvOnTimer \/ EvFinalizeTimer

Next ==
  \/ \E t \in Threads : CallStep(t)
  \/ \E w \in Workers : EngineStep(w) \/ BodyStep(w)
  \/ \E c \in Clients : ClientCancel(c) \/ ClientNotify(c)
  \/ EvStep

Spec == Init /\ [][Next]_vars

\* The OS runs every thread that is not blocked, workers block only on an empty
\* queue, and an armed ev timer expires. Nobody has to cancel, to notify, or to
\* let the task's own code get on.
Fairness ==
  /\ \A t \in Threads : WF_vars(CallStep(t))
  /\ \A w \in Workers : WF_vars(EngineStep(w))
  /\ WF_vars(EvArmTimer) /\ WF_vars(EvOnTimer) /\ WF_vars(EvFinalizeTimer)

FairSpec == Spec /\ Fairness

----------------------------------------------------------------------------
(* The task as its users see it *)

Suspending == \E t \in Threads : At(t) = "suspend"

LifePhase ==
  CASE co \in {"check", "append", "arm", "yield"} \/ Suspending -> "entering"
    [] co \in {"asleep", "woken", "remove", "flags"} /\ ~Suspending -> "slept"
    [] OTHER -> "awake"

LifeState ==
  CASE finished -> "finished"
    [] ~finished /\ (\E t \in Threads : At(t) \in RunPcs) -> "running"
    [] ~finished /\ (queue > 0 \/ \E t \in Threads : At(t) \in SchedPcs \cup ReadyPcs) -> "ready"
    [] ~finished /\ ~Owned /\ state = "kNew" -> "new"
    [] OTHER -> "asleep"

LifeSignals ==
  IF LifePhase = "awake" THEN {}
  ELSE (IF cancellable THEN flags ELSE flags \ {"kCancelRequest"}) \cap Sources

Life == INSTANCE TaskLife WITH
  life <- LifeState, phase <- LifePhase, timed <- (LifePhase # "awake" /\ HasDeadline),
  signals <- LifeSignals, outcome <- result

----------------------------------------------------------------------------
(* Properties *)

\* Every variable has its type.
TypeOK ==
  /\ flags \subseteq SleepFlags
  /\ epoch \in Epochs
  /\ state \in States
  /\ reason \in Reasons
  /\ finished \in BOOLEAN
  /\ cancellable \in BOOLEAN
  /\ critical \in BOOLEAN
  /\ cancelDeadline \in BOOLEAN
  /\ hasCoro \in BOOLEAN
  /\ finalState \in {"kCompleted", "kCancelled"}
  /\ queue \in Nat
  /\ co \in Positions
  /\ sleepEpoch \in Epochs
  /\ deadline \in {"none", "before", "after"}
  /\ result \in Sources \cup {"kNone"}
  /\ awaiters \subseteq Epochs
  /\ popped \subseteq Epochs
  /\ timer \in {"new", "started", "finalizing", "stopped"}
  /\ pipe \in Shots
  /\ armed \in Shots
  /\ pc \in [Threads -> Pcs]
  /\ arg \in [Threads -> [src : Sources, epoch : Epochs \cup {NoEpoch}, ret : HoldPcs \cup RestPcs]]

\* The task is never in two places: at most one thread schedules or runs it,
\* and while it is in the queue none does. Schedule() is called once per
\* wakeup, however many sources race (ShouldSchedule(), DoStep()).
SingleOwner ==
  /\ queue \in {0, 1}
  /\ \A t, u \in Threads : Holds(t) /\ Holds(u) => t = u
  /\ queue = 1 => \A t \in Threads : ~Holds(t)

\* No wakeup is lost and none is acted on twice: the word says "asleep, no
\* source that counts" exactly when nobody owns the task and it has not ended.
SchedulableIffUnowned ==
  EffectiveFlags(flags) = {"kSleeping"} <=> ~Owned /\ ~finished

\* state_ tells where the task is: the assertions of Schedule(), Sleep() and
\* SetCancellable() on it hold.
StateMatchesOwner ==
  /\ \A t \in Threads :
       /\ At(t) = "schedule" => state \in {"kNew", "kSuspended"}
       /\ At(t) \in {"admit", "push"} \cup ReadyPcs => state = "kQueued"
       /\ At(t) = "run" => state = "kRunning"
       /\ At(t) = "suspend" => state = "kSuspended"
  /\ queue > 0 => state = "kQueued"
  /\ finished => state \in {"kCancelled", "kCompleted"}

\* What Sleep() returns is about this very sleep: a notification of this epoch,
\* a deadline that this sleep has, a cancellation that was requested and is not
\* blocked; never the bootstrap and never a wakeup meant for an earlier sleep.
SleepOutcome ==
  [][(co \in {"check", "append", "flags"} /\ co' = "body") =>
       (/\ result' = "kNotify" => sleepEpoch \in popped'
        /\ result' = "kDeadlineTimer" => HasDeadline
        /\ result' = "kCancelRequest" => ShouldCancel
        /\ result' # "kBootstrap")]_vars

\* GetPrimaryWakeupSource() finds a source whenever a woken task asks: the
\* UINVARIANT at its end is never reached.
WakeupSourceFound == co \in {"woken", "remove", "flags"} => ValidSources(flags) # {}

\* Once IsFinished() is true the task is never queued, run or changed again,
\* whatever cancellations, timers and notifications are still on their way.
FinishedIsFinal ==
  [][finished => ~Owned' /\ UNCHANGED <<finished, state, epoch, co, hasCoro, finalState, result>>]_vars

\* A sleep ends: when the task is cancelled and cancellable, for the request is
\* not lost even if Sleep() erased its flag while it advanced the epoch, having
\* looked at the reason before; with a reachable deadline, though one timer serves
\* the deadline of the sleep and that of the task; when its awaitable dropped the awaiter.
SleepEnds ==
  /\ (co = "asleep" /\ ShouldCancel) ~> co # "asleep"
  /\ (co = "asleep" /\ deadline # "none") ~> co # "asleep"
  /\ (co = "asleep" /\ sleepEpoch \in popped) ~> co # "asleep"

\* The task of the code is the task of TaskLife: every step of every thread is a
\* step of that specification, or invisible there.
ImplementsTaskLife == Life!Spec
=============================================================================
