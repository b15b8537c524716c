------------------------------ MODULE DistLock ------------------------------
(***************************************************************************)
(* dist_lock::impl::Locker on several hosts that share one lock in a        *)
(* database: Run(), the loop that acquires and prolongs the lease, the      *)
(* watchdog task that ends the worker before the lease does, the worker     *)
(* task, Start() and Stop(). Requests and answers may be late or lost, a    *)
(* host may crash. Time advances in ticks; ages count the ticks since an    *)
(* event, so that behaviours are not bounded in time.                       *)
(***************************************************************************)
EXTENDS Integers, FiniteSets

CONSTANTS
  Hosts, Nobody, Dead,
  Ttls,            \* values that settings.lock_ttl may take
  Margin,          \* settings.forced_stop_margin
  MaxAnswer,       \* the strategy's timeout: ticks until a call fails
  Mode,            \* LockerMode
  WaitingMode,     \* DistLockWaitingMode
  RetryMode,       \* DistLockRetryMode
  MaxCrashes       \* bound: crashes of hosts

ASSUME DistLockAssumption ==
  /\ Nobody \notin Hosts /\ Dead \notin Hosts /\ Nobody # Dead
  /\ Ttls \subseteq Nat /\ \E low, high \in Ttls : \A ttl \in Ttls : low <= ttl /\ ttl <= high
  /\ Margin \in Nat /\ \A ttl \in Ttls : Margin < ttl
  /\ MaxAnswer \in Nat /\ MaxCrashes \in Nat
  /\ Mode \in {"kWorker", "kOneshot"}
  /\ WaitingMode \in {"kWait", "kNoWait"}
  /\ RetryMode \in {"kRetry", "kSingleAttempt"}

VARIABLES
  lease,      \* the row in the database: its owner and the ticks it is still valid
  locker,     \* per host: Run() and the state it shares with the watchdog
  request,    \* per host: the call of the strategy under way
  stray,      \* per host: the lock_ttl of a request that was given up and may still arrive
  watchdog,   \* per host: RunWatchdog()
  worker,     \* per host: the task of worker_func_
  crashes

vars == <<lease, locker, request, stray, watchdog, worker, crashes>>

Low == CHOOSE ttl \in Ttls : \A other \in Ttls : ttl <= other
High == CHOOSE ttl \in Ttls : \A other \in Ttls : ttl >= other
MaxAge == High + 1
\* An age beyond every lock_ttl makes no more difference.
Older(age) == IF age < MaxAge THEN age + 1 ELSE age

Stopped == [pc |-> "stopped", cancelled |-> FALSE, isLocked |-> FALSE, age |-> 0, succeeded |-> FALSE]
NoRequest == [at |-> "none", ttl |-> Low, age |-> 0]
NoStray == 0
NoWatchdog == [at |-> "none", cancelled |-> FALSE, timer |-> 0, ok |-> FALSE]
NoWorker == [at |-> "none", ok |-> FALSE]

Init ==
  /\ lease = [owner |-> Nobody, left |-> 0]
  /\ locker = [h \in Hosts |-> Stopped]
  /\ request = [h \in Hosts |-> NoRequest]
  /\ stray = [h \in Hosts |-> NoStray]
  /\ watchdog = [h \in Hosts |-> NoWatchdog]
  /\ worker = [h \in Hosts |-> NoWorker]
  /\ crashes = 0

----------------------------------------------------------------------------
(* DistLockedWorker *)

\* RunAsync().
Start(h) ==
  /\ locker[h].pc = "stopped"
  /\ locker' = [locker EXCEPT ![h] = [Stopped EXCEPT !.pc = "loop"]]
  /\ UNCHANGED <<lease, request, stray, watchdog, worker, crashes>>

\* Stop() cancels Run() and waits for it.
RequestStop(h) ==
  /\ locker[h].pc # "stopped"
  /\ ~locker[h].cancelled
  /\ locker' = [locker EXCEPT ![h].cancelled = TRUE]
  /\ UNCHANGED <<lease, request, stray, watchdog, worker, crashes>>

----------------------------------------------------------------------------
(* The database, through DistLockStrategyBase *)

\* Acquire() takes a lease that is free, expired or one's own. Prolong() refreshes
\* one's own, expired or not; by default it is Acquire().
Grants(h) == lease.owner \in {h, Nobody} \/ lease.left = 0

Denies(h) == lease.owner # h /\ (lease.left > 0 \/ locker[h].isLocked)

Serve(h) ==
  /\ request[h].at = "sent"
  /\ \/ /\ Grants(h)
        /\ lease' = [owner |-> h, left |-> request[h].ttl]
        /\ request' = [request EXCEPT ![h].at = "granted"]
     \/ /\ Denies(h)
        /\ request' = [request EXCEPT ![h].at = "busy"]
        /\ UNCHANGED lease
  /\ UNCHANGED <<locker, stray, watchdog, worker, crashes>>

\* A request that its sender has given up arrives after all.
ServeStray(h) ==
  /\ stray[h] # NoStray
  /\ stray' = [stray EXCEPT ![h] = NoStray]
  /\ Grants(h)
  /\ lease' = [owner |-> h, left |-> stray[h]]
  /\ UNCHANGED <<locker, request, watchdog, worker, crashes>>

\* Release() removes the row if it is one's own; or the call fails without effect.
ReleaseLease(h) ==
  \/ lease' = IF lease.owner = h THEN [owner |-> Nobody, left |-> 0] ELSE lease
  \/ UNCHANGED lease

----------------------------------------------------------------------------
(* Run() *)

\* The head of the loop. UpdateSettings() may come between any two reads of the
\* settings, so a read returns any of their values.
Attempt(h) ==
  LET goOn == ~locker[h].cancelled /\ (Mode = "kOneshot" => ~locker[h].succeeded) IN
  /\ locker[h].pc = "loop"
  /\ \/ \E ttl \in Ttls :
          /\ goOn    \* and is_enabled, or locked already
          /\ request' = [request EXCEPT ![h] = [at |-> "sent", ttl |-> ttl, age |-> 0]]
          /\ locker' = [locker EXCEPT ![h].pc = "call"]
     \/ /\ goOn    \* and not is_enabled
        /\ ~locker[h].isLocked
        /\ locker' = [locker EXCEPT ![h].pc = IF Mode = "kOneshot" THEN "finish" ELSE "delay"]
        /\ UNCHANGED request
     \/ /\ ~goOn
        /\ locker' = [locker EXCEPT ![h].pc = "finish"]
        /\ UNCHANGED request
  /\ UNCHANGED <<lease, stray, watchdog, worker, crashes>>

\* Mutant: the lease is counted from the answer.
ExchangeLockStateNow(h, locked, age) == [locker[h] EXCEPT !.isLocked = locked, !.age = 0]

\* The refresh time point, then the flag.
ExchangeLockState(h, locked, age) == [locker[h] EXCEPT !.isLocked = locked, !.age = age]

AfterCall(h) == IF locker[h].cancelled THEN "finish" ELSE "delay"

\* The lock is ours; the watchdog is started when it was not before.
Granted(h) ==
  /\ locker[h].pc = "call"
  /\ request[h].at = "granted"
  /\ request' = [request EXCEPT ![h] = NoRequest]
  /\ locker' = [locker EXCEPT ![h] = [ExchangeLockState(h, TRUE, request[h].age) EXCEPT !.pc = AfterCall(h)]]
  /\ watchdog' = IF locker[h].isLocked THEN watchdog ELSE [watchdog EXCEPT ![h] = [NoWatchdog EXCEPT !.at = "start"]]
  /\ UNCHANGED <<lease, stray, worker, crashes>>

\* LockIsAcquiredByAnotherHostException; while we believe to hold the lock it is
\* a brain split, and the watchdog is cancelled and waited for first.
Busy(h) ==
  /\ locker[h].pc = "call"
  /\ request[h].at = "busy"
  /\ request' = [request EXCEPT ![h] = NoRequest]
  /\ \/ /\ locker[h].isLocked
        /\ watchdog' = [watchdog EXCEPT ![h].cancelled = watchdog[h].at # "none"]
        /\ locker' = [locker EXCEPT ![h].pc = "split"]
     \/ /\ ~locker[h].isLocked
        /\ locker' = [locker EXCEPT ![h].pc = IF WaitingMode = "kNoWait" THEN "finish" ELSE AfterCall(h)]
        /\ UNCHANGED watchdog
  /\ UNCHANGED <<lease, stray, worker, crashes>>

AfterSplit(h) ==
  /\ locker[h].pc = "split"
  /\ watchdog[h].at \in {"none", "done"}
  /\ watchdog' = [watchdog EXCEPT ![h] = NoWatchdog]
  /\ locker' = [locker EXCEPT ![h] = [ExchangeLockState(h, FALSE, 0) EXCEPT
       !.pc = IF WaitingMode = "kNoWait" THEN "finish" ELSE AfterCall(h)]]
  /\ UNCHANGED <<lease, request, stray, worker, crashes>>

\* Any other exception: the answer is lost or the call has timed out; the request
\* may still be on its way.
CallFails(h) ==
  /\ locker[h].pc = "call"
  /\ request' = [request EXCEPT ![h] = NoRequest]
  /\ \/ UNCHANGED stray
     \/ request[h].at = "sent" /\ stray' = [stray EXCEPT ![h] = request[h].ttl]
  /\ locker' = [locker EXCEPT ![h].pc = AfterCall(h)]
  /\ UNCHANGED <<lease, watchdog, worker, crashes>>

\* The delay passes, or the cancellation ends it, and the watchdog still runs.
NextRound(h) ==
  /\ locker[h].pc = "delay"
  /\ watchdog[h].at # "done"
  /\ locker' = [locker EXCEPT ![h].pc = "loop"]
  /\ UNCHANGED <<lease, request, stray, watchdog, worker, crashes>>

\* The watchdog has finished: unlock unless the one shot succeeded.
WatchdogFinished(h) ==
  LET ok == watchdog[h].ok
      over == ~ok \/ Mode = "kWorker" IN
  /\ locker[h].pc = "delay"
  /\ watchdog[h].at = "done"
  /\ watchdog' = [watchdog EXCEPT ![h] = NoWatchdog]
  /\ \/ /\ over
        /\ locker' = [locker EXCEPT ![h] = [ExchangeLockState(h, FALSE, 0) EXCEPT
             !.pc = IF RetryMode = "kSingleAttempt" THEN "finish" ELSE "loop"]]
        /\ IF locker[h].isLocked THEN ReleaseLease(h) ELSE UNCHANGED lease
     \/ /\ ~over
        /\ locker' = [locker EXCEPT ![h].succeeded = TRUE, ![h].pc = "loop"]
        /\ UNCHANGED lease
  /\ UNCHANGED <<request, stray, worker, crashes>>

\* After the loop the watchdog is cancelled.
Finish(h) ==
  /\ locker[h].pc = "finish"
  /\ watchdog' = [watchdog EXCEPT ![h].cancelled = watchdog[h].at # "none"]
  /\ locker' = [locker EXCEPT ![h].pc = "join"]
  /\ UNCHANGED <<lease, request, stray, worker, crashes>>

\* Mutant: Run() returns without waiting for the watchdog.
UnlockAtOnce(h) ==
  /\ locker[h].pc = "join"
  /\ locker' = [locker EXCEPT ![h] = Stopped]
  /\ IF locker[h].isLocked THEN ReleaseLease(h) ELSE UNCHANGED lease
  /\ UNCHANGED <<request, stray, watchdog, worker, crashes>>

\* It is waited for, and the LockGuard releases the lock.
Unlock(h) ==
  /\ locker[h].pc = "join"
  /\ watchdog[h].at \in {"none", "done"}
  /\ watchdog' = [watchdog EXCEPT ![h] = NoWatchdog]
  /\ locker' = [locker EXCEPT ![h] = Stopped]
  /\ IF locker[h].isLocked THEN ReleaseLease(h) ELSE UNCHANGED lease
  /\ UNCHANGED <<request, stray, worker, crashes>>

LockerStep(h) == Attempt(h) \/ AfterSplit(h) \/ NextRound(h) \/ WatchdogFinished(h) \/ Finish(h) \/ Unlock(h)

----------------------------------------------------------------------------
(* RunWatchdog() and the worker task *)

StartWorker(h) ==
  /\ watchdog[h].at = "start"
  /\ watchdog' = [watchdog EXCEPT ![h].at = "check"]
  /\ worker' = [worker EXCEPT ![h] = [NoWorker EXCEPT !.at = "running"]]
  /\ UNCHANGED <<lease, locker, request, stray, crashes>>

FailedToProlong(h, ttl) == locker[h].age > ttl - Margin

\* One pass of the loop: leave it, or wait for half of the margin.
Check(h) ==
  /\ watchdog[h].at = "check"
  /\ \E ttl \in Ttls :
       watchdog' = IF watchdog[h].cancelled \/ worker[h].at = "ended" \/ FailedToProlong(h, ttl)
                   THEN [watchdog EXCEPT ![h].at = "join"]
                   ELSE [watchdog EXCEPT ![h].at = "wait", ![h].timer = Margin \div 2]
  /\ UNCHANGED <<lease, locker, request, stray, worker, crashes>>

WaitEnds(h) ==
  /\ watchdog[h].at = "wait"
  /\ watchdog[h].timer = 0 \/ watchdog[h].cancelled \/ worker[h].at = "ended"
  /\ watchdog' = [watchdog EXCEPT ![h].at = "check", ![h].timer = 0]
  /\ UNCHANGED <<lease, locker, request, stray, worker, crashes>>

\* The worker is cancelled unless it has ended, and waited for.
CancelWorker(h) ==
  /\ watchdog[h].at = "join"
  /\ \/ /\ worker[h].at = "running"
        /\ worker' = [worker EXCEPT ![h].at = "cancelled"]
        /\ UNCHANGED watchdog
     \/ /\ worker[h].at = "ended"
        /\ watchdog' = [watchdog EXCEPT ![h].at = "done", ![h].ok = worker[h].ok]
        /\ worker' = [worker EXCEPT ![h] = NoWorker]
  /\ UNCHANGED <<lease, locker, request, stray, crashes>>

WatchdogStep(h) == StartWorker(h) \/ Check(h) \/ WaitEnds(h) \/ CancelWorker(h)

\* worker_func_ returns or throws; it is external and honours its cancellation.
WorkerEnds(h) ==
  /\ worker[h].at \in {"running", "cancelled"}
  /\ \E ok \in BOOLEAN : worker' = [worker EXCEPT ![h] = [at |-> "ended", ok |-> ok]]
  /\ UNCHANGED <<lease, locker, request, stray, watchdog, crashes>>

----------------------------------------------------------------------------
(* The host and the clock *)

\* The process dies. A Locker of the next process has another Id().
Crash(h) ==
  /\ crashes < MaxCrashes
  /\ locker[h].pc # "stopped"
  /\ crashes' = crashes + 1
  /\ lease' = IF lease.owner = h THEN [lease EXCEPT !.owner = Dead] ELSE lease
  /\ locker' = [locker EXCEPT ![h] = Stopped]
  /\ request' = [request EXCEPT ![h] = NoRequest]
  /\ stray' = [stray EXCEPT ![h] = NoStray]
  /\ watchdog' = [watchdog EXCEPT ![h] = NoWatchdog]
  /\ worker' = [worker EXCEPT ![h] = NoWorker]

\* What the engine does at once, or on time: run a task that is ready, fire a
\* timer. The worker "honours cancellation and stops ASAP".
Due(h) ==
  \/ watchdog[h].at \in {"start", "check"}
  \/ watchdog[h].at = "wait" /\ (watchdog[h].timer = 0 \/ watchdog[h].cancelled \/ worker[h].at = "ended")
  \/ watchdog[h].at = "join" /\ worker[h].at # "cancelled"
  \/ worker[h].at = "cancelled"
  \/ locker[h].pc = "call" /\ request[h].age = MaxAnswer

Tick ==
  /\ \A h \in Hosts : ~Due(h)
  /\ lease' = [lease EXCEPT !.left = IF @ > 0 THEN @ - 1 ELSE 0]
  /\ locker' = [h \in Hosts |-> [locker[h] EXCEPT !.age = IF locker[h].isLocked THEN Older(@) ELSE @]]
  /\ request' = [h \in Hosts |-> IF request[h].at = "none" THEN request[h] ELSE [request[h] EXCEPT !.age = Older(@)]]
  /\ watchdog' = [h \in Hosts |-> [watchdog[h] EXCEPT !.timer = IF @ > 0 THEN @ - 1 ELSE 0]]
  /\ UNCHANGED <<stray, worker, crashes>>

----------------------------------------------------------------------------

Next ==
  \/ \E h \in Hosts :
       \/ Start(h) \/ RequestStop(h) \/ Serve(h) \/ ServeStray(h)
       \/ LockerStep(h) \/ Granted(h) \/ Busy(h) \/ CallFails(h)
       \/ WatchdogStep(h) \/ WorkerEnds(h) \/ Crash(h)
  \/ Tick

Spec == Init /\ [][Next]_vars

\* Time passes, the engine runs its tasks, a call of the strategy ends one way or
\* the other, a cancelled worker ends.
HostFairness(h) ==
  /\ WF_vars(LockerStep(h)) /\ WF_vars(Granted(h) \/ Busy(h) \/ CallFails(h))
  /\ WF_vars(WatchdogStep(h)) /\ WF_vars(WorkerEnds(h) /\ worker[h].at = "cancelled")

Fairness == WF_vars(Tick) /\ \A h \in Hosts : HostFairness(h)

----------------------------------------------------------------------------
(* Properties *)

Working(h) == worker[h].at \in {"running", "cancelled"}

\* Every variable has its type.
TypeOK ==
  /\ lease \in [owner : Hosts \cup {Nobody, Dead}, left : 0 .. High]
  /\ locker \in [Hosts -> [pc : {"stopped", "loop", "call", "split", "delay", "finish", "join"},
                           cancelled : BOOLEAN, isLocked : BOOLEAN, age : 0 .. MaxAge, succeeded : BOOLEAN]]
  /\ request \in [Hosts -> [at : {"none", "sent", "granted", "busy"}, ttl : Ttls, age : 0 .. MaxAge]]
  /\ stray \in [Hosts -> Ttls \cup {NoStray}]
  /\ watchdog \in [Hosts -> [at : {"none", "start", "check", "wait", "join", "done"},
                             cancelled : BOOLEAN, timer : 0 .. Margin, ok : BOOLEAN]]
  /\ worker \in [Hosts -> [at : {"none", "running", "cancelled", "ended"}, ok : BOOLEAN]]
  /\ crashes \in 0 .. MaxCrashes

\* Two hosts never do the work at the same time, though answers are late or lost,
\* prolongation fails and hosts crash: the watchdog ends the worker before the lease ends.
NoBrainSplit == \A h, g \in Hosts : h # g => ~(Working(h) /\ Working(g))

\* While a worker runs the row names its host: the lease may have expired, but
\* nobody has had the time to take it.
WorkUnderLease == \A h \in Hosts : Working(h) => lease.owner = h

\* Stop() promises that the worker is stopped and the lock not held when it
\* returns, and OwnsLock() says so of every running worker.
WorkerOwnsLock == \A h \in Hosts : Working(h) => locker[h].isLocked /\ locker[h].pc # "stopped"

\* A lease that some host gives up by Release() was not being worked under.
ReleasedWhenIdle ==
  [][\A h \in Hosts : (lease.owner = h /\ lease'.owner = Nobody) => ~Working(h)]_vars

=============================================================================
