----------------------------- MODULE Semaphore -----------------------------
(***************************************************************************)
(* engine::CancellableSemaphore and engine::Semaphore, which is the former  *)
(* with cancellation blocked (constant Cancellable), and their WaitList.    *)
(* Tasks sleep as TaskLife says. The std::mutex of the WaitList is held     *)
(* over one action, except in TryAppendAwaiter(), which reads and writes    *)
(* the two counters inside it: ListHolders are the positions that hold it.  *)
(***************************************************************************)
EXTENDS Integers, Sequences, FiniteSets, SequencesExt, FiniteSetsExt

CONSTANTS
  Tasks,
  Cancellable,      \* CancellableSemaphore (TRUE) or Semaphore (FALSE)
  Needs,            \* the counts that tasks ask for
  InitialCapacity,
  Capacities,       \* the arguments of SetCapacity()
  MaxLocks,         \* bound: calls of lock functions per task
  MaxSets,          \* bound: calls of SetCapacity()
  CounterModulus    \* 2^64 in the code: Counter is a std::size_t

SemaphoreAssumption ==
  /\ Cancellable \in BOOLEAN
  /\ Needs \subseteq Nat \ {0}
  /\ InitialCapacity \in Nat
  /\ Capacities \subseteq Nat
  /\ MaxLocks \in Nat
  /\ MaxSets \in Nat
  /\ CounterModulus \in Nat
  /\ \A c \in Capacities \cup {InitialCapacity} \cup Needs : c < CounterModulus

VARIABLES
  acquired,     \* acquired_locks_
  capacity,     \* capacity_
  sleepies,     \* sleepies_ of lock_awaiters_
  list,         \* awaiters_ of lock_awaiters_
  need,         \* per task: the count of its call
  timed,        \* per task: the deadline of its call is reachable
  cancelled,    \* per task: its cancellation was requested
  seen,         \* per task: the counter it loaded last
  status,       \* per task: TryLockStatus
  signals,      \* per task: what its present sleep has received
  locks,        \* per task: calls so far
  pc,           \* per task: where it is
  admin,        \* where the caller of SetCapacity() is
  sets          \* calls of SetCapacity() so far

callVars == <<need, timed, locks>>
adminVars == <<admin, sets>>
vars == <<acquired, capacity, sleepies, list, callVars, cancelled, seen, status, signals, pc, adminVars>>

ListHolders == {"listCas", "compare", "room", "used"}
SlowPcs == {"begin", "suspend", "asleep", "remove", "slept", "leave"} \cup ListHolders
Pcs == {"idle", "fast", "fastCas", "count", "held", "check", "notify"} \cup SlowPcs

ListFree == \A t \in Tasks : pc[t] \notin ListHolders

Goto(t, l) == pc' = [pc EXCEPT ![t] = l]

\* Unsigned subtraction wraps around.
Minus(a, b) == (a - b) % CounterModulus

ShouldCancel(t) == Cancellable /\ cancelled[t]

Init ==
  /\ acquired = 0
  /\ capacity = InitialCapacity
  /\ sleepies = 0
  /\ list = <<>>
  /\ need = [t \in Tasks |-> 0]
  /\ timed = [t \in Tasks |-> FALSE]
  /\ cancelled = [t \in Tasks |-> FALSE]
  /\ seen = [t \in Tasks |-> 0]
  /\ status = [t \in Tasks |-> "kTransientFailure"]
  /\ signals = [t \in Tasks |-> {}]
  /\ locks = [t \in Tasks |-> 0]
  /\ pc = [t \in Tasks |-> "idle"]
  /\ admin = "idle"
  /\ sets = 0

----------------------------------------------------------------------------
(* DoTryLock(), called at position "from" and left for one of three others  *)

LoadCapacity(t, next, permanent) ==
  /\ seen' = [seen EXCEPT ![t] = capacity]
  /\ \/ need[t] > capacity /\ Goto(t, permanent) /\ status' = [status EXCEPT ![t] = "kPermanentFailure"]
     \/ need[t] <= capacity /\ Goto(t, next) /\ UNCHANGED status

CompareExchange(t, success, transient) ==
  \/ /\ acquired <= Minus(seen[t], need[t])
     /\ acquired' = acquired + need[t]
     /\ status' = [status EXCEPT ![t] = "kSuccess"]
     /\ Goto(t, success)
  \/ /\ acquired > Minus(seen[t], need[t])
     /\ status' = [status EXCEPT ![t] = "kTransientFailure"]
     /\ Goto(t, transient)
     /\ UNCHANGED acquired

----------------------------------------------------------------------------
(* A lock function *)

TryLockSharedUntilCount(t) ==
  /\ pc[t] = "idle"
  /\ locks[t] < MaxLocks
  /\ locks' = [locks EXCEPT ![t] = @ + 1]
  /\ \E n \in Needs : need' = [need EXCEPT ![t] = n]
  /\ \E dl \in BOOLEAN : timed' = [timed EXCEPT ![t] = dl]
  /\ Goto(t, "fast")
  /\ UNCHANGED <<acquired, capacity, sleepies, list, cancelled, seen, status, signals, adminVars>>

LockFastPathLoad(t) ==
  /\ pc[t] = "fast"
  /\ LoadCapacity(t, "fastCas", "idle")
  /\ UNCHANGED <<acquired, capacity, sleepies, list, callVars, cancelled, signals, adminVars>>

\* A try_lock function gives up here, any other goes on to LockSlowPath().
LockFastPathCas(t) ==
  /\ pc[t] = "fastCas"
  /\ \E transient \in {"idle", "count"} : CompareExchange(t, "held", transient)
  /\ UNCHANGED <<capacity, sleepies, list, callVars, cancelled, seen, signals, adminVars>>

CountSleepy(t) ==
  /\ pc[t] = "count"
  /\ sleepies' = sleepies + 1
  /\ Goto(t, "begin")
  /\ UNCHANGED <<acquired, capacity, list, callVars, cancelled, seen, status, signals, adminVars>>

\* Sleep() of a cancelled task returns before it asks the awaitable.
SleepCancelled(t) ==
  /\ pc[t] = "begin"
  /\ ShouldCancel(t)
  /\ signals' = [signals EXCEPT ![t] = {"kCancelRequest"}]
  /\ Goto(t, "slept")
  /\ UNCHANGED <<acquired, capacity, sleepies, list, callVars, cancelled, seen, status, adminVars>>

\* TryAppendAwaiter(): DoTryLock() under the list lock, then a last look.
ListLoadCapacity(t) ==
  /\ pc[t] = "begin"
  /\ ~ShouldCancel(t)
  /\ ListFree
  /\ signals' = [signals EXCEPT ![t] = {}]
  /\ LoadCapacity(t, "listCas", "slept")
  /\ UNCHANGED <<acquired, capacity, sleepies, list, callVars, cancelled, adminVars>>

ListCas(t) ==
  /\ pc[t] = "listCas"
  /\ CompareExchange(t, "slept", "compare")
  /\ UNCHANGED <<capacity, sleepies, list, callVars, cancelled, seen, signals, adminVars>>

\* UsedApprox() <= GetCapacity() - count: C++ leaves the order of the two loads
\* to the compiler.
ListLoadUsed(t) ==
  /\ pc[t] = "compare"
  /\ seen' = [seen EXCEPT ![t] = acquired]
  /\ Goto(t, "room")
  /\ UNCHANGED <<acquired, capacity, sleepies, list, callVars, cancelled, status, signals, adminVars>>

ListLoadRoom(t) ==
  /\ pc[t] = "compare"
  /\ seen' = [seen EXCEPT ![t] = capacity]
  /\ Goto(t, "used")
  /\ UNCHANGED <<acquired, capacity, sleepies, list, callVars, cancelled, status, signals, adminVars>>

HasRoom(t) ==
  \/ pc[t] = "room" /\ seen[t] <= Minus(capacity, need[t])
  \/ pc[t] = "used" /\ acquired <= Minus(seen[t], need[t])

\* If there is room by now Sleep() returns kNotify without suspending; if not,
\* the awaiter enters the list, whose lock is still held.
TryAppendAwaiter(t) ==
  /\ pc[t] \in {"room", "used"}
  /\ \/ /\ HasRoom(t)
        /\ signals' = [signals EXCEPT ![t] = {"kNotify"}]
        /\ Goto(t, "slept")
        /\ UNCHANGED list
     \/ /\ ~HasRoom(t)
        /\ list' = Append(list, t)
        /\ Goto(t, "suspend")
        /\ UNCHANGED signals
  /\ UNCHANGED <<acquired, capacity, sleepies, callVars, cancelled, seen, status, adminVars>>

Suspend(t) ==
  /\ pc[t] = "suspend"
  /\ \/ signals[t] = {} /\ ~ShouldCancel(t) /\ Goto(t, "asleep") /\ UNCHANGED signals
     \/ signals[t] # {} /\ Goto(t, "remove") /\ UNCHANGED signals
     \/ /\ signals[t] = {} /\ ShouldCancel(t)
        /\ Goto(t, "remove")
        /\ signals' = [signals EXCEPT ![t] = {"kCancelRequest"}]
  /\ UNCHANGED <<acquired, capacity, sleepies, list, callVars, cancelled, seen, status, adminVars>>

DeadlineTimer(t) ==
  /\ pc[t] \in {"suspend", "asleep", "remove"}
  /\ timed[t]
  /\ "kDeadlineTimer" \notin signals[t]
  /\ signals' = [signals EXCEPT ![t] = @ \cup {"kDeadlineTimer"}]
  /\ UNCHANGED <<acquired, capacity, sleepies, list, callVars, cancelled, seen, status, pc, adminVars>>

RequestCancel(t) ==
  /\ Cancellable
  /\ ~cancelled[t]
  /\ cancelled' = [cancelled EXCEPT ![t] = TRUE]
  /\ signals' = IF pc[t] \in {"suspend", "asleep", "remove"}
                  THEN [signals EXCEPT ![t] = @ \cup {"kCancelRequest"}] ELSE signals
  /\ UNCHANGED <<acquired, capacity, sleepies, list, callVars, seen, status, pc, adminVars>>

Resume(t) ==
  /\ pc[t] = "asleep"
  /\ signals[t] # {}
  /\ Goto(t, "remove")
  /\ UNCHANGED <<acquired, capacity, sleepies, list, callVars, cancelled, seen, status, signals, adminVars>>

RemoveAwaiter(t) ==
  /\ pc[t] = "remove"
  /\ ListFree
  /\ list' = SelectSeq(list, LAMBDA u : u # t)
  /\ Goto(t, "slept")
  /\ UNCHANGED <<acquired, capacity, sleepies, callVars, cancelled, seen, status, signals, adminVars>>

\* The loop of LockSlowPath(), after Sleep().
AfterSleep(t) ==
  /\ pc[t] = "slept"
  /\ Goto(t, IF status[t] = "kTransientFailure" /\ "kNotify" \in signals[t] THEN "begin" ELSE "leave")
  /\ UNCHANGED <<acquired, capacity, sleepies, list, callVars, cancelled, seen, status, signals, adminVars>>

LeaveSlowPath(t) ==
  /\ pc[t] = "leave"
  /\ sleepies' = sleepies - 1
  /\ signals' = [signals EXCEPT ![t] = {}]
  /\ Goto(t, IF status[t] = "kSuccess" THEN "held" ELSE "idle")
  /\ UNCHANGED <<acquired, capacity, list, callVars, cancelled, seen, status, adminVars>>

----------------------------------------------------------------------------
(* unlock_shared_count() and SetCapacity() *)

UnlockSharedCount(t) ==
  /\ pc[t] = "held"
  /\ acquired' = acquired - need[t]
  /\ Goto(t, "check")
  /\ UNCHANGED <<capacity, sleepies, list, callVars, cancelled, seen, status, signals, adminVars>>

\* Mutant: off by one.
UnlockCheckOtherSleepies(t) ==
  /\ pc[t] = "check"
  /\ Goto(t, IF sleepies > 1 THEN "notify" ELSE "idle")
  /\ UNCHANGED <<acquired, capacity, sleepies, list, callVars, cancelled, seen, status, signals, adminVars>>

UnlockCheckSleepies(t) ==
  /\ pc[t] = "check"
  /\ Goto(t, IF sleepies > 0 THEN "notify" ELSE "idle")
  /\ UNCHANGED <<acquired, capacity, sleepies, list, callVars, cancelled, seen, status, signals, adminVars>>

NotifyOne ==
  \/ /\ list # <<>>
     /\ list' = Tail(list)
     /\ signals' = [signals EXCEPT ![Head(list)] = @ \cup {"kNotify"}]
  \/ list = <<>> /\ UNCHANGED <<list, signals>>

NotifyAll ==
  /\ list' = <<>>
  /\ signals' = [t \in Tasks |-> signals[t] \cup (IF t \in ToSet(list) THEN {"kNotify"} ELSE {})]

UnlockNotify(t) ==
  /\ pc[t] = "notify"
  /\ ListFree
  /\ IF need[t] > 1 THEN NotifyAll ELSE NotifyOne
  /\ Goto(t, "idle")
  /\ UNCHANGED <<acquired, capacity, sleepies, callVars, cancelled, seen, status, adminVars>>

SetCapacity ==
  /\ admin = "idle"
  /\ sets < MaxSets
  /\ sets' = sets + 1
  /\ capacity' \in Capacities
  /\ admin' = "check"
  /\ UNCHANGED <<acquired, sleepies, list, callVars, cancelled, seen, status, signals, pc>>

SetCapacityCheckSleepies ==
  /\ admin = "check"
  /\ admin' = IF sleepies > 0 THEN "notify" ELSE "idle"
  /\ UNCHANGED <<acquired, capacity, sleepies, list, callVars, cancelled, seen, status, signals, pc, sets>>

SetCapacityNotify ==
  /\ admin = "notify"
  /\ ListFree
  /\ NotifyAll
  /\ admin' = "idle"
  /\ UNCHANGED <<acquired, capacity, sleepies, callVars, cancelled, seen, status, pc, sets>>

----------------------------------------------------------------------------

LockStep(t) ==
  \/ LockFastPathLoad(t) \/ LockFastPathCas(t) \/ CountSleepy(t) \/ SleepCancelled(t)
  \/ ListLoadCapacity(t) \/ ListCas(t) \/ ListLoadUsed(t) \/ ListLoadRoom(t)
  \/ TryAppendAwaiter(t)
  \/ Suspend(t) \/ Resume(t) \/ RemoveAwaiter(t) \/ AfterSleep(t) \/ LeaveSlowPath(t)

UnlockStep(t) == UnlockSharedCount(t) \/ UnlockCheckSleepies(t) \/ UnlockNotify(t)

AdminStep == SetCapacityCheckSleepies \/ SetCapacityNotify

Next ==
  \/ \E t \in Tasks : \/ TryLockSharedUntilCount(t) \/ LockStep(t) \/ UnlockStep(t)
                      \/ DeadlineTimer(t) \/ RequestCancel(t)
  \/ SetCapacity \/ AdminStep

Spec == Init /\ [][Next]_vars

\* Every task gets on, holders unlock in the end, deadlines are reached; nobody
\* has to lock, to cancel or to change the capacity.
Fairness ==
  /\ WF_vars(AdminStep)
  /\ \A t \in Tasks : WF_vars(LockStep(t)) /\ WF_vars(UnlockStep(t)) /\ WF_vars(DeadlineTimer(t))

----------------------------------------------------------------------------
(* Properties *)

\* Every variable has its type.
TypeOK ==
  /\ acquired \in Nat
  /\ capacity \in Nat
  /\ sleepies \in Nat
  /\ list \in Seq(Tasks)
  /\ need \in [Tasks -> Needs \cup {0}]
  /\ timed \in [Tasks -> BOOLEAN]
  /\ cancelled \in [Tasks -> BOOLEAN]
  /\ seen \in [Tasks -> Nat]
  /\ status \in [Tasks -> {"kSuccess", "kTransientFailure", "kPermanentFailure"}]
  /\ signals \in [Tasks -> SUBSET {"kNotify", "kDeadlineTimer", "kCancelRequest"}]
  /\ locks \in [Tasks -> 0 .. MaxLocks]
  /\ pc \in [Tasks -> Pcs]
  /\ admin \in {"idle", "check", "notify"}
  /\ sets \in 0 .. MaxSets

\* The tasks that have permits: told so, or about to be.
Holders == {t \in Tasks : pc[t] = "held" \/ (pc[t] \in {"slept", "leave"} /\ status[t] = "kSuccess")}

\* Permits are neither leaked nor invented: acquired_locks_ is what the holders
\* have, whatever calls failed, timed out or were cancelled on the way.
PermitsAccounted == acquired = MapThenSumSet(LAMBDA t : need[t], Holders)

\* While the capacity has not been changed the permits in use do not exceed it,
\* and they never exceed the largest capacity there was.
CapacityRespected ==
  /\ sets = 0 => acquired <= capacity
  /\ acquired <= Max(Capacities \cup {InitialCapacity})

\* A task that will try again or wake others.
Responsible(t) ==
  \/ pc[t] \in {"check", "notify", "begin", "listCas"}
  \/ pc[t] = "compare" \/ HasRoom(t)
  \/ pc[t] \in {"suspend", "asleep", "remove", "slept"} /\ "kNotify" \in signals[t]

Free == IF capacity >= acquired THEN capacity - acquired ELSE 0

\* A waiter that fits into the free permits does not wait in vain: someone is
\* about to wake it or to take them.
NoLostWakeup ==
  (\E t \in ToSet(list) : need[t] <= Free) =>
     admin # "idle" \/ \E t \in Tasks : Responsible(t)

\* With calls for one permit each, every free permit that a waiter could use
\* has a task of its own that is about to take it or to wake a waiter.
EveryPermitHasTaker ==
  admin = "idle" =>
    Cardinality({t \in Tasks : Responsible(t)}) >= Min({Free, Len(list)})
=============================================================================
