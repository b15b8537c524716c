----------------------------- MODULE LightMutex -----------------------------
(***************************************************************************)
(* engine::SingleWaitingTaskMutex: MutexImpl<WaitListLight>. At most one    *)
(* task waits at a time, as for two tasks; the wait list is one word, with  *)
(* the awaiter and the epoch of its sleep, and has no lock: the awaiter is  *)
(* stored first and the owner looked at again after that. Cancellation is   *)
(* blocked in LockSlowPath().                                               *)
(***************************************************************************)
EXTENDS Integers

CONSTANTS
  Tasks,
  NoTask,
  MaxLocks      \* bound: calls of lock functions per task

\* Two tasks at most: beside an owner there is one that waits.
LightMutexAssumption ==
  /\ NoTask \notin Tasks
  /\ \A t, u, v \in Tasks : t = u \/ u = v \/ t = v
  /\ MaxLocks \in Nat

VARIABLES
  owner,        \* owner_
  word,         \* state_ of lock_awaiters_: [task, epoch]
  epoch,        \* per task: of its sleep_state_
  signals,      \* per task: what its present sleep has received
  timed,        \* per task: the deadline of its call is reachable
  locks,        \* per task: calls so far
  result,       \* per task: what its last call returned
  carried,      \* per task: the awaiter its unlock() took out of the word
  pc            \* per task: where it is

callVars == <<timed, locks>>
vars == <<owner, word, epoch, signals, callVars, result, carried, pc>>

NoAwaiter == [task |-> NoTask, epoch |-> 0]
Mine(t) == [task |-> t, epoch |-> epoch[t]]

Pcs == {"idle", "lock", "sleep", "append", "look", "back", "suspend", "asleep", "remove", "load",
        "locked", "exchange", "notify"}

Goto(t, l) == pc' = [pc EXCEPT ![t] = l]

Init ==
  /\ owner = NoTask
  /\ word = NoAwaiter
  /\ epoch = [t \in Tasks |-> 0]
  /\ signals = [t \in Tasks |-> {}]
  /\ timed = [t \in Tasks |-> FALSE]
  /\ locks = [t \in Tasks |-> 0]
  /\ result = [t \in Tasks |-> FALSE]
  /\ carried = [t \in Tasks |-> NoAwaiter]
  /\ pc = [t \in Tasks |-> "idle"]

\* lock(), and try_lock_until() with a reachable deadline.
TryLockUntil(t) ==
  /\ pc[t] = "idle"
  /\ locks[t] < MaxLocks
  /\ locks' = [locks EXCEPT ![t] = @ + 1]
  /\ \E dl \in BOOLEAN : timed' = [timed EXCEPT ![t] = dl]
  /\ Goto(t, "lock")
  /\ UNCHANGED <<owner, word, epoch, signals, result, carried>>

\* try_lock() gives up when the fast path fails, any other goes on.
LockFastPath(t) ==
  /\ pc[t] = "lock"
  /\ \/ owner = NoTask /\ owner' = t /\ result' = [result EXCEPT ![t] = TRUE] /\ Goto(t, "locked")
     \/ owner # NoTask /\ Goto(t, "sleep") /\ UNCHANGED <<owner, result>>
     \/ owner # NoTask /\ result' = [result EXCEPT ![t] = FALSE] /\ Goto(t, "idle") /\ UNCHANGED owner
  /\ UNCHANGED <<word, epoch, signals, callVars, carried>>

\* Sleep() starts a new epoch, and TryAppendAwaiter() tries once more.
TryLockAgain(t) ==
  /\ pc[t] = "sleep"
  /\ epoch' = [epoch EXCEPT ![t] = @ + 1]
  /\ signals' = [signals EXCEPT ![t] = {}]
  /\ \/ owner = NoTask /\ owner' = t /\ Goto(t, "load")
     \/ owner # NoTask /\ Goto(t, "append") /\ UNCHANGED owner
  /\ UNCHANGED <<word, callVars, result, carried>>

AppendAwaiter(t) ==
  /\ pc[t] = "append"
  /\ word' = IF word = NoAwaiter THEN Mine(t) ELSE word
  /\ Goto(t, "look")
  /\ UNCHANGED <<owner, epoch, signals, callVars, result, carried>>

\* Mutant: the owner is not looked at again.
LookNever(t) ==
  /\ pc[t] = "look"
  /\ Goto(t, "suspend")
  /\ UNCHANGED <<owner, word, epoch, signals, callVars, result, carried>>

LookAgain(t) ==
  /\ pc[t] = "look"
  /\ Goto(t, IF owner = NoTask THEN "back" ELSE "suspend")
  /\ UNCHANGED <<owner, word, epoch, signals, callVars, result, carried>>

\* The awaiter is taken back, and Sleep() returns kNotify without suspending,
\* unless an unlock() has it already and will notify.
TakeBack(t) ==
  /\ pc[t] = "back"
  /\ \/ word = Mine(t) /\ word' = NoAwaiter /\ Goto(t, "load")
     \/ word # Mine(t) /\ Goto(t, "suspend") /\ UNCHANGED word
  /\ UNCHANGED <<owner, epoch, signals, callVars, result, carried>>

Suspend(t) ==
  /\ pc[t] = "suspend"
  /\ Goto(t, IF signals[t] = {} THEN "asleep" ELSE "remove")
  /\ UNCHANGED <<owner, word, epoch, signals, callVars, result, carried>>

DeadlineTimer(t) ==
  /\ pc[t] \in {"suspend", "asleep", "remove"}
  /\ timed[t]
  /\ "kDeadlineTimer" \notin signals[t]
  /\ signals' = [signals EXCEPT ![t] = @ \cup {"kDeadlineTimer"}]
  /\ UNCHANGED <<owner, word, epoch, callVars, result, carried, pc>>

Resume(t) ==
  /\ pc[t] = "asleep"
  /\ signals[t] # {}
  /\ Goto(t, "remove")
  /\ UNCHANGED <<owner, word, epoch, signals, callVars, result, carried>>

RemoveAwaiter(t) ==
  /\ pc[t] = "remove"
  /\ word' = IF word = Mine(t) THEN NoAwaiter ELSE word
  /\ Goto(t, "load")
  /\ UNCHANGED <<owner, epoch, signals, callVars, result, carried>>

LoadOwner(t) ==
  /\ pc[t] = "load"
  /\ \/ owner = t /\ result' = [result EXCEPT ![t] = TRUE] /\ Goto(t, "locked")
     \/ owner # t /\ signals[t] = {"kDeadlineTimer"} /\ result' = [result EXCEPT ![t] = FALSE] /\ Goto(t, "idle")
     \/ owner # t /\ signals[t] # {"kDeadlineTimer"} /\ Goto(t, "sleep") /\ UNCHANGED result
  /\ UNCHANGED <<owner, word, epoch, signals, callVars, carried>>

Unlock(t) ==
  /\ pc[t] = "locked"
  /\ owner' = NoTask
  /\ Goto(t, "exchange")
  /\ UNCHANGED <<word, epoch, signals, callVars, result, carried>>

NotifyOne(t) ==
  /\ pc[t] = "exchange"
  /\ carried' = [carried EXCEPT ![t] = word]
  /\ word' = NoAwaiter
  /\ Goto(t, IF word = NoAwaiter THEN "idle" ELSE "notify")
  /\ UNCHANGED <<owner, epoch, signals, callVars, result>>

DoNotify(t) ==
  /\ pc[t] = "notify"
  /\ LET a == carried[t] IN
       signals' = IF a = Mine(a.task) THEN [signals EXCEPT ![a.task] = @ \cup {"kNotify"}] ELSE signals
  /\ carried' = [carried EXCEPT ![t] = NoAwaiter]
  /\ Goto(t, "idle")
  /\ UNCHANGED <<owner, word, epoch, callVars, result>>

Step(t) ==
  \/ LockFastPath(t) \/ TryLockAgain(t) \/ AppendAwaiter(t) \/ LookAgain(t) \/ TakeBack(t)
  \/ Suspend(t) \/ Resume(t) \/ RemoveAwaiter(t) \/ LoadOwner(t)
  \/ Unlock(t) \/ NotifyOne(t) \/ DoNotify(t)

Next == \E t \in Tasks : TryLockUntil(t) \/ Step(t) \/ DeadlineTimer(t)

Spec == Init /\ [][Next]_vars

\* Every task gets on and an owner unlocks in the end.
Fairness == \A t \in Tasks : WF_vars(Step(t))

----------------------------------------------------------------------------
(* Properties *)

\* Every variable has its type.
TypeOK ==
  /\ owner \in Tasks \cup {NoTask}
  /\ word \in [task : Tasks \cup {NoTask}, epoch : Nat]
  /\ epoch \in [Tasks -> Nat]
  /\ signals \in [Tasks -> SUBSET {"kNotify", "kDeadlineTimer"}]
  /\ timed \in [Tasks -> BOOLEAN]
  /\ locks \in [Tasks -> 0 .. MaxLocks]
  /\ result \in [Tasks -> BOOLEAN]
  /\ carried \in [Tasks -> [task : Tasks \cup {NoTask}, epoch : Nat]]
  /\ pc \in [Tasks -> Pcs]

\* At most one task is inside: owner_ decides, whoever woke it.
MutualExclusion == \A t \in Tasks : pc[t] = "locked" => owner = t

\* The word is free when a task appends itself, and it never keeps the awaiter
\* of a call that is over: the assertions of WaitListLight hold.
WordIsOfWaiter ==
  /\ \A t \in Tasks : pc[t] = "append" => word = NoAwaiter
  /\ word # NoAwaiter => /\ word = Mine(word.task)
                         /\ pc[word.task] \in {"look", "back", "suspend", "asleep", "remove"}

\* No wakeup is lost between the failed attempt and the entry in the word: a task
\* that sleeps on while the mutex is free is about to be notified.
NoLostWakeup ==
  \A t \in Tasks : (pc[t] \in {"suspend", "asleep"} /\ signals[t] = {} /\ owner = NoTask) =>
    \E u \in Tasks : \/ pc[u] = "exchange" /\ word = Mine(t)
                     \/ pc[u] = "notify" /\ carried[u] = Mine(t)
=============================================================================
