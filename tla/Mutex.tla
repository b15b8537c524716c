------------------------------- MODULE Mutex -------------------------------
(***************************************************************************)
(* engine::Mutex: MutexImpl<WaitList>, with the WaitList it waits in.       *)
(* A task that does not get the mutex at once sleeps as TaskLife says:      *)
(* signals belong to the present sleep, kNotify wins over the deadline, and *)
(* cancellation is blocked in LockSlowPath().                               *)
(* The std::mutex of the WaitList is held over one action, except where an  *)
(* access of owner_ lies inside the critical section (TryAppendAwaiter()):  *)
(* there the holder is the task at "append".                                *)
(***************************************************************************)
EXTENDS Integers, Sequences

CONSTANTS
  Tasks,
  NoTask,
  MaxLocks      \* bound: calls of lock functions per task

ASSUME MutexAssumption ==
  /\ NoTask \notin Tasks
  /\ MaxLocks \in Nat

VARIABLES
  owner,        \* owner_
  sleepies,     \* sleepies_ of lock_awaiters_
  list,         \* awaiters_ of lock_awaiters_
  signals,      \* per task: what its present sleep has received
  timed,        \* per task: the deadline of its call is reachable
  locks,        \* per task: calls so far
  result,       \* per task: what its last call returned
  pc            \* per task: where it is

vars == <<owner, sleepies, list, signals, timed, locks, result, pc>>

\* "check": unlock() has cleared owner_ and looks for sleepers.
Pcs == {"idle", "lock", "count", "try", "append", "suspend", "asleep", "remove", "load",
        "leave", "locked", "check", "notify"}

ListFree == \A t \in Tasks : pc[t] # "append"

Goto(t, l) == pc' = [pc EXCEPT ![t] = l]

Init ==
  /\ owner = NoTask
  /\ sleepies = 0
  /\ list = <<>>
  /\ signals = [t \in Tasks |-> {}]
  /\ timed = [t \in Tasks |-> FALSE]
  /\ locks = [t \in Tasks |-> 0]
  /\ result = [t \in Tasks |-> FALSE]
  /\ pc = [t \in Tasks |-> "idle"]

\* try_lock(): the fast path alone.
TryLock(t) ==
  /\ pc[t] = "idle"
  /\ locks[t] < MaxLocks
  /\ locks' = [locks EXCEPT ![t] = @ + 1]
  /\ \/ owner = NoTask /\ owner' = t /\ result' = [result EXCEPT ![t] = TRUE] /\ Goto(t, "locked")
     \/ owner # NoTask /\ result' = [result EXCEPT ![t] = FALSE] /\ UNCHANGED <<owner, pc>>
  /\ UNCHANGED <<sleepies, list, signals, timed>>

\* lock(), and try_lock_until() with a reachable deadline. A task that holds the
\* mutex is at "locked", so the self-deadlock check of the code does not fire.
TryLockUntil(t) ==
  /\ pc[t] = "idle"
  /\ locks[t] < MaxLocks
  /\ locks' = [locks EXCEPT ![t] = @ + 1]
  /\ \E dl \in BOOLEAN : timed' = [timed EXCEPT ![t] = dl]
  /\ Goto(t, "lock")
  /\ UNCHANGED <<owner, sleepies, list, signals, result>>

\* Mutant: a store in place of the compare-and-exchange.
LockFastPathStore(t) ==
  /\ pc[t] = "lock"
  /\ owner' = t
  /\ result' = [result EXCEPT ![t] = TRUE]
  /\ Goto(t, "locked")
  /\ UNCHANGED <<sleepies, list, signals, timed, locks>>

LockFastPath(t) ==
  /\ pc[t] = "lock"
  /\ \/ owner = NoTask /\ owner' = t /\ result' = [result EXCEPT ![t] = TRUE] /\ Goto(t, "locked")
     \/ owner # NoTask /\ Goto(t, "count") /\ UNCHANGED <<owner, result>>
  /\ UNCHANGED <<sleepies, list, signals, timed, locks>>

\* LockSlowPath(): the awaitable counts the sleeper before anything else.
CountSleepy(t) ==
  /\ pc[t] = "count"
  /\ sleepies' = sleepies + 1
  /\ Goto(t, "try")
  /\ UNCHANGED <<owner, list, signals, timed, locks, result>>

\* Mutant: the awaiter is appended without another try.
AppendUntried(t) ==
  /\ pc[t] = "try"
  /\ ListFree
  /\ signals' = [signals EXCEPT ![t] = {}]
  /\ Goto(t, "append")
  /\ UNCHANGED <<owner, sleepies, list, timed, locks, result>>

\* Sleep() starts, and TryAppendAwaiter() tries once more under the list lock.
\* If it succeeds Sleep() returns kNotify without suspending.
TryUnderLock(t) ==
  /\ pc[t] = "try"
  /\ ListFree
  /\ signals' = [signals EXCEPT ![t] = {}]
  /\ \/ owner = NoTask /\ owner' = t /\ Goto(t, "load")
     \/ owner # NoTask /\ Goto(t, "append") /\ UNCHANGED owner
  /\ UNCHANGED <<sleepies, list, timed, locks, result>>

AppendAwaiter(t) ==
  /\ pc[t] = "append"
  /\ list' = Append(list, t)
  /\ Goto(t, "suspend")
  /\ UNCHANGED <<owner, sleepies, signals, timed, locks, result>>

Suspend(t) ==
  /\ pc[t] = "suspend"
  /\ Goto(t, IF signals[t] = {} THEN "asleep" ELSE "remove")
  /\ UNCHANGED <<owner, sleepies, list, signals, timed, locks, result>>

\* The deadline timer of the sleep, armed after the awaiter was appended.
DeadlineTimer(t) ==
  /\ pc[t] \in {"suspend", "asleep", "remove"}
  /\ timed[t]
  /\ "kDeadlineTimer" \notin signals[t]
  /\ signals' = [signals EXCEPT ![t] = @ \cup {"kDeadlineTimer"}]
  /\ UNCHANGED <<owner, sleepies, list, timed, locks, result, pc>>

Resume(t) ==
  /\ pc[t] = "asleep"
  /\ signals[t] # {}
  /\ Goto(t, "remove")
  /\ UNCHANGED <<owner, sleepies, list, signals, timed, locks, result>>

Unlinked(s, i) == [j \in 1 .. Len(s) - 1 |-> s[IF j < i THEN j ELSE j + 1]]

\* Remove(): the awaiter is unlinked, unless a notification has done so.
RemoveAwaiter(t) ==
  /\ pc[t] = "remove"
  /\ ListFree
  /\ \/ \E i \in 1 .. Len(list) : list[i] = t /\ list' = Unlinked(list, i)
     \/ (\A i \in 1 .. Len(list) : list[i] # t) /\ UNCHANGED list
  /\ Goto(t, "load")
  /\ UNCHANGED <<owner, sleepies, signals, timed, locks, result>>

\* Sleep() has returned kNotify unless only the deadline was signalled.
LoadOwner(t) ==
  /\ pc[t] = "load"
  /\ \/ owner = t /\ result' = [result EXCEPT ![t] = TRUE] /\ Goto(t, "leave")
     \/ owner # t /\ signals[t] = {"kDeadlineTimer"} /\ result' = [result EXCEPT ![t] = FALSE] /\ Goto(t, "leave")
     \/ owner # t /\ signals[t] # {"kDeadlineTimer"} /\ Goto(t, "try") /\ UNCHANGED result
  /\ UNCHANGED <<owner, sleepies, list, signals, timed, locks>>

LeaveSlowPath(t) ==
  /\ pc[t] = "leave"
  /\ sleepies' = sleepies - 1
  /\ signals' = [signals EXCEPT ![t] = {}]
  /\ Goto(t, IF result[t] THEN "locked" ELSE "idle")
  /\ UNCHANGED <<owner, list, timed, locks, result>>

Unlock(t) ==
  /\ pc[t] = "locked"
  /\ owner' = NoTask
  /\ Goto(t, "check")
  /\ UNCHANGED <<sleepies, list, signals, timed, locks, result>>

UnlockCheckSleepies(t) ==
  /\ pc[t] = "check"
  /\ Goto(t, IF sleepies > 0 THEN "notify" ELSE "idle")
  /\ UNCHANGED <<owner, sleepies, list, signals, timed, locks, result>>

NotifyOne(t) ==
  /\ pc[t] = "notify"
  /\ ListFree
  /\ \/ /\ list # <<>>
        /\ list' = Tail(list)
        /\ signals' = [signals EXCEPT ![Head(list)] = @ \cup {"kNotify"}]
     \/ list = <<>> /\ UNCHANGED <<list, signals>>
  /\ Goto(t, "idle")
  /\ UNCHANGED <<owner, sleepies, timed, locks, result>>

Step(t) ==
  \/ LockFastPath(t) \/ CountSleepy(t) \/ TryUnderLock(t) \/ AppendAwaiter(t) \/ Suspend(t)
  \/ Resume(t) \/ RemoveAwaiter(t) \/ LoadOwner(t) \/ LeaveSlowPath(t)
  \/ Unlock(t) \/ UnlockCheckSleepies(t) \/ NotifyOne(t)

Next == \E t \in Tasks : TryLock(t) \/ TryLockUntil(t) \/ Step(t) \/ DeadlineTimer(t)

Spec == Init /\ [][Next]_vars

\* Every task gets on, an owner unlocks in the end, a deadline is reached.
\* Nobody has to lock again.
Fairness == \A t \in Tasks : WF_vars(Step(t)) /\ WF_vars(DeadlineTimer(t))

----------------------------------------------------------------------------
(* Properties *)

\* Every variable has its type.
TypeOK ==
  /\ owner \in Tasks \cup {NoTask}
  /\ sleepies \in Nat
  /\ list \in Seq(Tasks)
  /\ signals \in [Tasks -> SUBSET {"kNotify", "kDeadlineTimer"}]
  /\ timed \in [Tasks -> BOOLEAN]
  /\ locks \in [Tasks -> 0 .. MaxLocks]
  /\ result \in [Tasks -> BOOLEAN]
  /\ pc \in [Tasks -> Pcs]

\* A task that a lock function has let in: it was told TRUE and has not unlocked.
Inside(t) == pc[t] = "locked" \/ (pc[t] = "leave" /\ result[t])

\* At most one task is let in, and owner_ is that task: LockSlowPath() decides
\* by owner_ alone, whoever woke it and whatever the deadline did.
MutualExclusion ==
  \A t \in Tasks : Inside(t) => owner = t

\* A task that will try again or hand the mutex on.
Responsible(t) ==
  \/ pc[t] \in {"check", "notify", "try"}
  \/ pc[t] \in {"suspend", "asleep", "remove", "load"} /\ "kNotify" \in signals[t]

\* No wakeup is lost: while the mutex is free and a task waits in the list, some
\* task is about to notify or to try, though deadlines race with notifications.
NoLostWakeup ==
  (owner = NoTask /\ list # <<>>) => \E t \in Tasks : Responsible(t)
=============================================================================
