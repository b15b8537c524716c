---------------------------- MODULE SharedMutex ----------------------------
(***************************************************************************)
(* engine::SharedMutex: a Semaphore of kWriterLock permits (a reader takes  *)
(* one, a writer all), the number of registered writers, and a condition    *)
(* variable on which readers wait for that number to be zero. The number    *)
(* is changed outside of the mutex of the condition variable.               *)
(* The parts are used as their own modules show them to behave: a semaphore *)
(* takes the permits or appends the task in one step (Semaphore), waiting   *)
(* on the condition variable appends before it releases the mutex           *)
(* (ConditionVariable). Releasing and notifying stay two steps.             *)
(***************************************************************************)
EXTENDS Integers, Sequences, FiniteSets

CONSTANTS
  Readers,
  Writers,
  NoTask,
  kWriterLock      \* the maximum of Semaphore::Counter in the code

SharedMutexAssumption ==
  /\ Readers \cap Writers = {}
  /\ NoTask \notin Readers \cup Writers
  /\ IsFiniteSet(Readers \cup Writers)
  /\ kWriterLock \in Nat
  /\ kWriterLock > Cardinality(Readers \cup Writers)
  /\ kWriterLock > 2

VARIABLES
  acquired,     \* acquired_locks_ of semaphore_
  semList,      \* awaiters of semaphore_
  writers,      \* registered_writers_count_
  cvOwner,      \* owner of registered_writers_count_mutex_
  cvList,       \* awaiters of registered_writers_count_cv_
  signals,      \* per task: what its present sleep has received
  timed,        \* per task: the deadline of its call is reachable
  cancelled,    \* per task: cancellation was requested
  released,     \* per task: the count of the unlock in progress
  pc            \* per task: where it is

semVars == <<acquired, semList>>
cvVars == <<cvOwner, cvList>>
callVars == <<timed, cancelled>>
vars == <<semVars, writers, cvVars, callVars, signals, released, pc>>

Lockers == Readers \cup Writers

\* "drop": the count of writers goes down; "barrier" and "broadcast" follow at zero.
Pcs == {"idle", "check", "cvLock", "predicate", "cvAppend", "cvAsleep", "tryShared", "try", "asleep", "exclusive",
        "shared", "semNotify", "drop", "barrier", "broadcast"}

Goto(t, l) == pc' = [pc EXCEPT ![t] = l]
Need(t) == IF t \in Writers THEN kWriterLock ELSE 1
\* The list without its entry at i: WaitList::Remove().
Unlinked(s, i) == [j \in 1 .. Len(s) - 1 |-> s[IF j < i THEN j ELSE j + 1]]

\* Where a call that fails goes: a writer has to unregister.
Leave(t) == IF t \in Writers THEN "drop" ELSE "idle"

Init ==
  /\ acquired = 0
  /\ semList = <<>>
  /\ writers = 0
  /\ cvOwner = NoTask
  /\ cvList = {}
  /\ signals = [t \in Lockers |-> {}]
  /\ timed = [t \in Lockers |-> FALSE]
  /\ cancelled = [t \in Lockers |-> FALSE]
  /\ released = [t \in Lockers |-> 0]
  /\ pc = [t \in Lockers |-> "idle"]

----------------------------------------------------------------------------
(* Calls. A cancelled task makes no new one. *)

\* lock(), try_lock_until(), and try_lock(), whose deadline has passed.
TryLockUntil(w) ==
  /\ pc[w] = "idle" /\ w \in Writers
  /\ ~cancelled[w]
  /\ writers' = writers + 1
  /\ \E dl \in BOOLEAN : timed' = [timed EXCEPT ![w] = dl]
  /\ Goto(w, "try")
  /\ UNCHANGED <<semVars, cvVars, cancelled, signals, released>>

\* Mutant: readers do not give way to registered writers.
LockSharedUnchecked(r) ==
  /\ pc[r] = "idle" /\ r \in Readers
  /\ ~cancelled[r]
  /\ \E dl \in BOOLEAN : timed' = [timed EXCEPT ![r] = dl]
  /\ Goto(r, "try")
  /\ UNCHANGED <<semVars, writers, cvVars, cancelled, signals, released>>

\* lock_shared() and try_lock_shared_until(): the fast path of
\* WaitForNoRegisteredWriters() comes first.
LockShared(r) ==
  /\ pc[r] = "idle" /\ r \in Readers
  /\ ~cancelled[r]
  /\ \E dl \in BOOLEAN : timed' = [timed EXCEPT ![r] = dl]
  /\ Goto(r, IF writers = 0 THEN "try" ELSE "cvLock")
  /\ UNCHANGED <<semVars, writers, cvVars, cancelled, signals, released>>

\* try_lock_shared() looks at the writers and then tries the semaphore once.
TryLockShared(r) ==
  /\ pc[r] \in {"idle", "tryShared"} /\ r \in Readers
  /\ \/ pc[r] = "idle" /\ ~cancelled[r] /\ writers = 0 /\ Goto(r, "tryShared") /\ UNCHANGED acquired
     \/ /\ pc[r] = "tryShared" /\ acquired < kWriterLock
        /\ acquired' = acquired + 1 /\ Goto(r, "shared")
     \/ pc[r] = "tryShared" /\ acquired = kWriterLock /\ Goto(r, "idle") /\ UNCHANGED acquired
  /\ UNCHANGED <<semList, writers, cvVars, callVars, signals, released>>

----------------------------------------------------------------------------
(* WaitForNoRegisteredWriters() *)

CvLock(r) ==
  /\ pc[r] = "cvLock"
  /\ cvOwner = NoTask
  /\ cvOwner' = r
  /\ Goto(r, "predicate")
  /\ UNCHANGED <<semVars, writers, cvList, callVars, signals, released>>

\* The predicate is read under the mutex. A wait that ended by the deadline or a
\* cancellation gives up, except that lock_shared(), which has no deadline,
\* does not look at the result.
Predicate(r) ==
  /\ pc[r] = "predicate"
  /\ signals' = [signals EXCEPT ![r] = {}]
  /\ \/ writers = 0 /\ cvOwner' = NoTask /\ Goto(r, "try") /\ UNCHANGED timed
     \/ /\ writers > 0
        /\ \/ "kNotify" \notin signals[r] /\ signals[r] # {}
           \/ cancelled[r]
        /\ Goto(r, IF timed[r] THEN "idle" ELSE "try")
        /\ timed' = [timed EXCEPT ![r] = FALSE]
        /\ cvOwner' = NoTask
     \/ /\ writers > 0 /\ ~cancelled[r]
        /\ "kNotify" \in signals[r] \/ signals[r] = {}
        /\ Goto(r, "cvAppend")
        /\ UNCHANGED <<cvOwner, timed>>
  /\ UNCHANGED <<semVars, writers, cvList, cancelled, released>>

\* WaitUntil() of the condition variable: into its list and out of the mutex.
CvAppend(r) ==
  /\ pc[r] = "cvAppend"
  /\ cvList' = cvList \cup {r}
  /\ cvOwner' = NoTask
  /\ Goto(r, "cvAsleep")
  /\ UNCHANGED <<semVars, writers, callVars, signals, released>>

CvResume(r) ==
  /\ pc[r] = "cvAsleep"
  /\ signals[r] # {}
  /\ cvList' = cvList \ {r}
  /\ Goto(r, "cvLock")
  /\ UNCHANGED <<semVars, writers, cvOwner, callVars, signals, released>>

----------------------------------------------------------------------------
(* The semaphore *)

\* Takes the permits or enters the list. Cancellation is blocked there.
SemTry(t) ==
  /\ pc[t] = "try"
  /\ \/ /\ acquired <= kWriterLock - Need(t)
        /\ acquired' = acquired + Need(t)
        /\ Goto(t, IF t \in Writers THEN "exclusive" ELSE "shared")
        /\ timed' = [timed EXCEPT ![t] = FALSE]
        /\ UNCHANGED semList
     \/ /\ acquired > kWriterLock - Need(t)
        /\ semList' = Append(semList, t)
        /\ Goto(t, "asleep")
        /\ UNCHANGED <<acquired, timed>>
  /\ UNCHANGED <<writers, cvVars, cancelled, signals, released>>

SemResume(t) ==
  /\ pc[t] = "asleep"
  /\ signals[t] \cap {"kNotify", "kDeadlineTimer"} # {}
  /\ \/ \E i \in 1 .. Len(semList) : semList[i] = t /\ semList' = Unlinked(semList, i)
     \/ (\A i \in 1 .. Len(semList) : semList[i] # t) /\ UNCHANGED semList
  /\ Goto(t, IF "kNotify" \in signals[t] THEN "try" ELSE Leave(t))
  /\ timed' = [timed EXCEPT ![t] = @ /\ "kNotify" \in signals[t]]
  /\ signals' = [signals EXCEPT ![t] = {}]
  /\ UNCHANGED <<acquired, writers, cvVars, cancelled, released>>

\* unlock() and unlock_shared() give back what the call took.
Unlock(t) ==
  /\ pc[t] = (IF t \in Writers THEN "exclusive" ELSE "shared")
  /\ released' = [released EXCEPT ![t] = Need(t)]
  /\ acquired' = acquired - Need(t)
  /\ Goto(t, "semNotify")
  /\ UNCHANGED <<semList, writers, cvVars, callVars, signals>>

\* A writer that has downgraded holds one permit.
UnlockDowngraded(w) ==
  /\ pc[w] = "shared" /\ w \in Writers
  /\ released' = [released EXCEPT ![w] = 1]
  /\ acquired' = acquired - 1
  /\ Goto(w, "semNotify")
  /\ UNCHANGED <<semList, writers, cvVars, callVars, signals>>

UnlockAndLockShared(w) ==
  /\ pc[w] = "exclusive"
  /\ released' = [released EXCEPT ![w] = kWriterLock - 1]
  /\ acquired' = acquired - (kWriterLock - 1)
  /\ Goto(w, "semNotify")
  /\ UNCHANGED <<semList, writers, cvVars, callVars, signals>>

\* One permit notifies one waiter, more of them notify all.
Notified(t) == {semList[i] : i \in IF released[t] = 1 THEN DOMAIN semList \cap {1} ELSE DOMAIN semList}

\* What a writer releases ends its registration next.
SemNotify(t) ==
  /\ pc[t] = "semNotify"
  /\ semList' = IF released[t] = 1 /\ semList # <<>> THEN Tail(semList) ELSE <<>>
  /\ signals' = [u \in Lockers |-> IF u \in Notified(t) THEN signals[u] \cup {"kNotify"} ELSE signals[u]]
  /\ Goto(t, IF released[t] = 1 THEN "idle" ELSE "drop")
  /\ released' = [released EXCEPT ![t] = IF @ = kWriterLock - 1 THEN @ ELSE 0]
  /\ UNCHANGED <<acquired, writers, cvVars, callVars>>

----------------------------------------------------------------------------
(* UnregisterWriter() *)

\* A writer that kept one permit is a reader after it.
After(w) == IF released[w] = kWriterLock - 1 THEN "shared" ELSE "idle"

\* Mutant: the mutex is not passed through.
DropNoBarrier(w) ==
  /\ pc[w] = "drop"
  /\ writers' = writers - 1
  /\ Goto(w, IF writers = 1 THEN "broadcast" ELSE After(w))
  /\ UNCHANGED <<semVars, cvVars, callVars, signals, released>>

DropWriter(w) ==
  /\ pc[w] = "drop"
  /\ writers' = writers - 1
  /\ Goto(w, IF writers = 1 THEN "barrier" ELSE After(w))
  /\ UNCHANGED <<semVars, cvVars, callVars, signals, released>>

\* The empty critical section: no reader is between its predicate and its wait.
PassMutex(w) ==
  /\ pc[w] = "barrier"
  /\ cvOwner = NoTask
  /\ Goto(w, "broadcast")
  /\ UNCHANGED <<semVars, writers, cvVars, callVars, signals, released>>

NotifyReaders(w) ==
  /\ pc[w] = "broadcast"
  /\ signals' = [t \in Lockers |-> IF t \in cvList THEN signals[t] \cup {"kNotify"} ELSE signals[t]]
  /\ cvList' = {}
  /\ Goto(w, After(w))
  /\ UNCHANGED <<semVars, writers, cvOwner, callVars, released>>

----------------------------------------------------------------------------

DeadlineTimer(t) ==
  /\ pc[t] \in {"asleep", "cvAsleep"}
  /\ timed[t]
  /\ signals' = [signals EXCEPT ![t] = @ \cup {"kDeadlineTimer"}]
  /\ UNCHANGED <<semVars, writers, cvVars, callVars, released, pc>>

RequestCancel(t) ==
  /\ ~cancelled[t]
  /\ pc[t] # "idle"
  /\ cancelled' = [cancelled EXCEPT ![t] = TRUE]
  /\ signals' = IF pc[t] \in {"cvAppend", "cvAsleep"} THEN [signals EXCEPT ![t] = @ \cup {"kCancelRequest"}] ELSE signals
  /\ UNCHANGED <<semVars, writers, cvVars, timed, released, pc>>

Begin(t) == TryLockUntil(t) \/ LockShared(t) \/ (pc[t] = "idle" /\ TryLockShared(t))

Step(t) ==
  \/ (pc[t] = "tryShared" /\ TryLockShared(t))
  \/ CvLock(t) \/ Predicate(t) \/ CvAppend(t) \/ CvResume(t) \/ SemTry(t) \/ SemResume(t)
  \/ Unlock(t) \/ UnlockDowngraded(t) \/ UnlockAndLockShared(t) \/ SemNotify(t)
  \/ DropWriter(t) \/ PassMutex(t) \/ NotifyReaders(t)

Next == \E t \in Lockers : Begin(t) \/ Step(t) \/ DeadlineTimer(t) \/ RequestCancel(t)

Spec == Init /\ [][Next]_vars

\* The engine runs every task, and who is inside leaves in the end. Nobody has to
\* call, and readers may go on calling for ever.
Fairness == \A t \in Lockers : WF_vars(Step(t))

----------------------------------------------------------------------------
(* Properties *)

\* Every variable has its type.
TypeOK ==
  /\ acquired \in 0 .. kWriterLock
  /\ semList \in Seq(Lockers)
  /\ writers \in 0 .. Cardinality(Writers)
  /\ cvOwner \in Lockers \cup {NoTask}
  /\ cvList \subseteq Readers
  /\ signals \in [Lockers -> SUBSET {"kNotify", "kDeadlineTimer", "kCancelRequest"}]
  /\ timed \in [Lockers -> BOOLEAN]
  /\ cancelled \in [Lockers -> BOOLEAN]
  /\ released \in [Lockers -> {0, 1, kWriterLock - 1, kWriterLock}]
  /\ pc \in [Lockers -> Pcs]

\* Downgrading is the one time a writer is inside together with others.
InShared(t) ==
  \/ pc[t] = "shared"
  \/ pc[t] \in {"semNotify", "drop", "barrier", "broadcast"} /\ released[t] = kWriterLock - 1

\* A writer inside is alone, also while another one turns itself into a reader,
\* and the permits are those of the tasks inside.
WriterIsAlone ==
  /\ \A w \in Writers : pc[w] = "exclusive" => \A t \in Lockers \ {w} : pc[t] # "exclusive" /\ ~InShared(t)
  /\ acquired = IF \E w \in Writers : pc[w] = "exclusive" THEN kWriterLock
                ELSE Cardinality({t \in Lockers : InShared(t)})

\* Nobody sleeps in the semaphore beside the permits it needs unless a notifier is
\* on its way or a notified task is about to take them, though readers notify
\* one waiter only and both kinds wait in one list.
NoLostWakeup ==
  \A t \in Lockers : (pc[t] = "asleep" /\ signals[t] = {} /\ acquired <= kWriterLock - Need(t)) =>
    \E u \in Lockers : pc[u] = "semNotify" \/ pc[u] = "try" \/ (pc[u] = "asleep" /\ "kNotify" \in signals[u])

\* No reader waits for writers when there is none, unless the last one is about to
\* notify: the count changes outside of the mutex that the predicate is read under.
NoForgottenReader ==
  \A r \in Readers : (r \in cvList /\ signals[r] = {} /\ writers = 0) =>
    \E w \in Writers : pc[w] \in {"barrier", "broadcast"}
=============================================================================
