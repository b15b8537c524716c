------------------------- MODULE ConditionVariable -------------------------
(***************************************************************************)
(* engine::ConditionVariable (impl::ConditionVariableAny) as a queue uses   *)
(* it: producers add an item under the mutex and notify after they have     *)
(* released it, consumers WaitUntil() there is one. The mutex is an atomic  *)
(* owner (see module Mutex), the WaitList a sequence under its own lock     *)
(* (module Mutex again), and tasks sleep as TaskLife says.                  *)
(***************************************************************************)
EXTENDS Integers, Sequences, FiniteSets

CONSTANTS
  Consumers,
  Producers,
  NoTask,
  MaxItems,     \* bound: items per producer
  MaxWaits      \* bound: calls of WaitUntil() per consumer

CvAssumption ==
  /\ Consumers \cap Producers = {}
  /\ NoTask \notin Consumers \cup Producers
  /\ IsFiniteSet(Consumers \cup Producers)
  /\ MaxItems \in Nat
  /\ MaxWaits \in Nat

VARIABLES
  owner,        \* of the mutex
  items,        \* the state that the predicate looks at
  list,         \* awaiters_
  sleepies,     \* sleepies_ of awaiters_
  signals,      \* per consumer: what its present sleep has received
  timed,        \* per consumer: the deadline is reachable
  cancelled,    \* per consumer: cancellation was requested
  status,       \* per consumer: CvStatus
  calls,        \* per task: calls so far
  pc            \* per task: where it is

vars == <<owner, items, list, sleepies, signals, timed, cancelled, status, calls, pc>>

Users == Consumers \cup Producers
Pcs == {"idle", "lock", "predicate", "count", "sleep", "append", "release", "suspend", "asleep", "remove",
        "slept", "relock", "unlock", "check", "notify"}

Goto(t, l) == pc' = [pc EXCEPT ![t] = l]

Init ==
  /\ owner = NoTask
  /\ items = 0
  /\ list = <<>>
  /\ sleepies = 0
  /\ signals = [c \in Consumers |-> {}]
  /\ timed = [c \in Consumers |-> FALSE]
  /\ cancelled = [c \in Consumers |-> FALSE]
  /\ status = [c \in Consumers |-> "kNoTimeout"]
  /\ calls = [t \in Users |-> 0]
  /\ pc = [t \in Users |-> "idle"]

----------------------------------------------------------------------------
(* A consumer *)

Begin(c) ==
  /\ pc[c] = "idle"
  /\ calls[c] < MaxWaits
  /\ calls' = [calls EXCEPT ![c] = @ + 1]
  /\ \E dl \in BOOLEAN : timed' = [timed EXCEPT ![c] = dl]
  /\ status' = [status EXCEPT ![c] = "kNoTimeout"]
  /\ Goto(c, "lock")
  /\ UNCHANGED <<owner, items, list, sleepies, signals, cancelled>>

\* The caller's lock, and lock.lock() after the sleep, which it already owns
\* when the sleep ended at once.
Lock(t) ==
  /\ pc[t] \in {"lock", "relock"}
  /\ owner \in {NoTask, t}
  /\ owner' = t
  /\ Goto(t, "predicate")
  /\ UNCHANGED <<items, list, sleepies, signals, timed, cancelled, status, calls>>

\* The loop over the predicate. A true predicate ends it whatever the status;
\* WaitUntil() returns kTimeout without sleeping if the deadline is reached.
Predicate(c) ==
  /\ pc[c] = "predicate"
  /\ c \in Consumers
  /\ \/ items > 0 /\ items' = items - 1 /\ Goto(c, "unlock") /\ UNCHANGED status
     \/ items = 0 /\ status[c] = "kNoTimeout" /\ Goto(c, "count") /\ UNCHANGED <<items, status>>
     \/ /\ items = 0 /\ status[c] = "kNoTimeout" /\ timed[c]
        /\ status' = [status EXCEPT ![c] = "kTimeout"] /\ Goto(c, "predicate") /\ UNCHANGED items
     \/ items = 0 /\ status[c] # "kNoTimeout" /\ Goto(c, "unlock") /\ UNCHANGED <<items, status>>
  /\ UNCHANGED <<owner, list, sleepies, signals, timed, cancelled, calls>>

\* The awaitable is made, and counts its awaiter.
CountSleepy(c) ==
  /\ pc[c] = "count"
  /\ sleepies' = sleepies + 1
  /\ Goto(c, "sleep")
  /\ UNCHANGED <<owner, items, list, signals, timed, cancelled, status, calls>>

BeginSleep(c) ==
  /\ pc[c] = "sleep"
  /\ \/ /\ cancelled[c]
        /\ signals' = [signals EXCEPT ![c] = {"kCancelRequest"}]
        /\ Goto(c, "slept")
     \/ ~cancelled[c] /\ signals' = [signals EXCEPT ![c] = {}] /\ Goto(c, "append")
  /\ UNCHANGED <<owner, items, list, sleepies, timed, cancelled, status, calls>>

\* TryAppendAwaiter(): into the list, and then out of the mutex.
AppendThenRelease(c) ==
  /\ pc[c] \in {"append", "release"}
  /\ \/ pc[c] = "append" /\ list' = Append(list, c) /\ Goto(c, "release") /\ UNCHANGED owner
     \/ pc[c] = "release" /\ owner' = NoTask /\ Goto(c, "suspend") /\ UNCHANGED list
  /\ UNCHANGED <<items, sleepies, signals, timed, cancelled, status, calls>>

Suspend(c) ==
  /\ pc[c] = "suspend"
  /\ Goto(c, IF signals[c] = {} THEN "asleep" ELSE "remove")
  /\ UNCHANGED <<owner, items, list, sleepies, signals, timed, cancelled, status, calls>>

Resume(c) ==
  /\ pc[c] = "asleep"
  /\ signals[c] # {}
  /\ Goto(c, "remove")
  /\ UNCHANGED <<owner, items, list, sleepies, signals, timed, cancelled, status, calls>>

\* Mutant: a consumer that timed out leaves its awaiter behind.
RemoveNothing(c) ==
  /\ pc[c] = "remove"
  /\ Goto(c, "slept")
  /\ UNCHANGED <<owner, items, list, sleepies, signals, timed, cancelled, status, calls>>

\* The list without its entry at i: WaitList::Remove().
Unlinked(s, i) == [j \in 1 .. Len(s) - 1 |-> s[IF j < i THEN j ELSE j + 1]]

RemoveAwaiter(c) ==
  /\ pc[c] = "remove"
  /\ \/ \E i \in 1 .. Len(list) : list[i] = c /\ list' = Unlinked(list, i)
     \/ (\A i \in 1 .. Len(list) : list[i] # c) /\ UNCHANGED list
  /\ Goto(c, "slept")
  /\ UNCHANGED <<owner, items, sleepies, signals, timed, cancelled, status, calls>>

\* Sleep() returns, kNotify first; the awaitable is destroyed.
AfterSleep(c) ==
  /\ pc[c] = "slept"
  /\ status' = [status EXCEPT ![c] =
       IF "kNotify" \in signals[c] THEN "kNoTimeout"
       ELSE IF "kDeadlineTimer" \in signals[c] THEN "kTimeout" ELSE "kCancelled"]
  /\ sleepies' = sleepies - 1
  /\ Goto(c, "relock")
  /\ UNCHANGED <<owner, items, list, signals, timed, cancelled, calls>>

DeadlineTimer(c) ==
  /\ pc[c] \in {"suspend", "asleep", "remove", "slept"}
  /\ timed[c]
  /\ "kDeadlineTimer" \notin signals[c]
  /\ signals' = [signals EXCEPT ![c] = @ \cup {"kDeadlineTimer"}]
  /\ UNCHANGED <<owner, items, list, sleepies, timed, cancelled, status, calls, pc>>

RequestCancel(c) ==
  /\ ~cancelled[c]
  /\ cancelled' = [cancelled EXCEPT ![c] = TRUE]
  /\ signals' = [signals EXCEPT ![c] = @ \cup {"kCancelRequest"}]
  /\ UNCHANGED <<owner, items, list, sleepies, timed, status, calls, pc>>

----------------------------------------------------------------------------
(* A producer *)

BeginProduce(p) ==
  /\ pc[p] = "idle"
  /\ calls[p] < MaxItems
  /\ calls' = [calls EXCEPT ![p] = @ + 1]
  /\ Goto(p, "lock")
  /\ UNCHANGED <<owner, items, list, sleepies, signals, timed, cancelled, status>>

Produce(p) ==
  /\ pc[p] = "predicate"
  /\ p \in Producers
  /\ items' = items + 1
  /\ Goto(p, "unlock")
  /\ UNCHANGED <<owner, list, sleepies, signals, timed, cancelled, status, calls>>

Unlock(t) ==
  /\ pc[t] = "unlock"
  /\ owner' = NoTask
  /\ Goto(t, IF t \in Producers THEN "check" ELSE "idle")
  /\ UNCHANGED <<items, list, sleepies, signals, timed, cancelled, status, calls>>

GetCountOfSleepies(p) ==
  /\ pc[p] = "check"
  /\ Goto(p, IF sleepies > 0 THEN "notify" ELSE "idle")
  /\ UNCHANGED <<owner, items, list, sleepies, signals, timed, cancelled, status, calls>>

NotifyOne(p) ==
  /\ pc[p] = "notify"
  /\ \/ list = <<>> /\ UNCHANGED <<list, signals>>
     \/ /\ list # <<>>
        /\ list' = Tail(list)
        /\ signals' = [signals EXCEPT ![Head(list)] = @ \cup {"kNotify"}]
  /\ Goto(p, "idle")
  /\ UNCHANGED <<owner, items, sleepies, timed, cancelled, status, calls>>

NotifyAll(p) ==
  /\ pc[p] = "notify"
  /\ list' = <<>>
  /\ signals' = [c \in Consumers |->
       IF \E i \in DOMAIN list : list[i] = c THEN signals[c] \cup {"kNotify"} ELSE signals[c]]
  /\ Goto(p, "idle")
  /\ UNCHANGED <<owner, items, sleepies, timed, cancelled, status, calls>>

----------------------------------------------------------------------------

ConsumerStep(c) ==
  \/ Lock(c) \/ Predicate(c) \/ CountSleepy(c) \/ BeginSleep(c) \/ AppendThenRelease(c) \/ Suspend(c)
  \/ Resume(c) \/ RemoveAwaiter(c) \/ AfterSleep(c) \/ Unlock(c)

ProducerStep(p) ==
  Lock(p) \/ Produce(p) \/ Unlock(p) \/ GetCountOfSleepies(p) \/ NotifyOne(p) \/ NotifyAll(p)

Next ==
  \/ \E c \in Consumers : Begin(c) \/ ConsumerStep(c) \/ DeadlineTimer(c) \/ RequestCancel(c)
  \/ \E p \in Producers : BeginProduce(p) \/ ProducerStep(p)

Spec == Init /\ [][Next]_vars

\* The engine runs every task. The mutex is fair enough for each to get it: once
\* a call of Begin() is over there is nobody to take it for ever.
Fairness ==
  /\ \A c \in Consumers : WF_vars(ConsumerStep(c))
  /\ \A p \in Producers : WF_vars(ProducerStep(p))

----------------------------------------------------------------------------
(* Properties *)

\* Every variable has its type.
TypeOK ==
  /\ owner \in Users \cup {NoTask}
  /\ items \in Nat
  /\ list \in Seq(Consumers)
  /\ sleepies \in Nat
  /\ signals \in [Consumers -> SUBSET {"kNotify", "kDeadlineTimer", "kCancelRequest"}]
  /\ timed \in [Consumers -> BOOLEAN]
  /\ cancelled \in [Consumers -> BOOLEAN]
  /\ status \in [Consumers -> {"kNoTimeout", "kTimeout", "kCancelled"}]
  /\ calls \in [Users -> Nat]
  /\ pc \in [Users -> Pcs]

\* The predicate and the caller's code run under the mutex: WaitUntil() returns
\* with the lock, also when the sleep was cancelled before it released it.
UnderMutex ==
  \A t \in Users : pc[t] \in {"predicate", "count", "sleep", "append", "unlock"} => owner = t

\* A task that will still look at the predicate, or notify somebody who will.
WillLook(t) ==
  \/ t \in Producers /\ pc[t] \in {"unlock", "check", "notify"}
  \/ t \in Consumers /\ pc[t] \in {"predicate", "remove", "slept", "relock"}
  \/ t \in Consumers /\ pc[t] \in {"release", "suspend", "asleep"} /\ signals[t] # {}

\* While somebody sleeps in the list, every item has a task that will look at the
\* predicate: the unlocked look at sleepies_, a deadline and a cancellation that
\* race a notification leave no item beside a sleeping consumer.
EveryItemHasTaker ==
  (\E i \in DOMAIN list : pc[list[i]] \in {"suspend", "asleep"} /\ signals[list[i]] = {}) =>
    items <= Cardinality({t \in Users : WillLook(t)})
=============================================================================
