------------------------------ MODULE WaitAny ------------------------------
(***************************************************************************)
(* WaitAnyContext: a consumer waits for whichever of a growing set of       *)
(* awaitables is ready first. Every subscription is a QueueItem linked into *)
(* the wait list of its awaitable; the thread that makes the awaitable      *)
(* ready moves the item to the queue of notified items and signals the      *)
(* consumer's event. Items are recycled, and Impl is counted by references. *)
(* The event is a Boolean (see SingleConsumerEvent), the intrusive queue a  *)
(* sequence.                                                                *)
(***************************************************************************)
EXTENDS Integers, Sequences, SequencesExt, FiniteSets

CONSTANTS
  Awaitables,
  MaxAppends,     \* bound: calls of Append()
  MaxWaits        \* bound: calls of WaitUntil()

WaitAnyAssumption ==
  /\ MaxAppends \in Nat \ {0}
  /\ MaxWaits \in Nat
  /\ IsFiniteSet(Awaitables)

VARIABLES
  linked,       \* per awaitable: the item in its wait list, NoItem, or kSignaled
  taken,        \* per awaitable: the item its notifier has taken out of the list
  stage,        \* per awaitable: what its notifier does next
  awaitable,    \* the items of queue_items_, each with the awaitable it is for
  subscribed,   \* per item: the field
  pending,      \* pending_subscription_, front first
  unused,       \* unused_, front first
  notified,     \* the queue of notified items
  count,        \* subscribed_count_
  refs,         \* the reference counter of Impl
  event,        \* queue_non_empty_
  pc,           \* where the consumer is
  next,         \* the item Unsubscribe() looks at
  waits,        \* calls of WaitUntil() so far
  appended,     \* per awaitable: appends so far
  reported      \* per awaitable: appends WaitUntil() has reported

itemVars == <<awaitable, subscribed, pending, unused>>
notifierVars == <<linked, taken, stage>>
ghostVars == <<waits, appended, reported>>
vars == <<itemVars, notifierVars, notified, count, refs, event, pc, next, ghostVars>>

NoItem == 0
kSignaled == -1
Items == 1 .. MaxAppends
Stages == {"none", "push", "send", "release"}

Init ==
  /\ linked = [a \in Awaitables |-> NoItem]
  /\ taken = [a \in Awaitables |-> NoItem]
  /\ stage = [a \in Awaitables |-> "none"]
  /\ awaitable = <<>>
  /\ subscribed = [i \in Items |-> FALSE]
  /\ pending = <<>> /\ unused = <<>> /\ notified = <<>>
  /\ count = 0
  /\ refs = 1
  /\ event = FALSE
  /\ pc = "idle"
  /\ next = 1
  /\ waits = 0
  /\ appended = [a \in Awaitables |-> 0]
  /\ reported = [a \in Awaitables |-> 0]

----------------------------------------------------------------------------
(* The consumer *)

Total(f) == FoldFunction(+, 0, f)

\* An awaitable is in the context once at a time.
AppendToken(a) ==
  /\ pc = "idle"
  /\ Total(appended) < MaxAppends
  /\ appended[a] = reported[a]
  /\ appended' = [appended EXCEPT ![a] = @ + 1]
  /\ \/ /\ unused = <<>>
        /\ awaitable' = Append(awaitable, a)
        /\ pending' = <<Len(awaitable) + 1>> \o pending
        /\ UNCHANGED unused
     \/ /\ unused # <<>>
        /\ unused' = Tail(unused)
        /\ awaitable' = [awaitable EXCEPT ![Head(unused)] = a]
        /\ pending' = <<Head(unused)>> \o pending
  /\ UNCHANGED <<subscribed, notifierVars, notified, count, refs, event, pc, next, waits, reported>>

WaitUntil ==
  /\ pc = "idle"
  /\ waits < MaxWaits
  /\ waits' = waits + 1
  /\ pc' = "reset"
  /\ UNCHANGED <<itemVars, notifierVars, notified, count, refs, event, next, appended, reported>>

ResetEvent ==
  /\ pc = "reset"
  /\ event' = FALSE
  /\ pc' = IF count # 0 THEN "process" ELSE "subscribe"
  /\ UNCHANGED <<itemVars, notifierVars, notified, count, refs, next, ghostVars>>

Return(i) == reported' = [reported EXCEPT ![awaitable[i]] = @ + 1]

ProcessNotified(i) ==
  /\ subscribed' = [subscribed EXCEPT ![i] = FALSE]
  /\ count' = count - 1
  /\ unused' = <<i>> \o unused

TryProcessQueue ==
  /\ pc = "process"
  /\ \/ /\ notified = <<>>
        /\ pc' = "subscribe"
        /\ UNCHANGED <<notified, subscribed, count, unused, reported>>
     \/ /\ notified # <<>>
        /\ notified' = Tail(notified)
        /\ ProcessNotified(Head(notified))
        /\ Return(Head(notified))
        /\ pc' = "idle"
  /\ UNCHANGED <<awaitable, pending, notifierVars, refs, event, next, waits, appended>>

\* One turn of TrySubscribe(): the reference taken in advance is given back when
\* the awaitable is ready already. The rest of the turn is the consumer's own state.
TrySubscribe ==
  /\ pc = "subscribe"
  /\ pending # <<>>
  /\ LET i == Head(pending) IN
     /\ pending' = Tail(pending)
     /\ \/ /\ linked[awaitable[i]] = kSignaled
           /\ unused' = <<i>> \o unused
           /\ Return(i)
           /\ pc' = "idle"
           /\ UNCHANGED <<linked, refs, subscribed, count>>
        \/ /\ linked[awaitable[i]] = NoItem
           /\ linked' = [linked EXCEPT ![awaitable[i]] = i]
           /\ refs' = refs + 1
           /\ subscribed' = [subscribed EXCEPT ![i] = TRUE]
           /\ count' = count + 1
           /\ UNCHANGED <<unused, pc, reported>>
  /\ UNCHANGED <<awaitable, taken, stage, notified, event, next, waits, appended>>

\* Mutant: the event is reset after the queue was looked at.
ResetWhenSubscribed ==
  /\ pc = "subscribe"
  /\ pending = <<>>
  /\ event' = FALSE
  /\ pc' = IF count = 0 THEN "idle" ELSE "wait"
  /\ UNCHANGED <<itemVars, notifierVars, notified, count, refs, next, ghostVars>>

\* Everything is subscribed: kEmpty, or wait for the event.
AllSubscribed ==
  /\ pc = "subscribe"
  /\ pending = <<>>
  /\ pc' = IF count = 0 THEN "idle" ELSE "wait"
  /\ UNCHANGED <<itemVars, notifierVars, notified, count, refs, event, next, ghostVars>>

EventReady ==
  /\ pc = "wait"
  /\ event
  /\ pc' = "reset"
  /\ UNCHANGED <<itemVars, notifierVars, notified, count, refs, event, next, ghostVars>>

\* kTimeout or kCancelled: the subscriptions stay for the next call.
GiveUp ==
  /\ pc = "wait"
  /\ pc' = "idle"
  /\ UNCHANGED <<itemVars, notifierVars, notified, count, refs, event, next, ghostVars>>

----------------------------------------------------------------------------
(* The destructor *)

Destroy ==
  /\ pc = "idle"
  /\ pending' = <<>>
  /\ unused' = <<>>
  /\ pc' = "unsubscribe"
  /\ UNCHANGED <<awaitable, subscribed, notifierVars, notified, count, refs, event, next, ghostVars>>

\* RemoveAwaiter() returns null for an item its notifier has taken.
Unsubscribe ==
  /\ pc = "unsubscribe"
  /\ count # 0
  /\ next' = next + 1
  /\ IF subscribed[next]
       THEN /\ count' = count - 1
            /\ linked' = [linked EXCEPT ![awaitable[next]] = IF @ = next THEN NoItem ELSE @]
            /\ refs' = IF linked[awaitable[next]] = next THEN refs - 1 ELSE refs
       ELSE UNCHANGED <<count, linked, refs>>
  /\ UNCHANGED <<itemVars, taken, stage, notified, event, pc, ghostVars>>

ReleaseImpl ==
  /\ pc = "unsubscribe"
  /\ count = 0
  /\ refs' = refs - 1
  /\ pc' = "gone"
  /\ UNCHANGED <<itemVars, notifierVars, notified, count, event, next, ghostVars>>

----------------------------------------------------------------------------
(* The thread that makes an awaitable ready: NotifyAndDispose() *)

SetSignal(a) ==
  /\ linked[a] # kSignaled
  /\ linked' = [linked EXCEPT ![a] = kSignaled]
  /\ taken' = [taken EXCEPT ![a] = linked[a]]
  /\ stage' = [stage EXCEPT ![a] = IF linked[a] = NoItem THEN "none" ELSE "push"]
  /\ UNCHANGED <<itemVars, notified, count, refs, event, pc, next, ghostVars>>

Push(a) ==
  /\ stage[a] = "push"
  /\ notified' = Append(notified, taken[a])
  /\ stage' = [stage EXCEPT ![a] = "send"]
  /\ UNCHANGED <<itemVars, linked, taken, count, refs, event, pc, next, ghostVars>>

Send(a) ==
  /\ stage[a] = "send"
  /\ event' = TRUE
  /\ stage' = [stage EXCEPT ![a] = "release"]
  /\ UNCHANGED <<itemVars, linked, taken, notified, count, refs, pc, next, ghostVars>>

Release(a) ==
  /\ stage[a] = "release"
  /\ refs' = refs - 1
  /\ stage' = [stage EXCEPT ![a] = "none"]
  /\ UNCHANGED <<itemVars, linked, taken, notified, count, event, pc, next, ghostVars>>

----------------------------------------------------------------------------

ConsumerStep == ResetEvent \/ TryProcessQueue \/ TrySubscribe \/ AllSubscribed \/ EventReady

Notify(a) == Push(a) \/ Send(a) \/ Release(a)

Next ==
  \/ ConsumerStep
  \/ WaitUntil \/ GiveUp \/ Destroy \/ Unsubscribe \/ ReleaseImpl
  \/ \E a \in Awaitables : AppendToken(a) \/ SetSignal(a) \/ Notify(a)

Spec == Init /\ [][Next]_vars

\* The consumer is run when it is ready, and a notification that began ends.
Fairness == WF_vars(ConsumerStep) /\ \A a \in Awaitables : WF_vars(Notify(a))

----------------------------------------------------------------------------
(* Properties *)

\* Every variable has its type.
TypeOK ==
  /\ linked \in [Awaitables -> {kSignaled, NoItem} \cup Items]
  /\ taken \in [Awaitables -> {NoItem} \cup Items]
  /\ stage \in [Awaitables -> Stages]
  /\ awaitable \in Seq(Awaitables)
  /\ subscribed \in [Items -> BOOLEAN]
  /\ {pending, unused, notified} \subseteq Seq(Items)
  /\ count \in 0 .. MaxAppends
  /\ refs \in 0 .. MaxAppends + 1
  /\ event \in BOOLEAN
  /\ pc \in {"idle", "reset", "process", "subscribe", "wait", "unsubscribe", "gone"}
  /\ next \in 1 .. MaxAppends + 1
  /\ waits \in 0 .. MaxWaits
  /\ appended \in [Awaitables -> 0 .. MaxAppends]
  /\ reported \in [Awaitables -> 0 .. MaxAppends]

\* ProcessNotified() asserts that the item it popped is subscribed and its awaitable
\* ready: recycling an item right after Push() never lets it be taken for another.
NotifiedAreReady ==
  \A k \in 1 .. Len(notified) :
    /\ subscribed[notified[k]]
    /\ linked[awaitable[notified[k]]] = kSignaled

\* Every append that was not reported is in exactly one place, and GetSize() counts it.
SizeExact ==
  pc \notin {"unsubscribe", "gone"} =>
    /\ count + Len(pending) = Total(appended) - Total(reported)
    /\ \A a \in Awaitables :
         Cardinality({i \in DOMAIN awaitable : awaitable[i] = a /\ (subscribed[i] \/ Contains(pending, i))})
           = appended[a] - reported[a]

\* Impl is referenced by the context and by every subscription whose item is in a
\* wait list or with a notifier: never freed under a notifier, never leaked.
RefsExact ==
  refs = (IF pc = "gone" THEN 0 ELSE 1)
         + Cardinality({a \in Awaitables : linked[a] \in Items})
         + Cardinality({a \in Awaitables : stage[a] # "none"})

\* The consumer sleeps on a clear event only while nothing waits in the queue, or
\* the thread that queued it is about to signal.
NoLostNotification ==
  (pc = "wait" /\ ~event /\ notified # <<>>) => \E a \in Awaitables : stage[a] = "send"

\* The context is subscribed to an awaitable that is ready.
SubscribedToReady == \E i \in Items : subscribed[i] /\ linked[awaitable[i]] = kSignaled
=============================================================================
