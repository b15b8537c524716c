--------------------------- MODULE WaitAllChecked ---------------------------
(***************************************************************************)
(* WaitAllChecked(): a consumer waits until all its targets are ready, or    *)
(* one of them has failed. Each target notifies through a node of its own;   *)
(* the nodes share a counter, the index of the first failed target and an    *)
(* auto-reset event (SingleConsumerEvent, a Boolean here), in an object that *)
(* is counted by references.                                                 *)
(***************************************************************************)
EXTENDS Integers, FiniteSets

CONSTANT Size     \* the number of targets

SizeAssumption == Size \in Nat \ {0}

VARIABLES
  outcome,      \* per target: "empty", or what it will end with
  ready,        \* per target: it has ended
  linked,       \* per target: its node is in its wait list
  stage,        \* per node: what NotifyAndDispose() does next
  wakes,        \* per node: the local `ready` of HandleNotification()
  pending,      \* pending_notifications_
  source,       \* exception_source_index_
  event,        \* result_ready_
  refs,         \* the reference counter of Impl
  subscribed,   \* per node: the field
  index,        \* next_subscription_index_, then the node Unsubscribe() looks at
  pc,
  status        \* what WaitUntil() ends with

sharedVars == <<pending, source, event, refs>>
nodeVars == <<ready, linked, stage, wakes>>
vars == <<outcome, nodeVars, sharedVars, subscribed, index, pc, status>>

Targets == 1 .. Size
kNoExceptionSource == 0

Init ==
  /\ outcome \in [Targets -> {"empty", "value", "error"}]
  /\ ready \in {r \in [Targets -> BOOLEAN] : \A t \in Targets : r[t] => outcome[t] # "empty"}
  /\ linked = [t \in Targets |-> FALSE]
  /\ stage = [t \in Targets |-> "none"]
  /\ wakes = [t \in Targets |-> FALSE]
  /\ pending = 0
  /\ source = kNoExceptionSource
  /\ event = FALSE
  /\ refs = 1
  /\ subscribed = [t \in Targets |-> FALSE]
  /\ index = 1
  /\ pc = "subscribe"
  /\ status = "none"

----------------------------------------------------------------------------
(* The consumer *)

\* An empty target is skipped; a node is counted, and Impl referenced, before it
\* is appended.
AcquireNode ==
  /\ pc = "subscribe"
  /\ index <= Size
  /\ \/ /\ outcome[index] = "empty"
        /\ index' = index + 1
        /\ UNCHANGED <<pc, pending, refs>>
     \/ /\ outcome[index] # "empty"
        /\ pending' = pending + 1
        /\ refs' = refs + 1
        /\ pc' = "append"
        /\ UNCHANGED index
  /\ UNCHANGED <<outcome, nodeVars, source, event, subscribed, status>>

\* A missed notification is delivered in place.
TryAppendAwaiter ==
  /\ pc = "append"
  /\ \/ /\ ready[index]
        /\ stage' = [stage EXCEPT ![index] = "exception"]
        /\ pc' = "inPlace"
        /\ UNCHANGED <<linked, subscribed, index>>
     \/ /\ ~ready[index]
        /\ linked' = [linked EXCEPT ![index] = TRUE]
        /\ subscribed' = [subscribed EXCEPT ![index] = TRUE]
        /\ index' = index + 1
        /\ pc' = "subscribe"
        /\ UNCHANGED stage
  /\ UNCHANGED <<outcome, ready, wakes, sharedVars, status>>

DeliveredInPlace ==
  /\ pc = "inPlace"
  /\ stage[index] = "none"
  /\ index' = index + 1
  /\ pc' = "subscribe"
  /\ UNCHANGED <<outcome, nodeVars, sharedVars, subscribed, status>>

AllSubscribed ==
  /\ pc = "subscribe"
  /\ index > Size
  /\ pc' = "loadSource"
  /\ UNCHANGED <<outcome, nodeVars, sharedVars, subscribed, index, status>>

\* The predicate of the wait: two loads.
LoadSource ==
  /\ pc = "loadSource"
  /\ pc' = IF source # kNoExceptionSource THEN "exchange" ELSE "loadPending"
  /\ UNCHANGED <<outcome, nodeVars, sharedVars, subscribed, index, status>>

LoadPending ==
  /\ pc = "loadPending"
  /\ pc' = IF pending = 0 THEN "exchange" ELSE "wait"
  /\ UNCHANGED <<outcome, nodeVars, sharedVars, subscribed, index, status>>

EventReady ==
  /\ pc = "wait"
  /\ event
  /\ event' = FALSE
  /\ pc' = "loadSource"
  /\ UNCHANGED <<outcome, nodeVars, pending, source, refs, subscribed, index, status>>

GiveUp ==
  /\ pc = "wait"
  /\ status' \in {"kTimeout", "kCancelled"}
  /\ pc' = "unsubscribe"
  /\ index' = 1
  /\ UNCHANGED <<outcome, nodeVars, sharedVars, subscribed>>

ExchangeSource ==
  /\ pc = "exchange"
  /\ source' = kNoExceptionSource
  /\ status' = IF source # kNoExceptionSource THEN "rethrown" ELSE "kReady"
  /\ pc' = "unsubscribe"
  /\ index' = 1
  /\ UNCHANGED <<outcome, nodeVars, pending, event, refs, subscribed>>

\* RemoveAwaiter() gives the node back only while it is linked.
Unsubscribe ==
  /\ pc = "unsubscribe"
  /\ index <= Size
  /\ index' = index + 1
  /\ linked' = [linked EXCEPT ![index] = FALSE]
  /\ refs' = IF linked[index] THEN refs - 1 ELSE refs
  /\ subscribed' = [subscribed EXCEPT ![index] = FALSE]
  /\ UNCHANGED <<outcome, ready, stage, wakes, pending, source, event, pc, status>>

ReleaseImpl ==
  /\ pc = "unsubscribe"
  /\ index > Size
  /\ refs' = refs - 1
  /\ pc' = "gone"
  /\ UNCHANGED <<outcome, nodeVars, pending, source, event, subscribed, index, status>>

----------------------------------------------------------------------------
(* NotifyAndDispose() of a node, by the target's thread or in place *)

Finish(t) ==
  /\ ~ready[t]
  /\ outcome[t] # "empty"
  /\ ready' = [ready EXCEPT ![t] = TRUE]
  /\ linked' = [linked EXCEPT ![t] = FALSE]
  /\ stage' = [stage EXCEPT ![t] = IF linked[t] THEN "exception" ELSE "none"]
  /\ UNCHANGED <<outcome, wakes, sharedVars, subscribed, index, pc, status>>

\* The first failed target wins the compare-and-exchange.
SetSource(t) ==
  /\ stage[t] = "exception"
  /\ LET first == outcome[t] = "error" /\ source = kNoExceptionSource IN
     /\ source' = IF first THEN t ELSE source
     /\ wakes' = [wakes EXCEPT ![t] = first]
  /\ stage' = [stage EXCEPT ![t] = "count"]
  /\ UNCHANGED <<outcome, ready, linked, pending, event, refs, subscribed, index, pc, status>>

CountDown(t) ==
  /\ stage[t] = "count"
  /\ pending' = pending - 1
  /\ stage' = [stage EXCEPT ![t] = IF wakes[t] \/ pending = 1 THEN "send" ELSE "release"]
  /\ UNCHANGED <<outcome, ready, linked, wakes, source, event, refs, subscribed, index, pc, status>>

Send(t) ==
  /\ stage[t] = "send"
  /\ event' = TRUE
  /\ stage' = [stage EXCEPT ![t] = "release"]
  /\ UNCHANGED <<outcome, ready, linked, wakes, pending, source, refs, subscribed, index, pc, status>>

Release(t) ==
  /\ stage[t] = "release"
  /\ refs' = refs - 1
  /\ stage' = [stage EXCEPT ![t] = "none"]
  /\ UNCHANGED <<outcome, ready, linked, wakes, pending, source, event, subscribed, index, pc, status>>

----------------------------------------------------------------------------

ConsumerStep ==
  \/ AcquireNode \/ TryAppendAwaiter \/ DeliveredInPlace \/ AllSubscribed
  \/ LoadSource \/ LoadPending \/ EventReady \/ ExchangeSource \/ Unsubscribe \/ ReleaseImpl

NotifyAndDispose(t) == SetSource(t) \/ CountDown(t) \/ Send(t) \/ Release(t)

Next == ConsumerStep \/ GiveUp \/ \E t \in Targets : Finish(t) \/ NotifyAndDispose(t)

Spec == Init /\ [][Next]_vars

\* The consumer is run when it is ready, and a notification that began ends. Nobody
\* promises that a target ends.
Fairness == WF_vars(ConsumerStep) /\ \A t \in Targets : WF_vars(NotifyAndDispose(t))

----------------------------------------------------------------------------
(* Properties *)

\* Every variable has its type.
TypeOK ==
  /\ outcome \in [Targets -> {"empty", "value", "error"}]
  /\ ready \in [Targets -> BOOLEAN]
  /\ linked \in [Targets -> BOOLEAN]
  /\ stage \in [Targets -> {"none", "exception", "count", "send", "release"}]
  /\ wakes \in [Targets -> BOOLEAN]
  /\ pending \in 0 .. Size
  /\ source \in {kNoExceptionSource} \cup Targets
  /\ event \in BOOLEAN
  /\ refs \in 0 .. Size + 1
  /\ subscribed \in [Targets -> BOOLEAN]
  /\ index \in 1 .. Size + 1
  /\ pc \in {"subscribe", "append", "inPlace", "loadSource", "loadPending", "wait", "exchange", "unsubscribe", "gone"}
  /\ status \in {"none", "kReady", "kTimeout", "kCancelled", "rethrown"}

\* WaitUntil() returns kReady only when every target has ended with a value, though
\* it looks at the failed target and at the counter in two loads. This is also why
\* RethrowError() always finds something to throw.
ReadyMeansAllSucceeded ==
  /\ status = "kReady" => \A t \in Targets : outcome[t] # "empty" => ready[t] /\ outcome[t] = "value"
  /\ source # kNoExceptionSource => ready[source] /\ outcome[source] = "error"

\* The consumer sleeps on a clear event only if nothing has failed and something is
\* pending, or a notifier is about to signal.
NoLostWakeup ==
  (pc = "wait" /\ ~event /\ (source # kNoExceptionSource \/ pending = 0))
    => \E t \in Targets : stage[t] = "send" \/ (stage[t] = "count" /\ wakes[t])

\* Impl is referenced by the context and by every node that is subscribed and not
\* yet disposed of: never freed under a notifier, never leaked.
RefsExact ==
  refs = (IF pc = "gone" THEN 0 ELSE 1)
         + (IF pc = "append" THEN 1 ELSE 0)
         + Cardinality({t \in Targets : linked[t] \/ stage[t] # "none"})

\* What ends the call: a failed target, or the last one that had to end.
SomeFailed == \E t \in Targets : ready[t] /\ outcome[t] = "error"
AllEnded == \A t \in Targets : ready[t] \/ outcome[t] = "empty"
=============================================================================
