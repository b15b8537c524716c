------------------------ MODULE SingleConsumerEvent ------------------------
(***************************************************************************)
(* engine::SingleConsumerEvent over WaitListLight, the wait list of a       *)
(* single awaiter: one double word that is empty, signalled, or holds the   *)
(* awaiter with the epoch of its sleep. Tasks sleep as TaskLife says; here  *)
(* the epoch is kept, since a sender may deliver a notification to a sleep  *)
(* that is over.                                                            *)
(***************************************************************************)
EXTENDS Integers

CONSTANTS
  Senders,
  IsAutoReset,
  MaxWaits,       \* bound: calls of WaitUntil() by the consumer
  MaxSends        \* bound: calls of Send() per sender

EventAssumption ==
  /\ IsAutoReset \in BOOLEAN
  /\ MaxWaits \in Nat
  /\ MaxSends \in Nat

VARIABLES
  word,         \* state_ of awaiters: Empty, kSignaled or the epoch of the awaiter
  epoch,        \* of the consumer's sleep_state_
  signals,      \* what the present sleep has received
  timed,        \* the deadline of the call is reachable
  cancelled,    \* cancellation of the consumer was requested
  status,       \* FutureStatus of the last call
  pc,           \* where the consumer is
  carried,      \* per sender: the epoch it took out of the word, to notify
  sends,        \* per sender: calls so far
  unread        \* a Send() took effect and nothing has consumed it since

consumerVars == <<epoch, timed, status, pc>>
vars == <<word, consumerVars, signals, cancelled, carried, sends, unread>>

Empty == 0
kSignaled == -1

Pcs == {"idle", "check", "sleep", "append", "suspend", "asleep", "remove", "slept", "reset"}

Init ==
  /\ word = Empty
  /\ epoch = 0
  /\ signals = {}
  /\ timed = FALSE
  /\ cancelled = FALSE
  /\ status = "kTimeout"
  /\ pc = "idle"
  /\ carried = [s \in Senders |-> Empty]
  /\ sends = [s \in Senders |-> 0]
  /\ unread = FALSE

----------------------------------------------------------------------------
(* The consumer *)

WaitUntil ==
  /\ pc = "idle"
  /\ epoch < MaxWaits
  /\ timed' \in BOOLEAN
  /\ pc' = "check"
  /\ UNCHANGED <<word, epoch, signals, cancelled, status, carried, sends, unread>>

IsReady ==
  /\ pc = "check"
  /\ pc' = IF word = kSignaled THEN "reset" ELSE "sleep"
  /\ UNCHANGED <<word, epoch, signals, timed, cancelled, status, carried, sends, unread>>

\* Sleep() begins: the next epoch, and the fast path of a visible cancellation.
BeginSleep ==
  /\ pc = "sleep"
  /\ epoch' = epoch + 1
  /\ signals' = {}
  /\ \/ cancelled /\ status' = "kCancelled" /\ pc' = "idle"
     \/ ~cancelled /\ pc' = "append" /\ UNCHANGED status
  /\ UNCHANGED <<word, timed, cancelled, carried, sends, unread>>

\* The compare-and-exchange fails on kSignaled only, and Sleep() returns kNotify.
GetSignalOrAppend ==
  /\ pc = "append"
  /\ \/ word = Empty /\ word' = epoch /\ pc' = "suspend"
     \/ word # Empty /\ pc' = "reset" /\ UNCHANGED word
  /\ UNCHANGED <<epoch, signals, timed, cancelled, status, carried, sends, unread>>

Suspend ==
  /\ pc = "suspend"
  /\ pc' = IF signals = {} THEN "asleep" ELSE "remove"
  /\ UNCHANGED <<word, epoch, signals, timed, cancelled, status, carried, sends, unread>>

Resume ==
  /\ pc = "asleep"
  /\ signals # {}
  /\ pc' = "remove"
  /\ UNCHANGED <<word, epoch, signals, timed, cancelled, status, carried, sends, unread>>

Remove ==
  /\ pc = "remove"
  /\ word' = IF word = epoch THEN Empty ELSE word
  /\ pc' = "slept"
  /\ UNCHANGED <<epoch, signals, timed, cancelled, status, carried, sends, unread>>

\* Sleep() loads the flags after the removal: kNotify, then the deadline.
AfterSleep ==
  /\ pc = "slept"
  /\ \/ "kNotify" \in signals /\ pc' = "reset" /\ UNCHANGED status
     \/ /\ "kNotify" \notin signals
        /\ status' = IF "kDeadlineTimer" \in signals THEN "kTimeout" ELSE "kCancelled"
        /\ pc' = "idle"
  /\ UNCHANGED <<word, epoch, signals, timed, cancelled, carried, sends, unread>>

\* The call succeeds, and an auto-reset event is reset.
ResetAndReturn ==
  /\ pc = "reset"
  /\ status' = "kReady"
  /\ pc' = "idle"
  /\ word' = IF IsAutoReset /\ word = kSignaled THEN Empty ELSE word
  /\ unread' = (unread /\ ~IsAutoReset)
  /\ UNCHANGED <<epoch, signals, timed, cancelled, carried, sends>>

\* The public Reset(), between two calls.
Reset ==
  /\ pc = "idle"
  /\ word = kSignaled
  /\ word' = Empty
  /\ unread' = FALSE
  /\ UNCHANGED <<consumerVars, signals, cancelled, carried, sends>>

----------------------------------------------------------------------------
(* Senders, the timer and whoever cancels *)

SetSignalAndNotifyOne(s) ==
  /\ carried[s] = Empty
  /\ sends[s] < MaxSends
  /\ sends' = [sends EXCEPT ![s] = @ + 1]
  /\ carried' = [carried EXCEPT ![s] = IF word = kSignaled THEN Empty ELSE word]
  /\ word' = kSignaled
  /\ unread' = TRUE
  /\ UNCHANGED <<consumerVars, signals, cancelled>>

\* Wakeup(kNotify, epoch) sets the flag for its own epoch only.
DoNotify(s) ==
  /\ carried[s] # Empty
  /\ carried' = [carried EXCEPT ![s] = Empty]
  /\ signals' = IF carried[s] = epoch THEN signals \cup {"kNotify"} ELSE signals
  /\ UNCHANGED <<word, consumerVars, cancelled, sends, unread>>

DeadlineTimer ==
  /\ pc \in {"suspend", "asleep", "remove", "slept"}
  /\ timed
  /\ "kDeadlineTimer" \notin signals
  /\ signals' = signals \cup {"kDeadlineTimer"}
  /\ UNCHANGED <<word, consumerVars, cancelled, carried, sends, unread>>

RequestCancel ==
  /\ ~cancelled
  /\ cancelled' = TRUE
  /\ signals' = signals \cup {"kCancelRequest"}
  /\ UNCHANGED <<word, consumerVars, carried, sends, unread>>

----------------------------------------------------------------------------

ConsumerStep ==
  IsReady \/ BeginSleep \/ GetSignalOrAppend \/ Suspend \/ Resume \/ Remove \/ AfterSleep \/ ResetAndReturn

Next ==
  \/ WaitUntil \/ Reset \/ ConsumerStep
  \/ \E s \in Senders : SetSignalAndNotifyOne(s) \/ DoNotify(s)
  \/ DeadlineTimer \/ RequestCancel

Spec == Init /\ [][Next]_vars

\* The engine runs the consumer and finishes a Send() that has begun.
Fairness == WF_vars(ConsumerStep) /\ \A s \in Senders : WF_vars(DoNotify(s))

----------------------------------------------------------------------------
(* Properties *)

\* Every variable has its type.
TypeOK ==
  /\ word \in kSignaled .. MaxWaits
  /\ epoch \in 0 .. MaxWaits
  /\ signals \subseteq {"kNotify", "kDeadlineTimer", "kCancelRequest"}
  /\ timed \in BOOLEAN
  /\ cancelled \in BOOLEAN
  /\ status \in {"kReady", "kTimeout", "kCancelled"}
  /\ pc \in Pcs
  /\ carried \in [Senders -> Empty .. MaxWaits]
  /\ sends \in [Senders -> 0 .. MaxSends]
  /\ unread \in BOOLEAN

\* WaitUntil() asserts IsReady() once it was notified: a notification taken out
\* of the word for an earlier, timed-out sleep never passes for one of this sleep.
ReadyWhenNotified == pc = "reset" => word = kSignaled

\* A signal that no call has reported stays in the word, though the call it woke
\* reports a timeout or a cancellation.
SignalKept == unread => word = kSignaled

\* The consumer sleeps only while its awaiter is in the word or with a sender
\* that is about to notify this very sleep.
NoLostSignal ==
  (pc \in {"suspend", "asleep"} /\ signals = {}) => (word = epoch \/ \E s \in Senders : carried[s] = epoch)
=============================================================================
