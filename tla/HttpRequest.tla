----------------------------- MODULE HttpRequest -----------------------------
(***************************************************************************)
(* clients::http::RequestState, the curl easy handle under it and the           *)
(* ResponseFuture above it: one Request that a task performs several times.     *)
(* Attempts, retries and their timer run in the ev thread, the resolving of the *)
(* host in a detached task, and Cancel() reaches the ev thread through its      *)
(* queue. Wherever the handler of an attempt is, it carries the number of the   *)
(* request it was made for, which the code does not know.                       *)
(***************************************************************************)
EXTENDS Integers, Sequences, FiniteSets

CONSTANTS
  Retries, OnFails, \* retry_
  HasResolver,      \* the host is resolved by the dns client
  HasDeadline,      \* the task has an inherited deadline
  CancelPolicy,     \* kCancel, otherwise kIgnore
  MaxRequests       \* bound of the requests performed

HttpRequestAssumption ==
  /\ Retries \in Nat \ {0} /\ MaxRequests \in Nat
  /\ {OnFails, HasResolver, HasDeadline, CancelPolicy} \subseteq BOOLEAN

VARIABLES
  task,             \* "idle", "perform", "start", "wait", "cancel", "post", "sync"
  request,          \* number of the current request
  completed,        \* request_completed_
  cancelled,        \* is_cancelled_
  current,          \* retry_.current
  promise,          \* "none", "pending", "value", "error"
  counter, cancelledMax,   \* request_counter_ and cancelled_request_max_ of the easy handle
  read,             \* request_counter_ as cancel() has read it
  resolver,         \* the detached task: "none", "resolve", "post"
  queue,            \* payloads for the ev thread
  registered,       \* the request whose attempt is under way in curl, or 0
  timer,            \* the request whose retry timer is armed, or 0
  finishing,        \* the request whose OnCompleted() has yet to send request_completed_, or 0
  stopped, late     \* Cancel() has returned; the attempts started since is_cancelled_

easy == <<counter, cancelledMax, read>>
chain == <<resolver, registered, timer, finishing>>
user == <<task, request>>
vars == <<user, completed, cancelled, current, promise, easy, queue, chain, stopped, late>>

Init ==
  /\ task = "idle" /\ request = 0
  /\ completed = TRUE /\ cancelled = FALSE
  /\ current = 1
  /\ promise = "none"
  /\ counter = 0 /\ cancelledMax = 0 /\ read = 0
  /\ resolver = "none" /\ registered = 0 /\ timer = 0 /\ finishing = 0
  /\ queue = <<>>
  /\ stopped = FALSE /\ late = 0

Perform(n) == [kind |-> "perform", num |-> n, req |-> request]
CancelUpTo(n) == [kind |-> "cancel", num |-> n, req |-> 0]

----------------------------------------------------------------------------
(* async_perform(), in the task *)

AsyncPerform ==
  /\ task = "idle" /\ request < MaxRequests
  /\ task' = "perform"
  /\ UNCHANGED <<request, completed, cancelled, current, promise, easy, queue, chain, stopped, late>>

NewRequest ==
  /\ request' = request + 1
  /\ promise' = "pending"
  /\ cancelled' = FALSE /\ current' = 1
  /\ completed' = FALSE
  /\ stopped' = FALSE /\ late' = 0

\* Mutant: the request is reused while the previous one is still under way.
ResetAtOnce ==
  /\ task = "perform" /\ task' = "start"
  /\ NewRequest
  /\ UNCHANGED <<easy, queue, chain>>

\* WaitForRequestCompletion() and ResetDataForNewRequest().
ResetDataForNewRequest ==
  /\ task = "perform" /\ task' = "start"
  /\ completed
  /\ NewRequest
  /\ UNCHANGED <<easy, queue, chain>>

HandleDeadlineAlreadyPassed ==
  /\ task = "start" /\ HasDeadline
  /\ task' = "wait"
  /\ promise' = "error"
  /\ completed' = TRUE
  /\ UNCHANGED <<request, cancelled, current, easy, queue, chain, stopped, late>>

PerformRequest ==
  /\ task = "start" /\ task' = "wait"
  /\ IF HasResolver
     THEN resolver' = "resolve" /\ UNCHANGED <<counter, queue>>
     ELSE /\ counter' = counter + 1
          /\ queue' = Append(queue, Perform(counter'))
          /\ UNCHANGED resolver
  /\ UNCHANGED <<request, completed, cancelled, current, promise, cancelledMax, read, registered, timer, finishing, stopped, late>>

\* The detached task takes the next number ...
Resolve ==
  /\ resolver = "resolve" /\ resolver' = "post"
  /\ counter' = counter + 1
  /\ UNCHANGED <<user, completed, cancelled, current, promise, cancelledMax, read, queue, registered, timer, finishing, stopped, late>>

\* ... and then leaves the payload for the ev thread.
PostPerform ==
  /\ resolver = "post" /\ resolver' = "none"
  /\ queue' = Append(queue, Perform(counter))
  /\ UNCHANGED <<user, completed, cancelled, current, promise, easy, registered, timer, finishing, stopped, late>>

ResolveFails ==
  /\ resolver = "resolve" /\ resolver' = "none"
  /\ promise' = "error"
  /\ completed' = TRUE
  /\ UNCHANGED <<user, cancelled, current, easy, queue, registered, timer, finishing, stopped, late>>

----------------------------------------------------------------------------
(* The ev thread, one payload or event after the other *)

Quiet == finishing = 0

\* OnCompleted() up to the promise.
OnCompleted(req, result) ==
  /\ promise' = result
  /\ finishing' = req
  /\ UNCHANGED <<current, timer>>

NotNeedRetry(outcome) ==
  outcome = "ok" \/ current >= Retries \/ (outcome = "fail" /\ ~OnFails) \/ cancelled

\* A middleware may veto any retry: HookOnRetry().
Answer(req, outcome) ==
  \/ outcome # "fail" /\ OnCompleted(req, "value")
  \/ (HasDeadline \/ outcome = "fail") /\ OnCompleted(req, "error")

\* The handler: finish, with a timeout where the deadline is over by now or would be after the
\* backoff, or arm the timer.
OnRetry(req, outcome) ==
  \/ Answer(req, outcome)
  \/ /\ ~NotNeedRetry(outcome)
     /\ current' = current + 1
     /\ timer' = req
     /\ UNCHANGED <<promise, finishing>>

RequestCompleted ==
  /\ finishing # 0 /\ finishing' = 0
  /\ completed' = TRUE
  /\ UNCHANGED <<user, cancelled, current, promise, easy, queue, resolver, registered, timer, stopped, late>>

\* curl is done with the attempt: an answer, one worth a retry, or a failure.
HandleCompletion(outcome) ==
  /\ Quiet /\ registered # 0
  /\ registered' = 0
  /\ OnRetry(registered, outcome)
  /\ UNCHANGED <<user, completed, cancelled, easy, queue, resolver, stopped, late>>

StartAttempt(req) ==
  /\ registered' = req
  /\ late' = IF cancelled THEN late + 1 ELSE late

IsHead(kind) == Quiet /\ queue # <<>> /\ Head(queue).kind = kind

\* A request that was cancelled before is dropped, with its handler. No other attempt is under
\* way that would have to be cancelled (OneRequestAtATime).
DoEvAsyncPerform ==
  /\ IsHead("perform")
  /\ queue' = Tail(queue)
  /\ IF Head(queue).num <= cancelledMax
     THEN UNCHANGED <<cancelledMax, registered, late>>
     ELSE /\ cancelledMax' = Head(queue).num - 1
          /\ StartAttempt(Head(queue).req)
  /\ UNCHANGED <<user, completed, cancelled, current, promise, counter, read, resolver, timer, finishing, stopped>>

\* Whatever attempt is under way ends with operation_canceled.
DoEvCancel ==
  /\ IsHead("cancel")
  /\ queue' = Tail(queue)
  /\ cancelledMax' = IF cancelledMax < Head(queue).num THEN Head(queue).num ELSE cancelledMax
  /\ registered' = 0
  /\ IF registered = 0 THEN UNCHANGED <<current, promise, timer, finishing>> ELSE OnRetry(registered, "fail")
  /\ UNCHANGED <<user, completed, cancelled, counter, read, resolver, stopped, late>>

\* In the ev thread the attempt starts at once.
OnRetryTimer ==
  /\ Quiet /\ timer # 0 /\ timer' = 0
  /\ counter' = counter + 1
  /\ cancelledMax' = IF cancelledMax < counter THEN counter ELSE cancelledMax
  /\ StartAttempt(timer)
  /\ UNCHANGED <<user, completed, cancelled, current, promise, read, queue, resolver, finishing, stopped>>

----------------------------------------------------------------------------
(* ResponseFuture, in the task *)

Get ==
  /\ task = "wait" /\ promise \in {"value", "error"}
  /\ task' = "idle"
  /\ promise' = "none"
  /\ UNCHANGED <<request, completed, cancelled, current, easy, queue, chain, stopped, late>>

\* The wait is over before the answer: CancelOrDetach(), or Detach() when it is the propagated
\* deadline that is over.
GiveUp ==
  /\ task = "wait"
  /\ \/ task' = IF CancelPolicy THEN "cancel" ELSE "idle"
     \/ HasDeadline /\ task' = "idle"
  /\ UNCHANGED <<request, completed, cancelled, current, promise, easy, queue, chain, stopped, late>>

Cancel ==
  /\ task = "cancel" /\ task' = "post"
  /\ cancelled' = TRUE
  /\ read' = counter
  /\ UNCHANGED <<request, completed, current, promise, counter, cancelledMax, queue, chain, stopped, late>>

PostCancel ==
  /\ task = "post" /\ task' = "sync"
  /\ queue' = Append(queue, CancelUpTo(read))
  /\ UNCHANGED <<request, completed, cancelled, current, promise, easy, chain, stopped, late>>

\* RunInEvLoopSync() returns.
Cancelled ==
  /\ task = "sync" /\ \A i \in 1 .. Len(queue) : queue[i].kind # "cancel"
  /\ task' = "idle"
  /\ stopped' = TRUE
  /\ read' = 0
  /\ UNCHANGED <<request, completed, cancelled, current, promise, counter, cancelledMax, queue, chain, late>>

Outcomes == {"ok", "bad", "fail"}

Start == ResetDataForNewRequest \/ HandleDeadlineAlreadyPassed \/ PerformRequest
Resolving == Resolve \/ ResolveFails \/ PostPerform
Payload == DoEvAsyncPerform \/ DoEvCancel
Attempt == \E outcome \in Outcomes : HandleCompletion(outcome)
Future == Get \/ Cancel \/ PostCancel \/ Cancelled

Next ==
  \/ AsyncPerform \/ Start \/ Resolving
  \/ Payload \/ Attempt \/ RequestCompleted \/ OnRetryTimer
  \/ Future \/ GiveUp

Spec == Init /\ [][Next]_vars

\* Tasks and the ev thread run, and curl ends every attempt: it has a timeout.
Fairness ==
  /\ WF_vars(Start) /\ WF_vars(Resolving) /\ WF_vars(Payload) /\ WF_vars(Attempt)
  /\ WF_vars(RequestCompleted) /\ WF_vars(OnRetryTimer) /\ WF_vars(Future)

FairSpec == Spec /\ Fairness

----------------------------------------------------------------------------
(* Properties *)

Requests == 1 .. MaxRequests

TypeOK ==
  /\ task \in {"idle", "perform", "start", "wait", "cancel", "post", "sync"}
  /\ request \in {0} \cup Requests
  /\ {completed, cancelled, stopped} \subseteq BOOLEAN
  /\ current \in 1 .. Retries
  /\ promise \in {"none", "pending", "value", "error"}
  /\ {counter, cancelledMax, read, late} \subseteq 0 .. MaxRequests * Retries
  /\ resolver \in {"none", "resolve", "post"}
  /\ queue \in Seq([kind : {"perform", "cancel"}, num : 0 .. MaxRequests * Retries, req : 0 .. MaxRequests])
  /\ {registered, timer, finishing} \subseteq 0 .. MaxRequests

Posted == {i \in 1 .. Len(queue) : queue[i].kind = "perform"}
Holders == {h \in {registered, timer, finishing} : h # 0} \cup {queue[i].req : i \in Posted}
Count(b) == IF b THEN 1 ELSE 0

\* "The task will wake up and may reuse RequestState": the handler of a request is in one place,
\* and while it is there no other request has begun; nothing is left of it when it has completed.
OneRequestAtATime ==
  /\ Count(resolver # "none") + Count(registered # 0) + Count(timer # 0) + Count(finishing # 0)
       + Cardinality(Posted) <= (IF completed THEN 0 ELSE 1)
  /\ Holders \subseteq {request}

\* A request that was cancelled makes at most one more attempt.
FewLateAttempts == late <= 1

\* "a subsequent async_perform or perform call could be delayed until the previous request
\* fully completes": and it does complete.
RequestCanBeReused == task = "perform" ~> task # "perform"

\* "request_ has armed timers to retry the request. Stopping those ASAP.": no attempt is begun
\* after Cancel() has returned.
CancelStopsRetries == [][stopped /\ registered = 0 => registered' = 0]_vars
=============================================================================
