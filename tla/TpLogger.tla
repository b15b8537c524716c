------------------------------ MODULE TpLogger ------------------------------
(***************************************************************************)
(* logging::impl::TpLogger on engine::impl::AsyncFlatCombiningQueue. Nodes go   *)
(* into one queue. In async mode a worker task consumes them; otherwise the     *)
(* task whose push finds consumer_node_ at the back becomes the consumer, and   *)
(* puts that node back when it has left nothing. Writers may wait for capacity, *)
(* and a log may be pushed without waking the worker, to be written at the      *)
(* next periodic flush. The queue itself is MpscQueue, here in one step.        *)
(***************************************************************************)
EXTENDS Integers, Sequences, SequencesExt, FiniteSets

CONSTANTS
  Loggers,            \* tasks that log
  Flusher,            \* the task of the periodic flush
  Owner,              \* starts and stops the worker
  Worker,             \* consuming_task_
  QueueBound,         \* max_queue_size_
  FlushQueueSize,     \* flush_queue_size_
  Block,              \* overflow_policy_ = kBlock
  PushMayFail,        \* there may be no memory for a node
  kMaxVectorBatchSize,
  MaxLogs,            \* bound: logs produced
  MaxStarts           \* bound: starts of the worker

LoggerAssumption ==
  /\ {QueueBound, FlushQueueSize, MaxLogs, MaxStarts} \subseteq Nat
  /\ kMaxVectorBatchSize \in Nat \ {0}
  /\ FlushQueueSize <= QueueBound \div 2
  /\ {Block, PushMayFail} \subseteq BOOLEAN

Tasks == Loggers \cup {Flusher, Owner, Worker}

VARIABLES
  state,                \* state_
  queue,                \* queue_
  emptyEvent,           \* empty_queue_event_ is signalled
  startEvent,           \* start_consuming_event_ is signalled
  pass,                 \* should_pass_consumer_to_waiter_
  produced, consumed,   \* produced_, consumed_
  mutex,                \* the writers that hold capacity_waiters_mutex_
  pc, batch,            \* per task: its place, and the nodes it has popped
  mine,                 \* per task: its value of produced_
  done,                 \* the promise of Flush()
  pushed, written,      \* logs pushed, by number; logs written to the sinks
  before,               \* logs pushed before the node of Flush()
  starts

queueVars == <<queue, emptyEvent, startEvent, pass>>
logVars == <<produced, consumed, pushed, written>>
vars == <<state, queueVars, logVars, mutex, pc, batch, mine, done, before, starts>>

Node(kind, n) == [kind |-> kind, n |-> n]
consumer_node == Node("consumer", 0)
notifier_node == Node("notifier", 0)
stop_node == Node("stop", 0)
flush_node == Node("flush", 0)

Init ==
  /\ state = "kSync"
  /\ queue = <<consumer_node>>
  /\ emptyEvent = FALSE
  /\ startEvent = FALSE
  /\ pass = FALSE
  /\ produced = 0
  /\ consumed = 0
  /\ mutex = {}
  /\ pc = [t \in Tasks |-> IF t = Worker THEN "none" ELSE "idle"]
  /\ batch = [t \in Tasks |-> <<>>]
  /\ mine = [t \in Tasks |-> 0]
  /\ done = FALSE
  /\ pushed = 0
  /\ written = {}
  /\ before = 0
  /\ starts = 0

Goto(t, to) == pc' = [pc EXCEPT ![t] = to]

----------------------------------------------------------------------------
(* AsyncFlatCombiningQueue *)

\* PushAndTryStartConsuming(): the task becomes the consumer, or goes on to `next`.
PushAndTryStartConsuming(t, node, next) ==
  /\ queue' = Append(queue, node)
  /\ Goto(t, IF queue # <<>> /\ Last(queue) = consumer_node THEN "pop" ELSE next)

\* What a task does after its push, and where it then is.
After(t) == IF t = Owner THEN "join" ELSE IF t = Flusher THEN "future" ELSE "idle"

NotifyAsyncConsumerIfSleeping(t) ==
  /\ pc[t] = "send"
  /\ emptyEvent' = TRUE
  /\ Goto(t, After(t))
  /\ UNCHANGED <<state, queue, startEvent, pass, logVars, mutex, batch, mine, done, before, starts>>

\* DoTryPop() in the loop of PopActionNodes().
PopActionNode(t) ==
  /\ pc[t] = "pop"
  /\ \/ /\ queue = <<>>
        /\ Goto(t, "process")
        /\ UNCHANGED <<queue, pass, batch>>
     \/ /\ queue # <<>>
        /\ queue' = Tail(queue)
        /\ LET node == Head(queue) IN
           /\ pass' = (pass \/ node = notifier_node)
           /\ batch' = IF node.kind \in {"log", "flush"}
                       THEN [batch EXCEPT ![t] = Append(@, node)] ELSE batch
           /\ Goto(t, IF node \in {notifier_node, stop_node} THEN "process" ELSE "pop")
  /\ UNCHANGED <<state, emptyEvent, startEvent, logVars, mutex, mine, done, before, starts>>

\* To the worker that waits, to nobody if the queue is empty, else not at all.
DoTryStopConsuming(t, next) ==
  \/ /\ pass
     /\ pass' = FALSE
     /\ startEvent' = TRUE
     /\ Goto(t, next)
     /\ UNCHANGED queue
  \/ /\ ~pass
     /\ queue = <<>>
     /\ queue' = <<consumer_node>>
     /\ Goto(t, next)
     /\ UNCHANGED <<pass, startEvent>>
  \/ /\ ~pass
     /\ queue # <<>>
     /\ Goto(t, "pop")
     /\ UNCHANGED <<queue, pass, startEvent>>

----------------------------------------------------------------------------
(* ConsumeQueueOnce() *)

\* AdvanceOverLogs(): how many logs the batch begins with.
AdvanceOverLogs(s) ==
  LET other == SelectInSeq(s, LAMBDA node : node.kind # "log")
      n == IF other = 0 THEN Len(s) ELSE other - 1
  IN IF n < kMaxVectorBatchSize THEN n ELSE kMaxVectorBatchSize

AccountLogConsumed(t) ==
  /\ pc[t] = "process" /\ batch[t] # <<>>
  /\ consumed' = consumed + AdvanceOverLogs(batch[t])
  /\ Goto(t, IF Block THEN "notify" ELSE "write")
  /\ UNCHANGED <<state, queueVars, produced, pushed, written, mutex, batch, mine, done, before, starts>>

Wake(t) ==
  LET sleeping == {w \in Loggers : pc[w] = "sleep"} IN
  \/ sleeping = {} /\ Goto(t, "write")
  \/ \E w \in sleeping : pc' = [pc EXCEPT ![t] = "write", ![w] = "capacity"]

\* The waiters' mutex is locked and unlocked again first.
NotifyOne(t) ==
  /\ pc[t] = "notify"
  /\ mutex = {}
  /\ Wake(t)
  /\ UNCHANGED <<state, queueVars, logVars, mutex, batch, mine, done, before, starts>>

\* Mutant: flushes are answered before the logs ahead of them are written.
WriteLate(t) ==
  /\ pc[t] = "write"
  /\ LET n == AdvanceOverLogs(batch[t]) IN
     /\ done' = (done \/ \E i \in 1 .. Len(batch[t]) : batch[t][i] = flush_node)
     /\ written' = written \cup {batch[t][i].n : i \in 1 .. n}
     /\ batch' = [batch EXCEPT ![t] = SubSeq(@, n + 1, Len(@))]
  /\ Goto(t, "perform")
  /\ UNCHANGED <<state, queueVars, produced, consumed, pushed, mutex, mine, before, starts>>

\* The chunk goes to the sinks.
Write(t) ==
  /\ pc[t] = "write"
  /\ LET n == AdvanceOverLogs(batch[t]) IN
     /\ written' = written \cup {batch[t][i].n : i \in 1 .. n}
     /\ batch' = [batch EXCEPT ![t] = SubSeq(@, n + 1, Len(@))]
  /\ Goto(t, "perform")
  /\ UNCHANGED <<state, queueVars, produced, consumed, pushed, mutex, mine, done, before, starts>>

\* BackendPerform(), up to the next log.
BackendPerform(t) ==
  /\ pc[t] = "perform"
  /\ LET log == SelectInSeq(batch[t], LAMBDA node : node.kind = "log")
         n == IF log = 0 THEN Len(batch[t]) ELSE log - 1
     IN /\ done' = (done \/ n > 0)
        /\ batch' = [batch EXCEPT ![t] = SubSeq(@, n + 1, Len(@))]
  /\ Goto(t, "process")
  /\ UNCHANGED <<state, queueVars, logVars, mutex, mine, before, starts>>

\* CleanUpQueue() of a task that is a consumer by chance, and of the worker at its end.
CleanUpQueue(t) ==
  /\ pc[t] = "process" /\ batch[t] = <<>>
  /\ t = Worker => state = "kStoppingAsync" /\ mine[t] = 1
  /\ DoTryStopConsuming(t, IF t = Worker THEN "exit" ELSE After(t))
  /\ UNCHANGED <<state, emptyEvent, logVars, mutex, batch, mine, done, before, starts>>

----------------------------------------------------------------------------
(* The worker *)

\* ProcessingLoop(): mine is 1 once the loop is left.
Loop ==
  /\ pc[Worker] = "process" /\ batch[Worker] = <<>>
  /\ mine[Worker] = 0
  /\ \/ state # "kAsync" /\ mine' = [mine EXCEPT ![Worker] = 1] /\ Goto(Worker, "pop")
     \/ state = "kAsync" /\ Goto(Worker, "wait") /\ UNCHANGED mine
  /\ UNCHANGED <<state, queueVars, logVars, mutex, batch, done, before, starts>>

WaitWhileEmpty ==
  /\ pc[Worker] = "wait"
  /\ emptyEvent
  /\ emptyEvent' = FALSE
  /\ Goto(Worker, "pop")
  /\ UNCHANGED <<state, queue, startEvent, pass, logVars, mutex, batch, mine, done, before, starts>>

\* The task's function is destroyed, and exit_async_guard with it.
ExitAsync ==
  /\ pc[Worker] = "exit"
  /\ state' = "kSync"
  /\ Goto(Worker, "none")
  /\ UNCHANGED <<queueVars, logVars, mutex, batch, mine, done, before, starts>>

----------------------------------------------------------------------------
(* StartConsumerTask(), StopConsumerTask() *)

\* StartConsumerTask() and TryStartWaitingForConsumer(); only the worker looks at state_.
StartConsumerTask ==
  /\ pc[Owner] = "idle"
  /\ starts < MaxStarts
  /\ state = "kSync"
  /\ state' = "kAsync"
  /\ starts' = starts + 1
  /\ queue' = Append(queue, notifier_node)
  /\ Goto(Owner, IF queue # <<>> /\ Last(queue) = consumer_node THEN "takeover" ELSE "waitstart")
  /\ UNCHANGED <<emptyEvent, startEvent, pass, logVars, mutex, batch, mine, done, before>>

Spawn == pc' = [pc EXCEPT ![Owner] = "running", ![Worker] = "pop"] /\ mine' = [mine EXCEPT ![Worker] = 0]

\* The two nodes at the front are the queue's own.
TakeOver ==
  /\ pc[Owner] = "takeover"
  /\ queue' = SubSeq(queue, 3, Len(queue))
  /\ Spawn
  /\ UNCHANGED <<state, emptyEvent, startEvent, pass, logVars, mutex, batch, done, before, starts>>

WaitAndStartConsuming ==
  /\ pc[Owner] = "waitstart"
  /\ startEvent
  /\ startEvent' = FALSE
  /\ Spawn
  /\ UNCHANGED <<state, queue, emptyEvent, pass, logVars, mutex, batch, done, before, starts>>

StopConsumerTask ==
  /\ pc[Owner] = "running"
  /\ state' = "kStoppingAsync"
  /\ Goto(Owner, "stop")
  /\ UNCHANGED <<queueVars, logVars, mutex, batch, mine, done, before, starts>>

PushStop ==
  /\ pc[Owner] = "stop"
  /\ PushAndTryStartConsuming(Owner, stop_node, "send")
  /\ UNCHANGED <<state, emptyEvent, startEvent, pass, logVars, mutex, batch, mine, done, before, starts>>

Join ==
  /\ pc[Owner] = "join"
  /\ pc[Worker] = "none"
  /\ Goto(Owner, "idle")
  /\ UNCHANGED <<state, queueVars, logVars, mutex, batch, mine, done, before, starts>>

----------------------------------------------------------------------------
(* Log(), Flush() *)

HasFreeQueueCapacity == produced - consumed < QueueBound

\* TryWaitFreeQueueCapacity() of Log(): a log that is not to wait is dropped.
Log(t) ==
  /\ pc[t] = "idle"
  /\ produced < MaxLogs
  /\ \/ HasFreeQueueCapacity /\ Goto(t, "produce")
     \/ ~HasFreeQueueCapacity /\ Block /\ Goto(t, "capacity")
     \/ ~HasFreeQueueCapacity /\ ~Block /\ UNCHANGED pc
  /\ UNCHANGED <<state, queueVars, logVars, mutex, batch, mine, done, before, starts>>

\* The predicate of the wait, with the mutex held.
CheckCapacity(t) ==
  /\ pc[t] = "capacity"
  /\ mutex = {}
  /\ \/ HasFreeQueueCapacity /\ Goto(t, "produce") /\ UNCHANGED mutex
     \/ ~HasFreeQueueCapacity /\ Goto(t, "full") /\ mutex' = {t}
  /\ UNCHANGED <<state, queueVars, logVars, batch, mine, done, before, starts>>

Sleep(t) ==
  /\ pc[t] = "full"
  /\ mutex' = {}
  /\ Goto(t, "sleep")
  /\ UNCHANGED <<state, queueVars, logVars, batch, mine, done, before, starts>>

Produce(t) ==
  /\ pc[t] = "produce"
  /\ produced' = produced + 1
  /\ mine' = [mine EXCEPT ![t] = produced + 1]
  /\ Goto(t, "push")
  /\ UNCHANGED <<state, queueVars, consumed, pushed, written, mutex, batch, done, before, starts>>

\* kDeferred only below the flush size; some levels notify always.
PushLog(t) ==
  /\ pc[t] = "push"
  /\ pushed' = pushed + 1
  /\ \/ PushAndTryStartConsuming(t, Node("log", pushed + 1), "send")
     \/ /\ mine[t] - consumed < FlushQueueSize
        /\ PushAndTryStartConsuming(t, Node("log", pushed + 1), "idle")
  /\ UNCHANGED <<state, emptyEvent, startEvent, pass, produced, consumed, written, mutex, batch, mine,
                 done, before, starts>>

\* No node could be made: Log() throws, and wakes nobody who waits for capacity.
PushFails(t) ==
  /\ PushMayFail
  /\ pc[t] = "push"
  /\ produced' = produced - 1
  /\ Goto(t, "idle")
  /\ UNCHANGED <<state, queueVars, consumed, pushed, written, mutex, batch, mine, done, before, starts>>

Flush ==
  /\ pc[Flusher] = "idle"
  /\ before' = pushed
  /\ done' = FALSE
  /\ PushAndTryStartConsuming(Flusher, flush_node, "send")
  /\ UNCHANGED <<state, emptyEvent, startEvent, pass, logVars, mutex, batch, mine, starts>>

Flushed ==
  /\ pc[Flusher] = "future"
  /\ done
  /\ Goto(Flusher, "idle")
  /\ UNCHANGED <<state, queueVars, logVars, mutex, batch, mine, done, before, starts>>

----------------------------------------------------------------------------

Consuming == {"pop", "process", "notify", "write", "perform"}

ConsumerStep(t) ==
  \/ PopActionNode(t) \/ AccountLogConsumed(t) \/ NotifyOne(t) \/ Write(t)
  \/ BackendPerform(t) \/ CleanUpQueue(t)

WorkerStep == ConsumerStep(Worker) \/ Loop \/ WaitWhileEmpty \/ ExitAsync

OwnerStep ==
  \/ ConsumerStep(Owner) \/ NotifyAsyncConsumerIfSleeping(Owner)
  \/ TakeOver \/ WaitAndStartConsuming \/ PushStop \/ Join

LoggerStep(t) ==
  \/ ConsumerStep(t) \/ NotifyAsyncConsumerIfSleeping(t)
  \/ CheckCapacity(t) \/ Sleep(t) \/ Produce(t) \/ PushLog(t)

FlusherStep ==
  \/ ConsumerStep(Flusher) \/ NotifyAsyncConsumerIfSleeping(Flusher)
  \/ Flush \/ Flushed

Next ==
  \/ WorkerStep \/ OwnerStep \/ FlusherStep
  \/ StartConsumerTask \/ StopConsumerTask
  \/ \E t \in Loggers : Log(t) \/ LoggerStep(t) \/ PushFails(t)

Spec == Init /\ [][Next]_vars

CaughtUp == \A t \in Tasks : pc[t] \notin Consuming

\* Tasks that can go on do, and the flush is periodic; nobody has to log, start or stop.
\* Flushes are seconds apart: again and again the consumer has caught up with them.
Fairness ==
  /\ WF_vars(WorkerStep) /\ WF_vars(OwnerStep) /\ WF_vars(FlusherStep)
  /\ \A t \in Loggers : WF_vars(LoggerStep(t))
  /\ []<>CaughtUp

----------------------------------------------------------------------------
(* Properties *)

Places == Consuming \cup {"none", "idle", "takeover", "waitstart", "running", "stop", "join",
                          "wait", "exit", "capacity", "full", "sleep", "produce", "push", "send",
                          "future"}

\* Every variable has its type.
TypeOK ==
  /\ state \in {"kSync", "kAsync", "kStoppingAsync"}
  /\ \A i \in 1 .. Len(queue) : queue[i].kind \in {"consumer", "notifier", "stop", "log", "flush"}
  /\ {emptyEvent, startEvent, pass} \subseteq BOOLEAN
  /\ {produced, consumed, pushed} \subseteq 0 .. MaxLogs + Cardinality(Loggers)
  /\ mutex \subseteq Loggers
  /\ pc \in [Tasks -> Places]
  /\ DOMAIN batch = Tasks
  /\ done \in BOOLEAN
  /\ written \subseteq 1 .. MaxLogs + Cardinality(Loggers)
  /\ starts \in 0 .. MaxStarts

\* The queue has one consumer at a time, through all changes of the mode: the one that
\* owns consumer_node_, has been handed the role, or took it with the first push.
OneConsumer ==
  Cardinality({t \in Tasks : pc[t] \in Consuming \cup {"wait", "takeover"}})
    + (IF queue # <<>> /\ Last(queue) = consumer_node THEN 1 ELSE 0)
    + (IF startEvent THEN 1 ELSE 0) = 1

\* Logs are written in the order they were pushed, none twice, whoever consumed them.
WrittenInOrder == written = 1 .. Cardinality(written)

\* When Flush() returns, all logs pushed before the call are written.
FlushedIsWritten ==
  pc[Flusher] = "future" /\ done => 1 .. before \subseteq written

\* The queue exceeds its maximum by at most the writers that raced for the last place.
CapacityKept == produced - consumed <= QueueBound + Cardinality(Loggers) - 1

=============================================================================
