---------------------------- MODULE WorkStealing ----------------------------
(***************************************************************************)
(* engine::fast::Queue: the queue of a task processor with work stealing.      *)
(* Every worker thread has a local queue, there is one global queue, and the   *)
(* Coordinator decides who sleeps and who is woken from one word that counts   *)
(* idle and spinning workers. A local queue is changed in one step, as          *)
(* SpmcQueue shows; the tasks a worker moves are in its buffer in between.     *)
(***************************************************************************)
EXTENDS Integers, Sequences, SequencesExt, FiniteSets

CONSTANTS
  Workers,
  Producers,        \* threads that are not workers of this queue
  Stopper,          \* the thread in StopProcessing()
  Tasks,
  None,
  LocalCapacity,    \* kLocalQueueCapacity
  GrabBatchCap,     \* kGrabBatchCap
  StealSize,        \* kDefaultStealSize
  StealSeries       \* kStealSeries

StealingAssumption ==
  /\ {LocalCapacity, GrabBatchCap, StealSize, StealSeries} \subseteq Nat \ {0}
  /\ GrabBatchCap <= LocalCapacity + 1 /\ StealSize <= LocalCapacity + 1
  /\ IsFiniteSet(Workers) /\ Workers # {}
  /\ Stopper \notin Workers \cup Producers /\ None \notin Workers \cup Tasks

Threads == Cardinality(Workers)
Notifiers == Workers \cup Producers \cup {Stopper}

VARIABLES
  global, local,        \* the queues
  buf,                  \* steal_buffer_
  hand,                 \* the task a worker has got
  pc, victims, rounds,  \* PopBlocking(): where a worker is, whom it has still to visit
  idle,                 \* idle_workers_
  spinning,             \* the lower half of state_; the upper half is Len(idle)
  woken,                \* sleep_counter_ has changed since PopBlocking() read it
  npc, target,          \* NotifyNewTask() and WakeWorker()
  stop,                 \* stop_requested_
  fresh                 \* tasks that nobody has pushed yet

queues == <<global, local, buf>>
searchVars == <<victims, rounds>>
coordVars == <<idle, spinning, woken>>
notifyVars == <<npc, target>>
vars == <<queues, hand, pc, searchVars, coordVars, notifyVars, stop, fresh>>

Init ==
  /\ global = <<>>
  /\ local = [w \in Workers |-> <<>>]
  /\ buf = [w \in Workers |-> <<>>]
  /\ hand = [w \in Workers |-> None]
  /\ pc = [w \in Workers |-> "loop"]
  /\ victims = [w \in Workers |-> {}]
  /\ rounds = [w \in Workers |-> 0]
  /\ idle = <<>>
  /\ spinning = 0
  /\ woken = [w \in Workers |-> FALSE]
  /\ npc = [a \in Notifiers |-> "idle"]
  /\ target = [a \in Notifiers |-> None]
  /\ stop = FALSE
  /\ fresh = Tasks

GoTo(w, to) == pc' = [pc EXCEPT ![w] = to]
Get(w, t) == hand' = [hand EXCEPT ![w] = t]
At(w, where) == pc[w] = where /\ npc[w] = "idle"
Linked(w) == w \in Range(idle)
Search(w, series) ==
  /\ rounds' = [rounds EXCEPT ![w] = series]
  /\ victims' = [victims EXCEPT ![w] = Workers \ {w}]
SearchEnds(w) ==
  /\ rounds' = [rounds EXCEPT ![w] = 0]
  /\ victims' = [victims EXCEPT ![w] = {}]
\* Where sleep_counter_ has been read into sleep_state.
HasSleepState(w) ==
  pc[w] \in {"stepdown", "global2", "steal2", "stolen2", "check", "sleep", "awake", "active"}
Unlinked(s, i) == [j \in 1 .. Len(s) - 1 |-> s[IF j < i THEN j ELSE j + 1]]
Unlink(w) ==
  \/ \E i \in 1 .. Len(idle) : idle[i] = w /\ idle' = Unlinked(idle, i)
  \/ ~Linked(w) /\ UNCHANGED idle

----------------------------------------------------------------------------
(* Worker::PopBlocking(), Worker::TryPop() *)

\* The loop condition; one call in kFrequencyGlobalQueuePop looks at the global queue first.
Loop(w) ==
  /\ At(w, "loop")
  /\ IF stop THEN GoTo(w, "exit") ELSE \E to \in {"global", "local"} : GoTo(w, to)
  /\ UNCHANGED <<queues, hand, searchVars, coordVars, notifyVars, stop, fresh>>

\* TryPopFromGlobalQueue(), in TryPop() and in TryPopBeforeSleep()
TryPopFromGlobalQueue(w) ==
  /\ At(w, "global") \/ At(w, "global2")
  /\ IF global # <<>>
     THEN /\ Get(w, Head(global))
          /\ global' = Tail(global)
          /\ GoTo(w, IF pc[w] = "global" THEN "run" ELSE "active")
          /\ UNCHANGED searchVars
     ELSE /\ IF pc[w] = "global"
             THEN GoTo(w, "local") /\ UNCHANGED searchVars
             ELSE GoTo(w, "steal2") /\ Search(w, 1)
          /\ UNCHANGED <<global, hand>>
  /\ UNCHANGED <<local, buf, coordVars, notifyVars, stop, fresh>>

TryPopLocal(w) ==
  /\ At(w, "local")
  /\ IF local[w] # <<>>
     THEN /\ Get(w, Head(local[w]))
          /\ local' = [local EXCEPT ![w] = Tail(@)]
          /\ GoTo(w, "run")
     ELSE GoTo(w, "grab") /\ UNCHANGED <<local, hand>>
  /\ UNCHANGED <<global, buf, searchVars, coordVars, notifyVars, stop, fresh>>

\* GrabTasksFromGlobalQueue(): the share of one worker.
GrabTasksFromGlobalQueue(w) ==
  /\ At(w, "grab")
  /\ LET share == Max({Len(global) \div Threads, 1})
         count == Min({GrabBatchCap, share})
     IN  IF global # <<>>
         THEN /\ buf' = [buf EXCEPT ![w] = SubSeq(global, 1, count)]
              /\ global' = SubSeq(global, count + 1, Len(global))
              /\ GoTo(w, "grabbed")
         ELSE GoTo(w, "spin") /\ UNCHANGED <<global, buf>>
  /\ UNCHANGED <<local, hand, searchVars, coordVars, notifyVars, stop, fresh>>

\* At most half of the workers spin.
StartSpinning(w) ==
  /\ At(w, "spin")
  /\ IF (spinning + 1) * 2 > Threads
     THEN GoTo(w, "save") /\ UNCHANGED <<spinning, searchVars>>
     ELSE /\ spinning' = spinning + 1
          /\ Search(w, StealSeries)
          /\ GoTo(w, "steal")
  /\ UNCHANGED <<queues, hand, idle, woken, notifyVars, stop, fresh>>

\* TryStealTasks(): visits the other workers in some order, until one has tasks.
TryStealTasks(w) ==
  /\ At(w, "steal") \/ At(w, "steal2")
  /\ LET end == IF pc[w] = "steal" THEN "stopspin" ELSE "check"
     IN  \/ \E v \in victims[w] :
              IF local[v] # <<>>
              THEN LET k == Min({Len(local[v]), StealSize})
                   IN  /\ buf' = [buf EXCEPT ![w] = SubSeq(local[v], 1, k)]
                       /\ local' = [local EXCEPT ![v] = SubSeq(@, k + 1, Len(@))]
                       /\ GoTo(w, IF pc[w] = "steal" THEN "stolen" ELSE "stolen2")
                       /\ SearchEnds(w)
              ELSE /\ victims' = [victims EXCEPT ![w] = @ \ {v}]
                   /\ UNCHANGED <<rounds, local, buf, pc>>
         \/ /\ victims[w] = {}
            /\ IF rounds[w] > 1
               THEN Search(w, rounds[w] - 1) /\ UNCHANGED pc
               ELSE SearchEnds(w) /\ GoTo(w, end)
            /\ UNCHANGED <<local, buf>>
  /\ UNCHANGED <<global, hand, coordVars, notifyVars, stop, fresh>>

\* The first task of the buffer is the next one, the others go to the local queue.
PushMany(w) ==
  /\ At(w, "grabbed") \/ At(w, "stolen") \/ At(w, "stolen2")
  /\ Get(w, Head(buf[w]))
  /\ local' = [local EXCEPT ![w] = @ \o Tail(buf[w])]
  /\ buf' = [buf EXCEPT ![w] = <<>>]
  /\ GoTo(w, CASE pc[w] = "grabbed" -> "run"
               [] pc[w] = "stolen" -> "stopspin"
               [] pc[w] = "stolen2" -> "active")
  /\ UNCHANGED <<global, searchVars, coordVars, notifyVars, stop, fresh>>

\* The last spinner that has found something wakes another worker.
StopSpinning(w) ==
  /\ At(w, "stopspin")
  /\ spinning' = spinning - 1
  /\ npc' = [npc EXCEPT ![w] = IF hand[w] # None /\ spinning = 1 THEN "pop" ELSE "idle"]
  /\ GoTo(w, IF hand[w] # None THEN "run" ELSE "save")
  /\ UNCHANGED <<queues, hand, searchVars, idle, woken, target, stop, fresh>>

SaveSleepState(w) ==
  /\ At(w, "save")
  /\ GoTo(w, "stepdown")
  /\ UNCHANGED <<queues, hand, searchVars, coordVars, notifyVars, stop, fresh>>

\* Mutant: does not look at the queues again.
StepDownAndSleep(w) ==
  /\ At(w, "stepdown")
  /\ idle' = IF Linked(w) THEN idle ELSE Append(idle, w)
  /\ GoTo(w, "check")
  /\ UNCHANGED <<queues, hand, searchVars, spinning, woken, notifyVars, stop, fresh>>

StepDownAsActiveWorker(w) ==
  /\ At(w, "stepdown")
  /\ idle' = IF Linked(w) THEN idle ELSE Append(idle, w)
  /\ GoTo(w, "global2")
  /\ UNCHANGED <<queues, hand, searchVars, spinning, woken, notifyVars, stop, fresh>>

CheckStop(w) ==
  /\ At(w, "check")
  /\ GoTo(w, IF stop THEN "exit" ELSE "sleep")
  /\ UNCHANGED <<queues, hand, searchVars, coordVars, notifyVars, stop, fresh>>

Sleep(w) ==
  /\ At(w, "sleep")
  /\ woken[w]
  /\ GoTo(w, "awake")
  /\ UNCHANGED <<queues, hand, searchVars, coordVars, notifyVars, stop, fresh>>

BecomeActiveWorker(w) ==
  /\ At(w, "active") \/ At(w, "awake") \/ At(w, "exit")
  /\ Unlink(w)
  /\ woken' = [woken EXCEPT ![w] = FALSE]
  /\ GoTo(w, CASE pc[w] = "active" -> "run" [] pc[w] = "awake" -> "loop" [] pc[w] = "exit" -> "done")
  /\ UNCHANGED <<queues, hand, searchVars, spinning, notifyVars, stop, fresh>>

----------------------------------------------------------------------------
(* The task of a worker, and Queue::DoPush() *)

Finish(w) ==
  /\ At(w, "run")
  /\ Get(w, None)
  /\ GoTo(w, "loop")
  /\ UNCHANGED <<queues, searchVars, coordVars, notifyVars, stop, fresh>>

\* A background task, or one from another thread.
PushGlobal(a, t) ==
  /\ a \in Producers \/ (a \in Workers /\ pc[a] = "run")
  /\ npc[a] = "idle"
  /\ t \in fresh
  /\ fresh' = fresh \ {t}
  /\ global' = Append(global, t)
  /\ npc' = [npc EXCEPT ![a] = "check"]
  /\ UNCHANGED <<local, buf, hand, pc, searchVars, coordVars, target, stop>>

\* Worker::Push(); what does not fit is kept for OffloadToGlobal().
PushLocal(w, t) ==
  /\ At(w, "run")
  /\ t \in fresh
  /\ fresh' = fresh \ {t}
  /\ IF Len(local[w]) < LocalCapacity
     THEN /\ local' = [local EXCEPT ![w] = Append(@, t)]
          /\ npc' = [npc EXCEPT ![w] = "check"]
          /\ UNCHANGED <<buf, pc>>
     ELSE /\ buf' = [buf EXCEPT ![w] = <<t>>]
          /\ GoTo(w, "overflow")
          /\ UNCHANGED <<local, npc>>
  /\ UNCHANGED <<global, hand, searchVars, coordVars, target, stop>>

\* More than half of the tasks go to the global queue; thieves may have come
\* since the queue was full, and since its size was read.
GrabOverflow(w) ==
  /\ At(w, "overflow")
  /\ \E size \in Len(local[w]) .. LocalCapacity :
       LET k == Min({size \div 2 + 1, Len(local[w])})
       IN  /\ buf' = [buf EXCEPT ![w] = SubSeq(local[w], 1, k) \o @]
           /\ local' = [local EXCEPT ![w] = SubSeq(@, k + 1, Len(@))]
  /\ GoTo(w, "offload")
  /\ UNCHANGED <<global, hand, searchVars, coordVars, notifyVars, stop, fresh>>

OffloadToGlobal(w) ==
  /\ At(w, "offload")
  /\ global' = global \o buf[w]
  /\ buf' = [buf EXCEPT ![w] = <<>>]
  /\ npc' = [npc EXCEPT ![w] = "check"]
  /\ GoTo(w, "run")
  /\ UNCHANGED <<local, hand, searchVars, coordVars, target, stop, fresh>>

----------------------------------------------------------------------------
(* Coordinator::NotifyNewTask(), WakeWorker(), RequestStop() *)

ShouldWakeWorker(a) ==
  /\ npc[a] = "check"
  /\ npc' = [npc EXCEPT ![a] = IF Len(idle) > 0 /\ spinning = 0 THEN "pop" ELSE "idle"]
  /\ UNCHANGED <<queues, hand, pc, searchVars, coordVars, target, stop, fresh>>

WakeWorker(a) ==
  /\ npc[a] = "pop"
  /\ IF idle # <<>>
     THEN /\ target' = [target EXCEPT ![a] = Last(idle)]
          /\ idle' = Front(idle)
          /\ npc' = [npc EXCEPT ![a] = "wake"]
     ELSE npc' = [npc EXCEPT ![a] = "idle"] /\ UNCHANGED <<target, idle>>
  /\ UNCHANGED <<queues, hand, pc, searchVars, spinning, woken, stop, fresh>>

\* Worker::Wake(); WakeAll() goes on with the next one.
Wake(a) ==
  /\ npc[a] = "wake"
  /\ woken' = [woken EXCEPT ![target[a]] = @ \/ HasSleepState(target[a])]
  /\ target' = [target EXCEPT ![a] = None]
  /\ npc' = [npc EXCEPT ![a] = IF a = Stopper THEN "pop" ELSE "idle"]
  /\ UNCHANGED <<queues, hand, pc, searchVars, idle, spinning, stop, fresh>>

RequestStop ==
  /\ ~stop
  /\ stop' = TRUE
  /\ npc' = [npc EXCEPT ![Stopper] = "pop"]
  /\ UNCHANGED <<queues, hand, pc, searchVars, coordVars, target, fresh>>

----------------------------------------------------------------------------

Notify(a) == ShouldWakeWorker(a) \/ WakeWorker(a) \/ Wake(a)
WorkerStep(w) ==
  \/ Loop(w) \/ TryPopFromGlobalQueue(w) \/ TryPopLocal(w) \/ GrabTasksFromGlobalQueue(w)
  \/ StartSpinning(w) \/ TryStealTasks(w) \/ PushMany(w) \/ StopSpinning(w)
  \/ SaveSleepState(w) \/ StepDownAsActiveWorker(w) \/ CheckStop(w) \/ Sleep(w)
  \/ BecomeActiveWorker(w) \/ Finish(w) \/ GrabOverflow(w) \/ OffloadToGlobal(w)

Next ==
  \/ \E w \in Workers : WorkerStep(w) \/ \E t \in Tasks : PushLocal(w, t)
  \/ \E a \in Notifiers : Notify(a) \/ \E t \in Tasks : PushGlobal(a, t)
  \/ RequestStop

Spec == Init /\ [][Next]_vars

\* The threads run, and the tasks return to their workers.
Fairness ==
  /\ \A w \in Workers : WF_vars(WorkerStep(w))
  /\ \A a \in Notifiers : WF_vars(Notify(a))

----------------------------------------------------------------------------
(* Properties *)

Asleep(w) == pc[w] = "sleep" /\ ~woken[w]
Queued == Range(global) \cup UNION {Range(local[w]) \cup Range(buf[w]) : w \in Workers}

\* Every variable has its type, and the two halves of state_ count what they say.
TypeOK ==
  /\ Queued \cup fresh \subseteq Tasks
  /\ \A w \in Workers : Len(local[w]) <= LocalCapacity /\ hand[w] \in Tasks \cup {None}
  /\ spinning = Cardinality({w \in Workers : pc[w] \in {"steal", "stolen", "stopspin"}})
  /\ spinning * 2 <= Threads
  /\ IsInjective(idle) /\ Range(idle) \subseteq Workers
  /\ \A w \in Range(idle) : pc[w] \notin {"loop", "global", "local", "grab", "run", "done"}
  /\ \A a \in Notifiers : npc[a] = "wake" <=> target[a] # None

\* The workers are never all asleep while there is a task and nobody is about to wake
\* one of them: every order of pushing, spinning, stepping down and looking again.
NoTaskStranded ==
  Queued # {} =>
    \/ \E w \in Workers : ~Asleep(w)
    \/ \E a \in Notifiers : npc[a] # "idle"

\* A worker that goes to sleep can be found by WakeWorker(), or is being woken.
SleeperIsListed ==
  \A w \in Workers : Asleep(w) => Linked(w) \/ \E a \in Notifiers : target[a] = w
=============================================================================
