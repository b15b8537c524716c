----------------------- MODULE TaskProcessorShutdown -----------------------
(***************************************************************************)
(* The end of an engine::TaskProcessor: Cleanup() cancels the detached      *)
(* tasks, waits for the last TaskContext, stops the queue and joins the     *)
(* workers, while tasks are still spawned, scheduled, detached and ended.   *)
(* A task is what the processor sees of it; a sleeping task may sleep for   *)
(* ever unless it is cancelled. The queue is not FIFO across producers, so  *)
(* it is a set.                                                             *)
(***************************************************************************)
EXTENDS Integers, FiniteSets

CONSTANTS Tasks, Workers, NoTask, StopMark

ShutdownAssumption ==
  /\ NoTask \notin Tasks
  /\ StopMark \notin Tasks \cup {NoTask}
  /\ IsFiniteSet(Tasks)

VARIABLES
  life,        \* state of each TaskContext
  cancelled,   \* cancellation_reason_ of each task is not kNone
  refs,        \* intrusive reference count of each TaskContext
  handle,      \* an engine::Task still owns the task
  add,         \* where DetachedTasksSyncBlock::Add() of the task is
  node,        \* the Token it acquired, 0 before
  awaiter,     \* the Token among the task's finish_awaiters_, 0 if none
  nodes,       \* length of permanent_list_; its head is the last node
  free,        \* free_list_
  pointer,     \* Token::task of each node
  newCancel,   \* cancel_new_tasks is not kNone
  cleaner,     \* where Cleanup() is
  cursor,      \* the node Walk() looks at next
  held,        \* the task Walk() took out of a token and not yet cancelled
  queue,       \* task_queue_
  worker       \* what each worker thread does

taskVars == <<life, cancelled, refs>>
addVars == <<handle, add, node, awaiter>>
poolVars == <<nodes, free, pointer>>
cleanVars == <<newCancel, cleaner, cursor, held>>
vars == <<taskVars, addVars, poolVars, cleanVars, queue, worker>>

MaxNodes == Cardinality(Tasks)
Idle == [at |-> "idle", task |-> NoTask, token |-> 0]

Init ==
  /\ life = [t \in Tasks |-> "unborn"]
  /\ cancelled = [t \in Tasks |-> FALSE]
  /\ refs = [t \in Tasks |-> 0]
  /\ handle = [t \in Tasks |-> FALSE]
  /\ add = [t \in Tasks |-> "none"]
  /\ node = [t \in Tasks |-> 0]
  /\ awaiter = [t \in Tasks |-> 0]
  /\ nodes = 0
  /\ free = {}
  /\ pointer = [n \in 1 .. MaxNodes |-> NoTask]
  /\ newCancel = FALSE
  /\ cleaner = "up"
  /\ cursor = 0
  /\ held = NoTask
  /\ queue = {}
  /\ worker = [w \in Workers |-> Idle]

Alive(t) == life[t] \notin {"unborn", "gone"}
ShuttingDown == cleaner # "up"

\* intrusive_ptr releases k references; the last one destroys the context.
Release(t, k) ==
  /\ refs' = [refs EXCEPT ![t] = @ - k]
  /\ life' = IF refs[t] = k THEN [life EXCEPT ![t] = "gone"] ELSE life

\* Schedule(): cancels during shutdown, then pushes; a sleeping task wakes up.
Enqueue(t, cancel) ==
  /\ cancelled' = [cancelled EXCEPT ![t] = @ \/ cancel \/ ShuttingDown]
  /\ life' = [life EXCEPT ![t] = "queued"]
  /\ queue' = queue \cup {t}

\* RequestCancel(): wakes the task up if it sleeps.
Cancel(t) ==
  \/ /\ life[t] = "asleep"
     /\ Enqueue(t, TRUE)
  \/ /\ life[t] # "asleep"
     /\ cancelled' = [cancelled EXCEPT ![t] = TRUE]
     /\ UNCHANGED <<life, queue>>

----------------------------------------------------------------------------
(* Owners of tasks *)

\* A context is constructed: before the shutdown, or by a task that still runs.
Spawn(t) ==
  /\ life[t] = "unborn"
  /\ ~ShuttingDown \/ \E w \in Workers : worker[w].at = "run"
  /\ life' = [life EXCEPT ![t] = "bound"]
  /\ refs' = [refs EXCEPT ![t] = 1]
  /\ handle' = [handle EXCEPT ![t] = TRUE]
  /\ UNCHANGED <<cancelled, add, node, awaiter, poolVars, cleanVars, queue, worker>>

\* The bootstrap wakeup of Task's constructor; the queue holds a reference.
Schedule(t) ==
  /\ life[t] = "bound"
  /\ Enqueue(t, FALSE)
  /\ refs' = [refs EXCEPT ![t] = @ + 1]
  /\ UNCHANGED <<addVars, poolVars, cleanVars, worker>>

\* What the task waited for happens.
Wakeup(t) ==
  /\ life[t] = "asleep"
  /\ Enqueue(t, FALSE)
  /\ UNCHANGED <<refs, addVars, poolVars, cleanVars, worker>>

\* Terminate() of a Task that is destroyed: cancel, wait, release.
Terminate(t) ==
  /\ handle[t] /\ add[t] = "none"
  /\ life[t] \in {"queued", "running", "asleep"}
  /\ ~cancelled[t]
  /\ Cancel(t)
  /\ UNCHANGED <<refs, addVars, poolVars, cleanVars, worker>>

DropHandle(t) ==
  /\ handle[t] /\ add[t] = "none"
  /\ life[t] = "finished"
  /\ handle' = [handle EXCEPT ![t] = FALSE]
  /\ Release(t, 1)
  /\ UNCHANGED <<cancelled, add, node, awaiter, poolVars, cleanVars, queue, worker>>

----------------------------------------------------------------------------
(* DetachedTasksSyncBlock::Add() on behalf of DetachUnscopedUnsafe() *)

\* IntrusiveWalkablePool::Acquire(): a free node, or a new head of the list, also when a
\* node has become free since TryPop() found none. A task acquires once, so the bound on
\* the nodes is never in its way.
Acquire(t) ==
  /\ handle[t] /\ add[t] = "none"
  /\ life[t] \notin {"unborn", "bound"}
  /\ add' = [add EXCEPT ![t] = "acquired"]
  /\ \/ \E n \in free :
          /\ free' = free \ {n}
          /\ node' = [node EXCEPT ![t] = n]
          /\ UNCHANGED nodes
     \/ /\ nodes < MaxNodes
        /\ nodes' = nodes + 1
        /\ node' = [node EXCEPT ![t] = nodes + 1]
        /\ UNCHANGED free
  /\ UNCHANGED <<taskVars, handle, awaiter, pointer, cleanVars, queue, worker>>

\* The token gets a pointer that owns a reference.
StorePointer(t) ==
  /\ add[t] = "acquired"
  /\ add' = [add EXCEPT ![t] = "stored"]
  /\ pointer' = [pointer EXCEPT ![node[t]] = t]
  /\ refs' = [refs EXCEPT ![t] = @ + 1]
  /\ UNCHANGED <<life, cancelled, handle, node, awaiter, nodes, free, cleanVars, queue, worker>>

\* Dispose(): takes the pointer out, with its reference, and frees the node;
\* the caller gives up so many references of its own.
Dispose(n, t, more) ==
  /\ pointer' = [pointer EXCEPT ![n] = NoTask]
  /\ free' = free \cup {n}
  /\ Release(t, more + IF pointer[n] = NoTask THEN 0 ELSE 1)

\* TryAppendAwaiter(), which leaves the awaiter to the caller if the task has finished.
AppendAwaiter(t) ==
  /\ add[t] = "stored"
  /\ add' = [add EXCEPT ![t] = "appended"]
  /\ \/ /\ life[t] # "finished"
        /\ awaiter' = [awaiter EXCEPT ![t] = node[t]]
        /\ UNCHANGED <<taskVars, poolVars>>
     \/ /\ life[t] = "finished"
        /\ Dispose(node[t], t, 0)
        /\ UNCHANGED <<cancelled, nodes, awaiter>>
  /\ UNCHANGED <<handle, node, cleanVars, queue, worker>>

\* Mutant: new tasks are not cancelled by Add().
LoadNothing(t) ==
  /\ add[t] = "appended"
  /\ add' = [add EXCEPT ![t] = "release"]
  /\ UNCHANGED <<taskVars, handle, node, awaiter, poolVars, cleanVars, queue, worker>>

LoadCancelNewTasks(t) ==
  /\ add[t] = "appended"
  /\ add' = [add EXCEPT ![t] = IF newCancel THEN "cancel" ELSE "release"]
  /\ UNCHANGED <<taskVars, handle, node, awaiter, poolVars, cleanVars, queue, worker>>

CancelNewTask(t) ==
  /\ add[t] = "cancel"
  /\ add' = [add EXCEPT ![t] = "release"]
  /\ Cancel(t)
  /\ UNCHANGED <<refs, handle, node, awaiter, poolVars, cleanVars, worker>>

\* Adopt() has returned and the Task becomes invalid.
ReleaseHandle(t) ==
  /\ add[t] = "release"
  /\ add' = [add EXCEPT ![t] = "done"]
  /\ handle' = [handle EXCEPT ![t] = FALSE]
  /\ Release(t, 1)
  /\ UNCHANGED <<cancelled, node, awaiter, poolVars, cleanVars, queue, worker>>

AddStep(t) ==
  \/ StorePointer(t) \/ AppendAwaiter(t) \/ LoadCancelNewTasks(t) \/ CancelNewTask(t) \/ ReleaseHandle(t)

----------------------------------------------------------------------------
(* Worker threads *)

Pop(w) ==
  /\ worker[w].at = "idle"
  /\ \E x \in queue :
       /\ queue' = queue \ {x}
       /\ \/ /\ x = StopMark
             /\ worker' = [worker EXCEPT ![w].at = "stop"]
             /\ UNCHANGED life
          \/ /\ x # StopMark
             /\ worker' = [worker EXCEPT ![w] = [at |-> "run", task |-> x, token |-> 0]]
             /\ life' = [life EXCEPT ![x] = "running"]
  /\ UNCHANGED <<cancelled, refs, addVars, poolVars, cleanVars>>

\* Mutant: the worker keeps the "stop" token for itself.
KeepStop(w) ==
  /\ worker[w].at = "stop"
  /\ worker' = [worker EXCEPT ![w].at = "exited"]
  /\ UNCHANGED <<taskVars, addVars, poolVars, cleanVars, queue>>

\* PopBlocking() returns the "stop" token to the queue, and ProcessTasks() ends.
ReturnStop(w) ==
  /\ worker[w].at = "stop"
  /\ queue' = queue \cup {StopMark}
  /\ worker' = [worker EXCEPT ![w].at = "exited"]
  /\ UNCHANGED <<taskVars, addVars, poolVars, cleanVars>>

\* DoStep() ends with a sleep that no cancellation prevents.
Sleep(w) ==
  /\ worker[w].at = "run"
  /\ ~cancelled[worker[w].task]
  /\ life' = [life EXCEPT ![worker[w].task] = "asleep"]
  /\ worker' = [worker EXCEPT ![w] = Idle]
  /\ UNCHANGED <<cancelled, refs, addVars, poolVars, cleanVars, queue>>

\* The task is complete: its state is final and the awaiters are taken.
Complete(w) ==
  LET t == worker[w].task IN
  /\ worker[w].at = "run"
  /\ life' = [life EXCEPT ![t] = "finished"]
  /\ awaiter' = [awaiter EXCEPT ![t] = 0]
  /\ worker' = [worker EXCEPT ![w] = [at |-> "notify", task |-> t, token |-> awaiter[t]]]
  /\ UNCHANGED <<cancelled, refs, handle, add, node, poolVars, cleanVars, queue>>

\* They are notified, and DoStep() drops the worker's reference.
NotifyAll(w) ==
  LET t == worker[w].task
      n == worker[w].token IN
  /\ worker[w].at = "notify"
  /\ worker' = [worker EXCEPT ![w] = Idle]
  /\ \/ n = 0 /\ Release(t, 1) /\ UNCHANGED poolVars
     \/ n # 0 /\ Dispose(n, t, 1) /\ UNCHANGED nodes
  /\ UNCHANGED <<cancelled, addVars, cleanVars, queue>>

----------------------------------------------------------------------------
(* Cleanup() *)

InitiateShutdown ==
  /\ cleaner = "up"
  /\ cleaner' = "flagged"
  /\ UNCHANGED <<taskVars, addVars, poolVars, newCancel, cursor, held, queue, worker>>

\* RequestCancellation(): the flag for new tasks first, then the walk.
StoreCancelNewTasks ==
  /\ cleaner = "flagged"
  /\ cleaner' = "walking"
  /\ newCancel' = TRUE
  /\ cursor' = nodes
  /\ UNCHANGED <<taskVars, addVars, poolVars, held, queue, worker>>

WalkExchange ==
  /\ cleaner = "walking" /\ cursor > 0 /\ held = NoTask
  /\ held' = pointer[cursor]
  /\ pointer' = [pointer EXCEPT ![cursor] = NoTask]
  /\ cursor' = cursor - 1
  /\ UNCHANGED <<taskVars, addVars, nodes, free, newCancel, cleaner, queue, worker>>

\* The walk cancels the task and drops the token's reference to it.
WalkCancel ==
  /\ held # NoTask
  /\ held' = NoTask
  /\ refs' = [refs EXCEPT ![held] = @ - 1]
  /\ cancelled' = [cancelled EXCEPT ![held] = TRUE]
  /\ \/ /\ refs[held] = 1
        /\ life' = [life EXCEPT ![held] = "gone"]
        /\ UNCHANGED queue
     \/ /\ refs[held] # 1
        /\ IF life[held] = "asleep"
           THEN life' = [life EXCEPT ![held] = "queued"] /\ queue' = queue \cup {held}
           ELSE UNCHANGED <<life, queue>>
  /\ UNCHANGED <<addVars, poolVars, newCancel, cleaner, cursor, worker>>

WalkEnd ==
  /\ cleaner = "walking" /\ cursor = 0 /\ held = NoTask
  /\ cleaner' = "waiting"
  /\ UNCHANGED <<taskVars, addVars, poolVars, newCancel, cursor, held, queue, worker>>

\* WaitForExhaustionBlocking() sees no context alive, then StopProcessing().
StopProcessing ==
  /\ cleaner = "waiting"
  /\ \A t \in Tasks : ~Alive(t)
  /\ queue' = queue \cup {StopMark}
  /\ cleaner' = "joining"
  /\ UNCHANGED <<taskVars, addVars, poolVars, newCancel, cursor, held, worker>>

Join ==
  /\ cleaner = "joining"
  /\ \A w \in Workers : worker[w].at = "exited"
  /\ cleaner' = "down"
  /\ UNCHANGED <<taskVars, addVars, poolVars, newCancel, cursor, held, queue, worker>>

CleanupStep == StoreCancelNewTasks \/ WalkExchange \/ WalkCancel \/ WalkEnd \/ StopProcessing \/ Join

----------------------------------------------------------------------------

Next ==
  \/ \E t \in Tasks :
       Spawn(t) \/ Schedule(t) \/ Wakeup(t) \/ Terminate(t) \/ DropHandle(t) \/ Acquire(t) \/ AddStep(t)
  \/ \E w \in Workers : Pop(w) \/ ReturnStop(w) \/ Sleep(w) \/ Complete(w) \/ NotifyAll(w)
  \/ InitiateShutdown \/ CleanupStep

Spec == Init /\ [][Next]_vars

\* Threads run; a task that is started gets scheduled and its handle is destroyed
\* or detached one day; a cancelled task completes; Cleanup() goes on once called.
Fairness ==
  /\ WF_vars(CleanupStep)
  /\ \A t \in Tasks : WF_vars(Schedule(t)) /\ WF_vars(AddStep(t)) /\ WF_vars(Terminate(t) \/ DropHandle(t))
  /\ \A w \in Workers :
       /\ WF_vars(Pop(w)) /\ WF_vars(ReturnStop(w)) /\ WF_vars(NotifyAll(w))
       /\ WF_vars(Complete(w) /\ cancelled[worker[w].task])

----------------------------------------------------------------------------
(* Properties *)

\* Every variable has its type.
TypeOK ==
  /\ life \in [Tasks -> {"unborn", "bound", "queued", "running", "asleep", "finished", "gone"}]
  /\ cancelled \in [Tasks -> BOOLEAN]
  /\ refs \in [Tasks -> 0 .. 4]
  /\ handle \in [Tasks -> BOOLEAN]
  /\ add \in [Tasks -> {"none", "acquired", "stored", "appended", "cancel", "release", "done"}]
  /\ node \in [Tasks -> 0 .. MaxNodes]
  /\ awaiter \in [Tasks -> 0 .. MaxNodes]
  /\ nodes \in 0 .. MaxNodes
  /\ free \subseteq 1 .. nodes
  /\ pointer \in [1 .. MaxNodes -> Tasks \cup {NoTask}]
  /\ newCancel \in BOOLEAN
  /\ cleaner \in {"up", "flagged", "walking", "waiting", "joining", "down"}
  /\ cursor \in 0 .. nodes
  /\ held \in Tasks \cup {NoTask}
  /\ queue \subseteq Tasks \cup {StopMark}
  /\ worker \in [Workers -> [at : {"idle", "run", "notify", "stop", "exited"},
                             task : Tasks \cup {NoTask}, token : 0 .. MaxNodes]]

\* Whichever way Add() and RequestCancellation() interleave, and whichever node
\* the pool hands out, a detached task is cancelled once both are over: by the
\* walk, that found its token, or by Add(), that saw the flag.
DetachedAreCancelled ==
  \A t \in Tasks :
    (cleaner \in {"waiting", "joining", "down"} /\ add[t] \in {"release", "done"}
       /\ life[t] \in {"queued", "running", "asleep"}) => cancelled[t]

\* The references are those of the handle, of the engine, of a token and of the
\* walk: no token holds the address of a destroyed TaskContext, and none is leaked.
Count(P) == IF P THEN 1 ELSE 0
RefsExact ==
  \A t \in Tasks :
    refs[t] = Count(handle[t]) + Count(life[t] \in {"queued", "running", "asleep"})
                + Count(\E w \in Workers : worker[w].at = "notify" /\ worker[w].task = t)
                + Cardinality({n \in 1 .. MaxNodes : pointer[n] = t}) + Count(held = t)

\* A token that waits in the pool is empty, as Add() asserts of the one it gets,
\* and no two tasks share a token.
TokensAreOwned ==
  /\ \A n \in free : pointer[n] = NoTask
  /\ \A n \in 1 .. nodes : pointer[n] # NoTask => node[pointer[n]] = n
  /\ \A t \in Tasks : awaiter[t] # 0 => awaiter[t] \notin free

\* Once the queue is stopped nothing is left that a worker would have to run:
\* a "stop" token never overtakes a task.
NothingAfterStop ==
  cleaner \in {"joining", "down"} => \A t \in Tasks : ~Alive(t)

=============================================================================
