---------------------------- MODULE ContextTimer ----------------------------
(***************************************************************************)
(* The timer of a task (engine::impl::ContextTimer) and the way its         *)
(* parameters reach the ev thread without a lock: a pipe of two buffers     *)
(* whose locks and data bits are one atomic word (ev::DataPipeToEv), and a  *)
(* payload that is in the queue of the ev thread at most once               *)
(* (ev::MultiShotAsyncPayload).                                             *)
(* There is one producer, whichever worker runs the task, and one consumer, *)
(* the ev thread. The parameters of the n-th call of Restart() are n.       *)
(***************************************************************************)
EXTENDS Integers, Sequences

CONSTANT MaxPush       \* bound: calls of Restart() in the life of the timer

ASSUME MaxPushAssumption == MaxPush \in Nat

VARIABLES
  word,       \* DoubleBufferingState::state_
  buffer,     \* double_buffer_
  inQueue,    \* is_in_queue_ of the TimerArmer
  evQueue,    \* func_queue_ of the ev thread
  started,    \* WasStarted()
  pushed,     \* parameters of the last Restart() begun
  old,        \* producer: its last view of the word
  tries,      \* producer: cas_count
  pIndex,     \* producer: the buffer it locked
  pPc,        \* producer: where it is
  seen,       \* consumer: its view of the word
  cIndex,     \* consumer: the buffer it locked
  cPc,        \* consumer: where it is
  params,     \* params_: what the timer was last armed with
  active      \* the ev timer runs

wordVars == <<word, buffer>>
pVars == <<started, pushed, old, tries, pIndex, pPc>>
cVars == <<seen, cIndex, cPc, params, active>>
vars == <<wordVars, inQueue, evQueue, pVars, cVars>>

Indices == {0, 1}
Locked(i) == IF i = 0 THEN "kLocked0" ELSE "kLocked1"
DataIn(i) == IF i = 0 THEN "kDataIn0" ELSE "kDataIn1"
BufferFlags == {"kLocked0", "kLocked1", "kDataIn0", "kDataIn1"}

ProducerPcs == {"idle", "load", "cas", "write", "unlock", "prepare", "enqueue", "finalize", "done"}
ConsumerPcs == {"idle", "release", "load", "cas", "read", "unlock", "finalize", "stopped"}

Init ==
  /\ word = {}
  /\ buffer = [i \in Indices |-> 0]
  /\ inQueue = FALSE
  /\ evQueue = <<>>
  /\ started = FALSE
  /\ pushed = 0
  /\ old = {} /\ tries = 0 /\ pIndex = 0 /\ pPc = "idle"
  /\ seen = {} /\ cIndex = 0 /\ cPc = "idle"
  /\ params = 0
  /\ active = FALSE

----------------------------------------------------------------------------
(* The producer: Restart() *)

\* Start() and Restart(): a deadline already reached is served on the spot, the
\* parameters of any other are pushed.
Restart ==
  /\ pPc = "idle"
  /\ started' = TRUE
  /\ \/ UNCHANGED <<pushed, pPc>>
     \/ pushed < MaxPush /\ pushed' = pushed + 1 /\ pPc' = "load"
  /\ UNCHANGED <<wordVars, inQueue, evQueue, old, tries, pIndex, cVars>>

LockProducerLoad ==
  /\ pPc = "load"
  /\ old' = word
  /\ tries' = 0
  /\ pPc' = "cas"
  /\ UNCHANGED <<wordVars, inQueue, evQueue, started, pushed, pIndex, cVars>>

\* The buffer it wants and the word it expects, from its last view.
ChosenIndex(st) == IF "kLocked0" \notin st THEN 0 ELSE 1
Expected(st) == IF "kLocked0" \notin st THEN st ELSE st \ {"kLocked1"}

LockProducerCas ==
  LET i == ChosenIndex(old)
  IN  /\ pPc = "cas"
      /\ tries' = tries + 1
      /\ \/ /\ word = Expected(old)
            /\ word' = (word \cup {Locked(i), DataIn(i)}) \ {DataIn(1 - i)}
            /\ pIndex' = i
            /\ pPc' = "write"
            /\ UNCHANGED old
         \/ /\ word # Expected(old)
            /\ old' = word
            /\ UNCHANGED <<word, pIndex, pPc>>
      /\ UNCHANGED <<buffer, inQueue, evQueue, started, pushed, cVars>>

ProducerWrite ==
  /\ pPc = "write"
  /\ buffer' = [buffer EXCEPT ![pIndex] = pushed]
  /\ pPc' = "unlock"
  /\ UNCHANGED <<word, inQueue, evQueue, started, pushed, old, tries, pIndex, cVars>>

UnlockProducer ==
  /\ pPc = "unlock"
  /\ word' = word \ {Locked(pIndex)}
  /\ pPc' = "prepare"
  /\ UNCHANGED <<buffer, inQueue, evQueue, started, pushed, old, tries, pIndex, cVars>>

\* Mutant: the answer of the exchange is taken the wrong way round.
PrepareEnqueueInverted ==
  /\ pPc = "prepare"
  /\ inQueue' = TRUE
  /\ pPc' = IF inQueue THEN "enqueue" ELSE "idle"
  /\ UNCHANGED <<wordVars, evQueue, started, pushed, old, tries, pIndex, cVars>>

PrepareEnqueue ==
  /\ pPc = "prepare"
  /\ inQueue' = TRUE
  /\ pPc' = IF inQueue THEN "idle" ELSE "enqueue"
  /\ UNCHANGED <<wordVars, evQueue, started, pushed, old, tries, pIndex, cVars>>

RunPayloadInEvLoopDeferred ==
  /\ pPc = "enqueue"
  /\ evQueue' = Append(evQueue, "arm")
  /\ pPc' = "idle"
  /\ UNCHANGED <<wordVars, inQueue, started, pushed, old, tries, pIndex, cVars>>

\* The task has completed: nothing is pushed any more.
Finalize ==
  /\ pPc = "idle"
  /\ started
  /\ evQueue' = Append(evQueue, "finalize")
  /\ pPc' = "done"
  /\ UNCHANGED <<wordVars, inQueue, started, pushed, old, tries, pIndex, cVars>>

----------------------------------------------------------------------------
(* The consumer: the ev thread *)

PerformPayload ==
  /\ cPc = "idle"
  /\ evQueue # <<>>
  /\ evQueue' = Tail(evQueue)
  /\ cPc' = IF Head(evQueue) = "arm" THEN "release" ELSE "finalize"
  /\ UNCHANGED <<wordVars, inQueue, pVars, seen, cIndex, params, active>>

\* Mutant: is_in_queue_ is not reset.
PerformWithoutRelease ==
  /\ cPc = "release"
  /\ cPc' = "load"
  /\ UNCHANGED <<wordVars, inQueue, evQueue, pVars, seen, cIndex, params, active>>

PerformAndRelease ==
  /\ cPc = "release"
  /\ inQueue' = FALSE
  /\ cPc' = "load"
  /\ UNCHANGED <<wordVars, evQueue, pVars, seen, cIndex, params, active>>

\* Mutant: the lock of the producer is not respected.
LockConsumerLoadAny ==
  /\ cPc = "load"
  /\ seen' = word
  /\ \/ \E i \in Indices : DataIn(i) \in word /\ cIndex' = i /\ cPc' = "cas"
     \/ (\A i \in Indices : DataIn(i) \notin word) /\ cPc' = "idle" /\ UNCHANGED cIndex
  /\ UNCHANGED <<wordVars, inQueue, evQueue, pVars, params, active>>

\* LockConsumer(): the word is read, and given up if it offers nothing.
LockConsumerLoad ==
  /\ cPc = "load"
  /\ seen' = word
  /\ \/ \E i \in Indices :
          /\ DataIn(i) \in word
          /\ Locked(i) \notin word
          /\ cIndex' = i
          /\ cPc' = "cas"
     \/ /\ \A i \in Indices : DataIn(i) \in word => Locked(i) \in word
        /\ cPc' = "idle"
        /\ UNCHANGED cIndex
  /\ UNCHANGED <<wordVars, inQueue, evQueue, pVars, params, active>>

LockConsumerCas ==
  /\ cPc = "cas"
  /\ \/ /\ word = seen
        /\ word' = word \cup {Locked(cIndex)}
        /\ cPc' = "read"
     \/ word # seen /\ cPc' = "idle" /\ UNCHANGED word
  /\ UNCHANGED <<buffer, inQueue, evQueue, pVars, seen, cIndex, params, active>>

\* TryPop() moves the parameters out; DoArmTimerInEvThread() takes them over.
ConsumerRead ==
  /\ cPc = "read"
  /\ params' = buffer[cIndex]
  /\ cPc' = "unlock"
  /\ UNCHANGED <<wordVars, inQueue, evQueue, pVars, seen, cIndex, active>>

\* The lock goes, then the timer is armed, or serves a deadline already reached.
UnlockConsumerAndArm ==
  /\ cPc = "unlock"
  /\ word' = word \ {Locked(cIndex), DataIn(cIndex)}
  /\ active' \in BOOLEAN
  /\ cPc' = "idle"
  /\ UNCHANGED <<buffer, inQueue, evQueue, pVars, seen, cIndex, params>>

OnTimer ==
  /\ cPc = "idle"
  /\ active
  /\ active' = FALSE
  /\ UNCHANGED <<wordVars, inQueue, evQueue, pVars, seen, cIndex, cPc, params>>

\* The timer stops, the pipe is reset, and context_ is dropped.
DoFinalizeInEvThread ==
  /\ cPc = "finalize"
  /\ active' = FALSE
  /\ word' = {}
  /\ buffer' = [i \in Indices |-> 0]
  /\ cPc' = "stopped"
  /\ UNCHANGED <<inQueue, evQueue, pVars, seen, cIndex, params>>

----------------------------------------------------------------------------

ProducerStep ==
  \/ LockProducerLoad \/ LockProducerCas \/ ProducerWrite \/ UnlockProducer
  \/ PrepareEnqueue \/ RunPayloadInEvLoopDeferred

ConsumerStep ==
  \/ PerformPayload \/ PerformAndRelease \/ LockConsumerLoad \/ LockConsumerCas
  \/ ConsumerRead \/ UnlockConsumerAndArm \/ DoFinalizeInEvThread

Next == Restart \/ ProducerStep \/ Finalize \/ ConsumerStep \/ OnTimer

Spec == Init /\ [][Next]_vars

\* Both threads run; when the task calls Restart() is its own affair.
FairSpec == Spec /\ WF_vars(ProducerStep) /\ WF_vars(ConsumerStep)

----------------------------------------------------------------------------
(* Properties *)

\* Every variable has its type.
TypeOK ==
  /\ word \subseteq BufferFlags
  /\ buffer \in [Indices -> 0 .. MaxPush]
  /\ inQueue \in BOOLEAN
  /\ evQueue \in Seq({"arm", "finalize"})
  /\ started \in BOOLEAN
  /\ pushed \in 0 .. MaxPush
  /\ old \subseteq BufferFlags
  /\ tries \in Nat
  /\ pIndex \in Indices
  /\ pPc \in ProducerPcs
  /\ seen \subseteq BufferFlags
  /\ cIndex \in Indices
  /\ cPc \in ConsumerPcs
  /\ params \in 0 .. MaxPush
  /\ active \in BOOLEAN

Writing(i) == pPc \in {"write", "unlock"} /\ pIndex = i
Reading(i) == cPc \in {"read", "unlock"} /\ cIndex = i

\* The two threads are never in the same buffer, and a buffer is locked exactly
\* while one of them is in it: the accesses of double_buffer_ do not race.
BuffersExclusive ==
  \A i \in Indices :
    /\ ~(Writing(i) /\ Reading(i))
    /\ Locked(i) \in word <=> Writing(i) \/ Reading(i)

\* The word never says that both buffers hold the newest parameters (the
\* assertions of both unlocks), and what it calls data is the newest value.
OneNewest ==
  /\ ~({"kDataIn0", "kDataIn1"} \subseteq word)
  /\ \A i \in Indices : DataIn(i) \in word /\ ~Writing(i) =>
       buffer[i] = pushed \/ pPc \in {"load", "cas"} \/ Reading(i)

\* The assertion of LockProducer(): four attempts are enough.
CasBound == tries <= 4

\* The payload is in the queue at most once, an intrusive node twice would
\* corrupt it, and only if is_in_queue_ says so.
EnqueuedOnce ==
  /\ \A i, j \in 1 .. Len(evQueue) : evQueue[i] = evQueue[j] => i = j
  /\ (\E i \in 1 .. Len(evQueue) : evQueue[i] = "arm") \/ cPc = "release" \/ pPc = "enqueue" => inQueue

\* No update is lost: when nothing is on its way to the ev thread, it has the
\* parameters of the last Restart().
NothingLost ==
  (pPc = "idle" /\ cPc = "idle" /\ evQueue = <<>>) => params = pushed

\* The timer is never armed with older parameters after newer ones.
NewerOnly == [][params' # params => params' > params]_vars

\* After the finalizer has run, context_ and the timer may be destroyed: no
\* payload, no lock, no active timer is left behind.
FinalizedIsQuiet ==
  cPc = "stopped" => evQueue = <<>> /\ ~inQueue /\ word = {} /\ ~active

\* The parameters of a Restart() reach the timer, or newer ones do, unless the
\* task completes.
EventuallyArmed == \A n \in 1 .. MaxPush : (pushed = n) ~> (params >= n \/ pPc = "done")
=============================================================================
