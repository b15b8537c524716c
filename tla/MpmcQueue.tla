----------------------------- MODULE MpmcQueue -----------------------------
(***************************************************************************)
(* concurrent::GenericQueue with MultiProducerSide and MultiConsumerSide     *)
(* (NonFifoMpmcQueue). A producer takes capacity from one semaphore, pushes   *)
(* into the lock-free queue and gives an element permit to another, from      *)
(* which the consumers take theirs. The last consumer to die closes the       *)
(* first semaphore for good, the last producer to die opens the second, and   *)
(* whoever revives its side undoes that. The semaphores are what Semaphore    *)
(* shows of CancellableSemaphore, their capacity what CapacityControl shows,   *)
(* the lock-free queue a count.                                               *)
(***************************************************************************)
EXTENDS Integers, FiniteSets

CONSTANTS
  Producers, Consumers,
  MaxSize,              \* of the queue
  MaxPushes,            \* bound: elements pushed
  MaxLives,             \* bound: producers and consumers created
  ConcurrentRevival     \* a side may be revived while its last death is still being handled, which the
                        \* code allows; FALSE in MCLockFree, README shows what TRUE leads to

QueueAssumption ==
  /\ IsFiniteSet(Producers) /\ IsFiniteSet(Consumers)
  /\ {MaxSize, MaxPushes, MaxLives} \subseteq Nat
  /\ ConcurrentRevival \in BOOLEAN

kCreatedAndDead == -1

VARIABLES
  queue,            \* elements in the lock-free queue
  used,             \* permits taken from remaining_capacity_
  closed,           \* its capacity is overridden by 0
  permits,          \* permits left in element_count_, negative if taken while open
  open,             \* its capacity is overridden by a large number
  producers,        \* producers_count_
  consumers,        \* consumers_count_
  ppc, cpc,         \* where each producer and each consumer is
  pushes, lives

semVars == <<used, closed, permits, open>>
vars == <<queue, semVars, producers, consumers, ppc, cpc, pushes, lives>>

Init ==
  /\ queue = 0
  /\ used = 0
  /\ closed = FALSE
  /\ permits = 0
  /\ open = FALSE
  /\ producers = 0
  /\ consumers = 0
  /\ ppc = [p \in Producers |-> "none"]
  /\ cpc = [c \in Consumers |-> "none"]
  /\ pushes = 0
  /\ lives = 0

NoMoreConsumers == consumers = kCreatedAndDead
NoMoreProducers == producers = kCreatedAndDead

Joined(count) == IF count = kCreatedAndDead THEN 1 ELSE count + 1
Left(count) == IF count = 1 THEN kCreatedAndDead ELSE count - 1

----------------------------------------------------------------------------
(* Producers *)

\* GetProducer(): the first after the last death resumes the blocking of Pop().
PrepareProducer(p) ==
  /\ ppc[p] = "none"
  /\ lives < MaxLives
  /\ ConcurrentRevival \/ \A q \in Producers : ppc[q] # "stop"
  /\ lives' = lives + 1
  /\ producers' = Joined(producers)
  /\ ppc' = [ppc EXCEPT ![p] = IF NoMoreProducers THEN "resume" ELSE "idle"]
  /\ UNCHANGED <<queue, semVars, consumers, cpc, pushes>>

ResumeBlockingOnPop(p) ==
  /\ ppc[p] = "resume"
  /\ open' = FALSE
  /\ ppc' = [ppc EXCEPT ![p] = "idle"]
  /\ UNCHANGED <<queue, used, closed, permits, producers, consumers, cpc, pushes, lives>>

BeginPush(p) ==
  /\ ppc[p] = "idle"
  /\ pushes < MaxPushes
  /\ pushes' = pushes + 1
  /\ ppc' = [ppc EXCEPT ![p] = "lock"]
  /\ UNCHANGED <<queue, semVars, producers, consumers, cpc, lives>>

LockCapacity(p) ==
  /\ ppc[p] = "lock"
  /\ ~closed
  /\ used < MaxSize
  /\ used' = used + 1
  /\ ppc' = [ppc EXCEPT ![p] = "push"]
  /\ UNCHANGED <<queue, closed, permits, open, producers, consumers, cpc, pushes, lives>>

\* The semaphore fails for good when its capacity is 0; PushNoblock(), a deadline
\* or a cancellation give up when the queue is full.
PushFails(p) ==
  /\ ppc[p] = "lock"
  /\ closed \/ used >= MaxSize
  /\ ppc' = [ppc EXCEPT ![p] = "idle"]
  /\ UNCHANGED <<queue, semVars, producers, consumers, cpc, pushes, lives>>

\* Mutant: the capacity is kept when nobody is left to pop.
DoPushLeaky(p) ==
  /\ ppc[p] = "push"
  /\ \/ NoMoreConsumers /\ ppc' = [ppc EXCEPT ![p] = "idle"] /\ UNCHANGED queue
     \/ ~NoMoreConsumers /\ queue' = queue + 1 /\ ppc' = [ppc EXCEPT ![p] = "signal"]
  /\ UNCHANGED <<semVars, producers, consumers, cpc, pushes, lives>>

DoPush(p) ==
  /\ ppc[p] = "push"
  /\ \/ /\ NoMoreConsumers
        /\ used' = used - 1
        /\ ppc' = [ppc EXCEPT ![p] = "idle"]
        /\ UNCHANGED queue
     \/ /\ ~NoMoreConsumers
        /\ queue' = queue + 1
        /\ ppc' = [ppc EXCEPT ![p] = "signal"]
        /\ UNCHANGED used
  /\ UNCHANGED <<closed, permits, open, producers, consumers, cpc, pushes, lives>>

OnElementPushed(p) ==
  /\ ppc[p] = "signal"
  /\ permits' = permits + 1
  /\ ppc' = [ppc EXCEPT ![p] = "idle"]
  /\ UNCHANGED <<queue, used, closed, open, producers, consumers, cpc, pushes, lives>>

MarkProducerIsDead(p) ==
  /\ ppc[p] = "idle"
  /\ producers' = Left(producers)
  /\ ppc' = [ppc EXCEPT ![p] = IF producers = 1 THEN "stop" ELSE "none"]
  /\ UNCHANGED <<queue, semVars, consumers, cpc, pushes, lives>>

StopBlockingOnPop(p) ==
  /\ ppc[p] = "stop"
  /\ open' = TRUE
  /\ ppc' = [ppc EXCEPT ![p] = "none"]
  /\ UNCHANGED <<queue, used, closed, permits, producers, consumers, cpc, pushes, lives>>

----------------------------------------------------------------------------
(* Consumers *)

PrepareConsumer(c) ==
  /\ cpc[c] = "none"
  /\ lives < MaxLives
  /\ ConcurrentRevival \/ \A d \in Consumers : cpc[d] # "stop"
  /\ lives' = lives + 1
  /\ consumers' = Joined(consumers)
  /\ cpc' = [cpc EXCEPT ![c] = IF NoMoreConsumers THEN "resume" ELSE "idle"]
  /\ UNCHANGED <<queue, semVars, producers, ppc, pushes>>

ResumeBlockingOnPush(c) ==
  /\ cpc[c] = "resume"
  /\ closed' = FALSE
  /\ cpc' = [cpc EXCEPT ![c] = "idle"]
  /\ UNCHANGED <<queue, used, permits, open, producers, consumers, ppc, pushes, lives>>

BeginPop(c) ==
  /\ cpc[c] = "idle"
  /\ cpc' = [cpc EXCEPT ![c] = "wait"]
  /\ UNCHANGED <<queue, semVars, producers, consumers, ppc, pushes, lives>>

LockElement(c) ==
  /\ cpc[c] = "wait"
  /\ open \/ permits > 0
  /\ permits' = permits - 1
  /\ cpc' = [cpc EXCEPT ![c] = "pop"]
  /\ UNCHANGED <<queue, used, closed, open, producers, consumers, ppc, pushes, lives>>

\* PopNoblock(), a deadline or a cancellation.
PopFails(c) ==
  /\ cpc[c] = "wait"
  /\ ~open
  /\ permits <= 0
  /\ cpc' = [cpc EXCEPT ![c] = "idle"]
  /\ UNCHANGED <<queue, semVars, producers, consumers, ppc, pushes, lives>>

DoPop(c) ==
  /\ cpc[c] = "pop"
  /\ queue > 0
  /\ queue' = queue - 1
  /\ cpc' = [cpc EXCEPT ![c] = "popped"]
  /\ UNCHANGED <<semVars, producers, consumers, ppc, pushes, lives>>

\* try_dequeue() finds nothing: the queue is empty, or another consumer took our
\* element and left its own in a sub-queue we had passed.
DoPopMisses(c) ==
  /\ cpc[c] = "pop"
  /\ queue = 0 \/ consumers > 1
  /\ cpc' = [cpc EXCEPT ![c] = "missed"]
  /\ UNCHANGED <<queue, semVars, producers, consumers, ppc, pushes, lives>>

\* Gives up only when nobody is left to push.
AfterMiss(c) ==
  /\ cpc[c] = "missed"
  /\ \/ /\ NoMoreProducers
        /\ permits' = permits + 1
        /\ cpc' = [cpc EXCEPT ![c] = "idle"]
     \/ /\ ~NoMoreProducers
        /\ cpc' = [cpc EXCEPT ![c] = "pop"]
        /\ UNCHANGED permits
  /\ UNCHANGED <<queue, used, closed, open, producers, consumers, ppc, pushes, lives>>

OnElementPopped(c) ==
  /\ cpc[c] = "popped"
  /\ used' = used - 1
  /\ cpc' = [cpc EXCEPT ![c] = "idle"]
  /\ UNCHANGED <<queue, closed, permits, open, producers, consumers, ppc, pushes, lives>>

MarkConsumerIsDead(c) ==
  /\ cpc[c] = "idle"
  /\ consumers' = Left(consumers)
  /\ cpc' = [cpc EXCEPT ![c] = IF consumers = 1 THEN "stop" ELSE "none"]
  /\ UNCHANGED <<queue, semVars, producers, ppc, pushes, lives>>

StopBlockingOnPush(c) ==
  /\ cpc[c] = "stop"
  /\ closed' = TRUE
  /\ cpc' = [cpc EXCEPT ![c] = "none"]
  /\ UNCHANGED <<queue, used, permits, open, producers, consumers, ppc, pushes, lives>>

----------------------------------------------------------------------------

ProducerStep(p) ==
  ResumeBlockingOnPop(p) \/ LockCapacity(p) \/ DoPush(p) \/ OnElementPushed(p) \/ StopBlockingOnPop(p)

ConsumerStep(c) ==
  \/ ResumeBlockingOnPush(c) \/ LockElement(c) \/ DoPop(c) \/ DoPopMisses(c) \/ AfterMiss(c)
  \/ OnElementPopped(c) \/ StopBlockingOnPush(c)

Next ==
  \/ \E p \in Producers :
       PrepareProducer(p) \/ BeginPush(p) \/ PushFails(p) \/ MarkProducerIsDead(p) \/ ProducerStep(p)
  \/ \E c \in Consumers :
       PrepareConsumer(c) \/ BeginPop(c) \/ PopFails(c) \/ MarkConsumerIsDead(c) \/ ConsumerStep(c)

Spec == Init /\ [][Next]_vars

\* What a producer or a consumer has begun goes on; nobody has to push or to die.
\* A consumer that retries misses its element only while others move theirs.
Fairness ==
  /\ \A p \in Producers : WF_vars(ProducerStep(p))
  /\ \A c \in Consumers : WF_vars(ConsumerStep(c)) /\ SF_vars(DoPop(c))

----------------------------------------------------------------------------
(* Properties *)

\* Every variable has its type.
TypeOK ==
  /\ queue \in 0 .. MaxPushes
  /\ used \in 0 .. MaxSize
  /\ permits \in -(Cardinality(Producers) + Cardinality(Consumers)) .. MaxPushes
  /\ {closed, open} \subseteq BOOLEAN
  /\ producers \in {kCreatedAndDead} \cup 0 .. Cardinality(Producers)
  /\ consumers \in {kCreatedAndDead} \cup 0 .. Cardinality(Consumers)
  /\ ppc \in [Producers -> {"none", "resume", "idle", "lock", "push", "signal", "stop"}]
  /\ cpc \in [Consumers -> {"none", "resume", "idle", "wait", "pop", "missed", "popped", "stop"}]
  /\ pushes \in 0 .. MaxPushes
  /\ lives \in 0 .. MaxLives

\* Both semaphores agree with the queue, through every push that found no consumer
\* and every pop that found no element: capacity and permits are neither lost nor
\* invented.
PermitsAccounted ==
  LET At(pc, s) == Cardinality({x \in DOMAIN pc : pc[x] = s}) IN
  /\ used = queue + At(ppc, "push") + At(cpc, "popped")
  /\ permits = queue - At(ppc, "signal") - At(cpc, "pop") - At(cpc, "missed")

\* Push() is refused for good only while there is no consumer.
ClosedOnlyWithoutConsumers ==
  closed => (NoMoreConsumers \/ \E c \in Consumers : cpc[c] = "resume")

\* Consumers are let through without an element only while there is no producer.
OpenOnlyWithoutProducers ==
  open => (NoMoreProducers \/ \E p \in Producers : ppc[p] = "resume")

=============================================================================
