------------------------- MODULE ContextTimerProofs -------------------------
(***************************************************************************)
(* The timer of a task for any number of calls of Restart().                *)
(*                                                                         *)
(* The pipe is free of data races: the producer and the consumer are never  *)
(* in the same buffer. No parameters are lost: what the word calls data is  *)
(* the newest value, the ev thread has the newest value if the word offers  *)
(* none, and as long as it offers one a payload is queued or the ev thread  *)
(* is about to take it. The finalizer leaves nothing behind, and the        *)
(* producer's loop ends after four attempts.                                *)
(***************************************************************************)
EXTENDS ContextTimer, SequenceTheorems, TLAPS

----------------------------------------------------------------------------
(* No data race *)

\* The types of what the locks of the buffers depend on.
PipeType ==
  /\ word \subseteq BufferFlags
  /\ old \subseteq BufferFlags
  /\ seen \subseteq BufferFlags
  /\ pIndex \in Indices
  /\ cIndex \in Indices
  /\ pPc \in ProducerPcs
  /\ cPc \in ConsumerPcs
  /\ evQueue \in Seq({"arm", "finalize"})

\* The consumer attempts to lock a buffer only from a word in which it is free.
ConsumerView == cPc = "cas" => Locked(cIndex) \notin seen

\* The finalizer, which resets the word without looking at it, comes after the
\* last step of the producer.
FinalizerLast ==
  (cPc \in {"finalize", "stopped"} \/ \E i \in 1 .. Len(evQueue) : evQueue[i] = "finalize") => pPc = "done"

PipeInv == PipeType /\ BuffersExclusive /\ ConsumerView /\ FinalizerLast

\* The two lock bits differ from each other and from the data bits.
LEMMA FlagFacts ==
  /\ Locked(0) = "kLocked0" /\ Locked(1) = "kLocked1"
  /\ DataIn(0) = "kDataIn0" /\ DataIn(1) = "kDataIn1"
  /\ \A i \in Indices : Locked(i) \in BufferFlags /\ DataIn(i) \in BufferFlags
  /\ \A i, j \in Indices : Locked(i) # DataIn(j) /\ (Locked(i) = Locked(j) => i = j)
BY DEF Locked, DataIn, Indices, BufferFlags

\* What the producer's compare-and-exchange locks was free: the bit it expects
\* to be clear is the bit it sets.
LEMMA ProducerTakesFree ==
  ASSUME word = Expected(old)
  PROVE  ChosenIndex(old) \in Indices /\ Locked(ChosenIndex(old)) \notin word
BY FlagFacts DEF Expected, ChosenIndex, Indices

\* A step of the producer keeps the invariant.
LEMMA ProducerPipe ==
  ASSUME PipeInv, Restart \/ ProducerStep \/ Finalize
  PROVE  PipeInv'
<1> USE DEF PipeInv
<1>1. CASE Restart
  BY <1>1 DEF Restart, PipeType, BuffersExclusive, ConsumerView, FinalizerLast, Writing, Reading,
              ProducerPcs, wordVars, cVars
<1>2. CASE LockProducerLoad
  BY <1>2 DEF LockProducerLoad, PipeType, BuffersExclusive, ConsumerView, FinalizerLast, Writing, Reading,
              ProducerPcs, wordVars, cVars
<1>3. CASE LockProducerCas
  <2>1. CASE word = Expected(old)
    <3> DEFINE i == ChosenIndex(old)
    <3>1. i \in Indices /\ Locked(i) \notin word
      BY <2>1, ProducerTakesFree
    <3>2. /\ pPc = "cas" /\ pPc' = "write" /\ pIndex' = i
          /\ word' = (word \cup {Locked(i), DataIn(i)}) \ {DataIn(1 - i)}
          /\ UNCHANGED <<old, evQueue, seen, cIndex, cPc>>
      BY <1>3, <2>1 DEF LockProducerCas, cVars
    <3> HIDE DEF i
    <3>3. PipeType'
      BY <3>1, <3>2, FlagFacts DEF PipeType, ProducerPcs
    <3>4. \A j \in Indices : Locked(j) \in word' <=> Locked(j) \in word \/ j = i
      BY <3>1, <3>2, FlagFacts DEF Indices
    <3>5. BuffersExclusive'
      BY <3>1, <3>2, <3>4 DEF BuffersExclusive, Writing, Reading
    <3> QED BY <3>2, <3>3, <3>5 DEF ConsumerView, FinalizerLast
  <2>2. CASE word # Expected(old)
    BY <1>3, <2>2 DEF LockProducerCas, PipeType, BuffersExclusive, ConsumerView, FinalizerLast, Writing,
                      Reading, cVars
  <2> QED BY <2>1, <2>2
<1>4. CASE ProducerWrite
  BY <1>4 DEF ProducerWrite, PipeType, BuffersExclusive, ConsumerView, FinalizerLast, Writing, Reading,
              ProducerPcs, cVars
<1>5. CASE UnlockProducer
  <2>1. /\ pPc = "unlock" /\ pPc' = "prepare" /\ word' = word \ {Locked(pIndex)}
        /\ UNCHANGED <<pIndex, old, evQueue, seen, cIndex, cPc>>
    BY <1>5 DEF UnlockProducer, cVars
  <2>2. BuffersExclusive'
    BY <2>1, FlagFacts DEF BuffersExclusive, Writing, Reading, PipeType
  <2> QED BY <2>1, <2>2 DEF PipeType, ProducerPcs, ConsumerView, FinalizerLast
<1>6. CASE PrepareEnqueue
  BY <1>6 DEF PrepareEnqueue, PipeType, BuffersExclusive, ConsumerView, FinalizerLast, Writing, Reading,
              ProducerPcs, wordVars, cVars
<1>7. CASE RunPayloadInEvLoopDeferred
  BY <1>7 DEF RunPayloadInEvLoopDeferred, PipeType, BuffersExclusive, ConsumerView, FinalizerLast, Writing,
              Reading, ProducerPcs, wordVars, cVars
<1>8. CASE Finalize
  BY <1>8 DEF Finalize, PipeType, BuffersExclusive, ConsumerView, FinalizerLast, Writing, Reading,
              ProducerPcs, wordVars, cVars
<1> QED BY <1>1, <1>2, <1>3, <1>4, <1>5, <1>6, <1>7, <1>8 DEF ProducerStep

\* So does a step of the ev thread.
LEMMA ConsumerPipe ==
  ASSUME PipeInv, ConsumerStep \/ OnTimer
  PROVE  PipeInv'
<1> USE DEF PipeInv
<1>1. CASE PerformPayload
  <2>1. /\ evQueue # <<>> /\ evQueue' = Tail(evQueue)
        /\ cPc = "idle" /\ cPc' = IF Head(evQueue) = "arm" THEN "release" ELSE "finalize"
        /\ UNCHANGED <<word, old, seen, pIndex, cIndex, pPc>>
    BY <1>1 DEF PerformPayload, wordVars, pVars
  <2>2. /\ Head(evQueue) = evQueue[1] /\ 1 \in 1 .. Len(evQueue)
        /\ Head(evQueue) \in {"arm", "finalize"}
        /\ Tail(evQueue) \in Seq({"arm", "finalize"})
        /\ \A i \in 1 .. Len(Tail(evQueue)) :
             i + 1 \in 1 .. Len(evQueue) /\ Tail(evQueue)[i] = evQueue[i + 1]
    BY <2>1 DEF PipeType
  <2>3. FinalizerLast'
    BY <2>1, <2>2 DEF FinalizerLast
  <2> QED BY <2>1, <2>2, <2>3 DEF PipeType, ConsumerPcs, BuffersExclusive, ConsumerView, Writing, Reading
<1>2. CASE PerformAndRelease
  BY <1>2 DEF PerformAndRelease, PipeType, BuffersExclusive, ConsumerView, FinalizerLast, Writing, Reading,
              ConsumerPcs, wordVars, pVars
<1>3. CASE LockConsumerLoad
  BY <1>3 DEF LockConsumerLoad, PipeType, BuffersExclusive, ConsumerView, FinalizerLast, Writing, Reading,
              ConsumerPcs, wordVars, pVars
<1>4. CASE LockConsumerCas
  <2>1. CASE word = seen
    <3>1. /\ cPc = "cas" /\ cPc' = "read" /\ word' = word \cup {Locked(cIndex)}
          /\ Locked(cIndex) \notin word
          /\ UNCHANGED <<evQueue, old, seen, pIndex, cIndex, pPc>>
      BY <1>4, <2>1 DEF LockConsumerCas, ConsumerView, pVars
    <3>2. BuffersExclusive'
      BY <3>1, FlagFacts DEF BuffersExclusive, Writing, Reading, PipeType
    <3> QED BY <3>1, <3>2, FlagFacts DEF PipeType, ConsumerPcs, ConsumerView, FinalizerLast
  <2>2. CASE word # seen
    BY <1>4, <2>2 DEF LockConsumerCas, PipeType, BuffersExclusive, ConsumerView, FinalizerLast, Writing,
                      Reading, ConsumerPcs, pVars
  <2> QED BY <2>1, <2>2
<1>5. CASE ConsumerRead
  BY <1>5 DEF ConsumerRead, PipeType, BuffersExclusive, ConsumerView, FinalizerLast, Writing, Reading,
              ConsumerPcs, wordVars, pVars
<1>6. CASE UnlockConsumerAndArm
  <2>1. /\ cPc = "unlock" /\ cPc' = "idle" /\ word' = word \ {Locked(cIndex), DataIn(cIndex)}
        /\ UNCHANGED <<evQueue, old, seen, pIndex, cIndex, pPc>>
    BY <1>6 DEF UnlockConsumerAndArm, pVars
  <2>2. BuffersExclusive'
    BY <2>1, FlagFacts DEF BuffersExclusive, Writing, Reading, PipeType
  <2> QED BY <2>1, <2>2 DEF PipeType, ConsumerPcs, ConsumerView, FinalizerLast
<1>7. CASE DoFinalizeInEvThread
  BY <1>7 DEF DoFinalizeInEvThread, PipeType, BuffersExclusive, ConsumerView, FinalizerLast, Writing,
              Reading, ConsumerPcs, pVars
<1>8. CASE OnTimer
  BY <1>8 DEF OnTimer, PipeType, BuffersExclusive, ConsumerView, FinalizerLast, Writing, Reading,
              wordVars, pVars
<1> QED BY <1>1, <1>2, <1>3, <1>4, <1>5, <1>6, <1>7, <1>8 DEF ConsumerStep

\* The task and the ev thread are never in the same buffer of the pipe, and the
\* word says which buffers are in use, however often the timer is restarted.
THEOREM NoRaceOnBuffers == Spec => []BuffersExclusive
<1>1. Init => PipeInv
  BY DEF Init, PipeInv, PipeType, BuffersExclusive, ConsumerView, FinalizerLast, Writing, Reading,
         Indices, ProducerPcs, ConsumerPcs
<1>2. PipeInv /\ [Next]_vars => PipeInv'
  <2>1. CASE Next
    BY <2>1, ProducerPipe, ConsumerPipe DEF Next
  <2>2. CASE UNCHANGED vars
    BY <2>2 DEF vars, wordVars, pVars, cVars, PipeInv, PipeType, BuffersExclusive, ConsumerView,
                FinalizerLast, Writing, Reading
  <2> QED BY <2>1, <2>2
<1>3. PipeInv => BuffersExclusive
  BY DEF PipeInv
<1> QED BY <1>1, <1>2, <1>3, PTL DEF Spec

----------------------------------------------------------------------------
(* No lost update *)

ArmQueued == evQueue \in {<<"arm">>, <<"arm", "finalize">>}
FinalizeQueued == evQueue \in {<<"finalize">>, <<"arm", "finalize">>}

\* The payload is in one place, and is_in_queue_ says whether it is in any. The finalizer
\* is queued behind it, once.
QueueInv ==
  /\ evQueue = <<>> \/ ArmQueued \/ FinalizeQueued
  /\ pPc = "done" <=> FinalizeQueued \/ cPc \in {"finalize", "stopped"}
  /\ cPc \in {"finalize", "stopped"} => evQueue = <<>>
  /\ ~(ArmQueued /\ cPc = "release") /\ ~(ArmQueued /\ pPc = "enqueue")
  /\ ~(cPc = "release" /\ pPc = "enqueue")
  /\ inQueue <=> ArmQueued \/ cPc = "release" \/ pPc = "enqueue"
  /\ cPc = "stopped" => word = {} /\ ~active

HasData == \E i \in Indices : DataIn(i) \in word

\* The parameters of the last Push() that has locked a buffer.
Newest == IF pPc \in {"load", "cas"} THEN pushed - 1 ELSE pushed

Numbers ==
  /\ pushed \in Nat /\ (pPc \in {"load", "cas"} => pushed > 0)
  /\ params \in Nat /\ params <= Newest
  /\ buffer \in [Indices -> Nat]

\* What the word calls data is the newest value, and the consumer reads nothing older
\* than what it has.
DataIsNewest ==
  /\ ~(DataIn(0) \in word /\ DataIn(1) \in word)
  /\ \A i \in Indices : DataIn(i) \in word /\ ~(pPc = "write" /\ pIndex = i) => buffer[i] = Newest
  /\ pPc \in {"write", "unlock"} => DataIn(pIndex) \in word
  /\ cPc = "cas" => DataIn(cIndex) \in seen
  /\ cPc = "read" => params <= buffer[cIndex] /\ buffer[cIndex] <= Newest
  /\ cPc = "unlock" /\ DataIn(cIndex) \in word => params = Newest

\* The ev thread has the newest value, or the word offers it.
DeliveredOrOffered == ~HasData /\ cPc # "stopped" => params = Newest

\* An offer is taken: the payload is queued, or the ev thread is on its way.
OfferIsTaken ==
  HasData /\ pPc \in {"idle", "load", "cas"} =>
    \/ ArmQueued
    \/ cPc \in {"release", "load"}
    \/ cPc = "cas" /\ word = seen
    \/ cPc \in {"read", "unlock"} /\ DataIn(cIndex) \in word

FlowInv == PipeInv /\ QueueInv /\ Numbers /\ DataIsNewest /\ DeliveredOrOffered /\ OfferIsTaken

\* What the queue is after a second push.
LEMMA AppendToOne ==
  ASSUME NEW a, NEW b
  PROVE  Append(<<a>>, b) = <<a, b>>
<1> DEFINE t == Append(<<a>>, b)
<1>1. <<a>> \in Seq({a, b}) /\ Len(<<a>>) = 1 /\ <<a>>[1] = a
  OBVIOUS
<1>2. t \in Seq({a, b}) /\ Len(t) = 2 /\ t[1] = a /\ t[2] = b
  BY <1>1, AppendProperties
<1> HIDE DEF t
<1>3. t = <<a, b>>
  BY <1>2
<1> QED BY <1>3 DEF t

\* The queue holds nothing, the payload, the finalizer, or both in this order.
LEMMA QueueFacts ==
  /\ Append(<<>>, "arm") = <<"arm">>
  /\ Append(<<>>, "finalize") = <<"finalize">>
  /\ Append(<<"arm">>, "finalize") = <<"arm", "finalize">>
  /\ Tail(<<"arm">>) = <<>> /\ Head(<<"arm">>) = "arm"
  /\ Tail(<<"finalize">>) = <<>> /\ Head(<<"finalize">>) = "finalize"
  /\ Tail(<<"arm", "finalize">>) = <<"finalize">> /\ Head(<<"arm", "finalize">>) = "arm"
  /\ <<>> # <<"arm">> /\ <<>> # <<"finalize">> /\ <<>> # <<"arm", "finalize">>
  /\ <<"arm">> # <<"finalize">> /\ <<"arm">> # <<"arm", "finalize">> /\ <<"finalize">> # <<"arm", "finalize">>
<1>1. Append(<<>>, "arm") = <<"arm">> /\ Append(<<>>, "finalize") = <<"finalize">>
  OBVIOUS
<1>2. Append(<<"arm">>, "finalize") = <<"arm", "finalize">>
  BY AppendToOne
<1>3. Tail(<<"arm">>) = <<>> /\ Tail(<<"finalize">>) = <<>>
  OBVIOUS
<1>4. Tail(<<"arm", "finalize">>) = <<"finalize">>
  OBVIOUS
<1>5. /\ Head(<<"arm">>) = "arm" /\ Head(<<"finalize">>) = "finalize"
      /\ Head(<<"arm", "finalize">>) = "arm"
  OBVIOUS
<1>6. <<>> # <<"arm">> /\ <<>> # <<"finalize">> /\ <<>> # <<"arm", "finalize">>
  OBVIOUS
<1>7. <<"arm">> # <<"finalize">> /\ <<"arm">> # <<"arm", "finalize">> /\ <<"finalize">> # <<"arm", "finalize">>
  OBVIOUS
<1> QED BY <1>1, <1>2, <1>3, <1>4, <1>5, <1>6, <1>7

\* A step of the producer keeps the invariant.
LEMMA ProducerFlow ==
  ASSUME FlowInv, Restart \/ ProducerStep \/ Finalize
  PROVE  FlowInv'
<1> USE DEF FlowInv
<1>0. PipeInv'
  BY ProducerPipe
<1>1. CASE Restart
  <2> USE <1>1 DEF Restart, wordVars, cVars
  <2>1. QueueInv'
    BY DEF QueueInv, ArmQueued, FinalizeQueued
  <2>2. Newest' = Newest /\ Numbers'
    BY DEF Numbers, Newest
  <2>3. DataIsNewest'
    BY <2>2 DEF DataIsNewest
  <2>4. DeliveredOrOffered' /\ OfferIsTaken'
    BY <2>2 DEF DeliveredOrOffered, OfferIsTaken, HasData, ArmQueued
  <2> QED BY <1>0, <2>1, <2>2, <2>3, <2>4
<1>2. CASE LockProducerLoad
  <2> USE <1>2 DEF LockProducerLoad, wordVars, cVars
  <2>1. QueueInv'
    BY DEF QueueInv, ArmQueued, FinalizeQueued
  <2>2. Newest' = Newest /\ Numbers'
    BY DEF Numbers, Newest
  <2>3. DataIsNewest'
    BY <2>2 DEF DataIsNewest
  <2>4. DeliveredOrOffered' /\ OfferIsTaken'
    BY <2>2 DEF DeliveredOrOffered, OfferIsTaken, HasData, ArmQueued
  <2> QED BY <1>0, <2>1, <2>2, <2>3, <2>4
<1>3. CASE LockProducerCas
  <2>1. CASE word = Expected(old)
    <3> DEFINE i == ChosenIndex(old)
    <3>1. i \in Indices /\ Locked(i) \notin word
      BY <2>1, ProducerTakesFree
    <3>2. /\ pPc = "cas" /\ pPc' = "write" /\ pIndex' = i
          /\ word' = (word \cup {Locked(i), DataIn(i)}) \ {DataIn(1 - i)}
          /\ UNCHANGED <<old, inQueue, evQueue, buffer, pushed, seen, cIndex, cPc, params, active>>
      BY <1>3, <2>1 DEF LockProducerCas, cVars
    <3> HIDE DEF i
    <3>3. /\ \A j \in Indices : DataIn(j) \in word' <=> j = i
          /\ cPc \in {"read", "unlock"} => cIndex # i
      BY <3>1, <3>2, FlagFacts DEF Indices, PipeInv, BuffersExclusive, Reading
    <3>4. QueueInv'
      BY <3>2 DEF QueueInv, ArmQueued, FinalizeQueued, PipeInv, FinalizerLast
    <3>5. Numbers' /\ Newest' = Newest + 1 /\ Newest \in Int
      BY <3>2 DEF Numbers, Newest
    <3>6. DataIsNewest'
      BY <3>1, <3>2, <3>3, <3>5 DEF DataIsNewest, Numbers, PipeInv, PipeType, Indices
    <3>7. DeliveredOrOffered' /\ OfferIsTaken'
      BY <3>1, <3>2, <3>3 DEF DeliveredOrOffered, OfferIsTaken, HasData
    <3> QED BY <1>0, <3>4, <3>5, <3>6, <3>7
  <2>2. CASE word # Expected(old)
    <3> USE <1>3, <2>2 DEF LockProducerCas, cVars
    <3>1. QueueInv'
      BY DEF QueueInv, ArmQueued, FinalizeQueued
    <3>2. Newest' = Newest /\ Numbers'
      BY DEF Numbers, Newest
    <3>3. DataIsNewest'
      BY <3>2 DEF DataIsNewest
    <3>4. DeliveredOrOffered' /\ OfferIsTaken'
      BY <3>2 DEF DeliveredOrOffered, OfferIsTaken, HasData, ArmQueued
    <3> QED BY <1>0, <3>1, <3>2, <3>3, <3>4
  <2> QED BY <2>1, <2>2
<1>4. CASE ProducerWrite
  <2>1. /\ pPc = "write" /\ pPc' = "unlock" /\ buffer' = [buffer EXCEPT ![pIndex] = pushed]
        /\ UNCHANGED <<word, inQueue, evQueue, pushed, pIndex, seen, cIndex, cPc, params, active>>
    BY <1>4 DEF ProducerWrite, cVars
  <2>2. QueueInv'
    BY <2>1 DEF QueueInv, ArmQueued, FinalizeQueued
  <2>3. Newest' = pushed /\ Newest = pushed /\ Numbers'
    BY <2>1 DEF Numbers, Newest
  <2>4. /\ buffer'[pIndex] = pushed
        /\ \A j \in Indices : j # pIndex => buffer'[j] = buffer[j]
    BY <2>1 DEF Numbers, PipeInv, PipeType
  <2>5. cPc \in {"read", "unlock"} => cIndex # pIndex
    BY <2>1 DEF PipeInv, PipeType, BuffersExclusive, Reading, Writing
  <2>6. DataIsNewest'
    BY <2>1, <2>3, <2>4, <2>5 DEF DataIsNewest, PipeInv, PipeType
  <2>7. DeliveredOrOffered' /\ OfferIsTaken'
    BY <2>1, <2>3 DEF DeliveredOrOffered, OfferIsTaken, HasData
  <2> QED BY <1>0, <2>2, <2>3, <2>6, <2>7
<1>5. CASE UnlockProducer
  <2>1. /\ pPc = "unlock" /\ pPc' = "prepare" /\ word' = word \ {Locked(pIndex)}
        /\ UNCHANGED <<inQueue, evQueue, buffer, pushed, pIndex, seen, cIndex, cPc, params, active>>
    BY <1>5 DEF UnlockProducer, cVars
  <2>2. \A j \in Indices : DataIn(j) \in word' <=> DataIn(j) \in word
    BY <2>1, FlagFacts DEF PipeInv, PipeType
  <2>3. QueueInv'
    BY <2>1 DEF QueueInv, ArmQueued, FinalizeQueued
  <2>4. Newest' = Newest /\ Numbers'
    BY <2>1 DEF Numbers, Newest
  <2>5. DataIsNewest'
    BY <2>1, <2>2, <2>4 DEF DataIsNewest, PipeInv, PipeType, Indices
  <2>6. DeliveredOrOffered' /\ OfferIsTaken'
    BY <2>1, <2>2, <2>4 DEF DeliveredOrOffered, OfferIsTaken, HasData
  <2> QED BY <1>0, <2>3, <2>4, <2>5, <2>6
<1>6. CASE PrepareEnqueue
  <2> USE <1>6 DEF PrepareEnqueue, wordVars, cVars
  <2>1. QueueInv'
    BY QueueFacts DEF QueueInv, ArmQueued, FinalizeQueued
  <2>2. Newest' = Newest /\ Numbers'
    BY DEF Numbers, Newest
  <2>3. DataIsNewest'
    BY <2>2 DEF DataIsNewest
  <2>4. DeliveredOrOffered' /\ OfferIsTaken'
    BY <2>2 DEF DeliveredOrOffered, OfferIsTaken, HasData, ArmQueued, QueueInv
  <2> QED BY <1>0, <2>1, <2>2, <2>3, <2>4
<1>7. CASE RunPayloadInEvLoopDeferred
  <2> USE <1>7 DEF RunPayloadInEvLoopDeferred, wordVars, cVars
  <2>1. evQueue = <<>> /\ evQueue' = <<"arm">>
    BY QueueFacts DEF QueueInv, ArmQueued, FinalizeQueued
  <2>2. QueueInv'
    BY <2>1, QueueFacts DEF QueueInv, ArmQueued, FinalizeQueued
  <2>3. Newest' = Newest /\ Numbers'
    BY DEF Numbers, Newest
  <2>4. DataIsNewest'
    BY <2>3 DEF DataIsNewest
  <2>5. DeliveredOrOffered' /\ OfferIsTaken'
    BY <2>1, <2>3 DEF DeliveredOrOffered, OfferIsTaken, HasData, ArmQueued
  <2> QED BY <1>0, <2>2, <2>3, <2>4, <2>5
<1>8. CASE Finalize
  <2> USE <1>8 DEF Finalize, wordVars, cVars
  <2>1. \/ evQueue = <<>> /\ evQueue' = <<"finalize">>
        \/ evQueue = <<"arm">> /\ evQueue' = <<"arm", "finalize">>
    BY QueueFacts DEF QueueInv, ArmQueued, FinalizeQueued
  <2>2. QueueInv'
    BY <2>1, QueueFacts DEF QueueInv, ArmQueued, FinalizeQueued
  <2>3. Newest' = Newest /\ Numbers'
    BY DEF Numbers, Newest
  <2>4. DataIsNewest'
    BY <2>3 DEF DataIsNewest
  <2>5. DeliveredOrOffered' /\ OfferIsTaken'
    BY <2>3 DEF DeliveredOrOffered, OfferIsTaken, HasData
  <2> QED BY <1>0, <2>2, <2>3, <2>4, <2>5
<1> QED BY <1>1, <1>2, <1>3, <1>4, <1>5, <1>6, <1>7, <1>8 DEF ProducerStep

\* So does a step of the ev thread.
LEMMA ConsumerFlow ==
  ASSUME FlowInv, ConsumerStep \/ OnTimer
  PROVE  FlowInv' /\ params <= params'
<1> USE DEF FlowInv
<1>0. PipeInv'
  BY ConsumerPipe
<1>a. params \in Nat
  BY DEF Numbers
<1>1. CASE PerformPayload
  <2> USE <1>1 DEF PerformPayload, wordVars, pVars
  <2>1. \/ evQueue \in {<<"arm">>, <<"arm", "finalize">>} /\ cPc' = "release"
           /\ evQueue' = IF evQueue = <<"arm">> THEN <<>> ELSE <<"finalize">>
        \/ evQueue = <<"finalize">> /\ cPc' = "finalize" /\ evQueue' = <<>>
    BY QueueFacts DEF QueueInv, ArmQueued, FinalizeQueued
  <2>2. QueueInv'
    BY <2>1, QueueFacts DEF QueueInv, ArmQueued, FinalizeQueued
  <2>3. Newest' = Newest /\ Numbers'
    BY DEF Numbers, Newest
  <2>4. DataIsNewest'
    BY <2>1, <2>3 DEF DataIsNewest
  <2>5. DeliveredOrOffered' /\ OfferIsTaken'
    BY <2>1, <2>3, QueueFacts DEF DeliveredOrOffered, OfferIsTaken, HasData, QueueInv, FinalizeQueued
  <2> QED BY <1>0, <1>a, <2>2, <2>3, <2>4, <2>5
<1>2. CASE PerformAndRelease
  <2> USE <1>2 DEF PerformAndRelease, wordVars, pVars
  <2>1. QueueInv'
    BY DEF QueueInv, ArmQueued, FinalizeQueued
  <2>2. Newest' = Newest /\ Numbers'
    BY DEF Numbers, Newest
  <2>3. DataIsNewest'
    BY <2>2 DEF DataIsNewest
  <2>4. DeliveredOrOffered' /\ OfferIsTaken'
    BY <2>2 DEF DeliveredOrOffered, OfferIsTaken, HasData
  <2> QED BY <1>0, <1>a, <2>1, <2>2, <2>3, <2>4
<1>3. CASE LockConsumerLoad
  <2> USE <1>3 DEF LockConsumerLoad, wordVars, pVars
  <2>1. QueueInv'
    BY DEF QueueInv, ArmQueued, FinalizeQueued
  <2>2. Newest' = Newest /\ Numbers'
    BY DEF Numbers, Newest
  <2>3. DataIsNewest'
    BY <2>2 DEF DataIsNewest
  <2>4. DeliveredOrOffered'
    BY <2>2 DEF DeliveredOrOffered, HasData
  <2>5. OfferIsTaken'
    BY DEF OfferIsTaken, HasData, PipeInv, BuffersExclusive, Reading, Writing
  <2> QED BY <1>0, <1>a, <2>1, <2>2, <2>3, <2>4, <2>5
<1>4. CASE LockConsumerCas
  <2>1. CASE word = seen
    <3>1. /\ cPc = "cas" /\ cPc' = "read" /\ word' = word \cup {Locked(cIndex)}
          /\ Locked(cIndex) \notin word /\ cIndex \in Indices /\ DataIn(cIndex) \in word
          /\ UNCHANGED <<inQueue, evQueue, buffer, pushed, pIndex, pPc, seen, cIndex, params, active>>
      BY <1>4, <2>1 DEF LockConsumerCas, PipeInv, PipeType, ConsumerView, DataIsNewest, pVars
    <3>2. /\ \A j \in Indices : DataIn(j) \in word' <=> DataIn(j) \in word
          /\ ~(pPc = "write" /\ pIndex = cIndex)
      BY <3>1, FlagFacts DEF PipeInv, PipeType, BuffersExclusive, Writing
    <3>3. QueueInv'
      BY <3>1 DEF QueueInv, ArmQueued, FinalizeQueued
    <3>4. Newest' = Newest /\ Numbers' /\ Newest \in Int
      BY <3>1 DEF Numbers, Newest
    <3>5. buffer[cIndex] = Newest /\ params <= Newest
      BY <3>1, <3>2 DEF DataIsNewest, Numbers
    <3>6. DataIsNewest'
      BY <3>1, <3>2, <3>4, <3>5 DEF DataIsNewest, PipeInv, PipeType, Indices
    <3>7. DeliveredOrOffered' /\ OfferIsTaken'
      BY <3>1, <3>2, <3>4 DEF DeliveredOrOffered, OfferIsTaken, HasData
    <3> QED BY <1>0, <1>a, <3>1, <3>3, <3>4, <3>6, <3>7
  <2>2. CASE word # seen
    <3> USE <1>4, <2>2 DEF LockConsumerCas, pVars
    <3>1. QueueInv'
      BY DEF QueueInv, ArmQueued, FinalizeQueued
    <3>2. Newest' = Newest /\ Numbers'
      BY DEF Numbers, Newest
    <3>3. DataIsNewest'
      BY <3>2 DEF DataIsNewest
    <3>4. DeliveredOrOffered' /\ OfferIsTaken'
      BY <3>2 DEF DeliveredOrOffered, OfferIsTaken, HasData, ArmQueued
    <3> QED BY <1>0, <1>a, <3>1, <3>2, <3>3, <3>4
  <2> QED BY <2>1, <2>2
<1>5. CASE ConsumerRead
  <2>1. /\ cPc = "read" /\ cPc' = "unlock" /\ params' = buffer[cIndex]
        /\ UNCHANGED <<word, buffer, inQueue, evQueue, pushed, pIndex, pPc, seen, cIndex, active>>
    BY <1>5 DEF ConsumerRead, wordVars, pVars
  <2>2. /\ cIndex \in Indices /\ buffer[cIndex] \in Nat
        /\ params <= buffer[cIndex] /\ buffer[cIndex] <= Newest
        /\ ~(pPc = "write" /\ pIndex = cIndex)
    BY <2>1 DEF PipeInv, PipeType, BuffersExclusive, Writing, Reading, Numbers, DataIsNewest
  <2>3. QueueInv'
    BY <2>1 DEF QueueInv, ArmQueued, FinalizeQueued
  <2>4. Newest' = Newest /\ Newest \in Int /\ Numbers'
    BY <2>1, <2>2 DEF Numbers, Newest
  <2>5. DataIsNewest'
    BY <2>1, <2>2, <2>4 DEF DataIsNewest
  <2>6. DeliveredOrOffered' /\ OfferIsTaken'
    BY <2>1, <2>2, <2>4, <1>a DEF DeliveredOrOffered, OfferIsTaken, HasData, ArmQueued
  <2> QED BY <1>0, <2>1, <2>2, <2>3, <2>4, <2>5, <2>6
<1>6. CASE UnlockConsumerAndArm
  <2>1. /\ cPc = "unlock" /\ cPc' = "idle" /\ word' = word \ {Locked(cIndex), DataIn(cIndex)}
        /\ UNCHANGED <<buffer, inQueue, evQueue, pushed, pIndex, pPc, seen, cIndex, params>>
    BY <1>6 DEF UnlockConsumerAndArm, pVars
  <2>2. /\ cIndex \in Indices
        /\ \A j \in Indices : DataIn(j) \in word' <=> DataIn(j) \in word /\ j # cIndex
        /\ pPc \in {"write", "unlock"} => pIndex # cIndex
    BY <2>1, FlagFacts DEF PipeInv, PipeType, BuffersExclusive, Writing, Reading, Indices
  <2>3. QueueInv'
    BY <2>1 DEF QueueInv, ArmQueued, FinalizeQueued
  <2>4. Newest' = Newest /\ Numbers'
    BY <2>1 DEF Numbers, Newest
  <2>5. DataIsNewest'
    BY <2>1, <2>2, <2>4 DEF DataIsNewest, PipeInv, PipeType, Indices
  <2>6. DeliveredOrOffered'
    BY <2>1, <2>2, <2>4 DEF DeliveredOrOffered, HasData, DataIsNewest
  <2>7. OfferIsTaken'
    BY <2>1, <2>2 DEF OfferIsTaken, HasData, ArmQueued, DataIsNewest, Indices
  <2> QED BY <1>0, <1>a, <2>1, <2>3, <2>4, <2>5, <2>6, <2>7
<1>7. CASE DoFinalizeInEvThread
  <2> USE <1>7 DEF DoFinalizeInEvThread, pVars
  <2>0. pPc = "done"
    BY DEF PipeInv, FinalizerLast
  <2>1. QueueInv'
    BY <2>0, QueueFacts DEF QueueInv, ArmQueued, FinalizeQueued
  <2>2. Newest' = Newest /\ Numbers'
    BY DEF Numbers, Newest, Indices
  <2>3. DataIsNewest' /\ DeliveredOrOffered' /\ OfferIsTaken'
    BY <2>0 DEF DataIsNewest, DeliveredOrOffered, OfferIsTaken, HasData
  <2> QED BY <1>0, <1>a, <2>1, <2>2, <2>3
<1>8. CASE OnTimer
  <2> USE <1>8 DEF OnTimer, wordVars, pVars
  <2>1. QueueInv'
    BY DEF QueueInv, ArmQueued, FinalizeQueued
  <2>2. Newest' = Newest /\ Numbers'
    BY DEF Numbers, Newest
  <2>3. DataIsNewest' /\ DeliveredOrOffered' /\ OfferIsTaken'
    BY <2>2 DEF DataIsNewest, DeliveredOrOffered, OfferIsTaken, HasData, ArmQueued
  <2> QED BY <1>0, <1>a, <2>1, <2>2, <2>3
<1> QED BY <1>1, <1>2, <1>3, <1>4, <1>5, <1>6, <1>7, <1>8 DEF ConsumerStep

\* A timer that has not been started offers and owes nothing.
LEMMA FlowInit == Init => FlowInv
<1> SUFFICES ASSUME Init PROVE FlowInv
  OBVIOUS
<1> USE DEF Init
<1>1. PipeInv
  BY DEF PipeInv, PipeType, BuffersExclusive, ConsumerView, FinalizerLast, Writing, Reading,
         Indices, ProducerPcs, ConsumerPcs
<1>2. QueueInv
  BY QueueFacts DEF QueueInv, ArmQueued, FinalizeQueued
<1>3. Numbers /\ DataIsNewest
  BY DEF Numbers, DataIsNewest, Newest, Indices
<1>4. DeliveredOrOffered /\ OfferIsTaken
  BY DEF DeliveredOrOffered, OfferIsTaken, Newest, HasData
<1> QED BY <1>1, <1>2, <1>3, <1>4 DEF FlowInv

\* Every step of the task and of the ev thread keeps the flow, and the timer's parameters only get newer.
LEMMA FlowStep == FlowInv /\ [Next]_vars => FlowInv' /\ params <= params'
<1> SUFFICES ASSUME FlowInv, [Next]_vars PROVE FlowInv' /\ params <= params'
  OBVIOUS
<1>1. params \in Nat
  BY DEF FlowInv, Numbers
<1>2. CASE Restart \/ ProducerStep \/ Finalize
  <2>1. UNCHANGED params
    BY <1>2 DEF Restart, ProducerStep, Finalize, LockProducerLoad, LockProducerCas, ProducerWrite,
                UnlockProducer, PrepareEnqueue, RunPayloadInEvLoopDeferred, cVars
  <2> QED BY <1>1, <1>2, <2>1, ProducerFlow
<1>3. CASE ConsumerStep \/ OnTimer
  BY <1>3, ConsumerFlow
<1>4. CASE UNCHANGED vars
  <2> USE <1>4 DEF vars, wordVars, pVars, cVars
  <2>1. PipeInv'
    BY DEF FlowInv, PipeInv, PipeType, BuffersExclusive, ConsumerView, FinalizerLast, Writing, Reading
  <2>2. QueueInv' /\ Numbers' /\ Newest' = Newest
    BY DEF FlowInv, QueueInv, ArmQueued, FinalizeQueued, Numbers, Newest
  <2>3. DataIsNewest' /\ DeliveredOrOffered' /\ OfferIsTaken'
    BY <2>2 DEF FlowInv, DataIsNewest, DeliveredOrOffered, OfferIsTaken, HasData, ArmQueued
  <2> QED BY <1>1, <2>1, <2>2, <2>3 DEF FlowInv
<1> QED BY <1>2, <1>3, <1>4 DEF Next

\* However often the timer is restarted, when nothing is on its way to the ev thread
\* it has the parameters of the last Restart(): the pipe loses no update.
THEOREM NoUpdateLost == Spec => []NothingLost
<1>1. FlowInv => NothingLost
  <2> SUFFICES ASSUME FlowInv, pPc = "idle", cPc = "idle", evQueue = <<>> PROVE params = pushed
    BY DEF NothingLost
  <2>1. ~HasData
    BY QueueFacts DEF FlowInv, OfferIsTaken, ArmQueued
  <2> QED BY <2>1 DEF FlowInv, DeliveredOrOffered, Newest
<1> QED BY <1>1, FlowInit, FlowStep, PTL DEF Spec

\* The timer is never armed with older parameters after newer ones.
THEOREM TimerMovesForward == Spec => NewerOnly
<1>1. FlowInv /\ FlowInv' /\ [Next]_vars => [params' # params => params' > params]_vars
  <2> SUFFICES ASSUME FlowInv, FlowInv', [Next]_vars, params' # params PROVE params' > params
    OBVIOUS
  <2>1. params \in Nat /\ params' \in Nat
    BY DEF FlowInv, Numbers
  <2> QED BY <2>1, FlowStep
<1> QED BY <1>1, FlowInit, FlowStep, PTL DEF Spec, NewerOnly

\* The finalizer leaves no payload, no lock and no running timer behind: the context
\* may be destroyed.
THEOREM QuietAfterFinalize == Spec => []FinalizedIsQuiet
<1>1. FlowInv => FinalizedIsQuiet
  BY QueueFacts DEF FlowInv, QueueInv, ArmQueued, FinalizedIsQuiet
<1> QED BY <1>1, FlowInit, FlowStep, PTL DEF Spec

\* The intrusive node of the payload is in the queue of the ev thread at most once.
THEOREM PayloadQueuedOnce == Spec => []EnqueuedOnce
<1>1. FlowInv => EnqueuedOnce
  <2> SUFFICES ASSUME FlowInv PROVE EnqueuedOnce
    OBVIOUS
  <2>1. evQueue \in {<<>>, <<"arm">>, <<"finalize">>, <<"arm", "finalize">>}
    BY DEF FlowInv, QueueInv, ArmQueued, FinalizeQueued
  <2>2. \A i, j \in 1 .. Len(evQueue) : evQueue[i] = evQueue[j] => i = j
    BY <2>1
  <2>3. (\E i \in 1 .. Len(evQueue) : evQueue[i] = "arm") => ArmQueued
    BY <2>1 DEF ArmQueued
  <2> QED BY <2>2, <2>3 DEF EnqueuedOnce, FlowInv, QueueInv
<1> QED BY <1>1, FlowInit, FlowStep, PTL DEF Spec

\* The assertions of both unlocks hold: the word never says that both buffers hold
\* the newest parameters, and what it calls data is the newest value.
THEOREM OneNewestBuffer == Spec => []OneNewest
<1>1. FlowInv => OneNewest
  BY FlagFacts DEF FlowInv, DataIsNewest, OneNewest, Newest, Writing, Indices
<1> QED BY <1>1, FlowInit, FlowStep, PTL DEF Spec

----------------------------------------------------------------------------
(* Four attempts are enough *)

\* How often the consumer can still change the word if the producer does not.
ChangesLeft ==
  IF cPc \in {"read", "unlock"}
  THEN IF DataIn(1 - cIndex) \in word THEN 3 ELSE 1
  ELSE IF HasData THEN 2 ELSE 0

\* Whether one of them has already spoiled the next attempt of the producer.
Spoiled == IF word = old THEN 0 ELSE 1

\* Each failed attempt of the producer was caused by one of these changes.
AttemptInv ==
  /\ tries \in Nat /\ tries <= 4
  /\ pPc = "cas" => tries + ChangesLeft + Spoiled <= 3

\* What the producer sees is never a word with both buffers locked: a failed attempt
\* means that the word has changed under it.
LEMMA FailureMeansChange ==
  ASSUME FlowInv, pPc = "cas", word = old
  PROVE  word = Expected(old)
<1>1. ~(Locked(0) \in word /\ Locked(1) \in word)
  BY DEF FlowInv, PipeInv, BuffersExclusive, Writing, Reading, Indices
<1>2. CASE Locked(0) \notin word
  BY <1>2, FlagFacts DEF Expected
<1>3. CASE Locked(1) \notin word
  BY <1>3, FlagFacts DEF Expected
<1> QED BY <1>1, <1>2, <1>3

\* A failed attempt of LockProducer() uses up one of the changes the consumer can still make.
LEMMA AttemptStep == FlowInv /\ AttemptInv /\ [Next]_vars => AttemptInv'
<1> SUFFICES ASSUME FlowInv, AttemptInv, [Next]_vars PROVE AttemptInv'
  OBVIOUS
<1>0. ChangesLeft \in Nat /\ Spoiled \in Nat /\ tries \in Nat /\ tries <= 4
  BY DEF AttemptInv, ChangesLeft, Spoiled
<1>1. CASE LockProducerLoad
  <2>1. tries' = 0 /\ word' = old'
    BY <1>1 DEF LockProducerLoad, wordVars
  <2> QED BY <2>1 DEF AttemptInv, ChangesLeft, Spoiled
<1>2. CASE LockProducerCas
  <2>1. tries + 1 <= 4 /\ tries' = tries + 1 /\ pPc = "cas"
    BY <1>0, <1>2 DEF AttemptInv, LockProducerCas
  <2>2. CASE word = Expected(old)
    BY <1>0, <1>2, <2>1, <2>2 DEF LockProducerCas, AttemptInv
  <2>3. CASE word # Expected(old)
    <3>1. word # old
      BY <2>1, <2>3, FailureMeansChange
    <3>2. /\ old' = word /\ word' = word
          /\ UNCHANGED <<cPc, cIndex>>
      BY <1>2, <2>3 DEF LockProducerCas, cVars
    <3>3. ChangesLeft' = ChangesLeft /\ Spoiled = 1 /\ Spoiled' = 0
      BY <3>1, <3>2 DEF ChangesLeft, HasData, Spoiled
    <3> QED BY <1>0, <2>1, <3>3 DEF AttemptInv
  <2> QED BY <2>2, <2>3
<1>3. CASE Restart \/ ProducerWrite \/ UnlockProducer \/ PrepareEnqueue \/ RunPayloadInEvLoopDeferred \/ Finalize
  <2>1. tries' = tries /\ pPc' # "cas"
    BY <1>3 DEF Restart, ProducerWrite, UnlockProducer, PrepareEnqueue, RunPayloadInEvLoopDeferred, Finalize
  <2> QED BY <1>0, <2>1 DEF AttemptInv
<1>4. CASE PerformPayload \/ PerformAndRelease \/ LockConsumerLoad \/ OnTimer \/ ConsumerRead \/ UNCHANGED vars
  <2>1. UNCHANGED <<tries, pPc, Spoiled>>
    BY <1>4 DEF Spoiled, PerformPayload, PerformAndRelease, LockConsumerLoad, OnTimer, ConsumerRead, vars, wordVars, pVars
  <2>2. ChangesLeft' = ChangesLeft
    BY <1>4 DEF PerformPayload, PerformAndRelease, LockConsumerLoad, OnTimer, ConsumerRead, vars, wordVars,
                pVars, cVars, ChangesLeft, HasData
  <2> QED BY <2>1, <2>2 DEF AttemptInv
<1>5. CASE LockConsumerCas
  <2>1. UNCHANGED <<tries, pPc, old, cIndex>>
    BY <1>5 DEF LockConsumerCas, pVars
  <2>2. CASE word = seen
    <3>1. /\ cPc = "cas" /\ cPc' = "read" /\ word' = word \cup {Locked(cIndex)}
          /\ cIndex \in Indices /\ DataIn(cIndex) \in word
      BY <1>5, <2>2 DEF LockConsumerCas, FlowInv, PipeInv, PipeType, DataIsNewest
    <3>2. ChangesLeft = 2
      BY <3>1 DEF ChangesLeft, HasData
    <3>3. DataIn(1 - cIndex) \notin word'
      BY <2>1, <3>1, FlagFacts DEF FlowInv, DataIsNewest, Indices
    <3> QED BY <1>0, <2>1, <3>1, <3>2, <3>3 DEF AttemptInv, ChangesLeft, Spoiled
  <2>3. CASE word # seen
    <3>1. Spoiled' = Spoiled /\ ChangesLeft' = ChangesLeft
      BY <1>5, <2>1, <2>3 DEF LockConsumerCas, ChangesLeft, HasData, Spoiled
    <3> QED BY <2>1, <3>1 DEF AttemptInv
  <2> QED BY <2>2, <2>3
<1>6. CASE UnlockConsumerAndArm
  <2>1. /\ cPc = "unlock" /\ cPc' = "idle" /\ word' = word \ {Locked(cIndex), DataIn(cIndex)}
        /\ cIndex \in Indices
        /\ UNCHANGED <<tries, pPc, old, cIndex>>
    BY <1>6 DEF UnlockConsumerAndArm, pVars, FlowInv, PipeInv, PipeType
  <2>2. CASE DataIn(1 - cIndex) \in word
    <3>1. ChangesLeft = 3
      BY <2>1, <2>2 DEF ChangesLeft
    <3> QED BY <1>0, <2>1, <3>1 DEF AttemptInv, ChangesLeft, Spoiled
  <2>3. CASE DataIn(1 - cIndex) \notin word
    <3>1. \A j \in Indices : DataIn(j) \notin word'
      BY <2>1, <2>3 DEF Indices
    <3>2. ChangesLeft = 1
      BY <2>1, <2>3 DEF ChangesLeft
    <3> QED BY <1>0, <2>1, <3>1, <3>2 DEF AttemptInv, ChangesLeft, HasData, Spoiled
  <2> QED BY <2>2, <2>3
<1>7. CASE DoFinalizeInEvThread
  <2>1. pPc = "done" /\ UNCHANGED <<tries, pPc>>
    BY <1>7 DEF DoFinalizeInEvThread, FlowInv, PipeInv, FinalizerLast, pVars
  <2> QED BY <1>0, <2>1 DEF AttemptInv
<1> QED BY <1>1, <1>2, <1>3, <1>4, <1>5, <1>6, <1>7 DEF Next, ProducerStep, ConsumerStep

\* The assertion of LockProducer() holds: the loop ends after at most four attempts,
\* however the ev thread interferes.
THEOREM FourAttempts == Spec => []CasBound
<1>1. Init => AttemptInv
  BY DEF Init, AttemptInv
<1>2. AttemptInv => CasBound
  BY DEF AttemptInv, CasBound
<1> QED BY <1>1, <1>2, FlowInit, FlowStep, AttemptStep, PTL DEF Spec
=============================================================================
