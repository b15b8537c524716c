--------------------------- MODULE LockFreeProofs ---------------------------
(***************************************************************************)
(* Two lock-free queues.  The local queue of a worker: the copies a taker  *)
(* makes are good for every buffer size and every number of thieves        *)
(* (HeadNotAfterTail, TakesTheOldest).  The MPMC queue: its semaphores     *)
(* agree with what it holds, and it closes only when a side has died, for  *)
(* any number of producers and consumers (MpmcQueueSafe).                  *)
(***************************************************************************)
EXTENDS MCLockFree, FiniteSetTheorems, TLAPS

\* Two positions less than one round of the ring apart have different slots.
LEMMA DifferentSlots ==
  ASSUME NEW B \in Nat \ {0}, NEW p \in Nat, NEW q \in Nat, p < q, q - p < B
  PROVE  (p % B) # (q % B)
<1> DEFINE i == p \div B
<1> DEFINE j == q \div B
<1>1. i \in Int /\ p = (B * i) + (p % B)
  BY Z3
<1>2. j \in Int /\ q = (B * j) + (q % B)
  BY Z3
<1> HIDE DEF i, j
<1>3. SUFFICES ASSUME (p % B) = (q % B) PROVE FALSE
  OBVIOUS
<1>4. q - p = B * (j - i)
  BY <1>1, <1>2, <1>3, Z3
<1>5. CASE j - i <= 0
  BY <1>1, <1>2, <1>4, <1>5, Z3
<1>6. CASE j - i >= 1
  BY <1>1, <1>2, <1>4, <1>6, Z3
<1> QED
  BY <1>1, <1>2, <1>5, <1>6

----------------------------------------------------------------------------
(* The inductive invariant *)

\* Every variable has its type; nothing is in transit outside its step of the code.
Types ==
  /\ buffer \in [0 .. BufferSize - 1 -> Int]
  /\ head \in Nat /\ tail \in Nat /\ head <= tail
  /\ count \in Nat /\ stored \in 0 .. count
  /\ pc \in [Takers -> {"idle", "store", "head", "tail", "copy"}]
  /\ want \in [Takers -> Nat]
  /\ myHead \in [Takers -> Int] /\ myTail \in [Takers -> Int]
  /\ out \in [Takers -> Seq(Int)]

\* What is stored, and what is about to be, fits in the ring.
Room ==
  /\ tail - head + count <= BufferSize - 1
  /\ pc[Owner] # "store" => count = 0

\* The slots from head to what the owner has stored hold what was pushed there.
Kept == \A p \in Nat : head <= p /\ p < tail + stored => buffer[ToIndex(p)] = p

\* What a taker has read of head and tail is behind them.
Snapshot(a) ==
  /\ pc[a] \in {"head", "tail", "copy"} => want[a] > 0
  /\ pc[a] \in {"tail", "copy"} => 0 <= myHead[a] /\ myHead[a] <= head
  /\ pc[a] = "copy" => myHead[a] < myTail[a] /\ myTail[a] <= tail /\ Len(out[a]) <= ToGrab(a)
  /\ pc[a] # "copy" => out[a] = <<>>

\* As long as head has not moved, the copy is of the oldest items.
Copied(a) ==
  pc[a] = "copy" /\ myHead[a] = head =>
    \A i \in 1 .. Len(out[a]) : out[a][i] = head + i - 1

SpmcInv ==
  /\ Types /\ Room /\ Kept
  /\ \A a \in Takers : Snapshot(a) /\ Copied(a)

\* What the proofs use of the constants.
LEMMA Constants == BufferSize \in Nat \ {0} /\ BufferSize > 1 /\ Owner \in Takers
  BY SpmcAssumption DEF SpmcAssumption, Takers

\* Every position has a slot.
LEMMA SlotType == ASSUME NEW p \in Nat PROVE ToIndex(p) \in 0 .. BufferSize - 1
  BY Constants, Z3 DEF ToIndex

\* The program starts in a state of the invariant.
LEMMA InitInv == Init => SpmcInv
<1> SUFFICES ASSUME Init PROVE SpmcInv
  OBVIOUS
<1>1. Types
  BY Constants DEF Init, Types, Nothing
<1>2. Room
  BY Constants DEF Init, Room
<1>3. Kept
  BY DEF Init, Kept
<1>4. \A a \in Takers : Snapshot(a) /\ Copied(a)
  BY DEF Init, Snapshot, Copied
<1> QED
  BY <1>1, <1>2, <1>3, <1>4 DEF SpmcInv

\* TryPush() and PushMany() make sure of their room before they write.
LEMMA PushKeeps ==
  ASSUME SpmcInv, NEW n \in 1 .. MaxBatch, Push(n) PROVE SpmcInv'
<1> USE DEF SpmcInv, Push, GoTo, takeVars
<1> n \in Nat /\ n > 0
  BY SpmcAssumption DEF SpmcAssumption
<1>1. Types'
  BY Constants DEF Types, Room
<1>2. Room'
  BY Constants DEF Room, Types, IsFull
<1>3. Kept'
  BY DEF Kept, Types, ToIndex
<1>4. \A a \in Takers : Snapshot(a)' /\ Copied(a)'
  BY Constants DEF Snapshot, Copied, Types, ToGrab
<1> QED
  BY <1>1, <1>2, <1>3, <1>4

\* A slot that is written is not one of those that are in use.
LEMMA StoreKeeps == ASSUME SpmcInv, Store PROVE SpmcInv'
<1> USE DEF SpmcInv, Store, takeVars
<1> DEFINE q == tail + stored
<1>0. q \in Nat /\ stored \in Nat
  BY DEF Types
<1>1. Types'
  <2>1. buffer' = [buffer EXCEPT ![ToIndex(q)] = q]
    OBVIOUS
  <2>2. buffer \in [0 .. BufferSize - 1 -> Int] /\ q \in Int
    BY <1>0 DEF Types
  <2>3. buffer' \in [0 .. BufferSize - 1 -> Int]
    <3> HIDE DEF q, Store, SpmcInv
    <3> QED
      BY <2>1, <2>2
  <2> QED
    BY <2>3, <1>0 DEF Types
<1>2. Room'
  BY DEF Room
<1>3. Kept'
  <2> SUFFICES ASSUME NEW p \in Nat, head <= p, p < q + 1
               PROVE  buffer'[ToIndex(p)] = p
    BY <1>0 DEF Kept, Types, ToIndex
  <2>1. CASE p = q
    BY <2>1, SlotType DEF Types
  <2>2. CASE p # q
    <3>1. p < q /\ q - p < BufferSize
      BY <2>2, <1>0, Constants DEF Room, Types
    <3>2. ToIndex(p) # ToIndex(q)
      BY <3>1, <1>0, Constants, DifferentSlots DEF ToIndex
    <3>3. buffer[ToIndex(p)] = p
      BY <3>1 DEF Kept
    <3> QED
      BY <3>2, <3>3, SlotType DEF Types
  <2> QED
    BY <2>1, <2>2
<1>4. \A a \in Takers : Snapshot(a)' /\ Copied(a)'
  BY DEF Snapshot, Copied, ToGrab
<1> QED
  BY <1>1, <1>2, <1>3, <1>4

\* What becomes visible has been stored.
LEMMA PublishKeeps == ASSUME SpmcInv, Publish PROVE SpmcInv'
<1> USE DEF SpmcInv, Publish, GoTo, takeVars
<1>1. Types'
  BY Constants DEF Types
<1>2. Room'
  BY Constants DEF Room, Types
<1>3. Kept'
  BY DEF Kept, Types, ToIndex
<1>4. \A a \in Takers : Snapshot(a)'
  <2>1. tail' \in Nat /\ tail <= tail'
    BY DEF Types
  <2>2. \A a \in Takers : pc'[a] \in {"head", "tail", "copy"} \/ pc[a] = "copy" => pc'[a] = pc[a]
    BY Constants DEF Types
  <2>3. \A a \in Takers : ToGrab(a)' = ToGrab(a)
    BY DEF ToGrab
  <2> HIDE DEF Publish
  <2>4. ASSUME NEW a \in Takers PROVE Snapshot(a)'
    <3>1. UNCHANGED <<head, want, myHead, myTail, out>>
      BY DEF Publish
    <3> QED
      BY <3>1, <2>1, <2>2, <2>3 DEF Snapshot, Types
  <2> QED
    BY <2>4
<1>5. \A a \in Takers : Copied(a)'
  BY Constants DEF Copied, Types
<1> QED
  BY <1>1, <1>2, <1>3, <1>4, <1>5

\* A call of TryPop() or Grab() begins.
LEMMA GrabKeeps ==
  ASSUME SpmcInv, NEW a \in Takers, NEW n \in 1 .. MaxBatch, Grab(a, n) PROVE SpmcInv'
<1> USE DEF SpmcInv, Grab, GoTo, pushVars
<1> n \in Nat /\ n > 0
  BY SpmcAssumption DEF SpmcAssumption
<1>1. Types'
  BY DEF Types
<1>2. Room' /\ Kept'
  BY Constants DEF Room, Kept, Types, ToIndex
<1>3. \A b \in Takers : Snapshot(b)' /\ Copied(b)'
  BY DEF Snapshot, Copied, Types, ToGrab
<1> QED
  BY <1>1, <1>2, <1>3

\* The head that is read is not ahead of head_.
LEMMA ReadHeadKeeps == ASSUME SpmcInv, NEW a \in Takers, ReadHead(a) PROVE SpmcInv'
<1> USE DEF SpmcInv, ReadHead, GoTo, pushVars
<1>1. Types'
  BY DEF Types
<1>2. Room' /\ Kept'
  BY Constants DEF Room, Kept, Types, ToIndex
<1>3. \A b \in Takers : Snapshot(b)' /\ Copied(b)'
  BY DEF Snapshot, Copied, Types, ToGrab
<1> QED
  BY <1>1, <1>2, <1>3

\* The tail is read after the head, and is not behind it.
LEMMA ReadTailKeeps == ASSUME SpmcInv, NEW a \in Takers, ReadTail(a) PROVE SpmcInv'
<1> USE DEF SpmcInv, GoTo
<1>0. pc[a] = "tail" /\ UNCHANGED <<buffer, head, tail, count, stored>>
  BY DEF ReadTail, pushVars
<1>1. ASSUME Finish(a), myTail' = [myTail EXCEPT ![a] = Nothing] PROVE SpmcInv'
  <2> USE <1>0, <1>1 DEF Finish
  <2>1. Types'
    BY DEF Types, Nothing
  <2>2. Room' /\ Kept'
    BY Constants DEF Room, Kept, Types, ToIndex
  <2>3. \A b \in Takers : Snapshot(b)' /\ Copied(b)'
    BY DEF Snapshot, Copied, Types, ToGrab
  <2> QED
    BY <2>1, <2>2, <2>3
<1>2. ASSUME tail # myHead[a], myTail' = [myTail EXCEPT ![a] = tail],
             pc' = [pc EXCEPT ![a] = "copy"], UNCHANGED <<want, myHead, out>>
      PROVE  SpmcInv'
  <2> USE <1>0, <1>2
  <2>1. Types'
    BY DEF Types
  <2>2. Room' /\ Kept'
    BY Constants DEF Room, Kept, Types, ToIndex
  <2>3. \A b \in Takers : Snapshot(b)' /\ Copied(b)'
    BY DEF Snapshot, Copied, Types, ToGrab
  <2> QED
    BY <2>1, <2>2, <2>3
<1> QED
  BY <1>1, <1>2 DEF ReadTail

\* The slot that is copied holds the item of its position, or head has moved.
LEMMA CopyKeeps == ASSUME SpmcInv, NEW a \in Takers, Copy(a) PROVE SpmcInv'
<1> USE DEF SpmcInv, Copy, pushVars
<1> DEFINE k == Len(out[a])
<1> DEFINE p == myHead[a] + k
<1> DEFINE item == buffer[ToIndex(p)]
<1>0. k \in Nat /\ p \in Nat /\ p < tail /\ k + 1 <= ToGrab(a)
  BY DEF Types, Snapshot, ToGrab
<1>1. item \in Int
  BY <1>0, SlotType DEF Types
<1>2. out' = [out EXCEPT ![a] = Append(out[a], item)]
  OBVIOUS
<1>3. out[a] \in Seq(Int) /\ out'[a] = Append(out[a], item)
  BY <1>2 DEF Types
<1>4. Types'
  BY <1>1, <1>2, <1>3 DEF Types
<1>5. Room' /\ Kept'
  BY DEF Room, Kept, ToIndex
<1>6. ASSUME NEW b \in Takers, b # a PROVE Snapshot(b)' /\ Copied(b)'
  BY <1>6, <1>2 DEF Types, Snapshot, Copied, ToGrab
<1>7. Snapshot(a)'
  BY <1>0, <1>1, <1>3 DEF Snapshot, ToGrab
<1>8. Copied(a)'
  <2> SUFFICES ASSUME myHead[a] = head, NEW i \in 1 .. k + 1
               PROVE  out'[a][i] = head + i - 1
    <3>1. Len(out'[a]) = k + 1
      BY <1>1, <1>3
    <3> QED
      BY <3>1 DEF Copied
  <2>1. CASE i = k + 1
    BY <2>1, <1>0, <1>1, <1>3 DEF Kept, Types
  <2>2. CASE i # k + 1
    BY <2>2, <1>0, <1>1, <1>3 DEF Copied
  <2> QED
    BY <2>1, <2>2
<1> QED
  BY <1>4, <1>5, <1>6, <1>7, <1>8

\* The exchange succeeds on the head that was read, or the loop starts again.
LEMMA CasKeeps == ASSUME SpmcInv, NEW a \in Takers, Cas(a) PROVE SpmcInv'
<1> USE DEF SpmcInv, GoTo, pushVars
<1>0. ToGrab(a) \in Nat /\ ToGrab(a) > 0 /\ myHead[a] + ToGrab(a) <= tail
  BY DEF Cas, Types, Snapshot, ToGrab
<1>1. ASSUME head = myHead[a], head' = head + ToGrab(a), Finish(a),
             myTail' = [myTail EXCEPT ![a] = Nothing], UNCHANGED <<buffer, tail, count, stored>>,
             pc[a] = "copy"
      PROVE  SpmcInv'
  <2> USE <1>1 DEF Finish
  <2>1. head' \in Nat /\ head <= head' /\ head' <= tail /\ head' # head
    BY <1>0 DEF Types
  <2>2. Types'
    BY <2>1 DEF Types, Nothing
  <2>3. Room' /\ Kept'
    <3>1. Room'
      <4>1. tail - head' + count <= BufferSize - 1
        <5>1. tail - head + count <= BufferSize - 1 /\ {tail, head, count} \subseteq Nat
          BY DEF Room, Types
        <5> HIDE DEF SpmcInv
        <5> QED
          BY <5>1, <2>1, Constants
      <4>2. pc'[Owner] # "store" => count = 0
        BY Constants DEF Room, Types
      <4> QED
        BY <4>1, <4>2 DEF Room
    <3>2. Kept'
      BY <2>1 DEF Kept, Types, ToIndex
    <3> QED
      BY <3>1, <3>2
  <2>4. Snapshot(a)' /\ Copied(a)'
    BY DEF Snapshot, Copied, Types
  <2>5. ASSUME NEW b \in Takers, b # a PROVE Snapshot(b)'
    BY <2>5, <2>1 DEF Snapshot, Types, ToGrab
  <2>6. ASSUME NEW b \in Takers, b # a PROVE Copied(b)'
    BY <2>6, <2>1 DEF Snapshot, Copied, Types
  <2> QED
    BY <2>2, <2>3, <2>4, <2>5, <2>6
<1>2. ASSUME out' = [out EXCEPT ![a] = <<>>], pc' = [pc EXCEPT ![a] = "head"],
             UNCHANGED <<buffer, head, tail, count, stored, want, myHead, myTail>>, pc[a] = "copy"
      PROVE  SpmcInv'
  <2> USE <1>2
  <2>1. Types'
    BY DEF Types
  <2>2. Room' /\ Kept'
    BY Constants DEF Room, Kept, Types, ToIndex
  <2>3. \A b \in Takers : Snapshot(b)' /\ Copied(b)'
    BY DEF Snapshot, Copied, Types, ToGrab
  <2> QED
    BY <2>1, <2>2, <2>3
<1> QED
  BY <1>1, <1>2 DEF Cas

\* Every step keeps the invariant.
LEMMA NextKeeps == SpmcInv /\ [Next]_vars => SpmcInv'
<1> SUFFICES ASSUME SpmcInv, [Next]_vars PROVE SpmcInv'
  OBVIOUS
<1>1. CASE Next
  BY <1>1, PushKeeps, StoreKeeps, PublishKeeps, GrabKeeps, ReadHeadKeeps, ReadTailKeeps,
     CopyKeeps, CasKeeps DEF Next
<1>2. CASE UNCHANGED vars
  BY <1>2 DEF vars, SpmcInv, Types, Room, Kept, Snapshot, Copied, ToGrab, ToIndex
<1> QED
  BY <1>1, <1>2

\* The slots, the snapshots and the copies of TryPush(), TryPop() and Grab() fit together
\* in every reachable state.
THEOREM InvariantHolds == Spec => []SpmcInv
  BY InitInv, NextKeeps, PTL DEF Spec

\* UASSERT(head <= tail) of TryPop() and Grab() holds for every size of the buffer
\* and every number of thieves.
THEOREM HeadNotAfterTailHolds == Spec => []HeadNotAfterTail
<1>1. SpmcInv => HeadNotAfterTail
  BY DEF SpmcInv, Types, Snapshot, HeadNotAfterTail
<1> QED
  BY <1>1, InvariantHolds, PTL

\* An exchange of head_ that succeeds returns the oldest items of the local queue,
\* for every size of the buffer and every number of thieves.
THEOREM TakesTheOldestHolds == Spec => TakesTheOldest
<1> DEFINE Takes ==
      head' # head =>
        \E a \in Takers : /\ pc[a] = "copy" /\ pc'[a] = "idle"
                          /\ out[a] = [i \in 1 .. head' - head |-> head + i - 1]
<1>1. SpmcInv /\ [Next]_vars => Takes
  <2> SUFFICES ASSUME SpmcInv, [Next]_vars, head' # head PROVE Takes
    OBVIOUS
  <2>1. PICK a \in Takers : Cas(a)
    BY DEF Next, vars, Push, Store, Publish, Grab, ReadHead, ReadTail, Copy
  <2>2. head = myHead[a] /\ head' = head + ToGrab(a) /\ pc[a] = "copy" /\ pc'[a] = "idle"
    BY <2>1 DEF Cas, Finish, GoTo, SpmcInv, Types
  <2>3. Len(out[a]) = ToGrab(a) /\ head' - head = Len(out[a])
    BY <2>1, <2>2 DEF Cas, SpmcInv, Types, Snapshot, ToGrab
  <2>4. \A i \in 1 .. Len(out[a]) : out[a][i] = head + i - 1
    BY <2>2 DEF SpmcInv, Copied
  <2>5. out[a] = [i \in 1 .. Len(out[a]) |-> head + i - 1]
    BY <2>4 DEF SpmcInv, Types
  <2> QED
    BY <2>2, <2>3, <2>5
<1>2. SpmcInv /\ [Next]_vars => [Takes]_vars
  BY <1>1
<1>3. Spec => [][Takes]_vars
  BY <1>2, InvariantHolds, PTL DEF Spec
<1> QED
  BY <1>3 DEF TakesTheOldest
----------------------------------------------------------------------------
(* The queue of many producers and many consumers. Its semaphores are in step  *)
(* with who is between which two of its steps, so the invariant counts those.  *)

ProducerStates == {"none", "resume", "idle", "lock", "push", "signal", "stop"}
ConsumerStates == {"none", "resume", "idle", "wait", "pop", "missed", "popped", "stop"}

ProducerAlive == ProducerStates \ {"none", "stop"}
ConsumerAlive == ConsumerStates \ {"none", "stop"}

\* How many of a side are between the steps that change one of its counters.
Count(S, pcs, where) == Cardinality({x \in S : pcs[x] \in where})

CqPushing == Count(Producers, cqPpc, {"push"})
CqSignalling == Count(Producers, cqPpc, {"signal"})
CqStarted == Count(Producers, cqPpc, {"lock", "push"})
CqProducersAlive == Count(Producers, cqPpc, ProducerAlive)
CqPopped == Count(Consumers, cqCpc, {"popped"})
CqPopping == Count(Consumers, cqCpc, {"pop", "missed"})
CqConsumersAlive == Count(Consumers, cqCpc, ConsumerAlive)

\* The number a side's counter stands for.
Living(counter) == IF counter = -1 THEN 0 ELSE counter

CqTypes ==
  /\ cqQueue \in Nat /\ cqUsed \in 0 .. MaxSize /\ cqPermits \in Int
  /\ cqClosed \in BOOLEAN /\ cqOpen \in BOOLEAN
  /\ cqProducers \in Int /\ cqConsumers \in Int
  /\ cqPpc \in [Producers -> ProducerStates]
  /\ cqCpc \in [Consumers -> ConsumerStates]
  /\ cqPushes \in 0 .. MaxPushes /\ cqLives \in 0 .. MaxLives

\* What each counter of the queue counts; every element is one of the pushes.
CqCounted ==
  /\ cqUsed = cqQueue + CqPushing + CqPopped
  /\ cqPermits = cqQueue - CqSignalling - CqPopping
  /\ cqQueue + CqStarted <= cqPushes
  /\ cqProducers >= -1 /\ Living(cqProducers) = CqProducersAlive
  /\ cqConsumers >= -1 /\ Living(cqConsumers) = CqConsumersAlive

\* The last death of a side is handled before its counter rises again, and whoever makes
\* it rise first undoes what that death did.
CqSides ==
  /\ \A p \in Producers : cqPpc[p] = "stop" => cqProducers = -1
  /\ \A c \in Consumers : cqCpc[c] = "stop" => cqConsumers = -1
  /\ cqOpen => cqProducers = -1 \/ \E p \in Producers : cqPpc[p] = "resume"
  /\ cqClosed => cqConsumers = -1 \/ \E c \in Consumers : cqCpc[c] = "resume"

CqInv == CqTypes /\ CqCounted /\ CqSides

\* What the proofs use of the constants.
LEMMA CqConstants ==
  /\ IsFiniteSet(Producers) /\ IsFiniteSet(Consumers)
  /\ MaxSize \in Nat /\ MaxPushes \in Nat /\ MaxLives \in Nat
BY LockFreeAssumption DEF CQ!QueueAssumption, CQ!IsFiniteSet, IsFiniteSet

\* What one member at v adds to the count of those at one of Q.
Bit(v, Q) == IF v \in Q THEN 1 ELSE 0

\* Between f and g only x moves.
OnlyMoves(S, f, g, x) == x \in S /\ \A y \in S : y # x => g[y] = f[y]

\* One member of a finite set moves: every count changes by at most one.
LEMMA Recount ==
  ASSUME NEW S, NEW f, NEW g, NEW x, NEW Q, IsFiniteSet(S), OnlyMoves(S, f, g, x)
  PROVE  /\ Count(S, f, Q) \in Nat /\ Count(S, g, Q) \in Nat
         /\ Count(S, g, Q) = Count(S, f, Q) + Bit(g[x], Q) - Bit(f[x], Q)
         /\ f[x] \in Q => Count(S, f, Q) >= 1
<1> USE DEF OnlyMoves
<1> DEFINE F == {y \in S : f[y] \in Q}
<1> DEFINE G == {y \in S : g[y] \in Q}
<1> DEFINE R == F \ {x}
<1>1. IsFiniteSet(F) /\ IsFiniteSet(G) /\ IsFiniteSet(R)
  BY FS_Subset
<1>2. Cardinality(F) \in Nat /\ Cardinality(G) \in Nat /\ Cardinality(R) \in Nat
  BY <1>1, FS_CardinalityType
<1>3. Cardinality(F) = Cardinality(R) + Bit(f[x], Q)
  <2>1. CASE x \in F
    <3>1. Cardinality(R) = Cardinality(F) - 1
      BY <1>1, <2>1, FS_RemoveElement, Zenon
    <3> QED BY <1>2, <2>1, <3>1 DEF Bit
  <2>2. CASE x \notin F
    <3>1. R = F
      BY <2>2
    <3> QED BY <1>2, <2>2, <3>1 DEF Bit
  <2> QED BY <2>1, <2>2
<1>4. Cardinality(G) = Cardinality(R) + Bit(g[x], Q)
  <2>1. CASE x \in G
    <3>1. G = R \cup {x} /\ x \notin R
      BY <2>1
    <3> QED BY <1>1, <1>2, <2>1, <3>1, FS_AddElement DEF Bit
  <2>2. CASE x \notin G
    <3>1. R = G
      BY <2>2
    <3> QED BY <1>2, <2>2, <3>1 DEF Bit
  <2> QED BY <2>1, <2>2
<1>5. Count(S, f, Q) = Cardinality(F) /\ Count(S, g, Q) = Cardinality(G)
  BY DEF Count
<1> HIDE DEF F, G, R
<1> QED BY <1>2, <1>3, <1>4, <1>5 DEF Bit

\* The counts are numbers.
LEMMA CqNumbers ==
  /\ CqPushing \in Nat /\ CqSignalling \in Nat /\ CqStarted \in Nat /\ CqProducersAlive \in Nat
  /\ CqPopped \in Nat /\ CqPopping \in Nat /\ CqConsumersAlive \in Nat
<1>1. ASSUME NEW S, IsFiniteSet(S), NEW f, NEW Q PROVE Count(S, f, Q) \in Nat
  <2>1. IsFiniteSet({y \in S : f[y] \in Q})
    BY <1>1, FS_Subset
  <2> QED BY <2>1, FS_CardinalityType DEF Count
<1> QED
  BY <1>1, CqConstants
  DEF CqPushing, CqSignalling, CqStarted, CqProducersAlive, CqPopped, CqPopping, CqConsumersAlive

\* The two sides of the queue are finite.
LEMMA SidesRecount ==
  ASSUME NEW x, NEW Q
  PROVE  /\ OnlyMoves(Producers, cqPpc, cqPpc', x) =>
              /\ Count(Producers, cqPpc', Q)
                   = Count(Producers, cqPpc, Q) + Bit(cqPpc'[x], Q) - Bit(cqPpc[x], Q)
              /\ cqPpc[x] \in Q => Count(Producers, cqPpc, Q) >= 1
         /\ OnlyMoves(Consumers, cqCpc, cqCpc', x) =>
              /\ Count(Consumers, cqCpc', Q)
                   = Count(Consumers, cqCpc, Q) + Bit(cqCpc'[x], Q) - Bit(cqCpc[x], Q)
              /\ cqCpc[x] \in Q => Count(Consumers, cqCpc, Q) >= 1
BY CqConstants, Recount

\* What the move of a producer does to the counts of its side.
ProducerMoved(p, s) ==
  /\ cqPpc' \in [Producers -> ProducerStates]
  /\ cqPpc'[p] = s /\ \A q \in Producers : q # p => cqPpc'[q] = cqPpc[q]
  /\ CqPushing' = CqPushing + Bit(s, {"push"}) - Bit(cqPpc[p], {"push"})
  /\ CqSignalling' = CqSignalling + Bit(s, {"signal"}) - Bit(cqPpc[p], {"signal"})
  /\ CqStarted' = CqStarted + Bit(s, {"lock", "push"}) - Bit(cqPpc[p], {"lock", "push"})
  /\ CqProducersAlive' = CqProducersAlive + Bit(s, ProducerAlive) - Bit(cqPpc[p], ProducerAlive)
  /\ cqPpc[p] = "push" => CqPushing >= 1
  /\ cqPpc[p] \in ProducerAlive => CqProducersAlive >= 1

\* A producer moves: what becomes of the counts of producers.
LEMMA ProducerMoves ==
  ASSUME CqTypes, NEW p \in Producers, NEW s \in ProducerStates,
         cqPpc' = [cqPpc EXCEPT ![p] = s]
  PROVE  ProducerMoved(p, s)
<1>1. /\ cqPpc' \in [Producers -> ProducerStates]
      /\ cqPpc'[p] = s /\ \A q \in Producers : q # p => cqPpc'[q] = cqPpc[q]
  BY DEF CqTypes
<1>2. ASSUME NEW Q PROVE
        /\ Count(Producers, cqPpc', Q)
             = Count(Producers, cqPpc, Q) + Bit(s, Q) - Bit(cqPpc[p], Q)
        /\ cqPpc[p] \in Q => Count(Producers, cqPpc, Q) >= 1
  <2>1. OnlyMoves(Producers, cqPpc, cqPpc', p)
    BY <1>1 DEF OnlyMoves
  <2> QED BY <1>1, <2>1, SidesRecount, Zenon
<1>3. cqPpc[p] \in ProducerStates
  BY DEF CqTypes
<1>4. /\ CqPushing' = CqPushing + Bit(s, {"push"}) - Bit(cqPpc[p], {"push"})
      /\ cqPpc[p] = "push" => CqPushing >= 1
  BY <1>2 DEF CqPushing, Bit
<1>5. CqSignalling' = CqSignalling + Bit(s, {"signal"}) - Bit(cqPpc[p], {"signal"})
  BY <1>2 DEF CqSignalling, Bit
<1>6. CqStarted' = CqStarted + Bit(s, {"lock", "push"}) - Bit(cqPpc[p], {"lock", "push"})
  BY <1>2 DEF CqStarted
<1>7. /\ CqProducersAlive' = CqProducersAlive + Bit(s, ProducerAlive) - Bit(cqPpc[p], ProducerAlive)
      /\ cqPpc[p] \in ProducerAlive => CqProducersAlive >= 1
  BY <1>2, <1>3 DEF CqProducersAlive, Bit
<1> QED BY <1>1, <1>4, <1>5, <1>6, <1>7 DEF ProducerMoved

\* What the move of a consumer does to the counts of its side.
ConsumerMoved(c, s) ==
  /\ cqCpc' \in [Consumers -> ConsumerStates]
  /\ cqCpc'[c] = s /\ \A d \in Consumers : d # c => cqCpc'[d] = cqCpc[d]
  /\ CqPopped' = CqPopped + Bit(s, {"popped"}) - Bit(cqCpc[c], {"popped"})
  /\ CqPopping' = CqPopping + Bit(s, {"pop", "missed"}) - Bit(cqCpc[c], {"pop", "missed"})
  /\ CqConsumersAlive' = CqConsumersAlive + Bit(s, ConsumerAlive) - Bit(cqCpc[c], ConsumerAlive)
  /\ cqCpc[c] = "popped" => CqPopped >= 1
  /\ cqCpc[c] \in ConsumerAlive => CqConsumersAlive >= 1

\* A consumer moves: what becomes of the counts of consumers.
LEMMA ConsumerMoves ==
  ASSUME CqTypes, NEW c \in Consumers, NEW s \in ConsumerStates,
         cqCpc' = [cqCpc EXCEPT ![c] = s]
  PROVE  ConsumerMoved(c, s)
<1>1. /\ cqCpc' \in [Consumers -> ConsumerStates]
      /\ cqCpc'[c] = s /\ \A d \in Consumers : d # c => cqCpc'[d] = cqCpc[d]
  BY DEF CqTypes
<1>2. ASSUME NEW Q PROVE
        /\ Count(Consumers, cqCpc', Q)
             = Count(Consumers, cqCpc, Q) + Bit(s, Q) - Bit(cqCpc[c], Q)
        /\ cqCpc[c] \in Q => Count(Consumers, cqCpc, Q) >= 1
  <2>1. OnlyMoves(Consumers, cqCpc, cqCpc', c)
    BY <1>1 DEF OnlyMoves
  <2> QED BY <1>1, <2>1, SidesRecount, Zenon
<1>3. cqCpc[c] \in ConsumerStates
  BY DEF CqTypes
<1>4. /\ CqPopped' = CqPopped + Bit(s, {"popped"}) - Bit(cqCpc[c], {"popped"})
      /\ cqCpc[c] = "popped" => CqPopped >= 1
  BY <1>2 DEF CqPopped, Bit
<1>5. CqPopping' = CqPopping + Bit(s, {"pop", "missed"}) - Bit(cqCpc[c], {"pop", "missed"})
  BY <1>2 DEF CqPopping
<1>6. /\ CqConsumersAlive' = CqConsumersAlive + Bit(s, ConsumerAlive) - Bit(cqCpc[c], ConsumerAlive)
      /\ cqCpc[c] \in ConsumerAlive => CqConsumersAlive >= 1
  BY <1>2, <1>3 DEF CqConsumersAlive, Bit
<1> QED BY <1>1, <1>4, <1>5, <1>6 DEF ConsumerMoved

\* The counts of a side that does not move.
LEMMA CqRests ==
  /\ UNCHANGED cqPpc => UNCHANGED <<CqPushing, CqSignalling, CqStarted, CqProducersAlive>>
  /\ UNCHANGED cqCpc => UNCHANGED <<CqPopped, CqPopping, CqConsumersAlive>>
BY DEF CqPushing, CqSignalling, CqStarted, CqProducersAlive, CqPopped, CqPopping,
       CqConsumersAlive, Count

\* Every step of a producer keeps the invariant.
LEMMA ProducersKeep ==
  ASSUME CqInv, NEW p \in Producers,
         CQ!PrepareProducer(p) \/ CQ!ResumeBlockingOnPop(p) \/ CQ!BeginPush(p) \/
         CQ!LockCapacity(p) \/ CQ!PushFails(p) \/ CQ!DoPush(p) \/ CQ!OnElementPushed(p) \/
         CQ!MarkProducerIsDead(p) \/ CQ!StopBlockingOnPop(p)
  PROVE  CqInv'
<1>0. CqTypes /\ CqCounted /\ CqSides
  BY DEF CqInv
<1>1. CASE CQ!PrepareProducer(p)
  <2> DEFINE s == IF cqProducers = -1 THEN "resume" ELSE "idle"
  <2>1. /\ cqPpc[p] = "none" /\ s \in ProducerStates
        /\ cqPpc' = [cqPpc EXCEPT ![p] = s] /\ UNCHANGED cqCpc
    BY <1>1 DEF CQ!PrepareProducer, CQ!NoMoreProducers, CQ!kCreatedAndDead, ProducerStates
  <2> HIDE DEF s
  <2>2. ProducerMoved(p, s)
    BY <1>0, <2>1, ProducerMoves
  <2>3. UNCHANGED <<CqPopped, CqPopping, CqConsumersAlive>>
    BY <2>1, CqRests
  <2>4. CqTypes'
    BY <1>0, <1>1, <2>1, <2>2, CqNumbers, CqConstants
    DEF CqTypes, CqCounted, ProducerMoved, CQ!PrepareProducer, CQ!semVars, CQ!Joined,
        CQ!NoMoreProducers, CQ!kCreatedAndDead, Living
  <2>5. CqCounted'
    BY <1>0, <1>1, <2>1, <2>2, <2>3, CqNumbers, CqConstants
    DEF CqTypes, CqCounted, ProducerMoved, CQ!PrepareProducer, CQ!semVars, CQ!Joined,
        CQ!NoMoreProducers, CQ!kCreatedAndDead, Living, Bit, s, ProducerAlive,
        ProducerStates
  <2>6. CqSides'
    BY <1>0, <1>1, <2>1, <2>2, CqNumbers
    DEF CqTypes, CqCounted, CqSides, ProducerMoved, CQ!PrepareProducer, CQ!semVars,
        CQ!Joined, CQ!NoMoreProducers, CQ!kCreatedAndDead, Living, s, ProducerAlive,
        ProducerStates
  <2> QED BY <2>4, <2>5, <2>6 DEF CqInv
<1>2. CASE CQ!ResumeBlockingOnPop(p)
  <2> DEFINE s == "idle"
  <2>1. /\ cqPpc[p] = "resume" /\ s \in ProducerStates
        /\ cqPpc' = [cqPpc EXCEPT ![p] = s] /\ UNCHANGED cqCpc
    BY <1>2 DEF CQ!ResumeBlockingOnPop, ProducerStates
  <2> HIDE DEF s
  <2>2. ProducerMoved(p, s)
    BY <1>0, <2>1, ProducerMoves
  <2>3. UNCHANGED <<CqPopped, CqPopping, CqConsumersAlive>>
    BY <2>1, CqRests
  <2>4. CqTypes'
    BY <1>0, <1>2, <2>1, <2>2, CqNumbers, CqConstants
    DEF CqTypes, CqCounted, ProducerMoved, CQ!ResumeBlockingOnPop, Living
  <2>5. CqCounted'
    BY <1>0, <1>2, <2>1, <2>2, <2>3, CqNumbers, CqConstants
    DEF CqTypes, CqCounted, ProducerMoved, CQ!ResumeBlockingOnPop, Living, Bit, s,
        ProducerAlive, ProducerStates
  <2>6. CqSides'
    BY <1>0, <1>2, <2>1, <2>2, CqNumbers
    DEF CqTypes, CqCounted, CqSides, ProducerMoved, CQ!ResumeBlockingOnPop, Living, s,
        ProducerAlive, ProducerStates
  <2> QED BY <2>4, <2>5, <2>6 DEF CqInv
<1>3. CASE CQ!BeginPush(p)
  <2> DEFINE s == "lock"
  <2>1. /\ cqPpc[p] = "idle" /\ s \in ProducerStates
        /\ cqPpc' = [cqPpc EXCEPT ![p] = s] /\ UNCHANGED cqCpc
    BY <1>3 DEF CQ!BeginPush, ProducerStates
  <2> HIDE DEF s
  <2>2. ProducerMoved(p, s)
    BY <1>0, <2>1, ProducerMoves
  <2>3. UNCHANGED <<CqPopped, CqPopping, CqConsumersAlive>>
    BY <2>1, CqRests
  <2>4. CqTypes'
    BY <1>0, <1>3, <2>1, <2>2, CqNumbers, CqConstants
    DEF CqTypes, CqCounted, ProducerMoved, CQ!BeginPush, CQ!semVars, Living
  <2>5. CqCounted'
    BY <1>0, <1>3, <2>1, <2>2, <2>3, CqNumbers, CqConstants
    DEF CqTypes, CqCounted, ProducerMoved, CQ!BeginPush, CQ!semVars, Living, Bit, s,
        ProducerAlive, ProducerStates
  <2>6. CqSides'
    BY <1>0, <1>3, <2>1, <2>2, CqNumbers
    DEF CqTypes, CqCounted, CqSides, ProducerMoved, CQ!BeginPush, CQ!semVars, Living, s,
        ProducerAlive, ProducerStates
  <2> QED BY <2>4, <2>5, <2>6 DEF CqInv
<1>4. CASE CQ!LockCapacity(p)
  <2> DEFINE s == "push"
  <2>1. /\ cqPpc[p] = "lock" /\ s \in ProducerStates
        /\ cqPpc' = [cqPpc EXCEPT ![p] = s] /\ UNCHANGED cqCpc
    BY <1>4 DEF CQ!LockCapacity, ProducerStates
  <2> HIDE DEF s
  <2>2. ProducerMoved(p, s)
    BY <1>0, <2>1, ProducerMoves
  <2>3. UNCHANGED <<CqPopped, CqPopping, CqConsumersAlive>>
    BY <2>1, CqRests
  <2>4. CqTypes'
    BY <1>0, <1>4, <2>1, <2>2, CqNumbers, CqConstants
    DEF CqTypes, CqCounted, ProducerMoved, CQ!LockCapacity, Living
  <2>5. CqCounted'
    BY <1>0, <1>4, <2>1, <2>2, <2>3, CqNumbers, CqConstants
    DEF CqTypes, CqCounted, ProducerMoved, CQ!LockCapacity, Living, Bit, s, ProducerAlive,
        ProducerStates
  <2>6. CqSides'
    BY <1>0, <1>4, <2>1, <2>2, CqNumbers
    DEF CqTypes, CqCounted, CqSides, ProducerMoved, CQ!LockCapacity, Living, s,
        ProducerAlive, ProducerStates
  <2> QED BY <2>4, <2>5, <2>6 DEF CqInv
<1>5. CASE CQ!PushFails(p)
  <2> DEFINE s == "idle"
  <2>1. /\ cqPpc[p] = "lock" /\ s \in ProducerStates
        /\ cqPpc' = [cqPpc EXCEPT ![p] = s] /\ UNCHANGED cqCpc
    BY <1>5 DEF CQ!PushFails, ProducerStates
  <2> HIDE DEF s
  <2>2. ProducerMoved(p, s)
    BY <1>0, <2>1, ProducerMoves
  <2>3. UNCHANGED <<CqPopped, CqPopping, CqConsumersAlive>>
    BY <2>1, CqRests
  <2>4. CqTypes'
    BY <1>0, <1>5, <2>1, <2>2, CqNumbers, CqConstants
    DEF CqTypes, CqCounted, ProducerMoved, CQ!PushFails, CQ!semVars, Living
  <2>5. CqCounted'
    BY <1>0, <1>5, <2>1, <2>2, <2>3, CqNumbers, CqConstants
    DEF CqTypes, CqCounted, ProducerMoved, CQ!PushFails, CQ!semVars, Living, Bit, s,
        ProducerAlive, ProducerStates
  <2>6. CqSides'
    BY <1>0, <1>5, <2>1, <2>2, CqNumbers
    DEF CqTypes, CqCounted, CqSides, ProducerMoved, CQ!PushFails, CQ!semVars, Living, s,
        ProducerAlive, ProducerStates
  <2> QED BY <2>4, <2>5, <2>6 DEF CqInv
<1>6. CASE CQ!DoPush(p)
  <2> DEFINE s == IF cqConsumers = -1 THEN "idle" ELSE "signal"
  <2>1. /\ cqPpc[p] = "push" /\ s \in ProducerStates
        /\ cqPpc' = [cqPpc EXCEPT ![p] = s] /\ UNCHANGED cqCpc
    BY <1>6 DEF CQ!DoPush, CQ!NoMoreConsumers, CQ!kCreatedAndDead, ProducerStates
  <2> HIDE DEF s
  <2>2. ProducerMoved(p, s)
    BY <1>0, <2>1, ProducerMoves
  <2>3. UNCHANGED <<CqPopped, CqPopping, CqConsumersAlive>>
    BY <2>1, CqRests
  <2>4. CqTypes'
    BY <1>0, <1>6, <2>1, <2>2, CqNumbers, CqConstants
    DEF CqTypes, CqCounted, ProducerMoved, CQ!DoPush, CQ!NoMoreConsumers, CQ!kCreatedAndDead, Living
  <2>5. CqCounted'
    BY <1>0, <1>6, <2>1, <2>2, <2>3, CqNumbers, CqConstants
    DEF CqTypes, CqCounted, ProducerMoved, CQ!DoPush, CQ!NoMoreConsumers,
        CQ!kCreatedAndDead, Living, Bit, s, ProducerAlive, ProducerStates
  <2>6. CqSides'
    BY <1>0, <1>6, <2>1, <2>2, CqNumbers
    DEF CqTypes, CqCounted, CqSides, ProducerMoved, CQ!DoPush, CQ!NoMoreConsumers,
        CQ!kCreatedAndDead, Living, s, ProducerAlive, ProducerStates
  <2> QED BY <2>4, <2>5, <2>6 DEF CqInv
<1>7. CASE CQ!OnElementPushed(p)
  <2> DEFINE s == "idle"
  <2>1. /\ cqPpc[p] = "signal" /\ s \in ProducerStates
        /\ cqPpc' = [cqPpc EXCEPT ![p] = s] /\ UNCHANGED cqCpc
    BY <1>7 DEF CQ!OnElementPushed, ProducerStates
  <2> HIDE DEF s
  <2>2. ProducerMoved(p, s)
    BY <1>0, <2>1, ProducerMoves
  <2>3. UNCHANGED <<CqPopped, CqPopping, CqConsumersAlive>>
    BY <2>1, CqRests
  <2>4. CqTypes'
    BY <1>0, <1>7, <2>1, <2>2, CqNumbers, CqConstants
    DEF CqTypes, CqCounted, ProducerMoved, CQ!OnElementPushed, Living
  <2>5. CqCounted'
    BY <1>0, <1>7, <2>1, <2>2, <2>3, CqNumbers, CqConstants
    DEF CqTypes, CqCounted, ProducerMoved, CQ!OnElementPushed, Living, Bit, s,
        ProducerAlive, ProducerStates
  <2>6. CqSides'
    BY <1>0, <1>7, <2>1, <2>2, CqNumbers
    DEF CqTypes, CqCounted, CqSides, ProducerMoved, CQ!OnElementPushed, Living, s,
        ProducerAlive, ProducerStates
  <2> QED BY <2>4, <2>5, <2>6 DEF CqInv
<1>8. CASE CQ!MarkProducerIsDead(p)
  <2> DEFINE s == IF cqProducers = 1 THEN "stop" ELSE "none"
  <2>1. /\ cqPpc[p] = "idle" /\ s \in ProducerStates
        /\ cqPpc' = [cqPpc EXCEPT ![p] = s] /\ UNCHANGED cqCpc
    BY <1>8 DEF CQ!MarkProducerIsDead, ProducerStates
  <2> HIDE DEF s
  <2>2. ProducerMoved(p, s)
    BY <1>0, <2>1, ProducerMoves
  <2>3. UNCHANGED <<CqPopped, CqPopping, CqConsumersAlive>>
    BY <2>1, CqRests
  <2>4. CqTypes'
    BY <1>0, <1>8, <2>1, <2>2, CqNumbers, CqConstants
    DEF CqTypes, CqCounted, ProducerMoved, CQ!MarkProducerIsDead, CQ!semVars, CQ!Left,
        CQ!kCreatedAndDead, Living
  <2>5. CqCounted'
    BY <1>0, <1>8, <2>1, <2>2, <2>3, CqNumbers, CqConstants
    DEF CqTypes, CqCounted, ProducerMoved, CQ!MarkProducerIsDead, CQ!semVars, CQ!Left,
        CQ!kCreatedAndDead, Living, Bit, s, ProducerAlive, ProducerStates
  <2>6. CqSides'
    BY <1>0, <1>8, <2>1, <2>2, CqNumbers
    DEF CqTypes, CqCounted, CqSides, ProducerMoved, CQ!MarkProducerIsDead, CQ!semVars,
        CQ!Left, CQ!kCreatedAndDead, Living, s, ProducerAlive, ProducerStates
  <2> QED BY <2>4, <2>5, <2>6 DEF CqInv
<1>9. CASE CQ!StopBlockingOnPop(p)
  <2> DEFINE s == "none"
  <2>1. /\ cqPpc[p] = "stop" /\ s \in ProducerStates
        /\ cqPpc' = [cqPpc EXCEPT ![p] = s] /\ UNCHANGED cqCpc
    BY <1>9 DEF CQ!StopBlockingOnPop, ProducerStates
  <2> HIDE DEF s
  <2>2. ProducerMoved(p, s)
    BY <1>0, <2>1, ProducerMoves
  <2>3. UNCHANGED <<CqPopped, CqPopping, CqConsumersAlive>>
    BY <2>1, CqRests
  <2>4. CqTypes'
    BY <1>0, <1>9, <2>1, <2>2, CqNumbers, CqConstants
    DEF CqTypes, CqCounted, ProducerMoved, CQ!StopBlockingOnPop, Living
  <2>5. CqCounted'
    BY <1>0, <1>9, <2>1, <2>2, <2>3, CqNumbers, CqConstants
    DEF CqTypes, CqCounted, ProducerMoved, CQ!StopBlockingOnPop, Living, Bit, s,
        ProducerAlive, ProducerStates
  <2>6. CqSides'
    BY <1>0, <1>9, <2>1, <2>2, CqNumbers
    DEF CqTypes, CqCounted, CqSides, ProducerMoved, CQ!StopBlockingOnPop, Living, s,
        ProducerAlive, ProducerStates
  <2> QED BY <2>4, <2>5, <2>6 DEF CqInv
<1> QED BY <1>1, <1>2, <1>3, <1>4, <1>5, <1>6, <1>7, <1>8, <1>9

\* Every step of a consumer keeps the invariant.
LEMMA ConsumersKeep ==
  ASSUME CqInv, NEW c \in Consumers,
         CQ!PrepareConsumer(c) \/ CQ!ResumeBlockingOnPush(c) \/ CQ!BeginPop(c) \/
         CQ!LockElement(c) \/ CQ!PopFails(c) \/ CQ!DoPop(c) \/ CQ!DoPopMisses(c) \/
         CQ!AfterMiss(c) \/ CQ!OnElementPopped(c) \/ CQ!MarkConsumerIsDead(c) \/
         CQ!StopBlockingOnPush(c)
  PROVE  CqInv'
<1>0. CqTypes /\ CqCounted /\ CqSides
  BY DEF CqInv
<1>1. CASE CQ!PrepareConsumer(c)
  <2> DEFINE s == IF cqConsumers = -1 THEN "resume" ELSE "idle"
  <2>1. /\ cqCpc[c] = "none" /\ s \in ConsumerStates
        /\ cqCpc' = [cqCpc EXCEPT ![c] = s] /\ UNCHANGED cqPpc
    BY <1>1 DEF CQ!PrepareConsumer, CQ!NoMoreConsumers, CQ!kCreatedAndDead, ConsumerStates
  <2> HIDE DEF s
  <2>2. ConsumerMoved(c, s)
    BY <1>0, <2>1, ConsumerMoves
  <2>3. UNCHANGED <<CqPushing, CqSignalling, CqStarted, CqProducersAlive>>
    BY <2>1, CqRests
  <2>4. CqTypes'
    BY <1>0, <1>1, <2>1, <2>2, CqNumbers, CqConstants
    DEF CqTypes, CqCounted, ConsumerMoved, CQ!PrepareConsumer, CQ!semVars, CQ!Joined,
        CQ!NoMoreConsumers, CQ!kCreatedAndDead, Living
  <2>5. CqCounted'
    BY <1>0, <1>1, <2>1, <2>2, <2>3, CqNumbers, CqConstants
    DEF CqTypes, CqCounted, ConsumerMoved, CQ!PrepareConsumer, CQ!semVars, CQ!Joined,
        CQ!NoMoreConsumers, CQ!kCreatedAndDead, Living, Bit, s, ConsumerAlive,
        ConsumerStates
  <2>6. CqSides'
    BY <1>0, <1>1, <2>1, <2>2, CqNumbers
    DEF CqTypes, CqCounted, CqSides, ConsumerMoved, CQ!PrepareConsumer, CQ!semVars,
        CQ!Joined, CQ!NoMoreConsumers, CQ!kCreatedAndDead, Living, s, ConsumerAlive,
        ConsumerStates
  <2> QED BY <2>4, <2>5, <2>6 DEF CqInv
<1>2. CASE CQ!ResumeBlockingOnPush(c)
  <2> DEFINE s == "idle"
  <2>1. /\ cqCpc[c] = "resume" /\ s \in ConsumerStates
        /\ cqCpc' = [cqCpc EXCEPT ![c] = s] /\ UNCHANGED cqPpc
    BY <1>2 DEF CQ!ResumeBlockingOnPush, ConsumerStates
  <2> HIDE DEF s
  <2>2. ConsumerMoved(c, s)
    BY <1>0, <2>1, ConsumerMoves
  <2>3. UNCHANGED <<CqPushing, CqSignalling, CqStarted, CqProducersAlive>>
    BY <2>1, CqRests
  <2>4. CqTypes'
    BY <1>0, <1>2, <2>1, <2>2, CqNumbers, CqConstants
    DEF CqTypes, CqCounted, ConsumerMoved, CQ!ResumeBlockingOnPush, Living
  <2>5. CqCounted'
    BY <1>0, <1>2, <2>1, <2>2, <2>3, CqNumbers, CqConstants
    DEF CqTypes, CqCounted, ConsumerMoved, CQ!ResumeBlockingOnPush, Living, Bit, s,
        ConsumerAlive, ConsumerStates
  <2>6. CqSides'
    BY <1>0, <1>2, <2>1, <2>2, CqNumbers
    DEF CqTypes, CqCounted, CqSides, ConsumerMoved, CQ!ResumeBlockingOnPush, Living, s,
        ConsumerAlive, ConsumerStates
  <2> QED BY <2>4, <2>5, <2>6 DEF CqInv
<1>3. CASE CQ!BeginPop(c)
  <2> DEFINE s == "wait"
  <2>1. /\ cqCpc[c] = "idle" /\ s \in ConsumerStates
        /\ cqCpc' = [cqCpc EXCEPT ![c] = s] /\ UNCHANGED cqPpc
    BY <1>3 DEF CQ!BeginPop, ConsumerStates
  <2> HIDE DEF s
  <2>2. ConsumerMoved(c, s)
    BY <1>0, <2>1, ConsumerMoves
  <2>3. UNCHANGED <<CqPushing, CqSignalling, CqStarted, CqProducersAlive>>
    BY <2>1, CqRests
  <2>4. CqTypes'
    BY <1>0, <1>3, <2>1, <2>2, CqNumbers, CqConstants
    DEF CqTypes, CqCounted, ConsumerMoved, CQ!BeginPop, CQ!semVars, Living
  <2>5. CqCounted'
    BY <1>0, <1>3, <2>1, <2>2, <2>3, CqNumbers, CqConstants
    DEF CqTypes, CqCounted, ConsumerMoved, CQ!BeginPop, CQ!semVars, Living, Bit, s,
        ConsumerAlive, ConsumerStates
  <2>6. CqSides'
    BY <1>0, <1>3, <2>1, <2>2, CqNumbers
    DEF CqTypes, CqCounted, CqSides, ConsumerMoved, CQ!BeginPop, CQ!semVars, Living, s,
        ConsumerAlive, ConsumerStates
  <2> QED BY <2>4, <2>5, <2>6 DEF CqInv
<1>4. CASE CQ!LockElement(c)
  <2> DEFINE s == "pop"
  <2>1. /\ cqCpc[c] = "wait" /\ s \in ConsumerStates
        /\ cqCpc' = [cqCpc EXCEPT ![c] = s] /\ UNCHANGED cqPpc
    BY <1>4 DEF CQ!LockElement, ConsumerStates
  <2> HIDE DEF s
  <2>2. ConsumerMoved(c, s)
    BY <1>0, <2>1, ConsumerMoves
  <2>3. UNCHANGED <<CqPushing, CqSignalling, CqStarted, CqProducersAlive>>
    BY <2>1, CqRests
  <2>4. CqTypes'
    BY <1>0, <1>4, <2>1, <2>2, CqNumbers, CqConstants
    DEF CqTypes, CqCounted, ConsumerMoved, CQ!LockElement, Living
  <2>5. CqCounted'
    BY <1>0, <1>4, <2>1, <2>2, <2>3, CqNumbers, CqConstants
    DEF CqTypes, CqCounted, ConsumerMoved, CQ!LockElement, Living, Bit, s, ConsumerAlive,
        ConsumerStates
  <2>6. CqSides'
    BY <1>0, <1>4, <2>1, <2>2, CqNumbers
    DEF CqTypes, CqCounted, CqSides, ConsumerMoved, CQ!LockElement, Living, s,
        ConsumerAlive, ConsumerStates
  <2> QED BY <2>4, <2>5, <2>6 DEF CqInv
<1>5. CASE CQ!PopFails(c)
  <2> DEFINE s == "idle"
  <2>1. /\ cqCpc[c] = "wait" /\ s \in ConsumerStates
        /\ cqCpc' = [cqCpc EXCEPT ![c] = s] /\ UNCHANGED cqPpc
    BY <1>5 DEF CQ!PopFails, ConsumerStates
  <2> HIDE DEF s
  <2>2. ConsumerMoved(c, s)
    BY <1>0, <2>1, ConsumerMoves
  <2>3. UNCHANGED <<CqPushing, CqSignalling, CqStarted, CqProducersAlive>>
    BY <2>1, CqRests
  <2>4. CqTypes'
    BY <1>0, <1>5, <2>1, <2>2, CqNumbers, CqConstants
    DEF CqTypes, CqCounted, ConsumerMoved, CQ!PopFails, CQ!semVars, Living
  <2>5. CqCounted'
    BY <1>0, <1>5, <2>1, <2>2, <2>3, CqNumbers, CqConstants
    DEF CqTypes, CqCounted, ConsumerMoved, CQ!PopFails, CQ!semVars, Living, Bit, s,
        ConsumerAlive, ConsumerStates
  <2>6. CqSides'
    BY <1>0, <1>5, <2>1, <2>2, CqNumbers
    DEF CqTypes, CqCounted, CqSides, ConsumerMoved, CQ!PopFails, CQ!semVars, Living, s,
        ConsumerAlive, ConsumerStates
  <2> QED BY <2>4, <2>5, <2>6 DEF CqInv
<1>6. CASE CQ!DoPop(c)
  <2> DEFINE s == "popped"
  <2>1. /\ cqCpc[c] = "pop" /\ s \in ConsumerStates
        /\ cqCpc' = [cqCpc EXCEPT ![c] = s] /\ UNCHANGED cqPpc
    BY <1>6 DEF CQ!DoPop, ConsumerStates
  <2> HIDE DEF s
  <2>2. ConsumerMoved(c, s)
    BY <1>0, <2>1, ConsumerMoves
  <2>3. UNCHANGED <<CqPushing, CqSignalling, CqStarted, CqProducersAlive>>
    BY <2>1, CqRests
  <2>4. CqTypes'
    BY <1>0, <1>6, <2>1, <2>2, CqNumbers, CqConstants
    DEF CqTypes, CqCounted, ConsumerMoved, CQ!DoPop, CQ!semVars, Living
  <2>5. CqCounted'
    BY <1>0, <1>6, <2>1, <2>2, <2>3, CqNumbers, CqConstants
    DEF CqTypes, CqCounted, ConsumerMoved, CQ!DoPop, CQ!semVars, Living, Bit, s,
        ConsumerAlive, ConsumerStates
  <2>6. CqSides'
    BY <1>0, <1>6, <2>1, <2>2, CqNumbers
    DEF CqTypes, CqCounted, CqSides, ConsumerMoved, CQ!DoPop, CQ!semVars, Living, s,
        ConsumerAlive, ConsumerStates
  <2> QED BY <2>4, <2>5, <2>6 DEF CqInv
<1>7. CASE CQ!DoPopMisses(c)
  <2> DEFINE s == "missed"
  <2>1. /\ cqCpc[c] = "pop" /\ s \in ConsumerStates
        /\ cqCpc' = [cqCpc EXCEPT ![c] = s] /\ UNCHANGED cqPpc
    BY <1>7 DEF CQ!DoPopMisses, ConsumerStates
  <2> HIDE DEF s
  <2>2. ConsumerMoved(c, s)
    BY <1>0, <2>1, ConsumerMoves
  <2>3. UNCHANGED <<CqPushing, CqSignalling, CqStarted, CqProducersAlive>>
    BY <2>1, CqRests
  <2>4. CqTypes'
    BY <1>0, <1>7, <2>1, <2>2, CqNumbers, CqConstants
    DEF CqTypes, CqCounted, ConsumerMoved, CQ!DoPopMisses, CQ!semVars, Living
  <2>5. CqCounted'
    BY <1>0, <1>7, <2>1, <2>2, <2>3, CqNumbers, CqConstants
    DEF CqTypes, CqCounted, ConsumerMoved, CQ!DoPopMisses, CQ!semVars, Living, Bit, s,
        ConsumerAlive, ConsumerStates
  <2>6. CqSides'
    BY <1>0, <1>7, <2>1, <2>2, CqNumbers
    DEF CqTypes, CqCounted, CqSides, ConsumerMoved, CQ!DoPopMisses, CQ!semVars, Living, s,
        ConsumerAlive, ConsumerStates
  <2> QED BY <2>4, <2>5, <2>6 DEF CqInv
<1>8. CASE CQ!AfterMiss(c)
  <2> DEFINE s == IF cqProducers = -1 THEN "idle" ELSE "pop"
  <2>1. /\ cqCpc[c] = "missed" /\ s \in ConsumerStates
        /\ cqCpc' = [cqCpc EXCEPT ![c] = s] /\ UNCHANGED cqPpc
    BY <1>8 DEF CQ!AfterMiss, CQ!NoMoreProducers, CQ!kCreatedAndDead, ConsumerStates
  <2> HIDE DEF s
  <2>2. ConsumerMoved(c, s)
    BY <1>0, <2>1, ConsumerMoves
  <2>3. UNCHANGED <<CqPushing, CqSignalling, CqStarted, CqProducersAlive>>
    BY <2>1, CqRests
  <2>4. CqTypes'
    BY <1>0, <1>8, <2>1, <2>2, CqNumbers, CqConstants
    DEF CqTypes, CqCounted, ConsumerMoved, CQ!AfterMiss, CQ!NoMoreProducers,
        CQ!kCreatedAndDead, Living
  <2>5. CqCounted'
    BY <1>0, <1>8, <2>1, <2>2, <2>3, CqNumbers, CqConstants
    DEF CqTypes, CqCounted, ConsumerMoved, CQ!AfterMiss, CQ!NoMoreProducers,
        CQ!kCreatedAndDead, Living, Bit, s, ConsumerAlive, ConsumerStates
  <2>6. CqSides'
    BY <1>0, <1>8, <2>1, <2>2, CqNumbers
    DEF CqTypes, CqCounted, CqSides, ConsumerMoved, CQ!AfterMiss, CQ!NoMoreProducers,
        CQ!kCreatedAndDead, Living, s, ConsumerAlive, ConsumerStates
  <2> QED BY <2>4, <2>5, <2>6 DEF CqInv
<1>9. CASE CQ!OnElementPopped(c)
  <2> DEFINE s == "idle"
  <2>1. /\ cqCpc[c] = "popped" /\ s \in ConsumerStates
        /\ cqCpc' = [cqCpc EXCEPT ![c] = s] /\ UNCHANGED cqPpc
    BY <1>9 DEF CQ!OnElementPopped, ConsumerStates
  <2> HIDE DEF s
  <2>2. ConsumerMoved(c, s)
    BY <1>0, <2>1, ConsumerMoves
  <2>3. UNCHANGED <<CqPushing, CqSignalling, CqStarted, CqProducersAlive>>
    BY <2>1, CqRests
  <2>4. CqTypes'
    BY <1>0, <1>9, <2>1, <2>2, CqNumbers, CqConstants
    DEF CqTypes, CqCounted, ConsumerMoved, CQ!OnElementPopped, Living
  <2>5. CqCounted'
    BY <1>0, <1>9, <2>1, <2>2, <2>3, CqNumbers, CqConstants
    DEF CqTypes, CqCounted, ConsumerMoved, CQ!OnElementPopped, Living, Bit, s,
        ConsumerAlive, ConsumerStates
  <2>6. CqSides'
    BY <1>0, <1>9, <2>1, <2>2, CqNumbers
    DEF CqTypes, CqCounted, CqSides, ConsumerMoved, CQ!OnElementPopped, Living, s,
        ConsumerAlive, ConsumerStates
  <2> QED BY <2>4, <2>5, <2>6 DEF CqInv
<1>10. CASE CQ!MarkConsumerIsDead(c)
  <2> DEFINE s == IF cqConsumers = 1 THEN "stop" ELSE "none"
  <2>1. /\ cqCpc[c] = "idle" /\ s \in ConsumerStates
        /\ cqCpc' = [cqCpc EXCEPT ![c] = s] /\ UNCHANGED cqPpc
    BY <1>10 DEF CQ!MarkConsumerIsDead, ConsumerStates
  <2> HIDE DEF s
  <2>2. ConsumerMoved(c, s)
    BY <1>0, <2>1, ConsumerMoves
  <2>3. UNCHANGED <<CqPushing, CqSignalling, CqStarted, CqProducersAlive>>
    BY <2>1, CqRests
  <2>4. CqTypes'
    BY <1>0, <1>10, <2>1, <2>2, CqNumbers, CqConstants
    DEF CqTypes, CqCounted, ConsumerMoved, CQ!MarkConsumerIsDead, CQ!semVars, CQ!Left,
        CQ!kCreatedAndDead, Living
  <2>5. CqCounted'
    BY <1>0, <1>10, <2>1, <2>2, <2>3, CqNumbers, CqConstants
    DEF CqTypes, CqCounted, ConsumerMoved, CQ!MarkConsumerIsDead, CQ!semVars, CQ!Left,
        CQ!kCreatedAndDead, Living, Bit, s, ConsumerAlive, ConsumerStates
  <2>6. CqSides'
    BY <1>0, <1>10, <2>1, <2>2, CqNumbers
    DEF CqTypes, CqCounted, CqSides, ConsumerMoved, CQ!MarkConsumerIsDead, CQ!semVars,
        CQ!Left, CQ!kCreatedAndDead, Living, s, ConsumerAlive, ConsumerStates
  <2> QED BY <2>4, <2>5, <2>6 DEF CqInv
<1>11. CASE CQ!StopBlockingOnPush(c)
  <2> DEFINE s == "none"
  <2>1. /\ cqCpc[c] = "stop" /\ s \in ConsumerStates
        /\ cqCpc' = [cqCpc EXCEPT ![c] = s] /\ UNCHANGED cqPpc
    BY <1>11 DEF CQ!StopBlockingOnPush, ConsumerStates
  <2> HIDE DEF s
  <2>2. ConsumerMoved(c, s)
    BY <1>0, <2>1, ConsumerMoves
  <2>3. UNCHANGED <<CqPushing, CqSignalling, CqStarted, CqProducersAlive>>
    BY <2>1, CqRests
  <2>4. CqTypes'
    BY <1>0, <1>11, <2>1, <2>2, CqNumbers, CqConstants
    DEF CqTypes, CqCounted, ConsumerMoved, CQ!StopBlockingOnPush, Living
  <2>5. CqCounted'
    BY <1>0, <1>11, <2>1, <2>2, <2>3, CqNumbers, CqConstants
    DEF CqTypes, CqCounted, ConsumerMoved, CQ!StopBlockingOnPush, Living, Bit, s,
        ConsumerAlive, ConsumerStates
  <2>6. CqSides'
    BY <1>0, <1>11, <2>1, <2>2, CqNumbers
    DEF CqTypes, CqCounted, CqSides, ConsumerMoved, CQ!StopBlockingOnPush, Living, s,
        ConsumerAlive, ConsumerStates
  <2> QED BY <2>4, <2>5, <2>6 DEF CqInv
<1> QED BY <1>1, <1>2, <1>3, <1>4, <1>5, <1>6, <1>7, <1>8, <1>9, <1>10, <1>11

\* The queue starts with nobody and nothing in it.
LEMMA CqStarts == CQ!Init => CqInv
<1> SUFFICES ASSUME CQ!Init PROVE CqInv
  OBVIOUS
<1> USE DEF CQ!Init
<1>1. CqTypes
  <2>1. cqClosed \in BOOLEAN /\ cqOpen \in BOOLEAN
    OBVIOUS
  <2>2. /\ cqQueue \in Nat /\ cqUsed \in 0 .. MaxSize /\ cqPermits \in Int
        /\ cqProducers \in Int /\ cqConsumers \in Int
        /\ cqPushes \in 0 .. MaxPushes /\ cqLives \in 0 .. MaxLives
    BY CqConstants
  <2>3. cqPpc \in [Producers -> ProducerStates] /\ cqCpc \in [Consumers -> ConsumerStates]
    BY DEF ProducerStates, ConsumerStates
  <2> QED BY <2>1, <2>2, <2>3 DEF CqTypes
<1>2. ASSUME NEW S, NEW f, NEW Q, \A x \in S : f[x] \notin Q PROVE Count(S, f, Q) = 0
  <2>1. {x \in S : f[x] \in Q} = {}
    BY <1>2
  <2> QED BY <2>1, FS_EmptySet DEF Count
<1>3. /\ \A p \in Producers : cqPpc[p] = "none"
      /\ \A c \in Consumers : cqCpc[c] = "none"
  OBVIOUS
<1>4. CqPushing = 0 /\ CqSignalling = 0 /\ CqStarted = 0 /\ CqProducersAlive = 0
  BY <1>2, <1>3 DEF CqPushing, CqSignalling, CqStarted, CqProducersAlive, ProducerAlive
<1>5. CqPopped = 0 /\ CqPopping = 0 /\ CqConsumersAlive = 0
  BY <1>2, <1>3 DEF CqPopped, CqPopping, CqConsumersAlive, ConsumerAlive
<1>6. CqCounted
  BY <1>4, <1>5 DEF CqCounted, Living
<1>7. CqSides
  BY <1>3 DEF CqSides
<1> QED BY <1>1, <1>6, <1>7 DEF CqInv

\* Every step keeps the invariant: those of the other subjects leave the queue alone.
LEMMA CqKeeps == CqInv /\ [AllNext]_allVars => CqInv'
<1> SUFFICES ASSUME CqInv, [AllNext]_allVars PROVE CqInv'
  OBVIOUS
<1>1. CASE CQ!Next
  BY <1>1, ProducersKeep, ConsumersKeep DEF CQ!Next, CQ!ProducerStep, CQ!ConsumerStep
<1>2. CASE UNCHANGED cqVars
  <2>1. UNCHANGED <<cqQueue, cqUsed, cqClosed, cqPermits, cqOpen, cqProducers, cqConsumers,
                    cqPpc, cqCpc, cqPushes, cqLives>>
    BY <1>2 DEF cqVars
  <2>2. CqTypes' /\ CqSides'
    BY <2>1 DEF CqInv, CqTypes, CqSides
  <2>3. CqCounted'
    BY <2>1, CqRests DEF CqInv, CqCounted, Living
  <2> QED BY <2>2, <2>3 DEF CqInv
<1>3. CQ!Next \/ UNCHANGED cqVars
  BY DEF AllNext, OthersRest, Rcus, allVars
<1> QED BY <1>1, <1>2, <1>3

\* What the invariant says of the queue.
LEMMA CqSafe == CqInv => MpmcQueueSafe
<1> SUFFICES ASSUME CqInv PROVE MpmcQueueSafe
  OBVIOUS
<1>0. CqTypes /\ CqCounted /\ CqSides
  BY DEF CqInv
<1>1. \A S : CQ!Cardinality(S) = Cardinality(S)
  BY DEF CQ!Cardinality, Cardinality
<1>2. ASSUME NEW S, IsFiniteSet(S), NEW f, NEW Q
      PROVE  Count(S, f, Q) \in Nat /\ Cardinality(S) \in Nat /\ Count(S, f, Q) <= Cardinality(S)
  <2> DEFINE F == {x \in S : f[x] \in Q}
  <2>1. F \subseteq S
    OBVIOUS
  <2> HIDE DEF F
  <2>2. IsFiniteSet(F) /\ Cardinality(F) <= Cardinality(S)
    BY <1>2, <2>1, FS_Subset
  <2>3. Cardinality(F) \in Nat /\ Cardinality(S) \in Nat
    BY <1>2, <2>2, FS_CardinalityType
  <2> QED BY <2>2, <2>3 DEF Count, F
<1>3. /\ Cardinality(Producers) \in Nat /\ Cardinality(Consumers) \in Nat
      /\ CqSignalling <= Cardinality(Producers) /\ CqPopping <= Cardinality(Consumers)
      /\ CqProducersAlive <= Cardinality(Producers) /\ CqConsumersAlive <= Cardinality(Consumers)
  BY <1>2, CqConstants DEF CqSignalling, CqPopping, CqProducersAlive, CqConsumersAlive
<1>4. CQ!TypeOK
  <2>1. cqQueue \in 0 .. MaxPushes
    BY <1>0, CqNumbers, CqConstants DEF CqTypes, CqCounted
  <2>2. cqPermits \in -(Cardinality(Producers) + Cardinality(Consumers)) .. MaxPushes
    BY <1>0, <1>3, <2>1, CqNumbers, CqConstants DEF CqTypes, CqCounted
  <2>3. /\ cqProducers \in {-1} \cup 0 .. Cardinality(Producers)
        /\ cqConsumers \in {-1} \cup 0 .. Cardinality(Consumers)
    BY <1>0, <1>3, CqNumbers DEF CqTypes, CqCounted, Living
  <2>4. {cqClosed, cqOpen} \subseteq BOOLEAN
    BY <1>0 DEF CqTypes
  <2>5. /\ cqUsed \in 0 .. MaxSize /\ cqPushes \in 0 .. MaxPushes /\ cqLives \in 0 .. MaxLives
        /\ cqPpc \in [Producers -> ProducerStates] /\ cqCpc \in [Consumers -> ConsumerStates]
    BY <1>0 DEF CqTypes
  <2> QED
    BY <1>1, <2>1, <2>2, <2>3, <2>4, <2>5
    DEF CQ!TypeOK, CQ!kCreatedAndDead, ProducerStates, ConsumerStates
<1>5. CQ!PermitsAccounted
  <2> DEFINE At(f, v) == Cardinality({x \in DOMAIN f : f[x] = v})
  <2>1. /\ DOMAIN cqPpc = Producers /\ DOMAIN cqCpc = Consumers
    BY <1>0 DEF CqTypes
  <2>2. /\ At(cqPpc, "push") = CqPushing /\ At(cqPpc, "signal") = CqSignalling
        /\ At(cqCpc, "popped") = CqPopped
    BY <2>1 DEF CqPushing, CqSignalling, CqPopped, Count
  <2>3. At(cqCpc, "pop") + At(cqCpc, "missed") = CqPopping
    <3> DEFINE A == {x \in Consumers : cqCpc[x] = "pop"}
    <3> DEFINE B == {x \in Consumers : cqCpc[x] = "missed"}
    <3>1. A \cap B = {} /\ IsFiniteSet(A) /\ IsFiniteSet(B)
      BY CqConstants, FS_Subset
    <3>2. {x \in Consumers : cqCpc[x] \in {"pop", "missed"}} = A \cup B
      OBVIOUS
    <3>3. At(cqCpc, "pop") = Cardinality(A) /\ At(cqCpc, "missed") = Cardinality(B)
      BY <2>1
    <3> HIDE DEF A, B, At
    <3>4. Cardinality(A \cup B) = Cardinality(A) + Cardinality(B) - Cardinality(A \cap B)
      BY <3>1, FS_Union
    <3>5. Cardinality(A \cap B) = 0 /\ Cardinality(A) \in Nat /\ Cardinality(B) \in Nat
      BY <3>1, FS_EmptySet, FS_CardinalityType
    <3>6. CqPopping = Cardinality(A \cup B)
      BY <3>2 DEF CqPopping, Count
    <3> QED BY <3>3, <3>4, <3>5, <3>6
  <2>4. At(cqCpc, "pop") \in Nat /\ At(cqCpc, "missed") \in Nat
    <3>1. /\ IsFiniteSet({x \in Consumers : cqCpc[x] = "pop"})
          /\ IsFiniteSet({x \in Consumers : cqCpc[x] = "missed"})
      BY CqConstants, FS_Subset
    <3> QED BY <2>1, <3>1, FS_CardinalityType
  <2> HIDE DEF At
  <2>5. /\ cqUsed = cqQueue + At(cqPpc, "push") + At(cqCpc, "popped")
        /\ cqPermits = cqQueue - At(cqPpc, "signal") - At(cqCpc, "pop") - At(cqCpc, "missed")
    <3> DEFINE a == At(cqCpc, "pop")
    <3> DEFINE b == At(cqCpc, "missed")
    <3>1. a \in Nat /\ b \in Nat /\ a + b = CqPopping
      BY <2>3, <2>4
    <3>2. cqUsed = cqQueue + CqPushing + CqPopped /\ cqPermits = cqQueue - CqSignalling - CqPopping
      BY <1>0 DEF CqCounted
    <3>3. cqQueue \in Nat
      BY <1>0 DEF CqTypes
    <3> HIDE DEF a, b
    <3>4. cqPermits = cqQueue - CqSignalling - a - b
      BY <3>1, <3>2, <3>3, CqNumbers
    <3> QED BY <2>2, <3>2, <3>4 DEF a, b
  <2> QED BY <1>1, <2>5 DEF CQ!PermitsAccounted, At
<1>6. CQ!ClosedOnlyWithoutConsumers /\ CQ!OpenOnlyWithoutProducers
  BY <1>0
  DEF CqSides, CQ!ClosedOnlyWithoutConsumers, CQ!OpenOnlyWithoutProducers, CQ!NoMoreConsumers,
      CQ!NoMoreProducers, CQ!kCreatedAndDead
<1> QED BY <1>4, <1>5, <1>6 DEF MpmcQueueSafe

\* The capacity and the element permits of GenericQueue agree with its content through
\* every failed push and pop, and a side is told that the other is dead only while it is,
\* for every number of producers and consumers.
THEOREM QueueIsSafe == AllSpec => []MpmcQueueSafe
<1>1. AllInit => CqInv
  BY CqStarts DEF AllInit
<1> QED BY <1>1, CqKeeps, CqSafe, PTL DEF AllSpec
=============================================================================
