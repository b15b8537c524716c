------------------------------ MODULE SpmcQueue ------------------------------
(***************************************************************************)
(* engine::fast::SPMCQueue: the local queue of a worker of WorkStealing. The    *)
(* owner pushes at tail_; the owner and thieves take from head_ with a compare- *)
(* and-exchange, after they have copied slots the owner may be writing to. The  *)
(* items are distinct: the one that is pushed as number p is p.                 *)
(***************************************************************************)
EXTENDS Integers, Sequences

CONSTANTS
  Owner, Thieves,
  BufferSize,       \* kLocalQueueBufferSize
  MaxBatch,         \* bound: the longest out_buffer, and the longest PushMany()
  MaxTail           \* bound: how many items are pushed

ASSUME SpmcAssumption ==
  /\ BufferSize \in Nat \ {0, 1}
  /\ {MaxBatch, MaxTail} \subseteq Nat \ {0}
  /\ Owner \notin Thieves

Takers == Thieves \cup {Owner}
Nothing == -1       \* a slot that was never written, a value not read yet

VARIABLES
  buffer, head, tail,
  count, stored,    \* owner: the items of its push, and how many are stored
  pc,
  want,             \* per taker: the size of its out_buffer; 1 is TryPop()
  myHead, myTail,   \* per taker: head and tail as it has read them
  out               \* per taker: what it has copied

vars == <<buffer, head, tail, count, stored, pc, want, myHead, myTail, out>>
pushVars == <<count, stored>>
takeVars == <<want, myHead, myTail, out>>

ToIndex(pos) == pos % BufferSize
IsFull(h, t) == t - h + 1 >= BufferSize

Init ==
  /\ buffer = [i \in 0 .. BufferSize - 1 |-> Nothing]
  /\ head = 0 /\ tail = 0
  /\ count = 0 /\ stored = 0
  /\ pc = [a \in Takers |-> "idle"]
  /\ want = [a \in Takers |-> 0]
  /\ myHead = [a \in Takers |-> Nothing]
  /\ myTail = [a \in Takers |-> Nothing]
  /\ out = [a \in Takers |-> <<>>]

GoTo(a, to) == pc' = [pc EXCEPT ![a] = to]

----------------------------------------------------------------------------
(* The owner: TryPush() and PushMany() *)

\* PushMany() is called with no more than fits, TryPush() returns when the queue is full.
Push(n) ==
  /\ pc[Owner] = "idle"
  /\ tail + n <= MaxTail
  /\ ~IsFull(head, tail + n - 1)
  /\ count' = n
  /\ GoTo(Owner, "store")
  /\ UNCHANGED <<buffer, head, tail, stored, takeVars>>

Store ==
  /\ pc[Owner] = "store"
  /\ stored < count
  /\ buffer' = [buffer EXCEPT ![ToIndex(tail + stored)] = tail + stored]
  /\ stored' = stored + 1
  /\ UNCHANGED <<head, tail, count, pc, takeVars>>

Publish ==
  /\ pc[Owner] = "store"
  /\ stored = count
  /\ tail' = tail + count
  /\ count' = 0 /\ stored' = 0
  /\ GoTo(Owner, "idle")
  /\ UNCHANGED <<buffer, head, takeVars>>

----------------------------------------------------------------------------
(* Everybody: TryPop() and Grab() *)

Grab(a, n) ==
  /\ pc[a] = "idle"
  /\ want' = [want EXCEPT ![a] = n]
  /\ GoTo(a, "head")
  /\ UNCHANGED <<buffer, head, tail, pushVars, myHead, myTail, out>>

ReadHead(a) ==
  /\ pc[a] = "head"
  /\ myHead' = [myHead EXCEPT ![a] = head]
  /\ GoTo(a, "tail")
  /\ UNCHANGED <<buffer, head, tail, pushVars, want, myTail, out>>

Finish(a) ==
  /\ GoTo(a, "idle")
  /\ want' = [want EXCEPT ![a] = 0]
  /\ myHead' = [myHead EXCEPT ![a] = Nothing]
  /\ out' = [out EXCEPT ![a] = <<>>]

\* Mutant: the tail is read before the loop.
ReadTailOnce(a) ==
  /\ pc[a] = "tail"
  /\ IF myTail[a] = Nothing /\ tail = myHead[a]
     THEN Finish(a) /\ UNCHANGED myTail
     ELSE /\ myTail' = [myTail EXCEPT ![a] = IF @ = Nothing THEN tail ELSE @]
          /\ GoTo(a, "copy")
          /\ UNCHANGED <<want, myHead, out>>
  /\ UNCHANGED <<buffer, head, tail, pushVars>>

ReadTail(a) ==
  /\ pc[a] = "tail"
  /\ IF tail = myHead[a]
     THEN Finish(a) /\ myTail' = [myTail EXCEPT ![a] = Nothing]
     ELSE /\ myTail' = [myTail EXCEPT ![a] = tail]
          /\ GoTo(a, "copy")
          /\ UNCHANGED <<want, myHead, out>>
  /\ UNCHANGED <<buffer, head, tail, pushVars>>

ToGrab(a) == IF myTail[a] - myHead[a] < want[a] THEN myTail[a] - myHead[a] ELSE want[a]

Copy(a) ==
  /\ pc[a] = "copy"
  /\ Len(out[a]) < ToGrab(a)
  /\ out' = [out EXCEPT ![a] = Append(@, buffer[ToIndex(myHead[a] + Len(@))])]
  /\ UNCHANGED <<buffer, head, tail, pushVars, pc, want, myHead, myTail>>

\* Mutant: compares with the head of now.
CasFresh(a) ==
  /\ pc[a] = "copy"
  /\ Len(out[a]) >= ToGrab(a)
  /\ head + ToGrab(a) <= tail
  /\ head' = head + ToGrab(a)
  /\ Finish(a) /\ myTail' = [myTail EXCEPT ![a] = Nothing]
  /\ UNCHANGED <<buffer, tail, pushVars>>

\* compare_exchange_weak() may also fail for no reason; the loop starts again.
Cas(a) ==
  /\ pc[a] = "copy"
  /\ Len(out[a]) >= ToGrab(a)
  /\ \/ /\ head = myHead[a]
        /\ head' = head + ToGrab(a)
        /\ Finish(a) /\ myTail' = [myTail EXCEPT ![a] = Nothing]
     \/ /\ out' = [out EXCEPT ![a] = <<>>]
        /\ GoTo(a, "head")
        /\ UNCHANGED <<head, want, myHead, myTail>>
  /\ UNCHANGED <<buffer, tail, pushVars>>

----------------------------------------------------------------------------

Next ==
  \/ \E n \in 1 .. MaxBatch : Push(n) \/ \E a \in Takers : Grab(a, n)
  \/ Store \/ Publish
  \/ \E a \in Takers : ReadHead(a) \/ ReadTail(a) \/ Copy(a) \/ Cas(a)

Spec == Init /\ [][Next]_vars

----------------------------------------------------------------------------
(* Properties *)

\* Every variable has its type; no more than kLocalQueueCapacity items are in the queue.
TypeOK ==
  /\ buffer \in [0 .. BufferSize - 1 -> {Nothing} \cup 0 .. MaxTail - 1]
  /\ tail \in 0 .. MaxTail /\ head \in 0 .. tail /\ tail - head <= BufferSize - 1
  /\ count \in 0 .. MaxBatch /\ stored \in 0 .. count
  /\ pc \in [Takers -> {"idle", "store", "head", "tail", "copy"}]
  /\ want \in [Takers -> 0 .. MaxBatch]
  /\ \A a \in Takers : myHead[a] \in {Nothing} \cup 0 .. head

\* UASSERT(head <= tail) of TryPop() and Grab(): head is read first, and both anew
\* each time the exchange has failed.
HeadNotAfterTail == \A a \in Takers : pc[a] = "copy" => myHead[a] <= myTail[a]

\* An exchange that succeeds takes the oldest items, and what it returns are these:
\* the slots it copied were not written to again, though the owner has the same slots
\* to reuse. So no task is run twice, and none is skipped.
TakesTheOldest ==
  [][head' # head =>
       \E a \in Takers : /\ pc[a] = "copy" /\ pc'[a] = "idle"
                         /\ out[a] = [i \in 1 .. head' - head |-> head + i - 1]]_vars
=============================================================================
