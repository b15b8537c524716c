------------------------------ MODULE FifoQueue ------------------------------
(***************************************************************************)
(* What concurrent::impl::IntrusiveMpscQueueImpl promises: a first-in first-out *)
(* queue. A push tells the node that was last before it, a push onto an empty   *)
(* queue only happens on one, a pop that blocks misses no node, a weak one may. *)
(***************************************************************************)
EXTENDS Sequences, SequencesExt

CONSTANTS Nodes, Producers, None

VARIABLES
  items,        \* the nodes in the queue
  back,         \* per producer: what its last push returned
  result        \* what the last pop returned

fifoVars == <<items, back, result>>

Init ==
  /\ items = <<>>
  /\ back = [p \in Producers |-> None]
  /\ result = None

Push(p, n) ==
  /\ UNCHANGED result
  /\ ~Contains(items, n)
  /\ items' = Append(items, n)
  /\ back' = [back EXCEPT ![p] = IF items = <<>> THEN None ELSE Last(items)]

PushIfEmpty(p, n) ==
  /\ UNCHANGED result
  /\ \/ items = <<>> /\ items' = <<n>> /\ back' = [back EXCEPT ![p] = TRUE]
     \/ items # <<>> /\ back' = [back EXCEPT ![p] = FALSE] /\ UNCHANGED items

TryPop ==
  /\ UNCHANGED back
  /\ \/ items # <<>> /\ result' = Head(items) /\ items' = Tail(items)
     \/ items = <<>> /\ result' = None /\ UNCHANGED items

\* TryPopWeak() may return nothing though there is something.
MissWeak ==
  /\ result' = "missed"
  /\ UNCHANGED <<items, back>>

Next ==
  \/ \E p \in Producers, n \in Nodes : Push(p, n) \/ PushIfEmpty(p, n)
  \/ TryPop \/ MissWeak

Spec == Init /\ [][Next]_fifoVars
=============================================================================
