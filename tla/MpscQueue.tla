------------------------------ MODULE MpscQueue ------------------------------
(***************************************************************************)
(* concurrent::impl::IntrusiveMpscQueueImpl: a linked list from tail_, which    *)
(* only the consumer uses, to head_, which producers exchange for their node    *)
(* before they link it to the one before. Until then the list is in two parts.  *)
(* The stub keeps it from being empty. Nodes are the users' and go back to them *)
(* when they are popped.                                                        *)
(***************************************************************************)
EXTENDS Integers, Sequences, SequencesExt, FiniteSets

CONSTANTS
  Nodes, Producers,
  Stub,         \* stub_
  None          \* a null pointer

QueueAssumption ==
  /\ Stub \notin Nodes
  /\ None \notin Nodes \cup {Stub}

VARIABLES
  head, tail,       \* head_, tail_
  next,             \* per node: its link
  free,             \* nodes that belong to their users
  ppc, node, prev,  \* producers: where they are, their node, the one before
  back,             \* per producer: what its last push returned
  cpc, weak,        \* the consumer: where it is, its PopMode
  result            \* what the last pop returned

producerVars == <<ppc, node, prev, back>>
vars == <<head, tail, next, free, producerVars, cpc, weak, result>>

Init ==
  /\ head = Stub
  /\ tail = Stub
  /\ next = [x \in Nodes \cup {Stub} |-> None]
  /\ free = Nodes
  /\ ppc = [p \in Producers |-> "idle"]
  /\ node = [p \in Producers |-> None]
  /\ prev = [p \in Producers |-> None]
  /\ back = [p \in Producers |-> None]
  /\ cpc = "idle"
  /\ weak = FALSE
  /\ result = None

----------------------------------------------------------------------------
(* Producers *)

\* The exchange of GetBackAndPush().
GetBackAndPush(p, n) ==
  /\ ppc[p] = "idle"
  /\ n \in free
  /\ free' = free \ {n}
  /\ head' = n
  /\ node' = [node EXCEPT ![p] = n]
  /\ prev' = [prev EXCEPT ![p] = head]
  /\ back' = [back EXCEPT ![p] = IF head = Stub THEN None ELSE head]
  /\ ppc' = [ppc EXCEPT ![p] = "link"]
  /\ UNCHANGED <<tail, next, cpc, weak, result>>

\* The exchange of PushIfEmpty().
PushIfEmpty(p, n) ==
  /\ ppc[p] = "idle"
  /\ n \in free
  /\ \/ /\ head = Stub
        /\ head' = n
        /\ free' = free \ {n}
        /\ node' = [node EXCEPT ![p] = n]
        /\ prev' = [prev EXCEPT ![p] = Stub]
        /\ ppc' = [ppc EXCEPT ![p] = "link"]
        /\ back' = [back EXCEPT ![p] = TRUE]
     \/ /\ head # Stub
        /\ back' = [back EXCEPT ![p] = FALSE]
        /\ UNCHANGED <<head, free, node, prev, ppc>>
  /\ UNCHANGED <<tail, next, cpc, weak, result>>

Link(p) ==
  /\ ppc[p] = "link"
  /\ next' = [next EXCEPT ![prev[p]] = node[p]]
  /\ ppc' = [ppc EXCEPT ![p] = "idle"]
  /\ UNCHANGED <<head, tail, free, node, prev, back, cpc, weak, result>>

----------------------------------------------------------------------------
(* The consumer: TryPop() *)

Return(r) == result' = r /\ cpc' = "idle"

Goto(to) == cpc' = to /\ UNCHANGED result

TryPop ==
  /\ cpc = "idle"
  /\ weak' \in BOOLEAN
  /\ Goto(IF tail = Stub THEN "stub" ELSE "node")
  /\ UNCHANGED <<head, tail, next, free, producerVars>>

\* Nothing follows the stub, or it is discarded.
AtStub ==
  /\ cpc = "stub"
  /\ \/ /\ next[Stub] = None
        /\ \/ weak /\ Return("missed")
           \/ ~weak /\ Goto("look")
        /\ UNCHANGED <<tail, next>>
     \/ /\ next[Stub] # None
        /\ tail' = next[Stub]
        /\ next' = [next EXCEPT ![Stub] = None]
        /\ Goto("node")
  /\ UNCHANGED <<head, free, producerVars, weak>>

\* Mutant: an unlinked first node is missed.
LookNot ==
  /\ cpc = "look"
  /\ Return(None)
  /\ UNCHANGED <<head, tail, next, free, producerVars, weak>>

\* Empty, or a push is under way.
Look ==
  /\ cpc = "look"
  /\ \/ head = Stub /\ Return(None)
     \/ head # Stub /\ Goto("spin")
  /\ UNCHANGED <<head, tail, next, free, producerVars, weak>>

SpinAtStub ==
  /\ cpc = "spin"
  /\ next[Stub] # None
  /\ Goto("stub")
  /\ UNCHANGED <<head, tail, next, free, producerVars, weak>>

\* The node at the tail is unlinked and returned.
PopTail ==
  /\ tail' = next[tail]
  /\ next' = [next EXCEPT ![tail] = None]
  /\ free' = free \cup {tail}
  /\ Return(tail)

AtNode ==
  /\ cpc = "node"
  /\ \/ next[tail] # None /\ PopTail
     \/ next[tail] = None /\ Goto("last") /\ UNCHANGED <<tail, next, free>>
  /\ UNCHANGED <<head, producerVars, weak>>

\* The stub takes the place of the last node, unless a push is under way.
AtLast ==
  /\ cpc = "last"
  /\ \/ /\ head = tail
        /\ head' = Stub
        /\ tail' = Stub
        /\ free' = free \cup {tail}
        /\ Return(tail)
     \/ /\ head # tail
        /\ \/ weak /\ Return("missed")
           \/ ~weak /\ Goto("wait")
        /\ UNCHANGED <<head, tail, free>>
  /\ UNCHANGED <<next, producerVars, weak>>

BlockThreadUntilNotNull ==
  /\ cpc = "wait"
  /\ next[tail] # None
  /\ PopTail
  /\ UNCHANGED <<head, producerVars, weak>>

----------------------------------------------------------------------------

ConsumerStep == TryPop \/ AtStub \/ Look \/ SpinAtStub \/ AtNode \/ AtLast \/ BlockThreadUntilNotNull

Next ==
  \/ \E p \in Producers : Link(p) \/ \E n \in Nodes : GetBackAndPush(p, n) \/ PushIfEmpty(p, n)
  \/ ConsumerStep

Spec == Init /\ [][Next]_vars

\* Pushes that have begun end; the consumer pops for ever and blocks again and again.
Fairness ==
  /\ \A p \in Producers : WF_vars(Link(p))
  /\ WF_vars(ConsumerStep)
  /\ SF_vars(TryPop /\ ~weak')

----------------------------------------------------------------------------
(* Properties *)

\* Every variable has its type, the pointers the consumer follows are not null.
TypeOK ==
  /\ {head, tail} \subseteq Nodes \cup {Stub}
  /\ next \in [Nodes \cup {Stub} -> Nodes \cup {Stub, None}]
  /\ free \subseteq Nodes
  /\ ppc \in [Producers -> {"idle", "link"}]
  /\ {node, prev} \subseteq [Producers -> Nodes \cup {Stub, None}]
  /\ back \in [Producers -> Nodes \cup {None, TRUE, FALSE}]
  /\ cpc \in {"idle", "stub", "look", "spin", "node", "last", "wait"}
  /\ weak \in BOOLEAN
  /\ result \in Nodes \cup {None, "missed"}

\* A node may be freed as soon as it is popped: nothing refers to it any more, neither
\* the list nor a producer that is about to link to it.
NoDangling ==
  \A n \in free :
    /\ n \notin {head, tail}
    /\ next[n] = None
    /\ \A x \in Nodes \cup {Stub} : next[x] # n
    /\ \A p \in Producers : ppc[p] = "link" => n \notin {prev[p], node[p]}

\* The node after x: linked, or about to be.
After(x) ==
  IF next[x] # None THEN next[x]
  ELSE LET late == {p \in Producers : ppc[p] = "link" /\ prev[p] = x}
       IN IF late = {} THEN None ELSE node[CHOOSE p \in late : TRUE]

Chain ==
  LET nth[k \in 0 .. Cardinality(Nodes)] ==
        IF k = 0 THEN tail ELSE LET x == nth[k - 1] IN IF x = None THEN None ELSE After(x)
  IN [k \in 1 .. Cardinality(Nodes) + 1 |-> nth[k - 1]]

Fifo == INSTANCE FifoQueue WITH items <- SelectSeq(Chain, LAMBDA x : x \notin {Stub, None})

\* The list in two parts is one FIFO queue: each push takes effect at its exchange, each
\* pop in one step, and what they return is what a queue in one step would.
IsFifo == Fifo!Spec

=============================================================================
