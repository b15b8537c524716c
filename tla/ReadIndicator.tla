--------------------------- MODULE ReadIndicator ---------------------------
(***************************************************************************)
(* StripedReadIndicator: readers count their locks and unlocks in two        *)
(* StripedCounters, each an array of per-CPU counters (and a fallback) that   *)
(* is read one element at a time. A reader may be moved to another CPU        *)
(* between its lock and its unlock. The counters are machine words and wrap.  *)
(***************************************************************************)
EXTENDS Integers, FiniteSets, FiniteSetsExt, Functions

CONSTANTS
  Handles,        \* StripedReadIndicatorLock objects
  Stripes,        \* elements of a StripedCounter
  Modulus,        \* of the counters' arithmetic
  MaxLocks,       \* bound: calls of lock()
  MaxChecks       \* bound: calls of IsFree()

\* A word is wide enough for the locks of one IsFree() call.
WidthAssumption == {Modulus, MaxLocks, MaxChecks} \subseteq Nat /\ MaxLocks < Modulus

VARIABLES
  acquired,     \* acquired_count_, per stripe
  released,     \* released_count_, per stripe
  held,         \* the handles that hold a lock
  locks,        \* calls of lock() so far
  phase,        \* of the present GetActiveCountUpperEstimate()
  unread,       \* the stripes it has yet to read in this phase
  sum,          \* acquired - released as far as read
  estimate,     \* what it returned, -1 before the first call
  heldBetween,  \* the handles that held a lock between the two counters' reads
  checks

counterVars == <<acquired, released>>
checkVars == <<phase, unread, sum, estimate, heldBetween, checks>>
vars == <<counterVars, held, locks, checkVars>>

\* Earlier locks and unlocks may have been counted in different stripes.
Init ==
  /\ acquired \in [Stripes -> {0, Modulus - 2}]
  /\ released \in [Stripes -> {0, Modulus - 2}]
  /\ (FoldFunction(+, 0, acquired) - FoldFunction(+, 0, released)) % Modulus = 0
  /\ held = {}
  /\ locks = 0
  /\ phase = "idle"
  /\ unread = {}
  /\ sum = 0
  /\ estimate = -1
  /\ heldBetween = {}
  /\ checks = 0

\* StripedCounter::Add().
Add(counter, s) == [counter EXCEPT ![s] = (@ + 1) % Modulus]

\* GetLock(), and the copy of a lock.
lock(h, s) ==
  /\ h \notin held
  /\ locks < MaxLocks
  /\ acquired' = Add(acquired, s)
  /\ held' = held \cup {h}
  /\ locks' = locks + 1
  /\ UNCHANGED <<released, checkVars>>

unlock(h, s) ==
  /\ h \in held
  /\ released' = Add(released, s)
  /\ held' = held \ {h}
  /\ UNCHANGED <<acquired, locks, checkVars>>

----------------------------------------------------------------------------
(* IsFree() *)

BeginCheck ==
  /\ phase = "idle"
  /\ checks < MaxChecks
  /\ checks' = checks + 1
  /\ phase' = "released"
  /\ unread' = Stripes
  /\ sum' = 0
  /\ UNCHANGED <<counterVars, held, locks, estimate, heldBetween>>

ReadReleased(s) ==
  /\ phase = "released"
  /\ s \in unread
  /\ sum' = (sum - released[s]) % Modulus
  /\ IF unread = {s}
       THEN phase' = "acquired" /\ unread' = Stripes /\ heldBetween' = held
       ELSE unread' = unread \ {s} /\ UNCHANGED <<phase, heldBetween>>
  /\ UNCHANGED <<counterVars, held, locks, estimate, checks>>

ReadAcquired(s) ==
  /\ phase = "acquired"
  /\ s \in unread
  /\ sum' = (sum + acquired[s]) % Modulus
  /\ unread' = unread \ {s}
  /\ phase' = IF unread = {s} THEN "done" ELSE phase
  /\ UNCHANGED <<counterVars, held, locks, estimate, heldBetween, checks>>

EndCheck ==
  /\ phase = "done"
  /\ estimate' = sum
  /\ phase' = "idle"
  /\ UNCHANGED <<counterVars, held, locks, unread, sum, heldBetween, checks>>

----------------------------------------------------------------------------

Next ==
  \/ \E h \in Handles, s \in Stripes : lock(h, s) \/ unlock(h, s)
  \/ BeginCheck \/ EndCheck
  \/ \E s \in Stripes : ReadReleased(s) \/ ReadAcquired(s)

Spec == Init /\ [][Next]_vars

----------------------------------------------------------------------------
(* Properties *)

\* Every variable has its type.
TypeOK ==
  /\ acquired \in [Stripes -> 0 .. Modulus - 1]
  /\ released \in [Stripes -> 0 .. Modulus - 1]
  /\ held \subseteq Handles
  /\ locks \in 0 .. MaxLocks
  /\ phase \in {"idle", "released", "acquired", "done"}
  /\ unread \subseteq Stripes
  /\ sum \in 0 .. Modulus - 1
  /\ estimate \in -1 .. Modulus - 1
  /\ heldBetween \subseteq Handles
  /\ checks \in 0 .. MaxChecks

\* GetActiveCountUpperEstimate() never shows fewer locks than were held when the
\* two counters' reads meet, so IsFree() is never falsely true, whichever stripes the
\* locks were counted in and wherever a lock was copied and the old one dropped.
NeverUnderestimates == (phase = "idle" /\ estimate # -1) => Cardinality(heldBetween) <= estimate

\* The assertion acquired >= released, modulo the overflow.
AcquiredNotBelowReleased == phase = "done" => sum <= locks
=============================================================================
