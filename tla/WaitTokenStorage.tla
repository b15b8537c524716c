-------------------------- MODULE WaitTokenStorage --------------------------
(***************************************************************************)
(* utils::impl::WaitTokenStorage: an owner gives out tokens and waits for    *)
(* the death of all of them. A token that dies may still be signalling after *)
(* the owner has gone, so the implementation object is never freed: it goes  *)
(* to a pool and serves the next storage. The object here is the one the     *)
(* pool gives out each time. Tokens are counted by a read indicator (see      *)
(* ReadIndicator), whose two counters are read one after the other.           *)
(***************************************************************************)
EXTENDS Integers

CONSTANTS
  Tasks,          \* tasks that hold at most one token each
  MaxStorages,    \* bound: storages that use the object
  MaxTokens       \* bound: tokens given out

Owner == "owner"
Processes == Tasks \cup {Owner}

StorageAssumption == {MaxStorages, MaxTokens} \subseteq Nat /\ Owner \notin Tasks

VARIABLES
  acquired, released,   \* the counters of `tokens`
  shutdown,             \* shutdown_started
  mutex,                \* who holds shutdown_mutex
  event,                \* tokens_is_free_event
  opc,                  \* where the owner of the storage is
  tpc,                  \* per task: where it is
  snapshot,             \* per process: `released` as IsFree() read it
  storages, given       \* storages so far, tokens so far

countVars == <<acquired, released>>
vars == <<countVars, shutdown, mutex, event, opc, tpc, snapshot, storages, given>>

Init ==
  /\ acquired = 0 /\ released = 0
  /\ shutdown = FALSE
  /\ mutex = FALSE
  /\ event = FALSE
  /\ opc = "gone"
  /\ tpc = [t \in Tasks |-> "idle"]
  /\ snapshot = [p \in Processes |-> 0]
  /\ storages = 0
  /\ given = 0

Holders == {t \in Tasks : tpc[t] = "hold"}

----------------------------------------------------------------------------
(* The owner *)

\* The constructor locks the initial token.
Construct ==
  /\ opc = "gone"
  /\ storages < MaxStorages
  /\ storages' = storages + 1
  /\ shutdown' = FALSE
  /\ acquired' = acquired + 1
  /\ opc' = "open"
  /\ UNCHANGED <<released, mutex, event, tpc, snapshot, given>>

\* ~WaitTokenStorage() where WaitForAllTokens() was not called, as when the owner's
\* constructor throws; with a token alive it aborts the program.
DestroyUnwaited ==
  /\ opc = "open"
  /\ Holders = {}
  /\ released' = released + 1
  /\ opc' = "gone"
  /\ UNCHANGED <<acquired, shutdown, mutex, event, tpc, snapshot, storages, given>>

OwnerReads(from, to) ==
  /\ opc = from
  /\ snapshot' = [snapshot EXCEPT ![Owner] = released]
  /\ opc' = to
  /\ UNCHANGED <<countVars, shutdown, mutex, event, tpc, storages, given>>

\* The optimistic path: nobody but the owner holds a token. Otherwise lock the mutex.
WaitForAllTokens ==
  /\ opc = "estimate"
  /\ \/ /\ acquired - snapshot[Owner] = 1
        /\ shutdown' = TRUE
        /\ opc' = "unlock"
        /\ UNCHANGED mutex
     \/ /\ acquired - snapshot[Owner] # 1
        /\ ~mutex
        /\ mutex' = TRUE
        /\ opc' = "start"
        /\ UNCHANGED shutdown
  /\ UNCHANGED <<countVars, event, tpc, snapshot, storages, given>>

UnlockOptimistic ==
  /\ opc = "unlock"
  /\ released' = released + 1
  /\ opc' = "done"
  /\ UNCHANGED <<acquired, shutdown, mutex, event, tpc, snapshot, storages, given>>

StartShutdown ==
  /\ opc = "start"
  /\ shutdown' = TRUE
  /\ opc' = "drop"
  /\ UNCHANGED <<countVars, mutex, event, tpc, snapshot, storages, given>>

DropInitialToken ==
  /\ opc = "drop"
  /\ released' = released + 1
  /\ mutex' = FALSE
  /\ opc' = "check"
  /\ UNCHANGED <<acquired, shutdown, event, tpc, snapshot, storages, given>>

SendToSelf ==
  /\ opc = "checked"
  /\ event' = (event \/ acquired = snapshot[Owner])
  /\ opc' = "predicate"
  /\ UNCHANGED <<countVars, shutdown, mutex, tpc, snapshot, storages, given>>

\* The wait is over when the predicate holds, signalled or not.
Predicate ==
  /\ opc = "predicated"
  /\ opc' = IF acquired = snapshot[Owner] THEN "done" ELSE "wait"
  /\ UNCHANGED <<countVars, shutdown, mutex, event, tpc, snapshot, storages, given>>

\* Mutant: a signal is taken for the end of the wait.
TakeSignalAtItsWord ==
  /\ opc = "wait"
  /\ event
  /\ event' = FALSE
  /\ opc' = "done"
  /\ UNCHANGED <<countVars, shutdown, mutex, tpc, snapshot, storages, given>>

TakeSignal ==
  /\ opc = "wait"
  /\ event
  /\ event' = FALSE
  /\ opc' = "predicate"
  /\ UNCHANGED <<countVars, shutdown, mutex, tpc, snapshot, storages, given>>

\* The destructor gives the object to the pool.
Destroy ==
  /\ opc = "done"
  /\ opc' = "gone"
  /\ UNCHANGED <<countVars, shutdown, mutex, event, tpc, snapshot, storages, given>>

----------------------------------------------------------------------------
(* The tasks *)

\* GetToken() before WaitForAllTokens(), or the copy of a token that is alive.
DoLock(t) ==
  /\ tpc[t] = "idle"
  /\ opc = "open" \/ Holders # {}
  /\ given < MaxTokens
  /\ given' = given + 1
  /\ acquired' = acquired + 1
  /\ tpc' = [tpc EXCEPT ![t] = "hold"]
  /\ UNCHANGED <<released, shutdown, mutex, event, opc, snapshot, storages>>

DoUnlock(t) ==
  /\ tpc[t] = "hold"
  /\ released' = released + 1
  /\ tpc' = [tpc EXCEPT ![t] = "load"]
  /\ UNCHANGED <<acquired, shutdown, mutex, event, opc, snapshot, storages, given>>

LoadShutdown(t) ==
  /\ tpc[t] = "load"
  /\ tpc' = [tpc EXCEPT ![t] = IF shutdown THEN "mutex" ELSE "idle"]
  /\ UNCHANGED <<countVars, shutdown, mutex, event, opc, snapshot, storages, given>>

PassMutex(t) ==
  /\ tpc[t] = "mutex"
  /\ ~mutex
  /\ tpc' = [tpc EXCEPT ![t] = "check"]
  /\ UNCHANGED <<countVars, shutdown, mutex, event, opc, snapshot, storages, given>>

ReadReleased(t) ==
  /\ tpc[t] = "check"
  /\ snapshot' = [snapshot EXCEPT ![t] = released]
  /\ tpc' = [tpc EXCEPT ![t] = "checked"]
  /\ UNCHANGED <<countVars, shutdown, mutex, event, opc, storages, given>>

ReadAcquired(t) ==
  /\ tpc[t] = "checked"
  /\ tpc' = [tpc EXCEPT ![t] = IF acquired = snapshot[t] THEN "send" ELSE "idle"]
  /\ UNCHANGED <<countVars, shutdown, mutex, event, opc, snapshot, storages, given>>

Send(t) ==
  /\ tpc[t] = "send"
  /\ event' = TRUE
  /\ tpc' = [tpc EXCEPT ![t] = "idle"]
  /\ UNCHANGED <<countVars, shutdown, mutex, opc, snapshot, storages, given>>

----------------------------------------------------------------------------

OwnerStep ==
  \/ WaitForAllTokens \/ UnlockOptimistic \/ StartShutdown \/ DropInitialToken
  \/ OwnerReads("check", "checked") \/ SendToSelf
  \/ OwnerReads("predicate", "predicated") \/ Predicate \/ TakeSignal

TaskStep(t) ==
  DoUnlock(t) \/ LoadShutdown(t) \/ PassMutex(t) \/ ReadReleased(t) \/ ReadAcquired(t) \/ Send(t)

Next ==
  \/ Construct \/ DestroyUnwaited \/ Destroy
  \/ OwnerReads("open", "estimate") \/ OwnerStep
  \/ \E t \in Tasks : DoLock(t) \/ TaskStep(t)

Spec == Init /\ [][Next]_vars

\* The engine runs the owner and the tasks, and tokens die.
Fairness == WF_vars(OwnerStep) /\ \A t \in Tasks : WF_vars(TaskStep(t))

----------------------------------------------------------------------------
(* Properties *)

\* Every variable has its type, and no more tokens are given back than were taken.
TypeOK ==
  /\ acquired \in 0 .. MaxStorages + MaxTokens
  /\ released \in 0 .. acquired
  /\ {shutdown, mutex, event} \subseteq BOOLEAN
  /\ opc \in {"gone", "open", "estimate", "unlock", "start", "drop", "check", "checked", "predicate",
              "predicated", "wait", "done"}
  /\ tpc \in [Tasks -> {"idle", "hold", "load", "mutex", "check", "checked", "send"}]
  /\ snapshot \in [Processes -> 0 .. MaxStorages + MaxTokens]
  /\ storages \in 0 .. MaxStorages
  /\ given \in 0 .. MaxTokens

\* WaitForAllTokens() returns, and the storage is destroyed, only when no token is
\* alive; late signals of tokens of an earlier storage of the same object do not count.
NoTokenOutlivesWait == opc \in {"done", "gone"} => (Holders = {} /\ acquired = released)

\* The owner sleeps on a clear event only while a token is alive or one that died is
\* on its way to signal.
NoLostSignal ==
  (opc = "wait" /\ ~event) => \E t \in Tasks : tpc[t] # "idle"

=============================================================================
