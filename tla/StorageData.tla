---------------------------- MODULE StorageData ----------------------------
(***************************************************************************)
(* dynamic_config::impl::StorageData: the config in an rcu::Variable, the   *)
(* channel of its diffs and update_mutex_, a SharedMutex that Update()      *)
(* takes exclusively for the assignment and shared for sending. Subscribing *)
(* to diffs takes it shared, either around DoUpdateAndListen() or, for a    *)
(* scoped subscription, inside the updater.                                 *)
(* A version of AsyncEventChannel is a config; the event is the diff to it. *)
(* Update() sends to the channel of snapshots afterwards, by the same       *)
(* protocol; that second event is left out.                                 *)
(***************************************************************************)
EXTENDS AsyncEventChannel

VARIABLES
  upc,         \* per sender: where it is in Update()
  uwriter,     \* update_mutex_: the exclusive owner
  ureaders,    \* update_mutex_: the shared owners
  ulock        \* per listener: its lock_shared() of update_mutex_, "none", "check", "take" or "held"

updateVars == <<upc, uwriter, ureaders, ulock>>
storageVars == <<vars, updateVars>>

UGoto(s, l) == upc' = [upc EXCEPT ![s] = l]
ULock(k, l) == ulock' = [ulock EXCEPT ![k] = l]

\* registered_writers_count_ of update_mutex_
URegistered == {s \in Senders : upc[s] \in {"lock", "assign", "downgrade"}}

StorageInit ==
  /\ Init
  /\ upc = [s \in Senders |-> "idle"]
  /\ uwriter = NoOne
  /\ ureaders = {}
  /\ ulock = [k \in Listeners |-> "none"]

-----------------------------------------------------------------------------
(* Update() *)

Update(s) ==
  /\ upc[s] = "idle"
  /\ version + Cardinality(URegistered) < MaxVersion
  /\ UGoto(s, "lock")
  /\ UNCHANGED <<vars, uwriter, ureaders, ulock>>

LockUpdate(s) ==
  /\ upc[s] = "lock"
  /\ uwriter = NoOne /\ ureaders = {}
  /\ uwriter' = s
  /\ UGoto(s, "assign")
  /\ UNCHANGED <<vars, ureaders, ulock>>

\* config_.Assign(), after_assign_hook(); the diff ends with the new config.
Assign(s) ==
  /\ upc[s] = "assign"
  /\ version' = version + 1
  /\ sending' = [sending EXCEPT ![s] = version + 1]
  /\ UGoto(s, "downgrade")
  /\ UNCHANGED <<spc, visit, tasks, mutexVars, dataOwner, listeners, listenVars, cb, op, uwriter, ureaders, ulock>>

\* after_assign_hook() throws: the config stays assigned, the lock is released and no diff is sent.
HookThrows(s) ==
  /\ upc[s] = "assign"
  /\ version' = version + 1
  /\ missed' = Listeners
  /\ uwriter' = NoOne
  /\ UGoto(s, "idle")
  /\ UNCHANGED <<sending, spc, visit, tasks, mutexVars, dataOwner, listeners, callback, skipped, kind, caller,
                 last, cb, op, ureaders, ulock>>

\* update_mutex_.unlock_and_lock_shared()
DowngradeUpdate(s) ==
  /\ upc[s] = "downgrade"
  /\ uwriter' = NoOne
  /\ ureaders' = ureaders \cup {s}
  /\ UGoto(s, "send")
  /\ UNCHANGED <<vars, ulock>>

\* diff_channel_.SendEvent(diff)
SendDiff(s) ==
  /\ upc[s] = "send"
  /\ SendEvent(s)
  /\ UGoto(s, "sent")
  /\ UNCHANGED <<version, sending, uwriter, ureaders, ulock>>

UpdateReturns(s) ==
  /\ upc[s] = "sent"
  /\ spc[s] = "idle"
  /\ ureaders' = ureaders \ {s}
  /\ UGoto(s, "idle")
  /\ UNCHANGED <<vars, uwriter, ulock>>

-----------------------------------------------------------------------------
(* Subscribing to diffs *)

\* The shared lock is asked for: before DoUpdateAndListen(), or in the updater of a scoped subscription.
AskUpdateLock(k) ==
  /\ ulock[k] = "none"
  /\ \/ At(k, "out") /\ "update" \in Kinds
     \/ kind[k] = "scoped" /\ op[k] \in {"ulUpdate", "enterUpdate"}
  /\ ULock(k, "check")
  /\ UNCHANGED <<vars, upc, uwriter, ureaders>>

\* lock_shared() of update_mutex_
ShareUpdateLock(k) ==
  /\ \/ ulock[k] = "check" /\ URegistered = {} /\ ULock(k, "take") /\ UNCHANGED ureaders
     \/ ulock[k] = "take" /\ uwriter = NoOne /\ ULock(k, "held") /\ ureaders' = ureaders \cup {k}
  /\ UNCHANGED <<vars, upc, uwriter>>

ReleaseUpdateLock(k) == ULock(k, "none") /\ ureaders' = ureaders \ {k}

\* DoUpdateAndListen() of the channel under the lock, or its scoped form without it.
Listen(k) ==
  /\ \/ ulock[k] = "held" /\ Subscribe(k, "update", NoOne)
     \/ ulock[k] = "none" /\ "scoped" \in Kinds /\ Subscribe(k, "scoped", NoOne)
  /\ UNCHANGED updateVars

\* The updater of the subscription; a scoped one lets the lock go at its end.
DiffUpdater(k) ==
  /\ ulock[k] = "held"
  /\ UpdaterStep(k)
  /\ IF kind[k] = "scoped" THEN ReleaseUpdateLock(k) ELSE UNCHANGED <<ureaders, ulock>>
  /\ UNCHANGED <<upc, uwriter>>

ListenReturns(k) ==
  /\ ulock[k] = "held" /\ At(k, "in")
  /\ ReleaseUpdateLock(k)
  /\ UNCHANGED <<vars, upc, uwriter>>

Leave(k) ==
  /\ ulock[k] = "none"
  /\ EnterScope(k) \/ Unsubscribe(k, NoOne)
  /\ UNCHANGED updateVars

-----------------------------------------------------------------------------
UpdateStep(s) ==
  \/ LockUpdate(s) \/ Assign(s) \/ DowngradeUpdate(s) \/ SendDiff(s) \/ UpdateReturns(s)
  \/ SendStep(s) /\ UNCHANGED updateVars
SubscriberStep(k) ==
  \/ ShareUpdateLock(k) \/ DiffUpdater(k) \/ ListenReturns(k)
  \/ ulock[k] = "held" /\ Listen(k)
  \/ op[k] \in {"ulUpdate", "enterUpdate"} /\ AskUpdateLock(k)
  \/ (CallStep(k) \/ CallbackStep(k)) /\ UNCHANGED updateVars

StorageNext ==
  \/ \E s \in Senders : Update(s) \/ UpdateStep(s) \/ HookThrows(s)
                         \/ (Interrupt(s) /\ UNCHANGED updateVars)
  \/ \E k \in Listeners : SubscriberStep(k) \/ AskUpdateLock(k) \/ Listen(k) \/ Leave(k)

StorageSpec == StorageInit /\ [][StorageNext]_storageVars

\* Tasks run, callbacks return; data_ as in AsyncEventChannel.
FairStorageSpec ==
  /\ StorageSpec
  /\ \A s \in Senders : WF_storageVars(UpdateStep(s)) /\ SF_storageVars(Collect(s) /\ UNCHANGED updateVars)
  /\ \A k \in Listeners :
       /\ WF_storageVars(SubscriberStep(k))
       /\ WF_storageVars(CallbackStep(k) /\ UNCHANGED updateVars)
       /\ SF_storageVars((EraseListener(k) \/ AddUpdated(k)) /\ UNCHANGED updateVars)

-----------------------------------------------------------------------------
\* Type invariant; an exclusive owner of update_mutex_ is alone.
StorageTypeOK ==
  /\ TypeOK
  /\ upc \in [Senders -> {"idle", "lock", "assign", "downgrade", "send", "sent"}]
  /\ uwriter \in Senders \cup {NoOne} /\ ureaders \subseteq Senders \cup Listeners
  /\ uwriter # NoOne => ureaders = {}
  /\ ulock \in [Listeners -> {"none", "check", "take", "held"}]

\* No Update() is under way: every subscriber to diffs was last called with the diff to the current config,
\* unless the hook of an Update() has thrown or the task of its callback was cancelled before it began.
ConfigIsCurrent ==
  (\A s \in Senders : upc[s] = "idle") =>
    \A k \in Listeners : op[k] = "in" /\ ulock[k] = "none" => last[k].version = version \/ k \in missed

\* What DoUpdateAndListen() takes update_mutex_ for: no subscriber receives two diffs to the same config.
OneDiffPerConfig == \A k \in Listeners : last[k].times <= 1

\* Update() returns: the diff was sent and every listener has processed it.
UpdateCompletes == \A s \in Senders : upc[s] # "idle" ~> upc[s] = "idle"
=============================================================================
