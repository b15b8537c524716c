------------------------- MODULE AsyncEventChannel -------------------------
(***************************************************************************)
(* concurrent::AsyncEventChannel: SendEvent() calls every listener in a     *)
(* task of its own and waits for all of them; a sender that is cancelled    *)
(* gives up event_mutex_ and then the tasks. Three locks meet:              *)
(*   event_mutex_  a SharedMutex, taken exclusively to begin an event and   *)
(*                 then downgraded; subscribers take it shared;             *)
(*   data_         the mutex of the map of listeners;                       *)
(*   sema          one permit per listener, held by its running callback.   *)
(* An event carries the version that was published before SendEvent(). An  *)
(* updater calls the listener with the version it reads. Callbacks may      *)
(* themselves subscribe and unsubscribe other listeners.                    *)
(* event_mutex_ is used as SharedMutex shows it to behave: a reader waits   *)
(* for no registered writers in one step and takes its permit in another.   *)
(***************************************************************************)
EXTENDS Integers, FiniteSets

CONSTANTS
  Senders,        \* tasks that call SendEvent()
  Listeners,      \* FunctionIds
  MaxVersion,     \* bound on the versions published
  Kinds,          \* how to subscribe, a subset of {"add", "update", "scoped"}
  CallbackCalls   \* what callbacks may call, a subset of {"subscribe", "unsubscribe"}

AsyncEventChannelAssumption ==
  /\ Senders \cap Listeners = {}
  /\ MaxVersion \in Nat
  /\ Kinds \subseteq {"add", "update", "scoped"}
  /\ CallbackCalls \subseteq {"subscribe", "unsubscribe"}

NoOne == "none"

VARIABLES
  version,      \* the value that updaters read, e.g. the content of a cache
  sending,      \* per sender: the version of its event
  spc,          \* per sender: where it is in SendEvent()
  writer,       \* event_mutex_: the exclusive owner
  readers,      \* event_mutex_: the shared owners
  dataOwner,    \* owner of data_ across a wait, or NoOne
  listeners,    \* keys of data_->listeners
  visit,        \* per sender: listeners the loop has still to visit
  tasks,        \* per sender: listeners whose tasks it waits for
  callback,     \* per listener: "func", or the "stub" of a scoped subscription
  skipped,      \* per listener: event_skipped
  cb,           \* per listener: its callback task, "none", "created", "running" or "called"
  op,           \* per listener: its subscription and the call in progress on it
  kind,         \* per listener: how it is subscribed
  caller,       \* per listener: the listener whose callback made that call, or NoOne
  last,         \* per listener: version it was last called with, and how many times (ghost)
  missed        \* listeners that were not called with an event, and not called since (ghost)

mutexVars == <<writer, readers>>
sendVars == <<version, sending, spc, visit, tasks>>
ghostVars == <<last, missed>>
listenVars == <<callback, skipped, kind, caller, ghostVars>>
vars == <<sendVars, mutexVars, dataOwner, listeners, listenVars, cb, op>>

\* "ul": DoUpdateAndListen and its scoped form; "enter": the scope is entered; "rm": RemoveListener.
Calls == {"add", "ulCheck", "ulTake", "ulUpdate", "ulAdd", "ulUnlock", "enter", "enterUpdate", "enterSwap",
          "rmCheck", "rmTake", "rmErase", "rmWait", "rmUnlock"}
Ops == {"out", "scoped", "in"} \cup Calls

At(k, o) == op[k] = o
Goto(k, o) == op' = [op EXCEPT ![k] = o]
SGoto(s, l) == spc' = [spc EXCEPT ![s] = l]

\* registered_writers_count_ of event_mutex_
Registered == {s \in Senders : spc[s] \in {"lock", "exclusive"}}

\* The permit of the listener is held by its callback or while its scope is entered.
SemaFree(k) == cb[k] = "none" /\ op[k] \notin {"enterUpdate", "enterSwap"}

Init ==
  /\ version = 0
  /\ sending = [s \in Senders |-> 0]
  /\ spc = [s \in Senders |-> "idle"]
  /\ writer = NoOne
  /\ readers = {}
  /\ dataOwner = NoOne
  /\ listeners = {}
  /\ visit = [s \in Senders |-> {}]
  /\ tasks = [s \in Senders |-> {}]
  /\ callback = [k \in Listeners |-> "func"]
  /\ skipped = [k \in Listeners |-> FALSE]
  /\ cb = [k \in Listeners |-> "none"]
  /\ op = [k \in Listeners |-> "out"]
  /\ kind = [k \in Listeners |-> "add"]
  /\ caller = [k \in Listeners |-> NoOne]
  /\ last = [k \in Listeners |-> [version |-> 0, times |-> 0]]
  /\ missed = {}

\* The function of the subscriber runs with version v.
Called(k, v) ==
  /\ last' = [last EXCEPT ![k] = [version |-> v, times |-> IF @.version = v THEN @.times + 1 ELSE 1]]
  /\ missed' = missed \ {k}

-----------------------------------------------------------------------------
(* SendEvent() *)

\* SendEvent() is called with a version and registers as a writer of event_mutex_.
SendEvent(s) ==
  /\ spc[s] = "idle"
  /\ SGoto(s, "lock")
  /\ UNCHANGED <<visit, tasks, mutexVars, dataOwner, listeners, listenVars, cb, op>>

\* event_mutex_.lock()
Lock(s) ==
  /\ spc[s] = "lock"
  /\ writer = NoOne /\ readers = {}
  /\ writer' = s
  /\ SGoto(s, "exclusive")
  /\ UNCHANGED <<version, sending, visit, tasks, readers, dataOwner, listeners, listenVars, cb, op>>

\* event_mutex_.unlock_and_lock_shared()
Downgrade(s) ==
  /\ spc[s] = "exclusive"
  /\ writer' = NoOne
  /\ readers' = readers \cup {s}
  /\ SGoto(s, "collect")
  /\ UNCHANGED <<version, sending, visit, tasks, dataOwner, listeners, listenVars, cb, op>>

\* data_.Lock()
Collect(s) ==
  /\ spc[s] = "collect"
  /\ dataOwner = NoOne
  /\ dataOwner' = s
  /\ visit' = [visit EXCEPT ![s] = listeners]
  /\ SGoto(s, "create")
  /\ UNCHANGED <<version, sending, tasks, mutexVars, listeners, listenVars, cb, op>>

\* The sema of the listener is locked here and moved into the task.
CreateTask(s) ==
  /\ spc[s] = "create"
  /\ \E k \in visit[s] :
       /\ SemaFree(k)
       /\ cb' = [cb EXCEPT ![k] = "created"]
       /\ visit' = [visit EXCEPT ![s] = @ \ {k}]
       /\ tasks' = [tasks EXCEPT ![s] = @ \cup {k}]
  /\ UNCHANGED <<version, sending, spc, mutexVars, dataOwner, listeners, listenVars, op>>

\* All the tasks exist: data_ is unlocked and WaitForTask() begins.
Created(s) ==
  /\ spc[s] = "create"
  /\ visit[s] = {}
  /\ dataOwner' = NoOne
  /\ SGoto(s, "wait")
  /\ UNCHANGED <<version, sending, visit, tasks, mutexVars, listeners, listenVars, cb, op>>

\* The sender is cancelled and WaitFor() throws: tmp_lock is destroyed first, and the tasks after it,
\* so the sender waits for them without event_mutex_.
Interrupt(s) ==
  /\ spc[s] = "wait"
  /\ tasks[s] # {}
  /\ readers' = readers \ {s}
  /\ SGoto(s, "unwind")
  /\ UNCHANGED <<version, sending, visit, tasks, writer, dataOwner, listeners, listenVars, cb, op>>

\* WaitForTask(), or the destructor of a task, has returned for every task; tmp_lock is destroyed.
Sent(s) ==
  /\ spc[s] \in {"wait", "unwind"}
  /\ tasks[s] = {}
  /\ readers' = readers \ {s}
  /\ SGoto(s, "idle")
  /\ UNCHANGED <<version, sending, visit, tasks, writer, dataOwner, listeners, listenVars, cb, op>>

-----------------------------------------------------------------------------
(* The task of a callback *)

SenderOf(k) == CHOOSE s \in Senders : k \in tasks[s]

\* The callback is called with the event; the stub only notes that there was one.
RunCallback(k) ==
  /\ cb[k] = "created"
  /\ cb' = [cb EXCEPT ![k] = "running"]
  /\ IF callback[k] = "stub"
     THEN skipped' = [skipped EXCEPT ![k] = TRUE] /\ UNCHANGED ghostVars
     ELSE Called(k, sending[SenderOf(k)]) /\ UNCHANGED skipped
  /\ UNCHANGED <<sendVars, mutexVars, dataOwner, listeners, callback, kind, caller, op>>

\* The task was cancelled before it began and ends without the callback: by its destructor in a sender
\* that unwinds, or by an overloaded task processor, whose Get() WaitForTask() only logs.
SkipCallback(k) ==
  /\ cb[k] = "created"
  /\ cb' = [cb EXCEPT ![k] = "none"]
  /\ tasks' = [s \in Senders |-> tasks[s] \ {k}]
  /\ missed' = missed \cup {k}
  /\ UNCHANGED <<version, sending, spc, visit, mutexVars, dataOwner, listeners, callback, skipped, kind,
                 caller, last, op>>

\* The task ends, with what its callback has called, and lets the permit of the listener go.
FinishCallback(k) ==
  /\ cb[k] \in {"running", "called"}
  /\ \A j \in Listeners : caller[j] # k
  /\ cb' = [cb EXCEPT ![k] = "none"]
  /\ tasks' = [s \in Senders |-> tasks[s] \ {k}]
  /\ UNCHANGED <<version, sending, spc, visit, mutexVars, dataOwner, listeners, listenVars, op>>

\* Who makes a call on k: a task of the program, or the callback of another listener.
CalledBy(k, c, call) ==
  \/ c = NoOne /\ UNCHANGED cb
  \/ /\ c # k /\ c # NoOne /\ call \in CallbackCalls
     /\ cb[c] = "running" /\ callback[c] = "func"
     /\ cb' = [cb EXCEPT ![c] = "called"]

Returns(k) == caller' = [caller EXCEPT ![k] = NoOne]

-----------------------------------------------------------------------------
(* Subscribing *)

\* AddListener() and DoUpdateAndListen() are called.
Subscribe(k, d, c) ==
  /\ At(k, "out")
  /\ CalledBy(k, c, "subscribe")
  /\ caller' = [caller EXCEPT ![k] = c]
  /\ kind' = [kind EXCEPT ![k] = d]
  /\ Goto(k, IF d = "add" THEN "add" ELSE "ulCheck")
  /\ UNCHANGED <<sendVars, mutexVars, dataOwner, listeners, callback, skipped, ghostVars>>

\* DoAddListener(): the map is changed under data_.
Emplace(k) ==
  /\ dataOwner = NoOne
  /\ listeners' = listeners \cup {k}
  /\ callback' = [callback EXCEPT ![k] = IF kind[k] = "scoped" THEN "stub" ELSE "func"]
  /\ skipped' = [skipped EXCEPT ![k] = FALSE]

AddListener(k) ==
  /\ At(k, "add")
  /\ Emplace(k)
  /\ Goto(k, "in")
  /\ Returns(k)
  /\ UNCHANGED <<sendVars, mutexVars, dataOwner, kind, ghostVars, cb>>

\* lock_shared(), first half: no writer is registered.
WaitForNoRegisteredWriters(k) ==
  /\ Registered = {}
  /\ \/ At(k, "ulCheck") /\ Goto(k, "ulTake")
     \/ At(k, "rmCheck") /\ Goto(k, "rmTake")
  /\ UNCHANGED <<sendVars, mutexVars, dataOwner, listeners, listenVars, cb>>

\* lock_shared(), second half: one permit of the semaphore.
TakeShared(k) ==
  /\ writer = NoOne
  /\ readers' = readers \cup {k}
  /\ \/ At(k, "ulTake") /\ Goto(k, "ulUpdate")
     \/ At(k, "rmTake") /\ Goto(k, "rmErase")
  /\ UNCHANGED <<sendVars, writer, dataOwner, listeners, listenVars, cb>>

\* updater(): the function runs with the current value.
Updater(k) ==
  /\ At(k, "ulUpdate")
  /\ Called(k, version)
  /\ Goto(k, "ulAdd")
  /\ UNCHANGED <<sendVars, mutexVars, dataOwner, listeners, callback, skipped, kind, caller, cb>>

AddUpdated(k) ==
  /\ At(k, "ulAdd")
  /\ Emplace(k)
  /\ Goto(k, "ulUnlock")
  /\ UNCHANGED <<sendVars, mutexVars, dataOwner, kind, caller, ghostVars, cb>>

\* The end of DoUpdateAndListen(); a scoped subscription waits for its scope to be entered.
UpdateAndListenReturns(k) ==
  /\ At(k, "ulUnlock")
  /\ readers' = readers \ {k}
  /\ Goto(k, IF kind[k] = "scoped" THEN "scoped" ELSE "in")
  /\ Returns(k)
  /\ UNCHANGED <<sendVars, writer, dataOwner, listeners, callback, skipped, kind, ghostVars, cb>>

-----------------------------------------------------------------------------
(* Entering the scope of DoUpdateAndListenScoped() *)

EnterScope(k) ==
  /\ At(k, "scoped")
  /\ Goto(k, "enter")
  /\ UNCHANGED <<sendVars, mutexVars, dataOwner, listeners, listenVars, cb>>

\* sema_lock, and the look at event_skipped.
LockSema(k) ==
  /\ At(k, "enter")
  /\ SemaFree(k)
  /\ Goto(k, IF skipped[k] THEN "enterUpdate" ELSE "enterSwap")
  /\ UNCHANGED <<sendVars, mutexVars, dataOwner, listeners, listenVars, cb>>

\* updater() again, for the events that were skipped.
ReplayUpdater(k) ==
  /\ At(k, "enterUpdate")
  /\ Called(k, version)
  /\ Goto(k, "enterSwap")
  /\ UNCHANGED <<sendVars, mutexVars, dataOwner, listeners, callback, skipped, kind, caller, cb>>

\* The stub is replaced and sema_lock is destroyed.
SwapCallback(k) ==
  /\ At(k, "enterSwap")
  /\ callback' = [callback EXCEPT ![k] = "func"]
  /\ Goto(k, "in")
  /\ UNCHANGED <<sendVars, mutexVars, dataOwner, listeners, skipped, kind, caller, ghostVars, cb>>

-----------------------------------------------------------------------------
(* RemoveListener() *)

\* Unsubscribe(), or the destructor of a scope, entered or not.
Unsubscribe(k, c) ==
  /\ op[k] \in {"in", "scoped"}
  /\ CalledBy(k, c, "unsubscribe")
  /\ caller' = [caller EXCEPT ![k] = c]
  /\ Goto(k, "rmCheck")
  /\ UNCHANGED <<sendVars, mutexVars, dataOwner, listeners, callback, skipped, kind, ghostVars>>

\* data_ is locked and stays so until the permit of the listener was free.
EraseListener(k) ==
  /\ At(k, "rmErase")
  /\ dataOwner = NoOne
  /\ dataOwner' = k
  /\ listeners' = listeners \ {k}
  /\ Goto(k, "rmWait")
  /\ UNCHANGED <<sendVars, mutexVars, listenVars, cb>>

\* Mutant: the permit is not waited for.
RemoveAtOnce(k) ==
  /\ At(k, "rmWait")
  /\ dataOwner' = NoOne
  /\ Goto(k, "rmUnlock")
  /\ UNCHANGED <<sendVars, mutexVars, listeners, listenVars, cb>>

\* (void)std::shared_lock(listener->sema), then data_ is unlocked.
WaitCallback(k) ==
  /\ At(k, "rmWait")
  /\ SemaFree(k)
  /\ dataOwner' = NoOne
  /\ Goto(k, "rmUnlock")
  /\ UNCHANGED <<sendVars, mutexVars, listeners, listenVars, cb>>

RemoveReturns(k) ==
  /\ At(k, "rmUnlock")
  /\ readers' = readers \ {k}
  /\ last' = [last EXCEPT ![k] = [version |-> 0, times |-> 0]]
  /\ missed' = missed \ {k}
  /\ Goto(k, "out")
  /\ Returns(k)
  /\ UNCHANGED <<sendVars, writer, dataOwner, listeners, callback, skipped, kind, cb>>

-----------------------------------------------------------------------------
\* A program in which every sender has its own values to send.
Publish(s) ==
  /\ version < MaxVersion
  /\ SendEvent(s)
  /\ version' = version + 1
  /\ sending' = [sending EXCEPT ![s] = version + 1]

SendStep(s) == Lock(s) \/ Downgrade(s) \/ Collect(s) \/ CreateTask(s) \/ Created(s) \/ Sent(s)
CallbackStep(k) == RunCallback(k) \/ SkipCallback(k) \/ FinishCallback(k)
ListenStep(k) == AddListener(k) \/ WaitForNoRegisteredWriters(k) \/ TakeShared(k) \/ AddUpdated(k)
                 \/ UpdateAndListenReturns(k)
UpdaterStep(k) == Updater(k) \/ ReplayUpdater(k)
EnterStep(k) == LockSema(k) \/ SwapCallback(k)
RemoveStep(k) == EraseListener(k) \/ WaitCallback(k) \/ RemoveReturns(k)
CallStep(k) == ListenStep(k) \/ EnterStep(k) \/ RemoveStep(k)
ClientStep(k) ==
  \/ \E d \in Kinds, c \in Listeners \cup {NoOne} : Subscribe(k, d, c)
  \/ EnterScope(k)
  \/ \E c \in Listeners \cup {NoOne} : Unsubscribe(k, c)

Next ==
  \/ \E s \in Senders : Publish(s) \/ SendStep(s) \/ Interrupt(s)
  \/ \E k \in Listeners : CallbackStep(k) \/ CallStep(k) \/ UpdaterStep(k) \/ ClientStep(k)

Spec == Init /\ [][Next]_vars

\* Tasks run, callbacks return, and nobody waits for data_ for ever while it is given to others.
Fairness ==
  /\ \A s \in Senders : WF_vars(SendStep(s)) /\ SF_vars(Collect(s))
  /\ \A k \in Listeners :
       /\ WF_vars(CallbackStep(k)) /\ WF_vars(CallStep(k)) /\ WF_vars(UpdaterStep(k))
       /\ SF_vars(EraseListener(k)) /\ SF_vars(AddListener(k)) /\ SF_vars(AddUpdated(k))

FairSpec == Spec /\ Fairness

-----------------------------------------------------------------------------
Versions == 0 .. MaxVersion

\* Type invariant; an exclusive owner of event_mutex_ is alone.
TypeOK ==
  /\ version \in Versions /\ sending \in [Senders -> Versions]
  /\ spc \in [Senders -> {"idle", "lock", "exclusive", "collect", "create", "wait", "unwind"}]
  /\ writer \in Senders \cup {NoOne} /\ readers \subseteq Senders \cup Listeners
  /\ writer # NoOne => readers = {}
  /\ dataOwner \in Senders \cup Listeners \cup {NoOne} /\ listeners \subseteq Listeners
  /\ visit \in [Senders -> SUBSET Listeners] /\ tasks \in [Senders -> SUBSET Listeners]
  /\ callback \in [Listeners -> {"func", "stub"}] /\ skipped \in [Listeners -> BOOLEAN]
  /\ cb \in [Listeners -> {"none", "created", "running", "called"}] /\ op \in [Listeners -> Ops]
  /\ kind \in [Listeners -> {"add", "update", "scoped"}] /\ caller \in [Listeners -> Listeners \cup {NoOne}]
  /\ last \in [Listeners -> [version : Versions, times : Nat]] /\ missed \subseteq Listeners

\* "Only after this event is processed a new event may be delivered": while a sender of SendEvent() waits
\* for its tasks, no other has any or holds event_mutex_ exclusively, but for those of cancelled senders.
\* "Same listener is never called concurrently" holds of these too.
OneEventAtATime ==
  \A s, t \in Senders : s # t /\ tasks[s] # {} =>
    /\ tasks[s] \cap tasks[t] = {}
    /\ spc[s] # "unwind" => writer # t /\ (tasks[t] # {} => spc[t] = "unwind")

\* RemoveListener() has returned: the callback, with what it has captured, is not running and no task
\* is left that would run it, nor does a SendEvent() still intend to create one.
QuietAfterUnsubscribe ==
  \A k \in Listeners : op[k] = "out" =>
    /\ cb[k] = "none" /\ k \notin listeners
    /\ \A s \in Senders : k \notin visit[s] \cup tasks[s]

\* A listener that was given the current value when it subscribed does not miss what is sent later: when
\* no SendEvent() is under way, it has been called with the current version, unless the task of its
\* callback was cancelled before it began. (One sender.)
SubscriberIsCurrent ==
  (\A s \in Senders : spc[s] = "idle") =>
    \A k \in Listeners : op[k] = "in" /\ kind[k] # "add" => last[k].version = version \/ k \in missed

\* SendEvent() returns, whatever listeners do meanwhile.
SendReturns == \A s \in Senders : spc[s] # "idle" ~> spc[s] = "idle"

=============================================================================
