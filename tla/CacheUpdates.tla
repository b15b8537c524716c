---------------------------- MODULE CacheUpdates ----------------------------
(***************************************************************************)
(* cache::CacheUpdateTrait::Impl: when a cache is updated and how. The owner   *)
(* starts and stops the updates, the periodic task makes them (PeriodicTask:   *)
(* a forced step begins after it was asked for), users invalidate the cache    *)
(* while it starts, runs and stops, tests update it on the side. What is       *)
(* cached is the newest of two kinds of changes of the source: those that an   *)
(* incremental update sees and those that only a full one sees.               *)
(***************************************************************************)
EXTENDS Integers

CONSTANTS
  Users,            \* callers of InvalidateAsync()
  Debuggers,        \* callers of UpdateSyncDebug()
  Owner, Task,      \* Start/StopPeriodicUpdates(), update_task_
  None,
  Configs,          \* static configs: [types, mode, first, failOk, noFirst, periodic]
  Timed,            \* the period may expire
  FailedUpdatesBeforeExpiration,
  MaxChanges,       \* bound: changes of the source
  MaxInvalidations, \* bound: calls of InvalidateAsync()
  MaxFailures,      \* bound: updates that fail at the source
  MaxConfigs,       \* bound: changes of updates_enabled
  MaxDebugs         \* bound: calls of UpdateSyncDebug()

Actors == {Owner, Task} \cup Users \cup Debuggers
Full == "full"
Incremental == "incremental"
Versions == [inc : 0 .. MaxChanges, full : 0 .. MaxChanges]

CacheAssumption ==
  /\ Owner # Task /\ {Owner, Task} \cap (Users \cup Debuggers) = {} /\ Users \cap Debuggers = {}
  /\ None \notin Actors
  /\ Configs \subseteq [types : {"OnlyFull", "OnlyIncremental", "FullAndIncremental"},
                        mode : {"Skip", "Required", "BestEffort"},
                        first : {"Full", "Incremental", "IncrementalThenAsyncFull"},
                        failOk : BOOLEAN, noFirst : BOOLEAN, periodic : BOOLEAN]
  /\ Timed \in BOOLEAN
  /\ {FailedUpdatesBeforeExpiration, MaxChanges, MaxInvalidations, MaxFailures, MaxConfigs, MaxDebugs}
       \subseteq Nat
  /\ MaxChanges > 0

VARIABLES
  conf,             \* the static config
  dump,             \* there is a dump to start from
  source,           \* newest changes
  cache, null,      \* changes that are in the cache; it is nullptr
  running, first, forceFull, dumpFirst, attempted, failures,
  updated,          \* last_update_ has been set
  enabled,          \* updates_enabled
  mutex,            \* owner of update_mutex_
  forced,           \* ForceStepAsync() was called and no step has begun since
  pc, type, read,   \* actors: where they are, the type of the update, what it has read
  ret,              \* where the owner goes on after an update
  need,             \* what InvalidateAsync() has asked for
  synced,           \* an update has succeeded
  changes, invalidations, fails, configs, debugs

stateVars == <<running, first, forceFull, dumpFirst, attempted, failures, updated>>
boundVars == <<changes, invalidations, fails, configs, debugs>>
vars == <<conf, dump, source, cache, null, stateVars, enabled, mutex, forced, pc, type, read, ret,
          need, synced, boundVars>>

Zero == [inc |-> 0, full |-> 0]

Init ==
  /\ conf \in Configs
  /\ dump \in BOOLEAN
  /\ source = [inc |-> 1, full |-> 1]
  /\ cache = Zero /\ null = TRUE
  /\ running = FALSE /\ first = "No" /\ forceFull = FALSE /\ dumpFirst = None
  /\ attempted = FALSE /\ failures = 0 /\ updated = FALSE
  /\ enabled = TRUE
  /\ mutex = None
  /\ forced = FALSE
  /\ pc = [a \in Actors |-> IF a = Task THEN "off" ELSE "idle"]
  /\ type = [a \in Actors |-> None]
  /\ read = [a \in Actors |-> Zero]
  /\ ret = "exchange"
  /\ need = Zero
  /\ synced = FALSE
  /\ changes = 1 /\ invalidations = 0 /\ fails = 0 /\ configs = 0 /\ debugs = 0

GoTo(a, to) == pc' = [pc EXCEPT ![a] = to]

----------------------------------------------------------------------------
(* DoPeriodicUpdate(), DoUpdate() *)

\* Where an actor goes on when its update is over.
Return(a, ok) ==
  GoTo(a, CASE a = Task -> "wait"
            [] a = Owner /\ (ok \/ ret = "task") -> ret
            [] a = Owner /\ ~ok /\ ret = "exchange" ->
                 IF (dump /\ conf.mode # "Required") \/ conf.failOk THEN "exchange" ELSE "stop"
            [] OTHER -> "idle")

\* NextUpdateType(); the interval of full updates may have passed.
NextUpdateType ==
  CASE dumpFirst # None -> {dumpFirst}
    [] dumpFirst = None /\ (~updated \/ forceFull) -> {Full}
    [] OTHER -> CASE conf.types = "OnlyFull" -> {Full}
                  [] conf.types = "OnlyIncremental" -> {Incremental}
                  [] OTHER -> {Full, Incremental}

\* OnUpdateSkipped(); the counter is only compared with the limit, and stops above it.
CountFailure ==
  /\ failures' = IF failures > FailedUpdatesBeforeExpiration THEN failures ELSE failures + 1
  /\ null' = (null \/ failures + 1 = FailedUpdatesBeforeExpiration)

DoPeriodicUpdate(a) ==
  /\ pc[a] = "lock"
  /\ mutex = None
  /\ attempted' = TRUE
  /\ \/ /\ ~enabled
        /\ attempted \/ conf.failOk
        /\ CountFailure
        /\ Return(a, TRUE)
        /\ UNCHANGED <<mutex, type>>
     \/ /\ enabled \/ (~attempted /\ ~conf.failOk)
        /\ mutex' = a
        /\ \E t \in NextUpdateType : type' = [type EXCEPT ![a] = t]
        /\ GoTo(a, "fetch")
        /\ UNCHANGED <<failures, null>>
  /\ UNCHANGED <<conf, dump, source, cache, running, first, forceFull, dumpFirst, updated, enabled,
                 forced, read, ret, need, synced, boundVars>>

\* Update() of the cache reads the source; an incremental one starts from the contents,
\* and Get() throws when there are none.
Fetch(a) ==
  /\ pc[a] = "fetch"
  /\ type[a] = Full \/ ~null
  /\ read' = [read EXCEPT ![a] = source]
  /\ GoTo(a, "set")
  /\ UNCHANGED <<conf, dump, source, cache, null, stateVars, enabled, mutex, forced, type, ret,
                 need, synced, boundVars>>

\* Update() sets the new contents; then what DoUpdate() does after a success.
UpdateSucceeds(a) ==
  /\ pc[a] = "set"
  /\ cache' = [cache EXCEPT !.inc = read[a].inc,
                            !.full = IF type[a] = Full THEN read[a].full ELSE @]
  /\ null' = FALSE
  /\ forceFull' = (forceFull /\ type[a] # Full)
  /\ dumpFirst' = None
  /\ failures' = 0
  /\ updated' = TRUE
  /\ synced' = TRUE
  /\ mutex' = None
  /\ type' = [type EXCEPT ![a] = None]
  /\ read' = [read EXCEPT ![a] = Zero]
  /\ Return(a, TRUE)
  /\ UNCHANGED <<conf, dump, source, running, first, attempted, enabled, forced, ret, need,
                 boundVars>>

\* Update() throws, or finishes with an error.
UpdateFails(a) ==
  /\ pc[a] \in {"fetch", "set"}
  /\ \/ type[a] = Incremental /\ null /\ UNCHANGED fails
     \/ fails < MaxFailures /\ fails' = fails + 1
  /\ CountFailure
  /\ mutex' = None
  /\ type' = [type EXCEPT ![a] = None]
  /\ read' = [read EXCEPT ![a] = Zero]
  /\ Return(a, FALSE)
  /\ UNCHANGED <<conf, dump, source, cache, running, first, forceFull, dumpFirst, attempted,
                 updated, enabled, forced, ret, need, synced, changes, invalidations, configs,
                 debugs>>

\* Mutant: updates beside the one that is running.
UpdateSyncDebugNoLock(d, t) ==
  /\ d \in Debuggers
  /\ pc[d] = "idle"
  /\ pc[Owner] = "up"
  /\ debugs < MaxDebugs
  /\ debugs' = debugs + 1
  /\ enabled
  /\ type' = [type EXCEPT ![d] = IF conf.types = "OnlyFull" THEN Full ELSE t]
  /\ GoTo(d, "fetch")
  /\ UNCHANGED <<conf, dump, source, cache, null, stateVars, enabled, mutex, forced, read, ret,
                 need, synced, changes, invalidations, fails, configs>>

UpdateSyncDebug(d, t) ==
  /\ d \in Debuggers
  /\ pc[d] = "idle"
  /\ pc[Owner] = "up"
  /\ debugs < MaxDebugs
  /\ debugs' = debugs + 1
  /\ mutex = None
  /\ enabled
  /\ mutex' = d
  /\ type' = [type EXCEPT ![d] = IF conf.types = "OnlyFull" THEN Full ELSE t]
  /\ GoTo(d, "fetch")
  /\ UNCHANGED <<conf, dump, source, cache, null, stateVars, enabled, forced, read, ret,
                 need, synced, changes, invalidations, fails, configs>>

----------------------------------------------------------------------------
(* InvalidateAsync() *)

ChangeSource(kind) ==
  /\ changes < MaxChanges
  /\ changes' = changes + 1
  /\ source' = [source EXCEPT ![kind] = changes + 1]
  /\ UNCHANGED <<conf, dump, cache, null, stateVars, enabled, mutex, forced, pc, type, read, ret,
                 need, synced, invalidations, fails, configs, debugs>>

InvalidateAsync(u, t) ==
  /\ pc[u] = "idle"
  /\ u \in Users
  /\ invalidations < MaxInvalidations
  /\ invalidations' = invalidations + 1
  /\ LET full == t = Full \/ conf.types = "OnlyFull"
     IN  /\ forceFull' = (forceFull \/ full)
         /\ need' = [inc |-> source.inc, full |-> IF full THEN source.full ELSE need.full]
  /\ GoTo(u, "cas")
  /\ UNCHANGED <<conf, dump, source, cache, null, running, first, dumpFirst, attempted, failures,
                 updated, enabled, mutex, forced, type, read, ret, synced, changes, fails, configs,
                 debugs>>

\* The compare_exchange of first_update_invalidation_.
MarkFirstUpdate(u) ==
  /\ pc[u] = "cas"
  /\ first' = IF first = "No" THEN "Yes" ELSE first
  /\ GoTo(u, IF first = "Finished" THEN "invalidate" ELSE "idle")
  /\ UNCHANGED <<conf, dump, source, cache, null, running, forceFull, dumpFirst, attempted, failures,
                 updated, enabled, mutex, forced, type, read, ret, need, synced, boundVars>>

DoInvalidateAsync(a) ==
  /\ pc[a] = "invalidate"
  /\ IF conf.periodic
     THEN forced' = TRUE /\ GoTo(a, IF a = Owner THEN "task" ELSE "idle")
     ELSE /\ GoTo(a, IF running THEN "lock" ELSE "idle")
          /\ UNCHANGED forced
  /\ UNCHANGED <<conf, dump, source, cache, null, stateVars, enabled, mutex, type, read, ret, need,
                 synced, boundVars>>

----------------------------------------------------------------------------
(* StartPeriodicUpdates(), StopPeriodicUpdates(), the periodic task *)

\* ReadDump(): the dump is older than the source.
StartPeriodicUpdates ==
  /\ pc[Owner] = "idle"
  /\ running' = TRUE
  /\ updated' = dump
  /\ null' = ~dump
  /\ dumpFirst' = IF ~dump THEN None ELSE IF conf.first = "Full" THEN Full ELSE Incremental
  /\ GoTo(Owner, IF (~dump \/ conf.mode # "Skip") /\ (~conf.noFirst \/ ~conf.periodic)
                 THEN "first" ELSE "exchange")
  /\ UNCHANGED <<conf, dump, source, cache, first, forceFull, attempted, failures, enabled, mutex,
                 forced, type, read, ret, need, synced, boundVars>>

\* Invalidations up to here are served by the first update.
ResetFirstUpdate ==
  /\ pc[Owner] = "first"
  /\ first' = "No"
  /\ ret' = "exchange"
  /\ GoTo(Owner, "lock")
  /\ UNCHANGED <<conf, dump, source, cache, null, running, forceFull, dumpFirst, attempted, failures,
                 updated, enabled, mutex, forced, type, read, need, synced, boundVars>>

FinishFirstUpdate ==
  /\ pc[Owner] = "exchange"
  /\ dumpFirst' = IF dump /\ conf.first = "IncrementalThenAsyncFull" THEN Full ELSE dumpFirst
  /\ first' = "Finished"
  /\ ret' = "task"
  /\ GoTo(Owner, IF first = "Yes" THEN "invalidate" ELSE "task")
  /\ UNCHANGED <<conf, dump, source, cache, null, running, forceFull, attempted, failures, updated,
                 enabled, mutex, forced, type, read, need, synced, boundVars>>

\* update_task_.Start(); with kNow its first step comes at once.
StartTask ==
  /\ pc[Owner] = "task"
  /\ pc' = [pc EXCEPT ![Owner] = "up",
                      ![Task] = IF ~conf.periodic THEN "off"
                                ELSE IF dump /\ conf.first = "IncrementalThenAsyncFull" THEN "lock"
                                ELSE "wait"]
  /\ UNCHANGED <<conf, dump, source, cache, null, stateVars, enabled, mutex, forced, type, read, ret,
                 need, synced, boundVars>>

Step ==
  /\ pc[Task] = "wait"
  /\ forced \/ Timed
  /\ forced' = FALSE
  /\ GoTo(Task, "lock")
  /\ UNCHANGED <<conf, dump, source, cache, null, stateVars, enabled, mutex, type, read, ret, need,
                 synced, boundVars>>

StopPeriodicUpdates ==
  /\ pc[Owner] \in {"up", "stop"}
  /\ running' = FALSE
  /\ GoTo(Owner, "join")
  /\ UNCHANGED <<conf, dump, source, cache, null, first, forceFull, dumpFirst, attempted, failures,
                 updated, enabled, mutex, forced, type, read, ret, need, synced, boundVars>>

\* update_task_.Stop() waits for the step in progress.
JoinTask ==
  /\ pc[Owner] = "join"
  /\ pc[Task] \in {"off", "wait"}
  /\ pc' = [pc EXCEPT ![Owner] = "down", ![Task] = "off"]
  /\ forced' = FALSE
  /\ UNCHANGED <<conf, dump, source, cache, null, stateVars, enabled, mutex, type, read, ret, need,
                 synced, boundVars>>

OnConfigUpdate ==
  /\ configs < MaxConfigs
  /\ configs' = configs + 1
  /\ enabled' = ~enabled
  /\ UNCHANGED <<conf, dump, source, cache, null, stateVars, mutex, forced, pc, type, read, ret, need,
                 synced, changes, invalidations, fails, debugs>>

----------------------------------------------------------------------------

Update(a) == DoPeriodicUpdate(a) \/ Fetch(a) \/ UpdateSucceeds(a) \/ UpdateFails(a)
OwnerStep ==
  \/ ResetFirstUpdate \/ FinishFirstUpdate \/ StartTask \/ JoinTask
  \/ DoInvalidateAsync(Owner)
  \/ pc[Owner] = "stop" /\ StopPeriodicUpdates

Next ==
  \/ \E a \in Actors : Update(a)
  \/ \E d \in Debuggers, t \in {Full, Incremental} : UpdateSyncDebug(d, t)
  \/ \E kind \in {"inc", "full"} : ChangeSource(kind)
  \/ \E u \in Users :
       \/ \E t \in {Full, Incremental} : InvalidateAsync(u, t)
       \/ MarkFirstUpdate(u) \/ DoInvalidateAsync(u)
  \/ StartPeriodicUpdates \/ StopPeriodicUpdates
  \/ OwnerStep
  \/ Step
  \/ OnConfigUpdate

Spec == Init /\ [][Next]_vars

\* Updates end, the calls that have begun go on, and the task makes the steps it owes;
\* nothing else has to happen.
Fairness ==
  /\ \A a \in Actors : SF_vars(DoPeriodicUpdate(a)) /\ WF_vars(Update(a))
  /\ \A u \in Users : WF_vars(MarkFirstUpdate(u)) /\ WF_vars(DoInvalidateAsync(u))
  /\ WF_vars(OwnerStep)
  /\ WF_vars(Step)

----------------------------------------------------------------------------
(* Properties *)

\* Every variable has its type.
TypeOK ==
  /\ {source, cache, need} \subseteq Versions
  /\ {null, running, forceFull, attempted, updated, enabled, forced, synced, dump} \subseteq BOOLEAN
  /\ first \in {"No", "Yes", "Finished"}
  /\ dumpFirst \in {None, Full, Incremental}
  /\ failures \in Nat
  /\ mutex \in Actors \cup {None}
  /\ \A a \in Actors : type[a] \in {None, Full, Incremental} /\ read[a] \in Versions

\* Whoever updates the cache, it never goes back to older changes of the source.
NeverBackward == [][cache'.inc >= cache.inc /\ cache'.full >= cache.full]_vars

\* A cache that may not start empty has its data when StartPeriodicUpdates() returns,
\* and its first update when that is required, though updates are disabled or fail.
StartedHasData ==
  (pc[Owner] = "up" /\ ~conf.failOk /\ (~conf.noFirst \/ ~conf.periodic)) =>
    updated /\ (conf.mode = "Required" => synced)

\* A request for a full update is kept until a full update that began after it is over.
FullRequestKept ==
  cache.full < need.full =>
    \/ forceFull
    \/ \E a \in Actors : pc[a] = "set" /\ type[a] = Full /\ read[a].full >= need.full

\* An expired cache is filled again once its updates are enabled and its source answers.
ExpiredIsRepaired ==
  (pc[Owner] = "up" /\ updated /\ null /\ enabled /\ fails = MaxFailures /\ configs = MaxConfigs)
    ~> (~null \/ pc[Owner] # "up")
=============================================================================
