------------------------------- MODULE Dumper -------------------------------
(***************************************************************************)
(* dump::Dumper with its DumpLocator and FileWriter: updates of the data are  *)
(* reported through OnUpdateCompleted(), the periodic task and                *)
(* WriteDumpSyncDebug() write the data to a new file or rename the newest      *)
(* one, the process crashes and reads the newest dump when it starts again.   *)
(* The data is a version number, a dump is named by a time, and every reading  *)
(* of the clock gives a later time. Names of files are changed in the memory   *)
(* of the system and reach the disk some time later, in the order of the       *)
(* changes: nobody asks for it. A reset of the machine loses the rest.         *)
(***************************************************************************)
EXTENDS Integers, FiniteSets

CONSTANTS
  Signallers,       \* callers of OnUpdateCompleted()
  Caches,           \* the caller of OnUpdateCompleted(update_time, update_type)
  Debuggers,        \* callers of WriteDumpSyncDebug()
  Task,             \* PeriodicWriteTask()
  None,             \* nobody, nothing
  ZeroInterval,     \* min_dump_interval is 0
  MaxCount,         \* max_dump_count
  MaxAge,           \* max_dump_age
  ReadWhileUpdating,\* updates wait for ReadAndSet() only, not for ReadDump()
  MaxVersion,       \* bound: modifications of the data
  MaxChecks,        \* bound: updates that find nothing new
  MaxFailures,      \* bound: failed file operations
  MaxCrashes,       \* bound: crashes
  MaxConfigs        \* bound: changes of the dynamic config

Writers == {Task} \cup Debuggers
Updaters == Signallers \cup Caches

DumperAssumption ==
  /\ {ZeroInterval, ReadWhileUpdating} \subseteq BOOLEAN
  /\ {MaxVersion, MaxChecks, MaxFailures, MaxCrashes, MaxConfigs, MaxAge} \subseteq Nat
  /\ MaxCount \in Nat \ {0}
  /\ Caches = {} \/ (Signallers = {} /\ Cardinality(Caches) = 1)
  /\ Task \notin Debuggers
  /\ None \notin Writers \cup Updaters

VARIABLES
  clock, version,       \* the time; the newest version of the source of the data
  files, tmps,          \* dumps and *.tmp files: [time, ver, whole]
  disk,                 \* what a reset of the machine would leave: [files, tmps, durable]
  data,                 \* version of the data in memory
  updTime, status,      \* update_data_, data_signal_status_
  dataSignal, configSignal,
  enabled,              \* dynamic_config_: dumps_enabled
  dumped,               \* dumped_update_time
  updLock, dumpLock,    \* owners of update_data_ and dump_data_
  cancelled,            \* CancelWriteTaskAndWait()
  upc, utime, uver,     \* updaters
  wpc, wtime,           \* writers
  prevOk, seen,         \* locals of the periodic task: previous_write_succeeded, config
  lpc, loading,         \* ReadDump() at the start
  cpc,                  \* OnConfigUpdate()
  checks, failures, crashes, configs,
  durable,              \* the last dump that was written: [time, ver]
  knownAt               \* time for which a version is known to be the newest

memVars == <<data, updTime, status>>
signalVars == <<dataSignal, configSignal, enabled, cpc>>
updVars == <<upc, utime, uver, checks>>
writeVars == <<wpc, wtime, prevOk, seen, dumped>>
loadVars == <<lpc, loading>>
diskVars == <<files, tmps, disk>>
ghostVars == <<durable, knownAt>>
boundVars == <<failures, crashes, configs>>
vars == <<clock, version, diskVars, memVars, signalVars, updLock, dumpLock, cancelled, updVars,
          writeVars, loadVars, boundVars, ghostVars>>

MaxOutage == 2          \* bound: time between a crash and the restart
MaxClock == MaxVersion * 2 + MaxChecks + MaxCrashes * MaxOutage
Never == MaxClock + 2
Times == 0 .. MaxClock
NoTime == [last |-> 0, mod |-> 0]
DumpFile == [time : Times, ver : 0 .. MaxVersion, whole : BOOLEAN]

\* An earlier run of the program may have left a dump.
Init ==
  /\ clock = 1
  /\ durable = [time |-> 0, ver |-> 0]
  /\ \/ files = {} /\ version = 0
     \/ files = {[time |-> 1, ver |-> 1, whole |-> TRUE]} /\ version = 1
  /\ tmps = {}
  /\ disk = [files |-> files, tmps |-> {}, durable |-> durable]
  /\ data = 0 /\ updTime = NoTime /\ status = "NotSignaled"
  /\ dataSignal = FALSE /\ configSignal = FALSE /\ enabled = TRUE /\ cpc = "idle"
  /\ dumped = NoTime
  /\ updLock = None /\ dumpLock = None
  /\ cancelled = FALSE
  /\ upc = [u \in Updaters |-> "idle"]
  /\ utime = [u \in Updaters |-> 0]
  /\ uver = [u \in Updaters |-> 0]
  /\ wpc = [w \in Writers |-> IF w = Task THEN "loop" ELSE "idle"]
  /\ wtime = [w \in Writers |-> NoTime]
  /\ prevOk = TRUE /\ seen = TRUE
  /\ lpc = "start" /\ loading = None
  /\ checks = 0 /\ failures = 0 /\ crashes = 0 /\ configs = 0
  /\ knownAt = [v \in 1 .. MaxVersion |-> Never]

----------------------------------------------------------------------------
(* DumpLocator *)

Acceptable(f) == f.time >= clock - MaxAge

Newest(fs) == CHOOSE f \in fs : \A g \in fs : g.time <= f.time

\* GetLatestDump()
GetLatestDump == {f \in files : Acceptable(f)}

\* What Cleanup() leaves when it comes to its end, and when it does not: *.tmp files and dumps
\* that are too old go in any order, after them the excessive dumps, the newest first.
Younger(f) == {g \in GetLatestDump : g.time > f.time}
Cleaned == [files |-> {f \in GetLatestDump : Cardinality(Younger(f)) < MaxCount}, tmps |-> {}]
PartlyCleaned ==
  {[files |-> fs, tmps |-> ts] : fs \in {g \in SUBSET files : GetLatestDump \subseteq g}, ts \in SUBSET tmps}
  \cup {[files |-> {f \in GetLatestDump : Cardinality(Younger(f)) \notin MaxCount .. n}, tmps |-> {}] :
          n \in MaxCount .. Cardinality(files)}

\* The names have changed: the disk has followed, or not yet.
DiskFollows ==
  \/ disk' = [files |-> files', tmps |-> tmps', durable |-> durable']
  \/ UNCHANGED disk

----------------------------------------------------------------------------
(* ReadDump() *)

CanUpdate == lpc = "done" \/ (ReadWhileUpdating /\ lpc = "set")

LoadLock ==
  /\ lpc = "start"
  /\ dumpLock = None
  /\ IF enabled /\ GetLatestDump # {}
     THEN /\ dumpLock' = "load"
          /\ loading' = Newest(GetLatestDump)
          /\ lpc' = "read"
     ELSE lpc' = "done" /\ UNCHANGED <<dumpLock, loading>>
  /\ UNCHANGED <<clock, version, diskVars, memVars, signalVars, updLock, cancelled, updVars,
                 writeVars, boundVars, ghostVars>>

\* CreateReader(), ReadAndSet(): a dump that cannot be read is as good as none.
LoadRead ==
  /\ lpc = "read"
  /\ \/ /\ loading.whole
        /\ data' = loading.ver
        /\ lpc' = "set"
        /\ UNCHANGED <<dumpLock, failures>>
     \/ /\ ~loading.whole \/ failures < MaxFailures
        /\ failures' = IF loading.whole THEN failures + 1 ELSE failures
        /\ lpc' = "done"
        /\ dumpLock' = None
        /\ UNCHANGED data
  /\ UNCHANGED <<clock, version, diskVars, updTime, status, signalVars, updLock, cancelled,
                 updVars, writeVars, loading, crashes, configs, ghostVars>>

LoadSet ==
  /\ lpc = "set"
  /\ updLock = None
  /\ updTime' = [last |-> loading.time, mod |-> loading.time]
  /\ dumped' = updTime'
  /\ dumpLock' = None
  /\ lpc' = "done"
  /\ UNCHANGED <<clock, version, diskVars, data, status, signalVars, updLock, cancelled, updVars,
                 wpc, wtime, prevOk, seen, loading, boundVars, ghostVars>>

----------------------------------------------------------------------------
(* OnUpdateCompleted() *)

Modify(u) ==
  /\ u \in Signallers
  /\ upc[u] = "idle"
  /\ CanUpdate
  /\ version < MaxVersion
  /\ version' = version + 1
  /\ data' = version + 1
  /\ uver' = [uver EXCEPT ![u] = version + 1]
  /\ upc' = [upc EXCEPT ![u] = "notify"]
  /\ UNCHANGED <<clock, diskVars, updTime, status, signalVars, updLock, dumpLock, cancelled,
                 utime, checks, writeVars, loadVars, boundVars, ghostVars>>

Report(v, t) == knownAt' = [knownAt EXCEPT ![v] = t]

NotifyBegin(u) ==
  /\ upc[u] = "notify"
  /\ IF status = "NotSignaled"
     THEN /\ status' = "Signaling"
          /\ upc' = [upc EXCEPT ![u] = "lock"]
          /\ UNCHANGED knownAt
     ELSE /\ upc' = [upc EXCEPT ![u] = "idle"]
          /\ Report(uver[u], clock + 1)
          /\ UNCHANGED status
  /\ uver' = [uver EXCEPT ![u] = IF status = "NotSignaled" THEN @ ELSE 0]
  /\ UNCHANGED <<clock, version, diskVars, data, updTime, signalVars, updLock, dumpLock, cancelled,
                 utime, checks, writeVars, loadVars, boundVars, durable>>

NotifyStore(u) ==
  /\ upc[u] = "lock"
  /\ updLock = None
  /\ updLock' = u
  /\ status' = "Signaled"
  /\ upc' = [upc EXCEPT ![u] = "send"]
  /\ UNCHANGED <<clock, version, diskVars, data, updTime, signalVars, dumpLock, cancelled,
                 utime, uver, checks, writeVars, loadVars, boundVars, ghostVars>>

----------------------------------------------------------------------------
(* OnUpdateCompleted(update_time, update_type), after an update of a cache *)

BeginUpdate(u) ==
  /\ u \in Caches
  /\ upc[u] = "idle"
  /\ CanUpdate
  /\ clock < MaxClock
  /\ clock' = clock + 1
  /\ utime' = [utime EXCEPT ![u] = clock + 1]
  /\ upc' = [upc EXCEPT ![u] = "update"]
  /\ UNCHANGED <<version, diskVars, memVars, signalVars, updLock, dumpLock, cancelled,
                 uver, checks, writeVars, loadVars, boundVars, ghostVars>>

\* The source has something new, or the data in memory is old.
UpdateModified(u) ==
  /\ upc[u] = "update"
  /\ \/ version < MaxVersion /\ version' = version + 1
     \/ data # version /\ version' = version
  /\ data' = version'
  /\ uver' = [uver EXCEPT ![u] = version']
  /\ upc' = [upc EXCEPT ![u] = "modified"]
  /\ UNCHANGED <<clock, diskVars, updTime, status, signalVars, updLock, dumpLock, cancelled,
                 utime, checks, writeVars, loadVars, boundVars, ghostVars>>

UpdateNoChanges(u) ==
  /\ upc[u] = "update"
  /\ data = version
  /\ checks < MaxChecks
  /\ checks' = checks + 1
  /\ upc' = [upc EXCEPT ![u] = "same"]
  /\ UNCHANGED <<clock, version, diskVars, memVars, signalVars, updLock, dumpLock, cancelled,
                 utime, uver, writeVars, loadVars, boundVars, ghostVars>>

Complete(u) ==
  /\ upc[u] \in {"modified", "same"}
  /\ updLock = None
  /\ updLock' = u
  /\ updTime' = CASE upc[u] = "modified" -> [last |-> utime[u], mod |-> utime[u]]
                  [] upc[u] = "same" /\ updTime # NoTime -> [updTime EXCEPT !.last = utime[u]]
                  [] OTHER -> updTime
  /\ upc' = [upc EXCEPT ![u] = "send"]
  /\ UNCHANGED <<clock, version, diskVars, data, status, signalVars, dumpLock, cancelled,
                 utime, uver, checks, writeVars, loadVars, boundVars, ghostVars>>

\* data_updated_signal_.Send(), and the lock is released.
Send(u) ==
  /\ upc[u] = "send"
  /\ dataSignal' = TRUE
  /\ updLock' = None
  /\ upc' = [upc EXCEPT ![u] = "idle"]
  /\ IF uver[u] = 0 THEN UNCHANGED knownAt
     ELSE Report(uver[u], IF u \in Caches THEN utime[u] ELSE clock + 1)
  /\ uver' = [uver EXCEPT ![u] = 0]
  /\ UNCHANGED <<clock, version, diskVars, memVars, configSignal, enabled, cpc, dumpLock,
                 cancelled, utime, checks, writeVars, loadVars, boundVars, durable>>

----------------------------------------------------------------------------
(* PeriodicWriteTask() *)

taskUnchanged == <<clock, version, diskVars, memVars, updLock, updVars, loadVars, boundVars,
                   ghostVars, wtime, dumped, enabled, cpc, cancelled>>

GoTo(w, pc) == wpc' = [wpc EXCEPT ![w] = pc]

\* The loop condition; ReadConfigForPeriodicTask() resets the signal first.
ResetConfigSignal ==
  /\ wpc[Task] = "loop"
  /\ GoTo(Task, IF cancelled THEN "done" ELSE "config")
  /\ configSignal' = (cancelled /\ configSignal)
  /\ UNCHANGED <<taskUnchanged, dataSignal, dumpLock, prevOk, seen>>

ReadConfig ==
  /\ wpc[Task] = "config"
  /\ seen' = enabled
  /\ GoTo(Task, IF prevOk \/ ZeroInterval THEN "wait" ELSE "cool")
  /\ UNCHANGED <<taskUnchanged, configSignal, dataSignal, dumpLock, prevOk>>

\* Mutant: the wait is not cancelled.
WaitDataUncancellable ==
  /\ wpc[Task] = "wait"
  /\ dataSignal
  /\ GoTo(Task, IF configSignal THEN "loop" ELSE "cool")
  /\ UNCHANGED <<taskUnchanged, configSignal, dataSignal, dumpLock, prevOk, seen>>

\* data_updated_signal_.WaitForEvent()
WaitData ==
  /\ wpc[Task] = "wait"
  /\ \/ dataSignal /\ GoTo(Task, IF configSignal THEN "loop" ELSE "cool")
     \/ cancelled /\ ~dataSignal /\ GoTo(Task, "done")
  /\ UNCHANGED <<taskUnchanged, configSignal, dataSignal, dumpLock, prevOk, seen>>

\* The cooldown of disabled dumps never ends.
Cooldown ==
  /\ wpc[Task] = "cool"
  /\ \/ seen /\ GoTo(Task, "lock")
     \/ configSignal /\ GoTo(Task, "loop")
     \/ cancelled /\ GoTo(Task, "done")
  /\ UNCHANGED <<taskUnchanged, configSignal, dataSignal, dumpLock, prevOk, seen>>

LockDumpData(w) ==
  /\ wpc[w] = "lock"
  /\ dumpLock = None
  /\ dumpLock' = w
  /\ GoTo(w, IF w = Task THEN "reset" ELSE "retrieve")
  /\ UNCHANGED <<taskUnchanged, configSignal, dataSignal, prevOk, seen>>

ResetDataSignal ==
  /\ wpc[Task] = "reset"
  /\ dataSignal' = FALSE
  /\ GoTo(Task, "retrieve")
  /\ UNCHANGED <<taskUnchanged, configSignal, dumpLock, prevOk, seen>>

WriteDumpSyncDebug(w) ==
  /\ w \in Debuggers
  /\ wpc[w] = "idle"
  /\ lpc # "start"
  /\ enabled
  /\ GoTo(w, "lock")
  /\ UNCHANGED <<taskUnchanged, configSignal, dataSignal, dumpLock, prevOk, seen>>

----------------------------------------------------------------------------
(* WriteDump() *)

writeUnchanged == <<version, data, signalVars, updLock, cancelled, updVars, seen, loadVars,
                    crashes, configs, knownAt>>

EndWrite(w, ok) ==
  /\ dumpLock' = None
  /\ GoTo(w, IF w = Task THEN "loop" ELSE "idle")
  /\ prevOk' = IF w = Task THEN ok ELSE prevOk

\* An update in kSignaling waits for the next write.
RetrieveUpdateTime(w) ==
  /\ wpc[w] = "retrieve"
  /\ updLock = None
  /\ LET signaled == status = "Signaled"
         time == IF signaled THEN [last |-> clock + 1, mod |-> clock + 1] ELSE updTime
     IN  /\ clock' = IF signaled THEN clock + 1 ELSE clock
         /\ updTime' = time
         /\ status' = IF signaled THEN "NotSignaled" ELSE status
         /\ wtime' = [wtime EXCEPT ![w] = time]
         /\ IF time = NoTime THEN EndWrite(w, FALSE)
            ELSE /\ GoTo(w, IF dumped # NoTime /\ dumped.mod = time.mod THEN "bump" ELSE "clean")
                 /\ UNCHANGED <<dumpLock, prevOk>>
  /\ UNCHANGED <<writeUnchanged, diskVars, dumped, failures, durable>>

\* An exception ends the cleanup and is only logged.
Cleanup(w) ==
  /\ wpc[w] = "clean"
  /\ \E d \in PartlyCleaned :
       /\ files' = d.files /\ tmps' = d.tmps
       /\ \/ d = Cleaned /\ UNCHANGED failures
          \/ failures < MaxFailures /\ failures' = failures + 1
  /\ GoTo(w, "create")
  /\ UNCHANGED <<writeUnchanged, clock, updTime, status, dumpLock, dumped, wtime, prevOk,
                 durable>>
  /\ DiskFollows

Written(w, v) ==
  /\ dumped' = wtime[w]
  /\ durable' = [time |-> wtime[w].last, ver |-> v]
  /\ EndWrite(w, TRUE)

\* BumpDumpTime(); a dump that is gone, or cannot be renamed, is written anew.
BumpDumpTime(w) ==
  /\ wpc[w] = "bump"
  /\ LET old == {f \in files : f.time = dumped.last}
     IN  \/ /\ old # {}
            /\ LET f == Newest(old)
               IN  /\ files' = {g \in files \ {f} : g.time # wtime[w].last}
                                 \cup {[f EXCEPT !.time = wtime[w].last]}
                   /\ Written(w, f.ver)
            /\ UNCHANGED <<tmps, failures>>
            /\ DiskFollows
         \/ /\ old = {} \/ failures < MaxFailures
            /\ failures' = IF old = {} THEN failures ELSE failures + 1
            /\ GoTo(w, "create")
            /\ UNCHANGED <<diskVars, dumped, dumpLock, prevOk, durable>>
  /\ UNCHANGED <<writeUnchanged, clock, updTime, status, wtime>>

Tmp(w) == CHOOSE f \in tmps : f.time = wtime[w].last

\* RegisterNewDump(), CreateWriter(): neither file may exist.
CreateWriter(w) ==
  /\ wpc[w] = "create"
  /\ UNCHANGED <<writeUnchanged, clock, updTime, status, files, wtime, dumped, failures, durable>>
  /\ IF \E f \in files \cup tmps : f.time = wtime[w].last
     THEN EndWrite(w, FALSE) /\ UNCHANGED <<tmps, disk>>
     ELSE /\ tmps' = tmps \cup {[time |-> wtime[w].last, ver |-> 0, whole |-> FALSE]}
          /\ DiskFollows
          /\ GoTo(w, "write")
          /\ UNCHANGED <<dumpLock, prevOk>>

GetAndWrite(w) ==
  /\ wpc[w] = "write"
  /\ tmps' = (tmps \ {Tmp(w)}) \cup {[Tmp(w) EXCEPT !.ver = data]}
  /\ GoTo(w, "flush")
  /\ UNCHANGED <<writeUnchanged, clock, updTime, status, files, disk, wtime, dumped, failures, durable,
                 dumpLock, prevOk>>

\* Mutant: the file is renamed before it reaches the disk.
FlushNot(w) ==
  /\ wpc[w] = "flush"
  /\ GoTo(w, "rename")
  /\ UNCHANGED <<writeUnchanged, clock, updTime, status, diskVars, wtime, dumped, failures, durable,
                 dumpLock, prevOk>>

\* Finish(): the contents reach the disk, then the file gets its name.
Flush(w) ==
  /\ wpc[w] = "flush"
  /\ tmps' = (tmps \ {Tmp(w)}) \cup {[Tmp(w) EXCEPT !.whole = TRUE]}
  /\ GoTo(w, "rename")
  /\ UNCHANGED <<writeUnchanged, clock, updTime, status, files, disk, wtime, dumped, failures, durable,
                 dumpLock, prevOk>>

Rename(w) ==
  /\ wpc[w] = "rename"
  /\ files' = {f \in files : f.time # wtime[w].last} \cup {Tmp(w)}
  /\ tmps' = tmps \ {Tmp(w)}
  /\ Written(w, Tmp(w).ver)
  /\ DiskFollows
  /\ UNCHANGED <<writeUnchanged, clock, updTime, status, wtime, failures>>

\* An operation on the file fails; the *.tmp file stays.
WriteFails(w) ==
  /\ wpc[w] \in {"create", "write", "flush", "rename"}
  /\ failures < MaxFailures
  /\ failures' = failures + 1
  /\ EndWrite(w, FALSE)
  /\ UNCHANGED <<writeUnchanged, clock, updTime, status, diskVars, wtime, dumped, durable>>

----------------------------------------------------------------------------
(* The owner, the dynamic config, crashes *)

CancelWriteTask ==
  /\ ~cancelled
  /\ cancelled' = TRUE
  /\ UNCHANGED <<clock, version, diskVars, memVars, signalVars, updLock, dumpLock, updVars,
                 writeVars, loadVars, boundVars, ghostVars>>

OnConfigUpdate ==
  /\ cpc = "idle"
  /\ configs < MaxConfigs
  /\ configs' = configs + 1
  /\ enabled' = ~enabled
  /\ cpc' = "send"
  /\ UNCHANGED <<clock, version, diskVars, memVars, dataSignal, configSignal, updLock, dumpLock,
                 cancelled, updVars, writeVars, loadVars, failures, crashes, ghostVars>>

SendConfig ==
  /\ cpc = "send"
  /\ configSignal' = TRUE
  /\ cpc' = "idle"
  /\ UNCHANGED <<clock, version, diskVars, memVars, dataSignal, enabled, updLock, dumpLock,
                 cancelled, updVars, writeVars, loadVars, boundVars, ghostVars>>

\* What a crash leaves of the memory: nothing; the program starts again some time later.
Restart ==
  /\ crashes < MaxCrashes
  /\ crashes' = crashes + 1
  /\ clock' \in {clock, clock + MaxOutage} \cap Times
  /\ data' = 0 /\ updTime' = NoTime /\ status' = "NotSignaled"
  /\ dataSignal' = FALSE /\ configSignal' = FALSE /\ enabled' = TRUE /\ cpc' = "idle"
  /\ dumped' = NoTime
  /\ updLock' = None /\ dumpLock' = None
  /\ cancelled' = FALSE
  /\ upc' = [u \in Updaters |-> "idle"]
  /\ utime' = [u \in Updaters |-> 0]
  /\ uver' = [u \in Updaters |-> 0]
  /\ wpc' = [w \in Writers |-> IF w = Task THEN "loop" ELSE "idle"]
  /\ wtime' = [w \in Writers |-> NoTime]
  /\ prevOk' = TRUE /\ seen' = TRUE
  /\ lpc' = "start" /\ loading' = None
  /\ UNCHANGED <<version, checks, failures, configs, knownAt>>

\* The process is killed, perhaps in the middle of Cleanup().
Crash ==
  /\ Restart
  /\ IF \E w \in Writers : wpc[w] = "clean"
     THEN \E d \in PartlyCleaned : files' = d.files /\ tmps' = d.tmps
     ELSE UNCHANGED <<files, tmps>>
  /\ UNCHANGED <<durable, disk>>

\* The machine is reset, and finds what has reached the disk.
Reset ==
  /\ Restart
  /\ files' = disk.files /\ tmps' = disk.tmps /\ durable' = disk.durable
  /\ UNCHANGED disk

----------------------------------------------------------------------------

TaskStep == ResetConfigSignal \/ ReadConfig \/ WaitData \/ Cooldown \/ ResetDataSignal
WriteStep(w) ==
  \/ LockDumpData(w) \/ RetrieveUpdateTime(w) \/ Cleanup(w) \/ BumpDumpTime(w)
  \/ CreateWriter(w) \/ GetAndWrite(w) \/ Flush(w) \/ Rename(w)
Notify(u) == NotifyBegin(u) \/ NotifyStore(u) \/ Complete(u) \/ Send(u)
Load == LoadLock \/ LoadRead \/ LoadSet

Next ==
  \/ Load
  \/ TaskStep
  \/ \E w \in Writers : WriteStep(w) \/ WriteFails(w) \/ WriteDumpSyncDebug(w)
  \/ \E u \in Updaters :
       \/ Modify(u) \/ Notify(u)
       \/ BeginUpdate(u) \/ UpdateModified(u) \/ UpdateNoChanges(u)
  \/ CancelWriteTask \/ OnConfigUpdate \/ SendConfig \/ Crash \/ Reset

Spec == Init /\ [][Next]_vars

\* Whoever has begun a call goes on, the task runs and its cooldowns end.
Fairness ==
  /\ WF_vars(Load)
  /\ WF_vars(TaskStep)
  /\ \A w \in Writers : SF_vars(LockDumpData(w)) /\ WF_vars(WriteStep(w))
  /\ \A u \in Updaters : WF_vars(Notify(u))
  /\ WF_vars(SendConfig)

----------------------------------------------------------------------------
(* Properties *)

\* Every variable has its type.
TypeOK ==
  /\ clock \in 0 .. MaxClock /\ version \in 0 .. MaxVersion /\ data \in 0 .. version
  /\ {files, tmps, disk.files, disk.tmps} \subseteq SUBSET DumpFile
  /\ status \in {"NotSignaled", "Signaling", "Signaled"}
  /\ {dataSignal, configSignal, enabled, cancelled, prevOk, seen} \subseteq BOOLEAN
  /\ {updTime, dumped} \subseteq [last : Times, mod : Times]
  /\ updLock \in Updaters \cup {None}
  /\ dumpLock \in Writers \cup {None, "load"}
  /\ upc \in [Updaters -> {"idle", "notify", "lock", "send", "update", "modified", "same"}]
  /\ wpc \in [Writers -> {"idle", "loop", "config", "wait", "cool", "lock", "reset", "retrieve",
                          "clean", "bump", "create", "write", "flush", "rename", "done"}]
  /\ lpc \in {"start", "read", "set", "done"}
  /\ cpc \in {"idle", "send"}

\* Wherever a crash strikes, what GetLatestDump() finds next is at least as new as the
\* last dump that was written, unless that is too old: neither the cleanup, nor a failed
\* write, nor a renaming loses it. After a reset of the machine it is at least as new as
\* the last dump whose name has reached the disk.
NewestDumpKept ==
  (durable.time > 0 /\ Acceptable(durable)) =>
    /\ GetLatestDump # {}
    /\ Newest(GetLatestDump).ver >= durable.ver

\* A file with the name of a dump is never a part of one, not even after a reset of the
\* machine in the middle of DoWriteDump().
DumpsAreWhole == \A f \in files : f.whole

\* A dump holds everything that was known by the time in its name, though the data
\* changes while it is written and BumpDumpTime() gives old contents a new time.
DumpAsFreshAsNamed ==
  \A f \in files, v \in 1 .. MaxVersion : knownAt[v] <= f.time => f.ver >= v

\* An update that was reported is dumped if dumps stay enabled and the task is not
\* cancelled, whichever write it meets, after failed writes too.
UpdateIsDumped ==
  <>[]enabled =>
    \A v \in 1 .. MaxVersion :
      (knownAt[v] # Never) ~> (cancelled \/ \E f \in files : f.ver >= v)

=============================================================================
