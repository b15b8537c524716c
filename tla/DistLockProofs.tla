--------------------------- MODULE DistLockProofs ---------------------------
(***************************************************************************)
(* Two hosts never do the work of a distributed lock at the same time, for  *)
(* any number of hosts and any settings that leave the watchdog its time.   *)
(*                                                                         *)
(* The argument is about clocks: the age of a lease as its host counts it,  *)
(* from the moment the request was sent, is never less than its age in the  *)
(* database. So what is left of the lease is at least lock_ttl minus that   *)
(* age, and the watchdog ends the worker while something is left.           *)
(***************************************************************************)
EXTENDS DistLock, TLAPS

----------------------------------------------------------------------------
(* The inductive invariant *)

\* The age at which the watchdog has noticed at the latest that prolongation fails:
\* it looks every half of the margin.
Reach == High - Margin + Margin \div 2

\* The settings leave the watchdog its time: calls of the strategy fail before
\* the lease they ask for ends, and changes of lock_ttl are less than half the margin.
Timely == MaxAnswer < Low /\ Reach < Low

\* There is a watchdog, and it has not done its work.
Active(h) == watchdog[h].at \in {"start", "check", "wait", "join"}

\* The order in which Run(), the watchdog and the worker begin and end.
OrderOk(h) ==
  /\ locker[h].pc = "call" <=> request[h].at # "none"
  /\ locker[h].pc = "stopped" => ~locker[h].isLocked
  /\ ~locker[h].isLocked => watchdog[h].at = "none"
  /\ worker[h].at # "none" => watchdog[h].at \in {"check", "wait", "join"}

\* The host counts the age of its lease from no later than the database does.
LeaseOk(h) ==
  /\ request[h].at = "granted" => lease.owner = h /\ lease.left + request[h].age >= Low
  /\ Active(h) => lease.owner = h /\ lease.left + locker[h].age >= Low

\* No request and no watchdog gets older than it may.
AgeOk(h) ==
  /\ request[h].at # "none" =>
       request[h].age <= MaxAnswer /\ (locker[h].isLocked => request[h].age <= locker[h].age)
  /\ watchdog[h].at = "start" => locker[h].age <= MaxAnswer
  /\ watchdog[h].at \in {"check", "join"} => locker[h].age <= MaxAnswer \/ locker[h].age <= Reach
  /\ watchdog[h].at = "wait" => locker[h].age + watchdog[h].timer <= Reach

HostOk(h) == OrderOk(h) /\ LeaseOk(h) /\ AgeOk(h)

DistInv == TypeOK /\ \A h \in Hosts : HostOk(h)

----------------------------------------------------------------------------
(* Types *)

\* What the assumptions on the settings say of their bounds.
LEMMA Bounds ==
  /\ Low \in Ttls /\ High \in Ttls /\ Ttls \subseteq Nat
  /\ \A ttl \in Ttls : Low <= ttl /\ ttl <= High /\ Margin < ttl
  /\ Low \in Nat /\ High \in Nat /\ MaxAge = High + 1 /\ Margin \in Nat /\ MaxAnswer \in Nat
  /\ Margin \div 2 \in 0 .. Margin
  /\ Reach \in Int
<1>1. PICK low \in Ttls, high \in Ttls : \A ttl \in Ttls : low <= ttl /\ ttl <= high
  BY DistLockAssumption
<1>2. Low \in Ttls /\ \A other \in Ttls : Low <= other
  BY <1>1 DEF Low
<1>3. High \in Ttls /\ \A other \in Ttls : High >= other
  BY <1>1, DistLockAssumption DEF High
<1>4. Margin \div 2 \in 0 .. Margin
  BY DistLockAssumption
<1> QED BY <1>2, <1>3, <1>4, DistLockAssumption DEF MaxAge, Reach

\* An age stays an age, and grows by one at most.
LEMMA OlderType ==
  ASSUME NEW a \in 0 .. MaxAge
  PROVE  /\ Older(a) \in 0 .. MaxAge /\ a <= Older(a) /\ Older(a) <= a + 1
         /\ Older(a) = a + 1 \/ Older(a) = High + 1
BY Bounds DEF Older

\* The types of the records.
LeaseType == [owner : Hosts \cup {Nobody, Dead}, left : 0 .. High]
LockerPcs == {"stopped", "loop", "call", "split", "delay", "finish", "join"}
LockerType == [pc : LockerPcs, cancelled : BOOLEAN, isLocked : BOOLEAN, age : 0 .. MaxAge, succeeded : BOOLEAN]
RequestType == [at : {"none", "sent", "granted", "busy"}, ttl : Ttls, age : 0 .. MaxAge]
WatchdogType ==
  [at : {"none", "start", "check", "wait", "join", "done"}, cancelled : BOOLEAN, timer : 0 .. Margin, ok : BOOLEAN]
WorkerType == [at : {"none", "running", "cancelled", "ended"}, ok : BOOLEAN]

\* The type invariant, by the types of its records.
Typed ==
  /\ lease \in LeaseType
  /\ locker \in [Hosts -> LockerType]
  /\ request \in [Hosts -> RequestType]
  /\ stray \in [Hosts -> Ttls \cup {NoStray}]
  /\ watchdog \in [Hosts -> WatchdogType]
  /\ worker \in [Hosts -> WorkerType]
  /\ crashes \in 0 .. MaxCrashes

\* It is the type invariant of the model.
LEMMA TypedIsTypeOK == TypeOK <=> Typed
BY DEF TypeOK, Typed, LeaseType, LockerType, LockerPcs, RequestType, WatchdogType, WorkerType

\* The values that the actions assign have their types.
LEMMA Values ==
  /\ Stopped \in LockerType /\ NoRequest \in RequestType /\ NoWatchdog \in WatchdogType /\ NoWorker \in WorkerType
  /\ \A p \in LockerPcs, l \in LockerType : [l EXCEPT !.pc = p] \in LockerType
  /\ [owner |-> Nobody, left |-> 0] \in LeaseType
  /\ \A h \in Hosts : AfterCall(h) \in LockerPcs
<1>1. Stopped \in LockerType
  BY Bounds DEF Stopped, LockerType, LockerPcs
<1>2. NoRequest \in RequestType
  BY Bounds DEF NoRequest, RequestType
<1>3. NoWatchdog \in WatchdogType
  BY Bounds DEF NoWatchdog, WatchdogType
<1>4. NoWorker \in WorkerType
  BY DEF NoWorker, WorkerType
<1>5. \A p \in LockerPcs, l \in LockerType : [l EXCEPT !.pc = p] \in LockerType
  BY DEF LockerType
<1>6. [owner |-> Nobody, left |-> 0] \in LeaseType
  BY Bounds DEF LeaseType
<1>7. \A h \in Hosts : AfterCall(h) \in LockerPcs
  BY DEF AfterCall, LockerPcs
<1> QED BY <1>1, <1>2, <1>3, <1>4, <1>5, <1>6, <1>7

\* What host h may do.
HostStep(h) ==
  \/ Start(h) \/ RequestStop(h) \/ Serve(h) \/ ServeStray(h)
  \/ LockerStep(h) \/ Granted(h) \/ Busy(h) \/ CallFails(h)
  \/ WatchdogStep(h) \/ WorkerEnds(h) \/ Crash(h)

\* The row of the database keeps its type,
LEMMA LeaseTyped ==
  ASSUME Typed, NEW h \in Hosts, HostStep(h)
  PROVE  lease' \in LeaseType
<1>1. CASE Serve(h)
  BY <1>1, Bounds DEF Serve, Typed, LeaseType, RequestType
<1>2. CASE ServeStray(h)
  <2>1. PICK ttl \in Ttls : lease' = [owner |-> h, left |-> ttl]
    BY <1>2 DEF ServeStray, Typed
  <2>2. ttl \in 0 .. High
    BY Bounds
  <2> QED BY <2>1, <2>2 DEF LeaseType
<1>3. CASE ReleaseLease(h)
  BY <1>3, Values DEF ReleaseLease, Typed
<1>4. CASE Crash(h)
  BY <1>4 DEF Crash, Typed, LeaseType
<1>5. CASE lease' = lease
  BY <1>5 DEF Typed
<1> QED BY <1>1, <1>2, <1>3, <1>4, <1>5
     DEF HostStep, LockerStep, WatchdogStep, Start, RequestStop, Attempt, AfterSplit, NextRound, WatchdogFinished,
         Finish, Unlock, Granted, Busy, CallFails, StartWorker, Check, WaitEnds, CancelWorker, WorkerEnds

\* and so does the state of Run(),
LEMMA LockerTyped ==
  ASSUME Typed, NEW h \in Hosts, HostStep(h)
  PROVE  locker' \in [Hosts -> LockerType]
<1>0. locker \in [Hosts -> LockerType] /\ locker[h] \in LockerType
  BY DEF Typed
<1>1. ASSUME NEW l \in LockerType, locker' = [locker EXCEPT ![h] = l]
      PROVE  locker' \in [Hosts -> LockerType]
  BY <1>0, <1>1
<1>2. ASSUME NEW b \in BOOLEAN, NEW a \in 0 .. MaxAge
      PROVE  ExchangeLockState(h, b, a) \in LockerType
  BY <1>0, <1>2 DEF ExchangeLockState, LockerType
<1>3. 0 \in 0 .. MaxAge
  BY Bounds
<1>4. CASE Start(h)
  <2>1. locker' = [locker EXCEPT ![h] = [Stopped EXCEPT !.pc = "loop"]]
    BY <1>4 DEF Start
  <2> QED BY <1>1, <2>1, Values DEF LockerPcs
<1>5. CASE RequestStop(h)
  BY <1>0, <1>5 DEF RequestStop, LockerType
<1>6. CASE \E p \in LockerPcs : locker' = [locker EXCEPT ![h].pc = p]
  BY <1>0, <1>6 DEF LockerType
<1>7. CASE AfterSplit(h)
  <2>1. PICK p \in LockerPcs : locker' = [locker EXCEPT ![h] = [ExchangeLockState(h, FALSE, 0) EXCEPT !.pc = p]]
    BY <1>7, Values DEF AfterSplit, LockerPcs
  <2> QED BY <1>1, <1>2, <1>3, <2>1, Values
<1>8. CASE WatchdogFinished(h)
  <2>1. CASE \E p \in LockerPcs : locker' = [locker EXCEPT ![h] = [ExchangeLockState(h, FALSE, 0) EXCEPT !.pc = p]]
    BY <1>1, <1>2, <1>3, <2>1, Values
  <2>2. CASE locker' = [locker EXCEPT ![h].succeeded = TRUE, ![h].pc = "loop"]
    BY <1>0, <2>2 DEF LockerType, LockerPcs
  <2> QED BY <1>8, <2>1, <2>2 DEF WatchdogFinished, LockerPcs
<1>9. CASE Unlock(h) \/ Crash(h)
  BY <1>1, <1>9, Values DEF Unlock, Crash
<1>10. CASE Granted(h)
  <2>1. /\ request[h].age \in 0 .. MaxAge
        /\ locker' = [locker EXCEPT ![h] = [ExchangeLockState(h, TRUE, request[h].age) EXCEPT !.pc = AfterCall(h)]]
    BY <1>10 DEF Granted, Typed, RequestType
  <2> QED BY <1>1, <1>2, <2>1, Values
<1>11. CASE locker' = locker
  BY <1>0, <1>11
<1>12. CASE Attempt(h) \/ NextRound(h) \/ Finish(h) \/ Busy(h) \/ CallFails(h)
  BY <1>6, <1>12, Values DEF Attempt, NextRound, Finish, Busy, CallFails, LockerPcs
<1> QED BY <1>4, <1>5, <1>7, <1>8, <1>9, <1>10, <1>11, <1>12
     DEF HostStep, LockerStep, WatchdogStep, Serve, ServeStray, StartWorker, Check, WaitEnds, CancelWorker, WorkerEnds

\* so do the requests, the worker and the count of crashes,
LEMMA RequestTyped ==
  ASSUME Typed, NEW h \in Hosts, HostStep(h)
  PROVE  /\ request' \in [Hosts -> RequestType]
         /\ stray' \in [Hosts -> Ttls \cup {NoStray}]
         /\ worker' \in [Hosts -> WorkerType]
         /\ crashes' \in 0 .. MaxCrashes
<1>0. /\ request \in [Hosts -> RequestType] /\ request[h].ttl \in Ttls /\ worker \in [Hosts -> WorkerType]
      /\ stray \in [Hosts -> Ttls \cup {NoStray}] /\ crashes \in 0 .. MaxCrashes /\ MaxCrashes \in Nat
  BY DistLockAssumption DEF Typed, RequestType
<1>1. request' \in [Hosts -> RequestType]
  <2>1. CASE \E a \in {"granted", "busy"} : request' = [request EXCEPT ![h].at = a]
    BY <1>0, <2>1 DEF RequestType
  <2>2. CASE request' = [request EXCEPT ![h] = NoRequest]
    BY <1>0, <2>2, Values
  <2>3. CASE \E ttl \in Ttls : request' = [request EXCEPT ![h] = [at |-> "sent", ttl |-> ttl, age |-> 0]]
    BY <1>0, <2>3, Bounds DEF RequestType
  <2>4. CASE request' = request
    BY <1>0, <2>4
  <2> QED BY <2>1, <2>2, <2>3, <2>4
       DEF HostStep, LockerStep, WatchdogStep, Start, RequestStop, Attempt, AfterSplit, NextRound, WatchdogFinished,
           Finish, Unlock, Granted, Busy, CallFails, StartWorker, Check, WaitEnds, CancelWorker, WorkerEnds,
           Serve, ServeStray, Crash
<1>2. stray' \in [Hosts -> Ttls \cup {NoStray}]
  <2>1. CASE \E s \in Ttls \cup {NoStray} : stray' = [stray EXCEPT ![h] = s]
    BY <1>0, <2>1
  <2>2. CASE stray' = stray
    BY <1>0, <2>2
  <2> QED BY <1>0, <2>1, <2>2
       DEF HostStep, LockerStep, WatchdogStep, Start, RequestStop, Attempt, AfterSplit, NextRound, WatchdogFinished,
           Finish, Unlock, Granted, Busy, CallFails, StartWorker, Check, WaitEnds, CancelWorker, WorkerEnds,
           Serve, ServeStray, Crash
<1>3. worker' \in [Hosts -> WorkerType]
  <2>1. CASE worker' = [worker EXCEPT ![h] = NoWorker]
    BY <1>0, <2>1, Values
  <2>2. CASE worker' = [worker EXCEPT ![h].at = "cancelled"]
    BY <1>0, <2>2 DEF WorkerType
  <2>3. CASE StartWorker(h)
    BY <1>0, <2>3 DEF StartWorker, NoWorker, WorkerType
  <2>4. CASE WorkerEnds(h)
    BY <1>0, <2>4 DEF WorkerEnds, WorkerType
  <2>5. CASE worker' = worker
    BY <1>0, <2>5
  <2> QED BY <2>1, <2>2, <2>3, <2>4, <2>5
       DEF HostStep, LockerStep, WatchdogStep, Start, RequestStop, Attempt, AfterSplit, NextRound, WatchdogFinished,
           Finish, Unlock, Granted, Busy, CallFails, Check, WaitEnds, CancelWorker, Serve, ServeStray, Crash
<1>4. crashes' \in 0 .. MaxCrashes
  <2>1. CASE Crash(h)
    BY <1>0, <2>1 DEF Crash
  <2>2. CASE crashes' = crashes
    BY <1>0, <2>2
  <2> QED BY <2>1, <2>2
       DEF HostStep, LockerStep, WatchdogStep, Start, RequestStop, Attempt, AfterSplit, NextRound, WatchdogFinished,
           Finish, Unlock, Granted, Busy, CallFails, StartWorker, Check, WaitEnds, CancelWorker, WorkerEnds,
           Serve, ServeStray
<1> QED BY <1>1, <1>2, <1>3, <1>4

\* and the watchdog.
LEMMA WatchdogTyped ==
  ASSUME Typed, NEW h \in Hosts, HostStep(h)
  PROVE  watchdog' \in [Hosts -> WatchdogType]
<1>0. watchdog \in [Hosts -> WatchdogType]
  BY DEF Typed
<1>1. CASE watchdog' = [watchdog EXCEPT ![h] = NoWatchdog]
  BY <1>0, <1>1, Values
<1>2. CASE watchdog' = [watchdog EXCEPT ![h] = [NoWatchdog EXCEPT !.at = "start"]]
  <2>0. \A d \in WatchdogType : [d EXCEPT !.at = "start"] \in WatchdogType
    BY DEF WatchdogType
  <2>1. [NoWatchdog EXCEPT !.at = "start"] \in WatchdogType
    BY <2>0, Values
  <2> QED BY <1>0, <1>2, <2>1
<1>3. CASE \E b \in BOOLEAN : watchdog' = [watchdog EXCEPT ![h].cancelled = b]
  BY <1>0, <1>3 DEF WatchdogType
<1>4. CASE \E a \in {"check", "join"} : watchdog' = [watchdog EXCEPT ![h].at = a]
  BY <1>0, <1>4 DEF WatchdogType
<1>5. CASE \/ watchdog' = [watchdog EXCEPT ![h].at = "wait", ![h].timer = Margin \div 2]
           \/ watchdog' = [watchdog EXCEPT ![h].at = "check", ![h].timer = 0]
  <2>1. Margin \div 2 \in 0 .. Margin /\ 0 \in 0 .. Margin
    BY Bounds
  <2> QED BY <1>0, <1>5, <2>1 DEF WatchdogType
<1>6. CASE watchdog' = [watchdog EXCEPT ![h].at = "done", ![h].ok = worker[h].ok]
  <2>1. worker[h].ok \in BOOLEAN
    BY DEF Typed, WorkerType
  <2> QED BY <1>0, <1>6, <2>1 DEF WatchdogType
<1>7. CASE watchdog' = watchdog
  BY <1>0, <1>7
<1>8. CASE AfterSplit(h) \/ WatchdogFinished(h) \/ Unlock(h) \/ Crash(h)
  BY <1>1, <1>8 DEF AfterSplit, WatchdogFinished, Unlock, Crash
<1>9. CASE Granted(h)
  BY <1>2, <1>7, <1>9 DEF Granted
<1>10. CASE Busy(h) \/ Finish(h)
  <2>1. (watchdog[h].at # "none") \in BOOLEAN
    OBVIOUS
  <2> QED BY <1>3, <1>7, <1>10, <2>1 DEF Busy, Finish
<1>11. CASE WatchdogStep(h)
  BY <1>4, <1>5, <1>6, <1>7, <1>11 DEF WatchdogStep, StartWorker, Check, WaitEnds, CancelWorker
<1> QED BY <1>7, <1>8, <1>9, <1>10, <1>11
     DEF HostStep, LockerStep, Start, RequestStop, Attempt, NextRound, CallFails, WorkerEnds, Serve, ServeStray

\* Time keeps the types.
LEMMA TickTyped ==
  ASSUME Typed, Tick
  PROVE  Typed'
<1>1. lease' \in LeaseType
  <2>1. lease' = [lease EXCEPT !.left = IF lease.left > 0 THEN lease.left - 1 ELSE 0]
    BY DEF Tick
  <2>2. (IF lease.left > 0 THEN lease.left - 1 ELSE 0) \in 0 .. High
    BY Bounds DEF Typed, LeaseType
  <2> QED BY <2>1, <2>2 DEF Typed, LeaseType
<1>2. locker' \in [Hosts -> LockerType]
  <2> SUFFICES ASSUME NEW h \in Hosts PROVE locker'[h] \in LockerType
    BY DEF Tick
  <2>1. PICK a \in 0 .. MaxAge : locker'[h] = [locker[h] EXCEPT !.age = a]
    <3>1. locker[h].age \in 0 .. MaxAge
      BY DEF Typed, LockerType
    <3>2. Older(locker[h].age) \in 0 .. MaxAge
      BY <3>1, OlderType
    <3> QED BY <3>1, <3>2 DEF Tick
  <2> QED BY <2>1 DEF Typed, LockerType
<1>3. request' \in [Hosts -> RequestType]
  <2> SUFFICES ASSUME NEW h \in Hosts PROVE request'[h] \in RequestType
    BY DEF Tick
  <2>1. CASE request'[h] = request[h]
    BY <2>1 DEF Typed
  <2>2. CASE request'[h] = [request[h] EXCEPT !.age = Older(request[h].age)]
    <3>1. request[h].age \in 0 .. MaxAge
      BY DEF Typed, RequestType
    <3>2. Older(request[h].age) \in 0 .. MaxAge
      BY <3>1, OlderType
    <3> QED BY <2>2, <3>2 DEF Typed, RequestType
  <2> QED BY <2>1, <2>2 DEF Tick
<1>4. watchdog' \in [Hosts -> WatchdogType]
  <2> SUFFICES ASSUME NEW h \in Hosts PROVE watchdog'[h] \in WatchdogType
    BY DEF Tick
  <2>1. PICK a \in 0 .. Margin : watchdog'[h] = [watchdog[h] EXCEPT !.timer = a]
    <3>1. (IF watchdog[h].timer > 0 THEN watchdog[h].timer - 1 ELSE 0) \in 0 .. Margin
      BY Bounds DEF Typed, WatchdogType
    <3> QED BY <3>1 DEF Tick
  <2> QED BY <2>1 DEF Typed, WatchdogType
<1> QED BY <1>1, <1>2, <1>3, <1>4 DEF Typed, Tick

\* A set-up system has its types.
LEMMA InitTyped == Init => Typed
BY Values, DistLockAssumption DEF Init, Typed

\* So every step does.
LEMMA NextTyped == Typed /\ [Next]_vars => Typed'
<1> SUFFICES ASSUME Typed, [Next]_vars PROVE Typed' OBVIOUS
<1>1. CASE Tick
  BY <1>1, TickTyped
<1>2. ASSUME NEW h \in Hosts, HostStep(h) PROVE Typed'
  BY <1>2, LeaseTyped, LockerTyped, RequestTyped, WatchdogTyped DEF Typed
<1>3. CASE UNCHANGED vars
  BY <1>3 DEF Typed, vars
<1> QED BY <1>1, <1>2, <1>3 DEF Next, HostStep

----------------------------------------------------------------------------
(* Time *)

\* The clocks of host h and the lease are what the arithmetic needs.
Ages(h) ==
  /\ locker[h].age \in 0 .. MaxAge /\ request[h].age \in 0 .. MaxAge /\ watchdog[h].timer \in Nat
  /\ lease.left \in Nat /\ lease.owner \in Hosts \cup {Nobody, Dead} /\ locker[h].isLocked \in BOOLEAN

\* Every host has them.
LEMMA AgesTyped == ASSUME Typed, NEW h \in Hosts PROVE Ages(h)
<1>1. locker[h] \in LockerType /\ request[h] \in RequestType /\ watchdog[h] \in WatchdogType /\ lease \in LeaseType
  BY DEF Typed
<1>2. locker[h].age \in 0 .. MaxAge /\ locker[h].isLocked \in BOOLEAN
  BY <1>1 DEF LockerType
<1>3. request[h].age \in 0 .. MaxAge
  BY <1>1 DEF RequestType
<1>4. watchdog[h].timer \in Nat
  BY <1>1, Bounds DEF WatchdogType
<1>5. lease.left \in Nat /\ lease.owner \in Hosts \cup {Nobody, Dead}
  BY <1>1, Bounds DEF LeaseType
<1> QED BY <1>2, <1>3, <1>4, <1>5 DEF Ages

\* Who has been granted the lease, or works under it, still has it.
LEMMA Held ==
  ASSUME Timely, DistInv, NEW h \in Hosts, request[h].at = "granted" \/ Active(h)
  PROVE  lease.owner = h /\ lease.left > 0
<1>1. Ages(h) /\ HostOk(h)
  BY AgesTyped, TypedIsTypeOK DEF DistInv
<1>2. CASE request[h].at = "granted"
  BY <1>1, <1>2, Bounds DEF HostOk, LeaseOk, AgeOk, Ages, Timely
<1>3. CASE Active(h)
  <2>1. locker[h].age < Low
    BY <1>1, <1>3, Bounds DEF HostOk, AgeOk, Active, Ages, Timely
  <2> QED BY <1>1, <1>3, <2>1, Bounds DEF HostOk, LeaseOk, Ages
<1> QED BY <1>2, <1>3

\* Time passes: what is left of a lease shrinks no faster than its age grows, and
\* what is due is done before.
LEMMA TickKeeps ==
  ASSUME Timely, DistInv, Tick, NEW h \in Hosts
  PROVE  HostOk(h)'
<1>1. Ages(h) /\ HostOk(h) /\ ~Due(h)
  BY AgesTyped, TypedIsTypeOK DEF DistInv, Tick
<1>2. /\ lease'.owner = lease.owner /\ lease'.left = (IF lease.left > 0 THEN lease.left - 1 ELSE 0)
      /\ worker' = worker
  BY TypedIsTypeOK DEF Tick, DistInv, Typed, LeaseType
<1>3. /\ locker'[h].pc = locker[h].pc /\ locker'[h].isLocked = locker[h].isLocked
      /\ locker'[h].age = IF locker[h].isLocked THEN Older(locker[h].age) ELSE locker[h].age
  <2>1. locker[h] \in LockerType
    BY TypedIsTypeOK DEF DistInv, Typed
  <2>2. locker'[h] = [locker[h] EXCEPT !.age = IF locker[h].isLocked THEN Older(locker[h].age) ELSE locker[h].age]
    BY DEF Tick
  <2> QED BY <2>1, <2>2 DEF LockerType
<1>4. /\ request'[h].at = request[h].at
      /\ request[h].at # "none" => request'[h].age = Older(request[h].age)
  <2>1. request[h] \in RequestType
    BY TypedIsTypeOK DEF DistInv, Typed
  <2>2. request'[h] = IF request[h].at = "none" THEN request[h]
                      ELSE [request[h] EXCEPT !.age = Older(request[h].age)]
    BY DEF Tick
  <2> QED BY <2>1, <2>2 DEF RequestType
<1>5. /\ watchdog'[h].at = watchdog[h].at
      /\ watchdog'[h].timer = (IF watchdog[h].timer > 0 THEN watchdog[h].timer - 1 ELSE 0)
  <2>1. watchdog[h] \in WatchdogType
    BY TypedIsTypeOK DEF DistInv, Typed
  <2>2. watchdog'[h] = [watchdog[h] EXCEPT !.timer = IF watchdog[h].timer > 0 THEN watchdog[h].timer - 1 ELSE 0]
    BY DEF Tick
  <2> QED BY <2>1, <2>2 DEF WatchdogType
<1>6. OrderOk(h)'
  BY <1>1, <1>2, <1>3, <1>4, <1>5 DEF HostOk, OrderOk
<1>7. Active(h)' <=> watchdog[h].at = "wait" /\ watchdog[h].timer > 0
  <2>1. watchdog[h].at \notin {"start", "check", "join"}
    BY <1>1 DEF Due
  <2>2. watchdog[h].at = "wait" => watchdog[h].timer > 0
    BY <1>1 DEF Due, Ages
  <2> QED BY <1>5, <2>1, <2>2 DEF Active
<1>8. ASSUME NEW a \in 0 .. MaxAge, lease.left + a >= Low
      PROVE  lease'.left + Older(a) >= Low
  BY <1>1, <1>2, <1>8, OlderType, Bounds DEF Ages
<1>9. LeaseOk(h)'
  <2>1. ASSUME request'[h].at = "granted" PROVE lease'.owner = h /\ lease'.left + request'[h].age >= Low
    BY <1>1, <1>2, <1>4, <1>8, <2>1 DEF HostOk, LeaseOk, Ages
  <2>2. ASSUME Active(h)' PROVE lease'.owner = h /\ lease'.left + locker'[h].age >= Low
    BY <1>1, <1>2, <1>3, <1>7, <1>8, <2>2 DEF HostOk, LeaseOk, Ages, Active, OrderOk
  <2> QED BY <2>1, <2>2 DEF LeaseOk
<1>10. AgeOk(h)'
  <2>1. ASSUME request'[h].at # "none"
        PROVE  request'[h].age <= MaxAnswer /\ (locker'[h].isLocked => request'[h].age <= locker'[h].age)
    <3>1. locker[h].pc = "call" /\ request[h].age <= MaxAnswer /\ request[h].age # MaxAnswer
      BY <1>1, <1>4, <2>1 DEF HostOk, OrderOk, AgeOk, Due
    <3>2. request'[h].age <= MaxAnswer
      BY <1>1, <1>4, <2>1, <3>1, OlderType, Bounds DEF Ages
    <3>3. locker[h].isLocked => request[h].age <= locker[h].age
      BY <1>1, <1>4, <2>1 DEF HostOk, AgeOk
    <3>4. locker[h].isLocked => request'[h].age <= locker'[h].age
      BY <1>1, <1>3, <1>4, <2>1, <3>3, Bounds DEF Ages, Older
    <3> QED BY <1>3, <3>2, <3>4
  <2>2. ASSUME watchdog'[h].at = "wait"
        PROVE  locker'[h].age + watchdog'[h].timer <= Reach
    <3>1. locker[h].isLocked /\ watchdog[h].timer > 0 /\ locker[h].age + watchdog[h].timer <= Reach
      BY <1>1, <1>5, <2>2 DEF HostOk, OrderOk, AgeOk, Due, Ages
    <3> QED BY <1>1, <1>3, <1>5, <3>1, OlderType, Bounds DEF Ages
  <2>3. watchdog'[h].at \notin {"start", "check", "join"}
    BY <1>1, <1>5 DEF Due
  <2> QED BY <2>1, <2>2, <2>3 DEF AgeOk
<1> QED BY <1>6, <1>9, <1>10 DEF HostOk

----------------------------------------------------------------------------
(* Steps of a host *)

\* A step of another host leaves this one alone: nobody takes a lease that is held.
LEMMA OthersKeep ==
  ASSUME Timely, DistInv, NEW h \in Hosts, NEW g \in Hosts, g # h,
         locker'[g] = locker[g], request'[g] = request[g], watchdog'[g] = watchdog[g], worker'[g] = worker[g],
         lease' = lease \/ lease.owner = h \/ Grants(h)
  PROVE  HostOk(g)'
<1>1. HostOk(g)
  BY DEF DistInv
<1>2. request[g].at = "granted" \/ Active(g) => lease' = lease
  BY Held, DistLockAssumption DEF Grants
<1>3. OrderOk(g)' /\ AgeOk(g)'
  BY <1>1 DEF HostOk, OrderOk, AgeOk
<1>4. LeaseOk(g)'
  BY <1>1, <1>2 DEF HostOk, LeaseOk, Active
<1> QED BY <1>3, <1>4 DEF HostOk

\* What a step of h may touch.
LEMMA OnlyItsOwn ==
  ASSUME TypeOK, NEW h \in Hosts, HostStep(h)
  PROVE  /\ \A g \in Hosts \ {h} : /\ locker'[g] = locker[g] /\ request'[g] = request[g]
                                   /\ watchdog'[g] = watchdog[g] /\ worker'[g] = worker[g]
         /\ lease' = lease \/ lease.owner = h \/ Grants(h)
<1>0. /\ locker \in [Hosts -> LockerType] /\ request \in [Hosts -> RequestType]
      /\ watchdog \in [Hosts -> WatchdogType] /\ worker \in [Hosts -> WorkerType]
  BY TypedIsTypeOK DEF Typed
<1>1. ASSUME NEW g \in Hosts \ {h}
      PROVE  locker'[g] = locker[g] /\ request'[g] = request[g]
  BY <1>0 DEF HostStep, LockerStep, WatchdogStep, Start, RequestStop, Attempt, AfterSplit, NextRound,
       WatchdogFinished, Finish, Unlock, Granted, Busy, CallFails, StartWorker, Check, WaitEnds, CancelWorker,
       WorkerEnds, Serve, ServeStray, Crash
<1>2. ASSUME NEW g \in Hosts \ {h}
      PROVE  watchdog'[g] = watchdog[g] /\ worker'[g] = worker[g]
  BY <1>0 DEF HostStep, LockerStep, WatchdogStep, Start, RequestStop, Attempt, AfterSplit, NextRound,
       WatchdogFinished, Finish, Unlock, Granted, Busy, CallFails, StartWorker, Check, WaitEnds, CancelWorker,
       WorkerEnds, Serve, ServeStray, Crash
<1>3. lease' = lease \/ lease.owner = h \/ Grants(h)
  BY DEF HostStep, LockerStep, WatchdogStep, Start, RequestStop, Attempt, AfterSplit, NextRound,
       WatchdogFinished, Finish, Unlock, Granted, Busy, CallFails, StartWorker, Check, WaitEnds, CancelWorker,
       WorkerEnds, Serve, ServeStray, Crash, ReleaseLease
<1> QED BY <1>1, <1>2, <1>3

\* Start(), Stop(), the database and a crash.
LEMMA ServiceKeeps ==
  ASSUME Timely, DistInv, NEW h \in Hosts,
         Start(h) \/ RequestStop(h) \/ Serve(h) \/ ServeStray(h) \/ Crash(h)
  PROVE  HostOk(h)'
<1>0. /\ locker \in [Hosts -> LockerType] /\ request \in [Hosts -> RequestType]
      /\ watchdog \in [Hosts -> WatchdogType] /\ worker \in [Hosts -> WorkerType]
      /\ stray \in [Hosts -> Ttls \cup {NoStray}] /\ Ages(h) /\ HostOk(h)
  BY TypedIsTypeOK, AgesTyped DEF Typed, DistInv
<1>1. CASE Start(h)
  <2>1. /\ locker'[h].pc = "loop" /\ ~locker'[h].isLocked /\ locker[h].pc = "stopped"
        /\ UNCHANGED <<lease, request, watchdog, worker>>
    BY <1>0, <1>1 DEF Start, Stopped
  <2> QED BY <1>0, <2>1 DEF HostOk, OrderOk, LeaseOk, AgeOk, Active
<1>2. CASE RequestStop(h)
  <2>1. /\ locker'[h].pc = locker[h].pc /\ locker'[h].isLocked = locker[h].isLocked /\ locker'[h].age = locker[h].age
        /\ UNCHANGED <<lease, request, watchdog, worker>>
    BY <1>0, <1>2 DEF RequestStop, LockerType
  <2> QED BY <1>0, <2>1 DEF HostOk, OrderOk, LeaseOk, AgeOk, Active
<1>3. CASE Serve(h)
  <2>1. /\ UNCHANGED <<locker, watchdog, worker>> /\ request[h].at = "sent"
        /\ request'[h].at \in {"granted", "busy"} /\ request'[h].age = request[h].age
        /\ \/ lease' = lease /\ request'[h].at = "busy"
           \/ lease' = [owner |-> h, left |-> request[h].ttl]
    BY <1>0, <1>3 DEF Serve, RequestType
  <2>2. request[h].ttl \in Nat /\ request[h].ttl >= Low
    BY <1>0, Bounds DEF RequestType
  <2>3. lease' # lease => lease'.owner = h /\ lease'.left = request[h].ttl
    BY <2>1
  <2>4. OrderOk(h)' /\ AgeOk(h)'
    BY <1>0, <2>1 DEF HostOk, OrderOk, AgeOk
  <2>5. LeaseOk(h)'
    <3>1. CASE lease' = lease /\ request'[h].at = "busy"
      BY <1>0, <2>1, <3>1 DEF HostOk, LeaseOk, Active
    <3>2. CASE lease'.owner = h /\ lease'.left = request[h].ttl
      BY <1>0, <2>1, <2>2, <3>2, Bounds DEF LeaseOk, Ages
    <3> QED BY <2>1, <3>1, <3>2
  <2> QED BY <2>4, <2>5 DEF HostOk
<1>4. CASE ServeStray(h)
  <2>1. UNCHANGED <<locker, request, watchdog, worker>>
    BY <1>4 DEF ServeStray
  <2>0. PICK ttl \in Ttls : lease'.owner = h /\ lease'.left = ttl
    BY <1>0, <1>4 DEF ServeStray
  <2>2. OrderOk(h)' /\ AgeOk(h)'
    BY <1>0, <2>1 DEF HostOk, OrderOk, AgeOk
  <2>3. LeaseOk(h)'
    BY <1>0, <2>0, <2>1, Bounds DEF LeaseOk, Ages
  <2> QED BY <2>2, <2>3 DEF HostOk
<1>5. CASE Crash(h)
  <2>1. /\ locker'[h] = Stopped /\ request'[h] = NoRequest /\ watchdog'[h] = NoWatchdog /\ worker'[h] = NoWorker
    BY <1>0, <1>5 DEF Crash
  <2> QED BY <2>1 DEF HostOk, OrderOk, LeaseOk, AgeOk, Active, Stopped, NoRequest, NoWatchdog, NoWorker
<1> QED BY <1>1, <1>2, <1>3, <1>4, <1>5

\* The watchdog and the worker.
LEMMA WatchdogKeeps ==
  ASSUME Timely, DistInv, NEW h \in Hosts, WatchdogStep(h) \/ WorkerEnds(h)
  PROVE  HostOk(h)'
<1>0. /\ watchdog \in [Hosts -> WatchdogType] /\ worker \in [Hosts -> WorkerType] /\ Ages(h) /\ HostOk(h)
  BY TypedIsTypeOK, AgesTyped DEF Typed, DistInv
<1>u. UNCHANGED <<lease, locker, request>>
  BY DEF WatchdogStep, StartWorker, Check, WaitEnds, CancelWorker, WorkerEnds
<1>1. CASE StartWorker(h)
  <2>1. watchdog[h].at = "start" /\ watchdog'[h].at = "check" /\ watchdog'[h].timer = watchdog[h].timer
    BY <1>0, <1>1 DEF StartWorker, WatchdogType
  <2> QED BY <1>0, <1>u, <2>1 DEF HostOk, OrderOk, LeaseOk, AgeOk, Active
<1>2. CASE Check(h)
  <2>1. PICK ttl \in Ttls :
          watchdog' = IF watchdog[h].cancelled \/ worker[h].at = "ended" \/ FailedToProlong(h, ttl)
                      THEN [watchdog EXCEPT ![h].at = "join"]
                      ELSE [watchdog EXCEPT ![h].at = "wait", ![h].timer = Margin \div 2]
    BY <1>2 DEF Check
  <2>2. watchdog[h].at = "check" /\ worker' = worker
    BY <1>2 DEF Check
  <2>3. CASE watchdog' = [watchdog EXCEPT ![h].at = "join"]
    <3>1. watchdog'[h].at = "join"
      BY <1>0, <2>3 DEF WatchdogType
    <3> QED BY <1>0, <1>u, <2>2, <3>1 DEF HostOk, OrderOk, LeaseOk, AgeOk, Active
  <2>4. CASE /\ ~FailedToProlong(h, ttl)
             /\ watchdog' = [watchdog EXCEPT ![h].at = "wait", ![h].timer = Margin \div 2]
    <3>1. watchdog'[h].at = "wait" /\ watchdog'[h].timer = Margin \div 2
      BY <1>0, <2>4 DEF WatchdogType
    <3>2. locker[h].age + Margin \div 2 <= Reach
      BY <1>0, <2>4, Bounds DEF FailedToProlong, Reach, Ages
    <3> QED BY <1>0, <1>u, <2>2, <3>1, <3>2 DEF HostOk, OrderOk, LeaseOk, AgeOk, Active
  <2> QED BY <2>1, <2>3, <2>4
<1>3. CASE WaitEnds(h)
  <2>1. watchdog[h].at = "wait" /\ watchdog'[h].at = "check" /\ worker' = worker
    BY <1>0, <1>3 DEF WaitEnds, WatchdogType
  <2>2. locker[h].age <= Reach
    BY <1>0, <2>1, Bounds DEF HostOk, AgeOk, Ages
  <2> QED BY <1>0, <1>u, <2>1, <2>2 DEF HostOk, OrderOk, LeaseOk, AgeOk, Active
<1>4. CASE CancelWorker(h)
  <2>1. CASE worker' = [worker EXCEPT ![h].at = "cancelled"] /\ UNCHANGED watchdog
    <3>1. watchdog[h].at = "join"
      BY <1>4 DEF CancelWorker
    <3> QED BY <1>0, <1>u, <2>1, <3>1 DEF HostOk, OrderOk, LeaseOk, AgeOk, Active
  <2>2. CASE /\ watchdog' = [watchdog EXCEPT ![h].at = "done", ![h].ok = worker[h].ok]
             /\ worker' = [worker EXCEPT ![h] = NoWorker]
    <3>1. watchdog'[h].at = "done" /\ worker'[h].at = "none" /\ watchdog[h].at = "join"
      BY <1>0, <1>4, <2>2 DEF CancelWorker, WatchdogType, NoWorker
    <3> QED BY <1>0, <1>u, <3>1 DEF HostOk, OrderOk, LeaseOk, AgeOk, Active
  <2> QED BY <1>4, <2>1, <2>2 DEF CancelWorker
<1>5. CASE WorkerEnds(h)
  <2>1. UNCHANGED watchdog /\ worker[h].at # "none"
    BY <1>5 DEF WorkerEnds
  <2> QED BY <1>0, <1>u, <2>1 DEF HostOk, OrderOk, LeaseOk, AgeOk, Active
<1> QED BY <1>1, <1>2, <1>3, <1>4, <1>5 DEF WatchdogStep

\* Run(): the loop, the answers and the end.
LEMMA LockerKeeps ==
  ASSUME Timely, DistInv, NEW h \in Hosts, LockerStep(h) \/ Granted(h) \/ Busy(h) \/ CallFails(h)
  PROVE  HostOk(h)'
<1>0. /\ locker \in [Hosts -> LockerType] /\ request \in [Hosts -> RequestType]
      /\ watchdog \in [Hosts -> WatchdogType] /\ worker \in [Hosts -> WorkerType] /\ Ages(h) /\ HostOk(h)
  BY TypedIsTypeOK, AgesTyped DEF Typed, DistInv
<1>u. UNCHANGED worker
  BY DEF LockerStep, Attempt, AfterSplit, NextRound, WatchdogFinished, Finish, Unlock, Granted, Busy, CallFails
<1>p. ASSUME NEW p \in LockerPcs, locker' = [locker EXCEPT ![h].pc = p]
      PROVE  locker'[h].pc = p /\ locker'[h].isLocked = locker[h].isLocked /\ locker'[h].age = locker[h].age
  BY <1>0, <1>p DEF LockerType
<1>x. ASSUME NEW p \in LockerPcs, NEW b \in BOOLEAN, NEW a,
             locker' = [locker EXCEPT ![h] = [ExchangeLockState(h, b, a) EXCEPT !.pc = p]]
      PROVE  locker'[h].pc = p /\ locker'[h].isLocked = b /\ locker'[h].age = a
  BY <1>0, <1>x DEF LockerType, ExchangeLockState
<1>a. \A p \in {"finish", "delay"} : p \in LockerPcs /\ p # "call" /\ p # "stopped"
  BY DEF LockerPcs
<1>b. AfterCall(h) \in {"finish", "delay"}
  BY DEF AfterCall
<1>1. CASE Attempt(h)
  <2>1. UNCHANGED <<lease, watchdog>> /\ locker[h].pc = "loop"
    BY <1>1 DEF Attempt
  <2>2. CASE /\ \E ttl \in Ttls : request' = [request EXCEPT ![h] = [at |-> "sent", ttl |-> ttl, age |-> 0]]
             /\ locker' = [locker EXCEPT ![h].pc = "call"]
    <3>1. request'[h].at = "sent" /\ request'[h].age = 0
      BY <1>0, <2>2
    <3>2. locker'[h].pc = "call" /\ locker'[h].isLocked = locker[h].isLocked /\ locker'[h].age = locker[h].age
      BY <1>p, <2>2 DEF LockerPcs
    <3> QED BY <1>0, <1>u, <2>1, <3>1, <3>2, Bounds DEF HostOk, OrderOk, LeaseOk, AgeOk, Active, Ages
  <2>3. CASE UNCHANGED request /\ \E p \in {"finish", "delay"} : locker' = [locker EXCEPT ![h].pc = p]
    <3>1. /\ locker'[h].pc \in {"finish", "delay"} /\ locker'[h].isLocked = locker[h].isLocked
          /\ locker'[h].age = locker[h].age
      BY <1>a, <1>p, <2>3
    <3> QED BY <1>0, <1>u, <2>1, <2>3, <3>1 DEF HostOk, OrderOk, LeaseOk, AgeOk, Active
  <2> QED BY <1>1, <2>2, <2>3 DEF Attempt
<1>2. CASE AfterSplit(h)
  <2>1. /\ locker[h].pc = "split" /\ watchdog[h].at \in {"none", "done"} /\ watchdog'[h].at = "none"
        /\ UNCHANGED <<lease, request>>
    BY <1>0, <1>2 DEF AfterSplit, NoWatchdog
  <2>2. locker'[h].pc \in {"finish", "delay"} /\ ~locker'[h].isLocked
    BY <1>2, <1>a, <1>b, <1>x DEF AfterSplit
  <2> QED BY <1>0, <1>u, <2>1, <2>2 DEF HostOk, OrderOk, LeaseOk, AgeOk, Active
<1>3. CASE NextRound(h)
  <2>1. locker'[h].pc = "loop" /\ locker'[h].isLocked = locker[h].isLocked /\ locker'[h].age = locker[h].age
    BY <1>3, <1>p DEF NextRound, LockerPcs
  <2> QED BY <1>0, <1>3, <2>1 DEF NextRound, HostOk, OrderOk, LeaseOk, AgeOk, Active
<1>4. CASE WatchdogFinished(h)
  <2>1. /\ locker[h].pc = "delay" /\ watchdog[h].at = "done" /\ watchdog'[h].at = "none" /\ UNCHANGED request
    BY <1>0, <1>4 DEF WatchdogFinished, NoWatchdog
  <2>2. locker'[h].pc \in {"finish", "loop"}
    <3>1. CASE \E p \in {"finish", "loop"} :
                 locker' = [locker EXCEPT ![h] = [ExchangeLockState(h, FALSE, 0) EXCEPT !.pc = p]]
      BY <1>x, <3>1 DEF LockerPcs
    <3>2. CASE locker' = [locker EXCEPT ![h].succeeded = TRUE, ![h].pc = "loop"]
      BY <1>0, <3>2 DEF LockerType
    <3> QED BY <1>4, <3>1, <3>2 DEF WatchdogFinished
  <2> QED BY <1>0, <1>u, <2>1, <2>2 DEF HostOk, OrderOk, LeaseOk, AgeOk, Active
<1>5. CASE Finish(h)
  <2>1. locker'[h].pc = "join" /\ locker'[h].isLocked = locker[h].isLocked /\ locker'[h].age = locker[h].age
    BY <1>5, <1>p DEF Finish, LockerPcs
  <2>2. watchdog'[h].at = watchdog[h].at /\ watchdog'[h].timer = watchdog[h].timer
    BY <1>0, <1>5 DEF Finish, WatchdogType
  <2> QED BY <1>0, <1>5, <2>1, <2>2 DEF Finish, HostOk, OrderOk, LeaseOk, AgeOk, Active
<1>6. CASE Unlock(h)
  <2>1. /\ locker[h].pc = "join" /\ watchdog[h].at \in {"none", "done"} /\ watchdog'[h].at = "none"
        /\ locker'[h].pc = "stopped" /\ ~locker'[h].isLocked /\ UNCHANGED request
    BY <1>0, <1>6 DEF Unlock, NoWatchdog, Stopped
  <2> QED BY <1>0, <1>u, <2>1 DEF HostOk, OrderOk, LeaseOk, AgeOk, Active
<1>7. CASE Granted(h)
  <2>1. /\ locker[h].pc = "call" /\ request[h].at = "granted" /\ request'[h].at = "none" /\ UNCHANGED lease
    BY <1>0, <1>7 DEF Granted, NoRequest
  <2>2. locker'[h].pc \in {"finish", "delay"} /\ locker'[h].isLocked /\ locker'[h].age = request[h].age
    BY <1>7, <1>a, <1>b, <1>x DEF Granted
  <2>3. CASE locker[h].isLocked /\ UNCHANGED watchdog
    <3>1. request[h].age <= locker[h].age
      BY <1>0, <2>1, <2>3 DEF HostOk, AgeOk
    <3>2. AgeOk(h)'
      BY <1>0, <2>1, <2>2, <2>3, <3>1, Bounds DEF HostOk, AgeOk, Ages
    <3> QED BY <1>0, <1>u, <2>1, <2>2, <2>3, <3>2 DEF HostOk, OrderOk, LeaseOk, Active
  <2>4. CASE ~locker[h].isLocked /\ watchdog'[h].at = "start"
    BY <1>0, <1>u, <2>1, <2>2, <2>4 DEF HostOk, OrderOk, LeaseOk, AgeOk, Active
  <2>5. [NoWatchdog EXCEPT !.at = "start"].at = "start"
    BY DEF NoWatchdog
  <2> QED BY <1>0, <1>7, <2>3, <2>4, <2>5 DEF Granted
<1>8. CASE Busy(h)
  <2>1. /\ locker[h].pc = "call" /\ request'[h].at = "none" /\ UNCHANGED lease
    BY <1>0, <1>8 DEF Busy, NoRequest
  <2>2. /\ locker'[h].pc \in {"split", "finish", "delay"} /\ locker'[h].isLocked = locker[h].isLocked
        /\ locker'[h].age = locker[h].age
    BY <1>8, <1>b, <1>p DEF Busy, LockerPcs
  <2>3. watchdog'[h].at = watchdog[h].at /\ watchdog'[h].timer = watchdog[h].timer
    BY <1>0, <1>8 DEF Busy, WatchdogType
  <2> QED BY <1>0, <1>u, <2>1, <2>2, <2>3 DEF HostOk, OrderOk, LeaseOk, AgeOk, Active
<1>9. CASE CallFails(h)
  <2>1. /\ locker[h].pc = "call" /\ request'[h].at = "none" /\ UNCHANGED <<lease, watchdog>>
    BY <1>0, <1>9 DEF CallFails, NoRequest
  <2>2. /\ locker'[h].pc \in {"finish", "delay"} /\ locker'[h].isLocked = locker[h].isLocked
        /\ locker'[h].age = locker[h].age
    BY <1>9, <1>a, <1>b, <1>p DEF CallFails
  <2> QED BY <1>0, <1>u, <2>1, <2>2 DEF HostOk, OrderOk, LeaseOk, AgeOk, Active
<1> QED BY <1>1, <1>2, <1>3, <1>4, <1>5, <1>6, <1>7, <1>8, <1>9 DEF LockerStep

----------------------------------------------------------------------------
(* The theorems *)

\* Before anyone starts there is nothing to guard.
LEMMA InitDist == Init => DistInv
<1> SUFFICES ASSUME Init PROVE DistInv OBVIOUS
<1>1. TypeOK
  BY InitTyped, TypedIsTypeOK
<1>2. ASSUME NEW h \in Hosts PROVE HostOk(h)
  <2>1. locker[h] = Stopped /\ request[h] = NoRequest /\ watchdog[h] = NoWatchdog /\ worker[h] = NoWorker
    BY DEF Init
  <2> QED BY <2>1 DEF HostOk, OrderOk, LeaseOk, AgeOk, Active, Stopped, NoRequest, NoWatchdog, NoWorker
<1> QED BY <1>1, <1>2 DEF DistInv

\* The invariant is inductive.
LEMMA NextDist == Timely /\ DistInv /\ [Next]_vars => DistInv'
<1> SUFFICES ASSUME Timely, DistInv, [Next]_vars PROVE DistInv' OBVIOUS
<1>1. TypeOK'
  <2>1. Typed'
    BY NextTyped, TypedIsTypeOK DEF DistInv
  <2> QED BY <2>1 DEF TypeOK, Typed, LeaseType, LockerType, LockerPcs, RequestType, WatchdogType, WorkerType
<1>2. ASSUME NEW g \in Hosts PROVE HostOk(g)'
  <2>1. CASE Tick
    BY <2>1, TickKeeps
  <2>2. ASSUME NEW h \in Hosts, HostStep(h) PROVE HostOk(g)'
    <3>1. CASE g = h
      BY <2>2, <3>1, ServiceKeeps, WatchdogKeeps, LockerKeeps DEF HostStep
    <3>2. CASE g # h
      <4>1. TypeOK
        BY DEF DistInv
      <4> QED BY <2>2, <3>2, <4>1, OnlyItsOwn, OthersKeep
    <3> QED BY <3>1, <3>2
  <2>3. CASE UNCHANGED vars
    <3>1. HostOk(g)
      BY DEF DistInv
    <3> QED BY <2>3, <3>1 DEF vars, HostOk, OrderOk, LeaseOk, AgeOk, Active
  <2> QED BY <2>1, <2>2, <2>3 DEF Next, HostStep
<1> QED BY <1>1, <1>2 DEF DistInv

\* The inductive invariant holds in every state.
THEOREM DistInvariant == ASSUME Timely PROVE Spec => []DistInv
<1>1. DistInv /\ [Next]_vars => DistInv'
  BY NextDist
<1> QED BY <1>1, InitDist, PTL DEF Spec

\* Two hosts never do the work at the same time, however many hosts there are and
\* however late or lost the answers of the database.
THEOREM NoSplit == ASSUME Timely PROVE Spec => []NoBrainSplit
<1>1. DistInv => NoBrainSplit
  <2> SUFFICES ASSUME DistInv, NEW h \in Hosts, NEW g \in Hosts, Working(h), Working(g) PROVE h = g
    BY DEF NoBrainSplit
  <2>1. Active(h) /\ Active(g)
    BY DEF DistInv, HostOk, OrderOk, Working, Active
  <2> QED BY <2>1, Held
<1> QED BY <1>1, DistInvariant, PTL

\* The database names the host of a running worker.
THEOREM WorkIsUnderLease == ASSUME Timely PROVE Spec => []WorkUnderLease
<1>1. DistInv => WorkUnderLease
  <2> SUFFICES ASSUME DistInv, NEW h \in Hosts, Working(h) PROVE lease.owner = h
    BY DEF WorkUnderLease
  <2>1. Active(h)
    BY DEF DistInv, HostOk, OrderOk, Working, Active
  <2> QED BY <2>1, Held
<1> QED BY <1>1, DistInvariant, PTL

\* So does its Locker, and Run() has not returned: Stop() promises that when it
\* returns the worker is stopped.
THEOREM WorkerIsOwner == ASSUME Timely PROVE Spec => []WorkerOwnsLock
<1>1. DistInv => WorkerOwnsLock
  BY DEF DistInv, HostOk, OrderOk, Working, WorkerOwnsLock
<1> QED BY <1>1, DistInvariant, PTL

\* A lease that a host gives up was not being worked under.
THEOREM IdleWhenReleased == ASSUME Timely PROVE Spec => ReleasedWhenIdle
<1> DEFINE Idle == \A h \in Hosts : (lease.owner = h /\ lease'.owner = Nobody) => ~Working(h)
<1>1. ASSUME DistInv, Next PROVE Idle
  <2> SUFFICES ASSUME NEW h \in Hosts, lease.owner = h, lease'.owner = Nobody, Working(h) PROVE FALSE
    OBVIOUS
  <2>1. Active(h) /\ watchdog[h].at \notin {"none", "done"} /\ lease.left > 0 /\ Nobody \notin Hosts /\ Nobody # Dead
    BY <1>1, Held, DistLockAssumption DEF DistInv, HostOk, OrderOk, Working, Active
  <2>2. CASE Tick
    <3>1. lease'.owner = lease.owner
      BY <1>1, <2>2, TypedIsTypeOK DEF Tick, DistInv, Typed, LeaseType
    <3> QED BY <2>1, <3>1
  <2>3. ASSUME NEW g \in Hosts, HostStep(g) PROVE FALSE
    <3>1. CASE WatchdogFinished(g) \/ Unlock(g)
      <4>1. g # h
        BY <2>1, <3>1 DEF WatchdogFinished, Unlock
      <4>2. lease' = lease
        BY <3>1, <4>1 DEF WatchdogFinished, Unlock, ReleaseLease
      <4> QED BY <2>1, <4>2
    <3>2. CASE Serve(g)
      <4>1. lease' = lease \/ lease'.owner = g
        BY <3>2 DEF Serve
      <4> QED BY <2>1, <4>1
    <3>3. CASE ServeStray(g)
      <4>1. lease'.owner = g
        BY <3>3 DEF ServeStray
      <4> QED BY <2>1, <4>1
    <3>4. CASE Crash(g)
      <4>1. lease' = lease \/ lease'.owner = Dead
        BY <1>1, <3>4, TypedIsTypeOK DEF Crash, DistInv, Typed, LeaseType
      <4> QED BY <2>1, <4>1
    <3>5. CASE lease' = lease
      BY <2>1, <3>5
    <3> QED BY <2>3, <3>1, <3>2, <3>3, <3>4, <3>5
         DEF HostStep, LockerStep, WatchdogStep, Start, RequestStop, Attempt, AfterSplit, NextRound, Finish,
             Granted, Busy, CallFails, StartWorker, Check, WaitEnds, CancelWorker, WorkerEnds
  <2> QED BY <1>1, <2>2, <2>3 DEF Next, HostStep
<1>2. ASSUME DistInv, [Next]_vars PROVE [Idle]_vars
  BY <1>1, <1>2
<1> QED BY <1>2, DistInvariant, PTL DEF Spec, ReleasedWhenIdle
=============================================================================
