--------------------------- MODULE ConnectionPool ---------------------------
(***************************************************************************)
(* storages::postgres::detail::ConnectionPool. Users pop idle connections      *)
(* from a queue (MpmcQueue) or start a task that makes one; each connection     *)
(* holds a permit of the size semaphore until it is closed in the background.   *)
(* A connection that comes back busy is cleaned up by a detached task, idle     *)
(* ones are pinged or dropped by the maintain task (PeriodicTask), and new      *)
(* connection settings outdate all of them. Connections and tasks are           *)
(* interchangeable but for the version of their settings: bags count them.      *)
(***************************************************************************)
EXTENDS Integers, FiniteSets

CONSTANTS
  Users,
  MinSize, MaxSize,     \* of the pool
  MaxQueueSize,         \* users that may wait
  MaxVersion,           \* bound: changes of the connection settings
  MaxConnects,          \* bound: connection tasks started
  MaxMaintains,         \* bound: runs of the maintain task
  MaxCleaned            \* bound: cleanup tasks about to end at once

kPendingConnectsMax == 1
kIdleDropLimit == 1

PoolAssumption ==
  /\ {MinSize, MaxSize, MaxQueueSize, MaxVersion, MaxConnects, MaxMaintains, MaxCleaned} \subseteq Nat
  /\ IsFiniteSet(Users)
  /\ MinSize <= MaxSize
  /\ MinSize <= MaxConnects

VARIABLES
  version,      \* of conn_settings_
  size,         \* permits taken from size_semaphore_
  used,         \* stats_.connection.used
  waiting,      \* wait_count_
  pending,      \* connect tasks that wait for a permit, by version
  connecting,   \* connect tasks that hold one
  queue,        \* idle connections
  cleanup,      \* connections in a cleanup task
  cleaned,      \* cleanup tasks that still count their connection as used
  closing,      \* connections in a close task: how many
  upc, seen, own,           \* users: where they are, the version they saw, their connection's
  mpc, count, dropLeft, mown,   \* the maintain task
  dpc,                      \* the pool's owner
  connects, maintains

userVars == <<upc, seen, own>>
maintainVars == <<mpc, count, dropLeft, mown>>
bounds == <<connects, maintains>>
vars == <<version, size, used, waiting, pending, connecting, queue, cleanup, cleaned, closing,
          userVars, maintainVars, dpc, bounds>>

Versions == 0 .. MaxVersion
NoBag == [v \in Versions |-> 0]
Put(bag, v) == [bag EXCEPT ![v] = @ + 1]
Take(bag, v) == [bag EXCEPT ![v] = @ - 1]
\* As many as there are numbered tokens, bag[v] of each version.
Total(bag) == Cardinality({t \in Versions \X (1 .. MaxConnects) : t[2] <= bag[t[1]]})

Init ==
  /\ version = 0
  /\ size = 0
  /\ used = 0
  /\ waiting = 0
  /\ pending = NoBag
  /\ connecting = NoBag
  /\ queue = NoBag
  /\ cleanup = NoBag
  /\ cleaned = 0
  /\ closing = 0
  /\ upc = [u \in Users |-> "idle"]
  /\ seen = [u \in Users |-> 0]
  /\ own = [u \in Users |-> 0]
  /\ mpc = "idle"
  /\ count = 0
  /\ dropLeft = 0
  /\ mown = 0
  /\ dpc = "new"
  /\ connects = 0
  /\ maintains = 0

----------------------------------------------------------------------------
(* Connections *)

\* DeleteConnection(): the permit is kept until the close task is done.
Delete == closing' = closing + 1 /\ UNCHANGED queue

\* Push(): a broken, aborted or expired connection goes, and so does an outdated one.
Push(v) ==
  \/ Delete
  \/ v >= version /\ queue' = Put(queue, v) /\ UNCHANGED closing

CloseDone ==
  /\ closing > 0
  /\ closing' = closing - 1
  /\ size' = size - 1
  /\ UNCHANGED <<version, used, waiting, pending, connecting, queue, cleanup, cleaned,
                 userVars, maintainVars, dpc, bounds>>

\* TryCreateConnectionAsync(): nothing after recent errors or over the rate; a task
\* with a permit if there is one, else a task that waits for one unless others do.
TryCreateConnectionAsync ==
  \/ UNCHANGED <<size, pending, connecting, connects>>
  \/ /\ connects < MaxConnects
     /\ connects' = connects + 1
     /\ \/ /\ size < MaxSize
           /\ size' = size + 1
           /\ connecting' = Put(connecting, version)
           /\ UNCHANGED pending
        \/ /\ size >= MaxSize
           /\ Total(pending) + Total(connecting) <= kPendingConnectsMax
           /\ pending' = Put(pending, version)
           /\ UNCHANGED <<size, connecting>>

\* WarmUp() in Init(), before anyone has the pool: each task gets its permit at once.
WarmUp ==
  /\ dpc = "new"
  /\ dpc' = "alive"
  /\ size' = MinSize
  /\ connecting' = [connecting EXCEPT ![version] = MinSize]
  /\ connects' = MinSize
  /\ UNCHANGED <<version, used, waiting, pending, queue, cleanup, cleaned, closing,
                 userVars, maintainVars, maintains>>

\* A pending task gets its permit, or gives up after kConnectingTimeout or when cancelled.
GetSizeLock(v) ==
  /\ pending[v] > 0
  /\ pending' = Take(pending, v)
  /\ \/ size < MaxSize /\ size' = size + 1 /\ connecting' = Put(connecting, v)
     \/ UNCHANGED <<size, connecting>>
  /\ UNCHANGED <<version, used, waiting, queue, cleanup, cleaned, closing,
                 userVars, maintainVars, dpc, bounds>>

\* Mutant: the permit is lost with the connection that was not made.
ConnectFailsLeaky(v) ==
  /\ connecting[v] > 0
  /\ connecting' = Take(connecting, v)
  /\ UNCHANGED <<version, size, used, waiting, pending, queue, cleanup, cleaned, closing,
                 userVars, maintainVars, dpc, bounds>>

\* Too many tasks are connecting, the server cannot be reached, or the task is cancelled.
ConnectFails(v) ==
  /\ connecting[v] > 0
  /\ connecting' = Take(connecting, v)
  /\ size' = size - 1
  /\ UNCHANGED <<version, used, waiting, pending, queue, cleanup, cleaned, closing,
                 userVars, maintainVars, dpc, bounds>>

\* DoConnect(): the settings may have changed since the task was started.
DoConnect(v) ==
  /\ connecting[v] > 0
  /\ connecting' = Take(connecting, v)
  /\ Push(v)
  /\ UNCHANGED <<version, size, used, waiting, pending, cleanup, cleaned,
                 userVars, maintainVars, dpc, bounds>>

SetConnectionSettings ==
  /\ version < MaxVersion
  /\ dpc = "alive"
  /\ version' = version + 1
  /\ UNCHANGED <<size, used, waiting, pending, connecting, queue, cleanup, cleaned, closing,
                 userVars, maintainVars, dpc, bounds>>

----------------------------------------------------------------------------
(* Users *)

Acquire(u) ==
  /\ upc[u] = "idle"
  /\ dpc = "alive"
  /\ seen' = [seen EXCEPT ![u] = version]
  /\ upc' = [upc EXCEPT ![u] = "pop"]
  /\ UNCHANGED <<version, size, used, waiting, pending, connecting, queue, cleanup, cleaned, closing,
                 own, maintainVars, dpc, bounds>>

\* PopNoblock(): outdated and expired connections are dropped on the way.
PopIdle(u, v) ==
  /\ upc[u] = "pop"
  /\ queue[v] > 0
  /\ queue' = Take(queue, v)
  /\ \/ closing' = closing + 1 /\ UNCHANGED <<upc, own>>
     \/ /\ v >= seen[u]
        /\ own' = [own EXCEPT ![u] = v]
        /\ upc' = [upc EXCEPT ![u] = "got"]
        /\ UNCHANGED closing
  /\ UNCHANGED <<version, size, used, waiting, pending, connecting, cleanup, cleaned,
                 seen, maintainVars, dpc, bounds>>

\* The user counts itself before it looks at the limit.
PopEmpty(u) ==
  /\ upc[u] = "pop"
  /\ queue = NoBag
  /\ waiting' = waiting + 1
  /\ upc' = [upc EXCEPT ![u] = IF waiting + 1 > MaxQueueSize THEN "refused" ELSE "create"]
  /\ UNCHANGED <<version, size, used, pending, connecting, queue, cleanup, cleaned, closing,
                 seen, own, maintainVars, dpc, bounds>>

Create(u) ==
  /\ upc[u] = "create"
  /\ TryCreateConnectionAsync
  /\ upc' = [upc EXCEPT ![u] = "wait"]
  /\ UNCHANGED <<version, used, waiting, queue, cleanup, cleaned, closing, seen, own, maintainVars, dpc,
                 maintains>>

PopWaits(u, v) ==
  /\ upc[u] = "wait"
  /\ queue[v] > 0
  /\ queue' = Take(queue, v)
  /\ own' = [own EXCEPT ![u] = v]
  /\ upc' = [upc EXCEPT ![u] = "got"]
  /\ waiting' = waiting - 1
  /\ UNCHANGED <<version, size, used, pending, connecting, cleanup, cleaned, closing,
                 seen, maintainVars, dpc, bounds>>

\* Pop() throws: too many wait, the deadline, a cancellation.
PopTimesOut(u) ==
  /\ upc[u] \in {"wait", "refused"}
  /\ upc' = [upc EXCEPT ![u] = "idle"]
  /\ waiting' = waiting - 1
  /\ UNCHANGED <<version, size, used, pending, connecting, queue, cleanup, cleaned, closing,
                 seen, own, maintainVars, dpc, bounds>>

\* The end of Acquire(), whose ConnectionPtr releases the connection should the
\* deadline have expired.
Acquired(u) ==
  /\ upc[u] = "got"
  /\ used' = used + 1
  /\ upc' = [upc EXCEPT ![u] = "using"]
  /\ UNCHANGED <<version, size, waiting, pending, connecting, queue, cleanup, cleaned, closing,
                 seen, own, maintainVars, dpc, bounds>>

\* Release() of a busy connection: it is counted as used until it has been cleaned up.
Busy(v) ==
  /\ cleanup' = Put(cleanup, v)
  /\ UNCHANGED <<used, queue, closing>>

\* Release(): the connection is back, and may be popped, before it is counted so.
Release(u) ==
  /\ upc[u] = "using"
  /\ \/ /\ Push(own[u])
        /\ upc' = [upc EXCEPT ![u] = "released"]
        /\ UNCHANGED <<used, cleanup>>
     \/ /\ Busy(own[u])
        /\ upc' = [upc EXCEPT ![u] = "idle"]
  /\ UNCHANGED <<version, size, waiting, pending, connecting, cleaned, seen, own, maintainVars, dpc,
                 bounds>>

ReleaseEnds(u) ==
  /\ upc[u] = "released"
  /\ used' = used - 1
  /\ upc' = [upc EXCEPT ![u] = "idle"]
  /\ UNCHANGED <<version, size, waiting, pending, connecting, queue, cleanup, cleaned, closing,
                 seen, own, maintainVars, dpc, bounds>>

CleanupConnection(v) ==
  /\ cleanup[v] > 0
  /\ cleaned < MaxCleaned
  /\ cleanup' = Take(cleanup, v)
  /\ Push(v)
  /\ cleaned' = cleaned + 1
  /\ UNCHANGED <<version, size, used, waiting, pending, connecting, userVars, maintainVars, dpc, bounds>>

CleanupEnds ==
  /\ cleaned > 0
  /\ cleaned' = cleaned - 1
  /\ used' = used - 1
  /\ UNCHANGED <<version, size, waiting, pending, connecting, queue, cleanup, closing,
                 userVars, maintainVars, dpc, bounds>>

----------------------------------------------------------------------------
(* The maintain task *)

MaintainConnections ==
  /\ mpc = "idle"
  /\ dpc = "alive"
  /\ maintains < MaxMaintains
  /\ maintains' = maintains + 1
  /\ waiting = 0
  /\ mpc' = IF size > 0 THEN "loop" ELSE "check"
  /\ count' = size
  /\ dropLeft' = kIdleDropLimit
  /\ UNCHANGED <<version, size, used, waiting, pending, connecting, queue, cleanup, cleaned, closing,
                 userVars, mown, dpc, connects>>

ReadSettings ==
  /\ mpc = "loop"
  /\ mpc' = "acquire"
  /\ mown' = version
  /\ UNCHANGED <<version, size, used, waiting, pending, connecting, queue, cleanup, cleaned, closing,
                 userVars, count, dropLeft, dpc, bounds>>

AcquireImmediate(v) ==
  /\ mpc = "acquire"
  /\ queue[v] > 0
  /\ queue' = Take(queue, v)
  /\ \/ closing' = closing + 1 /\ UNCHANGED <<used, mpc, mown>>
     \/ /\ v >= mown
        /\ used' = used + 1
        /\ mown' = v
        /\ mpc' = "got"
        /\ UNCHANGED closing
  /\ UNCHANGED <<version, size, waiting, pending, connecting, cleanup, cleaned, userVars, count,
                 dropLeft, dpc, bounds>>

AllBusy ==
  /\ mpc = "acquire"
  /\ queue = NoBag
  /\ mpc' = "check"
  /\ UNCHANGED <<version, size, used, waiting, pending, connecting, queue, cleanup, cleaned, closing,
                 userVars, count, dropLeft, mown, dpc, bounds>>

\* The loop goes on while there are connections and the last one was stale.
MaintainNext ==
  /\ count' = count - 1
  /\ mpc' = "check" \/ (count > 1 /\ mpc' = "loop")

DropIdle ==
  /\ mpc = "got"
  /\ count > MinSize
  /\ dropLeft > 0
  /\ dropLeft' = dropLeft - 1
  /\ used' = used - 1
  /\ closing' = closing + 1
  /\ MaintainNext
  /\ UNCHANGED <<version, size, waiting, pending, connecting, queue, cleanup, cleaned,
                 userVars, mown, dpc, bounds>>

\* The connection is released, whether or not the ping failed.
Ping ==
  /\ mpc = "got"
  /\ ~(count > MinSize /\ dropLeft > 0)
  /\ \/ /\ Push(mown)
        /\ mpc' = "released"
        /\ UNCHANGED <<used, cleanup, count>>
     \/ Busy(mown) /\ MaintainNext
  /\ UNCHANGED <<version, size, waiting, pending, connecting, cleaned, userVars, dropLeft, mown,
                 dpc, bounds>>

PingReleased ==
  /\ mpc = "released"
  /\ used' = used - 1
  /\ MaintainNext
  /\ UNCHANGED <<version, size, waiting, pending, connecting, queue, cleanup, cleaned, closing,
                 userVars, dropLeft, mown, dpc, bounds>>

CheckMinPoolSizeUnderflow ==
  /\ mpc = "check"
  /\ \/ size >= MinSize /\ UNCHANGED <<size, pending, connecting, connects>>
     \/ size < MinSize /\ TryCreateConnectionAsync
  /\ mpc' = "idle"
  /\ UNCHANGED <<version, used, waiting, queue, cleanup, cleaned, closing, userVars, count,
                 dropLeft, mown, dpc, maintains>>

----------------------------------------------------------------------------
(* The destructor, once the last user has dropped the pool *)

StopMaintainTask ==
  /\ dpc = "alive"
  /\ \A u \in Users : upc[u] = "idle"
  /\ dpc' = "maintain"
  /\ UNCHANGED <<version, size, used, waiting, pending, connecting, queue, cleanup, cleaned, closing,
                 userVars, maintainVars, bounds>>

StopConnectTasks ==
  /\ dpc = "maintain"
  /\ mpc = "idle"
  /\ dpc' = "connect"
  /\ UNCHANGED <<version, size, used, waiting, pending, connecting, queue, cleanup, cleaned, closing,
                 userVars, maintainVars, bounds>>

WaitConnectTasks ==
  /\ dpc = "connect"
  /\ pending = NoBag
  /\ connecting = NoBag
  /\ dpc' = "clear"
  /\ UNCHANGED <<version, size, used, waiting, pending, connecting, queue, cleanup, cleaned, closing,
                 userVars, maintainVars, bounds>>

Clear ==
  /\ dpc = "clear"
  /\ cleanup = NoBag
  /\ cleaned = 0
  /\ dpc' = "drain"
  /\ UNCHANGED <<version, size, used, waiting, pending, connecting, queue, cleanup, cleaned, closing,
                 userVars, maintainVars, bounds>>

Drain(v) ==
  /\ dpc = "drain"
  /\ queue[v] > 0
  /\ queue' = Take(queue, v)
  /\ closing' = closing + 1
  /\ UNCHANGED <<version, size, used, waiting, pending, connecting, cleanup, cleaned,
                 userVars, maintainVars, dpc, bounds>>

Drained ==
  /\ dpc = "drain"
  /\ queue = NoBag
  /\ dpc' = "close"
  /\ UNCHANGED <<version, size, used, waiting, pending, connecting, queue, cleanup, cleaned, closing,
                 userVars, maintainVars, bounds>>

Destroyed ==
  /\ dpc = "close"
  /\ closing = 0
  /\ dpc' = "dead"
  /\ UNCHANGED <<version, size, used, waiting, pending, connecting, queue, cleanup, cleaned, closing,
                 userVars, maintainVars, bounds>>

----------------------------------------------------------------------------

UserStep(u) ==
  \/ \E v \in Versions : PopIdle(u, v) \/ PopWaits(u, v)
  \/ PopEmpty(u) \/ Create(u) \/ PopTimesOut(u) \/ Acquired(u)
  \/ Release(u) \/ ReleaseEnds(u)

TaskStep(v) == GetSizeLock(v) \/ ConnectFails(v) \/ DoConnect(v) \/ CleanupConnection(v)

MaintainStep ==
  \/ ReadSettings \/ (\E v \in Versions : AcquireImmediate(v)) \/ AllBusy
  \/ DropIdle \/ Ping \/ PingReleased \/ CheckMinPoolSizeUnderflow

DestructorStep ==
  \/ StopConnectTasks \/ WaitConnectTasks \/ Clear
  \/ (\E v \in Versions : Drain(v)) \/ Drained \/ Destroyed

Next ==
  \/ \E u \in Users : Acquire(u) \/ UserStep(u)
  \/ \E v \in Versions : TaskStep(v)
  \/ CleanupEnds \/ CloseDone \/ WarmUp \/ SetConnectionSettings
  \/ MaintainConnections \/ MaintainStep
  \/ StopMaintainTask \/ DestructorStep

Spec == Init /\ [][Next]_vars

\* Tasks end, by their deadlines at the latest; users give their connections back.
Fairness ==
  /\ \A u \in Users : WF_vars(UserStep(u))
  /\ \A v \in Versions : WF_vars(TaskStep(v))
  /\ WF_vars(CleanupEnds) /\ WF_vars(CloseDone) /\ WF_vars(MaintainStep) /\ WF_vars(DestructorStep)

----------------------------------------------------------------------------
(* Properties *)

\* Every variable has its type; the pool never exceeds its size.
TypeOK ==
  /\ version \in Versions
  /\ size \in 0 .. MaxSize
  /\ used \in Nat
  /\ waiting \in 0 .. Cardinality(Users)
  /\ {pending, connecting, queue, cleanup} \subseteq [Versions -> 0 .. MaxConnects]
  /\ {cleaned, closing} \subseteq Nat
  /\ upc \in [Users -> {"idle", "pop", "create", "refused", "wait", "got", "using", "released"}]
  /\ {seen, own} \subseteq [Users -> Versions]
  /\ mpc \in {"idle", "loop", "acquire", "got", "released", "check"}
  /\ count \in 0 .. MaxSize
  /\ dropLeft \in 0 .. kIdleDropLimit
  /\ mown \in Versions
  /\ dpc \in {"new", "alive", "maintain", "connect", "clear", "drain", "close", "dead"}
  /\ connects \in 0 .. MaxConnects
  /\ maintains \in 0 .. MaxMaintains

With(S) == Cardinality({u \in Users : upc[u] \in S})

\* Every permit of the size semaphore belongs to one connection or one connect task, on
\* every path: broken, outdated, dropped, cleaned up or never connected.
PermitsAccounted ==
  size = Total(connecting) + Total(queue) + Total(cleanup) + closing + With({"got", "using"})
         + IF mpc = "got" THEN 1 ELSE 0

\* The statistics count exactly the connections in use, in cleanup or being maintained
\* and those just given back, and the users that wait for one.
UsedExact ==
  /\ used = With({"using", "released"}) + Total(cleanup) + cleaned
            + IF mpc \in {"got", "released"} THEN 1 ELSE 0
  /\ waiting = With({"refused", "create", "wait"})

\* When the destructor has returned, nothing that refers to the pool is left.
NothingLeftBehind ==
  dpc = "dead" => size = 0 /\ used = 0 /\ cleaned = 0 /\ {pending, connecting, queue, cleanup} = {NoBag}

=============================================================================
