-------------------------------- MODULE Rcu --------------------------------
(***************************************************************************)
(* rcu::Variable: readers lock the read indicator of the current record and  *)
(* look again whether it is still current; writers, one at a time, publish a *)
(* copy and retire the old record, which goes to the deleter once its        *)
(* indicator is free and then to a free list to be used again. The indicator *)
(* is the set of its lock holders; IsFree() may be wrong in one direction,    *)
(* as ReadIndicator shows. Both lists are sets: their order decides nothing.  *)
(***************************************************************************)
EXTENDS Integers, FiniteSets

CONSTANTS
  Readers,
  Writers,
  IsAsync,        \* AsyncDeleter, or SyncDeleter
  MaxRecords,     \* bound: records that are allocated
  MaxCommits      \* bound: write transactions

RcuAssumption ==
  /\ IsAsync \in BOOLEAN
  /\ {MaxRecords, MaxCommits} \subseteq Nat
  /\ MaxRecords > 1

VARIABLES
  data,         \* per record: its value, a version, or NoData
  size,         \* records allocated so far
  current,      \* current_
  retired,      \* retired_list_
  free,         \* free_list_
  handles,      \* SnapshotHandles of AsyncDeleter: records to reset, then to push
  lockers,      \* per record: who holds its indicator
  mutex,        \* the writer that owns mutex_, or Unheld
  starts,       \* write transactions so far
  commits,      \* ... that were committed
  wpc, wrec, toScan,        \* per writer: where it is, its record, the retired records it has yet to look at
  rpc, rrec, rold, seen     \* per reader: where it is, its record, the one before, the value it got

NoData == -1
NoRecord == 0
Unheld == "none"
Records == 1 .. MaxRecords

storageVars == <<data, size, free, handles>>
readerVars == <<rpc, rrec, rold, seen>>
writerVars == <<wpc, wrec, toScan, mutex>>
vars == <<storageVars, current, retired, lockers, starts, commits, writerVars, readerVars>>

Init ==
  /\ data = [r \in Records |-> IF r = 1 THEN 0 ELSE NoData]
  /\ size = 1
  /\ current = 1
  /\ retired = {}
  /\ free = {}
  /\ handles = {}
  /\ lockers = [r \in Records |-> {}]
  /\ mutex = Unheld
  /\ starts = 0
  /\ commits = 0
  /\ wpc = [w \in Writers |-> "idle"]
  /\ wrec = [w \in Writers |-> NoRecord]
  /\ toScan = [w \in Writers |-> {}]
  /\ rpc = [t \in Readers |-> "idle"]
  /\ rrec = [t \in Readers |-> NoRecord]
  /\ rold = [t \in Readers |-> NoRecord]
  /\ seen = [t \in Readers |-> NoData]

----------------------------------------------------------------------------
(* ReadablePtr *)

ReaderUnchanged == UNCHANGED <<storageVars, current, retired, starts, commits, writerVars>>

LoadCurrent(t) ==
  /\ rpc[t] = "idle"
  /\ rrec' = [rrec EXCEPT ![t] = current]
  /\ rpc' = [rpc EXCEPT ![t] = "lock"]
  /\ UNCHANGED <<lockers, rold, seen>> /\ ReaderUnchanged

\* GetLock() of the new record; the move assignment then drops the lock of the old.
GetLock(t) ==
  /\ rpc[t] = "lock"
  /\ lockers' = [lockers EXCEPT ![rrec[t]] = @ \cup {t}]
  /\ rpc' = [rpc EXCEPT ![t] = IF rold[t] \in {NoRecord, rrec[t]} THEN "check" ELSE "drop"]
  /\ UNCHANGED <<rrec, rold, seen>> /\ ReaderUnchanged

DropOldLock(t) ==
  /\ rpc[t] = "drop"
  /\ lockers' = [lockers EXCEPT ![rold[t]] = @ \ {t}]
  /\ rpc' = [rpc EXCEPT ![t] = "check"]
  /\ UNCHANGED <<rrec, rold, seen>> /\ ReaderUnchanged

\* Mutant: the record is used without a second look at current_.
CheckNothing(t) ==
  /\ rpc[t] = "check"
  /\ rpc' = [rpc EXCEPT ![t] = "hold"]
  /\ seen' = [seen EXCEPT ![t] = data[rrec[t]]]
  /\ UNCHANGED <<lockers, rrec, rold>> /\ ReaderUnchanged

CheckCurrent(t) ==
  /\ rpc[t] = "check"
  /\ \/ /\ current = rrec[t]
        /\ rpc' = [rpc EXCEPT ![t] = "hold"]
        /\ seen' = [seen EXCEPT ![t] = data[rrec[t]]]
        /\ UNCHANGED <<rrec, rold>>
     \/ /\ current # rrec[t]
        /\ rpc' = [rpc EXCEPT ![t] = "lock"]
        /\ rold' = [rold EXCEPT ![t] = rrec[t]]
        /\ rrec' = [rrec EXCEPT ![t] = current]
        /\ UNCHANGED seen
  /\ UNCHANGED lockers /\ ReaderUnchanged

DropReadablePtr(t) ==
  /\ rpc[t] = "hold"
  /\ lockers' = [lockers EXCEPT ![rrec[t]] = @ \ {t}]
  /\ rpc' = [rpc EXCEPT ![t] = "idle"]
  /\ rrec' = [rrec EXCEPT ![t] = NoRecord]
  /\ rold' = [rold EXCEPT ![t] = NoRecord]
  /\ seen' = [seen EXCEPT ![t] = NoData]
  /\ ReaderUnchanged

----------------------------------------------------------------------------
(* WritablePtr, and Cleanup() *)

WriterUnchanged == UNCHANGED readerVars

StartWrite(w) ==
  /\ wpc[w] = "idle"
  /\ mutex = Unheld
  /\ starts < MaxCommits
  /\ starts' = starts + 1
  /\ mutex' = w
  /\ wpc' = [wpc EXCEPT ![w] = "emplace"]
  /\ UNCHANGED <<storageVars, current, retired, lockers, commits, wrec, toScan>> /\ WriterUnchanged

\* free_list_.TryPop(), or a new record.
Obtained(r) == IF free # {} THEN r \in free ELSE r = size + 1

\* The record gets a copy of the current value.
EmplaceSnapshot(w, r) ==
  /\ wpc[w] = "emplace"
  /\ Obtained(r)
  /\ free' = free \ {r}
  /\ size' = IF r > size THEN r ELSE size
  /\ data' = [data EXCEPT ![r] = data[current]]
  /\ wrec' = [wrec EXCEPT ![w] = r]
  /\ wpc' = [wpc EXCEPT ![w] = "write"]
  /\ UNCHANGED <<handles, current, retired, lockers, starts, commits, toScan, mutex>> /\ WriterUnchanged

\* The copy throws: the record goes back to the free list, the mutex is released.
EmplaceThrows(w, r) ==
  /\ wpc[w] = "emplace"
  /\ Obtained(r)
  /\ size' = IF r > size THEN r ELSE size
  /\ free' = free \cup {r}
  /\ wpc' = [wpc EXCEPT ![w] = "unlock"]
  /\ UNCHANGED <<data, handles, current, retired, lockers, starts, commits, wrec, toScan, mutex>> /\ WriterUnchanged

\* Commit() of the copy with one change made: publish it.
StoreCurrent(w) ==
  /\ wpc[w] = "write"
  /\ data' = [data EXCEPT ![wrec[w]] = @ + 1]
  /\ current' = wrec[w]
  /\ wrec' = [wrec EXCEPT ![w] = current]
  /\ commits' = commits + 1
  /\ wpc' = [wpc EXCEPT ![w] = "retire"]
  /\ UNCHANGED <<size, free, handles, retired, lockers, starts, toScan, mutex>> /\ WriterUnchanged

Retire(w) ==
  /\ wpc[w] = "retire"
  /\ retired' = retired \cup {wrec[w]}
  /\ wrec' = [wrec EXCEPT ![w] = NoRecord]
  /\ toScan' = [toScan EXCEPT ![w] = retired \cup {wrec[w]}]
  /\ wpc' = [wpc EXCEPT ![w] = "scan"]
  /\ UNCHANGED <<storageVars, current, lockers, starts, commits, mutex>> /\ WriterUnchanged

\* The deleter gets a record: at once, or as a task of its own.
DeleteSnapshot(r) ==
  IF IsAsync
    THEN handles' = handles \cup {r} /\ UNCHANGED <<data, free>>
    ELSE /\ data' = [data EXCEPT ![r] = NoData]
         /\ free' = free \cup {r}
         /\ UNCHANGED handles

\* One turn of RemoveAndDisposeIf(). IsFree() is never falsely true.
ScanRetiredList(w, r) ==
  /\ wpc[w] = "scan"
  /\ r \in toScan[w]
  /\ toScan' = [toScan EXCEPT ![w] = @ \ {r}]
  /\ \/ lockers[r] = {} /\ retired' = retired \ {r} /\ DeleteSnapshot(r)
     \/ UNCHANGED <<retired, data, free, handles>>
  /\ UNCHANGED <<size, wpc, current, lockers, starts, commits, wrec, mutex>> /\ WriterUnchanged

ScanEnds(w) ==
  /\ wpc[w] = "scan"
  /\ toScan[w] = {}
  /\ wpc' = [wpc EXCEPT ![w] = "unlock"]
  /\ UNCHANGED <<storageVars, current, retired, lockers, starts, commits, wrec, toScan, mutex>> /\ WriterUnchanged

\* ~WritablePtr() without Commit().
Abandon(w) ==
  /\ wpc[w] = "write"
  /\ DeleteSnapshot(wrec[w])
  /\ wrec' = [wrec EXCEPT ![w] = NoRecord]
  /\ wpc' = [wpc EXCEPT ![w] = "unlock"]
  /\ UNCHANGED <<size, current, retired, lockers, starts, commits, toScan, mutex>> /\ WriterUnchanged

Unlock(w) ==
  /\ wpc[w] = "unlock"
  /\ mutex' = Unheld
  /\ wpc' = [wpc EXCEPT ![w] = "idle"]
  /\ UNCHANGED <<storageVars, current, retired, lockers, starts, commits, wrec, toScan>> /\ WriterUnchanged

\* Cleanup() scans if the mutex is free.
Cleanup(w) ==
  /\ wpc[w] = "idle"
  /\ mutex = Unheld
  /\ retired # {}
  /\ mutex' = w
  /\ toScan' = [toScan EXCEPT ![w] = retired]
  /\ wpc' = [wpc EXCEPT ![w] = "scan"]
  /\ UNCHANGED <<storageVars, current, retired, lockers, starts, commits, wrec>> /\ WriterUnchanged

----------------------------------------------------------------------------
(* ~SnapshotHandle() in a task of AsyncDeleter *)

ResetData(r) ==
  /\ r \in handles
  /\ data[r] # NoData
  /\ data' = [data EXCEPT ![r] = NoData]
  /\ UNCHANGED <<size, free, handles, current, retired, lockers, starts, commits, writerVars, readerVars>>

PushFree(r) ==
  /\ r \in handles
  /\ data[r] = NoData
  /\ free' = free \cup {r}
  /\ handles' = handles \ {r}
  /\ UNCHANGED <<data, size, current, retired, lockers, starts, commits, writerVars, readerVars>>

----------------------------------------------------------------------------

ReaderStep(t) ==
  LoadCurrent(t) \/ GetLock(t) \/ DropOldLock(t) \/ CheckCurrent(t) \/ DropReadablePtr(t)

Next ==
  \/ \E t \in Readers : ReaderStep(t)
  \/ \E w \in Writers :
       \/ StartWrite(w) \/ StoreCurrent(w) \/ Retire(w) \/ ScanEnds(w) \/ Abandon(w) \/ Unlock(w) \/ Cleanup(w)
       \/ \E r \in Records : EmplaceSnapshot(w, r) \/ EmplaceThrows(w, r) \/ ScanRetiredList(w, r)
  \/ \E r \in Records : ResetData(r) \/ PushFree(r)

Spec == Init /\ [][Next]_vars

----------------------------------------------------------------------------
(* Properties *)

\* Every variable has its type.
TypeOK ==
  /\ data \in [Records -> NoData .. MaxCommits]
  /\ size \in Records
  /\ current \in Records
  /\ retired \subseteq Records
  /\ free \subseteq Records
  /\ handles \subseteq Records
  /\ lockers \in [Records -> SUBSET Readers]
  /\ mutex \in Writers \cup {Unheld}
  /\ starts \in 0 .. MaxCommits
  /\ commits \in 0 .. MaxCommits
  /\ wpc \in [Writers -> {"idle", "emplace", "write", "retire", "scan", "unlock"}]
  /\ wrec \in [Writers -> Records \cup {NoRecord}]
  /\ toScan \in [Writers -> SUBSET Records]
  /\ rpc \in [Readers -> {"idle", "lock", "drop", "check", "hold"}]
  /\ rrec \in [Readers -> Records \cup {NoRecord}]
  /\ rold \in [Readers -> Records \cup {NoRecord}]
  /\ seen \in [Readers -> NoData .. MaxCommits]

\* The value a ReadablePtr refers to is neither destroyed nor replaced while it lives,
\* though its record may have been retired, recycled and published again before.
ReaderKeepsValue ==
  \A t \in Readers : rpc[t] = "hold" => data[rrec[t]] = seen[t] /\ seen[t] # NoData

\* No write transaction is lost: the current value has every committed change.
NoLostUpdate == data[current] = commits

\* Every record is in one place only (current, with a writer, retired, with a deleter,
\* free), none leaks, and what is in the free list has no value (the assertion of
\* EmplaceSnapshot()).
RecordsAccounted ==
  /\ \A r \in 1 .. size :
       Cardinality({p \in {"current", "retired", "handle", "free"} :
                      \/ p = "current" /\ r = current
                      \/ p = "retired" /\ r \in retired
                      \/ p = "handle" /\ r \in handles
                      \/ p = "free" /\ r \in free})
         + Cardinality({w \in Writers : wrec[w] = r}) = 1
  /\ \A r \in free : data[r] = NoData
=============================================================================
