----------------------------- MODULE RcuProofs -----------------------------
(***************************************************************************)
(* What rcu::Variable promises, for any number of readers, writers and      *)
(* records: a value is kept while a ReadablePtr refers to it, no committed  *)
(* write is lost, and a record is in one place only.                        *)
(*                                                                         *)
(* A reader may lock a record that has been retired, deleted and recycled   *)
(* since it loaded current_, and such a lock protects nothing. The second   *)
(* look at current_ finds the record published and locked in one moment;    *)
(* from there a record only moves from current_ to the writer that retires  *)
(* it and to the retired list, and it leaves that list only without locks.  *)
(***************************************************************************)
EXTENDS Rcu, FiniteSetTheorems, TLAPS

\* The hypotheses of the theorems.
Given == RcuAssumption /\ Unheld \notin Writers

\* The record has been published and is not with a deleter yet.
Published(r) ==
  \/ r = current
  \/ r \in retired
  \/ \E w \in Writers : wpc[w] = "retire" /\ wrec[w] = r

\* mutex_ is held over a whole write transaction or scan, and only then does a
\* writer have a record or a list to scan.
WriterOk(w) ==
  /\ wpc[w] # "idle" <=> mutex = w
  /\ wpc[w] \in {"write", "retire"} <=> wrec[w] # NoRecord
  /\ wpc[w] = "scan" => toScan[w] \subseteq retired

\* No record is in two places, and none that was allocated is lost.
PlaceOk ==
  /\ \A r \in Records :
       /\ r \in free => r \notin handles /\ r \notin retired /\ r # current
       /\ r \in handles => r \notin retired /\ r # current
       /\ r \in retired => r # current
       /\ r <= size <=> \/ r \in free \/ r \in handles \/ r \in retired \/ r = current
                        \/ \E w \in Writers : wrec[w] = r
  /\ \A w \in Writers : wrec[w] \notin free \cup handles \cup retired \cup {current}

\* What the records hold: the current one and the copy a writer has made of it the
\* committed value, free and new ones nothing.
DataOk ==
  /\ commits <= starts
  /\ \A w \in Writers : wpc[w] \in {"emplace", "write"} => commits < starts
  /\ data[current] = commits
  /\ \A w \in Writers : wpc[w] = "write" => data[wrec[w]] = commits
  /\ \A r \in Records : Published(r) => data[r] # NoData
  /\ \A r \in Records : r \in free \/ r > size => data[r] = NoData

\* A reader past its second look has locked a published record.
ReaderOk(t) ==
  /\ rpc[t] = "idle" => rold[t] = NoRecord
  /\ rpc[t] # "idle" => rrec[t] \in Records
  /\ rpc[t] = "lock" => rold[t] # rrec[t]
  /\ rpc[t] = "drop" => rold[t] \in Records /\ rold[t] # rrec[t]
  /\ rpc[t] \in {"drop", "check", "hold"} => t \in lockers[rrec[t]]
  /\ rpc[t] = "hold" => Published(rrec[t]) /\ data[rrec[t]] = seen[t]

\* The inductive invariant.
RcuInv ==
  /\ TypeOK
  /\ \A w \in Writers : WriterOk(w)
  /\ PlaceOk
  /\ DataOk
  /\ \A t \in Readers : ReaderOk(t)

----------------------------------------------------------------------------

\* The initial state, one record with the first value, satisfies the invariant.
LEMMA InitRcu == ASSUME Given, Init PROVE RcuInv
<1> USE DEF Given, RcuAssumption, NoData, NoRecord, Records, Unheld
<1>1. TypeOK
  BY DEF Init, TypeOK
<1>2. PlaceOk
  BY DEF Init, PlaceOk
<1>3. DataOk
  BY DEF Init, DataOk, Published
<1> QED BY <1>1, <1>2, <1>3 DEF RcuInv, Init, WriterOk, ReaderOk

\* mutex_ is exclusive: beside the writer that holds it none has a record.
LEMMA OneWriter == ASSUME RcuInv, NEW w \in Writers, wpc[w] # "idle"
                   PROVE  /\ \A v \in Writers : v # w => wpc[v] = "idle" /\ wrec[v] = NoRecord
                          /\ wpc[w] \in {"write", "retire"} => wrec[w] \in Records
  BY DEF RcuInv, TypeOK, WriterOk

\* The other readers: what another thread has done leaves them what they have.
LEMMA ReaderKept == ASSUME RcuInv, NEW s \in Readers,
                           rpc'[s] = rpc[s], rrec'[s] = rrec[s], rold'[s] = rold[s], seen'[s] = seen[s],
                           \A r \in Records : s \in lockers[r] => s \in lockers'[r],
                           \A r \in Records : Published(r) /\ s \in lockers[r] =>
                             Published(r)' /\ data'[r] = data[r]
                    PROVE  ReaderOk(s)'
  BY DEF RcuInv, TypeOK, ReaderOk

\* A step of a reader disturbs nothing of the writers and of the records.
LEMMA ReaderFrame == ASSUME RcuInv, ReaderUnchanged
                     PROVE  /\ \A w \in Writers : WriterOk(w)'
                            /\ PlaceOk'
                            /\ DataOk'
                            /\ \A r \in Records : Published(r) = Published(r)'
<1> USE DEF RcuInv, ReaderUnchanged, storageVars, writerVars
<1>1. \A w \in Writers : WriterOk(w)'
  BY DEF WriterOk
<1>2. PlaceOk'
  BY DEF PlaceOk
<1>3. \A r : Published(r) = Published(r)'
  BY DEF Published
<1>4. DataOk'
  BY <1>3 DEF DataOk
<1> QED BY <1>1, <1>2, <1>3, <1>4

\* A reader that loads current_ has no lock yet.
LEMMA LoadCurrentRcu == ASSUME Given, RcuInv, NEW t \in Readers, LoadCurrent(t) PROVE RcuInv'
<1> USE DEF Given, RcuAssumption, NoData, NoRecord, Records, Unheld
<1>1. ReaderUnchanged
  BY DEF LoadCurrent
<1>2. TypeOK'
  BY <1>1 DEF LoadCurrent, ReaderUnchanged, storageVars, writerVars, RcuInv, TypeOK, ReaderOk
<1>3. ASSUME NEW s \in Readers PROVE ReaderOk(s)'
  <2>1. CASE s # t
    <3>1. /\ rpc'[s] = rpc[s] /\ rrec'[s] = rrec[s] /\ rold'[s] = rold[s] /\ seen'[s] = seen[s]
          /\ \A r \in Records : s \in lockers[r] => s \in lockers'[r]
      BY <2>1 DEF LoadCurrent, RcuInv, TypeOK
    <3>2. \A r \in Records : data'[r] = data[r]
      BY <1>1 DEF ReaderUnchanged, storageVars
    <3> QED BY <1>1, <3>1, <3>2, ReaderFrame, ReaderKept
  <2>2. CASE s = t
    BY <2>2 DEF LoadCurrent, RcuInv, TypeOK, ReaderOk
  <2> QED BY <2>1, <2>2
<1> QED BY <1>1, <1>2, <1>3, ReaderFrame DEF RcuInv

\* GetLock() adds the reader to the holders of the record it loaded, published or not.
LEMMA GetLockRcu == ASSUME Given, RcuInv, NEW t \in Readers, GetLock(t) PROVE RcuInv'
<1> USE DEF Given, RcuAssumption, NoData, NoRecord, Records, Unheld
<1>1. ReaderUnchanged
  BY DEF GetLock
<1>2. TypeOK'
  BY <1>1 DEF GetLock, ReaderUnchanged, storageVars, writerVars, RcuInv, TypeOK, ReaderOk
<1>3. ASSUME NEW s \in Readers PROVE ReaderOk(s)'
  <2>1. CASE s # t
    <3>1. /\ rpc'[s] = rpc[s] /\ rrec'[s] = rrec[s] /\ rold'[s] = rold[s] /\ seen'[s] = seen[s]
          /\ \A r \in Records : s \in lockers[r] => s \in lockers'[r]
      BY <2>1 DEF GetLock, RcuInv, TypeOK
    <3>2. \A r \in Records : data'[r] = data[r]
      BY <1>1 DEF ReaderUnchanged, storageVars
    <3> QED BY <1>1, <3>1, <3>2, ReaderFrame, ReaderKept
  <2>2. CASE s = t
    BY <2>2 DEF GetLock, RcuInv, TypeOK, ReaderOk
  <2> QED BY <2>1, <2>2
<1> QED BY <1>1, <1>2, <1>3, ReaderFrame DEF RcuInv

\* The lock that is dropped is not the one just taken.
LEMMA DropOldLockRcu == ASSUME Given, RcuInv, NEW t \in Readers, DropOldLock(t) PROVE RcuInv'
<1> USE DEF Given, RcuAssumption, NoData, NoRecord, Records, Unheld
<1>1. ReaderUnchanged
  BY DEF DropOldLock
<1>2. TypeOK'
  BY <1>1 DEF DropOldLock, ReaderUnchanged, storageVars, writerVars, RcuInv, TypeOK, ReaderOk
<1>3. ASSUME NEW s \in Readers PROVE ReaderOk(s)'
  <2>1. CASE s # t
    <3>1. /\ rpc'[s] = rpc[s] /\ rrec'[s] = rrec[s] /\ rold'[s] = rold[s] /\ seen'[s] = seen[s]
          /\ \A r \in Records : s \in lockers[r] => s \in lockers'[r]
      BY <2>1 DEF DropOldLock, RcuInv, TypeOK
    <3>2. \A r \in Records : data'[r] = data[r]
      BY <1>1 DEF ReaderUnchanged, storageVars
    <3> QED BY <1>1, <3>1, <3>2, ReaderFrame, ReaderKept
  <2>2. CASE s = t
    BY <2>2 DEF DropOldLock, RcuInv, TypeOK, ReaderOk
  <2> QED BY <2>1, <2>2
<1> QED BY <1>1, <1>2, <1>3, ReaderFrame DEF RcuInv

\* The second look: a record that is current and locked is published, and holds the value seen.
LEMMA CheckCurrentRcu == ASSUME Given, RcuInv, NEW t \in Readers, CheckCurrent(t) PROVE RcuInv'
<1> USE DEF Given, RcuAssumption, NoData, NoRecord, Records, Unheld
<1>1. ReaderUnchanged
  BY DEF CheckCurrent
<1>2. TypeOK'
  <2>1. seen' \in [Readers -> NoData .. MaxCommits]
    BY DEF CheckCurrent, RcuInv, TypeOK
  <2>2. rrec' \in [Readers -> Records \cup {NoRecord}] /\ rold' \in [Readers -> Records \cup {NoRecord}]
    <3>1. CASE UNCHANGED <<rrec, rold>>
      BY <3>1 DEF RcuInv, TypeOK
    <3>2. CASE rold' = [rold EXCEPT ![t] = rrec[t]] /\ rrec' = [rrec EXCEPT ![t] = current]
      BY <3>2 DEF RcuInv, TypeOK
    <3> QED BY <3>1, <3>2 DEF CheckCurrent
  <2>3. rpc' \in [Readers -> {"idle", "lock", "drop", "check", "hold"}]
    BY DEF CheckCurrent, RcuInv, TypeOK
  <2> QED BY <1>1, <2>1, <2>2, <2>3 DEF CheckCurrent, ReaderUnchanged, storageVars, writerVars, RcuInv, TypeOK
<1>3. ASSUME NEW s \in Readers PROVE ReaderOk(s)'
  <2>1. CASE s # t
    <3>1. /\ rpc'[s] = rpc[s] /\ rrec'[s] = rrec[s] /\ rold'[s] = rold[s] /\ seen'[s] = seen[s]
          /\ \A r \in Records : s \in lockers[r] => s \in lockers'[r]
      BY <2>1 DEF CheckCurrent, RcuInv, TypeOK
    <3>2. \A r \in Records : data'[r] = data[r]
      BY <1>1 DEF ReaderUnchanged, storageVars
    <3> QED BY <1>1, <3>1, <3>2, ReaderFrame, ReaderKept
  <2>2. CASE s = t
    <3>1. t \in lockers'[rrec[t]] /\ rrec[t] \in Records
      BY DEF CheckCurrent, RcuInv, ReaderOk
    <3>2. CASE /\ current = rrec[t] /\ rrec' = rrec /\ rpc' = [rpc EXCEPT ![t] = "hold"]
               /\ seen' = [seen EXCEPT ![t] = data[rrec[t]]]
      <4>1. Published(rrec[t])'
        BY <1>1, <3>2 DEF Published, ReaderUnchanged
      <4>2. rpc'[t] = "hold" /\ rrec'[t] = rrec[t] /\ seen'[t] = data'[rrec[t]]
        BY <1>1, <3>2 DEF CheckCurrent, ReaderUnchanged, storageVars, RcuInv, TypeOK
      <4> QED BY <2>2, <3>1, <4>1, <4>2 DEF ReaderOk
    <3>3. CASE current # rrec[t] /\ rpc' = [rpc EXCEPT ![t] = "lock"] /\ rold' = [rold EXCEPT ![t] = rrec[t]]
      BY <2>2, <3>3 DEF CheckCurrent, RcuInv, TypeOK, ReaderOk
    <3> QED BY <3>2, <3>3 DEF CheckCurrent
  <2> QED BY <2>1, <2>2
<1> QED BY <1>1, <1>2, <1>3, ReaderFrame DEF RcuInv

\* A reader that lets go claims nothing any more.
LEMMA DropReadablePtrRcu == ASSUME Given, RcuInv, NEW t \in Readers, DropReadablePtr(t) PROVE RcuInv'
<1> USE DEF Given, RcuAssumption, NoData, NoRecord, Records, Unheld
<1>1. ReaderUnchanged
  BY DEF DropReadablePtr
<1>2. TypeOK'
  <2>1. seen' \in [Readers -> NoData .. MaxCommits]
    BY DEF DropReadablePtr, RcuInv, TypeOK
  <2> QED BY <1>1, <2>1
    DEF DropReadablePtr, ReaderUnchanged, storageVars, writerVars, RcuInv, TypeOK, ReaderOk
<1>3. ASSUME NEW s \in Readers PROVE ReaderOk(s)'
  BY <1>1, ReaderFrame
     DEF DropReadablePtr, ReaderUnchanged, storageVars, writerVars, RcuInv, TypeOK, ReaderOk, DataOk, Published
<1> QED BY <1>1, <1>2, <1>3, ReaderFrame DEF RcuInv

\* A writer that starts has mutex_ and no record.
LEMMA StartWriteRcu == ASSUME Given, RcuInv, NEW w \in Writers, StartWrite(w)
  PROVE RcuInv'
<1> USE DEF Given, RcuAssumption, NoData, NoRecord, Records, Unheld
<1> USE DEF WriterUnchanged, storageVars, writerVars, readerVars
<1>0. TypeOK /\ PlaceOk /\ DataOk /\ (\A v \in Writers : WriterOk(v)) /\ (\A t \in Readers : ReaderOk(t))
  BY DEF RcuInv
<1>1. TypeOK'
  BY <1>0 DEF StartWrite, TypeOK
<1>2. ASSUME NEW v \in Writers PROVE WriterOk(v)'
  BY <1>0 DEF StartWrite, TypeOK, WriterOk
<1>3. PlaceOk'
  BY <1>0 DEF StartWrite, TypeOK, WriterOk, PlaceOk
<1>4. DataOk'
  BY <1>0, <1>2 DEF StartWrite, TypeOK, WriterOk, PlaceOk, DataOk, Published
<1>5. ASSUME NEW t \in Readers PROVE ReaderOk(t)'
  BY <1>0, <1>2 DEF StartWrite, TypeOK, WriterOk, PlaceOk, DataOk, ReaderOk,
              Published
<1> QED BY <1>1, <1>2, <1>3, <1>4, <1>5 DEF RcuInv

\* The record of the copy was free or is new: no reader has it, published it cannot be.
LEMMA EmplaceSnapshotRcu == ASSUME Given, RcuInv, NEW w \in Writers, NEW r \in Records, EmplaceSnapshot(w, r)
  PROVE RcuInv'
<1> USE DEF Given, RcuAssumption, NoData, NoRecord, Records, Unheld
<1> USE DEF WriterUnchanged, storageVars, writerVars, readerVars
<1>0. TypeOK /\ PlaceOk /\ DataOk /\ (\A v \in Writers : WriterOk(v)) /\ (\A t \in Readers : ReaderOk(t))
  BY DEF RcuInv
<1>1. TypeOK'
  BY <1>0 DEF EmplaceSnapshot, Obtained, TypeOK
<1>2. ASSUME NEW v \in Writers PROVE WriterOk(v)'
  BY <1>0 DEF EmplaceSnapshot, Obtained, TypeOK, WriterOk
<1>3. PlaceOk'
  <2>1. \A v \in Writers : v # w => wrec[v] = NoRecord /\ wrec'[v] = NoRecord
    BY <1>0, OneWriter DEF EmplaceSnapshot, TypeOK
  <2>2. wrec'[w] = r
    BY <1>0 DEF EmplaceSnapshot, TypeOK
  <2>3. /\ free' = free \ {r} /\ handles' = handles /\ retired' = retired /\ current' = current
        /\ (r \in free /\ size' = size) \/ (r = size + 1 /\ size' = size + 1)
        /\ r \notin handles /\ r \notin retired /\ r # current /\ wrec[w] = NoRecord
    <3>1. /\ free' = free \ {r} /\ handles' = handles /\ retired' = retired /\ current' = current
          /\ size' = IF r > size THEN r ELSE size
          /\ r \in free \/ r = size + 1
      BY DEF EmplaceSnapshot, Obtained
    <3>2. wrec[w] = NoRecord /\ size \in Nat
      <4>1. WriterOk(w) /\ wpc[w] = "emplace"
        BY <1>0 DEF EmplaceSnapshot
      <4> QED BY <1>0, <4>1 DEF WriterOk, TypeOK
    <3>3. r \in free => r <= size
      BY <1>0 DEF PlaceOk
    <3>4. r \notin handles /\ r \notin retired /\ r # current
      BY <1>0, <3>1, <3>2 DEF PlaceOk, TypeOK
    <3> QED BY <3>1, <3>2, <3>3, <3>4
  <2>4. size \in Nat /\ NoRecord \notin free \cup handles \cup retired \cup {current}
    BY <1>0 DEF TypeOK
  <2>5. wrec[w] \notin free \cup handles \cup retired \cup {current}
    BY <1>0 DEF PlaceOk
  <2>6. current \notin free \cup handles \cup retired
    BY <1>0 DEF PlaceOk, TypeOK
  <2>7. ASSUME NEW q \in Records
        PROVE  q <= size <=> q \in free \/ q \in handles \/ q \in retired \/ q = current \/ wrec[w] = q
    <3>1. (\E v \in Writers : wrec[v] = q) <=> wrec[w] = q
      BY <2>1
    <3> QED BY <1>0, <3>1 DEF PlaceOk
  <2>8. ASSUME NEW v \in Writers PROVE wrec'[v] \notin free' \cup handles' \cup retired' \cup {current'}
    <3>1. wrec'[v] \in {NoRecord, r}
      BY <2>1, <2>2
    <3> QED BY <2>3, <2>4, <2>5, <2>6, <3>1
  <2>9. ASSUME NEW q \in Records
        PROVE  /\ q \in free' => q \notin handles' /\ q \notin retired' /\ q # current'
               /\ q \in handles' => q \notin retired' /\ q # current'
               /\ q \in retired' => q # current'
    BY <1>0, <2>3, <2>5 DEF PlaceOk
  <2>10. ASSUME NEW q \in Records
         PROVE  q <= size' <=> \/ q \in free' \/ q \in handles' \/ q \in retired' \/ q = current'
                               \/ \E v \in Writers : wrec'[v] = q
    <3>1. (\E v \in Writers : wrec'[v] = q) <=> r = q
      BY <2>1, <2>2
    <3>2. CASE r \in free /\ size' = size
      BY <2>3, <2>7, <3>1, <3>2
    <3>3. CASE r = size + 1 /\ size' = size + 1
      <4>1. q <= size' <=> q <= size \/ q = r
        BY <2>4, <3>3
      <4>2. r \notin free
        BY <1>0, <2>4, <3>3 DEF PlaceOk
      <4> QED BY <2>3, <2>7, <3>1, <4>1, <4>2
    <3> QED BY <2>3, <3>2, <3>3
  <2> QED BY <2>8, <2>9, <2>10 DEF PlaceOk
<1>4. DataOk'
  BY <1>0, <1>2 DEF EmplaceSnapshot, Obtained, TypeOK, WriterOk, PlaceOk, DataOk, Published
<1>5. ASSUME NEW t \in Readers PROVE ReaderOk(t)'
  BY <1>0, <1>2 DEF EmplaceSnapshot, Obtained, TypeOK, WriterOk, PlaceOk, DataOk, ReaderOk,
              Published
<1> QED BY <1>1, <1>2, <1>3, <1>4, <1>5 DEF RcuInv

\* A copy that throws leaves the record free and empty.
LEMMA EmplaceThrowsRcu == ASSUME Given, RcuInv, NEW w \in Writers, NEW r \in Records, EmplaceThrows(w, r)
  PROVE RcuInv'
<1> USE DEF Given, RcuAssumption, NoData, NoRecord, Records, Unheld
<1> USE DEF WriterUnchanged, storageVars, writerVars, readerVars
<1>0. TypeOK /\ PlaceOk /\ DataOk /\ (\A v \in Writers : WriterOk(v)) /\ (\A t \in Readers : ReaderOk(t))
  BY DEF RcuInv
<1>1. TypeOK'
  BY <1>0 DEF EmplaceThrows, Obtained, TypeOK
<1>2. ASSUME NEW v \in Writers PROVE WriterOk(v)'
  BY <1>0 DEF EmplaceThrows, Obtained, TypeOK, WriterOk
<1>3. PlaceOk'
  BY <1>0 DEF EmplaceThrows, Obtained, TypeOK, WriterOk, PlaceOk
<1>4. DataOk'
  BY <1>0, <1>2 DEF EmplaceThrows, Obtained, TypeOK, WriterOk, PlaceOk, DataOk, Published
<1>5. ASSUME NEW t \in Readers PROVE ReaderOk(t)'
  BY <1>0, <1>2 DEF EmplaceThrows, Obtained, TypeOK, WriterOk, PlaceOk, DataOk, ReaderOk,
              Published
<1> QED BY <1>1, <1>2, <1>3, <1>4, <1>5 DEF RcuInv

\* Commit(): the copy becomes the current record, the old one is the writer's to retire.
LEMMA StoreCurrentRcu == ASSUME Given, RcuInv, NEW w \in Writers, StoreCurrent(w)
  PROVE RcuInv'
<1> USE DEF Given, RcuAssumption, NoData, NoRecord, Records, Unheld
<1> USE DEF WriterUnchanged, storageVars, writerVars, readerVars
<1>0. TypeOK /\ PlaceOk /\ DataOk /\ (\A v \in Writers : WriterOk(v)) /\ (\A t \in Readers : ReaderOk(t))
  BY DEF RcuInv
<1>1. TypeOK'
  <2>1. data' \in [Records -> NoData .. MaxCommits] /\ commits' \in 0 .. MaxCommits
    BY <1>0 DEF StoreCurrent, TypeOK, WriterOk, DataOk
  <2>2. free' \subseteq Records /\ handles' \subseteq Records /\ retired' \subseteq Records
    BY <1>0 DEF StoreCurrent, TypeOK, WriterOk
  <2> QED BY <1>0, <2>1, <2>2 DEF StoreCurrent, TypeOK, WriterOk
<1>2. ASSUME NEW v \in Writers PROVE WriterOk(v)'
  BY <1>0 DEF StoreCurrent, TypeOK, WriterOk
<1>3. PlaceOk'
  <2>1. \A v \in Writers : v # w => wrec[v] = NoRecord /\ wrec'[v] = NoRecord
    BY <1>0, OneWriter DEF StoreCurrent, TypeOK
  <2>2. wrec'[w] = current
    BY <1>0 DEF StoreCurrent, TypeOK
  <2>3. /\ free' = free /\ handles' = handles /\ retired' = retired /\ size' = size
        /\ current' = wrec[w] /\ wrec[w] \in Records
    BY <1>0, OneWriter DEF StoreCurrent, TypeOK, WriterOk, PlaceOk
  <2>4. size \in Nat /\ NoRecord \notin free \cup handles \cup retired \cup {current}
    BY <1>0 DEF TypeOK
  <2>5. wrec[w] \notin free \cup handles \cup retired \cup {current}
    BY <1>0 DEF PlaceOk
  <2>6. current \notin free \cup handles \cup retired
    BY <1>0 DEF PlaceOk, TypeOK
  <2>7. ASSUME NEW q \in Records
        PROVE  q <= size <=> q \in free \/ q \in handles \/ q \in retired \/ q = current \/ wrec[w] = q
    <3>1. (\E v \in Writers : wrec[v] = q) <=> wrec[w] = q
      BY <2>1
    <3> QED BY <1>0, <3>1 DEF PlaceOk
  <2>8. ASSUME NEW v \in Writers PROVE wrec'[v] \notin free' \cup handles' \cup retired' \cup {current'}
    <3>1. wrec'[v] \in {NoRecord, current}
      BY <2>1, <2>2
    <3> QED BY <2>3, <2>4, <2>5, <2>6, <3>1
  <2>9. ASSUME NEW q \in Records
        PROVE  /\ q \in free' => q \notin handles' /\ q \notin retired' /\ q # current'
               /\ q \in handles' => q \notin retired' /\ q # current'
               /\ q \in retired' => q # current'
    BY <1>0, <2>3, <2>5 DEF PlaceOk
  <2>10. ASSUME NEW q \in Records
         PROVE  q <= size' <=> \/ q \in free' \/ q \in handles' \/ q \in retired' \/ q = current'
                               \/ \E v \in Writers : wrec'[v] = q
    <3>1. (\E v \in Writers : wrec'[v] = q) <=> current = q
      BY <2>1, <2>2
    <3> QED BY <2>3, <2>4, <2>7, <3>1
  <2> QED BY <2>8, <2>9, <2>10 DEF PlaceOk
<1>4. DataOk'
  BY <1>0, <1>2 DEF StoreCurrent, TypeOK, WriterOk, PlaceOk, DataOk, Published
<1>5. ASSUME NEW t \in Readers PROVE ReaderOk(t)'
  <2>1. ASSUME NEW r \in Records, Published(r) PROVE Published(r)' /\ data'[r] = data[r]
    <3>1. wrec[w] \in Records /\ r # wrec[w]
      BY <1>0, <2>1, OneWriter DEF StoreCurrent, PlaceOk, Published
    <3>2. data'[r] = data[r]
      BY <1>0, <3>1 DEF StoreCurrent, TypeOK
    <3>3. r = current \/ r \in retired
      BY <2>1, OneWriter DEF StoreCurrent, Published
    <3>4. wpc'[w] = "retire" /\ wrec'[w] = current /\ retired' = retired
      BY <1>0 DEF StoreCurrent, TypeOK
    <3> QED BY <3>2, <3>3, <3>4 DEF Published
  <2>2. UNCHANGED <<lockers, rpc, rrec, rold, seen>>
    BY DEF StoreCurrent
  <2> QED BY <2>1, <2>2, ReaderKept
<1> QED BY <1>1, <1>2, <1>3, <1>4, <1>5 DEF RcuInv

\* The retired record moves from the writer to the list.
LEMMA RetireRcu == ASSUME Given, RcuInv, NEW w \in Writers, Retire(w)
  PROVE RcuInv'
<1> USE DEF Given, RcuAssumption, NoData, NoRecord, Records, Unheld
<1> USE DEF WriterUnchanged, storageVars, writerVars, readerVars
<1>0. TypeOK /\ PlaceOk /\ DataOk /\ (\A v \in Writers : WriterOk(v)) /\ (\A t \in Readers : ReaderOk(t))
  BY DEF RcuInv
<1>1. TypeOK'
  <2>1. data' \in [Records -> NoData .. MaxCommits] /\ commits' \in 0 .. MaxCommits
    BY <1>0 DEF Retire, TypeOK, WriterOk, DataOk
  <2>2. free' \subseteq Records /\ handles' \subseteq Records /\ retired' \subseteq Records
    BY <1>0 DEF Retire, TypeOK, WriterOk
  <2> QED BY <1>0, <2>1, <2>2 DEF Retire, TypeOK, WriterOk
<1>2. ASSUME NEW v \in Writers PROVE WriterOk(v)'
  BY <1>0 DEF Retire, TypeOK, WriterOk
<1>3. PlaceOk'
  <2>1. \A v \in Writers : v # w => wrec[v] = NoRecord /\ wrec'[v] = NoRecord
    BY <1>0, OneWriter DEF Retire, TypeOK
  <2>2. wrec'[w] = NoRecord
    BY <1>0 DEF Retire, TypeOK
  <2>3. /\ free' = free /\ handles' = handles /\ retired' = retired \cup {wrec[w]} /\ size' = size
        /\ current' = current /\ wrec[w] \in Records
    BY <1>0, OneWriter DEF Retire, TypeOK, WriterOk, PlaceOk
  <2>4. size \in Nat /\ NoRecord \notin free \cup handles \cup retired \cup {current}
    BY <1>0 DEF TypeOK
  <2>5. wrec[w] \notin free \cup handles \cup retired \cup {current}
    BY <1>0 DEF PlaceOk
  <2>6. current \notin free \cup handles \cup retired
    BY <1>0 DEF PlaceOk, TypeOK
  <2>7. ASSUME NEW q \in Records
        PROVE  q <= size <=> q \in free \/ q \in handles \/ q \in retired \/ q = current \/ wrec[w] = q
    <3>1. (\E v \in Writers : wrec[v] = q) <=> wrec[w] = q
      BY <2>1
    <3> QED BY <1>0, <3>1 DEF PlaceOk
  <2>8. ASSUME NEW v \in Writers PROVE wrec'[v] \notin free' \cup handles' \cup retired' \cup {current'}
    <3>1. wrec'[v] \in {NoRecord, NoRecord}
      BY <2>1, <2>2
    <3> QED BY <2>3, <2>4, <2>5, <2>6, <3>1
  <2>9. ASSUME NEW q \in Records
        PROVE  /\ q \in free' => q \notin handles' /\ q \notin retired' /\ q # current'
               /\ q \in handles' => q \notin retired' /\ q # current'
               /\ q \in retired' => q # current'
    BY <1>0, <2>3, <2>5 DEF PlaceOk
  <2>10. ASSUME NEW q \in Records
         PROVE  q <= size' <=> \/ q \in free' \/ q \in handles' \/ q \in retired' \/ q = current'
                               \/ \E v \in Writers : wrec'[v] = q
    <3>1. (\E v \in Writers : wrec'[v] = q) <=> NoRecord = q
      BY <2>1, <2>2
    <3> QED BY <2>3, <2>4, <2>7, <3>1
  <2> QED BY <2>8, <2>9, <2>10 DEF PlaceOk
<1>4. DataOk'
  BY <1>0, <1>2 DEF Retire, TypeOK, WriterOk, PlaceOk, DataOk, Published
<1>5. ASSUME NEW t \in Readers PROVE ReaderOk(t)'
  BY <1>0, <1>2 DEF Retire, TypeOK, WriterOk, PlaceOk, DataOk, ReaderOk,
              Published
<1> QED BY <1>1, <1>2, <1>3, <1>4, <1>5 DEF RcuInv

\* A record leaves the retired list only without a holder.
LEMMA ScanRetiredListRcu == ASSUME Given, RcuInv, NEW w \in Writers, NEW r \in Records, ScanRetiredList(w, r)
  PROVE RcuInv'
<1> USE DEF Given, RcuAssumption, NoData, NoRecord, Records, Unheld
<1> USE DEF WriterUnchanged, storageVars, writerVars, readerVars
<1>0. TypeOK /\ PlaceOk /\ DataOk /\ (\A v \in Writers : WriterOk(v)) /\ (\A t \in Readers : ReaderOk(t))
  BY DEF RcuInv
<1>1. TypeOK'
  <2>1. data' \in [Records -> NoData .. MaxCommits] /\ commits' \in 0 .. MaxCommits
    BY <1>0 DEF ScanRetiredList, DeleteSnapshot, TypeOK, WriterOk, DataOk
  <2>2. free' \subseteq Records /\ handles' \subseteq Records /\ retired' \subseteq Records
    BY <1>0 DEF ScanRetiredList, DeleteSnapshot, TypeOK, WriterOk
  <2> QED BY <1>0, <2>1, <2>2 DEF ScanRetiredList, TypeOK, WriterOk
<1>2. ASSUME NEW v \in Writers PROVE WriterOk(v)'
  BY <1>0 DEF ScanRetiredList, DeleteSnapshot, TypeOK, WriterOk
<1>3. PlaceOk'
  <2>1. \A v \in Writers : v # w => wrec[v] = NoRecord /\ wrec'[v] = NoRecord
    BY <1>0, OneWriter DEF ScanRetiredList, TypeOK
  <2>2. wrec'[w] = wrec[w]
    BY <1>0 DEF ScanRetiredList, TypeOK
  <2>3. /\ current' = current /\ size' = size /\ r \in retired
        /\ \/ retired' = retired \ {r} /\ handles' = handles \cup {r} /\ free' = free
           \/ retired' = retired \ {r} /\ handles' = handles /\ free' = free \cup {r}
           \/ retired' = retired /\ handles' = handles /\ free' = free
    BY <1>0, OneWriter DEF ScanRetiredList, DeleteSnapshot, TypeOK, WriterOk, PlaceOk
  <2>4. size \in Nat /\ NoRecord \notin free \cup handles \cup retired \cup {current}
    BY <1>0 DEF TypeOK
  <2>5. wrec[w] \notin free \cup handles \cup retired \cup {current}
    BY <1>0 DEF PlaceOk
  <2>6. current \notin free \cup handles \cup retired
    BY <1>0 DEF PlaceOk, TypeOK
  <2>7. ASSUME NEW q \in Records
        PROVE  q <= size <=> q \in free \/ q \in handles \/ q \in retired \/ q = current \/ wrec[w] = q
    <3>1. (\E v \in Writers : wrec[v] = q) <=> wrec[w] = q
      BY <2>1
    <3> QED BY <1>0, <3>1 DEF PlaceOk
  <2>8. ASSUME NEW v \in Writers PROVE wrec'[v] \notin free' \cup handles' \cup retired' \cup {current'}
    <3>1. wrec'[v] \in {NoRecord, wrec[w]}
      BY <2>1, <2>2
    <3> QED BY <2>3, <2>4, <2>5, <2>6, <3>1
  <2>9. ASSUME NEW q \in Records
        PROVE  /\ q \in free' => q \notin handles' /\ q \notin retired' /\ q # current'
               /\ q \in handles' => q \notin retired' /\ q # current'
               /\ q \in retired' => q # current'
    BY <1>0, <2>3, <2>5 DEF PlaceOk
  <2>10. ASSUME NEW q \in Records
         PROVE  q <= size' <=> \/ q \in free' \/ q \in handles' \/ q \in retired' \/ q = current'
                               \/ \E v \in Writers : wrec'[v] = q
    <3>1. (\E v \in Writers : wrec'[v] = q) <=> wrec[w] = q
      BY <2>1, <2>2
    <3> QED BY <2>3, <2>4, <2>7, <3>1
  <2> QED BY <2>8, <2>9, <2>10 DEF PlaceOk
<1>4. DataOk'
  BY <1>0, <1>2 DEF ScanRetiredList, DeleteSnapshot, TypeOK, WriterOk, PlaceOk, DataOk, Published
<1>5. ASSUME NEW t \in Readers PROVE ReaderOk(t)'
  BY <1>0, <1>2 DEF ScanRetiredList, DeleteSnapshot, TypeOK, WriterOk, PlaceOk, DataOk, ReaderOk,
              Published
<1> QED BY <1>1, <1>2, <1>3, <1>4, <1>5 DEF RcuInv

\* The scan ends.
LEMMA ScanEndsRcu == ASSUME Given, RcuInv, NEW w \in Writers, ScanEnds(w)
  PROVE RcuInv'
<1> USE DEF Given, RcuAssumption, NoData, NoRecord, Records, Unheld
<1> USE DEF WriterUnchanged, storageVars, writerVars, readerVars
<1>0. TypeOK /\ PlaceOk /\ DataOk /\ (\A v \in Writers : WriterOk(v)) /\ (\A t \in Readers : ReaderOk(t))
  BY DEF RcuInv
<1>1. TypeOK'
  BY <1>0 DEF ScanEnds, TypeOK
<1>2. ASSUME NEW v \in Writers PROVE WriterOk(v)'
  BY <1>0 DEF ScanEnds, TypeOK, WriterOk
<1>3. PlaceOk'
  BY <1>0 DEF ScanEnds, TypeOK, WriterOk, PlaceOk
<1>4. DataOk'
  BY <1>0, <1>2 DEF ScanEnds, TypeOK, WriterOk, PlaceOk, DataOk, Published
<1>5. ASSUME NEW t \in Readers PROVE ReaderOk(t)'
  BY <1>0, <1>2 DEF ScanEnds, TypeOK, WriterOk, PlaceOk, DataOk, ReaderOk,
              Published
<1> QED BY <1>1, <1>2, <1>3, <1>4, <1>5 DEF RcuInv

\* A copy that is not committed was never published.
LEMMA AbandonRcu == ASSUME Given, RcuInv, NEW w \in Writers, Abandon(w)
  PROVE RcuInv'
<1> USE DEF Given, RcuAssumption, NoData, NoRecord, Records, Unheld
<1> USE DEF WriterUnchanged, storageVars, writerVars, readerVars
<1>0. TypeOK /\ PlaceOk /\ DataOk /\ (\A v \in Writers : WriterOk(v)) /\ (\A t \in Readers : ReaderOk(t))
  BY DEF RcuInv
<1>1. TypeOK'
  <2>1. wrec[w] \in Records
    BY OneWriter DEF Abandon
  <2>2. CASE IsAsync
    BY <1>0, <2>1, <2>2 DEF Abandon, DeleteSnapshot, TypeOK
  <2>3. CASE ~IsAsync
    <3>0. data \in [Records -> NoData .. MaxCommits] /\ NoData \in NoData .. MaxCommits
      BY <1>0 DEF TypeOK
    <3>1. data' \in [Records -> NoData .. MaxCommits] /\ free' = free \cup {wrec[w]}
      BY <2>1, <2>3, <3>0 DEF Abandon, DeleteSnapshot
    <3> QED BY <1>0, <2>1, <2>3, <3>1 DEF Abandon, DeleteSnapshot, TypeOK
  <2> QED BY <2>2, <2>3
<1>2. ASSUME NEW v \in Writers PROVE WriterOk(v)'
  BY <1>0 DEF Abandon, DeleteSnapshot, TypeOK, WriterOk
<1>3. PlaceOk'
  <2>1. \A v \in Writers : v # w => wrec[v] = NoRecord /\ wrec'[v] = NoRecord
    BY <1>0, OneWriter DEF Abandon, TypeOK
  <2>2. wrec'[w] = NoRecord
    BY <1>0 DEF Abandon, TypeOK
  <2>3. /\ current' = current /\ size' = size /\ retired' = retired /\ wrec[w] \in Records
        /\ \/ handles' = handles \cup {wrec[w]} /\ free' = free
           \/ handles' = handles /\ free' = free \cup {wrec[w]}
    BY <1>0, OneWriter DEF Abandon, DeleteSnapshot, TypeOK, WriterOk, PlaceOk
  <2>4. size \in Nat /\ NoRecord \notin free \cup handles \cup retired \cup {current}
    BY <1>0 DEF TypeOK
  <2>5. wrec[w] \notin free \cup handles \cup retired \cup {current}
    BY <1>0 DEF PlaceOk
  <2>6. current \notin free \cup handles \cup retired
    BY <1>0 DEF PlaceOk, TypeOK
  <2>7. ASSUME NEW q \in Records
        PROVE  q <= size <=> q \in free \/ q \in handles \/ q \in retired \/ q = current \/ wrec[w] = q
    <3>1. (\E v \in Writers : wrec[v] = q) <=> wrec[w] = q
      BY <2>1
    <3> QED BY <1>0, <3>1 DEF PlaceOk
  <2>8. ASSUME NEW v \in Writers PROVE wrec'[v] \notin free' \cup handles' \cup retired' \cup {current'}
    <3>1. wrec'[v] \in {NoRecord, NoRecord}
      BY <2>1, <2>2
    <3> QED BY <2>3, <2>4, <2>5, <2>6, <3>1
  <2>9. ASSUME NEW q \in Records
        PROVE  /\ q \in free' => q \notin handles' /\ q \notin retired' /\ q # current'
               /\ q \in handles' => q \notin retired' /\ q # current'
               /\ q \in retired' => q # current'
    BY <1>0, <2>3, <2>5 DEF PlaceOk
  <2>10. ASSUME NEW q \in Records
         PROVE  q <= size' <=> \/ q \in free' \/ q \in handles' \/ q \in retired' \/ q = current'
                               \/ \E v \in Writers : wrec'[v] = q
    <3>1. (\E v \in Writers : wrec'[v] = q) <=> NoRecord = q
      BY <2>1, <2>2
    <3> QED BY <2>3, <2>4, <2>7, <3>1
  <2> QED BY <2>8, <2>9, <2>10 DEF PlaceOk
<1>4. DataOk'
  BY <1>0, <1>2 DEF Abandon, DeleteSnapshot, TypeOK, WriterOk, PlaceOk, DataOk, Published
<1>5. ASSUME NEW t \in Readers PROVE ReaderOk(t)'
  <2>1. ASSUME NEW r \in Records, Published(r) PROVE Published(r)' /\ data'[r] = data[r]
    <3>1. wrec[w] \in Records /\ r # wrec[w]
      BY <1>0, <2>1, OneWriter DEF Abandon, PlaceOk, Published
    <3>2. data'[r] = data[r]
      BY <1>0, <3>1 DEF Abandon, DeleteSnapshot, TypeOK
    <3>3. r = current \/ r \in retired
      BY <2>1, OneWriter DEF Abandon, Published
    <3>4. current' = current /\ retired' = retired
      BY <1>0 DEF Abandon, TypeOK
    <3> QED BY <3>2, <3>3, <3>4 DEF Published
  <2>2. UNCHANGED <<lockers, rpc, rrec, rold, seen>>
    BY DEF Abandon
  <2> QED BY <2>1, <2>2, ReaderKept
<1> QED BY <1>1, <1>2, <1>3, <1>4, <1>5 DEF RcuInv

\* mutex_ is given back with no record kept.
LEMMA UnlockRcu == ASSUME Given, RcuInv, NEW w \in Writers, Unlock(w)
  PROVE RcuInv'
<1> USE DEF Given, RcuAssumption, NoData, NoRecord, Records, Unheld
<1> USE DEF WriterUnchanged, storageVars, writerVars, readerVars
<1>0. TypeOK /\ PlaceOk /\ DataOk /\ (\A v \in Writers : WriterOk(v)) /\ (\A t \in Readers : ReaderOk(t))
  BY DEF RcuInv
<1>1. TypeOK'
  BY <1>0 DEF Unlock, TypeOK
<1>2. ASSUME NEW v \in Writers PROVE WriterOk(v)'
  BY <1>0 DEF Unlock, TypeOK, WriterOk
<1>3. PlaceOk'
  BY <1>0 DEF Unlock, TypeOK, WriterOk, PlaceOk
<1>4. DataOk'
  BY <1>0, <1>2 DEF Unlock, TypeOK, WriterOk, PlaceOk, DataOk, Published
<1>5. ASSUME NEW t \in Readers PROVE ReaderOk(t)'
  BY <1>0, <1>2 DEF Unlock, TypeOK, WriterOk, PlaceOk, DataOk, ReaderOk,
              Published
<1> QED BY <1>1, <1>2, <1>3, <1>4, <1>5 DEF RcuInv

\* Cleanup() scans under mutex_.
LEMMA CleanupRcu == ASSUME Given, RcuInv, NEW w \in Writers, Cleanup(w)
  PROVE RcuInv'
<1> USE DEF Given, RcuAssumption, NoData, NoRecord, Records, Unheld
<1> USE DEF WriterUnchanged, storageVars, writerVars, readerVars
<1>0. TypeOK /\ PlaceOk /\ DataOk /\ (\A v \in Writers : WriterOk(v)) /\ (\A t \in Readers : ReaderOk(t))
  BY DEF RcuInv
<1>1. TypeOK'
  BY <1>0 DEF Cleanup, TypeOK
<1>2. ASSUME NEW v \in Writers PROVE WriterOk(v)'
  BY <1>0 DEF Cleanup, TypeOK, WriterOk
<1>3. PlaceOk'
  BY <1>0 DEF Cleanup, TypeOK, WriterOk, PlaceOk
<1>4. DataOk'
  BY <1>0, <1>2 DEF Cleanup, TypeOK, WriterOk, PlaceOk, DataOk, Published
<1>5. ASSUME NEW t \in Readers PROVE ReaderOk(t)'
  BY <1>0, <1>2 DEF Cleanup, TypeOK, WriterOk, PlaceOk, DataOk, ReaderOk,
              Published
<1> QED BY <1>1, <1>2, <1>3, <1>4, <1>5 DEF RcuInv

\* The deleter resets a record nobody has.
LEMMA ResetDataRcu == ASSUME Given, RcuInv, NEW r \in Records, ResetData(r)
  PROVE RcuInv'
<1> USE DEF Given, RcuAssumption, NoData, NoRecord, Records, Unheld
<1> USE DEF WriterUnchanged, storageVars, writerVars, readerVars
<1>0. TypeOK /\ PlaceOk /\ DataOk /\ (\A v \in Writers : WriterOk(v)) /\ (\A t \in Readers : ReaderOk(t))
  BY DEF RcuInv
<1>1. TypeOK'
  <2>1. data' \in [Records -> NoData .. MaxCommits] /\ commits' \in 0 .. MaxCommits
    BY <1>0 DEF ResetData, TypeOK, WriterOk, DataOk
  <2>2. free' \subseteq Records /\ handles' \subseteq Records /\ retired' \subseteq Records
    BY <1>0 DEF ResetData, TypeOK, WriterOk
  <2> QED BY <1>0, <2>1, <2>2 DEF ResetData, TypeOK, WriterOk
<1>2. ASSUME NEW v \in Writers PROVE WriterOk(v)'
  BY <1>0 DEF ResetData, TypeOK, WriterOk
<1>3. PlaceOk'
  BY <1>0 DEF ResetData, TypeOK, WriterOk, PlaceOk
<1>4. DataOk'
  BY <1>0, <1>2 DEF ResetData, TypeOK, WriterOk, PlaceOk, DataOk, Published
<1>5. ASSUME NEW t \in Readers PROVE ReaderOk(t)'
  BY <1>0, <1>2 DEF ResetData, TypeOK, WriterOk, PlaceOk, DataOk, ReaderOk,
              Published
<1> QED BY <1>1, <1>2, <1>3, <1>4, <1>5 DEF RcuInv

\* The deleter hands a record over that it has reset.
LEMMA PushFreeRcu == ASSUME Given, RcuInv, NEW r \in Records, PushFree(r)
  PROVE RcuInv'
<1> USE DEF Given, RcuAssumption, NoData, NoRecord, Records, Unheld
<1> USE DEF WriterUnchanged, storageVars, writerVars, readerVars
<1>0. TypeOK /\ PlaceOk /\ DataOk /\ (\A v \in Writers : WriterOk(v)) /\ (\A t \in Readers : ReaderOk(t))
  BY DEF RcuInv
<1>1. TypeOK'
  <2>1. data' \in [Records -> NoData .. MaxCommits] /\ commits' \in 0 .. MaxCommits
    BY <1>0 DEF PushFree, TypeOK, WriterOk, DataOk
  <2>2. free' \subseteq Records /\ handles' \subseteq Records /\ retired' \subseteq Records
    BY <1>0 DEF PushFree, TypeOK, WriterOk
  <2> QED BY <1>0, <2>1, <2>2 DEF PushFree, TypeOK, WriterOk
<1>2. ASSUME NEW v \in Writers PROVE WriterOk(v)'
  BY <1>0 DEF PushFree, TypeOK, WriterOk
<1>3. PlaceOk'
  BY <1>0 DEF PushFree, TypeOK, WriterOk, PlaceOk
<1>4. DataOk'
  BY <1>0, <1>2 DEF PushFree, TypeOK, WriterOk, PlaceOk, DataOk, Published
<1>5. ASSUME NEW t \in Readers PROVE ReaderOk(t)'
  BY <1>0, <1>2 DEF PushFree, TypeOK, WriterOk, PlaceOk, DataOk, ReaderOk,
              Published
<1> QED BY <1>1, <1>2, <1>3, <1>4, <1>5 DEF RcuInv

----------------------------------------------------------------------------

\* Every step of readers, writers and the deleter preserves the invariant.
LEMMA NextRcu == ASSUME Given, RcuInv, [Next]_vars PROVE RcuInv'
<1>1. ASSUME NEW t \in Readers, ReaderStep(t) PROVE RcuInv'
  BY <1>1, LoadCurrentRcu, GetLockRcu, DropOldLockRcu, CheckCurrentRcu, DropReadablePtrRcu DEF ReaderStep
<1>2. ASSUME NEW w \in Writers,
             \/ StartWrite(w) \/ StoreCurrent(w) \/ Retire(w) \/ ScanEnds(w)
             \/ Abandon(w) \/ Unlock(w) \/ Cleanup(w)
      PROVE  RcuInv'
  BY <1>2, StartWriteRcu, StoreCurrentRcu, RetireRcu, ScanEndsRcu, AbandonRcu, UnlockRcu, CleanupRcu
<1>3. ASSUME NEW w \in Writers, NEW r \in Records,
             EmplaceSnapshot(w, r) \/ EmplaceThrows(w, r) \/ ScanRetiredList(w, r)
      PROVE  RcuInv'
  BY <1>3, EmplaceSnapshotRcu, EmplaceThrowsRcu, ScanRetiredListRcu
<1>4. ASSUME NEW r \in Records, ResetData(r) \/ PushFree(r) PROVE RcuInv'
  BY <1>4, ResetDataRcu, PushFreeRcu
<1>5. CASE UNCHANGED vars
  <2> USE DEF vars, storageVars, writerVars, readerVars
  <2>1. TypeOK' /\ PlaceOk' /\ \A w \in Writers : WriterOk(w)'
    BY <1>5 DEF RcuInv, TypeOK, PlaceOk, WriterOk
  <2>2. \A r : Published(r)' = Published(r)
    BY <1>5 DEF Published
  <2>3. DataOk'
    BY <1>5, <2>2 DEF RcuInv, DataOk
  <2>4. \A t \in Readers : ReaderOk(t)'
    BY <1>5, <2>2 DEF RcuInv, ReaderOk
  <2> QED BY <2>1, <2>3, <2>4 DEF RcuInv
<1> QED BY <1>1, <1>2, <1>3, <1>4, <1>5 DEF Next

\* rcu::Variable keeps its invariant: a record is locked before it is trusted, retired
\* before it is deleted, and deleted only without holders.
THEOREM RcuInvariant == ASSUME Given PROVE Spec => []RcuInv
<1>1. RcuInv /\ [Next]_vars => RcuInv'
  BY NextRcu
<1> QED BY <1>1, InitRcu, PTL DEF Spec

\* A ReadablePtr refers to the value it was given as long as it lives, whatever is
\* committed, retired, deleted and recycled in the meantime.
THEOREM ReaderValueKept == ASSUME Given PROVE Spec => []ReaderKeepsValue
<1>1. RcuInv => ReaderKeepsValue
  BY DEF RcuInv, ReaderOk, DataOk, ReaderKeepsValue
<1> QED BY <1>1, RcuInvariant, PTL

\* The current value has every committed change: writers, also those that give up or
\* whose copy throws, never overwrite each other.
THEOREM UpdatesKept == ASSUME Given PROVE Spec => []NoLostUpdate
<1>1. RcuInv => NoLostUpdate
  BY DEF RcuInv, DataOk, NoLostUpdate
<1> QED BY <1>1, RcuInvariant, PTL

\* A place of the record r.
PlacesOf(r) == {p \in {"current", "retired", "handle", "free"} :
                  \/ p = "current" /\ r = current
                  \/ p = "retired" /\ r \in retired
                  \/ p = "handle" /\ r \in handles
                  \/ p = "free" /\ r \in free}

\* Every allocated record is in one place, with one owner, and what is free is empty:
\* no record leaks and none is deleted or reused twice.
THEOREM RecordInOnePlace == ASSUME Given PROVE Spec => []RecordsAccounted
<1>1. ASSUME RcuInv, NEW r \in 1 .. size
      PROVE  Cardinality(PlacesOf(r)) + Cardinality({w \in Writers : wrec[w] = r}) = 1
  <2>0. r \in Records /\ r # NoRecord
    BY <1>1 DEF Given, RcuAssumption, RcuInv, TypeOK, Records, NoRecord
  <2>1. CASE \E w \in Writers : wrec[w] = r
    <3>1. PICK w \in Writers : wrec[w] = r
      BY <2>1
    <3>2. \A v \in Writers : wrec[v] = r => v = w
      BY <1>1, <2>0, <3>1 DEF RcuInv, WriterOk
    <3>3. {v \in Writers : wrec[v] = r} = {w}
      BY <3>1, <3>2
    <3>4. PlacesOf(r) = {}
      BY <1>1, <3>1 DEF RcuInv, PlaceOk, PlacesOf
    <3>5. Cardinality({w}) = 1 /\ Cardinality({}) = 0
      BY FS_Singleton, FS_EmptySet
    <3> QED BY <3>3, <3>4, <3>5
  <2>2. CASE ~ \E w \in Writers : wrec[w] = r
    <3>1. {v \in Writers : wrec[v] = r} = {}
      BY <2>2
    <3>2. r \in free \/ r \in handles \/ r \in retired \/ r = current
      BY <1>1, <2>0, <2>2 DEF RcuInv, PlaceOk
    <3>3. /\ r \in free => r \notin handles /\ r \notin retired /\ r # current
          /\ r \in handles => r \notin retired /\ r # current
          /\ r \in retired => r # current
      BY <1>1, <2>0 DEF RcuInv, PlaceOk
    <3>4. \E p : PlacesOf(r) = {p}
      <4>1. r \in free => PlacesOf(r) = {"free"}
        BY <3>3 DEF PlacesOf
      <4>2. r \in handles => PlacesOf(r) = {"handle"}
        BY <3>3 DEF PlacesOf
      <4>3. r \in retired => PlacesOf(r) = {"retired"}
        BY <3>3 DEF PlacesOf
      <4>4. r = current => PlacesOf(r) = {"current"}
        BY <3>3 DEF PlacesOf
      <4> QED BY <3>2, <4>1, <4>2, <4>3, <4>4
    <3>5. Cardinality(PlacesOf(r)) = 1
      BY <3>4, FS_Singleton
    <3>6. Cardinality({w \in Writers : wrec[w] = r}) = 0
      BY <3>1, FS_EmptySet
    <3> QED BY <3>5, <3>6
  <2> QED BY <2>1, <2>2
<1>2. ASSUME RcuInv, NEW r \in free PROVE data[r] = NoData
  BY <1>2 DEF RcuInv, TypeOK, DataOk
<1>3. RcuInv => RecordsAccounted
  BY <1>1, <1>2 DEF RecordsAccounted, PlacesOf
<1> QED BY <1>3, RcuInvariant, PTL
=============================================================================
