--------------------------- MODULE WakeupsProofs ---------------------------
(***************************************************************************)
(* Mutex, SingleConsumerEvent, SingleWaitingTaskMutex, ConditionVariable,   *)
(* SharedMutex and the work stealing queue for any number of tasks and      *)
(* calls: who may be inside, and that nobody sleeps beside what it waits    *)
(* for.                                                                     *)
(*                                                                         *)
(* Exclusion needs little: owner_ alone decides, so that its proof for      *)
(* Mutex mentions neither the list nor sleepies_ nor who is woken; the      *)
(* permits of SharedMutex are counted. No lost wakeup depends on all of it: *)
(* a count of sleepers that is exact, a list that holds who sleeps without  *)
(* a notification and nobody twice, and for each wait somebody who will     *)
(* notify or try again.                                                     *)
(***************************************************************************)
EXTENDS MCWakeups, FiniteSetTheorems, SequenceTheorems, TLAPS

----------------------------------------------------------------------------
(* Mutex: mutual exclusion *)

\* The types of what exclusion depends on.
ExclusionType ==
  /\ owner \in Tasks \cup {NoTask}
  /\ result \in [Tasks -> BOOLEAN]
  /\ pc \in [Tasks -> Pcs]

ExclusionInv == ExclusionType /\ MutualExclusion

\* A step of t that lets nobody in, or lets in t as the owner, and changes the
\* owner only from nobody to t, keeps exclusion.
LEMMA EntryKeeps ==
  ASSUME ExclusionInv, NEW t \in Tasks,
         ExclusionType',
         \A u \in Tasks \ {t} : pc'[u] = pc[u] /\ result'[u] = result[u],
         owner' = owner \/ (owner = NoTask /\ owner' = t),
         Inside(t)' => owner' = t
  PROVE  ExclusionInv'
BY MutexAssumption DEF ExclusionInv, MutualExclusion, Inside, ExclusionType

\* A step of t that moves it somewhere and writes its result keeps the types.
LEMMA MoveType ==
  ASSUME ExclusionType, NEW t \in Tasks, NEW l \in Pcs, NEW r \in BOOLEAN,
         pc' = [pc EXCEPT ![t] = l],
         result' = result \/ result' = [result EXCEPT ![t] = r],
         owner' \in Tasks \cup {NoTask}
  PROVE  /\ ExclusionType'
         /\ pc'[t] = l
         /\ result'[t] = result[t] \/ result'[t] = r
         /\ \A u \in Tasks \ {t} : pc'[u] = pc[u] /\ result'[u] = result[u]
BY DEF ExclusionType

\* Exclusion survives every step of a task.
LEMMA StepExclusion ==
  ASSUME ExclusionInv, NEW t \in Tasks,
         TryLock(t) \/ TryLockUntil(t) \/ Step(t) \/ DeadlineTimer(t)
  PROVE  ExclusionInv'
<1> USE DEF ExclusionInv
<1>1. CASE TryLock(t)
  <2>1. CASE owner # NoTask
    <3>1. result' = [result EXCEPT ![t] = FALSE] /\ UNCHANGED <<owner, pc>> /\ pc[t] = "idle"
      BY <1>1, <2>1 DEF TryLock
    <3>2. ExclusionType' /\ \A u \in Tasks \ {t} : pc'[u] = pc[u] /\ result'[u] = result[u]
      BY <3>1 DEF ExclusionType
    <3> QED BY <3>1, <3>2, EntryKeeps DEF Inside
  <2>2. CASE owner = NoTask
    <3>1. pc' = [pc EXCEPT ![t] = "locked"] /\ result' = [result EXCEPT ![t] = TRUE] /\ owner' = t
      BY <1>1, <2>2 DEF TryLock, Goto
    <3>2. ExclusionType' /\ \A u \in Tasks \ {t} : pc'[u] = pc[u] /\ result'[u] = result[u]
      BY <3>1, MoveType DEF Pcs
    <3> QED BY <2>2, <3>1, <3>2, EntryKeeps
  <2> QED BY <2>1, <2>2
<1>2. CASE TryLockUntil(t)
  <2>1. pc' = [pc EXCEPT ![t] = "lock"] /\ UNCHANGED <<owner, result>>
    BY <1>2 DEF TryLockUntil, Goto
  <2> QED BY <2>1, MoveType, EntryKeeps DEF Pcs, Inside, ExclusionType
<1>3. CASE LockFastPath(t) \/ TryUnderLock(t)
  <2>1. \E l \in {"locked", "count", "load", "append"} :
          /\ pc' = [pc EXCEPT ![t] = l]
          /\ l = "locked" => owner' = t
    BY <1>3 DEF LockFastPath, TryUnderLock, Goto
  <2>2. /\ owner' = owner \/ (owner = NoTask /\ owner' = t)
        /\ result' = result \/ result' = [result EXCEPT ![t] = TRUE]
    BY <1>3 DEF LockFastPath, TryUnderLock
  <2>3. PICK l \in {"locked", "count", "load", "append"} :
          /\ pc' = [pc EXCEPT ![t] = l]
          /\ l = "locked" => owner' = t
    BY <2>1
  <2>4. /\ ExclusionType' /\ pc'[t] = l
        /\ \A u \in Tasks \ {t} : pc'[u] = pc[u] /\ result'[u] = result[u]
    BY <2>2, <2>3, MoveType DEF Pcs, ExclusionType
  <2>5. Inside(t)' => owner' = t
    BY <2>3, <2>4 DEF Inside
  <2> QED BY <2>2, <2>4, <2>5, EntryKeeps
<1>4. CASE \/ CountSleepy(t) \/ AppendAwaiter(t) \/ Suspend(t) \/ Resume(t) \/ RemoveAwaiter(t)
           \/ UnlockCheckSleepies(t) \/ NotifyOne(t)
  <2>1. /\ \E l \in {"try", "suspend", "asleep", "remove", "load", "notify", "idle"} :
             pc' = [pc EXCEPT ![t] = l]
        /\ UNCHANGED <<owner, result>>
    BY <1>4 DEF CountSleepy, AppendAwaiter, Suspend, Resume, RemoveAwaiter, UnlockCheckSleepies, NotifyOne, Goto
  <2>2. PICK l \in {"try", "suspend", "asleep", "remove", "load", "notify", "idle"} :
          pc' = [pc EXCEPT ![t] = l]
    BY <2>1
  <2>3. /\ ExclusionType' /\ pc'[t] = l
        /\ \A u \in Tasks \ {t} : pc'[u] = pc[u] /\ result'[u] = result[u]
    BY <2>1, <2>2, MoveType DEF Pcs, ExclusionType
  <2> QED BY <2>1, <2>2, <2>3, EntryKeeps DEF Inside
<1>5. CASE LoadOwner(t)
  <2>1. /\ \/ pc' = [pc EXCEPT ![t] = "try"] /\ result' = result
           \/ pc' = [pc EXCEPT ![t] = "leave"] /\ result' = [result EXCEPT ![t] = TRUE] /\ owner = t
           \/ pc' = [pc EXCEPT ![t] = "leave"] /\ result' = [result EXCEPT ![t] = FALSE]
        /\ owner' = owner
    BY <1>5 DEF LoadOwner, Goto
  <2>2. ExclusionType' /\ \A u \in Tasks \ {t} : pc'[u] = pc[u] /\ result'[u] = result[u]
    BY <2>1, MoveType DEF Pcs, ExclusionType
  <2>3. Inside(t)' => owner' = t
    BY <2>1 DEF Inside, ExclusionType
  <2> QED BY <2>1, <2>2, <2>3, EntryKeeps
<1>6. CASE LeaveSlowPath(t)
  <2>1. /\ \E l \in {"locked", "idle"} :
             /\ pc' = [pc EXCEPT ![t] = l]
             /\ l = "locked" => Inside(t)
        /\ UNCHANGED <<owner, result>>
    BY <1>6 DEF LeaveSlowPath, Goto, Inside
  <2>2. PICK l \in {"locked", "idle"} :
          /\ pc' = [pc EXCEPT ![t] = l]
          /\ l = "locked" => Inside(t)
    BY <2>1
  <2>3. /\ ExclusionType' /\ pc'[t] = l
        /\ \A u \in Tasks \ {t} : pc'[u] = pc[u] /\ result'[u] = result[u]
    BY <2>1, <2>2, MoveType DEF Pcs, ExclusionType
  <2>4. Inside(t)' => owner' = t
    BY <2>1, <2>2, <2>3 DEF Inside, MutualExclusion
  <2> QED BY <2>1, <2>3, <2>4, EntryKeeps
<1>7. CASE Unlock(t)
  <2>1. pc[t] = "locked" /\ owner' = NoTask /\ pc' = [pc EXCEPT ![t] = "check"] /\ result' = result
    BY <1>7 DEF Unlock, Goto
  <2>2. /\ ExclusionType' /\ pc'[t] = "check"
        /\ \A u \in Tasks \ {t} : pc'[u] = pc[u] /\ result'[u] = result[u]
    BY <2>1, MoveType DEF Pcs, ExclusionType
  <2>3. \A u \in Tasks : ~Inside(u)'
    BY <2>1, <2>2 DEF Inside, MutualExclusion
  <2> QED BY <2>2, <2>3 DEF MutualExclusion
<1>8. CASE DeadlineTimer(t)
  BY <1>8 DEF DeadlineTimer, ExclusionType, MutualExclusion, Inside
<1> QED BY <1>1, <1>2, <1>3, <1>4, <1>5, <1>6, <1>7, <1>8 DEF Step

\* A task that a lock function has let in is the owner, whoever was woken,
\* timed out or was about to enter: two tasks are never inside.
THEOREM Exclusion == Spec => []MutualExclusion
<1>1. Init => ExclusionInv
  BY DEF Init, ExclusionInv, ExclusionType, MutualExclusion, Inside, Pcs
<1>2. ExclusionInv /\ [Next]_vars => ExclusionInv'
  <2>1. CASE Next
    BY <2>1, StepExclusion DEF Next
  <2>2. CASE UNCHANGED vars
    BY <2>2 DEF vars, ExclusionInv, ExclusionType, MutualExclusion, Inside
  <2> QED BY <2>1, <2>2
<1>3. ExclusionInv => MutualExclusion
  BY DEF ExclusionInv
<1> QED BY <1>1, <1>2, <1>3, PTL DEF Spec

----------------------------------------------------------------------------
(* Mutex: no lost wakeup *)

\* The tasks that have counted themselves in sleepies_.
SlowPcs == {"try", "append", "suspend", "asleep", "remove", "load", "leave"}
Slow == {t \in Tasks : pc[t] \in SlowPcs}

ListedPcs == {"suspend", "asleep", "remove"}

\* sleepies_ is exact.
Counted == IsFiniteSet(Slow) /\ sleepies = Cardinality(Slow)

\* The list holds tasks that sleep or are about to, each once.
Listed ==
  /\ \A i \in 1 .. Len(list) : pc[list[i]] \in ListedPcs
  /\ \A i, j \in 1 .. Len(list) : list[i] = list[j] => i = j

\* NoLostWakeup, of the task that is about to enter the list too.
HandedOn ==
  owner = NoTask /\ (list # <<>> \/ ~ListFree) => \E t \in Tasks : Responsible(t)

WaitInv == TypeOK /\ Counted /\ Listed /\ HandedOn

\* What is left of the list when one entry is unlinked.
LEMMA UnlinkedRest ==
  ASSUME NEW s \in Seq(Tasks), NEW i \in 1 .. Len(s)
  PROVE  /\ Unlinked(s, i) \in Seq(Tasks)
         /\ Len(Unlinked(s, i)) = Len(s) - 1
         /\ \A j \in 1 .. Len(s) - 1 : Unlinked(s, i)[j] = s[IF j < i THEN j ELSE j + 1]
BY DEF Unlinked

\* A step in the slow path or outside of it leaves the count exact.
LEMMA KeepsCount ==
  ASSUME TypeOK, Counted, NEW t \in Tasks, NEW l, pc' = [pc EXCEPT ![t] = l],
         pc[t] \in SlowPcs <=> l \in SlowPcs, sleepies' = sleepies
  PROVE  Counted'
<1>1. Slow' = Slow
  BY DEF Slow, TypeOK
<1> QED BY <1>1 DEF Counted

\* A step that leaves the list alone, and moves nobody in it out of reach.
LEMMA KeepsList ==
  ASSUME TypeOK, Listed, NEW t \in Tasks, NEW l, pc' = [pc EXCEPT ![t] = l],
         pc[t] \in ListedPcs => l \in ListedPcs, list' = list
  PROVE  Listed'
BY DEF Listed, TypeOK

\* A step that leaves the owner, the list and the signals alone hands nothing on if t
\* stays responsible, and does not begin an entry.
LEMMA KeepsHanded ==
  ASSUME TypeOK, HandedOn, NEW t \in Tasks, NEW l, pc' = [pc EXCEPT ![t] = l],
         Responsible(t) => Responsible(t)', l = "append" => owner # NoTask,
         UNCHANGED <<owner, list, signals>>
  PROVE  HandedOn'
<1>1. \A u \in Tasks : u # t => (Responsible(u)' <=> Responsible(u))
  BY DEF Responsible, TypeOK
<1>2. owner' = NoTask /\ ~ListFree' => ~ListFree
  BY DEF ListFree, TypeOK
<1> QED BY <1>1, <1>2 DEF HandedOn

\* The invariant survives every step of a task.
LEMMA StepWait ==
  ASSUME WaitInv, NEW t \in Tasks,
         TryLock(t) \/ TryLockUntil(t) \/ Step(t) \/ DeadlineTimer(t)
  PROVE  WaitInv'
<1> USE DEF WaitInv
<1>0. MaxLocks \in Nat /\ NoTask \notin Tasks
  BY MutexAssumption
<1>1. CASE TryLock(t)
  <2>1. TypeOK'
    <3>1. locks' \in [Tasks -> 0 .. MaxLocks]
      BY <1>0, <1>1 DEF TryLock, TypeOK
    <3>2. /\ owner' \in Tasks \cup {NoTask} /\ result' \in [Tasks -> BOOLEAN] /\ pc' \in [Tasks -> Pcs]
          /\ UNCHANGED <<sleepies, list, signals, timed>>
      BY <1>1 DEF TryLock, TypeOK, Goto, Pcs
    <3> QED BY <3>1, <3>2 DEF TypeOK
  <2>2. CASE owner # NoTask
    BY <1>1, <2>1, <2>2 DEF TryLock, Counted, Slow, Listed, HandedOn
  <2>3. CASE owner = NoTask
    <3>1. pc' = [pc EXCEPT ![t] = "locked"] /\ pc[t] = "idle" /\ owner' # NoTask /\ UNCHANGED <<sleepies, list>>
      BY <1>0, <1>1, <2>3 DEF TryLock, Goto
    <3> QED BY <3>1, <2>1, KeepsCount, KeepsList DEF HandedOn, SlowPcs, ListedPcs
  <2> QED BY <2>2, <2>3
<1>2. CASE TryLockUntil(t)
  <2>1. TypeOK'
    BY <1>0, <1>2 DEF TryLockUntil, TypeOK, Goto, Pcs
  <2>2. pc' = [pc EXCEPT ![t] = "lock"] /\ pc[t] = "idle" /\ UNCHANGED <<owner, sleepies, list, signals>>
    BY <1>2 DEF TryLockUntil, Goto
  <2> QED BY <2>1, <2>2, KeepsCount, KeepsList, KeepsHanded DEF SlowPcs, ListedPcs, Responsible
<1>3. CASE LockFastPath(t)
  <2>1. TypeOK'
    BY <1>3 DEF LockFastPath, TypeOK, Goto, Pcs
  <2>2. CASE owner = NoTask
    <3>1. pc' = [pc EXCEPT ![t] = "locked"] /\ pc[t] = "lock" /\ owner' # NoTask /\ UNCHANGED <<sleepies, list>>
      BY <1>0, <1>3, <2>2 DEF LockFastPath, Goto
    <3> QED BY <3>1, <2>1, KeepsCount, KeepsList DEF HandedOn, SlowPcs, ListedPcs
  <2>3. CASE owner # NoTask
    <3>1. pc' = [pc EXCEPT ![t] = "count"] /\ pc[t] = "lock" /\ UNCHANGED <<owner, sleepies, list, signals>>
      BY <1>3, <2>3 DEF LockFastPath, Goto
    <3> QED BY <3>1, <2>1, KeepsCount, KeepsList, KeepsHanded DEF SlowPcs, ListedPcs, Responsible
  <2> QED BY <2>2, <2>3
<1>4. CASE CountSleepy(t)
  <2>1. TypeOK'
    BY <1>4 DEF CountSleepy, TypeOK, Goto, Pcs
  <2>2. pc' = [pc EXCEPT ![t] = "try"] /\ pc[t] = "count" /\ UNCHANGED <<owner, list, signals>>
    BY <1>4 DEF CountSleepy, Goto
  <2>3. Counted'
    <3>1. Slow' = Slow \cup {t} /\ t \notin Slow
      BY <2>2 DEF Slow, SlowPcs, TypeOK
    <3>2. IsFiniteSet(Slow \cup {t}) /\ Cardinality(Slow \cup {t}) = Cardinality(Slow) + 1
      BY <3>1, FS_AddElement DEF Counted
    <3> QED BY <3>1, <3>2, <1>4 DEF Counted, CountSleepy
  <2> QED BY <2>1, <2>2, <2>3, KeepsList, KeepsHanded DEF ListedPcs, Responsible
<1>5. CASE TryUnderLock(t)
  <2>1. TypeOK'
    BY <1>5 DEF TryUnderLock, TypeOK, Goto, Pcs
  <2>2. /\ \E l \in {"load", "append"} : pc' = [pc EXCEPT ![t] = l]
        /\ pc[t] = "try" /\ owner' # NoTask /\ UNCHANGED <<sleepies, list>>
    BY <1>0, <1>5 DEF TryUnderLock, Goto
  <2> QED BY <2>1, <2>2, KeepsCount, KeepsList DEF HandedOn, SlowPcs, ListedPcs
<1>6. CASE AppendAwaiter(t)
  <2>1. TypeOK'
    BY <1>6 DEF AppendAwaiter, TypeOK, Goto, Pcs
  <2>2. pc' = [pc EXCEPT ![t] = "suspend"] /\ pc[t] = "append" /\ list' = Append(list, t) /\ UNCHANGED <<owner, sleepies, signals>>
    BY <1>6 DEF AppendAwaiter, Goto
  <2>3. Counted'
    BY <2>2, KeepsCount DEF SlowPcs
  <2>4. Listed'
    <3>1. /\ Len(list) \in Nat /\ Len(list') = Len(list) + 1 /\ list'[Len(list) + 1] = t
          /\ \A i \in 1 .. Len(list) : list'[i] = list[i] /\ list[i] \in Tasks
      BY <2>2 DEF TypeOK
    <3>2. \A i \in 1 .. Len(list) : list[i] # t
      BY <2>2 DEF Listed, ListedPcs
    <3>3. ASSUME NEW i \in 1 .. Len(list') PROVE pc'[list'[i]] \in ListedPcs
      <4>1. CASE i = Len(list) + 1
        BY <4>1, <3>1, <2>2 DEF TypeOK, ListedPcs
      <4>2. CASE i \in 1 .. Len(list)
        BY <4>2, <3>1, <3>2, <2>2 DEF TypeOK, Listed
      <4> QED BY <4>1, <4>2, <3>1
    <3>4. ASSUME NEW i \in 1 .. Len(list'), NEW j \in 1 .. Len(list'), list'[i] = list'[j] PROVE i = j
      <4>1. i \in 1 .. Len(list) \/ i = Len(list) + 1
        BY <3>1
      <4>2. j \in 1 .. Len(list) \/ j = Len(list) + 1
        BY <3>1
      <4> QED BY <4>1, <4>2, <3>1, <3>2, <3>4 DEF Listed
    <3> QED BY <3>3, <3>4 DEF Listed
  <2>5. HandedOn'
    <3>1. ~ListFree
      BY <2>2 DEF ListFree
    <3>2. \A u \in Tasks : Responsible(u) => u # t /\ Responsible(u)'
      BY <2>2 DEF Responsible, TypeOK
    <3> QED BY <2>2, <3>1, <3>2 DEF HandedOn
  <2> QED BY <2>1, <2>3, <2>4, <2>5
<1>7. CASE Suspend(t) \/ Resume(t)
  <2>1. TypeOK'
    BY <1>7 DEF Suspend, Resume, TypeOK, Goto, Pcs
  <2>2. PICK l \in {"asleep", "remove"} :
          /\ pc' = [pc EXCEPT ![t] = l] /\ pc[t] \in {"suspend", "asleep"}
          /\ UNCHANGED <<owner, sleepies, list, signals>>
    BY <1>7 DEF Suspend, Resume, Goto
  <2>3. Responsible(t) => Responsible(t)'
    BY <2>2 DEF Responsible, TypeOK
  <2> QED BY <2>1, <2>2, <2>3, KeepsCount, KeepsList, KeepsHanded DEF SlowPcs, ListedPcs
<1>8. CASE RemoveAwaiter(t)
  <2>1. /\ pc' = [pc EXCEPT ![t] = "load"] /\ pc[t] = "remove"
        /\ UNCHANGED <<owner, sleepies, signals, timed, locks, result>>
    BY <1>8 DEF RemoveAwaiter, Goto
  <2>2. \/ \E i \in 1 .. Len(list) : list[i] = t /\ list' = Unlinked(list, i)
        \/ (\A i \in 1 .. Len(list) : list[i] # t) /\ UNCHANGED list
    BY <1>8 DEF RemoveAwaiter
  <2>3. Counted'
    BY <2>1, KeepsCount DEF SlowPcs
  <2>4. Responsible(t) => Responsible(t)'
    BY <2>1 DEF Responsible, TypeOK
  <2>5. CASE (\A i \in 1 .. Len(list) : list[i] # t) /\ UNCHANGED list
    <3>1. TypeOK'
      BY <2>1, <2>5 DEF TypeOK, Pcs
    <3>2. Listed'
      BY <2>1, <2>5 DEF TypeOK, Listed
    <3> QED BY <2>1, <2>3, <2>4, <2>5, <3>1, <3>2, KeepsHanded
  <2>6. ASSUME NEW i \in 1 .. Len(list), list[i] = t, list' = Unlinked(list, i)
        PROVE  WaitInv'
    <3>1. /\ list' \in Seq(Tasks) /\ Len(list') = Len(list) - 1
          /\ \A j \in 1 .. Len(list) - 1 : list'[j] = list[IF j < i THEN j ELSE j + 1]
      BY <2>6, UnlinkedRest DEF TypeOK
    <3>2. TypeOK'
      BY <2>1, <3>1 DEF TypeOK, Pcs
    <3> DEFINE Old(j) == IF j < i THEN j ELSE j + 1
    <3>a. Len(list) \in Nat
      BY DEF TypeOK
    <3>b. \A j \in 1 .. Len(list') : Old(j) \in 1 .. Len(list) /\ Old(j) # i
      BY <3>1, <3>a
    <3>c. \A j, k \in 1 .. Len(list') : Old(j) = Old(k) => j = k
      BY <3>1, <3>a
    <3>d. \A j \in 1 .. Len(list') : list'[j] = list[Old(j)]
      BY <3>1, <3>a
    <3> HIDE DEF Old
    <3>3. \A j \in 1 .. Len(list') : list'[j] \in Tasks /\ list'[j] # t /\ pc'[list'[j]] \in ListedPcs
      <4>1. \A j \in 1 .. Len(list') : list'[j] \in Tasks /\ list'[j] # t
        BY <2>6, <3>1, <3>b, <3>d DEF Listed
      <4> QED BY <2>1, <4>1, <3>b, <3>d DEF Listed, TypeOK
    <3>4. \A j, k \in 1 .. Len(list') : list'[j] = list'[k] => j = k
      BY <3>b, <3>c, <3>d DEF Listed
    <3>5. HandedOn'
      <4>1. \A u \in Tasks : Responsible(u) => Responsible(u)'
        BY <2>1, <2>4 DEF Responsible, TypeOK
      <4>2. list # <<>>
        BY <2>6
      <4> QED BY <2>1, <4>1, <4>2 DEF HandedOn
    <3> QED BY <2>3, <3>2, <3>3, <3>4, <3>5 DEF Listed
  <2> QED BY <2>2, <2>5, <2>6
<1>9. CASE LoadOwner(t)
  <2>1. TypeOK'
    BY <1>9 DEF LoadOwner, TypeOK, Goto, Pcs
  <2>2. PICK l \in {"leave", "try"} :
          /\ pc' = [pc EXCEPT ![t] = l] /\ pc[t] = "load" /\ UNCHANGED <<owner, sleepies, list, signals>>
          /\ l = "leave" => owner = t \/ signals[t] = {"kDeadlineTimer"}
    BY <1>9 DEF LoadOwner, Goto
  <2>3. CASE owner = t
    BY <1>0, <2>1, <2>2, <2>3, KeepsCount, KeepsList DEF SlowPcs, ListedPcs, HandedOn
  <2>4. CASE owner # t
    <3>1. Responsible(t) => Responsible(t)'
      BY <2>2, <2>4 DEF Responsible, TypeOK
    <3> QED BY <2>1, <2>2, <3>1, KeepsCount, KeepsList, KeepsHanded DEF SlowPcs, ListedPcs
  <2> QED BY <2>3, <2>4
<1>10. CASE LeaveSlowPath(t)
  <2>1. PICK l \in {"locked", "idle"} :
          /\ pc' = [pc EXCEPT ![t] = l] /\ pc[t] = "leave" /\ UNCHANGED <<owner, list, timed, locks, result>>
          /\ sleepies' = sleepies - 1 /\ signals' = [signals EXCEPT ![t] = {}]
    BY <1>10 DEF LeaveSlowPath, Goto
  <2>2. Counted' /\ sleepies' \in Nat
    <3>1. Slow' = Slow \ {t} /\ t \in Slow
      BY <2>1 DEF Slow, SlowPcs, TypeOK
    <3>2. IsFiniteSet(Slow \ {t}) /\ Cardinality(Slow \ {t}) = Cardinality(Slow) - 1
      BY <3>1, FS_RemoveElement DEF Counted
    <3>3. Cardinality(Slow \ {t}) \in Nat
      BY <3>2, FS_CardinalityType
    <3> QED BY <3>1, <3>2, <3>3, <2>1 DEF Counted
  <2>3. TypeOK'
    BY <2>1, <2>2 DEF TypeOK, Pcs
  <2>4. Listed'
    BY <2>1, KeepsList DEF ListedPcs
  <2>5. HandedOn'
    <3>1. \A u \in Tasks : Responsible(u) => Responsible(u)'
      BY <2>1 DEF Responsible, TypeOK
    <3>2. ListFree => ListFree'
      BY <2>1 DEF ListFree, TypeOK
    <3> QED BY <2>1, <3>1, <3>2 DEF HandedOn
  <2> QED BY <2>2, <2>3, <2>4, <2>5
<1>11. CASE Unlock(t)
  <2>1. TypeOK'
    BY <1>11 DEF Unlock, TypeOK, Goto, Pcs
  <2>2. pc' = [pc EXCEPT ![t] = "check"] /\ pc[t] = "locked" /\ UNCHANGED <<sleepies, list>>
    BY <1>11 DEF Unlock, Goto
  <2>3. Responsible(t)'
    BY <2>2 DEF Responsible, TypeOK
  <2> QED BY <2>1, <2>2, <2>3, KeepsCount, KeepsList DEF SlowPcs, ListedPcs, HandedOn
<1>12. CASE UnlockCheckSleepies(t)
  <2>1. TypeOK'
    BY <1>12 DEF UnlockCheckSleepies, TypeOK, Goto, Pcs
  <2>2. PICK l \in {"notify", "idle"} :
          /\ pc' = [pc EXCEPT ![t] = l] /\ pc[t] = "check" /\ UNCHANGED <<owner, sleepies, list, signals>>
          /\ l = "idle" => ~(sleepies > 0)
    BY <1>12 DEF UnlockCheckSleepies, Goto
  <2>3. Counted' /\ Listed'
    BY <2>2, KeepsCount, KeepsList DEF SlowPcs, ListedPcs
  <2>4. CASE l = "notify"
    <3>1. Responsible(t)'
      BY <2>2, <2>4 DEF Responsible, TypeOK
    <3> QED BY <2>1, <2>2, <2>3, <2>4, <3>1, KeepsHanded
  <2>5. CASE l = "idle"
    <3>1. Slow = {}
      BY <2>2, <2>5, FS_EmptySet DEF Counted, TypeOK
    <3>2. list = <<>>
      <4>1. \A i \in 1 .. Len(list) : list[i] \in Slow
        BY DEF Listed, TypeOK, Slow, SlowPcs, ListedPcs
      <4>2. Len(list) = 0
        BY <4>1, <3>1 DEF TypeOK
      <4> QED BY <4>2 DEF TypeOK
    <3>3. ListFree'
      BY <2>2, <3>1 DEF ListFree, Slow, SlowPcs, TypeOK
    <3> QED BY <2>1, <2>2, <2>3, <3>2, <3>3 DEF HandedOn
  <2> QED BY <2>4, <2>5
<1>13. CASE NotifyOne(t)
  <2>1. pc' = [pc EXCEPT ![t] = "idle"] /\ pc[t] = "notify" /\ UNCHANGED <<owner, sleepies, timed, locks, result>>
    BY <1>13 DEF NotifyOne, Goto
  <2>2. Counted'
    BY <2>1, KeepsCount DEF SlowPcs
  <2>3. CASE list = <<>>
    <3>1. UNCHANGED <<list, signals>>
      BY <1>13, <2>3 DEF NotifyOne
    <3>2. ListFree'
      BY <1>13, <2>1 DEF NotifyOne, ListFree, TypeOK
    <3>3. TypeOK'
      BY <2>1, <3>1 DEF TypeOK, Pcs
    <3> QED BY <2>1, <2>2, <2>3, <3>1, <3>2, <3>3, KeepsList DEF HandedOn, ListedPcs
  <2>4. CASE list # <<>>
    <3>1. list' = Tail(list) /\ signals' = [signals EXCEPT ![Head(list)] = @ \cup {"kNotify"}]
      BY <1>13, <2>4 DEF NotifyOne
    <3>2. Len(list) > 0 /\ Head(list) = list[1] /\ Head(list) \in Tasks /\ pc[Head(list)] \in ListedPcs
      BY <2>4 DEF Listed, TypeOK
    <3>3. TypeOK'
      BY <2>1, <2>4, <3>1, <3>2 DEF TypeOK, Pcs
    <3>4. /\ Len(list') = Len(list) - 1
          /\ \A i \in 1 .. Len(list') : list'[i] = list[i + 1] /\ i + 1 \in 1 .. Len(list) /\ list'[i] \in Tasks
      BY <2>4, <3>1, <3>2 DEF TypeOK
    <3>5. Listed'
      <4>1. ASSUME NEW i \in 1 .. Len(list') PROVE pc'[list'[i]] \in ListedPcs
        <5>1. list'[i] \in Tasks /\ pc[list'[i]] \in ListedPcs
          BY <3>4 DEF Listed
        <5> QED BY <5>1, <2>1 DEF TypeOK, ListedPcs
      <4>2. ASSUME NEW i \in 1 .. Len(list'), NEW j \in 1 .. Len(list'), list'[i] = list'[j] PROVE i = j
        <5>1. i + 1 = j + 1
          BY <4>2, <3>4 DEF Listed
        <5> QED BY <5>1
      <4> QED BY <4>1, <4>2 DEF Listed
    <3>6. \E u \in Tasks : Responsible(u)'
      <4> DEFINE h == Head(list)
      <4>1. h \in Tasks /\ pc[h] \in ListedPcs /\ h # t
        BY <3>2, <2>1 DEF ListedPcs
      <4> HIDE DEF h
      <4>2. "kNotify" \in signals'[h]
        BY <3>1, <4>1 DEF TypeOK, h
      <4>3. pc'[h] \in {"suspend", "asleep", "remove", "load"}
        BY <2>1, <4>1 DEF TypeOK, ListedPcs
      <4> QED BY <4>1, <4>2, <4>3 DEF Responsible
    <3> QED BY <2>2, <3>3, <3>5, <3>6 DEF HandedOn
  <2> QED BY <2>3, <2>4
<1>14. CASE DeadlineTimer(t)
  <2>1. TypeOK'
    BY <1>14 DEF DeadlineTimer, TypeOK
  <2>2. \A u \in Tasks : Responsible(u) => Responsible(u)'
    BY <1>14 DEF DeadlineTimer, Responsible, TypeOK
  <2>3. Counted' /\ Listed' /\ (ListFree' <=> ListFree)
    BY <1>14 DEF DeadlineTimer, Counted, Slow, Listed, ListFree
  <2> QED BY <1>14, <2>1, <2>2, <2>3 DEF DeadlineTimer, HandedOn
<1> QED BY <1>1, <1>2, <1>3, <1>4, <1>5, <1>6, <1>7, <1>8, <1>9, <1>10, <1>11, <1>12, <1>13, <1>14 DEF Step

\* No wakeup of a lock function is lost: while the mutex is free and somebody is in the
\* list, some task is about to notify or to try, for any number of tasks, however
\* deadlines, notifications and unlock()s that skip the list are interleaved.
THEOREM NoWakeupLost == Spec => []NoLostWakeup
<1>1. Init => WaitInv
  <2>1. ASSUME Init PROVE Slow = {}
    BY <2>1 DEF Init, Slow, SlowPcs
  <2>2. ASSUME Init PROVE TypeOK /\ Listed /\ HandedOn
    BY <2>2, MutexAssumption DEF Init, TypeOK, Listed, HandedOn, ListFree, Pcs
  <2> QED BY <2>1, <2>2, FS_EmptySet DEF Init, WaitInv, Counted
<1>2. WaitInv /\ [Next]_vars => WaitInv'
  <2>1. CASE Next
    BY <2>1, StepWait DEF Next
  <2>2. CASE UNCHANGED vars
    BY <2>2 DEF vars, WaitInv, TypeOK, Counted, Slow, Listed, HandedOn, ListFree, Responsible
  <2> QED BY <2>1, <2>2
<1>3. WaitInv => NoLostWakeup
  BY DEF WaitInv, HandedOn, NoLostWakeup
<1> QED BY <1>1, <1>2, <1>3, PTL DEF Spec

----------------------------------------------------------------------------
(* SingleConsumerEvent, in both reset modes *)

\* A sleep has begun and its flags have not been looked at for the last time.
EvSleeping == {"append", "suspend", "asleep", "remove", "slept"}

\* The awaiter in the word is that of the present sleep, and is taken out before it ends.
EvWord == evWord > 0 => evWord = evEpoch /\ evPc \in {"suspend", "asleep", "remove"}

\* Senders carry epochs of this sleep or of earlier ones.
EvEpochs ==
  /\ \A s \in Senders : evCarried[s] <= evEpoch
  /\ evPc \in EvSleeping => evEpoch > 0
  /\ evPc \in {"check", "sleep"} => evEpoch < MaxWaits

\* A notification of this sleep, under way or delivered, has left the signal in the word.
EvNotified ==
  evPc \in EvSleeping /\ ("kNotify" \in evSignals \/ \E s \in Senders : evCarried[s] = evEpoch)
    => evWord = -1

EvInv ==
  /\ EV!TypeOK /\ EV!ReadyWhenNotified /\ EV!SignalKept /\ EV!NoLostSignal
  /\ EvWord /\ EvEpochs /\ EvNotified

\* A step of an event in one of the two modes.
EvNext == EV!Next \/ ME!ResetAndReturn

\* The two modes differ in what a successful wait leaves behind.
LEMMA EvModes == EV!Next \/ ME!Next => EvNext
BY DEF EvNext, EV!Next, ME!Next, EV!ConsumerStep, ME!ConsumerStep, EV!WaitUntil, ME!WaitUntil,
  EV!Reset, ME!Reset, EV!IsReady, ME!IsReady, EV!BeginSleep, ME!BeginSleep, EV!GetSignalOrAppend,
  ME!GetSignalOrAppend, EV!Suspend, ME!Suspend, EV!Resume, ME!Resume, EV!Remove, ME!Remove,
  EV!AfterSleep, ME!AfterSleep, EV!SetSignalAndNotifyOne, ME!SetSignalAndNotifyOne, EV!DoNotify,
  ME!DoNotify, EV!DeadlineTimer, ME!DeadlineTimer, EV!RequestCancel, ME!RequestCancel,
  EV!consumerVars, ME!consumerVars, EV!Empty, ME!Empty, EV!kSignaled, ME!kSignaled

\* The invariant of the event holds at the beginning.
LEMMA EvStarts == EV!Init => EvInv
<1> SUFFICES ASSUME EV!Init PROVE EvInv
  OBVIOUS
<1>1. MaxWaits \in Nat /\ MaxSends \in Nat
  BY WakeupsAssumption DEF EV!EventAssumption
<1>2. EV!TypeOK
  <2>1. evTimed \in BOOLEAN /\ evCancelled \in BOOLEAN /\ evUnread \in BOOLEAN
    BY Zenon DEF EV!Init
  <2>2. /\ evWord \in EV!kSignaled .. MaxWaits /\ evEpoch \in 0 .. MaxWaits /\ evPc \in EV!Pcs
        /\ evCarried \in [Senders -> EV!Empty .. MaxWaits] /\ evSends \in [Senders -> 0 .. MaxSends]
    BY <1>1 DEF EV!Init, EV!Empty, EV!kSignaled, EV!Pcs
  <2> QED BY <2>1, <2>2 DEF EV!TypeOK, EV!Init
<1>3. ~evUnread
  BY Zenon DEF EV!Init
<1> QED BY <1>1, <1>2, <1>3 DEF EV!Init, EvInv, EV!ReadyWhenNotified, EV!SignalKept, EV!NoLostSignal,
  EvWord, EvEpochs, EvNotified, EvSleeping, EV!Empty, EV!kSignaled

\* Every step of the consumer, of a sender, of the timer and of a cancellation keeps it.
LEMMA EvStep == EvInv /\ EvNext => EvInv'
<1> SUFFICES ASSUME EvInv, EvNext PROVE EvInv'
  OBVIOUS
<1>0. MaxWaits \in Nat /\ MaxSends \in Nat
  BY WakeupsAssumption DEF EV!EventAssumption
<1> USE <1>0 DEF EvInv, EV!TypeOK, EV!ReadyWhenNotified, EV!SignalKept, EV!NoLostSignal,
  EvWord, EvEpochs, EvNotified, EvSleeping, EV!Empty, EV!kSignaled, EV!Pcs
<1>1. CASE EV!WaitUntil
  BY <1>1 DEF EV!WaitUntil
<1>2. CASE EV!Reset
  <2>1. ~evUnread' /\ evUnread' \in BOOLEAN
    BY <1>2, Zenon DEF EV!Reset
  <2> QED BY <1>2, <2>1 DEF EV!Reset, EV!consumerVars
<1>3. CASE EV!IsReady
  BY <1>3 DEF EV!IsReady
<1>4. CASE EV!BeginSleep
  BY <1>4 DEF EV!BeginSleep
<1>5. CASE EV!GetSignalOrAppend
  BY <1>5 DEF EV!GetSignalOrAppend
<1>6. CASE EV!Suspend \/ EV!Resume
  <2>1. /\ evPc \in {"suspend", "asleep"} /\ evPc' \in {"asleep", "remove"}
        /\ evPc' = "asleep" => evSignals = {}
        /\ UNCHANGED <<evWord, evEpoch, evSignals, evTimed, evCancelled, evStatus, evCarried, evSends, evUnread>>
    BY <1>6 DEF EV!Suspend, EV!Resume
  <2> QED BY <2>1
<1>7. CASE EV!Remove
  BY <1>7 DEF EV!Remove
<1>8. CASE EV!AfterSleep
  BY <1>8 DEF EV!AfterSleep
<1>9. CASE EV!ResetAndReturn \/ ME!ResetAndReturn
  <2>1. /\ evPc = "reset" /\ evPc' = "idle" /\ evStatus' = "kReady"
        /\ UNCHANGED <<evEpoch, evSignals, evTimed, evCancelled, evCarried, evSends>>
    BY <1>9 DEF EV!ResetAndReturn, ME!ResetAndReturn
  <2>2. evWord = -1
    BY <2>1
  <2>3. \/ evWord' = 0 /\ ~evUnread'
        \/ evWord' = -1
    <3>1. CASE EV!ResetAndReturn
      <4>1. ~evUnread'
        BY <3>1, Zenon DEF EV!ResetAndReturn
      <4> QED BY <3>1, <4>1, <2>2 DEF EV!ResetAndReturn
    <3>2. CASE ME!ResetAndReturn
      BY <3>2, <2>2 DEF ME!ResetAndReturn
    <3> QED BY <1>9, <3>1, <3>2
  <2>4. evUnread' \in BOOLEAN
    BY <1>9, Zenon DEF EV!ResetAndReturn, ME!ResetAndReturn
  <2> QED BY <2>1, <2>2, <2>3, <2>4
<1>10. CASE \E s \in Senders : EV!SetSignalAndNotifyOne(s)
  BY <1>10 DEF EV!SetSignalAndNotifyOne, EV!consumerVars
<1>11. CASE \E s \in Senders : EV!DoNotify(s)
  BY <1>11 DEF EV!DoNotify, EV!consumerVars
<1>12. CASE EV!DeadlineTimer
  BY <1>12 DEF EV!DeadlineTimer, EV!consumerVars
<1>13. CASE EV!RequestCancel
  BY <1>13 DEF EV!RequestCancel, EV!consumerVars
<1> QED BY <1>1, <1>2, <1>3, <1>4, <1>5, <1>6, <1>7, <1>8, <1>9, <1>10, <1>11, <1>12, <1>13
  DEF EvNext, EV!Next, EV!ConsumerStep

----------------------------------------------------------------------------
(* SingleWaitingTaskMutex *)

LmWaiting == {"append", "look", "back", "suspend", "asleep", "remove"}

\* The owner is inside, or about to find that it is.
LmOwner == \A t \in Pair : lmOwner = t => lmPc[t] \in {"locked", "load"}

\* One task waits: the other saw an owner, and it can only be this one.
LmAlone == \A t, u \in Pair : lmPc[t] \in LmWaiting /\ lmPc[u] \in LmWaiting => t = u

\* The word is empty or holds the awaiter of a task.
LmWord == lmWord # LM!NoAwaiter => lmWord.task \in Pair

\* What an unlock() took out is the awaiter of a task.
LmCarried == \A u \in Pair : lmPc[u] = "notify" => lmCarried[u].task \in Pair

\* A task that goes to sleep without a signal is in the word, or with who will notify it.
LmKept ==
  \A t \in Pair : lmPc[t] \in {"look", "back", "suspend", "asleep"} /\ "kNotify" \notin lmSignals[t] =>
    lmWord = LM!Mine(t) \/ \E u \in Pair : lmPc[u] = "notify" /\ lmCarried[u] = LM!Mine(t)

\* Who looked at the owner after its entry either saw one, or left the word to the exchange.
LmExchange ==
  \A t \in Pair : lmPc[t] \in {"suspend", "asleep"} /\ lmWord = LM!Mine(t) /\ lmOwner = NoTask =>
    \E u \in Pair : lmPc[u] = "exchange"

LmInv ==
  /\ LM!TypeOK /\ LM!MutualExclusion /\ LM!WordIsOfWaiter
  /\ LmOwner /\ LmAlone /\ LmWord /\ LmCarried /\ LmKept /\ LmExchange

\* The invariant of the mutex holds at the beginning.
LEMMA LmStarts == LM!Init => LmInv
<1>1. MaxLocks \in Nat /\ NoTask \notin Pair
  BY WakeupsAssumption DEF LM!LightMutexAssumption
<1> QED BY <1>1 DEF LM!Init, LmInv, LM!TypeOK, LM!MutualExclusion, LM!WordIsOfWaiter, LmOwner, LmAlone, LmWord,
  LmCarried, LmKept, LmExchange, LmWaiting, LM!NoAwaiter, LM!Pcs

\* Every step of a task and of its timer keeps it.
LEMMA LmStep == LmInv /\ LM!Next => LmInv'
<1> SUFFICES ASSUME LmInv, NEW t \in Pair,
                    LM!TryLockUntil(t) \/ LM!Step(t) \/ LM!DeadlineTimer(t)
             PROVE  LmInv'
  BY DEF LM!Next
<1>0. /\ MaxLocks \in Nat /\ NoTask \notin Pair
      /\ \A u, v, w \in Pair : u = v \/ v = w \/ u = w
  BY WakeupsAssumption DEF LM!LightMutexAssumption
<1> USE <1>0 DEF LmInv
<1>1. CASE LM!TryLockUntil(t)
  BY <1>1 DEF LM!TryLockUntil, LM!Goto, LM!TypeOK, LM!MutualExclusion, LM!WordIsOfWaiter, LmOwner,
    LmAlone, LmWord, LmCarried, LmKept, LmExchange, LmWaiting, LM!NoAwaiter, LM!Pcs, LM!Mine, LM!callVars
<1>2. CASE LM!LockFastPath(t)
  <2>1. LM!TypeOK'
    BY <1>2 DEF LM!LockFastPath, LM!Goto, LM!callVars, LM!TypeOK, LM!Pcs, LM!NoAwaiter, LM!Mine
  <2>2. LM!MutualExclusion' /\ LmOwner'
    BY <1>2 DEF LM!LockFastPath, LM!Goto, LM!callVars, LM!TypeOK, LM!MutualExclusion, LmOwner
  <2>3. LmAlone'
    BY <1>2 DEF LM!LockFastPath, LM!Goto, LM!callVars, LM!TypeOK, LmOwner, LmAlone, LmWaiting
  <2>4. LM!WordIsOfWaiter' /\ LmWord'
    BY <1>2 DEF LM!LockFastPath, LM!Goto, LM!callVars, LM!TypeOK, LM!WordIsOfWaiter, LmWord, LmAlone, LmWaiting, LM!NoAwaiter, LM!Mine
  <2>5. LmCarried'
    BY <1>2 DEF LM!LockFastPath, LM!Goto, LM!callVars, LM!TypeOK, LM!WordIsOfWaiter, LmWord, LmCarried, LM!NoAwaiter
  <2>6. LmKept'
    BY <1>2 DEF LM!LockFastPath, LM!Goto, LM!callVars, LM!TypeOK, LM!WordIsOfWaiter, LmKept, LM!Mine, LM!NoAwaiter
  <2>7. LmExchange'
    BY <1>2 DEF LM!LockFastPath, LM!Goto, LM!callVars, LM!TypeOK, LM!WordIsOfWaiter, LmKept, LmExchange, LM!Mine, LM!NoAwaiter
  <2> QED BY <2>1, <2>2, <2>3, <2>4, <2>5, <2>6, <2>7
<1>3. CASE LM!TryLockAgain(t)
  <2>1. LM!TypeOK'
    BY <1>3 DEF LM!TryLockAgain, LM!Goto, LM!callVars, LM!TypeOK, LM!Pcs, LM!NoAwaiter, LM!Mine
  <2>2. LM!MutualExclusion' /\ LmOwner'
    BY <1>3 DEF LM!TryLockAgain, LM!Goto, LM!callVars, LM!TypeOK, LM!MutualExclusion, LmOwner
  <2>3. lmPc[t] = "sleep" /\ \E l \in {"load", "append"} : lmPc' = [lmPc EXCEPT ![t] = l] /\ (l = "append" => lmOwner # NoTask)
    BY <1>3 DEF LM!TryLockAgain, LM!Goto
  <2>4. ASSUME lmOwner # NoTask, NEW u \in Pair PROVE lmPc[u] \notin LmWaiting
    BY <2>3, <2>4 DEF LM!TypeOK, LmOwner, LmWaiting
  <2>a. LmAlone'
    BY <2>3, <2>4 DEF LM!TypeOK, LmAlone, LmWaiting
  <2>b. LM!WordIsOfWaiter' /\ LmWord'
    <3>1. lmWord' = lmWord /\ \A u \in Pair \ {t} : lmEpoch'[u] = lmEpoch[u] /\ lmPc'[u] = lmPc[u]
      BY <1>3, <2>3 DEF LM!TryLockAgain, LM!TypeOK
    <3>2. lmWord # LM!NoAwaiter => lmWord.task \in Pair \ {t} /\ lmPc[lmWord.task] \in LmWaiting
      BY <2>3 DEF LM!WordIsOfWaiter, LmWord, LmWaiting
    <3>3. \A u \in Pair : lmPc'[u] = "append" => lmWord = LM!NoAwaiter
      BY <2>3, <2>4, <3>1, <3>2 DEF LM!TypeOK, LM!WordIsOfWaiter
    <3> QED BY <3>1, <3>2, <3>3 DEF LM!WordIsOfWaiter, LmWord, LM!Mine, LM!NoAwaiter
  <2>5. LmCarried'
    BY <1>3 DEF LM!TryLockAgain, LM!Goto, LM!callVars, LM!TypeOK, LM!WordIsOfWaiter, LmWord, LmCarried, LM!NoAwaiter
  <2>6. LmKept'
    BY <1>3 DEF LM!TryLockAgain, LM!Goto, LM!callVars, LM!TypeOK, LM!WordIsOfWaiter, LmKept, LM!Mine, LM!NoAwaiter
  <2>7. LmExchange'
    BY <1>3 DEF LM!TryLockAgain, LM!Goto, LM!callVars, LM!TypeOK, LM!WordIsOfWaiter, LmKept, LmExchange, LM!Mine, LM!NoAwaiter
  <2> QED BY <2>1, <2>2, <2>a, <2>b, <2>5, <2>6, <2>7
<1>4. CASE LM!AppendAwaiter(t)
  BY <1>4 DEF LM!AppendAwaiter, LM!Goto, LM!TypeOK, LM!MutualExclusion, LM!WordIsOfWaiter, LmOwner,
    LmAlone, LmWord, LmCarried, LmKept, LmExchange, LmWaiting, LM!NoAwaiter, LM!Pcs, LM!Mine, LM!callVars
<1>5. CASE LM!LookAgain(t)
  BY <1>5 DEF LM!LookAgain, LM!Goto, LM!TypeOK, LM!MutualExclusion, LM!WordIsOfWaiter, LmOwner,
    LmAlone, LmWord, LmCarried, LmKept, LmExchange, LmWaiting, LM!NoAwaiter, LM!Pcs, LM!Mine, LM!callVars
<1>6. CASE LM!TakeBack(t)
  <2>1. LM!TypeOK'
    BY <1>6 DEF LM!TakeBack, LM!Goto, LM!callVars, LM!TypeOK, LM!Pcs, LM!NoAwaiter, LM!Mine
  <2>2. LM!MutualExclusion' /\ LmOwner'
    BY <1>6 DEF LM!TakeBack, LM!Goto, LM!callVars, LM!TypeOK, LM!MutualExclusion, LmOwner
  <2>3. LmAlone'
    BY <1>6 DEF LM!TakeBack, LM!Goto, LM!callVars, LM!TypeOK, LmOwner, LmAlone, LmWaiting
  <2>4. LM!WordIsOfWaiter' /\ LmWord'
    BY <1>6 DEF LM!TakeBack, LM!Goto, LM!callVars, LM!TypeOK, LM!WordIsOfWaiter, LmWord, LmAlone, LmWaiting, LM!NoAwaiter, LM!Mine
  <2>5. LmCarried'
    BY <1>6 DEF LM!TakeBack, LM!Goto, LM!callVars, LM!TypeOK, LM!WordIsOfWaiter, LmWord, LmCarried, LM!NoAwaiter
  <2>6. LmKept'
    BY <1>6 DEF LM!TakeBack, LM!Goto, LM!callVars, LM!TypeOK, LM!WordIsOfWaiter, LmKept, LM!Mine, LM!NoAwaiter
  <2>7. LmExchange'
    BY <1>6 DEF LM!TakeBack, LM!Goto, LM!callVars, LM!TypeOK, LM!WordIsOfWaiter, LmKept, LmExchange, LM!Mine, LM!NoAwaiter
  <2> QED BY <2>1, <2>2, <2>3, <2>4, <2>5, <2>6, <2>7
<1>7. CASE LM!Suspend(t) \/ LM!Resume(t)
  <2>1. LM!TypeOK'
    BY <1>7 DEF LM!Suspend, LM!Resume, LM!Goto, LM!callVars, LM!TypeOK, LM!Pcs, LM!NoAwaiter, LM!Mine
  <2>2. LM!MutualExclusion' /\ LmOwner'
    BY <1>7 DEF LM!Suspend, LM!Resume, LM!Goto, LM!callVars, LM!TypeOK, LM!MutualExclusion, LmOwner
  <2>3. LmAlone'
    BY <1>7 DEF LM!Suspend, LM!Resume, LM!Goto, LM!callVars, LM!TypeOK, LmOwner, LmAlone, LmWaiting
  <2>4. LM!WordIsOfWaiter' /\ LmWord'
    BY <1>7 DEF LM!Suspend, LM!Resume, LM!Goto, LM!callVars, LM!TypeOK, LM!WordIsOfWaiter, LmWord, LmAlone, LmWaiting, LM!NoAwaiter, LM!Mine
  <2>5. LmCarried'
    BY <1>7 DEF LM!Suspend, LM!Resume, LM!Goto, LM!callVars, LM!TypeOK, LM!WordIsOfWaiter, LmWord, LmCarried, LM!NoAwaiter
  <2>6. LmKept'
    BY <1>7 DEF LM!Suspend, LM!Resume, LM!Goto, LM!callVars, LM!TypeOK, LM!WordIsOfWaiter, LmKept, LM!Mine, LM!NoAwaiter
  <2>7. LmExchange'
    BY <1>7 DEF LM!Suspend, LM!Resume, LM!Goto, LM!callVars, LM!TypeOK, LM!WordIsOfWaiter, LmKept, LmExchange, LM!Mine, LM!NoAwaiter
  <2> QED BY <2>1, <2>2, <2>3, <2>4, <2>5, <2>6, <2>7
<1>8. CASE LM!RemoveAwaiter(t)
  BY <1>8 DEF LM!RemoveAwaiter, LM!Goto, LM!TypeOK, LM!MutualExclusion, LM!WordIsOfWaiter, LmOwner,
    LmAlone, LmWord, LmCarried, LmKept, LmExchange, LmWaiting, LM!NoAwaiter, LM!Pcs, LM!Mine, LM!callVars
<1>9. CASE LM!LoadOwner(t)
  <2>1. LM!TypeOK'
    BY <1>9 DEF LM!LoadOwner, LM!Goto, LM!callVars, LM!TypeOK, LM!Pcs, LM!NoAwaiter, LM!Mine
  <2>2. LM!MutualExclusion' /\ LmOwner'
    BY <1>9 DEF LM!LoadOwner, LM!Goto, LM!callVars, LM!TypeOK, LM!MutualExclusion, LmOwner
  <2>3. LmAlone'
    BY <1>9 DEF LM!LoadOwner, LM!Goto, LM!callVars, LM!TypeOK, LmOwner, LmAlone, LmWaiting
  <2>4. LM!WordIsOfWaiter' /\ LmWord'
    BY <1>9 DEF LM!LoadOwner, LM!Goto, LM!callVars, LM!TypeOK, LM!WordIsOfWaiter, LmWord, LmAlone, LmWaiting, LM!NoAwaiter, LM!Mine
  <2>5. LmCarried'
    BY <1>9 DEF LM!LoadOwner, LM!Goto, LM!callVars, LM!TypeOK, LM!WordIsOfWaiter, LmWord, LmCarried, LM!NoAwaiter
  <2>6. LmKept'
    BY <1>9 DEF LM!LoadOwner, LM!Goto, LM!callVars, LM!TypeOK, LM!WordIsOfWaiter, LmKept, LM!Mine, LM!NoAwaiter
  <2>7. LmExchange'
    BY <1>9 DEF LM!LoadOwner, LM!Goto, LM!callVars, LM!TypeOK, LM!WordIsOfWaiter, LmKept, LmExchange, LM!Mine, LM!NoAwaiter
  <2> QED BY <2>1, <2>2, <2>3, <2>4, <2>5, <2>6, <2>7
<1>10. CASE LM!Unlock(t)
  BY <1>10 DEF LM!Unlock, LM!Goto, LM!TypeOK, LM!MutualExclusion, LM!WordIsOfWaiter, LmOwner,
    LmAlone, LmWord, LmCarried, LmKept, LmExchange, LmWaiting, LM!NoAwaiter, LM!Pcs, LM!Mine, LM!callVars
<1>11. CASE LM!NotifyOne(t)
  <2>1. LM!TypeOK'
    BY <1>11 DEF LM!NotifyOne, LM!Goto, LM!callVars, LM!TypeOK, LM!Pcs, LM!NoAwaiter, LM!Mine
  <2>2. LM!MutualExclusion' /\ LmOwner'
    BY <1>11 DEF LM!NotifyOne, LM!Goto, LM!callVars, LM!TypeOK, LM!MutualExclusion, LmOwner
  <2>3. LmAlone'
    BY <1>11 DEF LM!NotifyOne, LM!Goto, LM!callVars, LM!TypeOK, LmOwner, LmAlone, LmWaiting
  <2>4. LM!WordIsOfWaiter' /\ LmWord'
    BY <1>11 DEF LM!NotifyOne, LM!Goto, LM!callVars, LM!TypeOK, LM!WordIsOfWaiter, LmWord, LmAlone, LmWaiting, LM!NoAwaiter, LM!Mine
  <2>5. LmCarried'
    BY <1>11 DEF LM!NotifyOne, LM!Goto, LM!callVars, LM!TypeOK, LM!WordIsOfWaiter, LmWord, LmCarried, LM!NoAwaiter
  <2>6. LmKept'
    BY <1>11 DEF LM!NotifyOne, LM!Goto, LM!callVars, LM!TypeOK, LM!WordIsOfWaiter, LmKept, LM!Mine, LM!NoAwaiter
  <2>7. LmExchange'
    BY <1>11 DEF LM!NotifyOne, LM!Goto, LM!callVars, LM!TypeOK, LM!WordIsOfWaiter, LmKept, LmExchange, LM!Mine, LM!NoAwaiter
  <2> QED BY <2>1, <2>2, <2>3, <2>4, <2>5, <2>6, <2>7
<1>12. CASE LM!DoNotify(t)
  BY <1>12 DEF LM!DoNotify, LM!Goto, LM!TypeOK, LM!MutualExclusion, LM!WordIsOfWaiter, LmOwner,
    LmAlone, LmWord, LmCarried, LmKept, LmExchange, LmWaiting, LM!NoAwaiter, LM!Pcs, LM!Mine, LM!callVars
<1>13. CASE LM!DeadlineTimer(t)
  BY <1>13 DEF LM!DeadlineTimer, LM!Goto, LM!TypeOK, LM!MutualExclusion, LM!WordIsOfWaiter, LmOwner,
    LmAlone, LmWord, LmCarried, LmKept, LmExchange, LmWaiting, LM!NoAwaiter, LM!Pcs, LM!Mine, LM!callVars
<1> QED BY <1>1, <1>2, <1>3, <1>4, <1>5, <1>6, <1>7, <1>8, <1>9, <1>10, <1>11, <1>12, <1>13 DEF LM!Step

\* The word of a task that sleeps on beside a free mutex is with somebody who will notify it.
LEMMA LmSafe == LmInv => LM!TypeOK /\ LM!MutualExclusion /\ LM!WordIsOfWaiter /\ LM!NoLostWakeup
BY DEF LmInv, LM!NoLostWakeup, LmKept, LmExchange

----------------------------------------------------------------------------
(* Lists of awaiters: sequences in which nobody is twice *)

In(s, x) == \E i \in 1 .. Len(s) : s[i] = x
Once(s) == \A i, j \in 1 .. Len(s) : s[i] = s[j] => i = j
Rest(s, i) == [j \in 1 .. Len(s) - 1 |-> s[IF j < i THEN j ELSE j + 1]]

\* Who is in a list is one of those it is made of.
LEMMA InType == ASSUME NEW S, NEW s \in Seq(S), NEW x, In(s, x) PROVE x \in S
BY DEF In

\* An empty list holds nobody.
LEMMA InEmpty == Once(<<>>) /\ \A x : ~In(<<>>, x)
BY DEF In, Once

\* One more at the end.
LEMMA InAppended ==
  ASSUME NEW S, NEW s \in Seq(S), NEW x \in S, Once(s), ~In(s, x)
  PROVE  /\ Append(s, x) \in Seq(S) /\ Once(Append(s, x))
         /\ \A y : In(Append(s, x), y) <=> In(s, y) \/ y = x
<1> DEFINE a == Append(s, x)
<1>1. /\ a \in Seq(S) /\ Len(s) \in Nat /\ Len(a) = Len(s) + 1 /\ a[Len(s) + 1] = x
      /\ \A i \in 1 .. Len(s) : a[i] = s[i]
  OBVIOUS
<1> HIDE DEF a
<1>2. \A i \in 1 .. Len(a) : i \in 1 .. Len(s) \/ i = Len(s) + 1
  BY <1>1
<1>3. Once(a)
  BY <1>1, <1>2 DEF Once, In
<1>4. ASSUME NEW y PROVE In(a, y) <=> In(s, y) \/ y = x
  <2>1. ASSUME In(s, y) PROVE In(a, y)
    <3>1. PICK i \in 1 .. Len(s) : s[i] = y
      BY <2>1 DEF In
    <3>2. i \in 1 .. Len(a) /\ a[i] = y
      BY <3>1, <1>1
    <3> QED BY <3>2 DEF In
  <2>2. ASSUME y = x PROVE In(a, y)
    BY <2>2, <1>1 DEF In
  <2>3. ASSUME In(a, y) PROVE In(s, y) \/ y = x
    BY <2>3, <1>1, <1>2 DEF In
  <2> QED BY <2>1, <2>2, <2>3
<1> QED BY <1>1, <1>3, <1>4 DEF a

\* One less, wherever it is.
LEMMA InRest ==
  ASSUME NEW S, NEW s \in Seq(S), NEW i \in 1 .. Len(s), Once(s)
  PROVE  /\ Rest(s, i) \in Seq(S) /\ Once(Rest(s, i))
         /\ \A y : In(Rest(s, i), y) <=> In(s, y) /\ y # s[i]
<1> DEFINE r == Rest(s, i)
          Old(j) == IF j < i THEN j ELSE j + 1
<1>1. /\ r \in Seq(S) /\ Len(s) \in Nat /\ Len(r) = Len(s) - 1
      /\ \A j \in 1 .. Len(r) : r[j] = s[Old(j)]
  BY DEF Rest
<1>2. /\ \A j \in 1 .. Len(r) : Old(j) \in 1 .. Len(s) /\ Old(j) # i
      /\ \A j, k \in 1 .. Len(r) : Old(j) = Old(k) => j = k
      /\ \A k \in 1 .. Len(s) : k # i => \E j \in 1 .. Len(r) : Old(j) = k
  <2>1. /\ \A j \in 1 .. Len(r) : Old(j) \in 1 .. Len(s) /\ Old(j) # i
        /\ \A j, k \in 1 .. Len(r) : Old(j) = Old(k) => j = k
    BY <1>1
  <2>2. ASSUME NEW k \in 1 .. Len(s), k # i PROVE \E j \in 1 .. Len(r) : Old(j) = k
    <3>1. CASE k < i
      <4>1. k \in 1 .. Len(r) /\ Old(k) = k
        BY <3>1, <1>1
      <4> QED BY <4>1
    <3>2. CASE k > i
      <4>1. k - 1 \in 1 .. Len(r) /\ Old(k - 1) = k
        BY <3>2, <1>1
      <4> QED BY <4>1
    <3> QED BY <2>2, <3>1, <3>2
  <2> QED BY <2>1, <2>2
<1> HIDE DEF r, Old
<1>3. Once(r)
  BY <1>1, <1>2 DEF Once
<1>4. ASSUME NEW y PROVE In(r, y) <=> In(s, y) /\ y # s[i]
  <2>1. ASSUME In(r, y) PROVE In(s, y) /\ y # s[i]
    <3>1. PICK j \in 1 .. Len(r) : r[j] = y
      BY <2>1 DEF In
    <3> QED BY <3>1, <1>1, <1>2 DEF In, Once
  <2>2. ASSUME In(s, y), y # s[i] PROVE In(r, y)
    <3>1. PICK k \in 1 .. Len(s) : s[k] = y
      BY <2>2 DEF In
    <3>2. PICK j \in 1 .. Len(r) : Old(j) = k
      BY <2>2, <3>1, <1>2
    <3> QED BY <3>1, <3>2, <1>1 DEF In
  <2> QED BY <2>1, <2>2
<1> QED BY <1>1, <1>3, <1>4 DEF r

\* One less, from the front.
LEMMA InTail ==
  ASSUME NEW S, NEW s \in Seq(S), s # <<>>, Once(s)
  PROVE  /\ Tail(s) \in Seq(S) /\ Once(Tail(s)) /\ Head(s) \in S /\ In(s, Head(s))
         /\ \A y : In(Tail(s), y) <=> In(s, y) /\ y # Head(s)
<1>1. /\ Len(s) \in Nat /\ 1 \in 1 .. Len(s) /\ Head(s) = s[1] /\ Tail(s) \in Seq(S)
      /\ Len(Tail(s)) = Len(s) - 1 /\ \A i \in 1 .. Len(s) - 1 : Tail(s)[i] = s[i + 1]
  OBVIOUS
<1>2. Rest(s, 1) \in Seq(S) /\ Len(Rest(s, 1)) = Len(s) - 1
      /\ \A i \in 1 .. Len(s) - 1 : Rest(s, 1)[i] = s[i + 1]
  BY <1>1 DEF Rest
<1>3. Tail(s) = Rest(s, 1)
  BY <1>1, <1>2, SeqEqual
<1>4. Once(Tail(s)) /\ \A y : In(Tail(s), y) <=> In(s, y) /\ y # Head(s)
  <2>1. Once(Rest(s, 1)) /\ \A y : In(Rest(s, 1), y) <=> In(s, y) /\ y # s[1]
    BY <1>1, InRest, Zenon
  <2> QED BY <2>1, <1>1, <1>3
<1> QED BY <1>1, <1>4 DEF In

----------------------------------------------------------------------------
(* ConditionVariable *)

\* Consumers that have counted themselves in sleepies_.
CvSleepyPcs == {"sleep", "append", "release", "suspend", "asleep", "remove", "slept"}
CvSleepy == {c \in Consumers : cvPc[c] \in CvSleepyPcs}
CvCounted == cvSleepies = Cardinality(CvSleepy)

\* The list holds consumers between their entry and their removal, each once; who is
\* there and not in the list was notified.
CvListedPcs == {"release", "suspend", "asleep", "remove"}
CvListed ==
  /\ Once(cvList)
  /\ \A c \in Consumers : In(cvList, c) => cvPc[c] \in CvListedPcs
  /\ \A c \in Consumers : cvPc[c] \in CvListedPcs /\ ~In(cvList, c) => "kNotify" \in cvSignals[c]

\* The mutex is held from the predicate until the entry in the list is there, so that what
\* the predicate has seen is still true then.
CvOwned ==
  /\ \A t \in CV!Users :
       cvPc[t] \in {"predicate", "count", "sleep", "append", "release", "unlock"} => cvOwner = t
  /\ \A c \in Consumers : cvPc[c] \in {"count", "sleep", "append", "release"} => cvItems = 0

\* Who will look at the predicate, or notify, without being in the list.
CvTaker(t) ==
  \/ t \in Producers /\ cvPc[t] \in {"unlock", "check", "notify"}
  \/ t \in Consumers /\ cvPc[t] \in {"predicate", "slept", "relock"}
  \/ t \in Consumers /\ cvPc[t] \in CvListedPcs /\ ~In(cvList, t)
CvTakers == {t \in CV!Users : CvTaker(t)}

\* As long as somebody has gone to sleep in the list, every item has a taker.
CvWaits(c) == In(cvList, c) /\ cvPc[c] \in {"suspend", "asleep", "remove"}
CvTaken == (\E c \in Consumers : CvWaits(c)) => cvItems <= Cardinality(CvTakers)

CvInv == CV!TypeOK /\ CvCounted /\ CvListed /\ CvOwned /\ CvTaken

\* The constants of the condition variable.
LEMMA CvConstants ==
  /\ IsFiniteSet(CV!Users) /\ NoTask \notin CV!Users /\ Consumers \cap Producers = {}
  /\ MaxItems \in Nat /\ CV!Users = Consumers \cup Producers
BY WakeupsAssumption DEF CV!CvAssumption, CV!Users, CV!IsFiniteSet, IsFiniteSet

\* The takers and the sleepies are finitely many.
LEMMA CvFinite ==
  /\ IsFiniteSet(CvTakers) /\ Cardinality(CvTakers) \in Nat
  /\ IsFiniteSet(CvSleepy) /\ Cardinality(CvSleepy) \in Nat
  /\ IsFiniteSet(CvTakers') /\ Cardinality(CvTakers') \in Nat
<1>1. CvTakers \in SUBSET CV!Users /\ CvSleepy \in SUBSET CV!Users /\ CvTakers' \in SUBSET CV!Users
  BY DEF CvTakers, CvSleepy, CV!Users
<1> QED BY <1>1, CvConstants, FS_Subset, FS_CardinalityType

\* A step that leaves the sleepies and their count alone.
LEMMA CvKeepsCount ==
  ASSUME CV!TypeOK, CvCounted, NEW t \in CV!Users, NEW l, cvPc' = [cvPc EXCEPT ![t] = l],
         t \in Consumers => (cvPc[t] \in CvSleepyPcs <=> l \in CvSleepyPcs), cvSleepies' = cvSleepies
  PROVE  CvCounted'
<1>1. CvSleepy' = CvSleepy
  BY CvConstants DEF CvSleepy, CV!TypeOK
<1> QED BY <1>1 DEF CvCounted

\* A step that leaves the list alone, and moves nobody into or out of its places.
LEMMA CvKeepsList ==
  ASSUME CV!TypeOK, CvListed, NEW t \in CV!Users, NEW l, cvPc' = [cvPc EXCEPT ![t] = l],
         t \in Consumers => (cvPc[t] \in CvListedPcs <=> l \in CvListedPcs), cvList' = cvList,
         \A c \in Consumers : cvPc'[c] \in CvListedPcs /\ "kNotify" \in cvSignals[c] => "kNotify" \in cvSignals'[c]
  PROVE  CvListed'
<1>1. \A c \in Consumers : cvPc'[c] \in CvListedPcs <=> cvPc[c] \in CvListedPcs
  BY CvConstants DEF CV!TypeOK
<1> QED BY <1>1 DEF CvListed

\* More takers for no more items.
LEMMA CvKeepsTaken ==
  ASSUME CV!TypeOK, CvTaken, cvItems' <= cvItems, cvItems' \in Nat,
         \A c \in Consumers : CvWaits(c)' => \E d \in Consumers : CvWaits(d),
         \A t \in CV!Users : CvTaker(t) => CvTaker(t)'
  PROVE  CvTaken'
<1>1. CvTakers \in SUBSET CvTakers'
  BY DEF CvTakers
<1>2. Cardinality(CvTakers) <= Cardinality(CvTakers')
  BY <1>1, CvFinite, FS_Subset
<1> QED BY <1>2, CvFinite DEF CvTaken, CV!TypeOK

\* Where the steps of a consumer or producer that concern the takers little lead.
LEMMA CvMoves ==
  ASSUME CV!TypeOK, CvListed, CvTaken, NEW t \in CV!Users, NEW l, cvPc' = [cvPc EXCEPT ![t] = l],
         cvList' = cvList, cvItems' = cvItems, CvTaker(t) => CvTaker(t)',
         t \in Consumers /\ l \in {"suspend", "asleep", "remove"} => cvPc[t] \in {"suspend", "asleep", "remove"}
  PROVE  CvTaken'
<1>1. \A c \in Consumers : CvWaits(c)' => CvWaits(c)
  BY CvConstants DEF CvWaits, CV!TypeOK
<1>2. \A u \in CV!Users : CvTaker(u) => CvTaker(u)'
  BY DEF CvTaker, CV!TypeOK
<1> QED BY <1>1, <1>2, CvKeepsTaken DEF CV!TypeOK

\* The invariant survives every step of a consumer.
LEMMA CvConsumerStep ==
  ASSUME CvInv, NEW c \in Consumers,
         CV!Begin(c) \/ CV!ConsumerStep(c) \/ CV!DeadlineTimer(c) \/ CV!RequestCancel(c)
  PROVE  CvInv'
<1> USE CvConstants DEF CvInv
<1>0. c \in CV!Users /\ c \notin Producers
  OBVIOUS
<1>1. CASE CV!Begin(c)
  <2>1. CV!TypeOK'
    BY <1>0, <1>1 DEF CV!Begin, CV!TypeOK, CV!Goto, CV!Pcs
  <2>2. /\ cvPc[c] = "idle" /\ cvPc' = [cvPc EXCEPT ![c] = "lock"]
        /\ UNCHANGED <<cvOwner, cvItems, cvList, cvSleepies, cvSignals>>
    BY <1>1 DEF CV!Begin, CV!Goto
  <2>3. CvCounted' /\ CvListed'
    BY <1>0, <2>2, CvKeepsCount, CvKeepsList DEF CvSleepyPcs, CvListedPcs
  <2>4. CvOwned'
    BY <1>0, <2>2 DEF CvOwned, CV!TypeOK
  <2>5. CvTaken'
    BY <1>0, <2>2, CvMoves DEF CvTaker, CvListedPcs
  <2> QED BY <2>1, <2>3, <2>4, <2>5
<1>2. CASE CV!Lock(c)
  <2>1. CV!TypeOK'
    BY <1>0, <1>2 DEF CV!Lock, CV!TypeOK, CV!Goto, CV!Pcs
  <2>2. /\ cvPc[c] \in {"lock", "relock"} /\ cvPc' = [cvPc EXCEPT ![c] = "predicate"]
        /\ cvOwner \in {NoTask, c} /\ cvOwner' = c
        /\ UNCHANGED <<cvItems, cvList, cvSleepies, cvSignals>>
    BY <1>2 DEF CV!Lock, CV!Goto
  <2>3. CvCounted' /\ CvListed'
    BY <1>0, <2>2, CvKeepsCount, CvKeepsList DEF CvSleepyPcs, CvListedPcs
  <2>4. CvOwned'
    BY <1>0, <2>2 DEF CvOwned, CV!TypeOK
  <2>5. CvTaken'
    <3>1. CvTaker(c)'
      BY <1>0, <2>2 DEF CvTaker, CV!TypeOK
    <3> QED BY <1>0, <2>2, <3>1, CvMoves
  <2> QED BY <2>1, <2>3, <2>4, <2>5
<1>3. CASE CV!Predicate(c)
  <2>1. CV!TypeOK'
    <3>1. cvStatus' \in [Consumers -> {"kNoTimeout", "kTimeout", "kCancelled"}]
      BY <1>3 DEF CV!Predicate, CV!TypeOK
    <3>2. cvItems' \in Nat
      <4>1. cvItems \in Nat /\ ((cvItems > 0 /\ cvItems' = cvItems - 1) \/ cvItems' = cvItems)
        BY <1>3 DEF CV!Predicate, CV!TypeOK
      <4> QED BY <4>1
    <3>3. cvPc' \in [CV!Users -> CV!Pcs]
      <4>1. PICK l \in {"unlock", "count", "predicate"} : cvPc' = [cvPc EXCEPT ![c] = l]
        BY <1>3 DEF CV!Predicate, CV!Goto
      <4> QED BY <1>0, <4>1 DEF CV!TypeOK, CV!Pcs
    <3>4. UNCHANGED <<cvOwner, cvList, cvSleepies, cvSignals, cvTimed, cvCancelled, cvCalls>>
      BY <1>3 DEF CV!Predicate
    <3> QED BY <3>1, <3>2, <3>3, <3>4 DEF CV!TypeOK
  <2>2. PICK l \in {"unlock", "count", "predicate"} :
          /\ cvPc[c] = "predicate" /\ cvPc' = [cvPc EXCEPT ![c] = l]
          /\ UNCHANGED <<cvOwner, cvList, cvSleepies, cvSignals>>
          /\ \/ cvItems > 0 /\ cvItems' = cvItems - 1 /\ l = "unlock"
             \/ cvItems = 0 /\ cvItems' = 0
    BY <1>3 DEF CV!Predicate, CV!Goto
  <2>3. CvCounted' /\ CvListed'
    BY <1>0, <2>2, CvKeepsCount, CvKeepsList DEF CvSleepyPcs, CvListedPcs
  <2>4. CvOwned'
    BY <1>0, <2>2 DEF CvOwned, CV!TypeOK
  <2>5. CASE cvItems = 0
    <3>1. CvTaken'
      BY <2>2, <2>5, CvFinite DEF CvTaken
    <3> QED BY <2>1, <2>3, <2>4, <3>1
  <2>6. CASE cvItems > 0
    <3>1. CvTakers' = CvTakers \ {c} /\ c \in CvTakers
      BY <1>0, <2>2, <2>6 DEF CvTakers, CvTaker, CV!TypeOK, CvListedPcs
    <3>2. Cardinality(CvTakers') = Cardinality(CvTakers) - 1
      BY <3>1, CvFinite, FS_RemoveElement
    <3>3. \A d \in Consumers : CvWaits(d)' => CvWaits(d)
      BY <1>0, <2>2 DEF CvWaits, CV!TypeOK
    <3>4. CvTaken'
      BY <2>2, <2>6, <3>2, <3>3, CvFinite DEF CvTaken, CV!TypeOK
    <3> QED BY <2>1, <2>3, <2>4, <3>4
  <2> QED BY <2>5, <2>6 DEF CV!TypeOK
<1>4. CASE CV!CountSleepy(c)
  <2>1. CV!TypeOK'
    BY <1>0, <1>4 DEF CV!CountSleepy, CV!TypeOK, CV!Goto, CV!Pcs
  <2>2. /\ cvPc[c] = "count" /\ cvPc' = [cvPc EXCEPT ![c] = "sleep"] /\ cvSleepies' = cvSleepies + 1
        /\ UNCHANGED <<cvOwner, cvItems, cvList, cvSignals>>
    BY <1>4 DEF CV!CountSleepy, CV!Goto
  <2>3. CvCounted'
    <3>1. CvSleepy' = CvSleepy \cup {c} /\ c \notin CvSleepy
      BY <1>0, <2>2 DEF CvSleepy, CvSleepyPcs, CV!TypeOK
    <3> QED BY <2>2, <3>1, CvFinite, FS_AddElement DEF CvCounted
  <2>4. CvListed'
    BY <1>0, <2>2, CvKeepsList DEF CvListedPcs
  <2>5. CvOwned'
    BY <1>0, <2>2 DEF CvOwned, CV!TypeOK
  <2>6. CvTaken'
    BY <1>0, <2>2, CvMoves DEF CvTaker, CvListedPcs
  <2> QED BY <2>1, <2>3, <2>4, <2>5, <2>6
<1>5. CASE CV!BeginSleep(c)
  <2>1. CV!TypeOK'
    <3>1. cvSignals' \in [Consumers -> SUBSET {"kNotify", "kDeadlineTimer", "kCancelRequest"}]
      <4>1. PICK f \in {{"kCancelRequest"}, {}} : cvSignals' = [cvSignals EXCEPT ![c] = f]
        BY <1>5, Zenon DEF CV!BeginSleep
      <4>2. f \in SUBSET {"kNotify", "kDeadlineTimer", "kCancelRequest"}
        OBVIOUS
      <4> QED BY <4>1, <4>2 DEF CV!TypeOK
    <3>2. cvPc' \in [CV!Users -> CV!Pcs]
      <4>1. PICK l \in {"slept", "append"} : cvPc' = [cvPc EXCEPT ![c] = l]
        BY <1>5, Zenon DEF CV!BeginSleep, CV!Goto
      <4> QED BY <1>0, <4>1 DEF CV!TypeOK, CV!Pcs
    <3> QED BY <1>5, <3>1, <3>2 DEF CV!BeginSleep, CV!TypeOK
  <2>2. PICK l \in {"slept", "append"} :
          /\ cvPc[c] = "sleep" /\ cvPc' = [cvPc EXCEPT ![c] = l]
          /\ \A d \in Consumers : d # c => cvSignals'[d] = cvSignals[d]
          /\ UNCHANGED <<cvOwner, cvItems, cvList, cvSleepies>>
    BY <1>5 DEF CV!BeginSleep, CV!Goto, CV!TypeOK
  <2>3. CvCounted'
    BY <1>0, <2>2, CvKeepsCount DEF CvSleepyPcs
  <2>4. CvListed'
    <3>1. cvPc'[c] \notin CvListedPcs
      BY <1>0, <2>2 DEF CvListedPcs, CV!TypeOK
    <3> QED BY <1>0, <2>2, <3>1, CvKeepsList DEF CvListedPcs
  <2>5. CvOwned'
    BY <1>0, <2>2 DEF CvOwned, CV!TypeOK
  <2>6. CvTaken'
    BY <1>0, <2>2, CvMoves DEF CvTaker, CvListedPcs
  <2> QED BY <2>1, <2>3, <2>4, <2>5, <2>6
<1>6. CASE CV!AppendThenRelease(c) /\ cvPc[c] = "append"
  <2>1. /\ cvPc[c] = "append" /\ cvPc' = [cvPc EXCEPT ![c] = "release"] /\ cvList' = Append(cvList, c)
        /\ UNCHANGED <<cvOwner, cvItems, cvSleepies, cvSignals, cvTimed, cvCancelled, cvStatus, cvCalls>>
    BY <1>6 DEF CV!AppendThenRelease, CV!Goto
  <2>2. cvList \in Seq(Consumers) /\ Once(cvList) /\ ~In(cvList, c)
    BY <2>1 DEF CvListed, CvListedPcs, CV!TypeOK
  <2>3. /\ cvList' \in Seq(Consumers) /\ Once(cvList')
        /\ \A d : In(cvList', d) <=> In(cvList, d) \/ d = c
    BY <2>1, <2>2, InAppended
  <2>4. CV!TypeOK'
    BY <1>0, <2>1, <2>3 DEF CV!TypeOK, CV!Pcs
  <2>5. CvCounted'
    BY <1>0, <2>1, CvKeepsCount DEF CvSleepyPcs
  <2>6. CvListed'
    BY <1>0, <2>1, <2>3 DEF CvListed, CvListedPcs, CV!TypeOK
  <2>7. CvOwned'
    BY <1>0, <2>1 DEF CvOwned, CV!TypeOK
  <2>8. CvTaken'
    <3>1. cvItems' = 0
      BY <2>1 DEF CvOwned
    <3> QED BY <3>1, CvFinite DEF CvTaken
  <2> QED BY <2>4, <2>5, <2>6, <2>7, <2>8
<1>7. CASE CV!AppendThenRelease(c) /\ cvPc[c] = "release"
  <2>1. /\ cvPc[c] = "release" /\ cvPc' = [cvPc EXCEPT ![c] = "suspend"] /\ cvOwner' = NoTask
        /\ UNCHANGED <<cvList, cvItems, cvSleepies, cvSignals, cvTimed, cvCancelled, cvStatus, cvCalls>>
    BY <1>7 DEF CV!AppendThenRelease, CV!Goto
  <2>2. CV!TypeOK'
    BY <1>0, <2>1 DEF CV!TypeOK, CV!Pcs
  <2>3. CvCounted' /\ CvListed'
    BY <1>0, <2>1, CvKeepsCount, CvKeepsList DEF CvSleepyPcs, CvListedPcs
  <2>4. CvOwned'
    BY <1>0, <2>1 DEF CvOwned, CV!TypeOK
  <2>5. CvTaken'
    <3>1. cvItems' = 0
      BY <2>1 DEF CvOwned
    <3> QED BY <3>1, CvFinite DEF CvTaken
  <2> QED BY <2>2, <2>3, <2>4, <2>5
<1>8. CASE CV!Suspend(c) \/ CV!Resume(c)
  <2>1. CV!TypeOK'
    BY <1>0, <1>8 DEF CV!Suspend, CV!Resume, CV!TypeOK, CV!Goto, CV!Pcs
  <2>2. PICK l \in {"asleep", "remove"} :
          /\ cvPc[c] \in {"suspend", "asleep"} /\ cvPc' = [cvPc EXCEPT ![c] = l]
          /\ UNCHANGED <<cvOwner, cvItems, cvList, cvSleepies, cvSignals>>
    BY <1>8 DEF CV!Suspend, CV!Resume, CV!Goto
  <2>3. CvCounted' /\ CvListed'
    BY <1>0, <2>2, CvKeepsCount, CvKeepsList DEF CvSleepyPcs, CvListedPcs
  <2>4. CvOwned'
    BY <1>0, <2>2 DEF CvOwned, CV!TypeOK
  <2>5. CvTaken'
    <3>1. CvTaker(c) => CvTaker(c)'
      BY <1>0, <2>2 DEF CvTaker, CvListedPcs, CV!TypeOK
    <3> QED BY <1>0, <2>2, <3>1, CvMoves
  <2> QED BY <2>1, <2>3, <2>4, <2>5
<1>9. CASE CV!RemoveAwaiter(c)
  <2>1. /\ cvPc[c] = "remove" /\ cvPc' = [cvPc EXCEPT ![c] = "slept"]
        /\ UNCHANGED <<cvOwner, cvItems, cvSleepies, cvSignals, cvTimed, cvCancelled, cvStatus, cvCalls>>
    BY <1>9 DEF CV!RemoveAwaiter, CV!Goto
  <2>2. /\ cvList' \in Seq(Consumers) /\ Once(cvList')
        /\ \A d : In(cvList', d) <=> In(cvList, d) /\ d # c
    <3>1. cvList \in Seq(Consumers) /\ Once(cvList)
      BY DEF CvListed, CV!TypeOK
    <3>2. CASE \E i \in 1 .. Len(cvList) : cvList[i] = c /\ cvList' = CV!Unlinked(cvList, i)
      <4>1. PICK i \in 1 .. Len(cvList) : cvList[i] = c /\ cvList' = Rest(cvList, i)
        BY <3>2 DEF CV!Unlinked, Rest
      <4> QED BY <3>1, <4>1, InRest
    <3>3. CASE (\A i \in 1 .. Len(cvList) : cvList[i] # c) /\ UNCHANGED cvList
      <4>1. ~In(cvList, c)
        BY <3>3 DEF In
      <4> QED BY <3>1, <3>3, <4>1
    <3> QED BY <1>9, <3>2, <3>3 DEF CV!RemoveAwaiter
  <2>3. CV!TypeOK'
    BY <1>0, <2>1, <2>2 DEF CV!TypeOK, CV!Pcs
  <2>4. CvCounted'
    BY <1>0, <2>1, CvKeepsCount DEF CvSleepyPcs
  <2>5. CvListed'
    BY <1>0, <2>1, <2>2 DEF CvListed, CvListedPcs, CV!TypeOK
  <2>6. CvOwned'
    BY <1>0, <2>1 DEF CvOwned, CV!TypeOK
  <2>7. CvTaken'
    <3>1. \A d \in Consumers : CvWaits(d)' => CvWaits(d)
      BY <1>0, <2>1, <2>2 DEF CvWaits, CV!TypeOK
    <3>2. \A t \in CV!Users : CvTaker(t) => CvTaker(t)'
      BY <1>0, <2>1, <2>2 DEF CvTaker, CvListedPcs, CV!TypeOK
    <3> QED BY <2>1, <3>1, <3>2, CvKeepsTaken DEF CV!TypeOK
  <2> QED BY <2>3, <2>4, <2>5, <2>6, <2>7
<1>10. CASE CV!AfterSleep(c)
  <2>1. /\ cvPc[c] = "slept" /\ cvPc' = [cvPc EXCEPT ![c] = "relock"] /\ cvSleepies' = cvSleepies - 1
        /\ cvStatus' \in [Consumers -> {"kNoTimeout", "kTimeout", "kCancelled"}]
        /\ UNCHANGED <<cvOwner, cvItems, cvList, cvSignals, cvTimed, cvCancelled, cvCalls>>
    BY <1>10 DEF CV!AfterSleep, CV!Goto, CV!TypeOK
  <2>2. CvCounted' /\ cvSleepies' \in Nat
    <3>1. CvSleepy' = CvSleepy \ {c} /\ c \in CvSleepy
      BY <1>0, <2>1 DEF CvSleepy, CvSleepyPcs, CV!TypeOK
    <3>2. IsFiniteSet(CvSleepy \ {c}) /\ Cardinality(CvSleepy \ {c}) = Cardinality(CvSleepy) - 1
      BY <3>1, CvFinite, FS_RemoveElement
    <3>3. Cardinality(CvSleepy \ {c}) \in Nat
      BY <3>2, FS_CardinalityType
    <3> QED BY <2>1, <3>1, <3>2, <3>3 DEF CvCounted
  <2>3. CV!TypeOK'
    BY <1>0, <2>1, <2>2 DEF CV!TypeOK, CV!Pcs
  <2>4. CvListed'
    BY <1>0, <2>1, CvKeepsList DEF CvListedPcs
  <2>5. CvOwned'
    BY <1>0, <2>1 DEF CvOwned, CV!TypeOK
  <2>6. CvTaken'
    <3>1. CvTaker(c)'
      BY <1>0, <2>1 DEF CvTaker, CV!TypeOK
    <3> QED BY <1>0, <2>1, <3>1, CvMoves
  <2> QED BY <2>2, <2>3, <2>4, <2>5, <2>6
<1>11. CASE CV!Unlock(c)
  <2>1. CV!TypeOK'
    BY <1>0, <1>11 DEF CV!Unlock, CV!TypeOK, CV!Goto, CV!Pcs
  <2>2. /\ cvPc[c] = "unlock" /\ cvPc' = [cvPc EXCEPT ![c] = "idle"] /\ cvOwner' = NoTask
        /\ UNCHANGED <<cvItems, cvList, cvSleepies, cvSignals>>
    BY <1>0, <1>11 DEF CV!Unlock, CV!Goto
  <2>3. CvCounted' /\ CvListed'
    BY <1>0, <2>2, CvKeepsCount, CvKeepsList DEF CvSleepyPcs, CvListedPcs
  <2>4. CvOwned'
    BY <1>0, <2>2 DEF CvOwned, CV!TypeOK
  <2>5. CvTaken'
    BY <1>0, <2>2, CvMoves DEF CvTaker, CvListedPcs
  <2> QED BY <2>1, <2>3, <2>4, <2>5
<1>12. CASE CV!DeadlineTimer(c) \/ CV!RequestCancel(c)
  <2>0. PICK f \in {"kDeadlineTimer", "kCancelRequest"} : cvSignals' = [cvSignals EXCEPT ![c] = @ \cup {f}]
    BY <1>12, Zenon DEF CV!DeadlineTimer, CV!RequestCancel
  <2>1. CV!TypeOK'
    <3>1. cvSignals' \in [Consumers -> SUBSET {"kNotify", "kDeadlineTimer", "kCancelRequest"}]
      BY <2>0 DEF CV!TypeOK
    <3>2. cvCancelled' \in [Consumers -> BOOLEAN]
      <4>1. cvCancelled' = cvCancelled \/ cvCancelled' = [cvCancelled EXCEPT ![c] = TRUE]
        BY <1>12, Zenon DEF CV!DeadlineTimer, CV!RequestCancel
      <4> QED BY <4>1 DEF CV!TypeOK
    <3>3. UNCHANGED <<cvPc, cvOwner, cvItems, cvList, cvSleepies, cvTimed, cvStatus, cvCalls>>
      BY <1>12, Zenon DEF CV!DeadlineTimer, CV!RequestCancel
    <3> QED BY <3>1, <3>2, <3>3 DEF CV!TypeOK
  <2>2. /\ UNCHANGED <<cvPc, cvOwner, cvItems, cvList, cvSleepies>>
        /\ \A d \in Consumers : "kNotify" \in cvSignals[d] => "kNotify" \in cvSignals'[d]
    <3>1. UNCHANGED <<cvPc, cvOwner, cvItems, cvList, cvSleepies>>
      BY <1>12, Zenon DEF CV!DeadlineTimer, CV!RequestCancel
    <3> QED BY <2>0, <3>1 DEF CV!TypeOK
  <2>3. CvCounted' /\ CvListed' /\ CvOwned'
    BY <2>2 DEF CvCounted, CvSleepy, CvListed, CvOwned
  <2>4. CvTaken'
    BY <2>2 DEF CvTaken, CvTakers, CvTaker, CvWaits
  <2> QED BY <2>1, <2>3, <2>4
<1> QED BY <1>1, <1>2, <1>3, <1>4, <1>5, <1>6, <1>7, <1>8, <1>9, <1>10, <1>11, <1>12
  DEF CV!ConsumerStep, CV!AppendThenRelease

\* The invariant survives every step of a producer.
LEMMA CvProducerStep ==
  ASSUME CvInv, NEW p \in Producers, CV!BeginProduce(p) \/ CV!ProducerStep(p)
  PROVE  CvInv'
<1> USE CvConstants DEF CvInv
<1>0. p \in CV!Users /\ p \notin Consumers
  OBVIOUS
<1>1. CASE CV!BeginProduce(p)
  <2>1. CV!TypeOK'
    BY <1>0, <1>1 DEF CV!BeginProduce, CV!TypeOK, CV!Goto, CV!Pcs
  <2>2. /\ cvPc[p] = "idle" /\ cvPc' = [cvPc EXCEPT ![p] = "lock"]
        /\ UNCHANGED <<cvOwner, cvItems, cvList, cvSleepies, cvSignals>>
    BY <1>1 DEF CV!BeginProduce, CV!Goto
  <2>3. CvCounted' /\ CvListed'
    BY <1>0, <2>2, CvKeepsCount, CvKeepsList
  <2>4. CvOwned'
    BY <1>0, <2>2 DEF CvOwned, CV!TypeOK
  <2>5. CvTaken'
    BY <1>0, <2>2, CvMoves DEF CvTaker
  <2> QED BY <2>1, <2>3, <2>4, <2>5
<1>2. CASE CV!Lock(p)
  <2>1. CV!TypeOK'
    BY <1>0, <1>2 DEF CV!Lock, CV!TypeOK, CV!Goto, CV!Pcs
  <2>2. /\ cvPc[p] \in {"lock", "relock"} /\ cvPc' = [cvPc EXCEPT ![p] = "predicate"]
        /\ cvOwner \in {NoTask, p} /\ cvOwner' = p
        /\ UNCHANGED <<cvItems, cvList, cvSleepies, cvSignals>>
    BY <1>2 DEF CV!Lock, CV!Goto
  <2>3. CvCounted' /\ CvListed'
    BY <1>0, <2>2, CvKeepsCount, CvKeepsList
  <2>4. CvOwned'
    BY <1>0, <2>2 DEF CvOwned, CV!TypeOK
  <2>5. CvTaken'
    BY <1>0, <2>2, CvMoves DEF CvTaker
  <2> QED BY <2>1, <2>3, <2>4, <2>5
<1>3. CASE CV!Produce(p)
  <2>1. CV!TypeOK'
    BY <1>0, <1>3 DEF CV!Produce, CV!TypeOK, CV!Goto, CV!Pcs
  <2>2. /\ cvPc[p] = "predicate" /\ cvPc' = [cvPc EXCEPT ![p] = "unlock"] /\ cvItems' = cvItems + 1
        /\ UNCHANGED <<cvOwner, cvList, cvSleepies, cvSignals>>
    BY <1>3 DEF CV!Produce, CV!Goto
  <2>3. CvCounted' /\ CvListed'
    BY <1>0, <2>2, CvKeepsCount, CvKeepsList
  <2>4. CvOwned'
    BY <1>0, <2>2 DEF CvOwned, CV!TypeOK
  <2>5. CvTaken'
    <3>1. CvTakers' = CvTakers \cup {p} /\ p \notin CvTakers
      <4>1. \A t \in CV!Users : t # p => (CvTaker(t)' <=> CvTaker(t))
        BY <2>2 DEF CvTaker, CV!TypeOK
      <4>2. CvTaker(p)' /\ ~CvTaker(p)
        BY <1>0, <2>2 DEF CvTaker, CV!TypeOK
      <4> QED BY <1>0, <4>1, <4>2 DEF CvTakers
    <3>2. Cardinality(CvTakers') = Cardinality(CvTakers) + 1
      BY <3>1, CvFinite, FS_AddElement
    <3>3. \A d \in Consumers : CvWaits(d)' => CvWaits(d)
      BY <1>0, <2>2 DEF CvWaits, CV!TypeOK
    <3> QED BY <2>2, <3>2, <3>3, CvFinite DEF CvTaken, CV!TypeOK
  <2> QED BY <2>1, <2>3, <2>4, <2>5
<1>4. CASE CV!Unlock(p)
  <2>1. CV!TypeOK'
    BY <1>0, <1>4 DEF CV!Unlock, CV!TypeOK, CV!Goto, CV!Pcs
  <2>2. /\ cvPc[p] = "unlock" /\ cvPc' = [cvPc EXCEPT ![p] = "check"] /\ cvOwner' = NoTask
        /\ UNCHANGED <<cvItems, cvList, cvSleepies, cvSignals>>
    BY <1>0, <1>4 DEF CV!Unlock, CV!Goto
  <2>3. CvCounted' /\ CvListed'
    BY <1>0, <2>2, CvKeepsCount, CvKeepsList
  <2>4. CvOwned'
    BY <1>0, <2>2 DEF CvOwned, CV!TypeOK
  <2>5. CvTaken'
    <3>1. CvTaker(p)'
      BY <1>0, <2>2 DEF CvTaker, CV!TypeOK
    <3> QED BY <1>0, <2>2, <3>1, CvMoves
  <2> QED BY <2>1, <2>3, <2>4, <2>5
<1>5. CASE CV!GetCountOfSleepies(p)
  <2>1. CV!TypeOK'
    BY <1>0, <1>5 DEF CV!GetCountOfSleepies, CV!TypeOK, CV!Goto, CV!Pcs
  <2>2. /\ cvPc[p] = "check" /\ cvPc' = [cvPc EXCEPT ![p] = IF cvSleepies > 0 THEN "notify" ELSE "idle"]
        /\ UNCHANGED <<cvOwner, cvItems, cvList, cvSleepies, cvSignals>>
    BY <1>5 DEF CV!GetCountOfSleepies, CV!Goto
  <2>3. CvCounted' /\ CvListed'
    BY <1>0, <2>2, CvKeepsCount, CvKeepsList
  <2>4. CvOwned'
    BY <1>0, <2>2 DEF CvOwned, CV!TypeOK
  <2>5. CvTaken'
    <3>1. CASE cvSleepies > 0
      <4>1. CvTaker(p)'
        BY <1>0, <2>2, <3>1 DEF CvTaker, CV!TypeOK
      <4> QED BY <1>0, <2>2, <4>1, CvMoves
    <3>2. CASE cvSleepies = 0
      <4>1. CvSleepy = {}
        BY <3>2, CvFinite, FS_EmptySet DEF CvCounted
      <4>2. \A c \in Consumers : ~CvWaits(c)
        BY <4>1 DEF CvSleepy, CvSleepyPcs, CvWaits
      <4>3. \A c \in Consumers : ~CvWaits(c)'
        BY <1>0, <2>2, <4>2 DEF CvWaits, CV!TypeOK
      <4> QED BY <4>3 DEF CvTaken
    <3> QED BY <3>1, <3>2 DEF CV!TypeOK
  <2> QED BY <2>1, <2>3, <2>4, <2>5
<1>6. CASE CV!NotifyOne(p) /\ cvList = <<>>
  <2>1. /\ cvPc[p] = "notify" /\ cvPc' = [cvPc EXCEPT ![p] = "idle"]
        /\ UNCHANGED <<cvOwner, cvItems, cvList, cvSleepies, cvSignals, cvTimed, cvCancelled, cvStatus, cvCalls>>
    BY <1>6 DEF CV!NotifyOne, CV!Goto
  <2>2. CV!TypeOK'
    BY <1>0, <2>1 DEF CV!TypeOK, CV!Pcs
  <2>3. CvCounted' /\ CvListed'
    BY <1>0, <2>1, CvKeepsCount, CvKeepsList
  <2>4. CvOwned'
    BY <1>0, <2>1 DEF CvOwned, CV!TypeOK
  <2>5. CvTaken'
    <3>1. \A c : ~In(cvList', c)
      BY <1>6, <2>1, InEmpty
    <3> QED BY <3>1 DEF CvTaken, CvWaits
  <2> QED BY <2>2, <2>3, <2>4, <2>5
<1>7. CASE CV!NotifyOne(p) /\ cvList # <<>>
  <2>1. /\ cvPc[p] = "notify" /\ cvPc' = [cvPc EXCEPT ![p] = "idle"] /\ cvList' = Tail(cvList)
        /\ cvSignals' = [cvSignals EXCEPT ![Head(cvList)] = @ \cup {"kNotify"}]
        /\ UNCHANGED <<cvOwner, cvItems, cvSleepies, cvTimed, cvCancelled, cvStatus, cvCalls>>
    BY <1>7 DEF CV!NotifyOne, CV!Goto
  <2>2. PICK h \in Consumers : h = Head(cvList) /\ In(cvList, h)
      /\ cvList' \in Seq(Consumers) /\ Once(cvList')
      /\ \A d : In(cvList', d) <=> In(cvList, d) /\ d # h
    <3>1. cvList \in Seq(Consumers) /\ Once(cvList)
      BY DEF CvListed, CV!TypeOK
    <3> QED BY <1>7, <2>1, <3>1, InTail
  <2>3. CV!TypeOK'
    <3>1. cvSignals' \in [Consumers -> SUBSET {"kNotify", "kDeadlineTimer", "kCancelRequest"}]
      BY <2>1, <2>2 DEF CV!TypeOK
    <3> QED BY <1>0, <2>1, <2>2, <3>1 DEF CV!TypeOK, CV!Pcs
  <2>4. CvCounted'
    BY <1>0, <2>1, CvKeepsCount
  <2>5. CvListed'
    <3>1. /\ "kNotify" \in cvSignals'[h]
          /\ \A c \in Consumers : c # h => cvSignals'[c] = cvSignals[c]
      BY <2>1, <2>2 DEF CV!TypeOK
    <3>2. \A c \in Consumers : cvPc'[c] = cvPc[c]
      BY <1>0, <2>1 DEF CV!TypeOK
    <3> QED BY <2>2, <3>1, <3>2 DEF CvListed
  <2>6. CvOwned'
    BY <1>0, <2>1 DEF CvOwned, CV!TypeOK
  <2>7. CvTaken'
    <3>1. \A c \in Consumers : cvPc'[c] = cvPc[c]
      BY <1>0, <2>1 DEF CV!TypeOK
    <3>2. h \in CvTakers' /\ h \notin CvTakers
      BY <1>0, <2>2, <3>1 DEF CvTakers, CvTaker, CvListed, CvListedPcs
    <3>3. CvTakers \ {p} \in SUBSET CvTakers'
      BY <1>0, <2>1, <2>2, <3>1 DEF CvTakers, CvTaker, CV!TypeOK
    <3>4. p \in CvTakers
      BY <1>0, <2>1 DEF CvTakers, CvTaker
    <3> DEFINE others == CvTakers \ {p}
    <3>5. IsFiniteSet(others) /\ Cardinality(others) = Cardinality(CvTakers) - 1
      BY <3>4, CvFinite, FS_RemoveElement
    <3>6. IsFiniteSet(others \cup {h}) /\ Cardinality(others \cup {h}) = Cardinality(others) + 1
      BY <3>2, <3>5, FS_AddElement
    <3>7. others \cup {h} \in SUBSET CvTakers'
      BY <3>2, <3>3
    <3>8. Cardinality(others \cup {h}) <= Cardinality(CvTakers')
      BY <3>7, CvFinite, FS_Subset
    <3>9. Cardinality(CvTakers) <= Cardinality(CvTakers')
      BY <3>5, <3>6, <3>8, CvFinite
    <3>10. \A c \in Consumers : CvWaits(c)' => CvWaits(c)
      BY <2>2, <3>1 DEF CvWaits
    <3> QED BY <2>1, <3>9, <3>10, CvFinite DEF CvTaken, CV!TypeOK
  <2> QED BY <2>3, <2>4, <2>5, <2>6, <2>7
<1>8. CASE CV!NotifyAll(p)
  <2>1. /\ cvPc[p] = "notify" /\ cvPc' = [cvPc EXCEPT ![p] = "idle"] /\ cvList' = <<>>
        /\ cvSignals' = [c \in Consumers |->
             IF \E i \in DOMAIN cvList : cvList[i] = c THEN cvSignals[c] \cup {"kNotify"} ELSE cvSignals[c]]
        /\ UNCHANGED <<cvOwner, cvItems, cvSleepies, cvTimed, cvCancelled, cvStatus, cvCalls>>
    BY <1>8 DEF CV!NotifyAll, CV!Goto
  <2>2. Once(cvList') /\ \A c : ~In(cvList', c)
    BY <2>1, InEmpty
  <2>3. CV!TypeOK'
    <3>1. cvSignals' \in [Consumers -> SUBSET {"kNotify", "kDeadlineTimer", "kCancelRequest"}]
      BY <2>1 DEF CV!TypeOK
    <3> QED BY <1>0, <2>1, <3>1 DEF CV!TypeOK, CV!Pcs
  <2>4. CvCounted'
    BY <1>0, <2>1, CvKeepsCount
  <2>5. CvListed'
    <3>1. \A c \in Consumers : "kNotify" \in cvSignals[c] \/ In(cvList, c) => "kNotify" \in cvSignals'[c]
      BY <2>1 DEF In, CV!TypeOK
    <3>2. \A c \in Consumers : cvPc'[c] = cvPc[c]
      BY <1>0, <2>1 DEF CV!TypeOK
    <3> QED BY <2>2, <3>1, <3>2 DEF CvListed
  <2>6. CvOwned'
    BY <1>0, <2>1 DEF CvOwned, CV!TypeOK
  <2>7. CvTaken'
    BY <2>2 DEF CvTaken, CvWaits
  <2> QED BY <2>3, <2>4, <2>5, <2>6, <2>7
<1> QED BY <1>1, <1>2, <1>3, <1>4, <1>5, <1>6, <1>7, <1>8 DEF CV!ProducerStep

\* The invariant holds at the start.
LEMMA CvStarts == CV!Init => CvInv
<1> SUFFICES ASSUME CV!Init PROVE CvInv
  OBVIOUS
<1>1. CV!TypeOK
  BY DEF CV!Init, CV!TypeOK, CV!Pcs
<1>2. CvSleepy = {}
  BY DEF CvSleepy, CvSleepyPcs, CV!Init, CV!Users
<1>3. CvCounted
  BY <1>2, FS_EmptySet DEF CvCounted, CV!Init
<1>4. CvListed /\ CvTaken
  <2>1. cvList = <<>> /\ \A c \in Consumers : cvPc[c] = "idle"
    BY DEF CV!Init, CV!Users
  <2>2. Once(cvList) /\ \A c : ~In(cvList, c)
    BY <2>1, InEmpty
  <2> QED BY <2>1, <2>2 DEF CvListed, CvListedPcs, CvTaken, CvWaits
<1>5. CvOwned
  BY DEF CvOwned, CV!Init, CV!Users
<1> QED BY <1>1, <1>3, <1>4, <1>5 DEF CvInv

\* What the invariant says of the items and of the mutex.
LEMMA CvSafe == CvInv => CV!TypeOK /\ CV!UnderMutex /\ CV!EveryItemHasTaker
<1> SUFFICES ASSUME CvInv PROVE CV!TypeOK /\ CV!UnderMutex /\ CV!EveryItemHasTaker
  OBVIOUS
<1>1. CV!UnderMutex
  BY DEF CvInv, CvOwned, CV!UnderMutex
<1>2. CV!EveryItemHasTaker
  <2> DEFINE L == {t \in CV!Users : CV!WillLook(t)}
  <2>1. SUFFICES ASSUME NEW i \in DOMAIN cvList, cvPc[cvList[i]] \in {"suspend", "asleep"}
                 PROVE  cvItems <= Cardinality(L)
    BY DEF CV!EveryItemHasTaker, CV!Cardinality, Cardinality
  <2>2. cvList[i] \in Consumers /\ CvWaits(cvList[i])
    BY <2>1 DEF CvInv, CV!TypeOK, CvWaits, In
  <2>3. cvItems <= Cardinality(CvTakers)
    BY <2>2 DEF CvInv, CvTaken
  <2>4. CvTakers \in SUBSET L
    BY DEF CvTakers, CvTaker, CV!WillLook, CvInv, CvListed, CvListedPcs
  <2>5. IsFiniteSet(L)
    BY CvConstants, FS_Subset
  <2>6. Cardinality(CvTakers) <= Cardinality(L) /\ Cardinality(L) \in Nat
    BY <2>4, <2>5, FS_Subset, FS_CardinalityType
  <2> QED BY <2>3, <2>6, CvFinite DEF CvInv, CV!TypeOK
<1> QED BY <1>1, <1>2 DEF CvInv

----------------------------------------------------------------------------
(* SharedMutex *)

SmWriterPcs == {"idle", "try", "asleep", "exclusive", "shared", "semNotify", "drop", "barrier", "broadcast"}
SmReaderPcs == {"idle", "cvLock", "predicate", "cvAppend", "cvAsleep", "tryShared", "try", "asleep", "shared",
                "semNotify"}
SmSignalSets == SUBSET {"kNotify", "kDeadlineTimer", "kCancelRequest"}

\* The types that no count decides.
SmTyped ==
  /\ smSemList \in Seq(SM!Lockers)
  /\ smCvOwner \in SM!Lockers \cup {NoTask}
  /\ smCvList \in SUBSET Readers
  /\ smSignals \in [SM!Lockers -> SmSignalSets]
  /\ smTimed \in [SM!Lockers -> BOOLEAN]
  /\ smCancelled \in [SM!Lockers -> BOOLEAN]
  /\ smReleased \in [SM!Lockers -> {0, 1, kWriterLock - 1, kWriterLock}]
  /\ smPc \in [SM!Lockers -> SM!Pcs]

\* What each kind of task does, and which counts it releases on the way.
SmPlace(t) ==
  /\ t \in Writers => smPc[t] \in SmWriterPcs
  /\ t \in Readers => smPc[t] \in SmReaderPcs /\ smReleased[t] \in {0, 1}
  /\ smPc[t] = "semNotify" => smReleased[t] # 0
  /\ smPc[t] \in {"drop", "barrier", "broadcast", "shared"} => smReleased[t] \in {0, kWriterLock - 1}
  /\ smReleased[t] # 0 => smPc[t] \in {"semNotify", "drop", "barrier", "broadcast", "shared"}
SmPlaces == \A t \in SM!Lockers : SmPlace(t)

\* Who has received a signal is asleep, or has not looked at it yet; the list of the
\* condition variable holds who sleeps there.
SmSignalled ==
  /\ \A t \in SM!Lockers : smSignals[t] # {} =>
       smPc[t] \in {"asleep", "cvAppend", "cvAsleep", "cvLock", "predicate"}
  /\ \A r \in smCvList : smPc[r] = "cvAsleep"

\* The list of the semaphore holds who sleeps there without a notification, each once.
SmUnnotified(t) == smPc[t] = "asleep" /\ "kNotify" \notin smSignals[t]
SmListed == Once(smSemList) /\ \A t \in SM!Lockers : In(smSemList, t) <=> SmUnnotified(t)

\* A writer inside is alone, and the permits are those of the tasks inside.
SmInside == {t \in SM!Lockers : SM!InShared(t)}
SmAlone ==
  /\ \A w \in Writers : smPc[w] = "exclusive" =>
       \A t \in SM!Lockers : t # w => smPc[t] # "exclusive" /\ ~SM!InShared(t)
  /\ (\E w \in Writers : smPc[w] = "exclusive") => smAcquired = kWriterLock
  /\ (\A w \in Writers : smPc[w] # "exclusive") => smAcquired = Cardinality(SmInside)

\* registered_writers_count_ is exact.
SmIsRegistered(w) ==
  \/ smPc[w] \in {"try", "asleep", "exclusive", "drop"}
  \/ smPc[w] = "semNotify" /\ smReleased[w] # 1
SmRegistered == {w \in Writers : SmIsRegistered(w)}
SmCounted == smWriters = Cardinality(SmRegistered)

\* A reader sleeps in the semaphore only for a writer inside, or one that will notify all.
SmReadersWait ==
  (\E r \in Readers : SmUnnotified(r)) =>
    \E w \in Writers : smPc[w] = "exclusive" \/ (smPc[w] = "semNotify" /\ smReleased[w] # 1)

\* A writer sleeps beside the free semaphore only if somebody will notify or try.
SmTries(u) == smPc[u] \in {"semNotify", "try"} \/ (smPc[u] = "asleep" /\ "kNotify" \in smSignals[u])
SmWritersWait ==
  (\E w \in Writers : SmUnnotified(w)) /\ smAcquired = 0 => \E u \in SM!Lockers : SmTries(u)

\* The mutex of the condition variable is held from the predicate to the entry in its list,
\* and the last writer passes through it before it notifies.
SmHolding == \A r \in Readers : smPc[r] \in {"predicate", "cvAppend"} => smCvOwner = r
SmReadersTold ==
  smWriters = 0 =>
    /\ \A r \in Readers : smPc[r] = "cvAppend" => \E w \in Writers : smPc[w] = "barrier"
    /\ smCvList # {} => \E w \in Writers : smPc[w] \in {"barrier", "broadcast"}

SmInv ==
  /\ SmTyped /\ SmPlaces /\ SmSignalled /\ SmListed /\ SmAlone /\ SmCounted
  /\ SmReadersWait /\ SmWritersWait /\ SmHolding /\ SmReadersTold

\* The constants of the shared mutex.
LEMMA SmConstants ==
  /\ IsFiniteSet(SM!Lockers) /\ NoTask \notin SM!Lockers /\ Readers \cap Writers = {}
  /\ SM!Lockers = Readers \cup Writers /\ IsFiniteSet(Writers)
  /\ kWriterLock \in Nat /\ kWriterLock > 2 /\ kWriterLock > Cardinality(SM!Lockers)
<1>1. /\ IsFiniteSet(SM!Lockers) /\ NoTask \notin SM!Lockers /\ Readers \cap Writers = {}
      /\ SM!Lockers = Readers \cup Writers
      /\ kWriterLock \in Nat /\ kWriterLock > 2 /\ kWriterLock > Cardinality(SM!Lockers)
  BY WakeupsAssumption
  DEF SM!SharedMutexAssumption, SM!Lockers, SM!IsFiniteSet, IsFiniteSet, SM!Cardinality, Cardinality
<1> QED BY <1>1, FS_Subset

\* Who is inside and who is registered are finitely many.
LEMMA SmFinite ==
  /\ IsFiniteSet(SmInside) /\ Cardinality(SmInside) \in Nat /\ Cardinality(SmInside) < kWriterLock
  /\ IsFiniteSet(SmRegistered) /\ Cardinality(SmRegistered) \in Nat
  /\ IsFiniteSet(SmInside') /\ Cardinality(SmInside') \in Nat
  /\ IsFiniteSet(SmRegistered') /\ Cardinality(SmRegistered') \in Nat
<1>1. SmInside \in SUBSET SM!Lockers /\ SmInside' \in SUBSET SM!Lockers
  BY DEF SmInside
<1>2. SmRegistered \in SUBSET Writers /\ SmRegistered' \in SUBSET Writers
  BY DEF SmRegistered
<1>3. /\ IsFiniteSet(SmInside) /\ IsFiniteSet(SmInside')
      /\ Cardinality(SmInside) <= Cardinality(SM!Lockers)
  BY <1>1, SmConstants, FS_Subset
<1>4. IsFiniteSet(SmRegistered) /\ IsFiniteSet(SmRegistered')
  BY <1>2, SmConstants, FS_Subset
<1>5. Cardinality(SM!Lockers) \in Nat
  BY SmConstants, FS_CardinalityType
<1> QED BY <1>3, <1>4, <1>5, SmConstants, FS_CardinalityType

\* What the permits taken say of the tasks inside.
LEMMA SmPermits ==
  ASSUME SmAlone
  PROVE  /\ smAcquired \in 0 .. kWriterLock
         /\ smAcquired = kWriterLock <=> \E w \in Writers : smPc[w] = "exclusive"
         /\ smAcquired = 0 => SmInside = {}
<1>1. CASE \E w \in Writers : smPc[w] = "exclusive"
  BY <1>1, SmConstants DEF SmAlone
<1>2. CASE \A w \in Writers : smPc[w] # "exclusive"
  <2>1. smAcquired = Cardinality(SmInside)
    BY <1>2 DEF SmAlone
  <2>2. Cardinality(SmInside) = 0 => SmInside = {}
    BY SmFinite, FS_EmptySet
  <2> QED BY <1>2, <2>1, <2>2, SmFinite, SmConstants
<1> QED BY <1>1, <1>2

\* The writers registered are a number, and none at zero.
LEMMA SmNumber ==
  ASSUME SmCounted
  PROVE  smWriters \in Nat /\ (smWriters = 0 => \A w \in Writers : ~SmIsRegistered(w))
<1>1. Cardinality(SmRegistered) = 0 => SmRegistered = {}
  BY SmFinite, FS_EmptySet
<1> QED BY <1>1, SmFinite DEF SmCounted, SmRegistered

\* A step of t moves only t.
SmOnly(t) == \A u \in SM!Lockers : u # t => smPc'[u] = smPc[u] /\ smReleased'[u] = smReleased[u]

\* A step that lets nobody in or out.
LEMMA SmSameInside ==
  ASSUME SmAlone, smAcquired' = smAcquired, NEW t \in SM!Lockers, SmOnly(t),
         smPc'[t] = "exclusive" <=> smPc[t] = "exclusive", SM!InShared(t)' <=> SM!InShared(t)
  PROVE  SmAlone'
<1>1. \A u \in SM!Lockers : /\ smPc'[u] = "exclusive" <=> smPc[u] = "exclusive"
                            /\ SM!InShared(u)' <=> SM!InShared(u)
  BY DEF SmOnly, SM!InShared
<1>2. SmInside' = SmInside
  BY <1>1 DEF SmInside
<1>3. \A w \in Writers : w \in SM!Lockers
  BY SmConstants
<1> QED BY <1>1, <1>2, <1>3 DEF SmAlone

\* A step that registers nobody.
LEMMA SmSameCount ==
  ASSUME SmCounted, smWriters' = smWriters, NEW t \in SM!Lockers, SmOnly(t),
         t \in Writers => (SmIsRegistered(t)' <=> SmIsRegistered(t))
  PROVE  SmCounted'
<1>1. \A w \in Writers : w \in SM!Lockers
  BY SmConstants
<1>2. \A w \in Writers : SmIsRegistered(w)' <=> SmIsRegistered(w)
  BY <1>1 DEF SmOnly, SmIsRegistered
<1>3. SmRegistered' = SmRegistered
  BY <1>2 DEF SmRegistered
<1> QED BY <1>3 DEF SmCounted

\* A step keeps everybody in place if it does so with who takes it.
LEMMA SmSamePlaces ==
  ASSUME SmPlaces, NEW t \in SM!Lockers, SmOnly(t), SmPlace(t)'
  PROVE  SmPlaces'
BY DEF SmPlaces, SmPlace, SmOnly

\* A step outside of the semaphore leaves alone what is true of it.
LEMMA SmOutside ==
  ASSUME SmListed, SmAlone, SmReadersWait, SmWritersWait, NEW t \in SM!Lockers, SmOnly(t),
         UNCHANGED <<smAcquired, smSemList>>,
         smPc[t] \notin {"try", "asleep", "exclusive", "semNotify"},
         smPc'[t] \notin {"asleep", "exclusive", "semNotify"}, SM!InShared(t)' <=> SM!InShared(t),
         \A u \in SM!Lockers : smPc[u] = "asleep" => smSignals'[u] = smSignals[u]
  PROVE  SmListed' /\ SmAlone' /\ SmReadersWait' /\ SmWritersWait'
<1>1. SmAlone'
  BY SmSameInside
<1>2. \A u \in SM!Lockers : SmUnnotified(u)' <=> SmUnnotified(u)
  BY DEF SmUnnotified, SmOnly
<1>3. SmListed'
  BY <1>2 DEF SmListed
<1>4. \A u \in Readers \cup Writers : u \in SM!Lockers
  BY SmConstants
<1>5. SmReadersWait'
  <2>1. \A w \in Writers : (smPc[w] = "exclusive" \/ (smPc[w] = "semNotify" /\ smReleased[w] # 1)) =>
                           (smPc[w] = "exclusive" \/ (smPc[w] = "semNotify" /\ smReleased[w] # 1))'
    BY <1>4 DEF SmOnly
  <2> QED BY <1>2, <1>4, <2>1 DEF SmReadersWait
<1>6. SmWritersWait'
  <2>1. \A u \in SM!Lockers : SmTries(u) => SmTries(u)'
    BY DEF SmTries, SmOnly
  <2> QED BY <1>2, <1>4, <2>1 DEF SmWritersWait
<1> QED BY <1>1, <1>3, <1>5, <1>6

\* The flags of a call keep their types.
LEMMA SmFlags ==
  ASSUME SmTyped, NEW t \in SM!Lockers,
         SM!Begin(t) \/ SM!Step(t) \/ SM!DeadlineTimer(t) \/ SM!RequestCancel(t)
  PROVE  smTimed' \in [SM!Lockers -> BOOLEAN] /\ smCancelled' \in [SM!Lockers -> BOOLEAN]
<1> USE DEF SM!semVars, SM!cvVars, SM!callVars
<1>1. smCancelled' = smCancelled \/ smCancelled' = [smCancelled EXCEPT ![t] = TRUE]
  BY Zenon DEF SM!Begin, SM!Step, SM!DeadlineTimer, SM!RequestCancel, SM!TryLockUntil, SM!LockShared,
    SM!TryLockShared, SM!CvLock, SM!Predicate, SM!CvAppend, SM!CvResume, SM!SemTry, SM!SemResume, SM!Unlock,
    SM!UnlockDowngraded, SM!UnlockAndLockShared, SM!SemNotify, SM!DropWriter, SM!PassMutex, SM!NotifyReaders
<1>2. smTimed' = smTimed \/ \E b \in BOOLEAN : smTimed' = [smTimed EXCEPT ![t] = b]
  <2>1. CASE SM!SemResume(t)
    <3>1. smTimed' = [smTimed EXCEPT ![t] = smTimed[t] /\ "kNotify" \in smSignals[t]]
      BY <2>1 DEF SM!SemResume
    <3>2. (smTimed[t] /\ "kNotify" \in smSignals[t]) \in BOOLEAN
      OBVIOUS
    <3> QED BY <3>1, <3>2, Zenon
  <2>2. CASE SM!TryLockUntil(t) \/ SM!LockShared(t) \/ SM!Predicate(t) \/ SM!SemTry(t)
    BY <2>2, Zenon DEF SM!TryLockUntil, SM!LockShared, SM!Predicate, SM!SemTry
  <2>3. CASE \/ SM!TryLockShared(t) \/ SM!CvLock(t) \/ SM!CvAppend(t) \/ SM!CvResume(t) \/ SM!Unlock(t)
             \/ SM!UnlockDowngraded(t) \/ SM!UnlockAndLockShared(t) \/ SM!SemNotify(t) \/ SM!DropWriter(t)
             \/ SM!PassMutex(t) \/ SM!NotifyReaders(t) \/ SM!DeadlineTimer(t) \/ SM!RequestCancel(t)
    BY <2>3, Zenon DEF SM!TryLockShared, SM!CvLock, SM!CvAppend, SM!CvResume, SM!Unlock, SM!UnlockDowngraded,
      SM!UnlockAndLockShared, SM!SemNotify, SM!DropWriter, SM!PassMutex, SM!NotifyReaders, SM!DeadlineTimer,
      SM!RequestCancel
  <2> QED BY <2>1, <2>2, <2>3, Zenon DEF SM!Begin, SM!Step
<1>3. smCancelled' \in [SM!Lockers -> BOOLEAN]
  BY <1>1, Zenon DEF SmTyped
<1>4. smTimed' \in [SM!Lockers -> BOOLEAN]
  BY <1>2, Zenon DEF SmTyped
<1> QED BY <1>3, <1>4

\* The invariant survives the steps of a reader outside of the semaphore.
LEMMA SmReaderStep ==
  ASSUME SmInv, NEW r \in SM!Lockers,
         \/ SM!LockShared(r) \/ SM!CvLock(r) \/ SM!Predicate(r) \/ SM!CvAppend(r) \/ SM!CvResume(r)
         \/ SM!TryLockShared(r) /\ ~(smPc[r] = "tryShared" /\ smAcquired < kWriterLock)
  PROVE  SmInv'
<1> USE SmConstants DEF SmInv
<1>0. smTimed' \in [SM!Lockers -> BOOLEAN] /\ smCancelled' \in [SM!Lockers -> BOOLEAN]
  BY SmFlags DEF SM!Begin, SM!Step, SM!TryLockShared
<1>1. ASSUME NEW l \in SM!Pcs, smPc' = [smPc EXCEPT ![r] = l],
             smPc[r] \in {"idle", "tryShared", "cvLock", "predicate", "cvAppend", "cvAsleep"},
             r \in Readers /\ smPc[r] \in SmReaderPcs =>
               l \in {"idle", "tryShared", "cvLock", "predicate", "cvAppend", "cvAsleep", "try"},
             r \in Readers \/ smPc[r] # "idle",
             UNCHANGED <<smAcquired, smSemList, smWriters, smReleased>>,
             \A u \in SM!Lockers : u # r => smSignals'[u] = smSignals[u]
      PROVE  /\ r \in Readers /\ SmOnly(r) /\ smPc'[r] = l /\ smPc' \in [SM!Lockers -> SM!Pcs]
             /\ SmPlaces' /\ SmListed' /\ SmAlone' /\ SmCounted' /\ SmReadersWait' /\ SmWritersWait'
  <2>1. r \in Readers
    <3>1. SmPlace(r)
      BY DEF SmPlaces
    <3> QED BY <1>1, <3>1 DEF SmPlace, SmWriterPcs
  <2>2. SmOnly(r) /\ smPc'[r] = l /\ smPc' \in [SM!Lockers -> SM!Pcs]
    BY <1>1 DEF SmTyped, SmOnly
  <2>3. /\ smPc[r] \in SmReaderPcs /\ smReleased[r] = 0 /\ smReleased'[r] = 0
        /\ l \in {"idle", "tryShared", "cvLock", "predicate", "cvAppend", "cvAsleep", "try"}
    <3>1. SmPlace(r)
      BY DEF SmPlaces
    <3> QED BY <1>1, <2>1, <3>1 DEF SmPlace
  <2>4. SmPlaces'
    <3>1. SmPlace(r)'
      BY <2>1, <2>2, <2>3 DEF SmPlace, SmReaderPcs
    <3> QED BY <2>2, <3>1, SmSamePlaces
  <2>5. SmListed' /\ SmAlone' /\ SmReadersWait' /\ SmWritersWait'
    <3>1. SM!InShared(r)' <=> SM!InShared(r)
      BY <1>1, <2>2, <2>3 DEF SM!InShared
    <3>2. \A u \in SM!Lockers : smPc[u] = "asleep" => smSignals'[u] = smSignals[u]
      BY <1>1
    <3> QED BY <1>1, <2>2, <2>3, <3>1, <3>2, SmOutside
  <2>6. SmCounted'
    BY <1>1, <2>1, <2>2, SmSameCount
  <2> QED BY <2>1, <2>2, <2>4, <2>5, <2>6
<1>2. CASE SM!LockShared(r) \/ (SM!TryLockShared(r) /\ ~(smPc[r] = "tryShared" /\ smAcquired < kWriterLock))
  <2>1. PICK l \in {"idle", "try", "cvLock", "tryShared"} :
          /\ smPc' = [smPc EXCEPT ![r] = l] /\ smPc[r] \in {"idle", "tryShared"} /\ r \in Readers
          /\ UNCHANGED <<smAcquired, smSemList, smWriters, smReleased, smSignals, smCvOwner, smCvList>>
    BY <1>2 DEF SM!LockShared, SM!TryLockShared, SM!Goto, SM!semVars, SM!cvVars, SM!callVars
  <2>2. /\ SmOnly(r) /\ smPc'[r] = l /\ smPc' \in [SM!Lockers -> SM!Pcs]
        /\ SmPlaces' /\ SmListed' /\ SmAlone' /\ SmCounted' /\ SmReadersWait' /\ SmWritersWait'
    BY <2>1, <1>1 DEF SM!Pcs
  <2>3. SmTyped'
    BY <1>0, <2>1, <2>2 DEF SmTyped
  <2>4. SmSignalled'
    BY <2>1, <2>2 DEF SmSignalled, SmOnly, SmTyped
  <2>5. SmHolding'
    BY <2>1, <2>2 DEF SmHolding, SmOnly
  <2>6. SmReadersTold'
    BY <2>1, <2>2 DEF SmReadersTold, SmOnly
  <2> QED BY <2>2, <2>3, <2>4, <2>5, <2>6
<1>3. CASE SM!CvLock(r)
  <2>1. /\ smPc' = [smPc EXCEPT ![r] = "predicate"] /\ smPc[r] = "cvLock"
        /\ smCvOwner = NoTask /\ smCvOwner' = r
        /\ UNCHANGED <<smAcquired, smSemList, smWriters, smReleased, smSignals, smCvList>>
    BY <1>3 DEF SM!CvLock, SM!Goto, SM!semVars, SM!callVars
  <2>2. /\ r \in Readers /\ SmOnly(r) /\ smPc'[r] = "predicate" /\ smPc' \in [SM!Lockers -> SM!Pcs]
        /\ SmPlaces' /\ SmListed' /\ SmAlone' /\ SmCounted' /\ SmReadersWait' /\ SmWritersWait'
    BY <2>1, <1>1 DEF SM!Pcs
  <2>3. SmTyped'
    BY <1>0, <2>1, <2>2 DEF SmTyped
  <2>4. SmSignalled'
    BY <2>1, <2>2 DEF SmSignalled, SmOnly, SmTyped
  <2>5. SmHolding'
    BY <2>1, <2>2 DEF SmHolding, SmOnly
  <2>6. SmReadersTold'
    BY <2>1, <2>2 DEF SmReadersTold, SmOnly
  <2> QED BY <2>2, <2>3, <2>4, <2>5, <2>6
<1>4. CASE SM!Predicate(r)
  <2>0. smWriters \in Nat
    BY SmNumber
  <2>1. PICK l \in {"idle", "try", "cvAppend"} :
          /\ smPc' = [smPc EXCEPT ![r] = l] /\ smPc[r] = "predicate"
          /\ l = "cvAppend" => smWriters > 0 /\ smCvOwner' = smCvOwner
          /\ l # "cvAppend" => smCvOwner' = NoTask
          /\ smSignals' = [smSignals EXCEPT ![r] = {}]
          /\ UNCHANGED <<smAcquired, smSemList, smWriters, smReleased, smCvList>>
    BY <1>4 DEF SM!Predicate, SM!Goto, SM!semVars
  <2>2. /\ r \in Readers /\ SmOnly(r) /\ smPc'[r] = l /\ smPc' \in [SM!Lockers -> SM!Pcs]
        /\ SmPlaces' /\ SmListed' /\ SmAlone' /\ SmCounted' /\ SmReadersWait' /\ SmWritersWait'
    <3>1. \A u \in SM!Lockers : u # r => smSignals'[u] = smSignals[u]
      BY <2>1 DEF SmTyped
    <3> QED BY <2>1, <3>1, <1>1 DEF SM!Pcs
  <2>3. SmTyped'
    <3>1. smSignals' \in [SM!Lockers -> SmSignalSets]
      BY <2>1 DEF SmTyped, SmSignalSets
    <3> QED BY <1>0, <2>1, <2>2, <3>1 DEF SmTyped
  <2>4. SmSignalled'
    BY <2>1, <2>2 DEF SmSignalled, SmOnly, SmTyped
  <2>5. SmHolding'
    BY <2>1, <2>2 DEF SmHolding, SmOnly
  <2>6. SmReadersTold'
    BY <2>0, <2>1, <2>2 DEF SmReadersTold, SmOnly
  <2> QED BY <2>2, <2>3, <2>4, <2>5, <2>6
<1>5. CASE SM!CvAppend(r)
  <2>1. /\ smPc' = [smPc EXCEPT ![r] = "cvAsleep"] /\ smPc[r] = "cvAppend"
        /\ smCvOwner' = NoTask /\ smCvList' = smCvList \cup {r}
        /\ UNCHANGED <<smAcquired, smSemList, smWriters, smReleased, smSignals>>
    BY <1>5 DEF SM!CvAppend, SM!Goto, SM!semVars, SM!callVars
  <2>2. /\ r \in Readers /\ SmOnly(r) /\ smPc'[r] = "cvAsleep" /\ smPc' \in [SM!Lockers -> SM!Pcs]
        /\ SmPlaces' /\ SmListed' /\ SmAlone' /\ SmCounted' /\ SmReadersWait' /\ SmWritersWait'
    BY <2>1, <1>1 DEF SM!Pcs
  <2>3. SmTyped'
    BY <1>0, <2>1, <2>2 DEF SmTyped
  <2>4. SmSignalled'
    BY <2>1, <2>2 DEF SmSignalled, SmOnly, SmTyped
  <2>5. SmHolding'
    BY <2>1, <2>2 DEF SmHolding, SmOnly
  <2>6. SmReadersTold'
    BY <2>1, <2>2 DEF SmReadersTold, SmOnly, SmHolding
  <2> QED BY <2>2, <2>3, <2>4, <2>5, <2>6
<1>6. CASE SM!CvResume(r)
  <2>1. /\ smPc' = [smPc EXCEPT ![r] = "cvLock"] /\ smPc[r] = "cvAsleep" /\ smCvList' = smCvList \ {r}
        /\ UNCHANGED <<smAcquired, smSemList, smWriters, smReleased, smSignals, smCvOwner>>
    BY <1>6 DEF SM!CvResume, SM!Goto, SM!semVars, SM!callVars
  <2>2. /\ r \in Readers /\ SmOnly(r) /\ smPc'[r] = "cvLock" /\ smPc' \in [SM!Lockers -> SM!Pcs]
        /\ SmPlaces' /\ SmListed' /\ SmAlone' /\ SmCounted' /\ SmReadersWait' /\ SmWritersWait'
    BY <2>1, <1>1 DEF SM!Pcs
  <2>3. SmTyped'
    BY <1>0, <2>1, <2>2 DEF SmTyped
  <2>4. SmSignalled'
    BY <2>1, <2>2 DEF SmSignalled, SmOnly, SmTyped
  <2>5. SmHolding'
    BY <2>1, <2>2 DEF SmHolding, SmOnly
  <2>6. SmReadersTold'
    BY <2>1, <2>2 DEF SmReadersTold, SmOnly
  <2> QED BY <2>2, <2>3, <2>4, <2>5, <2>6
<1> QED BY <1>2, <1>3, <1>4, <1>5, <1>6

\* The invariant survives the steps of a writer outside of the semaphore.
LEMMA SmWriterStep ==
  ASSUME SmInv, NEW w \in SM!Lockers,
         SM!TryLockUntil(w) \/ SM!DropWriter(w) \/ SM!PassMutex(w) \/ SM!NotifyReaders(w)
  PROVE  SmInv'
<1> USE SmConstants DEF SmInv
<1>0. smTimed' \in [SM!Lockers -> BOOLEAN] /\ smCancelled' \in [SM!Lockers -> BOOLEAN]
  BY SmFlags DEF SM!Begin, SM!Step
<1>1. SmPlace(w)
  BY DEF SmPlaces
<1>2. CASE SM!TryLockUntil(w)
  <2>1. /\ smPc' = [smPc EXCEPT ![w] = "try"] /\ smPc[w] = "idle" /\ w \in Writers /\ smWriters' = smWriters + 1
        /\ UNCHANGED <<smAcquired, smSemList, smReleased, smSignals, smCvOwner, smCvList>>
    BY <1>2 DEF SM!TryLockUntil, SM!Goto, SM!semVars, SM!cvVars
  <2>2. SmOnly(w) /\ smPc'[w] = "try" /\ smPc' \in [SM!Lockers -> SM!Pcs]
    BY <2>1 DEF SmTyped, SmOnly, SM!Pcs
  <2>3. SmPlaces'
    <3>1. SmPlace(w)'
      BY <1>1, <2>1, <2>2 DEF SmPlace, SmWriterPcs
    <3> QED BY <2>2, <3>1, SmSamePlaces
  <2>4. SmListed' /\ SmAlone' /\ SmReadersWait' /\ SmWritersWait'
    <3>1. SM!InShared(w)' <=> SM!InShared(w)
      BY <2>1, <2>2 DEF SM!InShared
    <3> QED BY <2>1, <2>2, <3>1, SmOutside
  <2>5. SmCounted'
    <3>1. SmRegistered' = SmRegistered \cup {w} /\ w \notin SmRegistered
      BY <2>1, <2>2 DEF SmRegistered, SmIsRegistered, SmOnly
    <3> QED BY <2>1, <3>1, SmFinite, FS_AddElement DEF SmCounted
  <2>6. SmTyped'
    BY <1>0, <2>1, <2>2 DEF SmTyped
  <2>7. SmSignalled'
    BY <2>1, <2>2 DEF SmSignalled, SmOnly, SmTyped
  <2>8. SmHolding'
    BY <2>1, <2>2 DEF SmHolding, SmOnly
  <2>9. SmReadersTold'
    BY <2>1, SmNumber DEF SmReadersTold
  <2> QED BY <2>3, <2>4, <2>5, <2>6, <2>7, <2>8, <2>9
<1>3. CASE SM!DropWriter(w)
  <2>1. /\ smPc' = [smPc EXCEPT ![w] = IF smWriters = 1 THEN "barrier" ELSE SM!After(w)]
        /\ smPc[w] = "drop" /\ smWriters' = smWriters - 1
        /\ UNCHANGED <<smAcquired, smSemList, smReleased, smSignals, smCvOwner, smCvList>>
    BY <1>3 DEF SM!DropWriter, SM!Goto, SM!semVars, SM!cvVars
  <2>2. /\ SmOnly(w) /\ smPc'[w] = (IF smWriters = 1 THEN "barrier" ELSE SM!After(w))
        /\ smPc' \in [SM!Lockers -> SM!Pcs] /\ smReleased'[w] = smReleased[w]
    BY <2>1 DEF SmTyped, SmOnly, SM!Pcs, SM!After
  <2>3. w \in Writers /\ smReleased[w] \in {0, kWriterLock - 1}
    BY <1>1, <2>1 DEF SmPlace, SmReaderPcs
  <2>4. SmPlaces'
    <3>1. SmPlace(w)'
      BY <2>2, <2>3 DEF SmPlace, SmWriterPcs, SM!After
    <3> QED BY <2>2, <3>1, SmSamePlaces
  <2>5. SmListed' /\ SmAlone' /\ SmReadersWait' /\ SmWritersWait'
    <3>1. SM!InShared(w)' <=> SM!InShared(w)
      BY <2>1, <2>2 DEF SM!InShared, SM!After
    <3>2. smPc'[w] \in {"barrier", "shared", "idle"}
      BY <2>2 DEF SM!After
    <3> QED BY <2>1, <2>2, <3>1, <3>2, SmOutside
  <2>6. SmCounted'
    <3>1. smPc'[w] \in {"barrier", "shared", "idle"}
      BY <2>2 DEF SM!After
    <3>2. SmRegistered' = SmRegistered \ {w} /\ w \in SmRegistered
      BY <2>1, <2>2, <2>3, <3>1 DEF SmRegistered, SmIsRegistered, SmOnly
    <3> QED BY <2>1, <3>2, SmFinite, FS_RemoveElement DEF SmCounted
  <2>7. SmTyped'
    BY <1>0, <2>1, <2>2 DEF SmTyped
  <2>8. SmSignalled'
    BY <2>1, <2>2 DEF SmSignalled, SmOnly, SmTyped
  <2>9. SmHolding'
    BY <2>1, <2>2, <2>3 DEF SmHolding, SmOnly
  <2>10. SmReadersTold'
    <3>1. smWriters' = 0 => smWriters = 1
      BY <2>1, SmNumber
    <3> QED BY <2>2, <2>3, <3>1 DEF SmReadersTold
  <2> QED BY <2>4, <2>5, <2>6, <2>7, <2>8, <2>9, <2>10
<1>4. CASE SM!PassMutex(w)
  <2>1. /\ smPc' = [smPc EXCEPT ![w] = "broadcast"] /\ smPc[w] = "barrier" /\ smCvOwner = NoTask
        /\ UNCHANGED <<smAcquired, smSemList, smReleased, smSignals, smCvOwner, smCvList, smWriters>>
    BY <1>4 DEF SM!PassMutex, SM!Goto, SM!semVars, SM!cvVars
  <2>2. SmOnly(w) /\ smPc'[w] = "broadcast" /\ smPc' \in [SM!Lockers -> SM!Pcs]
    BY <2>1 DEF SmTyped, SmOnly, SM!Pcs
  <2>3. w \in Writers
    BY <1>1, <2>1 DEF SmPlace, SmReaderPcs
  <2>4. SmPlaces'
    <3>1. SmPlace(w)'
      BY <1>1, <2>1, <2>2, <2>3 DEF SmPlace, SmWriterPcs
    <3> QED BY <2>2, <3>1, SmSamePlaces
  <2>5. SmListed' /\ SmAlone' /\ SmReadersWait' /\ SmWritersWait'
    <3>1. SM!InShared(w)' <=> SM!InShared(w)
      BY <2>1, <2>2 DEF SM!InShared
    <3> QED BY <2>1, <2>2, <3>1, SmOutside
  <2>6. SmCounted'
    BY <2>1, <2>2, SmSameCount DEF SmIsRegistered
  <2>7. SmTyped'
    BY <1>0, <2>1, <2>2 DEF SmTyped
  <2>8. SmSignalled'
    BY <2>1, <2>2 DEF SmSignalled, SmOnly, SmTyped
  <2>9. SmHolding'
    BY <2>1, <2>2, <2>3 DEF SmHolding, SmOnly
  <2>10. SmReadersTold'
    <3>1. \A r \in Readers : smPc'[r] # "cvAppend"
      BY <2>1, <2>2, <2>3 DEF SmHolding, SmOnly
    <3> QED BY <2>2, <2>3, <3>1 DEF SmReadersTold
  <2> QED BY <2>4, <2>5, <2>6, <2>7, <2>8, <2>9, <2>10
<1>5. CASE SM!NotifyReaders(w)
  <2>1. /\ smPc' = [smPc EXCEPT ![w] = SM!After(w)] /\ smPc[w] = "broadcast" /\ smCvList' = {}
        /\ smSignals' = [t \in SM!Lockers |-> IF t \in smCvList THEN smSignals[t] \cup {"kNotify"} ELSE smSignals[t]]
        /\ UNCHANGED <<smAcquired, smSemList, smReleased, smCvOwner, smWriters>>
    BY <1>5 DEF SM!NotifyReaders, SM!Goto, SM!semVars, SM!callVars
  <2>2. /\ SmOnly(w) /\ smPc'[w] = SM!After(w) /\ smPc' \in [SM!Lockers -> SM!Pcs]
        /\ smReleased'[w] = smReleased[w] /\ SM!After(w) \in {"shared", "idle"}
    BY <2>1 DEF SmTyped, SmOnly, SM!Pcs, SM!After
  <2>3. w \in Writers /\ smReleased[w] \in {0, kWriterLock - 1}
    BY <1>1, <2>1 DEF SmPlace, SmReaderPcs
  <2>4. SmPlaces'
    <3>1. SmPlace(w)'
      BY <2>2, <2>3 DEF SmPlace, SmWriterPcs, SM!After
    <3> QED BY <2>2, <3>1, SmSamePlaces
  <2>5. SmListed' /\ SmAlone' /\ SmReadersWait' /\ SmWritersWait'
    <3>1. SM!InShared(w)' <=> SM!InShared(w)
      BY <2>1, <2>2 DEF SM!InShared, SM!After
    <3>2. \A u \in SM!Lockers : smPc[u] = "asleep" => smSignals'[u] = smSignals[u]
      BY <2>1 DEF SmSignalled
    <3> QED BY <2>1, <2>2, <3>1, <3>2, SmOutside
  <2>6. SmCounted'
    BY <2>1, <2>2, SmSameCount DEF SmIsRegistered
  <2>7. SmTyped'
    <3>1. smSignals' \in [SM!Lockers -> SmSignalSets]
      BY <2>1 DEF SmTyped, SmSignalSets
    <3> QED BY <1>0, <2>1, <2>2, <3>1 DEF SmTyped
  <2>8. SmSignalled'
    BY <2>1, <2>2 DEF SmSignalled, SmOnly, SmTyped
  <2>9. SmHolding'
    BY <2>1, <2>2, <2>3 DEF SmHolding, SmOnly
  <2>10. SmReadersTold'
    BY <2>1, <2>2, <2>3 DEF SmReadersTold, SmOnly
  <2> QED BY <2>4, <2>5, <2>6, <2>7, <2>8, <2>9, <2>10
<1> QED BY <1>2, <1>3, <1>4, <1>5

\* A step in the semaphore leaves alone what is true of the condition variable.
LEMMA SmBeside ==
  ASSUME SmTyped, SmSignalled, SmHolding, SmReadersTold, NEW t \in SM!Lockers, SmOnly(t),
         UNCHANGED <<smCvOwner, smCvList, smWriters>>,
         smPc[t] \notin {"cvAppend", "cvAsleep", "barrier", "broadcast"},
         smPc'[t] \notin {"predicate", "cvAppend"},
         \A u \in SM!Lockers : smSignals'[u] # {} /\ (u = t \/ smSignals'[u] # smSignals[u]) => smPc'[u] = "asleep"
  PROVE  SmSignalled' /\ SmHolding' /\ SmReadersTold'
<1> USE SmConstants
<1>1. SmSignalled'
  BY DEF SmSignalled, SmOnly, SmTyped
<1>2. SmHolding'
  BY DEF SmHolding, SmOnly
<1>3. SmReadersTold'
  BY DEF SmReadersTold, SmOnly
<1> QED BY <1>1, <1>2, <1>3

\* The invariant survives the steps into the semaphore.
LEMMA SmTakeStep ==
  ASSUME SmInv, NEW t \in SM!Lockers,
         SM!SemTry(t) \/ (SM!TryLockShared(t) /\ smPc[t] = "tryShared" /\ smAcquired < kWriterLock)
  PROVE  SmInv'
<1> USE SmConstants DEF SmInv
<1>0. smTimed' \in [SM!Lockers -> BOOLEAN] /\ smCancelled' \in [SM!Lockers -> BOOLEAN]
  BY SmFlags DEF SM!Begin, SM!Step
<1>1. /\ SmPlace(t) /\ \A u \in Readers \cup Writers : u \in SM!Lockers
      /\ smAcquired \in 0 .. kWriterLock
      /\ smAcquired = kWriterLock <=> \E w \in Writers : smPc[w] = "exclusive"
      /\ smAcquired = 0 => SmInside = {}
  BY SmPermits DEF SmPlaces
<1>2. ASSUME NEW l \in {"exclusive", "shared"}, smPc' = [smPc EXCEPT ![t] = l], smPc[t] \in {"try", "tryShared"},
             t \in Writers => smPc[t] = "try" /\ l = "exclusive", t \in Readers => l = "shared",
             smAcquired' = smAcquired + SM!Need(t), smAcquired <= kWriterLock - SM!Need(t),
             UNCHANGED <<smSemList, smWriters, smReleased, smSignals, smCvOwner, smCvList>>
      PROVE  SmInv'
  <2>1. SmOnly(t) /\ smPc'[t] = l /\ smPc' \in [SM!Lockers -> SM!Pcs]
    BY <1>2 DEF SmTyped, SmOnly, SM!Pcs
  <2>2. smReleased'[t] = 0 /\ smReleased[t] = 0
    BY <1>1, <1>2 DEF SmPlace
  <2>3. SmPlaces'
    <3>1. SmPlace(t)'
      BY <1>2, <2>1, <2>2 DEF SmPlace, SmWriterPcs, SmReaderPcs
    <3> QED BY <2>1, <3>1, SmSamePlaces
  <2>4. SmTyped'
    BY <1>0, <1>2, <2>1 DEF SmTyped
  <2>5. SmSignalled' /\ SmHolding' /\ SmReadersTold'
    <3>1. smSignals[t] = {}
      BY <1>2 DEF SmSignalled
    <3> QED BY <1>2, <2>1, <3>1, SmBeside
  <2>6. SmCounted'
    BY <1>2, <2>1, SmSameCount DEF SmIsRegistered
  <2>7. SmListed'
    <3>1. \A u \in SM!Lockers : SmUnnotified(u)' <=> SmUnnotified(u)
      BY <1>2, <2>1 DEF SmUnnotified, SmOnly
    <3> QED BY <1>2, <3>1 DEF SmListed
  <2>8. \A w \in Writers : smPc[w] # "exclusive"
    BY <1>1, <1>2 DEF SM!Need
  <2>9. SmAlone' /\ smAcquired' > 0
    <3>1. CASE t \in Writers
      <4>1. smAcquired = 0 /\ smAcquired' = kWriterLock /\ l = "exclusive"
        BY <1>1, <1>2, <3>1 DEF SM!Need
      <4>2. \A u \in SM!Lockers : ~SM!InShared(u)
        BY <1>1, <4>1 DEF SmInside
      <4>3. \A u \in SM!Lockers : u # t => smPc'[u] # "exclusive"
        <5>1. \A u \in Readers : smPc[u] # "exclusive"
          BY <1>1 DEF SmPlaces, SmPlace, SmReaderPcs
        <5> QED BY <2>1, <2>8, <5>1 DEF SmOnly
      <4>4. \A u \in SM!Lockers : u # t => ~SM!InShared(u)'
        BY <2>1, <4>2 DEF SmOnly, SM!InShared
      <4> QED BY <1>1, <2>1, <3>1, <4>1, <4>3, <4>4 DEF SmAlone
    <3>2. CASE t \in Readers
      <4>1. smAcquired' = smAcquired + 1 /\ l = "shared" /\ t \notin Writers
        BY <1>2, <3>2 DEF SM!Need
      <4>2. SmInside' = SmInside \cup {t} /\ t \notin SmInside
        <5>1. SM!InShared(t)' /\ ~SM!InShared(t)
          BY <1>2, <2>1, <4>1 DEF SM!InShared
        <5>2. \A u \in SM!Lockers : u # t => (SM!InShared(u)' <=> SM!InShared(u))
          BY <2>1 DEF SmOnly, SM!InShared
        <5> QED BY <5>1, <5>2 DEF SmInside
      <4>3. Cardinality(SmInside') = Cardinality(SmInside) + 1
        BY <4>2, SmFinite, FS_AddElement
      <4>4. \A w \in Writers : smPc'[w] # "exclusive"
        BY <1>1, <2>1, <2>8, <4>1 DEF SmOnly
      <4> QED BY <1>1, <2>8, <4>1, <4>3, <4>4 DEF SmAlone
    <3> QED BY <3>1, <3>2
  <2>10. SmReadersWait'
    <3>1. \A u \in SM!Lockers : SmUnnotified(u)' <=> SmUnnotified(u)
      BY <1>2, <2>1 DEF SmUnnotified, SmOnly
    <3>2. \A w \in Writers : (smPc[w] = "semNotify" /\ smReleased[w] # 1) =>
                             (smPc[w] = "semNotify" /\ smReleased[w] # 1)'
      BY <1>1, <1>2, <2>1 DEF SmOnly
    <3> QED BY <1>1, <2>8, <3>1, <3>2 DEF SmReadersWait
  <2>11. SmWritersWait'
    BY <2>9 DEF SmWritersWait
  <2> QED BY <2>3, <2>4, <2>5, <2>6, <2>7, <2>9, <2>10, <2>11
<1>3. CASE SM!TryLockShared(t) /\ smPc[t] = "tryShared" /\ smAcquired < kWriterLock
  <2>1. /\ smPc' = [smPc EXCEPT ![t] = "shared"] /\ smPc[t] = "tryShared" /\ t \in Readers
        /\ smAcquired' = smAcquired + 1
        /\ UNCHANGED <<smSemList, smWriters, smReleased, smSignals, smCvOwner, smCvList>>
    BY <1>3 DEF SM!TryLockShared, SM!Goto, SM!cvVars
  <2>2. t \notin Writers /\ SM!Need(t) = 1 /\ smAcquired <= kWriterLock - 1
    BY <1>1, <1>3, <2>1 DEF SM!Need
  <2> QED BY <2>1, <2>2, <1>2
<1>4. CASE SM!SemTry(t) /\ smAcquired <= kWriterLock - SM!Need(t)
  <2>1. /\ smPc' = [smPc EXCEPT ![t] = IF t \in Writers THEN "exclusive" ELSE "shared"] /\ smPc[t] = "try"
        /\ smAcquired' = smAcquired + SM!Need(t)
        /\ UNCHANGED <<smSemList, smWriters, smReleased, smSignals, smCvOwner, smCvList>>
    <3>1. SM!Need(t) \in Int
      BY DEF SM!Need
    <3> QED BY <1>1, <1>4, <3>1 DEF SM!SemTry, SM!Goto, SM!cvVars
  <2>2. CASE t \in Writers
    <3>1. t \notin Readers
      BY <2>2
    <3> QED BY <1>4, <2>1, <2>2, <3>1, <1>2
  <2>3. CASE t \in Readers
    <3>1. t \notin Writers
      BY <2>3
    <3> QED BY <1>4, <2>1, <2>3, <3>1, <1>2
  <2> QED BY <2>2, <2>3
<1>5. CASE SM!SemTry(t) /\ smAcquired > kWriterLock - SM!Need(t)
  <2>1. /\ smPc' = [smPc EXCEPT ![t] = "asleep"] /\ smPc[t] = "try" /\ smSemList' = Append(smSemList, t)
        /\ UNCHANGED <<smAcquired, smWriters, smReleased, smSignals, smCvOwner, smCvList>>
    <3>1. SM!Need(t) \in Int
      BY DEF SM!Need
    <3> QED BY <1>1, <1>5, <3>1 DEF SM!SemTry, SM!Goto, SM!cvVars
  <2>2. SmOnly(t) /\ smPc'[t] = "asleep" /\ smPc' \in [SM!Lockers -> SM!Pcs]
    BY <2>1 DEF SmTyped, SmOnly, SM!Pcs
  <2>3. SmPlaces'
    <3>1. SmPlace(t)'
      BY <1>1, <2>1, <2>2 DEF SmPlace, SmWriterPcs, SmReaderPcs
    <3> QED BY <2>2, <3>1, SmSamePlaces
  <2>4. smSignals[t] = {} /\ ~SmUnnotified(t) /\ SmUnnotified(t)'
    BY <2>1, <2>2 DEF SmSignalled, SmUnnotified
  <2>5. /\ smSemList' \in Seq(SM!Lockers) /\ Once(smSemList')
        /\ \A u : In(smSemList', u) <=> In(smSemList, u) \/ u = t
    <3>1. smSemList \in Seq(SM!Lockers) /\ Once(smSemList) /\ ~In(smSemList, t)
      BY <2>4 DEF SmListed, SmTyped
    <3> QED BY <2>1, <3>1, InAppended
  <2>6. SmTyped'
    BY <1>0, <2>1, <2>2, <2>5 DEF SmTyped
  <2>7. SmSignalled' /\ SmHolding' /\ SmReadersTold'
    BY <2>1, <2>2, <2>4, SmBeside
  <2>8. SmCounted'
    BY <2>1, <2>2, SmSameCount DEF SmIsRegistered
  <2>9. SmListed'
    <3>1. \A u \in SM!Lockers : u # t => (SmUnnotified(u)' <=> SmUnnotified(u))
      BY <2>1, <2>2 DEF SmUnnotified, SmOnly
    <3> QED BY <2>4, <2>5, <3>1 DEF SmListed
  <2>10. SmAlone'
    <3>1. SM!InShared(t)' <=> SM!InShared(t)
      BY <2>1, <2>2 DEF SM!InShared
    <3> QED BY <2>1, <2>2, <3>1, SmSameInside
  <2>11. SmReadersWait'
    <3>1. \A w \in Writers : w # t => smPc'[w] = smPc[w] /\ smReleased'[w] = smReleased[w]
      BY <1>1, <2>2 DEF SmOnly
    <3>2. CASE t \in Readers
      <4>1. smAcquired = kWriterLock
        BY <1>1, <1>5, <3>2 DEF SM!Need
      <4>2. PICK w \in Writers : smPc[w] = "exclusive"
        BY <1>1, <4>1
      <4> QED BY <2>1, <3>1, <4>2 DEF SmReadersWait
    <3>3. CASE t \in Writers
      <4>1. \A r \in Readers : SmUnnotified(r)' <=> SmUnnotified(r)
        BY <1>1, <2>1, <2>2, <3>3 DEF SmUnnotified, SmOnly
      <4> QED BY <2>1, <3>1, <4>1 DEF SmReadersWait
    <3> QED BY <3>2, <3>3
  <2>12. SmWritersWait'
    <3>1. smAcquired' > 0
      BY <1>1, <1>5, <2>1 DEF SM!Need
    <3> QED BY <3>1 DEF SmWritersWait
  <2> QED BY <2>3, <2>6, <2>7, <2>8, <2>9, <2>10, <2>11, <2>12
<1>6. CASE SM!SemTry(t)
  <2>1. SM!Need(t) \in Int
    BY DEF SM!Need
  <2> QED BY <1>1, <1>4, <1>5, <1>6, <2>1
<1> QED BY <1>3, <1>6

\* The invariant survives the end of a sleep in the semaphore.
LEMMA SmResumeStep ==
  ASSUME SmInv, NEW t \in SM!Lockers, SM!SemResume(t)
  PROVE  SmInv'
<1> USE SmConstants DEF SmInv
<1>0. smTimed' \in [SM!Lockers -> BOOLEAN] /\ smCancelled' \in [SM!Lockers -> BOOLEAN]
  BY SmFlags DEF SM!Begin, SM!Step
<1>1. SmPlace(t) /\ \A u \in Readers \cup Writers : u \in SM!Lockers
  BY DEF SmPlaces
<1>2. /\ smPc' = [smPc EXCEPT ![t] = IF "kNotify" \in smSignals[t] THEN "try" ELSE SM!Leave(t)]
      /\ smPc[t] = "asleep" /\ smSignals' = [smSignals EXCEPT ![t] = {}]
      /\ UNCHANGED <<smAcquired, smWriters, smReleased, smCvOwner, smCvList>>
  BY DEF SM!SemResume, SM!Goto, SM!cvVars
<1>3. /\ SmOnly(t) /\ smPc' \in [SM!Lockers -> SM!Pcs]
      /\ smPc'[t] = (IF "kNotify" \in smSignals[t] THEN "try" ELSE SM!Leave(t))
      /\ smPc'[t] \in {"try", "drop", "idle"} /\ (t \in Writers => smPc'[t] # "idle")
      /\ (t \in Readers => smPc'[t] # "drop")
  BY <1>2 DEF SmTyped, SmOnly, SM!Pcs, SM!Leave
<1>4. smReleased[t] = 0 /\ smReleased'[t] = 0
  BY <1>1, <1>2 DEF SmPlace
<1>5. /\ smSignals' \in [SM!Lockers -> SmSignalSets] /\ smSignals'[t] = {}
      /\ \A u \in SM!Lockers : u # t => smSignals'[u] = smSignals[u]
  BY <1>2 DEF SmTyped, SmSignalSets
<1>6. /\ smSemList' \in Seq(SM!Lockers) /\ Once(smSemList')
      /\ \A u : In(smSemList', u) <=> In(smSemList, u) /\ u # t
  <2>1. smSemList \in Seq(SM!Lockers) /\ Once(smSemList)
    BY DEF SmListed, SmTyped
  <2>2. CASE \E i \in 1 .. Len(smSemList) : smSemList[i] = t /\ smSemList' = SM!Unlinked(smSemList, i)
    <3>1. PICK i \in 1 .. Len(smSemList) : smSemList[i] = t /\ smSemList' = Rest(smSemList, i)
      BY <2>2 DEF SM!Unlinked, Rest
    <3> QED BY <2>1, <3>1, InRest
  <2>3. CASE (\A i \in 1 .. Len(smSemList) : smSemList[i] # t) /\ UNCHANGED smSemList
    <3>1. ~In(smSemList, t)
      BY <2>3 DEF In
    <3> QED BY <2>1, <2>3, <3>1
  <2> QED BY <2>2, <2>3 DEF SM!SemResume
<1>7. SmTyped'
  BY <1>0, <1>2, <1>3, <1>5, <1>6 DEF SmTyped
<1>8. SmPlaces'
  <2>1. SmPlace(t)'
    BY <1>3, <1>4 DEF SmPlace, SmWriterPcs, SmReaderPcs
  <2> QED BY <1>3, <2>1, SmSamePlaces
<1>9. SmSignalled' /\ SmHolding' /\ SmReadersTold'
  BY <1>2, <1>3, <1>5, SmBeside
<1>10. SmCounted'
  BY <1>2, <1>3, SmSameCount DEF SmIsRegistered
<1>11. SmAlone'
  <2>1. SM!InShared(t)' <=> SM!InShared(t)
    BY <1>2, <1>3, <1>4 DEF SM!InShared
  <2> QED BY <1>2, <1>3, <2>1, SmSameInside
<1>12. \A u \in SM!Lockers : SmUnnotified(u)' <=> SmUnnotified(u) /\ u # t
  BY <1>3, <1>5 DEF SmUnnotified, SmOnly
<1>13. SmListed'
  BY <1>6, <1>12 DEF SmListed
<1>14. SmReadersWait'
  <2>1. \A w \in Writers : (smPc[w] = "exclusive" \/ (smPc[w] = "semNotify" /\ smReleased[w] # 1)) =>
                           (smPc[w] = "exclusive" \/ (smPc[w] = "semNotify" /\ smReleased[w] # 1))'
    BY <1>1, <1>2, <1>3 DEF SmOnly
  <2> QED BY <1>1, <1>12, <2>1 DEF SmReadersWait
<1>15. SmWritersWait'
  <2>1. \A u \in SM!Lockers : SmTries(u) => SmTries(u)'
    BY <1>2, <1>3, <1>5 DEF SmTries, SmOnly
  <2> QED BY <1>1, <1>2, <1>12, <2>1 DEF SmWritersWait
<1> QED BY <1>7, <1>8, <1>9, <1>10, <1>11, <1>13, <1>14, <1>15

\* The invariant survives the steps that give permits back.
LEMMA SmUnlockStep ==
  ASSUME SmInv, NEW t \in SM!Lockers,
         SM!Unlock(t) \/ SM!UnlockDowngraded(t) \/ SM!UnlockAndLockShared(t)
  PROVE  SmInv'
<1> USE SmConstants DEF SmInv
<1>0. smTimed' \in [SM!Lockers -> BOOLEAN] /\ smCancelled' \in [SM!Lockers -> BOOLEAN]
  BY SmFlags DEF SM!Begin, SM!Step
<1>1. SmPlace(t) /\ \A u \in Readers \cup Writers : u \in SM!Lockers
  BY DEF SmPlaces
<1>2. PICK k \in {1, kWriterLock - 1, kWriterLock} :
        /\ smPc' = [smPc EXCEPT ![t] = "semNotify"] /\ smReleased' = [smReleased EXCEPT ![t] = k]
        /\ smAcquired' = smAcquired - k
        /\ \/ smPc[t] = "shared" /\ k = 1
           \/ smPc[t] = "exclusive" /\ k # 1 /\ t \in Writers
        /\ UNCHANGED <<smSemList, smWriters, smSignals, smCvOwner, smCvList>>
  <2>1. CASE SM!Unlock(t) /\ t \in Writers
    BY <2>1 DEF SM!Unlock, SM!Goto, SM!Need, SM!cvVars, SM!callVars
  <2>2. CASE SM!Unlock(t) /\ t \notin Writers
    BY <2>2 DEF SM!Unlock, SM!Goto, SM!Need, SM!cvVars, SM!callVars
  <2>3. CASE SM!UnlockDowngraded(t)
    BY <2>3 DEF SM!UnlockDowngraded, SM!Goto, SM!cvVars, SM!callVars
  <2>4. CASE SM!UnlockAndLockShared(t)
    <3>1. t \in Writers
      BY <1>1, <2>4 DEF SM!UnlockAndLockShared, SmPlace, SmReaderPcs
    <3>2. kWriterLock - 1 # 1
      OBVIOUS
    <3> QED BY <2>4, <3>1, <3>2 DEF SM!UnlockAndLockShared, SM!Goto, SM!cvVars, SM!callVars
  <2> QED BY <2>1, <2>2, <2>3, <2>4
<1>3. /\ SmOnly(t) /\ smPc'[t] = "semNotify" /\ smPc' \in [SM!Lockers -> SM!Pcs]
      /\ smReleased'[t] = k /\ smReleased' \in [SM!Lockers -> {0, 1, kWriterLock - 1, kWriterLock}]
  BY <1>2 DEF SmTyped, SmOnly, SM!Pcs
<1>4. SmPlaces'
  <2>1. SmPlace(t)'
    BY <1>1, <1>2, <1>3 DEF SmPlace, SmWriterPcs, SmReaderPcs
  <2> QED BY <1>3, <2>1, SmSamePlaces
<1>5. SmTyped'
  BY <1>0, <1>2, <1>3 DEF SmTyped
<1>6. SmSignalled' /\ SmHolding' /\ SmReadersTold'
  <2>1. smSignals[t] = {}
    BY <1>2 DEF SmSignalled
  <2> QED BY <1>2, <1>3, <2>1, SmBeside
<1>7. SmCounted'
  BY <1>2, <1>3, SmSameCount DEF SmIsRegistered
<1>8. \A u \in SM!Lockers : SmUnnotified(u)' <=> SmUnnotified(u)
  BY <1>2, <1>3 DEF SmUnnotified, SmOnly
<1>9. SmListed'
  BY <1>2, <1>8 DEF SmListed
<1>10. SmReadersWait'
  <2>1. \A w \in Writers : (smPc[w] = "exclusive" \/ (smPc[w] = "semNotify" /\ smReleased[w] # 1)) =>
                           (smPc[w] = "exclusive" \/ (smPc[w] = "semNotify" /\ smReleased[w] # 1))'
    BY <1>1, <1>2, <1>3 DEF SmOnly
  <2> QED BY <1>1, <1>8, <2>1 DEF SmReadersWait
<1>11. SmWritersWait'
  <2>1. SmTries(t)'
    BY <1>3 DEF SmTries
  <2> QED BY <2>1 DEF SmWritersWait
<1>12. \A u \in SM!Lockers : u # t => /\ SM!InShared(u)' <=> SM!InShared(u)
                                      /\ smPc'[u] = "exclusive" <=> smPc[u] = "exclusive"
  BY <1>3 DEF SmOnly, SM!InShared
<1>13. SmAlone'
  <2>1. CASE smPc[t] = "shared"
    <3>1. SM!InShared(t) /\ ~SM!InShared(t)' /\ k = 1
      BY <1>2, <1>3, <2>1 DEF SM!InShared
    <3>2. \A w \in Writers : smPc[w] # "exclusive"
      BY <1>1, <2>1, <3>1 DEF SmAlone
    <3>3. \A w \in Writers : smPc'[w] # "exclusive"
      BY <1>1, <1>3, <1>12, <3>2
    <3>4. SmInside' = SmInside \ {t} /\ t \in SmInside
      BY <1>12, <3>1 DEF SmInside
    <3>5. Cardinality(SmInside') = Cardinality(SmInside) - 1
      BY <3>4, SmFinite, FS_RemoveElement
    <3> QED BY <1>2, <3>1, <3>2, <3>3, <3>5 DEF SmAlone
  <2>2. CASE smPc[t] = "exclusive"
    <3>1. t \in Writers /\ k # 1
      BY <1>2, <2>2
    <3>2. smAcquired = kWriterLock /\ \A u \in SM!Lockers : u # t => smPc[u] # "exclusive" /\ ~SM!InShared(u)
      BY <2>2, <3>1 DEF SmAlone
    <3>3. \A w \in Writers : smPc'[w] # "exclusive"
      BY <1>1, <1>3, <1>12, <3>2
    <3>4. CASE k = kWriterLock
      <4>1. SmInside' = {}
        BY <1>3, <1>12, <3>2, <3>4 DEF SmInside, SM!InShared
      <4> QED BY <1>2, <3>2, <3>3, <3>4, <4>1, FS_EmptySet DEF SmAlone
    <3>5. CASE k = kWriterLock - 1
      <4>1. SmInside' = {t}
        BY <1>3, <1>12, <3>2, <3>5 DEF SmInside, SM!InShared
      <4>2. Cardinality(SmInside') = 1
        BY <4>1, FS_Singleton
      <4> QED BY <1>2, <3>2, <3>3, <3>5, <4>2 DEF SmAlone
    <3> QED BY <1>2, <3>1, <3>4, <3>5
  <2> QED BY <1>2, <2>1, <2>2
<1> QED BY <1>4, <1>5, <1>6, <1>7, <1>9, <1>10, <1>11, <1>13

\* The invariant survives the notification of the semaphore's waiters.
LEMMA SmNotifyStep ==
  ASSUME SmInv, NEW t \in SM!Lockers, SM!SemNotify(t)
  PROVE  SmInv'
<1> USE SmConstants DEF SmInv
<1>0. smTimed' \in [SM!Lockers -> BOOLEAN] /\ smCancelled' \in [SM!Lockers -> BOOLEAN]
  BY SmFlags DEF SM!Begin, SM!Step
<1>1. SmPlace(t) /\ \A u \in Readers \cup Writers : u \in SM!Lockers
  BY DEF SmPlaces
<1>2. /\ smPc' = [smPc EXCEPT ![t] = IF smReleased[t] = 1 THEN "idle" ELSE "drop"] /\ smPc[t] = "semNotify"
      /\ smReleased' = [smReleased EXCEPT ![t] = IF smReleased[t] = kWriterLock - 1 THEN smReleased[t] ELSE 0]
      /\ smSemList' = (IF smReleased[t] = 1 /\ smSemList # <<>> THEN Tail(smSemList) ELSE <<>>)
      /\ smSignals' = [u \in SM!Lockers |-> IF u \in SM!Notified(t) THEN smSignals[u] \cup {"kNotify"} ELSE smSignals[u]]
      /\ UNCHANGED <<smAcquired, smWriters, smCvOwner, smCvList>>
  BY DEF SM!SemNotify, SM!Goto, SM!cvVars, SM!callVars
<1>3. /\ SmOnly(t) /\ smPc' \in [SM!Lockers -> SM!Pcs]
      /\ smPc'[t] = (IF smReleased[t] = 1 THEN "idle" ELSE "drop")
      /\ smReleased'[t] = (IF smReleased[t] = kWriterLock - 1 THEN smReleased[t] ELSE 0)
      /\ smReleased' \in [SM!Lockers -> {0, 1, kWriterLock - 1, kWriterLock}]
      /\ smReleased[t] \in {1, kWriterLock - 1, kWriterLock} /\ (t \in Readers => smReleased[t] = 1)
  <2>1. smReleased[t] \in {1, kWriterLock - 1, kWriterLock} /\ (t \in Readers => smReleased[t] = 1)
    BY <1>1, <1>2 DEF SmPlace, SmTyped
  <2>2. smReleased' \in [SM!Lockers -> {0, 1, kWriterLock - 1, kWriterLock}]
    BY <1>2, <2>1 DEF SmTyped
  <2> QED BY <1>2, <2>1, <2>2 DEF SmTyped, SmOnly, SM!Pcs
<1> DEFINE N == {u \in SM!Lockers : u \in SM!Notified(t)}
<1>4. /\ N \in SUBSET SM!Lockers /\ \A u \in SM!Lockers : u \in SM!Notified(t) <=> u \in N
      /\ smSemList' \in Seq(SM!Lockers) /\ Once(smSemList')
      /\ \A u \in SM!Lockers : In(smSemList', u) <=> In(smSemList, u) /\ u \notin N
      /\ \A u \in N : In(smSemList, u)
      /\ smReleased[t] # 1 => \A u \in SM!Lockers : ~In(smSemList', u)
      /\ (\E u \in SM!Lockers : In(smSemList, u)) => N # {}
  <2>1. smSemList \in Seq(SM!Lockers) /\ Once(smSemList)
    BY DEF SmListed, SmTyped
  <2>2. CASE smReleased[t] = 1 /\ smSemList # <<>>
    <3>1. /\ smSemList' \in Seq(SM!Lockers) /\ Once(smSemList') /\ Head(smSemList) \in SM!Lockers
          /\ In(smSemList, Head(smSemList))
          /\ \A u : In(smSemList', u) <=> In(smSemList, u) /\ u # Head(smSemList)
      BY <1>2, <2>1, <2>2, InTail
    <3>2. SM!Notified(t) = {Head(smSemList)}
      <4>1. DOMAIN smSemList \cap {1} = {1} /\ smSemList[1] = Head(smSemList)
        BY <2>1, <2>2
      <4> QED BY <2>2, <4>1 DEF SM!Notified
    <3> QED BY <2>2, <3>1, <3>2
  <2>3. CASE smReleased[t] # 1 \/ smSemList = <<>>
    <3>1. smSemList' = <<>>
      BY <1>2, <2>3
    <3>2. Once(smSemList') /\ \A u : ~In(smSemList', u)
      BY <3>1, InEmpty
    <3>3. \A u : u \in SM!Notified(t) <=> In(smSemList, u)
      <4>1. CASE smReleased[t] # 1
        BY <2>1, <4>1 DEF SM!Notified, In
      <4>2. CASE smSemList = <<>>
        BY <4>2 DEF SM!Notified, In
      <4> QED BY <2>3, <4>1, <4>2
    <3>4. smSemList' \in Seq(SM!Lockers)
      BY <3>1
    <3> QED BY <3>2, <3>3, <3>4
  <2> QED BY <2>2, <2>3
<1> HIDE DEF N
<1>5. /\ smSignals' \in [SM!Lockers -> SmSignalSets]
      /\ \A u \in SM!Lockers : smSignals'[u] = IF u \in N THEN smSignals[u] \cup {"kNotify"} ELSE smSignals[u]
  BY <1>2, <1>4 DEF SmTyped, SmSignalSets
<1>6. SmTyped'
  BY <1>0, <1>2, <1>3, <1>4, <1>5 DEF SmTyped
<1>7. SmPlaces'
  <2>1. SmPlace(t)'
    <3>1. CASE t \in Readers
      BY <1>3, <3>1 DEF SmPlace, SmReaderPcs
    <3>2. CASE t \in Writers
      BY <1>3, <3>2 DEF SmPlace, SmWriterPcs
    <3> QED BY <3>1, <3>2
  <2> QED BY <1>3, <2>1, SmSamePlaces
<1>8. \A u \in N : SmUnnotified(u) /\ u # t /\ smPc'[u] = "asleep"
  BY <1>2, <1>3, <1>4 DEF SmListed, SmUnnotified, SmOnly
<1>9. SmSignalled' /\ SmHolding' /\ SmReadersTold'
  <2>1. smSignals'[t] = {}
    BY <1>2, <1>5, <1>8 DEF SmSignalled
  <2>2. \A u \in SM!Lockers : smSignals'[u] # {} /\ (u = t \/ smSignals'[u] # smSignals[u]) => smPc'[u] = "asleep"
    BY <1>5, <1>8, <2>1
  <2> QED BY <1>2, <1>3, <2>2, SmBeside
<1>10. SmCounted'
  BY <1>2, <1>3, SmSameCount DEF SmIsRegistered
<1>11. SmAlone'
  <2>1. SM!InShared(t)' <=> SM!InShared(t)
    BY <1>2, <1>3 DEF SM!InShared
  <2> QED BY <1>2, <1>3, <2>1, SmSameInside
<1>12. \A u \in SM!Lockers : SmUnnotified(u)' <=> SmUnnotified(u) /\ u \notin N
  <2>1. ~SmUnnotified(t)' /\ ~SmUnnotified(t)
    BY <1>2, <1>3 DEF SmUnnotified
  <2>2. ASSUME NEW u \in SM!Lockers, u # t PROVE SmUnnotified(u)' <=> SmUnnotified(u) /\ u \notin N
    <3>1. smPc'[u] = smPc[u]
      BY <1>3, <2>2 DEF SmOnly
    <3>2. "kNotify" \in smSignals'[u] <=> "kNotify" \in smSignals[u] \/ u \in N
      BY <1>5
    <3> QED BY <3>1, <3>2 DEF SmUnnotified
  <2> QED BY <2>1, <2>2
<1>13. SmListed'
  BY <1>4, <1>12 DEF SmListed
<1>14. SmReadersWait'
  <2>1. CASE smReleased[t] # 1
    <3>1. \A u \in SM!Lockers : ~SmUnnotified(u)'
      BY <1>4, <1>13, <2>1 DEF SmListed
    <3> QED BY <1>1, <3>1 DEF SmReadersWait
  <2>2. CASE smReleased[t] = 1
    <3>1. \A w \in Writers : (smPc[w] = "exclusive" \/ (smPc[w] = "semNotify" /\ smReleased[w] # 1)) =>
                             (smPc[w] = "exclusive" \/ (smPc[w] = "semNotify" /\ smReleased[w] # 1))'
      BY <1>1, <1>2, <1>3, <2>2 DEF SmOnly
    <3> QED BY <1>1, <1>12, <3>1 DEF SmReadersWait
  <2> QED BY <2>1, <2>2
<1>15. SmWritersWait'
  <2>1. SUFFICES ASSUME NEW w \in Writers, SmUnnotified(w)' PROVE \E u \in SM!Lockers : SmTries(u)'
    BY DEF SmWritersWait
  <2>2. In(smSemList, w)
    BY <1>1, <1>12, <2>1 DEF SmListed
  <2>3. PICK h \in SM!Lockers : h \in N
    BY <1>1, <1>4, <2>2
  <2>4. SmTries(h)'
    BY <1>5, <1>8, <2>3 DEF SmTries
  <2> QED BY <2>3, <2>4
<1> QED BY <1>6, <1>7, <1>9, <1>10, <1>11, <1>13, <1>14, <1>15

\* The invariant survives deadlines and cancellations.
LEMMA SmSignalStep ==
  ASSUME SmInv, NEW t \in SM!Lockers, SM!DeadlineTimer(t) \/ SM!RequestCancel(t)
  PROVE  SmInv'
<1> USE SmConstants DEF SmInv
<1>0. smTimed' \in [SM!Lockers -> BOOLEAN] /\ smCancelled' \in [SM!Lockers -> BOOLEAN]
  BY SmFlags
<1>1. UNCHANGED <<smPc, smReleased, smAcquired, smSemList, smWriters, smCvOwner, smCvList>>
  BY DEF SM!DeadlineTimer, SM!RequestCancel, SM!semVars, SM!cvVars, SM!callVars
<1>2. /\ smSignals' \in [SM!Lockers -> SmSignalSets]
      /\ \A u \in SM!Lockers : "kNotify" \in smSignals'[u] <=> "kNotify" \in smSignals[u]
      /\ \A u \in SM!Lockers : smSignals'[u] = smSignals[u] \/ smPc[u] \in {"asleep", "cvAppend", "cvAsleep"}
  <2>1. \/ smSignals' = smSignals
        \/ /\ smPc[t] \in {"asleep", "cvAppend", "cvAsleep"}
           /\ \E f \in {"kDeadlineTimer", "kCancelRequest"} :
                smSignals' = [smSignals EXCEPT ![t] = smSignals[t] \cup {f}]
    BY DEF SM!DeadlineTimer, SM!RequestCancel
  <2>2. CASE smSignals' = smSignals
    BY <2>2 DEF SmTyped
  <2>3. CASE /\ smPc[t] \in {"asleep", "cvAppend", "cvAsleep"}
             /\ \E f \in {"kDeadlineTimer", "kCancelRequest"} :
                  smSignals' = [smSignals EXCEPT ![t] = smSignals[t] \cup {f}]
    <3>1. PICK f \in {"kDeadlineTimer", "kCancelRequest"} :
                  smSignals' = [smSignals EXCEPT ![t] = smSignals[t] \cup {f}]
      BY <2>3
    <3>2. smSignals' \in [SM!Lockers -> SmSignalSets]
      BY <3>1 DEF SmTyped, SmSignalSets
    <3> QED BY <2>3, <3>1, <3>2 DEF SmTyped
  <2> QED BY <2>1, <2>2, <2>3
<1>3. SmTyped'
  BY <1>0, <1>1, <1>2 DEF SmTyped
<1>4. SmPlaces' /\ SmAlone' /\ SmCounted' /\ SmHolding' /\ SmReadersTold'
  BY <1>1 DEF SmPlaces, SmPlace, SmAlone, SmInside, SM!InShared, SmCounted, SmRegistered, SmIsRegistered,
    SmHolding, SmReadersTold
<1>5. SmSignalled'
  BY <1>1, <1>2 DEF SmSignalled
<1>6. SmListed' /\ SmReadersWait' /\ SmWritersWait'
  <2>1. \A u \in SM!Lockers : (SmUnnotified(u)' <=> SmUnnotified(u)) /\ (SmTries(u)' <=> SmTries(u))
    BY <1>1, <1>2 DEF SmUnnotified, SmTries
  <2> QED BY <1>1, <2>1 DEF SmListed, SmReadersWait, SmWritersWait
<1> QED BY <1>3, <1>4, <1>5, <1>6

\* The invariant holds at the start.
LEMMA SmStarts == SM!Init => SmInv
<1> SUFFICES ASSUME SM!Init PROVE SmInv
  OBVIOUS
<1> USE SmConstants
<1>1. SmTyped
  BY DEF SM!Init, SmTyped, SmSignalSets, SM!Pcs
<1>2. \A t \in SM!Lockers : smPc[t] = "idle" /\ smReleased[t] = 0 /\ smSignals[t] = {}
  BY DEF SM!Init
<1>3. smSemList = <<>> /\ smAcquired = 0 /\ smWriters = 0 /\ smCvList = {}
  BY DEF SM!Init
<1>4. SmPlaces
  BY <1>2 DEF SmPlaces, SmPlace, SmWriterPcs, SmReaderPcs
<1>5. SmSignalled /\ SmHolding /\ SmReadersTold
  BY <1>2, <1>3 DEF SmSignalled, SmHolding, SmReadersTold
<1>6. \A t \in SM!Lockers : ~SmUnnotified(t) /\ ~SM!InShared(t) /\ ~SmIsRegistered(t)
  BY <1>2 DEF SmUnnotified, SM!InShared, SmIsRegistered
<1>7. SmListed
  BY <1>3, <1>6, InEmpty DEF SmListed
<1>8. SmInside = {} /\ SmRegistered = {}
  BY <1>6 DEF SmInside, SmRegistered
<1>9. SmAlone /\ SmCounted
  BY <1>2, <1>3, <1>8, FS_EmptySet DEF SmAlone, SmCounted
<1>10. SmReadersWait /\ SmWritersWait
  BY <1>6 DEF SmReadersWait, SmWritersWait
<1> QED BY <1>1, <1>4, <1>5, <1>7, <1>9, <1>10 DEF SmInv

\* The invariant survives every step.
LEMMA SmStep == SmInv /\ SM!Next => SmInv'
<1> SUFFICES ASSUME SmInv, NEW t \in SM!Lockers,
                    SM!Begin(t) \/ SM!Step(t) \/ SM!DeadlineTimer(t) \/ SM!RequestCancel(t)
             PROVE  SmInv'
  BY DEF SM!Next
<1>1. CASE SM!TryLockShared(t)
  BY <1>1, SmReaderStep, SmTakeStep
<1>2. CASE SM!LockShared(t) \/ SM!CvLock(t) \/ SM!Predicate(t) \/ SM!CvAppend(t) \/ SM!CvResume(t)
  BY <1>2, SmReaderStep
<1>3. CASE SM!TryLockUntil(t) \/ SM!DropWriter(t) \/ SM!PassMutex(t) \/ SM!NotifyReaders(t)
  BY <1>3, SmWriterStep
<1>4. CASE SM!SemTry(t)
  BY <1>4, SmTakeStep
<1>5. CASE SM!SemResume(t)
  BY <1>5, SmResumeStep
<1>6. CASE SM!Unlock(t) \/ SM!UnlockDowngraded(t) \/ SM!UnlockAndLockShared(t)
  BY <1>6, SmUnlockStep
<1>7. CASE SM!SemNotify(t)
  BY <1>7, SmNotifyStep
<1>8. CASE SM!DeadlineTimer(t) \/ SM!RequestCancel(t)
  BY <1>8, SmSignalStep
<1> QED BY <1>1, <1>2, <1>3, <1>4, <1>5, <1>6, <1>7, <1>8 DEF SM!Begin, SM!Step

\* What the invariant says of the tasks inside and of those that wait.
LEMMA SmSafe == SmInv => SM!TypeOK /\ SM!WriterIsAlone /\ SM!NoLostWakeup /\ SM!NoForgottenReader
<1> SUFFICES ASSUME SmInv PROVE SM!TypeOK /\ SM!WriterIsAlone /\ SM!NoLostWakeup /\ SM!NoForgottenReader
  OBVIOUS
<1> USE SmConstants DEF SmInv
<1>0. \A S : SM!Cardinality(S) = Cardinality(S)
  BY DEF SM!Cardinality, Cardinality
<1>1. /\ smAcquired \in 0 .. kWriterLock
      /\ smAcquired = kWriterLock <=> \E w \in Writers : smPc[w] = "exclusive"
      /\ smAcquired = 0 => SmInside = {}
  BY SmPermits
<1>2. SM!TypeOK
  <2>1. SmRegistered \in SUBSET Writers
    BY DEF SmRegistered
  <2>2. Cardinality(SmRegistered) <= Cardinality(Writers) /\ Cardinality(Writers) \in Nat
    BY <2>1, FS_Subset, FS_CardinalityType
  <2>3. smWriters \in 0 .. SM!Cardinality(Writers)
    BY <1>0, <2>2, SmNumber DEF SmCounted
  <2> QED BY <1>1, <2>3 DEF SM!TypeOK, SmTyped, SmSignalSets
<1>3. SM!WriterIsAlone
  <2>1. smAcquired = IF \E w \in Writers : smPc[w] = "exclusive" THEN kWriterLock
                     ELSE SM!Cardinality({t \in SM!Lockers : SM!InShared(t)})
    BY <1>0 DEF SmAlone, SmInside
  <2> QED BY <2>1 DEF SM!WriterIsAlone, SmAlone
<1>4. SM!NoLostWakeup
  <2>1. SUFFICES ASSUME NEW t \in SM!Lockers, smPc[t] = "asleep", smSignals[t] = {},
                        smAcquired <= kWriterLock - SM!Need(t)
                 PROVE  \E u \in SM!Lockers : \/ smPc[u] = "semNotify" \/ smPc[u] = "try"
                                              \/ (smPc[u] = "asleep" /\ "kNotify" \in smSignals[u])
    BY DEF SM!NoLostWakeup
  <2>2. SmUnnotified(t)
    BY <2>1 DEF SmUnnotified
  <2>3. CASE t \in Readers
    <3>1. smAcquired # kWriterLock
      BY <1>1, <2>1, <2>3 DEF SM!Need
    <3>2. \E w \in Writers : smPc[w] = "semNotify"
      BY <1>1, <2>2, <2>3, <3>1 DEF SmReadersWait
    <3> QED BY <3>2
  <2>4. CASE t \in Writers
    <3>1. smAcquired = 0
      BY <1>1, <2>1, <2>4 DEF SM!Need
    <3>2. \E u \in SM!Lockers : SmTries(u)
      BY <2>2, <2>4, <3>1 DEF SmWritersWait
    <3> QED BY <3>2 DEF SmTries
  <2> QED BY <2>3, <2>4
<1>5. SM!NoForgottenReader
  BY DEF SM!NoForgottenReader, SmReadersTold
<1> QED BY <1>2, <1>3, <1>4, <1>5

----------------------------------------------------------------------------
(* Theorems about the instances of MCWakeups: a step is one of the component or leaves it alone *)

\* SingleWaitingTaskMutex lets in one of its two tasks at a time, holds in its word no
\* awaiter of a call that is over, and loses no unlock() between the failed try and the
\* entry; the signal of a single-consumer event, in either reset mode, is never lost and
\* never reported for another wait, for any number of calls and of senders.
THEOREM LightListsAreSafe == AllSpec => []LightListsSafe
<1> DEFINE I == LmInv /\ EvInv
<1>1. AllInit => I
  BY LmStarts, EvStarts DEF AllInit
<1>2. I /\ [AllNext]_allVars => I'
  <2> SUFFICES ASSUME I, [AllNext]_allVars PROVE I'
    OBVIOUS
  <2>1. LmInv'
    <3>1. LM!Next \/ UNCHANGED lmVars
      BY DEF AllNext, allVars, OthersRest, Mutexes, Semaphores, Events
    <3>2. CASE LM!Next
      BY <3>2, LmStep
    <3>3. CASE UNCHANGED lmVars
      BY <3>3 DEF lmVars, LmInv, LM!TypeOK, LM!MutualExclusion, LM!WordIsOfWaiter, LmOwner, LmAlone, LmWord,
        LmCarried, LmKept, LmExchange, LM!Mine, LM!NoAwaiter
    <3> QED BY <3>1, <3>2, <3>3
  <2>2. EvInv'
    <3>1. EV!Next \/ ME!Next \/ UNCHANGED evVars
      BY DEF AllNext, allVars, OthersRest, Mutexes, Semaphores, Events
    <3>2. CASE EV!Next \/ ME!Next
      BY <3>2, EvModes, EvStep
    <3>3. CASE UNCHANGED evVars
      BY <3>3 DEF evVars, EvInv, EV!TypeOK, EV!ReadyWhenNotified, EV!SignalKept, EV!NoLostSignal, EvWord, EvEpochs,
        EvNotified
    <3> QED BY <3>1, <3>2, <3>3
  <2> QED BY <2>1, <2>2
<1>3. I => LightListsSafe
  BY LmSafe DEF EvInv, LightListsSafe
<1> QED BY <1>1, <1>2, <1>3, PTL DEF AllSpec

\* The predicate of a condition variable is looked at under the mutex, and while somebody
\* sleeps in the list every item has a task that will look at it, for any number of
\* consumers and producers: not the look at sleepies_ outside of the mutex, not a deadline
\* or a cancellation that races a notification leaves an item beside a sleeper.
THEOREM ConditionVariableIsSafe == AllSpec => []ConditionVariableSafe
<1>1. AllInit => CvInv
  BY CvStarts DEF AllInit
<1>2. CvInv /\ [AllNext]_allVars => CvInv'
  <2> SUFFICES ASSUME CvInv, [AllNext]_allVars PROVE CvInv'
    OBVIOUS
  <2>1. CV!Next \/ UNCHANGED cvVars
    BY DEF AllNext, allVars, OthersRest, Mutexes, Semaphores, Events
  <2>2. CASE CV!Next
    BY <2>2, CvConsumerStep, CvProducerStep DEF CV!Next
  <2>3. CASE UNCHANGED cvVars
    BY <2>3 DEF cvVars, CvInv, CV!TypeOK, CvCounted, CvSleepy, CvListed, CvOwned, CvTaken, CvTakers, CvTaker, CvWaits
  <2> QED BY <2>1, <2>2, <2>3
<1>3. CvInv => ConditionVariableSafe
  BY CvSafe DEF ConditionVariableSafe
<1> QED BY <1>1, <1>2, <1>3, PTL DEF AllSpec

\* A writer inside a shared mutex is alone, also beside one that turns into a reader, the
\* permits are those of the tasks inside, and no waiter of either kind is forgotten, in
\* the semaphore or in the condition variable, for any number of readers and writers.
THEOREM SharedMutexIsSafe == AllSpec => []SharedMutexSafe
<1>1. AllInit => SmInv
  BY SmStarts DEF AllInit
<1>2. SmInv /\ [AllNext]_allVars => SmInv'
  <2> SUFFICES ASSUME SmInv, [AllNext]_allVars PROVE SmInv'
    OBVIOUS
  <2>1. SM!Next \/ UNCHANGED smVars
    BY DEF AllNext, allVars, OthersRest, Mutexes, Semaphores, Events
  <2>2. CASE SM!Next
    BY <2>2, SmStep
  <2>3. CASE UNCHANGED smVars
    BY <2>3 DEF smVars, SmInv, SmTyped, SmPlaces, SmPlace, SmSignalled, SmListed, SmUnnotified, SmAlone, SmInside,
      SM!InShared, SmCounted, SmRegistered, SmIsRegistered, SmReadersWait, SmWritersWait, SmTries, SmHolding,
      SmReadersTold
  <2> QED BY <2>1, <2>2, <2>3
<1>3. SmInv => SharedMutexSafe
  BY SmSafe DEF SharedMutexSafe
<1> QED BY <1>1, <1>2, <1>3, PTL DEF AllSpec

----------------------------------------------------------------------------
(* WorkStealing *)

WsPcs == {"loop", "global", "local", "grab", "grabbed", "spin", "steal", "stolen", "stopspin", "save", "stepdown",
          "global2", "steal2", "stolen2", "check", "sleep", "awake", "active", "run", "overflow", "offload",
          "exit", "done"}

WsQueueTypes ==
  /\ wsGlobal \in Seq(Jobs) /\ wsLocal \in [Workers -> Seq(Jobs)] /\ wsBuf \in [Workers -> Seq(Jobs)]
  /\ wsHand \in [Workers -> Jobs \cup {NoTask}] /\ wsFresh \in SUBSET Jobs
WsPlaceTypes ==
  /\ wsPc \in [Workers -> WsPcs] /\ wsVictims \in [Workers -> SUBSET Workers]
  /\ wsNpc \in [WS!Notifiers -> {"idle", "check", "pop", "wake"}]
  /\ wsTarget \in [WS!Notifiers -> Workers \cup {NoTask}]
  /\ wsIdle \in Seq(Workers) /\ wsSpinning \in Nat
WsFlagTypes == wsWoken \in [Workers -> BOOLEAN] /\ wsStop \in BOOLEAN

\* A worker that has found its local queue empty leaves it so until it runs a task.
WsEmptyPcs == {"grab", "grabbed", "spin", "steal", "stolen", "save", "stepdown", "global2", "steal2", "stolen2",
               "check", "sleep"}
WsLocals ==
  \A w \in Workers :
    /\ Len(wsLocal[w]) <= LocalCapacity
    /\ wsPc[w] \in WsEmptyPcs => wsLocal[w] = <<>>
    /\ wsPc[w] = "stopspin" /\ wsHand[w] = NoTask => wsLocal[w] = <<>>

\* The buffer of a worker is in use only while tasks are moved.
WsTaken == {"grabbed", "stolen", "stolen2"}
WsBufs ==
  \A w \in Workers :
    /\ wsPc[w] \notin WsTaken \cup {"overflow", "offload"} => wsBuf[w] = <<>>
    /\ wsPc[w] \in WsTaken => wsBuf[w] # <<>> /\ Len(wsBuf[w]) <= LocalCapacity + 1

\* The lower half of state_ counts the spinning workers, at most half of all.
WsSpinPcs == {"steal", "stolen", "stopspin"}
WsSpinners == {w \in Workers : wsPc[w] \in WsSpinPcs}
WsSpins == wsSpinning = Cardinality(WsSpinners) /\ wsSpinning * 2 <= Cardinality(Workers)

\* The list holds workers between StepDownAsActiveWorker() and BecomeActiveWorker(), each once.
WsLinkedPcs == {"global2", "steal2", "stolen2", "check", "sleep", "awake", "active", "exit"}
WsLinked == Once(wsIdle) /\ \A w \in Workers : In(wsIdle, w) => wsPc[w] \in WsLinkedPcs

\* Who has taken a worker out of the list is about to wake it.
WsTargets ==
  /\ \A a \in WS!Notifiers : wsNpc[a] = "wake" <=> wsTarget[a] # NoTask
  /\ ~wsStop => wsNpc[Stopper] = "idle"

\* A worker that will sleep unless it is woken is in the list, or with who will wake it.
WsSleepy == {"global2", "steal2", "stolen2", "check", "sleep"}
WsListed ==
  \A w \in Workers :
    wsPc[w] \in WsSleepy /\ ~wsWoken[w] => In(wsIdle, w) \/ \E a \in WS!Notifiers : wsTarget[a] = w

\* When every worker has looked at the global queue for the last time before it sleeps, and
\* nobody is about to wake one, that queue is empty.
WsLast(w) == wsPc[w] \in {"steal2", "check", "sleep"} /\ ~wsWoken[w]
WsQuiet == \A a \in WS!Notifiers : wsNpc[a] = "idle"
WsWatched == (\A w \in Workers : WsLast(w)) /\ WsQuiet => wsGlobal = <<>>

WsInv ==
  /\ WsQueueTypes /\ WsPlaceTypes /\ WsFlagTypes
  /\ WsLocals /\ WsBufs /\ WsSpins /\ WsLinked /\ WsTargets /\ WsListed /\ WsWatched

\* What the proofs use of the constants.
LEMMA WsConstants ==
  /\ LocalCapacity \in Nat /\ GrabBatchCap \in Nat \ {0} /\ StealSize \in Nat \ {0}
  /\ GrabBatchCap <= LocalCapacity + 1 /\ StealSize <= LocalCapacity + 1
  /\ IsFiniteSet(Workers) /\ Workers # {}
  /\ NoTask \notin Workers /\ NoTask \notin Jobs
  /\ Stopper \in WS!Notifiers /\ Stopper \notin Workers /\ Stopper \notin Producers
  /\ \A w \in Workers : w \in WS!Notifiers
  /\ Cardinality(Workers) \in Nat \ {0} /\ WS!Threads = Cardinality(Workers)
<1>1. /\ LocalCapacity \in Nat /\ GrabBatchCap \in Nat \ {0} /\ StealSize \in Nat \ {0}
      /\ GrabBatchCap <= LocalCapacity + 1 /\ StealSize <= LocalCapacity + 1
      /\ Workers # {} /\ Stopper \notin Workers \cup Producers /\ NoTask \notin Workers \cup Jobs
  BY WakeupsAssumption DEF WS!StealingAssumption
<1>2. IsFiniteSet(Workers)
  BY WakeupsAssumption DEF WS!StealingAssumption, WS!IsFiniteSet, IsFiniteSet
<1>3. Cardinality(Workers) \in Nat \ {0}
  BY <1>1, <1>2, FS_CardinalityType, FS_EmptySet
<1>4. WS!Threads = Cardinality(Workers)
  BY DEF WS!Threads, WS!Cardinality, Cardinality
<1> QED BY <1>1, <1>2, <1>3, <1>4 DEF WS!Notifiers

\* Of two numbers one is the greater and one the less.
LEMMA WsMax == ASSUME NEW a \in Int, NEW b \in Int PROVE WS!Max({a, b}) = IF a >= b THEN a ELSE b
<1>1. PICK m \in {a, b} : \A y \in {a, b} : m >= y
  BY DEF WS!Max
<1>2. WS!Max({a, b}) \in {a, b} /\ \A y \in {a, b} : WS!Max({a, b}) >= y
  BY <1>1 DEF WS!Max
<1> QED BY <1>2
\* The same for the less.
LEMMA WsMin == ASSUME NEW a \in Int, NEW b \in Int PROVE WS!Min({a, b}) = IF a <= b THEN a ELSE b
<1>1. PICK m \in {a, b} : \A y \in {a, b} : m <= y
  BY DEF WS!Min
<1>2. WS!Min({a, b}) \in {a, b} /\ \A y \in {a, b} : WS!Min({a, b}) <= y
  BY <1>1 DEF WS!Min
<1> QED BY <1>2

\* A share is no more than the whole.
LEMMA WsShare == ASSUME NEW n \in Nat, NEW d \in Nat \ {0} PROVE n \div d \in Nat /\ n \div d <= n
<1> DEFINE q == n \div d
<1>1. q \in Int /\ n = (d * q) + (n % d) /\ n % d >= 0 /\ n % d < d
  BY Z3
<1> HIDE DEF q
<1>2. q >= 0
  <2>1. SUFFICES ASSUME q <= -1 PROVE FALSE
    BY <1>1
  <2>2. d * q <= -d
    BY <1>1, <2>1, Z3
  <2> QED BY <1>1, <2>2, Z3
<1>3. q <= d * q
  BY <1>1, <1>2, Z3
<1>4. q <= n
  BY <1>1, <1>2, <1>3, Z3
<1> QED BY <1>2, <1>4, <1>1 DEF q

\* The first of a sequence, and what is left of it.
LEMMA WsCut ==
  ASSUME NEW S, NEW s \in Seq(S), NEW k \in 0 .. Len(s)
  PROVE  /\ SubSeq(s, 1, k) \in Seq(S) /\ Len(SubSeq(s, 1, k)) = k
         /\ SubSeq(s, k + 1, Len(s)) \in Seq(S) /\ Len(SubSeq(s, k + 1, Len(s))) = Len(s) - k
         /\ Len(s) = 0 => SubSeq(s, k + 1, Len(s)) = <<>>
OBVIOUS

\* The first of a sequence are what they were.
LEMMA WsFirst ==
  ASSUME NEW S, NEW s \in Seq(S), NEW k \in 0 .. Len(s)
  PROVE  /\ SubSeq(s, 1, k) \in Seq(S) /\ Len(SubSeq(s, 1, k)) = k
         /\ \A i \in 1 .. k : SubSeq(s, 1, k)[i] = s[i]
OBVIOUS

\* Whom the list links is in it.
LEMMA WsLinkedIn == ASSUME wsIdle \in Seq(Workers), NEW w PROVE WS!Linked(w) <=> In(wsIdle, w)
BY DEF WS!Linked, WS!Range, In

\* The spinning workers are finitely many.
LEMMA WsSpinNumber == Cardinality(WsSpinners) \in Nat /\ IsFiniteSet(WsSpinners)
<1>1. WsSpinners \in SUBSET Workers
  BY DEF WsSpinners
<1> QED BY <1>1, WsConstants, FS_Subset, FS_CardinalityType

\* Nobody begins or stops spinning.
LEMMA WsSpinSame ==
  ASSUME WsSpins, wsSpinning' = wsSpinning,
         \A u \in Workers : wsPc'[u] \in WsSpinPcs <=> wsPc[u] \in WsSpinPcs
  PROVE  WsSpins'
<1>1. WsSpinners' = WsSpinners
  BY DEF WsSpinners
<1> QED BY <1>1 DEF WsSpins

\* A worker begins to spin.
LEMMA WsSpinMore ==
  ASSUME WsSpins, NEW w \in Workers, wsSpinning' = wsSpinning + 1, wsSpinning' * 2 <= Cardinality(Workers),
         wsPc[w] \notin WsSpinPcs, wsPc'[w] \in WsSpinPcs,
         \A u \in Workers : u # w => wsPc'[u] = wsPc[u]
  PROVE  WsSpins'
<1>1. WsSpinners' = WsSpinners \cup {w} /\ w \notin WsSpinners
  BY DEF WsSpinners
<1>2. Cardinality(WsSpinners') = Cardinality(WsSpinners) + 1
  BY <1>1, WsSpinNumber, FS_AddElement
<1> QED BY <1>2 DEF WsSpins

\* A worker stops spinning.
LEMMA WsSpinLess ==
  ASSUME WsSpins, NEW w \in Workers, wsSpinning' = wsSpinning - 1,
         wsPc[w] \in WsSpinPcs, wsPc'[w] \notin WsSpinPcs,
         \A u \in Workers : u # w => wsPc'[u] = wsPc[u]
  PROVE  WsSpins' /\ wsSpinning' \in Nat
<1>1. WsSpinners' = WsSpinners \ {w} /\ w \in WsSpinners
  BY DEF WsSpinners
<1>2. Cardinality(WsSpinners') = Cardinality(WsSpinners) - 1
  BY <1>1, WsSpinNumber, FS_RemoveElement
<1>3. Cardinality(WsSpinners) # 0
  BY <1>1, WsSpinNumber, FS_EmptySet
<1> QED BY <1>2, <1>3, WsSpinNumber, WsConstants DEF WsSpins

\* The last of a list leaves it.
LEMMA WsFront ==
  ASSUME NEW S, NEW s \in Seq(S), s # <<>>, Once(s)
  PROVE  /\ WS!Front(s) \in Seq(S) /\ Once(WS!Front(s)) /\ WS!Last(s) \in S /\ In(s, WS!Last(s))
         /\ \A y : In(WS!Front(s), y) <=> In(s, y) /\ y # WS!Last(s)
<1>1. /\ Len(s) \in Nat /\ Len(s) \in 1 .. Len(s) /\ WS!Last(s) = s[Len(s)] /\ WS!Front(s) \in Seq(S)
      /\ Len(WS!Front(s)) = Len(s) - 1 /\ \A i \in 1 .. Len(s) - 1 : WS!Front(s)[i] = s[i]
  <2>1. Len(s) \in Nat \ {0} /\ Len(s) \in 1 .. Len(s) /\ Len(s) - 1 \in 0 .. Len(s)
    OBVIOUS
  <2>2. WS!Last(s) = s[Len(s)] /\ WS!Front(s) = SubSeq(s, 1, Len(s) - 1)
    BY DEF WS!Last, WS!Front
  <2>3. /\ SubSeq(s, 1, Len(s) - 1) \in Seq(S) /\ Len(SubSeq(s, 1, Len(s) - 1)) = Len(s) - 1
        /\ \A i \in 1 .. Len(s) - 1 : SubSeq(s, 1, Len(s) - 1)[i] = s[i]
    BY <2>1, WsFirst, Zenon
  <2> QED BY <2>1, <2>2, <2>3
<1>2. Rest(s, Len(s)) \in Seq(S) /\ Len(Rest(s, Len(s))) = Len(s) - 1
      /\ \A i \in 1 .. Len(s) - 1 : Rest(s, Len(s))[i] = s[i]
  BY <1>1 DEF Rest
<1>3. WS!Front(s) = Rest(s, Len(s))
  BY <1>1, <1>2, SeqEqual
<1>4. Once(Rest(s, Len(s))) /\ \A y : In(Rest(s, Len(s)), y) <=> In(s, y) /\ y # s[Len(s)]
  BY <1>1, InRest, Zenon
<1>5. WS!Last(s) \in S /\ In(s, WS!Last(s))
  BY <1>1 DEF In
<1> QED BY <1>1, <1>3, <1>4, <1>5

\* The others of a list stay when one is unlinked, or is not in it.
LEMMA WsUnlink ==
  ASSUME wsIdle \in Seq(Workers), Once(wsIdle), NEW w \in Workers, WS!Unlink(w)
  PROVE  /\ wsIdle' \in Seq(Workers) /\ Once(wsIdle)'
         /\ \A y : In(wsIdle, y)' <=> In(wsIdle, y) /\ y # w
<1>1. CASE \E i \in 1 .. Len(wsIdle) : wsIdle[i] = w /\ wsIdle' = WS!Unlinked(wsIdle, i)
  <2>1. PICK i \in 1 .. Len(wsIdle) : wsIdle[i] = w /\ wsIdle' = WS!Unlinked(wsIdle, i)
    BY <1>1
  <2>2. WS!Unlinked(wsIdle, i) = Rest(wsIdle, i)
    BY DEF WS!Unlinked, Rest
  <2>3. /\ Rest(wsIdle, i) \in Seq(Workers) /\ Once(Rest(wsIdle, i))
        /\ \A y : In(Rest(wsIdle, i), y) <=> In(wsIdle, y) /\ y # wsIdle[i]
    BY InRest
  <2> HIDE DEF WS!Unlink
  <2> QED BY <2>1, <2>2, <2>3
<1>2. CASE ~WS!Linked(w) /\ UNCHANGED wsIdle
  <2>1. ~In(wsIdle, w) /\ wsIdle' = wsIdle
    BY <1>2, WsLinkedIn
  <2> QED BY <2>1
<1> QED BY <1>1, <1>2 DEF WS!Unlink

\* When every worker is about to sleep and one notifier is at work, which has found nobody
\* in the list or somebody who spins, another one is at work too.
LEMMA WsNobodyElse ==
  ASSUME WsPlaceTypes, WsSpins, WsTargets, WsListed, NEW a \in WS!Notifiers,
         \A w \in Workers : WsLast(w), wsIdle = <<>> \/ wsSpinning # 0, wsNpc[a] # "wake",
         \A b \in WS!Notifiers : b # a => wsNpc[b] = "idle"
  PROVE  FALSE
<1>1. WsSpinners = {}
  BY DEF WsSpinners, WsLast, WsSpinPcs
<1>2. wsIdle = <<>>
  BY <1>1, FS_EmptySet DEF WsSpins
<1>3. PICK w \in Workers : TRUE
  BY WsConstants
<1>4. ~In(wsIdle, w)
  BY <1>2, InEmpty
<1>5. PICK b \in WS!Notifiers : wsTarget[b] = w
  BY <1>3, <1>4 DEF WsListed, WsLast, WsSleepy
<1>6. wsNpc[b] = "wake"
  BY <1>3, <1>5, WsConstants DEF WsTargets
<1> QED BY <1>6
\* A worker begins to look for a task, or ends.
LEMMA WsLoop ==
  ASSUME WsInv, NEW w \in Workers, WS!Loop(w)
  PROVE  WsInv'
<1> USE WsConstants DEF WS!queues, WS!searchVars, WS!coordVars, WS!notifyVars, WS!At, WS!GoTo, WS!Get, WS!Search, WS!SearchEnds
<1>0. WsQueueTypes /\ WsPlaceTypes /\ WsFlagTypes /\ WsLocals /\ WsBufs /\ WsSpins
      /\ WsLinked /\ WsTargets /\ WsListed /\ WsWatched
  BY DEF WsInv
<1>1. WsQueueTypes'
  BY <1>0 DEF WS!Loop, WsQueueTypes
<1>2. WsPlaceTypes'
  BY <1>0 DEF WS!Loop, WsPlaceTypes, WsPcs
<1>3. WsFlagTypes'
  BY <1>0 DEF WS!Loop, WsFlagTypes
<1>4. WsLocals'
  BY <1>0 DEF WS!Loop, WsLocals, WsEmptyPcs, WsQueueTypes, WsPlaceTypes
<1>5. WsBufs'
  BY <1>0 DEF WS!Loop, WsBufs, WsTaken, WsQueueTypes, WsPlaceTypes
<1>6. WsSpins'
  BY <1>0, WsSpinSame DEF WS!Loop, WsPlaceTypes, WsSpinPcs
<1>7. WsLinked'
  BY <1>0 DEF WS!Loop, WsLinked, WsLinkedPcs, WsPlaceTypes
<1>8. WsTargets'
  BY <1>0 DEF WS!Loop, WsTargets, WsPlaceTypes
<1>9. WsListed'
  BY <1>0 DEF WS!Loop, WsListed, WsSleepy, WsPlaceTypes, WsFlagTypes
<1>10. WsWatched'
  BY <1>0 DEF WS!Loop, WsWatched, WsLast, WsQuiet, WsPlaceTypes, WsFlagTypes, WsQueueTypes
<1> QED BY <1>1, <1>2, <1>3, <1>4, <1>5, <1>6, <1>7, <1>8, <1>9, <1>10 DEF WsInv

\* It looks at the global queue.
LEMMA WsPopGlobal ==
  ASSUME WsInv, NEW w \in Workers, WS!TryPopFromGlobalQueue(w)
  PROVE  WsInv'
<1> USE WsConstants DEF WS!queues, WS!searchVars, WS!coordVars, WS!notifyVars, WS!At, WS!GoTo, WS!Get, WS!Search, WS!SearchEnds
<1>0. WsQueueTypes /\ WsPlaceTypes /\ WsFlagTypes /\ WsLocals /\ WsBufs /\ WsSpins
      /\ WsLinked /\ WsTargets /\ WsListed /\ WsWatched
  BY DEF WsInv
<1>f. wsGlobal # <<>> => Head(wsGlobal) \in Jobs /\ Tail(wsGlobal) \in Seq(Jobs)
  BY <1>0 DEF WsQueueTypes
<1>1. WsQueueTypes'
  <2>1. CASE wsGlobal # <<>>
    BY <1>0, <1>f, <2>1 DEF WS!TryPopFromGlobalQueue, WsQueueTypes
  <2>2. CASE wsGlobal = <<>>
    BY <1>0, <2>2 DEF WS!TryPopFromGlobalQueue, WsQueueTypes
  <2> QED BY <2>1, <2>2
<1>2. WsPlaceTypes'
  BY <1>0 DEF WS!TryPopFromGlobalQueue, WsPlaceTypes, WsPcs
<1>3. WsFlagTypes'
  BY <1>0 DEF WS!TryPopFromGlobalQueue, WsFlagTypes
<1>4. WsLocals'
  BY <1>0 DEF WS!TryPopFromGlobalQueue, WsLocals, WsEmptyPcs, WsQueueTypes, WsPlaceTypes
<1>5. WsBufs'
  BY <1>0 DEF WS!TryPopFromGlobalQueue, WsBufs, WsTaken, WsQueueTypes, WsPlaceTypes
<1>6. WsSpins'
  BY <1>0, WsSpinSame DEF WS!TryPopFromGlobalQueue, WsPlaceTypes, WsSpinPcs
<1>7. WsLinked'
  BY <1>0 DEF WS!TryPopFromGlobalQueue, WsLinked, WsLinkedPcs, WsPlaceTypes
<1>8. WsTargets'
  BY <1>0 DEF WS!TryPopFromGlobalQueue, WsTargets, WsPlaceTypes
<1>9. WsListed'
  BY <1>0 DEF WS!TryPopFromGlobalQueue, WsListed, WsSleepy, WsPlaceTypes, WsFlagTypes
<1>10. WsWatched'
  BY <1>0 DEF WS!TryPopFromGlobalQueue, WsWatched, WsLast, WsQuiet, WsPlaceTypes, WsFlagTypes, WsQueueTypes
<1> QED BY <1>1, <1>2, <1>3, <1>4, <1>5, <1>6, <1>7, <1>8, <1>9, <1>10 DEF WsInv

\* It looks at its own.
LEMMA WsPopLocal ==
  ASSUME WsInv, NEW w \in Workers, WS!TryPopLocal(w)
  PROVE  WsInv'
<1> USE WsConstants DEF WS!queues, WS!searchVars, WS!coordVars, WS!notifyVars, WS!At, WS!GoTo, WS!Get, WS!Search, WS!SearchEnds
<1>0. WsQueueTypes /\ WsPlaceTypes /\ WsFlagTypes /\ WsLocals /\ WsBufs /\ WsSpins
      /\ WsLinked /\ WsTargets /\ WsListed /\ WsWatched
  BY DEF WsInv
<1>1. WsQueueTypes'
  <2>1. CASE wsLocal[w] # <<>>
    <3>1. Head(wsLocal[w]) \in Jobs /\ Tail(wsLocal[w]) \in Seq(Jobs)
      BY <1>0, <2>1 DEF WsQueueTypes
    <3> QED BY <1>0, <2>1, <3>1 DEF WS!TryPopLocal, WsQueueTypes
  <2>2. CASE wsLocal[w] = <<>>
    BY <1>0, <2>2 DEF WS!TryPopLocal, WsQueueTypes
  <2> QED BY <2>1, <2>2
<1>2. WsPlaceTypes'
  BY <1>0 DEF WS!TryPopLocal, WsPlaceTypes, WsPcs
<1>3. WsFlagTypes'
  BY <1>0 DEF WS!TryPopLocal, WsFlagTypes
<1>4. WsLocals'
  BY <1>0 DEF WS!TryPopLocal, WsLocals, WsEmptyPcs, WsQueueTypes, WsPlaceTypes
<1>5. WsBufs'
  BY <1>0 DEF WS!TryPopLocal, WsBufs, WsTaken, WsQueueTypes, WsPlaceTypes
<1>6. WsSpins'
  BY <1>0, WsSpinSame DEF WS!TryPopLocal, WsPlaceTypes, WsSpinPcs
<1>7. WsLinked'
  BY <1>0 DEF WS!TryPopLocal, WsLinked, WsLinkedPcs, WsPlaceTypes
<1>8. WsTargets'
  BY <1>0 DEF WS!TryPopLocal, WsTargets, WsPlaceTypes
<1>9. WsListed'
  BY <1>0 DEF WS!TryPopLocal, WsListed, WsSleepy, WsPlaceTypes, WsFlagTypes
<1>10. WsWatched'
  BY <1>0 DEF WS!TryPopLocal, WsWatched, WsLast, WsQuiet, WsPlaceTypes, WsFlagTypes, WsQueueTypes
<1> QED BY <1>1, <1>2, <1>3, <1>4, <1>5, <1>6, <1>7, <1>8, <1>9, <1>10 DEF WsInv

\* It takes its share of the global queue.
LEMMA WsGrab ==
  ASSUME WsInv, NEW w \in Workers, WS!GrabTasksFromGlobalQueue(w)
  PROVE  WsInv'
<1> USE WsConstants DEF WS!queues, WS!searchVars, WS!coordVars, WS!notifyVars, WS!At, WS!GoTo, WS!Get, WS!Search, WS!SearchEnds
<1>0. WsQueueTypes /\ WsPlaceTypes /\ WsFlagTypes /\ WsLocals /\ WsBufs /\ WsSpins
      /\ WsLinked /\ WsTargets /\ WsListed /\ WsWatched
  BY DEF WsInv
<1>f. ASSUME wsGlobal # <<>>
      PROVE  \E s, r \in Seq(Jobs) :
               /\ s # <<>> /\ Len(s) <= LocalCapacity + 1
               /\ wsBuf' = [wsBuf EXCEPT ![w] = s] /\ wsGlobal' = r
               /\ wsPc' = [wsPc EXCEPT ![w] = "grabbed"]
  <2> DEFINE share == WS!Max({Len(wsGlobal) \div WS!Threads, 1})
             k == WS!Min({GrabBatchCap, share})
  <2>1. Len(wsGlobal) \in Nat \ {0} /\ wsGlobal \in Seq(Jobs)
    BY <1>0, <1>f DEF WsQueueTypes
  <2>2. Len(wsGlobal) \div WS!Threads \in Nat /\ Len(wsGlobal) \div WS!Threads <= Len(wsGlobal)
    BY <2>1, WsShare
  <2>3. share \in 1 .. Len(wsGlobal)
    BY <2>1, <2>2, WsMax
  <2> HIDE DEF share
  <2>4. k \in 1 .. Len(wsGlobal) /\ k <= LocalCapacity + 1
    BY <2>1, <2>3, WsMin
  <2>5. /\ wsBuf' = [wsBuf EXCEPT ![w] = SubSeq(wsGlobal, 1, k)]
        /\ wsGlobal' = SubSeq(wsGlobal, k + 1, Len(wsGlobal))
        /\ wsPc' = [wsPc EXCEPT ![w] = "grabbed"]
    BY <1>f DEF WS!GrabTasksFromGlobalQueue, share
  <2> HIDE DEF k
  <2>6. /\ SubSeq(wsGlobal, 1, k) \in Seq(Jobs) /\ Len(SubSeq(wsGlobal, 1, k)) = k
        /\ SubSeq(wsGlobal, k + 1, Len(wsGlobal)) \in Seq(Jobs)
    BY <2>1, <2>4
  <2>7. SubSeq(wsGlobal, 1, k) # <<>>
    BY <2>4, <2>6
  <2> QED BY <2>4, <2>5, <2>6, <2>7
<1>1. WsQueueTypes'
  <2>1. CASE wsGlobal # <<>>
    <3>1. PICK s, r \in Seq(Jobs) : wsBuf' = [wsBuf EXCEPT ![w] = s] /\ wsGlobal' = r
      BY <1>f, <2>1
    <3> QED BY <1>0, <3>1 DEF WS!GrabTasksFromGlobalQueue, WsQueueTypes
  <2>2. CASE wsGlobal = <<>>
    BY <1>0, <2>2 DEF WS!GrabTasksFromGlobalQueue, WsQueueTypes
  <2> QED BY <2>1, <2>2
<1>2. WsPlaceTypes'
  BY <1>0 DEF WS!GrabTasksFromGlobalQueue, WsPlaceTypes, WsPcs
<1>3. WsFlagTypes'
  BY <1>0 DEF WS!GrabTasksFromGlobalQueue, WsFlagTypes
<1>4. WsLocals'
  BY <1>0 DEF WS!GrabTasksFromGlobalQueue, WsLocals, WsEmptyPcs, WsQueueTypes, WsPlaceTypes
<1>5. WsBufs'
  <2>1. CASE wsGlobal # <<>>
    <3>1. PICK s \in Seq(Jobs) : /\ s # <<>> /\ Len(s) <= LocalCapacity + 1 /\ wsBuf' = [wsBuf EXCEPT ![w] = s]
                                 /\ wsPc' = [wsPc EXCEPT ![w] = "grabbed"]
      BY <1>f, <2>1
    <3> QED BY <1>0, <3>1 DEF WsBufs, WsTaken, WsQueueTypes, WsPlaceTypes
  <2>2. CASE wsGlobal = <<>>
    BY <1>0, <2>2 DEF WS!GrabTasksFromGlobalQueue, WsBufs, WsTaken, WsQueueTypes, WsPlaceTypes
  <2> QED BY <2>1, <2>2
<1>6. WsSpins'
  BY <1>0, WsSpinSame DEF WS!GrabTasksFromGlobalQueue, WsPlaceTypes, WsSpinPcs
<1>7. WsLinked'
  BY <1>0 DEF WS!GrabTasksFromGlobalQueue, WsLinked, WsLinkedPcs, WsPlaceTypes
<1>8. WsTargets'
  BY <1>0 DEF WS!GrabTasksFromGlobalQueue, WsTargets, WsPlaceTypes
<1>9. WsListed'
  BY <1>0 DEF WS!GrabTasksFromGlobalQueue, WsListed, WsSleepy, WsPlaceTypes, WsFlagTypes
<1>10. WsWatched'
  BY <1>0 DEF WS!GrabTasksFromGlobalQueue, WsWatched, WsLast, WsQuiet, WsPlaceTypes, WsFlagTypes, WsQueueTypes
<1> QED BY <1>1, <1>2, <1>3, <1>4, <1>5, <1>6, <1>7, <1>8, <1>9, <1>10 DEF WsInv

\* It begins to spin, or may not.
LEMMA WsSpin ==
  ASSUME WsInv, NEW w \in Workers, WS!StartSpinning(w)
  PROVE  WsInv'
<1> USE WsConstants DEF WS!queues, WS!searchVars, WS!coordVars, WS!notifyVars, WS!At, WS!GoTo, WS!Get, WS!Search, WS!SearchEnds
<1>0. WsQueueTypes /\ WsPlaceTypes /\ WsFlagTypes /\ WsLocals /\ WsBufs /\ WsSpins
      /\ WsLinked /\ WsTargets /\ WsListed /\ WsWatched
  BY DEF WsInv
<1>1. WsQueueTypes'
  BY <1>0 DEF WS!StartSpinning, WsQueueTypes
<1>2. WsPlaceTypes'
  BY <1>0 DEF WS!StartSpinning, WsPlaceTypes, WsPcs
<1>3. WsFlagTypes'
  BY <1>0 DEF WS!StartSpinning, WsFlagTypes
<1>4. WsLocals'
  BY <1>0 DEF WS!StartSpinning, WsLocals, WsEmptyPcs, WsQueueTypes, WsPlaceTypes
<1>5. WsBufs'
  BY <1>0 DEF WS!StartSpinning, WsBufs, WsTaken, WsQueueTypes, WsPlaceTypes
<1>6. WsSpins'
  <2>1. CASE (wsSpinning + 1) * 2 > WS!Threads
    BY <1>0, <2>1, WsSpinSame DEF WS!StartSpinning, WsPlaceTypes, WsSpinPcs
  <2>2. CASE ~((wsSpinning + 1) * 2 > WS!Threads)
    <3>1. wsSpinning' = wsSpinning + 1 /\ wsSpinning' * 2 <= Cardinality(Workers)
      BY <1>0, <2>2 DEF WS!StartSpinning, WsPlaceTypes
    <3>2. /\ wsPc[w] \notin WsSpinPcs /\ wsPc'[w] \in WsSpinPcs
          /\ \A u \in Workers : u # w => wsPc'[u] = wsPc[u]
      BY <1>0, <2>2 DEF WS!StartSpinning, WsPlaceTypes, WsSpinPcs
    <3> QED BY <1>0, <3>1, <3>2, WsSpinMore
  <2> QED BY <2>1, <2>2
<1>7. WsLinked'
  BY <1>0 DEF WS!StartSpinning, WsLinked, WsLinkedPcs, WsPlaceTypes
<1>8. WsTargets'
  BY <1>0 DEF WS!StartSpinning, WsTargets, WsPlaceTypes
<1>9. WsListed'
  BY <1>0 DEF WS!StartSpinning, WsListed, WsSleepy, WsPlaceTypes, WsFlagTypes
<1>10. WsWatched'
  BY <1>0 DEF WS!StartSpinning, WsWatched, WsLast, WsQuiet, WsPlaceTypes, WsFlagTypes, WsQueueTypes
<1> QED BY <1>1, <1>2, <1>3, <1>4, <1>5, <1>6, <1>7, <1>8, <1>9, <1>10 DEF WsInv

\* It visits the others, until one has tasks.
LEMMA WsSteal ==
  ASSUME WsInv, NEW w \in Workers, WS!TryStealTasks(w)
  PROVE  WsInv'
<1> USE WsConstants DEF WS!queues, WS!searchVars, WS!coordVars, WS!notifyVars, WS!At, WS!GoTo, WS!Get, WS!Search, WS!SearchEnds
<1>0. WsQueueTypes /\ WsPlaceTypes /\ WsFlagTypes /\ WsLocals /\ WsBufs /\ WsSpins
      /\ WsLinked /\ WsTargets /\ WsListed /\ WsWatched
  BY DEF WsInv
<1>u. /\ wsPc[w] \in {"steal", "steal2"} /\ wsNpc[w] = "idle"
      /\ UNCHANGED <<wsGlobal, wsHand, wsIdle, wsSpinning, wsWoken, wsNpc, wsTarget, wsStop, wsFresh>>
  BY DEF WS!TryStealTasks
<1>s. \/ \E v \in Workers, s, r \in Seq(Jobs) :
           /\ v # w /\ s # <<>> /\ Len(s) <= LocalCapacity + 1 /\ Len(r) <= Len(wsLocal[v])
           /\ wsLocal[v] = <<>> => r = <<>>
           /\ wsBuf' = [wsBuf EXCEPT ![w] = s] /\ wsLocal' = [wsLocal EXCEPT ![v] = r]
           /\ wsPc' = [wsPc EXCEPT ![w] = IF wsPc[w] = "steal" THEN "stolen" ELSE "stolen2"]
           /\ wsVictims' \in [Workers -> SUBSET Workers]
      \/ /\ UNCHANGED <<wsBuf, wsLocal>> /\ wsVictims' \in [Workers -> SUBSET Workers]
         /\ \/ wsPc' = wsPc
            \/ wsPc' = [wsPc EXCEPT ![w] = IF wsPc[w] = "steal" THEN "stopspin" ELSE "check"]
  <2> DEFINE K(v) == WS!Min({Len(wsLocal[v]), StealSize})
  <2>1. \/ \E v \in wsVictims[w] :
             /\ wsLocal[v] # <<>>
             /\ wsBuf' = [wsBuf EXCEPT ![w] = SubSeq(wsLocal[v], 1, K(v))]
             /\ wsLocal' = [wsLocal EXCEPT ![v] = SubSeq(@, K(v) + 1, Len(@))]
             /\ wsPc' = [wsPc EXCEPT ![w] = IF wsPc[w] = "steal" THEN "stolen" ELSE "stolen2"]
             /\ wsVictims' = [wsVictims EXCEPT ![w] = {}]
        \/ \E v \in wsVictims[w] :
             wsVictims' = [wsVictims EXCEPT ![w] = @ \ {v}] /\ UNCHANGED <<wsLocal, wsBuf, wsPc>>
        \/ /\ wsVictims' = [wsVictims EXCEPT ![w] = Workers \ {w}] \/ wsVictims' = [wsVictims EXCEPT ![w] = {}]
           /\ UNCHANGED <<wsLocal, wsBuf>>
           /\ \/ wsPc' = wsPc
              \/ wsPc' = [wsPc EXCEPT ![w] = IF wsPc[w] = "steal" THEN "stopspin" ELSE "check"]
    BY Zenon DEF WS!TryStealTasks
  <2>2. CASE <2>1!1
    <3>1. PICK v \in wsVictims[w] :
             /\ wsLocal[v] # <<>>
             /\ wsBuf' = [wsBuf EXCEPT ![w] = SubSeq(wsLocal[v], 1, K(v))]
             /\ wsLocal' = [wsLocal EXCEPT ![v] = SubSeq(@, K(v) + 1, Len(@))]
             /\ wsPc' = [wsPc EXCEPT ![w] = IF wsPc[w] = "steal" THEN "stolen" ELSE "stolen2"]
             /\ wsVictims' = [wsVictims EXCEPT ![w] = {}]
      BY <2>2
    <3>2. v \in Workers /\ wsLocal[v] \in Seq(Jobs) /\ Len(wsLocal[v]) \in Nat \ {0}
      BY <1>0, <3>1 DEF WsPlaceTypes, WsQueueTypes
    <3>3. v # w
      BY <1>0, <1>u, <3>1 DEF WsLocals, WsEmptyPcs
    <3>4. K(v) \in 1 .. Len(wsLocal[v]) /\ K(v) <= LocalCapacity + 1
      BY <3>2, WsMin
    <3> HIDE DEF K
    <3> DEFINE s == SubSeq(wsLocal[v], 1, K(v))
               r == SubSeq(wsLocal[v], K(v) + 1, Len(wsLocal[v]))
    <3> DEFINE l == wsLocal[v]
               k == K(v)
    <3>n. l \in Seq(Jobs) /\ k \in 0 .. Len(l)
      BY <3>2, <3>4
    <3> HIDE DEF l, k
    <3>q. /\ SubSeq(l, 1, k) \in Seq(Jobs) /\ Len(SubSeq(l, 1, k)) = k
          /\ SubSeq(l, k + 1, Len(l)) \in Seq(Jobs) /\ Len(SubSeq(l, k + 1, Len(l))) = Len(l) - k
      BY <3>n, WsCut
    <3>5. /\ s \in Seq(Jobs) /\ Len(s) = K(v) /\ r \in Seq(Jobs) /\ Len(r) = Len(wsLocal[v]) - K(v)
      BY <3>q, Zenon DEF l, k
    <3>6. wsBuf' = [wsBuf EXCEPT ![w] = s] /\ wsLocal' = [wsLocal EXCEPT ![v] = r]
      BY <3>1
    <3> HIDE DEF s, r
    <3>7. s # <<>> /\ Len(s) <= LocalCapacity + 1 /\ Len(r) <= Len(wsLocal[v])
      BY <3>2, <3>4, <3>5
    <3>8. wsVictims' \in [Workers -> SUBSET Workers]
      BY <1>0, <3>1 DEF WsPlaceTypes
    <3> QED BY <3>1, <3>2, <3>3, <3>5, <3>6, <3>7, <3>8
  <2>3. CASE <2>1!2
    BY <1>0, <2>3 DEF WsPlaceTypes
  <2>4. CASE <2>1!3
    BY <1>0, <2>4 DEF WsPlaceTypes
  <2> QED BY <2>1, <2>2, <2>3, <2>4
<1>1. WsQueueTypes'
  <2>1. CASE <1>s!1
    <3>1. PICK v \in Workers, s \in Seq(Jobs), r \in Seq(Jobs) :
           /\ v # w /\ s # <<>> /\ Len(s) <= LocalCapacity + 1 /\ Len(r) <= Len(wsLocal[v])
           /\ wsLocal[v] = <<>> => r = <<>>
           /\ wsBuf' = [wsBuf EXCEPT ![w] = s] /\ wsLocal' = [wsLocal EXCEPT ![v] = r]
           /\ wsPc' = [wsPc EXCEPT ![w] = IF wsPc[w] = "steal" THEN "stolen" ELSE "stolen2"]
           /\ wsVictims' \in [Workers -> SUBSET Workers]
      BY <2>1
    <3> QED BY <1>0, <1>u, <3>1 DEF WsQueueTypes
  <2>2. CASE <1>s!2
    BY <1>0, <1>u, <2>2 DEF WsQueueTypes
  <2> QED BY <1>s, <2>1, <2>2
<1>2. WsPlaceTypes'
  <2>1. CASE <1>s!1
    <3>1. PICK v \in Workers, s \in Seq(Jobs), r \in Seq(Jobs) :
           /\ v # w /\ s # <<>> /\ Len(s) <= LocalCapacity + 1 /\ Len(r) <= Len(wsLocal[v])
           /\ wsLocal[v] = <<>> => r = <<>>
           /\ wsBuf' = [wsBuf EXCEPT ![w] = s] /\ wsLocal' = [wsLocal EXCEPT ![v] = r]
           /\ wsPc' = [wsPc EXCEPT ![w] = IF wsPc[w] = "steal" THEN "stolen" ELSE "stolen2"]
           /\ wsVictims' \in [Workers -> SUBSET Workers]
      BY <2>1
    <3> QED BY <1>0, <1>u, <3>1 DEF WsPlaceTypes, WsPcs
  <2>2. CASE <1>s!2
    BY <1>0, <1>u, <2>2 DEF WsPlaceTypes, WsPcs
  <2> QED BY <1>s, <2>1, <2>2
<1>3. WsFlagTypes'
  BY <1>0 DEF WS!TryStealTasks, WsFlagTypes
<1>4. WsLocals'
  <2>1. CASE <1>s!1
    <3>1. PICK v \in Workers, s \in Seq(Jobs), r \in Seq(Jobs) :
           /\ v # w /\ s # <<>> /\ Len(s) <= LocalCapacity + 1 /\ Len(r) <= Len(wsLocal[v])
           /\ wsLocal[v] = <<>> => r = <<>>
           /\ wsBuf' = [wsBuf EXCEPT ![w] = s] /\ wsLocal' = [wsLocal EXCEPT ![v] = r]
           /\ wsPc' = [wsPc EXCEPT ![w] = IF wsPc[w] = "steal" THEN "stolen" ELSE "stolen2"]
           /\ wsVictims' \in [Workers -> SUBSET Workers]
      BY <2>1
    <3>2. /\ wsLocal'[v] = r /\ wsPc'[v] = wsPc[v] /\ Len(r) <= LocalCapacity
          /\ wsPc'[w] \in {"stolen", "stolen2"} /\ wsLocal[w] = <<>> /\ wsHand' = wsHand
          /\ \A u \in Workers : u # v => wsLocal'[u] = wsLocal[u]
          /\ \A u \in Workers : u # w => wsPc'[u] = wsPc[u]
      BY <1>0, <1>u, <3>1 DEF WsLocals, WsEmptyPcs, WsQueueTypes, WsPlaceTypes
    <3> QED BY <1>0, <3>1, <3>2 DEF WsLocals, WsEmptyPcs, WsQueueTypes, WsPlaceTypes
  <2>2. CASE <1>s!2
    BY <1>0, <1>u, <2>2 DEF WsLocals, WsEmptyPcs, WsQueueTypes, WsPlaceTypes
  <2> QED BY <1>s, <2>1, <2>2
<1>5. WsBufs'
  <2>1. CASE <1>s!1
    <3>1. PICK v \in Workers, s \in Seq(Jobs), r \in Seq(Jobs) :
           /\ v # w /\ s # <<>> /\ Len(s) <= LocalCapacity + 1 /\ Len(r) <= Len(wsLocal[v])
           /\ wsLocal[v] = <<>> => r = <<>>
           /\ wsBuf' = [wsBuf EXCEPT ![w] = s] /\ wsLocal' = [wsLocal EXCEPT ![v] = r]
           /\ wsPc' = [wsPc EXCEPT ![w] = IF wsPc[w] = "steal" THEN "stolen" ELSE "stolen2"]
           /\ wsVictims' \in [Workers -> SUBSET Workers]
      BY <2>1
    <3> QED BY <1>0, <1>u, <3>1 DEF WsBufs, WsTaken, WsQueueTypes, WsPlaceTypes
  <2>2. CASE <1>s!2
    BY <1>0, <1>u, <2>2 DEF WsBufs, WsTaken, WsQueueTypes, WsPlaceTypes
  <2> QED BY <1>s, <2>1, <2>2
<1>6. WsSpins'
  BY <1>0, WsSpinSame DEF WS!TryStealTasks, WsPlaceTypes, WsSpinPcs
<1>7. WsLinked'
  <2>1. CASE <1>s!1
    <3>1. PICK v \in Workers, s \in Seq(Jobs), r \in Seq(Jobs) :
           /\ v # w /\ s # <<>> /\ Len(s) <= LocalCapacity + 1 /\ Len(r) <= Len(wsLocal[v])
           /\ wsLocal[v] = <<>> => r = <<>>
           /\ wsBuf' = [wsBuf EXCEPT ![w] = s] /\ wsLocal' = [wsLocal EXCEPT ![v] = r]
           /\ wsPc' = [wsPc EXCEPT ![w] = IF wsPc[w] = "steal" THEN "stolen" ELSE "stolen2"]
           /\ wsVictims' \in [Workers -> SUBSET Workers]
      BY <2>1
    <3> QED BY <1>0, <1>u, <3>1 DEF WsLinked, WsLinkedPcs, WsPlaceTypes
  <2>2. CASE <1>s!2
    BY <1>0, <1>u, <2>2 DEF WsLinked, WsLinkedPcs, WsPlaceTypes
  <2> QED BY <1>s, <2>1, <2>2
<1>8. WsTargets'
  BY <1>0 DEF WS!TryStealTasks, WsTargets, WsPlaceTypes
<1>9. WsListed'
  <2>1. CASE <1>s!1
    <3>1. PICK v \in Workers, s \in Seq(Jobs), r \in Seq(Jobs) :
           /\ v # w /\ s # <<>> /\ Len(s) <= LocalCapacity + 1 /\ Len(r) <= Len(wsLocal[v])
           /\ wsLocal[v] = <<>> => r = <<>>
           /\ wsBuf' = [wsBuf EXCEPT ![w] = s] /\ wsLocal' = [wsLocal EXCEPT ![v] = r]
           /\ wsPc' = [wsPc EXCEPT ![w] = IF wsPc[w] = "steal" THEN "stolen" ELSE "stolen2"]
           /\ wsVictims' \in [Workers -> SUBSET Workers]
      BY <2>1
    <3> QED BY <1>0, <1>u, <3>1 DEF WsListed, WsSleepy, WsPlaceTypes, WsFlagTypes
  <2>2. CASE <1>s!2
    BY <1>0, <1>u, <2>2 DEF WsListed, WsSleepy, WsPlaceTypes, WsFlagTypes
  <2> QED BY <1>s, <2>1, <2>2
<1>10. WsWatched'
  <2>1. CASE <1>s!1
    <3>1. PICK v \in Workers, s \in Seq(Jobs), r \in Seq(Jobs) :
           /\ v # w /\ s # <<>> /\ Len(s) <= LocalCapacity + 1 /\ Len(r) <= Len(wsLocal[v])
           /\ wsLocal[v] = <<>> => r = <<>>
           /\ wsBuf' = [wsBuf EXCEPT ![w] = s] /\ wsLocal' = [wsLocal EXCEPT ![v] = r]
           /\ wsPc' = [wsPc EXCEPT ![w] = IF wsPc[w] = "steal" THEN "stolen" ELSE "stolen2"]
           /\ wsVictims' \in [Workers -> SUBSET Workers]
      BY <2>1
    <3> QED BY <1>0, <1>u, <3>1 DEF WsWatched, WsLast, WsQuiet, WsPlaceTypes, WsFlagTypes, WsQueueTypes
  <2>2. CASE <1>s!2
    BY <1>0, <1>u, <2>2 DEF WsWatched, WsLast, WsQuiet, WsPlaceTypes, WsFlagTypes, WsQueueTypes
  <2> QED BY <1>s, <2>1, <2>2
<1> QED BY <1>1, <1>2, <1>3, <1>4, <1>5, <1>6, <1>7, <1>8, <1>9, <1>10 DEF WsInv

\* It keeps the first task it has taken and queues the others.
LEMMA WsPushMany ==
  ASSUME WsInv, NEW w \in Workers, WS!PushMany(w)
  PROVE  WsInv'
<1> USE WsConstants DEF WS!queues, WS!searchVars, WS!coordVars, WS!notifyVars, WS!At, WS!GoTo, WS!Get, WS!Search, WS!SearchEnds
<1>0. WsQueueTypes /\ WsPlaceTypes /\ WsFlagTypes /\ WsLocals /\ WsBufs /\ WsSpins
      /\ WsLinked /\ WsTargets /\ WsListed /\ WsWatched
  BY DEF WsInv
<1>f. \E s \in Seq(Jobs), l \in {"run", "stopspin", "active"} :
        /\ Len(s) <= LocalCapacity /\ Head(wsBuf[w]) \in Jobs
        /\ wsPc[w] = "stolen" <=> l = "stopspin"
        /\ wsHand' = [wsHand EXCEPT ![w] = Head(wsBuf[w])] /\ wsLocal' = [wsLocal EXCEPT ![w] = s]
        /\ wsBuf' = [wsBuf EXCEPT ![w] = <<>>] /\ wsPc' = [wsPc EXCEPT ![w] = l]
  <2>1. wsPc[w] \in WsTaken /\ wsPc[w] \in WsEmptyPcs
    BY DEF WS!PushMany, WsTaken, WsEmptyPcs
  <2>2. wsBuf[w] \in Seq(Jobs) /\ wsBuf[w] # <<>> /\ Len(wsBuf[w]) <= LocalCapacity + 1 /\ wsLocal[w] = <<>>
    BY <1>0, <2>1 DEF WsQueueTypes, WsBufs, WsLocals
  <2> DEFINE b == wsBuf[w]
             s == Tail(b)
  <2>3. Head(b) \in Jobs /\ s \in Seq(Jobs) /\ Len(s) <= LocalCapacity
    BY <2>2
  <2>4. wsLocal[w] \o s = s
    BY <2>2, <2>3
  <2> HIDE DEF s
  <2>5. /\ wsHand' = [wsHand EXCEPT ![w] = Head(wsBuf[w])] /\ wsLocal' = [wsLocal EXCEPT ![w] = s]
        /\ wsBuf' = [wsBuf EXCEPT ![w] = <<>>]
    BY <2>4 DEF WS!PushMany, s
  <2>6. \E l \in {"run", "stopspin", "active"} :
          (wsPc[w] = "stolen" <=> l = "stopspin") /\ wsPc' = [wsPc EXCEPT ![w] = l]
    BY DEF WS!PushMany
  <2> QED BY <2>3, <2>5, <2>6
<1>1. WsQueueTypes'
  <2>1. PICK s \in Seq(Jobs) : /\ Head(wsBuf[w]) \in Jobs /\ wsHand' = [wsHand EXCEPT ![w] = Head(wsBuf[w])]
                               /\ wsLocal' = [wsLocal EXCEPT ![w] = s] /\ wsBuf' = [wsBuf EXCEPT ![w] = <<>>]
    BY <1>f
  <2>2. wsLocal' \in [Workers -> Seq(Jobs)] /\ wsBuf' \in [Workers -> Seq(Jobs)]
    BY <1>0, <2>1 DEF WsQueueTypes
  <2>3. wsHand' \in [Workers -> Jobs \cup {NoTask}]
    BY <1>0, <2>1 DEF WsQueueTypes
  <2>4. wsGlobal' = wsGlobal /\ wsFresh' = wsFresh
    BY DEF WS!PushMany
  <2> QED BY <1>0, <2>2, <2>3, <2>4 DEF WsQueueTypes
<1>2. WsPlaceTypes'
  BY <1>0 DEF WS!PushMany, WsPlaceTypes, WsPcs
<1>3. WsFlagTypes'
  BY <1>0 DEF WS!PushMany, WsFlagTypes
<1>4. WsLocals'
  BY <1>0, <1>f DEF WsLocals, WsEmptyPcs, WsQueueTypes, WsPlaceTypes
<1>5. WsBufs'
  BY <1>0 DEF WS!PushMany, WsBufs, WsTaken, WsQueueTypes, WsPlaceTypes
<1>6. WsSpins'
  BY <1>0, WsSpinSame DEF WS!PushMany, WsPlaceTypes, WsSpinPcs
<1>7. WsLinked'
  BY <1>0 DEF WS!PushMany, WsLinked, WsLinkedPcs, WsPlaceTypes
<1>8. WsTargets'
  BY <1>0 DEF WS!PushMany, WsTargets, WsPlaceTypes
<1>9. WsListed'
  BY <1>0 DEF WS!PushMany, WsListed, WsSleepy, WsPlaceTypes, WsFlagTypes
<1>10. WsWatched'
  BY <1>0 DEF WS!PushMany, WsWatched, WsLast, WsQuiet, WsPlaceTypes, WsFlagTypes, WsQueueTypes
<1> QED BY <1>1, <1>2, <1>3, <1>4, <1>5, <1>6, <1>7, <1>8, <1>9, <1>10 DEF WsInv

\* It stops spinning.
LEMMA WsStopSpin ==
  ASSUME WsInv, NEW w \in Workers, WS!StopSpinning(w)
  PROVE  WsInv'
<1> USE WsConstants DEF WS!queues, WS!searchVars, WS!coordVars, WS!notifyVars, WS!At, WS!GoTo, WS!Get, WS!Search, WS!SearchEnds
<1>0. WsQueueTypes /\ WsPlaceTypes /\ WsFlagTypes /\ WsLocals /\ WsBufs /\ WsSpins
      /\ WsLinked /\ WsTargets /\ WsListed /\ WsWatched
  BY DEF WsInv
<1>s. WsSpins' /\ wsSpinning' \in Nat
  <2>1. /\ wsSpinning' = wsSpinning - 1 /\ wsPc[w] \in WsSpinPcs /\ wsPc'[w] \notin WsSpinPcs
        /\ \A u \in Workers : u # w => wsPc'[u] = wsPc[u]
    BY <1>0 DEF WS!StopSpinning, WsPlaceTypes, WsSpinPcs
  <2> QED BY <1>0, <2>1, WsSpinLess
<1>1. WsQueueTypes'
  BY <1>0 DEF WS!StopSpinning, WsQueueTypes
<1>2. WsPlaceTypes'
  BY <1>0, <1>s DEF WS!StopSpinning, WsPlaceTypes, WsPcs
<1>3. WsFlagTypes'
  BY <1>0 DEF WS!StopSpinning, WsFlagTypes
<1>4. WsLocals'
  BY <1>0 DEF WS!StopSpinning, WsLocals, WsEmptyPcs, WsQueueTypes, WsPlaceTypes
<1>5. WsBufs'
  BY <1>0 DEF WS!StopSpinning, WsBufs, WsTaken, WsQueueTypes, WsPlaceTypes
<1>6. WsSpins'
  BY <1>s
<1>7. WsLinked'
  BY <1>0 DEF WS!StopSpinning, WsLinked, WsLinkedPcs, WsPlaceTypes
<1>8. WsTargets'
  BY <1>0 DEF WS!StopSpinning, WsTargets, WsPlaceTypes
<1>9. WsListed'
  BY <1>0 DEF WS!StopSpinning, WsListed, WsSleepy, WsPlaceTypes, WsFlagTypes
<1>10. WsWatched'
  BY <1>0 DEF WS!StopSpinning, WsWatched, WsLast, WsQuiet, WsPlaceTypes, WsFlagTypes, WsQueueTypes
<1> QED BY <1>1, <1>2, <1>3, <1>4, <1>5, <1>6, <1>7, <1>8, <1>9, <1>10 DEF WsInv

\* It is about to step down.
LEMMA WsSave ==
  ASSUME WsInv, NEW w \in Workers, WS!SaveSleepState(w)
  PROVE  WsInv'
<1> USE WsConstants DEF WS!queues, WS!searchVars, WS!coordVars, WS!notifyVars, WS!At, WS!GoTo, WS!Get, WS!Search, WS!SearchEnds
<1>0. WsQueueTypes /\ WsPlaceTypes /\ WsFlagTypes /\ WsLocals /\ WsBufs /\ WsSpins
      /\ WsLinked /\ WsTargets /\ WsListed /\ WsWatched
  BY DEF WsInv
<1>1. WsQueueTypes'
  BY <1>0 DEF WS!SaveSleepState, WsQueueTypes
<1>2. WsPlaceTypes'
  BY <1>0 DEF WS!SaveSleepState, WsPlaceTypes, WsPcs
<1>3. WsFlagTypes'
  BY <1>0 DEF WS!SaveSleepState, WsFlagTypes
<1>4. WsLocals'
  BY <1>0 DEF WS!SaveSleepState, WsLocals, WsEmptyPcs, WsQueueTypes, WsPlaceTypes
<1>5. WsBufs'
  BY <1>0 DEF WS!SaveSleepState, WsBufs, WsTaken, WsQueueTypes, WsPlaceTypes
<1>6. WsSpins'
  BY <1>0, WsSpinSame DEF WS!SaveSleepState, WsPlaceTypes, WsSpinPcs
<1>7. WsLinked'
  BY <1>0 DEF WS!SaveSleepState, WsLinked, WsLinkedPcs, WsPlaceTypes
<1>8. WsTargets'
  BY <1>0 DEF WS!SaveSleepState, WsTargets, WsPlaceTypes
<1>9. WsListed'
  BY <1>0 DEF WS!SaveSleepState, WsListed, WsSleepy, WsPlaceTypes, WsFlagTypes
<1>10. WsWatched'
  BY <1>0 DEF WS!SaveSleepState, WsWatched, WsLast, WsQuiet, WsPlaceTypes, WsFlagTypes, WsQueueTypes
<1> QED BY <1>1, <1>2, <1>3, <1>4, <1>5, <1>6, <1>7, <1>8, <1>9, <1>10 DEF WsInv

\* It enters the list of the idle.
LEMMA WsStepDown ==
  ASSUME WsInv, NEW w \in Workers, WS!StepDownAsActiveWorker(w)
  PROVE  WsInv'
<1> USE WsConstants DEF WS!queues, WS!searchVars, WS!coordVars, WS!notifyVars, WS!At, WS!GoTo, WS!Get, WS!Search, WS!SearchEnds
<1>0. WsQueueTypes /\ WsPlaceTypes /\ WsFlagTypes /\ WsLocals /\ WsBufs /\ WsSpins
      /\ WsLinked /\ WsTargets /\ WsListed /\ WsWatched
  BY DEF WsInv
<1>f. /\ wsIdle' \in Seq(Workers) /\ Once(wsIdle)'
      /\ \A y : In(wsIdle, y)' <=> In(wsIdle, y) \/ y = w
  <2>0. wsIdle \in Seq(Workers) /\ Once(wsIdle)
    BY <1>0 DEF WsPlaceTypes, WsLinked
  <2>1. CASE In(wsIdle, w)
    <3>1. wsIdle' = wsIdle
      BY <2>0, <2>1, WsLinkedIn DEF WS!StepDownAsActiveWorker
    <3> QED BY <2>0, <2>1, <3>1
  <2>2. CASE ~In(wsIdle, w)
    <3>1. wsIdle' = Append(wsIdle, w)
      BY <2>0, <2>2, WsLinkedIn DEF WS!StepDownAsActiveWorker
    <3>2. /\ Append(wsIdle, w) \in Seq(Workers) /\ Once(Append(wsIdle, w))
          /\ \A y : In(Append(wsIdle, w), y) <=> In(wsIdle, y) \/ y = w
      BY <2>0, <2>2, InAppended
    <3> QED BY <3>1, <3>2
  <2> QED BY <2>1, <2>2
<1>1. WsQueueTypes'
  BY <1>0 DEF WS!StepDownAsActiveWorker, WsQueueTypes
<1>2. WsPlaceTypes'
  BY <1>0, <1>f DEF WS!StepDownAsActiveWorker, WsPlaceTypes, WsPcs
<1>3. WsFlagTypes'
  BY <1>0 DEF WS!StepDownAsActiveWorker, WsFlagTypes
<1>4. WsLocals'
  BY <1>0 DEF WS!StepDownAsActiveWorker, WsLocals, WsEmptyPcs, WsQueueTypes, WsPlaceTypes
<1>5. WsBufs'
  BY <1>0 DEF WS!StepDownAsActiveWorker, WsBufs, WsTaken, WsQueueTypes, WsPlaceTypes
<1>6. WsSpins'
  BY <1>0, WsSpinSame DEF WS!StepDownAsActiveWorker, WsPlaceTypes, WsSpinPcs
<1>7. WsLinked'
  BY <1>0, <1>f DEF WS!StepDownAsActiveWorker, WsLinked, WsLinkedPcs, WsPlaceTypes
<1>8. WsTargets'
  BY <1>0 DEF WS!StepDownAsActiveWorker, WsTargets, WsPlaceTypes
<1>9. WsListed'
  BY <1>0, <1>f DEF WS!StepDownAsActiveWorker, WsListed, WsSleepy, WsPlaceTypes, WsFlagTypes
<1>10. WsWatched'
  BY <1>0 DEF WS!StepDownAsActiveWorker, WsWatched, WsLast, WsQuiet, WsPlaceTypes, WsFlagTypes, WsQueueTypes
<1> QED BY <1>1, <1>2, <1>3, <1>4, <1>5, <1>6, <1>7, <1>8, <1>9, <1>10 DEF WsInv

\* It has found nothing.
LEMMA WsCheckStop ==
  ASSUME WsInv, NEW w \in Workers, WS!CheckStop(w)
  PROVE  WsInv'
<1> USE WsConstants DEF WS!queues, WS!searchVars, WS!coordVars, WS!notifyVars, WS!At, WS!GoTo, WS!Get, WS!Search, WS!SearchEnds
<1>0. WsQueueTypes /\ WsPlaceTypes /\ WsFlagTypes /\ WsLocals /\ WsBufs /\ WsSpins
      /\ WsLinked /\ WsTargets /\ WsListed /\ WsWatched
  BY DEF WsInv
<1>1. WsQueueTypes'
  BY <1>0 DEF WS!CheckStop, WsQueueTypes
<1>2. WsPlaceTypes'
  BY <1>0 DEF WS!CheckStop, WsPlaceTypes, WsPcs
<1>3. WsFlagTypes'
  BY <1>0 DEF WS!CheckStop, WsFlagTypes
<1>4. WsLocals'
  BY <1>0 DEF WS!CheckStop, WsLocals, WsEmptyPcs, WsQueueTypes, WsPlaceTypes
<1>5. WsBufs'
  BY <1>0 DEF WS!CheckStop, WsBufs, WsTaken, WsQueueTypes, WsPlaceTypes
<1>6. WsSpins'
  BY <1>0, WsSpinSame DEF WS!CheckStop, WsPlaceTypes, WsSpinPcs
<1>7. WsLinked'
  BY <1>0 DEF WS!CheckStop, WsLinked, WsLinkedPcs, WsPlaceTypes
<1>8. WsTargets'
  BY <1>0 DEF WS!CheckStop, WsTargets, WsPlaceTypes
<1>9. WsListed'
  BY <1>0 DEF WS!CheckStop, WsListed, WsSleepy, WsPlaceTypes, WsFlagTypes
<1>10. WsWatched'
  BY <1>0 DEF WS!CheckStop, WsWatched, WsLast, WsQuiet, WsPlaceTypes, WsFlagTypes, WsQueueTypes
<1> QED BY <1>1, <1>2, <1>3, <1>4, <1>5, <1>6, <1>7, <1>8, <1>9, <1>10 DEF WsInv

\* It is woken.
LEMMA WsSleeps ==
  ASSUME WsInv, NEW w \in Workers, WS!Sleep(w)
  PROVE  WsInv'
<1> USE WsConstants DEF WS!queues, WS!searchVars, WS!coordVars, WS!notifyVars, WS!At, WS!GoTo, WS!Get, WS!Search, WS!SearchEnds
<1>0. WsQueueTypes /\ WsPlaceTypes /\ WsFlagTypes /\ WsLocals /\ WsBufs /\ WsSpins
      /\ WsLinked /\ WsTargets /\ WsListed /\ WsWatched
  BY DEF WsInv
<1>1. WsQueueTypes'
  BY <1>0 DEF WS!Sleep, WsQueueTypes
<1>2. WsPlaceTypes'
  BY <1>0 DEF WS!Sleep, WsPlaceTypes, WsPcs
<1>3. WsFlagTypes'
  BY <1>0 DEF WS!Sleep, WsFlagTypes
<1>4. WsLocals'
  BY <1>0 DEF WS!Sleep, WsLocals, WsEmptyPcs, WsQueueTypes, WsPlaceTypes
<1>5. WsBufs'
  BY <1>0 DEF WS!Sleep, WsBufs, WsTaken, WsQueueTypes, WsPlaceTypes
<1>6. WsSpins'
  BY <1>0, WsSpinSame DEF WS!Sleep, WsPlaceTypes, WsSpinPcs
<1>7. WsLinked'
  BY <1>0 DEF WS!Sleep, WsLinked, WsLinkedPcs, WsPlaceTypes
<1>8. WsTargets'
  BY <1>0 DEF WS!Sleep, WsTargets, WsPlaceTypes
<1>9. WsListed'
  BY <1>0 DEF WS!Sleep, WsListed, WsSleepy, WsPlaceTypes, WsFlagTypes
<1>10. WsWatched'
  BY <1>0 DEF WS!Sleep, WsWatched, WsLast, WsQuiet, WsPlaceTypes, WsFlagTypes, WsQueueTypes
<1> QED BY <1>1, <1>2, <1>3, <1>4, <1>5, <1>6, <1>7, <1>8, <1>9, <1>10 DEF WsInv

\* It leaves the list.
LEMMA WsActive ==
  ASSUME WsInv, NEW w \in Workers, WS!BecomeActiveWorker(w)
  PROVE  WsInv'
<1> USE WsConstants DEF WS!queues, WS!searchVars, WS!coordVars, WS!notifyVars, WS!At, WS!GoTo, WS!Get, WS!Search, WS!SearchEnds
<1>0. WsQueueTypes /\ WsPlaceTypes /\ WsFlagTypes /\ WsLocals /\ WsBufs /\ WsSpins
      /\ WsLinked /\ WsTargets /\ WsListed /\ WsWatched
  BY DEF WsInv
<1>f. /\ wsIdle' \in Seq(Workers) /\ Once(wsIdle)'
      /\ \A y : In(wsIdle, y)' <=> In(wsIdle, y) /\ y # w
  BY <1>0, WsUnlink DEF WS!BecomeActiveWorker, WsPlaceTypes, WsLinked
<1>w. \A u \in Workers : u # w => (wsWoken'[u] <=> wsWoken[u])
  BY <1>0 DEF WS!BecomeActiveWorker, WsFlagTypes
<1>p. \E l \in {"run", "loop", "done"} : wsPc' = [wsPc EXCEPT ![w] = l]
  BY DEF WS!BecomeActiveWorker
<1>1. WsQueueTypes'
  BY <1>0 DEF WS!BecomeActiveWorker, WsQueueTypes
<1>2. WsPlaceTypes'
  BY <1>0, <1>f, <1>p DEF WS!BecomeActiveWorker, WsPlaceTypes, WsPcs
<1>3. WsFlagTypes'
  BY <1>0 DEF WS!BecomeActiveWorker, WsFlagTypes
<1>4. WsLocals'
  BY <1>0 DEF WS!BecomeActiveWorker, WsLocals, WsEmptyPcs, WsQueueTypes, WsPlaceTypes
<1>5. WsBufs'
  BY <1>0 DEF WS!BecomeActiveWorker, WsBufs, WsTaken, WsQueueTypes, WsPlaceTypes
<1>6. WsSpins'
  BY <1>0, WsSpinSame DEF WS!BecomeActiveWorker, WsPlaceTypes, WsSpinPcs
<1>7. WsLinked'
  BY <1>0, <1>f, <1>p DEF WsLinked, WsLinkedPcs, WsPlaceTypes
<1>8. WsTargets'
  BY <1>0 DEF WS!BecomeActiveWorker, WsTargets, WsPlaceTypes
<1>9. WsListed'
  <2>1. wsTarget' = wsTarget
    BY DEF WS!BecomeActiveWorker
  <2> QED BY <1>0, <1>f, <1>w, <1>p, <2>1 DEF WsListed, WsSleepy, WsPlaceTypes
<1>10. WsWatched'
  BY <1>0 DEF WS!BecomeActiveWorker, WsWatched, WsLast, WsQuiet, WsPlaceTypes, WsFlagTypes, WsQueueTypes
<1> QED BY <1>1, <1>2, <1>3, <1>4, <1>5, <1>6, <1>7, <1>8, <1>9, <1>10 DEF WsInv

\* Its task is over.
LEMMA WsFinish ==
  ASSUME WsInv, NEW w \in Workers, WS!Finish(w)
  PROVE  WsInv'
<1> USE WsConstants DEF WS!queues, WS!searchVars, WS!coordVars, WS!notifyVars, WS!At, WS!GoTo, WS!Get, WS!Search, WS!SearchEnds
<1>0. WsQueueTypes /\ WsPlaceTypes /\ WsFlagTypes /\ WsLocals /\ WsBufs /\ WsSpins
      /\ WsLinked /\ WsTargets /\ WsListed /\ WsWatched
  BY DEF WsInv
<1>1. WsQueueTypes'
  BY <1>0 DEF WS!Finish, WsQueueTypes
<1>2. WsPlaceTypes'
  BY <1>0 DEF WS!Finish, WsPlaceTypes, WsPcs
<1>3. WsFlagTypes'
  BY <1>0 DEF WS!Finish, WsFlagTypes
<1>4. WsLocals'
  BY <1>0 DEF WS!Finish, WsLocals, WsEmptyPcs, WsQueueTypes, WsPlaceTypes
<1>5. WsBufs'
  BY <1>0 DEF WS!Finish, WsBufs, WsTaken, WsQueueTypes, WsPlaceTypes
<1>6. WsSpins'
  BY <1>0, WsSpinSame DEF WS!Finish, WsPlaceTypes, WsSpinPcs
<1>7. WsLinked'
  BY <1>0 DEF WS!Finish, WsLinked, WsLinkedPcs, WsPlaceTypes
<1>8. WsTargets'
  BY <1>0 DEF WS!Finish, WsTargets, WsPlaceTypes
<1>9. WsListed'
  BY <1>0 DEF WS!Finish, WsListed, WsSleepy, WsPlaceTypes, WsFlagTypes
<1>10. WsWatched'
  BY <1>0 DEF WS!Finish, WsWatched, WsLast, WsQuiet, WsPlaceTypes, WsFlagTypes, WsQueueTypes
<1> QED BY <1>1, <1>2, <1>3, <1>4, <1>5, <1>6, <1>7, <1>8, <1>9, <1>10 DEF WsInv

\* A task is pushed into the global queue.
LEMMA WsPushGlobal ==
  ASSUME WsInv, NEW a \in WS!Notifiers, NEW t \in Jobs, WS!PushGlobal(a, t)
  PROVE  WsInv'
<1> USE WsConstants DEF WS!queues, WS!searchVars, WS!coordVars, WS!notifyVars, WS!At, WS!GoTo, WS!Get, WS!Search, WS!SearchEnds
<1>0. WsQueueTypes /\ WsPlaceTypes /\ WsFlagTypes /\ WsLocals /\ WsBufs /\ WsSpins
      /\ WsLinked /\ WsTargets /\ WsListed /\ WsWatched
  BY DEF WsInv
<1>1. WsQueueTypes'
  BY <1>0 DEF WS!PushGlobal, WsQueueTypes
<1>2. WsPlaceTypes'
  BY <1>0 DEF WS!PushGlobal, WsPlaceTypes, WsPcs
<1>3. WsFlagTypes'
  BY <1>0 DEF WS!PushGlobal, WsFlagTypes
<1>4. WsLocals'
  BY <1>0 DEF WS!PushGlobal, WsLocals, WsEmptyPcs, WsQueueTypes, WsPlaceTypes
<1>5. WsBufs'
  BY <1>0 DEF WS!PushGlobal, WsBufs, WsTaken, WsQueueTypes, WsPlaceTypes
<1>6. WsSpins'
  BY <1>0, WsSpinSame DEF WS!PushGlobal, WsPlaceTypes, WsSpinPcs
<1>7. WsLinked'
  BY <1>0 DEF WS!PushGlobal, WsLinked, WsLinkedPcs, WsPlaceTypes
<1>8. WsTargets'
  BY <1>0 DEF WS!PushGlobal, WsTargets, WsPlaceTypes
<1>9. WsListed'
  BY <1>0 DEF WS!PushGlobal, WsListed, WsSleepy, WsPlaceTypes, WsFlagTypes
<1>10. WsWatched'
  BY <1>0 DEF WS!PushGlobal, WsWatched, WsLast, WsQuiet, WsPlaceTypes, WsFlagTypes, WsQueueTypes
<1> QED BY <1>1, <1>2, <1>3, <1>4, <1>5, <1>6, <1>7, <1>8, <1>9, <1>10 DEF WsInv

\* A task is pushed into the queue of the worker that runs the caller.
LEMMA WsPushLocal ==
  ASSUME WsInv, NEW w \in Workers, NEW t \in Jobs, WS!PushLocal(w, t)
  PROVE  WsInv'
<1> USE WsConstants DEF WS!queues, WS!searchVars, WS!coordVars, WS!notifyVars, WS!At, WS!GoTo, WS!Get, WS!Search, WS!SearchEnds
<1>0. WsQueueTypes /\ WsPlaceTypes /\ WsFlagTypes /\ WsLocals /\ WsBufs /\ WsSpins
      /\ WsLinked /\ WsTargets /\ WsListed /\ WsWatched
  BY DEF WsInv
<1>1. WsQueueTypes'
  <2>1. Append(wsLocal[w], t) \in Seq(Jobs) /\ <<t>> \in Seq(Jobs)
    BY <1>0 DEF WsQueueTypes
  <2> QED BY <1>0, <2>1 DEF WS!PushLocal, WsQueueTypes
<1>2. WsPlaceTypes'
  BY <1>0 DEF WS!PushLocal, WsPlaceTypes, WsPcs
<1>3. WsFlagTypes'
  BY <1>0 DEF WS!PushLocal, WsFlagTypes
<1>4. WsLocals'
  BY <1>0 DEF WS!PushLocal, WsLocals, WsEmptyPcs, WsQueueTypes, WsPlaceTypes
<1>5. WsBufs'
  BY <1>0 DEF WS!PushLocal, WsBufs, WsTaken, WsQueueTypes, WsPlaceTypes
<1>6. WsSpins'
  BY <1>0, WsSpinSame DEF WS!PushLocal, WsPlaceTypes, WsSpinPcs
<1>7. WsLinked'
  BY <1>0 DEF WS!PushLocal, WsLinked, WsLinkedPcs, WsPlaceTypes
<1>8. WsTargets'
  BY <1>0 DEF WS!PushLocal, WsTargets, WsPlaceTypes
<1>9. WsListed'
  BY <1>0 DEF WS!PushLocal, WsListed, WsSleepy, WsPlaceTypes, WsFlagTypes
<1>10. WsWatched'
  BY <1>0 DEF WS!PushLocal, WsWatched, WsLast, WsQuiet, WsPlaceTypes, WsFlagTypes, WsQueueTypes
<1> QED BY <1>1, <1>2, <1>3, <1>4, <1>5, <1>6, <1>7, <1>8, <1>9, <1>10 DEF WsInv

\* That queue was full.
LEMMA WsOverflow ==
  ASSUME WsInv, NEW w \in Workers, WS!GrabOverflow(w)
  PROVE  WsInv'
<1> USE WsConstants DEF WS!queues, WS!searchVars, WS!coordVars, WS!notifyVars, WS!At, WS!GoTo, WS!Get, WS!Search, WS!SearchEnds
<1>0. WsQueueTypes /\ WsPlaceTypes /\ WsFlagTypes /\ WsLocals /\ WsBufs /\ WsSpins
      /\ WsLinked /\ WsTargets /\ WsListed /\ WsWatched
  BY DEF WsInv
<1>f. \E s, r \in Seq(Jobs) :
        /\ Len(r) <= Len(wsLocal[w])
        /\ wsBuf' = [wsBuf EXCEPT ![w] = s] /\ wsLocal' = [wsLocal EXCEPT ![w] = r]
  <2>1. PICK size \in Len(wsLocal[w]) .. LocalCapacity :
          LET k == WS!Min({size \div 2 + 1, Len(wsLocal[w])})
          IN  /\ wsBuf' = [wsBuf EXCEPT ![w] = SubSeq(wsLocal[w], 1, k) \o @]
              /\ wsLocal' = [wsLocal EXCEPT ![w] = SubSeq(@, k + 1, Len(@))]
    BY DEF WS!GrabOverflow
  <2> DEFINE k == WS!Min({size \div 2 + 1, Len(wsLocal[w])})
  <2>2. wsLocal[w] \in Seq(Jobs) /\ wsBuf[w] \in Seq(Jobs) /\ Len(wsLocal[w]) \in Nat
    BY <1>0 DEF WsQueueTypes
  <2>3. size \div 2 + 1 \in Nat
    BY <2>2
  <2>4. k \in 0 .. Len(wsLocal[w])
    <3>1. k = IF size \div 2 + 1 <= Len(wsLocal[w]) THEN size \div 2 + 1 ELSE Len(wsLocal[w])
      BY <2>2, <2>3, WsMin
    <3> HIDE DEF k
    <3> QED BY <2>2, <2>3, <3>1
  <2> HIDE DEF k
  <2> DEFINE s == SubSeq(wsLocal[w], 1, k)
             r == SubSeq(wsLocal[w], k + 1, Len(wsLocal[w]))
  <2>5. s \in Seq(Jobs) /\ r \in Seq(Jobs) /\ Len(r) <= Len(wsLocal[w])
    <3> DEFINE l == wsLocal[w]
    <3>1. l \in Seq(Jobs) /\ k \in 0 .. Len(l)
      BY <2>2, <2>4
    <3> HIDE DEF l
    <3>2. /\ SubSeq(l, 1, k) \in Seq(Jobs) /\ SubSeq(l, k + 1, Len(l)) \in Seq(Jobs)
          /\ Len(SubSeq(l, k + 1, Len(l))) <= Len(l)
      BY <3>1, WsCut
    <3> QED BY <3>2, Zenon DEF l
  <2>6. wsBuf' = [wsBuf EXCEPT ![w] = s \o wsBuf[w]] /\ wsLocal' = [wsLocal EXCEPT ![w] = r]
    BY <1>0, <2>1 DEF k, WsQueueTypes
  <2> HIDE DEF s, r
  <2>7. s \o wsBuf[w] \in Seq(Jobs)
    BY <2>2, <2>5
  <2> QED BY <2>5, <2>6, <2>7
<1>1. WsQueueTypes'
  BY <1>0, <1>f DEF WS!GrabOverflow, WsQueueTypes
<1>2. WsPlaceTypes'
  BY <1>0 DEF WS!GrabOverflow, WsPlaceTypes, WsPcs
<1>3. WsFlagTypes'
  BY <1>0 DEF WS!GrabOverflow, WsFlagTypes
<1>4. WsLocals'
  <2>1. PICK r \in Seq(Jobs) : Len(r) <= Len(wsLocal[w]) /\ wsLocal' = [wsLocal EXCEPT ![w] = r]
    BY <1>f
  <2>2. Len(wsLocal[w]) \in Nat /\ Len(r) \in Nat /\ Len(wsLocal[w]) <= LocalCapacity
    BY <1>0 DEF WsLocals, WsQueueTypes
  <2>3. Len(r) <= LocalCapacity
    BY <2>1, <2>2
  <2>4. wsLocal'[w] = r /\ \A u \in Workers : u # w => wsLocal'[u] = wsLocal[u]
    BY <1>0, <2>1 DEF WsQueueTypes
  <2>5. wsPc'[w] = "offload" /\ wsHand' = wsHand /\ \A u \in Workers : u # w => wsPc'[u] = wsPc[u]
    BY <1>0 DEF WS!GrabOverflow, WsPlaceTypes
  <2> QED BY <1>0, <2>3, <2>4, <2>5 DEF WsLocals, WsEmptyPcs
<1>5. WsBufs'
  BY <1>0 DEF WS!GrabOverflow, WsBufs, WsTaken, WsQueueTypes, WsPlaceTypes
<1>6. WsSpins'
  BY <1>0, WsSpinSame DEF WS!GrabOverflow, WsPlaceTypes, WsSpinPcs
<1>7. WsLinked'
  BY <1>0 DEF WS!GrabOverflow, WsLinked, WsLinkedPcs, WsPlaceTypes
<1>8. WsTargets'
  BY <1>0 DEF WS!GrabOverflow, WsTargets, WsPlaceTypes
<1>9. WsListed'
  BY <1>0 DEF WS!GrabOverflow, WsListed, WsSleepy, WsPlaceTypes, WsFlagTypes
<1>10. WsWatched'
  BY <1>0 DEF WS!GrabOverflow, WsWatched, WsLast, WsQuiet, WsPlaceTypes, WsFlagTypes, WsQueueTypes
<1> QED BY <1>1, <1>2, <1>3, <1>4, <1>5, <1>6, <1>7, <1>8, <1>9, <1>10 DEF WsInv

\* What was taken out of it goes to the global queue.
LEMMA WsOffload ==
  ASSUME WsInv, NEW w \in Workers, WS!OffloadToGlobal(w)
  PROVE  WsInv'
<1> USE WsConstants DEF WS!queues, WS!searchVars, WS!coordVars, WS!notifyVars, WS!At, WS!GoTo, WS!Get, WS!Search, WS!SearchEnds
<1>0. WsQueueTypes /\ WsPlaceTypes /\ WsFlagTypes /\ WsLocals /\ WsBufs /\ WsSpins
      /\ WsLinked /\ WsTargets /\ WsListed /\ WsWatched
  BY DEF WsInv
<1>1. WsQueueTypes'
  BY <1>0 DEF WS!OffloadToGlobal, WsQueueTypes
<1>2. WsPlaceTypes'
  BY <1>0 DEF WS!OffloadToGlobal, WsPlaceTypes, WsPcs
<1>3. WsFlagTypes'
  BY <1>0 DEF WS!OffloadToGlobal, WsFlagTypes
<1>4. WsLocals'
  BY <1>0 DEF WS!OffloadToGlobal, WsLocals, WsEmptyPcs, WsQueueTypes, WsPlaceTypes
<1>5. WsBufs'
  BY <1>0 DEF WS!OffloadToGlobal, WsBufs, WsTaken, WsQueueTypes, WsPlaceTypes
<1>6. WsSpins'
  BY <1>0, WsSpinSame DEF WS!OffloadToGlobal, WsPlaceTypes, WsSpinPcs
<1>7. WsLinked'
  BY <1>0 DEF WS!OffloadToGlobal, WsLinked, WsLinkedPcs, WsPlaceTypes
<1>8. WsTargets'
  BY <1>0 DEF WS!OffloadToGlobal, WsTargets, WsPlaceTypes
<1>9. WsListed'
  BY <1>0 DEF WS!OffloadToGlobal, WsListed, WsSleepy, WsPlaceTypes, WsFlagTypes
<1>10. WsWatched'
  BY <1>0 DEF WS!OffloadToGlobal, WsWatched, WsLast, WsQuiet, WsPlaceTypes, WsFlagTypes, WsQueueTypes
<1> QED BY <1>1, <1>2, <1>3, <1>4, <1>5, <1>6, <1>7, <1>8, <1>9, <1>10 DEF WsInv

\* Who has pushed a task asks whether to wake a worker.
LEMMA WsShould ==
  ASSUME WsInv, NEW a \in WS!Notifiers, WS!ShouldWakeWorker(a)
  PROVE  WsInv'
<1> USE WsConstants DEF WS!queues, WS!searchVars, WS!coordVars, WS!notifyVars, WS!At, WS!GoTo, WS!Get, WS!Search, WS!SearchEnds
<1>0. WsQueueTypes /\ WsPlaceTypes /\ WsFlagTypes /\ WsLocals /\ WsBufs /\ WsSpins
      /\ WsLinked /\ WsTargets /\ WsListed /\ WsWatched
  BY DEF WsInv
<1>1. WsQueueTypes'
  BY <1>0 DEF WS!ShouldWakeWorker, WsQueueTypes
<1>2. WsPlaceTypes'
  BY <1>0 DEF WS!ShouldWakeWorker, WsPlaceTypes, WsPcs
<1>3. WsFlagTypes'
  BY <1>0 DEF WS!ShouldWakeWorker, WsFlagTypes
<1>4. WsLocals'
  BY <1>0 DEF WS!ShouldWakeWorker, WsLocals, WsEmptyPcs, WsQueueTypes, WsPlaceTypes
<1>5. WsBufs'
  BY <1>0 DEF WS!ShouldWakeWorker, WsBufs, WsTaken, WsQueueTypes, WsPlaceTypes
<1>6. WsSpins'
  BY <1>0, WsSpinSame DEF WS!ShouldWakeWorker, WsPlaceTypes, WsSpinPcs
<1>7. WsLinked'
  BY <1>0 DEF WS!ShouldWakeWorker, WsLinked, WsLinkedPcs, WsPlaceTypes
<1>8. WsTargets'
  BY <1>0 DEF WS!ShouldWakeWorker, WsTargets, WsPlaceTypes
<1>9. WsListed'
  BY <1>0 DEF WS!ShouldWakeWorker, WsListed, WsSleepy, WsPlaceTypes, WsFlagTypes
<1>10. WsWatched'
  <2> SUFFICES ASSUME (\A w \in Workers : WsLast(w))', WsQuiet' PROVE FALSE
    BY DEF WsWatched
  <2>1. /\ wsNpc[a] = "check" /\ wsNpc'[a] = "idle" /\ (wsIdle = <<>> \/ wsSpinning # 0)
        /\ \A b \in WS!Notifiers : b # a => wsNpc[b] = "idle"
    BY <1>0 DEF WS!ShouldWakeWorker, WsPlaceTypes, WsQuiet
  <2>2. \A w \in Workers : WsLast(w)
    BY DEF WS!ShouldWakeWorker, WsLast
  <2> QED BY <1>0, <2>1, <2>2, WsNobodyElse
<1> QED BY <1>1, <1>2, <1>3, <1>4, <1>5, <1>6, <1>7, <1>8, <1>9, <1>10 DEF WsInv

\* It takes one out of the list.
LEMMA WsWakeWorker ==
  ASSUME WsInv, NEW a \in WS!Notifiers, WS!WakeWorker(a)
  PROVE  WsInv'
<1> USE WsConstants DEF WS!queues, WS!searchVars, WS!coordVars, WS!notifyVars, WS!At, WS!GoTo, WS!Get, WS!Search, WS!SearchEnds
<1>0. WsQueueTypes /\ WsPlaceTypes /\ WsFlagTypes /\ WsLocals /\ WsBufs /\ WsSpins
      /\ WsLinked /\ WsTargets /\ WsListed /\ WsWatched
  BY DEF WsInv
<1>f. ASSUME wsIdle # <<>>
      PROVE  /\ wsIdle' \in Seq(Workers) /\ Once(wsIdle)' /\ WS!Last(wsIdle) \in Workers
             /\ \A y : In(wsIdle, y)' <=> In(wsIdle, y) /\ y # WS!Last(wsIdle)
  <2>1. /\ WS!Front(wsIdle) \in Seq(Workers) /\ Once(WS!Front(wsIdle)) /\ WS!Last(wsIdle) \in Workers
        /\ \A y : In(WS!Front(wsIdle), y) <=> In(wsIdle, y) /\ y # WS!Last(wsIdle)
    BY <1>0, <1>f, WsFront DEF WsPlaceTypes, WsLinked
  <2>2. wsIdle' = WS!Front(wsIdle)
    BY <1>f DEF WS!WakeWorker
  <2> QED BY <2>1, <2>2
<1>1. WsQueueTypes'
  BY <1>0 DEF WS!WakeWorker, WsQueueTypes
<1>2. WsPlaceTypes'
  <2>1. wsIdle' \in Seq(Workers)
    BY <1>0, <1>f DEF WS!WakeWorker, WsPlaceTypes
  <2>2. wsTarget' \in [WS!Notifiers -> Workers \cup {NoTask}]
    BY <1>0, <1>f DEF WS!WakeWorker, WsPlaceTypes
  <2>3. /\ wsNpc' \in [WS!Notifiers -> {"idle", "check", "pop", "wake"}]
        /\ UNCHANGED <<wsPc, wsVictims, wsSpinning>>
    BY <1>0 DEF WS!WakeWorker, WsPlaceTypes
  <2> QED BY <1>0, <2>1, <2>2, <2>3 DEF WsPlaceTypes
<1>3. WsFlagTypes'
  BY <1>0 DEF WS!WakeWorker, WsFlagTypes
<1>4. WsLocals'
  BY <1>0 DEF WS!WakeWorker, WsLocals, WsEmptyPcs, WsQueueTypes, WsPlaceTypes
<1>5. WsBufs'
  BY <1>0 DEF WS!WakeWorker, WsBufs, WsTaken, WsQueueTypes, WsPlaceTypes
<1>6. WsSpins'
  BY <1>0, WsSpinSame DEF WS!WakeWorker, WsPlaceTypes, WsSpinPcs
<1>7. WsLinked'
  <2>1. CASE wsIdle # <<>>
    BY <1>0, <1>f, <2>1 DEF WS!WakeWorker, WsLinked, WsLinkedPcs, WsPlaceTypes
  <2>2. CASE wsIdle = <<>>
    BY <1>0, <2>2 DEF WS!WakeWorker, WsLinked, WsLinkedPcs, WsPlaceTypes
  <2> QED BY <2>1, <2>2
<1>8. WsTargets'
  <2>1. CASE wsIdle # <<>>
    BY <1>0, <1>f, <2>1 DEF WS!WakeWorker, WsTargets, WsPlaceTypes
  <2>2. CASE wsIdle = <<>>
    BY <1>0, <2>2 DEF WS!WakeWorker, WsTargets, WsPlaceTypes
  <2> QED BY <2>1, <2>2
<1>9. WsListed'
  <2>1. CASE wsIdle # <<>>
    BY <1>0, <1>f, <2>1 DEF WS!WakeWorker, WsListed, WsSleepy, WsPlaceTypes, WsFlagTypes, WsTargets
  <2>2. CASE wsIdle = <<>>
    BY <1>0, <2>2 DEF WS!WakeWorker, WsListed, WsSleepy, WsPlaceTypes, WsFlagTypes, WsTargets
  <2> QED BY <2>1, <2>2
<1>10. WsWatched'
  <2> SUFFICES ASSUME (\A w \in Workers : WsLast(w))', WsQuiet' PROVE FALSE
    BY DEF WsWatched
  <2>1. /\ wsNpc[a] = "pop" /\ wsNpc'[a] = "idle" /\ wsIdle = <<>>
        /\ \A b \in WS!Notifiers : b # a => wsNpc[b] = "idle"
    BY <1>0 DEF WS!WakeWorker, WsPlaceTypes, WsQuiet
  <2>2. \A w \in Workers : WsLast(w)
    BY DEF WS!WakeWorker, WsLast
  <2> QED BY <1>0, <2>1, <2>2, WsNobodyElse
<1> QED BY <1>1, <1>2, <1>3, <1>4, <1>5, <1>6, <1>7, <1>8, <1>9, <1>10 DEF WsInv

\* It wakes that one.
LEMMA WsWake ==
  ASSUME WsInv, NEW a \in WS!Notifiers, WS!Wake(a)
  PROVE  WsInv'
<1> USE WsConstants DEF WS!queues, WS!searchVars, WS!coordVars, WS!notifyVars, WS!At, WS!GoTo, WS!Get, WS!Search, WS!SearchEnds
<1>0. WsQueueTypes /\ WsPlaceTypes /\ WsFlagTypes /\ WsLocals /\ WsBufs /\ WsSpins
      /\ WsLinked /\ WsTargets /\ WsListed /\ WsWatched
  BY DEF WsInv
<1>f. wsTarget[a] \in Workers /\ wsNpc[a] = "wake"
  BY <1>0 DEF WS!Wake, WsTargets, WsPlaceTypes
<1>w. \A u \in Workers : wsWoken'[u] <=> wsWoken[u] \/ (u = wsTarget[a] /\ WS!HasSleepState(u))
  BY <1>0, <1>f DEF WS!Wake, WsFlagTypes
<1>h. \A u \in Workers : wsPc[u] \in WsSleepy => WS!HasSleepState(u)
  BY DEF WS!HasSleepState, WsSleepy
<1>t. \A b \in WS!Notifiers : b # a => wsTarget'[b] = wsTarget[b]
  BY <1>0 DEF WS!Wake, WsPlaceTypes
<1>1. WsQueueTypes'
  BY <1>0 DEF WS!Wake, WsQueueTypes
<1>2. WsPlaceTypes'
  BY <1>0 DEF WS!Wake, WsPlaceTypes, WsPcs
<1>3. WsFlagTypes'
  BY <1>0 DEF WS!Wake, WsFlagTypes
<1>4. WsLocals'
  BY <1>0 DEF WS!Wake, WsLocals, WsEmptyPcs, WsQueueTypes, WsPlaceTypes
<1>5. WsBufs'
  BY <1>0 DEF WS!Wake, WsBufs, WsTaken, WsQueueTypes, WsPlaceTypes
<1>6. WsSpins'
  BY <1>0, WsSpinSame DEF WS!Wake, WsPlaceTypes, WsSpinPcs
<1>7. WsLinked'
  BY <1>0 DEF WS!Wake, WsLinked, WsLinkedPcs, WsPlaceTypes
<1>8. WsTargets'
  BY <1>0 DEF WS!Wake, WsTargets, WsPlaceTypes
<1>9. WsListed'
  <2>1. wsIdle' = wsIdle /\ wsPc' = wsPc
    BY DEF WS!Wake
  <2> SUFFICES ASSUME NEW u \in Workers, wsPc[u] \in WsSleepy, ~wsWoken'[u]
               PROVE  In(wsIdle, u) \/ \E b \in WS!Notifiers : wsTarget'[b] = u
    BY <2>1 DEF WsListed
  <2>2. ~wsWoken[u] /\ u # wsTarget[a]
    BY <1>w, <1>h
  <2>3. In(wsIdle, u) \/ \E b \in WS!Notifiers : wsTarget[b] = u
    BY <1>0, <2>2 DEF WsListed
  <2> QED BY <1>t, <2>2, <2>3
<1>10. WsWatched'
  <2> SUFFICES ASSUME (\A w \in Workers : WsLast(w))' PROVE FALSE
    BY DEF WsWatched
  <2>1. wsPc[wsTarget[a]] \in WsSleepy /\ ~wsWoken'[wsTarget[a]]
    BY <1>f DEF WS!Wake, WsLast, WsSleepy
  <2> QED BY <1>f, <1>w, <1>h, <2>1
<1> QED BY <1>1, <1>2, <1>3, <1>4, <1>5, <1>6, <1>7, <1>8, <1>9, <1>10 DEF WsInv

\* The stop wakes all of them.
LEMMA WsStop ==
  ASSUME WsInv, WS!RequestStop
  PROVE  WsInv'
<1> USE WsConstants DEF WS!queues, WS!searchVars, WS!coordVars, WS!notifyVars, WS!At, WS!GoTo, WS!Get, WS!Search, WS!SearchEnds
<1>0. WsQueueTypes /\ WsPlaceTypes /\ WsFlagTypes /\ WsLocals /\ WsBufs /\ WsSpins
      /\ WsLinked /\ WsTargets /\ WsListed /\ WsWatched
  BY DEF WsInv
<1>1. WsQueueTypes'
  BY <1>0 DEF WS!RequestStop, WsQueueTypes
<1>2. WsPlaceTypes'
  BY <1>0 DEF WS!RequestStop, WsPlaceTypes, WsPcs
<1>3. WsFlagTypes'
  BY <1>0 DEF WS!RequestStop, WsFlagTypes
<1>4. WsLocals'
  BY <1>0 DEF WS!RequestStop, WsLocals, WsEmptyPcs, WsQueueTypes, WsPlaceTypes
<1>5. WsBufs'
  BY <1>0 DEF WS!RequestStop, WsBufs, WsTaken, WsQueueTypes, WsPlaceTypes
<1>6. WsSpins'
  BY <1>0, WsSpinSame DEF WS!RequestStop, WsPlaceTypes, WsSpinPcs
<1>7. WsLinked'
  BY <1>0 DEF WS!RequestStop, WsLinked, WsLinkedPcs, WsPlaceTypes
<1>8. WsTargets'
  BY <1>0 DEF WS!RequestStop, WsTargets, WsPlaceTypes
<1>9. WsListed'
  BY <1>0 DEF WS!RequestStop, WsListed, WsSleepy, WsPlaceTypes, WsFlagTypes
<1>10. WsWatched'
  BY <1>0 DEF WS!RequestStop, WsWatched, WsLast, WsQuiet, WsPlaceTypes, WsFlagTypes, WsQueueTypes
<1> QED BY <1>1, <1>2, <1>3, <1>4, <1>5, <1>6, <1>7, <1>8, <1>9, <1>10 DEF WsInv
\* Every step keeps the invariant.
LEMMA WsStep == WsInv /\ WS!Next => WsInv'
<1> SUFFICES ASSUME WsInv, WS!Next PROVE WsInv'
  OBVIOUS
<1>1. CASE \E w \in Workers : WS!WorkerStep(w)
  BY <1>1, WsLoop, WsPopGlobal, WsPopLocal, WsGrab, WsSpin, WsSteal, WsPushMany, WsStopSpin, WsSave, WsStepDown,
    WsCheckStop, WsSleeps, WsActive, WsFinish, WsOverflow, WsOffload, Zenon DEF WS!WorkerStep
<1>2. CASE \E w \in Workers, t \in Jobs : WS!PushLocal(w, t)
  BY <1>2, WsPushLocal, Zenon
<1>3. CASE \E a \in WS!Notifiers : WS!Notify(a)
  BY <1>3, WsShould, WsWakeWorker, WsWake, Zenon DEF WS!Notify
<1>4. CASE \E a \in WS!Notifiers, t \in Jobs : WS!PushGlobal(a, t)
  BY <1>4, WsPushGlobal, Zenon
<1>5. CASE WS!RequestStop
  BY <1>5, WsStop
<1> QED BY <1>1, <1>2, <1>3, <1>4, <1>5, Zenon DEF WS!Next

\* The invariant holds at the beginning.
LEMMA WsStarts == WS!Init => WsInv
<1> SUFFICES ASSUME WS!Init PROVE WsInv
  OBVIOUS
<1> USE WsConstants
<1>1. WsQueueTypes
  BY DEF WS!Init, WsQueueTypes
<1>2. WsPlaceTypes
  BY DEF WS!Init, WsPlaceTypes, WsPcs
<1>3. WsFlagTypes
  BY DEF WS!Init, WsFlagTypes
<1>4. WsLocals /\ WsBufs
  BY DEF WS!Init, WsLocals, WsBufs, WsEmptyPcs, WsTaken
<1>5. WsSpins
  <2>1. WsSpinners = {}
    BY DEF WS!Init, WsSpinners, WsSpinPcs
  <2> QED BY <2>1, FS_EmptySet DEF WS!Init, WsSpins
<1>6. WsLinked
  BY InEmpty DEF WS!Init, WsLinked
<1>7. WsTargets
  BY DEF WS!Init, WsTargets
<1>8. WsListed /\ WsWatched
  BY DEF WS!Init, WsListed, WsSleepy, WsWatched
<1> QED BY <1>1, <1>2, <1>3, <1>4, <1>5, <1>6, <1>7, <1>8 DEF WsInv

\* What the invariant says of tasks and sleepers.
LEMMA WsSafe == WsInv => WorkStealingSafe
<1> SUFFICES ASSUME WsInv PROVE WorkStealingSafe
  OBVIOUS
<1> USE WsConstants
<1>0. WsQueueTypes /\ WsPlaceTypes /\ WsFlagTypes /\ WsLocals /\ WsBufs /\ WsSpins /\ WsLinked /\ WsTargets
      /\ WsListed /\ WsWatched
  BY DEF WsInv
<1>1. WS!TypeOK
  <2>1. WS!Queued \cup wsFresh \subseteq Jobs
    <3>1. WS!Range(wsGlobal) \subseteq Jobs
      BY <1>0 DEF WsQueueTypes, WS!Range
    <3>2. ASSUME NEW w \in Workers PROVE WS!Range(wsLocal[w]) \subseteq Jobs /\ WS!Range(wsBuf[w]) \subseteq Jobs
      <4>1. wsLocal[w] \in Seq(Jobs) /\ wsBuf[w] \in Seq(Jobs)
        BY <1>0 DEF WsQueueTypes
      <4> QED BY <4>1 DEF WS!Range
    <3> QED BY <1>0, <3>1, <3>2 DEF WS!Queued, WsQueueTypes
  <2>2. \A w \in Workers : Len(wsLocal[w]) <= LocalCapacity /\ wsHand[w] \in Jobs \cup {NoTask}
    BY <1>0 DEF WsQueueTypes, WsLocals
  <2>3. /\ wsSpinning = WS!Cardinality({w \in Workers : wsPc[w] \in {"steal", "stolen", "stopspin"}})
        /\ wsSpinning * 2 <= WS!Threads
    BY <1>0 DEF WsSpins, WsSpinners, WsSpinPcs, WS!Cardinality, Cardinality
  <2>4. WS!IsInjective(wsIdle) /\ WS!Range(wsIdle) \subseteq Workers
    BY <1>0 DEF WsPlaceTypes, WsLinked, Once, WS!IsInjective, WS!Range
  <2>5. \A w \in WS!Range(wsIdle) : wsPc[w] \notin {"loop", "global", "local", "grab", "run", "done"}
    <3>1. \A w \in WS!Range(wsIdle) : w \in Workers /\ In(wsIdle, w)
      BY <1>0, <2>4, WsLinkedIn DEF WsPlaceTypes, WS!Linked
    <3> QED BY <1>0, <3>1 DEF WsLinked, WsLinkedPcs
  <2>6. \A a \in WS!Notifiers : wsNpc[a] = "wake" <=> wsTarget[a] # NoTask
    BY <1>0 DEF WsTargets
  <2> QED BY <2>1, <2>2, <2>3, <2>4, <2>5, <2>6 DEF WS!TypeOK
<1>2. WS!NoTaskStranded
  <2> SUFFICES ASSUME \A w \in Workers : WS!Asleep(w), \A a \in WS!Notifiers : wsNpc[a] = "idle"
               PROVE  WS!Queued = {}
    BY DEF WS!NoTaskStranded
  <2>1. wsGlobal = <<>>
    BY <1>0 DEF WS!Asleep, WsWatched, WsLast, WsQuiet
  <2>2. \A w \in Workers : wsLocal[w] = <<>> /\ wsBuf[w] = <<>>
    BY <1>0 DEF WS!Asleep, WsLocals, WsEmptyPcs, WsBufs, WsTaken
  <2>3. WS!Range(<<>>) = {}
    BY DEF WS!Range
  <2> QED BY <2>1, <2>2, <2>3 DEF WS!Queued
<1>3. WS!SleeperIsListed
  BY <1>0, WsLinkedIn DEF WS!SleeperIsListed, WS!Asleep, WsListed, WsSleepy, WsPlaceTypes
<1> QED BY <1>1, <1>2, <1>3 DEF WorkStealingSafe

\* No task is left in a queue of the task processor while every worker sleeps and nobody is
\* about to wake one, and who sleeps can be found by WakeWorker(), for any number of workers,
\* pushing threads and tasks: every order of pushing, spinning, stealing and stepping down.
THEOREM WorkStealingIsSafe == AllSpec => []WorkStealingSafe
<1>1. AllInit => WsInv
  BY WsStarts DEF AllInit
<1>2. WsInv /\ [AllNext]_allVars => WsInv'
  <2> SUFFICES ASSUME WsInv, [AllNext]_allVars PROVE WsInv'
    OBVIOUS
  <2>1. WS!Next \/ UNCHANGED wsVars
    BY DEF AllNext, allVars, OthersRest, Mutexes, Semaphores, Events
  <2>2. CASE WS!Next
    BY <2>2, WsStep
  <2>3. CASE UNCHANGED wsVars
    BY <2>3 DEF wsVars, WsInv, WsQueueTypes, WsPlaceTypes, WsFlagTypes, WsLocals, WsBufs, WsSpins, WsSpinners,
      WsLinked, WsTargets, WsListed, WsWatched, WsLast, WsQuiet
  <2> QED BY <2>1, <2>2, <2>3
<1>3. WsInv => WorkStealingSafe
  BY WsSafe
<1> QED BY <1>1, <1>2, <1>3, PTL DEF AllSpec

=============================================================================
