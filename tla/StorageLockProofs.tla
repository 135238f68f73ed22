------------------------- MODULE StorageLockProofs -------------------------
(***************************************************************************)
(* StorageLock keeps its mutual exclusion for every finite set of threads. *)
(***************************************************************************)
EXTENDS StorageLock, FiniteSetTheorems, TLAPS

(* The counted readers are a finite set: Cardinality is a number.          *)
LEMMA CountedFinite ==
  ASSUME TypeOK
  PROVE  IsFiniteSet(Counted)
<1>1. Counted \in SUBSET Threads
  BY Zenon DEF TypeOK, Counted
<1> QED
  BY <1>1, ThreadsAssumption, FS_Subset, Zenon

(* Initially no thread owns a key or is inside a call.                     *)
LEMMA LockInit == Init => LockInv
<1> SUFFICES ASSUME Init PROVE LockInv
  BY Zenon
<1>1. Counted = {}
  BY Zenon DEF Init, Counted
<1>2. ReadCountExact
  BY <1>1, FS_EmptySet, Zenon DEF Init, ReadCountExact
<1> QED
  BY <1>2, ThreadsAssumption, Zenon
     DEF Init, LockInv, TypeOK, MutexHolder, CallerKeys, ExclusiveAlone, Locked, Steps

(* A step that leaves the counted readers and read_count alone keeps the   *)
(* counter exact.                                                          *)
LEMMA CounterFrame ==
  ASSUME ReadCountExact, UNCHANGED read_count, Counted' = Counted
  PROVE  ReadCountExact'
BY Zenon DEF ReadCountExact

(* Every step of every call preserves the inductive invariant.             *)
LEMMA LockStep == LockInv /\ [Next]_vars => LockInv'
<1> SUFFICES ASSUME LockInv, [Next]_vars PROVE LockInv'
  BY Zenon
<1> USE DEF LockInv
<1>fin. IsFiniteSet(Counted)
  BY CountedFinite, Zenon
<1>card. Cardinality(Counted) \in Nat
  BY <1>fin, FS_CardinalityType, Zenon
<1> DEFINE Rest == MutexHolder' /\ CallerKeys' /\ ExclusiveAlone'
<1>1. ASSUME NEW t \in Threads, GetSharedLock(t) PROVE LockInv'
  <2>1. TypeOK' /\ Rest
    BY <1>1, ThreadsAssumption, Zenon DEF GetSharedLock, Goto, TypeOK, MutexHolder, CallerKeys, ExclusiveAlone, Locked, Steps
  <2>2. Counted' = Counted
    BY <1>1, Zenon DEF GetSharedLock, Goto, TypeOK, Counted
  <2> QED  BY <2>1, <2>2, <1>1, CounterFrame, Zenon DEF GetSharedLock
<1>2. ASSUME NEW t \in Threads, LockForShared(t) PROVE LockInv'
  <2>1. TypeOK' /\ Rest
    BY <1>2, ThreadsAssumption, Zenon DEF LockForShared, Goto, TypeOK, MutexHolder, CallerKeys, ExclusiveAlone, Locked, Steps
  <2>2. Counted' = Counted
    BY <1>2, Zenon DEF LockForShared, Goto, TypeOK, Counted
  <2> QED  BY <2>1, <2>2, <1>2, CounterFrame, Zenon DEF LockForShared
<1>3. ASSUME NEW t \in Threads, CountShared(t) PROVE LockInv'
  <2>1. TypeOK' /\ Rest
    BY <1>3, ThreadsAssumption DEF CountShared, Goto, TypeOK, MutexHolder, CallerKeys, ExclusiveAlone, Locked, Steps
  <2>2. Counted' = Counted \cup {t} /\ t \notin Counted
    BY <1>3, Zenon DEF CountShared, Goto, TypeOK, Counted, CallerKeys, Locked
  <2>3. Cardinality(Counted') = Cardinality(Counted) + 1
    BY <2>2, <1>fin, FS_AddElement, Zenon
  <2>4. ReadCountExact'
    BY <2>3, <1>3, Zenon DEF CountShared, ReadCountExact
  <2> QED  BY <2>1, <2>4, Zenon
<1>4. ASSUME NEW t \in Threads, UnlockShared(t) PROVE LockInv'
  <2>1. TypeOK' /\ Rest
    BY <1>4, ThreadsAssumption DEF UnlockShared, Goto, TypeOK, MutexHolder, CallerKeys, ExclusiveAlone, Locked, Steps
  <2>2. Counted' = Counted
    BY <1>4, Zenon DEF UnlockShared, Goto, TypeOK, Counted
  <2> QED  BY <2>1, <2>2, <1>4, CounterFrame, Zenon DEF UnlockShared
<1>5. ASSUME NEW t \in Threads, GetExclusiveLock(t) PROVE LockInv'
  <2>1. TypeOK' /\ Rest
    BY <1>5, ThreadsAssumption, Zenon DEF GetExclusiveLock, Goto, TypeOK, MutexHolder, CallerKeys, ExclusiveAlone, Locked, Steps
  <2>2. Counted' = Counted
    BY <1>5, Zenon DEF GetExclusiveLock, Goto, TypeOK, Counted
  <2> QED  BY <2>1, <2>2, <1>5, CounterFrame, Zenon DEF GetExclusiveLock
<1>6. ASSUME NEW t \in Threads, LockForExclusive(t) PROVE LockInv'
  <2>1. TypeOK' /\ Rest
    BY <1>6, ThreadsAssumption, Zenon DEF LockForExclusive, Goto, TypeOK, MutexHolder, CallerKeys, ExclusiveAlone, Locked, Steps
  <2>2. Counted' = Counted
    BY <1>6, Zenon DEF LockForExclusive, Goto, TypeOK, Counted
  <2> QED  BY <2>1, <2>2, <1>6, CounterFrame, Zenon DEF LockForExclusive
<1>7. ASSUME NEW t \in Threads, SpinExclusive(t) PROVE LockInv'
  <2>1. Counted = {}
    BY <1>7, <1>fin, FS_EmptySet, Zenon DEF SpinExclusive, ReadCountExact
  <2>2. TypeOK' /\ Rest
    BY <1>7, <2>1, ThreadsAssumption DEF SpinExclusive, Goto, TypeOK, MutexHolder, CallerKeys, ExclusiveAlone, Locked, Steps, Counted
  <2>3. Counted' = Counted
    BY <1>7, Zenon DEF SpinExclusive, Goto, TypeOK, Counted
  <2> QED  BY <2>2, <2>3, <1>7, CounterFrame, Zenon DEF SpinExclusive
<1>8. ASSUME NEW t \in Threads, TryGetExclusiveLock(t) PROVE LockInv'
  <2>1. TypeOK' /\ Rest
    BY <1>8, ThreadsAssumption DEF TryGetExclusiveLock, Goto, TypeOK, MutexHolder, CallerKeys, ExclusiveAlone, Locked, Steps
  <2>2. Counted' = Counted
    BY <1>8, Zenon DEF TryGetExclusiveLock, Goto, TypeOK, Counted
  <2> QED  BY <2>1, <2>2, <1>8, CounterFrame, Zenon DEF TryGetExclusiveLock
<1>9. ASSUME NEW t \in Threads, TryCheck(t) PROVE LockInv'
  <2>1. read_count = 0 => Counted = {}
    BY <1>fin, FS_EmptySet, Zenon DEF ReadCountExact
  <2>2. TypeOK' /\ Rest
    BY <1>9, <2>1, ThreadsAssumption DEF TryCheck, CheckReaders, Goto, TypeOK, MutexHolder, CallerKeys, ExclusiveAlone, Locked, Steps, Counted
  <2>3. Counted' = Counted
    BY <1>9, Zenon DEF TryCheck, CheckReaders, Goto, TypeOK, Counted
  <2> QED  BY <2>2, <2>3, <1>9, CounterFrame, Zenon DEF TryCheck, CheckReaders
<1>10. ASSUME NEW t \in Threads, TryUpgradeCheckpointLock(t) PROVE LockInv'
  <2>1. TypeOK' /\ Rest
    BY <1>10, ThreadsAssumption, Zenon DEF TryUpgradeCheckpointLock, Goto, TypeOK, MutexHolder, CallerKeys, ExclusiveAlone, Locked, Steps
  <2>2. Counted' = Counted
    BY <1>10, Zenon DEF TryUpgradeCheckpointLock, Goto, TypeOK, Counted
  <2> QED  BY <2>1, <2>2, <1>10, CounterFrame, Zenon DEF TryUpgradeCheckpointLock
<1>11. ASSUME NEW t \in Threads, UpgradeCheck(t) PROVE LockInv'
  <2>1. t \in Counted
    BY <1>11, Zenon DEF UpgradeCheck, CheckReaders, Goto, CallerKeys, Counted
  <2>2. read_count = 1 => Counted = {t}
    <3>1. Cardinality(Counted) = 1 <=> \E x : Counted = {x}
      BY <1>fin, FS_Singleton, Zenon
    <3> QED  BY <3>1, <2>1, Zenon DEF ReadCountExact
  <2>3. TypeOK' /\ Rest
    BY <1>11, <2>2, ThreadsAssumption DEF UpgradeCheck, CheckReaders, Goto, TypeOK, MutexHolder, CallerKeys, ExclusiveAlone, Locked, Steps, Counted
  <2>4. Counted' = Counted
    BY <1>11, Zenon DEF UpgradeCheck, CheckReaders, Goto, TypeOK, Counted
  <2> QED  BY <2>3, <2>4, <1>11, CounterFrame, Zenon DEF UpgradeCheck, CheckReaders
<1>12. ASSUME NEW t \in Threads, UnlockFailed(t) PROVE LockInv'
  <2>1. TypeOK' /\ Rest
    BY <1>12, ThreadsAssumption, Zenon DEF UnlockFailed, Goto, TypeOK, MutexHolder, CallerKeys, ExclusiveAlone, Locked, Steps
  <2>2. Counted' = Counted
    BY <1>12, Zenon DEF UnlockFailed, Goto, TypeOK, Counted
  <2> QED  BY <2>1, <2>2, <1>12, CounterFrame, Zenon DEF UnlockFailed
<1>13. ASSUME NEW t \in Threads, ReleaseExclusiveLock(t) PROVE LockInv'
  <2>1. TypeOK' /\ Rest
    BY <1>13, ThreadsAssumption, Zenon DEF ReleaseExclusiveLock, TypeOK, MutexHolder, CallerKeys, ExclusiveAlone, Locked, Steps
  <2>2. Counted' = Counted
    BY <1>13, Zenon DEF ReleaseExclusiveLock, TypeOK, Counted
  <2> QED  BY <2>1, <2>2, <1>13, CounterFrame, Zenon DEF ReleaseExclusiveLock
<1>14. ASSUME NEW t \in Threads, ReleaseSharedLock(t) PROVE LockInv'
  <2>1. Counted' = Counted \ {t} /\ t \in Counted
    BY <1>14, Zenon DEF ReleaseSharedLock, TypeOK, Counted
  <2>2. Cardinality(Counted') = Cardinality(Counted) - 1
    BY <2>1, <1>fin, FS_RemoveElement, Zenon
  <2>3. Cardinality(Counted') \in Nat
    BY <2>1, <1>fin, FS_RemoveElement, FS_CardinalityType, Zenon
  <2>4. ReadCountExact' /\ read_count' \in Nat
    BY <2>2, <2>3, <1>card, <1>14, Zenon DEF ReleaseSharedLock, ReadCountExact
  <2>5. TypeOK' /\ Rest
    BY <1>14, <2>4, Zenon DEF ReleaseSharedLock, TypeOK, MutexHolder, CallerKeys, ExclusiveAlone, Locked, Steps
  <2> QED  BY <2>4, <2>5, Zenon
<1>15. CASE UNCHANGED vars
  BY <1>15, Zenon DEF vars, TypeOK, ReadCountExact, MutexHolder, CallerKeys, ExclusiveAlone, Counted
<1> QED
  BY <1>1, <1>2, <1>3, <1>4, <1>5, <1>6, <1>7, <1>8, <1>9, <1>10, <1>11, <1>12, <1>13, <1>14, <1>15, Zenon DEF Next

(* The inductive invariant implies what storage_lock.hpp promises.         *)
LEMMA LockInvExcludes == LockInv => MutualExclusion
BY ThreadsAssumption DEF LockInv, TypeOK, MutexHolder, ExclusiveAlone, MutualExclusion

(* A key changes hands only as the abstract lock allows: whoever gets one  *)
(* holds the mutex, so nobody owns the EXCLUSIVE key, and a new EXCLUSIVE  *)
(* key comes with a count that leaves no other reader.                     *)
LEMMA LockRefinesStep == LockInv /\ [Next]_vars => [RW!Next]_(RW!vars)
<1> SUFFICES ASSUME LockInv, [Next]_vars PROVE [RW!Next]_(RW!vars)
  BY Zenon
<1> USE DEF LockInv, RW!vars
<1>fin. IsFiniteSet(Counted)
  BY CountedFinite, Zenon
<1>alone. ASSUME NEW t \in Threads, pc[t] \in Locked PROVE exclusive = {}
  BY <1>alone, ThreadsAssumption, Zenon DEF MutexHolder, CallerKeys, TypeOK
<1>1. ASSUME NEW t \in Threads, UnlockShared(t) PROVE RW!Share(t)
  BY <1>1, <1>alone, Zenon DEF UnlockShared, Goto, CallerKeys, Locked, RW!Share
<1>2. ASSUME NEW t \in Threads, SpinExclusive(t) PROVE RW!Exclude(t)
  <2>1. Counted = {}
    BY <1>2, <1>fin, FS_EmptySet, Zenon DEF SpinExclusive, ReadCountExact
  <2> QED
    BY <1>2, <2>1, <1>alone, Zenon DEF SpinExclusive, Goto, Counted, Locked, RW!Exclude
<1>3. ASSUME NEW t \in Threads, TryCheck(t) PROVE RW!Exclude(t) \/ UNCHANGED RW!vars
  <2>1. read_count = 0 => Counted = {}
    BY <1>fin, FS_EmptySet, Zenon DEF ReadCountExact
  <2> QED
    BY <1>3, <2>1, <1>alone, Zenon DEF TryCheck, CheckReaders, Goto, Counted, Locked, RW!Exclude
<1>4. ASSUME NEW t \in Threads, UpgradeCheck(t) PROVE RW!Exclude(t) \/ UNCHANGED RW!vars
  <2>1. t \in Counted
    BY <1>4, Zenon DEF UpgradeCheck, CheckReaders, Goto, CallerKeys, Counted
  <2>2. Cardinality(Counted) = 1 <=> \E x : Counted = {x}
    BY <1>fin, FS_Singleton, Zenon
  <2>3. read_count = 1 => Counted = {t}
    BY <2>1, <2>2, Zenon DEF ReadCountExact
  <2> QED
    BY <1>4, <2>3, <1>alone, Zenon DEF UpgradeCheck, CheckReaders, Goto, Counted, Locked, RW!Exclude
<1>5. ASSUME NEW t \in Threads, ReleaseExclusiveLock(t) PROVE RW!Unexclude(t)
  <2>1. exclusive = {t}
    BY <1>5, ThreadsAssumption, Zenon DEF ReleaseExclusiveLock, MutexHolder, TypeOK
  <2> QED
    BY <1>5, <2>1, Zenon DEF ReleaseExclusiveLock, RW!Unexclude
<1>6. ASSUME NEW t \in Threads, ReleaseSharedLock(t) PROVE RW!Unshare(t)
  BY <1>6, Zenon DEF ReleaseSharedLock, RW!Unshare
<1>7. ASSUME NEW t \in Threads,
             \/ GetSharedLock(t) \/ LockForShared(t) \/ CountShared(t)
             \/ GetExclusiveLock(t) \/ LockForExclusive(t)
             \/ TryGetExclusiveLock(t) \/ TryUpgradeCheckpointLock(t) \/ UnlockFailed(t)
      PROVE  UNCHANGED RW!vars
  BY <1>7, Zenon DEF GetSharedLock, LockForShared, CountShared, GetExclusiveLock,
     LockForExclusive, TryGetExclusiveLock, TryUpgradeCheckpointLock, UnlockFailed
<1>8. CASE UNCHANGED vars
  BY <1>8, Zenon DEF vars
<1> QED
  BY <1>1, <1>2, <1>3, <1>4, <1>5, <1>6, <1>7, <1>8, Zenon DEF Next, RW!Next

(* For every finite set of threads StorageLock implements the abstract     *)
(* reader-writer lock: the keys of storage_lock.cpp behave as if each were *)
(* taken and given back in one step.                                       *)
THEOREM LockRefines == Spec => RWSpec
<1>1. Init => RW!Init
  BY Zenon DEF Init, RW!Init
<1> QED
  BY <1>1, LockInit, LockStep, LockRefinesStep, PTL DEF Spec, RWSpec, RW!Spec

(* For every finite set of threads the mutex excludes, the counter counts  *)
(* exactly the readers that have incremented it, a caller owns the keys    *)
(* that the point of its call implies, and an EXCLUSIVE key is alone: the  *)
(* state of storage_lock.cpp between any two of its steps.                 *)
THEOREM LockInvariant == Spec => []LockInv
BY LockInit, LockStep, PTL DEF Spec

(* For every finite set of threads the variables keep their types; in      *)
(* particular read_count never goes below zero.                            *)
THEOREM LockTypeCorrect == Spec => []TypeOK
<1>1. LockInv => TypeOK
  BY Zenon DEF LockInv
<1> QED
  BY <1>1, LockInit, LockStep, PTL DEF Spec

(* For every finite set of threads an EXCLUSIVE key excludes every other   *)
(* key, the upgraded one's own SHARED key excepted (storage_lock.cpp).     *)
THEOREM LockMutualExclusion == Spec => []MutualExclusion
BY LockInit, LockStep, LockInvExcludes, PTL DEF Spec
=============================================================================
