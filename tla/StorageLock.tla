---------------------------- MODULE StorageLock ----------------------------
(***************************************************************************)
(* The reader-writer lock of storage_lock.cpp: a mutex (exclusive_lock)    *)
(* and an atomic reader count (read_count), shared by the threads of the   *)
(* process.  A thread owns StorageLockKey objects: at most one SHARED key  *)
(* and at most one EXCLUSIVE key; a call is in progress while pc # "idle". *)
(* Every access to exclusive_lock or read_count is a step of its own.      *)
(***************************************************************************)
EXTENDS Naturals, FiniteSets

CONSTANTS Threads,     \* the threads that use the lock
          NoThread     \* "the mutex is free"

ASSUME ThreadsAssumption == IsFiniteSet(Threads) /\ NoThread \notin Threads

VARIABLES exclusive_lock,  \* the thread that holds the mutex, or NoThread
          read_count,      \* atomic<idx_t> read_count
          shared,          \* the threads that own a SHARED StorageLockKey
          exclusive,       \* the threads that own an EXCLUSIVE StorageLockKey
          pc               \* where each thread is inside a call

vars == <<exclusive_lock, read_count, shared, exclusive, pc>>

Steps == {"idle", "want_shared", "count_shared", "unlock_shared",
          "want_exclusive", "spin_exclusive", "try_check", "upgrade_check",
          "unlock_failed"}

Goto(t, from, to) == /\ pc[t] = from
                     /\ pc' = [pc EXCEPT ![t] = to]

-----------------------------------------------------------------------------

Init == /\ exclusive_lock = NoThread
        /\ read_count = 0
        /\ shared = {}
        /\ exclusive = {}
        /\ pc = [t \in Threads |-> "idle"]

(* GetSharedLock: lock the mutex, count the reader, unlock.  A caller asks *)
(* for a shared key only when it owns no key of this lock.                 *)
GetSharedLock(t) ==
    /\ t \notin shared \cup exclusive
    /\ Goto(t, "idle", "want_shared")
    /\ UNCHANGED <<exclusive_lock, read_count, shared, exclusive>>

(* Defect: GetSharedLock counts itself without the mutex.                  *)
LockForSharedNever(t) ==
    /\ Goto(t, "want_shared", "count_shared")
    /\ UNCHANGED <<exclusive_lock, read_count, shared, exclusive>>

LockForShared(t) ==
    /\ Goto(t, "want_shared", "count_shared")
    /\ exclusive_lock = NoThread
    /\ exclusive_lock' = t
    /\ UNCHANGED <<read_count, shared, exclusive>>

CountShared(t) ==
    /\ Goto(t, "count_shared", "unlock_shared")
    /\ read_count' = read_count + 1
    /\ UNCHANGED <<exclusive_lock, shared, exclusive>>

UnlockShared(t) ==
    /\ Goto(t, "unlock_shared", "idle")
    /\ exclusive_lock' = NoThread
    /\ shared' = shared \cup {t}
    /\ UNCHANGED <<read_count, exclusive>>

(* GetExclusiveLock: lock the mutex and spin until the readers are gone.   *)
GetExclusiveLock(t) ==
    /\ t \notin shared \cup exclusive
    /\ Goto(t, "idle", "want_exclusive")
    /\ UNCHANGED <<exclusive_lock, read_count, shared, exclusive>>

LockForExclusive(t) ==
    /\ Goto(t, "want_exclusive", "spin_exclusive")
    /\ exclusive_lock = NoThread
    /\ exclusive_lock' = t
    /\ UNCHANGED <<read_count, shared, exclusive>>

SpinExclusive(t) ==
    /\ Goto(t, "spin_exclusive", "idle")
    /\ read_count = 0
    /\ exclusive' = exclusive \cup {t}
    /\ UNCHANGED <<exclusive_lock, read_count, shared>>

(* TryGetExclusiveLock: a failed try_lock returns nullptr and changes      *)
(* nothing, so only the successful one is a step.                          *)
TryGetExclusiveLock(t) ==
    /\ t \notin shared \cup exclusive
    /\ exclusive_lock = NoThread
    /\ Goto(t, "idle", "try_check")
    /\ exclusive_lock' = t
    /\ UNCHANGED <<read_count, shared, exclusive>>

(* TryUpgradeCheckpointLock: the caller presents its own SHARED key.       *)
TryUpgradeCheckpointLock(t) ==
    /\ t \in shared \ exclusive
    /\ exclusive_lock = NoThread
    /\ Goto(t, "idle", "upgrade_check")
    /\ exclusive_lock' = t
    /\ UNCHANGED <<read_count, shared, exclusive>>

CheckReaders(t, at, allowed) ==
    \/ /\ read_count = allowed
       /\ Goto(t, at, "idle")
       /\ exclusive' = exclusive \cup {t}
       /\ UNCHANGED <<exclusive_lock, read_count, shared>>
    \/ /\ read_count # allowed
       /\ Goto(t, at, "unlock_failed")
       /\ UNCHANGED <<exclusive_lock, read_count, shared, exclusive>>

(* Defect: TryGetExclusiveLock does not look at read_count.                *)
TryAnyReader(t) == CheckReaders(t, "try_check", read_count)

TryCheck(t) == CheckReaders(t, "try_check", 0)

(* Defect: the upgrade succeeds next to any number of readers.             *)
UpgradeAnyReader(t) == CheckReaders(t, "upgrade_check", read_count)

UpgradeCheck(t) == CheckReaders(t, "upgrade_check", 1)

UnlockFailed(t) ==
    /\ Goto(t, "unlock_failed", "idle")
    /\ exclusive_lock' = NoThread
    /\ UNCHANGED <<read_count, shared, exclusive>>

(* ~StorageLockKey: ReleaseExclusiveLock or ReleaseSharedLock.             *)
ReleaseExclusiveLock(t) ==
    /\ pc[t] = "idle"
    /\ t \in exclusive
    /\ exclusive' = exclusive \ {t}
    /\ exclusive_lock' = NoThread
    /\ UNCHANGED <<read_count, shared, pc>>

(* Defect: the key is not forgotten, and released again.                   *)
ReleaseSharedLockTwice(t) ==
    /\ pc[t] = "idle"
    /\ t \in shared
    /\ read_count' = read_count - 1
    /\ UNCHANGED <<exclusive_lock, shared, exclusive, pc>>

ReleaseSharedLock(t) ==
    /\ pc[t] = "idle"
    /\ t \in shared
    /\ shared' = shared \ {t}
    /\ read_count' = read_count - 1
    /\ UNCHANGED <<exclusive_lock, exclusive, pc>>

Next == \E t \in Threads :
          \/ GetSharedLock(t)      \/ LockForShared(t)  \/ CountShared(t)
          \/ UnlockShared(t)       \/ GetExclusiveLock(t)
          \/ LockForExclusive(t)   \/ SpinExclusive(t)
          \/ TryGetExclusiveLock(t) \/ TryCheck(t)
          \/ TryUpgradeCheckpointLock(t) \/ UpgradeCheck(t)
          \/ UnlockFailed(t)
          \/ ReleaseExclusiveLock(t) \/ ReleaseSharedLock(t)

Spec == Init /\ [][Next]_vars

(* The scheduler runs a thread that can go on, and a StorageLockKey is a   *)
(* local object: it is destroyed at the end of its scope.  Nothing is      *)
(* assumed about who gets the mutex next.                                  *)
Release(t) == ReleaseExclusiveLock(t) \/ ReleaseSharedLock(t)

Proceed(t) == CountShared(t) \/ UnlockShared(t) \/ SpinExclusive(t)
              \/ TryCheck(t) \/ UpgradeCheck(t) \/ UnlockFailed(t)

FairSpec == /\ Spec
            /\ \A t \in Threads : WF_vars(Proceed(t)) /\ WF_vars(Release(t))

-----------------------------------------------------------------------------

(* Every variable keeps its type.                                          *)
TypeOK == /\ exclusive_lock \in Threads \cup {NoThread}
          /\ read_count \in Nat
          /\ shared \subseteq Threads
          /\ exclusive \subseteq Threads
          /\ pc \in [Threads -> Steps]

(* storage_lock.hpp: an EXCLUSIVE key excludes every other key; only the   *)
(* thread that upgraded its own SHARED key holds both.                     *)
MutualExclusion ==
    \A t \in exclusive : /\ exclusive = {t}
                         /\ shared \subseteq {t}

(* The keys that callers own behave like those of a reader-writer lock,    *)
(* although a call takes several accesses and the count is decremented     *)
(* outside of the mutex: a key is handed out only when the keys owned at   *)
(* that moment allow it.                                                   *)
RW == INSTANCE ReaderWriterLock WITH readers <- shared, writers <- exclusive

RWSpec == RW!Spec

(* GetExclusiveLock keeps the mutex while it spins, so no new reader gets  *)
(* in: the loop ends when the keys that are out have been destroyed, also  *)
(* if threads keep asking for shared keys.                                 *)
WriterGetsLock == \A t \in Threads :
    pc[t] = "spin_exclusive" ~> t \in exclusive

-----------------------------------------------------------------------------
(* The inductive invariant behind MutualExclusion.                         *)

(* A thread at one of these steps is between lock() and unlock().          *)
Locked == {"count_shared", "unlock_shared", "spin_exclusive", "try_check",
           "upgrade_check", "unlock_failed"}

(* The readers that read_count counts: the SHARED keys, and the caller of  *)
(* GetSharedLock that has incremented it and has no key yet.               *)
Counted == shared \cup {t \in Threads : pc[t] = "unlock_shared"}

(* The counter never drifts: it equals the number of counted readers, so   *)
(* ReleaseSharedLock never wraps it below zero.                            *)
ReadCountExact == read_count = Cardinality(Counted)

(* The mutex is held exactly by a thread inside a critical section or by   *)
(* the owner of the EXCLUSIVE key.                                         *)
MutexHolder == \A t \in Threads :
    exclusive_lock = t <=> (t \in exclusive \/ pc[t] \in Locked)

(* What the caller owns at each step of a call.                            *)
CallerKeys == \A t \in Threads :
    /\ pc[t] \in Locked => t \notin exclusive
    /\ pc[t] \in {"want_shared", "count_shared", "unlock_shared"}
         => t \notin shared \cup exclusive
    /\ pc[t] \in {"want_exclusive", "spin_exclusive", "try_check"}
         => t \notin shared \cup exclusive
    /\ pc[t] = "upgrade_check" => t \in shared

ExclusiveAlone == \A t \in exclusive : shared \subseteq {t}

LockInv == TypeOK /\ ReadCountExact /\ MutexHolder /\ CallerKeys /\ ExclusiveAlone
=============================================================================
