-------------------------- MODULE ReaderWriterLock --------------------------
(***************************************************************************)
(* What storage_lock.hpp promises to the holders of StorageLockKeys: any   *)
(* number of readers or one writer, where a writer may be the only reader  *)
(* too (TryUpgradeCheckpointLock).  Keys appear and disappear in one step; *)
(* how a call gets there is the business of StorageLock.                   *)
(***************************************************************************)
CONSTANT Threads

VARIABLES readers,   \* the owners of a SHARED key
          writers    \* the owners of the EXCLUSIVE key

vars == <<readers, writers>>

Init == readers = {} /\ writers = {}

Share(t) == /\ writers = {}
            /\ t \notin readers
            /\ readers' = readers \cup {t}
            /\ UNCHANGED writers

Exclude(t) == /\ writers = {}
              /\ readers \subseteq {t}
              /\ writers' = {t}
              /\ UNCHANGED readers

Unshare(t) == /\ t \in readers
              /\ readers' = readers \ {t}
              /\ UNCHANGED writers

Unexclude(t) == /\ writers = {t}
                /\ writers' = {}
                /\ UNCHANGED readers

Next == \E t \in Threads :
          Share(t) \/ Exclude(t) \/ Unshare(t) \/ Unexclude(t)

Spec == Init /\ [][Next]_vars
=============================================================================
