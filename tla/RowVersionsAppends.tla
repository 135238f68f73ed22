------------------------- MODULE RowVersionsAppends -------------------------
(***************************************************************************)
(* The steps of RowVersions keep the types, the ids and the appends that   *)
(* are not finished.                                                       *)
(***************************************************************************)
EXTENDS RowVersionsVectors

\* More stamps make more ChunkInfos.
LEMMA InfosGrow ==
    ASSUME NEW T, NEW U, T \subseteq U
    PROVE  InfosOver(T) \subseteq InfosOver(U)
<1>1. Constants(T) \subseteq Constants(U)
  BY Zenon DEF Constants
<1>2. ChunkVectors(T) \subseteq ChunkVectors(U)
  <2> SUFFICES ASSUME NEW x \in ChunkVectors(T) PROVE x \in ChunkVectors(U)
    BY Zenon
  <2>1. [Rows -> T] \subseteq [Rows -> U]
    BY Zenon
  <2> QED BY <2>1, Zenon DEF ChunkVectors
<1> QED BY <1>1, <1>2, Zenon DEF InfosOver

\* What ChunkInfo::Read returns is well formed, whatever was written.
LEMMA WriteAndReadType ==
    ASSUME NEW T, NEW info, 0 \in T, NOT_DELETED_ID \in T
    PROVE  WriteAndRead(info) \in InfosOver(T)
<1> DEFINE sel == GetSelVector(info, TRANSACTION_ID_START - 1, NOT_DELETED_ID + 1)
           read == [VectorInfo(0) EXCEPT !.any_deleted = TRUE,
                          !.deleted = [i \in Rows |-> IF i \in sel THEN NOT_DELETED_ID ELSE 0]]
<1>1. NoInfo \in Nones
  BY Zenon DEF NoInfo, Nones
<1>2. ConstantInfo(0, 0) \in Constants(T)
  BY Zenon DEF ConstantInfo, Constants
<1>3. read \in ChunkVectors(T)
  BY Zenon DEF VectorInfo, ChunkVectors
<1>4. WriteAndRead(info) \in {NoInfo, ConstantInfo(0, 0), read}
  BY Zenon DEF WriteAndRead
<1> QED BY <1>1, <1>2, <1>3, <1>4, Zenon DEF InfosOver

\* A step draws at most one timestamp and one transaction id.
LEMMA TimesStep ==
    ASSUME Next, current_timestamp \in Nat, current_transaction_id \in Nat
    PROVE  /\ current_timestamp' \in {current_timestamp, current_timestamp + 1}
           /\ current_transaction_id' \in {current_transaction_id, current_transaction_id + 1}
<1>1. ASSUME NEW t \in Txns, Step(t)
      PROVE  /\ current_timestamp' \in {current_timestamp, current_timestamp + 1}
             /\ current_transaction_id' \in {current_transaction_id, current_transaction_id + 1}
  <2>1. CASE StartTransaction(t)
    BY <2>1, Zenon DEF StartTransaction, NextTimestamp
  <2>2. ASSUME NEW v \in Vectors, NEW rows \in DeleteInput(t, v), Delete(t, v, rows)
        PROVE UNCHANGED times
    BY <2>2, Zenon DEF Delete
  <2>3. ASSUME NEW n \in 0..MAX_ROWS, Flush(t, n) \/ FlushFails(t, n)
        PROVE UNCHANGED times
    BY <2>3, Zenon DEF Flush, FlushFails
  <2>4. ASSUME NEW to, Commit(t, to)
        PROVE  current_timestamp' = NextTimestamp /\ UNCHANGED current_transaction_id
    BY <2>4, Zenon DEF Commit
  <2>5. CASE CommitReadOnly(t)
    BY <2>5, Zenon DEF CommitReadOnly, NextTimestamp
  <2>6. CASE CommitEntry(t) \/ CommitFails(t) \/ RevertCommitEntry(t) \/ RollbackTransaction(t)
               \/ RollbackEntry(t) \/ RemoveCommitted(t) \/ RemoveAborted(t) \/ Cleanup(t)
    <3>1. UNCHANGED times
      BY <2>6, Zenon DEF CommitEntry, CommitFails, RevertCommitEntry, RollbackTransaction,
                         RollbackEntry, RemoveCommitted, RemoveAborted, Cleanup
    <3> QED BY <3>1, Zenon DEF times
  <2> QED BY <1>1, <2>1, <2>2, <2>3, <2>4, <2>5, <2>6, Zenon DEF Step, times, NextTimestamp
<1>2. CASE Checkpoint \/ Reopen
  <2>1. UNCHANGED times
    BY <1>2, Zenon DEF Checkpoint, Reopen
  <2> QED BY <2>1, Zenon DEF times
<1> QED BY <1>1, <1>2, Zenon DEF Next, Step

\* Drawing adds stamps.
LEMMA StampsGrow ==
    ASSUME Next, current_timestamp \in Nat, current_transaction_id \in Nat
    PROVE  Stamps \subseteq Stamps'
  BY TimesStep, RowVersionsAssumption DEF Stamps

\* A well-formed ChunkInfo stays well formed.
LEMMA InfosStay ==
    ASSUME Next, current_timestamp \in Nat, current_transaction_id \in Nat
    PROVE  Infos \subseteq Infos'
<1>1. Infos = InfosOver(Stamps)
  BY InfosAre, Zenon
<1>2. Infos' = InfosOver(Stamps')
  BY Zenon DEF Infos, InfosOver, Nones, Constants, ChunkVectors
<1> QED BY <1>1, <1>2, StampsGrow, InfosGrow, Zenon

\* RowGroup::Delete keeps the types.
LEMMA DeletePlain ==
    ASSUME PlainTypes, Ranks, NEW t \in Txns, NEW v \in Vectors, NEW rows \in DeleteInput(t, v),
           pc[t] = "running", Delete(t, v, rows)
    PROVE  PlainTypes'
<1> DEFINE info == [GetVectorInfo(v) EXCEPT !.any_deleted = TRUE]
           n    == FirstConflict(t, info, rows) - 1
           e    == DeleteEntry(t, v, info, rows)
<1>1. /\ size' = FillVectorInfo(v) /\ has_unserialized_changes' = TRUE
      /\ UNCHANGED <<count, disk, requires_new_row_group, times, commit_id, lowest, pos,
                       stop, transaction_lock, committer>>
  BY Zenon DEF Delete
<1>2. \/ UNCHANGED undo /\ pc' = [pc EXCEPT ![t] = "failed"]
      \/ UNCHANGED pc /\ undo' = [undo EXCEPT ![t] = undo[t]]
      \/ UNCHANGED pc /\ undo' = [undo EXCEPT ![t] = Append(undo[t], e)]
  BY Zenon DEF Delete
<1>3. e \in Entries
  BY EntryTyped, Zenon
<1> HIDE DEF e
<1>4. undo' \in [Txns -> Seq(Entries)]
  <2>1. undo \in [Txns -> Seq(Entries)]
    BY Zenon DEF PlainTypes
  <2>2. Append(undo[t], e) \in Seq(Entries) /\ undo[t] \in Seq(Entries)
    BY <1>3, <2>1
  <2> QED BY <1>2, <2>1, <2>2, Zenon
<1>5. pc' \in [Txns -> {"idle", "committed", "aborted", "cleaned"} \cup Open \cup Finishing]
  BY <1>2, Zenon DEF PlainTypes, Open
<1>6. size' \in 0..VectorCount
  BY <1>1, RowVersionsAssumption DEF FillVectorInfo, Vectors, PlainTypes
<1> QED BY <1>1, <1>4, <1>5, <1>6, Zenon DEF PlainTypes, disk, times

\* The undo entry of an append is well formed.
LEMMA AppendTyped ==
    ASSUME PlainTypes, NEW t \in Txns, NEW n \in 0..MAX_ROWS, n > 0,
           NEW e, e = [type |-> "append", start |-> count, count |-> n]
    PROVE  e \in Entries /\ Append(undo[t], e) \in Seq(Entries)
<1>1. e \in Entries
  BY RowVersionsAssumption DEF Entries, PlainTypes
<1>2. undo[t] \in Seq(Entries)
  BY Zenon DEF PlainTypes
<1> QED BY <1>1, <1>2

\* FillVectorInfo grows the vector to the entry it is asked for.
LEMMA FillVectorInfoType ==
    ASSUME PlainTypes, NEW v \in Nat, VectorCount \in Nat, v < VectorCount
    PROVE  FillVectorInfo(v) \in 0..VectorCount
<1>1. size \in 0..VectorCount
  BY Zenon DEF PlainTypes
<1>2. v + 1 \in 0..VectorCount
  OBVIOUS
<1> QED BY <1>1, <1>2, Zenon DEF FillVectorInfo

\* The flush of the local storage keeps the types.
LEMMA FlushPlain ==
    ASSUME PlainTypes, NEW t \in Txns, NEW n \in 0..MAX_ROWS, Flush(t, n)
    PROVE  PlainTypes'
<1> DEFINE e == [type |-> "append", start |-> count, count |-> n]
<1>1. /\ UNCHANGED <<disk, requires_new_row_group, times, commit_id, lowest, pos, stop,
                       transaction_lock>>
      /\ pc' = [pc EXCEPT ![t] = "flushed"] /\ committer' = t /\ count + n <= MAX_ROWS
  BY Zenon DEF Flush, Goto
<1>2. MAX_ROWS \in Nat /\ n \in Nat /\ count \in Nat
  BY RowVersionsAssumption DEF PlainTypes
<1>3. pc' \in [Txns -> {"idle", "committed", "aborted", "cleaned"} \cup Open \cup Finishing]
  BY <1>1, Zenon DEF PlainTypes, Open
<1>4. CASE n = 0
  <2>1. undo' = [undo EXCEPT ![t] = undo[t]] /\ UNCHANGED <<size, count, has_unserialized_changes>>
    BY <1>4, Zenon DEF Flush
  <2>2. undo' \in [Txns -> Seq(Entries)]
    BY <2>1, Zenon DEF PlainTypes
  <2> QED BY <1>1, <1>3, <2>1, <2>2, Zenon DEF PlainTypes, disk, times
<1>5. CASE n # 0
  <2>1. /\ undo' = [undo EXCEPT ![t] = Append(undo[t], e)] /\ count' = count + n
        /\ has_unserialized_changes' = TRUE /\ size' = FillVectorInfo(VectorOf(count + n - 1))
    BY <1>5, Zenon DEF Flush
  <2>2. undo' \in [Txns -> Seq(Entries)]
    <3>1. Append(undo[t], e) \in Seq(Entries)
      BY <1>2, <1>5, AppendTyped
    <3> QED BY <2>1, <3>1, Zenon DEF PlainTypes
  <2>3. count' \in 0..MAX_ROWS
    BY <2>1, <1>1, <1>2
  <2>4. size' \in 0..VectorCount
    <3> DEFINE r == count + n - 1
    <3>1. r \in Nat /\ r < MAX_ROWS
      BY <1>1, <1>2, <1>5
    <3>2. VectorCount \in Nat /\ MAX_ROWS <= Row(VectorCount, 0) /\ Row(VectorCount, 0) \in Nat
      BY RowVersionsAssumption DEF Row
    <3>3. VectorOf(r) < VectorCount
      BY <1>2, <3>1, <3>2, RowBounds
    <3>4. VectorOf(r) \in Nat
      BY <3>1, RowOf, Zenon
    <3> HIDE DEF r
    <3>5. FillVectorInfo(VectorOf(r)) \in 0..VectorCount
      BY <3>2, <3>3, <3>4, FillVectorInfoType, Zenon
    <3> QED BY <2>1, <3>5, Zenon DEF r
  <2> QED BY <1>1, <1>3, <2>1, <2>2, <2>3, <2>4, Zenon DEF PlainTypes, disk, times
<1> QED BY <1>4, <1>5, Zenon

\* Reverting an entry keeps the types of the row group.
LEMMA RevertPlain ==
    ASSUME PlainTypes, NEW e \in Entries, NEW id,
           RevertEntry(e, id) \/ (RevertAppend(e) /\ e.type = "append")
    PROVE  /\ size' \in 0..VectorCount /\ count' \in 0..MAX_ROWS
           /\ has_unserialized_changes' \in BOOLEAN
<1>1. CASE e.type = "append"
  <2>1. RevertAppend(e)
    BY <1>1, Zenon DEF RevertEntry
  <2>2. e.start \in 0..MAX_ROWS
    BY <1>1, Zenon DEF Entries
  <2> QED BY <2>1, <2>2, Zenon DEF RevertAppend, PlainTypes
<1>2. CASE e.type # "append"
  BY <1>2, Zenon DEF RevertEntry, PlainTypes
<1> QED BY <1>1, <1>2, Zenon

\* A flush that fails keeps the types.
LEMMA FlushFailsPlain ==
    ASSUME PlainTypes, NEW t \in Txns, NEW n \in 0..MAX_ROWS, FlushFails(t, n)
    PROVE  PlainTypes'
<1> DEFINE e == [type |-> "append", start |-> count, count |-> n]
<1>1. /\ UNCHANGED <<disk, requires_new_row_group, times, commit_id, lowest, pos, stop,
                       transaction_lock>>
      /\ pc' = [pc EXCEPT ![t] = "flush_failed"] /\ committer' = t
      /\ undo' = [undo EXCEPT ![t] = Append(undo[t], e)] /\ RevertAppend(e) /\ n > 0
  BY Zenon DEF FlushFails, Goto
<1>2. e \in Entries /\ Append(undo[t], e) \in Seq(Entries) /\ e.type = "append"
  BY <1>1, AppendTyped, Zenon
<1> HIDE DEF e
<1>3. pc' \in [Txns -> {"idle", "committed", "aborted", "cleaned"} \cup Open \cup Finishing]
  BY <1>1, Zenon DEF PlainTypes, Open
<1>4. undo' \in [Txns -> Seq(Entries)]
  BY <1>1, <1>2, Zenon DEF PlainTypes
<1>5. /\ size' \in 0..VectorCount /\ count' \in 0..MAX_ROWS
      /\ has_unserialized_changes' \in BOOLEAN
  BY <1>1, <1>2, RevertPlain, Zenon
<1> QED BY <1>1, <1>3, <1>4, <1>5, Zenon DEF PlainTypes, disk, times

\* What RemoveTransaction changes.
LEMMA RemovePlain ==
    ASSUME PlainTypes, NEW t \in Txns, NEW to \in {"committed", "aborted"}, RemoveTransaction(t, to)
    PROVE  /\ pc' = [pc EXCEPT ![t] = to]
           /\ lowest' \in [Txns -> Nat] /\ pos' = [pos EXCEPT ![t] = 0] /\ stop' = [stop EXCEPT ![t] = 0]
           /\ transaction_lock' = Nobody /\ committer' \in {Nobody, committer}
           /\ committer' = IF committer = t THEN Nobody ELSE committer
           /\ UNCHANGED <<vector_info, size, count, has_unserialized_changes, disk,
                       requires_new_row_group, undo>>
<1>1. PICK low \in {start_time[u] : u \in Active} \cup {TRANSACTION_ID_START}, store \in BOOLEAN :
        /\ pc' = [pc EXCEPT ![t] = to]
        /\ lowest' = [u \in Txns |->
             IF \/ u = t /\ to = "committed" /\ undo[t] # <<>> /\ ~store
                \/ /\ lowest[u] = 0 /\ pc'[u] = "committed" /\ undo[u] # <<>>
                   /\ u # t \/ store
                   /\ commit_id'[u] < low
             THEN low ELSE lowest[u]]
        /\ pos' = [pos EXCEPT ![t] = 0] /\ stop' = [stop EXCEPT ![t] = 0]
        /\ transaction_lock' = Nobody
        /\ committer' = IF committer = t THEN Nobody ELSE committer
        /\ UNCHANGED <<vector_info, size, count, has_unserialized_changes, disk,
                       requires_new_row_group, undo>>
  BY Zenon DEF RemoveTransaction
<1>2. low \in Nat
  <2>1. TRANSACTION_ID_START \in Nat
    BY RowVersionsAssumption, Zenon
  <2>2. start_time \in [Txns -> Nat] /\ Active \subseteq Txns
    BY Zenon DEF Active, PlainTypes
  <2> QED BY <2>1, <2>2, Zenon
<1>3. lowest' \in [Txns -> Nat]
  BY <1>1, <1>2, Zenon DEF PlainTypes
<1> QED BY <1>1, <1>3, Zenon

\* RemoveTransaction keeps the types.
LEMMA RemoveTypes ==
    ASSUME PlainTypes, NEW t \in Txns, NEW to \in {"committed", "aborted"}, RemoveTransaction(t, to),
           current_timestamp' \in Nat, commit_id' \in [Txns -> Nat],
           UNCHANGED <<current_transaction_id, start_time, transaction_id>>
    PROVE  PlainTypes'
<1>1. /\ pc' = [pc EXCEPT ![t] = to]
      /\ lowest' \in [Txns -> Nat] /\ pos' = [pos EXCEPT ![t] = 0] /\ stop' = [stop EXCEPT ![t] = 0]
      /\ transaction_lock' = Nobody /\ committer' \in {Nobody, committer}
      /\ UNCHANGED <<vector_info, size, count, has_unserialized_changes, disk,
                     requires_new_row_group, undo>>
  BY RemovePlain, Zenon
<1>2. pos' \in [Txns -> Nat] /\ stop' \in [Txns -> Nat]
  BY <1>1, Zenon DEF PlainTypes
<1>3. pc' \in [Txns -> {"idle", "committed", "aborted", "cleaned"} \cup Open \cup Finishing]
  BY <1>1, Zenon DEF PlainTypes
<1>4. transaction_lock' \in Txns \cup {Nobody} /\ committer' \in Txns \cup {Nobody}
  BY <1>1, Zenon DEF PlainTypes
<1> QED BY <1>1, <1>2, <1>3, <1>4, Zenon DEF PlainTypes, disk

\* Every step keeps the types.
LEMMA PlainStep ==
    ASSUME PlainTypes, PhaseInv, Ranks, Next
    PROVE  PlainTypes'
<1> DEFINE Phases == {"idle", "committed", "aborted", "cleaned"} \cup Open \cup Finishing
<1>1. ASSUME NEW t \in Txns, Step(t)
      PROVE  PlainTypes'
  <2>0. /\ start_time \in [Txns -> Nat] /\ transaction_id \in [Txns -> Nat]
        /\ commit_id \in [Txns -> Nat] /\ pos \in [Txns -> Nat] /\ stop \in [Txns -> Nat]
        /\ pc \in [Txns -> Phases] /\ undo \in [Txns -> Seq(Entries)]
        /\ current_timestamp \in Nat /\ current_transaction_id \in Nat
    BY Zenon DEF PlainTypes
  <2>1. CASE StartTransaction(t)
    <3>1. pc' \in [Txns -> Phases]
      BY <2>1, <2>0, Zenon DEF StartTransaction, Goto, Open
    <3>2. /\ start_time' \in [Txns -> Nat] /\ transaction_id' \in [Txns -> Nat]
      BY <2>1, <2>0, Zenon DEF StartTransaction
    <3>3. current_timestamp' \in Nat /\ current_transaction_id' \in Nat
      BY <2>1, <2>0 DEF StartTransaction, NextTimestamp
    <3> QED BY <2>1, <3>1, <3>2, <3>3, Zenon DEF StartTransaction, PlainTypes, disk
  <2>2. ASSUME NEW v \in Vectors, NEW rows \in DeleteInput(t, v), Delete(t, v, rows), pc[t] = "running"
        PROVE  PlainTypes'
    BY <2>2, DeletePlain, Zenon
  <2>3. ASSUME NEW n \in 0..MAX_ROWS, Flush(t, n) \/ FlushFails(t, n)
        PROVE  PlainTypes'
    BY <2>3, FlushPlain, FlushFailsPlain, Zenon
  <2>4. ASSUME NEW to \in {"stamping", "reverting", "undoing"}, Commit(t, to)
        PROVE  PlainTypes'
    <3>1. Len(undo[t]) \in Nat
      BY <2>0
    <3>2. pc' \in [Txns -> Phases]
      BY <2>4, <2>0, Zenon DEF Commit, Finishing
    <3>3. /\ pos' \in [Txns -> Nat] /\ stop' \in [Txns -> Nat] /\ commit_id' \in [Txns -> Nat]
      BY <2>4, <2>0, <3>1, Zenon DEF Commit
    <3>4. current_timestamp' \in Nat
      BY <2>4, <2>0 DEF Commit, NextTimestamp
    <3> QED BY <2>4, <3>2, <3>3, <3>4, Zenon DEF Commit, PlainTypes, disk
  <2>5. CASE CommitReadOnly(t)
    <3>1. RemoveTransaction(t, "committed") /\ UNCHANGED <<current_transaction_id, start_time, transaction_id>>
      BY <2>5, Zenon DEF CommitReadOnly
    <3>2. current_timestamp' \in Nat /\ commit_id' \in [Txns -> Nat]
      BY <2>5, <2>0 DEF CommitReadOnly, NextTimestamp
    <3> QED BY <3>1, <3>2, RemoveTypes, Zenon
  <2>6. CASE CommitEntry(t)
    <3>1. pos' \in [Txns -> Nat]
      BY <2>6, <2>0 DEF CommitEntry
    <3>2. has_unserialized_changes' \in BOOLEAN
      BY <2>6, Zenon DEF CommitEntry
    <3> QED BY <2>6, <3>1, <3>2, Zenon DEF CommitEntry, PlainTypes, disk, times
  <2>7. CASE CommitFails(t)
    <3>1. Len(undo[t]) \in Nat
      BY <2>0
    <3>2. pos' \in [Txns -> Nat] /\ stop' \in [Txns -> Nat]
      BY <2>7, <2>0, <3>1, Zenon DEF CommitFails
    <3>3. pc' \in [Txns -> Phases]
      BY <2>7, <2>0, Zenon DEF CommitFails, Finishing, Goto
    <3> QED BY <2>7, <3>2, <3>3, Zenon DEF CommitFails, PlainTypes, disk, times
  <2>8. CASE RevertCommitEntry(t)
    <3>1. Len(undo[t]) \in Nat /\ 0 \in Nat
      BY <2>0
    <3>2. pos[t] \in 1..Len(undo[t])
      BY <2>8, <2>0, <3>1 DEF RevertCommitEntry, PhaseInv, PositionInv
    <3>3. undo[t][pos[t]] \in Entries
      BY <3>2, EntryRows, Zenon
    <3>4. /\ size' \in 0..VectorCount /\ count' \in 0..MAX_ROWS
          /\ has_unserialized_changes' \in BOOLEAN
      BY <2>8, <3>3, RevertPlain, Zenon DEF RevertCommitEntry
    <3>5. pos' \in [Txns -> Nat]
      <4>1. pos' = [pos EXCEPT ![t] = pos[t] + 1] \/ pos' = [pos EXCEPT ![t] = Len(undo[t])]
        BY <2>8, Zenon DEF RevertCommitEntry
      <4>2. pos[t] + 1 \in Nat /\ Len(undo[t]) \in Nat /\ pos \in [Txns -> Nat]
        BY <2>0, <3>1
      <4> QED BY <4>1, <4>2, Zenon
    <3>6. pc' \in [Txns -> Phases] /\ commit_id' \in [Txns -> Nat]
      BY <2>8, <2>0, <3>1, Zenon DEF RevertCommitEntry, Finishing
    <3> QED BY <2>8, <3>4, <3>5, <3>6, Zenon DEF RevertCommitEntry, PlainTypes, disk, times
  <2>9. CASE RollbackTransaction(t)
    <3>1. Len(undo[t]) \in Nat
      BY <2>0
    <3>2. pos' \in [Txns -> Nat]
      BY <2>9, <2>0, <3>1, Zenon DEF RollbackTransaction
    <3>3. pc' \in [Txns -> Phases]
      BY <2>9, <2>0, Zenon DEF RollbackTransaction, Finishing
    <3> QED BY <2>9, <3>2, <3>3, Zenon DEF RollbackTransaction, PlainTypes, disk, times
  <2>10. CASE RollbackEntry(t)
    <3>1. Len(undo[t]) \in Nat
      BY <2>0
    <3>2. pos[t] \in 1..Len(undo[t])
      BY <2>10, <2>0, <3>1 DEF RollbackEntry, PhaseInv, PositionInv
    <3>3. undo[t][pos[t]] \in Entries
      BY <3>2, EntryRows, Zenon
    <3>4. /\ size' \in 0..VectorCount /\ count' \in 0..MAX_ROWS
          /\ has_unserialized_changes' \in BOOLEAN
      BY <2>10, <3>3, RevertPlain, Zenon DEF RollbackEntry
    <3>5. pos' \in [Txns -> Nat]
      BY <2>10, <2>0 DEF RollbackEntry
    <3> QED BY <2>10, <3>4, <3>5, Zenon DEF RollbackEntry, PlainTypes, disk, times
  <2>11. CASE RemoveCommitted(t) \/ RemoveAborted(t)
    <3>1. PICK to \in {"committed", "aborted"} : RemoveTransaction(t, to)
      BY <2>11, Zenon DEF RemoveCommitted, RemoveAborted
    <3>2. UNCHANGED <<times, commit_id>>
      BY <2>11, Zenon DEF RemoveCommitted, RemoveAborted
    <3>3. /\ current_timestamp' \in Nat /\ commit_id' \in [Txns -> Nat]
          /\ UNCHANGED <<current_transaction_id, start_time, transaction_id>>
      BY <3>2, <2>0, Zenon DEF times
    <3> QED BY <3>1, <3>3, RemoveTypes, Zenon
  <2>12. CASE Cleanup(t)
    <3>1. has_unserialized_changes' \in BOOLEAN /\ pc' \in [Txns -> Phases]
      BY <2>12, <2>0, Zenon DEF Cleanup, Goto
    <3> QED BY <2>12, <3>1, Zenon DEF Cleanup, PlainTypes, disk, times
  <2> QED BY <1>1, <2>1, <2>2, <2>3, <2>4, <2>5, <2>6, <2>7, <2>8, <2>9, <2>10, <2>11, <2>12, Zenon DEF Step
<1>2. CASE Checkpoint
  BY <1>2, Zenon DEF Checkpoint, PlainTypes, times
<1>3. CASE Reopen
  <2>1. size' \in 0..VectorCount /\ pc' \in [Txns -> Phases] /\ count' \in 0..MAX_ROWS
    BY <1>3, Zenon DEF Reopen, PlainTypes
  <2> QED BY <1>3, <2>1, Zenon DEF Reopen, PlainTypes, times, disk
<1> QED BY <1>1, <1>2, <1>3, Zenon DEF Next, Step

\* Drawing a commit id keeps the ids unique.
LEMMA DrawStep ==
    ASSUME PlainTypes, IdInv, NEW t \in Txns, NEW to \in {"stamping", "reverting", "undoing", "committed"},
           current_timestamp' = current_timestamp + 1, pc[t] # "idle",
           UNCHANGED <<current_transaction_id, start_time, transaction_id>>,
           pc' = [pc EXCEPT ![t] = to],
           \/ commit_id' = [commit_id EXCEPT ![t] = current_timestamp]
           \/ to = "undoing" /\ commit_id' = [commit_id EXCEPT ![t] = 0]
    PROVE  IdInv'
<1>0. /\ start_time \in [Txns -> Nat] /\ transaction_id \in [Txns -> Nat]
      /\ commit_id \in [Txns -> Nat]
      /\ pc \in [Txns -> {"idle", "committed", "aborted", "cleaned"} \cup Open \cup Finishing]
      /\ current_timestamp \in Nat /\ current_transaction_id \in Nat
      /\ TRANSACTION_ID_START \in Nat
  BY RowVersionsAssumption, Zenon DEF PlainTypes
<1>1. FIRST_COMMIT < current_timestamp' /\ TRANSACTION_ID_START < current_transaction_id'
  BY <1>0 DEF IdInv, FIRST_COMMIT
<1>2. ASSUME NEW u \in Txns
      PROVE  /\ start_time'[u] < current_timestamp' /\ commit_id'[u] < current_timestamp'
             /\ pc'[u] # "idle" => /\ TRANSACTION_ID_START < transaction_id'[u]
                                   /\ transaction_id'[u] < current_transaction_id'
                                   /\ 0 < start_time'[u]
  BY <1>0 DEF IdInv, FIRST_COMMIT
<1>3. ASSUME NEW u \in Txns, NEW w \in Txns, u # w, pc'[u] # "idle", pc'[w] # "idle"
      PROVE  transaction_id'[u] # transaction_id'[w]
  BY <1>3, <1>0, Zenon DEF IdInv
<1>4. ASSUME NEW u \in Txns, pc'[u] \in Open \cup {"idle"} PROVE commit_id'[u] = 0
  BY <1>4, <1>0, Zenon DEF IdInv, Open
<1>5. ASSUME NEW u \in Txns, pc'[u] \in {"stamping", "reverting"}, NEW w \in Txns
      PROVE  0 < commit_id'[u] /\ start_time'[w] < commit_id'[u]
  BY <1>5, <1>0 DEF IdInv, FIRST_COMMIT
<1> QED BY <1>1, <1>2, <1>3, <1>4, <1>5, Zenon DEF IdInv

\* Every step keeps the ids unique.
LEMMA IdStep ==
    ASSUME PlainTypes, PhaseInv, PlainTypes', Next
    PROVE  IdInv'
<1>0. /\ start_time \in [Txns -> Nat] /\ transaction_id \in [Txns -> Nat]
      /\ commit_id \in [Txns -> Nat]
      /\ pc \in [Txns -> {"idle", "committed", "aborted", "cleaned"} \cup Open \cup Finishing]
      /\ current_timestamp \in Nat /\ current_transaction_id \in Nat
      /\ IdInv /\ OwnerInv /\ TRANSACTION_ID_START \in Nat
  BY RowVersionsAssumption, Zenon DEF PlainTypes, PhaseInv
<1>1. ASSUME NEW t \in Txns, Step(t)
      PROVE  IdInv'
  <2>1. CASE StartTransaction(t)
    <3>1. \A u \in Txns : pc[u] \notin Finishing
      BY <2>1, <1>0, RowVersionsAssumption, Zenon DEF OwnerInv, StartTransaction
    <3>2. /\ current_timestamp' = current_timestamp + 1
          /\ current_transaction_id' = current_transaction_id + 1
          /\ start_time' = [start_time EXCEPT ![t] = current_timestamp]
          /\ transaction_id' = [transaction_id EXCEPT ![t] = current_transaction_id]
          /\ pc' = [pc EXCEPT ![t] = "running"] /\ pc[t] = "idle" /\ commit_id' = commit_id
      BY <2>1, Zenon DEF StartTransaction, Goto, NextTimestamp
    <3>3. FIRST_COMMIT < current_timestamp' /\ TRANSACTION_ID_START < current_transaction_id'
      BY <3>2, <1>0 DEF IdInv, FIRST_COMMIT
    <3>4. ASSUME NEW u \in Txns
          PROVE  /\ start_time'[u] < current_timestamp' /\ commit_id'[u] < current_timestamp'
                 /\ pc'[u] # "idle" => /\ TRANSACTION_ID_START < transaction_id'[u]
                                       /\ transaction_id'[u] < current_transaction_id'
                                       /\ 0 < start_time'[u]
      BY <3>2, <1>0 DEF IdInv, FIRST_COMMIT
    <3>5. ASSUME NEW u \in Txns, NEW w \in Txns, u # w, pc'[u] # "idle", pc'[w] # "idle"
          PROVE  transaction_id'[u] # transaction_id'[w]
      BY <3>2, <3>5, <1>0 DEF IdInv
    <3>6. ASSUME NEW u \in Txns, pc'[u] \in Open \cup {"idle"} PROVE commit_id'[u] = 0
      BY <3>2, <3>6, <1>0, Zenon DEF IdInv, Open
    <3>7. ASSUME NEW u \in Txns PROVE pc'[u] \notin {"stamping", "reverting"}
      BY <3>2, <3>1, <1>0, Zenon DEF Finishing
    <3> QED BY <3>3, <3>4, <3>5, <3>6, <3>7, Zenon DEF IdInv
  <2>2. ASSUME NEW v \in Vectors, NEW rows \in DeleteInput(t, v), Delete(t, v, rows), pc[t] = "running"
        PROVE  IdInv'
    <3>1. UNCHANGED <<times, commit_id>> /\ pc' \in {pc, [pc EXCEPT ![t] = "failed"]}
      BY <2>2, Zenon DEF Delete
    <3> QED BY <3>1, <2>2, <1>0 DEF IdInv, times, Open
  <2>3. ASSUME NEW n \in 0..MAX_ROWS, Flush(t, n) \/ FlushFails(t, n)
        PROVE  IdInv'
    <3>1. /\ UNCHANGED <<times, commit_id>>
          /\ pc[t] = "running"
          /\ pc' \in {[pc EXCEPT ![t] = "flushed"], [pc EXCEPT ![t] = "flush_failed"]}
      BY <2>3, Zenon DEF Flush, FlushFails, Goto
    <3> QED BY <3>1, <1>0 DEF IdInv, times, Open
  <2>4. ASSUME NEW to \in {"stamping", "reverting", "undoing"}, Commit(t, to)
        PROVE  IdInv'
    <3>1. /\ current_timestamp' = current_timestamp + 1 /\ pc[t] # "idle"
          /\ UNCHANGED <<current_transaction_id, start_time, transaction_id>>
          /\ pc' = [pc EXCEPT ![t] = to]
          /\ \/ commit_id' = [commit_id EXCEPT ![t] = current_timestamp]
             \/ to = "undoing" /\ commit_id' = [commit_id EXCEPT ![t] = 0]
      BY <2>4, Zenon DEF Commit, NextTimestamp
    <3> QED BY <3>1, <1>0, DrawStep, Zenon DEF Open
  <2>5. CASE CommitReadOnly(t)
    <3>1. /\ current_timestamp' = current_timestamp + 1 /\ pc[t] # "idle"
          /\ UNCHANGED <<current_transaction_id, start_time, transaction_id>>
          /\ pc' = [pc EXCEPT ![t] = "committed"]
          /\ commit_id' = [commit_id EXCEPT ![t] = current_timestamp]
      BY <2>5, Zenon DEF CommitReadOnly, RemoveTransaction, NextTimestamp
    <3> QED BY <3>1, <1>0, DrawStep, Zenon DEF Open
  <2>6. CASE CommitEntry(t)
    BY <2>6, <1>0, Zenon DEF CommitEntry, IdInv, times
  <2>7. CASE CommitFails(t)
    BY <2>7, <1>0, Zenon DEF CommitFails, IdInv, times, Goto, Open
  <2>8. CASE RevertCommitEntry(t)
    <3>1. /\ UNCHANGED times /\ pc[t] = "reverting"
          /\ \/ UNCHANGED <<pc, commit_id>>
             \/ /\ pc' = [pc EXCEPT ![t] = "undoing"]
                /\ commit_id' = [commit_id EXCEPT ![t] = 0]
      BY <2>8, Zenon DEF RevertCommitEntry
    <3> QED BY <3>1, <1>0 DEF IdInv, times, Open
  <2>9. CASE RollbackTransaction(t)
    BY <2>9, <1>0, Zenon DEF RollbackTransaction, IdInv, times, Open
  <2>10. CASE RollbackEntry(t)
    <3>1. UNCHANGED <<times, commit_id, pc>>
      BY <2>10, Zenon DEF RollbackEntry
    <3> QED BY <3>1, <1>0, Zenon DEF IdInv, times
  <2>11. CASE RemoveCommitted(t) \/ RemoveAborted(t)
    <3>1. /\ UNCHANGED <<times, commit_id>> /\ pc[t] \in {"stamping", "undoing"}
          /\ pc' \in {[pc EXCEPT ![t] = "committed"], [pc EXCEPT ![t] = "aborted"]}
      BY <2>11, Zenon DEF RemoveCommitted, RemoveAborted, RemoveTransaction
    <3> QED BY <3>1, <1>0 DEF IdInv, times, Open
  <2>12. CASE Cleanup(t)
    <3>1. /\ UNCHANGED <<times, commit_id>> /\ pc[t] = "committed"
          /\ pc' = [pc EXCEPT ![t] = "cleaned"]
      BY <2>12, Zenon DEF Cleanup, Goto
    <3> QED BY <3>1, <1>0, Zenon DEF IdInv, times, Open
  <2> QED BY <1>1, <2>1, <2>2, <2>3, <2>4, <2>5, <2>6, <2>7, <2>8, <2>9, <2>10, <2>11, <2>12, Zenon DEF Step
<1>2. CASE Checkpoint
  BY <1>2, <1>0, Zenon DEF Checkpoint, IdInv, times
<1>3. CASE Reopen
  <2>1. /\ UNCHANGED <<times, commit_id>>
        /\ pc' = [t \in Txns |-> IF pc[t] = "committed" THEN "cleaned" ELSE pc[t]]
    BY <1>3, Zenon DEF Reopen
  <2> QED BY <2>1, <1>0, Zenon DEF IdInv, times, Open
<1> QED BY <1>1, <1>2, <1>3, Zenon DEF Next, Step

\* Every step keeps the walks of the undo buffers within them.
LEMMA PositionStep ==
    ASSUME PlainTypes, PhaseInv, PlainTypes', Next
    PROVE  PositionInv'
<1>0. /\ pos \in [Txns -> Nat] /\ stop \in [Txns -> Nat] /\ undo \in [Txns -> Seq(Entries)]
      /\ pc \in [Txns -> {"idle", "committed", "aborted", "cleaned"} \cup Open \cup Finishing]
      /\ PositionInv
  BY Zenon DEF PlainTypes, PhaseInv
<1>00. \A u \in Txns : Len(undo[u]) \in Nat
  BY <1>0
<1>1. ASSUME NEW t \in Txns, Step(t)
      PROVE  PositionInv'
  <2>1. CASE StartTransaction(t)
    BY <2>1, <1>0, <1>00, Zenon DEF StartTransaction, Goto, PositionInv
  <2>2. ASSUME NEW v \in Vectors, NEW rows \in DeleteInput(t, v), Delete(t, v, rows), pc[t] = "running"
        PROVE  PositionInv'
    <3>1. /\ UNCHANGED <<pos, stop>>
          /\ \/ UNCHANGED undo /\ pc' = [pc EXCEPT ![t] = "failed"]
             \/ UNCHANGED pc /\ undo' = [undo EXCEPT ![t] = undo[t]]
             \/ UNCHANGED pc /\ \E e : undo' = [undo EXCEPT ![t] = Append(undo[t], e)]
      BY <2>2, Zenon DEF Delete
    <3>2. CASE undo' = undo
      BY <3>1, <3>2, <2>2, <1>0, <1>00, Zenon DEF PositionInv
    <3>3. ASSUME UNCHANGED pc, NEW e, undo' = [undo EXCEPT ![t] = Append(undo[t], e)]
          PROVE  PositionInv'
      <4>1. Len(undo'[t]) = Len(undo[t]) + 1
        BY <3>3, <1>0
      <4>2. pos[t] \in Nat /\ Len(undo[t]) \in Nat /\ pos[t] <= Len(undo[t]) + 1
        BY <1>0, <1>00, Zenon DEF PositionInv
      <4>3. pos[t] <= Len(undo'[t]) + 1
        BY <4>1, <4>2
      <4>4. \A u \in Txns \ {t} : undo'[u] = undo[u]
        BY <3>3, <1>0, Zenon
      <4> QED BY <3>1, <3>3, <4>3, <4>4, <2>2, <1>0, Zenon DEF PositionInv
    <3>4. undo' = [undo EXCEPT ![t] = undo[t]] => undo' = undo
      BY <1>0, Zenon
    <3> QED BY <3>1, <3>2, <3>3, <3>4, Zenon
  <2>3. ASSUME NEW n \in 0..MAX_ROWS, Flush(t, n) \/ FlushFails(t, n)
        PROVE  PositionInv'
    <3>1. /\ UNCHANGED <<pos, stop>> /\ pc[t] = "running"
          /\ pc' \in {[pc EXCEPT ![t] = "flushed"], [pc EXCEPT ![t] = "flush_failed"]}
          /\ \/ undo' = [undo EXCEPT ![t] = undo[t]] /\ undo[t] # <<>>
             \/ \E e : undo' = [undo EXCEPT ![t] = Append(undo[t], e)]
      <4>1. CASE Flush(t, n) /\ n = 0
        <5>1. n > 0 \/ undo[t] # <<>>
          BY <4>1, Zenon DEF Flush
        <5>2. undo[t] # <<>>
          BY <4>1, <5>1
        <5> QED BY <4>1, <5>2, Zenon DEF Flush, Goto
      <4>2. CASE Flush(t, n) /\ n # 0
        BY <4>2, Zenon DEF Flush, Goto
      <4>3. CASE FlushFails(t, n)
        BY <4>3, Zenon DEF FlushFails, Goto
      <4> QED BY <4>1, <4>2, <4>3, <2>3, Zenon
    <3>2. CASE undo' = [undo EXCEPT ![t] = undo[t]] /\ undo[t] # <<>>
      BY <3>1, <3>2, <1>0, <1>00, Zenon DEF PositionInv
    <3>3. ASSUME NEW e, undo' = [undo EXCEPT ![t] = Append(undo[t], e)]
          PROVE  PositionInv'
      <4>1. Len(undo'[t]) = Len(undo[t]) + 1 /\ undo'[t] # <<>>
        BY <3>3, <1>0
      <4>2. pos[t] \in Nat /\ Len(undo[t]) \in Nat /\ pos[t] <= Len(undo[t]) + 1
        BY <1>0, <1>00, Zenon DEF PositionInv
      <4>3. pos[t] <= Len(undo'[t]) + 1
        BY <4>1, <4>2
      <4>4. \A u \in Txns \ {t} : undo'[u] = undo[u] /\ pc'[u] = pc[u]
        BY <3>1, <3>3, <1>0, Zenon
      <4>5. pc'[t] \in {"flushed", "flush_failed"}
        BY <3>1, <1>0, Zenon
      <4> QED BY <3>1, <4>1, <4>3, <4>4, <4>5, <1>0, Zenon DEF PositionInv
    <3> QED BY <3>1, <3>2, <3>3, Zenon
  <2>4. ASSUME NEW to \in {"stamping", "reverting", "undoing"}, Commit(t, to)
        PROVE  PositionInv'
    <3>1. Len(undo[t]) > 0
      BY <2>4, <1>0 DEF Commit, PositionInv
    <3> QED BY <2>4, <3>1, <1>0, <1>00 DEF Commit, PositionInv
  <2>5. CASE CommitReadOnly(t) \/ RemoveCommitted(t) \/ RemoveAborted(t)
    <3>1. /\ UNCHANGED undo
          /\ pos' = [pos EXCEPT ![t] = 0] /\ stop' = [stop EXCEPT ![t] = 0]
          /\ pc' \in {[pc EXCEPT ![t] = "committed"], [pc EXCEPT ![t] = "aborted"]}
      BY <2>5, Zenon DEF CommitReadOnly, RemoveCommitted, RemoveAborted, RemoveTransaction
    <3> QED BY <3>1, <1>0, <1>00 DEF PositionInv
  <2>6. CASE CommitEntry(t)
    BY <2>6, <1>0, <1>00 DEF CommitEntry, PositionInv
  <2>7. CASE CommitFails(t)
    <3>1. Len(undo[t]) > 0
      BY <2>7, <1>0 DEF CommitFails
    <3> QED BY <2>7, <3>1, <1>0, <1>00 DEF CommitFails, PositionInv, Goto
  <2>8. CASE RevertCommitEntry(t)
    <3>1. /\ UNCHANGED <<undo, stop>> /\ pc[t] = "reverting"
          /\ \/ pos[t] < stop[t] /\ pos' = [pos EXCEPT ![t] = pos[t] + 1] /\ UNCHANGED pc
             \/ pos' = [pos EXCEPT ![t] = Len(undo[t])] /\ pc' = [pc EXCEPT ![t] = "undoing"]
      BY <2>8, Zenon DEF RevertCommitEntry
    <3>2. CASE pos[t] < stop[t] /\ pos' = [pos EXCEPT ![t] = pos[t] + 1] /\ UNCHANGED pc
      BY <3>1, <3>2, <1>0, <1>00 DEF PositionInv
    <3>3. CASE pos' = [pos EXCEPT ![t] = Len(undo[t])] /\ pc' = [pc EXCEPT ![t] = "undoing"]
      <4>1. /\ undo' = undo /\ stop' = stop /\ pos'[t] = Len(undo[t]) /\ pc'[t] = "undoing"
            /\ \A u \in Txns \ {t} : pos'[u] = pos[u] /\ pc'[u] = pc[u]
        BY <3>1, <3>3, <1>0, Zenon
      <4>2. Len(undo[t]) <= Len(undo[t]) /\ Len(undo[t]) <= Len(undo[t]) + 1
        BY <1>00
      <4> QED BY <4>1, <4>2, <1>0, Zenon DEF PositionInv
    <3> QED BY <3>1, <3>2, <3>3, Zenon
  <2>9. CASE RollbackTransaction(t)
    BY <2>9, <1>0, <1>00 DEF RollbackTransaction, PositionInv
  <2>10. CASE RollbackEntry(t)
    <3>1. UNCHANGED <<pc, undo, stop>> /\ pos' = [pos EXCEPT ![t] = pos[t] - 1] /\ pos[t] > 0
          /\ pc[t] = "undoing"
      BY <2>10, Zenon DEF RollbackEntry
    <3> QED BY <3>1, <1>0, <1>00 DEF PositionInv
  <2>11. CASE Cleanup(t)
    <3>1. UNCHANGED <<undo, pos, stop>> /\ pc' = [pc EXCEPT ![t] = "cleaned"]
      BY <2>11, Zenon DEF Cleanup, Goto
    <3> QED BY <3>1, <1>0, <1>00, Zenon DEF PositionInv
  <2> QED BY <1>1, <2>1, <2>2, <2>3, <2>4, <2>5, <2>6, <2>7, <2>8, <2>9, <2>10, <2>11, Zenon DEF Step
<1>2. CASE Checkpoint
  BY <1>2, <1>0, Zenon DEF Checkpoint, PositionInv
<1>3. CASE Reopen
  <2>1. /\ UNCHANGED <<undo, pos, stop>>
        /\ pc' = [t \in Txns |-> IF pc[t] = "committed" THEN "cleaned" ELSE pc[t]]
    BY <1>3, Zenon DEF Reopen
  <2> QED BY <2>1, <1>0, Zenon DEF PositionInv
<1> QED BY <1>1, <1>2, <1>3, Zenon DEF Next, Step

\* Every step keeps the commits exclusive: only the committer has an append
\* that is not finished.
LEMMA OwnerStep ==
    ASSUME PlainTypes, PhaseInv, PlainTypes', Ranks, Next
    PROVE  OwnerInv'
<1>0. /\ pos \in [Txns -> Nat] /\ undo \in [Txns -> Seq(Entries)]
      /\ pc \in [Txns -> {"idle", "committed", "aborted", "cleaned"} \cup Open \cup Finishing]
      /\ OwnerInv /\ PositionInv /\ Nobody \notin Txns
  BY RowVersionsAssumption, Zenon DEF PlainTypes, PhaseInv
<1>00. \A u \in Txns : Len(undo[u]) \in Nat
  BY <1>0
<1>1. ASSUME NEW t \in Txns, Step(t)
      PROVE  OwnerInv'
  <2>1. CASE StartTransaction(t)
    <3>1. UNCHANGED <<undo, transaction_lock, committer>> /\ pc' = [pc EXCEPT ![t] = "running"]
          /\ undo[t] = <<>> /\ pc[t] = "idle"
      BY <2>1, <1>0, Zenon DEF StartTransaction, Goto, PositionInv
    <3>2. 1..Len(undo[t]) = {}
      BY <3>1
    <3>3. pc'[t] = "running" /\ \A u \in Txns \ {t} : pc'[u] = pc[u]
      BY <3>1, <1>0, Zenon
    <3> QED BY <3>1, <3>2, <3>3, <1>0, Zenon DEF OwnerInv, Finishing
  <2>2. ASSUME NEW v \in Vectors, NEW rows \in DeleteInput(t, v), Delete(t, v, rows), pc[t] = "running"
        PROVE  OwnerInv'
    <3> DEFINE e == DeleteEntry(t, v, [GetVectorInfo(v) EXCEPT !.any_deleted = TRUE], rows)
    <3>1. /\ UNCHANGED <<transaction_lock, committer>>
          /\ \/ UNCHANGED undo /\ pc' = [pc EXCEPT ![t] = "failed"]
             \/ UNCHANGED pc /\ undo' = [undo EXCEPT ![t] = undo[t]]
             \/ UNCHANGED pc /\ undo' = [undo EXCEPT ![t] = Append(undo[t], e)]
      BY <2>2, Zenon DEF Delete
    <3>2. e.type = "delete"
      BY EntryTyped
    <3>3. \A k \in 1..Len(undo[t]) : undo[t][k].type # "append"
      BY <2>2, <1>0, Zenon DEF OwnerInv
    <3> HIDE DEF e
    <3>4. \A k \in 1..Len(undo'[t]) : undo'[t][k].type # "append"
      <4>1. CASE undo'[t] = undo[t]
        BY <4>1, <3>3, Zenon
      <4>2. CASE undo'[t] = Append(undo[t], e)
        BY <4>2, <3>2, <3>3, <1>0
      <4> QED BY <4>1, <4>2, <3>1, <1>0, Zenon
    <3>5. \A u \in Txns \ {t} : undo'[u] = undo[u] /\ pc'[u] = pc[u]
      BY <3>1, <1>0, Zenon
    <3>6. pc'[t] \in {"running", "failed"}
      BY <3>1, <2>2, <1>0, Zenon
    <3> QED BY <3>1, <3>4, <3>5, <3>6, <2>2, <1>0 DEF OwnerInv, Finishing
  <2>3. ASSUME NEW n \in 0..MAX_ROWS, Flush(t, n) \/ FlushFails(t, n)
        PROVE  OwnerInv'
    <3>1. /\ UNCHANGED transaction_lock /\ committer = Nobody /\ committer' = t
          /\ pc[t] = "running"
          /\ pc' \in {[pc EXCEPT ![t] = "flushed"], [pc EXCEPT ![t] = "flush_failed"]}
          /\ \/ undo' = [undo EXCEPT ![t] = undo[t]]
             \/ \E e : undo' = [undo EXCEPT ![t] = Append(undo[t], e)]
      BY <2>3, Zenon DEF Flush, FlushFails, Goto
    <3>2. \A k \in 1..Len(undo[t]) : undo[t][k].type # "append"
      BY <3>1, <1>0, Zenon DEF OwnerInv
    <3>3. \A k \in 1..Len(undo'[t]) : undo'[t][k].type = "append" => k = Len(undo'[t])
      <4>1. CASE undo'[t] = undo[t]
        BY <4>1, <3>2, Zenon
      <4>2. ASSUME NEW e, undo'[t] = Append(undo[t], e)
            PROVE  \A k \in 1..Len(undo'[t]) : undo'[t][k].type = "append" => k = Len(undo'[t])
        BY <4>2, <3>2, <1>0
      <4> QED BY <4>1, <4>2, <3>1, <1>0, Zenon
    <3>4. \A u \in Txns \ {t} : undo'[u] = undo[u] /\ pc'[u] = pc[u]
      BY <3>1, <1>0, Zenon
    <3>5. pc'[t] \in {"flushed", "flush_failed"}
      BY <3>1, <1>0, Zenon
    <3>6. \A u \in Txns \ {t} : pc[u] \notin {"flushed", "flush_failed", "stamping", "reverting"}
      BY <3>1, <1>0, Zenon DEF OwnerInv
    <3>7. \A u \in Txns \ {t} : \A k \in 1..Len(undo[u]) : undo[u][k].type = "append" => pc[u] # "undoing"
      BY <3>1, <1>0, Zenon DEF OwnerInv
    <3> QED BY <3>1, <3>3, <3>4, <3>5, <3>6, <3>7, <1>0 DEF OwnerInv, Finishing
  <2>4. ASSUME NEW to \in {"stamping", "reverting", "undoing"}, Commit(t, to)
        PROVE  OwnerInv'
    <3>1. /\ UNCHANGED <<undo, committer>> /\ transaction_lock = Nobody /\ transaction_lock' = t
          /\ pc[t] \in {"flushed", "flush_failed"} /\ pc' = [pc EXCEPT ![t] = to]
      BY <2>4, Zenon DEF Commit
    <3> QED BY <3>1, <1>0, <1>00, Zenon DEF OwnerInv, Finishing
  <2>5. CASE CommitReadOnly(t) \/ RemoveCommitted(t) \/ RemoveAborted(t)
    <3>1. /\ UNCHANGED undo
          /\ committer' = IF committer = t THEN Nobody ELSE committer
          /\ transaction_lock \in {Nobody, t} /\ transaction_lock' = Nobody
          /\ pc' \in {[pc EXCEPT ![t] = "committed"], [pc EXCEPT ![t] = "aborted"]}
      <4>1. CASE CommitReadOnly(t)
        BY <4>1, Zenon DEF CommitReadOnly, RemoveTransaction
      <4>2. CASE RemoveCommitted(t) \/ RemoveAborted(t)
        <5>1. transaction_lock = t
          BY <4>2, <1>0, Zenon DEF RemoveCommitted, RemoveAborted, OwnerInv, Finishing
        <5> QED BY <4>2, <5>1, Zenon DEF RemoveCommitted, RemoveAborted, RemoveTransaction
      <4> QED BY <4>1, <4>2, <2>5, Zenon
    <3> QED BY <3>1, <1>0, <1>00 DEF OwnerInv, Finishing
  <2>6. CASE CommitEntry(t)
    BY <2>6, <1>0, <1>00, Zenon DEF CommitEntry, OwnerInv
  <2>7. CASE CommitFails(t)
    <3>1. /\ UNCHANGED <<undo, committer, transaction_lock>>
          /\ pc[t] = "stamping" /\ pc' = [pc EXCEPT ![t] = "reverting"]
      BY <2>7, Zenon DEF CommitFails, Goto
    <3> QED BY <3>1, <1>0, <1>00, Zenon DEF OwnerInv, Finishing
  <2>8. CASE RevertCommitEntry(t)
    <3>1. /\ UNCHANGED <<undo, committer, transaction_lock>> /\ pc[t] = "reverting"
          /\ pc' = pc \/ pc' = [pc EXCEPT ![t] = "undoing"]
      BY <2>8, Zenon DEF RevertCommitEntry
    <3> QED BY <3>1, <1>0, <1>00, Zenon DEF OwnerInv, Finishing
  <2>9. CASE RollbackTransaction(t)
    <3>1. /\ UNCHANGED <<undo, committer>> /\ transaction_lock = Nobody /\ transaction_lock' = t
          /\ pc[t] \in {"running", "failed"} /\ pc' = [pc EXCEPT ![t] = "undoing"]
      BY <2>9, Zenon DEF RollbackTransaction
    <3> QED BY <3>1, <1>0, <1>00, Zenon DEF OwnerInv, Finishing
  <2>10. CASE RollbackEntry(t)
    <3>1. UNCHANGED <<undo, committer, transaction_lock, pc>>
      BY <2>10, Zenon DEF RollbackEntry
    <3> QED BY <3>1, <1>0, Zenon DEF OwnerInv
  <2>11. CASE Cleanup(t)
    <3>1. /\ UNCHANGED <<undo, committer, transaction_lock>> /\ pc[t] = "committed"
          /\ pc' = [pc EXCEPT ![t] = "cleaned"]
      BY <2>11, Zenon DEF Cleanup, Goto
    <3> QED BY <3>1, <1>0, <1>00, Zenon DEF OwnerInv, Finishing
  <2> QED BY <1>1, <2>1, <2>2, <2>3, <2>4, <2>5, <2>6, <2>7, <2>8, <2>9, <2>10, <2>11, Zenon DEF Step
<1>2. CASE Checkpoint
  BY <1>2, <1>0, Zenon DEF Checkpoint, OwnerInv
<1>3. CASE Reopen
  <2>1. /\ UNCHANGED <<undo, committer, transaction_lock>>
        /\ pc' = [t \in Txns |-> IF pc[t] = "committed" THEN "cleaned" ELSE pc[t]]
    BY <1>3, Zenon DEF Reopen
  <2> QED BY <2>1, <1>0, Zenon DEF OwnerInv, Finishing
<1> QED BY <1>1, <1>2, <1>3, Zenon DEF Next, Step

\* Vector v is changed to x and keeps its insert stamps.
Restamped(v, x) ==
    /\ x \in ChunkVectors(Stamps) /\ v \in Vectors
    /\ vector_info' = [vector_info EXCEPT ![v] = x]
    /\ vector_info[v].type # "none" =>
         \A i \in Rows : InsertStamp(x, i) = InsertStamp(vector_info[v], i)

\* GetVectorInfo keeps the insert stamps.
LEMMA GetStamp ==
    ASSUME NEW T, NEW v, vector_info[v] \in InfosOver(T), NEW i \in Rows, vector_info[v].type # "none"
    PROVE  InsertStamp(GetVectorInfo(v), i) = InsertStamp(vector_info[v], i)
<1>1. CASE vector_info[v] \in Nones
  BY <1>1, Zenon DEF Nones
<1>2. CASE vector_info[v] \in Constants(T)
  BY <1>2, Zenon DEF GetVectorInfo, Constants, VectorInfo, InsertStamp
<1>3. CASE vector_info[v] \in ChunkVectors(T)
  BY <1>3, Zenon DEF GetVectorInfo, ChunkVectors
<1> QED BY <1>1, <1>2, <1>3, Zenon DEF InfosOver

\* RowGroup::Delete changes one vector and none of its insert stamps.
LEMMA DeleteRestamps ==
    ASSUME RowTypes, IdInv, NEW t \in Txns, NEW v \in Vectors, NEW rows, pc[t] # "idle", Delete(t, v, rows)
    PROVE  \E x : Restamped(v, x)
<1> DEFINE info == [GetVectorInfo(v) EXCEPT !.any_deleted = TRUE]
           n    == FirstConflict(t, info, rows) - 1
           new  == NewlyDeleted(t, info, rows, n)
           marked == CommitDelete1(info, {rows[j] : j \in new}, transaction_id[t])
           unset == CommitDelete1(marked, Unset(t, info, rows, n), NOT_DELETED_ID)
<1>1. vector_info' = [vector_info EXCEPT ![v] = unset] \/ vector_info' = [vector_info EXCEPT ![v] = marked]
  BY Zenon DEF Delete
<1>2. 0 \in Stamps /\ NOT_DELETED_ID \in Stamps /\ transaction_id[t] \in Stamps
  BY StampsHave, Zenon DEF RowTypes
<1>3. vector_info[v] \in InfosOver(Stamps)
  BY InfoTyped, Zenon
<1>4. GetVectorInfo(v) \in ChunkVectors(Stamps)
  BY <1>2, <1>3, GetType, Zenon
<1>5. /\ info \in ChunkVectors(Stamps)
      /\ \A i \in Rows : InsertStamp(info, i) = InsertStamp(GetVectorInfo(v), i)
  BY <1>4, AnyDeleted, Zenon
<1> HIDE DEF info, n
<1>6. /\ marked \in ChunkVectors(Stamps)
      /\ \A i \in Rows : InsertStamp(marked, i) = InsertStamp(info, i)
  BY <1>2, <1>5, CommitDelete1Type, Zenon
<1> HIDE DEF marked
<1>7. /\ unset \in ChunkVectors(Stamps)
      /\ \A i \in Rows : InsertStamp(unset, i) = InsertStamp(marked, i)
  BY <1>2, <1>6, CommitDelete1Type, Zenon
<1> HIDE DEF unset
<1>8. vector_info[v].type # "none" => \A i \in Rows : InsertStamp(GetVectorInfo(v), i) = InsertStamp(vector_info[v], i)
  BY <1>3, GetStamp, Zenon
<1>9. CASE vector_info' = [vector_info EXCEPT ![v] = marked]
  <2>1. Restamped(v, marked)
    BY <1>9, <1>5, <1>6, <1>8, Zenon DEF Restamped
  <2> QED BY <2>1, Zenon
<1>10. CASE vector_info' = [vector_info EXCEPT ![v] = unset]
  <2>1. Restamped(v, unset)
    BY <1>10, <1>5, <1>6, <1>7, <1>8, Zenon DEF Restamped
  <2> QED BY <2>1, Zenon
<1> QED BY <1>1, <1>9, <1>10, Zenon

\* Stamping a delete entry changes one vector and none of its insert stamps.
LEMMA StampRestamps ==
    ASSUME RowTypes, IdInv, NEW e \in Entries, e.type = "delete", NEW id \in Stamps,
           vector_info' = Stamped(e, id)
    PROVE  /\ Restamped(e.vector, CommitDelete1(GetVectorInfo(e.vector), DeletedRows(e), id))
           /\ GetVectorInfo(e.vector) \in ChunkVectors(Stamps)
<1> DEFINE v == e.vector
           x == CommitDelete1(GetVectorInfo(v), DeletedRows(e), id)
<1>1. v \in Vectors
  BY Zenon DEF Entries
<1>2. vector_info' = [vector_info EXCEPT ![v] = x]
  BY Zenon DEF Stamped
<1>3. vector_info[v] \in InfosOver(Stamps)
  BY <1>1, InfoTyped, Zenon
<1>4. 0 \in Stamps /\ NOT_DELETED_ID \in Stamps
  BY StampsHave, Zenon DEF RowTypes
<1> HIDE DEF v
<1>5. GetVectorInfo(v) \in ChunkVectors(Stamps)
  BY <1>3, <1>4, GetType, Zenon
<1>6. /\ x \in ChunkVectors(Stamps)
      /\ \A i \in Rows : InsertStamp(x, i) = InsertStamp(GetVectorInfo(v), i)
  BY <1>5, CommitDelete1Type, Zenon
<1>7. vector_info[v].type # "none" => \A i \in Rows : InsertStamp(GetVectorInfo(v), i) = InsertStamp(vector_info[v], i)
  BY <1>3, GetStamp, Zenon
<1> HIDE DEF x
<1>8. Restamped(v, x)
  BY <1>1, <1>2, <1>6, <1>7, Zenon DEF Restamped
<1> QED BY <1>5, <1>8, Zenon DEF v, x

\* A row that others do not see stays hidden when its stamp stays.
LEMMA HiddenStays ==
    ASSUME NEW t \in Txns, NEW v \in Vectors, NEW i \in Rows, Hidden(t, v, i),
           vector_info'[v].type # "none",
           InsertStamp(vector_info'[v], i) = InsertStamp(vector_info[v], i),
           pc[t] \in Finishing => pc'[t] \in Finishing,
           UNCHANGED <<transaction_id, start_time>>
    PROVE  Hidden(t, v, i)'
  BY Zenon DEF Hidden, InsertStamp

\* An append that is not finished stays fresh when the stamps of its rows stay.
LEMMA FreshStays ==
    ASSUME NEW t \in Txns, NEW n, Fresh(t, n), UNCHANGED <<count, requires_new_row_group>>,
           has_unserialized_changes => has_unserialized_changes',
           pc'[t] = "flush_failed" => pc[t] = "flush_failed",
           UNCHANGED <<transaction_id, start_time>>,
           pc[t] \in Finishing => pc'[t] \in Finishing,
           \A v \in Vectors, i \in Rows : n <= Row(v, i) /\ Row(v, i) < count /\ Hidden(t, v, i) =>
              /\ vector_info'[v].type # "none"
              /\ InsertStamp(vector_info'[v], i) = InsertStamp(vector_info[v], i)
    PROVE  Fresh(t, n)'
<1>1. ASSUME NEW v \in Vectors, NEW i \in Rows, n <= Row(v, i), Row(v, i) < count'
      PROVE  Hidden(t, v, i)'
  <2>1. Hidden(t, v, i)
    BY <1>1, Zenon DEF Fresh
  <2> QED BY <1>1, <2>1, HiddenStays, Zenon
<1> QED BY <1>1, Zenon DEF Fresh, Row

\* An append that is not finished stays fresh when a delete changes a vector.
LEMMA FreshRestamped ==
    ASSUME NEW t \in Txns, NEW n, Fresh(t, n), UNCHANGED <<count, requires_new_row_group>>,
           has_unserialized_changes => has_unserialized_changes',
           pc'[t] = "flush_failed" => pc[t] = "flush_failed",
           UNCHANGED <<transaction_id, start_time>>,
           pc[t] \in Finishing => pc'[t] \in Finishing,
           vector_info \in [Vectors -> Infos],
           NEW w, NEW x, Restamped(w, x)
    PROVE  Fresh(t, n)'
<1>1. ASSUME NEW v \in Vectors, NEW i \in Rows, Hidden(t, v, i)
      PROVE  /\ vector_info'[v].type # "none"
             /\ InsertStamp(vector_info'[v], i) = InsertStamp(vector_info[v], i)
  <2>1. vector_info[v].type # "none"
    BY <1>1, Zenon DEF Hidden
  <2>2. CASE v = w
    <3>1. vector_info'[v] = x
      BY <2>2, Zenon DEF Restamped
    <3>2. x.type # "none"
      BY Zenon DEF Restamped, ChunkVectors
    <3> QED BY <3>1, <3>2, <2>1, <2>2, Zenon DEF Restamped
  <2>3. CASE v # w
    <3>1. vector_info'[v] = vector_info[v]
      BY <2>3, Zenon DEF Restamped
    <3> QED BY <3>1, <2>1, Zenon
  <2> QED BY <2>2, <2>3, Zenon
<1> QED BY <1>1, FreshStays, Zenon

\* AppendInv stays when no append begins and count stays.
LEMMA QuietAppends ==
    ASSUME AppendInv, UNCHANGED <<requires_new_row_group, storage_count, count>>, count \in Nat,
           has_unserialized_changes => has_unserialized_changes',
           \A u \in Txns, n \in 0..MAX_ROWS : AppendsFrom(u, n)' => AppendsFrom(u, n) /\ Fresh(u, n)',
           \A v \in Vectors : vector_info'[v].type = "constant" => vector_info[v].type = "constant",
           \A u \in Txns : \A k \in 1..Len(undo'[u]) : undo'[u][k].type = "append" =>
             /\ k \in 1..Len(undo[u]) /\ undo'[u][k] = undo[u][k]
             /\ pc'[u] \in {"flushed", "stamping"} => pc[u] \in {"flushed", "stamping"}
             /\ pc'[u] = "committed" =>
                  \/ pc[u] = "committed"
                  \/ pc[u] = "stamping" /\ \A w \in Txns, n \in 0..MAX_ROWS : ~AppendsFrom(w, n)'
    PROVE  AppendInv'
<1>1. FreshInv'
  BY Zenon DEF FreshInv
<1>2. ConstantInv'
  BY Zenon DEF AppendInv, ConstantInv, Row
<1>3. ASSUME NEW u \in Txns, NEW k \in 1..Len(undo'[u]), undo'[u][k].type = "append"
      PROVE  LET end == undo'[u][k].start + undo'[u][k].count
             IN  /\ pc'[u] \in {"flushed", "stamping"} => count' = end
                 /\ pc'[u] = "committed" =>
                      end <= count' /\ \A w \in Txns, n \in 0..MAX_ROWS : AppendsFrom(w, n)' => end <= n
  <2>1. /\ k \in 1..Len(undo[u]) /\ undo'[u][k] = undo[u][k] /\ undo[u][k].type = "append"
        /\ pc'[u] \in {"flushed", "stamping"} => pc[u] \in {"flushed", "stamping"}
        /\ pc'[u] = "committed" =>
                  \/ pc[u] = "committed"
                  \/ pc[u] = "stamping" /\ \A w \in Txns, n \in 0..MAX_ROWS : ~AppendsFrom(w, n)'
    BY <1>3, Zenon
  <2> DEFINE end == undo[u][k].start + undo[u][k].count
  <2>2. /\ pc[u] \in {"flushed", "stamping"} => count = end
        /\ pc[u] = "committed" =>
             end <= count /\ \A w \in Txns, n \in 0..MAX_ROWS : AppendsFrom(w, n) => end <= n
    BY <2>1, Zenon DEF AppendInv, EndInv
  <2>3. count <= count
    OBVIOUS
  <2> HIDE DEF end
  <2>4. /\ pc'[u] \in {"flushed", "stamping"} => count' = end
        /\ pc'[u] = "committed" =>
             end <= count' /\ \A w \in Txns, n \in 0..MAX_ROWS : AppendsFrom(w, n)' => end <= n
    BY <2>1, <2>2, <2>3, Zenon
  <2> QED BY <2>1, <2>4, Zenon DEF end
<1>4. EndInv'
  BY <1>3, Zenon DEF EndInv
<1> QED BY <1>1, <1>2, <1>4, Zenon DEF AppendInv

\* Nothing but phases, times and locks changes, of t.
LEMMA PhaseOnly ==
    ASSUME RowTypes, PhaseInv, AppendInv, NEW t \in Txns,
           UNCHANGED <<vector_info, count, has_unserialized_changes, disk, requires_new_row_group,
                       start_time, transaction_id, undo>>,
           \A u \in Txns \ {t} : pc'[u] = pc[u],
           pc'[t] \in Appending => pc[t] \in Appending,
           pc'[t] = "flush_failed" => pc[t] = "flush_failed",
           pc[t] \in Finishing /\ pc'[t] \in Appending => pc'[t] \in Finishing,
           pc'[t] \in {"flushed", "stamping"} => pc[t] \in {"flushed", "stamping"},
           pc'[t] = "committed" => pc[t] \in {"committed", "stamping"} \/ undo[t] = <<>>
    PROVE  AppendInv'
<1>1. ASSUME NEW u \in Txns, NEW n \in 0..MAX_ROWS, AppendsFrom(u, n)'
      PROVE  AppendsFrom(u, n) /\ Fresh(u, n)'
  <2>1. AppendsFrom(u, n)
    BY <1>1, AppendsStay, Zenon
  <2>2. Fresh(u, n)
    BY <2>1, Zenon DEF AppendInv, FreshInv
  <2>3. pc'[u] \in Appending
    BY <1>1, Zenon DEF AppendsFrom
  <2>4. \A v \in Vectors, i \in Rows : Hidden(u, v, i) =>
          /\ vector_info'[v].type # "none"
          /\ InsertStamp(vector_info'[v], i) = InsertStamp(vector_info[v], i)
    BY Zenon DEF Hidden
  <2>5. /\ pc'[u] = "flush_failed" => pc[u] = "flush_failed"
        /\ pc[u] \in Finishing => pc'[u] \in Finishing
    BY <2>3, Zenon
  <2>6. Fresh(u, n)'
    BY <2>2, <2>4, <2>5, FreshStays, Zenon
  <2> QED BY <2>1, <2>6, Zenon
<1>2. ASSUME NEW u \in Txns, NEW k \in 1..Len(undo'[u]), undo'[u][k].type = "append"
      PROVE  /\ k \in 1..Len(undo[u]) /\ undo'[u][k] = undo[u][k]
             /\ pc'[u] \in {"flushed", "stamping"} => pc[u] \in {"flushed", "stamping"}
             /\ pc'[u] = "committed" =>
                  \/ pc[u] = "committed"
                  \/ pc[u] = "stamping" /\ \A w \in Txns, n \in 0..MAX_ROWS : ~AppendsFrom(w, n)'
  <2>1. k \in 1..Len(undo[u]) /\ undo'[u][k] = undo[u][k]
    BY Zenon
  <2>2. undo[u] # <<>>
    BY <2>1
  <2>3. ASSUME pc'[u] = "committed", pc[u] = "stamping", NEW w \in Txns, NEW n \in 0..MAX_ROWS, AppendsFrom(w, n)'
        PROVE  FALSE
    <3>1. AppendsFrom(w, n)
      BY <2>3, <1>1, Zenon
    <3>2. committer = w /\ committer = u
      BY <3>1, <2>3, OneAppend, Zenon DEF PhaseInv, OwnerInv
    <3> QED BY <2>3, <3>2, Zenon DEF AppendsFrom, Appending, Finishing
  <2> QED BY <2>1, <2>2, <2>3, Zenon
<1>3. count \in Nat
  BY Numbers, Zenon DEF RowTypes, PlainTypes
<1> QED BY <1>1, <1>2, <1>3, QuietAppends, Zenon DEF disk

\* An entry of an undo buffer that was appended to is an old one, or the new one.
LEMMA AppendedEntry ==
    ASSUME NEW s \in Seq(Entries), NEW e, NEW k \in 1..Len(Append(s, e))
    PROVE  (k \in 1..Len(s) /\ Append(s, e)[k] = s[k]) \/ Append(s, e)[k] = e
  OBVIOUS

\* Deletes are marked, stamped or unset; the undo buffer of t may grow by a delete.
LEMMA MarksOnly ==
    ASSUME RowTypes, PhaseInv, AppendInv, NEW t \in Txns, NEW w, NEW x, Restamped(w, x),
           UNCHANGED <<count, disk, requires_new_row_group, start_time, transaction_id>>,
           has_unserialized_changes',
           \A u \in Txns \ {t} : pc'[u] = pc[u] /\ undo'[u] = undo[u],
           \/ undo'[t] = undo[t]
           \/ \E e : e.type = "delete" /\ undo'[t] = Append(undo[t], e),
           pc'[t] \in Appending => pc[t] \in Appending,
           pc'[t] = "flush_failed" => pc[t] = "flush_failed",
           pc[t] \in Finishing => pc'[t] \in Finishing,
           pc'[t] \in {"flushed", "stamping"} => pc[t] \in {"flushed", "stamping"},
           pc'[t] # "committed"
    PROVE  AppendInv' /\ vector_info' \in [Vectors -> InfosOver(Stamps)]
<1>0. ASSUME NEW u \in Txns, NEW k \in 1..Len(undo'[u]), undo'[u][k].type = "append"
      PROVE  k \in 1..Len(undo[u]) /\ undo'[u][k] = undo[u][k]
  <2>1. CASE undo'[u] = undo[u]
    BY <2>1, Zenon
  <2>2. ASSUME NEW e, e.type = "delete", undo'[u] = Append(undo[u], e)
        PROVE  k \in 1..Len(undo[u]) /\ undo'[u][k] = undo[u][k]
    <3>1. undo[u] \in Seq(Entries)
      BY Zenon DEF RowTypes, PlainTypes
    <3>2. k \in 1..Len(Append(undo[u], e)) /\ Append(undo[u], e)[k] # e
      BY <1>0, <2>2, Zenon
    <3>3. k \in 1..Len(undo[u]) /\ Append(undo[u], e)[k] = undo[u][k]
      BY <3>1, <3>2, AppendedEntry, Zenon
    <3> QED BY <2>2, <3>3, Zenon
  <2> QED BY <2>1, <2>2, Zenon
<1>1. ASSUME NEW u \in Txns, NEW n \in 0..MAX_ROWS, AppendsFrom(u, n)'
      PROVE  AppendsFrom(u, n) /\ Fresh(u, n)'
  <2>1. AppendsFrom(u, n)
    BY <1>1, <1>0, Zenon DEF AppendsFrom, Appending
  <2>2. Fresh(u, n)
    BY <2>1, Zenon DEF AppendInv, FreshInv
  <2>3. vector_info \in [Vectors -> Infos]
    BY Zenon DEF RowTypes
  <2>4. /\ pc'[u] = "flush_failed" => pc[u] = "flush_failed"
        /\ pc[u] \in Finishing => pc'[u] \in Finishing
    BY Zenon
  <2>5. Fresh(u, n)'
    BY <2>2, <2>3, <2>4, FreshRestamped, Zenon
  <2> QED BY <2>1, <2>5, Zenon
<1>2. ASSUME NEW v \in Vectors, vector_info'[v].type = "constant"
      PROVE  vector_info[v].type = "constant"
  <2>1. x.type # "constant"
    BY Zenon DEF Restamped, ChunkVectors
  <2>2. vector_info'[v] = x \/ vector_info'[v] = vector_info[v]
    BY Zenon DEF Restamped, RowTypes
  <2> QED BY <2>1, <2>2, <1>2, Zenon
<1>3. count \in Nat
  BY RowVersionsAssumption DEF RowTypes, PlainTypes
<1>4. ASSUME NEW u \in Txns, NEW k \in 1..Len(undo'[u]), undo'[u][k].type = "append"
      PROVE  /\ k \in 1..Len(undo[u]) /\ undo'[u][k] = undo[u][k]
             /\ pc'[u] \in {"flushed", "stamping"} => pc[u] \in {"flushed", "stamping"}
             /\ pc'[u] = "committed" => pc[u] = "committed"
  BY <1>0, <1>4, Zenon
<1>5. AppendInv'
  BY <1>1, <1>2, <1>3, <1>4, QuietAppends, Zenon DEF disk
<1>6. vector_info' \in [Vectors -> InfosOver(Stamps)]
  BY InfoTyped, Zenon DEF Restamped, InfosOver, RowTypes
<1> QED BY <1>5, <1>6, Zenon

\* Starting a transaction keeps AppendInv.
LEMMA StartAppends ==
    ASSUME RowTypes, PhaseInv, AppendInv, NEW t \in Txns, StartTransaction(t)
    PROVE  AppendInv'
<1>1. /\ pc[t] = "idle" /\ pc' = [pc EXCEPT ![t] = "running"] /\ transaction_lock = Nobody
      /\ transaction_id' = [transaction_id EXCEPT ![t] = current_transaction_id]
      /\ UNCHANGED <<vector_info, size, count, has_unserialized_changes, disk, requires_new_row_group,
                   commit_id, undo, lowest, pos, stop, transaction_lock, committer>>
  BY Zenon DEF StartTransaction, Goto
<1>2. /\ pc'[t] = "running" /\ \A u \in Txns \ {t} : pc'[u] = pc[u] /\ transaction_id'[u] = transaction_id[u]
  BY <1>1, Zenon DEF RowTypes, PlainTypes
<1>3. \A u \in Txns : pc[u] \notin Finishing
  BY <1>1, RowVersionsAssumption, Zenon DEF PhaseInv, OwnerInv
<1>4. ASSUME NEW u \in Txns, NEW n \in 0..MAX_ROWS, AppendsFrom(u, n)'
      PROVE  AppendsFrom(u, n) /\ Fresh(u, n)'
  <2>1. u # t
    BY <1>2, <1>4, Zenon DEF AppendsFrom, Appending, Finishing
  <2>2. AppendsFrom(u, n)
    BY <1>1, <1>2, <1>4, <2>1, AppendsStay, Zenon
  <2>3. Fresh(u, n)
    BY <2>2, Zenon DEF AppendInv, FreshInv
  <2>4. ASSUME NEW v \in Vectors, NEW i \in Rows, Hidden(u, v, i) PROVE Hidden(u, v, i)'
    BY <1>1, <1>2, <1>3, <2>1, <2>4, Zenon DEF Hidden, InsertStamp
  <2>5. Fresh(u, n)'
    BY <1>1, <1>2, <2>1, <2>3, <2>4, Zenon DEF Fresh, Row
  <2> QED BY <2>2, <2>5, Zenon
<1>5. ASSUME NEW u \in Txns, NEW k \in 1..Len(undo'[u]), undo'[u][k].type = "append"
      PROVE  /\ k \in 1..Len(undo[u]) /\ undo'[u][k] = undo[u][k]
             /\ pc'[u] \in {"flushed", "stamping"} => pc[u] \in {"flushed", "stamping"}
             /\ pc'[u] = "committed" => pc[u] = "committed"
  BY <1>1, <1>2, Zenon
<1>6. count \in Nat
  BY RowVersionsAssumption DEF RowTypes, PlainTypes
<1> QED BY <1>1, <1>4, <1>5, <1>6, QuietAppends, Zenon DEF disk

\* Flushing new rows to the end of the row group keeps AppendInv.
LEMMA FlushAppends ==
    ASSUME RowTypes, PhaseInv, AppendInv, NEW t \in Txns, NEW n \in 0..MAX_ROWS, n > 0, Flush(t, n)
    PROVE  AppendInv' /\ vector_info' \in [Vectors -> InfosOver(Stamps)]
<1> DEFINE e == [type |-> "append", start |-> count, count |-> n]
<1>1. /\ pc[t] = "running" /\ pc' = [pc EXCEPT ![t] = "flushed"] /\ committer = Nobody
      /\ count + n <= MAX_ROWS /\ ~requires_new_row_group
      /\ undo' = [undo EXCEPT ![t] = Append(undo[t], e)]
      /\ vector_info' = AppendVersionInfo(count, count + n, transaction_id[t])
      /\ count' = count + n /\ has_unserialized_changes' = TRUE
      /\ UNCHANGED <<disk, requires_new_row_group, times>>
  <2>1. n # 0
    OBVIOUS
  <2> QED BY <2>1, Zenon DEF Flush, Goto
<1>2. MAX_ROWS \in Nat /\ n \in Nat /\ count \in Nat /\ count \in 0..MAX_ROWS /\ Nobody \notin Txns
  BY RowVersionsAssumption DEF RowTypes, PlainTypes
<1>3. pc'[t] = "flushed" /\ \A u \in Txns \ {t} : pc'[u] = pc[u] /\ undo'[u] = undo[u]
  BY <1>1, Zenon DEF RowTypes, PlainTypes
<1>4. /\ undo'[t] = Append(undo[t], e) /\ undo[t] \in Seq(Entries)
      /\ \A k \in 1..Len(undo[t]) : undo[t][k].type # "append"
  BY <1>1, Zenon DEF RowTypes, PlainTypes, PhaseInv, OwnerInv
<1>5. \A k \in 1..Len(undo'[t]) : undo'[t][k].type = "append" =>
          undo'[t][k].start = count /\ undo'[t][k].count = n
  BY <1>4
<1>6. ASSUME NEW u \in Txns, NEW m \in 0..MAX_ROWS, AppendsFrom(u, m)'
      PROVE  u = t /\ m = count
  <2>1. CASE u = t
    BY <2>1, <1>5, <1>6, Zenon DEF AppendsFrom
  <2>2. CASE u # t
    <3>1. AppendsFrom(u, m)
      BY <2>2, <1>3, <1>6, AppendsStay, Zenon
    <3> QED BY <3>1, <1>1, <1>2, OneAppend, Zenon DEF PhaseInv
  <2> QED BY <2>1, <2>2, Zenon
<1>7. /\ vector_info' \in [Vectors -> InfosOver(Stamps)]
      /\ \A v \in Vectors, i \in Rows : count <= Row(v, i) /\ Row(v, i) < count + n =>
                /\ vector_info'[v].type # "none"
                /\ InsertStamp(vector_info'[v], i) = transaction_id[t]
      /\ \A v \in Vectors : vector_info'[v].type = "constant" =>
                \/ vector_info[v].type = "constant"
                \/ count <= Row(v, 0) /\ Row(v + 1, 0) <= count + n
  BY <1>1, <1>2, FlushVectors, Zenon
<1>8. ASSUME NEW m, m = count
      PROVE  Fresh(t, m)'
  <2>1. transaction_id' = transaction_id
    BY <1>1, Zenon DEF times
  <2>2. ASSUME NEW v \in Vectors, NEW i \in Rows, m <= Row(v, i), Row(v, i) < count'
        PROVE  Hidden(t, v, i)'
    <3>1. /\ vector_info'[v].type # "none"
          /\ InsertStamp(vector_info'[v], i) = transaction_id[t]
      BY <1>1, <1>7, <1>8, <2>2, Zenon
    <3> QED BY <2>1, <3>1, Zenon DEF Hidden, InsertStamp
  <2>3. m <= count'
    BY <1>1, <1>2, <1>8
  <2> QED BY <2>2, <2>3, <1>1, <1>3, Zenon DEF Fresh, Row
<1>9. FreshInv'
  BY <1>6, <1>8, Zenon DEF FreshInv
<1>10. ASSUME NEW v \in Vectors, vector_info'[v].type = "constant"
       PROVE  /\ requires_new_row_group' \/ Row(v + 1, 0) <= count'
              /\ Row(v + 1, 0) <= count \/ count <= Row(v, 0)
  <2>1. Row(v + 1, 0) \in Nat /\ Row(v, 0) \in Nat
    <3>1. v \in Nat /\ 0 \in Rows
      BY RowVersionsAssumption DEF Vectors, Rows
    <3> QED BY <3>1, RowInNat, Zenon
  <2>2. CASE vector_info[v].type = "constant"
    <3>1. Row(v + 1, 0) <= count
      BY <1>1, <2>2, Zenon DEF AppendInv, ConstantInv
    <3> QED BY <3>1, <2>1, <1>1, <1>2
  <2>3. CASE count <= Row(v, 0) /\ Row(v + 1, 0) <= count + n
    BY <2>3, <1>1, Zenon
  <2> QED BY <2>2, <2>3, <1>7, <1>10, Zenon
<1>11. ConstantInv'
  BY <1>6, <1>10, Zenon DEF ConstantInv, Row
<1>12. ASSUME NEW u \in Txns, NEW k \in 1..Len(undo'[u]), undo'[u][k].type = "append"
       PROVE  LET end == undo'[u][k].start + undo'[u][k].count
              IN  /\ pc'[u] \in {"flushed", "stamping"} => count' = end
                  /\ pc'[u] = "committed" =>
                       end <= count' /\ \A w \in Txns, m \in 0..MAX_ROWS : AppendsFrom(w, m)' => end <= m
  <2>1. CASE u = t
    BY <2>1, <1>1, <1>3, <1>5, <1>12, Zenon
  <2>2. CASE u # t
    <3> DEFINE end == undo[u][k].start + undo[u][k].count
    <3>1. undo'[u] = undo[u] /\ pc'[u] = pc[u] /\ k \in 1..Len(undo[u]) /\ undo[u][k].type = "append"
      BY <2>2, <1>3, <1>12, Zenon
    <3>2. pc[u] \notin {"flushed", "stamping"}
      BY <1>1, <1>2, Zenon DEF PhaseInv, OwnerInv
    <3>3. ASSUME pc[u] = "committed" PROVE end <= count
      BY <3>1, <3>3, Zenon DEF AppendInv, EndInv
    <3>4. end \in Nat
      BY <3>1, EntryRows DEF RowTypes
    <3> HIDE DEF end
    <3>5. ASSUME pc[u] = "committed" PROVE end <= count'
      BY <3>3, <3>5, <3>4, <1>1, <1>2
    <3>6. /\ pc'[u] \in {"flushed", "stamping"} => count' = end
          /\ pc'[u] = "committed" =>
                       end <= count' /\ \A w \in Txns, m \in 0..MAX_ROWS : AppendsFrom(w, m)' => end <= m
      BY <3>1, <3>2, <3>3, <3>5, <1>6, Zenon
    <3> QED BY <3>1, <3>6, Zenon DEF end
  <2> QED BY <2>1, <2>2, Zenon
<1>13. EndInv'
  BY <1>12, Zenon DEF EndInv
<1> QED BY <1>1, <1>7, <1>9, <1>11, <1>13, Zenon DEF AppendInv

\* Reverting the open append, or one that has failed at the end of the table.
LEMMA RevertAppends ==
    ASSUME RowTypes, PhaseInv, AppendInv, NEW t \in Txns, NEW e, RevertAppend(e),
           e.start \in 0..MAX_ROWS,
           AppendsFrom(t, e.start) \/ (e.start = count /\ committer = Nobody /\ ~requires_new_row_group),
           \A u \in Txns, m \in 0..MAX_ROWS : AppendsFrom(u, m)' => u = t /\ m = e.start,
           UNCHANGED <<disk, requires_new_row_group, times>>,
           \A u \in Txns \ {t} : pc'[u] = pc[u] /\ undo'[u] = undo[u],
           pc'[t] \in {"flush_failed", "reverting", "undoing"}
    PROVE  AppendInv' /\ vector_info' \in [Vectors -> InfosOver(Stamps)]
<1> DEFINE n == e.start
<1>1. count \in Nat /\ n \in Nat /\ Nobody \notin Txns /\ MAX_ROWS \in Nat
  BY RowVersionsAssumption DEF RowTypes, PlainTypes
<1>2. /\ n <= count /\ ~requires_new_row_group
      /\ n < count => has_unserialized_changes
  <2>1. CASE AppendsFrom(t, n)
    BY <2>1, Zenon DEF AppendInv, FreshInv, Fresh
  <2>2. CASE n = count /\ ~requires_new_row_group
    BY <2>2, <1>1
  <2> QED BY <2>1, <2>2, Zenon
<1>3. /\ vector_info' \in [Vectors -> InfosOver(Stamps)]
      /\ count' = n /\ UNCHANGED <<size, has_unserialized_changes>>
      /\ \A v \in Vectors : vector_info'[v] = IF n <= Row(v, 0) THEN NoInfo ELSE vector_info[v]
  BY <1>1, <1>2, RevertVectors, Zenon
<1>4. \A u \in Txns \ {t} : pc[u] \notin {"flushed", "stamping"}
  <2>1. CASE AppendsFrom(t, n)
    <3>1. committer = t
      BY <2>1, OneAppend, Zenon DEF PhaseInv
    <3> QED BY <3>1, Zenon DEF PhaseInv, OwnerInv
  <2>2. CASE committer = Nobody
    BY <2>2, <1>1, Zenon DEF PhaseInv, OwnerInv
  <2> QED BY <2>1, <2>2, Zenon
<1> HIDE DEF n
<1>5. ASSUME NEW m, m = n PROVE Fresh(t, m)'
  <2>1. ASSUME NEW v \in Vectors, NEW i \in Rows, m <= Row(v, i), Row(v, i) < count' PROVE FALSE
    <3>1. Row(v, i) \in Nat
      <4>1. v \in Nat
        BY Numbers, Zenon
      <4> QED BY <4>1, RowInNat, Zenon
    <3>2. count' \in Nat /\ count' <= Row(v, i)
      BY <2>1, <1>1, <1>3, <1>5, Zenon
    <3> QED BY <2>1, <3>1, <3>2, Between, Zenon
  <2>2. m <= count' /\ ~(m < count')
    BY <1>1, <1>3, <1>5
  <2> QED BY <2>1, <2>2, <1>2, Zenon DEF Fresh, Row
<1>6. FreshInv'
  BY <1>5, Zenon DEF FreshInv, n
<1>7. ASSUME NEW v \in Vectors, vector_info'[v].type = "constant"
      PROVE  Row(v + 1, 0) <= n
  <2>1. NoInfo.type # "constant"
    BY Zenon DEF NoInfo
  <2>2. vector_info[v].type = "constant" /\ ~(n <= Row(v, 0))
    BY <1>3, <1>7, <2>1, Zenon
  <2>3. CASE AppendsFrom(t, n)
    BY <2>2, <2>3, Zenon DEF AppendInv, ConstantInv, n
  <2>4. CASE n = count
    BY <2>2, <2>4, <1>2, Zenon DEF AppendInv, ConstantInv
  <2> QED BY <2>3, <2>4, Zenon DEF n
<1>8. ConstantInv'
  BY <1>3, <1>7, Zenon DEF ConstantInv, Row, n
<1>9. ASSUME NEW u \in Txns, NEW k \in 1..Len(undo'[u]), undo'[u][k].type = "append"
       PROVE  LET end == undo'[u][k].start + undo'[u][k].count
              IN  /\ pc'[u] \in {"flushed", "stamping"} => count' = end
                  /\ pc'[u] = "committed" =>
                       end <= count' /\ \A w \in Txns, m \in 0..MAX_ROWS : AppendsFrom(w, m)' => end <= m
  <2>1. CASE u = t
    BY <2>1, Zenon
  <2>2. CASE u # t
    <3> DEFINE end == undo[u][k].start + undo[u][k].count
    <3>1. undo'[u] = undo[u] /\ pc'[u] = pc[u] /\ k \in 1..Len(undo[u]) /\ undo[u][k].type = "append"
      BY <2>2, <1>9, Zenon
    <3>2. ASSUME pc[u] = "committed" PROVE end <= n
      <4>1. CASE AppendsFrom(t, n)
        BY <3>1, <3>2, <4>1, Zenon DEF AppendInv, EndInv, n
      <4>2. CASE n = count
        BY <3>1, <3>2, <4>2, Zenon DEF AppendInv, EndInv
      <4> QED BY <4>1, <4>2, Zenon DEF n
    <3> HIDE DEF end
    <3>3. /\ pc'[u] \in {"flushed", "stamping"} => count' = end
          /\ pc'[u] = "committed" =>
                       end <= count' /\ \A w \in Txns, m \in 0..MAX_ROWS : AppendsFrom(w, m)' => end <= m
      BY <2>2, <3>1, <3>2, <1>3, <1>4, Zenon DEF n
    <3> QED BY <3>1, <3>3, Zenon DEF end
  <2> QED BY <2>1, <2>2, Zenon
<1>10. EndInv'
  BY <1>9, Zenon DEF EndInv
<1>11. ~has_unserialized_changes' => storage_count' = count'
  <2>1. ASSUME ~has_unserialized_changes PROVE storage_count = count /\ n = count
    BY <2>1, <1>1, <1>2 DEF AppendInv
  <2> QED BY <2>1, <1>3, Zenon DEF disk
<1> QED BY <1>3, <1>6, <1>8, <1>10, <1>11, Zenon DEF AppendInv

\* A failed append leaves nothing behind but its entry.
LEMMA FlushFailsAppends ==
    ASSUME RowTypes, PhaseInv, AppendInv, NEW t \in Txns, NEW n \in 0..MAX_ROWS, FlushFails(t, n)
    PROVE  AppendInv' /\ vector_info' \in [Vectors -> InfosOver(Stamps)]
<1> DEFINE e == [type |-> "append", start |-> count, count |-> n]
<1>1. /\ pc[t] = "running" /\ pc' = [pc EXCEPT ![t] = "flush_failed"] /\ committer = Nobody
      /\ ~requires_new_row_group
      /\ undo' = [undo EXCEPT ![t] = Append(undo[t], e)]
      /\ RevertAppend(e)
      /\ UNCHANGED <<disk, requires_new_row_group, times>>
  BY Zenon DEF FlushFails, Goto
<1>2. count \in 0..MAX_ROWS /\ Nobody \notin Txns
  BY RowVersionsAssumption, Zenon DEF RowTypes, PlainTypes
<1>3. pc'[t] = "flush_failed" /\ \A u \in Txns \ {t} : pc'[u] = pc[u] /\ undo'[u] = undo[u]
  BY <1>1, Zenon DEF RowTypes, PlainTypes
<1>4. /\ undo'[t] = Append(undo[t], e) /\ undo[t] \in Seq(Entries)
      /\ \A k \in 1..Len(undo[t]) : undo[t][k].type # "append"
  BY <1>1, Zenon DEF RowTypes, PlainTypes, PhaseInv, OwnerInv
<1>5. \A k \in 1..Len(undo'[t]) : undo'[t][k].type = "append" => undo'[t][k].start = count
  BY <1>4
<1>6. ASSUME NEW u \in Txns, NEW m \in 0..MAX_ROWS, AppendsFrom(u, m)'
      PROVE  u = t /\ m = count
  <2>1. CASE u = t
    BY <2>1, <1>5, <1>6, Zenon DEF AppendsFrom
  <2>2. CASE u # t
    <3>1. AppendsFrom(u, m)
      BY <2>2, <1>3, <1>6, AppendsStay, Zenon
    <3> QED BY <3>1, <1>1, <1>2, OneAppend, Zenon DEF PhaseInv
  <2> QED BY <2>1, <2>2, Zenon
<1>7. e.start = count
  BY Zenon
<1>8. PICK x : x = e
  BY Zenon
<1>9. RevertAppend(x) /\ x.start = count
  BY <1>1, <1>7, <1>8, Zenon
<1> HIDE DEF e
<1> QED BY <1>1, <1>2, <1>3, <1>6, <1>9, RevertAppends, Zenon

\* The append of t gets its commit id, which was drawn after everybody started.
LEMMA CommitAppends ==
    ASSUME RowTypes, PhaseInv, AppendInv, Low, NEW t \in Txns, CommitEntry(t),
           undo[t][pos[t]].type = "append"
    PROVE  AppendInv' /\ vector_info' \in [Vectors -> InfosOver(Stamps)]
<1> DEFINE e == undo[t][pos[t]]
<1>1. /\ pc[t] = "stamping" /\ pos[t] <= Len(undo[t])
      /\ vector_info' = Stamped(e, commit_id[t])
      /\ has_unserialized_changes' = (has_unserialized_changes \/ e.type = "delete")
      /\ UNCHANGED <<count, disk, requires_new_row_group, times, undo, pc>>
  BY Zenon DEF CommitEntry
<1>2. pos[t] \in 1..Len(undo[t])
  BY EntryPosition, Zenon
<1>3. /\ vector_info' \in [Vectors -> InfosOver(Stamps)]
      /\ AppendsFrom(t, e.start) /\ e.start \in 0..MAX_ROWS
      /\ \A v \in Vectors : vector_info'[v].type = vector_info[v].type
      /\ \A v \in Vectors, i \in Rows : e.start <= Row(v, i) /\ Row(v, i) < count =>
           InsertStamp(vector_info'[v], i) = commit_id[t]
  BY <1>1, <1>2, StampAppend, Zenon
<1>4. commit_id[t] < TRANSACTION_ID_START /\ \A u \in Txns : start_time[u] < commit_id[t]
  <2>1. commit_id[t] < current_timestamp /\ \A u \in Txns : start_time[u] < commit_id[t]
    BY <1>1, Zenon DEF PhaseInv, IdInv
  <2>2. commit_id[t] \in Nat /\ current_timestamp \in Nat /\ current_timestamp < TRANSACTION_ID_START
        /\ TRANSACTION_ID_START \in Nat
    BY RowVersionsAssumption, Zenon DEF RowTypes, PlainTypes, Low
  <2> QED BY <2>1, <2>2
<1>5. start_time' = start_time
  BY <1>1, Zenon DEF times
<1> HIDE DEF e
<1>6. ASSUME NEW u \in Txns, NEW n \in 0..MAX_ROWS, AppendsFrom(u, n)'
      PROVE  AppendsFrom(u, n) /\ Fresh(u, n)'
  <2>1. AppendsFrom(u, n)
    BY <1>1, <1>6, Zenon DEF AppendsFrom
  <2>2. u = t /\ n = e.start
    <3>1. PICK k \in 1..Len(undo[t]) : undo[t][k].type = "append" /\ undo[t][k].start = e.start
      BY <1>3, Zenon DEF AppendsFrom
    <3>2. committer = u /\ committer = t
      BY <2>1, <1>3, OneAppend, Zenon DEF PhaseInv
    <3> QED BY <2>1, <3>1, <3>2, OneAppend, Zenon DEF PhaseInv
  <2>3. Fresh(t, n)
    BY <2>1, <2>2, Zenon DEF AppendInv, FreshInv
  <2>4. ASSUME NEW v \in Vectors, NEW i \in Rows, n <= Row(v, i), Row(v, i) < count
        PROVE  Hidden(t, v, i)'
    <3>1. vector_info[v].type # "none"
      BY <2>3, <2>4, Zenon DEF Fresh, Hidden
    <3>2. vector_info'[v].type # "none" /\ InsertStamp(vector_info'[v], i) = commit_id[t]
      BY <3>1, <2>2, <2>4, <1>3, Zenon
    <3>3. pc'[t] \in Finishing
      BY <1>1, Zenon DEF Finishing
    <3> QED BY <3>2, <3>3, <1>4, <1>5, Zenon DEF Hidden, InsertStamp
  <2>5. Fresh(t, n)'
    BY <2>3, <2>4, <1>1, Zenon DEF Fresh, Row
  <2> QED BY <2>1, <2>2, <2>5, Zenon
<1>7. ASSUME NEW u \in Txns, NEW k \in 1..Len(undo'[u]), undo'[u][k].type = "append"
      PROVE  /\ k \in 1..Len(undo[u]) /\ undo'[u][k] = undo[u][k] /\ pc'[u] = pc[u]
  BY <1>1, Zenon
<1>8. count \in Nat
  BY RowVersionsAssumption DEF RowTypes, PlainTypes
<1>9. /\ UNCHANGED <<requires_new_row_group, storage_count, count>>
      /\ has_unserialized_changes => has_unserialized_changes'
  BY <1>1, Zenon DEF disk
<1>10. AppendInv'
  BY <1>3, <1>6, <1>7, <1>8, <1>9, QuietAppends, Zenon
<1> QED BY <1>3, <1>10, Zenon

\* The append of t is reverted by the failed commit or by the rollback.
LEMMA UndoAppends ==
    ASSUME RowTypes, PhaseInv, AppendInv, NEW t \in Txns, NEW k \in 1..Len(undo[t]),
           pc[t] \in {"reverting", "undoing"}, undo[t][k].type = "append", RevertAppend(undo[t][k]),
           UNCHANGED <<disk, requires_new_row_group, times, undo>>,
           pc' = pc \/ pc' = [pc EXCEPT ![t] = "undoing"]
    PROVE  AppendInv' /\ vector_info' \in [Vectors -> InfosOver(Stamps)]
<1>1. /\ \A u \in Txns \ {t} : pc'[u] = pc[u] /\ undo'[u] = undo[u]
      /\ pc'[t] \in {"reverting", "undoing"} /\ undo'[t] = undo[t]
  BY Zenon DEF RowTypes, PlainTypes
<1>2. {"reverting", "undoing"} \subseteq Appending
  BY Zenon DEF Appending, Finishing
<1>3. undo[t][k].start \in 0..MAX_ROWS /\ AppendsFrom(t, undo[t][k].start)
  BY <1>2, AppendsOf, Zenon DEF RowTypes
<1>4. ASSUME NEW u \in Txns, NEW m \in 0..MAX_ROWS, AppendsFrom(u, m)'
      PROVE  u = t /\ m = undo[t][k].start
  <2>1. AppendsFrom(u, m)
    BY <1>1, <1>2, <1>4, AppendsStay, Zenon
  <2>2. committer = u /\ committer = t
    BY <2>1, <1>3, OneAppend, Zenon DEF PhaseInv
  <2> QED BY <2>1, <2>2, OneAppend DEF PhaseInv
<1>5. PICK e : e = undo[t][k]
  BY Zenon
<1> QED BY <1>1, <1>3, <1>4, <1>5, RevertAppends, Zenon

\* A cleanup drops no info of an open append.
LEMMA CleanupAppends ==
    ASSUME RowTypes, PhaseInv, AppendInv, NEW t \in Txns, Cleanup(t)
    PROVE  AppendInv' /\ vector_info' \in [Vectors -> InfosOver(Stamps)]
<1>1. /\ pc[t] = "committed" /\ pc' = [pc EXCEPT ![t] = "cleaned"]
      /\ has_unserialized_changes => has_unserialized_changes'
      /\ UNCHANGED <<count, disk, requires_new_row_group, times, undo>>
  BY Zenon DEF Cleanup, Goto
<1>2. /\ vector_info' \in [Vectors -> InfosOver(Stamps)]
      /\ \A v \in Vectors :
           \/ vector_info'[v] = vector_info[v]
           \/ /\ vector_info'[v] = NoInfo
              /\ \A u \in Txns, n \in 0..MAX_ROWS : AppendsFrom(u, n) => Row(v + 1, 0) <= n
  BY CleanupVectors, Zenon
<1>3. pc'[t] = "cleaned" /\ \A u \in Txns \ {t} : pc'[u] = pc[u]
  BY <1>1, Zenon DEF RowTypes, PlainTypes
<1>4. "cleaned" \notin Appending /\ NoInfo.type # "constant"
  BY Zenon DEF Appending, Finishing, NoInfo
<1>5. ASSUME NEW u \in Txns, NEW n \in 0..MAX_ROWS, AppendsFrom(u, n)'
      PROVE  AppendsFrom(u, n) /\ Fresh(u, n)'
  <2>1. pc'[u] = pc[u]
    BY <1>3, <1>4, <1>5, Zenon DEF AppendsFrom
  <2>2. AppendsFrom(u, n)
    BY <2>1, <1>1, <1>5, Zenon DEF AppendsFrom
  <2>3. Fresh(u, n)
    BY <2>2, Zenon DEF AppendInv, FreshInv
  <2>4. ASSUME NEW v \in Vectors, NEW i \in Rows, n <= Row(v, i), Row(v, i) < count, Hidden(u, v, i)
        PROVE  /\ vector_info'[v].type # "none"
               /\ InsertStamp(vector_info'[v], i) = InsertStamp(vector_info[v], i)
    <3>1. ~(Row(v + 1, 0) <= n)
      <4>1. v \in Nat /\ n \in Nat
        BY Numbers, Zenon
      <4>2. Row(v, i) \in Nat /\ Row(v + 1, 0) \in Nat /\ Row(v, i) < Row(v + 1, 0)
        BY <4>1, RowInNat, Zenon
      <4> QED BY <2>4, <4>1, <4>2, Between, Zenon
    <3>2. vector_info'[v] = vector_info[v]
      BY <3>1, <2>2, <1>2, Zenon
    <3> QED BY <2>4, <3>2, Zenon DEF Hidden
  <2>5. UNCHANGED <<transaction_id, start_time>> /\ UNCHANGED <<count, requires_new_row_group>>
    BY <1>1, Zenon DEF times
  <2>6. /\ has_unserialized_changes => has_unserialized_changes'
        /\ pc'[u] = "flush_failed" => pc[u] = "flush_failed"
        /\ pc[u] \in Finishing => pc'[u] \in Finishing
    BY <2>1, <1>1, Zenon DEF disk
  <2>7. \A v \in Vectors, i \in Rows : n <= Row(v, i) /\ Row(v, i) < count /\ Hidden(u, v, i) =>
           /\ vector_info'[v].type # "none"
           /\ InsertStamp(vector_info'[v], i) = InsertStamp(vector_info[v], i)
    BY <2>4, Zenon
  <2>8. Fresh(u, n)'
    BY <2>3, <2>5, <2>6, <2>7, FreshStays, Zenon
  <2> QED BY <2>2, <2>8, Zenon
<1>6. \A v \in Vectors : vector_info'[v].type = "constant" => vector_info[v].type = "constant"
  BY <1>2, <1>4, Zenon
<1>7. ASSUME NEW u \in Txns, NEW k \in 1..Len(undo'[u]), undo'[u][k].type = "append"
      PROVE  /\ k \in 1..Len(undo[u]) /\ undo'[u][k] = undo[u][k]
             /\ pc'[u] \in {"flushed", "stamping"} => pc[u] \in {"flushed", "stamping"}
             /\ pc'[u] = "committed" => pc[u] = "committed"
  BY <1>1, <1>3, Zenon
<1>8. count \in Nat
  BY RowVersionsAssumption DEF RowTypes, PlainTypes
<1>9. UNCHANGED <<requires_new_row_group, storage_count, count>>
  BY <1>1, Zenon DEF disk
<1>10. AppendInv'
  BY <1>1, <1>5, <1>6, <1>7, <1>8, <1>9, QuietAppends, Zenon
<1> QED BY <1>2, <1>10, Zenon

\* A checkpoint runs when no append is open.
LEMMA CheckpointAppends ==
    ASSUME RowTypes, PhaseInv, AppendInv, Checkpoint
    PROVE  AppendInv'
<1>1. /\ NoWriters /\ storage_count' = count
      /\ UNCHANGED <<vector_info, count, requires_new_row_group, undo, pc>>
  BY Zenon DEF Checkpoint
<1>2. ASSUME NEW u \in Txns, NEW n, AppendsFrom(u, n) PROVE FALSE
  <2>1. pc[u] \in Appending /\ u \in Active
    BY <1>2, Zenon DEF AppendsFrom, Active, Appending, Finishing
  <2> QED BY <2>1, <1>1, Zenon DEF NoWriters, Appending, Finishing
<1>3. \A u \in Txns, n \in 0..MAX_ROWS : AppendsFrom(u, n)' => AppendsFrom(u, n)
  BY <1>1, Zenon DEF AppendsFrom
<1>4. FreshInv'
  BY <1>2, <1>3, Zenon DEF FreshInv
<1>5. ConstantInv'
  BY <1>1, <1>2, <1>3, Zenon DEF AppendInv, ConstantInv, Row
<1>6. EndInv'
  BY <1>1, <1>2, <1>3, Zenon DEF AppendInv, EndInv
<1> QED BY <1>1, <1>4, <1>5, <1>6, Zenon DEF AppendInv

\* After a restart nothing is open, and this row group gets no more rows.
LEMMA ReopenAppends ==
    ASSUME RowTypes, PhaseInv, AppendInv, Reopen
    PROVE  AppendInv'
<1>1. /\ Active = {} /\ requires_new_row_group' /\ count' = storage_count /\ storage_count' = storage_count
      /\ pc' = [t \in Txns |-> IF pc[t] = "committed" THEN "cleaned" ELSE pc[t]]
      /\ undo' = undo
  BY Zenon DEF Reopen, disk
<1>2. \A u \in Txns : pc'[u] \notin Appending /\ pc'[u] # "committed"
  <2> SUFFICES ASSUME NEW u \in Txns PROVE pc'[u] \notin Appending /\ pc'[u] # "committed"
    BY Zenon
  <2>1. pc[u] \in {"idle", "committed", "aborted", "cleaned"}
    BY <1>1, Zenon DEF Active
  <2>2. pc'[u] = IF pc[u] = "committed" THEN "cleaned" ELSE pc[u]
    BY <1>1, Zenon
  <2> QED BY <2>1, <2>2, Zenon DEF Appending, Finishing
<1>3. \A u \in Txns, n \in 0..MAX_ROWS : ~AppendsFrom(u, n)'
  BY <1>2, Zenon DEF AppendsFrom
<1>4. FreshInv'
  BY <1>3, Zenon DEF FreshInv
<1>5. ConstantInv'
  BY <1>1, <1>3, Zenon DEF ConstantInv
<1>6. EndInv'
  BY <1>2, Zenon DEF EndInv, Appending, Finishing
<1> QED BY <1>1, <1>4, <1>5, <1>6, Zenon DEF AppendInv

\* The ChunkInfos after a step are well formed.
Typed == vector_info' \in [Vectors -> InfosOver(Stamps)]

\* What is not changed stays well formed.
LEMMA TypedStays ==
    ASSUME RowTypes, UNCHANGED vector_info
    PROVE  Typed
  BY InfosAre, Zenon DEF RowTypes, Typed

\* RowGroup::Delete keeps AppendInv.
LEMMA DeleteAppends ==
    ASSUME RowTypes, PhaseInv, AppendInv, Ranks, NEW t \in Txns, NEW v \in Vectors,
           NEW rows \in DeleteInput(t, v), pc[t] = "running", Delete(t, v, rows)
    PROVE  AppendInv' /\ Typed
<1> DEFINE e == DeleteEntry(t, v, [GetVectorInfo(v) EXCEPT !.any_deleted = TRUE], rows)
<1>1. /\ has_unserialized_changes' = TRUE /\ UNCHANGED <<count, disk, requires_new_row_group, times>>
      /\ \/ UNCHANGED undo /\ pc' = [pc EXCEPT ![t] = "failed"]
         \/ UNCHANGED pc /\ undo' = [undo EXCEPT ![t] = undo[t]]
         \/ UNCHANGED pc /\ undo' = [undo EXCEPT ![t] = Append(undo[t], e)]
  BY Zenon DEF Delete
<1>2. e.type = "delete"
  BY EntryTyped DEF RowTypes
<1> HIDE DEF e
<1>3. /\ \A u \in Txns \ {t} : pc'[u] = pc[u] /\ undo'[u] = undo[u]
      /\ undo'[t] = undo[t] \/ undo'[t] = Append(undo[t], e)
      /\ pc'[t] \in {"running", "failed"}
  BY <1>1, Zenon DEF RowTypes, PlainTypes
<1>4. PICK x : Restamped(v, x)
  BY DeleteRestamps, Zenon DEF PhaseInv
<1>5. /\ pc'[t] \notin Appending /\ pc'[t] # "flush_failed" /\ pc[t] \notin Finishing
      /\ pc'[t] \notin {"flushed", "stamping"} /\ pc'[t] # "committed"
  BY <1>3, Zenon DEF Appending, Finishing
<1>6. UNCHANGED <<count, disk, requires_new_row_group, start_time, transaction_id>>
  BY <1>1, Zenon DEF times
<1>7. \/ undo'[t] = undo[t]
      \/ \E d : d.type = "delete" /\ undo'[t] = Append(undo[t], d)
  BY <1>2, <1>3, Zenon
<1> QED BY <1>1, <1>3, <1>4, <1>5, <1>6, <1>7, MarksOnly, Zenon DEF Typed

\* Stamping a delete entry keeps AppendInv.
LEMMA StampAppends ==
    ASSUME RowTypes, PhaseInv, AppendInv, NEW t \in Txns, NEW k \in 1..Len(undo[t]),
           undo[t][k].type = "delete", NEW id \in Stamps, vector_info' = Stamped(undo[t][k], id),
           has_unserialized_changes',
           UNCHANGED <<count, disk, requires_new_row_group, times, undo>>,
           \/ pc[t] \in Finishing /\ pc' = pc
           \/ pc[t] = "reverting" /\ pc' = [pc EXCEPT ![t] = "undoing"]
    PROVE  AppendInv' /\ Typed
<1>1. PICK e : e = undo[t][k]
  BY Zenon
<1>2. e \in Entries /\ e.type = "delete" /\ vector_info' = Stamped(e, id)
  BY <1>1, EntryRows, Zenon DEF RowTypes
<1>3. PICK w, x : Restamped(w, x)
  BY <1>2, StampRestamps, Zenon DEF PhaseInv
<1>4. /\ \A u \in Txns \ {t} : pc'[u] = pc[u] /\ undo'[u] = undo[u]
      /\ undo'[t] = undo[t]
      /\ pc[t] \in Finishing /\ pc'[t] \in Finishing /\ (pc'[t] = pc[t] \/ pc'[t] = "undoing")
  BY Zenon DEF RowTypes, PlainTypes, Finishing
<1>5. /\ pc[t] \in Appending /\ pc'[t] # "flush_failed"
      /\ pc'[t] \in {"flushed", "stamping"} => pc[t] \in {"flushed", "stamping"}
      /\ pc'[t] # "committed"
  BY <1>4, Zenon DEF Appending, Finishing
<1>6. UNCHANGED <<count, disk, requires_new_row_group, start_time, transaction_id>>
  BY Zenon DEF times
<1> QED BY <1>3, <1>4, <1>5, <1>6, MarksOnly, Zenon DEF Typed

\* Reverting an entry, in a failed commit or a rollback, keeps AppendInv.
LEMMA RevertEntryAppends ==
    ASSUME RowTypes, PhaseInv, AppendInv, NEW t \in Txns, RevertCommitEntry(t) \/ RollbackEntry(t)
    PROVE  AppendInv' /\ Typed
<1>1. /\ pc[t] \in {"reverting", "undoing"}
      /\ \/ pc' = pc
         \/ pc[t] = "reverting" /\ pc' = [pc EXCEPT ![t] = "undoing"]
      /\ UNCHANGED <<disk, requires_new_row_group, times, undo>>
      /\ \E id \in {transaction_id[t], NOT_DELETED_ID} : RevertEntry(undo[t][pos[t]], id)
  BY Zenon DEF RevertCommitEntry, RollbackEntry
<1>2. PICK id \in {transaction_id[t], NOT_DELETED_ID} : RevertEntry(undo[t][pos[t]], id)
  BY <1>1, Zenon
<1>3. pos[t] \in 1..Len(undo[t])
  BY EntryPosition, Zenon
<1>4. id \in Stamps
  <2>1. pc[t] # "idle"
    BY <1>1, Zenon
  <2> QED BY <2>1, StampsHave, Zenon DEF RowTypes, PhaseInv
<1>5. CASE undo[t][pos[t]].type = "append"
  <2>1. RevertAppend(undo[t][pos[t]])
    BY <1>2, <1>5, Zenon DEF RevertEntry
  <2>2. pc' = pc \/ pc' = [pc EXCEPT ![t] = "undoing"]
    BY <1>1, Zenon
  <2> QED BY <2>1, <2>2, <1>1, <1>3, <1>5, UndoAppends, Zenon DEF Typed
<1>6. CASE undo[t][pos[t]].type = "delete"
  <2>1. /\ vector_info' = Stamped(undo[t][pos[t]], id) /\ has_unserialized_changes' /\ UNCHANGED count
    BY <1>2, <1>6, Zenon DEF RevertEntry
  <2>2. \/ pc[t] \in Finishing /\ pc' = pc
        \/ pc[t] = "reverting" /\ pc' = [pc EXCEPT ![t] = "undoing"]
    BY <1>1, Zenon DEF Finishing
  <2>3. PICK k \in 1..Len(undo[t]) : k = pos[t]
    BY <1>3, Zenon
  <2>4. UNCHANGED <<count, disk, requires_new_row_group, times, undo>>
    BY <1>1, <2>1, Zenon
  <2> QED BY <2>1, <2>2, <2>3, <2>4, <1>4, <1>6, StampAppends, Zenon
<1> QED BY <1>3, <1>5, <1>6, EntryRows, Zenon DEF RowTypes

\* Committing an entry keeps AppendInv.
LEMMA CommitEntryAppends ==
    ASSUME RowTypes, PhaseInv, AppendInv, Low, NEW t \in Txns, CommitEntry(t)
    PROVE  AppendInv' /\ Typed
<1>1. /\ pc[t] = "stamping" /\ pos[t] <= Len(undo[t])
      /\ vector_info' = Stamped(undo[t][pos[t]], commit_id[t])
      /\ has_unserialized_changes' = (has_unserialized_changes \/ undo[t][pos[t]].type = "delete")
      /\ UNCHANGED <<count, disk, requires_new_row_group, times, undo, pc>>
  BY Zenon DEF CommitEntry
<1>2. pos[t] \in 1..Len(undo[t])
  BY EntryPosition, Zenon
<1>3. CASE undo[t][pos[t]].type = "append"
  BY <1>3, CommitAppends, Zenon DEF Typed
<1>4. CASE undo[t][pos[t]].type = "delete"
  <2>1. PICK k \in 1..Len(undo[t]) : k = pos[t]
    BY <1>2, Zenon
  <2>2. PICK id \in Stamps : id = commit_id[t]
    BY StampsHave, Zenon DEF RowTypes, PhaseInv
  <2>3. pc[t] \in Finishing /\ pc' = pc /\ has_unserialized_changes'
    BY <1>1, <1>4, Zenon DEF Finishing
  <2>4. UNCHANGED <<count, disk, requires_new_row_group, times, undo>>
    BY <1>1, Zenon
  <2>5. undo[t][k].type = "delete" /\ vector_info' = Stamped(undo[t][k], id)
    BY <2>1, <2>2, <1>1, <1>4, Zenon
  <2> QED BY <2>3, <2>4, <2>5, StampAppends, Zenon
<1> QED BY <1>2, <1>3, <1>4, EntryRows, Zenon DEF RowTypes

\* A transaction without an append leaves AppendInv alone when it ends.
LEMMA NoAppends ==
    ASSUME RowTypes, PhaseInv, AppendInv, NEW t \in Txns,
           UNCHANGED <<vector_info, count, has_unserialized_changes, disk, requires_new_row_group,
                       start_time, transaction_id, undo>>,
           \A u \in Txns \ {t} : pc'[u] = pc[u],
           pc[t] \in {"running", "failed"}
    PROVE  AppendInv'
<1>1. \A k \in 1..Len(undo[t]) : undo[t][k].type # "append"
  BY Zenon DEF PhaseInv, OwnerInv
<1>2. ASSUME NEW u \in Txns, NEW k \in 1..Len(undo'[u]), undo'[u][k].type = "append"
      PROVE  u # t /\ k \in 1..Len(undo[u]) /\ undo'[u][k] = undo[u][k] /\ pc'[u] = pc[u]
  BY <1>1, <1>2, Zenon
<1>3. ASSUME NEW u \in Txns, NEW n \in 0..MAX_ROWS, AppendsFrom(u, n)'
      PROVE  AppendsFrom(u, n) /\ Fresh(u, n)'
  <2>1. pc'[u] = pc[u] /\ AppendsFrom(u, n)
    BY <1>2, <1>3, Zenon DEF AppendsFrom
  <2>2. Fresh(u, n)
    BY <2>1, Zenon DEF AppendInv, FreshInv
  <2>3. \A v \in Vectors, i \in Rows : Hidden(u, v, i) =>
          /\ vector_info'[v].type # "none"
          /\ InsertStamp(vector_info'[v], i) = InsertStamp(vector_info[v], i)
    BY Zenon DEF Hidden
  <2>4. Fresh(u, n)'
    BY <2>1, <2>2, <2>3, FreshStays, Zenon
  <2> QED BY <2>1, <2>4, Zenon
<1>4. count \in Nat
  BY RowVersionsAssumption DEF RowTypes, PlainTypes
<1> QED BY <1>2, <1>3, <1>4, QuietAppends, Zenon DEF disk

\* The steps that only move a transaction on keep AppendInv.
LEMMA PhaseAppends ==
    ASSUME RowTypes, PhaseInv, AppendInv, NEW t \in Txns,
           \/ \E to \in {"stamping", "reverting", "undoing"} : Commit(t, to)
           \/ CommitReadOnly(t) \/ RemoveCommitted(t) \/ RemoveAborted(t) \/ CommitFails(t)
           \/ RollbackTransaction(t) \/ Flush(t, 0)
    PROVE  AppendInv' /\ Typed
<1>0. pc \in [Txns -> {"idle", "committed", "aborted", "cleaned"} \cup Open \cup Finishing]
  BY Zenon DEF RowTypes, PlainTypes
<1> DEFINE Rest == UNCHANGED <<vector_info, count, has_unserialized_changes, disk, requires_new_row_group,
                       start_time, transaction_id, undo>>
           Phases(from, to) == pc[t] = from /\ pc' = [pc EXCEPT ![t] = to]
<1>1. /\ UNCHANGED vector_info
      /\ \/ /\ Rest
            /\ \/ \E from \in {"flushed", "flush_failed"}, to \in {"reverting", "undoing"} : Phases(from, to)
               \/ Phases("flushed", "stamping")
               \/ \E from \in Open : Phases(from, "committed") /\ undo[t] = <<>>
               \/ Phases("stamping", "committed")
               \/ Phases("stamping", "reverting")
               \/ Phases("undoing", "aborted")
         \/ /\ Rest
            /\ \E from \in {"running", "failed"} : Phases(from, "undoing")
         \/ /\ Phases("running", "flushed")
            /\ UNCHANGED <<vector_info, count, has_unserialized_changes, disk, requires_new_row_group,
                       start_time, transaction_id>>
            /\ undo' = [undo EXCEPT ![t] = undo[t]]
  <2>1. ASSUME NEW to \in {"stamping", "reverting", "undoing"}, Commit(t, to)
        PROVE  Rest /\ \/ \E from \in {"flushed", "flush_failed"} : Phases(from, to) /\ to \in {"reverting", "undoing"}
                       \/ Phases("flushed", "stamping")
    BY <2>1, Zenon DEF Commit
  <2>2. ASSUME CommitReadOnly(t) PROVE Rest /\ Phases("running", "committed") /\ undo[t] = <<>>
    BY <2>2, Zenon DEF CommitReadOnly, RemoveTransaction
  <2>3. ASSUME RemoveCommitted(t) PROVE Rest /\ Phases("stamping", "committed")
    BY <2>3, Zenon DEF RemoveCommitted, RemoveTransaction, times
  <2>4. ASSUME RemoveAborted(t) PROVE Rest /\ Phases("undoing", "aborted")
    BY <2>4, Zenon DEF RemoveAborted, RemoveTransaction, times
  <2>5. ASSUME CommitFails(t) PROVE Rest /\ Phases("stamping", "reverting")
    BY <2>5, Zenon DEF CommitFails, Goto, times
  <2>6. ASSUME RollbackTransaction(t)
        PROVE  Rest /\ \E from \in {"running", "failed"} : Phases(from, "undoing")
    BY <2>6, Zenon DEF RollbackTransaction, times
  <2>7. ASSUME Flush(t, 0)
        PROVE  /\ Phases("running", "flushed")
               /\ UNCHANGED <<vector_info, count, has_unserialized_changes, disk, requires_new_row_group,
                       start_time, transaction_id>>
               /\ undo' = [undo EXCEPT ![t] = undo[t]]
    BY <2>7, Zenon DEF Flush, Goto, times
  <2>8. Rest => UNCHANGED vector_info
    BY Zenon
  <2>9. "running" \in Open
    BY Zenon DEF Open
  <2> HIDE DEF Rest, Phases
  <2> QED BY <2>1, <2>2, <2>3, <2>4, <2>5, <2>6, <2>7, <2>8, <2>9, Zenon
<1>2. Typed
  BY <1>1, TypedStays, Zenon
<1>3. \A from, to : Phases(from, to) => /\ pc[t] = from /\ pc'[t] = to
                                        /\ \A u \in Txns \ {t} : pc'[u] = pc[u]
  BY <1>0, Zenon
<1>4. Rest => UNCHANGED <<vector_info, count, has_unserialized_changes, disk, requires_new_row_group,
                       start_time, transaction_id, undo>>
  BY Zenon
<1>5. undo' = [undo EXCEPT ![t] = undo[t]] => undo' = undo
  BY Zenon DEF RowTypes, PlainTypes
<1>6. CASE /\ Rest
           /\ \/ \E from \in {"flushed", "flush_failed"}, to \in {"reverting", "undoing"} : Phases(from, to)
              \/ Phases("flushed", "stamping")
              \/ \E from \in Open : Phases(from, "committed") /\ undo[t] = <<>>
              \/ Phases("stamping", "committed")
              \/ Phases("stamping", "reverting")
              \/ Phases("undoing", "aborted")
  <2> HIDE DEF Phases
  <2>1. /\ \A u \in Txns \ {t} : pc'[u] = pc[u]
        /\ \/ pc[t] \in {"flushed", "flush_failed"} /\ pc'[t] \in {"reverting", "undoing"}
           \/ pc[t] = "flushed" /\ pc'[t] = "stamping"
           \/ pc[t] \in Open /\ pc'[t] = "committed" /\ undo[t] = <<>>
           \/ pc[t] = "stamping" /\ pc'[t] \in {"committed", "reverting"}
           \/ pc[t] = "undoing" /\ pc'[t] = "aborted"
    BY <1>6, <1>3, Zenon
  <2>2. /\ pc'[t] \in Appending => pc[t] \in Appending
        /\ pc'[t] = "flush_failed" => pc[t] = "flush_failed"
        /\ pc[t] \in Finishing /\ pc'[t] \in Appending => pc'[t] \in Finishing
        /\ pc'[t] \in {"flushed", "stamping"} => pc[t] \in {"flushed", "stamping"}
        /\ pc'[t] = "committed" => pc[t] \in {"committed", "stamping"} \/ undo[t] = <<>>
    BY <2>1, Zenon DEF Appending, Finishing, Open
  <2>3. Rest
    BY <1>6, Zenon
  <2> HIDE DEF Rest
  <2> QED BY <2>1, <2>2, <2>3, <1>2, <1>4, PhaseOnly, Zenon
<1>7. CASE Rest /\ \E from \in {"running", "failed"} : Phases(from, "undoing")
  <2>1. pc[t] \in {"running", "failed"} /\ \A u \in Txns \ {t} : pc'[u] = pc[u]
    BY <1>3, <1>7, Zenon
  <2> QED BY <2>1, <1>2, <1>4, <1>7, NoAppends, Zenon
<1>8. CASE /\ Phases("running", "flushed")
           /\ UNCHANGED <<vector_info, count, has_unserialized_changes, disk, requires_new_row_group,
                       start_time, transaction_id>>
           /\ undo' = [undo EXCEPT ![t] = undo[t]]
  <2>1. pc[t] \in {"running", "failed"} /\ \A u \in Txns \ {t} : pc'[u] = pc[u]
    BY <1>3, <1>8, Zenon
  <2> QED BY <2>1, <1>2, <1>5, <1>8, NoAppends, Zenon
<1> HIDE DEF Rest, Phases
<1> QED BY <1>1, <1>6, <1>7, <1>8, Zenon

\* Every step keeps AppendInv.
LEMMA AppendStep ==
    ASSUME RowTypes, PhaseInv, AppendInv, Low, Ranks, Next
    PROVE  AppendInv'
<1>1. ASSUME NEW t \in Txns, Step(t) PROVE AppendInv'
  <2>1. CASE StartTransaction(t)
    BY <2>1, StartAppends, Zenon
  <2>2. ASSUME NEW v \in Vectors, NEW rows \in DeleteInput(t, v), Delete(t, v, rows), pc[t] = "running"
        PROVE  AppendInv'
    BY <2>2, DeleteAppends, Zenon
  <2>3. ASSUME NEW n \in 0..MAX_ROWS, Flush(t, n) PROVE AppendInv'
    <3>1. CASE n = 0
      BY <2>3, <3>1, PhaseAppends, Zenon
    <3>2. CASE n # 0
      <4>1. n > 0
        BY <3>2, RowVersionsAssumption
      <4> QED BY <4>1, <2>3, FlushAppends, Zenon
    <3> QED BY <3>1, <3>2, Zenon
  <2>4. ASSUME NEW n \in 0..MAX_ROWS, FlushFails(t, n) PROVE AppendInv'
    BY <2>4, FlushFailsAppends, Zenon
  <2>5. CASE \/ \E to \in {"stamping", "reverting", "undoing"} : Commit(t, to)
             \/ CommitReadOnly(t) \/ RemoveCommitted(t) \/ RemoveAborted(t) \/ CommitFails(t)
             \/ RollbackTransaction(t)
    BY <2>5, PhaseAppends, Zenon
  <2>6. CASE CommitEntry(t)
    BY <2>6, CommitEntryAppends, Zenon
  <2>7. CASE RevertCommitEntry(t) \/ RollbackEntry(t)
    BY <2>7, RevertEntryAppends, Zenon
  <2>8. CASE Cleanup(t)
    BY <2>8, CleanupAppends, Zenon
  <2> QED BY <1>1, <2>1, <2>2, <2>3, <2>4, <2>5, <2>6, <2>7, <2>8, Zenon DEF Step
<1>2. CASE Checkpoint
  BY <1>2, CheckpointAppends, Zenon
<1>3. CASE Reopen
  BY <1>3, ReopenAppends, Zenon
<1> QED BY <1>1, <1>2, <1>3, Zenon DEF Next, Step

\* Every step keeps the types, those of the ChunkInfos included.
LEMMA TypeStep ==
    ASSUME RowTypes, PhaseInv, AppendInv, Low, Ranks, Next
    PROVE  RowTypes'
<1>1. PlainTypes'
  BY PlainStep, Zenon DEF RowTypes
<1>2. /\ InfosOver(Stamps) = Infos
      /\ Infos \subseteq Infos'
  BY InfosAre, InfosStay, Zenon DEF RowTypes, PlainTypes
<1>3. storage' \in [Vectors -> Infos]
  <2>1. ASSUME NEW t \in Txns, Step(t) PROVE storage' = storage
    BY <2>1, Zenon DEF Step, StartTransaction, Delete, Flush, FlushFails, Commit, CommitReadOnly,
          RemoveTransaction, CommitEntry, CommitFails, RevertCommitEntry, RollbackTransaction,
          RollbackEntry, RemoveCommitted, RemoveAborted, Cleanup, disk
  <2>2. CASE Reopen
    BY <2>2, Zenon DEF Reopen, disk, RowTypes
  <2>3. CASE Checkpoint
    <3>1. ASSUME NEW v \in Vectors PROVE Stored(v) \in Infos
      <4>1. 0 \in Stamps /\ NOT_DELETED_ID \in Stamps
        BY StampsHave, Zenon DEF RowTypes, PhaseInv
      <4>2. WriteAndRead(vector_info[v]) \in Infos
        BY <4>1, <1>2, WriteAndReadType, Zenon
      <4> QED BY <4>2, Zenon DEF Stored, RowTypes
    <3> QED BY <2>3, <3>1, Zenon DEF Checkpoint
  <2> QED BY <2>1, <2>2, <2>3, Zenon DEF Next, Step, RowTypes
<1>4. vector_info' \in [Vectors -> Infos]
  <2>1. ASSUME NEW t \in Txns, Step(t) PROVE Typed
    <3>1. CASE StartTransaction(t)
      BY <3>1, TypedStays, Zenon DEF StartTransaction
    <3>2. ASSUME NEW v \in Vectors, NEW rows \in DeleteInput(t, v), Delete(t, v, rows), pc[t] = "running"
          PROVE  Typed
      BY <3>2, DeleteAppends, Zenon
    <3>3. ASSUME NEW n \in 0..MAX_ROWS, Flush(t, n) PROVE Typed
      <4>1. CASE n = 0
        BY <3>3, <4>1, PhaseAppends, Zenon
      <4>2. CASE n # 0
        <5>1. n > 0
          BY <4>2, RowVersionsAssumption
        <5> QED BY <5>1, <3>3, FlushAppends, Zenon DEF Typed
      <4> QED BY <4>1, <4>2, Zenon
    <3>4. ASSUME NEW n \in 0..MAX_ROWS, FlushFails(t, n) PROVE Typed
      BY <3>4, FlushFailsAppends, Zenon DEF Typed
    <3>5. CASE \/ \E to \in {"stamping", "reverting", "undoing"} : Commit(t, to)
               \/ CommitReadOnly(t) \/ RemoveCommitted(t) \/ RemoveAborted(t) \/ CommitFails(t)
               \/ RollbackTransaction(t)
      BY <3>5, PhaseAppends, Zenon
    <3>6. CASE CommitEntry(t)
      BY <3>6, CommitEntryAppends, Zenon
    <3>7. CASE RevertCommitEntry(t) \/ RollbackEntry(t)
      BY <3>7, RevertEntryAppends, Zenon
    <3>8. CASE Cleanup(t)
      BY <3>8, CleanupAppends, Zenon DEF Typed
    <3> QED BY <2>1, <3>1, <3>2, <3>3, <3>4, <3>5, <3>6, <3>7, <3>8, Zenon DEF Step
  <2>2. CASE Checkpoint
    <3>1. vector_info' = vector_info
      BY <2>2, Zenon DEF Checkpoint
    <3> QED BY <3>1, Zenon DEF RowTypes
  <2>3. CASE Reopen
    BY <2>3, <1>2, Zenon DEF Reopen, RowTypes, Typed
  <2> QED BY <2>1, <2>2, <2>3, <1>2, Zenon DEF Next, Step, Typed
<1>5. vector_info' \in [Vectors -> Infos'] /\ storage' \in [Vectors -> Infos']
  BY <1>2, <1>3, <1>4, Zenon
<1> QED BY <1>1, <1>5, Zenon DEF RowTypes, Vectors

\* The places and the owners of undo buffers, after a step.
LEMMA PhaseStep ==
    ASSUME RowTypes, PhaseInv, Ranks, Next
    PROVE  PhaseInv'
<1>1. PlainTypes /\ PlainTypes'
  BY PlainStep, Zenon DEF RowTypes
<1> QED BY <1>1, IdStep, PositionStep, OwnerStep, Zenon DEF PhaseInv

\* A step begins a transaction, ends one, or leaves both counters alone.
LEMMA CounterCases ==
    ASSUME PlainTypes, Next
    PROVE  \/ \E t \in Txns :
                /\ pc[t] = "idle" /\ pc' = [pc EXCEPT ![t] = "running"]
                /\ current_timestamp' = current_timestamp + 1
                /\ current_transaction_id' = current_transaction_id + 1
           \/ \E t \in Txns : \E to \in Finishing \cup {"committed"} :
                /\ pc[t] \in Open /\ pc' = [pc EXCEPT ![t] = to]
                /\ current_timestamp' \in {current_timestamp, current_timestamp + 1}
                /\ current_transaction_id' = current_transaction_id
           \/ /\ UNCHANGED <<current_timestamp, current_transaction_id>>
              /\ \A u \in Txns : /\ pc'[u] = "idle" <=> pc[u] = "idle"
                                 /\ pc'[u] \in Open <=> pc[u] \in Open
<1> DEFINE Quiet == /\ UNCHANGED <<current_timestamp, current_transaction_id>>
                    /\ \A u \in Txns : /\ pc'[u] = "idle" <=> pc[u] = "idle"
                                       /\ pc'[u] \in Open <=> pc[u] \in Open
           Begins(t) == /\ pc[t] = "idle" /\ pc' = [pc EXCEPT ![t] = "running"]
                        /\ current_timestamp' = current_timestamp + 1
                        /\ current_transaction_id' = current_transaction_id + 1
           Ends(t, to) == /\ pc[t] \in Open /\ pc' = [pc EXCEPT ![t] = to]
                          /\ current_timestamp' \in {current_timestamp, current_timestamp + 1}
                          /\ current_transaction_id' = current_transaction_id
<1>0. pc \in [Txns -> {"idle", "committed", "aborted", "cleaned"} \cup Open \cup Finishing]
  BY Zenon DEF PlainTypes
<1>1. ASSUME NEW t \in Txns, NEW to, pc' = [pc EXCEPT ![t] = to], to # "idle", pc[t] # "idle",
             to \in Open <=> pc[t] \in Open, UNCHANGED <<current_timestamp, current_transaction_id>>
      PROVE  Quiet
  BY <1>0, <1>1, Zenon
<1>2. ASSUME UNCHANGED <<pc, times>> PROVE Quiet
  BY <1>2, Zenon DEF times
<1> HIDE DEF Quiet
<1>3. ASSUME NEW t \in Txns, Step(t)
      PROVE  Quiet \/ Begins(t) \/ \E to \in Finishing \cup {"committed"} : Ends(t, to)
  <2>1. CASE StartTransaction(t)
    BY <2>1, Zenon DEF StartTransaction, Goto, NextTimestamp
  <2>2. ASSUME NEW v, NEW rows, pc[t] = "running", Delete(t, v, rows) PROVE Quiet
    <3>1. UNCHANGED times /\ (UNCHANGED pc \/ pc' = [pc EXCEPT ![t] = "failed"])
      BY <2>2, Zenon DEF Delete
    <3>2. pc[t] \in Open /\ "failed" \in Open /\ pc[t] # "idle" /\ "failed" # "idle"
      BY <2>2, Zenon DEF Open
    <3> QED BY <3>1, <3>2, <1>1, <1>2, Zenon DEF times
  <2>3. ASSUME NEW n \in 0..MAX_ROWS, Flush(t, n) \/ FlushFails(t, n) PROVE Quiet
    <3>1. /\ UNCHANGED times /\ pc[t] = "running"
          /\ pc' = [pc EXCEPT ![t] = "flushed"] \/ pc' = [pc EXCEPT ![t] = "flush_failed"]
      BY <2>3, Zenon DEF Flush, FlushFails, Goto
    <3>2. /\ pc[t] \in Open /\ "flushed" \in Open /\ "flush_failed" \in Open /\ pc[t] # "idle"
          /\ "flushed" # "idle" /\ "flush_failed" # "idle"
      BY <3>1, Zenon DEF Open
    <3> QED BY <3>1, <3>2, <1>1, Zenon DEF times
  <2>4. ASSUME NEW to \in {"stamping", "reverting", "undoing"}, Commit(t, to)
        PROVE  to \in Finishing /\ Ends(t, to)
    <3>1. pc[t] \in Open /\ to \in Finishing
      BY <2>4, Zenon DEF Commit, Open, Finishing
    <3> QED BY <2>4, <3>1, Zenon DEF Commit, NextTimestamp
  <2>5. CASE CommitReadOnly(t)
    <3>1. Ends(t, "committed")
      BY <2>5, Zenon DEF CommitReadOnly, RemoveTransaction, NextTimestamp, Open
    <3> QED BY <3>1, Zenon
  <2>6. CASE CommitEntry(t) \/ RollbackEntry(t)
    BY <2>6, <1>2, Zenon DEF CommitEntry, RollbackEntry
  <2>7. CASE CommitFails(t) \/ RevertCommitEntry(t) \/ RemoveCommitted(t) \/ RemoveAborted(t) \/ Cleanup(t)
    <3>1. /\ UNCHANGED times
          /\ pc[t] \in Finishing \cup {"committed"}
          /\ \/ UNCHANGED pc
             \/ \E to \in {"reverting", "undoing", "committed", "aborted", "cleaned"} :
                   pc' = [pc EXCEPT ![t] = to]
      BY <2>7, Zenon DEF CommitFails, RevertCommitEntry, RemoveCommitted, RemoveAborted, Cleanup,
            RemoveTransaction, Goto, Finishing
    <3>2. \A to \in Finishing \cup {"committed", "aborted", "cleaned"} : to # "idle" /\ to \notin Open
      BY Zenon DEF Finishing, Open
    <3>3. CASE UNCHANGED pc
      BY <3>1, <3>3, <1>2, Zenon
    <3>4. ASSUME NEW to \in {"reverting", "undoing", "committed", "aborted", "cleaned"},
                 pc' = [pc EXCEPT ![t] = to]
          PROVE  Quiet
      <4>1. /\ to \notin Open /\ to # "idle" /\ pc[t] \notin Open /\ pc[t] # "idle"
            /\ UNCHANGED <<current_timestamp, current_transaction_id>>
        BY <3>1, <3>2, Zenon DEF Finishing, times
      <4> QED BY <4>1, <3>4, <1>1, Zenon
    <3> QED BY <3>1, <3>3, <3>4, Zenon
  <2>8. CASE RollbackTransaction(t)
    <3>1. Ends(t, "undoing")
      BY <2>8, Zenon DEF RollbackTransaction, Open, times
    <3> QED BY <3>1, Zenon DEF Finishing
  <2> QED BY <1>3, <2>1, <2>2, <2>3, <2>4, <2>5, <2>6, <2>7, <2>8, Zenon DEF Step
<1>4. ASSUME Checkpoint PROVE Quiet
  BY <1>4, <1>2, Zenon DEF Checkpoint
<1>5. ASSUME Reopen PROVE Quiet
  <2>1. \A u \in Txns : pc'[u] = pc[u] \/ (pc[u] = "committed" /\ pc'[u] = "cleaned")
    BY <1>5, Zenon DEF Reopen
  <2>2. "committed" \notin Open /\ "cleaned" \notin Open
    BY Zenon DEF Open
  <2> QED BY <1>5, <2>1, <2>2, Zenon DEF Reopen, times, Quiet
<1> HIDE DEF Begins, Ends
<1>6. Quiet \/ \E t \in Txns : Begins(t) \/ \E to \in Finishing \cup {"committed"} : Ends(t, to)
  BY <1>3, <1>4, <1>5, Zenon DEF Next, Step
<1> QED BY <1>6, Zenon DEF Quiet, Begins, Ends

\* The initial vectors: no mark is on any row.
LEMMA InitVectors ==
    ASSUME Init
    PROVE  \A v \in Vectors :
             /\ vector_info[v] \in Infos /\ storage[v] = NoInfo /\ NoInfo \in Infos
             /\ vector_info[v].type # "constant" /\ Summarised(vector_info[v])
             /\ \A i \in Rows : Mark(vector_info[v], i) = NOT_DELETED_ID
<1>1. /\ 0 \in Stamps /\ FIRST_COMMIT \in Stamps /\ NOT_DELETED_ID \in Stamps
  BY RowVersionsAssumption DEF Init, Stamps, FIRST_COMMIT
<1>2. NoInfo \in Infos
  BY Zenon DEF NoInfo, Infos
<1>3. Infos = InfosOver(Stamps)
  BY InfosAre, Zenon
<1> DEFINE new == VectorInfo(0)
           x == Append1(new, 0, IndexOf(INITIAL_ROWS), FIRST_COMMIT)
<1>4. new \in ChunkVectors(Stamps) /\ ~new.any_deleted /\ \A i \in Rows : new.deleted[i] = NOT_DELETED_ID
  <2>1. new \in ChunkVectors(Stamps)
    BY <1>1, VectorInfoType, Zenon
  <2>2. new.any_deleted = FALSE /\ new.deleted = [i \in Rows |-> NOT_DELETED_ID]
    BY Zenon DEF VectorInfo
  <2> HIDE DEF new
  <2> QED BY <2>1, <2>2, Zenon
<1> HIDE DEF new
<1>5. /\ x.type = "vector" /\ ~x.any_deleted /\ \A i \in Rows : x.deleted[i] = NOT_DELETED_ID
      /\ x \in ChunkVectors(Stamps)
  BY <1>1, <1>4, Zenon DEF Append1, ChunkVectors, Rows
<1>6. \A v \in Vectors : (vector_info[v] = x \/ vector_info[v] = NoInfo) /\ storage[v] = NoInfo
  BY Zenon DEF Init, new
<1> HIDE DEF x
<1>7. x \in Infos /\ x.type # "constant" /\ Summarised(x) /\ \A i \in Rows : Mark(x, i) = NOT_DELETED_ID
  BY <1>3, <1>5, Zenon DEF InfosOver, Summarised, Mark
<1>8. NoInfo.type # "constant" /\ Summarised(NoInfo) /\ \A i \in Rows : Mark(NoInfo, i) = NOT_DELETED_ID
  BY NoneMark, Zenon DEF NoInfo
<1> QED BY <1>2, <1>6, <1>7, <1>8, Zenon

\* All invariants but the one on the counters hold initially.
LEMMA InitRows ==
    ASSUME Init
    PROVE  RowTypes /\ PhaseInv /\ AppendInv /\ MarkInv
<1>1. /\ VectorCount \in Nat \ {0} /\ STANDARD_VECTOR_SIZE \in Nat \ {0} /\ Nobody \notin Txns
      /\ MAX_ROWS \in Nat /\ INITIAL_ROWS \in 1..MAX_ROWS
      /\ MAX_ROWS <= VectorCount * STANDARD_VECTOR_SIZE /\ TRANSACTION_ID_START \in Nat
  BY RowVersionsAssumption
<1>2. size \in 0..VectorCount
  <2>1. VectorCount \in Nat /\ INITIAL_ROWS - 1 \in Nat
    BY <1>1
  <2>2. INITIAL_ROWS - 1 < Row(VectorCount, 0)
    BY <1>1 DEF Row
  <2>3. VectorOf(INITIAL_ROWS - 1) < VectorCount
    BY <2>1, <2>2, RowBounds, Zenon
  <2>4. VectorOf(INITIAL_ROWS - 1) \in Nat
    BY <2>1, RowOf, Zenon
  <2> QED BY <1>1, <2>3, <2>4 DEF Init
<1>3. \A t \in Txns : pc[t] = "idle" /\ undo[t] = <<>> /\ pos[t] = 0 /\ start_time[t] = 0 /\ commit_id[t] = 0
  BY Zenon DEF Init
<1>4. /\ "idle" \notin Open /\ "idle" \notin Finishing /\ "idle" \notin Appending
  BY Zenon DEF Open, Finishing, Appending
<1>5. \A t \in Txns : Len(undo[t]) = 0 /\ 1..Len(undo[t]) = {}
  BY <1>3
<1>6. PlainTypes
  <2>1. /\ count \in 0..MAX_ROWS /\ storage_count \in 0..MAX_ROWS
        /\ current_timestamp \in Nat /\ current_transaction_id \in Nat
    BY <1>1 DEF Init, FIRST_COMMIT
  <2>2. /\ start_time \in [Txns -> Nat] /\ transaction_id \in [Txns -> Nat]
        /\ commit_id \in [Txns -> Nat] /\ lowest \in [Txns -> Nat]
        /\ pos \in [Txns -> Nat] /\ stop \in [Txns -> Nat]
    BY Zenon DEF Init
  <2>3. undo \in [Txns -> Seq(Entries)]
    BY DEF Init
  <2> QED BY <1>2, <2>1, <2>2, <2>3, Zenon DEF PlainTypes, Init
<1>7. RowTypes
  BY <1>6, InitVectors, Zenon DEF RowTypes, Init
<1>8. IdInv
  <2>1. /\ FIRST_COMMIT < FIRST_COMMIT + 1 /\ TRANSACTION_ID_START < TRANSACTION_ID_START + 1
        /\ 0 < FIRST_COMMIT + 1
    BY <1>1 DEF FIRST_COMMIT
  <2>2. FIRST_COMMIT < current_timestamp /\ TRANSACTION_ID_START < current_transaction_id /\ 0 < current_timestamp
    BY <2>1, Zenon DEF Init
  <2> QED BY <1>3, <2>2, Zenon DEF IdInv
<1>9. PositionInv
  BY <1>3, <1>5 DEF PositionInv
<1>10. OwnerInv
  BY <1>1, <1>3, <1>4, <1>5, Zenon DEF OwnerInv, Init
<1>11. AppendInv
  BY <1>3, <1>4, <1>5, InitVectors, Zenon DEF AppendInv, FreshInv, ConstantInv, EndInv, AppendsFrom, Init
<1>12. SummaryInv
  BY InitVectors, NoneMark, Zenon DEF SummaryInv
<1>13. MarkInv
  BY <1>3, <1>4, <1>5, <1>12, Zenon DEF MarkInv, EntryInv, OnceInv, OwnInv
<1> QED BY <1>7, <1>8, <1>9, <1>10, <1>11, <1>13, Zenon DEF PhaseInv

\* Nothing changes: the invariants stay.
LEMMA StutterRows ==
    ASSUME UNCHANGED vars
    PROVE  /\ RowTypes => RowTypes'
           /\ CounterInv => CounterInv'
           /\ PhaseInv => PhaseInv'
           /\ AppendInv => AppendInv'
           /\ MarkInv => MarkInv'
<1>1. UNCHANGED <<vector_info, size, count, has_unserialized_changes, storage, storage_count,
                  requires_new_row_group, current_timestamp, current_transaction_id, start_time,
                  transaction_id, commit_id, undo, lowest, pc, pos, stop, transaction_lock, committer>>
  BY Zenon DEF vars, disk, times
<1>2. RowTypes => RowTypes'
  BY <1>1, Zenon DEF RowTypes, PlainTypes, Infos, Stamps
<1>3. CounterInv => CounterInv'
  BY <1>1, Zenon DEF CounterInv
<1>4. PhaseInv => PhaseInv'
  BY <1>1, Zenon DEF PhaseInv, IdInv, PositionInv, OwnerInv
<1>5. ASSUME NEW t, NEW n
      PROVE  AppendsFrom(t, n)' <=> AppendsFrom(t, n)
  BY <1>1, Zenon DEF AppendsFrom
<1>6. ASSUME NEW t, NEW v, NEW i
      PROVE  Hidden(t, v, i)' <=> Hidden(t, v, i)
  BY <1>1, Zenon DEF Hidden
<1>7. ASSUME NEW t, NEW n
      PROVE  Fresh(t, n)' <=> Fresh(t, n)
  BY <1>1, <1>6, Zenon DEF Fresh
<1>8. ASSUME NEW u, NEW k, NEW v, NEW i
      PROVE  Deletes(u, k, v, i)' <=> Deletes(u, k, v, i)
  BY <1>1, Zenon DEF Deletes
<1>9. ASSUME NEW v, NEW i
      PROVE  Placed(v, i)' <=> Placed(v, i)
  BY <1>1, <1>5, Zenon DEF Placed
<1>10. ASSUME NEW u, NEW k, NEW v, NEW i
       PROVE  Marked(u, k, v, i)' <=> Marked(u, k, v, i)
  BY <1>1, Zenon DEF Marked
<1>11. AppendInv => AppendInv'
  <2>1. FreshInv => FreshInv'
    BY <1>5, <1>7, Zenon DEF FreshInv
  <2>2. ConstantInv => ConstantInv'
    BY <1>1, <1>5, Zenon DEF ConstantInv
  <2>3. ASSUME EndInv
        PROVE  EndInv'
    <3>1. SUFFICES ASSUME NEW t \in Txns, NEW k \in 1..Len(undo'[t]), undo'[t][k].type = "append"
                   PROVE  LET end == undo'[t][k].start + undo'[t][k].count
                          IN  /\ pc'[t] \in {"flushed", "stamping"} => count' = end
                              /\ pc'[t] = "committed" => end <= count' /\
                                   \A u \in Txns, n \in 0..MAX_ROWS : AppendsFrom(u, n)' => end <= n
      BY Zenon DEF EndInv
    <3>2. undo' = undo /\ pc' = pc /\ count' = count
      BY <1>1, Zenon
    <3>3. k \in 1..Len(undo[t]) /\ undo[t][k].type = "append"
      BY <3>1, <3>2, Zenon
    <3> QED BY <1>5, <2>3, <3>2, <3>3, Zenon DEF EndInv
  <2> QED BY <1>1, <2>1, <2>2, <2>3, Zenon DEF AppendInv
<1>12. MarkInv => MarkInv'
  <2>1. SummaryInv => SummaryInv'
    BY <1>1, Zenon DEF SummaryInv
  <2>2. EntryInv => EntryInv'
    BY <1>1, <1>8, <1>9, <1>10, Zenon DEF EntryInv
  <2>3. ASSUME OnceInv
        PROVE  OnceInv'
    <3>1. undo' = undo
      BY <1>1, Zenon
    <3>2. SUFFICES ASSUME NEW u \in Txns, NEW k \in 1..Len(undo'[u]), undo'[u][k].type = "delete"
                   PROVE  /\ DeletedRows(undo'[u][k]) # {}
                          /\ \A v \in Vectors, i \in Rows, t \in Txns : \A l \in 1..Len(undo'[t]) :
                               Deletes(u, k, v, i)' /\ Deletes(t, l, v, i)' => t = u /\ l = k
      BY Zenon DEF OnceInv
    <3>3. k \in 1..Len(undo[u]) /\ undo[u][k].type = "delete"
      BY <3>1, <3>2, Zenon
    <3>4. DeletedRows(undo'[u][k]) # {}
      BY <2>3, <3>1, <3>3, Zenon DEF OnceInv
    <3>5. ASSUME NEW v \in Vectors, NEW i \in Rows, NEW t \in Txns, NEW l \in 1..Len(undo'[t]),
                 Deletes(u, k, v, i)', Deletes(t, l, v, i)'
          PROVE  t = u /\ l = k
      <4>1. l \in 1..Len(undo[t])
        BY <3>1, <3>5, Zenon
      <4>2. Deletes(u, k, v, i) /\ Deletes(t, l, v, i)
        BY <1>8, <3>5, Zenon
      <4> QED BY <2>3, <3>3, <4>1, <4>2, Zenon DEF OnceInv
    <3> QED BY <3>4, <3>5, Zenon
  <2>4. OwnInv => OwnInv'
    BY <1>1, <1>8, Zenon DEF OwnInv
  <2> QED BY <2>1, <2>2, <2>3, <2>4, Zenon DEF MarkInv
<1> QED BY <1>2, <1>3, <1>4, <1>11, <1>12, Zenon

\* Facts about numbers that the counts rest on.
LEMMA Ordered ==
    ASSUME NEW K \in SUBSET Int
    PROVE  /\ \A j \in K : ~(j < j)
           /\ \A i, j, k \in K : k < i /\ i < j => k < j
           /\ \A i, j \in K : i # j => i < j \/ j < i
  OBVIOUS

\* A number up to n is n or below it.
LEMMA UpTo ==
    ASSUME NEW c \in Nat, NEW n \in Nat, c <= n
    PROVE  c \in 0..n /\ (c # n => c \in 0..(n - 1))
  OBVIOUS

\* The bounds of 1..n and of 0..(n - 1).
LEMMA IntervalBounds ==
    ASSUME NEW n \in Nat
    PROVE  /\ 1 \in Int /\ n \in Int /\ (1 > n => n = 0) /\ n - 1 + 1 = n
           /\ 0 \in Int /\ n - 1 \in Int /\ (0 > n - 1 => n = 0) /\ (n - 1) - 0 + 1 = n
           /\ 1..n \in SUBSET Int
  OBVIOUS

\* Of n transactions, b have begun and e have ended.
LEMMA CountersLow ==
    ASSUME NEW c \in Nat, NEW d \in Nat, NEW b \in Nat, NEW e \in Nat, NEW n \in Nat, NEW s \in Nat,
           NEW x \in Nat, c <= FIRST_COMMIT + 1 + b + e, d <= s + 1 + b, b <= n, e <= n,
           2 * n + 4 < s, x > s + n + 1
    PROVE  c < s /\ d < x
  BY DEF FIRST_COMMIT

\* One more has begun, or one more has ended.
LEMMA CountersDrawn ==
    ASSUME NEW c \in Nat, NEW d \in Nat, NEW b \in Nat, NEW e \in Nat, NEW s \in Nat,
           c <= FIRST_COMMIT + 1 + b + e, d <= s + 1 + b
    PROVE  /\ c + 1 <= FIRST_COMMIT + 1 + (b + 1) + e /\ d + 1 <= s + 1 + (b + 1)
           /\ c + 1 <= FIRST_COMMIT + 1 + b + (e + 1) /\ c <= FIRST_COMMIT + 1 + b + (e + 1)
  BY DEF FIRST_COMMIT

\* Nobody has begun.
LEMMA CountersStart ==
    ASSUME NEW s \in Nat
    PROVE  FIRST_COMMIT + 1 <= FIRST_COMMIT + 1 + 0 + 0 /\ s + 1 <= s + 1 + 0
  BY DEF FIRST_COMMIT

=============================================================================
