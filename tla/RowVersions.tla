---------------------------- MODULE RowVersions ----------------------------
(***************************************************************************)
(* Which rows of a row group a transaction sees: RowVersionManager with    *)
(* its ChunkConstantInfo and ChunkVectorInfo nodes, driven by the undo     *)
(* buffers of transactions that delete rows while they run and append rows *)
(* when they commit (LocalStorage::Commit).  The row group starts with the *)
(* INITIAL_ROWS rows of a first committed append, cleaned up and written   *)
(* by a checkpoint.  The table has an index: later appends of this process *)
(* continue the row group (without one they start a new row group).        *)
(*                                                                         *)
(* An entry of an undo buffer is handled in one step, because it takes the *)
(* version lock; other transactions read between two entries.              *)
(***************************************************************************)
EXTENDS Integers, FiniteSets, Sequences

CONSTANTS Txns,                  \* transactions, each used at most once
          Nobody,                \* "the lock is free"
          VectorCount,           \* vectors in the row group
          STANDARD_VECTOR_SIZE,
          INITIAL_ROWS,
          TRANSACTION_ID_START,  \* above every start and commit timestamp
          NOT_DELETED_ID,        \* above every transaction id
          RepeatedRows,          \* a statement may delete a row twice (USING)
          Writers,               \* the transactions that change the table
          MAX_DELETES,           \* bound: delete entries in one undo buffer
          MAX_ROWS               \* bound: rows in the row group

ASSUME RowVersionsAssumption ==
    /\ IsFiniteSet(Txns) /\ Nobody \notin Txns
    /\ VectorCount \in Nat \ {0} /\ STANDARD_VECTOR_SIZE \in Nat \ {0}
    /\ MAX_ROWS \in 1..(VectorCount * STANDARD_VECTOR_SIZE) /\ INITIAL_ROWS \in 1..MAX_ROWS
    /\ TRANSACTION_ID_START \in Nat /\ 2 * Cardinality(Txns) + 4 < TRANSACTION_ID_START
    /\ NOT_DELETED_ID \in Nat
    /\ NOT_DELETED_ID > TRANSACTION_ID_START + Cardinality(Txns) + 1
    /\ RepeatedRows \in BOOLEAN /\ Writers \subseteq Txns /\ MAX_DELETES \in Nat

VARIABLES vector_info,               \* what each vector has: an Info or NoInfo
          size,                      \* vector_info.size()
          count,                     \* rows in the row group
          has_unserialized_changes,
          storage, storage_count,    \* what the last checkpoint wrote
          requires_new_row_group,    \* appends go to another row group
          current_timestamp, current_transaction_id,
          start_time, transaction_id, commit_id,
          undo,                      \* sequence of undo entries
          lowest,                    \* lowest_start_time of the scheduled cleanup
          pc, pos, stop,             \* the thread, and its place in the undo buffer
          transaction_lock,
          committer                  \* who appends: one commit at a time does

disk  == <<storage, storage_count>>
times == <<current_timestamp, current_transaction_id, start_time, transaction_id>>
vars  == <<vector_info, size, count, has_unserialized_changes, disk, requires_new_row_group,
           times, commit_id, undo, lowest, pc, pos, stop, transaction_lock, committer>>

Vectors == 0..(VectorCount - 1)
Rows    == 0..(STANDARD_VECTOR_SIZE - 1)
VectorOf(r) == r \div STANDARD_VECTOR_SIZE
IndexOf(r)  == r % STANDARD_VECTOR_SIZE

-----------------------------------------------------------------------------
(* The version information of a vector                                     *)

NoInfo == [type |-> "none"]

FillVectorInfo(v) == IF size > v THEN size ELSE v + 1

ConstantInfo(insert, delete) == [type |-> "constant", insert_id |-> insert, delete_id |-> delete]

\* A new ChunkVectorInfo, with the insert id of the constant it replaces, if any.
VectorInfo(insert) ==
    [type |-> "vector", insert_id |-> insert, same_inserted_id |-> TRUE,
     any_deleted |-> FALSE, inserted |-> [i \in Rows |-> insert],
     deleted |-> [i \in Rows |-> NOT_DELETED_ID]]

GetVectorInfo(v) ==
    CASE vector_info[v].type = "none"     -> VectorInfo(0)
      [] vector_info[v].type = "constant" -> VectorInfo(vector_info[v].insert_id)
      [] vector_info[v].type = "vector"   -> vector_info[v]

UseInsertedVersion(start, id, stamp) == stamp < start \/ stamp = id

UseDeletedVersion(start, id, stamp) == ~UseInsertedVersion(start, id, stamp)

\* The rows of a vector that a scan selects: the shortcuts of insert_id and
\* any_deleted are taken when they apply.
GetSelVector(info, start, id) ==
    CASE info.type = "none" -> Rows
      [] info.type = "constant" ->
           {i \in Rows : /\ UseInsertedVersion(start, id, info.insert_id)
                         /\ UseDeletedVersion(start, id, info.delete_id)}
      [] info.type = "vector" ->
           {i \in Rows :
              /\ UseInsertedVersion(start, id, IF info.same_inserted_id THEN info.insert_id
                                               ELSE info.inserted[i])
              /\ info.any_deleted => UseDeletedVersion(start, id, info.deleted[i])}

\* A single row, as an index scan fetches it.
Fetch(info, start, id, i) ==
    CASE info.type = "none" -> TRUE
      [] info.type = "constant" -> /\ UseInsertedVersion(start, id, info.insert_id)
                                   /\ ~UseInsertedVersion(start, id, info.delete_id)
      [] info.type = "vector" -> /\ UseInsertedVersion(start, id, info.inserted[i])
                                 /\ ~UseInsertedVersion(start, id, info.deleted[i])

\* ChunkVectorInfo::Append to the rows first..(end - 1).
Append1(info, first, end, id) ==
    LET same == first = 0 \/ info.insert_id = id
    IN  [info EXCEPT !.insert_id = IF same THEN id ELSE NOT_DELETED_ID,
                     !.same_inserted_id = same /\ @,
                     !.inserted = [i \in Rows |-> IF first <= i /\ i < end THEN id ELSE @[i]]]

\* Defect: only the array is stamped, not the id that stands for all rows.
CommitAppend1ArrayOnly(info, first, end, id) ==
    IF info.type = "constant" THEN [info EXCEPT !.insert_id = id]
    ELSE [info EXCEPT !.inserted = [i \in Rows |-> IF first <= i /\ i < end THEN id ELSE @[i]]]

CommitAppend1(info, first, end, id) ==
    IF info.type = "constant" THEN [info EXCEPT !.insert_id = id]
    ELSE [info EXCEPT !.insert_id = IF info.same_inserted_id THEN id ELSE @,
                      !.inserted = [i \in Rows |-> IF first <= i /\ i < end THEN id ELSE @[i]]]

CommitDelete1(info, rows, id) ==
    [info EXCEPT !.deleted = [i \in Rows |-> IF i \in rows THEN id ELSE @[i]]]

\* Whether the info says "visible" to every transaction from now on.
CleanupInfo(info, low) ==
    IF info.type = "constant" THEN info.delete_id = NOT_DELETED_ID /\ info.insert_id <= low
    ELSE /\ ~info.any_deleted
         /\ IF info.same_inserted_id THEN info.insert_id <= low
            ELSE \A i \in Rows \ {0} : info.inserted[i] <= low

HasDeletes(info) ==
    CASE info.type = "none" -> FALSE
      [] info.type = "constant" -> \/ info.insert_id >= TRANSACTION_ID_START
                                   \/ info.delete_id < TRANSACTION_ID_START
      [] info.type = "vector" -> info.any_deleted

\* What Read makes of what Write wrote: the rows that are not committed, or
\* deleted, come back as deleted by timestamp 0.
WriteAndRead(info) ==
    LET sel == GetSelVector(info, TRANSACTION_ID_START - 1, NOT_DELETED_ID + 1)
    IN  CASE ~HasDeletes(info) \/ sel = Rows -> NoInfo
          [] HasDeletes(info) /\ sel = {}    -> ConstantInfo(0, 0)
          [] OTHER -> [VectorInfo(0) EXCEPT
                          !.any_deleted = TRUE,
                          !.deleted = [i \in Rows |-> IF i \in sel THEN NOT_DELETED_ID ELSE 0]]

-----------------------------------------------------------------------------

FIRST_COMMIT == 3   \* the first transaction starts at 2 and commits at 3

\* A vector that the first append filled was cleaned up, the last one may be partial.
Init ==
    /\ vector_info = [v \in Vectors |->
          IF v = VectorOf(INITIAL_ROWS) /\ IndexOf(INITIAL_ROWS) > 0
          THEN Append1(VectorInfo(0), 0, IndexOf(INITIAL_ROWS), FIRST_COMMIT) ELSE NoInfo]
    /\ size = VectorOf(INITIAL_ROWS - 1) + 1 /\ count = INITIAL_ROWS
    /\ has_unserialized_changes = FALSE
    /\ storage = [v \in Vectors |-> NoInfo] /\ storage_count = INITIAL_ROWS
    /\ requires_new_row_group = FALSE
    /\ current_timestamp = FIRST_COMMIT + 1
    /\ current_transaction_id = TRANSACTION_ID_START + 1
    /\ start_time = [t \in Txns |-> 0]
    /\ transaction_id = [t \in Txns |-> 0]
    /\ commit_id = [t \in Txns |-> 0]
    /\ undo = [t \in Txns |-> <<>>]
    /\ lowest = [t \in Txns |-> 0]
    /\ pc = [t \in Txns |-> "idle"]
    /\ pos = [t \in Txns |-> 0] /\ stop = [t \in Txns |-> 0]
    /\ transaction_lock = Nobody /\ committer = Nobody

\* Defect: the same timestamp is handed out again.
NextTimestampSame == current_timestamp

\* The value of the timestamp counter after one was handed out.
NextTimestamp == current_timestamp + 1

Goto(t, from, to) == pc[t] = from /\ pc' = [pc EXCEPT ![t] = to]

Active == {t \in Txns : pc[t] \notin {"idle", "committed", "aborted", "cleaned"}}

StartTransaction(t) ==
    /\ Goto(t, "idle", "running")
    /\ transaction_lock = Nobody
    /\ start_time' = [start_time EXCEPT ![t] = current_timestamp]
    /\ transaction_id' = [transaction_id EXCEPT ![t] = current_transaction_id]
    /\ current_timestamp' = NextTimestamp
    /\ current_transaction_id' = current_transaction_id + 1
    /\ UNCHANGED <<vector_info, size, count, has_unserialized_changes, disk, requires_new_row_group,
                   commit_id, undo, lowest, pos, stop, transaction_lock, committer>>

\* The rows that a scan of t selects, and the single rows it can fetch.
Scan(t) == {r \in 0..(count - 1) :
              IndexOf(r) \in GetSelVector(vector_info[VectorOf(r)], start_time[t],
                                          transaction_id[t])}
Fetched(t) == {r \in 0..(count - 1) :
                 Fetch(vector_info[VectorOf(r)], start_time[t], transaction_id[t], IndexOf(r))}

\* The rows that an entry of an undo buffer says are deleted.
DeletedRows(e) == IF e.is_consecutive THEN 0..(e.count - 1) ELSE e.rows

\* The rows of vector v that t has deleted.
DeletedBy(t, v) == UNION {DeletedRows(undo[t][i]) : i \in {j \in 1..Len(undo[t]) :
                             undo[t][j].type = "delete" /\ undo[t][j].vector = v}}

\* The lists of rows of one vector that a statement of t may ask to delete: those
\* it can see and, when the same row may come again, those it deleted before.
DeleteInput(t, v) ==
    LET visible == {i \in Rows : t \in Writers /\ v * STANDARD_VECTOR_SIZE + i \in Scan(t)}
        allowed == IF RepeatedRows THEN visible \cup DeletedBy(t, v) ELSE visible
    IN  {rows \in UNION {[1..n -> allowed] : n \in 1..STANDARD_VECTOR_SIZE} :
           RepeatedRows \/ \A i, j \in DOMAIN rows : rows[i] = rows[j] => i = j}

\* The positions in rows[1..n] that the loop of ChunkVectorInfo::Delete marks.
NewlyDeleted(t, info, rows, n) ==
    {j \in 1..n : /\ info.deleted[rows[j]] # transaction_id[t]
                  /\ \A k \in 1..(j - 1) : rows[k] # rows[j]}

\* Whether another transaction has deleted the row.
Conflicting(t, info, i) == info.deleted[i] \notin {transaction_id[t], NOT_DELETED_ID}

\* Defect: deleting a row that another transaction has deleted is no conflict.
FirstConflictIgnored(t, info, rows) == Len(rows) + 1

\* The position of the first conflict, or Len(rows) + 1.
FirstConflict(t, info, rows) ==
    CHOOSE n \in 1..(Len(rows) + 1) :
        /\ \A j \in 1..(n - 1) : ~Conflicting(t, info, rows[j])
        /\ n <= Len(rows) => Conflicting(t, info, rows[n])

\* Defect: the rows before the conflict stay marked.
UnsetNothing(t, info, rows, n) == {}

\* The rows that are unset on a conflict after position n: the first ones of the
\* array, which now holds the newly deleted rows followed by what it held before.
Unset(t, info, rows, n) ==
    LET new == NewlyDeleted(t, info, rows, n)
    IN  {rows[j] : j \in new \cup ((Cardinality(new) + 1)..n)}

\* PushDelete: the rows are not stored when they are 0, 1, 2, ...
DeleteEntry(t, v, info, rows) ==
    LET new == NewlyDeleted(t, info, rows, Len(rows))
        consecutive == \A j \in new : rows[j] = Cardinality({k \in new : k < j})
    IN  [type |-> "delete", vector |-> v, count |-> Cardinality(new),
         is_consecutive |-> consecutive,
         rows |-> IF consecutive THEN {} ELSE {rows[j] : j \in new}]

\* VersionDeleteState::Flush, in a running transaction.  An error invalidates the
\* transaction of the client.
Delete(t, v, rows) ==
    LET info == [GetVectorInfo(v) EXCEPT !.any_deleted = TRUE]
        n    == FirstConflict(t, info, rows) - 1
        new  == NewlyDeleted(t, info, rows, n)
        marked == CommitDelete1(info, {rows[j] : j \in new}, transaction_id[t])
    IN  /\ size' = FillVectorInfo(v)
        /\ has_unserialized_changes' = TRUE
        /\ IF n < Len(rows)
           THEN /\ vector_info' = [vector_info EXCEPT ![v] =
                                     CommitDelete1(marked, Unset(t, info, rows, n), NOT_DELETED_ID)]
                /\ pc' = [pc EXCEPT ![t] = "failed"]
                /\ UNCHANGED undo
           ELSE /\ vector_info' = [vector_info EXCEPT ![v] = marked]
                /\ undo' = [undo EXCEPT ![t] = IF new = {} THEN @
                                               ELSE Append(@, DeleteEntry(t, v, info, rows))]
                /\ UNCHANGED pc
        /\ UNCHANGED <<count, disk, requires_new_row_group, times, commit_id, lowest, pos,
                       stop, transaction_lock, committer>>

-----------------------------------------------------------------------------
(* Commit                                                                  *)

\* The first row of vector v, and the row after the last one, in first..(end - 1).
VectorStart(v, first) == IF v = VectorOf(first) THEN IndexOf(first) ELSE 0
VectorEnd(v, end) == IF v = VectorOf(end - 1) THEN IndexOf(end - 1) + 1 ELSE STANDARD_VECTOR_SIZE
Spanned(first, end) == {v \in Vectors : VectorOf(first) <= v /\ v <= VectorOf(end - 1)}

\* AppendVersionInfo; a constant info here is an InternalException.
AppendVersionInfo(first, end, id) ==
    [v \in Vectors |->
        IF v \notin Spanned(first, end) THEN vector_info[v]
        ELSE IF VectorStart(v, first) = 0 /\ VectorEnd(v, end) = STANDARD_VECTOR_SIZE
             THEN ConstantInfo(id, NOT_DELETED_ID)
             ELSE Append1(IF vector_info[v].type = "none" THEN VectorInfo(0) ELSE vector_info[v],
                          VectorStart(v, first), VectorEnd(v, end), id)]

FirstReverted(first) == (first + STANDARD_VECTOR_SIZE - 1) \div STANDARD_VECTOR_SIZE

RevertAppend(e) ==
    /\ vector_info' = [v \in Vectors |-> IF v >= FirstReverted(e.start) THEN NoInfo
                                         ELSE vector_info[v]]
    /\ count' = IF e.start < count THEN e.start ELSE count
    /\ UNCHANGED <<size, has_unserialized_changes>>

\* LocalStorage::Commit, with n rows that t inserted: PushAppend, then the append.
\* A failed append (a constraint of an index) is reverted; its undo entry stays.
Flush(t, n) ==
    LET e == [type |-> "append", start |-> count, count |-> n]
    IN  /\ Goto(t, "running", "flushed")
        /\ t \in Writers /\ committer = Nobody
        /\ n > 0 \/ undo[t] # <<>>
        /\ count + n <= MAX_ROWS
        /\ n > 0 => ~requires_new_row_group
        /\ committer' = t
        /\ undo' = [undo EXCEPT ![t] = IF n = 0 THEN @ ELSE Append(@, e)]
        /\ IF n = 0 THEN UNCHANGED <<vector_info, size, count, has_unserialized_changes>>
           ELSE /\ vector_info' = AppendVersionInfo(count, count + n, transaction_id[t])
                /\ size' = FillVectorInfo(VectorOf(count + n - 1))
                /\ count' = count + n
                /\ has_unserialized_changes' = TRUE
        /\ UNCHANGED <<disk, requires_new_row_group, times, commit_id, lowest, pos, stop,
                       transaction_lock>>

FlushFails(t, n) ==
    LET e == [type |-> "append", start |-> count, count |-> n]
    IN  /\ Goto(t, "running", "flush_failed")
        /\ t \in Writers /\ committer = Nobody
        /\ count + n <= MAX_ROWS
        /\ n > 0 /\ ~requires_new_row_group
        /\ committer' = t
        /\ undo' = [undo EXCEPT ![t] = Append(@, e)]
        /\ RevertAppend(e)
        /\ UNCHANGED <<disk, requires_new_row_group, times, commit_id, lowest, pos, stop,
                       transaction_lock>>

\* The commit timestamp is drawn, and the undo buffer is stamped, also reverted or
\* rolled back at once when the flush (of this or another table) or the write to
\* the log has failed.
Commit(t, to) ==
    /\ pc[t] \in {"flushed", "flush_failed"}
    /\ pc[t] = "flush_failed" => to # "stamping"
    /\ transaction_lock = Nobody
    /\ transaction_lock' = t
    /\ pc' = [pc EXCEPT ![t] = to]
    /\ pos' = [pos EXCEPT ![t] = IF to = "undoing" THEN Len(undo[t]) ELSE 1]
    /\ stop' = [stop EXCEPT ![t] = Len(undo[t])]
    /\ commit_id' = [commit_id EXCEPT ![t] = IF to = "undoing" THEN 0 ELSE current_timestamp]
    /\ current_timestamp' = NextTimestamp
    /\ UNCHANGED <<vector_info, size, count, has_unserialized_changes, disk,
                   requires_new_row_group, current_transaction_id, start_time,
                   transaction_id, undo, lowest, committer>>


IsLowestStart(t, low) ==
    LET others == Active \ {t}
    IN  IF others = {} THEN low = TRANSACTION_ID_START
        ELSE /\ \E u \in others : low = start_time[u]
             /\ \A u \in others : low <= start_time[u]

\* RemoveTransaction: t is scheduled for cleanup, or stored until no transaction
\* can need it; stored ones that nobody needs any more are scheduled.
RemoveTransaction(t, to) ==
    \E low \in {start_time[u] : u \in Active} \cup {TRANSACTION_ID_START}, store \in BOOLEAN :
        /\ IsLowestStart(t, low)
        /\ store => to = "committed" /\ undo[t] # <<>>
        /\ pc' = [pc EXCEPT ![t] = to]
        /\ lowest' = [u \in Txns |->
             IF \/ u = t /\ to = "committed" /\ undo[t] # <<>> /\ ~store
                \/ /\ lowest[u] = 0 /\ pc'[u] = "committed" /\ undo[u] # <<>>
                   /\ u # t \/ store
                   /\ commit_id'[u] < low
             THEN low ELSE lowest[u]]
        /\ pos' = [pos EXCEPT ![t] = 0] /\ stop' = [stop EXCEPT ![t] = 0]
        /\ transaction_lock' = Nobody
        /\ committer' = IF committer = t THEN Nobody ELSE committer
        /\ UNCHANGED <<vector_info, size, count, has_unserialized_changes, disk,
                       requires_new_row_group, undo>>

\* A transaction without changes only draws a commit timestamp and is removed.
CommitReadOnly(t) ==
    /\ pc[t] = "running" /\ undo[t] = <<>>
    /\ transaction_lock = Nobody
    /\ current_timestamp' = NextTimestamp
    /\ commit_id' = [commit_id EXCEPT ![t] = current_timestamp]
    /\ RemoveTransaction(t, "committed")
    /\ UNCHANGED <<current_transaction_id, start_time, transaction_id>>

\* The vectors after CommitState::CommitEntry has stamped the entry with id.
Stamped(e, id) ==
    IF e.type = "delete"
    THEN [vector_info EXCEPT ![e.vector] =
             CommitDelete1(GetVectorInfo(e.vector), DeletedRows(e), id)]
    ELSE [v \in Vectors |->
             IF v \notin Spanned(e.start, e.start + e.count) THEN vector_info[v]
             ELSE CommitAppend1(vector_info[v], VectorStart(v, e.start),
                                VectorEnd(v, e.start + e.count), id)]

CommitEntry(t) ==
    /\ pc[t] = "stamping" /\ pos[t] <= Len(undo[t])
    /\ vector_info' = Stamped(undo[t][pos[t]], commit_id[t])
    /\ UNCHANGED size
    /\ has_unserialized_changes' =
           (has_unserialized_changes \/ undo[t][pos[t]].type = "delete")
    /\ pos' = [pos EXCEPT ![t] = @ + 1]
    /\ UNCHANGED <<count, disk, requires_new_row_group, times, commit_id, undo, lowest, pc,
                   stop, transaction_lock, committer>>

\* CommitEntry throws before it does anything (the table was altered), or the
\* flush of the log fails: the entries up to here are reverted.
CommitFails(t) ==
    /\ undo[t] # <<>>
    /\ Goto(t, "stamping", "reverting")
    /\ pos' = [pos EXCEPT ![t] = 1]
    /\ stop' = [stop EXCEPT ![t] = IF pos[t] <= Len(undo[t]) THEN pos[t] ELSE Len(undo[t])]
    /\ UNCHANGED <<vector_info, size, count, has_unserialized_changes, disk, requires_new_row_group,
                   times, commit_id, undo, lowest, transaction_lock, committer>>

-----------------------------------------------------------------------------
(* Rollback and removal                                                    *)

\* A delete entry gets the mark id; an append entry is reverted.
RevertEntry(e, id) ==
    IF e.type = "append" THEN RevertAppend(e)
    ELSE /\ vector_info' = Stamped(e, id)
         /\ has_unserialized_changes' = TRUE
         /\ UNCHANGED <<size, count>>

\* UndoBuffer::RevertCommit, in insertion order, then on to the rollback.
RevertCommitEntry(t) ==
    /\ pc[t] = "reverting"
    /\ RevertEntry(undo[t][pos[t]], transaction_id[t])
    /\ IF pos[t] < stop[t]
       THEN pos' = [pos EXCEPT ![t] = @ + 1] /\ UNCHANGED <<pc, commit_id>>
       ELSE /\ pos' = [pos EXCEPT ![t] = Len(undo[t])]
            /\ pc' = [pc EXCEPT ![t] = "undoing"]
            /\ commit_id' = [commit_id EXCEPT ![t] = 0]
    /\ UNCHANGED <<disk, requires_new_row_group, times, undo, lowest, stop,
                   transaction_lock, committer>>

\* RollbackTransaction, of a client whose transaction may have been invalidated.
RollbackTransaction(t) ==
    /\ pc[t] \in {"running", "failed"}
    /\ undo[t] # <<>> \/ pc[t] = "failed"
    /\ transaction_lock = Nobody
    /\ transaction_lock' = t
    /\ pc' = [pc EXCEPT ![t] = "undoing"]
    /\ pos' = [pos EXCEPT ![t] = Len(undo[t])]
    /\ UNCHANGED <<vector_info, size, count, has_unserialized_changes, disk, requires_new_row_group,
                   times, commit_id, undo, lowest, stop, committer>>

\* UndoBuffer::Rollback, in reverse order.
RollbackEntry(t) ==
    /\ pc[t] = "undoing" /\ pos[t] > 0
    /\ RevertEntry(undo[t][pos[t]], NOT_DELETED_ID)
    /\ pos' = [pos EXCEPT ![t] = @ - 1]
    /\ UNCHANGED <<disk, requires_new_row_group, times, commit_id, undo, lowest, pc, stop,
                   transaction_lock, committer>>

RemoveCommitted(t) == /\ pc[t] = "stamping" /\ pos[t] > Len(undo[t])
                      /\ UNCHANGED <<times, commit_id>>
                      /\ RemoveTransaction(t, "committed")

RemoveAborted(t) == /\ pc[t] = "undoing" /\ pos[t] = 0
                    /\ UNCHANGED <<times, commit_id>>
                    /\ RemoveTransaction(t, "aborted")

\* The vectors whose info the cleanup of an append drops: written up to the end.
Dropped(e, low) ==
    {v \in Spanned(e.start, e.start + e.count) :
        /\ VectorEnd(v, e.start + e.count) = STANDARD_VECTOR_SIZE
        /\ vector_info[v].type # "none"
        /\ CleanupInfo(vector_info[v], low)}

Cleanup(t) ==
    LET appends == {i \in 1..Len(undo[t]) : undo[t][i].type = "append"}
        dropped == UNION {Dropped(undo[t][i], lowest[t]) : i \in appends}
    IN  /\ lowest[t] # 0
        /\ Goto(t, "committed", "cleaned")
        /\ vector_info' = [v \in Vectors |-> IF v \in dropped THEN NoInfo ELSE vector_info[v]]
        /\ has_unserialized_changes' = (\/ has_unserialized_changes
                                        \/ \E v \in dropped : HasDeletes(vector_info[v]))
        /\ UNCHANGED <<size, count, disk, requires_new_row_group, times, commit_id, undo, lowest,
                       pos, stop, transaction_lock, committer>>

-----------------------------------------------------------------------------
(* Checkpoint and restart                                                  *)

\* A checkpoint runs when no transaction with changes is open (the exclusive key
\* of the checkpoint lock).
NoWriters == \A t \in Active : undo[t] = <<>> /\ pc[t] = "running"

\* Defect: the stored pointers are reused after every checkpoint.
StoredReused(v) == storage[v]

\* RowVersionManager::Checkpoint: what is stored is kept when nothing changed.
Stored(v) == IF has_unserialized_changes THEN WriteAndRead(vector_info[v]) ELSE storage[v]

Checkpoint ==
    /\ NoWriters
    /\ storage' = [v \in Vectors |-> Stored(v)]
    /\ storage_count' = count
    /\ has_unserialized_changes' = FALSE
    /\ UNCHANGED <<vector_info, size, count, requires_new_row_group, times, commit_id, undo,
                   lowest, pc, pos, stop, transaction_lock, committer>>

\* The database is closed after a checkpoint and opened again.
Reopen ==
    /\ Active = {} /\ ~has_unserialized_changes
    /\ ~requires_new_row_group
    /\ vector_info' = storage /\ count' = storage_count
    /\ \E n \in 0..VectorCount :
         /\ size' = n
         /\ \A v \in Vectors : storage[v].type # "none" => v < n
         /\ n > 0 => storage[n - 1].type # "none"
    /\ requires_new_row_group' = TRUE
    /\ pc' = [t \in Txns |-> IF pc[t] = "committed" THEN "cleaned" ELSE pc[t]]
    /\ UNCHANGED <<has_unserialized_changes, disk, times, commit_id, undo, lowest, pos,
                   stop, transaction_lock, committer>>

-----------------------------------------------------------------------------

Next ==
    \/ \E t \in Txns :
         \/ StartTransaction(t)
         \/ /\ pc[t] = "running" /\ Len(undo[t]) < MAX_DELETES
            /\ \E v \in Vectors : \E rows \in DeleteInput(t, v) : Delete(t, v, rows)
         \/ \E n \in 0..MAX_ROWS : Flush(t, n) \/ FlushFails(t, n)
         \/ \E to \in {"stamping", "reverting", "undoing"} : Commit(t, to)
         \/ CommitReadOnly(t) \/ CommitEntry(t) \/ CommitFails(t)
         \/ RevertCommitEntry(t) \/ RollbackTransaction(t) \/ RollbackEntry(t)
         \/ RemoveCommitted(t) \/ RemoveAborted(t) \/ Cleanup(t)
    \/ Checkpoint \/ Reopen

Spec == Init /\ [][Next]_vars

-----------------------------------------------------------------------------
(* Properties                                                              *)

Stamps == 0..(current_timestamp - 1)
              \cup TRANSACTION_ID_START..(current_transaction_id - 1) \cup {NOT_DELETED_ID}

Infos == [type : {"none"}]
         \cup [type : {"constant"}, insert_id : Stamps, delete_id : Stamps]
         \cup [type : {"vector"}, insert_id : Stamps, same_inserted_id : BOOLEAN,
               any_deleted : BOOLEAN, inserted : [Rows -> Stamps], deleted : [Rows -> Stamps]]

\* Every variable holds a value of its C++ type; every stamp in a vector is a
\* timestamp or a transaction id that was handed out, or NOT_DELETED_ID.
TypeOK ==
    /\ vector_info \in [Vectors -> Infos] /\ storage \in [Vectors -> Infos]
    /\ size \in 0..VectorCount /\ storage_count \in Nat
    /\ count \in 0..MAX_ROWS
    /\ has_unserialized_changes \in BOOLEAN /\ requires_new_row_group \in BOOLEAN
    /\ \A t \in Txns : /\ start_time[t] < current_timestamp
                       /\ commit_id[t] < current_timestamp
                       /\ pos[t] \in 0..(Len(undo[t]) + 1)
    /\ transaction_lock \in Txns \cup {Nobody} /\ committer \in Txns \cup {Nobody}

\* What t must see of a change that u made: its own, and what was committed
\* before t started.
Sees(t, u) == u = t \/ (commit_id[u] # 0 /\ commit_id[u] < start_time[t])

InsertedBy(u) == UNION {e.start..(e.start + e.count - 1) :
                          e \in {undo[u][i] : i \in {j \in 1..Len(undo[u]) :
                                                       undo[u][j].type = "append"}}}
AllDeletedBy(u) ==
    UNION {{e.vector * STANDARD_VECTOR_SIZE + i : i \in DeletedRows(e)} :
             e \in {undo[u][i] : i \in {j \in 1..Len(undo[u]) : undo[u][j].type = "delete"}}}

\* Whose appends and deletes count: not those of aborted transactions.
Alive == {u \in Txns : pc[u] \notin {"idle", "aborted"}}

Snapshot(t) ==
    LET seen == {u \in Alive : Sees(t, u)}
    IN  ((0..(INITIAL_ROWS - 1) \cup UNION {InsertedBy(u) : u \in seen}) \cap 0..(count - 1))
          \ UNION {AllDeletedBy(u) : u \in seen}

Readers == {t \in Txns : pc[t] = "running"}


\* Fetching single rows, which never uses the shortcuts of insert_id and
\* any_deleted, returns the same rows as a scan.
FetchAgreesWithScan == \A t \in Readers : Fetched(t) = Scan(t)

\* No row is deleted by two transactions of which none is being, or was, undone:
\* two deletes of a row that both take effect would be a lost conflict.
OneDeleter ==
    \A t, u \in {x \in Alive : pc[x] \notin {"reverting", "undoing"}} :
        t # u => AllDeletedBy(t) \cap AllDeletedBy(u) = {}

DeletedStamp(r) ==
    LET info == vector_info[VectorOf(r)]
    IN  IF info.type = "vector" THEN info.deleted[IndexOf(r)] ELSE NOT_DELETED_ID

\* The mark of a transaction is on exactly the rows in its undo buffer, also after
\* a delete that ended in a conflict, so its commit or rollback finds all of them.
MarksMatchUndo ==
    \A t \in Txns : pc[t] \in {"running", "failed", "flushed", "flush_failed"} =>
        {r \in 0..(count - 1) : DeletedStamp(r) = transaction_id[t]} = AllDeletedBy(t)

\* The deletes that were written by the last checkpoint are those in memory as
\* long as has_unserialized_changes is false: reusing the stored ones loses none.
StoredDeletesCurrent ==
    ~has_unserialized_changes =>
        /\ storage_count = count
        /\ \A r \in 0..(count - 1) :
             LET ByNewReader(infos) == Fetch(infos[VectorOf(r)], current_timestamp,
                                             NOT_DELETED_ID + 1, IndexOf(r))
             IN  ByNewReader(storage) <=> ByNewReader(vector_info)

\* "unset any deleted tuples we set in this loop": a delete that fails with a
\* conflict leaves the deleted mark of every row as it was before the call.
ConflictRestoresMarks ==
    [][\A t \in Txns : pc[t] = "running" /\ pc'[t] = "failed" =>
           \A r \in 0..(count - 1) : DeletedStamp(r)' = DeletedStamp(r)]_vars

-----------------------------------------------------------------------------
(* Inductive invariants.  In all of them a row is given by its vector v and  *)
(* its index i in it.                                                        *)

Open      == {"running", "failed", "flushed", "flush_failed"}
Finishing == {"stamping", "reverting", "undoing"}
Appending == {"flushed", "flush_failed"} \cup Finishing

Entries == [type : {"delete"}, vector : Vectors, count : 0..STANDARD_VECTOR_SIZE,
            is_consecutive : BOOLEAN, rows : SUBSET Rows]
           \cup [type : {"append"}, start : 0..MAX_ROWS, count : Nat \ {0}]

\* The types of all variables.
PlainTypes ==
    /\ size \in 0..VectorCount
    /\ count \in 0..MAX_ROWS /\ storage_count \in 0..MAX_ROWS
    /\ has_unserialized_changes \in BOOLEAN /\ requires_new_row_group \in BOOLEAN
    /\ current_timestamp \in Nat /\ current_transaction_id \in Nat
    /\ start_time \in [Txns -> Nat] /\ transaction_id \in [Txns -> Nat]
    /\ commit_id \in [Txns -> Nat] /\ lowest \in [Txns -> Nat]
    /\ undo \in [Txns -> Seq(Entries)]
    /\ pos \in [Txns -> Nat] /\ stop \in [Txns -> Nat]
    /\ pc \in [Txns -> {"idle", "committed", "aborted", "cleaned"} \cup Open \cup Finishing]
    /\ transaction_lock \in Txns \cup {Nobody} /\ committer \in Txns \cup {Nobody}

RowTypes == PlainTypes /\ vector_info \in [Vectors -> Infos] /\ storage \in [Vectors -> Infos]

\* Every timestamp that was drawn belongs to a start or to the end of a
\* transaction: timestamps stay below the transaction ids, and these below
\* NOT_DELETED_ID.
CounterInv ==
    LET begun == {t \in Txns : pc[t] # "idle"}
        ended == {t \in begun : pc[t] \notin Open}
    IN  /\ current_timestamp <= FIRST_COMMIT + 1 + Cardinality(begun) + Cardinality(ended)
        /\ current_transaction_id <= TRANSACTION_ID_START + 1 + Cardinality(begun)

\* Ids are unique, and a commit id, which is above every start time when it is
\* drawn, is there from the commit to its failure.
IdInv ==
    /\ FIRST_COMMIT < current_timestamp /\ TRANSACTION_ID_START < current_transaction_id
    /\ \A t \in Txns :
        /\ start_time[t] < current_timestamp /\ commit_id[t] < current_timestamp
        /\ pc[t] # "idle" => /\ TRANSACTION_ID_START < transaction_id[t]
                             /\ transaction_id[t] < current_transaction_id
                             /\ 0 < start_time[t]
        /\ \A u \in Txns : t # u /\ pc[t] # "idle" /\ pc[u] # "idle"
                             => transaction_id[t] # transaction_id[u]
        /\ pc[t] \in Open \cup {"idle"} => commit_id[t] = 0
        /\ pc[t] \in {"stamping", "reverting"} =>
             0 < commit_id[t] /\ \A u \in Txns : start_time[u] < commit_id[t]

\* The places of threads in their undo buffers.
PositionInv ==
    \A t \in Txns :
        /\ pos[t] <= Len(undo[t]) + 1
        /\ pc[t] = "idle" => undo[t] = <<>>
        /\ pc[t] = "reverting" => pos[t] \in 1..stop[t] /\ stop[t] <= Len(undo[t])
        /\ pc[t] = "stamping" => 0 < pos[t]
        /\ pc[t] = "undoing" => pos[t] <= Len(undo[t])
        /\ pc[t] \in {"flushed", "flush_failed"} => undo[t] # <<>>

\* The transaction lock is held exactly while the undo buffer is worked on, and
\* only the committer has an open append, as the last of its entries.
OwnerInv ==
    \A t \in Txns :
        /\ transaction_lock = t <=> pc[t] \in Finishing
        /\ pc[t] \in {"flushed", "flush_failed", "stamping", "reverting"} => committer = t
        /\ \A k \in 1..Len(undo[t]) : undo[t][k].type = "append" =>
             /\ k = Len(undo[t]) /\ pc[t] \notin {"running", "failed"}
             /\ pc[t] = "undoing" => committer = t

PhaseInv == IdInv /\ PositionInv /\ OwnerInv

\* t has an append that is neither committed nor aborted, and starts at row n.
AppendsFrom(t, n) ==
    /\ pc[t] \in Appending
    /\ \E k \in 1..Len(undo[t]) : undo[t][k].type = "append" /\ undo[t][k].start = n

Row(v, i) == v * STANDARD_VECTOR_SIZE + i

\* The stamp that decides whether a scan sees the insert of the row.
InsertStamp(info, i) ==
    IF info.type = "vector" /\ ~info.same_inserted_id THEN info.inserted[i] ELSE info.insert_id

\* Nobody but t can see the row: it carries the id of t, or a commit id that was
\* drawn after everybody started.
Hidden(t, v, i) ==
    LET stamp == InsertStamp(vector_info[v], i)
    IN  /\ vector_info[v].type # "none"
        /\ \/ stamp = transaction_id[t]
           \/ /\ pc[t] \in Finishing
              /\ stamp < TRANSACTION_ID_START /\ \A u \in Txns : start_time[u] < stamp

\* The rows of an open append are the last ones, and they are hidden.
Fresh(t, n) ==
    /\ n <= count /\ ~requires_new_row_group
    /\ n < count => has_unserialized_changes /\ pc[t] # "flush_failed"
    /\ \A v \in Vectors, i \in Rows :
         n <= Row(v, i) /\ Row(v, i) < count => Hidden(t, v, i)

FreshInv == \A t \in Txns, n \in 0..MAX_ROWS : AppendsFrom(t, n) => Fresh(t, n)

\* A constant info is one of a full vector, and an append did not start inside it.
ConstantInv ==
    \A v \in Vectors : vector_info[v].type = "constant" =>
        /\ requires_new_row_group \/ Row(v + 1, 0) <= count
        /\ \A t \in Txns, n \in 0..MAX_ROWS :
             AppendsFrom(t, n) => Row(v + 1, 0) <= n \/ n <= Row(v, 0)

\* Where appends end: the open one is the last, committed ones are before it.
EndInv ==
    \A t \in Txns : \A k \in 1..Len(undo[t]) : undo[t][k].type = "append" =>
        LET end == undo[t][k].start + undo[t][k].count
        IN  /\ pc[t] \in {"flushed", "stamping"} => count = end
            /\ pc[t] = "committed" =>
                 end <= count /\ \A u \in Txns, n \in 0..MAX_ROWS : AppendsFrom(u, n) => end <= n

AppendInv == /\ FreshInv /\ ConstantInv /\ EndInv
             /\ ~has_unserialized_changes => storage_count = count

\* The deleted mark of a row.
Mark(info, i) == CASE info.type = "none" -> NOT_DELETED_ID
                   [] info.type = "constant" -> info.delete_id
                   [] info.type = "vector" -> info.deleted[i]

\* Entry k of u is a delete of the row that was not rolled back.
Deletes(u, k, v, i) ==
    /\ undo[u][k].type = "delete" /\ undo[u][k].vector = v /\ i \in DeletedRows(undo[u][k])
    /\ pc[u] # "aborted"
    /\ pc[u] = "undoing" => k <= pos[u]

\* The row is there, and not of an open append.
Placed(v, i) ==
    /\ Row(v, i) < count
    /\ \A t \in Txns, n \in 0..MAX_ROWS : AppendsFrom(t, n) => Row(v, i) < n

\* The mark that the phase of u asks for on a row that its entry k deletes.
Marked(u, k, v, i) ==
    LET mark == Mark(vector_info[v], i)
    IN  /\ pc[u] \in Open => mark = transaction_id[u]
        /\ pc[u] = "stamping" => mark = IF k < pos[u] THEN commit_id[u] ELSE transaction_id[u]
        /\ pc[u] \in {"reverting", "undoing"} =>
             mark = transaction_id[u] \/ (0 < mark /\ mark < TRANSACTION_ID_START)
        /\ pc[u] \notin {"committed", "cleaned"} => has_unserialized_changes
        /\ pc[u] \in {"committed", "cleaned"} =>
             /\ mark < TRANSACTION_ID_START
             /\ has_unserialized_changes \/ Mark(storage[v], i) < TRANSACTION_ID_START

\* The shortcuts agree with the marks.
Summarised(info) ==
    /\ info.type = "constant" => info.delete_id \in {0, NOT_DELETED_ID}
    /\ info.type = "vector" /\ ~info.any_deleted => \A i \in Rows : info.deleted[i] = NOT_DELETED_ID

SummaryInv == \A v \in Vectors : Summarised(vector_info[v]) /\ Summarised(storage[v])

\* The rows of the delete entries are marked: also while an undo buffer is
\* stamped, reverted or rolled back.
EntryInv ==
    \A u \in Txns : \A k \in 1..Len(undo[u]), v \in Vectors, i \in Rows :
        Deletes(u, k, v, i) => Placed(v, i) /\ Marked(u, k, v, i)

\* No delete entry is empty, and no row is in two of them.
OnceInv ==
    \A u \in Txns : \A k \in 1..Len(undo[u]) : undo[u][k].type = "delete" =>
        /\ DeletedRows(undo[u][k]) # {}
        /\ \A v \in Vectors, i \in Rows, t \in Txns : \A l \in 1..Len(undo[t]) :
             Deletes(u, k, v, i) /\ Deletes(t, l, v, i) => t = u /\ l = k

\* A row with the mark of an open transaction is in its undo buffer.
OwnInv ==
    \A t \in Txns, v \in Vectors, i \in Rows :
        pc[t] \in Open /\ Mark(vector_info[v], i) = transaction_id[t] =>
            \E k \in 1..Len(undo[t]) : Deletes(t, k, v, i)

MarkInv == SummaryInv /\ EntryInv /\ OnceInv /\ OwnInv

=============================================================================
