--------------------------- MODULE UpdateSegment ---------------------------
(***************************************************************************)
(* In-place updates of one column of one vector.  StandardColumnData has   *)
(* two ColumnData parts, the values ("data") and the validity mask, and    *)
(* each has an UpdateSegment of its own: a base UpdateInfo that holds the  *)
(* newest values of the updated rows, followed by a doubly linked list of  *)
(* UpdateInfos that live in the undo buffers of the transactions and hold  *)
(* the values they replaced.  The undo buffers are committed, reverted,    *)
(* rolled back and cleaned up entry by entry; each access of a segment is  *)
(* one step, because it is made under the lock of that segment.            *)
(***************************************************************************)
EXTENDS Integers, FiniteSets, Sequences, TLC

CONSTANTS Txns,                  \* transactions, each used at most once
          Nil,                   \* no transaction, no pointer
          Base,                  \* the base UpdateInfo as a node of the list
          NULL,
          Rows,                  \* the rows of the vector
          Values,                \* the values of the column, NULL among them
          NewValues,             \* what the statements of a transaction may assign
          Initial,               \* the stored value of each row
          TRANSACTION_ID_START,  \* above every start and commit timestamp
          Targets,               \* bound: the sets of rows a statement may assign
          MaxUpdates             \* bound: the statements of a transaction

ASSUME UpdateSegmentAssumption ==
    /\ IsFiniteSet(Txns) /\ Nil \notin Txns
    /\ Base \notin Txns \cup {Nil}
    /\ Initial \in [Rows -> Values] /\ NewValues \in [Txns -> SUBSET Values]
    /\ Targets \subseteq SUBSET Rows \ {{}}
    /\ TRANSACTION_ID_START \in Nat /\ MaxUpdates \in [Txns -> Nat]
    /\ 2 * Cardinality(Txns) + 2 < TRANSACTION_ID_START

Columns == {"data", "validity"}

VARIABLES stored,            \* what the column segments hold, without updates
          info,              \* the base info: new value per updated row, or Unset
          next, prev,        \* the links of the UpdateInfos
          node,              \* the replaced values in a transaction's UpdateInfo
          version_number,
          undo,              \* the columns of the entries of an undo buffer
          current_timestamp, start_time, commit_id,
          pc, pos, stop,     \* the thread, and its place in the undo buffer
          assigned,          \* the statement that has not reached the validity yet
          transaction_lock, wal_lock,
          log,               \* per committed transaction the new values per column
          updates,           \* the number of statements so far
          wrote              \* history: the values a transaction gave to a row

lists == <<info, next, prev, node, version_number>>
vars  == <<stored, lists, undo, current_timestamp, start_time, commit_id, pc, pos, stop,
           assigned, transaction_lock, wal_lock, log, updates, wrote>>

Unset   == Nil     \* no version of the vector
Nothing == <<>>    \* the function with an empty domain

\* The id and the start time of a transaction are drawn together.
TransactionId(t) == TRANSACTION_ID_START + start_time[t]

\* How the two parts of the column represent a value; what the data part holds
\* for a NULL does not matter, since the mask hides it.
Stored(c, v) == IF c = "validity" THEN v # NULL ELSE v

Elements(seq) == {seq[i] : i \in 1..Len(seq)}

Goto(t, from, to) == pc[t] = from /\ pc' = [pc EXCEPT ![t] = to]

Active == {t \in Txns : pc[t] \notin {"idle", "committed", "cleaned", "aborted"}}

-----------------------------------------------------------------------------

Init ==
    /\ stored = [c \in Columns |-> [r \in Rows |-> Stored(c, Initial[r])]]
    /\ info = [c \in Columns |-> Unset]
    /\ next = [c \in Columns |-> [n \in Txns \cup {Base} |-> Nil]]
    /\ prev = [c \in Columns |-> [n \in Txns \cup {Base} |-> Nil]]
    /\ node = [c \in Columns |-> [t \in Txns |-> Nothing]]
    /\ version_number = [c \in Columns |-> [t \in Txns |-> 0]]
    /\ undo = [t \in Txns |-> <<>>]
    /\ current_timestamp = 2
    /\ start_time = [t \in Txns |-> 0]
    /\ commit_id = [t \in Txns |-> 0]
    /\ pc = [t \in Txns |-> "idle"]
    /\ pos = [t \in Txns |-> 0]
    /\ stop = [t \in Txns |-> 0]
    /\ assigned = [t \in Txns |-> Nothing]
    /\ transaction_lock = Nil
    /\ wal_lock = Nil
    /\ log = <<>>
    /\ updates = [t \in Txns |-> 0]
    /\ wrote = [t \in Txns |-> [r \in Rows |-> <<>>]]

StartTransaction(t) ==
    /\ Goto(t, "idle", "running")
    /\ transaction_lock = Nil
    /\ start_time' = [start_time EXCEPT ![t] = current_timestamp]
    /\ current_timestamp' = current_timestamp + 1
    /\ UNCHANGED <<stored, lists, undo, commit_id, pos, stop, assigned,
                   transaction_lock, wal_lock, log, updates, wrote>>

-----------------------------------------------------------------------------
(* Reading                                                                 *)

\* The transactions' UpdateInfos in the order of the list.
Chain(c) ==
    LET path[k \in 0..Cardinality(Txns)] ==
          IF k = 0 THEN <<Base>>
          ELSE LET p == path[k - 1]
               IN  IF next[c][p[Len(p)]] = Nil THEN p ELSE Append(p, next[c][p[Len(p)]])
    IN  Tail(path[Cardinality(Txns)])

\* Defect: a version that was committed after the start is taken for visible.
AppliesIfUncommitted(version, start, id) == version >= TRANSACTION_ID_START /\ version # id

\* The replaced values have to be used: committed after the start, or not yet.
AppliesToTransaction(version, start, id) == version > start /\ version # id

\* UpdatesForTransaction with the merge of every info on the way, newest first:
\* the base info and then what the infos replaced.  FetchRow does it for a row.
FetchUpdates(c, start, id) ==
    LET chain == Chain(c)
        merged[k \in 0..Len(chain)] ==
          IF k = 0 THEN IF info[c] # Unset /\ AppliesToTransaction(TRANSACTION_ID_START - 1, start, id)
                        THEN info[c] @@ stored[c] ELSE stored[c]
          ELSE IF AppliesToTransaction(version_number[c][chain[k]], start, id)
               THEN node[c][chain[k]] @@ merged[k - 1] ELSE merged[k - 1]
    IN  merged[Len(chain)]

\* The two parts of the column as values: the mask hides what the data part holds.
Masked(data, mask) == [r \in Rows |-> IF mask[r] THEN data[r] ELSE NULL]

Scan(start, id) == Masked(FetchUpdates("data", start, id), FetchUpdates("validity", start, id))

\* Scans that do not look at versions: the checkpoint and the log.
FetchCommitted(c) == IF info[c] = Unset THEN stored[c] ELSE info[c] @@ stored[c]

-----------------------------------------------------------------------------
(* Updating                                                                *)

\* Without a version of the vector, rows that are assigned what is stored are
\* skipped; with one, every row counts.
GetEffectiveUpdates(c, f) ==
    {r \in DOMAIN f : ~ (f[r] = stored[c][r] /\ (c = "data" => stored["validity"][r]))}

\* Defect: rows that another transaction has committed after the start of t are
\* no conflict.
ConflictsUncommitted(c, t, rows) ==
    \E n \in Elements(Chain(c)) :
       /\ AppliesIfUncommitted(version_number[c][n], start_time[t], TransactionId(t))
       /\ rows \cap DOMAIN node[c][n] # {}

CheckForConflicts(c, t, rows) ==
    \E n \in Elements(Chain(c)) :
       /\ AppliesToTransaction(version_number[c][n], start_time[t], TransactionId(t))
       /\ rows \cap DOMAIN node[c][n] # {}

\* Defect: CheckForConflicts does not find the node of its own transaction.
OwnNodeNever(c, t) == FALSE

\* The node that CheckForConflicts finds by its version number.
OwnNode(c, t) == t \in Elements(Chain(c)) /\ version_number[c][t] = TransactionId(t)

Restrict(f, S) == [r \in S |-> f[r]]

\* A new UpdateInfo of t goes right behind the base info.
InsertNode(c, t) ==
    /\ next' = [next EXCEPT ![c][t] = next[c][Base], ![c][Base] = t]
    /\ prev' = [prev EXCEPT ![c] = [n \in DOMAIN @ |->
                   IF n = t THEN Base ELSE IF n = next[c][Base] THEN t ELSE @[n]]]
    /\ version_number' = [version_number EXCEPT ![c][t] = TransactionId(t)]
    /\ undo' = [undo EXCEPT ![t] = Append(@, c)]

\* The old values a node keeps: what it has, and else the current ones.
MergeOld(old, current, rows) == old @@ Restrict(current, rows)

\* UpdateSegment::Update with the new values f of some rows.
Update(c, t, f) ==
    LET rows == IF info[c] = Unset THEN GetEffectiveUpdates(c, f) ELSE DOMAIN f
    IN  IF rows = {} THEN UNCHANGED <<lists, undo>>
        ELSE /\ info' = [info EXCEPT ![c] =
                  Restrict(f, rows) @@ (IF @ = Unset THEN Nothing ELSE @)]
             /\ node' = [node EXCEPT ![c][t] = MergeOld(@, FetchCommitted(c), rows)]
             /\ IF OwnNode(c, t) THEN UNCHANGED <<next, prev, version_number, undo>>
                ELSE InsertNode(c, t)

\* The rows and values of f that the data part gets: its statistics function drops
\* the NULLs.
DataPart(f) == Restrict(f, {r \in DOMAIN f : f[r] # NULL})

MaskPart(f) == [r \in DOMAIN f |-> Stored("validity", f[r])]

\* One part of StandardColumnData::Update.  A conflict invalidates the transaction.
UpdateInternal(c, t, f, done) ==
    IF info[c] # Unset /\ f # Nothing /\ CheckForConflicts(c, t, DOMAIN f)
    THEN pc' = [pc EXCEPT ![t] = "failed"] /\ UNCHANGED <<lists, undo>>
    ELSE pc' = [pc EXCEPT ![t] = done] /\ Update(c, t, f)

\* What t wrote, in terms of what it saw: an assignment of the same value is none.
Wrote(t, f) ==
    LET seen == Scan(start_time[t], TransactionId(t))
    IN  [r \in Rows |-> IF r \in DOMAIN f /\ f[r] # seen[r] THEN Append(wrote[t][r], f[r])
                        ELSE wrote[t][r]]

UpdateColumn(t) ==
    /\ pc[t] = "running" /\ updates[t] < MaxUpdates[t]
    /\ \E rows \in Targets : \E f \in [rows -> NewValues[t]] :
         /\ UpdateInternal("data", t, DataPart(f), "validity")
         /\ assigned' = [assigned EXCEPT ![t] = IF pc'[t] = "failed" THEN Nothing ELSE f]
         /\ wrote' = [wrote EXCEPT ![t] = Wrote(t, f)]
    /\ updates' = [updates EXCEPT ![t] = @ + 1]
    /\ UNCHANGED <<stored, current_timestamp, start_time, commit_id, pos, stop,
                   transaction_lock, wal_lock, log>>

UpdateValidity(t) ==
    /\ pc[t] = "validity"
    /\ UpdateInternal("validity", t, MaskPart(assigned[t]), "running")
    /\ assigned' = [assigned EXCEPT ![t] = Nothing]
    /\ UNCHANGED <<stored, current_timestamp, start_time, commit_id, pos, stop,
                   transaction_lock, wal_lock, log, updates, wrote>>

-----------------------------------------------------------------------------
(* Commit                                                                  *)

\* Defect: the log gets every updated row of the vector.
WriteUpdatedRows(t) == [c \in Elements(undo[t]) |-> info[c]]

\* The log gets the current values of the rows in the UpdateInfos of t.
WriteUpdate(t) == [c \in Elements(undo[t]) |->
                     Restrict(info[c], DOMAIN node[c][t])]

\* The WAL lock is held until the commit is over, the transaction lock is not held.
WriteToWAL(t) ==
    /\ pc[t] = "running" /\ undo[t] # <<>>
    /\ wal_lock = Nil /\ wal_lock' = t
    /\ \/ pc' = [pc EXCEPT ![t] = "relock"] /\ log' = Append(log, WriteUpdate(t))
       \/ pc' = [pc EXCEPT ![t] = "relock_failed"] /\ UNCHANGED log
    /\ UNCHANGED <<stored, lists, undo, current_timestamp, start_time, commit_id, pos, stop,
                   assigned, transaction_lock, updates, wrote>>

\* The commit timestamp is drawn, also for a commit that has failed.
Commit(t) ==
    /\ pc[t] \in {"relock", "relock_failed"}
    /\ transaction_lock = Nil /\ transaction_lock' = t
    /\ current_timestamp' = current_timestamp + 1
    /\ IF pc[t] = "relock"
       THEN /\ pc' = [pc EXCEPT ![t] = "stamping"]
            /\ commit_id' = [commit_id EXCEPT ![t] = current_timestamp]
            /\ pos' = [pos EXCEPT ![t] = 1]
       ELSE /\ pc' = [pc EXCEPT ![t] = "undoing"]
            /\ pos' = [pos EXCEPT ![t] = Len(undo[t])]
            /\ UNCHANGED commit_id
    /\ UNCHANGED <<stored, lists, undo, start_time, stop, assigned, wal_lock, log, updates,
                   wrote>>

CommitReadOnly(t) ==
    /\ undo[t] = <<>>
    /\ Goto(t, "running", "cleaned")
    /\ transaction_lock = Nil
    /\ commit_id' = [commit_id EXCEPT ![t] = current_timestamp]
    /\ current_timestamp' = current_timestamp + 1
    /\ UNCHANGED <<stored, lists, undo, start_time, pos, stop, assigned, transaction_lock,
                   wal_lock, log, updates, wrote>>

\* CommitState::CommitEntry for UPDATE_TUPLE.
CommitEntry(t) ==
    /\ pc[t] = "stamping" /\ pos[t] <= Len(undo[t])
    /\ version_number' = [version_number EXCEPT ![undo[t][pos[t]]][t] = commit_id[t]]
    /\ pos' = [pos EXCEPT ![t] = @ + 1]
    /\ UNCHANGED <<stored, info, next, prev, node, undo, current_timestamp, start_time,
                   commit_id, pc, stop, assigned, transaction_lock, wal_lock, log, updates,
                   wrote>>

\* An entry throws before it is stamped, or the flush of the log fails.
CommitFails(t) ==
    /\ Goto(t, "stamping", "reverting")
    /\ pos' = [pos EXCEPT ![t] = 1]
    /\ stop' = [stop EXCEPT ![t] = IF pos[t] <= Len(undo[t]) THEN pos[t] ELSE Len(undo[t])]
    /\ UNCHANGED <<stored, lists, undo, current_timestamp, start_time, commit_id, assigned,
                   transaction_lock, wal_lock, log, updates, wrote>>

\* UndoBuffer::RevertCommit; at its end the log is truncated and the rollback begins.
RevertCommitEntry(t) ==
    /\ pc[t] = "reverting"
    /\ version_number' = [version_number EXCEPT ![undo[t][pos[t]]][t] = TransactionId(t)]
    /\ IF pos[t] < stop[t]
       THEN pos' = [pos EXCEPT ![t] = @ + 1] /\ UNCHANGED <<pc, commit_id, log>>
       ELSE /\ pos' = [pos EXCEPT ![t] = Len(undo[t])]
            /\ pc' = [pc EXCEPT ![t] = "undoing"]
            /\ commit_id' = [commit_id EXCEPT ![t] = 0]
            /\ log' = SubSeq(log, 1, Len(log) - 1)
    /\ UNCHANGED <<stored, info, next, prev, node, undo, current_timestamp, start_time, stop,
                   assigned, transaction_lock, wal_lock, updates, wrote>>

RemoveCommitted(t) ==
    /\ pos[t] > Len(undo[t])
    /\ Goto(t, "stamping", "committed")
    /\ pos' = [pos EXCEPT ![t] = 1]
    /\ transaction_lock' = Nil /\ wal_lock' = Nil
    /\ UNCHANGED <<stored, lists, undo, current_timestamp, start_time, commit_id, stop,
                   assigned, log, updates, wrote>>

-----------------------------------------------------------------------------
(* Rollback, cleanup, checkpoint                                           *)

RollbackTransaction(t) ==
    /\ pc[t] \in {"running", "failed"}
    /\ undo[t] # <<>> \/ pc[t] = "failed"
    /\ transaction_lock = Nil /\ transaction_lock' = t
    /\ pc' = [pc EXCEPT ![t] = "undoing"]
    /\ pos' = [pos EXCEPT ![t] = Len(undo[t])]
    /\ UNCHANGED <<stored, lists, undo, current_timestamp, start_time, commit_id, stop,
                   assigned, wal_lock, log, updates, wrote>>

\* Defect: the neighbour behind keeps its pointer to the removed UpdateInfo.
CleanupForwardOnly(c, t) ==
    /\ next' = [next EXCEPT ![c][prev[c][t]] = next[c][t]]
    /\ UNCHANGED prev

\* Unlink the UpdateInfo of t from its neighbours.
CleanupUpdateInternal(c, t) ==
    /\ next' = [next EXCEPT ![c][prev[c][t]] = next[c][t]]
    /\ prev' = IF next[c][t] = Nil THEN prev ELSE [prev EXCEPT ![c][next[c][t]] = prev[c][t]]

\* The memory of an UpdateInfo is freed with the undo buffer of its transaction.
Freed(f, t, nothing) == [c \in Columns |-> [f[c] EXCEPT ![t] = nothing]]

\* RollbackUpdate moves the old values back into the base info.
RollbackEntry(t) ==
    /\ pc[t] = "undoing" /\ pos[t] > 0
    /\ LET c == undo[t][pos[t]]
       IN  /\ info' = [info EXCEPT ![c] = node[c][t] @@ @]
           /\ CleanupUpdateInternal(c, t)
    /\ pos' = [pos EXCEPT ![t] = @ - 1]
    /\ UNCHANGED <<stored, node, version_number, undo, current_timestamp, start_time,
                   commit_id, pc, stop, assigned, transaction_lock, wal_lock, log, updates,
                   wrote>>

RemoveAborted(t) ==
    /\ pos[t] = 0
    /\ Goto(t, "undoing", "aborted")
    /\ transaction_lock' = Nil
    /\ wal_lock' = IF wal_lock = t THEN Nil ELSE wal_lock
    /\ undo' = [undo EXCEPT ![t] = <<>>]
    /\ node' = Freed(node, t, Nothing) /\ version_number' = Freed(version_number, t, 0)
    /\ wrote' = [wrote EXCEPT ![t] = [r \in Rows |-> <<>>]]
    /\ stop' = [stop EXCEPT ![t] = 0]
    /\ UNCHANGED <<stored, info, next, prev, current_timestamp, start_time, commit_id, pos,
                   assigned, log, updates>>

\* RemoveTransaction schedules the cleanup of t when every transaction that is
\* still active started after t had committed.
Unneeded(t) == \A u \in Active : commit_id[t] < start_time[u]

\* CleanupState::CleanupUpdate, without the transaction lock; after the last entry
\* the transaction object is destroyed.
CleanupEntry(t) ==
    /\ pc[t] = "committed" /\ Unneeded(t)
    /\ CleanupUpdateInternal(undo[t][pos[t]], t)
    /\ IF pos[t] < Len(undo[t])
       THEN pos' = [pos EXCEPT ![t] = @ + 1] /\ UNCHANGED <<node, version_number, undo, pc>>
       ELSE /\ pc' = [pc EXCEPT ![t] = "cleaned"]
            /\ pos' = [pos EXCEPT ![t] = 0]
            /\ undo' = [undo EXCEPT ![t] = <<>>]
            /\ node' = Freed(node, t, Nothing) /\ version_number' = Freed(version_number, t, 0)
    /\ UNCHANGED <<stored, info, current_timestamp, start_time, commit_id, stop, assigned,
                   transaction_lock, wal_lock, log, updates, wrote>>

\* With the exclusive key of the checkpoint lock: every transaction with changes
\* has been cleaned up.  The newest values are written and the updates cleared.
Checkpoint ==
    /\ \A t \in Txns : undo[t] = <<>>
    /\ \A t \in Txns : pc[t] \notin {"validity", "failed"}
    /\ \E c \in Columns : info[c] # Unset
    /\ stored' = [c \in Columns |-> FetchCommitted(c)]
    /\ info' = [c \in Columns |-> Unset]
    /\ log' = <<>>
    /\ UNCHANGED <<next, prev, node, version_number, undo, current_timestamp, start_time,
                   commit_id, pc, pos, stop, assigned, transaction_lock, wal_lock, updates, wrote>>

Next ==
    \/ Checkpoint
    \/ \E t \in Txns :
         \/ StartTransaction(t) \/ UpdateColumn(t) \/ UpdateValidity(t)
         \/ WriteToWAL(t) \/ Commit(t) \/ CommitReadOnly(t) \/ CommitEntry(t)
         \/ CommitFails(t) \/ RevertCommitEntry(t) \/ RemoveCommitted(t)
         \/ RollbackTransaction(t) \/ RollbackEntry(t) \/ RemoveAborted(t)
         \/ CleanupEntry(t)

Spec == Init /\ [][Next]_vars

-----------------------------------------------------------------------------

PartialFunctions(S, T) == UNION {[D -> T] : D \in SUBSET S}

PartValues(c) == IF c = "validity" THEN BOOLEAN ELSE Values

(* Every variable keeps its type; an undo buffer has at most one UpdateInfo *)
(* per part of the vector, however many statements update it.               *)
TypeOK ==
    /\ \A c \in Columns :
         /\ stored[c] \in [Rows -> PartValues(c)]
         /\ info[c] \in {Unset} \/ info[c] \in PartialFunctions(Rows, PartValues(c))
         /\ node[c] \in [Txns -> PartialFunctions(Rows, PartValues(c))]
    /\ next \in [Columns -> [Txns \cup {Base} -> Txns \cup {Nil}]]
    /\ prev \in [Columns -> [Txns \cup {Base} -> Txns \cup {Base, Nil}]]
    /\ version_number \in [Columns -> [Txns -> Nat]]
    /\ \A t \in Txns : undo[t] \in {<<>>} \cup {<<c>> : c \in Columns} \cup (Columns \X Columns)
    /\ current_timestamp \in 2..(TRANSACTION_ID_START - 1)
    /\ start_time \in [Txns -> Nat] /\ commit_id \in [Txns -> Nat]
    /\ pc \in [Txns -> {"idle", "running", "validity", "failed", "relock", "relock_failed",
                        "stamping", "reverting", "undoing", "committed", "cleaned", "aborted"}]
    /\ pos \in [Txns -> 0..3] /\ stop \in [Txns -> 0..2]
    /\ assigned \in [Txns -> PartialFunctions(Rows, Values)]
    /\ updates \in [Txns -> Nat]
    /\ transaction_lock \in Txns \cup {Nil} /\ wal_lock \in Txns \cup {Nil}
    /\ \A i \in 1..Len(log) : DOMAIN log[i] \subseteq Columns
    /\ \A t \in Txns, r \in Rows : Elements(wrote[t][r]) \subseteq Values

\* Neither of the two committed before the other one started.
Concurrent(t, u) ==
    /\ start_time[t] # 0 /\ start_time[u] # 0
    /\ ~ (commit_id[t] # 0 /\ commit_id[t] < start_time[u])
    /\ ~ (commit_id[u] # 0 /\ commit_id[u] < start_time[t])

\* The transactions whose statements have all succeeded, and that still may commit.
Valid == {t \in Txns : pc[t] \in {"running", "relock", "stamping", "committed", "cleaned"}}

\* Both set the row to NULL, or both to a value: they change the same part.
SamePart(t, u, r) ==
    \E v \in Elements(wrote[t][r]), w \in Elements(wrote[u][r]) : (v = NULL) <=> (w = NULL)

(* The first updater wins: of two concurrent transactions that change the   *)
(* same part of a row, the mask or the value, at most one gets past         *)
(* CheckForConflicts, although a vector without a version is not looked at  *)
(* and effect-less assignments leave no trace.                              *)
ConflictsDetected ==
    \A t, u \in Valid : t # u /\ Concurrent(t, u) => \A r \in Rows : ~ SamePart(t, u, r)

(* test_update_many_updaters_nulls.test: "we get conflicts when we update   *)
(* values that have been updated AFTER we started".                         *)
NullConflictsDetected ==
    \A t, u \in Valid : t # u /\ Concurrent(t, u) =>
        \A r \in Rows : wrote[t][r] = <<>> \/ wrote[u][r] = <<>>

\* Two concurrent transactions changed the row, one its mask and one its value.
PartsDiverge(r) == \E t, u \in Txns :
    /\ t # u /\ Concurrent(t, u) /\ pc[t] # "aborted" /\ pc[u] # "aborted"
    /\ wrote[t][r] # <<>> /\ wrote[u][r] # <<>> /\ ~ SamePart(t, u, r)

\* What t has to see: its own last write, or that of the last transaction that
\* committed before t started.
Expected(t, r) ==
    LET writers == {u \in Txns : /\ pc[u] \in {"committed", "cleaned"}
                                 /\ commit_id[u] < start_time[t] /\ wrote[u][r] # <<>>}
        last(u) == \A w \in writers : commit_id[w] <= commit_id[u]
    IN  IF wrote[t][r] # <<>> THEN {wrote[t][r][Len(wrote[t][r])]}
        ELSE IF writers = {} THEN {Initial[r]}
        ELSE {wrote[u][r][Len(wrote[u][r])] : u \in {w \in writers : last(w)}}

(* Snapshot reads: whatever the others update, commit, fail to commit, roll *)
(* back, clean up or checkpoint, a running transaction reads its own writes *)
(* and else the state of its start.                                         *)
SnapshotRead ==
    \A t \in Txns : pc[t] = "running" =>
        LET seen == Scan(start_time[t], TransactionId(t))
        IN  \A r \in Rows : PartsDiverge(r) \/ seen[r] \in Expected(t, r)

\* The transactions with an entry for c that is still to be unlinked.
Linked(c) == {t \in Txns : \E i \in 1..Len(undo[t]) :
    /\ undo[t][i] = c
    /\ pc[t] = "committed" => i >= pos[t]
    /\ pc[t] = "undoing" => i <= pos[t]}

(* The list is whole after every insertion and unlinking: it leads through  *)
(* exactly the UpdateInfos that are not cleaned up, each once, back         *)
(* pointers agree, none of them is freed with a pointer to it left, and the *)
(* base info has all their rows (the assertion in RollbackUpdate).          *)
ListWhole == \A c \in Columns :
    /\ Elements(Chain(c)) = Linked(c) /\ Len(Chain(c)) = Cardinality(Linked(c))
    /\ \A t \in Linked(c) : /\ next[c][prev[c][t]] = t
                            /\ next[c][t] # Nil => prev[c][next[c][t]] = t
                            /\ info[c] # Unset /\ DOMAIN node[c][t] \subseteq DOMAIN info[c]

\* The column after the records of the log have been replayed in order.
Replayed(c) ==
    LET state[k \in 0..Len(log)] ==
          IF k = 0 THEN stored[c]
          ELSE IF c \in DOMAIN log[k] THEN log[k][c] @@ state[k - 1] ELSE state[k - 1]
    IN  state[Len(log)]

(* The log holds current values of rows, read from the base info while      *)
(* other transactions update it: replayed between two commits, it gives     *)
(* what a transaction that starts now reads.                                *)
LogReplay ==
    wal_lock = Nil =>
        Masked(Replayed("data"), Replayed("validity"))
            = Scan(current_timestamp, TRANSACTION_ID_START + current_timestamp)
=============================================================================
