------------------------- MODULE TransactionManager -------------------------
(***************************************************************************)
(* DuckTransactionManager and the part of DuckTransaction it drives: the   *)
(* life of a transaction from StartTransaction to the destruction of its   *)
(* DuckTransaction object, the commit protocol (checkpoint decision, write *)
(* to the WAL with the transaction lock released, commit timestamp,        *)
(* removal, cleanup) and the CHECKPOINT command that races with it.        *)
(*                                                                         *)
(* Each transaction is run by a client thread of its own.  A step is what  *)
(* a thread does between two points at which another thread can get in.    *)
(* The checkpoint lock is used through the contract that StorageLock shows *)
(* for storage_lock.cpp: write_lock is the set of owners of a shared key   *)
(* and checkpoint_lock the owner of the exclusive key.                     *)
(***************************************************************************)
EXTENDS Integers, FiniteSets, Sequences

CONSTANTS Txns,                  \* transactions, each used at most once
          ReadOnlyTxns,          \* those of a read-only MetaTransaction
          InMemory,              \* the database has no file and no WAL
          Kinds,                 \* what a transaction may write
          Commands,              \* the checkpoint commands a client may run
          Nobody,                \* "the lock is free"
          Command,               \* the client that runs CHECKPOINT
          TRANSACTION_ID_START,  \* above every start and commit timestamp
          MAXIMUM_QUERY_ID       \* "no query is running"

\* What the manager tells apart in an undo buffer.  An append is cleaned up
\* without being stored; an index delete (or a catalog entry that drops
\* nothing) is stored; an update (or a dropped catalog entry) is stored and
\* rules out a checkpoint next to other transactions.
AllKinds == {"append", "index_delete", "update"}

ASSUME ManagerAssumption ==
    /\ IsFiniteSet(Txns)
    /\ ReadOnlyTxns \subseteq Txns
    /\ InMemory \in BOOLEAN
    /\ Kinds \subseteq AllKinds
    /\ Commands \subseteq {"CHECKPOINT", "FORCE CHECKPOINT"}
    /\ Nobody \notin Txns /\ Command \notin Txns /\ Nobody # Command
    /\ TRANSACTION_ID_START \in Nat \ {0, 1}
    /\ MAXIMUM_QUERY_ID \in Nat \ {0}

\* The timestamps, of which a transaction draws at most two, do not run out: in
\* the code TRANSACTION_ID_START is 2^62.
ASSUME TimestampsAssumption == 2 * Cardinality(Txns) + 2 <= TRANSACTION_ID_START

VARIABLES
    \* DuckTransactionManager
    current_start_timestamp,
    last_commit,
    lowest_active_start,
    active_transactions,              \* a set: its order is never used
    recently_committed_transactions,  \* sequences of transactions
    old_transactions,
    cleanup_queue,                    \* sequence of DuckCleanupInfo
    transaction_lock, wal_lock, cleanup_lock, checkpoint_lock,
    start_transaction_lock,
    \* DuckTransaction
    start_time, commit_id, changes, write_lock,
    awaiting_cleanup, highest_active_query, active_query,
    \* DatabaseManager, MetaTransaction
    current_query_number, query,
    \* the threads: where they are and their local variables
    pc, checkpoint_decision, failed, initial_wal_size, top_cleanup_info,
    command, command_type, command_commit,
    \* what the log holds; who was reading when a transaction became old
    wal, watchers

counters == <<current_start_timestamp, last_commit, lowest_active_start>>
lists    == <<active_transactions, recently_committed_transactions,
              old_transactions, cleanup_queue>>
stamps   == <<start_time, commit_id>>
gc       == <<awaiting_cleanup, highest_active_query, watchers>>
queries  == <<active_query, current_query_number, query>>
locals   == <<checkpoint_decision, failed, initial_wal_size>>
cmd      == <<command, command_type, command_commit>>
vars == <<counters, lists, stamps, gc, queries, locals, cmd, changes, write_lock,
          transaction_lock, wal_lock, cleanup_lock, checkpoint_lock,
          start_transaction_lock, pc, top_cleanup_info, wal>>

NoInfo == [lowest_start_time |-> 0, transactions |-> <<>>]

Goto(t, from, to) == pc[t] = from /\ pc' = [pc EXCEPT ![t] = to]

Elements(s) == {s[i] : i \in 1..Len(s)}

Init ==
    /\ current_start_timestamp = 2
    /\ last_commit \in {0, TRANSACTION_ID_START + 1}  \* not initialised by the code
    /\ lowest_active_start = TRANSACTION_ID_START + 1 \* MAX_TRANSACTION_ID
    /\ active_transactions = {}
    /\ recently_committed_transactions = <<>>
    /\ old_transactions = <<>>
    /\ cleanup_queue = <<>>
    /\ transaction_lock = Nobody /\ wal_lock = Nobody
    /\ cleanup_lock = Nobody /\ checkpoint_lock = Nobody
    /\ start_transaction_lock = Nobody
    /\ start_time = [t \in Txns |-> 0]
    /\ commit_id = [t \in Txns |-> 0]
    /\ changes = [t \in Txns |-> {}]
    /\ write_lock = {}
    /\ awaiting_cleanup = [t \in Txns |-> FALSE]
    /\ highest_active_query = [t \in Txns |-> 0]
    /\ active_query = [t \in Txns |-> MAXIMUM_QUERY_ID]
    /\ current_query_number = 1
    /\ query = [t \in Txns |-> MAXIMUM_QUERY_ID]
    /\ pc = [t \in Txns |-> "idle"]
    /\ checkpoint_decision = [t \in Txns |-> "none"]
    /\ failed = [t \in Txns |-> FALSE]
    /\ initial_wal_size = [t \in Txns |-> 0]
    /\ top_cleanup_info = [t \in Txns |-> NoInfo]
    /\ command = "idle" /\ command_type = "full" /\ command_commit = 0
    /\ wal = <<>>
    /\ watchers = [t \in Txns |-> {}]

-----------------------------------------------------------------------------
(* Queries and writes of an open transaction                               *)

\* BeginQueryInternal draws the number of the next query ...
BeginQuery(t) ==
    /\ pc[t] \in {"idle", "running"}
    /\ query[t] = MAXIMUM_QUERY_ID
    /\ current_query_number < MAXIMUM_QUERY_ID
    /\ query' = [query EXCEPT ![t] = current_query_number]
    /\ current_query_number' = current_query_number + 1
    /\ UNCHANGED <<counters, lists, stamps, gc, active_query, locals, cmd, changes,
                   write_lock, transaction_lock, wal_lock, cleanup_lock,
                   checkpoint_lock, start_transaction_lock, pc, top_cleanup_info, wal>>

\* ... and records it in the transaction: MetaTransaction::SetActiveQuery, or
\* GetTransaction when the query is what started the transaction.
SetActiveQuery(t) ==
    /\ pc[t] = "running"
    /\ active_query[t] # query[t]
    /\ active_query' = [active_query EXCEPT ![t] = query[t]]
    /\ UNCHANGED <<counters, lists, stamps, gc, current_query_number, query, locals,
                   cmd, changes, write_lock, transaction_lock, wal_lock, cleanup_lock,
                   checkpoint_lock, start_transaction_lock, pc, top_cleanup_info, wal>>

\* ResetActiveQuery: the query no longer reads anything.
EndQuery(t) ==
    /\ pc[t] = "running"
    /\ active_query[t] # MAXIMUM_QUERY_ID /\ active_query[t] = query[t]
    /\ query' = [query EXCEPT ![t] = MAXIMUM_QUERY_ID]
    /\ active_query' = [active_query EXCEPT ![t] = MAXIMUM_QUERY_ID]
    /\ watchers' = [u \in Txns |-> watchers[u] \ {t}]
    /\ UNCHANGED <<counters, lists, stamps, awaiting_cleanup, highest_active_query,
                   current_query_number, locals, cmd, changes, write_lock,
                   transaction_lock, wal_lock, cleanup_lock, checkpoint_lock,
                   start_transaction_lock, pc, top_cleanup_info, wal>>

\* Defect: StartTransaction overwrites the lowest start time of older transactions.
LowestAfterStartOverwritten == current_start_timestamp

LowestAfterStart ==
    IF active_transactions = {} THEN current_start_timestamp ELSE lowest_active_start

StartTransaction(t) ==
    /\ Goto(t, "idle", "running")
    /\ t \in ReadOnlyTxns \/ start_transaction_lock = Nobody
    /\ transaction_lock = Nobody
    /\ current_start_timestamp < TRANSACTION_ID_START
    /\ start_time' = [start_time EXCEPT ![t] = current_start_timestamp]
    /\ current_start_timestamp' = current_start_timestamp + 1
    /\ lowest_active_start' = LowestAfterStart
    /\ active_transactions' = active_transactions \cup {t}
    /\ UNCHANGED <<last_commit, recently_committed_transactions, old_transactions,
                   cleanup_queue, commit_id, gc, queries, locals, cmd, changes,
                   write_lock, transaction_lock, wal_lock, cleanup_lock,
                   checkpoint_lock, start_transaction_lock, top_cleanup_info, wal>>

\* MetaTransaction::ModifyDatabase: the first write takes a shared key of the
\* checkpoint lock, which waits while somebody owns the exclusive key.
SetReadWrite(t) ==
    /\ pc[t] = "running"
    /\ t \notin ReadOnlyTxns \cup write_lock
    /\ checkpoint_lock = Nobody
    /\ write_lock' = write_lock \cup {t}
    /\ UNCHANGED <<counters, lists, stamps, gc, queries, locals, cmd, changes,
                   transaction_lock, wal_lock, cleanup_lock, checkpoint_lock,
                   start_transaction_lock, pc, top_cleanup_info, wal>>

\* PushAppend, PushDelete, CreateUpdateInfo or PushCatalogEntry.
Write(t, kind) ==
    /\ pc[t] = "running"
    /\ t \in write_lock
    /\ changes' = [changes EXCEPT ![t] = @ \cup {kind}]
    /\ UNCHANGED <<counters, lists, stamps, gc, queries, locals, cmd, write_lock,
                   transaction_lock, wal_lock, cleanup_lock, checkpoint_lock,
                   start_transaction_lock, pc, top_cleanup_info, wal>>

-----------------------------------------------------------------------------
(* RemoveTransaction                                                       *)

\* n is the length of the longest prefix of s whose elements are all in ok.
IsPrefixLength(n, s, ok) ==
    /\ \A i \in 1..n : s[i] \in ok
    /\ n < Len(s) => s[n + 1] \notin ok

\* Defect: the start time decides whether a transaction is still needed.
UnneededByStart(lowest) == {u \in Txns : start_time[u] < lowest}

\* Defect: the lowest start time from before the removal is used.
UnneededStale(lowest) == {u \in Txns : commit_id[u] < lowest_active_start}

\* What no transaction with a start time of at least lowest has to look behind.
Unneeded(lowest) == {u \in Txns : commit_id[u] < lowest}

\* Defect: running queries are not waited for.
UnreadIgnoringQueries(others, highest) == Txns

\* The old transactions that no query of an active transaction can be reading.
Unread(others, highest) ==
    {u \in Txns : \A a \in others : highest[u] < active_query[a]}

\* The active transactions with a query that is reading.
Reading(others) == {a \in others : active_query[a] # MAXIMUM_QUERY_ID}

\* The last part of RemoveTransaction: old is old_transactions with the
\* transactions of becomeOld added to it; a prefix of it is handed over for
\* cleanup, behind a transaction that was not stored at all (direct).
ScheduleCleanup(t, lowest, direct, old, becomeOld) ==
    LET others  == active_transactions \ {t}
        highest == [u \in Txns |-> IF u \in becomeOld THEN current_query_number
                                   ELSE highest_active_query[u]]
    IN  \E k \in 0..Len(old) :
          LET info == [lowest_start_time |-> lowest,
                       transactions |-> direct \o SubSeq(old, 1, k)]
          IN /\ IF others = {} THEN k = Len(old)
                ELSE IsPrefixLength(k, old, Unread(others, highest))
             /\ old_transactions' = SubSeq(old, k + 1, Len(old))
             /\ cleanup_queue' = IF info.transactions = <<>> THEN cleanup_queue
                                 ELSE Append(cleanup_queue, info)
             /\ highest_active_query' = highest
             /\ watchers' = [u \in Txns |-> IF u \in becomeOld THEN Reading(others)
                                            ELSE watchers[u] \ {t}]

\* The lowest start time of the transactions other than t.
IsLowestStart(t, lowest) ==
    LET others == active_transactions \ {t}
    IN  /\ \A u \in others : lowest <= start_time[u]
        /\ IF others = {} THEN lowest = TRANSACTION_ID_START
           ELSE \E u \in others : lowest = start_time[u]

\* store: the undo buffer may still be needed.  A transaction without changes
\* is destroyed on return, and its shared key of the checkpoint lock with it.
RemoveTransaction(t, store) ==
    LET others    == active_transactions \ {t}
        committed == commit_id[t] # 0
        recent    == IF store /\ committed THEN Append(recently_committed_transactions, t)
                     ELSE recently_committed_transactions
        aborted   == IF store /\ ~committed THEN <<t>> ELSE <<>>
        direct    == IF ~store /\ changes[t] # {} THEN <<t>> ELSE <<>>
    IN  \E lowest \in {start_time[u] : u \in active_transactions} \cup {TRANSACTION_ID_START} :
        /\ IsLowestStart(t, lowest)
        /\ lowest_active_start' = lowest
        /\ active_transactions' = others
        /\ write_lock' = IF changes[t] # {} THEN write_lock ELSE write_lock \ {t}
        /\ \E n \in 0..Len(recent) :
             LET moved == SubSeq(recent, 1, n) IN
             /\ IsPrefixLength(n, recent, Unneeded(lowest))
             /\ recently_committed_transactions' = SubSeq(recent, n + 1, Len(recent))
             /\ awaiting_cleanup' = [u \in Txns |-> \/ awaiting_cleanup[u]
                                                    \/ u \in Elements(moved \o direct)]
             /\ ScheduleCleanup(t, lowest, direct, old_transactions \o aborted \o moved,
                                Elements(aborted \o moved))

-----------------------------------------------------------------------------
(* Commit and rollback                                                     *)

\* t has a record in the log: it does not checkpoint, and ShouldWriteToWAL.
Logged(t, decision) == decision = "none" /\ changes[t] # {} /\ ~InMemory

\* Defect: the checkpoint lock is upgraded next to other writers.
CanCheckpointNextToWriters(t, auto, upgraded, decision) ==
    LET type == IF active_transactions = {t} THEN "full" ELSE "concurrent"
    IN  /\ upgraded = (/\ t \in write_lock /\ changes[t] # {} /\ auto
                       /\ checkpoint_lock = Nobody)
        /\ decision = IF upgraded /\ ~(InMemory /\ type = "concurrent") THEN type ELSE "none"

\* CommitTransaction up to the WAL write.  auto is AutomaticCheckpoint, which
\* depends on the size of the log.  The upgrade of the checkpoint lock succeeds
\* when t owns the only shared key; the exclusive key is kept even when the
\* decision is then not to checkpoint.
CanCheckpoint(t, auto, upgraded, decision) ==
    LET others == active_transactions \ {t}
        type   == IF others = {} THEN "full" ELSE "concurrent"
    IN  /\ upgraded = (/\ t \in write_lock /\ changes[t] # {} /\ auto
                       /\ checkpoint_lock = Nobody /\ write_lock = {t})
        /\ decision = IF \/ ~upgraded
                         \/ others # {} /\ "update" \in changes[t]
                         \/ InMemory /\ type = "concurrent"
                      THEN "none" ELSE type

\* Defect: the transaction lock is released even when nothing goes to the log.
EnterCommitUnlocked(t, decision) ==
    /\ pc' = [pc EXCEPT ![t] = IF Logged(t, decision) THEN "wal" ELSE "commit"]
    /\ UNCHANGED transaction_lock

\* The transaction lock is only released for the WAL write.
EnterCommit(t, decision) ==
    IF Logged(t, decision)
    THEN Goto(t, "running", "wal") /\ UNCHANGED transaction_lock
    ELSE Goto(t, "running", "commit") /\ transaction_lock' = t

CommitTransaction(t) ==
    \E auto, upgraded \in BOOLEAN, decision \in {"none", "full", "concurrent"} :
    /\ pc[t] = "running"
    /\ CanCheckpoint(t, auto, upgraded, decision)
    /\ query[t] = active_query[t]
    /\ transaction_lock = Nobody
    /\ checkpoint_decision' = [checkpoint_decision EXCEPT ![t] = decision]
    /\ checkpoint_lock' = IF upgraded THEN t ELSE checkpoint_lock
    /\ EnterCommit(t, decision)
    /\ watchers' = [u \in Txns |-> watchers[u] \ {t}]
    /\ UNCHANGED <<counters, lists, stamps, awaiting_cleanup, highest_active_query,
                   queries, failed, initial_wal_size, cmd, changes, write_lock,
                   wal_lock, cleanup_lock, start_transaction_lock, top_cleanup_info, wal>>

\* The WAL write, with the WAL lock and without the transaction lock.  The WAL
\* lock is kept until the end of the commit.  A failed write is truncated away.
WriteToWAL(t) ==
    /\ Goto(t, "wal", "relock")
    /\ wal_lock = Nobody
    /\ wal_lock' = t
    /\ initial_wal_size' = [initial_wal_size EXCEPT ![t] = Len(wal)]
    /\ \E error \in BOOLEAN :
         /\ failed' = [failed EXCEPT ![t] = error]
         /\ wal' = IF error THEN wal ELSE Append(wal, t)
    /\ UNCHANGED <<counters, lists, stamps, gc, queries, checkpoint_decision, cmd,
                   changes, write_lock, transaction_lock, cleanup_lock,
                   checkpoint_lock, start_transaction_lock, top_cleanup_info>>

\* Defect: the WAL lock only covers the write, not the rest of the commit.
RelockReleasingWal(t) ==
    /\ Goto(t, "relock", "commit")
    /\ transaction_lock = Nobody
    /\ transaction_lock' = t
    /\ wal_lock' = Nobody
    /\ UNCHANGED <<counters, lists, stamps, gc, queries, locals, cmd, changes,
                   write_lock, cleanup_lock, checkpoint_lock,
                   start_transaction_lock, top_cleanup_info, wal>>

Relock(t) ==
    /\ Goto(t, "relock", "commit")
    /\ transaction_lock = Nobody
    /\ transaction_lock' = t
    /\ UNCHANGED <<counters, lists, stamps, gc, queries, locals, cmd, changes,
                   write_lock, wal_lock, cleanup_lock, checkpoint_lock,
                   start_transaction_lock, top_cleanup_info, wal>>

\* Defect: a failed commit goes back to the transaction id instead of to 0.
NewCommitIdReverted(error) ==
    IF error THEN TRANSACTION_ID_START ELSE current_start_timestamp

NewCommitId(error) == IF error THEN 0 ELSE current_start_timestamp

\* The log cut back to a former size.
Truncate(log, size) == IF size <= Len(log) THEN SubSeq(log, 1, size) ELSE log

\* GetCommitTimestamp, DuckTransaction::Commit (which ends with FlushCommit when
\* the log was written, or truncates the log again) or, on an error, Rollback;
\* the exclusive key is given back unless t checkpoints.  A transaction without
\* changes cannot fail.
Commit(t) ==
    \E error \in BOOLEAN :
    /\ Goto(t, "commit", "remove")
    /\ failed[t] => error
    /\ changes[t] = {} => ~error
    /\ failed' = [failed EXCEPT ![t] = error]
    /\ current_start_timestamp' = current_start_timestamp + 1
    /\ last_commit' = current_start_timestamp
    /\ commit_id' = [commit_id EXCEPT ![t] = NewCommitId(error)]
    /\ wal' = IF error /\ ~failed[t] /\ Logged(t, checkpoint_decision[t])
              THEN Truncate(wal, initial_wal_size[t]) ELSE wal
    /\ checkpoint_decision' =
           [checkpoint_decision EXCEPT ![t] = IF error THEN "none" ELSE @]
    /\ checkpoint_lock' =
           IF checkpoint_lock = t /\ checkpoint_decision'[t] = "none" THEN Nobody
           ELSE checkpoint_lock
    /\ UNCHANGED <<lowest_active_start, lists, start_time, gc, queries, cmd, changes,
                   write_lock, transaction_lock, wal_lock, cleanup_lock,
                   start_transaction_lock, initial_wal_size, top_cleanup_info>>

RemoveCommitted(t) ==
    /\ Goto(t, "remove", "cleanup")
    /\ RemoveTransaction(t, failed[t] \/ changes[t] \cap {"index_delete", "update"} # {})
    /\ transaction_lock' = Nobody
    /\ UNCHANGED <<current_start_timestamp, last_commit, stamps, queries, locals, cmd,
                   changes, wal_lock, cleanup_lock, checkpoint_lock,
                   start_transaction_lock, top_cleanup_info, wal>>

\* Defect: a transaction without changes skips the cleanup it has scheduled.
RollbackSkippingCleanup(t) ==
    /\ pc[t] = "running"
    /\ pc' = [pc EXCEPT ![t] = IF changes[t] = {} THEN "done" ELSE "cleanup"]
    /\ query[t] = active_query[t]
    /\ transaction_lock = Nobody
    /\ RemoveTransaction(t, changes[t] # {})
    /\ UNCHANGED <<current_start_timestamp, last_commit, stamps, queries, locals, cmd,
                   changes, transaction_lock, wal_lock, cleanup_lock, checkpoint_lock,
                   start_transaction_lock, top_cleanup_info, wal>>

RollbackTransaction(t) ==
    /\ Goto(t, "running", "cleanup")
    /\ query[t] = active_query[t]
    /\ transaction_lock = Nobody
    /\ RemoveTransaction(t, changes[t] # {})
    /\ UNCHANGED <<current_start_timestamp, last_commit, stamps, queries, locals, cmd,
                   changes, transaction_lock, wal_lock, cleanup_lock, checkpoint_lock,
                   start_transaction_lock, top_cleanup_info, wal>>

\* Defect: the WAL lock stays locked when the commit failed.
AfterCleanupFailedKeepsWal(t) ==
    /\ pc' = [pc EXCEPT ![t] = IF checkpoint_decision[t] = "none" THEN "done"
                               ELSE "checkpoint"]
    /\ wal_lock' = IF wal_lock = t /\ ~failed[t] THEN Nobody ELSE wal_lock

\* Where CommitTransaction or RollbackTransaction goes after the cleanup: the
\* WAL lock is released on return.
AfterCleanup(t) ==
    /\ pc' = [pc EXCEPT ![t] = IF checkpoint_decision[t] = "none" THEN "done"
                               ELSE "checkpoint"]
    /\ wal_lock' = IF wal_lock = t THEN Nobody ELSE wal_lock

\* Defect: the queue is popped without waiting for a cleanup in progress.
CleanupTurnAnyTime == TRUE

CleanupTurn == cleanup_lock = Nobody

\* Take the front of the cleanup queue, whoever put it there.
PopCleanup(t) ==
    /\ pc[t] = "cleanup"
    /\ CleanupTurn
    /\ \/ /\ cleanup_queue = <<>>
          /\ AfterCleanup(t)
          /\ UNCHANGED <<cleanup_queue, cleanup_lock, top_cleanup_info>>
       \/ /\ cleanup_queue # <<>>
          /\ cleanup_lock' = t
          /\ top_cleanup_info' = [top_cleanup_info EXCEPT ![t] = Head(cleanup_queue)]
          /\ cleanup_queue' = Tail(cleanup_queue)
          /\ pc' = [pc EXCEPT ![t] = "cleaning"]
          /\ UNCHANGED wal_lock
    /\ UNCHANGED <<counters, active_transactions, recently_committed_transactions,
                   old_transactions, stamps, gc, queries, locals, cmd, changes,
                   write_lock, transaction_lock, checkpoint_lock,
                   start_transaction_lock, wal>>

\* Defect: the objects of aborted transactions, and their keys, are leaked.
DestroyedWithoutAborted(t) ==
    {u \in Elements(top_cleanup_info[t].transactions) : awaiting_cleanup[u]}

\* The DuckTransaction objects that the cleanup of t destroys.
Destroyed(t) == Elements(top_cleanup_info[t].transactions)

\* DuckCleanupInfo::Cleanup, then the DuckTransaction objects are destroyed and
\* their shared keys of the checkpoint lock are released.
Cleanup(t) ==
    /\ pc[t] = "cleaning"
    /\ write_lock' = write_lock \ Destroyed(t)
    /\ top_cleanup_info' = [top_cleanup_info EXCEPT ![t] = NoInfo]
    /\ cleanup_lock' = Nobody
    /\ AfterCleanup(t)
    /\ UNCHANGED <<counters, lists, stamps, gc, queries, locals, cmd, changes,
                   transaction_lock, checkpoint_lock, start_transaction_lock, wal>>

\* The checkpoint a commit decided on; it resets the log unless it fails.
CheckpointOnCommit(t) ==
    /\ Goto(t, "checkpoint", "done")
    /\ \E error \in BOOLEAN : wal' = IF error THEN wal ELSE <<>>
    /\ checkpoint_lock' = Nobody
    /\ UNCHANGED <<counters, lists, stamps, gc, queries, locals, cmd, changes,
                   write_lock, transaction_lock, wal_lock, cleanup_lock,
                   start_transaction_lock, top_cleanup_info>>

-----------------------------------------------------------------------------
(* The CHECKPOINT and FORCE CHECKPOINT commands, of a client without a      *)
(* transaction of its own                                                  *)

TryGetExclusiveLock == /\ checkpoint_lock = Nobody /\ write_lock = {}
                       /\ checkpoint_lock' = Command

CommandStep(from, to) ==
    /\ command = from /\ command' = to
    /\ UNCHANGED <<counters, lists, stamps, gc, queries, locals, changes, write_lock,
                   transaction_lock, wal_lock, cleanup_lock, pc, top_cleanup_info>>

CheckpointCommand ==
    /\ "CHECKPOINT" \in Commands
    /\ CommandStep("idle", "locked")
    /\ TryGetExclusiveLock
    /\ UNCHANGED <<start_transaction_lock, command_type, command_commit, wal>>

ForceCheckpoint ==
    /\ "FORCE CHECKPOINT" \in Commands
    /\ CommandStep("idle", "force_wait")
    /\ start_transaction_lock = Nobody
    /\ start_transaction_lock' = Command
    /\ UNCHANGED <<checkpoint_lock, command_type, command_commit, wal>>

ForceLock ==
    /\ CommandStep("force_wait", "locked")
    /\ TryGetExclusiveLock
    /\ start_transaction_lock' = Nobody
    /\ UNCHANGED <<command_type, command_commit, wal>>

ForceInterrupted ==
    /\ CommandStep("force_wait", "idle")
    /\ start_transaction_lock' = Nobody
    /\ UNCHANGED <<checkpoint_lock, command_type, command_commit, wal>>

\* GetLastCommit() > LowestActiveStart(), two atomic reads without a lock.
ReadLastCommit ==
    /\ CommandStep("locked", "read")
    /\ command_commit' = last_commit
    /\ UNCHANGED <<start_transaction_lock, checkpoint_lock, command_type, wal>>

\* Defect: a checkpoint command always does a full checkpoint.
CommandTypeAlwaysFull == "full"

CommandType == IF command_commit > lowest_active_start THEN "concurrent" ELSE "full"

ReadLowestActiveStart ==
    /\ CommandStep("read", "running")
    /\ command_type' = CommandType
    /\ UNCHANGED <<start_transaction_lock, checkpoint_lock, command_commit, wal>>

CreateCheckpoint ==
    /\ CommandStep("running", "idle")
    /\ \E error \in BOOLEAN : wal' = IF error THEN wal ELSE <<>>
    /\ checkpoint_lock' = Nobody
    /\ command_type' = "full" /\ command_commit' = 0
    /\ UNCHANGED start_transaction_lock

-----------------------------------------------------------------------------

\* The steps of a thread inside CommitTransaction or RollbackTransaction.
EndStep(t) == \/ WriteToWAL(t) \/ Relock(t) \/ Commit(t) \/ RemoveCommitted(t)
              \/ PopCleanup(t) \/ Cleanup(t) \/ CheckpointOnCommit(t)

ClientStep(t) == \/ BeginQuery(t) \/ SetActiveQuery(t) \/ EndQuery(t)
                 \/ StartTransaction(t) \/ SetReadWrite(t)
                 \/ \E kind \in Kinds : Write(t, kind)
                 \/ CommitTransaction(t) \/ RollbackTransaction(t)

CommandNext == \/ CheckpointCommand \/ ForceCheckpoint \/ ForceLock \/ ForceInterrupted
               \/ ReadLastCommit \/ ReadLowestActiveStart \/ CreateCheckpoint

Next == (\E t \in Txns : EndStep(t) \/ ClientStep(t)) \/ CommandNext

Spec == Init /\ [][Next]_vars

\* A thread that is ending its transaction goes on until it returns; every
\* transaction is committed or rolled back by its client in the end, and its
\* query numbers get recorded; FORCE CHECKPOINT retries, and a command goes on
\* once it owns the lock.
Fairness ==
    /\ \A t \in Txns : /\ WF_vars(EndStep(t))
                       /\ WF_vars(SetActiveQuery(t))
                       /\ WF_vars(CommitTransaction(t) \/ RollbackTransaction(t))
    /\ WF_vars(ForceLock)
    /\ WF_vars(ReadLastCommit \/ ReadLowestActiveStart \/ CreateCheckpoint)

FairSpec == Spec /\ Fairness

-----------------------------------------------------------------------------
(* Properties                                                              *)

Infos == [lowest_start_time : Nat, transactions : Seq(Txns)]
Owners == Txns \cup {Nobody}

Timestamps == 0..(current_start_timestamp - 1)

TimeTypes ==
    /\ current_start_timestamp \in Nat \ {0}
    /\ last_commit \in Nat /\ lowest_active_start \in Nat /\ command_commit \in Nat
    /\ start_time \in [Txns -> Timestamps]
    /\ commit_id \in [Txns -> Timestamps]

ListTypes ==
    /\ active_transactions \subseteq Txns /\ write_lock \subseteq Txns
    /\ recently_committed_transactions \in Seq(Txns)
    /\ old_transactions \in Seq(Txns)
    /\ cleanup_queue \in Seq(Infos)
    /\ top_cleanup_info \in [Txns -> Infos]
    /\ wal \in Seq(Txns) /\ initial_wal_size \in [Txns -> Nat]
    /\ changes \in [Txns -> SUBSET AllKinds]
    /\ watchers \in [Txns -> SUBSET Txns]

QueryTypes ==
    /\ highest_active_query \in [Txns -> Nat] /\ current_query_number \in Nat
    /\ active_query \in [Txns -> Nat] /\ query \in [Txns -> Nat]

FlagTypes == awaiting_cleanup \in [Txns -> BOOLEAN] /\ failed \in [Txns -> BOOLEAN]

ThreadTypes ==
    /\ transaction_lock \in Owners /\ wal_lock \in Owners /\ cleanup_lock \in Owners
    /\ checkpoint_lock \in Owners \cup {Command}
    /\ start_transaction_lock \in {Nobody, Command}
    /\ pc \in [Txns -> {"idle", "running", "wal", "relock", "commit", "remove",
                        "cleanup", "cleaning", "checkpoint", "done"}]
    /\ checkpoint_decision \in [Txns -> {"none", "full", "concurrent"}]
    /\ command \in {"idle", "force_wait", "locked", "read", "running"}
    /\ command_type \in {"full", "concurrent"}

\* Every variable holds a value of its C++ type; start times and commit ids are
\* timestamps that were handed out, also after a failed commit.
TypeOK == TimeTypes /\ ListTypes /\ QueryTypes /\ FlagTypes /\ ThreadTypes

\* The transactions handed over for cleanup: in the queue or being cleaned up.
Scheduled == UNION ({Elements(cleanup_queue[i].transactions) : i \in 1..Len(cleanup_queue)}
                    \cup {Elements(top_cleanup_info[t].transactions) : t \in Txns})

\* An update version, an index entry or a catalog entry is only taken away when
\* every active transaction started after the commit that replaced it: the undo
\* buffer of a committed, stored transaction is scheduled for cleanup only below
\* every active start time, and that stays so while new transactions start.
CleanupSafe ==
    \A u \in Scheduled, a \in active_transactions :
        awaiting_cleanup[u] /\ changes[u] \cap {"index_delete", "update"} # {}
            => commit_id[u] < start_time[a]

\* The memory of an undo buffer is released only after every query has ended
\* that was reading when RemoveTransaction made the transaction old (the race
\* the comment on highest_active_query is about).
NoReaderOfFreedMemory == \A u \in Scheduled : watchers[u] = {}

\* recently_committed_transactions is ordered on commit_id, which is what allows
\* the loop of RemoveTransaction to stop at the first one still needed.
RecentlyCommittedOrdered ==
    \A i, j \in 1..Len(recently_committed_transactions) :
        i < j => commit_id[recently_committed_transactions[i]]
                    < commit_id[recently_committed_transactions[j]]

\* LowestActiveStart() is the start time of the oldest active transaction
\* whenever there is one, also for the readers that do not hold the lock.
LowestActiveStartExact ==
    active_transactions # {} =>
        /\ \E a \in active_transactions : lowest_active_start = start_time[a]
        /\ \A a \in active_transactions : lowest_active_start <= start_time[a]

\* When no transaction is active, the manager holds on to no old transaction:
\* all of them were handed over for cleanup.
IdleKeepsNothing ==
    active_transactions = {} => /\ recently_committed_transactions = <<>>
                                /\ old_transactions = <<>>

\* Each queued cleanup has a thread of its own that will still pop the queue, so
\* a cleanup is never stranded there with the shared keys of its transactions.
NoStrandedCleanup ==
    Len(cleanup_queue) <= Cardinality({t \in Txns : pc[t] = "cleanup"})

\* t checkpoints as a part of its commit; a checkpoint of some kind is running.
CommitCheckpoint(t) == pc[t] \in {"remove", "cleanup", "cleaning", "checkpoint"}
                       /\ checkpoint_decision[t] # "none"
Checkpointing(o) == \/ o = Command /\ command \in {"locked", "read", "running"}
                    \/ o \in Txns /\ CommitCheckpoint(o)

\* "The write lock prevents other transactions from checkpointing until this
\* transaction is fully finished": from the moment somebody may checkpoint, no
\* other transaction is writing to the WAL or committing changes, and none has
\* an undo buffer that is still waiting for its cleanup.
CheckpointExcludesWriters ==
    \A o \in Txns \cup {Command} : Checkpointing(o) =>
        /\ \A t \in Txns \ {o} : ~Checkpointing(t)
        /\ \A t \in Txns \ {o} : pc[t] \in {"wal", "relock", "commit", "remove"}
                                     => changes[t] = {}
        /\ write_lock \subseteq {o}

\* A full checkpoint (which vacuums deleted rows) runs only when no active
\* transaction needs to read old data, i.e. started before a committed change.
FullCheckpointSafe ==
    (\/ \E t \in Txns : pc[t] = "checkpoint" /\ checkpoint_decision[t] = "full"
     \/ command = "running" /\ command_type = "full")
    => \A u \in Txns, a \in active_transactions :
           commit_id[u] # 0 /\ changes[u] # {} => commit_id[u] < start_time[a]

\* A checkpoint frees the update segments (ClearUpdates) that an undo buffer with
\* updates still points to: while one runs, the cleanup of every such committed
\* transaction is over, also when another thread popped it from the queue.
CheckpointAfterCleanup ==
    (command = "running" \/ \E t \in Txns : pc[t] = "checkpoint") =>
        /\ \A u \in Elements(recently_committed_transactions) : "update" \notin changes[u]
        /\ \A u \in Elements(old_transactions) \cup Scheduled :
              awaiting_cleanup[u] => "update" \notin changes[u]

\* The order of the transactions in the log is the order of their commits, so
\* that a replay produces the state the readers saw; only the last record can
\* be one that is not committed (yet).
WalInCommitOrder ==
    \A i, j \in 1..Len(wal) : i < j =>
        /\ commit_id[wal[i]] # 0
        /\ commit_id[wal[j]] # 0 => commit_id[wal[i]] < commit_id[wal[j]]

\* A client that asked for its transaction to be committed or rolled back gets
\* an answer: no order of the locks makes threads wait for each other.
EndsEventually ==
    \A t \in Txns : pc[t] \notin {"idle", "running"} ~> pc[t] = "done"

\* FORCE CHECKPOINT, which keeps new writers from starting, gets the exclusive
\* key: the shared keys that finished transactions still own are all released.
ForceObtainsLock == command = "force_wait" ~> command # "force_wait"

\* Once every transaction is over, no key of the checkpoint lock is left behind:
\* no shared one in a list or in the queue, no exclusive one with a commit that
\* upgraded its key and then did not checkpoint.
KeysReleased ==
    (\A t \in Txns : pc[t] \in {"idle", "done"})
        => write_lock = {} /\ checkpoint_lock \notin Txns

-----------------------------------------------------------------------------
(* The inductive invariants behind CheckpointExcludesWriters, CleanupSafe,  *)
(* RecentlyCommittedOrdered, WalInCommitOrder, FullCheckpointSafe,         *)
(* NoReaderOfFreedMemory, IdleKeepsNothing, KeysReleased and               *)
(* CheckpointAfterCleanup                                                  *)

Ending == {"wal", "relock", "commit", "remove"}
Over   == {"cleanup", "cleaning", "checkpoint", "done"}

\* The transactions whose objects the manager keeps after they ended.
Kept == Elements(recently_committed_transactions) \cup Elements(old_transactions)
            \cup Scheduled

\* Who owns which lock at which point of CommitTransaction: the transaction lock
\* is held exactly from the commit timestamp to the removal, every transaction
\* with changes owns a shared key while it is active (only objects of finished
\* transactions are destroyed), an exclusive key excludes the shared keys of all
\* others, and whoever is to checkpoint owns it.
LockInv ==
    /\ \A t \in Txns :
         /\ t \in active_transactions <=> pc[t] \in {"running"} \cup Ending
         /\ transaction_lock = t <=> pc[t] \in {"commit", "remove"}
         /\ changes[t] # {} => pc[t] # "idle"
         /\ changes[t] # {} /\ t \in active_transactions => t \in write_lock
         /\ checkpoint_decision[t] # "none" => pc[t] \in {"commit", "remove"} \cup Over
         /\ checkpoint_decision[t] # "none" /\ pc[t] # "done" => checkpoint_lock = t
         /\ pc[t] = "checkpoint" => checkpoint_decision[t] # "none"
    /\ \A u \in Kept : pc[u] \in Over
    /\ checkpoint_lock # Nobody => write_lock \subseteq {checkpoint_lock}
    /\ command \in {"locked", "read", "running"} => checkpoint_lock = Command

\* What the lists hold: only transactions that are over await cleanup; the commit
\* id drawn by the thread that owns the transaction lock is above all the stored
\* ones; what awaits cleanup is below every active start.
ListInv ==
    /\ \A t \in Txns :
         /\ commit_id[t] # 0 => pc[t] \in {"remove"} \cup Over
         /\ awaiting_cleanup[t] => pc[t] \in Over
         /\ awaiting_cleanup[t] /\ changes[t] \cap {"index_delete", "update"} # {}
                => \A a \in active_transactions : commit_id[t] < start_time[a]
    /\ \A i \in 1..Len(recently_committed_transactions) :
         \A t \in Txns : pc[t] = "remove" /\ commit_id[t] # 0
             => commit_id[recently_committed_transactions[i]] < commit_id[t]
    /\ RecentlyCommittedOrdered

\* t has written its record and neither committed nor truncated it yet.
Undecided(t) == /\ pc[t] \in {"relock", "commit"}
                /\ Logged(t, checkpoint_decision[t]) /\ ~failed[t]

\* What the log holds: the WAL lock is kept from the write of a record to the
\* commit, so at most the last record is undecided, and its owner remembers the
\* size of the log in front of it; all other records are committed, in order.
WalInv ==
    /\ \A t \in Txns :
         /\ pc[t] \in {"wal", "relock"} => Logged(t, checkpoint_decision[t])
         /\ pc[t] \in {"relock", "commit"} /\ Logged(t, checkpoint_decision[t])
                => wal_lock = t
         /\ Undecided(t) => Len(wal) = initial_wal_size[t] + 1
    /\ \A i \in 1..Len(wal) : commit_id[wal[i]] = 0 => i = Len(wal) /\ Undecided(wal[i])
    /\ WalInCommitOrder

\* Every active transaction started after every committed change.
NoneReadsOld ==
    \A u \in Txns, a \in active_transactions :
        commit_id[u] # 0 /\ changes[u] # {} => commit_id[u] < start_time[a]

\* How a full checkpoint stays safe from the decision on: a commit that decided on
\* it is alone until it is removed, and what starts later started after it; a
\* command has read a last commit that no change passes while it owns the lock.
CheckpointInv ==
    /\ \A u \in Txns : /\ commit_id[u] <= last_commit
                       /\ commit_id[u] # 0 => \A a \in Txns : commit_id[u] # start_time[a]
    /\ \A t \in Txns : checkpoint_decision[t] = "full" =>
         /\ pc[t] \in {"commit", "remove"} => active_transactions = {t}
         /\ pc[t] \in {"cleanup", "cleaning", "checkpoint"} => NoneReadsOld
    /\ command = "read" =>
         \A u \in Txns : changes[u] # {} => commit_id[u] <= command_commit
    /\ command = "running" /\ command_type = "full" => NoneReadsOld

\* Why an undo buffer outlives the queries that were reading when it became old:
\* their numbers were drawn before its highest_active_query and stay recorded
\* until they end.  A transaction becomes old only once: what is recently
\* committed is neither old nor scheduled for cleanup.
ReaderInv ==
    /\ \A a \in Txns :
         /\ query[a] # MAXIMUM_QUERY_ID => query[a] < current_query_number
         /\ active_query[a] # MAXIMUM_QUERY_ID => active_query[a] = query[a]
    /\ \A u \in Txns :
         /\ watchers[u] # {} => pc[u] \in Over
         /\ \A a \in watchers[u] : /\ a \in Reading(active_transactions)
                                   /\ active_query[a] < highest_active_query[u]
    /\ \A u \in Elements(recently_committed_transactions) :
         commit_id[u] # 0 /\ ~awaiting_cleanup[u]
    /\ \A u \in Elements(old_transactions) \cup Scheduled :
         commit_id[u] = 0 \/ awaiting_cleanup[u]
    /\ NoReaderOfFreedMemory

\* The transactions that have started, and those that have drawn a commit timestamp
\* or were rolled back: no more timestamps than these have been handed out.
Begun   == {t \in Txns : pc[t] # "idle"}
Stamped == {t \in Txns : pc[t] \in {"remove"} \cup Over}

\* Every stored commit id is below the lowest start time that RemoveTransaction finds
\* when nobody else is active, so that it then hands over all it has kept.
StampInv ==
    /\ current_start_timestamp <= 2 + Cardinality(Begun) + Cardinality(Stamped)
    /\ IdleKeepsNothing

\* The transactions of the cleanups in the queue and of those in progress.
Queued == UNION {Elements(cleanup_queue[i].transactions) : i \in 1..Len(cleanup_queue)}
Popped == UNION {Elements(top_cleanup_info[t].transactions) : t \in Txns}

\* Where the objects of transactions are: each in one list or one cleanup only, and
\* a cleanup in progress belongs to the thread that owns the cleanup lock.
PlaceInv ==
    /\ \A i, j \in 1..Len(old_transactions) :
          i # j => old_transactions[i] # old_transactions[j]
    /\ Elements(recently_committed_transactions) \cap Elements(old_transactions) = {}
    /\ Elements(recently_committed_transactions) \cap Scheduled = {}
    /\ Elements(old_transactions) \cap Scheduled = {}
    /\ Queued \cap Popped = {}
    /\ \A i, j \in 1..Len(cleanup_queue) : i # j =>
          Elements(cleanup_queue[i].transactions) \cap Elements(cleanup_queue[j].transactions) = {}
    /\ \A i \in 1..Len(cleanup_queue) : cleanup_queue[i].transactions # <<>>
    /\ \A t \in Txns : /\ top_cleanup_info[t].transactions # <<>> => pc[t] = "cleaning"
                       /\ pc[t] = "cleaning" => cleanup_lock = t

\* Who owns the keys of the checkpoint lock: a shared key belongs to an active
\* transaction or to an object that the manager keeps, and each such object owns
\* one; a commit gives the exclusive key back unless it goes on to checkpoint.
KeyInv ==
    /\ Kept \subseteq write_lock
    /\ write_lock \subseteq active_transactions \cup Kept
    /\ \A t \in Txns :
         /\ failed[t] => changes[t] # {}
         /\ pc[t] = "wal" => changes[t] # {}
         /\ checkpoint_lock = t =>
               \/ pc[t] \in {"wal", "relock", "commit"}
               \/ checkpoint_decision[t] # "none" /\ pc[t] # "done"

\* The own cleanup of a commit that has updates and checkpoints: it was alone, so it
\* is handed over at once, and the cleanup lock makes the commit wait for it.
OwnCleanupInv ==
    \A t \in Txns : "update" \in changes[t] /\ checkpoint_decision[t] # "none" =>
        /\ pc[t] \in {"commit", "remove"} => active_transactions = {t}
        /\ pc[t] \in {"cleanup", "cleaning", "checkpoint"} =>
              t \notin Elements(recently_committed_transactions) \cup Elements(old_transactions)
        /\ pc[t] \in {"cleaning", "checkpoint"} => t \notin Queued
        /\ pc[t] = "checkpoint" => t \notin Popped

=============================================================================
