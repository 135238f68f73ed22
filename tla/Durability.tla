----------------------------- MODULE Durability -----------------------------
(***************************************************************************)
(* The database file, the write-ahead log and what survives a crash:       *)
(* single_file_block_manager.cpp, checkpoint_manager.cpp,                  *)
(* write_ahead_log.cpp, wal_replay.cpp and the commit path to them.        *)
(*                                                                         *)
(* A transaction makes one change (its kind).  "catalog" creates an entry  *)
(* without data.  "bulk" writes a row group to a block of the file before  *)
(* it commits and logs the block.  "indexed" does too, but its table has   *)
(* an index, so that it logs the rows.  "drop" drops the table of an       *)
(* earlier bulk or indexed transaction.  The metadata of a checkpoint, its *)
(* free list included, takes one block.  The log is a sequence of entries; *)
(* <<>> is also a log that does not exist.  A write of a block, of a       *)
(* header and the removal of the log are atomic, fsync does not fail.      *)
(***************************************************************************)
EXTENDS Naturals, Sequences, FiniteSets, SequencesExt

CONSTANTS Txns, Nil,
          Kind,            \* what each transaction does
          Target,          \* whose table a "drop" drops
          MAX_BLOCKS,      \* bound: blocks of the file
          MAX_CRASHES, MAX_CHECKPOINTS,   \* bounds
          LateFailures     \* a drop may fail after CommitEntryDrop

ASSUME DurabilityAssumption ==
    /\ Nil \notin Txns /\ Kind \in [Txns -> {"catalog", "bulk", "indexed", "drop"}]
    /\ Target \in [Txns -> Txns \cup {Nil}] /\ LateFailures \in BOOLEAN
    /\ \A t \in Txns : Kind[t] = "drop" =>
         Target[t] # Nil /\ Kind[Target[t]] \in {"bulk", "indexed"}
    /\ {MAX_BLOCKS, MAX_CRASHES, MAX_CHECKPOINTS} \subseteq Nat

VARIABLES header, active_header,   \* the two headers in the file, and which is in use
          file, disk,              \* block contents: as written, and as synced
          wal, wal_crash,          \* the log, and what a crash may leave of it
          checks_iteration,        \* the file's version is above 66
          rows,                    \* the tables in memory: who made them, their block
          root,                    \* the metadata block of the last checkpoint
          alloc,                   \* free_list, max_block, multi_use_blocks
          modified_blocks,
          iteration_count,
          wal_size, init_state,
          pc, closing,
          committing,              \* the transaction that is committing
          meta_block,              \* the metadata block of the running checkpoint
          replayed,                \* entries of the log that were replayed
          status, block_of,        \* of a transaction, and the block it wrote
          history,                 \* acknowledged commits
          inflight,                \* the commit that a crash interrupted
          crashes, checkpoints

storage == <<header, file, disk>>
log == <<wal, wal_crash, wal_size, init_state>>
blocks == <<alloc, modified_blocks>>
checkpoint == <<active_header, root, iteration_count, closing, meta_block, checkpoints>>
ghosts == <<history, inflight, crashes>>
vars == <<storage, log, blocks, checkpoint, ghosts, checks_iteration, rows, pc,
          committing, replayed, status, block_of>>

Blocks == 0..(MAX_BLOCKS - 1)

Least(s) == CHOOSE x \in s : \A y \in s : x <= y
Greatest(s) == CHOOSE x \in s : \A y \in s : x >= y

-----------------------------------------------------------------------------
(* Block allocation                                                        *)

\* GetFreeBlockId: the block, and the allocator without it.
FreeBlock(a) == IF a.free = {} THEN a.max ELSE Least(a.free)
Allocated(a) == IF a.free = {} THEN [a EXCEPT !.max = @ + 1]
                ELSE [a EXCEPT !.free = @ \ {FreeBlock(a)}]

\* Defect: the block itself is added to the free list with those in the middle.
MarkBlockAsUsedUpTo(a, b) ==
    CASE b >= a.max   -> [a EXCEPT !.free = @ \cup a.max..b, !.max = b + 1]
      [] b \in a.free -> [a EXCEPT !.free = @ \ {b}]
      [] OTHER        -> [a EXCEPT !.uses[b] = @ + 1]

\* The blocks before one past the end, in the middle, become free.
MarkBlockAsUsed(a, b) ==
    CASE b >= a.max   -> [a EXCEPT !.free = @ \cup a.max..(b - 1), !.max = b + 1]
      [] b \in a.free -> [a EXCEPT !.free = @ \ {b}]
      [] OTHER        -> [a EXCEPT !.uses[b] = @ + 1]

\* MarkBlockAsModified of a set of blocks: a block with several uses loses one, the
\* others are reusable after the next checkpoint.
Unshared(bs) == {b \in bs : alloc.uses[b] = 1}
LessUses(bs) == [alloc EXCEPT !.uses = [b \in Blocks |-> IF b \in bs /\ @[b] > 1
                                                         THEN @[b] - 1 ELSE @[b]]]
MarkBlocksAsModified(bs) ==
    /\ modified_blocks' = modified_blocks \cup Unshared(bs)
    /\ alloc' = LessUses(bs)

-----------------------------------------------------------------------------
(* The log                                                                 *)

Entry(type, value, block) == [type |-> type, value |-> value, block |-> block]
FLUSH == Entry("WAL_FLUSH", Nil, Nil)
Torn == Entry("torn", Nil, Nil)

\* Defect: a torn transaction at the end of the log is not cut off.
OpenedAsIs == wal

\* Initialize: the log as it is once the writer is open.
Opened == IF init_state = "UNINITIALIZED_REQUIRES_TRUNCATE" THEN SubSeq(wal, 1, wal_size)
          ELSE wal

WalHeader == IF Opened # <<>> THEN <<>>
             ELSE <<Entry("WAL_VERSION", IF checks_iteration THEN iteration_count ELSE Nil, Nil)>>

\* Entries are written to the file and not synced: any part may survive a crash,
\* also half an entry.
Write(entries) ==
    LET new == Opened \o entries
        parts == {SubSeq(new, 1, n) : n \in Len(Opened)..Len(new)}
    IN  /\ wal' = new
        /\ wal_crash' = wal_crash \cup parts \cup {Append(p, Torn) : p \in parts \ {new}}
        /\ init_state' = "INITIALIZED"

\* WriteAheadLog::Truncate of the open log.
Truncate == /\ wal' = SubSeq(wal, 1, wal_size)
            /\ wal_crash' = wal_crash \cup {SubSeq(wal, 1, wal_size)}

Sync == /\ wal_crash' = {wal}
        /\ wal_size' = Len(wal)

ResetWAL == /\ wal' = <<>> /\ wal_crash' = {<<>>}
            /\ wal_size' = 0 /\ init_state' = "NO_WAL"

-----------------------------------------------------------------------------

Data(t) == [type |-> "data", of |-> t]
NoData == [type |-> "none"]

EmptyHeader == [iteration |-> 0, meta_block |-> Nil, block_count |-> 0]
EmptyAlloc == [free |-> {}, max |-> 0, uses |-> [b \in Blocks |-> 1]]

\* CreateNewDatabase.
Init ==
    /\ header = [h \in 0..1 |-> EmptyHeader] /\ active_header = 1
    /\ file = [b \in Blocks |-> NoData] /\ disk = file
    /\ wal = <<>> /\ wal_crash = {<<>>} /\ wal_size = 0 /\ init_state = "NO_WAL"
    /\ checks_iteration \in BOOLEAN
    /\ rows = <<>> /\ root = Nil /\ alloc = EmptyAlloc /\ modified_blocks = {}
    /\ iteration_count = 0
    /\ pc = "running" /\ closing = FALSE /\ committing = Nil /\ meta_block = Nil
    /\ replayed = 0
    /\ status = [t \in Txns |-> "new"] /\ block_of = [t \in Txns |-> Nil]
    /\ history = <<>> /\ inflight = Nil
    /\ crashes = 0 /\ checkpoints = 0

Goto(from, to) == pc = from /\ pc' = to

RowsOf(t) == {i \in DOMAIN rows : rows[i].txn = t}
BlocksOf(t) == {rows[i].block : i \in RowsOf(t)}

-----------------------------------------------------------------------------
(* Transactions                                                            *)

\* OptimisticDataWriter: the row group is written to a new block, not synced.
WriteRowGroup(t) ==
    /\ pc \in {"running", "commit"}
    /\ status[t] = "new" /\ Kind[t] \in {"bulk", "indexed"}
    /\ status' = [status EXCEPT ![t] = "active"]
    /\ block_of' = [block_of EXCEPT ![t] = FreeBlock(alloc)]
    /\ file' = [file EXCEPT ![FreeBlock(alloc)] = Data(t)]
    /\ alloc' = Allocated(alloc)
    /\ UNCHANGED <<header, disk, log, modified_blocks, checkpoint, ghosts, checks_iteration,
                   rows, pc, committing, replayed>>

\* LocalTableStorage::Rollback.
RollbackTransaction(t) ==
    /\ pc = "running" /\ status[t] = "active"
    /\ status' = [status EXCEPT ![t] = "done"]
    /\ MarkBlocksAsModified({block_of[t]})
    /\ UNCHANGED <<storage, log, checkpoint, ghosts, checks_iteration, rows, pc, committing,
                   replayed, block_of>>

CanCommit(t) ==
    CASE Kind[t] = "catalog" -> status[t] = "new"
      [] Kind[t] = "drop"    -> status[t] = "new" /\ RowsOf(Target[t]) # {}
      [] OTHER               -> status[t] = "active"

LogEntry(t) ==
    CASE Kind[t] = "catalog" -> Entry("CREATE", t, Nil)
      [] Kind[t] = "drop"    -> Entry("DROP_TABLE", Target[t], Nil)
      [] Kind[t] = "bulk"    -> Entry("ROW_GROUP_DATA", t, block_of[t])
      [] Kind[t] = "indexed" -> Entry("INSERT_TUPLE", t, Nil)

\* Defect: the blocks that the log refers to are not synced.
FileSyncNever(t) == disk' = disk

\* The blocks are synced when the log refers to some.
FileSync(t) == disk' = IF Kind[t] = "bulk" THEN file ELSE disk

\* DuckTransaction::WriteToWAL.
WriteToWAL(t) ==
    /\ Goto("running", "commit") /\ CanCommit(t)
    /\ committing' = t
    /\ Write(WalHeader \o <<LogEntry(t)>>)
    /\ wal_size' = Len(Opened)
    /\ FileSync(t)
    /\ UNCHANGED <<header, file, blocks, checkpoint, ghosts, checks_iteration, rows, replayed,
                   status, block_of>>

\* What the commit changes in memory: local storage is merged into the table, the
\* undo buffer is committed and the blocks of a dropped table are given up.
Apply(t) ==
    IF Kind[t] = "drop"
    THEN /\ rows' = SelectSeq(rows, LAMBDA r : r.txn # Target[t])
         /\ MarkBlocksAsModified(BlocksOf(Target[t]))
    ELSE /\ rows' = Append(rows, [txn |-> t, block |-> block_of[t]])
         /\ UNCHANGED blocks

\* FlushCommit: the flush marker is written, then synced.
WriteFlush ==
    /\ Goto("commit", "sync")
    /\ Write(<<FLUSH>>)
    /\ UNCHANGED <<storage, wal_size, blocks, checkpoint, ghosts, checks_iteration, rows,
                   committing, replayed, status, block_of>>

Acknowledge(t) ==
    /\ history' = Append(history, t)
    /\ status' = [status EXCEPT ![t] = "done"]
    /\ committing' = Nil

FlushCommit ==
    /\ Goto("sync", "running")
    /\ Sync /\ Apply(committing) /\ Acknowledge(committing)
    /\ UNCHANGED <<storage, wal, init_state, checkpoint, inflight, crashes, checks_iteration,
                   replayed, block_of>>

\* What a failed commit may have given up: RevertCommit does not take back the
\* marks that CommitEntryDrop has set.
GivenUp(t) == {{}} \cup IF LateFailures /\ Kind[t] = "drop" THEN {BlocksOf(Target[t])} ELSE {}

\* An error before the marker is written: RevertCommit truncates the log, then the
\* transaction is rolled back.  Blocks that were merged into a table are not reused.
CommitFails ==
    /\ Goto("commit", "running")
    /\ Truncate
    /\ status' = [status EXCEPT ![committing] = "done"] /\ committing' = Nil
    /\ \E given_up \in GivenUp(committing) : MarkBlocksAsModified(given_up)
    /\ UNCHANGED <<storage, wal_size, init_state, checkpoint, ghosts, checks_iteration, rows,
                   replayed, block_of>>

-----------------------------------------------------------------------------
(* Checkpoints                                                             *)

\* The checkpoint lock: no other transaction has changed anything.
StartCheckpoint(others) ==
    /\ Goto("running", "checkpoint")
    /\ checkpoints < MAX_CHECKPOINTS /\ checkpoints' = checkpoints + 1
    /\ \A t \in others : status[t] # "active"
    /\ UNCHANGED <<storage, log, active_header, root, iteration_count, meta_block, ghosts,
                   checks_iteration, replayed, status, block_of>>

\* A commit that checkpoints instead of writing to the log.
CommitCheckpoint(t) ==
    /\ CanCommit(t) /\ StartCheckpoint(Txns \ {t})
    /\ committing' = t /\ Apply(t)
    /\ UNCHANGED closing

\* CHECKPOINT, and AttachedDatabase::Close with something in the log.
Checkpoint(close) ==
    /\ wal_size > 0 /\ StartCheckpoint(Txns)
    /\ closing' = close
    /\ UNCHANGED <<blocks, rows, committing>>

CloseWithoutCheckpoint ==
    /\ Goto("running", "closed")
    /\ wal_size = 0 /\ \A t \in Txns : status[t] # "active"
    /\ IF init_state = "NO_WAL" THEN UNCHANGED log ELSE ResetWAL
    /\ UNCHANGED <<storage, blocks, checkpoint, ghosts, checks_iteration, rows, committing,
                   replayed, status, block_of>>

\* CreateCheckpoint: the metadata goes to a new block.
WriteMetadata ==
    /\ Goto("checkpoint", IF wal_size = 0 THEN "header" ELSE "marker")
    /\ meta_block' = FreeBlock(alloc) /\ alloc' = Allocated(alloc)
    /\ UNCHANGED <<storage, log, modified_blocks, active_header, root, iteration_count, closing,
                   checkpoints, ghosts, checks_iteration, rows, committing, replayed, status,
                   block_of>>


Marker == <<Entry("CHECKPOINT", meta_block, Nil), FLUSH>>

WriteCheckpoint ==
    /\ Goto("marker", "sync_marker")
    /\ Write(Marker)
    /\ UNCHANGED <<storage, wal_size, blocks, checkpoint, ghosts, checks_iteration, rows,
                   committing, replayed, status, block_of>>

SyncCheckpoint ==
    /\ Goto("sync_marker", "header") /\ Sync
    /\ UNCHANGED <<storage, wal, init_state, blocks, checkpoint, ghosts, checks_iteration, rows,
                   committing, replayed, status, block_of>>

\* WriteHeader up to the first fsync: the old metadata and all modified blocks
\* become free, and the metadata is written with the new free list.
WriteMetaBlock ==
    LET old == IF root = Nil THEN {} ELSE {root}
        new == [LessUses(old) EXCEPT !.free = @ \cup modified_blocks \cup Unshared(old)]
    IN  /\ Goto("header", "write_header")
        /\ alloc' = new /\ modified_blocks' = {}
        /\ iteration_count' = iteration_count + 1
        /\ file' = [file EXCEPT ![meta_block] = [type |-> "meta", rows |-> rows,
                                                 free |-> new.free, uses |-> new.uses]]
        /\ disk' = file' /\ root' = meta_block
        /\ UNCHANGED <<header, log, active_header, closing, meta_block, checkpoints,
                       ghosts, checks_iteration, rows, committing, replayed, status, block_of>>

\* The rest of WriteHeader: the header that is not in use is overwritten, and synced.
WriteHeader ==
    /\ Goto("write_header", "truncate")
    /\ header' = [header EXCEPT ![1 - active_header] =
          [iteration |-> iteration_count, meta_block |-> meta_block, block_count |-> alloc.max]]
    /\ active_header' = 1 - active_header
    /\ UNCHANGED <<file, disk, log, blocks, root, iteration_count, closing, meta_block, checkpoints,
                   ghosts, checks_iteration, rows, committing, replayed, status, block_of>>

\* The number of blocks that are left when the free ones at the end are cut off.
NewMax == Least({n \in 0..alloc.max : n..(alloc.max - 1) \subseteq alloc.free})

\* Defect: the blocks that were cut off stay in the free list.
FreeAfterTruncateAll == alloc.free

FreeAfterTruncate == alloc.free \cap 0..(NewMax - 1)

TruncateFile ==
    /\ Goto("truncate", "reset_wal")
    /\ alloc' = [alloc EXCEPT !.max = NewMax, !.free = FreeAfterTruncate]
    /\ file' = [b \in Blocks |-> IF b >= NewMax THEN NoData ELSE file[b]]
    /\ UNCHANGED <<header, disk, log, modified_blocks, checkpoint, ghosts, checks_iteration,
                   rows, committing, replayed, status, block_of>>

\* The log is removed when it was not empty; the last close always removes it.
FinishCheckpoint ==
    /\ Goto("reset_wal", IF closing THEN "closed" ELSE "running")
    /\ IF init_state # "NO_WAL" /\ (wal_size > 0 \/ closing) THEN ResetWAL ELSE UNCHANGED log
    /\ IF committing = Nil THEN UNCHANGED <<history, status, committing>>
       ELSE Acknowledge(committing)
    /\ closing' = FALSE /\ meta_block' = Nil
    /\ UNCHANGED <<storage, blocks, active_header, root, iteration_count, checkpoints, inflight,
                   crashes, checks_iteration, rows, replayed, block_of>>

-----------------------------------------------------------------------------
(* Crash and recovery                                                      *)

\* A crash keeps any of the blocks and any part of the log that were not synced.
Crash ==
    /\ pc \notin {"closed", "refused"} /\ crashes < MAX_CRASHES
    /\ pc' = "closed" /\ crashes' = crashes + 1
    /\ \E lost \in SUBSET {b \in Blocks : file[b] # disk[b]} :
         file' = [b \in Blocks |-> IF b \in lost THEN disk[b] ELSE file[b]]
    /\ disk' = file'
    /\ wal' \in wal_crash /\ wal_crash' = {wal'}
    /\ inflight' = IF committing = Nil THEN inflight ELSE committing
    /\ status' = [t \in Txns |-> IF status[t] = "active" \/ t = committing THEN "done"
                                 ELSE status[t]]
    /\ committing' = Nil /\ closing' = FALSE /\ meta_block' = Nil
    /\ rows' = <<>> /\ root' = Nil /\ alloc' = EmptyAlloc /\ modified_blocks' = {}
    /\ wal_size' = 0 /\ init_state' = "NO_WAL" /\ replayed' = 0
    /\ block_of' = [t \in Txns |-> Nil]
    /\ UNCHANGED <<header, active_header, iteration_count, checkpoints, history,
                   checks_iteration>>

\* LoadExistingDatabase.
NewestHeader == IF header[0].iteration > header[1].iteration THEN 0 ELSE 1

\* What the root of a header describes, given the contents of the blocks.
Loaded(h, contents) == IF h.meta_block = Nil THEN [rows |-> <<>>, free |-> {}, uses |-> EmptyAlloc.uses]
                       ELSE contents[h.meta_block]

\* The first pass over the log reads the entries before a torn one.
Readable == SubSeq(wal, 1, Least({i \in 0..Len(wal) : i = Len(wal) \/ wal[i + 1] = Torn}))

MarkLogged(a) ==
    FoldLeft(LAMBDA acc, e : IF e.type = "ROW_GROUP_DATA" THEN MarkBlockAsUsed(acc, e.block) ELSE acc,
             a, Readable)

\* checkpoint_id, the root that the last checkpoint entry of a log announces.
CheckpointId(w) ==
    LET at == {i \in DOMAIN w : w[i].type = "CHECKPOINT"}
    IN  IF at = {} THEN Nil ELSE w[Greatest(at)].value

IsCheckpointClean(w, h) == CheckpointId(w) # Nil /\ CheckpointId(w) = h.meta_block

\* ReplayVersion, and the check of expected_checkpoint_id after the first pass.
VersionError(h) ==
    /\ Readable # <<>> /\ Readable[1].value # Nil
    /\ Readable[1].value # h.iteration
    /\ ~(Readable[1].value + 1 = h.iteration /\ IsCheckpointClean(Readable, h))

TxnsIn(rs) == [i \in DOMAIN rs |-> rs[i].txn]

\* The tables that a sequence of commits leaves.
Contents(h) == SelectSeq(h, LAMBDA t : /\ Kind[t] # "drop"
                                       /\ \A i \in DOMAIN h : Kind[h[i]] = "drop" => Target[h[i]] # t)

Interrupted == IF inflight = Nil THEN history ELSE Append(history, inflight)

\* The interrupted commit took place if recovery has brought it back.
Settle(rs) == /\ history' = IF TxnsIn(rs) = Contents(Interrupted) THEN Interrupted ELSE history
              /\ inflight' = Nil

\* LoadDatabase: the newest header, its free list, and the first pass over the log.
LoadDatabase ==
    LET h == header[NewestHeader]
        loaded == Loaded(h, file)
    IN  /\ pc = "closed"
        /\ active_header' = NewestHeader /\ iteration_count' = h.iteration
        /\ root' = h.meta_block /\ rows' = loaded.rows /\ modified_blocks' = {}
        /\ alloc' = MarkLogged([free |-> loaded.free, max |-> h.block_count, uses |-> loaded.uses])
        /\ replayed' = 0
        /\ CASE VersionError(h) ->
                  pc' = "refused" /\ UNCHANGED <<log, history, inflight>>
             [] ~VersionError(h) /\ (wal = <<>> \/ IsCheckpointClean(Readable, h)) ->
                  pc' = "running" /\ ResetWAL /\ Settle(rows')
             [] OTHER ->
                  pc' = "replay" /\ UNCHANGED <<log, history, inflight>>
        /\ UNCHANGED <<storage, closing, meta_block, checkpoints, crashes, checks_iteration,
                       committing, status, block_of>>

\* The entries of the next transaction in the log.
NextFlush == {i \in DOMAIN Readable : i > replayed /\ wal[i].type = "WAL_FLUSH"}
Unread(upto) == SubSeq(wal, replayed + 1, upto)

\* One entry in the second pass: a block in the log is used as it is, logged rows
\* are appended again and go to a new block.
ReplayEntry(s, e) ==
    CASE e.type = "CREATE" ->
           [s EXCEPT !.rows = Append(@, [txn |-> e.value, block |-> Nil])]
      [] e.type = "ROW_GROUP_DATA" ->
           [s EXCEPT !.rows = Append(@, [txn |-> e.value, block |-> e.block])]
      [] e.type = "INSERT_TUPLE" ->
           [s EXCEPT !.rows = Append(@, [txn |-> e.value, block |-> FreeBlock(s.alloc)]),
                     !.alloc = Allocated(s.alloc),
                     !.file[FreeBlock(s.alloc)] = Data(e.value)]
      [] e.type = "DROP_TABLE" ->
           [s EXCEPT !.rows = SelectSeq(@, LAMBDA r : r.txn # e.value),
                     !.dropped = @ \cup BlocksOf(e.value)]
      [] OTHER -> s

Replayed(upto) ==
    FoldLeft(ReplayEntry, [rows |-> rows, alloc |-> alloc, file |-> file, dropped |-> {}],
             Unread(upto))

\* A transaction that the log holds completely.
ReplayTransaction ==
    LET upto == Least(NextFlush)
        s == Replayed(upto)
    IN  /\ pc = "replay" /\ NextFlush # {}
        /\ rows' = s.rows /\ file' = s.file
        /\ alloc' = [s.alloc EXCEPT !.uses = LessUses(s.dropped).uses]
        /\ modified_blocks' = modified_blocks \cup Unshared(s.dropped)
        /\ replayed' = upto
        /\ UNCHANGED <<header, disk, log, checkpoint, ghosts, checks_iteration, pc, committing,
                       status, block_of>>

\* The end of the log: a torn transaction is rolled back, and what it wrote is cut
\* off the log when the log is opened for writing.
FinishReplay ==
    LET s == Replayed(Len(Readable))
    IN  /\ Goto("replay", "running") /\ NextFlush = {}
        /\ file' = s.file /\ alloc' = s.alloc
        /\ modified_blocks' = modified_blocks \cup IF s.alloc = alloc THEN {} ELSE {FreeBlock(alloc)}
        /\ wal_size' = replayed /\ replayed' = 0
        /\ init_state' = IF replayed = Len(wal) THEN "UNINITIALIZED"
                         ELSE "UNINITIALIZED_REQUIRES_TRUNCATE"
        /\ Settle(rows)
        /\ UNCHANGED <<header, disk, wal, wal_crash, checkpoint, crashes, checks_iteration, rows,
                       committing, status, block_of>>

-----------------------------------------------------------------------------

Next ==
    \/ \E t \in Txns : \/ WriteRowGroup(t) \/ RollbackTransaction(t)
                       \/ WriteToWAL(t)    \/ CommitCheckpoint(t)
    \/ WriteFlush \/ FlushCommit \/ CommitFails
    \/ \E close \in BOOLEAN : Checkpoint(close)
    \/ CloseWithoutCheckpoint
    \/ WriteMetadata \/ WriteCheckpoint \/ SyncCheckpoint \/ WriteMetaBlock \/ WriteHeader
    \/ TruncateFile \/ FinishCheckpoint
    \/ Crash \/ LoadDatabase \/ ReplayTransaction \/ FinishReplay

Spec == Init /\ [][Next]_vars

-----------------------------------------------------------------------------

\* Every variable keeps its type, and the free list names blocks of the file.
TypeOK ==
    /\ header \in [0..1 -> [iteration : Nat, meta_block : Blocks \cup {Nil}, block_count : Nat]]
    /\ active_header \in 0..1 /\ iteration_count \in Nat
    /\ DOMAIN file = Blocks /\ DOMAIN disk = Blocks
    /\ wal \in wal_crash /\ wal_size \in 0..Len(wal)
    /\ init_state \in {"NO_WAL", "UNINITIALIZED", "UNINITIALIZED_REQUIRES_TRUNCATE", "INITIALIZED"}
    /\ alloc.max \in 0..MAX_BLOCKS /\ alloc.free \subseteq 0..(alloc.max - 1)
    /\ alloc.uses \in [Blocks -> Nat \ {0}]
    /\ modified_blocks \subseteq 0..(alloc.max - 1)
    /\ {root, meta_block} \subseteq Blocks \cup {Nil}
    /\ block_of \in [Txns -> Blocks \cup {Nil}]
    /\ status \in [Txns -> {"new", "active", "done"}]
    /\ {committing, inflight} \subseteq Txns \cup {Nil}
    /\ replayed \in 0..Len(wal)


\* Whatever a crash leaves, recovery finds what it reads: the root of the newest
\* header, the blocks of its tables, and the blocks that the log refers to.  This
\* is what the order of the fsyncs and the delayed reuse of blocks are for.
Recoverable ==
    \A contents \in {file, disk} :
      LET h == header[NewestHeader]
      IN  /\ h.meta_block # Nil => contents[h.meta_block].type = "meta"
          /\ \A i \in DOMAIN Loaded(h, contents).rows :
               LET r == Loaded(h, contents).rows[i]
               IN  r.block # Nil => contents[r.block] = Data(r.txn)
          /\ \A w \in wal_crash : ~IsCheckpointClean(w, h) =>
               \A i \in DOMAIN w :
                 w[i].type = "ROW_GROUP_DATA" /\ (\E j \in i..Len(w) : w[j] = FLUSH)
                   => contents[w[i].block] = Data(w[i].value)

\* VerifyBlocks: a block that is in use is not in the free list.
UsedNotFree ==
    pc \notin {"closed", "refused"} =>
      alloc.free \cap ({rows[i].block : i \in DOMAIN rows} \cup {root, meta_block}
                        \cup {block_of[t] : t \in {u \in Txns : status[u] = "active"}}) = {}

\* A database that is refused because of its log has lost nothing: the log holds no
\* acknowledged commit that the file does not have.
RefusalHarmless ==
    pc = "refused" => TxnsIn(rows) \in {Contents(history), Contents(Interrupted)}
=============================================================================
