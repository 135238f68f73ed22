-------------------------- MODULE RowVersionsMarks --------------------------
(***************************************************************************)
(* The steps of RowVersions keep the marks of the deleted rows and the     *)
(* entries of the undo buffers together.                                   *)
(***************************************************************************)
EXTENDS RowVersionsVectors

\* No append begins where the undo buffers stay.
LEMMA KeptAppends ==
    ASSUME OwnerInv, NEW t \in Txns, UNCHANGED undo, \A u \in Txns \ {t} : pc'[u] = pc[u],
           pc[t] \in Open \cup Finishing, NEW u \in Txns, NEW n, AppendsFrom(u, n)'
    PROVE  AppendsFrom(u, n)
<1>1. PICK k \in 1..Len(undo[u]) : undo[u][k].type = "append" /\ undo[u][k].start = n
  BY Zenon DEF AppendsFrom
<1>2. CASE u = t
  <2>1. pc[t] \notin {"running", "failed"}
    BY <1>1, <1>2, Zenon DEF OwnerInv
  <2>2. pc[t] \in Appending
    BY <2>1, Zenon DEF Open, Appending
  <2> QED BY <2>2, <1>1, <1>2, Zenon DEF AppendsFrom
<1>3. CASE u # t
  BY <1>3, Zenon DEF AppendsFrom
<1> QED BY <1>2, <1>3, Zenon

\* A marked row stays marked when its mark, its transaction and the stored
\* deletes stay.
LEMMA MarkedStays ==
    ASSUME NEW u \in Txns, NEW k, NEW v, NEW i, Marked(u, k, v, i),
           Mark(vector_info'[v], i) = Mark(vector_info[v], i),
           pc'[u] = pc[u], transaction_id'[u] = transaction_id[u], commit_id'[u] = commit_id[u],
           pos'[u] = pos[u], has_unserialized_changes => has_unserialized_changes',
           has_unserialized_changes' \/ storage' = storage
    PROVE  Marked(u, k, v, i)'
<1>1. Mark(vector_info[v], i)' = Mark(vector_info[v], i)
  BY Zenon
<1>2. storage' = storage => Mark(storage[v], i)' = Mark(storage[v], i)
  BY Zenon
<1> QED BY <1>1, <1>2, Zenon DEF Marked

\* No row comes to be deleted twice when no delete entry is new.
LEMMA OnceStays ==
    ASSUME OnceInv,
           \A u \in Txns : \A k \in 1..Len(undo'[u]) : undo'[u][k].type = "delete" =>
              /\ k \in 1..Len(undo[u]) /\ undo'[u][k] = undo[u][k]
              /\ \A v \in Vectors, i \in Rows : Deletes(u, k, v, i)' => Deletes(u, k, v, i)
    PROVE  OnceInv'
<1> SUFFICES ASSUME NEW u \in Txns, NEW k \in 1..Len(undo'[u]), undo'[u][k].type = "delete"
             PROVE  /\ DeletedRows(undo[u][k])' # {}
                    /\ \A v \in Vectors, i \in Rows, t \in Txns : \A l \in 1..Len(undo'[t]) :
                          Deletes(u, k, v, i)' /\ Deletes(t, l, v, i)' => t = u /\ l = k
  BY Zenon DEF OnceInv
<1>1. k \in 1..Len(undo[u]) /\ undo'[u][k] = undo[u][k] /\ undo[u][k].type = "delete"
  BY Zenon
<1>2. DeletedRows(undo[u][k])' # {}
  BY <1>1, Zenon DEF OnceInv
<1>3. ASSUME NEW v \in Vectors, NEW i \in Rows, NEW t \in Txns, NEW l \in 1..Len(undo'[t]),
             Deletes(u, k, v, i)', Deletes(t, l, v, i)'
      PROVE  t = u /\ l = k
  <2>1. undo'[t][l].type = "delete"
    BY <1>3, Zenon DEF Deletes
  <2>2. l \in 1..Len(undo[t]) /\ Deletes(t, l, v, i) /\ Deletes(u, k, v, i)
    BY <1>3, <2>1, Zenon
  <2> QED BY <1>1, <2>2, Zenon DEF OnceInv
<1> QED BY <1>2, <1>3, Zenon

\* Only the phase of t changes.
LEMMA PhaseMarks ==
    ASSUME RowTypes, PhaseInv, MarkInv, NEW t \in Txns,
           UNCHANGED <<vector_info, count, has_unserialized_changes, disk, transaction_id, undo>>,
           \A u \in Txns \ {t} : pc'[u] = pc[u] /\ commit_id'[u] = commit_id[u] /\ pos'[u] = pos[u],
           pc[t] \in Open \cup Finishing, pc'[t] \in Open => pc[t] \in Open,
           \A k \in 1..Len(undo[t]), v \in Vectors, i \in Rows :
              /\ Deletes(t, k, v, i)' => Deletes(t, k, v, i)
              /\ pc'[t] \in Open /\ Deletes(t, k, v, i) => Deletes(t, k, v, i)'
              /\ Deletes(t, k, v, i)' /\ Placed(v, i) /\ Marked(t, k, v, i) => Marked(t, k, v, i)'
    PROVE  MarkInv'
<1>0. storage' = storage
  BY Zenon DEF disk
<1>1. SummaryInv'
  BY <1>0, Zenon DEF MarkInv, SummaryInv, Summarised
<1>2. ASSUME NEW u \in Txns \ {t}, NEW k \in 1..Len(undo[u]), NEW v \in Vectors, NEW i \in Rows
      PROVE  Deletes(u, k, v, i)' <=> Deletes(u, k, v, i)
  BY Zenon DEF Deletes, DeletedRows
<1>3. ASSUME NEW u \in Txns, NEW k \in 1..Len(undo[u]), NEW v \in Vectors, NEW i \in Rows,
             Deletes(u, k, v, i)'
      PROVE  Deletes(u, k, v, i)
  BY <1>2, <1>3, Zenon
<1>4. ASSUME NEW v \in Vectors, NEW i \in Rows, Placed(v, i) PROVE Placed(v, i)'
  <2>1. \A u \in Txns, n \in 0..MAX_ROWS : AppendsFrom(u, n)' => AppendsFrom(u, n)
    BY KeptAppends, Zenon DEF PhaseInv
  <2> QED BY <1>4, <2>1, Zenon DEF Placed
<1>5. EntryInv'
  <2> SUFFICES ASSUME NEW u \in Txns, NEW k \in 1..Len(undo[u]), NEW v \in Vectors, NEW i \in Rows,
                      Deletes(u, k, v, i)'
               PROVE  Placed(v, i)' /\ Marked(u, k, v, i)'
    BY Zenon DEF EntryInv
  <2>1. Placed(v, i) /\ Marked(u, k, v, i)
    BY <1>3, Zenon DEF MarkInv, EntryInv
  <2>2. CASE u = t
    BY <2>1, <2>2, <1>4, Zenon
  <2>3. CASE u # t
    BY <2>1, <2>3, <1>0, <1>4, MarkedStays, Zenon
  <2> QED BY <2>2, <2>3, Zenon
<1>6. OnceInv'
  <2>1. ASSUME NEW u \in Txns, NEW k \in 1..Len(undo'[u]), undo'[u][k].type = "delete"
        PROVE  /\ k \in 1..Len(undo[u]) /\ undo'[u][k] = undo[u][k]
               /\ \A v \in Vectors, i \in Rows : Deletes(u, k, v, i)' => Deletes(u, k, v, i)
    <3>1. k \in 1..Len(undo[u])
      BY Zenon
    <3> QED BY <3>1, <1>3, Zenon
  <2> QED BY <2>1, OnceStays, Zenon DEF MarkInv
<1>7. OwnInv'
  <2> SUFFICES ASSUME NEW u \in Txns, NEW v \in Vectors, NEW i \in Rows, pc'[u] \in Open,
                      Mark(vector_info[v], i) = transaction_id[u]
               PROVE  \E k \in 1..Len(undo[u]) : Deletes(u, k, v, i)'
    BY Zenon DEF OwnInv
  <2>1. pc[u] \in Open
    BY Zenon
  <2>2. PICK k \in 1..Len(undo[u]) : Deletes(u, k, v, i)
    BY <2>1, Zenon DEF MarkInv, OwnInv
  <2>3. CASE u = t
    BY <2>2, <2>3, Zenon
  <2>4. CASE u # t
    <3>1. u \in Txns \ {t}
      BY <2>4, Zenon
    <3> QED BY <2>2, <3>1, <1>2, Zenon
  <2> QED BY <2>3, <2>4, Zenon
<1> QED BY <1>1, <1>5, <1>6, <1>7, Zenon DEF MarkInv

\* A commit begins, fails or ends, a rollback begins or ends.
LEMMA PhaseMarkCases ==
    ASSUME RowTypes, PhaseInv, MarkInv, Low, NEW t \in Txns,
           UNCHANGED <<vector_info, count, has_unserialized_changes, disk, transaction_id, undo>>,
           \A u \in Txns \ {t} : pc'[u] = pc[u] /\ commit_id'[u] = commit_id[u] /\ pos'[u] = pos[u],
           \/ pc[t] \in Open /\ pc'[t] = "stamping" /\ pos'[t] = 1
           \/ pc[t] \in Open /\ pc'[t] = "reverting"
           \/ pc[t] \in Open /\ pc'[t] = "undoing" /\ pos'[t] = Len(undo[t])
           \/ pc[t] \in Open /\ pc'[t] = "committed" /\ undo[t] = <<>>
           \/ pc[t] \in Open /\ pc'[t] = "flushed"
           \/ pc[t] = "stamping" /\ pc'[t] = "committed" /\ pos[t] > Len(undo[t])
           \/ pc[t] = "stamping" /\ pc'[t] = "reverting"
           \/ pc[t] = "undoing" /\ pc'[t] = "aborted"
    PROVE  MarkInv'
<1>1. Len(undo[t]) \in Nat /\ pos[t] \in Nat /\ TRANSACTION_ID_START \in Nat
  BY RowVersionsAssumption DEF RowTypes, PlainTypes
<1>2. pc[t] = "stamping" => 0 < commit_id[t] /\ commit_id[t] < TRANSACTION_ID_START
  <2>1. commit_id[t] \in Nat /\ current_timestamp \in Nat /\ commit_id[t] < current_timestamp
        /\ current_timestamp < TRANSACTION_ID_START
    BY Zenon DEF RowTypes, PlainTypes, PhaseInv, IdInv, Low
  <2>2. pc[t] = "stamping" => 0 < commit_id[t]
    BY Zenon DEF PhaseInv, IdInv
  <2> QED BY <1>1, <2>1, <2>2
<1>3. pc[t] \in Open \cup Finishing /\ (pc'[t] \in Open => pc[t] \in Open)
      /\ pc[t] # "aborted" /\ (pc[t] = "undoing" => pc'[t] = "aborted")
      /\ (pc'[t] \in Open => pc'[t] = "flushed")
  BY Zenon DEF Open, Finishing
<1>4. ASSUME NEW k \in 1..Len(undo[t]), NEW v \in Vectors, NEW i \in Rows
      PROVE  /\ Deletes(t, k, v, i)' => Deletes(t, k, v, i)
             /\ pc'[t] \in Open /\ Deletes(t, k, v, i) => Deletes(t, k, v, i)'
             /\ Deletes(t, k, v, i)' /\ Placed(v, i) /\ Marked(t, k, v, i) => Marked(t, k, v, i)'
  <2>1. Deletes(t, k, v, i)' => Deletes(t, k, v, i)
    BY <1>3, Zenon DEF Deletes, DeletedRows
  <2>2. pc'[t] \in Open /\ Deletes(t, k, v, i) => Deletes(t, k, v, i)'
    BY <1>3, Zenon DEF Deletes, DeletedRows
  <2>3. ASSUME Deletes(t, k, v, i)', Marked(t, k, v, i) PROVE Marked(t, k, v, i)'
    <3> DEFINE mark == Mark(vector_info[v], i)
    <3>1. /\ pc[t] \in Open => mark = transaction_id[t]
          /\ pc[t] = "stamping" => mark = IF k < pos[t] THEN commit_id[t] ELSE transaction_id[t]
          /\ pc[t] \notin {"committed", "cleaned"} => has_unserialized_changes
      BY <2>3, Zenon DEF Marked
    <3>2. Mark(vector_info[v], i)' = mark
      BY Zenon
    <3> HIDE DEF mark
    <3>3. has_unserialized_changes
      BY <3>1, <1>3, Zenon DEF Open, Finishing
    <3>4. pc'[t] # "aborted" /\ undo[t] # <<>>
      BY <2>3 DEF Deletes
    <3>5. /\ pc'[t] \in Open => mark = transaction_id[t]
          /\ pc'[t] = "stamping" => mark = IF k < pos'[t] THEN commit_id'[t] ELSE transaction_id[t]
          /\ pc'[t] \in {"reverting", "undoing"} =>
                mark = transaction_id[t] \/ (0 < mark /\ mark < TRANSACTION_ID_START)
          /\ pc'[t] \in {"committed", "cleaned"} => mark < TRANSACTION_ID_START
      BY <3>1, <3>4, <1>1, <1>2, <1>3 DEF Open
    <3> QED BY <3>2, <3>3, <3>5, Zenon DEF Marked
  <2> QED BY <2>1, <2>2, <2>3, Zenon
<1> QED BY <1>3, <1>4, PhaseMarks, Zenon

\* The steps that only move a transaction on keep MarkInv.
LEMMA PhaseMarkSteps ==
    ASSUME RowTypes, PhaseInv, MarkInv, Low, NEW t \in Txns,
           \/ \E to \in {"stamping", "reverting", "undoing"} : Commit(t, to)
           \/ CommitReadOnly(t) \/ RemoveCommitted(t) \/ RemoveAborted(t) \/ CommitFails(t)
           \/ RollbackTransaction(t) \/ Flush(t, 0)
    PROVE  MarkInv'
<1>0. /\ pc \in [Txns -> {"idle", "committed", "aborted", "cleaned"} \cup Open \cup Finishing]
      /\ pos \in [Txns -> Nat] /\ undo \in [Txns -> Seq(Entries)] /\ commit_id \in [Txns -> Nat]
  BY Zenon DEF RowTypes, PlainTypes
<1>00. /\ "flushed" \in Open /\ "flush_failed" \in Open /\ "running" \in Open /\ "failed" \in Open
  BY Zenon DEF Open
<1> DEFINE Rest == UNCHANGED <<vector_info, count, has_unserialized_changes, disk, transaction_id, undo>>
<1>1. ASSUME NEW to \in {"stamping", "reverting", "undoing"}, Commit(t, to)
      PROVE  MarkInv'
  <2>1. /\ Rest /\ pc[t] \in Open /\ pc' = [pc EXCEPT ![t] = to]
        /\ pos' = [pos EXCEPT ![t] = IF to = "undoing" THEN Len(undo[t]) ELSE 1]
        /\ commit_id' = [commit_id EXCEPT ![t] = IF to = "undoing" THEN 0 ELSE current_timestamp]
    BY <1>1, <1>00, Zenon DEF Commit
  <2>2. /\ \A u \in Txns \ {t} : pc'[u] = pc[u] /\ commit_id'[u] = commit_id[u] /\ pos'[u] = pos[u]
        /\ pc'[t] = to /\ pos'[t] = IF to = "undoing" THEN Len(undo[t]) ELSE 1
    BY <2>1, <1>0, Zenon
  <2> QED BY <2>1, <2>2, PhaseMarkCases, Zenon
<1>2. CASE CommitReadOnly(t)
  <2>1. /\ Rest /\ pc[t] \in Open /\ pc' = [pc EXCEPT ![t] = "committed"] /\ undo[t] = <<>>
        /\ pos' = [pos EXCEPT ![t] = 0]
        /\ commit_id' = [commit_id EXCEPT ![t] = current_timestamp]
    BY <1>2, <1>00, Zenon DEF CommitReadOnly, RemoveTransaction
  <2>2. /\ \A u \in Txns \ {t} : pc'[u] = pc[u] /\ commit_id'[u] = commit_id[u] /\ pos'[u] = pos[u]
        /\ pc'[t] = "committed"
    BY <2>1, <1>0, Zenon
  <2> QED BY <2>1, <2>2, PhaseMarkCases, Zenon
<1>3. CASE RemoveCommitted(t) \/ RemoveAborted(t)
  <2>1. /\ Rest
        /\ \/ pc[t] = "stamping" /\ pos[t] > Len(undo[t]) /\ pc' = [pc EXCEPT ![t] = "committed"]
           \/ pc[t] = "undoing" /\ pc' = [pc EXCEPT ![t] = "aborted"]
        /\ pos' = [pos EXCEPT ![t] = 0] /\ commit_id' = commit_id
    BY <1>3, Zenon DEF RemoveCommitted, RemoveAborted, RemoveTransaction, times
  <2>2. /\ \A u \in Txns \ {t} : pc'[u] = pc[u] /\ commit_id'[u] = commit_id[u] /\ pos'[u] = pos[u]
        /\ \/ pc[t] = "stamping" /\ pos[t] > Len(undo[t]) /\ pc'[t] = "committed"
           \/ pc[t] = "undoing" /\ pc'[t] = "aborted"
    BY <2>1, <1>0, Zenon
  <2> QED BY <2>1, <2>2, PhaseMarkCases, Zenon
<1>4. CASE CommitFails(t)
  <2>1. /\ Rest /\ pc[t] = "stamping" /\ pc' = [pc EXCEPT ![t] = "reverting"]
        /\ pos' = [pos EXCEPT ![t] = 1] /\ commit_id' = commit_id
    BY <1>4, Zenon DEF CommitFails, Goto, times
  <2>2. /\ \A u \in Txns \ {t} : pc'[u] = pc[u] /\ commit_id'[u] = commit_id[u] /\ pos'[u] = pos[u]
        /\ pc'[t] = "reverting"
    BY <2>1, <1>0, Zenon
  <2> QED BY <2>1, <2>2, PhaseMarkCases, Zenon
<1>5. CASE RollbackTransaction(t)
  <2>1. /\ Rest /\ pc[t] \in Open /\ pc' = [pc EXCEPT ![t] = "undoing"]
        /\ pos' = [pos EXCEPT ![t] = Len(undo[t])] /\ commit_id' = commit_id
    BY <1>5, <1>00, Zenon DEF RollbackTransaction, times
  <2>2. /\ \A u \in Txns \ {t} : pc'[u] = pc[u] /\ commit_id'[u] = commit_id[u] /\ pos'[u] = pos[u]
        /\ pc'[t] = "undoing" /\ pos'[t] = Len(undo[t])
    BY <2>1, <1>0, Zenon
  <2> QED BY <2>1, <2>2, PhaseMarkCases, Zenon
<1>6. CASE Flush(t, 0)
  <2>1. /\ UNCHANGED <<vector_info, count, has_unserialized_changes, disk, transaction_id>>
        /\ undo' = [undo EXCEPT ![t] = undo[t]] /\ pc[t] \in Open /\ pc' = [pc EXCEPT ![t] = "flushed"]
        /\ pos' = pos /\ commit_id' = commit_id
    BY <1>6, <1>00, Zenon DEF Flush, Goto, times
  <2>2. /\ \A u \in Txns \ {t} : pc'[u] = pc[u] /\ commit_id'[u] = commit_id[u] /\ pos'[u] = pos[u]
        /\ pc'[t] = "flushed" /\ undo' = undo
    BY <2>1, <1>0, Zenon
  <2> QED BY <2>1, <2>2, PhaseMarkCases, Zenon
<1> QED BY <1>1, <1>2, <1>3, <1>4, <1>5, <1>6, Zenon

\* A mark is a stamp.
LEMMA MarkType ==
    ASSUME NEW T, NEW info \in InfosOver(T), NOT_DELETED_ID \in T, NEW i \in Rows
    PROVE  Mark(info, i) \in T
<1>1. CASE info \in Nones
  BY <1>1, Zenon DEF Nones, Mark
<1>2. CASE info \in Constants(T)
  BY <1>2, Zenon DEF Constants, Mark
<1>3. CASE info \in ChunkVectors(T)
  BY <1>3, Zenon DEF ChunkVectors, Mark
<1> QED BY <1>1, <1>2, <1>3, Zenon DEF InfosOver

\* A transaction id is not a timestamp and not NOT_DELETED_ID.
LEMMA IdRange ==
    ASSUME PlainTypes, IdInv, Low, NEW u \in Txns, pc[u] # "idle"
    PROVE  /\ TRANSACTION_ID_START < transaction_id[u] /\ transaction_id[u] < NOT_DELETED_ID
           /\ transaction_id[u] \in Nat /\ TRANSACTION_ID_START \in Nat /\ NOT_DELETED_ID \in Nat
           /\ transaction_id[u] # NOT_DELETED_ID /\ ~(transaction_id[u] < TRANSACTION_ID_START)
           /\ transaction_id[u] # 0 /\ ~(NOT_DELETED_ID < TRANSACTION_ID_START)
<1>1. transaction_id[u] \in Nat /\ current_transaction_id \in Nat
      /\ TRANSACTION_ID_START \in Nat /\ NOT_DELETED_ID \in Nat
  BY RowVersionsAssumption, Zenon DEF PlainTypes
<1>2. TRANSACTION_ID_START < transaction_id[u] /\ transaction_id[u] < current_transaction_id
  BY Zenon DEF IdInv
<1>3. current_transaction_id < NOT_DELETED_ID
  BY Zenon DEF Low
<1> QED BY <1>1, <1>2, <1>3

\* MarkInv stays when no delete is new and the marks of open transactions stay.
LEMMA KeepMarks ==
    ASSUME MarkInv, SummaryInv',
           \A u \in Txns : \A k \in 1..Len(undo'[u]) : undo'[u][k].type = "delete" =>
              /\ k \in 1..Len(undo[u]) /\ undo'[u][k] = undo[u][k]
              /\ \A v \in Vectors, i \in Rows : Deletes(u, k, v, i)' =>
                   /\ Deletes(u, k, v, i)
                   /\ Placed(v, i) /\ Marked(u, k, v, i) => Placed(v, i)' /\ Marked(u, k, v, i)',
           \A u \in Txns : pc'[u] \in Open =>
              \A v \in Vectors, i \in Rows : Mark(vector_info'[v], i) = transaction_id'[u] =>
                 /\ pc[u] \in Open /\ Mark(vector_info[v], i) = transaction_id[u]
                 /\ \A k \in 1..Len(undo[u]) : Deletes(u, k, v, i) =>
                      k \in 1..Len(undo'[u]) /\ Deletes(u, k, v, i)'
    PROVE  MarkInv'
<1>1. EntryInv'
  <2> SUFFICES ASSUME NEW u \in Txns, NEW k \in 1..Len(undo'[u]), NEW v \in Vectors, NEW i \in Rows,
                      Deletes(u, k, v, i)'
               PROVE  Placed(v, i)' /\ Marked(u, k, v, i)'
    BY Zenon DEF EntryInv
  <2>1. undo'[u][k].type = "delete"
    BY Zenon DEF Deletes
  <2>2. k \in 1..Len(undo[u]) /\ Deletes(u, k, v, i)
    BY <2>1, Zenon
  <2>3. Placed(v, i) /\ Marked(u, k, v, i)
    BY <2>2, Zenon DEF MarkInv, EntryInv
  <2> QED BY <2>1, <2>3, Zenon
<1>2. OnceInv'
  BY OnceStays, Zenon DEF MarkInv
<1>3. OwnInv'
  <2> SUFFICES ASSUME NEW u \in Txns, NEW v \in Vectors, NEW i \in Rows, pc'[u] \in Open,
                      Mark(vector_info'[v], i) = transaction_id'[u]
               PROVE  \E k \in 1..Len(undo'[u]) : Deletes(u, k, v, i)'
    BY Zenon DEF OwnInv
  <2>1. PICK k \in 1..Len(undo[u]) : Deletes(u, k, v, i)
    BY Zenon DEF MarkInv, OwnInv
  <2> QED BY <2>1, Zenon
<1> QED BY <1>1, <1>2, <1>3, Zenon DEF MarkInv

\* A new transaction gets an id that is no mark.
LEMMA StartMarks ==
    ASSUME RowTypes, PhaseInv, MarkInv, Low, NEW t \in Txns, StartTransaction(t)
    PROVE  MarkInv'
<1>1. /\ pc[t] = "idle" /\ pc' = [pc EXCEPT ![t] = "running"]
      /\ transaction_id' = [transaction_id EXCEPT ![t] = current_transaction_id]
      /\ UNCHANGED <<vector_info, count, has_unserialized_changes, disk, commit_id, undo, pos>>
  BY Zenon DEF StartTransaction, Goto
<1>2. undo[t] = <<>>
  BY <1>1, Zenon DEF PhaseInv, PositionInv
<1>3. \A u \in Txns \ {t} : pc'[u] = pc[u] /\ transaction_id'[u] = transaction_id[u]
  BY <1>1, Zenon DEF RowTypes, PlainTypes
<1>4. pc'[t] = "running" /\ transaction_id'[t] = current_transaction_id
  BY <1>1, Zenon DEF RowTypes, PlainTypes
<1>5. \A u \in Txns, n \in 0..MAX_ROWS : AppendsFrom(u, n)' => AppendsFrom(u, n)
  <2>1. 1..Len(undo[t]) = {}
    BY <1>2
  <2> QED BY <2>1, <1>1, <1>3, Zenon DEF AppendsFrom
<1>6. SummaryInv'
  BY <1>1, Zenon DEF disk, MarkInv, SummaryInv, Summarised
<1>7. ASSUME NEW u \in Txns, NEW k \in 1..Len(undo'[u]), undo'[u][k].type = "delete"
      PROVE  /\ k \in 1..Len(undo[u]) /\ undo'[u][k] = undo[u][k]
             /\ \A v \in Vectors, i \in Rows : Deletes(u, k, v, i)' =>
                   /\ Deletes(u, k, v, i)
                   /\ Placed(v, i) /\ Marked(u, k, v, i) => Placed(v, i)' /\ Marked(u, k, v, i)'
  <2>1. k \in 1..Len(undo[u]) /\ undo'[u][k] = undo[u][k]
    BY <1>1, Zenon
  <2>2. u # t
    BY <2>1, <1>2
  <2>3. pc'[u] = pc[u] /\ transaction_id'[u] = transaction_id[u] /\ commit_id'[u] = commit_id[u]
        /\ pos'[u] = pos[u] /\ storage' = storage
    BY <2>2, <1>1, <1>3, Zenon DEF disk
  <2>4. ASSUME NEW v \in Vectors, NEW i \in Rows, Deletes(u, k, v, i)'
        PROVE  Deletes(u, k, v, i)
    BY <2>1, <2>3, <2>4, Zenon DEF Deletes, DeletedRows
  <2>5. ASSUME NEW v \in Vectors, NEW i \in Rows, Placed(v, i), Marked(u, k, v, i)
        PROVE  Placed(v, i)' /\ Marked(u, k, v, i)'
    <3>1. Placed(v, i)'
      BY <2>5, <1>1, <1>5, Zenon DEF Placed
    <3>2. Mark(vector_info'[v], i) = Mark(vector_info[v], i)
      BY <1>1, Zenon
    <3> QED BY <2>3, <2>5, <3>1, <3>2, <1>1, MarkedStays, Zenon
  <2> QED BY <2>1, <2>4, <2>5, Zenon
<1>8. ASSUME NEW u \in Txns, pc'[u] \in Open, NEW v \in Vectors, NEW i \in Rows,
             Mark(vector_info'[v], i) = transaction_id'[u]
      PROVE  /\ pc[u] \in Open /\ Mark(vector_info[v], i) = transaction_id[u]
             /\ \A k \in 1..Len(undo[u]) : Deletes(u, k, v, i) =>
                      k \in 1..Len(undo'[u]) /\ Deletes(u, k, v, i)'
  <2>1. u # t
    <3>1. Mark(vector_info[v], i) \in Stamps
      BY InfoTyped, StampsHave, MarkType, Zenon DEF RowTypes, PhaseInv
    <3>2. current_transaction_id \notin Stamps
      <4>1. /\ current_timestamp \in Nat /\ current_transaction_id \in Nat
            /\ TRANSACTION_ID_START \in Nat /\ NOT_DELETED_ID \in Nat
            /\ TRANSACTION_ID_START < current_transaction_id
            /\ current_timestamp < TRANSACTION_ID_START /\ current_transaction_id < NOT_DELETED_ID
        BY RowVersionsAssumption, Zenon DEF RowTypes, PlainTypes, PhaseInv, IdInv, Low
      <4> QED BY <4>1 DEF Stamps
    <3> QED BY <3>1, <3>2, <1>1, <1>4, <1>8, Zenon
  <2>2. pc[u] \in Open /\ Mark(vector_info[v], i) = transaction_id[u]
    BY <2>1, <1>1, <1>3, <1>8, Zenon
  <2> QED BY <2>1, <2>2, <1>1, <1>3, Zenon DEF Deletes, DeletedRows
<1> QED BY <1>6, <1>7, <1>8, KeepMarks, Zenon

\* What happens to the vectors keeps all marks on rows of the table, and no mark
\* of an open transaction comes up; entries, ids and what is stored stay, t may have
\* one more append, and its position in the undo buffer passes no delete.
LEMMA VectorMarks ==
    ASSUME RowTypes, PhaseInv, MarkInv, Low, NEW t \in Txns, pc[t] # "idle",
           \A v \in Vectors : Summarised(vector_info'[v]),
           UNCHANGED <<disk, transaction_id>>,
           has_unserialized_changes => has_unserialized_changes',
           \A u \in Txns \ {t} : /\ pc'[u] = pc[u] /\ commit_id'[u] = commit_id[u] /\ pos'[u] = pos[u]
                                 /\ undo'[u] = undo[u],
           \/ undo'[t] = undo[t]
           \/ \E e : e.type = "append" /\ undo'[t] = Append(undo[t], e),
           \A v \in Vectors, i \in Rows : Mark(vector_info'[v], i) \in {Mark(vector_info[v], i), NOT_DELETED_ID},
           \A v \in Vectors, i \in Rows : Placed(v, i) =>
              Placed(v, i)' /\ Mark(vector_info'[v], i) = Mark(vector_info[v], i),
           \/ pc[t] \in Open /\ pc'[t] \in Open
           \/ pc[t] = "stamping" /\ pc'[t] = "stamping" /\ pos'[t] = pos[t] + 1 /\ commit_id'[t] = commit_id[t]
              /\ undo[t][pos[t]].type = "append"
           \/ pc[t] = "reverting" /\ pc'[t] \in {"reverting", "undoing"}
           \/ pc[t] = "undoing" /\ pc'[t] = "undoing" /\ pos'[t] = pos[t] - 1
           \/ pc[t] = "committed" /\ pc'[t] = "cleaned"
    PROVE  MarkInv'
<1>1. storage' = storage
  BY Zenon DEF disk
<1>2. SummaryInv'
  BY <1>1, Zenon DEF MarkInv, SummaryInv, Summarised
<1>3. undo \in [Txns -> Seq(Entries)] /\ pos \in [Txns -> Nat] /\ Len(undo[t]) \in Nat /\ pos[t] \in Nat
  <2>1. undo \in [Txns -> Seq(Entries)] /\ pos \in [Txns -> Nat]
    BY Zenon DEF RowTypes, PlainTypes
  <2>2. undo[t] \in Seq(Entries) /\ pos[t] \in Nat
    BY <2>1, Zenon
  <2> QED BY <2>1, <2>2
<1>4. /\ \A k \in 1..Len(undo[t]) : k \in 1..Len(undo'[t]) /\ undo'[t][k] = undo[t][k]
      /\ \A k \in 1..Len(undo'[t]) : undo'[t][k].type = "delete" => k \in 1..Len(undo[t])
  <2>1. CASE undo'[t] = undo[t]
    BY <2>1, Zenon
  <2>2. ASSUME NEW e, e.type = "append", undo'[t] = Append(undo[t], e)
        PROVE  /\ \A k \in 1..Len(undo[t]) : k \in 1..Len(undo'[t]) /\ undo'[t][k] = undo[t][k]
               /\ \A k \in 1..Len(undo'[t]) : undo'[t][k].type = "delete" => k \in 1..Len(undo[t])
    <3>1. undo[t] \in Seq(Entries)
      BY <1>3, Zenon
    <3> QED BY <2>2, <3>1
  <2> QED BY <2>1, <2>2, Zenon
<1>5. /\ pc[t] # "aborted"
      /\ pc[t] = "undoing" => pc'[t] = "undoing" /\ pos'[t] = pos[t] - 1
      /\ pc'[t] \in Open => pc[t] \in Open
  BY Zenon DEF Open
<1>6. ASSUME NEW k \in 1..Len(undo[t]), NEW v \in Vectors, NEW i \in Rows, Deletes(t, k, v, i)'
      PROVE  Deletes(t, k, v, i)
  <2>1. undo'[t][k] = undo[t][k]
    BY <1>4, Zenon
  <2>2. pc[t] = "undoing" => k <= pos[t]
    <3>1. pc[t] = "undoing" => pc'[t] = "undoing" /\ k <= pos'[t]
      BY <1>5, <1>6, Zenon DEF Deletes
    <3> QED BY <3>1, <1>3, <1>5
  <2> QED BY <2>1, <2>2, <1>5, <1>6, Zenon DEF Deletes, DeletedRows
<1>7. ASSUME NEW k \in 1..Len(undo[t]), undo[t][k].type = "delete", NEW v \in Vectors, NEW i \in Rows,
             Mark(vector_info'[v], i) = Mark(vector_info[v], i), Marked(t, k, v, i)
      PROVE  Marked(t, k, v, i)'
  <2> DEFINE mark == Mark(vector_info[v], i)
  <2>1. /\ pc[t] \in Open => mark = transaction_id[t]
        /\ pc[t] = "stamping" => mark = IF k < pos[t] THEN commit_id[t] ELSE transaction_id[t]
        /\ pc[t] \in {"reverting", "undoing"} =>
             mark = transaction_id[t] \/ (0 < mark /\ mark < TRANSACTION_ID_START)
        /\ pc[t] \notin {"committed", "cleaned"} => has_unserialized_changes
        /\ pc[t] \in {"committed", "cleaned"} =>
             /\ mark < TRANSACTION_ID_START
             /\ has_unserialized_changes \/ Mark(storage[v], i) < TRANSACTION_ID_START
    BY <1>7, Zenon DEF Marked
  <2>2. Mark(vector_info[v], i)' = mark /\ Mark(storage[v], i)' = Mark(storage[v], i)
    BY <1>1, <1>7, Zenon
  <2> HIDE DEF mark
  <2>3. pc'[t] \in Open => mark = transaction_id[t]
    BY <2>1, <1>5, Zenon
  <2>4. pc'[t] = "stamping" => mark = IF k < pos'[t] THEN commit_id'[t] ELSE transaction_id[t]
    <3> SUFFICES ASSUME pc'[t] = "stamping"
                 PROVE  mark = IF k < pos'[t] THEN commit_id'[t] ELSE transaction_id[t]
      BY Zenon
    <3>1. pc[t] = "stamping" /\ pos'[t] = pos[t] + 1 /\ commit_id'[t] = commit_id[t]
          /\ undo[t][pos[t]].type = "append"
      BY Zenon DEF Open
    <3>2. k # pos[t]
      BY <3>1, <1>7, Zenon
    <3> QED BY <3>1, <3>2, <2>1, <1>3
  <2>5. pc'[t] \in {"reverting", "undoing"} =>
             mark = transaction_id[t] \/ (0 < mark /\ mark < TRANSACTION_ID_START)
    BY <2>1, Zenon DEF Open
  <2>6. pc'[t] \notin {"committed", "cleaned"} => has_unserialized_changes'
    BY <2>1, Zenon DEF Open
  <2>7. pc'[t] \in {"committed", "cleaned"} =>
             /\ mark < TRANSACTION_ID_START
             /\ has_unserialized_changes' \/ Mark(storage[v], i) < TRANSACTION_ID_START
    BY <2>1, Zenon DEF Open
  <2> QED BY <2>2, <2>3, <2>4, <2>5, <2>6, <2>7, Zenon DEF Marked
<1>8. ASSUME NEW u \in Txns, NEW k \in 1..Len(undo'[u]), undo'[u][k].type = "delete"
      PROVE  /\ k \in 1..Len(undo[u]) /\ undo'[u][k] = undo[u][k]
             /\ \A v \in Vectors, i \in Rows : Deletes(u, k, v, i)' =>
                   /\ Deletes(u, k, v, i)
                   /\ Placed(v, i) /\ Marked(u, k, v, i) => Placed(v, i)' /\ Marked(u, k, v, i)'
  <2>1. CASE u = t
    <3>1. k \in 1..Len(undo[t]) /\ undo'[t][k] = undo[t][k] /\ undo[t][k].type = "delete"
      BY <2>1, <1>4, <1>8, Zenon
    <3>2. ASSUME NEW v \in Vectors, NEW i \in Rows, Deletes(t, k, v, i)', Placed(v, i), Marked(t, k, v, i)
          PROVE  Placed(v, i)' /\ Marked(t, k, v, i)'
      BY <3>1, <3>2, <1>7, Zenon
    <3> QED BY <2>1, <3>1, <3>2, <1>6, Zenon
  <2>2. CASE u # t
    <3>1. k \in 1..Len(undo[u]) /\ undo'[u][k] = undo[u][k] /\ undo'[u] = undo[u]
      BY <2>2, Zenon
    <3>2. ASSUME NEW v \in Vectors, NEW i \in Rows, Deletes(u, k, v, i)'
          PROVE  Deletes(u, k, v, i)
      BY <2>2, <3>1, <3>2, Zenon DEF Deletes, DeletedRows
    <3>3. ASSUME NEW v \in Vectors, NEW i \in Rows, Placed(v, i), Marked(u, k, v, i)
          PROVE  Placed(v, i)' /\ Marked(u, k, v, i)'
      <4>1. Placed(v, i)' /\ Mark(vector_info'[v], i) = Mark(vector_info[v], i)
        BY <3>3, Zenon
      <4>2. transaction_id'[u] = transaction_id[u]
        BY Zenon
      <4> QED BY <2>2, <3>3, <4>1, <4>2, <1>1, MarkedStays, Zenon
    <3> QED BY <3>1, <3>2, <3>3, Zenon
  <2> QED BY <2>1, <2>2, Zenon
<1>9. ASSUME NEW u \in Txns, pc'[u] \in Open, NEW v \in Vectors, NEW i \in Rows,
             Mark(vector_info'[v], i) = transaction_id'[u]
      PROVE  /\ pc[u] \in Open /\ Mark(vector_info[v], i) = transaction_id[u]
             /\ \A k \in 1..Len(undo[u]) : Deletes(u, k, v, i) =>
                      k \in 1..Len(undo'[u]) /\ Deletes(u, k, v, i)'
  <2>1. pc[u] \in Open
    BY <1>5, <1>9, Zenon
  <2>2. transaction_id[u] # NOT_DELETED_ID
    <3>1. pc[u] # "idle"
      BY <2>1, Zenon DEF Open
    <3> QED BY <3>1, IdRange, Zenon DEF RowTypes, PhaseInv
  <2>3. Mark(vector_info[v], i) = transaction_id[u]
    BY <2>2, <1>9, Zenon
  <2>4. ASSUME NEW k \in 1..Len(undo[u]), Deletes(u, k, v, i)
        PROVE  k \in 1..Len(undo'[u]) /\ Deletes(u, k, v, i)'
    <3>1. k \in 1..Len(undo'[u]) /\ undo'[u][k] = undo[u][k]
      BY <1>4, Zenon
    <3>2. pc'[u] # "aborted" /\ pc'[u] # "undoing"
      BY <1>9, Zenon DEF Open
    <3> QED BY <2>4, <3>1, <3>2, Zenon DEF Deletes, DeletedRows
  <2> QED BY <2>1, <2>3, <2>4, Zenon
<1> QED BY <1>2, <1>8, <1>9, KeepMarks, Zenon

\* The only append that can begin is that of the transaction that flushes.
LEMMA NewAppend ==
    ASSUME PlainTypes, OwnerInv, NEW t \in Txns, pc[t] = "running", committer = Nobody,
           NEW e, e.start = count, undo' = [undo EXCEPT ![t] = Append(undo[t], e)],
           \A u \in Txns \ {t} : pc'[u] = pc[u], NEW u \in Txns, NEW m, AppendsFrom(u, m)'
    PROVE  u = t /\ m = count
<1>1. Nobody \notin Txns /\ undo \in [Txns -> Seq(Entries)]
  BY RowVersionsAssumption, Zenon DEF PlainTypes
<1>2. /\ undo'[t] = Append(undo[t], e) /\ undo[t] \in Seq(Entries)
      /\ \A k \in 1..Len(undo[t]) : undo[t][k].type # "append"
      /\ \A w \in Txns \ {t} : undo'[w] = undo[w]
  BY <1>1, Zenon DEF OwnerInv
<1>3. \A k \in 1..Len(undo'[t]) : undo'[t][k].type = "append" => undo'[t][k].start = count
  BY <1>2
<1>4. CASE u = t
  BY <1>3, <1>4, Zenon DEF AppendsFrom
<1>5. CASE u # t
  <2>1. AppendsFrom(u, m)
    BY <1>2, <1>5, AppendsStay, Zenon
  <2> QED BY <2>1, <1>1, OneAppend, Zenon
<1> QED BY <1>4, <1>5, Zenon

\* The marks of a ChunkVectorInfo.
LEMMA VectorMark ==
    ASSUME NEW T, NEW info \in ChunkVectors(T), NEW i
    PROVE  info.type = "vector" /\ Mark(info, i) = info.deleted[i]
  BY Zenon DEF ChunkVectors, Mark

\* Flushing new rows to the end of the row group keeps MarkInv.
LEMMA FlushMarks ==
    ASSUME RowTypes, PhaseInv, AppendInv, MarkInv, Low, NEW t \in Txns, NEW n \in 0..MAX_ROWS, n > 0,
           Flush(t, n)
    PROVE  MarkInv'
<1> DEFINE e == [type |-> "append", start |-> count, count |-> n]
<1>1. /\ pc[t] = "running" /\ pc' = [pc EXCEPT ![t] = "flushed"] /\ committer = Nobody
      /\ count + n <= MAX_ROWS /\ ~requires_new_row_group
      /\ undo' = [undo EXCEPT ![t] = Append(undo[t], e)]
      /\ vector_info' = AppendVersionInfo(count, count + n, transaction_id[t])
      /\ count' = count + n /\ has_unserialized_changes' = TRUE
      /\ UNCHANGED <<disk, times, commit_id, pos>>
  <2>1. n # 0
    OBVIOUS
  <2> QED BY <2>1, Zenon DEF Flush, Goto
<1>2. n \in Nat /\ count \in Nat
  BY RowVersionsAssumption DEF RowTypes, PlainTypes
<1>3. /\ pc'[t] = "flushed" /\ undo'[t] = Append(undo[t], e) /\ e.type = "append" /\ e.start = count
      /\ \A u \in Txns \ {t} : pc'[u] = pc[u] /\ undo'[u] = undo[u]
  <2>1. pc'[t] = "flushed" /\ \A u \in Txns \ {t} : pc'[u] = pc[u]
    BY <1>1, Zenon DEF RowTypes, PlainTypes
  <2>2. undo'[t] = Append(undo[t], e) /\ \A u \in Txns \ {t} : undo'[u] = undo[u]
    BY <1>1, Zenon DEF RowTypes, PlainTypes
  <2>3. e.type = "append" /\ e.start = count
    BY Zenon
  <2> QED BY <2>1, <2>2, <2>3, Zenon
<1>4. \A v \in Vectors : \/ vector_info'[v] = vector_info[v]
                         \/ count <= Row(v, 0) /\ vector_info'[v] = ConstantInfo(transaction_id[t], NOT_DELETED_ID)
                         \/ \E info \in ChunkVectors(Stamps), a, b \in Nat :
                              /\ info = vector_info[v] \/ (info = VectorInfo(0) /\ vector_info[v].type = "none")
                              /\ vector_info'[v] = Append1(info, a, b, transaction_id[t])
  <2>1. pc[t] # "idle"
    BY <1>1, Zenon
  <2> QED BY <2>1, <1>1, <1>2, FlushVectors, Zenon
<1> HIDE DEF e
<1>5. ASSUME NEW u \in Txns, NEW m \in 0..MAX_ROWS, AppendsFrom(u, m)' PROVE m = count
  BY <1>1, <1>3, <1>5, NewAppend, Zenon DEF RowTypes, PhaseInv
<1>6. ASSUME NEW v \in Vectors
      PROVE  /\ Summarised(vector_info'[v])
             /\ \A i \in Rows : Mark(vector_info'[v], i) \in {Mark(vector_info[v], i), NOT_DELETED_ID}
             /\ \A i \in Rows : Placed(v, i) => Mark(vector_info'[v], i) = Mark(vector_info[v], i)
  <2>0. Summarised(vector_info[v])
    BY Zenon DEF MarkInv, SummaryInv
  <2>1. CASE vector_info'[v] = vector_info[v]
    BY <2>0, <2>1, Zenon
  <2>2. CASE count <= Row(v, 0) /\ vector_info'[v] = ConstantInfo(transaction_id[t], NOT_DELETED_ID)
    <3>1. /\ Summarised(ConstantInfo(transaction_id[t], NOT_DELETED_ID))
          /\ \A i \in Rows : Mark(ConstantInfo(transaction_id[t], NOT_DELETED_ID), i) = NOT_DELETED_ID
      BY Zenon DEF ConstantInfo, Summarised, Mark
    <3>2. ASSUME NEW i \in Rows, Placed(v, i) PROVE FALSE
      <4>1. v \in Nat
        BY Numbers, Zenon
      <4>2. Row(v, 0) \in Nat /\ Row(v, i) \in Nat /\ Row(v, 0) <= Row(v, i)
        BY <4>1, RowInNat, Zenon
      <4>3. Row(v, i) < count
        BY <3>2, Zenon DEF Placed
      <4> QED BY <2>2, <4>2, <4>3, <1>2
    <3> QED BY <2>2, <3>1, <3>2, Zenon
  <2>3. ASSUME NEW info \in ChunkVectors(Stamps), NEW a \in Nat, NEW b \in Nat,
               info = vector_info[v] \/ (info = VectorInfo(0) /\ vector_info[v].type = "none"),
               vector_info'[v] = Append1(info, a, b, transaction_id[t])
        PROVE  /\ Summarised(vector_info'[v])
               /\ \A i \in Rows : Mark(vector_info'[v], i) = Mark(vector_info[v], i)
    <3>1. transaction_id[t] \in Stamps /\ NOT_DELETED_ID \in Stamps
      <4>1. pc[t] # "idle"
        BY <1>1, Zenon
      <4> QED BY <4>1, StampsHave, Zenon DEF RowTypes, PhaseInv
    <3> DEFINE x == Append1(info, a, b, transaction_id[t])
    <3>0. x \in ChunkVectors(Stamps) /\ KeepsDeletes(x, info)
      BY <3>1, Append1Type, Zenon
    <3> HIDE DEF x
    <3>2. x \in ChunkVectors(Stamps) /\ x.deleted = info.deleted /\ x.any_deleted = info.any_deleted
      BY <3>0, VectorMark, Zenon DEF KeepsDeletes
    <3>3. x.type = "vector" /\ \A i \in Rows : Mark(x, i) = info.deleted[i] /\ Mark(info, i) = info.deleted[i]
      BY <3>2, VectorMark, Zenon
    <3>4. info.type = "vector"
      BY VectorMark, Zenon
    <3>5. Summarised(info) /\ \A i \in Rows : Mark(info, i) = Mark(vector_info[v], i)
      <4>1. CASE info = vector_info[v]
        BY <4>1, <2>0, Zenon
      <4>2. CASE info = VectorInfo(0) /\ vector_info[v].type = "none"
        BY <4>2, Zenon DEF VectorInfo, Summarised, Mark
      <4> QED BY <4>1, <4>2, <2>3, Zenon
    <3>6. Summarised(x)
      BY <3>2, <3>3, <3>4, <3>5, Zenon DEF Summarised
    <3>7. vector_info'[v] = x
      BY <2>3, Zenon DEF x
    <3> QED BY <3>3, <3>5, <3>6, <3>7, Zenon
  <2> QED BY <2>1, <2>2, <2>3, <1>4, Zenon
<1>7. ASSUME NEW v \in Vectors, NEW i \in Rows, Placed(v, i) PROVE Placed(v, i)'
  <2>1. Row(v, i) < count
    BY <1>7, Zenon DEF Placed
  <2>2. Row(v, i) < count'
    <3>1. Row(v, i) \in Nat
      <4>1. v \in Nat
        BY Numbers, Zenon
      <4> QED BY <4>1, RowInNat, Zenon
    <3> QED BY <2>1, <3>1, <1>1, <1>2
  <2> QED BY <2>1, <2>2, <1>5, Zenon DEF Placed
<1>8. pc[t] # "idle" /\ pc[t] \in Open /\ pc'[t] \in Open
  BY <1>1, <1>3, Zenon DEF Open
<1>9. /\ \A u \in Txns \ {t} : pc'[u] = pc[u] /\ commit_id'[u] = commit_id[u] /\ pos'[u] = pos[u] /\ undo'[u] = undo[u]
      /\ UNCHANGED <<disk, transaction_id>>
      /\ \E d : d.type = "append" /\ undo'[t] = Append(undo[t], d)
  BY <1>1, <1>3, Zenon DEF times
<1> QED BY <1>1, <1>6, <1>7, <1>8, <1>9, VectorMarks, Zenon

\* What reverting an append from row n does to marks.
LEMMA RevertMarks ==
    ASSUME RowTypes, PhaseInv, MarkInv, Low, NEW t \in Txns, pc[t] # "idle",
           NEW e, e.start \in Nat, e.start <= count, RevertAppend(e),
           UNCHANGED <<disk, transaction_id>>,
           \A u \in Txns \ {t} : /\ pc'[u] = pc[u] /\ commit_id'[u] = commit_id[u] /\ pos'[u] = pos[u]
                                 /\ undo'[u] = undo[u],
           \/ undo'[t] = undo[t]
           \/ \E d : d.type = "append" /\ undo'[t] = Append(undo[t], d),
           \A v \in Vectors, i \in Rows : Placed(v, i) => Row(v, i) < e.start,
           \A u \in Txns, m \in 0..MAX_ROWS : AppendsFrom(u, m)' => m = e.start,
           \/ pc[t] \in Open /\ pc'[t] \in Open
           \/ pc[t] = "reverting" /\ pc'[t] \in {"reverting", "undoing"}
           \/ pc[t] = "undoing" /\ pc'[t] = "undoing" /\ pos'[t] = pos[t] - 1
    PROVE  MarkInv'
<1>1. /\ count' = e.start /\ UNCHANGED <<size, has_unserialized_changes>>
      /\ \A v \in Vectors : vector_info'[v] = IF e.start <= Row(v, 0) THEN NoInfo ELSE vector_info[v]
  BY RevertVectors, Zenon
<1>2. ASSUME NEW v \in Vectors
      PROVE  /\ Summarised(vector_info'[v])
             /\ \A i \in Rows : Mark(vector_info'[v], i) \in {Mark(vector_info[v], i), NOT_DELETED_ID}
             /\ \A i \in Rows : Placed(v, i) => Mark(vector_info'[v], i) = Mark(vector_info[v], i)
  <2>0. Summarised(vector_info[v])
    BY Zenon DEF MarkInv, SummaryInv
  <2>1. CASE vector_info'[v] = vector_info[v]
    BY <2>0, <2>1, Zenon
  <2>2. CASE vector_info'[v] = NoInfo /\ e.start <= Row(v, 0)
    <3>1. ASSUME NEW i \in Rows, Placed(v, i) PROVE FALSE
      <4>1. v \in Nat
        BY Numbers, Zenon
      <4>2. Row(v, 0) \in Nat /\ Row(v, i) \in Nat /\ Row(v, 0) <= Row(v, i)
        BY <4>1, RowInNat, Zenon
      <4>3. Row(v, i) < e.start
        BY <3>1, Zenon
      <4> QED BY <2>2, <4>2, <4>3, Between, Zenon
    <3> QED BY <2>2, <3>1, NoneMark, Zenon
  <2> QED BY <2>1, <2>2, <1>1, Zenon
<1>3. ASSUME NEW v \in Vectors, NEW i \in Rows, Placed(v, i) PROVE Placed(v, i)'
  BY <1>1, <1>3, Zenon DEF Placed
<1> QED BY <1>1, <1>2, <1>3, VectorMarks, Zenon

\* A flush that fails keeps MarkInv.
LEMMA FlushFailsMarks ==
    ASSUME RowTypes, PhaseInv, MarkInv, Low, NEW t \in Txns, NEW n \in 0..MAX_ROWS, FlushFails(t, n)
    PROVE  MarkInv'
<1> DEFINE e == [type |-> "append", start |-> count, count |-> n]
<1>1. /\ pc[t] = "running" /\ pc' = [pc EXCEPT ![t] = "flush_failed"] /\ committer = Nobody
      /\ undo' = [undo EXCEPT ![t] = Append(undo[t], e)]
      /\ RevertAppend(e)
      /\ UNCHANGED <<disk, times, commit_id, pos>>
  BY Zenon DEF FlushFails, Goto
<1>2. count \in Nat /\ count <= count
  BY RowVersionsAssumption DEF RowTypes, PlainTypes
<1>3. e.type = "append" /\ e.start = count
  BY Zenon
<1> HIDE DEF e
<1>4. /\ pc'[t] = "flush_failed" /\ undo'[t] = Append(undo[t], e)
      /\ \A u \in Txns \ {t} : /\ pc'[u] = pc[u] /\ commit_id'[u] = commit_id[u] /\ pos'[u] = pos[u]
                               /\ undo'[u] = undo[u]
      /\ UNCHANGED <<disk, transaction_id>>
  BY <1>1, Zenon DEF RowTypes, PlainTypes, times
<1>5. ASSUME NEW u \in Txns, NEW m \in 0..MAX_ROWS, AppendsFrom(u, m)' PROVE m = e.start
  BY <1>1, <1>3, <1>4, <1>5, NewAppend, Zenon DEF RowTypes, PhaseInv
<1>6. pc[t] # "idle" /\ pc[t] \in Open /\ pc'[t] \in Open
  BY <1>1, <1>4, Zenon DEF Open
<1>7. \A v \in Vectors, i \in Rows : Placed(v, i) => Row(v, i) < e.start
  BY <1>3, Zenon DEF Placed
<1>8. \E d : d.type = "append" /\ undo'[t] = Append(undo[t], d)
  BY <1>3, <1>4, Zenon
<1>9. PICK x : x = e
  BY Zenon
<1> QED BY <1>1, <1>2, <1>3, <1>4, <1>5, <1>6, <1>7, <1>8, <1>9, RevertMarks, Zenon

\* Reverting an append, which drops rows that nobody deleted, keeps MarkInv.
LEMMA UndoAppendMarks ==
    ASSUME RowTypes, PhaseInv, AppendInv, MarkInv, Low, NEW t \in Txns, NEW k \in 1..Len(undo[t]),
           undo[t][k].type = "append", RevertAppend(undo[t][k]),
           UNCHANGED <<disk, times, undo>>,
           \A u \in Txns \ {t} : pc'[u] = pc[u] /\ commit_id'[u] = commit_id[u] /\ pos'[u] = pos[u],
           \/ pc[t] = "reverting" /\ pc'[t] \in {"reverting", "undoing"}
           \/ pc[t] = "undoing" /\ pc'[t] = "undoing" /\ pos'[t] = pos[t] - 1
    PROVE  MarkInv'
<1>1. pc[t] \in Appending /\ pc[t] # "idle" /\ pc'[t] \in Appending
  BY Zenon DEF Appending, Finishing
<1>2. undo[t][k].start \in 0..MAX_ROWS /\ AppendsFrom(t, undo[t][k].start)
  BY <1>1, AppendsOf, Zenon DEF RowTypes
<1>3. PICK e : e = undo[t][k]
  BY Zenon
<1>4. e.start \in 0..MAX_ROWS /\ AppendsFrom(t, e.start) /\ RevertAppend(e)
  BY <1>2, <1>3, Zenon
<1>5. e.start \in Nat /\ e.start <= count
  BY <1>4, Numbers, Zenon DEF AppendInv, FreshInv, Fresh
<1>6. ASSUME NEW u \in Txns, NEW m \in 0..MAX_ROWS, AppendsFrom(u, m)' PROVE m = e.start
  <2>1. AppendsFrom(u, m)
    <3>1. undo'[u] = undo[u] /\ pc'[u] \in Appending => pc[u] \in Appending
      BY <1>1, Zenon
    <3> QED BY <3>1, <1>6, <1>1, AppendsStay, Zenon
  <2>2. committer = u /\ committer = t
    BY <2>1, <1>4, OneAppend, Zenon DEF PhaseInv
  <2> QED BY <2>1, <2>2, <1>3, OneAppend DEF PhaseInv
<1>7. \A v \in Vectors, i \in Rows : Placed(v, i) => Row(v, i) < e.start
  BY <1>4, Zenon DEF Placed
<1>8. /\ \A u \in Txns \ {t} : /\ pc'[u] = pc[u] /\ commit_id'[u] = commit_id[u] /\ pos'[u] = pos[u]
                               /\ undo'[u] = undo[u]
      /\ UNCHANGED <<disk, transaction_id>> /\ undo'[t] = undo[t]
  BY Zenon DEF times
<1> QED BY <1>1, <1>4, <1>5, <1>6, <1>7, <1>8, RevertMarks, Zenon

\* Committing an append keeps MarkInv.
LEMMA CommitAppendMarks ==
    ASSUME RowTypes, PhaseInv, AppendInv, MarkInv, Low, NEW t \in Txns, CommitEntry(t),
           undo[t][pos[t]].type = "append"
    PROVE  MarkInv'
<1>1. /\ pc[t] = "stamping" /\ pos[t] <= Len(undo[t])
      /\ vector_info' = Stamped(undo[t][pos[t]], commit_id[t])
      /\ has_unserialized_changes' = (has_unserialized_changes \/ undo[t][pos[t]].type = "delete")
      /\ pos' = [pos EXCEPT ![t] = pos[t] + 1]
      /\ UNCHANGED <<count, disk, times, undo, pc, commit_id>>
  BY Zenon DEF CommitEntry
<1>2. pos[t] \in 1..Len(undo[t])
  BY EntryPosition, Zenon
<1>3. \A v \in Vectors :
         \/ vector_info'[v] = vector_info[v]
         \/ /\ vector_info[v] \in Constants(Stamps) \cup ChunkVectors(Stamps)
            /\ \E a, b \in Nat : vector_info'[v] = CommitAppend1(vector_info[v], a, b, commit_id[t])
  BY <1>1, <1>2, StampAppend, Zenon
<1>4. ASSUME NEW v \in Vectors
      PROVE  /\ Summarised(vector_info'[v])
             /\ \A i \in Rows : Mark(vector_info'[v], i) = Mark(vector_info[v], i)
  <2>0. Summarised(vector_info[v]) /\ commit_id[t] \in Stamps
    BY StampsHave, Zenon DEF MarkInv, SummaryInv, RowTypes, PhaseInv
  <2>1. CASE vector_info'[v] = vector_info[v]
    BY <2>0, <2>1, Zenon
  <2>2. ASSUME NEW a \in Nat, NEW b \in Nat, vector_info[v] \in Constants(Stamps) \cup ChunkVectors(Stamps),
               vector_info'[v] = CommitAppend1(vector_info[v], a, b, commit_id[t])
        PROVE  /\ Summarised(vector_info'[v])
               /\ \A i \in Rows : Mark(vector_info'[v], i) = Mark(vector_info[v], i)
    <3> DEFINE x == CommitAppend1(vector_info[v], a, b, commit_id[t])
    <3>1. KeepsDeletes(x, vector_info[v])
      BY <2>0, <2>2, CommitAppend1Type, Zenon
    <3> HIDE DEF x
    <3>2. Summarised(x)
      BY <3>1, <2>0, Zenon DEF Summarised, KeepsDeletes
    <3>3. vector_info'[v] = x
      BY <2>2, Zenon DEF x
    <3> QED BY <3>1, <3>2, <3>3, Zenon DEF KeepsDeletes
  <2> QED BY <2>1, <2>2, <1>3, Zenon
<1>5. ASSUME NEW v \in Vectors, NEW i \in Rows, Placed(v, i) PROVE Placed(v, i)'
  <2>1. \A u \in Txns, m \in 0..MAX_ROWS : AppendsFrom(u, m)' => AppendsFrom(u, m)
    BY <1>1, Zenon DEF AppendsFrom
  <2> QED BY <2>1, <1>1, <1>5, Zenon DEF Placed
<1>6. /\ \A u \in Txns \ {t} : /\ pc'[u] = pc[u] /\ commit_id'[u] = commit_id[u] /\ pos'[u] = pos[u]
                               /\ undo'[u] = undo[u]
      /\ UNCHANGED <<disk, transaction_id>> /\ undo'[t] = undo[t]
      /\ pc[t] # "idle" /\ (has_unserialized_changes => has_unserialized_changes')
      /\ pc'[t] = "stamping" /\ pos'[t] = pos[t] + 1 /\ commit_id'[t] = commit_id[t]
  <2>1. pos \in [Txns -> Nat]
    BY Zenon DEF RowTypes, PlainTypes
  <2> QED BY <1>1, <2>1, Zenon DEF times
<1> QED BY <1>1, <1>4, <1>5, <1>6, VectorMarks, Zenon

\* CommitState cleanup, which may drop a ChunkInfo, keeps MarkInv.
LEMMA CleanupMarks ==
    ASSUME RowTypes, PhaseInv, AppendInv, MarkInv, Low, NEW t \in Txns, Cleanup(t)
    PROVE  MarkInv'
<1>1. /\ pc[t] = "committed" /\ pc' = [pc EXCEPT ![t] = "cleaned"]
      /\ has_unserialized_changes => has_unserialized_changes'
      /\ UNCHANGED <<count, disk, times, undo, commit_id, pos>>
  BY Zenon DEF Cleanup, Goto
<1>2. \A v \in Vectors :
         \/ vector_info'[v] = vector_info[v]
         \/ /\ vector_info'[v] = NoInfo
            /\ CleanupInfo(vector_info[v], lowest[t]) /\ vector_info[v].type # "none"
  BY CleanupVectors, Zenon
<1>3. ASSUME NEW v \in Vectors
      PROVE  /\ Summarised(vector_info'[v])
             /\ \A i \in Rows : Mark(vector_info'[v], i) = Mark(vector_info[v], i)
  <2>0. Summarised(vector_info[v])
    BY Zenon DEF MarkInv, SummaryInv
  <2>1. CASE vector_info'[v] = vector_info[v]
    BY <2>0, <2>1, Zenon
  <2>2. CASE vector_info'[v] = NoInfo /\ CleanupInfo(vector_info[v], lowest[t]) /\ vector_info[v].type # "none"
    <3>1. vector_info[v].type \in {"constant", "vector"}
      <4>1. vector_info[v] \in InfosOver(Stamps)
        BY InfoTyped, Zenon
      <4> QED BY <4>1, <2>2, Zenon DEF InfosOver, Nones, Constants, ChunkVectors
    <3>2. \A i \in Rows : Mark(vector_info[v], i) = NOT_DELETED_ID
      BY <3>1, <2>0, <2>2, Zenon DEF CleanupInfo, Summarised, Mark
    <3> QED BY <2>2, <3>2, NoneMark, Zenon
  <2> QED BY <2>1, <2>2, <1>2, Zenon
<1>4. /\ \A u \in Txns \ {t} : /\ pc'[u] = pc[u] /\ commit_id'[u] = commit_id[u] /\ pos'[u] = pos[u]
                               /\ undo'[u] = undo[u]
      /\ UNCHANGED <<disk, transaction_id>> /\ undo'[t] = undo[t]
      /\ pc[t] # "idle" /\ pc'[t] = "cleaned"
  BY <1>1, Zenon DEF times, RowTypes, PlainTypes
<1>5. ASSUME NEW v \in Vectors, NEW i \in Rows, Placed(v, i) PROVE Placed(v, i)'
  <2>1. "cleaned" \notin Appending
    BY Zenon DEF Appending, Finishing
  <2>2. \A u \in Txns, m \in 0..MAX_ROWS : AppendsFrom(u, m)' => AppendsFrom(u, m)
    BY <2>1, <1>1, <1>4, Zenon DEF AppendsFrom
  <2> QED BY <2>2, <1>1, <1>5, Zenon DEF Placed
<1> QED BY <1>1, <1>3, <1>4, <1>5, VectorMarks, Zenon

\* A row that is deleted for good comes back as deleted when it is read.
LEMMA StoredMark ==
    ASSUME Low, PlainTypes, IdInv, NEW info \in InfosOver(Stamps), Summarised(info),
           NEW i \in Rows, Mark(info, i) < TRANSACTION_ID_START
    PROVE  Mark(WriteAndRead(info), i) < TRANSACTION_ID_START
<1> DEFINE sel == GetSelVector(info, TRANSACTION_ID_START - 1, NOT_DELETED_ID + 1)
<1>1. /\ TRANSACTION_ID_START \in Nat /\ NOT_DELETED_ID \in Nat
      /\ current_timestamp \in Nat /\ current_transaction_id \in Nat
      /\ 3 < current_timestamp /\ current_timestamp < TRANSACTION_ID_START
      /\ TRANSACTION_ID_START < current_transaction_id /\ current_transaction_id < NOT_DELETED_ID
  BY RowVersionsAssumption, Zenon DEF Low, IdInv, PlainTypes, FIRST_COMMIT
<1>2. Mark(info, i) \in Nat /\ Mark(info, i) < TRANSACTION_ID_START - 1
  <2>1. Mark(info, i) \in Stamps
    BY MarkType, Zenon DEF Stamps
  <2> HIDE DEF Mark
  <2> QED BY <1>1, <2>1 DEF Stamps
<1>3. HasDeletes(info) /\ i \notin sel
  <2>1. CASE info \in Nones
    BY <2>1, <1>1, <1>2 DEF Nones, Mark
  <2>2. CASE info \in Constants(Stamps)
    <3>1. info.type = "constant" /\ Mark(info, i) = info.delete_id
      BY <2>2, Zenon DEF Constants, Mark
    <3>2. HasDeletes(info)
      BY <3>1, Zenon DEF HasDeletes
    <3> QED BY <3>1, <3>2, <1>1, <1>2, Zenon DEF GetSelVector, UseDeletedVersion, UseInsertedVersion
  <2>3. CASE info \in ChunkVectors(Stamps)
    <3>1. info.type = "vector" /\ Mark(info, i) = info.deleted[i] /\ info.any_deleted \in BOOLEAN
      BY <2>3, Zenon DEF ChunkVectors, Mark
    <3>2. info.any_deleted
      BY <3>1, <1>1, <1>2 DEF Summarised
    <3>3. HasDeletes(info)
      BY <3>1, <3>2, Zenon DEF HasDeletes
    <3> QED BY <3>1, <3>2, <3>3, <1>1, <1>2, Zenon DEF GetSelVector, UseDeletedVersion, UseInsertedVersion
  <2> QED BY <2>1, <2>2, <2>3, Zenon DEF InfosOver
<1>4. \/ WriteAndRead(info) = ConstantInfo(0, 0)
      \/ WriteAndRead(info) = [VectorInfo(0) EXCEPT
                          !.any_deleted = TRUE,
                          !.deleted = [j \in Rows |-> IF j \in sel THEN NOT_DELETED_ID ELSE 0]]
  <2>1. sel # Rows
    BY <1>3, Zenon
  <2>2. HasDeletes(info) = TRUE
    BY <1>3, Zenon DEF HasDeletes
  <2> QED BY <1>3, <2>1, <2>2, Zenon DEF WriteAndRead
<1> HIDE DEF sel
<1>5. Mark(WriteAndRead(info), i) = 0
  <2>1. CASE WriteAndRead(info) = ConstantInfo(0, 0)
    BY <2>1 DEF ConstantInfo, Mark
  <2>2. CASE WriteAndRead(info) = [VectorInfo(0) EXCEPT
                          !.any_deleted = TRUE,
                          !.deleted = [j \in Rows |-> IF j \in sel THEN NOT_DELETED_ID ELSE 0]]
    BY <2>2, <1>3 DEF VectorInfo, Mark
  <2> QED BY <2>1, <2>2, <1>4, Zenon
<1> QED BY <1>1, <1>5

\* A ChunkInfo that was read has any_deleted set if it has deletes.
LEMMA StoredSummarised == ASSUME NEW info PROVE Summarised(WriteAndRead(info))
<1> DEFINE sel == GetSelVector(info, TRANSACTION_ID_START - 1, NOT_DELETED_ID + 1)
           x == [VectorInfo(0) EXCEPT
                          !.any_deleted = TRUE,
                          !.deleted = [j \in Rows |-> IF j \in sel THEN NOT_DELETED_ID ELSE 0]]
<1>1. WriteAndRead(info) \in {NoInfo, ConstantInfo(0, 0), x}
  BY Zenon DEF WriteAndRead
<1>2. Summarised(NoInfo) /\ Summarised(ConstantInfo(0, 0))
  BY Zenon DEF NoInfo, ConstantInfo, Summarised
<1>3. x.type = "vector" /\ x.any_deleted = TRUE
  BY Zenon DEF VectorInfo
<1> HIDE DEF x
<1>4. Summarised(x)
  BY <1>3, Zenon DEF Summarised
<1> QED BY <1>1, <1>2, <1>4, Zenon

\* Only transactions that are committed have deletes when a checkpoint runs or
\* the database is closed.
LEMMA OnlyCommitted ==
    ASSUME PlainTypes, PhaseInv, NoWriters \/ Active = {}, NEW u \in Txns, NEW k \in 1..Len(undo[u]),
           NEW v, NEW i, Deletes(u, k, v, i)
    PROVE  pc[u] \in {"committed", "cleaned"}
<1>1. undo[u] # <<>>
  OBVIOUS
<1>2. pc[u] # "idle" /\ pc[u] # "aborted"
  BY <1>1, Zenon DEF PhaseInv, PositionInv, Deletes
<1>3. u \notin Active
  BY <1>1, Zenon DEF NoWriters
<1> QED BY <1>2, <1>3, Zenon DEF Active

\* A checkpoint keeps MarkInv.
LEMMA CheckpointMarks ==
    ASSUME RowTypes, PhaseInv, AppendInv, MarkInv, Low, Checkpoint
    PROVE  MarkInv'
<1>1. /\ NoWriters /\ storage' = [v \in Vectors |-> Stored(v)]
      /\ UNCHANGED <<vector_info, count, times, commit_id, undo, pc, pos>>
  BY Zenon DEF Checkpoint
<1>2. ASSUME NEW v \in Vectors PROVE Summarised(storage'[v])
  <2>1. storage'[v] = WriteAndRead(vector_info[v]) \/ storage'[v] = storage[v]
    BY <1>1, Zenon DEF Stored
  <2> QED BY <2>1, StoredSummarised, Zenon DEF MarkInv, SummaryInv
<1>3. SummaryInv'
  BY <1>1, <1>2, Zenon DEF MarkInv, SummaryInv
<1>4. ASSUME NEW u \in Txns, NEW k \in 1..Len(undo[u]), NEW v \in Vectors, NEW i \in Rows
      PROVE  Deletes(u, k, v, i)' <=> Deletes(u, k, v, i)
  BY <1>1, Zenon DEF Deletes, DeletedRows
<1>5. ASSUME NEW v \in Vectors, NEW i \in Rows, Placed(v, i) PROVE Placed(v, i)'
  <2>1. \A u \in Txns, m \in 0..MAX_ROWS : AppendsFrom(u, m)' => AppendsFrom(u, m)
    BY <1>1, Zenon DEF AppendsFrom
  <2> QED BY <2>1, <1>1, <1>5, Zenon DEF Placed
<1>6. ASSUME NEW u \in Txns, NEW k \in 1..Len(undo[u]), NEW v \in Vectors, NEW i \in Rows,
             Deletes(u, k, v, i), Marked(u, k, v, i)
      PROVE  Marked(u, k, v, i)'
  <2>1. pc[u] \in {"committed", "cleaned"}
    BY <1>1, <1>6, OnlyCommitted, Zenon DEF RowTypes
  <2>2. /\ Mark(vector_info[v], i) < TRANSACTION_ID_START
        /\ has_unserialized_changes \/ Mark(storage[v], i) < TRANSACTION_ID_START
    BY <2>1, <1>6, Zenon DEF Marked
  <2>3. Mark(storage'[v], i) < TRANSACTION_ID_START
    <3>1. CASE has_unserialized_changes
      <4>1. storage'[v] = WriteAndRead(vector_info[v])
        BY <1>1, <3>1, Zenon DEF Stored
      <4>2. Mark(WriteAndRead(vector_info[v]), i) < TRANSACTION_ID_START
        <5>1. vector_info[v] \in InfosOver(Stamps) /\ Summarised(vector_info[v])
          BY InfoTyped, Zenon DEF MarkInv, SummaryInv
        <5> QED BY <5>1, <2>2, StoredMark, Zenon DEF RowTypes, PhaseInv
      <4> QED BY <4>1, <4>2, Zenon
    <3>2. CASE ~has_unserialized_changes
      <4>1. storage'[v] = storage[v]
        BY <1>1, <3>2, Zenon DEF Stored
      <4> QED BY <4>1, <2>2, <3>2, Zenon
    <3> QED BY <3>1, <3>2, Zenon
  <2>4. /\ pc'[u] \notin Open /\ pc'[u] \notin {"stamping", "reverting", "undoing"}
        /\ pc'[u] \in {"committed", "cleaned"}
    BY <2>1, <1>1, Zenon DEF Open
  <2> QED BY <2>2, <2>3, <2>4, <1>1, Zenon DEF Marked
<1>7. ASSUME NEW u \in Txns, NEW k \in 1..Len(undo'[u]), undo'[u][k].type = "delete"
      PROVE  /\ k \in 1..Len(undo[u]) /\ undo'[u][k] = undo[u][k]
             /\ \A v \in Vectors, i \in Rows : Deletes(u, k, v, i)' =>
                   /\ Deletes(u, k, v, i)
                   /\ Placed(v, i) /\ Marked(u, k, v, i) => Placed(v, i)' /\ Marked(u, k, v, i)'
  <2>1. k \in 1..Len(undo[u]) /\ undo'[u][k] = undo[u][k]
    BY <1>1, Zenon
  <2> QED BY <2>1, <1>4, <1>5, <1>6, Zenon
<1>8. ASSUME NEW u \in Txns, pc'[u] \in Open, NEW v \in Vectors, NEW i \in Rows,
             Mark(vector_info'[v], i) = transaction_id'[u]
      PROVE  /\ pc[u] \in Open /\ Mark(vector_info[v], i) = transaction_id[u]
             /\ \A k \in 1..Len(undo[u]) : Deletes(u, k, v, i) =>
                      k \in 1..Len(undo'[u]) /\ Deletes(u, k, v, i)'
  <2>1. pc'[u] = pc[u] /\ transaction_id' = transaction_id
    BY <1>1, Zenon DEF times
  <2> QED BY <1>1, <1>4, <1>8, <2>1, Zenon
<1> QED BY <1>3, <1>7, <1>8, KeepMarks, Zenon

\* Reading the row group again, when nobody has it open, keeps MarkInv.
LEMMA ReopenMarks ==
    ASSUME RowTypes, PhaseInv, AppendInv, MarkInv, Low, Reopen
    PROVE  MarkInv'
<1>1. /\ Active = {} /\ ~has_unserialized_changes
      /\ vector_info' = storage /\ count' = storage_count
      /\ pc' = [t \in Txns |-> IF pc[t] = "committed" THEN "cleaned" ELSE pc[t]]
      /\ UNCHANGED <<has_unserialized_changes, disk, undo, pos>>
  BY Zenon DEF Reopen
<1>2. count' = count
  BY <1>1, Zenon DEF AppendInv
<1>3. SummaryInv'
  BY <1>1, Zenon DEF MarkInv, SummaryInv, disk
<1>4. ASSUME NEW u \in Txns
      PROVE  /\ pc'[u] = IF pc[u] = "committed" THEN "cleaned" ELSE pc[u]
             /\ pc[u] \in {"idle", "committed", "aborted", "cleaned"}
             /\ pc'[u] \notin Open /\ pc'[u] \notin Appending
             /\ pc'[u] \in {"idle", "aborted", "cleaned"}
             /\ pc'[u] = "aborted" <=> pc[u] = "aborted"
  <2>1. pc'[u] = IF pc[u] = "committed" THEN "cleaned" ELSE pc[u]
    BY <1>1, Zenon
  <2>2. pc[u] \in {"idle", "committed", "aborted", "cleaned"}
    BY <1>1, Zenon DEF Active
  <2> QED BY <2>1, <2>2, Zenon DEF Open, Appending, Finishing
<1>5. ASSUME NEW u \in Txns, NEW k \in 1..Len(undo[u]), NEW v \in Vectors, NEW i \in Rows,
             Deletes(u, k, v, i)'
      PROVE  Deletes(u, k, v, i)
  BY <1>1, <1>4, <1>5, Zenon DEF Deletes, DeletedRows
<1>6. ASSUME NEW v \in Vectors, NEW i \in Rows, Placed(v, i) PROVE Placed(v, i)'
  <2>1. \A u \in Txns, m \in 0..MAX_ROWS : ~AppendsFrom(u, m)'
    BY <1>4, Zenon DEF AppendsFrom
  <2> QED BY <2>1, <1>2, <1>6, Zenon DEF Placed
<1>7. ASSUME NEW u \in Txns, NEW k \in 1..Len(undo[u]), NEW v \in Vectors, NEW i \in Rows,
             Deletes(u, k, v, i), Marked(u, k, v, i)
      PROVE  Marked(u, k, v, i)'
  <2>1. pc[u] \in {"committed", "cleaned"}
    BY <1>1, <1>7, OnlyCommitted, Zenon DEF RowTypes
  <2>2. Mark(storage[v], i) < TRANSACTION_ID_START
    BY <2>1, <1>1, <1>7, Zenon DEF Marked
  <2>3. /\ pc'[u] \notin Open /\ pc'[u] \notin {"stamping", "reverting", "undoing"}
        /\ pc'[u] \in {"committed", "cleaned"}
    BY <2>1, <1>4, Zenon
  <2> QED BY <2>2, <2>3, <1>1, Zenon DEF Marked, disk
<1>8. ASSUME NEW u \in Txns, NEW k \in 1..Len(undo'[u]), undo'[u][k].type = "delete"
      PROVE  /\ k \in 1..Len(undo[u]) /\ undo'[u][k] = undo[u][k]
             /\ \A v \in Vectors, i \in Rows : Deletes(u, k, v, i)' =>
                   /\ Deletes(u, k, v, i)
                   /\ Placed(v, i) /\ Marked(u, k, v, i) => Placed(v, i)' /\ Marked(u, k, v, i)'
  <2>1. k \in 1..Len(undo[u]) /\ undo'[u][k] = undo[u][k]
    BY <1>1, Zenon
  <2> QED BY <2>1, <1>5, <1>6, <1>7, Zenon
<1> QED BY <1>3, <1>4, <1>8, KeepMarks, Zenon

\* A vector with a row that is marked has all its marks.
LEMMA MarkedVector ==
    ASSUME NEW v \in Vectors, vector_info[v] \in InfosOver(Stamps), Summarised(vector_info[v]),
           NEW i \in Rows, Mark(vector_info[v], i) \notin {0, NOT_DELETED_ID}
    PROVE  /\ vector_info[v] \in ChunkVectors(Stamps) /\ GetVectorInfo(v) = vector_info[v]
           /\ vector_info[v].any_deleted
<1>1. CASE vector_info[v] \in Nones
  BY <1>1, Zenon DEF Nones, Mark
<1>2. CASE vector_info[v] \in Constants(Stamps)
  BY <1>2, Zenon DEF Constants, Mark, Summarised
<1>3. CASE vector_info[v] \in ChunkVectors(Stamps)
  <2>1. vector_info[v].type = "vector" /\ Mark(vector_info[v], i) = vector_info[v].deleted[i]
    BY <1>3, VectorMark, Zenon
  <2>2. GetVectorInfo(v) = vector_info[v]
    BY <2>1, Zenon DEF GetVectorInfo
  <2>3. vector_info[v].any_deleted
    BY <2>1, Zenon DEF Summarised
  <2> QED BY <1>3, <2>2, <2>3, Zenon
<1> QED BY <1>1, <1>2, <1>3, Zenon DEF InfosOver

\* w is the vector and D the rows of entry k of t, which are marked.
HoldsEntry(t, k, w, D) ==
    /\ w \in Vectors /\ D \subseteq Rows
    /\ \A i \in D : Deletes(t, k, w, i)
    /\ vector_info[w] \in ChunkVectors(Stamps) /\ GetVectorInfo(w) = vector_info[w]
    /\ vector_info[w].any_deleted

\* The vector of an entry that is stamped or undone.
LEMMA EntryVector ==
    ASSUME RowTypes, PhaseInv, MarkInv, Low, NEW t \in Txns, NEW k \in 1..Len(undo[t]),
           undo[t][k].type = "delete", pc[t] \in Finishing, pc[t] = "undoing" => k <= pos[t],
           NEW w, w = undo[t][k].vector, NEW D, D = DeletedRows(undo[t][k])
    PROVE  HoldsEntry(t, k, w, D)
<1>1. w \in Vectors /\ D \subseteq Rows
  BY EntryRows, Zenon DEF RowTypes
<1>2. pc[t] # "aborted" /\ pc[t] # "idle" /\ pc[t] \in {"stamping", "reverting", "undoing"}
  BY Zenon DEF Finishing
<1>3. \A i \in D : Deletes(t, k, w, i)
  BY <1>2, Zenon DEF Deletes
<1>4. PICK i \in D : TRUE
  BY Zenon DEF MarkInv, OnceInv
<1>5. Marked(t, k, w, i) /\ i \in Rows
  BY <1>1, <1>3, <1>4, Zenon DEF MarkInv, EntryInv
<1>6. /\ transaction_id[t] # NOT_DELETED_ID /\ transaction_id[t] # 0
      /\ TRANSACTION_ID_START \in Nat /\ ~(NOT_DELETED_ID < TRANSACTION_ID_START)
  BY <1>2, IdRange, Zenon DEF RowTypes, PhaseInv
<1>7. pc[t] = "stamping" => 0 < commit_id[t] /\ commit_id[t] < TRANSACTION_ID_START
  <2>1. commit_id[t] \in Nat /\ current_timestamp \in Nat /\ commit_id[t] < current_timestamp
        /\ current_timestamp < TRANSACTION_ID_START
    BY Zenon DEF RowTypes, PlainTypes, PhaseInv, IdInv, Low
  <2>2. pc[t] = "stamping" => 0 < commit_id[t]
    BY Zenon DEF PhaseInv, IdInv
  <2> QED BY <1>6, <2>1, <2>2
<1> DEFINE mark == Mark(vector_info[w], i)
<1>8. /\ pc[t] = "stamping" => mark = IF k < pos[t] THEN commit_id[t] ELSE transaction_id[t]
      /\ pc[t] \in {"reverting", "undoing"} =>
             mark = transaction_id[t] \/ (0 < mark /\ mark < TRANSACTION_ID_START)
  BY <1>5, Zenon DEF Marked
<1> HIDE DEF mark
<1>9. mark \notin {0, NOT_DELETED_ID}
  BY <1>2, <1>6, <1>7, <1>8
<1>10. Mark(vector_info[w], i) \notin {0, NOT_DELETED_ID}
  BY <1>9, Zenon DEF mark
<1>11. vector_info[w] \in InfosOver(Stamps) /\ Summarised(vector_info[w])
  BY <1>1, InfoTyped, Zenon DEF MarkInv, SummaryInv
<1> QED BY <1>1, <1>3, <1>5, <1>10, <1>11, MarkedVector, Zenon DEF HoldsEntry

\* ChunkVectorInfo::CommitDelete stamps the given rows and no other.
LEMMA CommitDelete1Mark ==
    ASSUME NEW info \in ChunkVectors(Stamps), NEW id \in Stamps, NEW rows
    PROVE  Remarked(CommitDelete1(info, rows, id), info, rows, id)
  BY Zenon DEF CommitDelete1, ChunkVectors, Mark, Remarked

\* An entry of t is stamped with its commit id, reverted to the id of t, or undone.
LEMMA StampMarks ==
    ASSUME RowTypes, PhaseInv, MarkInv, Low, NEW t \in Txns, NEW k \in 1..Len(undo[t]),
           undo[t][k].type = "delete", NEW id, vector_info' = Stamped(undo[t][k], id),
           has_unserialized_changes', UNCHANGED <<count, disk, times, undo>>,
           \A u \in Txns \ {t} : pc'[u] = pc[u] /\ commit_id'[u] = commit_id[u] /\ pos'[u] = pos[u],
           k = pos[t],
           \/ pc[t] = "stamping" /\ pc'[t] = "stamping" /\ pos'[t] = k + 1
              /\ commit_id'[t] = commit_id[t] /\ id = commit_id[t]
           \/ pc[t] = "reverting" /\ pc'[t] \in {"reverting", "undoing"} /\ id = transaction_id[t]
           \/ pc[t] = "undoing" /\ pc'[t] = "undoing" /\ pos'[t] = k - 1 /\ id = NOT_DELETED_ID
    PROVE  MarkInv'
<1>1. PICK w, D : w = undo[t][k].vector /\ D = DeletedRows(undo[t][k])
  BY Zenon
<1>2. /\ pc[t] \in Finishing /\ pc[t] # "idle" /\ pc[t] # "aborted" /\ pc'[t] # "aborted" /\ pc'[t] \notin Open
      /\ pc[t] = "undoing" => k <= pos[t] /\ pc'[t] = "undoing" /\ pos'[t] = pos[t] - 1
      /\ k \in Nat
  BY DEF Finishing, Open
<1>3. /\ w \in Vectors /\ D \subseteq Rows
      /\ \A i \in D : Deletes(t, k, w, i)
      /\ vector_info[w] \in ChunkVectors(Stamps) /\ GetVectorInfo(w) = vector_info[w]
      /\ vector_info[w].any_deleted
  <2>1. HoldsEntry(t, k, w, D)
    BY <1>1, <1>2, EntryVector, Zenon
  <2> QED BY <2>1, Zenon DEF HoldsEntry
<1>4. id \in Stamps
  BY <1>2, StampsHave, Zenon DEF RowTypes, PhaseInv
<1>5. vector_info' = [vector_info EXCEPT ![w] = CommitDelete1(vector_info[w], D, id)]
  BY <1>1, <1>3, Zenon DEF Stamped
<1>6. vector_info \in [Vectors -> Infos]
  BY Zenon DEF RowTypes
<1> DEFINE x == CommitDelete1(vector_info[w], D, id)
<1>7. /\ x \in ChunkVectors(Stamps)
      /\ \A i \in Rows : Mark(x, i) = IF i \in D THEN id ELSE Mark(vector_info[w], i)
      /\ x.any_deleted = vector_info[w].any_deleted
  <2>1. vector_info[w] \in ChunkVectors(Stamps)
    BY <1>3, Zenon
  <2>2. x \in ChunkVectors(Stamps) /\ Remarked(x, vector_info[w], D, id)
    BY <2>1, <1>4, CommitDelete1Type, CommitDelete1Mark, Zenon
  <2> QED BY <2>2, Zenon DEF Remarked
<1>8. vector_info'[w] = x /\ \A v \in Vectors \ {w} : vector_info'[v] = vector_info[v]
  BY <1>3, <1>5, <1>6, Zenon
<1> HIDE DEF x
<1>9. ASSUME NEW v \in Vectors, NEW i \in Rows
      PROVE  /\ v = w /\ i \in D => Mark(vector_info'[v], i) = id
             /\ ~(v = w /\ i \in D) => Mark(vector_info'[v], i) = Mark(vector_info[v], i)
  BY <1>7, <1>8, Zenon
<1>10. SummaryInv'
  <2>1. Summarised(x)
    <3>1. x.type = "vector" /\ x.any_deleted
      BY <1>3, <1>7, VectorMark, Zenon
    <3> QED BY <3>1, Zenon DEF Summarised
  <2>2. storage' = storage
    BY Zenon DEF disk
  <2>3. \A v \in Vectors : Summarised(vector_info'[v])
    BY <2>1, <1>8, Zenon DEF MarkInv, SummaryInv
  <2> QED BY <2>2, <2>3, Zenon DEF MarkInv, SummaryInv
<1>11. ASSUME NEW v \in Vectors, NEW i \in Rows, Placed(v, i) PROVE Placed(v, i)'
  <2>1. \A u \in Txns, n \in 0..MAX_ROWS : AppendsFrom(u, n)' => AppendsFrom(u, n)
    BY <1>2, KeptAppends, Zenon DEF PhaseInv
  <2> QED BY <1>11, <2>1, Zenon DEF Placed
<1>12. pos[t] \in Nat /\ transaction_id' = transaction_id /\ storage' = storage
  BY Zenon DEF RowTypes, PlainTypes, times, disk
<1>13. ASSUME NEW u \in Txns, NEW l \in 1..Len(undo[u]), NEW v \in Vectors, NEW i \in Rows,
              Deletes(u, l, v, i)'
       PROVE  Deletes(u, l, v, i)
  <2>1. CASE u = t
    <3>1. pc[t] = "undoing" => l <= pos[t]
      <4>1. pc[t] = "undoing" => l <= pos'[t]
        BY <2>1, <1>2, <1>13, Zenon DEF Deletes
      <4>2. l \in Nat
        OBVIOUS
      <4> QED BY <4>1, <4>2, <1>2, <1>12
    <3> QED BY <2>1, <3>1, <1>2, <1>13, Zenon DEF Deletes, DeletedRows
  <2>2. CASE u # t
    BY <2>2, <1>13, Zenon DEF Deletes, DeletedRows
  <2> QED BY <2>1, <2>2, Zenon
<1>14. ASSUME NEW u \in Txns, NEW l \in 1..Len(undo[u]), NEW v \in Vectors, NEW i \in Rows,
              Deletes(u, l, v, i), u # t \/ l # k
       PROVE  Mark(vector_info'[v], i) = Mark(vector_info[v], i)
  <2>1. ~(v = w /\ i \in D)
    <3> SUFFICES ASSUME v = w, i \in D PROVE FALSE
      BY Zenon
    <3>1. Deletes(t, k, v, i) /\ undo[u][l].type = "delete"
      BY <1>3, <1>14, Zenon DEF Deletes
    <3> QED BY <3>1, <1>14, Zenon DEF MarkInv, OnceInv
  <2> QED BY <2>1, <1>9, Zenon
<1>15. ASSUME NEW l \in 1..Len(undo[t]), NEW v \in Vectors, NEW i \in Rows,
              Deletes(t, l, v, i)', Marked(t, l, v, i)
       PROVE  Marked(t, l, v, i)'
  <2> DEFINE mark == Mark(vector_info'[v], i)
  <2>1. Deletes(t, l, v, i) /\ l \in Nat
    BY <1>13, <1>15
  <2>2. CASE l = k
    <3>1. v = w /\ i \in D
      BY <2>1, <2>2, <1>1, Zenon DEF Deletes
    <3>2. mark = id
      BY <3>1, <1>9, Zenon
    <3>3. pc[t] # "undoing"
      <4> SUFFICES ASSUME pc[t] = "undoing" PROVE FALSE
        BY Zenon
      <4>1. l <= pos'[t]
        BY <1>2, <1>15, Zenon DEF Deletes
      <4> QED BY <4>1, <2>2, <1>2, <1>12
    <3> HIDE DEF mark
    <3>4. /\ pc'[t] = "stamping" => mark = IF l < pos'[t] THEN commit_id'[t] ELSE transaction_id'[t]
          /\ pc'[t] \in {"reverting", "undoing"} => mark = transaction_id'[t]
          /\ pc'[t] \notin {"committed", "cleaned"}
      BY <2>2, <3>2, <3>3, <1>2, <1>12
    <3> QED BY <3>4, <1>2, Zenon DEF Marked, mark
  <2>3. CASE l # k
    <3>1. mark = Mark(vector_info[v], i)
      BY <2>1, <2>3, <1>14, Zenon
    <3>2. /\ pc[t] = "stamping" => Mark(vector_info[v], i) = IF l < pos[t] THEN commit_id[t] ELSE transaction_id[t]
          /\ pc[t] \in {"reverting", "undoing"} =>
               Mark(vector_info[v], i) = transaction_id[t]
               \/ (0 < Mark(vector_info[v], i) /\ Mark(vector_info[v], i) < TRANSACTION_ID_START)
      BY <1>15, Zenon DEF Marked
    <3> HIDE DEF mark
    <3>3. /\ pc[t] = "stamping" => mark = IF l < pos[t] THEN commit_id[t] ELSE transaction_id[t]
          /\ pc[t] \in {"reverting", "undoing"} =>
               mark = transaction_id[t] \/ (0 < mark /\ mark < TRANSACTION_ID_START)
      BY <3>1, <3>2, Zenon
    <3>4. /\ pc'[t] = "stamping" => mark = IF l < pos'[t] THEN commit_id'[t] ELSE transaction_id'[t]
          /\ pc'[t] \in {"reverting", "undoing"} =>
               mark = transaction_id'[t] \/ (0 < mark /\ mark < TRANSACTION_ID_START)
          /\ pc'[t] \notin {"committed", "cleaned"}
      BY <2>1, <2>3, <3>3, <1>2, <1>12
    <3> QED BY <3>4, <1>2, Zenon DEF Marked, mark
  <2> QED BY <2>2, <2>3, Zenon
<1>16. ASSUME NEW u \in Txns, NEW l \in 1..Len(undo'[u]), undo'[u][l].type = "delete"
       PROVE  /\ l \in 1..Len(undo[u]) /\ undo'[u][l] = undo[u][l]
              /\ \A v \in Vectors, i \in Rows : Deletes(u, l, v, i)' =>
                   /\ Deletes(u, l, v, i)
                   /\ Placed(v, i) /\ Marked(u, l, v, i) => Placed(v, i)' /\ Marked(u, l, v, i)'
  <2>1. l \in 1..Len(undo[u]) /\ undo'[u][l] = undo[u][l]
    BY Zenon
  <2>2. ASSUME NEW v \in Vectors, NEW i \in Rows, Deletes(u, l, v, i)', Marked(u, l, v, i)
        PROVE  Marked(u, l, v, i)'
    <3>1. CASE u = t
      BY <2>1, <2>2, <3>1, <1>15, Zenon
    <3>2. CASE u # t
      <4>1. Mark(vector_info'[v], i) = Mark(vector_info[v], i)
        BY <2>1, <2>2, <3>2, <1>13, <1>14, Zenon
      <4>2. /\ pc'[u] = pc[u] /\ commit_id'[u] = commit_id[u] /\ pos'[u] = pos[u]
            /\ transaction_id'[u] = transaction_id[u]
        BY <3>2, <1>12, Zenon
      <4> QED BY <2>2, <4>1, <4>2, <1>12, MarkedStays, Zenon
    <3> QED BY <3>1, <3>2, Zenon
  <2> QED BY <2>1, <2>2, <1>11, <1>13, Zenon
<1>17. ASSUME NEW u \in Txns, pc'[u] \in Open, NEW v \in Vectors, NEW i \in Rows,
             Mark(vector_info'[v], i) = transaction_id'[u]
       PROVE  /\ pc[u] \in Open /\ Mark(vector_info[v], i) = transaction_id[u]
              /\ \A l \in 1..Len(undo[u]) : Deletes(u, l, v, i) =>
                      l \in 1..Len(undo'[u]) /\ Deletes(u, l, v, i)'
  <2>1. u # t /\ pc'[u] = pc[u] /\ pos'[u] = pos[u]
    BY <1>2, <1>17, Zenon
  <2>2. pc[u] # "idle"
    BY <2>1, <1>17, Zenon DEF Open
  <2>3. id # transaction_id[u]
    <3>1. /\ transaction_id[u] # NOT_DELETED_ID /\ transaction_id[u] \in Nat /\ TRANSACTION_ID_START \in Nat
          /\ TRANSACTION_ID_START < transaction_id[u]
      BY <2>2, IdRange, Zenon DEF RowTypes, PhaseInv
    <3>2. transaction_id[u] # transaction_id[t]
      BY <2>1, <2>2, <1>2, Zenon DEF PhaseInv, IdInv
    <3>3. commit_id[t] \in Nat /\ current_timestamp \in Nat /\ commit_id[t] < current_timestamp
          /\ current_timestamp < TRANSACTION_ID_START
      BY Zenon DEF RowTypes, PlainTypes, PhaseInv, IdInv, Low
    <3>4. commit_id[t] # transaction_id[u]
      BY <3>1, <3>3
    <3> QED BY <3>1, <3>2, <3>4, Zenon
  <2>4. Mark(vector_info[v], i) = transaction_id[u]
    BY <2>3, <1>9, <1>12, <1>17, Zenon
  <2> QED BY <2>1, <2>4, <1>17, Zenon DEF Deletes, DeletedRows
<1> QED BY <1>10, <1>16, <1>17, KeepMarks, Zenon

\* Committing or reverting one entry keeps MarkInv.
LEMMA EntryMarks ==
    ASSUME RowTypes, PhaseInv, AppendInv, MarkInv, Low, NEW t \in Txns,
           CommitEntry(t) \/ RevertCommitEntry(t) \/ RollbackEntry(t)
    PROVE  MarkInv'
<1>0. /\ pc \in [Txns -> {"idle", "committed", "aborted", "cleaned"} \cup Open \cup Finishing]
      /\ pos \in [Txns -> Nat] /\ stop \in [Txns -> Nat] /\ undo \in [Txns -> Seq(Entries)]
      /\ commit_id \in [Txns -> Nat]
  BY Zenon DEF RowTypes, PlainTypes
<1>1. pos[t] \in 1..Len(undo[t])
  BY EntryPosition, Zenon
<1>2. PICK k \in 1..Len(undo[t]) : k = pos[t]
  BY <1>1, Zenon
<1>3. undo[t][k].type \in {"delete", "append"}
  BY EntryRows, Zenon DEF RowTypes
<1>4. CASE CommitEntry(t)
  <2>1. /\ pc[t] = "stamping" /\ vector_info' = Stamped(undo[t][k], commit_id[t])
        /\ has_unserialized_changes' = (has_unserialized_changes \/ undo[t][k].type = "delete")
        /\ pos' = [pos EXCEPT ![t] = pos[t] + 1]
        /\ UNCHANGED <<count, disk, times, undo, pc, commit_id>>
    BY <1>2, <1>4, Zenon DEF CommitEntry
  <2>2. CASE undo[t][k].type = "append"
    BY <2>2, <1>2, <1>4, CommitAppendMarks, Zenon
  <2>3. CASE undo[t][k].type = "delete"
    <3>1. /\ \A u \in Txns \ {t} : pc'[u] = pc[u] /\ commit_id'[u] = commit_id[u] /\ pos'[u] = pos[u]
          /\ pc'[t] = "stamping" /\ pos'[t] = k + 1 /\ commit_id'[t] = commit_id[t]
          /\ has_unserialized_changes' /\ UNCHANGED <<count, disk, times, undo>>
      BY <2>1, <2>3, <1>0, <1>2, Zenon
    <3>2. PICK id : id = commit_id[t]
      BY Zenon
    <3> QED BY <2>1, <2>3, <3>1, <3>2, <1>2, StampMarks, Zenon
  <2> QED BY <2>2, <2>3, <1>3, Zenon
<1>5. CASE RevertCommitEntry(t)
  <2>1. /\ pc[t] = "reverting" /\ RevertEntry(undo[t][k], transaction_id[t])
        /\ \/ UNCHANGED <<pc, commit_id>> /\ pos' = [pos EXCEPT ![t] = pos[t] + 1]
           \/ /\ pos' = [pos EXCEPT ![t] = Len(undo[t])] /\ pc' = [pc EXCEPT ![t] = "undoing"]
              /\ commit_id' = [commit_id EXCEPT ![t] = 0]
        /\ UNCHANGED <<disk, times, undo>>
    BY <1>2, <1>5, Zenon DEF RevertCommitEntry
  <2>2. /\ \A u \in Txns \ {t} : pc'[u] = pc[u] /\ commit_id'[u] = commit_id[u] /\ pos'[u] = pos[u]
        /\ pc'[t] \in {"reverting", "undoing"}
    <3>1. CASE UNCHANGED <<pc, commit_id>> /\ pos' = [pos EXCEPT ![t] = pos[t] + 1]
      BY <3>1, <2>1, <1>0, Zenon
    <3>2. CASE /\ pos' = [pos EXCEPT ![t] = Len(undo[t])] /\ pc' = [pc EXCEPT ![t] = "undoing"]
               /\ commit_id' = [commit_id EXCEPT ![t] = 0]
      BY <3>2, <2>1, <1>0, Zenon
    <3> QED BY <3>1, <3>2, <2>1, Zenon
  <2>3. CASE undo[t][k].type = "append"
    <3>1. RevertAppend(undo[t][k])
      BY <2>1, <2>3, Zenon DEF RevertEntry
    <3> QED BY <2>1, <2>2, <2>3, <3>1, UndoAppendMarks, Zenon
  <2>4. CASE undo[t][k].type = "delete"
    <3>1. PICK id : id = transaction_id[t]
      BY Zenon
    <3>2. vector_info' = Stamped(undo[t][k], id) /\ has_unserialized_changes' /\ UNCHANGED count
      BY <2>1, <2>4, <3>1, Zenon DEF RevertEntry
    <3>3. UNCHANGED <<count, disk, times, undo>>
      BY <2>1, <3>2, Zenon
    <3> QED BY <2>1, <2>2, <2>4, <3>1, <3>2, <3>3, <1>2, StampMarks, Zenon
  <2> QED BY <2>3, <2>4, <1>3, Zenon
<1>6. CASE RollbackEntry(t)
  <2>1. /\ pc[t] = "undoing" /\ RevertEntry(undo[t][k], NOT_DELETED_ID)
        /\ UNCHANGED <<pc, commit_id>> /\ pos' = [pos EXCEPT ![t] = pos[t] - 1]
        /\ UNCHANGED <<disk, times, undo>>
    BY <1>2, <1>6, Zenon DEF RollbackEntry
  <2>2. /\ \A u \in Txns \ {t} : pc'[u] = pc[u] /\ commit_id'[u] = commit_id[u] /\ pos'[u] = pos[u]
        /\ pc'[t] = "undoing" /\ pos'[t] = pos[t] - 1
    BY <2>1, <1>0, Zenon
  <2>3. CASE undo[t][k].type = "append"
    <3>1. RevertAppend(undo[t][k])
      BY <2>1, <2>3, Zenon DEF RevertEntry
    <3> QED BY <2>1, <2>2, <2>3, <3>1, UndoAppendMarks, Zenon
  <2>4. CASE undo[t][k].type = "delete"
    <3>1. PICK id : id = NOT_DELETED_ID
      BY Zenon
    <3>2. vector_info' = Stamped(undo[t][k], id) /\ has_unserialized_changes' /\ UNCHANGED count
      BY <2>1, <2>4, <3>1, Zenon DEF RevertEntry
    <3>3. UNCHANGED <<count, disk, times, undo>>
      BY <2>1, <3>2, Zenon
    <3> QED BY <2>1, <2>2, <2>4, <3>1, <3>2, <3>3, <1>2, StampMarks, Zenon
  <2> QED BY <2>3, <2>4, <1>3, Zenon
<1> QED BY <1>4, <1>5, <1>6, Zenon

\* A row that is in an undo buffer is marked.
LEMMA NotFree ==
    ASSUME RowTypes, PhaseInv, MarkInv, Low, NEW u \in Txns, NEW k \in 1..Len(undo[u]),
           NEW v \in Vectors, NEW i \in Rows, Deletes(u, k, v, i)
    PROVE  Mark(vector_info[v], i) # NOT_DELETED_ID
<1>1. undo[u] # <<>>
  OBVIOUS
<1>2. pc[u] # "idle" /\ pc[u] # "aborted"
  BY <1>1, Zenon DEF PhaseInv, PositionInv, Deletes
<1>3. pc[u] \in Open \/ pc[u] \in {"stamping", "reverting", "undoing", "committed", "cleaned"}
  BY <1>2, Zenon DEF RowTypes, PlainTypes, Finishing
<1>4. Marked(u, k, v, i)
  BY Zenon DEF MarkInv, EntryInv
<1>5. /\ transaction_id[u] # NOT_DELETED_ID
      /\ TRANSACTION_ID_START \in Nat /\ ~(NOT_DELETED_ID < TRANSACTION_ID_START)
  BY <1>2, IdRange, Zenon DEF RowTypes, PhaseInv
<1>6. commit_id[u] < TRANSACTION_ID_START
  <2>1. commit_id[u] \in Nat /\ current_timestamp \in Nat /\ commit_id[u] < current_timestamp
        /\ current_timestamp < TRANSACTION_ID_START
    BY Zenon DEF RowTypes, PlainTypes, PhaseInv, IdInv, Low
  <2> QED BY <1>5, <2>1
<1> DEFINE mark == Mark(vector_info[v], i)
<1>7. /\ pc[u] \in Open => mark = transaction_id[u]
      /\ pc[u] = "stamping" => mark = IF k < pos[u] THEN commit_id[u] ELSE transaction_id[u]
      /\ pc[u] \in {"reverting", "undoing"} =>
           mark = transaction_id[u] \/ (0 < mark /\ mark < TRANSACTION_ID_START)
      /\ pc[u] \in {"committed", "cleaned"} => mark < TRANSACTION_ID_START
  BY <1>4, Zenon DEF Marked
<1> HIDE DEF mark
<1>8. mark # NOT_DELETED_ID
  BY <1>3, <1>5, <1>6, <1>7, Zenon
<1> QED BY <1>8, Zenon DEF mark

\* What a running transaction can see is not of an open append, and not deleted by itself.
LEMMA VisibleRow ==
    ASSUME RowTypes, PhaseInv, AppendInv, SummaryInv, Low, NEW t \in Txns, pc[t] = "running",
           NEW v \in Vectors, NEW i \in Rows, Row(v, i) \in Scan(t)
    PROVE  /\ Placed(v, i) /\ Mark(vector_info[v], i) # transaction_id[t]
           /\ vector_info[v].type = "constant" => vector_info[v].delete_id = NOT_DELETED_ID
<1> DEFINE info == vector_info[v]
<1>1. v \in Nat /\ Row(v, i) \in Nat /\ VectorOf(Row(v, i)) = v /\ IndexOf(Row(v, i)) = i
  <2>1. v \in Nat
    BY Numbers, Zenon
  <2> QED BY <2>1, RowInNat, Zenon
<1>2. /\ Row(v, i) \in 0..(count - 1)
      /\ i \in GetSelVector(info, start_time[t], transaction_id[t])
  BY <1>1, Zenon DEF Scan
<1>3. count \in Nat /\ start_time[t] \in Nat /\ 0 < start_time[t]
  <2>1. 0 < start_time[t]
    BY Zenon DEF PhaseInv, IdInv
  <2> QED BY <2>1, RowVersionsAssumption DEF RowTypes, PlainTypes
<1>4. Row(v, i) < count
  BY <1>1, <1>2, <1>3
<1>5. info \in InfosOver(Stamps) /\ Summarised(info)
  BY InfoTyped, Zenon DEF SummaryInv
<1>6. /\ TRANSACTION_ID_START < transaction_id[t] /\ transaction_id[t] # NOT_DELETED_ID
      /\ transaction_id[t] \in Nat /\ TRANSACTION_ID_START \in Nat
  <2>1. pc[t] # "idle"
    BY Zenon
  <2> QED BY <2>1, IdRange, Zenon DEF RowTypes, PhaseInv
<1>7. /\ Mark(info, i) # transaction_id[t]
      /\ info.type = "constant" => info.delete_id = NOT_DELETED_ID
      /\ info.type # "none" => UseInsertedVersion(start_time[t], transaction_id[t], InsertStamp(info, i))
  <2>1. CASE info \in Nones
    BY <2>1, <1>6, Zenon DEF Nones, Mark
  <2>2. CASE info \in Constants(Stamps)
    <3>1. /\ info.type = "constant" /\ Mark(info, i) = info.delete_id /\ info.delete_id \in {0, NOT_DELETED_ID}
          /\ InsertStamp(info, i) = info.insert_id
      BY <2>2, <1>5, Zenon DEF Constants, Mark, Summarised, InsertStamp
    <3>2. /\ UseInsertedVersion(start_time[t], transaction_id[t], info.insert_id)
          /\ UseDeletedVersion(start_time[t], transaction_id[t], info.delete_id)
      BY <3>1, <1>2, Zenon DEF GetSelVector
    <3>3. info.delete_id = NOT_DELETED_ID
      BY <3>1, <3>2, <1>3, Zenon DEF UseDeletedVersion, UseInsertedVersion
    <3> QED BY <3>1, <3>2, <3>3, <1>6, Zenon
  <2>3. CASE info \in ChunkVectors(Stamps)
    <3>1. info.type = "vector" /\ Mark(info, i) = info.deleted[i]
      BY <2>3, VectorMark, Zenon
    <3>2. /\ UseInsertedVersion(start_time[t], transaction_id[t], InsertStamp(info, i))
          /\ info.any_deleted => UseDeletedVersion(start_time[t], transaction_id[t], info.deleted[i])
      <4>1. i \in {j \in Rows :
              /\ UseInsertedVersion(start_time[t], transaction_id[t], IF info.same_inserted_id THEN info.insert_id
                                               ELSE info.inserted[j])
              /\ info.any_deleted => UseDeletedVersion(start_time[t], transaction_id[t], info.deleted[j])}
        BY <3>1, <1>2, Zenon DEF GetSelVector
      <4>2. InsertStamp(info, i) = IF info.same_inserted_id THEN info.insert_id ELSE info.inserted[i]
        BY <3>1, Zenon DEF InsertStamp
      <4> QED BY <4>1, <4>2, Zenon
    <3>3. Mark(info, i) # transaction_id[t]
      <4>1. CASE info.any_deleted
        BY <4>1, <3>1, <3>2, Zenon DEF UseDeletedVersion, UseInsertedVersion
      <4>2. CASE ~info.any_deleted
        BY <4>2, <3>1, <1>5, <1>6, Zenon DEF Summarised
      <4> QED BY <4>1, <4>2, Zenon
    <3> QED BY <3>1, <3>2, <3>3, Zenon
  <2> QED BY <2>1, <2>2, <2>3, <1>5, Zenon DEF InfosOver
<1>8. ASSUME NEW u \in Txns, NEW n \in 0..MAX_ROWS, AppendsFrom(u, n) PROVE Row(v, i) < n
  <2> SUFFICES ASSUME ~(Row(v, i) < n) PROVE FALSE
    BY Zenon
  <2>1. n <= Row(v, i)
    <3>1. n \in Nat
      BY RowVersionsAssumption
    <3> QED BY <3>1, <1>1
  <2>2. Hidden(u, v, i)
    BY <2>1, <1>4, <1>8, Zenon DEF AppendInv, FreshInv, Fresh
  <2>3. u # t /\ pc[u] # "idle"
    BY <1>8, Zenon DEF AppendsFrom, Appending, Finishing
  <2>4. /\ transaction_id[u] # transaction_id[t] /\ start_time[t] < current_timestamp
        /\ TRANSACTION_ID_START < transaction_id[u] /\ current_timestamp < TRANSACTION_ID_START
    BY <2>3, Zenon DEF PhaseInv, IdInv, Low
  <2>5. transaction_id[u] \in Nat /\ current_timestamp \in Nat
    BY Zenon DEF RowTypes, PlainTypes
  <2> DEFINE stamp == InsertStamp(info, i)
  <2>6. /\ info.type # "none"
        /\ stamp = transaction_id[u] \/ (stamp < TRANSACTION_ID_START /\ start_time[t] < stamp)
    BY <2>2, Zenon DEF Hidden
  <2>7. stamp < start_time[t] \/ stamp = transaction_id[t]
    BY <2>6, <1>7, Zenon DEF UseInsertedVersion
  <2>8. stamp \in Nat
    <3>1. stamp \in Stamps
      <4>1. info \in Constants(Stamps) \cup ChunkVectors(Stamps)
        BY <2>6, <1>5, Zenon DEF InfosOver, Nones
      <4> QED BY <4>1, Zenon DEF Constants, ChunkVectors, InsertStamp
    <3> HIDE DEF stamp
    <3>2. current_transaction_id \in Nat /\ NOT_DELETED_ID \in Nat
      BY RowVersionsAssumption, Zenon DEF RowTypes, PlainTypes
    <3> QED BY <3>1, <3>2, <2>5, <1>6 DEF Stamps
  <2> HIDE DEF stamp
  <2> QED BY <2>4, <2>5, <2>6, <2>7, <2>8, <1>3, <1>6
<1> QED BY <1>4, <1>7, <1>8, Zenon DEF Placed

\* The bound on the deletes of one transaction under which no row that it has
\* deleted is asked for again by a later statement of its.
AtMostOnce == RepeatedRows => MAX_DELETES <= 1

\* FirstConflict is a position before which there is no conflict.
LEMMA FirstConflictIs ==
    ASSUME Ranks, NEW t, NEW info, NEW rows, Len(rows) \in Nat
    PROVE  /\ FirstConflict(t, info, rows) \in 1..(Len(rows) + 1)
           /\ \A j \in 1..(FirstConflict(t, info, rows) - 1) : ~Conflicting(t, info, rows[j])
<1> DEFINE First(n) == /\ \A j \in 1..(n - 1) : ~Conflicting(t, info, rows[j])
                       /\ n <= Len(rows) => Conflicting(t, info, rows[n])
           K == {j \in 1..Len(rows) : Conflicting(t, info, rows[j])}
<1>1. \E n \in 1..(Len(rows) + 1) : First(n)
  <2>1. CASE K = {}
    <3>1. Len(rows) + 1 \in 1..(Len(rows) + 1) /\ ~(Len(rows) + 1 <= Len(rows))
          /\ (Len(rows) + 1) - 1 = Len(rows)
      OBVIOUS
    <3>2. First(Len(rows) + 1)
      BY <2>1, <3>1, Zenon
    <3> QED BY <3>1, <3>2, Zenon
  <2>2. CASE K # {}
    <3>1. K \in SUBSET (1..Len(rows))
      BY Zenon
    <3> HIDE DEF K
    <3>2. /\ Cardinality(K) \in 0..Len(rows)
          /\ {Cardinality({k \in K : k < j}) : j \in K} = 0..(Cardinality(K) - 1)
      BY <3>1, Zenon DEF Ranks
    <3>3. PICK i \in K : TRUE
      BY <2>2, Zenon
    <3>4. Cardinality({k \in K : k < i}) \in 0..(Cardinality(K) - 1)
      BY <3>2, <3>3, Zenon
    <3>5. 0 \in 0..(Cardinality(K) - 1)
      <4> DEFINE c == Cardinality(K)
                 d == Cardinality({k \in K : k < i})
      <4>1. c \in 0..Len(rows) /\ d \in 0..(c - 1)
        BY <3>2, <3>4, Zenon
      <4> HIDE DEF c, d
      <4>2. 0 \in 0..(c - 1)
        BY <4>1
      <4> QED BY <4>2, Zenon DEF c
    <3>6. PICK j \in K : Cardinality({k \in K : k < j}) = 0
      BY <3>2, <3>5, Zenon
    <3>7. PICK B : B = {k \in K : k < j}
      BY Zenon
    <3>8. B \in SUBSET (1..Len(rows)) /\ Cardinality(B) = 0
      BY <3>1, <3>6, <3>7, Zenon
    <3>9. {Cardinality({k \in B : k < b}) : b \in B} = 0..(Cardinality(B) - 1)
      BY <3>8, Zenon DEF Ranks
    <3>10. 0..(0 - 1) = {}
      OBVIOUS
    <3>11. B = {}
      BY <3>8, <3>9, <3>10, Zenon
    <3>12. \A k \in K : ~(k < j)
      BY <3>7, <3>11, Zenon
    <3>13. j \in 1..Len(rows) /\ Conflicting(t, info, rows[j])
      BY <3>6, Zenon DEF K
    <3>14. \A k \in 1..(j - 1) : k \in 1..Len(rows) /\ k < j
      BY <3>13
    <3>15. First(j)
      BY <3>12, <3>13, <3>14, Zenon DEF K
    <3>16. j \in 1..(Len(rows) + 1)
      BY <3>13
    <3> QED BY <3>15, <3>16, Zenon
  <2> QED BY <2>1, <2>2, Zenon
<1>2. FirstConflict(t, info, rows) = CHOOSE n \in 1..(Len(rows) + 1) : First(n)
  BY Zenon DEF FirstConflict
<1> HIDE DEF First
<1>3. FirstConflict(t, info, rows) \in 1..(Len(rows) + 1) /\ First(FirstConflict(t, info, rows))
  BY <1>1, <1>2, Zenon
<1> QED BY <1>3, Zenon DEF First

\* A statement asks for visible rows only.
LEMMA InputVisible ==
    ASSUME PlainTypes, AtMostOnce, NEW t \in Txns, Len(undo[t]) < MAX_DELETES, NEW v \in Vectors,
           NEW rows \in DeleteInput(t, v), NEW j \in 1..Len(rows)
    PROVE  Row(v, rows[j]) \in Scan(t)
<1> DEFINE visible == {i \in Rows : t \in Writers /\ v * STANDARD_VECTOR_SIZE + i \in Scan(t)}
           allowed == IF RepeatedRows THEN visible \cup DeletedBy(t, v) ELSE visible
<1>1. rows \in UNION {[1..n -> allowed] : n \in 1..STANDARD_VECTOR_SIZE}
  BY Zenon DEF DeleteInput
<1>2. allowed = visible
  <2>1. CASE ~RepeatedRows
    BY <2>1, Zenon
  <2>2. CASE RepeatedRows
    <3>1. undo[t] \in Seq(Entries)
      BY Zenon DEF PlainTypes
    <3>2. MAX_DELETES \in Nat /\ MAX_DELETES <= 1
      BY <2>2, RowVersionsAssumption, Zenon DEF AtMostOnce
    <3>3. Len(undo[t]) = 0
      <4>1. Len(undo[t]) \in Nat
        BY <3>1
      <4> QED BY <4>1, <3>2
    <3>4. 1..Len(undo[t]) = {}
      BY <3>3
    <3>5. DeletedBy(t, v) = {}
      BY <3>4, Zenon DEF DeletedBy
    <3> QED BY <3>5, Zenon
  <2> QED BY <2>1, <2>2, Zenon
<1> HIDE DEF allowed, visible
<1>3. PICK n \in 1..STANDARD_VECTOR_SIZE : rows \in [1..n -> visible]
  BY <1>1, <1>2, Zenon
<1>4. DOMAIN rows = 1..n /\ DOMAIN rows = 1..Len(rows)
  BY <1>3, InputRows, Zenon
<1>5. rows[j] \in visible
  BY <1>3, <1>4, Zenon
<1> QED BY <1>5, Zenon DEF visible, Row

\* What Delete does to the marks.  On a conflict all marks are as before;
\* otherwise it marks a set N of rows that were free and are not of an open append.
DeleteOutcome(t, v) ==
    /\ \A w \in Vectors : Summarised(vector_info'[w])
    /\ \A w \in Vectors \ {v} : vector_info'[w] = vector_info[w]
    /\ vector_info'[v].type = "vector"
    /\ vector_info[v].type = "constant" => vector_info[v].delete_id = NOT_DELETED_ID
    /\ \/ /\ pc' = [pc EXCEPT ![t] = "failed"] /\ UNCHANGED undo
          /\ \A i \in Rows : Mark(vector_info'[v], i) = Mark(vector_info[v], i)
       \/ \E N \in SUBSET Rows :
            /\ UNCHANGED pc
            /\ \A i \in N : Mark(vector_info[v], i) = NOT_DELETED_ID /\ Placed(v, i)
            /\ \A i \in N : Mark(vector_info'[v], i) = transaction_id[t]
            /\ \A i \in Rows \ N : Mark(vector_info'[v], i) = Mark(vector_info[v], i)
            /\ \/ N = {} /\ UNCHANGED undo
               \/ /\ N # {}
                  /\ \E e : /\ undo' = [undo EXCEPT ![t] = Append(undo[t], e)]
                            /\ e.type = "delete" /\ e.vector = v /\ DeletedRows(e) = N

\* Delete has that outcome for every input that is a list of visible rows.
LEMMA DeleteEffect ==
    ASSUME RowTypes, PhaseInv, AppendInv, SummaryInv, Low, Ranks, AtMostOnce,
           NEW t \in Txns, pc[t] = "running", Len(undo[t]) < MAX_DELETES, NEW v \in Vectors,
           NEW rows \in DeleteInput(t, v), Delete(t, v, rows)
    PROVE  DeleteOutcome(t, v)
<1> DEFINE info == [GetVectorInfo(v) EXCEPT !.any_deleted = TRUE]
           n    == FirstConflict(t, info, rows) - 1
           new  == NewlyDeleted(t, info, rows, n)
           N    == {rows[j] : j \in new}
           U    == Unset(t, info, rows, n)
           id   == transaction_id[t]
           marked == CommitDelete1(info, N, id)
           unset  == CommitDelete1(marked, U, NOT_DELETED_ID)
           e    == DeleteEntry(t, v, info, rows)
<1>1. /\ rows \in Seq(Rows) /\ Len(rows) \in Nat /\ Len(rows) > 0
      /\ \A j \in 1..Len(rows) : rows[j] \in Rows
  <2>1. Len(rows) \in 1..STANDARD_VECTOR_SIZE /\ STANDARD_VECTOR_SIZE \in Nat
    BY InputRows, RowVersionsAssumption, Zenon DEF RowTypes
  <2> QED BY <2>1, InputRows DEF RowTypes
<1>2. \A j \in 1..Len(rows) : Row(v, rows[j]) \in Scan(t)
  BY InputVisible, Zenon DEF RowTypes
<1>3. \A j \in 1..Len(rows) :
        /\ Placed(v, rows[j]) /\ Mark(vector_info[v], rows[j]) # id
        /\ vector_info[v].type = "constant" => vector_info[v].delete_id = NOT_DELETED_ID
  BY <1>1, <1>2, VisibleRow, Zenon
<1>4. vector_info[v] \in InfosOver(Stamps)
  BY InfoTyped, Zenon
<1>5. NOT_DELETED_ID \in Stamps /\ id \in Stamps
  BY StampsHave, Zenon DEF RowTypes, PhaseInv
<1>6. GetVectorInfo(v) \in ChunkVectors(Stamps)
  BY <1>4, <1>5, StampsHave, GetType, Zenon DEF RowTypes, PhaseInv
<1>7. /\ info \in ChunkVectors(Stamps) /\ info.any_deleted = TRUE
      /\ \A i \in Rows : info.deleted[i] = GetVectorInfo(v).deleted[i]
  BY <1>6, AnyDeleted, Zenon
<1>24. vector_info[v].type = "constant" => vector_info[v].delete_id = NOT_DELETED_ID
  <2>1. 1 \in 1..Len(rows)
    BY <1>1
  <2> QED BY <2>1, <1>3, Zenon
<1>8. \A i \in Rows : GetVectorInfo(v).deleted[i] = Mark(vector_info[v], i)
  <2> TAKE i \in Rows
  <2>2. CASE vector_info[v] \in Nones
    BY <2>2, Zenon DEF Nones, GetVectorInfo, VectorInfo, Mark
  <2>3. CASE vector_info[v] \in Constants(Stamps)
    BY <1>24, <2>3, Zenon DEF Constants, GetVectorInfo, VectorInfo, Mark
  <2>4. CASE vector_info[v] \in ChunkVectors(Stamps)
    <3>1. vector_info[v].type = "vector" /\ Mark(vector_info[v], i) = vector_info[v].deleted[i]
      BY <2>4, VectorMark, Zenon
    <3> QED BY <3>1, Zenon DEF GetVectorInfo
  <2> QED BY <2>2, <2>3, <2>4, <1>4, Zenon DEF InfosOver
<1>9. \A i \in Rows : info.deleted[i] = Mark(vector_info[v], i)
  BY <1>7, <1>8, Zenon
<1> HIDE DEF info
<1>10. /\ n \in 0..Len(rows) /\ \A j \in 1..n : ~Conflicting(t, info, rows[j])
  BY <1>1, FirstConflictIs
<1> HIDE DEF n
<1>11. \A j \in 1..n : /\ j \in 1..Len(rows) /\ rows[j] \in Rows
                       /\ Mark(vector_info[v], rows[j]) = NOT_DELETED_ID /\ Placed(v, rows[j])
  <2> TAKE j \in 1..n
  <2>1. j \in 1..Len(rows)
    BY <1>1, <1>10
  <2>2. rows[j] \in Rows /\ Mark(vector_info[v], rows[j]) # id /\ Placed(v, rows[j])
    BY <2>1, <1>1, <1>3, Zenon
  <2>3. Mark(vector_info[v], rows[j]) \in {id, NOT_DELETED_ID}
    BY <2>2, <1>9, <1>10, Zenon DEF Conflicting
  <2> QED BY <2>1, <2>2, <2>3, Zenon
<1>12. new \subseteq 1..n
  BY Zenon DEF NewlyDeleted
<1>13. U = {rows[j] : j \in new \cup ((Cardinality(new) + 1)..n)}
  BY Zenon DEF Unset
<1> HIDE DEF new, U
<1>14. N \subseteq U /\ N \in SUBSET Rows
  BY <1>11, <1>12, <1>13, Zenon
<1>15. \A i \in N : Mark(vector_info[v], i) = NOT_DELETED_ID /\ Placed(v, i)
  BY <1>11, <1>12, Zenon
<1>16. U \subseteq Rows /\ \A i \in U : Mark(vector_info[v], i) = NOT_DELETED_ID
  <2>1. Cardinality(new) \in Nat
    <3>1. new \in SUBSET (1..n) /\ n \in Nat
      BY <1>1, <1>10, <1>12
    <3>2. Cardinality(new) \in 0..n
      BY <3>1, Zenon DEF Ranks
    <3> QED BY <3>1, <3>2
  <2>2. (Cardinality(new) + 1)..n \subseteq 1..n
    BY <2>1, <1>1, <1>10
  <2>3. \A i \in U : \E j \in 1..n : i = rows[j]
    BY <2>2, <1>12, <1>13, Zenon
  <2> QED BY <2>3, <1>11, Zenon
<1> HIDE DEF N, id
<1>17. /\ marked \in ChunkVectors(Stamps) /\ marked.any_deleted = TRUE
       /\ \A i \in Rows : Mark(marked, i) = IF i \in N THEN id ELSE Mark(vector_info[v], i)
  <2>1. \A i \in Rows : Mark(info, i) = Mark(vector_info[v], i)
    BY <1>7, <1>9, VectorMark, Zenon
  <2>2. info \in ChunkVectors(Stamps) /\ info.any_deleted = TRUE
    BY <1>7, Zenon
  <2>3. /\ marked \in ChunkVectors(Stamps) /\ marked.any_deleted = TRUE
        /\ \A i \in Rows : Mark(marked, i) = IF i \in N THEN id ELSE Mark(info, i)
    <3>1. marked \in ChunkVectors(Stamps) /\ Remarked(marked, info, N, id)
      BY <2>2, <1>5, CommitDelete1Type, CommitDelete1Mark, Zenon
    <3> QED BY <3>1, <2>2, Zenon DEF Remarked
  <2> HIDE DEF marked
  <2> QED BY <2>1, <2>3, Zenon
<1> HIDE DEF marked
<1>18. /\ unset \in ChunkVectors(Stamps) /\ unset.any_deleted = TRUE
       /\ \A i \in Rows : Mark(unset, i) = IF i \in U THEN NOT_DELETED_ID ELSE Mark(marked, i)
  <2>1. marked \in ChunkVectors(Stamps) /\ marked.any_deleted = TRUE
    BY <1>17, Zenon
  <2>2. unset \in ChunkVectors(Stamps) /\ Remarked(unset, marked, U, NOT_DELETED_ID)
    BY <2>1, <1>5, CommitDelete1Type, CommitDelete1Mark, Zenon
  <2> QED BY <2>1, <2>2, Zenon DEF Remarked
<1> HIDE DEF unset
<1>19. \/ /\ vector_info' = [vector_info EXCEPT ![v] = unset]
          /\ pc' = [pc EXCEPT ![t] = "failed"] /\ UNCHANGED undo
       \/ /\ n = Len(rows) /\ vector_info' = [vector_info EXCEPT ![v] = marked] /\ UNCHANGED pc
          /\ undo' = [undo EXCEPT ![t] = IF new = {} THEN @ ELSE Append(@, e)]
  <2>1. IF n < Len(rows)
        THEN /\ vector_info' = [vector_info EXCEPT ![v] = unset]
             /\ pc' = [pc EXCEPT ![t] = "failed"] /\ UNCHANGED undo
        ELSE /\ vector_info' = [vector_info EXCEPT ![v] = marked] /\ UNCHANGED pc
             /\ undo' = [undo EXCEPT ![t] = IF new = {} THEN @ ELSE Append(@, e)]
    BY Zenon DEF Delete, info, n, new, U, N, id, marked, unset
  <2>2. n < Len(rows) \/ n = Len(rows)
    BY <1>1, <1>10
  <2> QED BY <2>1, <2>2, Zenon
<1>20. vector_info \in [Vectors -> Infos] /\ undo \in [Txns -> Seq(Entries)]
  BY Zenon DEF RowTypes, PlainTypes
<1>21. ASSUME NEW x \in ChunkVectors(Stamps), x.any_deleted = TRUE,
              vector_info' = [vector_info EXCEPT ![v] = x]
       PROVE  /\ \A w \in Vectors : Summarised(vector_info'[w])
              /\ \A w \in Vectors \ {v} : vector_info'[w] = vector_info[w]
              /\ vector_info'[v].type = "vector"
              /\ \A i \in Rows : Mark(vector_info'[v], i) = Mark(x, i)
  <2>1. vector_info'[v] = x /\ \A w \in Vectors \ {v} : vector_info'[w] = vector_info[w]
    BY <1>20, <1>21, Zenon
  <2>2. x.type = "vector" /\ Summarised(x)
    <3>1. x.type = "vector"
      BY VectorMark, Zenon
    <3> QED BY <3>1, <1>21, Zenon DEF Summarised
  <2>3. \A w \in Vectors : Summarised(vector_info'[w])
    BY <2>1, <2>2, Zenon DEF SummaryInv
  <2>4. \A i \in Rows : Mark(vector_info'[v], i) = Mark(x, i)
    BY <2>1, Zenon
  <2> QED BY <2>1, <2>2, <2>3, <2>4, Zenon
<1>22. CASE /\ vector_info' = [vector_info EXCEPT ![v] = unset]
            /\ pc' = [pc EXCEPT ![t] = "failed"] /\ UNCHANGED undo
  <2>1. \A i \in Rows : Mark(unset, i) = Mark(vector_info[v], i)
    BY <1>14, <1>16, <1>17, <1>18, Zenon
  <2> QED BY <2>1, <1>18, <1>21, <1>22, <1>24, Zenon DEF DeleteOutcome
<1>23. CASE /\ n = Len(rows) /\ vector_info' = [vector_info EXCEPT ![v] = marked] /\ UNCHANGED pc
            /\ undo' = [undo EXCEPT ![t] = IF new = {} THEN @ ELSE Append(@, e)]
  <2>2. \A i \in Rows : Mark(vector_info'[v], i) = IF i \in N THEN id ELSE Mark(vector_info[v], i)
    <3>1. \A i \in Rows : Mark(vector_info'[v], i) = Mark(marked, i)
      BY <1>17, <1>21, <1>23, Zenon
    <3> QED BY <3>1, <1>17, Zenon
  <2>3. /\ e.type = "delete" /\ e.vector = v
        /\ DeletedRows(e) = N
    <3>1. /\ e.type = "delete" /\ e.vector = v
          /\ DeletedRows(e) = {rows[j] : j \in NewlyDeleted(t, info, rows, Len(rows))}
      BY EntryTyped DEF RowTypes
    <3> HIDE DEF e
    <3> QED BY <3>1, <1>23, Zenon DEF N, new
  <2>4. \/ N = {} /\ UNCHANGED undo
        \/ /\ N # {}
           /\ undo' = [undo EXCEPT ![t] = Append(undo[t], e)]
    <3>1. CASE new = {}
      <4>1. N = {} /\ undo' = [undo EXCEPT ![t] = undo[t]]
        BY <3>1, <1>23, Zenon DEF N
      <4> QED BY <4>1, <1>20, Zenon
    <3>2. CASE new # {}
      BY <3>2, <1>23, Zenon DEF N
    <3> QED BY <3>1, <3>2, Zenon
  <2> HIDE DEF e
  <2>5. /\ \A i \in N : Mark(vector_info'[v], i) = transaction_id[t]
        /\ \A i \in Rows \ N : Mark(vector_info'[v], i) = Mark(vector_info[v], i)
    BY <2>2, <1>14, Zenon DEF id
  <2> QED BY <2>3, <2>4, <2>5, <1>14, <1>15, <1>17, <1>21, <1>23, <1>24, Zenon DEF DeleteOutcome
<1> QED BY <1>19, <1>22, <1>23, Zenon

\* RowGroup::Delete keeps MarkInv, with or without a conflict.
LEMMA DeleteMarks ==
    ASSUME RowTypes, PhaseInv, AppendInv, MarkInv, Low, Ranks, AtMostOnce,
           NEW t \in Txns, pc[t] = "running", Len(undo[t]) < MAX_DELETES, NEW v \in Vectors,
           NEW rows \in DeleteInput(t, v), Delete(t, v, rows)
    PROVE  MarkInv'
<1>1. /\ has_unserialized_changes' = TRUE /\ UNCHANGED <<count, disk, transaction_id, commit_id, pos>>
  BY Zenon DEF Delete, times
<1>2. pc \in [Txns -> {"idle", "committed", "aborted", "cleaned"} \cup Open \cup Finishing]
      /\ undo \in [Txns -> Seq(Entries)]
  BY Zenon DEF RowTypes, PlainTypes
<1>3. /\ \A w \in Vectors : Summarised(vector_info'[w])
      /\ \A w \in Vectors \ {v} : vector_info'[w] = vector_info[w]
      /\ \/ /\ pc' = [pc EXCEPT ![t] = "failed"] /\ UNCHANGED undo
            /\ \A i \in Rows : Mark(vector_info'[v], i) = Mark(vector_info[v], i)
         \/ \E N \in SUBSET Rows :
              /\ UNCHANGED pc
              /\ \A i \in N : Mark(vector_info[v], i) = NOT_DELETED_ID /\ Placed(v, i)
              /\ \A i \in N : Mark(vector_info'[v], i) = transaction_id[t]
              /\ \A i \in Rows \ N : Mark(vector_info'[v], i) = Mark(vector_info[v], i)
              /\ \/ N = {} /\ UNCHANGED undo
                 \/ /\ N # {}
                    /\ \E e : /\ undo' = [undo EXCEPT ![t] = Append(undo[t], e)]
                              /\ e.type = "delete" /\ e.vector = v /\ DeletedRows(e) = N
  <2>1. SummaryInv
    BY Zenon DEF MarkInv
  <2>2. DeleteOutcome(t, v)
    BY <2>1, DeleteEffect, Zenon
  <2> QED BY <2>2, Zenon DEF DeleteOutcome
<1>4. SummaryInv'
  BY <1>1, <1>3, Zenon DEF MarkInv, SummaryInv, disk
<1>5. /\ \A u \in Txns \ {t} : pc'[u] = pc[u] /\ undo'[u] = undo[u]
      /\ pc'[t] \in {"running", "failed"}
  BY <1>2, <1>3, Zenon
<1>6. \A w \in Vectors, i \in Rows : Placed(w, i) => Placed(w, i)'
  <2>1. \A u \in Txns, m \in 0..MAX_ROWS : AppendsFrom(u, m)' => AppendsFrom(u, m)
    <3> SUFFICES ASSUME NEW u \in Txns, NEW m \in 0..MAX_ROWS, AppendsFrom(u, m)' PROVE AppendsFrom(u, m)
      BY Zenon
    <3>1. u # t
      BY <1>5, Zenon DEF AppendsFrom, Appending, Finishing
    <3> QED BY <3>1, <1>5, Zenon DEF AppendsFrom
  <2> QED BY <2>1, <1>1, Zenon DEF Placed
<1>7. CASE /\ UNCHANGED undo /\ \A i \in Rows : Mark(vector_info'[v], i) = Mark(vector_info[v], i)
  <2>1. \A w \in Vectors, i \in Rows : Mark(vector_info'[w], i) = Mark(vector_info[w], i)
    BY <1>3, <1>7, Zenon
  <2>2. pc[t] \in Open /\ pc'[t] \in Open /\ pc[t] # "undoing" /\ pc'[t] # "undoing"
        /\ pc[t] # "aborted" /\ pc'[t] # "aborted"
    BY <1>5, Zenon DEF Open
  <2>3. \A u \in Txns : \A k \in 1..Len(undo'[u]) : undo'[u][k].type = "delete" =>
              /\ k \in 1..Len(undo[u]) /\ undo'[u][k] = undo[u][k]
              /\ \A w \in Vectors, i \in Rows : Deletes(u, k, w, i)' =>
                   /\ Deletes(u, k, w, i)
                   /\ Placed(w, i) /\ Marked(u, k, w, i) => Placed(w, i)' /\ Marked(u, k, w, i)'
    <3> SUFFICES ASSUME NEW u \in Txns, NEW k \in 1..Len(undo[u]), undo[u][k].type = "delete",
                        NEW w \in Vectors, NEW i \in Rows, Deletes(u, k, w, i)'
                 PROVE  /\ Deletes(u, k, w, i)
                        /\ Placed(w, i) /\ Marked(u, k, w, i) => Placed(w, i)' /\ Marked(u, k, w, i)'
      BY <1>7, Zenon
    <3>1. Deletes(u, k, w, i)
      BY <1>1, <1>5, <1>7, <2>2, Zenon DEF Deletes
    <3>2. ASSUME Marked(u, k, w, i) PROVE Marked(u, k, w, i)'
      <4>1. CASE u = t
        <5>1. Mark(vector_info[w], i)' = transaction_id[t]'
          BY <4>1, <3>2, <2>1, <2>2, <1>1, Zenon DEF Marked
        <5>2. pc'[t] \notin {"stamping", "reverting", "undoing", "committed", "cleaned"}
          BY <1>5, Zenon
        <5> QED BY <4>1, <5>1, <5>2, <1>1, Zenon DEF Marked
      <4>2. CASE u # t
        BY <4>2, <3>2, <2>1, <1>1, <1>5, MarkedStays, Zenon
      <4> QED BY <4>1, <4>2, Zenon
    <3> QED BY <3>1, <3>2, <1>6, Zenon
  <2>4. \A u \in Txns : pc'[u] \in Open =>
              \A w \in Vectors, i \in Rows : Mark(vector_info'[w], i) = transaction_id'[u] =>
                 /\ pc[u] \in Open /\ Mark(vector_info[w], i) = transaction_id[u]
                 /\ \A k \in 1..Len(undo[u]) : Deletes(u, k, w, i) =>
                      k \in 1..Len(undo'[u]) /\ Deletes(u, k, w, i)'
    <3> SUFFICES ASSUME NEW u \in Txns, pc'[u] \in Open, NEW w \in Vectors, NEW i \in Rows,
                        Mark(vector_info'[w], i) = transaction_id'[u]
                 PROVE  /\ pc[u] \in Open /\ Mark(vector_info[w], i) = transaction_id[u]
                        /\ \A k \in 1..Len(undo[u]) : Deletes(u, k, w, i) =>
                             k \in 1..Len(undo'[u]) /\ Deletes(u, k, w, i)'
      BY Zenon
    <3>1. pc[u] \in Open /\ Mark(vector_info[w], i) = transaction_id[u]
      BY <1>1, <1>5, <2>1, <2>2, Zenon
    <3>2. pc'[u] # "aborted" /\ pc'[u] # "undoing"
      BY Zenon DEF Open
    <3> QED BY <3>1, <3>2, <1>7, Zenon DEF Deletes
  <2> QED BY <2>3, <2>4, <1>4, KeepMarks, Zenon
<1>8. ASSUME NEW N \in SUBSET Rows, N # {}, UNCHANGED pc,
             \A i \in N : Mark(vector_info[v], i) = NOT_DELETED_ID /\ Placed(v, i),
             \A i \in N : Mark(vector_info'[v], i) = transaction_id[t],
             \A i \in Rows \ N : Mark(vector_info'[v], i) = Mark(vector_info[v], i),
             NEW e, undo' = [undo EXCEPT ![t] = Append(undo[t], e)],
             e.type = "delete", e.vector = v, DeletedRows(e) = N
      PROVE  MarkInv'
  <2>1. \A w \in Vectors, i \in Rows : (w # v \/ i \notin N) =>
            Mark(vector_info'[w], i) = Mark(vector_info[w], i)
    BY <1>3, <1>8, Zenon
  <2>2. \A i \in N : Mark(vector_info'[v], i) = transaction_id[t]
    BY <1>8, Zenon
  <2>3. PICK K : K = Len(undo[t]) + 1
    BY Zenon
  <2>4. /\ undo[t] \in Seq(Entries) /\ Len(undo[t]) \in Nat
    <3>1. undo[t] \in Seq(Entries)
      BY <1>2, Zenon
    <3> QED BY <3>1
  <2>5. undo'[t] = Append(undo[t], e)
    BY <1>2, <1>8, Zenon
  <2>6. /\ K \in 1..Len(undo'[t]) /\ undo'[t][K] = e
        /\ \A k \in 1..Len(undo'[t]) : k = K \/ (k \in 1..Len(undo[t]) /\ undo'[t][k] = undo[t][k])
        /\ \A k \in 1..Len(undo[t]) : k \in 1..Len(undo'[t]) /\ undo'[t][k] = undo[t][k]
    BY <2>3, <2>4, <2>5
  \* Entry k of u is an old one.
  <2> DEFINE Old(u, k) == u # t \/ k # K
  <2>7. \A u \in Txns : \A k \in 1..Len(undo'[u]) : Old(u, k) =>
            k \in 1..Len(undo[u]) /\ undo'[u][k] = undo[u][k]
    BY <2>6, <1>5, Zenon
  <2>8. \A u \in Txns : \A k \in 1..Len(undo'[u]), w \in Vectors, i \in Rows :
            Deletes(u, k, w, i)' /\ Old(u, k) => Deletes(u, k, w, i) /\ (w # v \/ i \notin N)
    <3> SUFFICES ASSUME NEW u \in Txns, NEW k \in 1..Len(undo'[u]), NEW w \in Vectors, NEW i \in Rows,
                        Deletes(u, k, w, i)', Old(u, k)
                 PROVE  Deletes(u, k, w, i) /\ (w # v \/ i \notin N)
      BY Zenon
    <3>1. k \in 1..Len(undo[u]) /\ Deletes(u, k, w, i)
      BY <2>7, <1>1, <1>8, Zenon DEF Deletes
    <3>2. Mark(vector_info[w], i) # NOT_DELETED_ID
      BY <3>1, NotFree, Zenon
    <3> QED BY <3>1, <3>2, <1>8, Zenon
  <2>9. \A w \in Vectors, i \in Rows : Deletes(t, K, w, i)' <=> w = v /\ i \in N
    BY <2>6, <1>8, Zenon DEF Deletes
  <2> HIDE DEF Old
  <2>10. EntryInv'
    <3> SUFFICES ASSUME NEW u \in Txns, NEW k \in 1..Len(undo'[u]), NEW w \in Vectors, NEW i \in Rows,
                        Deletes(u, k, w, i)'
                 PROVE  Placed(w, i)' /\ Marked(u, k, w, i)'
      BY Zenon DEF EntryInv
    <3>1. CASE Old(u, k)
      <4>1. k \in 1..Len(undo[u]) /\ Deletes(u, k, w, i) /\ (w # v \/ i \notin N)
        BY <3>1, <2>7, <2>8, Zenon
      <4>2. Placed(w, i) /\ Marked(u, k, w, i)
        BY <4>1, Zenon DEF MarkInv, EntryInv
      <4>3. Mark(vector_info'[w], i) = Mark(vector_info[w], i)
        BY <4>1, <2>1, Zenon
      <4>4. Marked(u, k, w, i)'
        BY <4>2, <4>3, <1>1, <1>8, MarkedStays, Zenon
      <4> QED BY <4>2, <4>4, <1>6, Zenon
    <3>2. CASE ~Old(u, k)
      <4>1. u = t /\ k = K /\ w = v /\ i \in N
        BY <3>2, <2>9, Zenon DEF Old
      <4>2. Placed(w, i)'
        BY <4>1, <1>6, <1>8, Zenon
      <4>3. Mark(vector_info[w], i)' = transaction_id[u]'
        BY <4>1, <2>2, <1>1, Zenon
      <4>4. pc'[u] \notin {"stamping", "reverting", "undoing", "committed", "cleaned"}
        BY <4>1, <1>8, Zenon
      <4>5. Marked(u, k, w, i)'
        BY <4>3, <4>4, <1>1, Zenon DEF Marked
      <4> QED BY <4>2, <4>5, Zenon
    <3> QED BY <3>1, <3>2, Zenon
  <2>11. OnceInv'
    <3> SUFFICES ASSUME NEW u \in Txns, NEW k \in 1..Len(undo'[u]), undo'[u][k].type = "delete"
                 PROVE  /\ DeletedRows(undo'[u][k]) # {}
                        /\ \A w \in Vectors, i \in Rows, x \in Txns : \A l \in 1..Len(undo'[x]) :
                             Deletes(u, k, w, i)' /\ Deletes(x, l, w, i)' => x = u /\ l = k
      BY Zenon DEF OnceInv
    <3>1. DeletedRows(undo'[u][k]) # {}
      <4>1. CASE Old(u, k)
        BY <4>1, <2>7, Zenon DEF MarkInv, OnceInv
      <4>2. CASE ~Old(u, k)
        BY <4>2, <2>6, <1>8, Zenon DEF Old
      <4> QED BY <4>1, <4>2, Zenon
    <3>2. ASSUME NEW w \in Vectors, NEW i \in Rows, NEW x \in Txns, NEW l \in 1..Len(undo'[x]),
                 Deletes(u, k, w, i)', Deletes(x, l, w, i)'
          PROVE  x = u /\ l = k
      <4>1. CASE Old(u, k) /\ Old(x, l)
        <5>1. /\ k \in 1..Len(undo[u]) /\ Deletes(u, k, w, i) /\ undo[u][k].type = "delete"
              /\ l \in 1..Len(undo[x]) /\ Deletes(x, l, w, i)
          BY <4>1, <3>2, <2>7, <2>8, Zenon
        <5> QED BY <5>1, Zenon DEF MarkInv, OnceInv
      <4>2. CASE Old(u, k) /\ ~Old(x, l)
        <5>1. (w # v \/ i \notin N) /\ x = t /\ l = K
          BY <4>2, <3>2, <2>8, Zenon DEF Old
        <5> QED BY <5>1, <3>2, <2>9, Zenon
      <4>3. CASE ~Old(u, k) /\ Old(x, l)
        <5>1. (w # v \/ i \notin N) /\ u = t /\ k = K
          BY <4>3, <3>2, <2>8, Zenon DEF Old
        <5> QED BY <5>1, <3>2, <2>9, Zenon
      <4>4. CASE ~Old(u, k) /\ ~Old(x, l)
        BY <4>4, Zenon DEF Old
      <4> QED BY <4>1, <4>2, <4>3, <4>4, Zenon
    <3> QED BY <3>1, <3>2, Zenon
  <2>12. OwnInv'
    <3> SUFFICES ASSUME NEW u \in Txns, NEW w \in Vectors, NEW i \in Rows, pc'[u] \in Open,
                        Mark(vector_info'[w], i) = transaction_id'[u]
                 PROVE  \E k \in 1..Len(undo'[u]) : Deletes(u, k, w, i)'
      BY Zenon DEF OwnInv
    <3>1. CASE w = v /\ i \in N
      <4>1. transaction_id[t] = transaction_id[u]
        BY <3>1, <2>2, <1>1, Zenon
      <4>2. pc[u] # "idle" /\ pc[t] # "idle"
        BY <1>8, Zenon DEF Open
      <4>3. u = t
        BY <4>1, <4>2, Zenon DEF PhaseInv, IdInv
      <4> QED BY <4>3, <3>1, <2>6, <2>9, Zenon
    <3>2. CASE w # v \/ i \notin N
      <4>1. Mark(vector_info[w], i) = transaction_id[u] /\ pc[u] \in Open
        BY <3>2, <2>1, <1>1, <1>8, Zenon
      <4>2. PICK k \in 1..Len(undo[u]) : Deletes(u, k, w, i)
        BY <4>1, Zenon DEF MarkInv, OwnInv
      <4>3. k \in 1..Len(undo'[u]) /\ undo'[u][k] = undo[u][k]
        BY <2>6, <1>5, Zenon
      <4>4. Deletes(u, k, w, i)'
        BY <4>2, <4>3, <1>1, <1>8, Zenon DEF Deletes
      <4> QED BY <4>3, <4>4, Zenon
    <3> QED BY <3>1, <3>2, Zenon
  <2> QED BY <2>10, <2>11, <2>12, <1>4, Zenon DEF MarkInv
<1>9. CASE /\ pc' = [pc EXCEPT ![t] = "failed"] /\ UNCHANGED undo
           /\ \A i \in Rows : Mark(vector_info'[v], i) = Mark(vector_info[v], i)
  BY <1>7, <1>9, Zenon
<1>10. ASSUME NEW N \in SUBSET Rows,
              /\ UNCHANGED pc
              /\ \A i \in N : Mark(vector_info[v], i) = NOT_DELETED_ID /\ Placed(v, i)
              /\ \A i \in N : Mark(vector_info'[v], i) = transaction_id[t]
              /\ \A i \in Rows \ N : Mark(vector_info'[v], i) = Mark(vector_info[v], i),
              \/ N = {} /\ UNCHANGED undo
              \/ /\ N # {}
                 /\ \E e : /\ undo' = [undo EXCEPT ![t] = Append(undo[t], e)]
                           /\ e.type = "delete" /\ e.vector = v /\ DeletedRows(e) = N
       PROVE  MarkInv'
  <2>1. CASE N = {} /\ UNCHANGED undo
    <3>1. \A i \in Rows : Mark(vector_info'[v], i) = Mark(vector_info[v], i)
      BY <2>1, <1>10, Zenon
    <3> QED BY <3>1, <2>1, <1>7, Zenon
  <2>2. CASE N # {} /\ \E e : /\ undo' = [undo EXCEPT ![t] = Append(undo[t], e)]
                              /\ e.type = "delete" /\ e.vector = v /\ DeletedRows(e) = N
    BY <2>2, <1>8, <1>10, Zenon
  <2> QED BY <2>1, <2>2, <1>10, Zenon
<1> QED BY <1>3, <1>9, <1>10, Zenon

\* Every step keeps MarkInv.
LEMMA MarkStep ==
    ASSUME RowTypes, PhaseInv, AppendInv, MarkInv, Low, Ranks, AtMostOnce, Next
    PROVE  MarkInv'
<1>1. CASE \E t \in Txns : StartTransaction(t)
  BY <1>1, StartMarks, Zenon
<1>2. CASE \E t \in Txns : /\ pc[t] = "running" /\ Len(undo[t]) < MAX_DELETES
                           /\ \E v \in Vectors : \E rows \in DeleteInput(t, v) : Delete(t, v, rows)
  BY <1>2, DeleteMarks, Zenon
<1>3. CASE \E t \in Txns : \E n \in 0..MAX_ROWS : Flush(t, n)
  <2>1. PICK t \in Txns, n \in 0..MAX_ROWS : Flush(t, n)
    BY <1>3, Zenon
  <2>2. n = 0 \/ n > 0
    BY RowVersionsAssumption
  <2>3. CASE n > 0
    BY <2>1, <2>3, FlushMarks, Zenon
  <2>4. CASE n = 0
    BY <2>1, <2>4, PhaseMarkSteps, Zenon
  <2> QED BY <2>2, <2>3, <2>4, Zenon
<1>4. CASE \E t \in Txns : \E n \in 0..MAX_ROWS : FlushFails(t, n)
  BY <1>4, FlushFailsMarks, Zenon
<1>5. CASE \E t \in Txns : \/ \E to \in {"stamping", "reverting", "undoing"} : Commit(t, to)
                           \/ CommitReadOnly(t) \/ RemoveCommitted(t) \/ RemoveAborted(t)
                           \/ CommitFails(t) \/ RollbackTransaction(t)
  BY <1>5, PhaseMarkSteps, Zenon
<1>6. CASE \E t \in Txns : CommitEntry(t) \/ RevertCommitEntry(t) \/ RollbackEntry(t)
  BY <1>6, EntryMarks, Zenon
<1>7. CASE \E t \in Txns : Cleanup(t)
  BY <1>7, CleanupMarks, Zenon
<1>8. CASE Checkpoint
  BY <1>8, CheckpointMarks, Zenon
<1>9. CASE Reopen
  BY <1>9, ReopenMarks, Zenon
<1> QED BY <1>1, <1>2, <1>3, <1>4, <1>5, <1>6, <1>7, <1>8, <1>9, Zenon DEF Next

\* TypeOK follows from the types and the places.
LEMMA TypesFollow ==
    ASSUME RowTypes, PhaseInv
    PROVE  TypeOK
<1>1. ASSUME NEW t \in Txns PROVE pos[t] \in 0..(Len(undo[t]) + 1)
  <2>1. pos[t] \in Nat /\ undo[t] \in Seq(Entries) /\ pos[t] <= Len(undo[t]) + 1
    BY Zenon DEF RowTypes, PlainTypes, PhaseInv, PositionInv
  <2>2. Len(undo[t]) \in Nat
    BY <2>1
  <2>3. ASSUME NEW p \in Nat, NEW n \in Nat, p <= n + 1 PROVE p \in 0..(n + 1)
    BY <2>3
  <2> QED BY <2>1, <2>2, <2>3, Zenon
<1>2. storage_count \in Nat
  BY RowVersionsAssumption DEF RowTypes, PlainTypes
<1> QED BY <1>1, <1>2, Zenon DEF RowTypes, PlainTypes, PhaseInv, IdInv, TypeOK

\* A row that u has deleted is in one of its delete entries.
LEMMA DeletedIs ==
    ASSUME RowTypes, NEW u \in Txns, NEW r
    PROVE  r \in AllDeletedBy(u) <=>
             \E k \in 1..Len(undo[u]) : \E v \in Vectors, i \in Rows :
                /\ r = Row(v, i) /\ undo[u][k].type = "delete" /\ undo[u][k].vector = v
                /\ i \in DeletedRows(undo[u][k])
<1>1. \A k \in 1..Len(undo[u]) : undo[u][k].type = "delete" =>
          undo[u][k].vector \in Vectors /\ DeletedRows(undo[u][k]) \subseteq Rows
  BY EntryRows, Zenon DEF RowTypes
<1>2. r \in AllDeletedBy(u) <=>
        \E k \in 1..Len(undo[u]) : /\ undo[u][k].type = "delete"
                                   /\ \E i \in DeletedRows(undo[u][k]) : r = Row(undo[u][k].vector, i)
  <2> DEFINE J == {j \in 1..Len(undo[u]) : undo[u][j].type = "delete"}
             Of(e) == {e.vector * STANDARD_VECTOR_SIZE + i : i \in DeletedRows(e)}
             E == {undo[u][i] : i \in J}
  <2>1. AllDeletedBy(u) = UNION {Of(e) : e \in E}
    BY Zenon DEF AllDeletedBy
  <2>2. \A e : r \in Of(e) <=> \E i \in DeletedRows(e) : r = Row(e.vector, i)
    BY Zenon DEF Row
  <2> HIDE DEF Of
  <2>3. r \in AllDeletedBy(u) <=> \E k \in J : r \in Of(undo[u][k])
    BY <2>1, Zenon
  <2> QED BY <2>2, <2>3, Zenon
<1>3. ASSUME NEW k \in 1..Len(undo[u]), undo[u][k].type = "delete", NEW i \in DeletedRows(undo[u][k])
      PROVE  undo[u][k].vector \in Vectors /\ i \in Rows
  BY <1>1, <1>3, Zenon
<1> QED BY <1>2, <1>3, Zenon

\* No row is in entries of two transactions, so there is one deleter.
LEMMA OneDeleterFollows ==
    ASSUME RowTypes, MarkInv
    PROVE  OneDeleter
<1> SUFFICES ASSUME NEW t \in Alive, NEW u \in Alive, pc[t] \notin {"reverting", "undoing"},
                    pc[u] \notin {"reverting", "undoing"}, t # u,
                    NEW r \in AllDeletedBy(t), r \in AllDeletedBy(u)
             PROVE  FALSE
  BY Zenon DEF OneDeleter
<1>1. /\ t \in Txns /\ u \in Txns /\ pc[t] # "aborted" /\ pc[u] # "aborted"
      /\ pc[t] # "undoing" /\ pc[u] # "undoing"
  BY Zenon DEF Alive
<1>2. PICK k \in 1..Len(undo[t]), v \in Vectors, i \in Rows :
        /\ r = Row(v, i) /\ undo[t][k].type = "delete" /\ undo[t][k].vector = v
        /\ i \in DeletedRows(undo[t][k])
  BY <1>1, DeletedIs, Zenon
<1>3. PICK l \in 1..Len(undo[u]), w \in Vectors, j \in Rows :
        /\ r = Row(w, j) /\ undo[u][l].type = "delete" /\ undo[u][l].vector = w
        /\ j \in DeletedRows(undo[u][l])
  BY <1>1, DeletedIs, Zenon
<1>4. v = w /\ i = j
  <2>1. v \in Nat /\ w \in Nat
    BY Numbers, Zenon
  <2>2. Row(v, i) = Row(w, j)
    BY <1>2, <1>3, Zenon
  <2>3. \A a \in Nat, b \in Nat : \A c \in Rows, d \in Rows :
          Row(a, c) = Row(b, d) => a = b /\ c = d
    BY OneRow, Zenon
  <2>4. i \in Rows /\ j \in Rows
    BY Zenon
  <2> QED BY <2>1, <2>2, <2>3, <2>4
<1>5. Deletes(t, k, v, i) /\ Deletes(u, l, v, i)
  BY <1>1, <1>2, <1>3, <1>4, Zenon DEF Deletes
<1> QED BY <1>1, <1>2, <1>5, Zenon DEF MarkInv, OnceInv

\* The deleted stamp of a row is its mark, unless its vector is a constant one.
LEMMA StampIsMark ==
    ASSUME RowTypes, SummaryInv, NEW v \in Vectors, NEW i \in Rows
    PROVE  /\ vector_info[v].type # "constant" => DeletedStamp(Row(v, i)) = Mark(vector_info[v], i)
           /\ vector_info[v].type = "constant" =>
                /\ DeletedStamp(Row(v, i)) = NOT_DELETED_ID
                /\ Mark(vector_info[v], i) = vector_info[v].delete_id
                /\ vector_info[v].delete_id \in {0, NOT_DELETED_ID}
<1>1. v \in Nat
  BY Numbers, Zenon
<1>2. VectorOf(Row(v, i)) = v /\ IndexOf(Row(v, i)) = i
  BY <1>1, RowInNat, Zenon
<1>3. DeletedStamp(Row(v, i)) = IF vector_info[v].type = "vector" THEN vector_info[v].deleted[i]
                                ELSE NOT_DELETED_ID
  BY <1>2, Zenon DEF DeletedStamp
<1>4. vector_info[v].type \in {"none", "constant", "vector"}
  BY Zenon DEF RowTypes, Infos
<1>5. Summarised(vector_info[v])
  BY Zenon DEF SummaryInv
<1> QED BY <1>3, <1>4, <1>5, Zenon DEF Mark, Summarised

\* The rows of the row group are those of its vectors.
LEMMA InVectors ==
    ASSUME RowTypes, NEW r \in 0..(count - 1)
    PROVE  VectorOf(r) \in Vectors /\ IndexOf(r) \in Rows /\ r = Row(VectorOf(r), IndexOf(r))
<1>1. /\ count \in Nat /\ count <= MAX_ROWS /\ r \in Nat /\ VectorCount \in Nat
      /\ MAX_ROWS <= VectorCount * STANDARD_VECTOR_SIZE /\ r < count /\ MAX_ROWS \in Nat
      /\ STANDARD_VECTOR_SIZE \in Nat
  BY RowVersionsAssumption DEF RowTypes, PlainTypes
<1>2. r < Row(VectorCount, 0)
  BY <1>1 DEF Row
<1>3. VectorOf(r) < VectorCount
  BY <1>1, <1>2, RowBounds, Zenon
<1>4. VectorOf(r) \in Nat /\ IndexOf(r) \in Rows /\ r = Row(VectorOf(r), IndexOf(r))
  BY <1>1, RowOf, Zenon
<1> QED BY <1>1, <1>3, <1>4 DEF Vectors

\* The marks of an open transaction are those of its undo buffer.
LEMMA MarksFollow ==
    ASSUME RowTypes, PhaseInv, MarkInv, Low
    PROVE  MarksMatchUndo
<1> SUFFICES ASSUME NEW t \in Txns, pc[t] \in Open
             PROVE  {r \in 0..(count - 1) : DeletedStamp(r) = transaction_id[t]} = AllDeletedBy(t)
  BY Zenon DEF MarksMatchUndo, Open
<1>1. pc[t] # "idle" /\ pc[t] # "aborted" /\ pc[t] # "undoing"
  BY Zenon DEF Open
<1>2. transaction_id[t] # NOT_DELETED_ID /\ transaction_id[t] # 0
  BY <1>1, IdRange, Zenon DEF RowTypes, PhaseInv
<1>3. SummaryInv /\ EntryInv /\ OwnInv
  BY Zenon DEF MarkInv
<1>4. ASSUME NEW r \in 0..(count - 1), DeletedStamp(r) = transaction_id[t] PROVE r \in AllDeletedBy(t)
  <2>1. PICK v \in Vectors, i \in Rows : r = Row(v, i)
    BY InVectors, Zenon
  <2>2. Mark(vector_info[v], i) = transaction_id[t]
    BY <2>1, <1>2, <1>3, <1>4, StampIsMark, Zenon
  <2>3. PICK k \in 1..Len(undo[t]) : Deletes(t, k, v, i)
    BY <2>2, <1>3, Zenon DEF OwnInv
  <2> QED BY <2>1, <2>3, DeletedIs, Zenon DEF Deletes
<1>5. ASSUME NEW r \in AllDeletedBy(t) PROVE r \in 0..(count - 1) /\ DeletedStamp(r) = transaction_id[t]
  <2>1. PICK k \in 1..Len(undo[t]), v \in Vectors, i \in Rows :
          /\ r = Row(v, i) /\ undo[t][k].type = "delete" /\ undo[t][k].vector = v
          /\ i \in DeletedRows(undo[t][k])
    BY DeletedIs, Zenon
  <2>2. Deletes(t, k, v, i)
    BY <2>1, <1>1, Zenon DEF Deletes
  <2>3. Row(v, i) < count /\ Mark(vector_info[v], i) = transaction_id[t]
    BY <2>2, <1>3, Zenon DEF EntryInv, Placed, Marked
  <2>4. DeletedStamp(r) = transaction_id[t]
    BY <2>1, <2>3, <1>2, <1>3, StampIsMark, Zenon
  <2>5. r \in Nat /\ count \in Nat
    <3>1. v \in Nat
      BY Numbers, Zenon
    <3>2. count \in Nat
      BY RowVersionsAssumption DEF RowTypes, PlainTypes
    <3> QED BY <3>1, <3>2, <2>1, RowInNat, Zenon
  <2> QED BY <2>1, <2>3, <2>4, <2>5
<1> QED BY <1>4, <1>5, Zenon

\* A delete that fails leaves the marks as they were.
LEMMA ConflictStep ==
    ASSUME RowTypes, PhaseInv, AppendInv, MarkInv, RowTypes', MarkInv', Low, Ranks, AtMostOnce, Next,
           NEW t \in Txns, pc[t] = "running", pc'[t] = "failed", NEW r \in 0..(count - 1)
    PROVE  DeletedStamp(r)' = DeletedStamp(r)
<1>0. pc \in [Txns -> {"idle", "committed", "aborted", "cleaned"} \cup Open \cup Finishing]
  BY Zenon DEF RowTypes, PlainTypes
<1>1. \E v \in Vectors : \E rows \in DeleteInput(t, v) : Len(undo[t]) < MAX_DELETES /\ Delete(t, v, rows)
  <2>1. ASSUME NEW u \in Txns, NEW to, pc' = [pc EXCEPT ![u] = to], to # "failed" PROVE FALSE
    BY <2>1, <1>0, Zenon
  <2>2. ASSUME UNCHANGED pc PROVE FALSE
    BY <2>2, Zenon
  <2>3. ASSUME NEW u \in Txns, Step(u)
        PROVE  /\ Len(undo[u]) < MAX_DELETES /\ u = t
               /\ \E v \in Vectors : \E rows \in DeleteInput(t, v) : Delete(t, v, rows)
    <3>1. CASE /\ pc[u] = "running" /\ Len(undo[u]) < MAX_DELETES
               /\ \E v \in Vectors : \E rows \in DeleteInput(u, v) : Delete(u, v, rows)
      <4>1. UNCHANGED pc \/ pc' = [pc EXCEPT ![u] = "failed"]
        BY <3>1, Zenon DEF Delete
      <4>2. u = t
        BY <4>1, <2>2, <1>0, Zenon
      <4> QED BY <3>1, <4>2, Zenon
    <3>2. ASSUME NEW n \in 0..MAX_ROWS, Flush(u, n) \/ FlushFails(u, n) PROVE FALSE
      BY <3>2, <2>1, Zenon DEF Flush, FlushFails, Goto
    <3>3. ASSUME NEW to \in {"stamping", "reverting", "undoing"}, Commit(u, to) PROVE FALSE
      BY <3>3, <2>1, Zenon DEF Commit
    <3>4. CASE StartTransaction(u) \/ CommitFails(u) \/ RollbackTransaction(u) \/ Cleanup(u)
      BY <3>4, <2>1, Zenon DEF StartTransaction, CommitFails, RollbackTransaction, Cleanup, Goto
    <3>5. CASE CommitReadOnly(u) \/ RemoveCommitted(u) \/ RemoveAborted(u)
      BY <3>5, <2>1, Zenon DEF CommitReadOnly, RemoveCommitted, RemoveAborted, RemoveTransaction
    <3>6. CASE CommitEntry(u) \/ RevertCommitEntry(u) \/ RollbackEntry(u)
      BY <3>6, <2>1, <2>2, Zenon DEF CommitEntry, RevertCommitEntry, RollbackEntry
    <3> QED BY <2>3, <3>1, <3>2, <3>3, <3>4, <3>5, <3>6, Zenon DEF Step
  <2>4. CASE Checkpoint
    BY <2>4, <2>2, Zenon DEF Checkpoint
  <2>5. CASE Reopen
    BY <2>5, Zenon DEF Reopen
  <2> QED BY <2>3, <2>4, <2>5, Zenon DEF Next, Step
<1>2. PICK v \in Vectors :
        \E rows \in DeleteInput(t, v) : Len(undo[t]) < MAX_DELETES /\ Delete(t, v, rows)
  BY <1>1, Zenon
<1>3. SummaryInv /\ SummaryInv'
  BY Zenon DEF MarkInv
<1>4. DeleteOutcome(t, v)
  BY <1>2, <1>3, DeleteEffect, Zenon
<1>5. /\ \A w \in Vectors \ {v} : vector_info'[w] = vector_info[w]
      /\ vector_info'[v].type = "vector"
      /\ vector_info[v].type = "constant" => vector_info[v].delete_id = NOT_DELETED_ID
      /\ \A i \in Rows : Mark(vector_info'[v], i) = Mark(vector_info[v], i)
  BY <1>4, Zenon DEF DeleteOutcome
<1>6. PICK w \in Vectors, i \in Rows : r = Row(w, i) /\ VectorOf(r) = w /\ IndexOf(r) = i
  BY InVectors, Zenon
<1>7. CASE w # v
  <2>1. vector_info[w]' = vector_info[w]
    BY <1>5, <1>7, Zenon
  <2> QED BY <2>1, <1>6, Zenon DEF DeletedStamp
<1>8. CASE w = v
  <2>1. DeletedStamp(r) = Mark(vector_info[v], i)
    BY <1>3, <1>5, <1>6, <1>8, StampIsMark, Zenon
  <2>2. DeletedStamp(r)' = vector_info'[v].deleted[i]
    BY <1>5, <1>6, <1>8, Zenon DEF DeletedStamp
  <2>3. Mark(vector_info'[v], i) = vector_info'[v].deleted[i]
    BY <1>5, Zenon DEF Mark
  <2> QED BY <2>1, <2>2, <2>3, <1>5, Zenon
<1> QED BY <1>7, <1>8, Zenon

=============================================================================
