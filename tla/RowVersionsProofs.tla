-------------------------- MODULE RowVersionsProofs -------------------------
(***************************************************************************)
(* The counters stay low for any number of transactions; with the steps of *)
(* RowVersionsAppends and RowVersionsMarks: types, one deleter per row,    *)
(* undo buffers that have every delete, and conflicts that take their      *)
(* marks back.                                                             *)
(***************************************************************************)
EXTENDS RowVersionsAppends, RowVersionsMarks, FiniteSetTheorems

\* The elements of K below j.
Before(K, j) == {k \in K : k < j}

\* The rows of a delete that are smaller than a given one are fewer than the
\* rows, and more rows are smaller than a larger row.
LEMMA SmallerRows ==
    ASSUME NEW K \in SUBSET Int, IsFiniteSet(K)
    PROVE  /\ \A j \in K : Cardinality(Before(K, j)) \in 0..(Cardinality(K) - 1)
           /\ \A i, j \in K : Cardinality(Before(K, i)) = Cardinality(Before(K, j)) => i = j
<1>1. \A j \in K : Before(K, j) \in SUBSET K /\ Before(K, j) # K
  BY Ordered, Zenon DEF Before
<1>2. Cardinality(K) \in Nat
  BY FS_CardinalityType, Zenon
<1>3. \A j \in K : /\ IsFiniteSet(Before(K, j)) /\ Cardinality(Before(K, j)) <= Cardinality(K)
                   /\ Cardinality(Before(K, j)) # Cardinality(K)
  BY <1>1, FS_Subset, Zenon
<1>4. \A j \in K : Cardinality(Before(K, j)) \in Nat
  BY <1>3, FS_CardinalityType, Zenon
<1>5. ASSUME NEW i \in K, NEW j \in K, i < j
      PROVE  Cardinality(Before(K, i)) # Cardinality(Before(K, j))
  <2>1. \A k \in K : k < i => k < j
    BY <1>5, Ordered, Zenon
  <2>2. ~ (i < i)
    BY Ordered, Zenon
  <2>3. Before(K, i) \in SUBSET Before(K, j) /\ i \in Before(K, j) /\ i \notin Before(K, i)
    BY <1>5, <2>1, <2>2, Zenon DEF Before
  <2> QED BY <1>3, <2>3, FS_Subset, Zenon
<1>6. \A i, j \in K : i # j => i < j \/ j < i
  BY Ordered, Zenon
<1>7. \A j \in K : Cardinality(Before(K, j)) \in 0..(Cardinality(K) - 1)
  BY <1>2, <1>3, <1>4, UpTo, Zenon
<1> QED BY <1>5, <1>6, <1>7, Zenon

\* The positions of a sorted list of rows: every position from the first to
\* the last is taken by one row.
LEMMA RanksHold == Ranks
<1> SUFFICES ASSUME NEW m \in Nat, NEW K \in SUBSET (1..m)
             PROVE  /\ Cardinality(K) \in 0..m
                    /\ {Cardinality({k \in K : k < j}) : j \in K} = 0..(Cardinality(K) - 1)
  BY Zenon DEF Ranks
<1> DEFINE n == Cardinality(K)
           rank == [j \in K |-> Cardinality(Before(K, j))]
<1>1. IsFiniteSet(1..m) /\ Cardinality(1..m) = m
  BY IntervalBounds, FS_Interval, Zenon
<1>2. IsFiniteSet(K) /\ n <= m
  BY <1>1, FS_Subset, Zenon
<1>3. n \in Nat
  BY <1>2, FS_CardinalityType, Zenon
<1>4. K \in SUBSET Int
  BY IntervalBounds, Zenon
<1>5. /\ \A j \in K : Cardinality(Before(K, j)) \in 0..(n - 1)
      /\ \A i, j \in K : Cardinality(Before(K, i)) = Cardinality(Before(K, j)) => i = j
  BY <1>2, <1>4, SmallerRows, Zenon
<1> HIDE DEF n
<1>6. rank \in Injection(K, 0..(n - 1))
  BY <1>5, Zenon DEF Injection, IsInjective
<1>7. IsFiniteSet(0..(n - 1)) /\ Cardinality(0..(n - 1)) = n
  <2>1. 0 \in Int /\ n - 1 \in Int /\ (0 > n - 1 => n = 0) /\ (n - 1) - 0 + 1 = n
    BY <1>3, IntervalBounds, Zenon
  <2> QED BY <2>1, FS_Interval, Zenon
<1>8. rank \in Surjection(K, 0..(n - 1))
  BY <1>2, <1>6, <1>7, FS_Injection, Zenon DEF n
<1>9. {Cardinality(Before(K, j)) : j \in K} = 0..(n - 1)
  <2>1. \A y \in 0..(n - 1) : \E j \in K : rank[j] = y
    BY <1>8, Zenon DEF Surjection
  <2>2. \A j \in K : rank[j] = Cardinality(Before(K, j))
    BY Zenon
  <2>3. ASSUME NEW S, NEW f, \A j \in K : f[j] \in S, \A y \in S : \E j \in K : f[j] = y
        PROVE  {f[j] : j \in K} = S
    BY <2>3, Zenon
  <2>4. {rank[j] : j \in K} = 0..(n - 1)
    <3> HIDE DEF rank
    <3>1. \A j \in K : rank[j] \in 0..(n - 1)
      BY <1>5, <2>2, Zenon
    <3> QED BY <2>1, <3>1, <2>3, Zenon
  <2>5. {rank[j] : j \in K} = {Cardinality(Before(K, j)) : j \in K}
    <3> HIDE DEF rank
    <3> QED BY <2>2, Zenon
  <2> QED BY <2>4, <2>5, Zenon
<1>10. n \in 0..m
  BY <1>2, <1>3, UpTo, Zenon
<1> QED BY <1>9, <1>10, Zenon DEF n, Before

\* The transactions that have begun, and those that are no longer open.
Begun == {t \in Txns : pc[t] # "idle"}
Ended == {t \in Begun : pc[t] \notin Open}

\* CounterInv, with its sets named.
LEMMA CounterIs ==
    /\ CounterInv <=>
         /\ current_timestamp <= FIRST_COMMIT + 1 + Cardinality(Begun) + Cardinality(Ended)
         /\ current_transaction_id <= TRANSACTION_ID_START + 1 + Cardinality(Begun)
    /\ Begun \in SUBSET Txns /\ Ended \in SUBSET Txns
    /\ IsFiniteSet(Begun) /\ IsFiniteSet(Ended)
    /\ Cardinality(Begun) \in Nat /\ Cardinality(Ended) \in Nat /\ Cardinality(Txns) \in Nat
    /\ Cardinality(Begun) <= Cardinality(Txns) /\ Cardinality(Ended) <= Cardinality(Txns)
<1>1. CounterInv <=>
         /\ current_timestamp <= FIRST_COMMIT + 1 + Cardinality(Begun) + Cardinality(Ended)
         /\ current_transaction_id <= TRANSACTION_ID_START + 1 + Cardinality(Begun)
  BY Zenon DEF CounterInv, Begun, Ended
<1>2. Begun \in SUBSET Txns /\ Ended \in SUBSET Txns
  BY Zenon DEF Begun, Ended
<1>3. IsFiniteSet(Txns)
  BY RowVersionsAssumption, Zenon
<1>4. /\ IsFiniteSet(Begun) /\ IsFiniteSet(Ended)
      /\ Cardinality(Begun) <= Cardinality(Txns) /\ Cardinality(Ended) <= Cardinality(Txns)
  BY <1>2, <1>3, FS_Subset, Zenon
<1>5. Cardinality(Begun) \in Nat /\ Cardinality(Ended) \in Nat /\ Cardinality(Txns) \in Nat
  BY <1>3, <1>4, FS_CardinalityType, Zenon
<1> QED BY <1>1, <1>2, <1>4, <1>5, Zenon

\* A transaction draws one timestamp and one id when it begins, and at most one
\* timestamp when it ends, so the counters stay below the ids and NOT_DELETED_ID.
LEMMA LowHolds ==
    ASSUME PlainTypes, CounterInv
    PROVE  Low
<1>1. /\ current_timestamp <= FIRST_COMMIT + 1 + Cardinality(Begun) + Cardinality(Ended)
      /\ current_transaction_id <= TRANSACTION_ID_START + 1 + Cardinality(Begun)
      /\ Cardinality(Begun) \in Nat /\ Cardinality(Ended) \in Nat /\ Cardinality(Txns) \in Nat
      /\ Cardinality(Begun) <= Cardinality(Txns) /\ Cardinality(Ended) <= Cardinality(Txns)
  BY CounterIs, Zenon
<1>2. current_timestamp \in Nat /\ current_transaction_id \in Nat
  BY Zenon DEF PlainTypes
<1>3. /\ TRANSACTION_ID_START \in Nat /\ 2 * Cardinality(Txns) + 4 < TRANSACTION_ID_START
      /\ NOT_DELETED_ID \in Nat /\ NOT_DELETED_ID > TRANSACTION_ID_START + Cardinality(Txns) + 1
  BY RowVersionsAssumption, Zenon
<1> QED BY <1>1, <1>2, <1>3, CountersLow, Zenon DEF Low

\* The counters start where no transaction has begun.
LEMMA CounterInit ==
    ASSUME Init
    PROVE  CounterInv
<1>1. Begun = {} /\ Ended = {}
  BY Zenon DEF Init, Begun, Ended
<1>2. Cardinality({}) = 0
  BY FS_EmptySet, Zenon
<1>3. current_timestamp = FIRST_COMMIT + 1 /\ current_transaction_id = TRANSACTION_ID_START + 1
  BY Zenon DEF Init
<1>4. TRANSACTION_ID_START \in Nat
  BY RowVersionsAssumption, Zenon
<1>5. /\ current_timestamp <= FIRST_COMMIT + 1 + Cardinality(Begun) + Cardinality(Ended)
      /\ current_transaction_id <= TRANSACTION_ID_START + 1 + Cardinality(Begun)
  BY <1>1, <1>2, <1>3, <1>4, CountersStart, Zenon
<1> QED BY <1>5, CounterIs, Zenon

\* Every draw from a counter is paid for by a transaction that begins or ends.
LEMMA CounterStep ==
    ASSUME PlainTypes, CounterInv, Next
    PROVE  CounterInv'
<1>1. /\ current_timestamp <= FIRST_COMMIT + 1 + Cardinality(Begun) + Cardinality(Ended)
      /\ current_transaction_id <= TRANSACTION_ID_START + 1 + Cardinality(Begun)
      /\ IsFiniteSet(Begun) /\ IsFiniteSet(Ended)
      /\ Cardinality(Begun) \in Nat /\ Cardinality(Ended) \in Nat
  BY CounterIs, Zenon
<1>2. /\ current_timestamp \in Nat /\ current_transaction_id \in Nat /\ TRANSACTION_ID_START \in Nat
      /\ pc \in [Txns -> {"idle", "committed", "aborted", "cleaned"} \cup Open \cup Finishing]
  BY RowVersionsAssumption, Zenon DEF PlainTypes
<1>3. SUFFICES /\ current_timestamp' <= FIRST_COMMIT + 1 + Cardinality(Begun') + Cardinality(Ended')
               /\ current_transaction_id' <= TRANSACTION_ID_START + 1 + Cardinality(Begun')
  BY Zenon DEF CounterInv, Begun, Ended
<1>4. "idle" \notin Open /\ "running" \in Open /\ "idle" \notin Finishing \cup {"committed"}
      /\ \A to \in Finishing \cup {"committed"} : to \notin Open
  BY Zenon DEF Open, Finishing
<1>5. ASSUME NEW t \in Txns, pc[t] = "idle", pc' = [pc EXCEPT ![t] = "running"],
             current_timestamp' = current_timestamp + 1,
             current_transaction_id' = current_transaction_id + 1
      PROVE  /\ current_timestamp' <= FIRST_COMMIT + 1 + Cardinality(Begun') + Cardinality(Ended')
             /\ current_transaction_id' <= TRANSACTION_ID_START + 1 + Cardinality(Begun')
  <2>1. Begun' = Begun \cup {t} /\ t \notin Begun /\ Ended' = Ended
    BY <1>2, <1>4, <1>5, Zenon DEF Begun, Ended
  <2>2. Cardinality(Begun') = Cardinality(Begun) + 1
    BY <1>1, <2>1, FS_AddElement, Zenon
  <2>3. /\ current_timestamp + 1 <= FIRST_COMMIT + 1 + (Cardinality(Begun) + 1) + Cardinality(Ended)
        /\ current_transaction_id + 1 <= TRANSACTION_ID_START + 1 + (Cardinality(Begun) + 1)
    BY <1>1, <1>2, CountersDrawn, Zenon
  <2> QED BY <1>5, <2>1, <2>2, <2>3, Zenon
<1>6. ASSUME NEW t \in Txns, NEW to \in Finishing \cup {"committed"},
             pc[t] \in Open, pc' = [pc EXCEPT ![t] = to],
             current_timestamp' \in {current_timestamp, current_timestamp + 1},
             current_transaction_id' = current_transaction_id
      PROVE  /\ current_timestamp' <= FIRST_COMMIT + 1 + Cardinality(Begun') + Cardinality(Ended')
             /\ current_transaction_id' <= TRANSACTION_ID_START + 1 + Cardinality(Begun')
  <2>1. Begun' = Begun /\ Ended' = Ended \cup {t} /\ t \notin Ended
    BY <1>2, <1>4, <1>6, Zenon DEF Begun, Ended
  <2>2. Cardinality(Ended') = Cardinality(Ended) + 1
    BY <1>1, <2>1, FS_AddElement, Zenon
  <2>3. /\ current_timestamp + 1 <= FIRST_COMMIT + 1 + Cardinality(Begun) + (Cardinality(Ended) + 1)
        /\ current_timestamp <= FIRST_COMMIT + 1 + Cardinality(Begun) + (Cardinality(Ended) + 1)
    BY <1>1, <1>2, CountersDrawn, Zenon
  <2> QED BY <1>1, <1>6, <2>1, <2>2, <2>3, Zenon
<1>7. ASSUME UNCHANGED <<current_timestamp, current_transaction_id>>,
             \A u \in Txns : /\ pc'[u] = "idle" <=> pc[u] = "idle"
                             /\ pc'[u] \in Open <=> pc[u] \in Open
      PROVE  /\ current_timestamp' <= FIRST_COMMIT + 1 + Cardinality(Begun') + Cardinality(Ended')
             /\ current_transaction_id' <= TRANSACTION_ID_START + 1 + Cardinality(Begun')
  <2>1. Begun' = Begun /\ Ended' = Ended
    BY <1>7, Zenon DEF Begun, Ended
  <2> QED BY <1>1, <1>7, <2>1, Zenon
<1> QED BY <1>5, <1>6, <1>7, CounterCases, Zenon

\* What holds of every input of the deletes, and what needs distinct rows.
RowInv == RowTypes /\ CounterInv /\ PhaseInv /\ AppendInv
DeleteInv == RowInv /\ MarkInv

\* RowInv is inductive, and so is DeleteInv when no delete repeats a row.
LEMMA RowInvStep ==
    ASSUME RowInv, [Next]_vars
    PROVE  RowInv' /\ (AtMostOnce /\ MarkInv => MarkInv')
<1>1. CASE Next
  <2>1. Low /\ Ranks
    BY LowHolds, RanksHold, Zenon DEF RowInv, RowTypes
  <2>2. RowTypes' /\ PhaseInv' /\ AppendInv'
    BY <1>1, <2>1, TypeStep, PhaseStep, AppendStep, Zenon DEF RowInv
  <2>3. CounterInv'
    BY <1>1, CounterStep, Zenon DEF RowInv, RowTypes
  <2>4. ASSUME AtMostOnce, MarkInv PROVE MarkInv'
    BY <1>1, <2>1, <2>4, MarkStep, Zenon DEF RowInv
  <2> QED BY <2>2, <2>3, <2>4, Zenon DEF RowInv
<1>2. CASE UNCHANGED vars
  BY <1>2, StutterRows, Zenon DEF RowInv
<1> QED BY <1>1, <1>2, Zenon

\* Both hold initially.
LEMMA RowInvInit ==
    ASSUME Init
    PROVE  RowInv /\ DeleteInv
BY InitRows, CounterInit, Zenon DEF RowInv, DeleteInv

\* Every stamp is a timestamp that was drawn, the id of a transaction that
\* started, or NOT_DELETED_ID, and every undo entry names rows of the row group:
\* RowGroup::Delete, Flush, CommitAppend, RevertAppend and the checkpoint keep
\* ChunkInfos well formed, also after a write conflict.
THEOREM RowVersionsAreTyped == Spec => []TypeOK
<1>1. RowInv /\ [Next]_vars => RowInv'
  BY RowInvStep, Zenon
<1>2. Init => RowInv
  BY RowInvInit, Zenon
<1>3. RowInv => TypeOK
  BY TypesFollow, Zenon DEF RowInv
<1> QED BY <1>1, <1>2, <1>3, PTL DEF Spec

\* No row is deleted by two transactions that commit or may still commit:
\* the conflict check of ChunkVectorInfo::Delete.
THEOREM RowsHaveOneDeleter ==
    ASSUME AtMostOnce
    PROVE  Spec => []OneDeleter
<1>1. DeleteInv /\ [Next]_vars => DeleteInv'
  BY RowInvStep, Zenon DEF DeleteInv
<1>2. Init => DeleteInv
  BY RowInvInit, Zenon
<1>3. DeleteInv => OneDeleter
  BY OneDeleterFollows, Zenon DEF DeleteInv, RowInv
<1> QED BY <1>1, <1>2, <1>3, PTL DEF Spec

\* The rows that carry the id of an open transaction are the rows of its delete
\* entries: commit and rollback, which only walk the undo buffer, reach every mark.
THEOREM UndoBufferHasEveryDelete ==
    ASSUME AtMostOnce
    PROVE  Spec => []MarksMatchUndo
<1>1. DeleteInv /\ [Next]_vars => DeleteInv'
  BY RowInvStep, Zenon DEF DeleteInv
<1>2. Init => DeleteInv
  BY RowInvInit, Zenon
<1>3. DeleteInv => MarksMatchUndo
  BY LowHolds, MarksFollow, Zenon DEF DeleteInv, RowInv, RowTypes
<1> QED BY <1>1, <1>2, <1>3, PTL DEF Spec

\* A write conflict takes back the marks of the rows before it in the same call
\* and leaves the marks of every other row as they were.
THEOREM ConflictTakesBackItsMarks ==
    ASSUME AtMostOnce
    PROVE  Spec => ConflictRestoresMarks
<1> DEFINE A == \A t \in Txns : pc[t] = "running" /\ pc'[t] = "failed" =>
                   \A r \in 0..(count - 1) : DeletedStamp(r)' = DeletedStamp(r)
<1>1. DeleteInv /\ [Next]_vars => DeleteInv'
  BY RowInvStep, Zenon DEF DeleteInv
<1>2. Init => DeleteInv
  BY RowInvInit, Zenon
<1>3. DeleteInv /\ DeleteInv' /\ [Next]_vars => [A]_vars
  <2> SUFFICES ASSUME DeleteInv, DeleteInv', Next PROVE A
    BY Zenon
  <2>1. Low /\ Ranks
    BY LowHolds, RanksHold, Zenon DEF DeleteInv, RowInv, RowTypes
  <2>2. RowTypes /\ PhaseInv /\ AppendInv /\ MarkInv /\ RowTypes' /\ MarkInv'
    BY Zenon DEF DeleteInv, RowInv
  <2> QED BY <2>1, <2>2, ConflictStep, Zenon
<1> QED BY <1>1, <1>2, <1>3, PTL DEF Spec, ConflictRestoresMarks

=============================================================================
