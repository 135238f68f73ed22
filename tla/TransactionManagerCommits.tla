--------------------- MODULE TransactionManagerCommits ----------------------
(***************************************************************************)
(* The locks of the manager, its lists of finished transactions, the log   *)
(* and full checkpoints, for any set of transactions and any timestamps:   *)
(* every lock has its owner, what is cleaned up is not needed by anyone,   *)
(* the records are in commit order, and no full checkpoint runs while an   *)
(* active transaction needs to read old data.                              *)
(***************************************************************************)
EXTENDS TransactionManager, TLAPS

(***************************************************************************)
(* Types and locks                                                         *)
(***************************************************************************)

(* Types                                                                   *)

(* What the proofs need of the constants, in the form the provers can use. *)
LEMMA ConstantFacts ==
  /\ TRANSACTION_ID_START \in Nat /\ TRANSACTION_ID_START + 1 \in Nat
  /\ MAXIMUM_QUERY_ID \in Nat
  /\ Kinds \subseteq AllKinds
  /\ Nobody \notin Txns /\ Command \notin Txns /\ Nobody # Command
<1>1. TRANSACTION_ID_START \in Nat \ {0, 1} /\ MAXIMUM_QUERY_ID \in Nat \ {0}
  BY ManagerAssumption, Zenon
<1>2. Kinds \subseteq AllKinds
  BY ManagerAssumption, Zenon
<1>3. Nobody \notin Txns /\ Command \notin Txns /\ Nobody # Command
  BY ManagerAssumption, Zenon
<1> QED
  BY <1>1, <1>2, <1>3

(* The empty cleanup info has the type of a cleanup info.                  *)
LEMMA NoInfoType == NoInfo \in Infos
BY DEF NoInfo, Infos

(* What SubSeq of a sequence of transactions is.                           *)
LEMMA SubSeqFacts ==
  ASSUME NEW S, NEW s \in Seq(S), NEW m \in Nat \ {0}, NEW n \in 0..Len(s)
  PROVE  /\ SubSeq(s, m, n) \in Seq(S)
         /\ Len(SubSeq(s, m, n)) = IF m <= n THEN n - m + 1 ELSE 0
         /\ \A i \in 1..Len(SubSeq(s, m, n)) : SubSeq(s, m, n)[i] = s[m + i - 1]
<1>1. SubSeq(s, m, n) \in Seq(S)
  OBVIOUS
<1>2. Len(SubSeq(s, m, n)) = IF m <= n THEN n - m + 1 ELSE 0
  OBVIOUS
<1>3. \A i \in 1..Len(SubSeq(s, m, n)) : SubSeq(s, m, n)[i] = s[m + i - 1]
  OBVIOUS
<1> QED
  BY <1>1, <1>2, <1>3, Zenon

(* The elements of a sequence of transactions are transactions.            *)
LEMMA ElementsType ==
  ASSUME NEW S, NEW s \in Seq(S)
  PROVE  Elements(s) \subseteq S
BY DEF Elements

(* The last part of RemoveTransaction keeps the types of what it changes.  *)
LEMMA ScheduleType ==
  ASSUME TypeOK, NEW t \in Txns, NEW lowest \in Nat, NEW direct \in Seq(Txns),
         NEW old \in Seq(Txns), NEW becomeOld \in SUBSET Txns,
         ScheduleCleanup(t, lowest, direct, old, becomeOld)
  PROVE  /\ old_transactions' \in Seq(Txns)
         /\ cleanup_queue' \in Seq(Infos)
         /\ highest_active_query' \in [Txns -> Nat]
         /\ watchers' \in [Txns -> SUBSET Txns]
<1> DEFINE others == active_transactions \ {t}
           highest == [u \in Txns |-> IF u \in becomeOld THEN current_query_number
                                      ELSE highest_active_query[u]]
           info(k) == [lowest_start_time |-> lowest,
                       transactions |-> direct \o SubSeq(old, 1, k)]
<1>1. PICK k \in 0..Len(old) :
        /\ old_transactions' = SubSeq(old, k + 1, Len(old))
        /\ cleanup_queue' = IF info(k).transactions = <<>> THEN cleanup_queue
                            ELSE Append(cleanup_queue, info(k))
        /\ highest_active_query' = highest
        /\ watchers' = [u \in Txns |-> IF u \in becomeOld THEN Reading(others)
                                       ELSE watchers[u] \ {t}]
  BY Zenon DEF ScheduleCleanup
<1>2. SubSeq(old, 1, k) \in Seq(Txns) /\ SubSeq(old, k + 1, Len(old)) \in Seq(Txns)
  BY SubSeqFacts
<1>3. info(k) \in Infos
  BY <1>2 DEF Infos
<1>4. cleanup_queue' \in Seq(Infos)
  BY <1>1, <1>3 DEF TypeOK, TimeTypes, Timestamps, ListTypes, QueryTypes, FlagTypes
<1>5. highest_active_query' \in [Txns -> Nat]
  BY <1>1, Zenon DEF TypeOK, TimeTypes, Timestamps, ListTypes, QueryTypes, FlagTypes
<1>6. watchers' \in [Txns -> SUBSET Txns]
  BY <1>1, Zenon DEF TypeOK, TimeTypes, Timestamps, ListTypes, QueryTypes, FlagTypes, Reading
<1> QED
  BY <1>1, <1>2, <1>4, <1>5, <1>6, Zenon

(* RemoveTransaction(t, store) with its local values: the lowest start time, *)
(* the list with t added to it and the prefix that becomes old.            *)
Recent(t, store) == IF store /\ commit_id[t] # 0
                    THEN Append(recently_committed_transactions, t)
                    ELSE recently_committed_transactions
Aborted(t, store) == IF store /\ ~(commit_id[t] # 0) THEN <<t>> ELSE <<>>
Direct(t, store) == IF ~store /\ changes[t] # {} THEN <<t>> ELSE <<>>
Removed(t, store, lowest, n) ==
    LET recent == Recent(t, store)
        moved  == SubSeq(recent, 1, n) IN
    /\ IsLowestStart(t, lowest)
    /\ lowest_active_start' = lowest
    /\ active_transactions' = active_transactions \ {t}
    /\ write_lock' = IF changes[t] # {} THEN write_lock ELSE write_lock \ {t}
    /\ IsPrefixLength(n, recent, Unneeded(lowest))
    /\ recently_committed_transactions' = SubSeq(recent, n + 1, Len(recent))
    /\ awaiting_cleanup' = [u \in Txns |-> \/ awaiting_cleanup[u]
                                           \/ u \in Elements(moved \o Direct(t, store))]
    /\ ScheduleCleanup(t, lowest, Direct(t, store),
                       old_transactions \o Aborted(t, store) \o moved,
                       Elements(Aborted(t, store) \o moved))

LEMMA RemoveParts ==
  ASSUME TypeOK, NEW t \in Txns, NEW store \in BOOLEAN, RemoveTransaction(t, store)
  PROVE  \E lowest \in Nat : \E n \in 0..Len(Recent(t, store)) : Removed(t, store, lowest, n)
<1>1. PICK lowest \in {start_time[u] : u \in active_transactions} \cup {TRANSACTION_ID_START} :
        \E n \in 0..Len(Recent(t, store)) : Removed(t, store, lowest, n)
  BY Zenon DEF RemoveTransaction, Removed, Recent, Aborted, Direct
<1>2. lowest \in Nat
  <2>1. \A u \in active_transactions : start_time[u] \in Nat
    BY DEF TypeOK, TimeTypes, Timestamps, ListTypes, QueryTypes, FlagTypes
  <2> QED
    BY <2>1, ConstantFacts, Zenon
<1> QED
  BY <1>1, <1>2, Zenon

(* The local values are sequences of transactions.                         *)
LEMMA LocalTypes ==
  ASSUME TypeOK, NEW t \in Txns, NEW store \in BOOLEAN, NEW n \in 0..Len(Recent(t, store))
  PROVE  /\ Recent(t, store) \in Seq(Txns)
         /\ Aborted(t, store) \in Seq(Txns)
         /\ Direct(t, store) \in Seq(Txns)
         /\ SubSeq(Recent(t, store), 1, n) \in Seq(Txns)
         /\ SubSeq(Recent(t, store), n + 1, Len(Recent(t, store))) \in Seq(Txns)
<1>1. /\ Recent(t, store) \in Seq(Txns)
      /\ Aborted(t, store) \in Seq(Txns)
      /\ Direct(t, store) \in Seq(Txns)
  BY DEF TypeOK, TimeTypes, Timestamps, ListTypes, QueryTypes, FlagTypes, Recent, Aborted, Direct
<1> QED
  BY <1>1, SubSeqFacts

(* RemoveTransaction keeps the types of the lists.                         *)
LEMMA RemoveType ==
  ASSUME TypeOK, NEW t \in Txns, NEW store \in BOOLEAN, RemoveTransaction(t, store)
  PROVE  /\ lowest_active_start' \in Nat
         /\ active_transactions' \subseteq Txns
         /\ write_lock' \subseteq Txns
         /\ recently_committed_transactions' \in Seq(Txns)
         /\ awaiting_cleanup' \in [Txns -> BOOLEAN]
         /\ old_transactions' \in Seq(Txns)
         /\ cleanup_queue' \in Seq(Infos)
         /\ highest_active_query' \in [Txns -> Nat]
         /\ watchers' \in [Txns -> SUBSET Txns]
<1> DEFINE moved(n) == SubSeq(Recent(t, store), 1, n)
<1>1. PICK lowest \in Nat, n \in 0..Len(Recent(t, store)) : Removed(t, store, lowest, n)
  BY RemoveParts, Zenon
<1>2. /\ old_transactions \o Aborted(t, store) \o moved(n) \in Seq(Txns)
      /\ Aborted(t, store) \o moved(n) \in Seq(Txns)
  <2>1. Aborted(t, store) \in Seq(Txns) /\ moved(n) \in Seq(Txns)
    BY LocalTypes, Zenon
  <2>2. old_transactions \in Seq(Txns)
    BY Zenon DEF TypeOK, TimeTypes, Timestamps, ListTypes, QueryTypes, FlagTypes
  <2> QED
    BY <2>1, <2>2
<1>3. Elements(Aborted(t, store) \o moved(n)) \in SUBSET Txns
  BY <1>2, ElementsType, Zenon
<1>4. ScheduleCleanup(t, lowest, Direct(t, store),
                      old_transactions \o Aborted(t, store) \o moved(n),
                      Elements(Aborted(t, store) \o moved(n)))
  BY <1>1, Zenon DEF Removed
<1>5. /\ old_transactions' \in Seq(Txns)
      /\ cleanup_queue' \in Seq(Infos)
      /\ highest_active_query' \in [Txns -> Nat]
      /\ watchers' \in [Txns -> SUBSET Txns]
  BY <1>2, <1>3, <1>4, LocalTypes, ScheduleType, Zenon
<1>6. awaiting_cleanup' \in [Txns -> BOOLEAN]
  <2>1. awaiting_cleanup' = [u \in Txns |-> \/ awaiting_cleanup[u]
                                            \/ u \in Elements(moved(n) \o Direct(t, store))]
    BY <1>1, Zenon DEF Removed
  <2>2. ASSUME NEW u \in Txns
        PROVE  (awaiting_cleanup[u] \/ u \in Elements(moved(n) \o Direct(t, store))) \in BOOLEAN
    BY Zenon
  <2> QED
    BY <2>1, <2>2, Zenon
<1> QED
  BY <1>1, <1>5, <1>6, LocalTypes, Zenon DEF TypeOK, TimeTypes, Timestamps, ListTypes, QueryTypes, FlagTypes, Removed

(* The initial values have their types.                                    *)
LEMMA TypeInit == Init => TypeOK
<1> SUFFICES ASSUME Init PROVE TypeOK
  BY Zenon
<1>1. TimeTypes
  BY ConstantFacts DEF Init, TimeTypes, Timestamps
<1>2. ListTypes
  BY NoInfoType DEF Init, ListTypes
<1>3. QueryTypes
  BY ConstantFacts, Zenon DEF Init, QueryTypes
<1>4. FlagTypes
  BY Zenon DEF Init, FlagTypes
<1>5. ThreadTypes
  BY Zenon DEF Init, ThreadTypes, Owners
<1> QED
  BY <1>1, <1>2, <1>3, <1>4, <1>5, Zenon DEF TypeOK

(* The thread takes the front of the cleanup queue, if there is one.       *)
LEMMA PopType ==
  ASSUME ListTypes, NEW t \in Txns, PopCleanup(t)
  PROVE  top_cleanup_info' \in [Txns -> Infos] /\ cleanup_queue' \in Seq(Infos)
<1>1. CASE cleanup_queue = <<>>
  BY <1>1, Zenon DEF ListTypes, PopCleanup
<1>2. CASE cleanup_queue # <<>>
  <2>1. Head(cleanup_queue) \in Infos /\ Tail(cleanup_queue) \in Seq(Infos)
    BY <1>2 DEF ListTypes
  <2>2. /\ top_cleanup_info' = [top_cleanup_info EXCEPT ![t] = Head(cleanup_queue)]
        /\ cleanup_queue' = Tail(cleanup_queue)
    BY <1>2, Zenon DEF PopCleanup
  <2> QED
    BY <2>1, <2>2, Zenon DEF ListTypes
<1> QED
  BY <1>1, <1>2, Zenon

(* Every step keeps the types.                                             *)
LEMMA TypeStep == TypeOK /\ [Next]_vars => TypeOK'
<1> SUFFICES ASSUME TypeOK, [Next]_vars PROVE TypeOK'
  BY Zenon
<1> USE DEF TypeOK, counters, lists, stamps, gc, queries, locals, cmd, Owners
<1>1. ASSUME NEW t \in Txns, BeginQuery(t) PROVE TypeOK'
  <2>1. TimeTypes'
    BY <1>1, Zenon DEF TimeTypes, Timestamps, BeginQuery
  <2>2. ListTypes'
    BY <1>1, Zenon DEF ListTypes, BeginQuery
  <2>3. QueryTypes'
    BY <1>1 DEF QueryTypes, BeginQuery
  <2>4. FlagTypes'
    BY <1>1, Zenon DEF FlagTypes, BeginQuery
  <2>5. ThreadTypes'
    BY <1>1, Zenon DEF ThreadTypes, BeginQuery
  <2> QED
    BY <2>1, <2>2, <2>3, <2>4, <2>5, Zenon
<1>2. ASSUME NEW t \in Txns, SetActiveQuery(t) PROVE TypeOK'
  <2>1. TimeTypes'
    BY <1>2, Zenon DEF TimeTypes, Timestamps, SetActiveQuery
  <2>2. ListTypes'
    BY <1>2, Zenon DEF ListTypes, SetActiveQuery
  <2>3. QueryTypes'
    BY <1>2, Zenon DEF QueryTypes, SetActiveQuery
  <2>4. FlagTypes'
    BY <1>2, Zenon DEF FlagTypes, SetActiveQuery
  <2>5. ThreadTypes'
    BY <1>2, Zenon DEF ThreadTypes, SetActiveQuery
  <2> QED
    BY <2>1, <2>2, <2>3, <2>4, <2>5, Zenon
<1>3. ASSUME NEW t \in Txns, EndQuery(t) PROVE TypeOK'
  <2>1. TimeTypes'
    BY <1>3, Zenon DEF TimeTypes, Timestamps, EndQuery
  <2>2. ListTypes'
    BY <1>3, Zenon DEF ListTypes, EndQuery
  <2>3. QueryTypes'
    BY <1>3, ConstantFacts, Zenon DEF QueryTypes, EndQuery
  <2>4. FlagTypes'
    BY <1>3, Zenon DEF FlagTypes, EndQuery
  <2>5. ThreadTypes'
    BY <1>3, Zenon DEF ThreadTypes, EndQuery
  <2> QED
    BY <2>1, <2>2, <2>3, <2>4, <2>5, Zenon
<1>4. ASSUME NEW t \in Txns, StartTransaction(t) PROVE TypeOK'
  <2>1. TimeTypes'
    <3>1. start_time' \in [Txns -> Timestamps'] /\ commit_id' \in [Txns -> Timestamps']
      BY <1>4 DEF TimeTypes, Timestamps, StartTransaction
    <3>2. lowest_active_start' \in Nat
      BY <1>4, Zenon DEF TimeTypes, StartTransaction, LowestAfterStart
    <3> QED
      BY <3>1, <3>2, <1>4 DEF TimeTypes, StartTransaction
  <2>2. ListTypes'
    BY <1>4, Zenon DEF ListTypes, StartTransaction, Goto
  <2>3. QueryTypes'
    BY <1>4, Zenon DEF QueryTypes, StartTransaction, Goto
  <2>4. FlagTypes'
    BY <1>4, Zenon DEF FlagTypes, StartTransaction, Goto
  <2>5. ThreadTypes'
    BY <1>4, Zenon DEF ThreadTypes, StartTransaction, Goto
  <2> QED
    BY <2>1, <2>2, <2>3, <2>4, <2>5, Zenon
<1>5. ASSUME NEW t \in Txns, SetReadWrite(t) PROVE TypeOK'
  <2>1. TimeTypes'
    BY <1>5, Zenon DEF TimeTypes, Timestamps, SetReadWrite
  <2>2. ListTypes'
    BY <1>5, Zenon DEF ListTypes, SetReadWrite
  <2>3. QueryTypes'
    BY <1>5, Zenon DEF QueryTypes, SetReadWrite
  <2>4. FlagTypes'
    BY <1>5, Zenon DEF FlagTypes, SetReadWrite
  <2>5. ThreadTypes'
    BY <1>5, Zenon DEF ThreadTypes, SetReadWrite
  <2> QED
    BY <2>1, <2>2, <2>3, <2>4, <2>5, Zenon
<1>6. ASSUME NEW t \in Txns, NEW kind \in Kinds, Write(t, kind) PROVE TypeOK'
  <2>1. TimeTypes'
    BY <1>6, Zenon DEF TimeTypes, Timestamps, Write
  <2>2. ListTypes'
    BY <1>6, ConstantFacts, Zenon DEF ListTypes, Write
  <2>3. QueryTypes'
    BY <1>6, Zenon DEF QueryTypes, Write
  <2>4. FlagTypes'
    BY <1>6, Zenon DEF FlagTypes, Write
  <2>5. ThreadTypes'
    BY <1>6, Zenon DEF ThreadTypes, Write
  <2> QED
    BY <2>1, <2>2, <2>3, <2>4, <2>5, Zenon
<1>7. ASSUME NEW t \in Txns, CommitTransaction(t) PROVE TypeOK'
  <2>1. TimeTypes'
    BY <1>7, Zenon DEF TimeTypes, Timestamps, CommitTransaction, EnterCommit, Goto
  <2>2. ListTypes'
    BY <1>7 DEF ListTypes, CommitTransaction, EnterCommit, Goto
  <2>3. QueryTypes'
    BY <1>7, Zenon DEF QueryTypes, CommitTransaction, EnterCommit, Goto
  <2>4. FlagTypes'
    BY <1>7, Zenon DEF FlagTypes, CommitTransaction, EnterCommit, Goto
  <2>5. ThreadTypes'
    BY <1>7 DEF ThreadTypes, CommitTransaction, EnterCommit, Goto
  <2> QED
    BY <2>1, <2>2, <2>3, <2>4, <2>5, Zenon
<1>8. ASSUME NEW t \in Txns, RollbackTransaction(t) PROVE TypeOK'
  <2> DEFINE store == changes[t] # {}
  <2>a. store \in BOOLEAN
    BY Zenon DEF FlagTypes
  <2>b. RemoveTransaction(t, store)
    BY <1>8, Zenon DEF RollbackTransaction
  <2> HIDE DEF store
  <2>c. /\ lowest_active_start' \in Nat
        /\ active_transactions' \subseteq Txns
        /\ write_lock' \subseteq Txns
        /\ recently_committed_transactions' \in Seq(Txns)
        /\ awaiting_cleanup' \in [Txns -> BOOLEAN]
        /\ old_transactions' \in Seq(Txns)
        /\ cleanup_queue' \in Seq(Infos)
        /\ highest_active_query' \in [Txns -> Nat]
        /\ watchers' \in [Txns -> SUBSET Txns]
    BY <2>a, <2>b, RemoveType, Zenon
  <2>1. TimeTypes'
    BY <1>8, <2>c, Zenon DEF TimeTypes, Timestamps, Goto, RollbackTransaction
  <2>2. ListTypes'
    BY <1>8, <2>c, Zenon DEF ListTypes, Goto, RollbackTransaction
  <2>3. QueryTypes'
    BY <1>8, <2>c, Zenon DEF QueryTypes, Goto, RollbackTransaction
  <2>4. FlagTypes'
    BY <1>8, <2>c, Zenon DEF FlagTypes, Goto, RollbackTransaction
  <2>5. ThreadTypes'
    BY <1>8, <2>c, Zenon DEF ThreadTypes, Goto, RollbackTransaction
  <2> QED
    BY <2>1, <2>2, <2>3, <2>4, <2>5, Zenon
<1>9. ASSUME NEW t \in Txns, WriteToWAL(t) PROVE TypeOK'
  <2>1. TimeTypes'
    BY <1>9, Zenon DEF TimeTypes, Timestamps, WriteToWAL, Goto
  <2>2. ListTypes'
    <3>1. wal' \in Seq(Txns)
      BY <1>9 DEF ListTypes, WriteToWAL
    <3>2. initial_wal_size' \in [Txns -> Nat]
      BY <1>9 DEF ListTypes, WriteToWAL
    <3> QED
      BY <3>1, <3>2, <1>9, Zenon DEF ListTypes, WriteToWAL
  <2>3. QueryTypes'
    BY <1>9, Zenon DEF QueryTypes, WriteToWAL, Goto
  <2>4. FlagTypes'
    BY <1>9, Zenon DEF FlagTypes, WriteToWAL, Goto
  <2>5. ThreadTypes'
    BY <1>9, Zenon DEF ThreadTypes, WriteToWAL, Goto
  <2> QED
    BY <2>1, <2>2, <2>3, <2>4, <2>5, Zenon
<1>10. ASSUME NEW t \in Txns, Relock(t) PROVE TypeOK'
  <2>1. TimeTypes'
    BY <1>10, Zenon DEF TimeTypes, Timestamps, Relock, Goto
  <2>2. ListTypes'
    BY <1>10, Zenon DEF ListTypes, Relock, Goto
  <2>3. QueryTypes'
    BY <1>10, Zenon DEF QueryTypes, Relock, Goto
  <2>4. FlagTypes'
    BY <1>10, Zenon DEF FlagTypes, Relock, Goto
  <2>5. ThreadTypes'
    BY <1>10, Zenon DEF ThreadTypes, Relock, Goto
  <2> QED
    BY <2>1, <2>2, <2>3, <2>4, <2>5, Zenon
<1>11. ASSUME NEW t \in Txns, Commit(t) PROVE TypeOK'
  <2>1. TimeTypes'
    <3>1. PICK error \in BOOLEAN : commit_id' = [commit_id EXCEPT ![t] = NewCommitId(error)]
      BY <1>11, Zenon DEF Commit
    <3>2. current_start_timestamp' = current_start_timestamp + 1
      BY <1>11, Zenon DEF Commit
    <3>3. NewCommitId(error) \in Timestamps'
      BY <3>2 DEF NewCommitId, TimeTypes, Timestamps
    <3>4. start_time' \in [Txns -> Timestamps'] /\ commit_id' \in [Txns -> Timestamps']
      BY <1>11, <3>1, <3>2, <3>3 DEF TimeTypes, Timestamps, Commit
    <3> QED
      BY <3>4, <1>11 DEF TimeTypes, Commit
  <2>2. ListTypes'
    <3>1. wal' = Truncate(wal, initial_wal_size[t]) \/ wal' = wal
      BY <1>11, Zenon DEF Commit
    <3>2. wal' \in Seq(Txns)
      <4>1. wal \in Seq(Txns) /\ initial_wal_size[t] \in Nat
        BY Zenon DEF ListTypes
      <4>2. initial_wal_size[t] <= Len(wal) => SubSeq(wal, 1, initial_wal_size[t]) \in Seq(Txns)
        BY <4>1, SubSeqFacts
      <4> QED
        BY <3>1, <4>1, <4>2, Zenon DEF Truncate
    <3> QED
      BY <3>2, <1>11, Zenon DEF ListTypes, Commit
  <2>3. QueryTypes'
    BY <1>11, Zenon DEF QueryTypes, Commit, Goto, NewCommitId
  <2>4. FlagTypes'
    BY <1>11 DEF FlagTypes, Commit, Goto, NewCommitId
  <2>5. ThreadTypes'
    BY <1>11, Zenon DEF ThreadTypes, Commit, Goto, NewCommitId
  <2> QED
    BY <2>1, <2>2, <2>3, <2>4, <2>5, Zenon
<1>12. ASSUME NEW t \in Txns, RemoveCommitted(t) PROVE TypeOK'
  <2> DEFINE store == failed[t] \/ changes[t] \cap {"index_delete", "update"} # {}
  <2>a. store \in BOOLEAN
    BY Zenon DEF FlagTypes
  <2>b. RemoveTransaction(t, store)
    BY <1>12, Zenon DEF RemoveCommitted
  <2> HIDE DEF store
  <2>c. /\ lowest_active_start' \in Nat
        /\ active_transactions' \subseteq Txns
        /\ write_lock' \subseteq Txns
        /\ recently_committed_transactions' \in Seq(Txns)
        /\ awaiting_cleanup' \in [Txns -> BOOLEAN]
        /\ old_transactions' \in Seq(Txns)
        /\ cleanup_queue' \in Seq(Infos)
        /\ highest_active_query' \in [Txns -> Nat]
        /\ watchers' \in [Txns -> SUBSET Txns]
    BY <2>a, <2>b, RemoveType, Zenon
  <2>1. TimeTypes'
    BY <1>12, <2>c, Zenon DEF TimeTypes, Timestamps, Goto, RemoveCommitted
  <2>2. ListTypes'
    BY <1>12, <2>c, Zenon DEF ListTypes, Goto, RemoveCommitted
  <2>3. QueryTypes'
    BY <1>12, <2>c, Zenon DEF QueryTypes, Goto, RemoveCommitted
  <2>4. FlagTypes'
    BY <1>12, <2>c, Zenon DEF FlagTypes, Goto, RemoveCommitted
  <2>5. ThreadTypes'
    BY <1>12, <2>c, Zenon DEF ThreadTypes, Goto, RemoveCommitted
  <2> QED
    BY <2>1, <2>2, <2>3, <2>4, <2>5, Zenon
<1>13. ASSUME NEW t \in Txns, PopCleanup(t) PROVE TypeOK'
  <2>1. TimeTypes'
    BY <1>13, Zenon DEF TimeTypes, Timestamps, PopCleanup, AfterCleanup
  <2>2. ListTypes'
    <3>1. top_cleanup_info' \in [Txns -> Infos] /\ cleanup_queue' \in Seq(Infos)
      BY <1>13, PopType, Zenon
    <3> QED
      BY <3>1, <1>13, Zenon DEF ListTypes, PopCleanup
  <2>3. QueryTypes'
    BY <1>13, Zenon DEF QueryTypes, PopCleanup, AfterCleanup
  <2>4. FlagTypes'
    BY <1>13, Zenon DEF FlagTypes, PopCleanup, AfterCleanup
  <2>5. ThreadTypes'
    BY <1>13, Zenon DEF ThreadTypes, PopCleanup, AfterCleanup
  <2> QED
    BY <2>1, <2>2, <2>3, <2>4, <2>5, Zenon
<1>14. ASSUME NEW t \in Txns, Cleanup(t) PROVE TypeOK'
  <2>1. TimeTypes'
    BY <1>14, Zenon DEF TimeTypes, Timestamps, Cleanup, AfterCleanup
  <2>2. ListTypes'
    <3>1. write_lock' \subseteq Txns
      BY <1>14, Zenon DEF ListTypes, Cleanup
    <3>2. top_cleanup_info' \in [Txns -> Infos]
      BY <1>14, NoInfoType, Zenon DEF ListTypes, Cleanup
    <3> QED
      BY <3>1, <3>2, <1>14, Zenon DEF ListTypes, Cleanup
  <2>3. QueryTypes'
    BY <1>14, Zenon DEF QueryTypes, Cleanup, AfterCleanup
  <2>4. FlagTypes'
    BY <1>14, Zenon DEF FlagTypes, Cleanup, AfterCleanup
  <2>5. ThreadTypes'
    BY <1>14, Zenon DEF ThreadTypes, Cleanup, AfterCleanup
  <2> QED
    BY <2>1, <2>2, <2>3, <2>4, <2>5, Zenon
<1>15. ASSUME NEW t \in Txns, CheckpointOnCommit(t) PROVE TypeOK'
  <2>1. TimeTypes'
    BY <1>15, Zenon DEF TimeTypes, Timestamps, CheckpointOnCommit, Goto
  <2>2. ListTypes'
    <3>1. wal' \in Seq(Txns)
      BY <1>15 DEF ListTypes, CheckpointOnCommit
    <3> QED
      BY <3>1, <1>15, Zenon DEF ListTypes, CheckpointOnCommit
  <2>3. QueryTypes'
    BY <1>15, Zenon DEF QueryTypes, CheckpointOnCommit, Goto
  <2>4. FlagTypes'
    BY <1>15, Zenon DEF FlagTypes, CheckpointOnCommit, Goto
  <2>5. ThreadTypes'
    BY <1>15, Zenon DEF ThreadTypes, CheckpointOnCommit, Goto
  <2> QED
    BY <2>1, <2>2, <2>3, <2>4, <2>5, Zenon
<1>16. ASSUME CommandNext PROVE TypeOK'
  <2> USE DEF CommandNext, CommandStep, CheckpointCommand, ForceCheckpoint, ForceLock,
          ForceInterrupted, ReadLastCommit, ReadLowestActiveStart, CreateCheckpoint,
          TryGetExclusiveLock, CommandType
  <2>0. wal' \in Seq(Txns) /\ command_commit' \in Nat
    <3>1. wal' = wal \/ wal' = <<>>
      BY <1>16, Zenon
    <3>2. command_commit' \in {command_commit, last_commit, 0}
      BY <1>16, Zenon
    <3>3. wal' \in Seq(Txns)
      <4>1. wal \in Seq(Txns) /\ <<>> \in Seq(Txns)
        BY DEF ListTypes
      <4> QED
        BY <3>1, <4>1, Zenon
    <3>4. command_commit' \in Nat
      BY <3>2 DEF TimeTypes
    <3> QED
      BY <3>3, <3>4, Zenon
  <2>1. TimeTypes'
    BY <1>16, <2>0, Zenon DEF TimeTypes, Timestamps
  <2>2. ListTypes'
    BY <1>16, <2>0, Zenon DEF ListTypes
  <2>3. QueryTypes'
    BY <1>16, <2>0, Zenon DEF QueryTypes
  <2>4. FlagTypes'
    BY <1>16, <2>0, Zenon DEF FlagTypes
  <2>5. ThreadTypes'
    BY <1>16, <2>0, Zenon DEF ThreadTypes
  <2> QED
    BY <2>1, <2>2, <2>3, <2>4, <2>5, Zenon
<1>17. ASSUME UNCHANGED vars PROVE TypeOK'
  BY <1>17, Zenon DEF TimeTypes, Timestamps, ListTypes, QueryTypes, FlagTypes, ThreadTypes, vars
<1> QED
  BY <1>1, <1>2, <1>3, <1>4, <1>5, <1>6, <1>7, <1>8, <1>9, <1>10, <1>11, <1>12, <1>13, <1>14, <1>15, <1>16, <1>17, Zenon DEF Next, EndStep, ClientStep

(* Every variable keeps its type, and every start time and commit id is a  *)
(* timestamp that the manager has handed out.                              *)
THEOREM TypeCorrect == Spec => []TypeOK
BY TypeInit, TypeStep, PTL DEF Spec

-----------------------------------------------------------------------------
(* The lock discipline                                                     *)

(* The elements of a concatenation and of a part of a sequence.            *)
LEMMA ElementsConcat ==
  ASSUME NEW S, NEW a \in Seq(S), NEW b \in Seq(S)
  PROVE  Elements(a \o b) = Elements(a) \cup Elements(b)
<1>1. ASSUME NEW x \in Elements(a \o b) PROVE x \in Elements(a) \cup Elements(b)
  <2>1. PICK i \in 1..Len(a \o b) : x = (a \o b)[i]
    BY Zenon DEF Elements
  <2>2. CASE i <= Len(a)
    BY <2>1, <2>2 DEF Elements
  <2>3. CASE i > Len(a)
    <3>1. i - Len(a) \in 1..Len(b) /\ x = b[i - Len(a)]
      BY <2>1, <2>3
    <3> QED
      BY <3>1, Zenon DEF Elements
  <2> QED
    BY <2>2, <2>3
<1>2. ASSUME NEW x \in Elements(a) PROVE x \in Elements(a \o b)
  <2>1. PICK i \in 1..Len(a) : x = a[i]
    BY Zenon DEF Elements
  <2>2. i \in 1..Len(a \o b) /\ x = (a \o b)[i]
    BY <2>1
  <2> QED
    BY <2>2, Zenon DEF Elements
<1>3. ASSUME NEW x \in Elements(b) PROVE x \in Elements(a \o b)
  <2>1. PICK i \in 1..Len(b) : x = b[i]
    BY Zenon DEF Elements
  <2>2. Len(a) + i \in 1..Len(a \o b) /\ x = (a \o b)[Len(a) + i]
    BY <2>1
  <2> QED
    BY <2>2, Zenon DEF Elements
<1> QED
  BY <1>1, <1>2, <1>3, Zenon

LEMMA ElementsSubSeq ==
  ASSUME NEW S, NEW s \in Seq(S), NEW m \in Nat \ {0}, NEW n \in 0..Len(s)
  PROVE  Elements(SubSeq(s, m, n)) \subseteq Elements(s)
<1> SUFFICES ASSUME NEW x \in Elements(SubSeq(s, m, n)) PROVE x \in Elements(s)
  BY Zenon
<1>1. PICK i \in 1..Len(SubSeq(s, m, n)) : x = SubSeq(s, m, n)[i]
  BY Zenon DEF Elements
<1> DEFINE len == Len(SubSeq(s, m, n))
<1>2. len = (IF m <= n THEN n - m + 1 ELSE 0) /\ SubSeq(s, m, n)[i] = s[m + i - 1]
  BY SubSeqFacts, Zenon
<1>3. i \in 1..len /\ Len(s) \in Nat
  OBVIOUS
<1> HIDE DEF len
<1>4. m + i - 1 \in 1..Len(s)
  BY <1>2, <1>3
<1> QED
  BY <1>1, <1>2, <1>4, Zenon DEF Elements

(* ... in particular of a suffix.                                          *)
LEMMA ElementsSuffix ==
  ASSUME NEW S, NEW s \in Seq(S), NEW n \in 0..Len(s)
  PROVE  Elements(SubSeq(s, n + 1, Len(s))) \subseteq Elements(s)
<1>1. n + 1 \in Nat \ {0} /\ Len(s) \in 0..Len(s)
  OBVIOUS
<1> QED
  BY <1>1, ElementsSubSeq, Zenon

(* Appending adds one element.                                             *)
LEMMA ElementsAppend ==
  ASSUME NEW S, NEW s \in Seq(S), NEW x \in S
  PROVE  Elements(Append(s, x)) \subseteq Elements(s) \cup {x}
<1>1. /\ Len(Append(s, x)) = Len(s) + 1 /\ Len(s) \in Nat
      /\ \A i \in 1..Len(s) : Append(s, x)[i] = s[i]
      /\ Append(s, x)[Len(s) + 1] = x
  OBVIOUS
<1>2. ASSUME NEW i \in 1..(Len(s) + 1) PROVE i \in 1..Len(s) \/ i = Len(s) + 1
  BY <1>1
<1>3. ASSUME NEW i \in 1..(Len(s) + 1) PROVE Append(s, x)[i] \in Elements(s) \cup {x}
  BY <1>1, <1>2, Zenon DEF Elements
<1> QED
  BY <1>1, <1>3, Zenon DEF Elements

(* The list with t added to it holds what is kept, and t.                  *)
LEMMA RecentKept ==
  ASSUME TypeOK, NEW t \in Txns, NEW store \in BOOLEAN
  PROVE  Elements(Recent(t, store)) \subseteq Kept \cup {t}
<1>1. recently_committed_transactions \in Seq(Txns)
  BY Zenon DEF TypeOK, ListTypes
<1>2. Elements(recently_committed_transactions) \subseteq Kept
  BY Zenon DEF Kept
<1>3. Elements(Append(recently_committed_transactions, t)) \subseteq Kept \cup {t}
  BY <1>1, <1>2, ElementsAppend, Zenon
<1> QED
  BY <1>2, <1>3, Zenon DEF Recent

(* RemoveTransaction adds at most its own transaction to those kept.       *)
LEMMA RemoveKept ==
  ASSUME TypeOK, NEW t \in Txns, NEW store \in BOOLEAN, RemoveTransaction(t, store),
         UNCHANGED top_cleanup_info
  PROVE  Kept' \subseteq Kept \cup {t}
<1> DEFINE recent == Recent(t, store)
           moved(n) == SubSeq(recent, 1, n)
           old(n) == old_transactions \o Aborted(t, store) \o moved(n)
           info(lowest, n, k) == [lowest_start_time |-> lowest,
                                  transactions |-> Direct(t, store) \o SubSeq(old(n), 1, k)]
<1>1. PICK lowest \in Nat, n \in 0..Len(recent) : Removed(t, store, lowest, n)
  BY RemoveParts, Zenon
<1>t. /\ recent \in Seq(Txns) /\ Aborted(t, store) \in Seq(Txns)
      /\ Direct(t, store) \in Seq(Txns) /\ moved(n) \in Seq(Txns)
      /\ old_transactions \in Seq(Txns) /\ recently_committed_transactions \in Seq(Txns)
      /\ old(n) \in Seq(Txns) /\ cleanup_queue \in Seq(Infos)
  <2>1. /\ recent \in Seq(Txns) /\ Aborted(t, store) \in Seq(Txns)
        /\ Direct(t, store) \in Seq(Txns) /\ moved(n) \in Seq(Txns)
    BY LocalTypes, Zenon
  <2>2. old_transactions \in Seq(Txns) /\ recently_committed_transactions \in Seq(Txns)
        /\ cleanup_queue \in Seq(Infos)
    BY Zenon DEF TypeOK, ListTypes
  <2> QED
    BY <2>1, <2>2
<1>2. Elements(recent) \subseteq Kept \cup {t}
  BY RecentKept, Zenon
<1>c. \A a, b \in Seq(Txns) : Elements(a \o b) = Elements(a) \cup Elements(b)
  BY ElementsConcat, Zenon
<1>3. Elements(Aborted(t, store)) \subseteq {t} /\ Elements(Direct(t, store)) \subseteq {t}
  BY DEF Aborted, Direct, Elements
<1>4. Elements(moved(n)) \subseteq Kept \cup {t}
  BY <1>2, <1>t, ElementsSubSeq
<1>5. Elements(old(n)) \subseteq Kept \cup {t}
  <2> HIDE DEF moved
  <2>1. old_transactions \o Aborted(t, store) \in Seq(Txns)
    BY <1>t
  <2>2. Elements(old(n)) = (Elements(old_transactions) \cup Elements(Aborted(t, store)))
                              \cup Elements(moved(n))
    <3>1. Elements(old(n)) = Elements(old_transactions \o Aborted(t, store))
                                \cup Elements(moved(n))
      BY <2>1, <1>t, <1>c, Zenon
    <3>2. Elements(old_transactions \o Aborted(t, store))
             = Elements(old_transactions) \cup Elements(Aborted(t, store))
      BY <1>t, <1>c, Zenon
    <3> QED
      BY <3>1, <3>2, Zenon
  <2> QED
    BY <2>2, <1>3, <1>4, Zenon DEF Kept
<1>6. Elements(recently_committed_transactions') \subseteq Kept \cup {t}
  <2>1. recently_committed_transactions' = SubSeq(recent, n + 1, Len(recent))
    BY <1>1, Zenon DEF Removed
  <2> QED
    BY <2>1, <1>2, <1>t, ElementsSuffix, Zenon
<1>7. PICK k \in 0..Len(old(n)) :
        /\ old_transactions' = SubSeq(old(n), k + 1, Len(old(n)))
        /\ cleanup_queue' = IF info(lowest, n, k).transactions = <<>> THEN cleanup_queue
                            ELSE Append(cleanup_queue, info(lowest, n, k))
  BY <1>1, Zenon DEF Removed, ScheduleCleanup
<1> HIDE DEF old
<1>8. Elements(old_transactions') \subseteq Kept \cup {t}
  BY <1>7, <1>5, <1>t, ElementsSuffix, Zenon
<1>9. Elements(info(lowest, n, k).transactions) \subseteq Kept \cup {t}
  <2> DEFINE taken == SubSeq(old(n), 1, k)
  <2>1. taken \in Seq(Txns)
    BY <1>t, SubSeqFacts
  <2>2. Elements(taken) \subseteq Kept \cup {t}
    BY <1>5, <1>t, ElementsSubSeq
  <2>3. Elements(Direct(t, store) \o taken) = Elements(Direct(t, store)) \cup Elements(taken)
    <3> HIDE DEF taken
    <3> QED
      BY <2>1, <1>t, <1>c, Zenon
  <2> QED
    BY <2>2, <2>3, <1>3, Zenon
<1> HIDE DEF info
<1>10. \A i \in 1..Len(cleanup_queue') :
         \/ i \in 1..Len(cleanup_queue) /\ cleanup_queue'[i] = cleanup_queue[i]
         \/ cleanup_queue'[i] = info(lowest, n, k)
  <2> DEFINE new == info(lowest, n, k)
  <2> HIDE DEF new
  <2>1. cleanup_queue' = cleanup_queue \/ cleanup_queue' = Append(cleanup_queue, new)
    BY <1>7, Zenon DEF new
  <2>2. CASE cleanup_queue' = cleanup_queue
    BY <2>2, Zenon
  <2>3. CASE cleanup_queue' = Append(cleanup_queue, new)
    <3>1. cleanup_queue \in Seq(Infos)
      BY <1>t, Zenon
    <3>2. /\ Len(cleanup_queue') = Len(cleanup_queue) + 1 /\ Len(cleanup_queue) \in Nat
          /\ \A i \in 1..Len(cleanup_queue) : cleanup_queue'[i] = cleanup_queue[i]
          /\ cleanup_queue'[Len(cleanup_queue) + 1] = new
      BY <2>3, <3>1
    <3>3. \A i \in 1..Len(cleanup_queue') :
             i \in 1..Len(cleanup_queue) \/ i = Len(cleanup_queue) + 1
      BY <3>2
    <3> QED
      BY <3>2, <3>3, Zenon DEF new
  <2> QED
    BY <2>1, <2>2, <2>3, Zenon
<1>11. Scheduled' \subseteq Kept \cup {t}
  BY <1>9, <1>10, Zenon DEF Scheduled, Kept
<1> QED
  BY <1>6, <1>8, <1>11, Zenon DEF Kept

(* PopCleanup moves a cleanup info from the queue to the thread.           *)
LEMMA PopKept ==
  ASSUME TypeOK, NEW t \in Txns, PopCleanup(t)
  PROVE  Kept' \subseteq Kept
<1>1. CASE cleanup_queue = <<>>
  BY <1>1 DEF PopCleanup, Kept, Scheduled
<1>2. CASE cleanup_queue # <<>>
  <2>1. /\ cleanup_queue \in Seq(Infos) /\ Len(cleanup_queue) > 0
        /\ top_cleanup_info \in [Txns -> Infos]
    BY <1>2 DEF TypeOK, ListTypes
  <2>2. /\ top_cleanup_info' = [top_cleanup_info EXCEPT ![t] = Head(cleanup_queue)]
        /\ cleanup_queue' = Tail(cleanup_queue)
        /\ UNCHANGED <<recently_committed_transactions, old_transactions>>
    BY <1>2, Zenon DEF PopCleanup
  <2>3. \A i \in 1..Len(cleanup_queue') :
          i + 1 \in 1..Len(cleanup_queue) /\ cleanup_queue'[i] = cleanup_queue[i + 1]
    BY <2>1, <2>2
  <2>4. 1 \in 1..Len(cleanup_queue) /\ Head(cleanup_queue) = cleanup_queue[1]
    BY <2>1
  <2>5. \A u \in Txns : \/ top_cleanup_info'[u] = top_cleanup_info[u]
                        \/ top_cleanup_info'[u] = cleanup_queue[1]
    BY <2>1, <2>2, <2>4, Zenon
  <2> QED
    BY <2>2, <2>3, <2>4, <2>5 DEF Kept, Scheduled
<1> QED
  BY <1>1, <1>2, Zenon

(* Cleanup destroys what the thread had taken, and nothing is added.       *)
LEMMA CleanupKept ==
  ASSUME TypeOK, NEW t \in Txns, Cleanup(t)
  PROVE  Kept' \subseteq Kept /\ Destroyed(t) \subseteq Kept
<1>1. /\ top_cleanup_info' = [top_cleanup_info EXCEPT ![t] = NoInfo]
      /\ UNCHANGED lists
  BY Zenon DEF Cleanup
<1>2. Elements(NoInfo.transactions) = {}
  BY DEF NoInfo, Elements
<1>3. \A u \in Txns : \/ top_cleanup_info'[u] = top_cleanup_info[u]
                      \/ top_cleanup_info'[u] = NoInfo
  BY <1>1, Zenon DEF TypeOK, ListTypes
<1>4. Scheduled' \subseteq Scheduled
  BY <1>1, <1>2, <1>3, Zenon DEF Scheduled, lists
<1>5. Destroyed(t) \subseteq Scheduled
  BY Zenon DEF Destroyed, Scheduled
<1> QED
  BY <1>1, <1>4, <1>5, Zenon DEF Kept, lists

(* A step that leaves the kept transactions alone or adds one that is over. *)
LEMMA KeptFrame ==
  ASSUME UNCHANGED <<recently_committed_transactions, old_transactions, cleanup_queue,
                     top_cleanup_info>>
  PROVE  Kept' = Kept
BY DEF Kept, Scheduled, Elements

(* Kept transactions are transactions.                                     *)
LEMMA KeptType ==
  ASSUME TypeOK
  PROVE  Kept \subseteq Txns
<1>1. Elements(recently_committed_transactions) \subseteq Txns
  BY ElementsType, Zenon DEF TypeOK, ListTypes
<1>2. Elements(old_transactions) \subseteq Txns
  BY ElementsType, Zenon DEF TypeOK, ListTypes
<1>3. \A i \in 1..Len(cleanup_queue) : Elements(cleanup_queue[i].transactions) \subseteq Txns
  <2> SUFFICES ASSUME NEW i \in 1..Len(cleanup_queue)
               PROVE  Elements(cleanup_queue[i].transactions) \subseteq Txns
    BY Zenon
  <2>1. cleanup_queue[i] \in Infos
    BY DEF TypeOK, ListTypes
  <2>2. cleanup_queue[i].transactions \in Seq(Txns)
    BY <2>1, Zenon DEF Infos
  <2> QED
    BY <2>2, ElementsType, Zenon
<1>4. \A t \in Txns : Elements(top_cleanup_info[t].transactions) \subseteq Txns
  <2> SUFFICES ASSUME NEW t \in Txns
               PROVE  Elements(top_cleanup_info[t].transactions) \subseteq Txns
    BY Zenon
  <2>1. top_cleanup_info[t] \in Infos
    BY Zenon DEF TypeOK, ListTypes
  <2>2. top_cleanup_info[t].transactions \in Seq(Txns)
    BY <2>1, Zenon DEF Infos
  <2> QED
    BY <2>2, ElementsType, Zenon
<1> QED
  BY <1>1, <1>2, <1>3, <1>4, Zenon DEF Kept, Scheduled

(* Initially no lock is owned.                                             *)
LEMMA LockInit == Init => LockInv
<1> SUFFICES ASSUME Init PROVE LockInv
  BY Zenon
<1>1. Kept = {}
  <2>1. Elements(<<>>) = {}
    BY DEF Elements
  <2>2. \A t \in Txns : top_cleanup_info[t].transactions = <<>>
    BY Zenon DEF Init, NoInfo
  <2>3. recently_committed_transactions = <<>> /\ old_transactions = <<>>
        /\ cleanup_queue = <<>>
    BY Zenon DEF Init
  <2>4. 1..Len(cleanup_queue) = {}
    BY <2>3
  <2>5. Scheduled = {}
    BY <2>1, <2>2, <2>4, Zenon DEF Scheduled
  <2> QED
    BY <2>1, <2>3, <2>5, Zenon DEF Kept
<1> QED
  BY <1>1, ConstantFacts, Zenon DEF Init, LockInv, Ending, Over

(* Every step keeps the lock discipline.                                   *)
LEMMA LockStep == TypeOK /\ LockInv /\ [Next]_vars => LockInv'
<1> SUFFICES ASSUME TypeOK, LockInv, [Next]_vars PROVE LockInv'
  BY Zenon
<1>k. Kept \subseteq Txns
  BY KeptType, Zenon
<1> USE DEF Ending, Over
<1>1. ASSUME NEW t \in Txns, BeginQuery(t) PROVE LockInv'
  <2>1. Kept' = Kept
    BY <1>1, KeptFrame, Zenon DEF BeginQuery, lists
  <2> QED
    BY <1>1, <1>k, <2>1, ConstantFacts, Zenon DEF LockInv, TypeOK, ThreadTypes, ListTypes, BeginQuery,
       counters, lists, stamps, gc, queries, locals, cmd
<1>2. ASSUME NEW t \in Txns, SetActiveQuery(t) PROVE LockInv'
  <2>1. Kept' = Kept
    BY <1>2, KeptFrame, Zenon DEF SetActiveQuery, lists
  <2> QED
    BY <1>2, <1>k, <2>1, ConstantFacts, Zenon DEF LockInv, TypeOK, ThreadTypes, ListTypes, SetActiveQuery,
       counters, lists, stamps, gc, queries, locals, cmd
<1>3. ASSUME NEW t \in Txns, EndQuery(t) PROVE LockInv'
  <2>1. Kept' = Kept
    BY <1>3, KeptFrame, Zenon DEF EndQuery, lists
  <2> QED
    BY <1>3, <1>k, <2>1, ConstantFacts, Zenon DEF LockInv, TypeOK, ThreadTypes, ListTypes, EndQuery,
       counters, lists, stamps, gc, queries, locals, cmd
<1>4. ASSUME NEW t \in Txns, StartTransaction(t) PROVE LockInv'
  <2>1. Kept' = Kept
    BY <1>4, KeptFrame, Zenon DEF StartTransaction, lists
  <2> QED
    BY <1>4, <1>k, <2>1, ConstantFacts, Zenon DEF LockInv, TypeOK, ThreadTypes, ListTypes, StartTransaction, Goto,
       counters, lists, stamps, gc, queries, locals, cmd
<1>5. ASSUME NEW t \in Txns, SetReadWrite(t) PROVE LockInv'
  <2>1. Kept' = Kept
    BY <1>5, KeptFrame, Zenon DEF SetReadWrite, lists
  <2> QED
    BY <1>5, <1>k, <2>1, ConstantFacts, Zenon DEF LockInv, TypeOK, ThreadTypes, ListTypes, SetReadWrite,
       counters, lists, stamps, gc, queries, locals, cmd
<1>6. ASSUME NEW t \in Txns, NEW kind \in Kinds, Write(t, kind) PROVE LockInv'
  <2>1. Kept' = Kept
    BY <1>6, KeptFrame, Zenon DEF Write, lists
  <2> QED
    BY <1>6, <1>k, <2>1, ConstantFacts, Zenon DEF LockInv, TypeOK, ThreadTypes, ListTypes, Write,
       counters, lists, stamps, gc, queries, locals, cmd
<1>7. ASSUME NEW t \in Txns, CommitTransaction(t) PROVE LockInv'
  <2>1. Kept' = Kept
    BY <1>7, KeptFrame, Zenon DEF CommitTransaction, lists
  <2>2. PICK auto, upgraded \in BOOLEAN, decision \in {"none", "full", "concurrent"} :
          /\ pc[t] = "running"
          /\ CanCheckpoint(t, auto, upgraded, decision)
          /\ transaction_lock = Nobody
          /\ checkpoint_decision' = [checkpoint_decision EXCEPT ![t] = decision]
          /\ checkpoint_lock' = IF upgraded THEN t ELSE checkpoint_lock
          /\ EnterCommit(t, decision)
    BY <1>7, Zenon DEF CommitTransaction
  <2>3. UNCHANGED <<active_transactions, changes, write_lock, command>>
    BY <1>7, Zenon DEF CommitTransaction, lists, cmd
  <2>4. upgraded => checkpoint_lock = Nobody /\ write_lock = {t}
    BY <2>2, Zenon DEF CanCheckpoint
  <2>5. decision # "none" => upgraded
    BY <2>2, Zenon DEF CanCheckpoint
  <2>6. \/ /\ decision = "none" /\ pc' = [pc EXCEPT ![t] = "wal"]
           /\ transaction_lock' = transaction_lock
        \/ pc' = [pc EXCEPT ![t] = "commit"] /\ transaction_lock' = t
    BY <2>2, Zenon DEF EnterCommit, Logged, Goto
  <2>7. \/ checkpoint_lock' = t /\ checkpoint_lock = Nobody /\ write_lock = {t}
        \/ checkpoint_lock' = checkpoint_lock /\ decision = "none"
    <3>1. CASE upgraded
      BY <2>2, <2>4, <3>1, Zenon
    <3>2. CASE ~upgraded
      BY <2>2, <2>5, <3>2, Zenon
    <3> QED
      BY <3>1, <3>2, Zenon
  <2>8. /\ pc[t] = "running" /\ transaction_lock = Nobody
        /\ checkpoint_decision' = [checkpoint_decision EXCEPT ![t] = decision]
    BY <2>2, Zenon
  <2>9. CASE pc' = [pc EXCEPT ![t] = "wal"] /\ decision = "none"
             /\ transaction_lock' = transaction_lock
    BY <1>k, <2>1, <2>3, <2>7, <2>8, <2>9, ConstantFacts, Zenon DEF LockInv, TypeOK, ThreadTypes
  <2>10. CASE pc' = [pc EXCEPT ![t] = "commit"] /\ transaction_lock' = t
    BY <1>k, <2>1, <2>3, <2>7, <2>8, <2>10, ConstantFacts, Zenon DEF LockInv, TypeOK, ThreadTypes
  <2> QED
    BY <2>6, <2>9, <2>10, Zenon
<1>8. ASSUME NEW t \in Txns, RollbackTransaction(t) PROVE LockInv'
  <2> DEFINE store == changes[t] # {}
  <2>a. store \in BOOLEAN
    BY Zenon DEF TypeOK, FlagTypes
  <2>b. RemoveTransaction(t, store)
    BY <1>8, Zenon DEF RollbackTransaction
  <2> HIDE DEF store
  <2>1. Kept' \subseteq Kept \cup {t}
    BY <1>8, <2>a, <2>b, RemoveKept, Zenon DEF RollbackTransaction
  <2>2. /\ active_transactions' = active_transactions \ {t}
        /\ write_lock' = IF changes[t] # {} THEN write_lock ELSE write_lock \ {t}
    BY <2>b, Zenon DEF RemoveTransaction
  <2> QED
    BY <1>8, <1>k, <2>1, <2>2, ConstantFacts, ZenonT(30) DEF LockInv, TypeOK, ThreadTypes, ListTypes, RollbackTransaction, Goto,
       counters, lists, stamps, gc, queries, locals, cmd
<1>9. ASSUME NEW t \in Txns, WriteToWAL(t) PROVE LockInv'
  <2>1. Kept' = Kept
    BY <1>9, KeptFrame, Zenon DEF WriteToWAL, lists
  <2> QED
    BY <1>9, <1>k, <2>1, ConstantFacts, Zenon DEF LockInv, TypeOK, ThreadTypes, ListTypes, WriteToWAL, Goto,
       counters, lists, stamps, gc, queries, locals, cmd
<1>10. ASSUME NEW t \in Txns, Relock(t) PROVE LockInv'
  <2>1. Kept' = Kept
    BY <1>10, KeptFrame, Zenon DEF Relock, lists
  <2> QED
    BY <1>10, <1>k, <2>1, ConstantFacts, Zenon DEF LockInv, TypeOK, ThreadTypes, ListTypes, Relock, Goto,
       counters, lists, stamps, gc, queries, locals, cmd
<1>11. ASSUME NEW t \in Txns, Commit(t) PROVE LockInv'
  <2>1. Kept' = Kept
    BY <1>11, KeptFrame, Zenon DEF Commit, lists
  <2>2. /\ pc[t] = "commit" /\ pc' = [pc EXCEPT ![t] = "remove"]
        /\ UNCHANGED <<active_transactions, transaction_lock, changes, write_lock, command>>
    BY <1>11, Zenon DEF Commit, Goto, lists, cmd
  <2>3. /\ \/ checkpoint_decision' = [checkpoint_decision EXCEPT ![t] = "none"]
           \/ checkpoint_decision' = checkpoint_decision
        /\ checkpoint_lock' = IF checkpoint_lock = t /\ checkpoint_decision'[t] = "none"
                              THEN Nobody ELSE checkpoint_lock
    BY <1>11, Zenon DEF Commit, TypeOK, ThreadTypes
  <2>4. CASE checkpoint_decision' = [checkpoint_decision EXCEPT ![t] = "none"]
    BY <1>k, <2>1, <2>2, <2>3, <2>4, ConstantFacts, Zenon DEF LockInv, TypeOK, ThreadTypes
  <2>5. CASE checkpoint_decision' = checkpoint_decision
    BY <1>k, <2>1, <2>2, <2>3, <2>5, ConstantFacts, Zenon DEF LockInv, TypeOK, ThreadTypes
  <2> QED
    BY <2>3, <2>4, <2>5, Zenon
<1>12. ASSUME NEW t \in Txns, RemoveCommitted(t) PROVE LockInv'
  <2> DEFINE store == failed[t] \/ changes[t] \cap {"index_delete", "update"} # {}
  <2>a. store \in BOOLEAN
    BY Zenon DEF TypeOK, FlagTypes
  <2>b. RemoveTransaction(t, store)
    BY <1>12, Zenon DEF RemoveCommitted
  <2> HIDE DEF store
  <2>1. Kept' \subseteq Kept \cup {t}
    BY <1>12, <2>a, <2>b, RemoveKept, Zenon DEF RemoveCommitted
  <2>2. /\ active_transactions' = active_transactions \ {t}
        /\ write_lock' = IF changes[t] # {} THEN write_lock ELSE write_lock \ {t}
    BY <2>b, Zenon DEF RemoveTransaction
  <2>3. /\ pc[t] = "remove" /\ pc' = [pc EXCEPT ![t] = "cleanup"]
        /\ transaction_lock' = Nobody
        /\ UNCHANGED <<changes, checkpoint_lock, checkpoint_decision, command>>
    BY <1>12, Zenon DEF RemoveCommitted, Goto, locals, cmd
  <2> QED
    BY <1>k, <2>1, <2>2, <2>3, ConstantFacts DEF LockInv, TypeOK, ThreadTypes, ListTypes
<1>13. ASSUME NEW t \in Txns, PopCleanup(t) PROVE LockInv'
  <2>1. Kept' \subseteq Kept
    BY <1>13, PopKept, Zenon
  <2>2. /\ pc[t] = "cleanup"
        /\ \/ pc' = [pc EXCEPT ![t] = "cleaning"]
           \/ pc' = [pc EXCEPT ![t] = "done"] /\ checkpoint_decision[t] = "none"
           \/ pc' = [pc EXCEPT ![t] = "checkpoint"] /\ checkpoint_decision[t] # "none"
        /\ UNCHANGED <<active_transactions, transaction_lock, changes, write_lock, command,
                       checkpoint_decision, checkpoint_lock>>
    BY <1>13, Zenon DEF PopCleanup, AfterCleanup, locals, cmd
  <2>3. CASE pc' = [pc EXCEPT ![t] = "cleaning"]
    BY <1>k, <2>1, <2>2, <2>3, ConstantFacts, Zenon DEF LockInv, TypeOK, ThreadTypes
  <2>4. CASE pc' = [pc EXCEPT ![t] = "done"] /\ checkpoint_decision[t] = "none"
    BY <1>k, <2>1, <2>2, <2>4, ConstantFacts, Zenon DEF LockInv, TypeOK, ThreadTypes
  <2>5. CASE pc' = [pc EXCEPT ![t] = "checkpoint"] /\ checkpoint_decision[t] # "none"
    BY <1>k, <2>1, <2>2, <2>5, ConstantFacts, Zenon DEF LockInv, TypeOK, ThreadTypes
  <2> QED
    BY <2>2, <2>3, <2>4, <2>5, Zenon
<1>14. ASSUME NEW t \in Txns, Cleanup(t) PROVE LockInv'
  <2>1. Kept' \subseteq Kept /\ Destroyed(t) \subseteq Kept
    BY <1>14, CleanupKept, Zenon
  <2> QED
    BY <1>14, <1>k, <2>1, ConstantFacts, ZenonT(30) DEF LockInv, TypeOK, ThreadTypes, ListTypes, Cleanup, AfterCleanup,
       counters, lists, stamps, gc, queries, locals, cmd
<1>15. ASSUME NEW t \in Txns, CheckpointOnCommit(t) PROVE LockInv'
  <2>1. Kept' = Kept
    BY <1>15, KeptFrame, Zenon DEF CheckpointOnCommit, lists
  <2> QED
    BY <1>15, <1>k, <2>1, ConstantFacts, Zenon DEF LockInv, TypeOK, ThreadTypes, ListTypes, CheckpointOnCommit, Goto,
       counters, lists, stamps, gc, queries, locals, cmd
<1>16. ASSUME CommandNext PROVE LockInv'
  <2> USE DEF CommandNext, CommandStep, CheckpointCommand, ForceCheckpoint, ForceLock,
          ForceInterrupted, ReadLastCommit, ReadLowestActiveStart, CreateCheckpoint,
          TryGetExclusiveLock
  <2>1. Kept' = Kept
    BY <1>16, KeptFrame, Zenon DEF lists
  <2>2. UNCHANGED <<active_transactions, pc, transaction_lock, changes, write_lock,
                    checkpoint_decision>>
    BY <1>16, Zenon DEF lists, locals
  <2>3. CASE \/ CheckpointCommand \/ ForceCheckpoint \/ ForceLock \/ ForceInterrupted
             \/ ReadLastCommit \/ ReadLowestActiveStart
    BY <2>1, <2>2, <2>3, ConstantFacts, Zenon DEF LockInv
  <2>4. CASE CreateCheckpoint
    BY <2>1, <2>2, <2>4, ConstantFacts, Zenon DEF LockInv
  <2> QED
    BY <1>16, <2>3, <2>4, Zenon
<1>17. ASSUME UNCHANGED vars PROVE LockInv'
  <2>1. Kept' = Kept
    BY <1>17, KeptFrame, Zenon DEF vars, lists
  <2> QED
    BY <1>17, <2>1, Zenon DEF LockInv, vars, lists, locals, cmd
<1> QED
  BY <1>1, <1>2, <1>3, <1>4, <1>5, <1>6, <1>7, <1>8, <1>9, <1>10, <1>11, <1>12, <1>13, <1>14, <1>15, <1>16, <1>17, Zenon DEF Next, EndStep, ClientStep

(* The lock discipline keeps everybody who could touch the log or the data *)
(* away from a checkpoint.                                                 *)
LEMMA LockImpliesExclusion ==
  ASSUME TypeOK, LockInv
  PROVE  CheckpointExcludesWriters
<1> SUFFICES ASSUME NEW o \in Txns \cup {Command}, Checkpointing(o)
             PROVE  /\ \A t \in Txns \ {o} : ~Checkpointing(t)
                    /\ \A t \in Txns \ {o} : pc[t] \in {"wal", "relock", "commit", "remove"}
                                                 => changes[t] = {}
                    /\ write_lock \subseteq {o}
  BY Zenon DEF CheckpointExcludesWriters
<1>1. \A p \in Txns \cup {Command} : Checkpointing(p) => checkpoint_lock = p
  BY ConstantFacts, Zenon DEF LockInv, Checkpointing, CommitCheckpoint
<1>2. write_lock \subseteq {o}
  BY <1>1, ConstantFacts, Zenon DEF LockInv
<1> QED
  BY <1>1, <1>2, Zenon DEF LockInv, Ending

(* For any set of transactions every lock has the owner that the point of  *)
(* CommitTransaction implies: the transaction lock from the commit         *)
(* timestamp to the removal, a shared key for every active writer, and the *)
(* exclusive key, next to nobody else's shared one, for whoever is to      *)
(* checkpoint.                                                             *)
THEOREM LocksAreOwned == Spec => []LockInv
<1>1. TypeOK /\ LockInv /\ [Next]_vars => (TypeOK /\ LockInv)'
  BY TypeStep, LockStep, Zenon
<1> QED
  BY <1>1, TypeInit, LockInit, PTL DEF Spec

(* From the moment a commit or a command may checkpoint until it is done,  *)
(* no other transaction writes to the log, commits changes, checkpoints or *)
(* still owns a shared key: the claim that CommitTransaction's comment on  *)
(* the write lock makes.                                                   *)
THEOREM CheckpointExclusion == Spec => []CheckpointExcludesWriters
<1>1. TypeOK /\ LockInv /\ [Next]_vars => (TypeOK /\ LockInv)'
  BY TypeStep, LockStep, Zenon
<1>2. TypeOK /\ LockInv => CheckpointExcludesWriters
  BY LockImpliesExclusion, Zenon
<1> QED
  BY <1>1, <1>2, TypeInit, LockInit, PTL DEF Spec

(***************************************************************************)
(* The lists of finished transactions                                      *)
(***************************************************************************)

(* The positions of a suffix.                                              *)
LEMMA SuffixFacts ==
  ASSUME NEW S, NEW s \in Seq(S), NEW n \in 0..Len(s)
  PROVE  \A i \in 1..Len(SubSeq(s, n + 1, Len(s))) :
            n + i \in 1..Len(s) /\ SubSeq(s, n + 1, Len(s))[i] = s[n + i]
<1>1. n + 1 \in Nat \ {0} /\ Len(s) \in 0..Len(s) /\ Len(s) \in Nat
  OBVIOUS
<1>2. Len(SubSeq(s, n + 1, Len(s))) = IF n + 1 <= Len(s) THEN Len(s) - (n + 1) + 1 ELSE 0
  BY <1>1, SubSeqFacts, Zenon
<1>3. \A i \in 1..Len(SubSeq(s, n + 1, Len(s))) : SubSeq(s, n + 1, Len(s))[i] = s[(n + 1) + i - 1]
  BY <1>1, SubSeqFacts, Zenon
<1>4. ASSUME NEW i \in 1..Len(SubSeq(s, n + 1, Len(s)))
      PROVE  n + i \in 1..Len(s) /\ (n + 1) + i - 1 = n + i
  BY <1>1, <1>2
<1> QED
  BY <1>3, <1>4, Zenon

(* The conjuncts of ListInv, named.                                        *)
CommittedOver == \A t \in Txns : commit_id[t] # 0 => pc[t] \in {"remove"} \cup Over
AwaitingOver == \A t \in Txns : awaiting_cleanup[t] => pc[t] \in Over
AwaitingBelow ==
    \A t \in Txns : awaiting_cleanup[t] /\ changes[t] \cap {"index_delete", "update"} # {}
        => \A a \in active_transactions : commit_id[t] < start_time[a]
RemovingAbove ==
    \A i \in 1..Len(recently_committed_transactions) :
        \A t \in Txns : pc[t] = "remove" /\ commit_id[t] # 0
            => commit_id[recently_committed_transactions[i]] < commit_id[t]

LEMMA ListInvParts ==
  ListInv <=> /\ CommittedOver /\ AwaitingOver /\ AwaitingBelow /\ RemovingAbove
              /\ RecentlyCommittedOrdered
BY Zenon DEF ListInv, CommittedOver, AwaitingOver, AwaitingBelow, RemovingAbove

(* What a prefix of a sequence holds.                                      *)
LEMMA PrefixFacts ==
  ASSUME NEW S, NEW s \in Seq(S), NEW n \in 0..Len(s)
  PROVE  /\ Len(SubSeq(s, 1, n)) = n
         /\ \A i \in 1..n : SubSeq(s, 1, n)[i] = s[i]
<1>1. n \in Nat
  OBVIOUS
<1>2. /\ Len(SubSeq(s, 1, n)) = IF 1 <= n THEN n - 1 + 1 ELSE 0
      /\ \A i \in 1..Len(SubSeq(s, 1, n)) : SubSeq(s, 1, n)[i] = s[1 + i - 1]
  BY SubSeqFacts
<1> DEFINE prefix == SubSeq(s, 1, n)
<1> HIDE DEF prefix
<1>3. Len(prefix) = n
  BY <1>1, <1>2 DEF prefix
<1>4. \A i \in 1..n : 1 + i - 1 = i
  BY <1>1
<1> QED
  BY <1>2, <1>3, <1>4, Zenon DEF prefix

(* A prefix has only elements with the property that all its places have.  *)
LEMMA ElementsPrefix ==
  ASSUME NEW S, NEW P, NEW s \in Seq(S), NEW n \in 0..Len(s), \A i \in 1..n : s[i] \in P
  PROVE  Elements(SubSeq(s, 1, n)) \subseteq P
BY PrefixFacts, Zenon DEF Elements

(* The order of natural numbers, for use where much else is in sight.      *)
LEMMA LessThrough ==
  ASSUME NEW a \in Nat, NEW b \in Nat, NEW c \in Nat, a < b, b <= c
  PROVE  a < c
OBVIOUS

(* The length of a sequence.                                               *)
LEMMA LenNat ==
  ASSUME NEW S, NEW s \in Seq(S)
  PROVE  Len(s) \in Nat
OBVIOUS

(* A step that calls RemoveTransaction at the end of a commit or rollback.  *)
Removal(t, store) ==
    /\ RemoveTransaction(t, store)
    /\ ~store => changes[t] \cap {"index_delete", "update"} = {}
    /\ commit_id[t] # 0 => pc[t] = "remove"
    /\ \A u \in Txns \ {t} : pc[u] # "remove"
    /\ pc' = [pc EXCEPT ![t] = "cleanup"]
    /\ UNCHANGED <<stamps, changes>>

(* RemoveTransaction only lets go of what no active transaction can need.  *)
LEMMA RemoveList ==
  ASSUME TypeOK, LockInv, ListInv, NEW t \in Txns, NEW store \in BOOLEAN,
         Removal(t, store)
  PROVE  ListInv'
<1> DEFINE recent == Recent(t, store)
           moved(n) == SubSeq(recent, 1, n)
<1>a. RemoveTransaction(t, store)
  BY Zenon DEF Removal
<1>b. ~store => changes[t] \cap {"index_delete", "update"} = {}
  BY Zenon DEF Removal
<1>c. (commit_id[t] # 0 => pc[t] = "remove") /\ (\A u \in Txns \ {t} : pc[u] # "remove")
  BY Zenon DEF Removal
<1>1. PICK lowest \in Nat, n \in 0..Len(recent) : Removed(t, store, lowest, n)
  BY <1>a, RemoveParts, Zenon
<1>2. /\ CommittedOver /\ AwaitingOver /\ AwaitingBelow /\ RemovingAbove
      /\ RecentlyCommittedOrdered
  BY ListInvParts, Zenon
<1>3. /\ recent \in Seq(Txns) /\ moved(n) \in Seq(Txns) /\ Direct(t, store) \in Seq(Txns)
      /\ recently_committed_transactions \in Seq(Txns)
      /\ pc \in [Txns -> {"idle", "running", "wal", "relock", "commit", "remove",
                          "cleanup", "cleaning", "checkpoint", "done"}]
      /\ commit_id \in [Txns -> Nat] /\ start_time \in [Txns -> Nat]
  <2>1. recent \in Seq(Txns) /\ moved(n) \in Seq(Txns) /\ Direct(t, store) \in Seq(Txns)
    BY LocalTypes, Zenon
  <2>2. commit_id \in [Txns -> Nat] /\ start_time \in [Txns -> Nat]
    BY DEF TypeOK, TimeTypes, Timestamps
  <2> QED
    BY <2>1, <2>2, Zenon DEF TypeOK, ListTypes, ThreadTypes
<1>4. commit_id' = commit_id /\ start_time' = start_time /\ changes' = changes
  BY Zenon DEF Removal, stamps
<1>5. \A u \in Txns : pc'[u] = IF u = t THEN "cleanup" ELSE pc[u]
  BY <1>3, Zenon DEF Removal
<1>6. \A i, j \in 1..Len(recent) : i < j => commit_id[recent[i]] < commit_id[recent[j]]
  <2>1. CASE recent = recently_committed_transactions
    BY <2>1, <1>2, Zenon DEF RecentlyCommittedOrdered
  <2>2. CASE store /\ commit_id[t] # 0
    <3>1. recent = Append(recently_committed_transactions, t)
      BY <2>2, Zenon DEF Recent
    <3> HIDE DEF recent
    <3>2. Len(recent) = Len(recently_committed_transactions) + 1
      BY <3>1, <1>3
    <3>3. /\ recent[Len(recent)] = t
          /\ \A i \in 1..Len(recently_committed_transactions) :
               recent[i] = recently_committed_transactions[i]
      BY <3>1, <1>3
    <3>4. \A i \in 1..Len(recently_committed_transactions) :
             commit_id[recently_committed_transactions[i]] < commit_id[t]
      BY <2>2, <1>2, <1>c, Zenon DEF RemovingAbove
    <3>5. Len(recently_committed_transactions) \in Nat
      BY <1>3
    <3>6. ASSUME NEW i \in 1..Len(recent), NEW j \in 1..Len(recent), i < j
          PROVE  commit_id[recent[i]] < commit_id[recent[j]]
      <4>1. CASE j = Len(recent)
        <5>1. i \in 1..Len(recently_committed_transactions)
          BY <4>1, <3>2, <3>5, <3>6
        <5> QED
          BY <5>1, <4>1, <3>3, <3>4, Zenon
      <4>2. CASE j # Len(recent)
        <5>1. /\ i \in 1..Len(recently_committed_transactions)
              /\ j \in 1..Len(recently_committed_transactions)
          BY <4>2, <3>2, <3>5, <3>6
        <5> QED
          BY <5>1, <3>3, <3>6, <1>2, Zenon DEF RecentlyCommittedOrdered
      <4> QED
        BY <4>1, <4>2, Zenon
    <3> QED
      BY <3>6, Zenon
  <2> QED
    BY <2>1, <2>2, Zenon DEF Recent
<1>7. Elements(moved(n)) \subseteq {u \in Txns : commit_id[u] < lowest}
  <2>1. \A i \in 1..n : recent[i] \in Unneeded(lowest)
    BY <1>1, Zenon DEF Removed, IsPrefixLength
  <2> HIDE DEF recent
  <2> QED
    BY <2>1, <1>3, ElementsPrefix, Zenon DEF Unneeded
<1>8. Elements(moved(n)) \subseteq Kept \cup {t}
  <2>1. Elements(moved(n)) \subseteq Elements(recent)
    <3> HIDE DEF recent
    <3> QED
      BY <1>3, ElementsSubSeq
  <2>2. Elements(recent) \subseteq Kept \cup {t}
    BY RecentKept, Zenon
  <2> QED
    BY <2>1, <2>2, Zenon
<1>9. \A u \in Elements(Direct(t, store)) : u = t /\ ~store
  BY DEF Direct, Elements
<1>10. Elements(moved(n) \o Direct(t, store)) = Elements(moved(n)) \cup Elements(Direct(t, store))
  <2> HIDE DEF moved
  <2>1. \A a, b \in Seq(Txns) : Elements(a \o b) = Elements(a) \cup Elements(b)
    BY ElementsConcat, Zenon
  <2> QED
    BY <2>1, <1>3, Zenon
<1>11. \A u \in Txns : awaiting_cleanup'[u] =>
         awaiting_cleanup[u] \/ u \in Elements(moved(n)) \/ u \in Elements(Direct(t, store))
  <2>1. awaiting_cleanup' = [u \in Txns |-> \/ awaiting_cleanup[u]
                                            \/ u \in Elements(moved(n) \o Direct(t, store))]
    BY <1>1, Zenon DEF Removed
  <2> HIDE DEF moved
  <2> QED
    BY <2>1, <1>10, Zenon
<1>12. /\ active_transactions' = active_transactions \ {t}
       /\ \A a \in active_transactions' : lowest <= start_time[a]
  BY <1>1, Zenon DEF Removed, IsLowestStart
<1>13. CommittedOver'
  BY <1>2, <1>4, <1>5, Zenon DEF CommittedOver, Over
<1>14. AwaitingOver'
  <2>1. \A u \in Kept : pc[u] \in Over
    BY Zenon DEF LockInv
  <2>2. ASSUME NEW u \in Txns, awaiting_cleanup'[u] PROVE pc'[u] \in Over
    <3>1. \/ awaiting_cleanup[u] \/ u \in Kept \/ u = t
      BY <2>2, <1>8, <1>9, <1>11, Zenon
    <3>2. CASE u = t
      BY <3>2, <1>5, Zenon DEF Over
    <3>3. CASE u # t
      BY <3>1, <3>3, <2>1, <1>2, <1>5, Zenon DEF AwaitingOver
    <3> QED
      BY <3>2, <3>3, Zenon
  <2> QED
    BY <2>2, Zenon DEF AwaitingOver, Over
<1>15. AwaitingBelow'
  <2> SUFFICES ASSUME NEW u \in Txns, awaiting_cleanup'[u],
                      changes[u] \cap {"index_delete", "update"} # {},
                      NEW a \in active_transactions'
               PROVE  commit_id[u] < start_time[a]
    BY <1>4, Zenon DEF AwaitingBelow
  <2>0. a \in active_transactions /\ a \in Txns /\ lowest <= start_time[a]
    BY <1>12, Zenon DEF TypeOK, ListTypes
  <2>1. CASE awaiting_cleanup[u]
    BY <2>0, <2>1, <1>2, Zenon DEF AwaitingBelow
  <2> HIDE DEF moved, recent
  <2>2. CASE u \in Elements(moved(n))
    <3>1. commit_id[u] \in Nat /\ start_time[a] \in Nat
      BY <2>0, <1>3, Zenon
    <3>2. commit_id[u] < lowest
      BY <2>2, <1>7, Zenon
    <3> QED
      BY <3>1, <3>2, <2>0, LessThrough, Zenon
  <2>3. CASE u \in Elements(Direct(t, store))
    BY <2>3, <1>9, <1>b, Zenon
  <2> QED
    BY <2>1, <2>2, <2>3, <1>11, Zenon
<1>16. RemovingAbove'
  <2>1. \A u \in Txns : pc'[u] # "remove"
    BY <1>5, <1>c, Zenon
  <2> QED
    BY <2>1, Zenon DEF RemovingAbove
<1>17. RecentlyCommittedOrdered'
  <2>1. recently_committed_transactions' = SubSeq(recent, n + 1, Len(recent))
    BY <1>1, Zenon DEF Removed
  <2>3. \A i \in 1..Len(recently_committed_transactions') :
          /\ n + i \in 1..Len(recent)
          /\ recently_committed_transactions'[i] = recent[n + i]
    <3> HIDE DEF recent
    <3>1. \A i \in 1..Len(SubSeq(recent, n + 1, Len(recent))) :
             /\ n + i \in 1..Len(recent)
             /\ SubSeq(recent, n + 1, Len(recent))[i] = recent[n + i]
      BY <1>3, SuffixFacts, Zenon
    <3> QED
      BY <2>1, <3>1, Zenon
  <2>4. Len(recently_committed_transactions') \in Nat
    <3>1. recently_committed_transactions' \in Seq(Txns)
      BY <1>a, RemoveType, Zenon
    <3> QED
      BY <3>1, LenNat, Zenon
  <2> HIDE DEF recent
  <2>5. ASSUME NEW i \in 1..Len(recently_committed_transactions'),
               NEW j \in 1..Len(recently_committed_transactions'), i < j
        PROVE  commit_id[recently_committed_transactions'[i]]
                  < commit_id[recently_committed_transactions'[j]]
    <3>1. n + i \in 1..Len(recent) /\ n + j \in 1..Len(recent) /\ n + i < n + j
      BY <2>3, <2>4, <2>5
    <3>2. commit_id[recent[n + i]] < commit_id[recent[n + j]]
      BY <3>1, <1>6, Zenon
    <3> QED
      BY <3>2, <2>3, Zenon
  <2> QED
    BY <2>5, <1>4, Zenon DEF RecentlyCommittedOrdered
<1>18. ListInv' <=> /\ CommittedOver' /\ AwaitingOver' /\ AwaitingBelow' /\ RemovingAbove'
                    /\ RecentlyCommittedOrdered'
  BY Zenon DEF ListInv, CommittedOver, AwaitingOver, AwaitingBelow, RemovingAbove
<1> QED
  BY <1>13, <1>14, <1>15, <1>16, <1>17, <1>18, Zenon

(* Initially nothing is stored.                                            *)
LEMMA ListInit == Init => ListInv
BY DEF Init, ListInv, RecentlyCommittedOrdered

(* Every step keeps the lists as described.                                *)
LEMMA ListStep == TypeOK /\ LockInv /\ ListInv /\ [Next]_vars => ListInv'
<1> SUFFICES ASSUME TypeOK, LockInv, ListInv, [Next]_vars PROVE ListInv'
  BY Zenon
<1> USE DEF Over
<1>1. ASSUME NEW t \in Txns, BeginQuery(t) PROVE ListInv'
  BY <1>1, Zenon DEF ListInv, LockInv, RecentlyCommittedOrdered, TypeOK, ThreadTypes, ListTypes,
     BeginQuery, counters, lists, stamps, gc, queries, locals
<1>2. ASSUME NEW t \in Txns, SetActiveQuery(t) PROVE ListInv'
  BY <1>2, Zenon DEF ListInv, LockInv, RecentlyCommittedOrdered, TypeOK, ThreadTypes, ListTypes,
     SetActiveQuery, counters, lists, stamps, gc, queries, locals
<1>3. ASSUME NEW t \in Txns, EndQuery(t) PROVE ListInv'
  BY <1>3, Zenon DEF ListInv, LockInv, RecentlyCommittedOrdered, TypeOK, ThreadTypes, ListTypes,
     EndQuery, counters, lists, stamps, gc, queries, locals
<1>4. ASSUME NEW t \in Txns, StartTransaction(t) PROVE ListInv'
  <2>1. /\ pc[t] = "idle" /\ pc' = [pc EXCEPT ![t] = "running"]
        /\ start_time' = [start_time EXCEPT ![t] = current_start_timestamp]
        /\ active_transactions' = active_transactions \cup {t}
        /\ UNCHANGED <<commit_id, recently_committed_transactions, awaiting_cleanup, changes>>
    BY <1>4, Zenon DEF StartTransaction, Goto, gc
  <2>2. \A u \in Txns : commit_id[u] \in Nat /\ commit_id[u] < current_start_timestamp
    BY DEF TypeOK, TimeTypes, Timestamps
  <2>3. start_time'[t] = current_start_timestamp
        /\ \A u \in Txns \ {t} : start_time'[u] = start_time[u]
    BY <2>1, Zenon DEF TypeOK, TimeTypes
  <2>4. AwaitingBelow'
    <3> SUFFICES ASSUME NEW u \in Txns, awaiting_cleanup[u],
                        changes[u] \cap {"index_delete", "update"} # {},
                        NEW x \in active_transactions'
                 PROVE  commit_id[u] < start_time'[x]
      BY <2>1, Zenon DEF AwaitingBelow
    <3>1. x \in Txns /\ (x = t \/ x \in active_transactions)
      BY <2>1, Zenon DEF TypeOK, ListTypes
    <3>2. CASE x = t
      BY <3>2, <2>2, <2>3, Zenon
    <3>3. CASE x # t
      BY <3>1, <3>3, <2>3, Zenon DEF ListInv
    <3> QED
      BY <3>2, <3>3, Zenon
  <2>5. CommittedOver' /\ AwaitingOver' /\ RemovingAbove' /\ RecentlyCommittedOrdered'
    BY <2>1, Zenon DEF TypeOK, ThreadTypes, ListInv, CommittedOver, AwaitingOver, RemovingAbove,
       RecentlyCommittedOrdered
  <2>6. ListInv' <=> /\ CommittedOver' /\ AwaitingOver' /\ AwaitingBelow' /\ RemovingAbove'
                      /\ RecentlyCommittedOrdered'
    BY Zenon DEF ListInv, CommittedOver, AwaitingOver, AwaitingBelow, RemovingAbove
  <2> QED
    BY <2>4, <2>5, <2>6, Zenon
<1>5. ASSUME NEW t \in Txns, SetReadWrite(t) PROVE ListInv'
  BY <1>5, Zenon DEF ListInv, LockInv, RecentlyCommittedOrdered, TypeOK, ThreadTypes, ListTypes,
     SetReadWrite, counters, lists, stamps, gc, queries, locals
<1>6. ASSUME NEW t \in Txns, NEW kind \in Kinds, Write(t, kind) PROVE ListInv'
  BY <1>6, Zenon DEF ListInv, LockInv, RecentlyCommittedOrdered, TypeOK, ThreadTypes, ListTypes,
     Write, counters, lists, stamps, gc, queries, locals
<1>7. ASSUME NEW t \in Txns, CommitTransaction(t) PROVE ListInv'
  <2>1. pc[t] = "running" /\ pc'[t] \in {"wal", "commit"} /\ \A u \in Txns \ {t} : pc'[u] = pc[u]
    BY <1>7, Zenon DEF CommitTransaction, EnterCommit, Goto, TypeOK, ThreadTypes
  <2>2. UNCHANGED <<active_transactions, recently_committed_transactions, start_time, commit_id,
                    awaiting_cleanup, changes>>
    BY <1>7, Zenon DEF CommitTransaction, lists, stamps, gc
  <2> QED
    BY <2>1, <2>2, Zenon DEF ListInv, RecentlyCommittedOrdered
<1>8. ASSUME NEW t \in Txns, RollbackTransaction(t) PROVE ListInv'
  <2> DEFINE store == changes[t] # {}
  <2>1. store \in BOOLEAN
    BY Zenon DEF TypeOK, FlagTypes
  <2>2. RemoveTransaction(t, store)
    BY <1>8, Zenon DEF RollbackTransaction
  <2>3. ~store => changes[t] \cap {"index_delete", "update"} = {}
    BY Zenon
  <2> HIDE DEF store
  <2>4. pc[t] = "running" /\ pc' = [pc EXCEPT ![t] = "cleanup"] /\ UNCHANGED <<stamps, changes>>
    BY <1>8, Zenon DEF RollbackTransaction, Goto
  <2>5. commit_id[t] # 0 => pc[t] = "remove"
    BY <2>4, Zenon DEF ListInv
  <2>6. \A u \in Txns \ {t} : pc[u] # "remove"
    BY <1>8, <2>4, ConstantFacts, Zenon DEF LockInv, RollbackTransaction
  <2>7. Removal(t, store)
    BY <2>2, <2>3, <2>4, <2>5, <2>6, Zenon DEF Removal
  <2> QED
    BY <2>1, <2>7, RemoveList, Zenon
<1>9. ASSUME NEW t \in Txns, WriteToWAL(t) PROVE ListInv'
  BY <1>9, Zenon DEF ListInv, LockInv, RecentlyCommittedOrdered, TypeOK, ThreadTypes, ListTypes,
     WriteToWAL, Goto, counters, lists, stamps, gc, queries, locals
<1>10. ASSUME NEW t \in Txns, Relock(t) PROVE ListInv'
  BY <1>10, Zenon DEF ListInv, LockInv, RecentlyCommittedOrdered, TypeOK, ThreadTypes, ListTypes,
     Relock, Goto, counters, lists, stamps, gc, queries, locals
<1>11. ASSUME NEW t \in Txns, Commit(t) PROVE ListInv'
  <2>1. PICK error \in BOOLEAN : commit_id' = [commit_id EXCEPT ![t] = NewCommitId(error)]
    BY <1>11, Zenon DEF Commit
  <2>2. /\ pc[t] = "commit" /\ pc' = [pc EXCEPT ![t] = "remove"]
        /\ UNCHANGED <<active_transactions, recently_committed_transactions, start_time,
                       awaiting_cleanup, changes>>
    BY <1>11, Zenon DEF Commit, Goto, lists, gc
  <2>3. NewCommitId(error) = 0 \/ NewCommitId(error) = current_start_timestamp
    BY Zenon DEF NewCommitId
  <2>4. \A u \in Txns \ {t} : pc[u] # "remove"
    BY <2>2, Zenon DEF LockInv
  <2>5. \A u \in Txns : commit_id[u] \in Nat /\ commit_id[u] < current_start_timestamp
    BY DEF TypeOK, TimeTypes, Timestamps
  <2>6. \A i \in 1..Len(recently_committed_transactions) :
          recently_committed_transactions[i] \in Txns /\ recently_committed_transactions[i] # t
    <3>1. \A i \in 1..Len(recently_committed_transactions) : recently_committed_transactions[i] \in Kept
      BY Zenon DEF Kept, Elements
    <3>2. t \notin Kept
      BY <2>2, Zenon DEF LockInv
    <3>3. recently_committed_transactions \in Seq(Txns)
      BY Zenon DEF TypeOK, ListTypes
    <3>4. \A i \in 1..Len(recently_committed_transactions) :
             recently_committed_transactions[i] \in Elements(recently_committed_transactions)
      BY Zenon DEF Elements
    <3>5. Elements(recently_committed_transactions) \subseteq Txns
      BY <3>3, ElementsType, Zenon
    <3> QED
      BY <3>1, <3>2, <3>4, <3>5, Zenon
  <2>7. commit_id'[t] = NewCommitId(error) /\ \A u \in Txns \ {t} : commit_id'[u] = commit_id[u]
    BY <2>1, Zenon DEF TypeOK, TimeTypes
  <2>8. pc'[t] = "remove" /\ \A u \in Txns \ {t} : pc'[u] = pc[u]
    BY <2>2, Zenon DEF TypeOK, ThreadTypes
  <2>9. ~awaiting_cleanup[t]
    BY <2>2, Zenon DEF ListInv
  <2>c. CommittedOver'
    BY <2>7, <2>8, Zenon DEF ListInv, CommittedOver
  <2>a. AwaitingOver'
    BY <2>2, <2>8, <2>9, Zenon DEF ListInv, AwaitingOver
  <2>b. AwaitingBelow'
    <3> SUFFICES ASSUME NEW u \in Txns, awaiting_cleanup[u],
                        changes[u] \cap {"index_delete", "update"} # {},
                        NEW x \in active_transactions
                 PROVE  commit_id'[u] < start_time[x]
      BY <2>2, Zenon DEF AwaitingBelow
    <3>1. u # t
      BY <2>9, Zenon
    <3> QED
      BY <3>1, <2>7, Zenon DEF ListInv
  <2>d. RemovingAbove'
    BY <2>2, <2>3, <2>4, <2>5, <2>6, <2>7, <2>8, Zenon DEF RemovingAbove
  <2>e. RecentlyCommittedOrdered'
    BY <2>2, <2>6, <2>7, Zenon DEF ListInv, RecentlyCommittedOrdered
  <2>f. ListInv' <=> /\ CommittedOver' /\ AwaitingOver' /\ AwaitingBelow' /\ RemovingAbove'
                      /\ RecentlyCommittedOrdered'
    BY Zenon DEF ListInv, CommittedOver, AwaitingOver, AwaitingBelow, RemovingAbove
  <2> QED
    BY <2>c, <2>a, <2>b, <2>d, <2>e, <2>f, Zenon
<1>12. ASSUME NEW t \in Txns, RemoveCommitted(t) PROVE ListInv'
  <2> DEFINE store == failed[t] \/ changes[t] \cap {"index_delete", "update"} # {}
  <2>1. store \in BOOLEAN
    BY Zenon DEF TypeOK, FlagTypes
  <2>2. RemoveTransaction(t, store)
    BY <1>12, Zenon DEF RemoveCommitted
  <2>3. ~store => changes[t] \cap {"index_delete", "update"} = {}
    BY Zenon
  <2> HIDE DEF store
  <2>4. pc[t] = "remove" /\ pc' = [pc EXCEPT ![t] = "cleanup"] /\ UNCHANGED <<stamps, changes>>
    BY <1>12, Zenon DEF RemoveCommitted, Goto
  <2>5. commit_id[t] # 0 => pc[t] = "remove"
    BY <2>4, Zenon DEF ListInv
  <2>6. \A u \in Txns \ {t} : pc[u] # "remove"
    BY <1>12, <2>4, ConstantFacts, Zenon DEF LockInv, RemoveCommitted
  <2>7. Removal(t, store)
    BY <2>2, <2>3, <2>4, <2>5, <2>6, Zenon DEF Removal
  <2> QED
    BY <2>1, <2>7, RemoveList, Zenon
<1>13. ASSUME NEW t \in Txns, PopCleanup(t) PROVE ListInv'
  <2>1. pc[t] = "cleanup" /\ pc'[t] \in Over /\ \A u \in Txns \ {t} : pc'[u] = pc[u]
    BY <1>13, Zenon DEF PopCleanup, AfterCleanup, TypeOK, ThreadTypes
  <2>2. UNCHANGED <<active_transactions, recently_committed_transactions, start_time, commit_id,
                    awaiting_cleanup, changes>>
    BY <1>13, Zenon DEF PopCleanup, lists, stamps, gc
  <2> QED
    BY <2>1, <2>2, Zenon DEF ListInv, RecentlyCommittedOrdered
<1>14. ASSUME NEW t \in Txns, Cleanup(t) PROVE ListInv'
  BY <1>14, Zenon DEF ListInv, LockInv, RecentlyCommittedOrdered, TypeOK, ThreadTypes, ListTypes,
     Cleanup, AfterCleanup, counters, lists, stamps, gc, queries, locals
<1>15. ASSUME NEW t \in Txns, CheckpointOnCommit(t) PROVE ListInv'
  BY <1>15, Zenon DEF ListInv, LockInv, RecentlyCommittedOrdered, TypeOK, ThreadTypes, ListTypes,
     CheckpointOnCommit, Goto, counters, lists, stamps, gc, queries, locals
<1>16. ASSUME CommandNext PROVE ListInv'
  <2>1. UNCHANGED <<active_transactions, recently_committed_transactions, start_time, commit_id,
                    awaiting_cleanup, changes, pc>>
    BY <1>16, Zenon DEF CommandNext, CommandStep, CheckpointCommand, ForceCheckpoint, ForceLock,
       ForceInterrupted, ReadLastCommit, ReadLowestActiveStart, CreateCheckpoint,
       lists, stamps, gc
  <2> QED
    BY <2>1, Zenon DEF ListInv, RecentlyCommittedOrdered
<1>17. ASSUME UNCHANGED vars PROVE ListInv'
  BY <1>17, Zenon DEF ListInv, RecentlyCommittedOrdered, vars, lists, stamps, gc
<1> QED
  BY <1>1, <1>2, <1>3, <1>4, <1>5, <1>6, <1>7, <1>8, <1>9, <1>10, <1>11, <1>12, <1>13, <1>14, <1>15, <1>16, <1>17, Zenon DEF Next, EndStep, ClientStep

(* For any set of transactions the lists of RemoveTransaction are as it    *)
(* expects them: only transactions that are over await cleanup, the commit *)
(* id of the one being removed is above all the stored ones, and what      *)
(* awaits cleanup was committed before every active transaction started.   *)
THEOREM ListsAreOrdered == Spec => []ListInv
<1>1. Init => TypeOK /\ LockInv /\ ListInv
  BY TypeInit, LockInit, ListInit, Zenon
<1>2. TypeOK /\ LockInv /\ ListInv /\ [Next]_vars => (TypeOK /\ LockInv /\ ListInv)'
  BY TypeStep, LockStep, ListStep, Zenon
<1> QED
  BY <1>1, <1>2, PTL DEF Spec

(* The undo buffer of a committed transaction with updates, index deletes  *)
(* or catalog changes is handed over for cleanup only when every active    *)
(* transaction started after its commit: nobody can miss an old version.   *)
THEOREM CleanupIsSafe == Spec => []CleanupSafe
<1>1. Init => TypeOK /\ LockInv /\ ListInv
  BY TypeInit, LockInit, ListInit, Zenon
<1>2. TypeOK /\ LockInv /\ ListInv /\ [Next]_vars => (TypeOK /\ LockInv /\ ListInv)'
  BY TypeStep, LockStep, ListStep, Zenon
<1>3. TypeOK /\ LockInv /\ ListInv => CleanupSafe
  <2> SUFFICES ASSUME TypeOK, LockInv, ListInv PROVE CleanupSafe
    BY Zenon
  <2>1. Scheduled \subseteq Txns
    BY KeptType, Zenon DEF Kept
  <2> QED
    BY <2>1, Zenon DEF ListInv, CleanupSafe
<1> QED
  BY <1>1, <1>2, <1>3, PTL DEF Spec

(* recently_committed_transactions is ordered on commit_id, the assumption *)
(* on which the loop of RemoveTransaction stops early.                     *)
THEOREM RecentlyCommittedIsOrdered == Spec => []RecentlyCommittedOrdered
<1>1. Init => TypeOK /\ LockInv /\ ListInv
  BY TypeInit, LockInit, ListInit, Zenon
<1>2. TypeOK /\ LockInv /\ ListInv /\ [Next]_vars => (TypeOK /\ LockInv /\ ListInv)'
  BY TypeStep, LockStep, ListStep, Zenon
<1>3. ListInv => RecentlyCommittedOrdered
  BY Zenon DEF ListInv
<1> QED
  BY <1>1, <1>2, <1>3, PTL DEF Spec

(* After RemoveTransaction lowest_active_start is the lowest start time of *)
(* those that stay.                                                        *)
LEMMA RemoveLowest ==
  ASSUME TypeOK, NEW t \in Txns, NEW store \in BOOLEAN, RemoveTransaction(t, store),
         UNCHANGED start_time
  PROVE  LowestActiveStartExact'
<1>1. PICK lowest \in Nat, n \in 0..Len(Recent(t, store)) : Removed(t, store, lowest, n)
  BY RemoveParts, Zenon
<1> QED
  BY <1>1, Zenon DEF Removed, IsLowestStart, LowestActiveStartExact

(* LowestActiveStart(), which a checkpoint command reads without a lock, is *)
(* at every moment the start time of the oldest active transaction.        *)
THEOREM LowestActiveStartIsExact == Spec => []LowestActiveStartExact
<1>1. Init => LowestActiveStartExact
  BY Zenon DEF Init, LowestActiveStartExact
<1>2. TypeOK /\ LockInv /\ LowestActiveStartExact /\ [Next]_vars => LowestActiveStartExact'
  <2> SUFFICES ASSUME TypeOK, LockInv, LowestActiveStartExact, [Next]_vars
               PROVE  LowestActiveStartExact'
    BY Zenon
  <2>1. ASSUME NEW t \in Txns, StartTransaction(t) PROVE LowestActiveStartExact'
    <3>1. /\ t \notin active_transactions
          /\ start_time' = [start_time EXCEPT ![t] = current_start_timestamp]
          /\ lowest_active_start' = LowestAfterStart
          /\ active_transactions' = active_transactions \cup {t}
      BY <2>1, Zenon DEF StartTransaction, Goto, LockInv, Ending
    <3>2. /\ start_time'[t] = current_start_timestamp
          /\ \A u \in active_transactions : /\ start_time'[u] = start_time[u]
                                            /\ start_time[u] < current_start_timestamp
                                            /\ start_time[u] \in Nat
      BY <3>1 DEF TypeOK, TimeTypes, Timestamps, ListTypes
    <3>3. current_start_timestamp \in Nat
      BY Zenon DEF TypeOK, TimeTypes
    <3> QED
      BY <3>1, <3>2, <3>3 DEF LowestActiveStartExact, LowestAfterStart
  <2>2. ASSUME NEW t \in Txns, RollbackTransaction(t) \/ RemoveCommitted(t)
        PROVE  LowestActiveStartExact'
    <3>1. PICK store \in BOOLEAN : RemoveTransaction(t, store)
      BY <2>2, Zenon DEF RollbackTransaction, RemoveCommitted, TypeOK, FlagTypes
    <3>2. UNCHANGED start_time
      BY <2>2, Zenon DEF RollbackTransaction, RemoveCommitted, stamps
    <3> QED
      BY <3>1, <3>2, RemoveLowest, Zenon
  <2>3. ASSUME UNCHANGED <<active_transactions, start_time, lowest_active_start>>
        PROVE  LowestActiveStartExact'
    BY <2>3, Zenon DEF LowestActiveStartExact
  <2> USE DEF counters, lists, stamps
  <2>4. ASSUME NEW t \in Txns,
               \/ BeginQuery(t) \/ SetActiveQuery(t) \/ EndQuery(t) \/ SetReadWrite(t)
               \/ \E kind \in Kinds : Write(t, kind)
        PROVE  LowestActiveStartExact'
    BY <2>3, <2>4, Zenon DEF BeginQuery, SetActiveQuery, EndQuery, SetReadWrite, Write
  <2>5. ASSUME NEW t \in Txns, CommitTransaction(t) \/ WriteToWAL(t) \/ Relock(t)
        PROVE  LowestActiveStartExact'
    BY <2>3, <2>5, Zenon DEF CommitTransaction, WriteToWAL, Relock
  <2>6. ASSUME NEW t \in Txns, Commit(t) \/ PopCleanup(t) \/ Cleanup(t) \/ CheckpointOnCommit(t)
        PROVE  LowestActiveStartExact'
    BY <2>3, <2>6, Zenon DEF Commit, PopCleanup, Cleanup, CheckpointOnCommit
  <2>7. ASSUME CommandNext PROVE LowestActiveStartExact'
    BY <2>3, <2>7, Zenon DEF CommandNext, CommandStep, CheckpointCommand, ForceCheckpoint, ForceLock,
       ForceInterrupted, ReadLastCommit, ReadLowestActiveStart, CreateCheckpoint
  <2>8. ASSUME UNCHANGED vars PROVE LowestActiveStartExact'
    BY <2>3, <2>8, Zenon DEF vars
  <2> QED
    BY <2>1, <2>2, <2>4, <2>5, <2>6, <2>7, <2>8, Zenon DEF Next, EndStep, ClientStep
<1> QED
  BY <1>1, <1>2, TypeInit, TypeStep, LockInit, LockStep, PTL DEF Spec

(***************************************************************************)
(* The log and full checkpoints                                            *)
(***************************************************************************)

(* The log                                                                 *)

(* The points of a commit at which the log and its owner matter.           *)
Logging == {"wal", "relock", "commit"}

(* What WalInv says about u's part in the log does not change.             *)
SameLogging(u) ==
    /\ pc'[u] = pc[u] /\ changes'[u] = changes[u]
    /\ checkpoint_decision'[u] = checkpoint_decision[u]
    /\ wal_lock = u => wal_lock' = u

(* The conjuncts of WalInv, named.                                         *)
LoggedOnly == \A t \in Txns :
    pc[t] \in {"wal", "relock"} => Logged(t, checkpoint_decision[t])
WalOwned == \A t \in Txns :
    pc[t] \in {"relock", "commit"} /\ Logged(t, checkpoint_decision[t]) => wal_lock = t
SizeKnown == \A t \in Txns : Undecided(t) => Len(wal) = initial_wal_size[t] + 1
LastUndecided == \A i \in 1..Len(wal) :
    commit_id[wal[i]] = 0 => i = Len(wal) /\ Undecided(wal[i])

LEMMA WalInvParts ==
  WalInv <=> LoggedOnly /\ WalOwned /\ SizeKnown /\ LastUndecided /\ WalInCommitOrder
BY Zenon DEF WalInv, LoggedOnly, WalOwned, SizeKnown, LastUndecided

(* ... and after a step.                                                   *)
LEMMA WalInvNext ==
  WalInv' <=> LoggedOnly' /\ WalOwned' /\ SizeKnown' /\ LastUndecided' /\ WalInCommitOrder'
BY Zenon DEF WalInv, LoggedOnly, WalOwned, SizeKnown, LastUndecided

(* A step that leaves the log, and those that write to it, alone.          *)
LEMMA WalFrame ==
  ASSUME TypeOK, WalInv, UNCHANGED <<wal, commit_id, initial_wal_size, failed>>,
         \A u \in Txns : pc[u] \in Logging \/ pc'[u] \in Logging => SameLogging(u)
  PROVE  WalInv'
<1>1. LoggedOnly /\ WalOwned /\ SizeKnown /\ LastUndecided /\ WalInCommitOrder
  BY WalInvParts, Zenon
<1>2. \A i \in 1..Len(wal) : wal[i] \in Txns
  BY DEF TypeOK, ListTypes
<1>3. \A u \in Txns : Undecided(u)' <=> Undecided(u)
  BY Zenon DEF Undecided, Logged, Logging, SameLogging
<1>4. LoggedOnly'
  BY <1>1, Zenon DEF LoggedOnly, Logged, Logging, SameLogging
<1>5. WalOwned'
  BY <1>1, Zenon DEF WalOwned, Logged, Logging, SameLogging
<1>6. SizeKnown'
  BY <1>1, <1>3, Zenon DEF SizeKnown
<1>7. LastUndecided'
  BY <1>1, <1>2, <1>3, Zenon DEF LastUndecided
<1>8. WalInCommitOrder'
  BY <1>1, Zenon DEF WalInCommitOrder
<1> QED
  BY <1>4, <1>5, <1>6, <1>7, <1>8, WalInvNext, Zenon

(* A checkpoint resets the log, or fails and leaves it; nobody who owns a  *)
(* record of it is still to commit.                                        *)
LEMMA WalReset ==
  ASSUME TypeOK, WalInv, UNCHANGED <<commit_id, initial_wal_size, failed>>,
         wal' = wal \/ wal' = <<>>,
         \A u \in Txns : ~Undecided(u),
         \A u \in Txns : pc[u] \in Logging \/ pc'[u] \in Logging => SameLogging(u)
  PROVE  WalInv'
<1>1. CASE wal' = wal
  BY <1>1, WalFrame, Zenon
<1>2. CASE wal' = <<>>
  <2>1. LoggedOnly /\ WalOwned
    BY WalInvParts, Zenon
  <2>2. \A u \in Txns : ~Undecided(u)'
    BY Zenon DEF Undecided, Logged, Logging, SameLogging
  <2>3. LoggedOnly' /\ WalOwned'
    BY <2>1, Zenon DEF LoggedOnly, WalOwned, Logged, Logging, SameLogging
  <2>4. SizeKnown'
    BY <2>2, Zenon DEF SizeKnown
  <2>5. 1..Len(wal') = {}
    BY <1>2
  <2>6. LastUndecided' /\ WalInCommitOrder'
    BY <2>5, Zenon DEF LastUndecided, WalInCommitOrder
  <2> QED
    BY <2>3, <2>4, <2>6, WalInvNext, Zenon
<1> QED
  BY <1>1, <1>2, Zenon

(* While somebody checkpoints, no record of the log is undecided: its      *)
(* owner would have a shared key of the checkpoint lock.                   *)
LEMMA CheckpointDecided ==
  ASSUME TypeOK, LockInv, NEW o \in Txns \cup {Command}, checkpoint_lock = o,
         o \in Txns => pc[o] \notin {"relock", "commit"}
  PROVE  \A u \in Txns : ~Undecided(u)
<1> SUFFICES ASSUME NEW u \in Txns, Undecided(u) PROVE FALSE
  BY Zenon
<1>1. changes[u] # {} /\ pc[u] \in {"relock", "commit"}
  BY Zenon DEF Undecided, Logged
<1>2. u \in write_lock
  BY <1>1, Zenon DEF LockInv, Ending
<1>3. checkpoint_lock # Nobody
  BY ConstantFacts, Zenon
<1>4. u = o
  BY <1>2, <1>3, Zenon DEF LockInv
<1> QED
  BY <1>1, <1>4, Zenon

(* Initially the log is empty.                                             *)
LEMMA WalInit == Init => WalInv
BY DEF Init, WalInv, Undecided, WalInCommitOrder

(* The record of t is appended.                                            *)
LEMMA WalWrite ==
  ASSUME TypeOK, LockInv, ListInv, WalInv, NEW t \in Txns, WriteToWAL(t)
  PROVE  WalInv'
<1>1. LoggedOnly /\ WalOwned /\ SizeKnown /\ LastUndecided /\ WalInCommitOrder
  BY WalInvParts, Zenon
<1>2. PICK error \in BOOLEAN : /\ failed' = [failed EXCEPT ![t] = error]
                               /\ wal' = IF error THEN wal ELSE Append(wal, t)
  BY Zenon DEF WriteToWAL
<1>3. /\ pc[t] = "wal" /\ pc' = [pc EXCEPT ![t] = "relock"]
      /\ wal_lock = Nobody /\ wal_lock' = t
      /\ initial_wal_size' = [initial_wal_size EXCEPT ![t] = Len(wal)]
      /\ UNCHANGED <<commit_id, changes, checkpoint_decision>>
  BY Zenon DEF WriteToWAL, Goto, stamps
<1>4. /\ wal \in Seq(Txns) /\ initial_wal_size \in [Txns -> Nat]
      /\ failed \in [Txns -> BOOLEAN] /\ commit_id \in [Txns -> Nat]
  BY DEF TypeOK, ListTypes, FlagTypes, TimeTypes, Timestamps
<1>5. /\ pc'[t] = "relock" /\ initial_wal_size'[t] = Len(wal) /\ failed'[t] = error
      /\ \A u \in Txns \ {t} : /\ pc'[u] = pc[u] /\ failed'[u] = failed[u]
                               /\ initial_wal_size'[u] = initial_wal_size[u]
  BY <1>2, <1>3, <1>4, Zenon DEF TypeOK, ThreadTypes
<1>6. \A u \in Txns : pc[u] \in {"relock", "commit"} => ~Logged(u, checkpoint_decision[u])
  BY <1>1, <1>3, ConstantFacts, Zenon DEF WalOwned
<1>7. \A u \in Txns : ~Undecided(u)
  BY <1>6, Zenon DEF Undecided
<1>8. \A i \in 1..Len(wal) : wal[i] \in Txns /\ commit_id[wal[i]] # 0
  BY <1>1, <1>4, <1>7 DEF LastUndecided
<1>9. \A u \in Txns \ {t} : ~Undecided(u)'
  BY <1>3, <1>5, <1>7, Zenon DEF Undecided, Logged
<1>10. Logged(t, checkpoint_decision[t])'
  BY <1>1, <1>3, Zenon DEF LoggedOnly, Logged
<1>11. LoggedOnly'
  BY <1>1, <1>3, <1>5, <1>10, Zenon DEF LoggedOnly, Logged
<1>12. WalOwned'
  BY <1>3, <1>5, <1>6, Zenon DEF WalOwned, Logged
<1>13. CASE error
  <2>1. wal' = wal /\ ~Undecided(t)'
    BY <1>2, <1>5, <1>13, Zenon DEF Undecided
  <2>2. SizeKnown'
    BY <1>9, <2>1, Zenon DEF SizeKnown
  <2>3. LastUndecided' /\ WalInCommitOrder'
    BY <1>1, <1>3, <1>8, <2>1, Zenon DEF LastUndecided, WalInCommitOrder
  <2> QED
    BY <1>11, <1>12, <2>2, <2>3, WalInvNext, Zenon
<1>14. CASE ~error
  <2>1. /\ Len(wal') = Len(wal) + 1 /\ Len(wal) \in Nat
        /\ \A i \in 1..Len(wal) : wal'[i] = wal[i]
        /\ wal'[Len(wal) + 1] = t
    BY <1>2, <1>4, <1>14
  <2>2. \A i \in 1..Len(wal') : i \in 1..Len(wal) \/ i = Len(wal')
    BY <2>1
  <2>3. Undecided(t)'
    BY <1>5, <1>10, <1>14, Zenon DEF Undecided
  <2>4. commit_id[t] = 0
    BY <1>3, Zenon DEF ListInv, Over
  <2>5. SizeKnown'
    BY <1>5, <1>9, <2>1, Zenon DEF SizeKnown
  <2>6. LastUndecided'
    BY <1>3, <1>8, <2>1, <2>2, <2>3, Zenon DEF LastUndecided
  <2>7. \A i, j \in 1..Len(wal') : i < j => i \in 1..Len(wal)
    BY <2>1
  <2>8. WalInCommitOrder'
    BY <1>1, <1>3, <1>8, <2>1, <2>2, <2>4, <2>7, Zenon DEF WalInCommitOrder
  <2> QED
    BY <1>11, <1>12, <2>5, <2>6, <2>8, WalInvNext, Zenon
<1> QED
  BY <1>13, <1>14, Zenon

(* The record of t is committed, or truncated away.                        *)
LEMMA WalCommit ==
  ASSUME TypeOK, LockInv, ListInv, WalInv, NEW t \in Txns, Commit(t)
  PROVE  WalInv'
<1>1. LoggedOnly /\ WalOwned /\ SizeKnown /\ LastUndecided /\ WalInCommitOrder
  BY WalInvParts, Zenon
<1>2. PICK error \in BOOLEAN :
        /\ failed[t] => error
        /\ failed' = [failed EXCEPT ![t] = error]
        /\ commit_id' = [commit_id EXCEPT ![t] = NewCommitId(error)]
        /\ wal' = IF error /\ ~failed[t] /\ Logged(t, checkpoint_decision[t])
                  THEN Truncate(wal, initial_wal_size[t]) ELSE wal
        /\ checkpoint_decision' =
              [checkpoint_decision EXCEPT ![t] = IF error THEN "none" ELSE @]
  BY Zenon DEF Commit
<1>3. /\ pc[t] = "commit" /\ pc' = [pc EXCEPT ![t] = "remove"]
      /\ UNCHANGED <<changes, wal_lock, initial_wal_size>>
  BY Zenon DEF Commit, Goto
<1>4. /\ wal \in Seq(Txns) /\ initial_wal_size \in [Txns -> Nat]
      /\ failed \in [Txns -> BOOLEAN] /\ commit_id \in [Txns -> Nat]
      /\ current_start_timestamp \in Nat \ {0}
      /\ \A u \in Txns : commit_id[u] < current_start_timestamp
  BY SMTT(20) DEF TypeOK, ListTypes, FlagTypes, TimeTypes, Timestamps
<1>5. /\ pc'[t] = "remove" /\ commit_id'[t] = NewCommitId(error)
      /\ \A u \in Txns \ {t} : /\ pc'[u] = pc[u] /\ failed'[u] = failed[u]
                               /\ commit_id'[u] = commit_id[u]
                               /\ checkpoint_decision'[u] = checkpoint_decision[u]
  BY <1>2, <1>3, <1>4, Zenon DEF TypeOK, ThreadTypes
<1>6. commit_id[t] = 0
  BY <1>3, Zenon DEF ListInv, Over
<1>7. \A u \in Txns \ {t} : Undecided(u)' <=> Undecided(u)
  BY <1>3, <1>5, Zenon DEF Undecided, Logged
<1>8. ~Undecided(t)'
  BY <1>5, Zenon DEF Undecided
<1>9. LoggedOnly'
  BY <1>1, <1>3, <1>5, Zenon DEF LoggedOnly, Logged
<1>10. WalOwned'
  BY <1>1, <1>3, <1>5, Zenon DEF WalOwned, Logged
<1>11. \A i \in 1..Len(wal) : wal[i] \in Txns
  BY <1>4
<1>12. \A i \in 1..Len(wal) : wal[i] = t => i = Len(wal) /\ Undecided(t)
  BY <1>1, <1>6, Zenon DEF LastUndecided
<1>13. Undecided(t) => \A u \in Txns \ {t} : ~Undecided(u)
  BY <1>1, Zenon DEF WalOwned, Undecided
<1>14. CASE error /\ Undecided(t)
  <2>1. Len(wal) = initial_wal_size[t] + 1 /\ initial_wal_size[t] \in Nat
    BY <1>1, <1>4, <1>14, Zenon DEF SizeKnown
  <2>2. wal' = SubSeq(wal, 1, initial_wal_size[t])
    BY <1>2, <1>14, <2>1 DEF Undecided, Truncate
  <2>3. initial_wal_size[t] \in 0..Len(wal)
    BY <2>1
  <2>4. /\ Len(wal') = initial_wal_size[t]
        /\ \A i \in 1..initial_wal_size[t] : wal'[i] = wal[i]
    <3>1. /\ Len(SubSeq(wal, 1, initial_wal_size[t])) = initial_wal_size[t]
          /\ \A i \in 1..initial_wal_size[t] : SubSeq(wal, 1, initial_wal_size[t])[i] = wal[i]
      BY <1>4, <2>3, PrefixFacts, Zenon
    <3> QED
      BY <2>2, <3>1, Zenon
  <2>5. \A i \in 1..Len(wal') : i \in 1..Len(wal) /\ i # Len(wal) /\ wal'[i] = wal[i]
    BY <2>1, <2>4
  <2>6. \A i \in 1..Len(wal') : commit_id[wal[i]] # 0 /\ commit_id'[wal'[i]] = commit_id[wal[i]]
    BY <1>1, <1>5, <1>11, <1>12, <2>5, Zenon DEF LastUndecided
  <2>7. SizeKnown'
    BY <1>7, <1>8, <1>13, <1>14, Zenon DEF SizeKnown
  <2>8. LastUndecided'
    BY <2>6, Zenon DEF LastUndecided
  <2>9. WalInCommitOrder'
    BY <1>1, <2>5, <2>6, Zenon DEF WalInCommitOrder
  <2> QED
    BY <1>9, <1>10, <2>7, <2>8, <2>9, WalInvNext, Zenon
<1>15. CASE error /\ ~Undecided(t)
  <2>1. wal' = wal
    BY <1>2, <1>3, <1>15, Zenon DEF Undecided
  <2>2. \A i \in 1..Len(wal) : wal[i] # t /\ commit_id'[wal[i]] = commit_id[wal[i]]
    BY <1>5, <1>11, <1>12, <1>15, Zenon
  <2>3. SizeKnown'
    BY <1>1, <1>3, <1>7, <1>8, <2>1, Zenon DEF SizeKnown
  <2>4. LastUndecided'
    BY <1>1, <1>7, <1>11, <2>1, <2>2, Zenon DEF LastUndecided
  <2>5. WalInCommitOrder'
    BY <1>1, <2>1, <2>2, Zenon DEF WalInCommitOrder
  <2> QED
    BY <1>9, <1>10, <2>3, <2>4, <2>5, WalInvNext, Zenon
<1>16. CASE ~error
  <2>1. wal' = wal /\ commit_id'[t] = current_start_timestamp /\ commit_id'[t] # 0
    BY <1>2, <1>4, <1>5, <1>16, Zenon DEF NewCommitId
  <2>2. SizeKnown'
    BY <1>1, <1>3, <1>7, <1>8, <2>1, Zenon DEF SizeKnown
  <2>3. LastUndecided'
    BY <1>1, <1>5, <1>7, <1>11, <2>1, Zenon DEF LastUndecided
  <2>4. ASSUME NEW i \in 1..Len(wal), NEW j \in 1..Len(wal), i < j
        PROVE  /\ commit_id'[wal[i]] # 0
               /\ commit_id'[wal[j]] # 0 => commit_id'[wal[i]] < commit_id'[wal[j]]
    <3>1. i # Len(wal)
      BY <2>4, <1>4
    <3>2. /\ wal[i] \in Txns \ {t} /\ commit_id[wal[i]] # 0
          /\ commit_id'[wal[i]] = commit_id[wal[i]]
      BY <1>1, <1>5, <1>11, <1>12, <2>4, <3>1, Zenon DEF WalInCommitOrder
    <3>3. CASE wal[j] = t
      BY <1>4, <2>1, <3>2, <3>3, SMTT(20)
    <3>4. CASE wal[j] # t
      BY <1>1, <1>5, <1>11, <2>4, <3>2, <3>4, Zenon DEF WalInCommitOrder
    <3> QED
      BY <3>2, <3>3, <3>4, Zenon
  <2>5. WalInCommitOrder'
    BY <2>1, <2>4, Zenon DEF WalInCommitOrder
  <2> QED
    BY <1>9, <1>10, <2>2, <2>3, <2>5, WalInvNext, Zenon
<1> QED
  BY <1>14, <1>15, <1>16, Zenon

(* Every step keeps the log as described.                                  *)
LEMMA WalStep == TypeOK /\ LockInv /\ ListInv /\ WalInv /\ [Next]_vars => WalInv'
<1> SUFFICES ASSUME TypeOK, LockInv, ListInv, WalInv, [Next]_vars PROVE WalInv'
  BY Zenon
<1>pc. pc \in [Txns -> {"idle", "running", "wal", "relock", "commit", "remove",
                        "cleanup", "cleaning", "checkpoint", "done"}]
  BY Zenon DEF TypeOK, ThreadTypes
<1>frame. ASSUME UNCHANGED <<wal, commit_id, initial_wal_size, failed>>,
                 \A u \in Txns : pc[u] \in Logging \/ pc'[u] \in Logging => SameLogging(u)
          PROVE  WalInv'
  BY <1>frame, WalFrame, Zenon
<1> USE DEF stamps, locals
<1>1. ASSUME NEW t \in Txns, \/ BeginQuery(t) \/ SetActiveQuery(t) \/ EndQuery(t)
                             \/ SetReadWrite(t)
      PROVE  WalInv'
  BY <1>1, <1>frame, Zenon DEF BeginQuery, SetActiveQuery, EndQuery, SetReadWrite, SameLogging
<1>2. ASSUME NEW t \in Txns, StartTransaction(t) PROVE WalInv'
  BY <1>2, <1>pc, <1>frame, Zenon DEF StartTransaction, Goto, Logging, SameLogging
<1>3. ASSUME NEW t \in Txns, NEW kind \in Kinds, Write(t, kind) PROVE WalInv'
  <2>1. /\ pc[t] = "running" /\ changes' = [changes EXCEPT ![t] = @ \cup {kind}]
        /\ UNCHANGED <<pc, wal_lock, checkpoint_decision, wal, commit_id, initial_wal_size, failed>>
    BY <1>3, Zenon DEF Write
  <2>2. \A u \in Txns \ {t} : changes'[u] = changes[u]
    BY <2>1, Zenon DEF TypeOK, ListTypes
  <2> QED
    BY <2>1, <2>2, <1>frame, Zenon DEF Logging, SameLogging
<1>4. ASSUME NEW t \in Txns, CommitTransaction(t) PROVE WalInv'
  <2>1. PICK decision \in {"none", "full", "concurrent"} :
          /\ checkpoint_decision' = [checkpoint_decision EXCEPT ![t] = decision]
          /\ EnterCommit(t, decision)
    BY <1>4, Zenon DEF CommitTransaction
  <2>2. /\ pc[t] = "running"
        /\ UNCHANGED <<wal_lock, changes, wal, commit_id, initial_wal_size, failed>>
    BY <1>4, Zenon DEF CommitTransaction
  <2>3. /\ pc'[t] = IF Logged(t, decision) THEN "wal" ELSE "commit"
        /\ checkpoint_decision'[t] = decision
        /\ \A u \in Txns \ {t} : /\ pc'[u] = pc[u]
                                 /\ checkpoint_decision'[u] = checkpoint_decision[u]
    BY <1>pc, <2>1, Zenon DEF EnterCommit, Goto, TypeOK, ThreadTypes
  <2>4. LoggedOnly /\ WalOwned /\ SizeKnown /\ LastUndecided /\ WalInCommitOrder
    BY WalInvParts, Zenon
  <2>5. \A u \in Txns : Undecided(u)' <=> Undecided(u)
    BY <2>2, <2>3, Zenon DEF Undecided, Logged
  <2>6. LoggedOnly'
    BY <2>2, <2>3, <2>4, Zenon DEF LoggedOnly, Logged
  <2>7. WalOwned'
    BY <2>2, <2>3, <2>4, Zenon DEF WalOwned, Logged
  <2>8. \A i \in 1..Len(wal) : wal[i] \in Txns
    BY DEF TypeOK, ListTypes
  <2>9. SizeKnown' /\ LastUndecided' /\ WalInCommitOrder'
    BY <2>2, <2>4, <2>5, <2>8, Zenon DEF SizeKnown, LastUndecided, WalInCommitOrder
  <2> QED
    BY <2>6, <2>7, <2>9, WalInvNext, Zenon
<1>5. ASSUME NEW t \in Txns, RollbackTransaction(t) \/ RemoveCommitted(t) PROVE WalInv'
  <2>1. /\ pc[t] \notin Logging /\ pc' = [pc EXCEPT ![t] = "cleanup"]
        /\ UNCHANGED <<changes, checkpoint_decision, wal_lock, wal, commit_id,
                       initial_wal_size, failed>>
    BY <1>5, Zenon DEF RollbackTransaction, RemoveCommitted, Goto, Logging
  <2> QED
    BY <2>1, <1>pc, <1>frame, Zenon DEF Logging, SameLogging
<1>6. ASSUME NEW t \in Txns, WriteToWAL(t) PROVE WalInv'
  BY <1>6, WalWrite, Zenon
<1>7. ASSUME NEW t \in Txns, Relock(t) PROVE WalInv'
  <2>1. /\ pc[t] = "relock" /\ pc' = [pc EXCEPT ![t] = "commit"]
        /\ UNCHANGED <<changes, checkpoint_decision, wal_lock, wal, commit_id,
                       initial_wal_size, failed>>
    BY <1>7, Zenon DEF Relock, Goto
  <2>2. pc'[t] = "commit" /\ \A u \in Txns \ {t} : pc'[u] = pc[u]
    BY <2>1, <1>pc, Zenon
  <2>3. LoggedOnly /\ WalOwned /\ SizeKnown /\ LastUndecided /\ WalInCommitOrder
    BY WalInvParts, Zenon
  <2>4. \A u \in Txns : Undecided(u)' <=> Undecided(u)
    BY <2>1, <2>2, Zenon DEF Undecided, Logged
  <2>5. LoggedOnly' /\ WalOwned'
    BY <2>1, <2>2, <2>3, Zenon DEF LoggedOnly, WalOwned, Logged
  <2>6. \A i \in 1..Len(wal) : wal[i] \in Txns
    BY DEF TypeOK, ListTypes
  <2>7. SizeKnown' /\ LastUndecided' /\ WalInCommitOrder'
    BY <2>1, <2>3, <2>4, <2>6, Zenon DEF SizeKnown, LastUndecided, WalInCommitOrder
  <2> QED
    BY <2>5, <2>7, WalInvNext, Zenon
<1>8. ASSUME NEW t \in Txns, Commit(t) PROVE WalInv'
  BY <1>8, WalCommit, Zenon
<1>9. ASSUME NEW t \in Txns, PopCleanup(t) \/ Cleanup(t) PROVE WalInv'
  <2>1. /\ pc[t] \in {"cleanup", "cleaning"}
        /\ \/ pc' = [pc EXCEPT ![t] = "cleaning"]
           \/ pc' = [pc EXCEPT ![t] = "done"]
           \/ pc' = [pc EXCEPT ![t] = "checkpoint"]
        /\ wal_lock' = wal_lock \/ wal_lock = t
        /\ UNCHANGED <<changes, checkpoint_decision, wal, commit_id, initial_wal_size, failed>>
    BY <1>9, Zenon DEF PopCleanup, Cleanup, AfterCleanup
  <2>2. pc'[t] \notin Logging /\ pc[t] \notin Logging /\ \A u \in Txns \ {t} : pc'[u] = pc[u]
    BY <2>1, <1>pc, Zenon DEF Logging
  <2> QED
    BY <2>1, <2>2, <1>frame, Zenon DEF SameLogging
<1>10. ASSUME NEW t \in Txns, CheckpointOnCommit(t) PROVE WalInv'
  <2>1. /\ pc[t] = "checkpoint" /\ pc' = [pc EXCEPT ![t] = "done"]
        /\ wal' = wal \/ wal' = <<>>
        /\ UNCHANGED <<changes, checkpoint_decision, wal_lock, commit_id, initial_wal_size, failed>>
    BY <1>10, Zenon DEF CheckpointOnCommit, Goto
  <2>2. checkpoint_lock = t
    BY <2>1, Zenon DEF LockInv
  <2>3. \A u \in Txns : ~Undecided(u)
    BY <2>1, <2>2, CheckpointDecided, Zenon
  <2>4. pc'[t] = "done" /\ \A u \in Txns \ {t} : pc'[u] = pc[u]
    BY <2>1, <1>pc, Zenon
  <2>5. \A u \in Txns : pc[u] \in Logging \/ pc'[u] \in Logging => SameLogging(u)
    BY <2>1, <2>4, Zenon DEF Logging, SameLogging
  <2> QED
    BY <2>1, <2>3, <2>5, WalReset, Zenon
<1>11. ASSUME CreateCheckpoint PROVE WalInv'
  <2>1. /\ command = "running"
        /\ wal' = wal \/ wal' = <<>>
        /\ UNCHANGED <<pc, changes, checkpoint_decision, wal_lock, commit_id,
                       initial_wal_size, failed>>
    BY <1>11, Zenon DEF CreateCheckpoint, CommandStep
  <2>2. checkpoint_lock = Command
    <3>1. command \in {"locked", "read", "running"}
      BY <2>1, Zenon
    <3> QED
      BY <3>1, Zenon DEF LockInv
  <2>c. Command \in Txns \cup {Command} /\ Command \notin Txns
    BY ConstantFacts, Zenon
  <2>3. \A u \in Txns : ~Undecided(u)
    BY <2>2, <2>c, CheckpointDecided, Zenon
  <2>4. \A u \in Txns : SameLogging(u)
    BY <2>1, Zenon DEF SameLogging
  <2> QED
    BY <2>1, <2>3, <2>4, WalReset, Zenon
<1>12. ASSUME \/ CheckpointCommand \/ ForceCheckpoint \/ ForceLock \/ ForceInterrupted
              \/ ReadLastCommit \/ ReadLowestActiveStart
       PROVE  WalInv'
  BY <1>12, <1>frame, Zenon DEF CheckpointCommand, ForceCheckpoint, ForceLock, ForceInterrupted,
     ReadLastCommit, ReadLowestActiveStart, CommandStep, SameLogging
<1>13. ASSUME UNCHANGED vars PROVE WalInv'
  BY <1>13, <1>frame, Zenon DEF vars, SameLogging
<1> QED
  BY <1>1, <1>2, <1>3, <1>4, <1>5, <1>6, <1>7, <1>8, <1>9, <1>10, <1>11, <1>12, <1>13, SMTT(20)
     DEF Next, EndStep, ClientStep, CommandNext

(* The records of the log are in commit order, and only the last one can   *)
(* belong to a transaction that is not committed, although the log is      *)
(* written with the transaction lock released, writes and commits fail, and *)
(* checkpoints reset the log: replaying it gives what the readers saw.     *)
THEOREM WalIsInCommitOrder == Spec => []WalInCommitOrder
<1>1. Init => TypeOK /\ LockInv /\ ListInv /\ WalInv
  BY TypeInit, LockInit, ListInit, WalInit, Zenon
<1>2. TypeOK /\ LockInv /\ ListInv /\ WalInv /\ [Next]_vars
         => (TypeOK /\ LockInv /\ ListInv /\ WalInv)'
  BY TypeStep, LockStep, ListStep, WalStep, Zenon
<1>3. WalInv => WalInCommitOrder
  BY Zenon DEF WalInv
<1> QED
  BY <1>1, <1>2, <1>3, PTL DEF Spec

-----------------------------------------------------------------------------
(* Full checkpoints                                                        *)

(* The conjuncts of CheckpointInv, named.                                  *)
StampsApart ==
    \A u \in Txns : /\ commit_id[u] <= last_commit
                    /\ commit_id[u] # 0 => \A a \in Txns : commit_id[u] # start_time[a]
AloneUntilRemoved ==
    \A t \in Txns : checkpoint_decision[t] = "full" /\ pc[t] \in {"commit", "remove"}
        => active_transactions = {t}
SafeAfterwards ==
    \A t \in Txns : checkpoint_decision[t] = "full"
                    /\ pc[t] \in {"cleanup", "cleaning", "checkpoint"} => NoneReadsOld
LastCommitRead ==
    command = "read" => \A u \in Txns : changes[u] # {} => commit_id[u] <= command_commit
CommandSafe == command = "running" /\ command_type = "full" => NoneReadsOld

LEMMA CheckpointInvParts ==
  CheckpointInv <=> /\ StampsApart /\ AloneUntilRemoved /\ SafeAfterwards
                    /\ LastCommitRead /\ CommandSafe
BY Zenon DEF CheckpointInv, StampsApart, AloneUntilRemoved, SafeAfterwards,
   LastCommitRead, CommandSafe

(* ... and after a step.                                                   *)
LEMMA CheckpointInvNext ==
  CheckpointInv' <=> /\ StampsApart' /\ AloneUntilRemoved' /\ SafeAfterwards'
                     /\ LastCommitRead' /\ CommandSafe'
BY Zenon DEF CheckpointInv, StampsApart, AloneUntilRemoved, SafeAfterwards,
   LastCommitRead, CommandSafe

(* A step that moves threads at most within the three parts of a commit.   *)
LEMMA CheckpointFrame ==
  ASSUME CheckpointInv,
         UNCHANGED <<commit_id, last_commit, start_time, active_transactions, changes,
                     checkpoint_decision, command, command_type, command_commit>>,
         \A t \in Txns : checkpoint_decision[t] = "full" =>
            /\ pc'[t] \in {"commit", "remove"} => pc[t] \in {"commit", "remove"}
            /\ pc'[t] \in {"cleanup", "cleaning", "checkpoint"}
                  => pc[t] \in {"cleanup", "cleaning", "checkpoint"}
  PROVE  CheckpointInv'
<1>1. /\ StampsApart /\ AloneUntilRemoved /\ SafeAfterwards /\ LastCommitRead /\ CommandSafe
  BY CheckpointInvParts, Zenon
<1>2. NoneReadsOld' <=> NoneReadsOld
  BY Zenon DEF NoneReadsOld
<1>3. StampsApart' /\ AloneUntilRemoved'
  BY <1>1, Zenon DEF StampsApart, AloneUntilRemoved
<1>4. SafeAfterwards' /\ LastCommitRead' /\ CommandSafe'
  BY <1>1, <1>2, Zenon DEF SafeAfterwards, LastCommitRead, CommandSafe
<1> QED
  BY <1>3, <1>4, CheckpointInvNext, Zenon

(* Whoever owns the exclusive key is the only one with changes to commit.  *)
LEMMA OwnerAlone ==
  ASSUME LockInv, NEW t \in Txns, NEW o \in Txns \cup {Command}, checkpoint_lock = o,
         t # o, pc[t] \in {"running"} \cup Ending
  PROVE  changes[t] = {} /\ t \notin write_lock
<1>1. checkpoint_lock # Nobody
  BY ConstantFacts, Zenon
<1>2. write_lock \subseteq {o}
  BY <1>1, Zenon DEF LockInv
<1>3. changes[t] # {} => t \in write_lock
  BY Zenon DEF LockInv
<1> QED
  BY <1>2, <1>3, Zenon

(* Initially nothing is committed.                                         *)
LEMMA CheckpointInit == Init => CheckpointInv
BY ConstantFacts DEF Init, CheckpointInv, NoneReadsOld

(* A transaction starts: after everything that is committed.               *)
LEMMA StartSafe ==
  ASSUME TypeOK, LockInv, CheckpointInv, NEW t \in Txns, StartTransaction(t)
  PROVE  CheckpointInv'
<1>1. /\ StampsApart /\ AloneUntilRemoved /\ SafeAfterwards /\ LastCommitRead /\ CommandSafe
  BY CheckpointInvParts, Zenon
<1>2. /\ pc[t] = "idle" /\ pc' = [pc EXCEPT ![t] = "running"] /\ transaction_lock = Nobody
      /\ start_time' = [start_time EXCEPT ![t] = current_start_timestamp]
      /\ active_transactions' = active_transactions \cup {t}
      /\ UNCHANGED <<last_commit, commit_id, changes, checkpoint_decision, command,
                     command_type, command_commit>>
  BY Zenon DEF StartTransaction, Goto, locals, cmd
<1>3. /\ pc'[t] = "running" /\ start_time'[t] = current_start_timestamp
      /\ \A u \in Txns \ {t} : pc'[u] = pc[u] /\ start_time'[u] = start_time[u]
  BY <1>2, Zenon DEF TypeOK, ThreadTypes, TimeTypes
<1>4. /\ active_transactions \subseteq Txns
      /\ \A u \in Txns : /\ commit_id[u] \in Nat /\ commit_id[u] < current_start_timestamp
                         /\ commit_id[u] # current_start_timestamp
  BY DEF TypeOK, TimeTypes, ListTypes, Timestamps
<1>5. NoneReadsOld => NoneReadsOld'
  <2> SUFFICES ASSUME NoneReadsOld, NEW u \in Txns, NEW a \in active_transactions \cup {t},
                      commit_id[u] # 0, changes[u] # {}
               PROVE  commit_id[u] < start_time'[a]
    BY <1>2, Zenon DEF NoneReadsOld
  <2>1. CASE a = t
    BY <1>3, <1>4, <2>1, Zenon
  <2>2. CASE a # t
    BY <1>3, <1>4, <2>2, Zenon DEF NoneReadsOld
  <2> QED
    BY <2>1, <2>2, Zenon
<1>6. StampsApart'
  BY <1>1, <1>2, <1>3, <1>4, ZenonT(30) DEF StampsApart
<1>7. AloneUntilRemoved'
  <2>1. \A u \in Txns : pc[u] \notin {"commit", "remove"}
    BY <1>2, ConstantFacts, Zenon DEF LockInv
  <2> QED
    BY <1>3, <2>1, Zenon DEF AloneUntilRemoved
<1>8. SafeAfterwards' /\ LastCommitRead' /\ CommandSafe'
  BY <1>1, <1>2, <1>3, <1>5, Zenon DEF SafeAfterwards, LastCommitRead, CommandSafe
<1> QED
  BY <1>6, <1>7, <1>8, CheckpointInvNext, Zenon

(* A transaction writes: it is not committed, and no checkpoint command is *)
(* between its two reads.                                                  *)
LEMMA WriteSafe ==
  ASSUME TypeOK, LockInv, ListInv, CheckpointInv, NEW t \in Txns, NEW kind \in Kinds,
         Write(t, kind)
  PROVE  CheckpointInv'
<1>1. /\ StampsApart /\ AloneUntilRemoved /\ SafeAfterwards /\ LastCommitRead /\ CommandSafe
  BY CheckpointInvParts, Zenon
<1>2. /\ pc[t] = "running" /\ changes' = [changes EXCEPT ![t] = @ \cup {kind}]
      /\ t \in write_lock
      /\ UNCHANGED <<pc, last_commit, commit_id, start_time, active_transactions,
                     checkpoint_decision, command, command_type, command_commit>>
  BY Zenon DEF Write, counters, lists, stamps, locals, cmd
<1>3. \A u \in Txns \ {t} : changes'[u] = changes[u]
  BY <1>2, Zenon DEF TypeOK, ListTypes
<1>4. commit_id[t] = 0
  BY <1>2, Zenon DEF ListInv, Over
<1>5. NoneReadsOld => NoneReadsOld'
  BY <1>2, <1>3, <1>4, Zenon DEF NoneReadsOld
<1>6. command # "read"
  <2>1. SUFFICES ASSUME command = "read" PROVE FALSE
    BY Zenon
  <2>2. command \in {"locked", "read", "running"}
    BY <2>1, Zenon
  <2>3. checkpoint_lock = Command /\ Command \in Txns \cup {Command} /\ t # Command
    BY <2>2, ConstantFacts, Zenon DEF LockInv
  <2> QED
    BY <1>2, <2>3, OwnerAlone, Zenon
<1>7. StampsApart' /\ AloneUntilRemoved'
  BY <1>1, <1>2, Zenon DEF StampsApart, AloneUntilRemoved
<1>8. SafeAfterwards' /\ LastCommitRead' /\ CommandSafe'
  BY <1>1, <1>2, <1>5, <1>6, Zenon DEF SafeAfterwards, LastCommitRead, CommandSafe
<1> QED
  BY <1>7, <1>8, CheckpointInvNext, Zenon

(* A commit decides: a full checkpoint only when it is alone.              *)
LEMMA DecideSafe ==
  ASSUME TypeOK, LockInv, CheckpointInv, NEW t \in Txns, CommitTransaction(t)
  PROVE  CheckpointInv'
<1>1. /\ StampsApart /\ AloneUntilRemoved /\ SafeAfterwards /\ LastCommitRead /\ CommandSafe
  BY CheckpointInvParts, Zenon
<1>2. PICK auto \in BOOLEAN, upgraded \in BOOLEAN, decision \in {"none", "full", "concurrent"} :
        /\ CanCheckpoint(t, auto, upgraded, decision)
        /\ checkpoint_decision' = [checkpoint_decision EXCEPT ![t] = decision]
        /\ EnterCommit(t, decision)
  BY Zenon DEF CommitTransaction
<1>3. /\ pc[t] = "running"
      /\ UNCHANGED <<last_commit, commit_id, start_time, active_transactions, changes,
                     command, command_type, command_commit>>
  BY Zenon DEF CommitTransaction, counters, lists, stamps, cmd
<1>4. /\ pc'[t] \in {"wal", "commit"} /\ checkpoint_decision'[t] = decision
      /\ \A u \in Txns \ {t} : /\ pc'[u] = pc[u]
                               /\ checkpoint_decision'[u] = checkpoint_decision[u]
  BY <1>2, Zenon DEF EnterCommit, Goto, TypeOK, ThreadTypes
<1>5. decision = "full" => active_transactions = {t}
  <2>1. t \in active_transactions
    BY <1>3, Zenon DEF LockInv
  <2>2. decision = "full" => active_transactions \ {t} = {}
    BY <1>2, Zenon DEF CanCheckpoint
  <2> QED
    BY <2>1, <2>2, Zenon
<1>6. NoneReadsOld' <=> NoneReadsOld
  BY <1>3, Zenon DEF NoneReadsOld
<1>7. StampsApart' /\ LastCommitRead' /\ CommandSafe'
  BY <1>1, <1>3, <1>6, Zenon DEF StampsApart, LastCommitRead, CommandSafe
<1>8. AloneUntilRemoved'
  BY <1>1, <1>3, <1>4, <1>5, Zenon DEF AloneUntilRemoved
<1>9. SafeAfterwards'
  BY <1>1, <1>4, <1>6, Zenon DEF SafeAfterwards
<1> QED
  BY <1>7, <1>8, <1>9, CheckpointInvNext, Zenon

(* A commit stamps its changes: nobody else is to checkpoint.              *)
LEMMA CommitStampSafe ==
  ASSUME TypeOK, LockInv, CheckpointInv, NEW t \in Txns, Commit(t)
  PROVE  CheckpointInv'
<1>1. /\ StampsApart /\ AloneUntilRemoved /\ SafeAfterwards /\ LastCommitRead /\ CommandSafe
  BY CheckpointInvParts, Zenon
<1>2. PICK error \in BOOLEAN :
        /\ commit_id' = [commit_id EXCEPT ![t] = NewCommitId(error)]
        /\ checkpoint_decision' =
              [checkpoint_decision EXCEPT ![t] = IF error THEN "none" ELSE @]
  BY Zenon DEF Commit
<1>3. /\ pc[t] = "commit" /\ pc' = [pc EXCEPT ![t] = "remove"]
      /\ last_commit' = current_start_timestamp
      /\ UNCHANGED <<start_time, active_transactions, changes, command, command_type,
                     command_commit>>
  BY Zenon DEF Commit, Goto, lists, cmd
<1>4. /\ pc'[t] = "remove" /\ commit_id'[t] \in {0, current_start_timestamp}
      /\ checkpoint_decision'[t] \in {"none", checkpoint_decision[t]}
      /\ \A u \in Txns \ {t} : /\ pc'[u] = pc[u] /\ commit_id'[u] = commit_id[u]
                               /\ checkpoint_decision'[u] = checkpoint_decision[u]
  BY <1>2, <1>3, Zenon DEF NewCommitId, TypeOK, ThreadTypes, TimeTypes
<1>5. /\ current_start_timestamp \in Nat
      /\ \A u \in Txns : /\ commit_id[u] \in Nat /\ commit_id[u] <= current_start_timestamp
                         /\ start_time[u] # current_start_timestamp
  BY DEF TypeOK, TimeTypes, Timestamps
<1>6. StampsApart'
  <2>1. \A u \in Txns : commit_id'[u] <= current_start_timestamp
    BY <1>4, <1>5
  <2>2. \A u \in Txns : commit_id'[u] # 0 => \A a \in Txns : commit_id'[u] # start_time[a]
    BY <1>1, <1>4, <1>5, Zenon DEF StampsApart
  <2> QED
    BY <1>3, <2>1, <2>2, Zenon DEF StampsApart
<1>7. AloneUntilRemoved'
  BY <1>1, <1>3, <1>4, Zenon DEF AloneUntilRemoved
<1>8. changes[t] = {} => (NoneReadsOld => NoneReadsOld')
  BY <1>3, <1>4, Zenon DEF NoneReadsOld
<1>9. SafeAfterwards'
  <2> SUFFICES ASSUME NEW u \in Txns, checkpoint_decision'[u] = "full",
                      pc'[u] \in {"cleanup", "cleaning", "checkpoint"}
               PROVE  NoneReadsOld'
    BY Zenon DEF SafeAfterwards
  <2>1. u # t
    BY <1>4, Zenon
  <2>2. /\ checkpoint_decision[u] = "full" /\ pc[u] \in {"cleanup", "cleaning", "checkpoint"}
    BY <1>4, <2>1, Zenon
  <2>3. checkpoint_lock = u
    BY <2>2, Zenon DEF LockInv
  <2>4. changes[t] = {}
    BY <1>3, <2>1, <2>3, OwnerAlone, Zenon DEF Ending
  <2> QED
    BY <1>1, <1>8, <2>2, <2>4, Zenon DEF SafeAfterwards
<1>10. command \in {"read", "running"} => changes[t] = {}
  <2> SUFFICES ASSUME command \in {"read", "running"} PROVE changes[t] = {}
    BY Zenon
  <2>1. command \in {"locked", "read", "running"}
    BY Zenon
  <2>2. checkpoint_lock = Command /\ Command \in Txns \cup {Command} /\ t # Command
    BY <2>1, ConstantFacts, Zenon DEF LockInv
  <2> QED
    BY <1>3, <2>2, OwnerAlone, Zenon DEF Ending
<1>11. LastCommitRead'
  BY <1>1, <1>3, <1>4, <1>10, Zenon DEF LastCommitRead
<1>12. CommandSafe'
  BY <1>1, <1>3, <1>8, <1>10, Zenon DEF CommandSafe
<1> QED
  BY <1>6, <1>7, <1>9, <1>11, <1>12, CheckpointInvNext, Zenon

(* A transaction is removed: one that decided on a full checkpoint was the *)
(* only active one.                                                        *)
LEMMA RemoveSafe ==
  ASSUME TypeOK, LockInv, CheckpointInv, NEW t \in Txns,
         RollbackTransaction(t) \/ RemoveCommitted(t)
  PROVE  CheckpointInv'
<1>1. /\ StampsApart /\ AloneUntilRemoved /\ SafeAfterwards /\ LastCommitRead /\ CommandSafe
  BY CheckpointInvParts, Zenon
<1>2. PICK store \in BOOLEAN : RemoveTransaction(t, store)
  BY Zenon DEF RollbackTransaction, RemoveCommitted, TypeOK, FlagTypes
<1>3. active_transactions' = active_transactions \ {t}
  BY <1>2, Zenon DEF RemoveTransaction
<1>4. /\ pc[t] \in {"running", "remove"} /\ pc' = [pc EXCEPT ![t] = "cleanup"]
      /\ UNCHANGED <<last_commit, commit_id, start_time, changes, checkpoint_decision,
                     command, command_type, command_commit>>
  BY Zenon DEF RollbackTransaction, RemoveCommitted, Goto, stamps, locals, cmd
<1>5. pc'[t] = "cleanup" /\ \A u \in Txns \ {t} : pc'[u] = pc[u]
  BY <1>4, Zenon DEF TypeOK, ThreadTypes
<1>6. NoneReadsOld => NoneReadsOld'
  BY <1>3, <1>4, Zenon DEF NoneReadsOld
<1>7. StampsApart' /\ LastCommitRead' /\ CommandSafe'
  BY <1>1, <1>4, <1>6, Zenon DEF StampsApart, LastCommitRead, CommandSafe
<1>8. AloneUntilRemoved'
  <2> SUFFICES ASSUME NEW u \in Txns, checkpoint_decision[u] = "full",
                      pc'[u] \in {"commit", "remove"}
               PROVE  active_transactions' = {u}
    BY <1>4, Zenon DEF AloneUntilRemoved
  <2>1. u # t
    BY <1>5, Zenon
  <2>2. active_transactions = {u}
    BY <1>1, <1>5, <2>1, Zenon DEF AloneUntilRemoved
  <2> QED
    BY <1>3, <2>1, <2>2, Zenon
<1>9. SafeAfterwards'
  <2> SUFFICES ASSUME NEW u \in Txns, checkpoint_decision[u] = "full",
                      pc'[u] \in {"cleanup", "cleaning", "checkpoint"}
               PROVE  NoneReadsOld'
    BY <1>4, Zenon DEF SafeAfterwards
  <2>1. CASE u # t
    BY <1>1, <1>5, <1>6, <2>1, Zenon DEF SafeAfterwards
  <2>2. CASE u = t
    <3>1. pc[t] = "remove"
      BY <1>4, <2>2, Zenon DEF LockInv, Over
    <3>2. active_transactions = {t}
      BY <1>1, <2>2, <3>1, Zenon DEF AloneUntilRemoved
    <3>3. active_transactions' = {}
      BY <1>3, <3>2, Zenon
    <3> QED
      BY <3>3, Zenon DEF NoneReadsOld
  <2> QED
    BY <2>1, <2>2, Zenon
<1> QED
  BY <1>7, <1>8, <1>9, CheckpointInvNext, Zenon

(* A command chooses its type from two reads that are not atomic together.  *)
LEMMA ChooseSafe ==
  ASSUME TypeOK, LowestActiveStartExact, CheckpointInv, ReadLowestActiveStart
  PROVE  CheckpointInv'
<1>1. /\ StampsApart /\ AloneUntilRemoved /\ SafeAfterwards /\ LastCommitRead /\ CommandSafe
  BY CheckpointInvParts, Zenon
<1>2. /\ command = "read" /\ command' = "running" /\ command_type' = CommandType
      /\ UNCHANGED <<last_commit, commit_id, start_time, active_transactions, changes,
                     checkpoint_decision, pc>>
  BY Zenon DEF ReadLowestActiveStart, CommandStep, counters, lists, stamps, locals
<1>3. /\ command_commit \in Nat /\ lowest_active_start \in Nat
      /\ active_transactions \subseteq Txns
      /\ \A u \in Txns : commit_id[u] \in Nat /\ start_time[u] \in Nat
  BY DEF TypeOK, TimeTypes, ListTypes, Timestamps
<1>4. NoneReadsOld' <=> NoneReadsOld
  BY <1>2, Zenon DEF NoneReadsOld
<1>5. command_type' = "full" => NoneReadsOld
  <2> SUFFICES ASSUME command_type' = "full", NEW u \in Txns, NEW a \in active_transactions,
                      commit_id[u] # 0, changes[u] # {}
               PROVE  commit_id[u] < start_time[a]
    BY Zenon DEF NoneReadsOld
  <2>1. command_commit <= lowest_active_start
    BY <1>2, <1>3 DEF CommandType
  <2>2. commit_id[u] <= command_commit
    BY <1>1, <1>2, Zenon DEF LastCommitRead
  <2>3. a \in Txns /\ lowest_active_start <= start_time[a]
    BY <1>3, Zenon DEF LowestActiveStartExact
  <2>4. commit_id[u] # start_time[a]
    BY <1>1, <2>3, Zenon DEF StampsApart
  <2>5. commit_id[u] \in Nat /\ start_time[a] \in Nat
    BY <1>3, <2>3, Zenon
  <2> HIDE DEF NoneReadsOld
  <2> QED
    BY <1>3, <2>1, <2>2, <2>3, <2>4, <2>5
<1>6. StampsApart' /\ AloneUntilRemoved' /\ SafeAfterwards'
  BY <1>1, <1>2, <1>4, Zenon DEF StampsApart, AloneUntilRemoved, SafeAfterwards
<1>7. LastCommitRead' /\ CommandSafe'
  BY <1>2, <1>4, <1>5, Zenon DEF LastCommitRead, CommandSafe
<1> QED
  BY <1>6, <1>7, CheckpointInvNext, Zenon

(* Every step keeps full checkpoints safe.                                 *)
LEMMA CheckpointStep ==
  /\ TypeOK /\ LockInv /\ ListInv /\ LowestActiveStartExact /\ CheckpointInv
  /\ [Next]_vars
  => CheckpointInv'
<1> SUFFICES ASSUME TypeOK, LockInv, ListInv, LowestActiveStartExact, CheckpointInv,
                    [Next]_vars
             PROVE  CheckpointInv'
  BY Zenon
<1>pc. pc \in [Txns -> {"idle", "running", "wal", "relock", "commit", "remove",
                        "cleanup", "cleaning", "checkpoint", "done"}]
  BY Zenon DEF TypeOK, ThreadTypes
<1>frame. ASSUME UNCHANGED <<commit_id, last_commit, start_time, active_transactions, changes,
                             checkpoint_decision, command, command_type, command_commit>>,
                 \A t \in Txns : checkpoint_decision[t] = "full" =>
                    /\ pc'[t] \in {"commit", "remove"} => pc[t] \in {"commit", "remove"}
                    /\ pc'[t] \in {"cleanup", "cleaning", "checkpoint"}
                          => pc[t] \in {"cleanup", "cleaning", "checkpoint"}
          PROVE  CheckpointInv'
  BY <1>frame, CheckpointFrame, Zenon
<1>1. ASSUME NEW t \in Txns, \/ BeginQuery(t) \/ SetActiveQuery(t) \/ EndQuery(t)
                             \/ SetReadWrite(t)
      PROVE  CheckpointInv'
  BY <1>1, <1>frame, Zenon DEF BeginQuery, SetActiveQuery, EndQuery, SetReadWrite, counters,
     lists, stamps, locals, cmd
<1>2. ASSUME NEW t \in Txns, StartTransaction(t) PROVE CheckpointInv'
  BY <1>2, StartSafe, Zenon
<1>3. ASSUME NEW t \in Txns, NEW kind \in Kinds, Write(t, kind) PROVE CheckpointInv'
  BY <1>3, WriteSafe, Zenon
<1>4. ASSUME NEW t \in Txns, CommitTransaction(t) PROVE CheckpointInv'
  BY <1>4, DecideSafe, Zenon
<1>5. ASSUME NEW t \in Txns, WriteToWAL(t) \/ Relock(t) PROVE CheckpointInv'
  <2>1. /\ pc[t] \in {"wal", "relock"}
        /\ pc' = [pc EXCEPT ![t] = "relock"] \/ pc' = [pc EXCEPT ![t] = "commit"]
        /\ UNCHANGED <<commit_id, last_commit, start_time, active_transactions, changes,
                       checkpoint_decision, command, command_type, command_commit>>
    BY <1>5, Zenon DEF WriteToWAL, Relock, Goto, counters, lists, stamps, locals, cmd
  <2>2. checkpoint_decision[t] = "none"
    BY <2>1, Zenon DEF LockInv, Over
  <2>3. \A u \in Txns \ {t} : pc'[u] = pc[u]
    BY <2>1, <1>pc, Zenon
  <2> QED
    BY <2>1, <2>2, <2>3, <1>frame, Zenon
<1>6. ASSUME NEW t \in Txns, Commit(t) PROVE CheckpointInv'
  BY <1>6, CommitStampSafe, Zenon
<1>7. ASSUME NEW t \in Txns, RollbackTransaction(t) \/ RemoveCommitted(t)
      PROVE  CheckpointInv'
  BY <1>7, RemoveSafe, Zenon
<1>8. ASSUME NEW t \in Txns, PopCleanup(t) \/ Cleanup(t) \/ CheckpointOnCommit(t)
      PROVE  CheckpointInv'
  <2>1. /\ pc[t] \in {"cleanup", "cleaning", "checkpoint"}
        /\ \/ pc' = [pc EXCEPT ![t] = "cleaning"]
           \/ pc' = [pc EXCEPT ![t] = "done"]
           \/ pc' = [pc EXCEPT ![t] = "checkpoint"]
        /\ UNCHANGED <<commit_id, last_commit, start_time, active_transactions, changes,
                       checkpoint_decision, command, command_type, command_commit>>
    BY <1>8, Zenon DEF PopCleanup, Cleanup, AfterCleanup, CheckpointOnCommit, Goto, counters, lists,
       stamps, locals, cmd
  <2>2. pc'[t] \in {"cleaning", "done", "checkpoint"} /\ \A u \in Txns \ {t} : pc'[u] = pc[u]
    BY <2>1, <1>pc, Zenon
  <2> QED
    BY <2>1, <2>2, <1>frame, Zenon
<1>9. ASSUME ReadLowestActiveStart PROVE CheckpointInv'
  BY <1>9, ChooseSafe, Zenon
<1>10. ASSUME ReadLastCommit PROVE CheckpointInv'
  <2>1. /\ command' = "read" /\ command_commit' = last_commit
        /\ UNCHANGED <<commit_id, last_commit, start_time, active_transactions, changes,
                       checkpoint_decision, pc>>
    BY <1>10, Zenon DEF ReadLastCommit, CommandStep, counters, lists, stamps, locals
  <2>2. StampsApart /\ AloneUntilRemoved /\ SafeAfterwards
    BY CheckpointInvParts, Zenon
  <2>3. StampsApart' /\ AloneUntilRemoved' /\ SafeAfterwards'
    BY <2>1, <2>2, Zenon DEF StampsApart, AloneUntilRemoved, SafeAfterwards, NoneReadsOld
  <2>4. LastCommitRead' /\ CommandSafe'
    BY <2>1, <2>2, Zenon DEF LastCommitRead, CommandSafe, StampsApart
  <2> QED
    BY <2>3, <2>4, CheckpointInvNext, Zenon
<1>11. ASSUME \/ CheckpointCommand \/ ForceCheckpoint \/ ForceLock \/ ForceInterrupted
              \/ CreateCheckpoint
       PROVE  CheckpointInv'
  <2>1. /\ command' \in {"idle", "force_wait", "locked"}
        /\ UNCHANGED <<commit_id, last_commit, start_time, active_transactions, changes,
                       checkpoint_decision, pc>>
    BY <1>11, Zenon DEF CheckpointCommand, ForceCheckpoint, ForceLock, ForceInterrupted,
       CreateCheckpoint, CommandStep, counters, lists, stamps, locals
  <2>2. StampsApart /\ AloneUntilRemoved /\ SafeAfterwards
    BY CheckpointInvParts, Zenon
  <2>3. StampsApart' /\ AloneUntilRemoved' /\ SafeAfterwards'
    BY <2>1, <2>2, Zenon DEF StampsApart, AloneUntilRemoved, SafeAfterwards, NoneReadsOld
  <2>4. LastCommitRead' /\ CommandSafe'
    BY <2>1, Zenon DEF LastCommitRead, CommandSafe
  <2> QED
    BY <2>3, <2>4, CheckpointInvNext, Zenon
<1>12. ASSUME UNCHANGED vars PROVE CheckpointInv'
  BY <1>12, <1>frame, Zenon DEF vars, counters, lists, stamps, locals, cmd
<1> QED
  BY <1>1, <1>2, <1>3, <1>4, <1>5, <1>6, <1>7, <1>8, <1>9, <1>10, <1>11, <1>12, SMTT(20)
     DEF Next, EndStep, ClientStep, CommandNext

(* A full checkpoint, which vacuums deleted rows, runs only when every     *)
(* active transaction started after every committed change: also when it   *)
(* was decided on long before, by a commit that has been removed since, or *)
(* by a command from two reads without a lock.                             *)
THEOREM FullCheckpointIsSafe == Spec => []FullCheckpointSafe
<1>1. Init => TypeOK /\ LockInv /\ ListInv /\ CheckpointInv
  BY TypeInit, LockInit, ListInit, CheckpointInit, Zenon
<1>2. TypeOK /\ LockInv /\ ListInv /\ LowestActiveStartExact /\ CheckpointInv /\ [Next]_vars
         => (TypeOK /\ LockInv /\ ListInv /\ CheckpointInv)'
  BY TypeStep, LockStep, ListStep, CheckpointStep, Zenon
<1>3. CheckpointInv => FullCheckpointSafe
  BY Zenon DEF CheckpointInv, FullCheckpointSafe, NoneReadsOld
<1> QED
  BY <1>1, <1>2, <1>3, LowestActiveStartIsExact, PTL DEF Spec

=============================================================================
