--------------------- MODULE TransactionManagerCleanup ----------------------
(***************************************************************************)
(* Queries, the objects of transactions and the keys they own, for any set *)
(* of transactions: an undo buffer is not scheduled for cleanup while a    *)
(* query runs that was reading when it became old; each object is in one   *)
(* place and owns its key until it is destroyed. And what is left when     *)
(* transactions are over, for any finite set of them: an idle manager      *)
(* keeps nothing, every queued cleanup has a thread to run it, the keys of *)
(* the checkpoint lock all come back, and a checkpoint runs after the      *)
(* cleanups it could disturb.                                              *)
(***************************************************************************)
EXTENDS TransactionManagerCommits, TLAPS

(* Queries and the memory of undo buffers                                  *)

(* The conjuncts of ReaderInv, named.                                      *)
QueriesRecorded ==
    \A a \in Txns :
        /\ query[a] # MAXIMUM_QUERY_ID => query[a] < current_query_number
        /\ active_query[a] # MAXIMUM_QUERY_ID => active_query[a] = query[a]
WatchedOver == \A u \in Txns : watchers[u] # {} => pc[u] \in Over
WatchersBelow ==
    \A u \in Txns : \A a \in watchers[u] : /\ a \in Reading(active_transactions)
                                           /\ active_query[a] < highest_active_query[u]
RecentNotOld ==
    \A u \in Elements(recently_committed_transactions) :
        commit_id[u] # 0 /\ ~awaiting_cleanup[u]
OldMarked ==
    \A u \in Elements(old_transactions) \cup Scheduled :
        commit_id[u] = 0 \/ awaiting_cleanup[u]

LEMMA ReaderInvParts ==
  ReaderInv <=> /\ QueriesRecorded /\ WatchedOver /\ WatchersBelow /\ RecentNotOld
                /\ OldMarked /\ NoReaderOfFreedMemory
BY Zenon DEF ReaderInv, QueriesRecorded, WatchedOver, WatchersBelow, RecentNotOld, OldMarked

(* ... and after a step.                                                   *)
LEMMA ReaderInvNext ==
  ReaderInv' <=> /\ QueriesRecorded' /\ WatchedOver' /\ WatchersBelow' /\ RecentNotOld'
                 /\ OldMarked' /\ NoReaderOfFreedMemory'
BY Zenon DEF ReaderInv, QueriesRecorded, WatchedOver, WatchersBelow, RecentNotOld, OldMarked

(* RemoveTransaction: old_transactions with what is added to it, and those  *)
(* that become old.                                                        *)
Old(t, store, n) == old_transactions \o Aborted(t, store) \o SubSeq(Recent(t, store), 1, n)
BecomeOld(t, store, n) == Elements(Aborted(t, store) \o SubSeq(Recent(t, store), 1, n))

(* What RemoveTransaction takes from the list of old transactions.         *)
Taken(t, store, n, k) ==
    /\ \A i \in 1..k : \/ active_transactions \ {t} = {}
                       \/ Old(t, store, n)[i] \in Unread(active_transactions \ {t},
                                                         highest_active_query')
    /\ old_transactions' = SubSeq(Old(t, store, n), k + 1, Len(Old(t, store, n)))
    /\ \/ cleanup_queue' = cleanup_queue
       \/ \E lowest : cleanup_queue' = Append(cleanup_queue,
             [lowest_start_time |-> lowest,
              transactions |-> Direct(t, store) \o SubSeq(Old(t, store, n), 1, k)])
    /\ highest_active_query' = [u \in Txns |-> IF u \in BecomeOld(t, store, n)
                                               THEN current_query_number
                                               ELSE highest_active_query[u]]
    /\ watchers' = [u \in Txns |-> IF u \in BecomeOld(t, store, n)
                                   THEN Reading(active_transactions \ {t})
                                   ELSE watchers[u] \ {t}]

LEMMA RemoveTaken ==
  ASSUME NEW t \in Txns, NEW store \in BOOLEAN, NEW lowest \in Nat, NEW n \in Nat,
         Removed(t, store, lowest, n)
  PROVE  \E k \in 0..Len(Old(t, store, n)) : Taken(t, store, n, k)
<1> DEFINE old == Old(t, store, n)
           others == active_transactions \ {t}
           highest == [u \in Txns |-> IF u \in BecomeOld(t, store, n)
                                      THEN current_query_number ELSE highest_active_query[u]]
           info(k) == [lowest_start_time |-> lowest,
                       transactions |-> Direct(t, store) \o SubSeq(old, 1, k)]
<1>1. ScheduleCleanup(t, lowest, Direct(t, store), old, BecomeOld(t, store, n))
  BY Zenon DEF Removed, Old, BecomeOld
<1>2. PICK k \in 0..Len(old) :
        /\ IF others = {} THEN k = Len(old) ELSE IsPrefixLength(k, old, Unread(others, highest))
        /\ old_transactions' = SubSeq(old, k + 1, Len(old))
        /\ cleanup_queue' = IF info(k).transactions = <<>> THEN cleanup_queue
                            ELSE Append(cleanup_queue, info(k))
        /\ highest_active_query' = highest
        /\ watchers' = [u \in Txns |-> IF u \in BecomeOld(t, store, n) THEN Reading(others)
                                       ELSE watchers[u] \ {t}]
  BY <1>1, Zenon DEF ScheduleCleanup
<1>3. \A i \in 1..k : others = {} \/ old[i] \in Unread(others, highest_active_query')
  BY <1>2, Zenon DEF IsPrefixLength
<1>4. cleanup_queue' = cleanup_queue \/ cleanup_queue' = Append(cleanup_queue, info(k))
  BY <1>2, Zenon
<1> QED
  BY <1>2, <1>3, <1>4, Zenon DEF Taken

(* What is scheduled afterwards.                                           *)
LEMMA TakenScheduled ==
  ASSUME TypeOK, NEW t \in Txns, NEW store \in BOOLEAN, NEW n \in 0..Len(Recent(t, store)),
         NEW k \in 0..Len(Old(t, store, n)), Taken(t, store, n, k),
         UNCHANGED top_cleanup_info
  PROVE  Scheduled' \subseteq Scheduled \cup Elements(Direct(t, store))
                                \cup Elements(SubSeq(Old(t, store, n), 1, k))
<1> DEFINE taken == SubSeq(Old(t, store, n), 1, k)
<1>t. /\ Old(t, store, n) \in Seq(Txns) /\ Direct(t, store) \in Seq(Txns)
      /\ cleanup_queue \in Seq(Infos)
  <2>1. /\ Aborted(t, store) \in Seq(Txns) /\ Direct(t, store) \in Seq(Txns)
        /\ SubSeq(Recent(t, store), 1, n) \in Seq(Txns)
    BY LocalTypes, Zenon
  <2>2. old_transactions \in Seq(Txns) /\ cleanup_queue \in Seq(Infos)
    BY Zenon DEF TypeOK, ListTypes
  <2> QED
    BY <2>1, <2>2 DEF Old
<1>1. taken \in Seq(Txns)
  BY <1>t, SubSeqFacts
<1> HIDE DEF taken
<1>2. Elements(Direct(t, store) \o taken) = Elements(Direct(t, store)) \cup Elements(taken)
  BY <1>1, <1>t, ElementsConcat
<1>3. CASE cleanup_queue' = cleanup_queue
  BY <1>3, Zenon DEF Scheduled
<1>4. CASE \E lowest : cleanup_queue' = Append(cleanup_queue,
             [lowest_start_time |-> lowest, transactions |-> Direct(t, store) \o taken])
  <2>1. PICK lowest : cleanup_queue' = Append(cleanup_queue,
             [lowest_start_time |-> lowest, transactions |-> Direct(t, store) \o taken])
    BY <1>4, Zenon
  <2> DEFINE new == [lowest_start_time |-> lowest, transactions |-> Direct(t, store) \o taken]
  <2>2. new.transactions = Direct(t, store) \o taken
    BY Zenon
  <2>3. cleanup_queue' = Append(cleanup_queue, new)
    BY <2>1, Zenon
  <2> HIDE DEF new
  <2>4. /\ Len(cleanup_queue') = Len(cleanup_queue) + 1 /\ Len(cleanup_queue) \in Nat
        /\ \A i \in 1..Len(cleanup_queue) : cleanup_queue'[i] = cleanup_queue[i]
        /\ cleanup_queue'[Len(cleanup_queue) + 1] = new
    BY <2>3, <1>t
  <2>5. \A i \in 1..Len(cleanup_queue') : i \in 1..Len(cleanup_queue) \/ i = Len(cleanup_queue) + 1
    BY <2>4
  <2>6. \A i \in 1..Len(cleanup_queue') :
          \/ i \in 1..Len(cleanup_queue) /\ cleanup_queue'[i] = cleanup_queue[i]
          \/ cleanup_queue'[i].transactions = Direct(t, store) \o taken
    BY <2>2, <2>4, <2>5, Zenon
  <2> QED
    BY <2>6, <1>2, Zenon DEF Scheduled, taken
<1> QED
  BY <1>3, <1>4, Zenon DEF Taken, taken

(* No transaction is twice in the list that RemoveTransaction looks at.    *)
LEMMA RecentDistinct ==
  ASSUME TypeOK, LockInv, ListInv, NEW t \in Txns, pc[t] \notin Over, NEW store \in BOOLEAN
  PROVE  \A i, j \in 1..Len(Recent(t, store)) :
            i < j => Recent(t, store)[i] # Recent(t, store)[j]
<1> DEFINE list == recently_committed_transactions
<1>1. /\ list \in Seq(Txns) /\ Len(list) \in Nat
      /\ \A i \in 1..Len(list) : list[i] \in Txns /\ commit_id[list[i]] \in Nat
  <2>1. list \in Seq(Txns)
    BY Zenon DEF TypeOK, ListTypes
  <2>2. \A u \in Txns : commit_id[u] \in Nat
    BY DEF TypeOK, TimeTypes, Timestamps
  <2> HIDE DEF list
  <2> QED
    BY <2>1, <2>2
<1>2. ASSUME NEW i \in 1..Len(list), NEW j \in 1..Len(list), i < j PROVE list[i] # list[j]
  <2>1. commit_id[list[i]] < commit_id[list[j]]
    BY <1>2, Zenon DEF ListInv, RecentlyCommittedOrdered
  <2>2. commit_id[list[i]] \in Nat /\ commit_id[list[j]] \in Nat
    BY <1>1, Zenon
  <2>3. commit_id[list[i]] # commit_id[list[j]]
    <3> DEFINE c == commit_id[list[i]]
               d == commit_id[list[j]]
    <3> HIDE DEF c, d
    <3>1. c \in Nat /\ d \in Nat /\ c < d
      BY <2>1, <2>2, Zenon DEF c, d
    <3>2. c # d
      BY <3>1
    <3> QED
      BY <3>2, Zenon DEF c, d
  <2> QED
    BY <2>3, Zenon
<1>3. \A i \in 1..Len(list) : list[i] # t
  <2>1. t \notin Kept
    BY Zenon DEF LockInv
  <2> QED
    BY <2>1, Zenon DEF Kept, Elements
<1>4. CASE Recent(t, store) = list
  BY <1>2, <1>4, Zenon
<1>5. CASE Recent(t, store) = Append(list, t)
  <2> DEFINE recent == Recent(t, store)
  <2> HIDE DEF list, recent
  <2>1. /\ Len(recent) = Len(list) + 1 /\ recent[Len(list) + 1] = t
        /\ \A i \in 1..Len(list) : recent[i] = list[i]
    BY <1>1, <1>5 DEF recent
  <2>2. \A i, j \in 1..Len(recent) : i < j =>
          i \in 1..Len(list) /\ (j \in 1..Len(list) \/ j = Len(list) + 1)
    BY <1>1, <2>1
  <2> QED
    BY <1>2, <1>3, <2>1, <2>2, Zenon DEF recent
<1> QED
  BY <1>4, <1>5, Zenon DEF Recent

(* RemoveTransaction at the end of a commit or rollback of t.              *)
LEMMA RemoveReaders ==
  ASSUME TypeOK, LockInv, ListInv, ReaderInv, NEW t \in Txns, NEW store \in BOOLEAN,
         RemoveTransaction(t, store), pc[t] \notin Over, pc' = [pc EXCEPT ![t] = "cleanup"],
         UNCHANGED <<commit_id, queries, top_cleanup_info>>
  PROVE  ReaderInv'
<1> DEFINE recent == Recent(t, store)
           others == active_transactions \ {t}
<1>1. PICK lowest \in Nat, n \in 0..Len(recent) : Removed(t, store, lowest, n)
  BY RemoveParts, Zenon
<1> DEFINE moved == SubSeq(recent, 1, n)
           become == BecomeOld(t, store, n)
           old == Old(t, store, n)
<1>n. n \in Nat
  BY LocalTypes
<1>2. PICK k \in 0..Len(old) : Taken(t, store, n, k)
  BY <1>1, <1>n, RemoveTaken, Zenon
<1>3. /\ QueriesRecorded /\ WatchedOver /\ WatchersBelow /\ RecentNotOld /\ OldMarked
      /\ NoReaderOfFreedMemory
  BY ReaderInvParts, Zenon
<1>4. /\ recent \in Seq(Txns) /\ moved \in Seq(Txns) /\ Aborted(t, store) \in Seq(Txns)
      /\ Direct(t, store) \in Seq(Txns) /\ old_transactions \in Seq(Txns)
  <2>1. old_transactions \in Seq(Txns)
    BY Zenon DEF TypeOK, ListTypes
  <2> QED
    BY <2>1, LocalTypes, Zenon
<1>5. /\ active_transactions' = others
      /\ recently_committed_transactions' = SubSeq(recent, n + 1, Len(recent))
      /\ awaiting_cleanup' = [u \in Txns |-> \/ awaiting_cleanup[u]
                                             \/ u \in Elements(moved \o Direct(t, store))]
  BY <1>1, Zenon DEF Removed
<1>6. /\ old_transactions' = SubSeq(old, k + 1, Len(old))
      /\ highest_active_query' = [u \in Txns |-> IF u \in become THEN current_query_number
                                                 ELSE highest_active_query[u]]
      /\ watchers' = [u \in Txns |-> IF u \in become THEN Reading(others)
                                     ELSE watchers[u] \ {t}]
  BY <1>2, Zenon DEF Taken
<1>c. \A a, b \in Seq(Txns) : Elements(a \o b) = Elements(a) \cup Elements(b)
  BY ElementsConcat, Zenon
<1>7. /\ Elements(moved \o Direct(t, store)) = Elements(moved) \cup Elements(Direct(t, store))
      /\ become = Elements(Aborted(t, store)) \cup Elements(moved)
      /\ old \in Seq(Txns)
      /\ Elements(old) = Elements(old_transactions) \cup become
  <2> HIDE DEF moved
  <2>1. Elements(moved \o Direct(t, store)) = Elements(moved) \cup Elements(Direct(t, store))
    BY <1>4, <1>c, Zenon
  <2>2. become = Elements(Aborted(t, store)) \cup Elements(moved)
    BY <1>4, <1>c, Zenon DEF BecomeOld, moved
  <2>3. old_transactions \o Aborted(t, store) \in Seq(Txns)
    BY <1>4
  <2>4. old = (old_transactions \o Aborted(t, store)) \o moved
    BY Zenon DEF Old, moved
  <2>5. old \in Seq(Txns)
    BY <1>4, <2>3, <2>4
  <2>6. Elements(old) = (Elements(old_transactions) \cup Elements(Aborted(t, store)))
                           \cup Elements(moved)
    BY <1>4, <1>c, <2>3, <2>4, Zenon
  <2> QED
    BY <2>1, <2>2, <2>5, <2>6, Zenon
<1>k. t \notin Kept /\ ~awaiting_cleanup[t] /\ watchers[t] = {}
  BY <1>3, Zenon DEF LockInv, ListInv, WatchedOver
<1>8. \A u \in Elements(recent) : /\ u \in Txns /\ commit_id[u] # 0 /\ ~awaiting_cleanup[u]
                                  /\ u \in Kept \cup {t}
                                  /\ u = t => store
  <2>1. CASE recent = recently_committed_transactions
    BY <2>1, <1>3, <1>4, <1>k, ElementsType, Zenon DEF RecentNotOld, Kept
  <2>2. CASE recent = Append(recently_committed_transactions, t) /\ store /\ commit_id[t] # 0
    <3>1. Elements(recent) \subseteq Elements(recently_committed_transactions) \cup {t}
      <4>1. recently_committed_transactions \in Seq(Txns)
        BY Zenon DEF TypeOK, ListTypes
      <4> QED
        BY <4>1, <2>2, ElementsAppend, Zenon
    <3>2. Elements(recent) \subseteq Txns
      BY <1>4, ElementsType, Zenon
    <3> QED
      BY <2>2, <3>1, <3>2, <1>3, <1>k, Zenon DEF RecentNotOld, Kept
  <2> QED
    BY <2>1, <2>2, Zenon DEF Recent
<1>9. Elements(moved) \subseteq Elements(recent)
  <2> HIDE DEF recent
  <2> QED
    BY <1>4, ElementsSubSeq
<1>10. /\ \A u \in Elements(Aborted(t, store)) : u = t /\ store /\ commit_id[t] = 0
       /\ \A u \in Elements(Direct(t, store)) : u = t /\ ~store
  BY DEF Aborted, Direct, Elements
<1>11. \A u \in become : /\ u \in Txns /\ (u = t => store) /\ u \in Kept \cup {t}
                         /\ u \notin Scheduled
  <2>1. ASSUME NEW u \in become
        PROVE  u \in Txns /\ (u = t => store) /\ u \in Kept \cup {t} /\ u \notin Scheduled
    <3>1. CASE u \in Elements(Aborted(t, store))
      BY <3>1, <1>10, <1>k, Zenon DEF Kept
    <3>2. CASE u \in Elements(moved)
      BY <3>2, <1>3, <1>8, <1>9, Zenon DEF OldMarked
    <3> HIDE DEF moved, become
    <3> QED
      BY <2>1, <3>1, <3>2, <1>7, Zenon
  <2> QED
    BY <2>1, Zenon
<1> HIDE DEF become, old, moved
<1>12. /\ pc'[t] = "cleanup" /\ \A u \in Txns \ {t} : pc'[u] = pc[u]
  BY Zenon DEF TypeOK, ThreadTypes
<1>13. \A u \in Txns : /\ awaiting_cleanup'[u] <=> \/ awaiting_cleanup[u]
                                                   \/ u \in Elements(moved)
                                                   \/ u \in Elements(Direct(t, store))
  BY <1>5, <1>7, Zenon
<1>14. QueriesRecorded'
  BY <1>3, Zenon DEF QueriesRecorded, queries
<1>15. WatchedOver'
  <2> SUFFICES ASSUME NEW u \in Txns, watchers'[u] # {} PROVE pc'[u] \in Over
    BY Zenon DEF WatchedOver
  <2>1. u \in become \/ watchers[u] # {}
    BY <1>6, Zenon
  <2>2. u = t \/ pc[u] \in Over
    BY <1>3, <1>11, <2>1, Zenon DEF WatchedOver, LockInv
  <2> QED
    BY <1>12, <2>2, Zenon DEF Over
<1>16. WatchersBelow'
  <2> SUFFICES ASSUME NEW u \in Txns, NEW a \in watchers'[u]
               PROVE  a \in Reading(others) /\ active_query[a] < highest_active_query'[u]
    BY <1>5, Zenon DEF WatchersBelow, Reading, queries
  <2>1. CASE u \in become
    <3>1. a \in Reading(others) /\ highest_active_query'[u] = current_query_number
      BY <1>6, <2>1, Zenon
    <3>2. a \in Txns /\ active_query[a] # MAXIMUM_QUERY_ID
      BY <3>1, Zenon DEF Reading, TypeOK, ListTypes
    <3> QED
      BY <1>3, <3>1, <3>2, Zenon DEF QueriesRecorded
  <2>2. CASE u \notin become
    <3>1. a \in watchers[u] /\ a # t /\ highest_active_query'[u] = highest_active_query[u]
      BY <1>6, <2>2, Zenon
    <3> QED
      BY <1>3, <3>1, Zenon DEF WatchersBelow, Reading
  <2> QED
    BY <2>1, <2>2, Zenon
<1>17. RecentNotOld'
  <2> SUFFICES ASSUME NEW u \in Elements(SubSeq(recent, n + 1, Len(recent)))
               PROVE  commit_id[u] # 0 /\ ~awaiting_cleanup'[u]
    BY <1>5, Zenon DEF RecentNotOld
  <2>1. u \in Elements(recent)
    <3> HIDE DEF recent
    <3> QED
      BY <1>4, ElementsSuffix, Zenon
  <2>2. u \notin Elements(moved)
    <3> SUFFICES ASSUME u \in Elements(moved) PROVE FALSE
      BY Zenon
    <3>d. \A i, j \in 1..Len(recent) : i < j => recent[i] # recent[j]
      BY RecentDistinct, Zenon
    <3> HIDE DEF recent
    <3>1. PICK i \in 1..Len(SubSeq(recent, n + 1, Len(recent))) :
             u = SubSeq(recent, n + 1, Len(recent))[i]
      BY Zenon DEF Elements
    <3>2. n + i \in 1..Len(recent) /\ u = recent[n + i]
      BY <1>4, <3>1, SuffixFacts, Zenon
    <3>3. Len(moved) = n /\ \A j \in 1..n : moved[j] = recent[j]
      BY <1>4, PrefixFacts, Zenon DEF moved
    <3>4. PICK j \in 1..n : u = recent[j]
      BY <3>3, Zenon DEF Elements
    <3>5. Len(SubSeq(recent, n + 1, Len(recent))) \in Nat
      <4>1. SubSeq(recent, n + 1, Len(recent)) \in Seq(Txns)
        BY LocalTypes, Zenon DEF recent
      <4> QED
        BY <4>1, LenNat, Zenon
    <3>6. j < n + i /\ j \in 1..Len(recent)
      BY <3>1, <3>2, <3>4, <3>5, <1>n
    <3> QED
      BY <3>d, <3>2, <3>4, <3>6, Zenon
  <2>3. u \notin Elements(Direct(t, store))
    BY <2>1, <1>8, <1>10, Zenon
  <2> QED
    BY <2>1, <2>2, <2>3, <1>8, <1>13, Zenon
<1>18. \A u \in Elements(old) \cup Elements(Direct(t, store)) :
          commit_id[u] = 0 \/ awaiting_cleanup'[u]
  <2>1. Elements(old_transactions) \subseteq Txns
    BY <1>4, ElementsType, Zenon
  <2>2. \A u \in Elements(old_transactions) : commit_id[u] = 0 \/ awaiting_cleanup'[u]
    BY <2>1, <1>3, <1>13, Zenon DEF OldMarked
  <2>3. \A u \in become : commit_id[u] = 0 \/ awaiting_cleanup'[u]
    BY <1>7, <1>10, <1>11, <1>13, Zenon
  <2>4. \A u \in Elements(Direct(t, store)) : awaiting_cleanup'[u]
    BY <1>10, <1>13, Zenon
  <2> QED
    BY <2>2, <2>3, <2>4, <1>7, Zenon
<1>19. Scheduled' \subseteq Scheduled \cup Elements(Direct(t, store))
                              \cup Elements(SubSeq(old, 1, k))
  BY <1>2, TakenScheduled, Zenon DEF old
<1>20. /\ Elements(SubSeq(old, 1, k)) \subseteq Elements(old)
       /\ Elements(old_transactions') \subseteq Elements(old)
  <2>1. Elements(SubSeq(old, 1, k)) \subseteq Elements(old)
    BY <1>7, ElementsSubSeq
  <2>2. Elements(SubSeq(old, k + 1, Len(old))) \subseteq Elements(old)
    BY <1>7, ElementsSuffix, Zenon
  <2> QED
    BY <2>1, <2>2, <1>6, Zenon
<1>s. Scheduled \subseteq Txns
  BY KeptType, Zenon DEF Kept
<1>21. OldMarked'
  <2> SUFFICES ASSUME NEW u \in Elements(old_transactions') \cup Scheduled'
               PROVE  commit_id[u] = 0 \/ awaiting_cleanup'[u]
    BY Zenon DEF OldMarked
  <2>1. CASE u \in Elements(old) \cup Elements(Direct(t, store))
    BY <2>1, <1>18, Zenon
  <2>2. CASE u \in Scheduled
    BY <2>2, <1>s, <1>3, <1>13, Zenon DEF OldMarked
  <2> QED
    BY <2>1, <2>2, <1>19, <1>20, Zenon
<1>22. NoReaderOfFreedMemory'
  <2> SUFFICES ASSUME NEW u \in Scheduled' PROVE watchers'[u] = {}
    BY Zenon DEF NoReaderOfFreedMemory
  <2>1. CASE u \in Scheduled
    <3>1. u \notin become /\ u \in Txns /\ watchers[u] = {}
      BY <2>1, <1>3, <1>11, <1>s, Zenon DEF NoReaderOfFreedMemory
    <3> QED
      BY <3>1, <1>6, Zenon
  <2>2. CASE u \in Elements(Direct(t, store))
    <3>1. u = t /\ t \notin become
      BY <2>2, <1>10, <1>11, Zenon
    <3> QED
      BY <3>1, <1>6, <1>k, Zenon
  <2>3. CASE u \in Elements(SubSeq(old, 1, k))
    <3>1. u \in Txns
      BY <2>3, <1>7, <1>20, ElementsType, Zenon
    <3>2. others = {} \/ u \in Unread(others, highest_active_query')
      <4>1. \A i \in 1..k : others = {} \/ old[i] \in Unread(others, highest_active_query')
        BY <1>2, Zenon DEF Taken, old
      <4>2. Len(SubSeq(old, 1, k)) = k /\ \A i \in 1..k : SubSeq(old, 1, k)[i] = old[i]
        BY <1>7, PrefixFacts, Zenon
      <4> QED
        BY <4>1, <4>2, <2>3, Zenon DEF Elements
    <3> SUFFICES ASSUME NEW a \in watchers'[u] PROVE FALSE
      BY Zenon
    <3>4. a \in others /\ active_query[a] < highest_active_query'[u]
      BY <1>5, <1>16, <3>1, Zenon DEF WatchersBelow, Reading, queries
    <3>5. highest_active_query'[u] < active_query[a]
      BY <3>2, <3>4, Zenon DEF Unread
    <3>6. highest_active_query'[u] \in Nat /\ active_query[a] \in Nat
      <4>1. highest_active_query' \in [Txns -> Nat]
        BY RemoveType, Zenon
      <4>2. a \in Txns
        BY <3>4, Zenon DEF TypeOK, ListTypes
      <4> QED
        BY <3>1, <4>1, <4>2, Zenon DEF TypeOK, QueryTypes
    <3> DEFINE h == highest_active_query'[u]
               q == active_query[a]
    <3> HIDE DEF h, q
    <3>7. h \in Nat /\ q \in Nat /\ q < h /\ h < q
      BY <3>4, <3>5, <3>6, Zenon DEF h, q
    <3> QED
      BY <3>7
  <2> QED
    BY <2>1, <2>2, <2>3, <1>19, Zenon
<1> QED
  BY <1>14, <1>15, <1>16, <1>17, <1>21, <1>22, ReaderInvNext, Zenon

(* A step after which nothing new is scheduled, read or watched.           *)
LEMMA ReaderFrame ==
  ASSUME TypeOK, ReaderInv,
         UNCHANGED <<queries, highest_active_query, awaiting_cleanup,
                     recently_committed_transactions, old_transactions>>,
         active_transactions \subseteq active_transactions',
         \A u \in Txns : /\ watchers'[u] \subseteq watchers[u]
                         /\ pc[u] \in Over => pc'[u] \in Over,
         \A u \in Kept : commit_id'[u] = commit_id[u],
         Scheduled' \subseteq Scheduled
  PROVE  ReaderInv'
<1>1. /\ QueriesRecorded /\ WatchedOver /\ WatchersBelow /\ RecentNotOld /\ OldMarked
      /\ NoReaderOfFreedMemory
  BY ReaderInvParts, Zenon
<1>2. QueriesRecorded'
  BY <1>1, Zenon DEF QueriesRecorded, queries
<1>3. WatchedOver'
  <2> SUFFICES ASSUME NEW u \in Txns, watchers'[u] # {} PROVE pc'[u] \in Over
    BY Zenon DEF WatchedOver
  <2>1. watchers[u] # {}
    BY Zenon
  <2> QED
    BY <1>1, <2>1, Zenon DEF WatchedOver
<1>4. WatchersBelow'
  BY <1>1, Zenon DEF WatchersBelow, Reading, queries
<1>5. RecentNotOld'
  BY <1>1, Zenon DEF RecentNotOld, Kept
<1>6. OldMarked'
  BY <1>1, Zenon DEF OldMarked, Kept
<1>7. NoReaderOfFreedMemory'
  <2> SUFFICES ASSUME NEW u \in Scheduled' PROVE watchers'[u] = {}
    BY Zenon DEF NoReaderOfFreedMemory
  <2>1. u \in Scheduled /\ u \in Txns
    BY KeptType, Zenon DEF Kept
  <2>2. watchers[u] = {} /\ watchers'[u] \subseteq watchers[u]
    BY <1>1, <2>1, Zenon DEF NoReaderOfFreedMemory
  <2> QED
    BY <2>2, Zenon
<1> QED
  BY <1>2, <1>3, <1>4, <1>5, <1>6, <1>7, ReaderInvNext, Zenon

(* A query draws its number, is recorded, or ends.                         *)
LEMMA QueryReaders ==
  ASSUME TypeOK, ReaderInv, NEW t \in Txns, BeginQuery(t) \/ SetActiveQuery(t) \/ EndQuery(t)
  PROVE  ReaderInv'
<1>1. /\ QueriesRecorded /\ WatchedOver /\ WatchersBelow /\ RecentNotOld /\ OldMarked
      /\ NoReaderOfFreedMemory
  BY ReaderInvParts, Zenon
<1>2. UNCHANGED <<lists, stamps, pc, top_cleanup_info, awaiting_cleanup, highest_active_query>>
  BY Zenon DEF BeginQuery, SetActiveQuery, EndQuery, gc
<1>3. /\ query \in [Txns -> Nat] /\ active_query \in [Txns -> Nat]
      /\ current_query_number \in Nat /\ watchers \in [Txns -> SUBSET Txns]
  BY Zenon DEF TypeOK, QueryTypes, ListTypes
<1>4. \A u \in Txns \ {t} : query'[u] = query[u] /\ active_query'[u] = active_query[u]
  BY <1>3, Zenon DEF BeginQuery, SetActiveQuery, EndQuery
<1>5. current_query_number' \in {current_query_number, current_query_number + 1}
  BY Zenon DEF BeginQuery, SetActiveQuery, EndQuery
<1>6. \/ active_query'[t] = active_query[t] /\ query'[t] = current_query_number
            /\ current_query_number' = current_query_number + 1
            /\ active_query[t] = MAXIMUM_QUERY_ID
      \/ active_query'[t] = query[t] /\ query'[t] = query[t]
            /\ active_query[t] = MAXIMUM_QUERY_ID
      \/ active_query'[t] = MAXIMUM_QUERY_ID /\ query'[t] = MAXIMUM_QUERY_ID
            /\ watchers' = [u \in Txns |-> watchers[u] \ {t}]
  <2>1. CASE BeginQuery(t)
    BY <1>1, <1>3, <2>1, Zenon DEF BeginQuery, QueriesRecorded
  <2>2. CASE SetActiveQuery(t)
    BY <1>1, <1>3, <2>2, Zenon DEF SetActiveQuery, QueriesRecorded
  <2>3. CASE EndQuery(t)
    BY <1>3, <2>3, Zenon DEF EndQuery
  <2> QED
    BY <2>1, <2>2, <2>3, Zenon
<1>7. \/ watchers' = watchers
      \/ watchers' = [u \in Txns |-> watchers[u] \ {t}]
  BY Zenon DEF BeginQuery, SetActiveQuery, EndQuery, gc
<1>8. QueriesRecorded'
  <2> SUFFICES ASSUME NEW a \in Txns
               PROVE  /\ query'[a] # MAXIMUM_QUERY_ID => query'[a] < current_query_number'
                      /\ active_query'[a] # MAXIMUM_QUERY_ID => active_query'[a] = query'[a]
    BY Zenon DEF QueriesRecorded
  <2>1. query[a] # MAXIMUM_QUERY_ID => query[a] < current_query_number'
    BY <1>1, <1>3, <1>5 DEF QueriesRecorded
  <2>2. CASE a = t
    BY <1>3, <1>6, <2>1, <2>2
  <2>3. CASE a # t
    BY <1>1, <1>4, <2>1, <2>3, Zenon DEF QueriesRecorded
  <2> QED
    BY <2>2, <2>3, Zenon
<1>9. \A u \in Txns : watchers'[u] \subseteq watchers[u]
  BY <1>3, <1>7, Zenon
<1>10. WatchersBelow'
  <2> SUFFICES ASSUME NEW u \in Txns, NEW a \in watchers'[u]
               PROVE  /\ a \in active_transactions /\ active_query'[a] # MAXIMUM_QUERY_ID
                      /\ active_query'[a] < highest_active_query[u]
    BY <1>2, Zenon DEF WatchersBelow, Reading, lists
  <2>1. /\ a \in active_transactions /\ active_query[a] # MAXIMUM_QUERY_ID
        /\ active_query[a] < highest_active_query[u] /\ a \in Txns
    BY <1>1, <1>3, <1>9, Zenon DEF WatchersBelow, Reading
  <2>2. a # t
    BY <1>6, <2>1, Zenon
  <2> QED
    BY <1>4, <2>1, <2>2, Zenon
<1>11. Scheduled' = Scheduled
  BY <1>2, Zenon DEF Scheduled, lists
<1>12. Scheduled \subseteq Txns
  BY KeptType, Zenon DEF Kept
<1>13. WatchedOver' /\ NoReaderOfFreedMemory'
  <2>1. \A u \in Txns : watchers[u] = {} => watchers'[u] = {}
    BY <1>9, Zenon
  <2> QED
    BY <1>1, <1>2, <1>11, <1>12, <2>1, Zenon DEF WatchedOver, NoReaderOfFreedMemory
<1>14. RecentNotOld' /\ OldMarked'
  BY <1>1, <1>2, <1>11, Zenon DEF RecentNotOld, OldMarked, lists, stamps
<1> QED
  BY <1>8, <1>10, <1>13, <1>14, ReaderInvNext, Zenon

(* A thread takes the front of the queue, or is done with what it took.    *)
LEMMA CleanupScheduled ==
  ASSUME TypeOK, NEW t \in Txns, PopCleanup(t) \/ Cleanup(t)
  PROVE  Scheduled' \subseteq Scheduled
<1>1. /\ cleanup_queue \in Seq(Infos) /\ top_cleanup_info \in [Txns -> Infos]
  BY Zenon DEF TypeOK, ListTypes
<1>2. CASE UNCHANGED <<cleanup_queue, top_cleanup_info>>
  BY <1>2, Zenon DEF Scheduled
<1>3. CASE PopCleanup(t) /\ cleanup_queue # <<>>
  <2>1. /\ Len(cleanup_queue) > 0
        /\ top_cleanup_info' = [top_cleanup_info EXCEPT ![t] = Head(cleanup_queue)]
        /\ cleanup_queue' = Tail(cleanup_queue)
    BY <1>1, <1>3 DEF PopCleanup
  <2>2. \A i \in 1..Len(cleanup_queue') :
          i + 1 \in 1..Len(cleanup_queue) /\ cleanup_queue'[i] = cleanup_queue[i + 1]
    BY <1>1, <2>1
  <2>3. 1 \in 1..Len(cleanup_queue) /\ Head(cleanup_queue) = cleanup_queue[1]
    BY <1>1, <2>1
  <2>4. \A u \in Txns : \/ top_cleanup_info'[u] = top_cleanup_info[u]
                        \/ top_cleanup_info'[u] = cleanup_queue[1]
    BY <1>1, <2>1, <2>3, Zenon
  <2> QED
    BY <2>2, <2>3, <2>4, Zenon DEF Scheduled
<1>4. CASE Cleanup(t)
  <2>1. /\ top_cleanup_info' = [top_cleanup_info EXCEPT ![t] = NoInfo]
        /\ UNCHANGED cleanup_queue
    BY <1>4, Zenon DEF Cleanup, lists
  <2>2. Elements(NoInfo.transactions) = {}
    BY DEF NoInfo, Elements
  <2>3. \A u \in Txns : top_cleanup_info'[u] = top_cleanup_info[u] \/ top_cleanup_info'[u] = NoInfo
    BY <1>1, <2>1, Zenon
  <2> QED
    BY <2>1, <2>2, <2>3, Zenon DEF Scheduled
<1> QED
  BY <1>2, <1>3, <1>4, Zenon DEF PopCleanup

(* Every step keeps what is read from being freed.                         *)
LEMMA ReaderStep ==
  TypeOK /\ LockInv /\ ListInv /\ ReaderInv /\ [Next]_vars => ReaderInv'
<1> SUFFICES ASSUME TypeOK, LockInv, ListInv, ReaderInv, [Next]_vars PROVE ReaderInv'
  BY Zenon
<1>t. /\ pc \in [Txns -> {"idle", "running", "wal", "relock", "commit", "remove",
                          "cleanup", "cleaning", "checkpoint", "done"}]
      /\ watchers \in [Txns -> SUBSET Txns] /\ commit_id \in [Txns -> Nat]
  BY DEF TypeOK, ThreadTypes, ListTypes, TimeTypes, Timestamps
<1>frame. ASSUME UNCHANGED <<queries, highest_active_query, awaiting_cleanup,
                             recently_committed_transactions, old_transactions>>,
                 active_transactions \subseteq active_transactions',
                 \A u \in Txns : /\ watchers'[u] \subseteq watchers[u]
                                 /\ pc[u] \in Over => pc'[u] \in Over,
                 \A u \in Kept : commit_id'[u] = commit_id[u],
                 Scheduled' \subseteq Scheduled
          PROVE  ReaderInv'
  BY <1>frame, ReaderFrame, Zenon
<1>same. ASSUME UNCHANGED <<cleanup_queue, top_cleanup_info>> PROVE Scheduled' = Scheduled
  BY <1>same, Zenon DEF Scheduled
<1>1. ASSUME NEW t \in Txns, BeginQuery(t) \/ SetActiveQuery(t) \/ EndQuery(t)
      PROVE  ReaderInv'
  BY <1>1, QueryReaders, Zenon
<1>2. ASSUME NEW t \in Txns, StartTransaction(t) PROVE ReaderInv'
  <2>1. /\ pc[t] = "idle" /\ pc' = [pc EXCEPT ![t] = "running"]
        /\ active_transactions' = active_transactions \cup {t}
        /\ UNCHANGED <<queries, gc, recently_committed_transactions, old_transactions,
                       cleanup_queue, commit_id, top_cleanup_info>>
    BY <1>2, Zenon DEF StartTransaction, Goto
  <2>2. \A u \in Txns : pc[u] \in Over => pc'[u] \in Over
    BY <2>1, <1>t, Zenon DEF Over
  <2> QED
    BY <2>1, <2>2, <1>same, <1>frame, Zenon DEF gc
<1>3. ASSUME NEW t \in Txns, SetReadWrite(t) \/ \E kind \in Kinds : Write(t, kind)
      PROVE  ReaderInv'
  <2>1. UNCHANGED <<queries, gc, lists, commit_id, top_cleanup_info, pc>>
    BY <1>3, Zenon DEF SetReadWrite, Write, stamps
  <2> QED
    BY <2>1, <1>same, <1>frame, Zenon DEF gc, lists
<1>4. ASSUME NEW t \in Txns, CommitTransaction(t) PROVE ReaderInv'
  <2>1. /\ pc[t] = "running"
        /\ pc' = [pc EXCEPT ![t] = "wal"] \/ pc' = [pc EXCEPT ![t] = "commit"]
        /\ watchers' = [u \in Txns |-> watchers[u] \ {t}]
        /\ UNCHANGED <<queries, highest_active_query, awaiting_cleanup, lists, commit_id,
                       top_cleanup_info>>
    BY <1>4, Zenon DEF CommitTransaction, EnterCommit, Goto, stamps
  <2>2. \A u \in Txns : watchers'[u] \subseteq watchers[u] /\ (pc[u] \in Over => pc'[u] \in Over)
    BY <2>1, <1>t, Zenon DEF Over
  <2> QED
    BY <2>1, <2>2, <1>same, <1>frame, Zenon DEF lists
<1>5. ASSUME NEW t \in Txns, WriteToWAL(t) \/ Relock(t) \/ Commit(t) PROVE ReaderInv'
  <2>1. /\ pc[t] \in {"wal", "relock", "commit"}
        /\ \/ pc' = [pc EXCEPT ![t] = "relock"]
           \/ pc' = [pc EXCEPT ![t] = "commit"]
           \/ pc' = [pc EXCEPT ![t] = "remove"]
        /\ UNCHANGED <<queries, gc, lists, top_cleanup_info>>
    BY <1>5, Zenon DEF WriteToWAL, Relock, Commit, Goto
  <2>2. \A u \in Txns \ {t} : commit_id'[u] = commit_id[u]
    BY <1>5, <1>t, Zenon DEF WriteToWAL, Relock, Commit, stamps
  <2>3. t \notin Kept
    BY <2>1, Zenon DEF LockInv, Over
  <2>4. Kept \subseteq Txns
    BY KeptType, Zenon
  <2>5. \A u \in Txns : pc[u] \in Over => pc'[u] \in Over
    BY <2>1, <1>t, Zenon DEF Over
  <2>6. \A u \in Kept : commit_id'[u] = commit_id[u]
    BY <2>2, <2>3, <2>4, Zenon
  <2> QED
    BY <2>1, <2>5, <2>6, <1>same, <1>frame, Zenon DEF gc, lists
<1>6. ASSUME NEW t \in Txns, RollbackTransaction(t) \/ RemoveCommitted(t) PROVE ReaderInv'
  <2>1. PICK store \in BOOLEAN : RemoveTransaction(t, store)
    BY <1>6, Zenon DEF RollbackTransaction, RemoveCommitted, TypeOK, FlagTypes
  <2>2. /\ pc[t] \in {"running", "remove"} /\ pc' = [pc EXCEPT ![t] = "cleanup"]
        /\ UNCHANGED <<commit_id, queries, top_cleanup_info>>
    BY <1>6, Zenon DEF RollbackTransaction, RemoveCommitted, Goto, stamps
  <2>3. pc[t] \notin Over
    BY <2>2, Zenon DEF Over
  <2> QED
    BY <2>1, <2>2, <2>3, RemoveReaders, Zenon
<1>7. ASSUME NEW t \in Txns, PopCleanup(t) \/ Cleanup(t) PROVE ReaderInv'
  <2>1. /\ \/ pc' = [pc EXCEPT ![t] = "cleaning"]
           \/ pc' = [pc EXCEPT ![t] = "done"]
           \/ pc' = [pc EXCEPT ![t] = "checkpoint"]
        /\ UNCHANGED <<queries, gc, active_transactions, recently_committed_transactions,
                       old_transactions, commit_id>>
    BY <1>7, Zenon DEF PopCleanup, Cleanup, AfterCleanup, lists, stamps
  <2>2. \A u \in Txns : pc[u] \in Over => pc'[u] \in Over
    BY <2>1, <1>t, Zenon DEF Over
  <2>3. Scheduled' \subseteq Scheduled
    BY <1>7, CleanupScheduled, Zenon
  <2> QED
    BY <2>1, <2>2, <2>3, <1>frame, Zenon DEF gc
<1>8. ASSUME NEW t \in Txns, CheckpointOnCommit(t) PROVE ReaderInv'
  <2>1. /\ pc' = [pc EXCEPT ![t] = "done"]
        /\ UNCHANGED <<queries, gc, lists, commit_id, top_cleanup_info>>
    BY <1>8, Zenon DEF CheckpointOnCommit, Goto, stamps
  <2>2. \A u \in Txns : pc[u] \in Over => pc'[u] \in Over
    BY <2>1, <1>t, Zenon DEF Over
  <2> QED
    BY <2>1, <2>2, <1>same, <1>frame, Zenon DEF gc, lists
<1>9. ASSUME CommandNext \/ UNCHANGED vars PROVE ReaderInv'
  <2>1. UNCHANGED <<queries, gc, lists, commit_id, top_cleanup_info, pc>>
    BY <1>9, Zenon DEF CommandNext, CheckpointCommand, ForceCheckpoint, ForceLock,
       ForceInterrupted, ReadLastCommit, ReadLowestActiveStart, CreateCheckpoint, CommandStep,
       vars, stamps
  <2> QED
    BY <2>1, <1>same, <1>frame, Zenon DEF gc, lists
<1> QED
  BY <1>1, <1>2, <1>3, <1>4, <1>5, <1>6, <1>7, <1>8, <1>9, SMTT(20) DEF Next, EndStep, ClientStep

(* The undo buffer of a transaction is scheduled for cleanup, which frees  *)
(* its memory, only when every query has ended that was reading when the   *)
(* transaction became old: RemoveTransaction compares its                  *)
(* highest_active_query with the lowest query that is still recorded.      *)
THEOREM FreedMemoryIsUnread == Spec => []NoReaderOfFreedMemory
<1>1. Init => ReaderInv
  <2> SUFFICES ASSUME Init PROVE ReaderInv
    BY Zenon
  <2>1. /\ Elements(recently_committed_transactions) = {} /\ Elements(old_transactions) = {}
        /\ Scheduled = {}
    BY DEF Init, Elements, Scheduled, NoInfo
  <2> QED
    BY <2>1, Zenon DEF Init, ReaderInv, NoReaderOfFreedMemory
<1>2. Init => TypeOK /\ LockInv /\ ListInv /\ ReaderInv
  BY <1>1, TypeInit, LockInit, ListInit, Zenon
<1>3. TypeOK /\ LockInv /\ ListInv /\ ReaderInv /\ [Next]_vars
         => (TypeOK /\ LockInv /\ ListInv /\ ReaderInv)'
  BY TypeStep, LockStep, ListStep, ReaderStep, Zenon
<1>4. ReaderInv => NoReaderOfFreedMemory
  BY Zenon DEF ReaderInv
<1> QED
  BY <1>2, <1>3, <1>4, PTL DEF Spec

-----------------------------------------------------------------------------
(* Sequences without duplicates                                            *)

(* Appending adds exactly one element.                                     *)
LEMMA AppendElements ==
  ASSUME NEW S, NEW s \in Seq(S), NEW x \in S
  PROVE  Elements(Append(s, x)) = Elements(s) \cup {x}
<1>1. /\ Len(Append(s, x)) = Len(s) + 1 /\ Len(s) \in Nat
      /\ \A i \in 1..Len(s) : Append(s, x)[i] = s[i]
      /\ Append(s, x)[Len(s) + 1] = x
  OBVIOUS
<1>2. /\ \A i \in 1..Len(s) : i \in 1..(Len(s) + 1)
      /\ Len(s) + 1 \in 1..(Len(s) + 1)
  BY <1>1
<1>3. Elements(s) \subseteq Elements(Append(s, x)) /\ x \in Elements(Append(s, x))
  BY <1>1, <1>2, Zenon DEF Elements
<1> QED
  BY <1>3, ElementsAppend, Zenon

(* No element is twice in a sequence.                                      *)
Distinct(s) == \A i, j \in 1..Len(s) : i # j => s[i] # s[j]

(* A sequence without duplicates, cut in two.                              *)
LEMMA SplitElements ==
  ASSUME NEW S, NEW s \in Seq(S), NEW n \in 0..Len(s), Distinct(s)
  PROVE  /\ Elements(s) = Elements(SubSeq(s, 1, n)) \cup Elements(SubSeq(s, n + 1, Len(s)))
         /\ Elements(SubSeq(s, 1, n)) \cap Elements(SubSeq(s, n + 1, Len(s))) = {}
         /\ Distinct(SubSeq(s, 1, n)) /\ Distinct(SubSeq(s, n + 1, Len(s)))
<1> DEFINE p == SubSeq(s, 1, n)
           q == SubSeq(s, n + 1, Len(s))
           l == Len(s)
<1>1. n \in Nat /\ l \in Nat /\ n <= l
  OBVIOUS
<1>2. Len(p) = n /\ \A i \in 1..n : p[i] = s[i]
  BY PrefixFacts, Zenon
<1>3. Len(q) = l - n
  BY <1>1, SubSeqFacts
<1>4. \A i \in 1..Len(q) : n + i \in 1..l /\ q[i] = s[n + i]
  BY SuffixFacts, Zenon
<1> HIDE DEF p, q, l
<1>5. /\ \A i \in 1..n : i \in 1..l
      /\ \A i \in 1..n, j \in 1..Len(q) : i # n + j
      /\ \A i, j \in 1..Len(q) : i # j => n + i # n + j
      /\ \A i \in 1..l : i \in 1..n \/ (i - n \in 1..Len(q) /\ n + (i - n) = i)
  BY <1>1, <1>3
<1>6. Elements(s) \subseteq Elements(p) \cup Elements(q)
  <2> SUFFICES ASSUME NEW i \in 1..l PROVE s[i] \in Elements(p) \cup Elements(q)
    BY Zenon DEF Elements, l
  <2>1. CASE i \in 1..n
    BY <1>2, <2>1, Zenon DEF Elements
  <2>2. CASE i - n \in 1..Len(q) /\ n + (i - n) = i
    <3>1. s[i] = q[i - n]
      BY <1>4, <2>2, Zenon
    <3> QED
      BY <2>2, <3>1, Zenon DEF Elements
  <2> QED
    BY <1>5, <2>1, <2>2, Zenon
<1>7. Elements(p) \subseteq Elements(s) /\ Elements(q) \subseteq Elements(s)
  <2>1. ASSUME NEW i \in 1..n PROVE p[i] \in Elements(s)
    BY <1>2, <1>5, Zenon DEF Elements, l
  <2>2. ASSUME NEW i \in 1..Len(q) PROVE q[i] \in Elements(s)
    BY <1>4, Zenon DEF Elements, l
  <2> QED
    BY <1>2, <2>1, <2>2, Zenon DEF Elements
<1>8. ASSUME NEW i \in 1..n, NEW j \in 1..Len(q) PROVE p[i] # q[j]
  <2>1. i \in 1..l /\ n + j \in 1..l /\ i # n + j
    BY <1>4, <1>5, Zenon
  <2>2. s[i] # s[n + j]
    BY <2>1, Zenon DEF Distinct, l
  <2> QED
    BY <1>2, <1>4, <2>2, Zenon
<1>9. Elements(p) \cap Elements(q) = {}
  BY <1>2, <1>8, Zenon DEF Elements
<1>10. Distinct(p)
  <2> SUFFICES ASSUME NEW i \in 1..n, NEW j \in 1..n, i # j PROVE p[i] # p[j]
    BY <1>2, Zenon DEF Distinct
  <2>1. i \in 1..l /\ j \in 1..l
    BY <1>5, Zenon
  <2>2. s[i] # s[j]
    BY <2>1, Zenon DEF Distinct, l
  <2> QED
    BY <1>2, <2>2, Zenon
<1>11. Distinct(q)
  <2> SUFFICES ASSUME NEW i \in 1..Len(q), NEW j \in 1..Len(q), i # j PROVE q[i] # q[j]
    BY Zenon DEF Distinct
  <2>1. n + i \in 1..l /\ n + j \in 1..l /\ n + i # n + j
    BY <1>4, <1>5, Zenon
  <2>2. s[n + i] # s[n + j]
    BY <2>1, Zenon DEF Distinct, l
  <2> QED
    BY <1>4, <2>2, Zenon
<1> QED
  BY <1>6, <1>7, <1>9, <1>10, <1>11, Zenon DEF p, q, l

(* Two sequences without duplicates or common elements, put together.      *)
LEMMA ConcatDistinct ==
  ASSUME NEW S, NEW a \in Seq(S), NEW b \in Seq(S), Distinct(a), Distinct(b),
         Elements(a) \cap Elements(b) = {}
  PROVE  Distinct(a \o b)
<1> DEFINE m == Len(a)
           k == Len(b)
           c == a \o b
<1>1. /\ m \in Nat /\ k \in Nat /\ Len(c) = m + k
      /\ \A i \in 1..(m + k) : c[i] = IF i <= m THEN a[i] ELSE b[i - m]
  OBVIOUS
<1> HIDE DEF m, k, c
<1>2. \A i \in 1..(m + k) : \/ i \in 1..m /\ c[i] = a[i]
                            \/ i - m \in 1..k /\ c[i] = b[i - m] /\ i \notin 1..m
  BY <1>1
<1>3. \A i, j \in 1..(m + k) : i # j => i - m # j - m
  BY <1>1
<1>4. ASSUME NEW i \in 1..(m + k), NEW j \in 1..(m + k), i # j PROVE c[i] # c[j]
  <2>1. CASE i \in 1..m /\ c[i] = a[i] /\ j \in 1..m /\ c[j] = a[j]
    BY <1>4, <2>1, Zenon DEF Distinct, m
  <2>2. CASE /\ i - m \in 1..k /\ c[i] = b[i - m]
             /\ j - m \in 1..k /\ c[j] = b[j - m]
    <3>1. i - m # j - m
      BY <1>3, <1>4, Zenon
    <3> QED
      BY <2>2, <3>1, Zenon DEF Distinct, k
  <2>3. \A x \in 1..m, y \in 1..k : a[x] # b[y]
    BY Zenon DEF Elements, m, k
  <2>4. CASE i \in 1..m /\ c[i] = a[i] /\ j - m \in 1..k /\ c[j] = b[j - m]
    BY <2>3, <2>4, Zenon
  <2>5. CASE j \in 1..m /\ c[j] = a[j] /\ i - m \in 1..k /\ c[i] = b[i - m]
    BY <2>3, <2>5, Zenon
  <2> QED
    BY <1>2, <2>1, <2>2, <2>4, <2>5, Zenon
<1> QED
  BY <1>1, <1>4, Zenon DEF Distinct, c

(* What RemoveTransaction hands over for cleanup.                          *)
HandsOver(t, store, n, k) ==
    /\ active_transactions \ {t} = {} => k = Len(Old(t, store, n))
    /\ old_transactions' = SubSeq(Old(t, store, n), k + 1, Len(Old(t, store, n)))
    /\ LET handed == Direct(t, store) \o SubSeq(Old(t, store, n), 1, k)
       IN  IF handed = <<>> THEN cleanup_queue' = cleanup_queue
           ELSE \E lowest : cleanup_queue' = Append(cleanup_queue,
                   [lowest_start_time |-> lowest, transactions |-> handed])

LEMMA RemoveHandsOver ==
  ASSUME NEW t \in Txns, NEW store \in BOOLEAN, NEW lowest \in Nat, NEW n \in Nat,
         Removed(t, store, lowest, n)
  PROVE  \E k \in 0..Len(Old(t, store, n)) : HandsOver(t, store, n, k)
<1> DEFINE old == Old(t, store, n)
           others == active_transactions \ {t}
           info(k) == [lowest_start_time |-> lowest,
                       transactions |-> Direct(t, store) \o SubSeq(old, 1, k)]
<1>1. ScheduleCleanup(t, lowest, Direct(t, store), old, BecomeOld(t, store, n))
  BY Zenon DEF Removed, Old, BecomeOld
<1>2. PICK k \in 0..Len(old) :
        /\ others = {} => k = Len(old)
        /\ old_transactions' = SubSeq(old, k + 1, Len(old))
        /\ cleanup_queue' = IF info(k).transactions = <<>> THEN cleanup_queue
                            ELSE Append(cleanup_queue, info(k))
  BY <1>1, Zenon DEF ScheduleCleanup
<1>3. info(k).transactions = Direct(t, store) \o SubSeq(old, 1, k)
  BY Zenon
<1>4. IF Direct(t, store) \o SubSeq(old, 1, k) = <<>> THEN cleanup_queue' = cleanup_queue
      ELSE cleanup_queue' = Append(cleanup_queue, info(k))
  BY <1>2, <1>3, Zenon
<1> QED
  BY <1>2, <1>4, Zenon DEF HandsOver

-----------------------------------------------------------------------------
(* What RemoveTransaction moves                                            *)

(* RemoveTransaction(t, store) on sets: recently is what becomes old, taken *)
(* is what is handed over.                                                 *)
Own(t, b) == IF b THEN {t} ELSE {}
Moves(t, store, recently, taken) ==
    /\ Elements(recently_committed_transactions') \cup recently
          = Elements(recently_committed_transactions) \cup Own(t, store /\ commit_id[t] # 0)
    /\ Elements(recently_committed_transactions') \cap recently = {}
    /\ Elements(old_transactions') \cup taken
          = Elements(old_transactions) \cup Own(t, store /\ commit_id[t] = 0) \cup recently
    /\ Elements(old_transactions') \cap taken = {}
    /\ Distinct(old_transactions')
    /\ \/ /\ Own(t, ~store /\ changes[t] # {}) \cup taken = {}
          /\ cleanup_queue' = cleanup_queue
       \/ \E info : /\ info.transactions # <<>>
                    /\ Elements(info.transactions)
                          = Own(t, ~store /\ changes[t] # {}) \cup taken
                    /\ cleanup_queue' = Append(cleanup_queue, info)

(* The elements of the two short lists of RemoveTransaction.               *)
LEMMA ShortLists ==
  ASSUME NEW t \in Txns, NEW store \in BOOLEAN
  PROVE  /\ Elements(Aborted(t, store)) = Own(t, store /\ commit_id[t] = 0)
         /\ Elements(Direct(t, store)) = Own(t, ~store /\ changes[t] # {})
         /\ Distinct(Aborted(t, store))
<1>1. Elements(<<t>>) = {t} /\ Elements(<<>>) = {}
  BY DEF Elements
<1>2. Distinct(<<t>>) /\ Distinct(<<>>)
  BY DEF Distinct
<1> QED
  BY <1>1, <1>2, Zenon DEF Aborted, Direct, Own

(* A sequence without elements is empty.                                   *)
LEMMA NoElements ==
  ASSUME NEW S, NEW s \in Seq(S)
  PROVE  Elements(s) = {} <=> s = <<>>
<1>1. Elements(<<>>) = {}
  BY DEF Elements
<1>2. ASSUME s # <<>> PROVE s[1] \in Elements(s)
  <2>1. 1 \in 1..Len(s)
    BY <1>2
  <2> QED
    BY <2>1, Zenon DEF Elements
<1> QED
  BY <1>1, <1>2, Zenon

(* The list with t added to it.                                            *)
LEMMA RecentElements ==
  ASSUME TypeOK, NEW t \in Txns, NEW store \in BOOLEAN
  PROVE  Elements(Recent(t, store)) = Elements(recently_committed_transactions)
                                         \cup Own(t, store /\ commit_id[t] # 0)
<1>1. recently_committed_transactions \in Seq(Txns)
  BY Zenon DEF TypeOK, ListTypes
<1> QED
  <2>1. Elements(Append(recently_committed_transactions, t))
           = Elements(recently_committed_transactions) \cup {t}
    BY <1>1, AppendElements
  <2>2. CASE store /\ commit_id[t] # 0
    BY <2>1, <2>2, Zenon DEF Recent, Own
  <2>3. CASE ~(store /\ commit_id[t] # 0)
    BY <2>3, Zenon DEF Recent, Own
  <2> QED
    BY <2>2, <2>3, Zenon

LEMMA RemoveMoves ==
  ASSUME TypeOK, LockInv, ListInv, PlaceInv, NEW t \in Txns, NEW store \in BOOLEAN,
         pc[t] \notin Over, RemoveTransaction(t, store)
  PROVE  /\ \E recently, taken : Moves(t, store, recently, taken)
         /\ active_transactions \ {t} = {} => old_transactions' = <<>>
         /\ active_transactions \ {t} = {}
               /\ (\A u \in Txns : commit_id[u] < TRANSACTION_ID_START)
            => recently_committed_transactions' = <<>>
<1> DEFINE recent == Recent(t, store)
           moved(n) == SubSeq(recent, 1, n)
           old(n) == Old(t, store, n)
           others == active_transactions \ {t}
<1>1. PICK lowest \in Nat, n \in 0..Len(recent) : Removed(t, store, lowest, n)
  BY RemoveParts, Zenon
<1>2. PICK k \in 0..Len(old(n)) : HandsOver(t, store, n, k)
  <2>1. n \in Nat
    <3>1. n \in 0..Len(recent)
      BY Zenon
    <3> HIDE DEF recent
    <3> QED
      BY <3>1
  <2> QED
    BY <1>1, <2>1, RemoveHandsOver, Zenon
<1> DEFINE taken == SubSeq(old(n), 1, k)
           handed == Direct(t, store) \o taken
<1>3. /\ recent \in Seq(Txns) /\ Aborted(t, store) \in Seq(Txns)
      /\ Direct(t, store) \in Seq(Txns) /\ moved(n) \in Seq(Txns)
      /\ old_transactions \in Seq(Txns)
  BY LocalTypes, Zenon DEF TypeOK, ListTypes
<1>4. old(n) \in Seq(Txns) /\ old_transactions \o Aborted(t, store) \in Seq(Txns)
  <2> HIDE DEF moved
  <2> QED
    BY <1>3 DEF Old, moved
<1>5. taken \in Seq(Txns)
  BY <1>4, SubSeqFacts
<1>6. Distinct(recent)
  <2>1. \A i, j \in 1..Len(recent) : i < j => recent[i] # recent[j]
    BY RecentDistinct, Zenon
  <2>2. Len(recent) \in Nat
    BY <1>3, LenNat, Zenon
  <2> HIDE DEF recent
  <2>3. \A i, j \in 1..Len(recent) : i # j => i < j \/ j < i
    BY <2>2
  <2> QED
    BY <2>1, <2>3, Zenon DEF Distinct
<1>7. recently_committed_transactions' = SubSeq(recent, n + 1, Len(recent))
  BY <1>1, Zenon DEF Removed
<1>8. /\ Elements(recent) = Elements(moved(n)) \cup Elements(recently_committed_transactions')
      /\ Elements(moved(n)) \cap Elements(recently_committed_transactions') = {}
      /\ Distinct(moved(n))
  BY <1>3, <1>6, <1>7, SplitElements, Zenon
<1>9. Elements(recent) = Elements(recently_committed_transactions)
                            \cup Own(t, store /\ commit_id[t] # 0)
  BY RecentElements, Zenon
<1>10. t \notin Kept
  BY Zenon DEF LockInv
<1>11. /\ Elements(old_transactions \o Aborted(t, store))
             = Elements(old_transactions) \cup Own(t, store /\ commit_id[t] = 0)
       /\ Distinct(old_transactions \o Aborted(t, store))
  <2>1. Elements(old_transactions) \cap Elements(Aborted(t, store)) = {}
    BY <1>10, ShortLists, Zenon DEF Kept, Own
  <2>2. Distinct(old_transactions)
    BY Zenon DEF PlaceInv, Distinct
  <2>3. Elements(old_transactions \o Aborted(t, store))
           = Elements(old_transactions) \cup Elements(Aborted(t, store))
    BY <1>3, ElementsConcat
  <2>4. Distinct(Aborted(t, store))
    BY ShortLists, Zenon
  <2>5. Distinct(old_transactions \o Aborted(t, store))
    BY <1>3, <2>1, <2>2, <2>4, ConcatDistinct, Zenon
  <2> QED
    BY <2>3, <2>5, ShortLists, Zenon
<1>12. /\ Elements(old(n)) = Elements(old_transactions)
                                \cup Own(t, store /\ commit_id[t] = 0) \cup Elements(moved(n))
       /\ Distinct(old(n))
  <2>1. (Elements(old_transactions) \cup Own(t, store /\ commit_id[t] = 0))
           \cap Elements(moved(n)) = {}
    <3>1. Elements(moved(n)) \subseteq Elements(recently_committed_transactions)
                                          \cup Own(t, store /\ commit_id[t] # 0)
      BY <1>8, <1>9, Zenon
    <3>2. Elements(recently_committed_transactions) \cap Elements(old_transactions) = {}
      BY Zenon DEF PlaceInv
    <3>3. t \notin Elements(recently_committed_transactions) \cup Elements(old_transactions)
      BY <1>10, Zenon DEF Kept
    <3> HIDE DEF moved
    <3> QED
      BY <3>1, <3>2, <3>3, Zenon DEF Own
  <2>2. old(n) = (old_transactions \o Aborted(t, store)) \o moved(n)
    BY Zenon DEF Old
  <2> DEFINE a == old_transactions \o Aborted(t, store)
             b == moved(n)
  <2>3. /\ a \in Seq(Txns) /\ b \in Seq(Txns) /\ Distinct(a) /\ Distinct(b)
        /\ Elements(a) = Elements(old_transactions) \cup Own(t, store /\ commit_id[t] = 0)
        /\ old(n) = a \o b
    BY <1>3, <1>4, <1>8, <1>11, <2>2, Zenon
  <2> HIDE DEF a
  <2> HIDE DEF b
  <2>4. Elements(a) \cap Elements(b) = {}
    BY <2>1, <2>3, Zenon DEF b
  <2>5. Elements(a \o b) = Elements(a) \cup Elements(b)
    BY <2>3, ElementsConcat
  <2>6. Distinct(a \o b)
    BY <2>3, <2>4, ConcatDistinct, Zenon
  <2> QED
    BY <2>3, <2>5, <2>6, Zenon DEF b
<1>13. /\ others = {} => k = Len(old(n))
       /\ old_transactions' = SubSeq(old(n), k + 1, Len(old(n)))
       /\ IF handed = <<>> THEN cleanup_queue' = cleanup_queue
          ELSE \E l : cleanup_queue' = Append(cleanup_queue,
                         [lowest_start_time |-> l, transactions |-> handed])
  BY <1>2, Zenon DEF HandsOver
<1>14. /\ Elements(old(n)) = Elements(taken) \cup Elements(old_transactions')
       /\ Elements(taken) \cap Elements(old_transactions') = {}
       /\ Distinct(old_transactions')
  BY <1>4, <1>12, <1>13, SplitElements, Zenon
<1>15. Elements(handed) = Own(t, ~store /\ changes[t] # {}) \cup Elements(taken)
  <2> HIDE DEF taken
  <2>1. Elements(Direct(t, store) \o taken) = Elements(Direct(t, store)) \cup Elements(taken)
    BY <1>3, <1>5, ElementsConcat
  <2>2. Elements(Direct(t, store)) = Own(t, ~store /\ changes[t] # {})
    BY ShortLists, Zenon
  <2> QED
    BY <2>1, <2>2, Zenon
<1>16. handed \in Seq(Txns)
  <2> HIDE DEF taken
  <2> QED
    BY <1>3, <1>5
<1>17. \/ Elements(handed) = {} /\ cleanup_queue' = cleanup_queue
       \/ \E info : /\ info.transactions # <<>>
                    /\ Elements(info.transactions) = Elements(handed)
                    /\ cleanup_queue' = Append(cleanup_queue, info)
  <2> HIDE DEF handed
  <2>1. CASE handed = <<>>
    BY <1>13, <1>16, <2>1, NoElements, Zenon
  <2>2. CASE handed # <<>>
    <3>1. PICK l : cleanup_queue' = Append(cleanup_queue,
                     [lowest_start_time |-> l, transactions |-> handed])
      BY <1>13, <2>2, Zenon
    <3> DEFINE info == [lowest_start_time |-> l, transactions |-> handed]
    <3>2. info.transactions = handed
      BY Zenon
    <3>3. cleanup_queue' = Append(cleanup_queue, info)
      BY <3>1, Zenon
    <3> HIDE DEF info
    <3> QED
      BY <2>2, <3>2, <3>3, Zenon
  <2> QED
    BY <2>1, <2>2, Zenon
<1>18. Moves(t, store, Elements(moved(n)), Elements(taken))
  <2> DEFINE M == Elements(moved(n))
             T == Elements(taken)
             H == Elements(handed)
  <2>1. /\ M \cap Elements(recently_committed_transactions') = {}
        /\ M \cup Elements(recently_committed_transactions')
              = Elements(recently_committed_transactions) \cup Own(t, store /\ commit_id[t] # 0)
    BY <1>8, <1>9, Zenon
  <2>2. /\ T \cap Elements(old_transactions') = {}
        /\ T \cup Elements(old_transactions')
              = Elements(old_transactions) \cup Own(t, store /\ commit_id[t] = 0) \cup M
        /\ Distinct(old_transactions')
    BY <1>12, <1>14, Zenon
  <2>3. H = Own(t, ~store /\ changes[t] # {}) \cup T
    BY <1>15, Zenon
  <2> HIDE DEF M, T, H
  <2>4. /\ Elements(recently_committed_transactions') \cup M
              = M \cup Elements(recently_committed_transactions')
        /\ Elements(recently_committed_transactions') \cap M
              = M \cap Elements(recently_committed_transactions')
        /\ Elements(old_transactions') \cup T = T \cup Elements(old_transactions')
        /\ Elements(old_transactions') \cap T = T \cap Elements(old_transactions')
    BY Zenon
  <2>5. \/ /\ Own(t, ~store /\ changes[t] # {}) \cup T = {}
           /\ cleanup_queue' = cleanup_queue
        \/ \E info : /\ info.transactions # <<>>
                     /\ Elements(info.transactions)
                           = Own(t, ~store /\ changes[t] # {}) \cup T
                     /\ cleanup_queue' = Append(cleanup_queue, info)
    BY <1>17, <2>3, Zenon DEF H
  <2>6. Moves(t, store, M, T)
    BY <2>1, <2>2, <2>4, <2>5, Zenon DEF Moves
  <2> QED
    BY <2>6, Zenon DEF M, T
<1>e. ASSUME NEW s \in Seq(Txns) PROVE SubSeq(s, Len(s) + 1, Len(s)) = <<>>
  BY <1>e
<1>19. others = {} => old_transactions' = <<>>
  BY <1>4, <1>13, <1>e, Zenon
<1>20. ASSUME others = {}, \A u \in Txns : commit_id[u] < TRANSACTION_ID_START
       PROVE  recently_committed_transactions' = <<>>
  <2>1. lowest = TRANSACTION_ID_START /\ IsPrefixLength(n, recent, Unneeded(lowest))
    BY <1>1, <1>20, Zenon DEF Removed, IsLowestStart
  <2>2. \A i \in 1..Len(recent) : recent[i] \in Unneeded(lowest)
    <3>1. \A i \in 1..Len(recent) : recent[i] \in Txns
      BY <1>3, ElementsType, Zenon DEF Elements
    <3> QED
      BY <1>20, <2>1, <3>1, Zenon DEF Unneeded
  <2>3. n = Len(recent)
    <3> DEFINE l == Len(recent)
    <3>1. n \in 0..l /\ l \in Nat
      BY <1>3, LenNat, Zenon
    <3>2. ~(n < l /\ n + 1 \in 1..l)
      BY <2>1, <2>2, Zenon DEF IsPrefixLength
    <3> HIDE DEF l
    <3>3. n = l
      BY <3>1, <3>2
    <3> QED
      BY <3>3, Zenon DEF l
  <2> QED
    BY <1>3, <1>7, <1>e, <2>3, Zenon
<1> QED
  BY <1>18, <1>19, <1>20, Zenon

-----------------------------------------------------------------------------
(* Where the objects are                                                   *)

LEMMA ScheduledParts == Scheduled = Queued \cup Popped
BY Zenon DEF Scheduled, Queued, Popped

LEMMA ScheduledPartsNext == Scheduled' = Queued' \cup Popped'
BY Zenon DEF Scheduled, Queued, Popped

(* The conjuncts of PlaceInv, named.                                       *)
Apart(r, o, q, p) == /\ r \cap o = {} /\ r \cap (q \cup p) = {} /\ o \cap (q \cup p) = {}
                     /\ q \cap p = {}
QueueApart(q) ==
    /\ \A i, j \in 1..Len(q) : i # j =>
          Elements(q[i].transactions) \cap Elements(q[j].transactions) = {}
    /\ \A i \in 1..Len(q) : q[i].transactions # <<>>
TopOwned == \A t \in Txns : /\ top_cleanup_info[t].transactions # <<>> => pc[t] = "cleaning"
                            /\ pc[t] = "cleaning" => cleanup_lock = t

LEMMA PlaceInvParts ==
  PlaceInv <=> /\ Distinct(old_transactions)
               /\ Apart(Elements(recently_committed_transactions), Elements(old_transactions),
                        Queued, Popped)
               /\ QueueApart(cleanup_queue) /\ TopOwned
BY ScheduledParts, Zenon DEF PlaceInv, Distinct, Apart, QueueApart, TopOwned

LEMMA PlaceInvNext ==
  PlaceInv' <=> /\ Distinct(old_transactions')
                /\ Apart(Elements(recently_committed_transactions'),
                         Elements(old_transactions'), Queued', Popped')
                /\ QueueApart(cleanup_queue') /\ TopOwned'
BY ScheduledPartsNext, Zenon DEF PlaceInv, Distinct, Apart, QueueApart, TopOwned

(* A cleanup at the end of the queue.                                      *)
LEMMA AppendQueue ==
  ASSUME cleanup_queue \in Seq(Infos), NEW info,
         cleanup_queue' = Append(cleanup_queue, info)
  PROVE  /\ Queued' = Queued \cup Elements(info.transactions)
         /\ /\ QueueApart(cleanup_queue) /\ info.transactions # <<>>
            /\ Elements(info.transactions) \cap Queued = {}
            => QueueApart(cleanup_queue')
<1> DEFINE l == Len(cleanup_queue)
           set(i) == Elements(cleanup_queue[i].transactions)
           new == Elements(info.transactions)
<1>1. /\ Len(cleanup_queue') = l + 1 /\ l \in Nat
      /\ \A i \in 1..l : cleanup_queue'[i] = cleanup_queue[i]
      /\ cleanup_queue'[l + 1] = info
  OBVIOUS
<1> HIDE DEF l
<1>2. /\ l + 1 \in 1..(l + 1) /\ \A i \in 1..l : i \in 1..(l + 1)
      /\ \A i \in 1..(l + 1) : i \in 1..l \/ i = l + 1
  BY <1>1
<1>3. /\ \A i \in 1..l : Elements(cleanup_queue'[i].transactions) = set(i)
      /\ Elements(cleanup_queue'[l + 1].transactions) = new
  BY <1>1, Zenon
<1> HIDE DEF set, new
<1>4. Queued = UNION {set(i) : i \in 1..l}
  BY Zenon DEF Queued, set, l
<1>5. Queued' = UNION {Elements(cleanup_queue'[i].transactions) : i \in 1..(l + 1)}
  BY <1>1, Zenon DEF Queued
<1>6. ASSUME NEW x PROVE x \in Queued' <=> x \in Queued \/ x \in new
  <2>1. x \in Queued' <=> \E i \in 1..(l + 1) : x \in Elements(cleanup_queue'[i].transactions)
    BY <1>5, Zenon
  <2>2. x \in Queued <=> \E i \in 1..l : x \in set(i)
    BY <1>4, Zenon
  <2> QED
    BY <1>2, <1>3, <2>1, <2>2, Zenon
<1>7. ASSUME QueueApart(cleanup_queue), info.transactions # <<>>, new \cap Queued = {}
      PROVE  QueueApart(cleanup_queue')
  <2>1. /\ \A i, j \in 1..l : i # j => set(i) \cap set(j) = {}
        /\ \A i \in 1..l : cleanup_queue[i].transactions # <<>>
    BY <1>7, Zenon DEF QueueApart, set, l
  <2>2. \A i \in 1..l : set(i) \cap new = {} /\ new \cap set(i) = {}
    BY <1>4, <1>7, Zenon
  <2>3. ASSUME NEW i \in 1..(l + 1), NEW j \in 1..(l + 1), i # j
        PROVE  Elements(cleanup_queue'[i].transactions)
                  \cap Elements(cleanup_queue'[j].transactions) = {}
    <3>1. CASE i \in 1..l /\ j \in 1..l
      BY <1>3, <2>1, <2>3, <3>1, Zenon
    <3>2. CASE i \in 1..l /\ j = l + 1
      BY <1>3, <2>2, <3>2, Zenon
    <3>3. CASE i = l + 1 /\ j \in 1..l
      BY <1>3, <2>2, <3>3, Zenon
    <3> QED
      BY <1>2, <2>3, <3>1, <3>2, <3>3, Zenon
  <2>4. \A i \in 1..(l + 1) : cleanup_queue'[i].transactions # <<>>
    BY <1>1, <1>2, <1>7, <2>1, Zenon
  <2> QED
    BY <1>1, <2>3, <2>4, Zenon DEF QueueApart
<1> QED
  BY <1>6, <1>7, Zenon DEF new

(* The front of the queue is taken.                                        *)
LEMMA PopQueue ==
  ASSUME cleanup_queue \in Seq(Infos), cleanup_queue # <<>>, QueueApart(cleanup_queue),
         cleanup_queue' = Tail(cleanup_queue)
  PROVE  /\ Queued = Queued' \cup Elements(Head(cleanup_queue).transactions)
         /\ Queued' \cap Elements(Head(cleanup_queue).transactions) = {}
         /\ QueueApart(cleanup_queue')
         /\ Len(cleanup_queue) = 1 => Queued' = {}
<1> DEFINE l == Len(cleanup_queue)
           m == Len(cleanup_queue')
           set(i) == Elements(cleanup_queue[i].transactions)
           setp(i) == Elements(cleanup_queue'[i].transactions)
           head == Elements(Head(cleanup_queue).transactions)
<1>1. /\ l \in Nat /\ l > 0 /\ m = l - 1
      /\ \A i \in 1..m : cleanup_queue'[i] = cleanup_queue[i + 1]
      /\ Head(cleanup_queue) = cleanup_queue[1]
  OBVIOUS
<1> HIDE DEF l, m
<1>2. /\ m \in Nat /\ 1 \in 1..l
      /\ \A i \in 1..m : i + 1 \in 1..l /\ i + 1 # 1
      /\ \A i, j \in 1..m : i # j => i + 1 # j + 1
      /\ \A i \in 1..l : i = 1 \/ (i - 1 \in 1..m /\ (i - 1) + 1 = i)
      /\ l = 1 => 1..m = {}
  BY <1>1
<1>3. head = set(1) /\ \A i \in 1..m : setp(i) = set(i + 1)
  BY <1>1, Zenon
<1>4. /\ Queued = UNION {set(i) : i \in 1..l}
      /\ Queued' = UNION {setp(i) : i \in 1..m}
  BY Zenon DEF Queued, l, m
<1>5. /\ \A i, j \in 1..l : i # j => set(i) \cap set(j) = {}
      /\ \A i \in 1..l : cleanup_queue[i].transactions # <<>>
  BY Zenon DEF QueueApart, l
<1>6. QueueApart(cleanup_queue') <=>
         /\ \A i, j \in 1..m : i # j => setp(i) \cap setp(j) = {}
         /\ \A i \in 1..m : cleanup_queue'[i].transactions # <<>>
  BY Zenon DEF QueueApart, m
<1>7. ASSUME NEW i \in 1..m PROVE cleanup_queue'[i].transactions # <<>>
  <2>1. i + 1 \in 1..l /\ cleanup_queue'[i] = cleanup_queue[i + 1]
    BY <1>1, <1>2, Zenon
  <2> QED
    BY <1>5, <2>1, Zenon
<1> HIDE DEF set, setp, head
<1>8. ASSUME NEW x PROVE x \in Queued <=> x \in Queued' \/ x \in head
  <2>1. x \in Queued' <=> \E i \in 1..m : x \in setp(i)
    BY <1>4, Zenon
  <2>2. x \in Queued <=> \E i \in 1..l : x \in set(i)
    BY <1>4, Zenon
  <2>3. ASSUME NEW i \in 1..l, x \in set(i) PROVE x \in Queued' \/ x \in head
    <3>1. CASE i = 1
      BY <1>3, <2>3, <3>1, Zenon
    <3>2. CASE i - 1 \in 1..m /\ (i - 1) + 1 = i
      <4>1. setp(i - 1) = set(i)
        BY <1>3, <3>2, Zenon
      <4> QED
        BY <2>1, <2>3, <3>2, <4>1, Zenon
    <3> QED
      BY <1>2, <3>1, <3>2, Zenon
  <2>4. ASSUME NEW i \in 1..m, x \in setp(i) PROVE x \in Queued
    <3>1. i + 1 \in 1..l /\ setp(i) = set(i + 1)
      BY <1>2, <1>3, Zenon
    <3> QED
      BY <2>2, <2>4, <3>1, Zenon
  <2>5. x \in head => x \in Queued
    BY <1>2, <1>3, <2>2, Zenon
  <2> QED
    BY <2>1, <2>2, <2>3, <2>4, <2>5, Zenon
<1>9. \A i \in 1..m : setp(i) \cap head = {}
  <2> SUFFICES ASSUME NEW i \in 1..m PROVE setp(i) \cap head = {}
    BY Zenon
  <2>1. i + 1 \in 1..l /\ 1 \in 1..l /\ i + 1 # 1
    BY <1>2, Zenon
  <2>2. set(i + 1) \cap set(1) = {}
    BY <1>5, <2>1, Zenon
  <2> QED
    BY <1>3, <2>2, Zenon
<1>10. Queued' \cap head = {}
  BY <1>4, <1>9, Zenon
<1>11. ASSUME NEW i \in 1..m, NEW j \in 1..m, i # j PROVE setp(i) \cap setp(j) = {}
  <2>1. i + 1 \in 1..l /\ j + 1 \in 1..l /\ i + 1 # j + 1
    BY <1>2, <1>11, Zenon
  <2>2. set(i + 1) \cap set(j + 1) = {}
    BY <1>5, <2>1, Zenon
  <2> QED
    BY <1>3, <2>2, Zenon
<1>12. l = 1 => Queued' = {}
  BY <1>2, <1>4, Zenon
<1> QED
  BY <1>6, <1>7, <1>8, <1>10, <1>11, <1>12, Zenon DEF head, l

(* Only the owner of the cleanup lock has taken a cleanup.                 *)
LEMMA PoppedParts ==
  ASSUME TypeOK, TopOwned
  PROVE  /\ \A t \in Txns : pc[t] = "cleaning" =>
               Popped = Elements(top_cleanup_info[t].transactions)
         /\ cleanup_lock = Nobody => Popped = {}
<1>1. Elements(<<>>) = {}
  BY DEF Elements
<1>2. \A u \in Txns : u # cleanup_lock => Elements(top_cleanup_info[u].transactions) = {}
  BY <1>1, Zenon DEF TopOwned
<1> DEFINE top(u) == Elements(top_cleanup_info[u].transactions)
<1>3. Popped = UNION {top(u) : u \in Txns}
  BY Zenon DEF Popped
<1>4. \A u \in Txns : u # cleanup_lock => top(u) = {}
  BY <1>2, Zenon
<1> HIDE DEF top
<1>5. ASSUME NEW t \in Txns, pc[t] = "cleaning" PROVE Popped = top(t)
  <2>1. cleanup_lock = t
    BY <1>5, Zenon DEF TopOwned
  <2> QED
    BY <1>3, <1>4, <2>1, Zenon
<1>6. cleanup_lock = Nobody => Popped = {}
  <2>1. Nobody \notin Txns
    BY ConstantFacts, Zenon
  <2> QED
    BY <1>3, <1>4, <2>1, Zenon
<1> QED
  BY <1>5, <1>6, Zenon DEF top

(* A step that moves nothing and neither starts nor ends a cleanup.        *)
LEMMA PlaceFrame ==
  ASSUME PlaceInv,
         UNCHANGED <<recently_committed_transactions, old_transactions, cleanup_queue,
                     top_cleanup_info, cleanup_lock>>,
         \A u \in Txns : pc'[u] = "cleaning" <=> pc[u] = "cleaning"
  PROVE  PlaceInv' /\ Queued' = Queued /\ Popped' = Popped
<1>1. Queued' = Queued /\ Popped' = Popped
  BY Zenon DEF Queued, Popped
<1>2. TopOwned'
  BY PlaceInvParts, Zenon DEF TopOwned
<1> QED
  BY <1>1, <1>2, PlaceInvParts, PlaceInvNext, Zenon

(* The transactions that are recently committed or old.                    *)
Listed == Elements(recently_committed_transactions) \cup Elements(old_transactions)

(* RemoveTransaction at the end of a commit or rollback of t.              *)
LEMMA RemovePlaces ==
  ASSUME TypeOK, LockInv, ListInv, PlaceInv, NEW t \in Txns, NEW store \in BOOLEAN,
         pc[t] \in {"running", "remove"}, RemoveTransaction(t, store),
         pc' = [pc EXCEPT ![t] = "cleanup"], UNCHANGED <<top_cleanup_info, cleanup_lock>>
  PROVE  /\ PlaceInv'
         /\ Kept' = Kept \cup Own(t, store \/ changes[t] # {})
         /\ Listed' \subseteq Listed \cup {t}
         /\ Queued' \subseteq Queued \cup Listed \cup {t}
         /\ Popped' = Popped
<1> DEFINE R == Elements(recently_committed_transactions)
           R1 == Elements(recently_committed_transactions')
           O == Elements(old_transactions)
           O1 == Elements(old_transactions')
           C == Own(t, store /\ commit_id[t] # 0)
           A == Own(t, store /\ commit_id[t] = 0)
           D == Own(t, ~store /\ changes[t] # {})
<1>1. pc[t] \notin Over
  BY Zenon DEF Over
<1>2. PICK M, T : Moves(t, store, M, T)
  BY <1>1, RemoveMoves, Zenon
<1>3. /\ R1 \cup M = R \cup C /\ R1 \cap M = {}
      /\ O1 \cup T = O \cup A \cup M /\ O1 \cap T = {}
      /\ Distinct(old_transactions')
  BY <1>2, Zenon DEF Moves
<1>4. \/ D \cup T = {} /\ cleanup_queue' = cleanup_queue
      \/ \E info : /\ info.transactions # <<>>
                   /\ Elements(info.transactions) = D \cup T
                   /\ cleanup_queue' = Append(cleanup_queue, info)
  BY <1>2, Zenon DEF Moves
<1>5. /\ Apart(R, O, Queued, Popped) /\ QueueApart(cleanup_queue) /\ TopOwned
  BY PlaceInvParts, Zenon
<1>6. t \notin R \cup O \cup Queued \cup Popped
  BY <1>1, ScheduledParts, Zenon DEF LockInv, Kept
<1>7. /\ C \subseteq {t} /\ A \subseteq {t} /\ D \subseteq {t}
      /\ C \cap A = {} /\ C \cap D = {} /\ A \cap D = {}
      /\ C \cup A \cup D = Own(t, store \/ changes[t] # {})
  BY Zenon DEF Own
<1>8. Popped' = Popped
  BY Zenon DEF Popped
<1>9. cleanup_queue \in Seq(Infos)
  BY Zenon DEF TypeOK, ListTypes
<1>10. TopOwned'
  BY <1>5, Zenon DEF TopOwned, TypeOK, ThreadTypes
<1> HIDE DEF R, R1, O, O1, C, A, D
<1>11. (D \cup T) \cap Queued = {}
  BY <1>3, <1>5, <1>6, <1>7, ZenonT(30) DEF Apart
<1>12. Queued' = Queued \cup D \cup T /\ QueueApart(cleanup_queue')
  <2>1. CASE D \cup T = {} /\ cleanup_queue' = cleanup_queue
    <3>1. Queued' = Queued
      BY <2>1, Zenon DEF Queued
    <3> QED
      BY <1>5, <2>1, <3>1, Zenon
  <2>2. ASSUME NEW info, info.transactions # <<>>, Elements(info.transactions) = D \cup T,
               cleanup_queue' = Append(cleanup_queue, info)
        PROVE  Queued' = Queued \cup D \cup T /\ QueueApart(cleanup_queue')
    <3>1. Queued' = Queued \cup Elements(info.transactions)
      BY <1>9, <2>2, AppendQueue, Zenon
    <3>2. QueueApart(cleanup_queue')
      BY <1>5, <1>9, <1>11, <2>2, AppendQueue, Zenon
    <3> QED
      BY <2>2, <3>1, <3>2, Zenon
  <2> QED
    BY <1>4, <2>1, <2>2, Zenon
<1>13. Apart(R1, O1, Queued', Popped')
  <2> DEFINE Q1 == Queued'
             Q == Queued
             P == Popped
  <2>1. Q1 = Q \cup D \cup T
    BY <1>12, Zenon
  <2>2. Apart(R, O, Q, P) /\ t \notin R \cup O \cup Q \cup P
    BY <1>5, <1>6, Zenon
  <2> HIDE DEF Q1, Q, P
  <2>3. R1 \subseteq R \cup C /\ M \subseteq R \cup C /\ O1 \subseteq O \cup A \cup M
        /\ T \subseteq O \cup A \cup M
    BY <1>3, Zenon
  <2>4. R1 \cap O1 = {}
    BY <1>3, <1>7, <2>2, <2>3, ZenonT(30) DEF Apart
  <2>5. R1 \cap T = {}
    BY <1>3, <1>7, <2>2, <2>3, ZenonT(30) DEF Apart
  <2>6. R1 \cap Q = {} /\ R1 \cap P = {} /\ R1 \cap D = {}
    BY <1>7, <2>2, <2>3, ZenonT(30) DEF Apart
  <2>7. O1 \cap Q = {} /\ O1 \cap P = {} /\ O1 \cap D = {}
    BY <1>7, <2>2, <2>3, ZenonT(30) DEF Apart
  <2>8. T \cap P = {} /\ D \cap P = {} /\ Q \cap P = {}
    BY <1>7, <2>2, <2>3, ZenonT(30) DEF Apart
  <2>9. Apart(R1, O1, Q1, P)
    BY <1>3, <2>1, <2>4, <2>5, <2>6, <2>7, <2>8, Zenon DEF Apart
  <2> QED
    BY <1>8, <2>9, Zenon DEF Q1, P
<1>14. PlaceInv'
  BY <1>3, <1>10, <1>12, <1>13, PlaceInvNext, Zenon DEF R1, O1
<1>15. Kept' = Kept \cup Own(t, store \/ changes[t] # {})
  <2>1. Kept = R \cup O \cup (Queued \cup Popped)
    BY ScheduledParts, Zenon DEF Kept, R, O
  <2>2. Kept' = R1 \cup O1 \cup (Queued' \cup Popped')
    BY ScheduledPartsNext, Zenon DEF Kept, R1, O1
  <2> DEFINE Q == Queued
             P == Popped
             W == Own(t, store \/ changes[t] # {})
  <2>3. Kept' = R1 \cup O1 \cup ((Q \cup D \cup T) \cup P)
    BY <1>8, <1>12, <2>2, Zenon
  <2>4. Kept = R \cup O \cup (Q \cup P)
    BY <2>1, Zenon
  <2>5. C \cup A \cup D = W
    BY <1>7, Zenon
  <2> HIDE DEF Q, P, W
  <2>6. ASSUME NEW x PROVE x \in Kept' <=> x \in Kept \/ x \in W
    BY <1>3, <2>3, <2>4, <2>5, Zenon
  <2> QED
    BY <2>6, Zenon DEF W
<1>16. Listed = R \cup O /\ Listed' = R1 \cup O1
  BY Zenon DEF Listed, R, R1, O, O1
<1>17. Listed' \subseteq Listed \cup {t} /\ D \cup T \subseteq Listed \cup {t}
  BY <1>3, <1>7, <1>16, Zenon
<1>18. Queued' \subseteq Queued \cup Listed \cup {t}
  BY <1>12, <1>17, Zenon
<1> QED
  BY <1>8, <1>14, <1>15, <1>17, <1>18, Zenon

(* A thread takes the front of the queue.                                  *)
LEMMA PopPlaces ==
  ASSUME TypeOK, LockInv, PlaceInv, NEW t \in Txns, PopCleanup(t), cleanup_queue # <<>>
  PROVE  /\ PlaceInv' /\ Kept' = Kept
         /\ Queued' \subseteq Queued /\ Popped' \subseteq Queued
         /\ Len(cleanup_queue) = 1 => Queued' = {}
<1> DEFINE R == Elements(recently_committed_transactions)
           O == Elements(old_transactions)
           H == Elements(Head(cleanup_queue).transactions)
<1>1. /\ pc[t] = "cleanup" /\ cleanup_lock = Nobody /\ cleanup_lock' = t
      /\ top_cleanup_info' = [top_cleanup_info EXCEPT ![t] = Head(cleanup_queue)]
      /\ cleanup_queue' = Tail(cleanup_queue)
      /\ pc' = [pc EXCEPT ![t] = "cleaning"]
      /\ UNCHANGED <<recently_committed_transactions, old_transactions>>
  BY Zenon DEF PopCleanup, CleanupTurn
<1>2. /\ cleanup_queue \in Seq(Infos) /\ top_cleanup_info \in [Txns -> Infos]
      /\ pc \in [Txns -> {"idle", "running", "wal", "relock", "commit", "remove",
                          "cleanup", "cleaning", "checkpoint", "done"}]
  BY Zenon DEF TypeOK, ListTypes, ThreadTypes
<1>3. /\ Distinct(old_transactions) /\ Apart(R, O, Queued, Popped)
      /\ QueueApart(cleanup_queue) /\ TopOwned
  BY PlaceInvParts, Zenon
<1>4. /\ Queued = Queued' \cup H /\ Queued' \cap H = {} /\ QueueApart(cleanup_queue')
      /\ Len(cleanup_queue) = 1 => Queued' = {}
  BY <1>1, <1>2, <1>3, PopQueue, Zenon
<1>5. Popped = {}
  BY <1>1, <1>3, PoppedParts, Zenon
<1>6. TopOwned'
  <2>1. \A u \in Txns : pc[u] # "cleaning"
    BY <1>1, <1>3, ConstantFacts, Zenon DEF TopOwned
  <2>2. \A u \in Txns : u # t => /\ pc'[u] = pc[u]
                                 /\ top_cleanup_info'[u] = top_cleanup_info[u]
    BY <1>1, <1>2, Zenon
  <2>3. pc'[t] = "cleaning"
    BY <1>1, <1>2, Zenon
  <2> QED
    BY <1>1, <1>3, <2>1, <2>2, <2>3, Zenon DEF TopOwned
<1>7. Popped' = H
  <2>1. \A u \in Txns \ {t} : top_cleanup_info'[u] = top_cleanup_info[u]
    BY <1>1, <1>2, Zenon
  <2>2. top_cleanup_info'[t] = Head(cleanup_queue)
    BY <1>1, <1>2, Zenon
  <2>3. \A u \in Txns : Elements(top_cleanup_info[u].transactions) = {}
    BY <1>5, Zenon DEF Popped
  <2>4. Popped' = UNION {Elements(top_cleanup_info'[u].transactions) : u \in Txns}
    BY Zenon DEF Popped
  <2>5. /\ Elements(top_cleanup_info'[t].transactions) = H
        /\ \A u \in Txns \ {t} : Elements(top_cleanup_info'[u].transactions) = {}
    BY <2>1, <2>2, <2>3, Zenon
  <2> DEFINE top(u) == Elements(top_cleanup_info'[u].transactions)
  <2>6. Popped' = UNION {top(u) : u \in Txns} /\ top(t) = H /\ \A u \in Txns \ {t} : top(u) = {}
    BY <2>4, <2>5, Zenon
  <2> HIDE DEF top, H
  <2> QED
    BY <2>6, Zenon
<1> HIDE DEF H, R, O
<1>8. Apart(R, O, Queued', Popped')
  <2> DEFINE Q1 == Queued'
             Q == Queued
  <2>1. Q = Q1 \cup H /\ Q1 \cap H = {} /\ Apart(R, O, Q, {})
    BY <1>3, <1>4, <1>5, Zenon
  <2> HIDE DEF Q1, Q
  <2>2. Apart(R, O, Q1, H)
    BY <2>1, Zenon DEF Apart
  <2> QED
    BY <1>7, <2>2, Zenon DEF Q1
<1>9. PlaceInv'
  BY <1>1, <1>3, <1>4, <1>6, <1>8, PlaceInvNext, Zenon DEF R, O
<1>10. Kept' = Kept
  <2>1. Kept = R \cup O \cup (Queued \cup Popped)
    BY ScheduledParts, Zenon DEF Kept, R, O
  <2>2. Kept' = R \cup O \cup (Queued' \cup Popped')
    BY <1>1, ScheduledPartsNext, Zenon DEF Kept, R, O
  <2> QED
    BY <1>4, <1>5, <1>7, <2>1, <2>2, Zenon
<1>11. Queued' \subseteq Queued /\ Popped' \subseteq Queued
  BY <1>4, <1>7, Zenon
<1> QED
  BY <1>4, <1>9, <1>10, <1>11, Zenon

(* A thread destroys what it had taken.                                    *)
LEMMA CleanupPlaces ==
  ASSUME TypeOK, LockInv, PlaceInv, NEW t \in Txns, Cleanup(t)
  PROVE  /\ PlaceInv' /\ Kept = Kept' \cup Destroyed(t) /\ Kept' \cap Destroyed(t) = {}
         /\ Queued' = Queued /\ Popped' = {}
<1> DEFINE R == Elements(recently_committed_transactions)
           O == Elements(old_transactions)
<1>1. /\ pc[t] = "cleaning" /\ cleanup_lock' = Nobody
      /\ top_cleanup_info' = [top_cleanup_info EXCEPT ![t] = NoInfo]
      /\ pc' = [pc EXCEPT ![t] = IF checkpoint_decision[t] = "none" THEN "done"
                                 ELSE "checkpoint"]
      /\ UNCHANGED <<recently_committed_transactions, old_transactions, cleanup_queue>>
  BY Zenon DEF Cleanup, AfterCleanup, lists
<1>2. /\ top_cleanup_info \in [Txns -> Infos]
      /\ pc \in [Txns -> {"idle", "running", "wal", "relock", "commit", "remove",
                          "cleanup", "cleaning", "checkpoint", "done"}]
  BY Zenon DEF TypeOK, ListTypes, ThreadTypes
<1>3. /\ Distinct(old_transactions) /\ Apart(R, O, Queued, Popped)
      /\ QueueApart(cleanup_queue) /\ TopOwned
  BY PlaceInvParts, Zenon
<1>4. Queued' = Queued
  BY <1>1, Zenon DEF Queued
<1>5. Popped = Destroyed(t)
  BY <1>1, <1>3, PoppedParts, Zenon DEF Destroyed
<1>6. NoInfo.transactions = <<>> /\ Elements(<<>>) = {}
  BY DEF NoInfo, Elements
<1>7. \A u \in Txns : top_cleanup_info'[u].transactions = <<>> /\ pc'[u] # "cleaning"
  <2>1. \A u \in Txns \ {t} : top_cleanup_info'[u] = top_cleanup_info[u] /\ pc'[u] = pc[u]
    BY <1>1, <1>2, Zenon
  <2>2. top_cleanup_info'[t] = NoInfo
    BY <1>1, <1>2, Zenon
  <2>3. pc'[t] # "cleaning"
    BY <1>1, <1>2, Zenon
  <2>4. \A u \in Txns \ {t} : pc[u] # "cleaning"
    BY <1>1, <1>3, Zenon DEF TopOwned
  <2> QED
    BY <1>3, <1>6, <2>1, <2>2, <2>3, <2>4, Zenon DEF TopOwned
<1>8. TopOwned' /\ Popped' = {}
  <2>1. Popped' = UNION {Elements(top_cleanup_info'[u].transactions) : u \in Txns}
    BY Zenon DEF Popped
  <2> QED
    BY <1>6, <1>7, <2>1, Zenon DEF TopOwned
<1> HIDE DEF R, O
<1>9. Apart(R, O, Queued', Popped')
  BY <1>3, <1>4, <1>8, Zenon DEF Apart
<1>10. PlaceInv'
  BY <1>1, <1>3, <1>8, <1>9, PlaceInvNext, Zenon DEF R, O
<1>11. Kept = R \cup O \cup (Queued \cup Popped)
  BY ScheduledParts, Zenon DEF Kept, R, O
<1>12. Kept' = R \cup O \cup (Queued' \cup Popped')
  BY <1>1, ScheduledPartsNext, Zenon DEF Kept, R, O
<1>13. Kept = Kept' \cup Destroyed(t) /\ Kept' \cap Destroyed(t) = {}
  BY <1>3, <1>4, <1>5, <1>8, <1>11, <1>12, Zenon DEF Apart
<1> QED
  BY <1>4, <1>8, <1>10, <1>13, Zenon

(* Every step keeps the places of the objects apart.                       *)
LEMMA PlaceStep ==
  TypeOK /\ LockInv /\ ListInv /\ PlaceInv /\ [Next]_vars => PlaceInv'
<1> SUFFICES ASSUME TypeOK, LockInv, ListInv, PlaceInv, [Next]_vars PROVE PlaceInv'
  BY Zenon
<1>a. pc \in [Txns -> {"idle", "running", "wal", "relock", "commit", "remove",
                       "cleanup", "cleaning", "checkpoint", "done"}]
  BY Zenon DEF TypeOK, ThreadTypes
<1> DEFINE Still == /\ UNCHANGED <<recently_committed_transactions, old_transactions,
                                   cleanup_queue, top_cleanup_info, cleanup_lock>>
                    /\ \A u \in Txns : pc'[u] = "cleaning" <=> pc[u] = "cleaning"
<1>frame. ASSUME Still PROVE PlaceInv'
  BY <1>frame, PlaceFrame, Zenon
<1>1. ASSUME NEW t \in Txns,
             \/ BeginQuery(t) \/ SetActiveQuery(t) \/ EndQuery(t) \/ SetReadWrite(t)
             \/ \E kind \in Kinds : Write(t, kind)
      PROVE  Still
  BY <1>1, Zenon DEF BeginQuery, SetActiveQuery, EndQuery, SetReadWrite, Write, lists
<1>2. ASSUME NEW t \in Txns, StartTransaction(t) \/ CommitTransaction(t)
      PROVE  Still
  BY <1>2, <1>a, Zenon DEF StartTransaction, CommitTransaction, EnterCommit, Goto, lists
<1>3. ASSUME NEW t \in Txns, WriteToWAL(t) \/ Relock(t) \/ Commit(t) \/ CheckpointOnCommit(t)
      PROVE  Still
  BY <1>3, <1>a, Zenon DEF WriteToWAL, Relock, Commit, CheckpointOnCommit, Goto, lists
<1>4. ASSUME NEW t \in Txns, RollbackTransaction(t) \/ RemoveCommitted(t)
      PROVE  PlaceInv'
  <2>1. PICK store \in BOOLEAN : RemoveTransaction(t, store)
    BY <1>4, Zenon DEF RollbackTransaction, RemoveCommitted, TypeOK, FlagTypes
  <2>2. /\ pc[t] \in {"running", "remove"} /\ pc' = [pc EXCEPT ![t] = "cleanup"]
        /\ UNCHANGED <<top_cleanup_info, cleanup_lock>>
    BY <1>4, Zenon DEF RollbackTransaction, RemoveCommitted, Goto
  <2> QED
    BY <2>1, <2>2, RemovePlaces, Zenon
<1>5. ASSUME NEW t \in Txns, PopCleanup(t) PROVE PlaceInv'
  <2>1. CASE cleanup_queue = <<>>
    <3>1. /\ pc[t] = "cleanup" /\ AfterCleanup(t)
          /\ UNCHANGED <<recently_committed_transactions, old_transactions,
                         cleanup_queue, top_cleanup_info, cleanup_lock>>
      BY <1>5, <2>1, Zenon DEF PopCleanup
    <3>2. pc' = [pc EXCEPT ![t] = "done"] \/ pc' = [pc EXCEPT ![t] = "checkpoint"]
      BY <3>1, Zenon DEF AfterCleanup
    <3>3. Still
      BY <1>a, <3>1, <3>2, Zenon
    <3> QED
      BY <1>frame, <3>3, Zenon
  <2>2. CASE cleanup_queue # <<>>
    BY <1>5, <2>2, PopPlaces, Zenon
  <2> QED
    BY <2>1, <2>2, Zenon
<1>6. ASSUME NEW t \in Txns, Cleanup(t) PROVE PlaceInv'
  BY <1>6, CleanupPlaces, Zenon
<1>7. ASSUME CommandNext PROVE Still
  BY <1>7, Zenon DEF CommandNext, CheckpointCommand, ForceCheckpoint, ForceLock, lists,
     ForceInterrupted, ReadLastCommit, ReadLowestActiveStart, CreateCheckpoint, CommandStep
<1>8. ASSUME UNCHANGED vars PROVE Still
  BY <1>8, Zenon DEF vars, lists
<1> HIDE DEF Still
<1> QED
  BY <1>frame, <1>1, <1>2, <1>3, <1>4, <1>5, <1>6, <1>7, <1>8, Zenon DEF Next, EndStep, ClientStep

-----------------------------------------------------------------------------
(* Who owns the keys                                                       *)

(* The conjuncts of KeyInv, named.                                         *)
KeysKept == Kept \subseteq write_lock /\ write_lock \subseteq active_transactions \cup Kept
Reserved(t) ==
    /\ failed[t] => changes[t] # {}
    /\ pc[t] = "wal" => changes[t] # {}
    /\ checkpoint_lock = t =>
          \/ pc[t] \in {"wal", "relock", "commit"}
          \/ checkpoint_decision[t] # "none" /\ pc[t] # "done"

LEMMA KeyInvParts == KeyInv <=> KeysKept /\ \A t \in Txns : Reserved(t)
BY Zenon DEF KeyInv, KeysKept, Reserved

LEMMA KeyInvNext == KeyInv' <=> KeysKept' /\ \A t \in Txns : Reserved(t)'
BY Zenon DEF KeyInv, KeysKept, Reserved

(* A step that leaves the keys and the kept objects alone.                 *)
LEMMA KeysFrame ==
  ASSUME KeysKept, UNCHANGED <<write_lock, active_transactions>>,
         UNCHANGED <<recently_committed_transactions, old_transactions, cleanup_queue,
                     top_cleanup_info>>
  PROVE  KeysKept'
BY KeptFrame, Zenon DEF KeysKept

(* A step of t leaves the other threads alone.                             *)
LEMMA OtherReserved ==
  ASSUME NEW u \in Txns, Reserved(u), failed'[u] = failed[u], changes'[u] = changes[u],
         pc'[u] = pc[u], checkpoint_decision'[u] = checkpoint_decision[u],
         checkpoint_lock' = u => checkpoint_lock = u
  PROVE  Reserved(u)'
BY Zenon DEF Reserved

(* RemoveTransaction keeps the keys of what it keeps.                      *)
LEMMA RemoveKeys ==
  ASSUME TypeOK, LockInv, ListInv, PlaceInv, KeysKept, NEW t \in Txns, NEW store \in BOOLEAN,
         store => changes[t] # {},
         pc[t] \in {"running", "remove"}, RemoveTransaction(t, store),
         pc' = [pc EXCEPT ![t] = "cleanup"], UNCHANGED <<top_cleanup_info, cleanup_lock>>
  PROVE  KeysKept'
<1>1. Kept' = Kept \cup Own(t, changes[t] # {})
  <2>1. Kept' = Kept \cup Own(t, store \/ changes[t] # {})
    BY RemovePlaces, Zenon
  <2>2. Own(t, store \/ changes[t] # {}) = Own(t, changes[t] # {})
    BY Zenon DEF Own
  <2> QED
    BY <2>1, <2>2, Zenon
<1>2. /\ active_transactions' = active_transactions \ {t}
      /\ write_lock' = IF changes[t] # {} THEN write_lock ELSE write_lock \ {t}
  BY Zenon DEF RemoveTransaction
<1>3. /\ t \notin Kept /\ t \in active_transactions
      /\ changes[t] # {} => t \in write_lock
  <2>1. pc[t] \notin Over /\ pc[t] \in {"running"} \cup Ending
    BY Zenon DEF Over, Ending
  <2> QED
    BY <2>1, Zenon DEF LockInv
<1>4. CASE changes[t] # {}
  <2>1. Kept' = Kept \cup {t} /\ write_lock' = write_lock
    BY <1>1, <1>2, <1>4, Zenon DEF Own
  <2> QED
    BY <1>2, <1>3, <1>4, <2>1, Zenon DEF KeysKept
<1>5. CASE changes[t] = {}
  <2>1. Kept' = Kept /\ write_lock' = write_lock \ {t}
    BY <1>1, <1>2, <1>5, Zenon DEF Own
  <2> QED
    BY <1>2, <1>3, <2>1, Zenon DEF KeysKept
<1> QED
  BY <1>4, <1>5, Zenon

(* Every step leaves each key with its owner.                              *)
LEMMA KeyStep ==
  TypeOK /\ LockInv /\ ListInv /\ PlaceInv /\ KeyInv /\ [Next]_vars => KeyInv'
<1> SUFFICES ASSUME TypeOK, LockInv, ListInv, PlaceInv, KeyInv, [Next]_vars PROVE KeyInv'
  BY Zenon
<1>a. /\ pc \in [Txns -> {"idle", "running", "wal", "relock", "commit", "remove",
                          "cleanup", "cleaning", "checkpoint", "done"}]
      /\ checkpoint_decision \in [Txns -> {"none", "full", "concurrent"}]
      /\ failed \in [Txns -> BOOLEAN]
  BY Zenon DEF TypeOK, ThreadTypes, FlagTypes
<1>c. changes \in [Txns -> SUBSET AllKinds]
  BY Zenon DEF TypeOK, ListTypes
<1>b. KeysKept /\ \A u \in Txns : Reserved(u)
  BY KeyInvParts, Zenon
<1> DEFINE Lists == UNCHANGED <<recently_committed_transactions, old_transactions,
                                cleanup_queue, top_cleanup_info>>
           Keys == UNCHANGED <<write_lock, active_transactions>>
           Others(t) == \A u \in Txns \ {t} :
              /\ failed'[u] = failed[u] /\ changes'[u] = changes[u] /\ pc'[u] = pc[u]
              /\ checkpoint_decision'[u] = checkpoint_decision[u]
              /\ checkpoint_lock' = u => checkpoint_lock = u
<1>keys. ASSUME Lists, Keys PROVE KeysKept'
  BY <1>b, <1>keys, KeysFrame, Zenon
<1>one. ASSUME KeysKept', NEW t \in Txns, Others(t), Reserved(t)' PROVE KeyInv'
  <2>1. ASSUME NEW u \in Txns \ {t} PROVE Reserved(u)'
    BY <1>b, <1>one, OtherReserved, Zenon
  <2> QED
    BY <1>one, <2>1, KeyInvNext, Zenon
<1>d. \A t \in Txns : /\ checkpoint_decision[t] # "none" => pc[t] \in {"commit", "remove"} \cup Over
  BY Zenon DEF LockInv
<1>1. ASSUME NEW t \in Txns, BeginQuery(t) \/ SetActiveQuery(t) \/ EndQuery(t) PROVE KeyInv'
  <2>1. /\ Lists /\ Keys
        /\ UNCHANGED <<failed, changes, pc, checkpoint_decision, checkpoint_lock>>
    BY <1>1, Zenon DEF BeginQuery, SetActiveQuery, EndQuery, lists, locals
  <2>2. \A u \in Txns : Reserved(u)'
    BY <1>b, <2>1, Zenon DEF Reserved
  <2> QED
    BY <1>keys, <2>1, <2>2, KeyInvNext, Zenon
<1>2. ASSUME NEW t \in Txns, StartTransaction(t) PROVE KeyInv'
  <2>1. /\ Lists /\ pc[t] = "idle" /\ pc' = [pc EXCEPT ![t] = "running"]
        /\ active_transactions' = active_transactions \cup {t}
        /\ UNCHANGED <<write_lock, failed, changes, checkpoint_decision, checkpoint_lock>>
    BY <1>2, Zenon DEF StartTransaction, Goto, locals
  <2>2. KeysKept'
    BY <1>b, <2>1, KeptFrame, Zenon DEF KeysKept
  <2>3. pc[t] \notin {"commit", "remove"} \cup Over /\ pc[t] \notin {"wal", "relock", "commit"}
    BY <2>1, Zenon DEF Over
  <2>4. pc'[t] = "running"
    BY <1>a, <2>1, Zenon
  <2>5. Reserved(t)'
    BY <1>b, <1>d, <2>1, <2>3, <2>4, Zenon DEF Reserved
  <2>6. Others(t)
    BY <1>a, <2>1, Zenon
  <2> QED
    BY <1>one, <2>2, <2>5, <2>6, Zenon
<1>3. ASSUME NEW t \in Txns, SetReadWrite(t) PROVE KeyInv'
  <2>1. /\ Lists /\ pc[t] = "running" /\ write_lock' = write_lock \cup {t}
        /\ UNCHANGED <<active_transactions, failed, changes, pc, checkpoint_decision,
                       checkpoint_lock>>
    BY <1>3, Zenon DEF SetReadWrite, lists, locals
  <2>2. t \in active_transactions
    BY <2>1, Zenon DEF LockInv
  <2>3. KeysKept'
    BY <1>b, <2>1, <2>2, KeptFrame, Zenon DEF KeysKept
  <2>4. \A u \in Txns : Reserved(u)'
    BY <1>b, <2>1, Zenon DEF Reserved
  <2> QED
    BY <2>3, <2>4, KeyInvNext, Zenon
<1>4. ASSUME NEW t \in Txns, NEW kind \in Kinds, Write(t, kind) PROVE KeyInv'
  <2>1. /\ Lists /\ Keys /\ changes' = [changes EXCEPT ![t] = @ \cup {kind}]
        /\ UNCHANGED <<failed, pc, checkpoint_decision, checkpoint_lock>>
    BY <1>4, Zenon DEF Write, lists, locals
  <2>2. Others(t) /\ changes'[t] # {}
    BY <1>c, <2>1, Zenon
  <2>3. Reserved(t)'
    BY <1>b, <2>1, <2>2, Zenon DEF Reserved
  <2> QED
    BY <1>keys, <1>one, <2>1, <2>2, <2>3, Zenon
<1>5. ASSUME NEW t \in Txns, CommitTransaction(t) PROVE KeyInv'
  <2>1. PICK auto, upgraded \in BOOLEAN, decision \in {"none", "full", "concurrent"} :
          /\ pc[t] = "running"
          /\ checkpoint_decision' = [checkpoint_decision EXCEPT ![t] = decision]
          /\ checkpoint_lock' = IF upgraded THEN t ELSE checkpoint_lock
          /\ EnterCommit(t, decision)
    BY <1>5, Zenon DEF CommitTransaction
  <2>2. Lists /\ Keys /\ UNCHANGED <<changes, failed>>
    BY <1>5, Zenon DEF CommitTransaction, lists
  <2>3. \/ pc' = [pc EXCEPT ![t] = "wal"] /\ changes[t] # {}
        \/ pc' = [pc EXCEPT ![t] = "commit"]
    BY <2>1, Zenon DEF EnterCommit, Logged, Goto
  <2>4. Others(t)
    <3>1. checkpoint_lock' = t \/ checkpoint_lock' = checkpoint_lock
      BY <2>1, Zenon
    <3> QED
      BY <1>a, <2>1, <2>2, <2>3, <3>1, Zenon
  <2>5. pc'[t] \in {"wal", "commit"} /\ (pc'[t] = "wal" => changes[t] # {})
    BY <1>a, <2>3, Zenon
  <2>6. failed[t] => changes[t] # {}
    BY <1>b, Zenon DEF Reserved
  <2>7. pc'[t] \in {"wal", "relock", "commit"}
    BY <2>5, Zenon
  <2>8. Reserved(t)'
    BY <2>2, <2>5, <2>6, <2>7, Zenon DEF Reserved
  <2> QED
    BY <1>keys, <1>one, <2>2, <2>4, <2>8, Zenon
<1>6. ASSUME NEW t \in Txns, WriteToWAL(t) PROVE KeyInv'
  <2>1. /\ Lists /\ Keys /\ pc[t] = "wal" /\ pc' = [pc EXCEPT ![t] = "relock"]
        /\ UNCHANGED <<changes, checkpoint_decision, checkpoint_lock>>
    BY <1>6, Zenon DEF WriteToWAL, Goto, lists
  <2>2. PICK error \in BOOLEAN : failed' = [failed EXCEPT ![t] = error]
    BY <1>6, Zenon DEF WriteToWAL
  <2>3. Others(t)
    BY <1>a, <2>1, <2>2, Zenon
  <2>4. pc'[t] = "relock" /\ changes[t] # {}
    BY <1>a, <1>b, <2>1, Zenon DEF Reserved
  <2>5. Reserved(t)'
    BY <2>1, <2>4, Zenon DEF Reserved
  <2> QED
    BY <1>keys, <1>one, <2>1, <2>3, <2>5, Zenon
<1>7. ASSUME NEW t \in Txns, Relock(t) PROVE KeyInv'
  <2>1. /\ Lists /\ Keys /\ pc' = [pc EXCEPT ![t] = "commit"]
        /\ UNCHANGED <<changes, failed, checkpoint_decision, checkpoint_lock>>
    BY <1>7, Zenon DEF Relock, Goto, lists, locals
  <2>2. Others(t)
    BY <1>a, <2>1, Zenon
  <2>3. pc'[t] = "commit" /\ (failed[t] => changes[t] # {})
    BY <1>a, <1>b, <2>1, Zenon DEF Reserved
  <2>4. Reserved(t)'
    BY <2>1, <2>3, Zenon DEF Reserved
  <2> QED
    BY <1>keys, <1>one, <2>1, <2>2, <2>4, Zenon
<1>8. ASSUME NEW t \in Txns, Commit(t) PROVE KeyInv'
  <2>1. PICK error \in BOOLEAN :
          /\ pc' = [pc EXCEPT ![t] = "remove"]
          /\ changes[t] = {} => ~error
          /\ failed' = [failed EXCEPT ![t] = error]
          /\ checkpoint_decision' =
                 [checkpoint_decision EXCEPT ![t] = IF error THEN "none" ELSE @]
          /\ checkpoint_lock' =
                 IF checkpoint_lock = t /\ checkpoint_decision'[t] = "none" THEN Nobody
                 ELSE checkpoint_lock
    BY <1>8, Zenon DEF Commit, Goto
  <2>2. Lists /\ Keys /\ UNCHANGED changes
    BY <1>8, Zenon DEF Commit, lists
  <2>3. Others(t)
    <3>1. checkpoint_lock' = Nobody \/ checkpoint_lock' = checkpoint_lock
      BY <2>1, Zenon
    <3>2. Nobody \notin Txns
      BY ConstantFacts, Zenon
    <3> QED
      BY <1>a, <2>1, <2>2, <3>1, <3>2, Zenon
  <2>4. pc'[t] = "remove" /\ failed'[t] = error
    BY <1>a, <2>1, Zenon
  <2>5. checkpoint_lock' = t => checkpoint_decision'[t] # "none"
    BY <2>1, ConstantFacts, Zenon
  <2>6. Reserved(t)'
    BY <2>1, <2>2, <2>4, <2>5, Zenon DEF Reserved
  <2> QED
    BY <1>keys, <1>one, <2>2, <2>3, <2>6, Zenon
<1>9. ASSUME NEW t \in Txns, RollbackTransaction(t) \/ RemoveCommitted(t) PROVE KeyInv'
  <2>1. /\ pc[t] \in {"running", "remove"} /\ pc' = [pc EXCEPT ![t] = "cleanup"]
        /\ UNCHANGED <<top_cleanup_info, cleanup_lock>>
        /\ UNCHANGED <<changes, failed, checkpoint_decision, checkpoint_lock>>
    BY <1>9, Zenon DEF RollbackTransaction, RemoveCommitted, Goto, locals
  <2>2. PICK store \in BOOLEAN : RemoveTransaction(t, store) /\ (store => changes[t] # {})
    <3>1. CASE RollbackTransaction(t)
      BY <3>1, Zenon DEF RollbackTransaction
    <3>2. CASE RemoveCommitted(t)
      <4>1. failed[t] => changes[t] # {}
        BY <1>b, Zenon DEF Reserved
      <4> DEFINE store == failed[t] \/ changes[t] \cap {"index_delete", "update"} # {}
      <4>2. store \in BOOLEAN /\ (store => changes[t] # {})
        BY <1>a, <4>1, Zenon
      <4>3. RemoveTransaction(t, store)
        BY <3>2, Zenon DEF RemoveCommitted
      <4> HIDE DEF store
      <4> QED
        BY <4>2, <4>3, Zenon
    <3> QED
      BY <1>9, <3>1, <3>2, Zenon
  <2>3. KeysKept'
    BY <1>b, <2>1, <2>2, RemoveKeys, Zenon
  <2>4. Others(t)
    BY <1>a, <2>1, Zenon
  <2>5. pc'[t] = "cleanup"
    BY <1>a, <2>1, Zenon
  <2>6. pc[t] \notin {"wal", "relock", "commit"}
    BY <2>1, Zenon
  <2>7. Reserved(t)'
    BY <1>b, <2>1, <2>5, <2>6, Zenon DEF Reserved
  <2> QED
    BY <1>one, <2>3, <2>4, <2>7, Zenon
<1>10. ASSUME NEW t \in Txns, PopCleanup(t) PROVE KeyInv'
  <2>1. /\ pc[t] = "cleanup" /\ Keys
        /\ \/ pc' = [pc EXCEPT ![t] = "cleaning"]
           \/ pc' = [pc EXCEPT ![t] = "done"] /\ checkpoint_decision[t] = "none"
           \/ pc' = [pc EXCEPT ![t] = "checkpoint"] /\ checkpoint_decision[t] # "none"
        /\ UNCHANGED <<changes, failed, checkpoint_decision, checkpoint_lock>>
    BY <1>10, Zenon DEF PopCleanup, AfterCleanup, locals
  <2>2. Kept' = Kept
    <3>1. CASE cleanup_queue = <<>>
      BY <1>10, <3>1, KeptFrame, Zenon DEF PopCleanup
    <3>2. CASE cleanup_queue # <<>>
      BY <1>10, <3>2, PopPlaces, Zenon
    <3> QED
      BY <3>1, <3>2, Zenon
  <2>3. KeysKept'
    BY <1>b, <2>1, <2>2, Zenon DEF KeysKept
  <2>4. Others(t)
    BY <1>a, <2>1, Zenon
  <2>5. /\ checkpoint_lock = t => checkpoint_decision[t] # "none"
        /\ failed[t] => changes[t] # {}
    BY <1>b, <2>1, Zenon DEF Reserved
  <2>6. pc'[t] # "wal" /\ (checkpoint_decision[t] # "none" => pc'[t] # "done")
    BY <1>a, <2>1, Zenon
  <2>7. Reserved(t)'
    BY <2>1, <2>5, <2>6, Zenon DEF Reserved
  <2> QED
    BY <1>one, <2>3, <2>4, <2>7, Zenon
<1>11. ASSUME NEW t \in Txns, Cleanup(t) PROVE KeyInv'
  <2>1. /\ pc[t] = "cleaning" /\ UNCHANGED active_transactions
        /\ \/ pc' = [pc EXCEPT ![t] = "done"] /\ checkpoint_decision[t] = "none"
           \/ pc' = [pc EXCEPT ![t] = "checkpoint"] /\ checkpoint_decision[t] # "none"
        /\ write_lock' = write_lock \ Destroyed(t)
        /\ UNCHANGED <<changes, failed, checkpoint_decision, checkpoint_lock>>
    BY <1>11, Zenon DEF Cleanup, AfterCleanup, locals, lists
  <2>2. Kept = Kept' \cup Destroyed(t) /\ Kept' \cap Destroyed(t) = {}
    BY <1>11, CleanupPlaces, Zenon
  <2>3. KeysKept'
    BY <1>b, <2>1, <2>2, Zenon DEF KeysKept
  <2>4. Others(t)
    BY <1>a, <2>1, Zenon
  <2>5. /\ checkpoint_lock = t => checkpoint_decision[t] # "none"
        /\ failed[t] => changes[t] # {}
    BY <1>b, <2>1, Zenon DEF Reserved
  <2>6. pc'[t] # "wal" /\ (checkpoint_decision[t] # "none" => pc'[t] # "done")
    BY <1>a, <2>1, Zenon
  <2>7. Reserved(t)'
    BY <2>1, <2>5, <2>6, Zenon DEF Reserved
  <2> QED
    BY <1>one, <2>3, <2>4, <2>7, Zenon
<1>12. ASSUME NEW t \in Txns, CheckpointOnCommit(t) PROVE KeyInv'
  <2>1. /\ Lists /\ Keys /\ pc' = [pc EXCEPT ![t] = "done"] /\ checkpoint_lock' = Nobody
        /\ UNCHANGED <<changes, failed, checkpoint_decision>>
    BY <1>12, Zenon DEF CheckpointOnCommit, Goto, lists, locals
  <2>2. checkpoint_lock' \notin Txns
    BY <2>1, ConstantFacts, Zenon
  <2>3. Others(t)
    BY <1>a, <2>1, <2>2, Zenon
  <2>4. pc'[t] = "done" /\ (failed[t] => changes[t] # {})
    BY <1>a, <1>b, <2>1, Zenon DEF Reserved
  <2>5. Reserved(t)'
    BY <2>1, <2>2, <2>4, Zenon DEF Reserved
  <2> QED
    BY <1>keys, <1>one, <2>1, <2>3, <2>5, Zenon
<1>13. ASSUME CommandNext PROVE KeyInv'
  <2>1. /\ Lists /\ Keys /\ UNCHANGED <<changes, failed, checkpoint_decision, pc>>
        /\ checkpoint_lock' \in {checkpoint_lock, Nobody, Command}
    BY <1>13, Zenon DEF CommandNext, CheckpointCommand, ForceCheckpoint, ForceLock, lists, locals,
       ForceInterrupted, ReadLastCommit, ReadLowestActiveStart, CreateCheckpoint, CommandStep,
       TryGetExclusiveLock
  <2>2. \A u \in Txns : checkpoint_lock' = u => checkpoint_lock = u
    BY <2>1, ConstantFacts, Zenon
  <2>3. \A u \in Txns : Reserved(u)'
    BY <1>b, <2>1, <2>2, Zenon DEF Reserved
  <2> QED
    BY <1>keys, <2>1, <2>3, KeyInvNext, Zenon
<1>14. ASSUME UNCHANGED vars PROVE KeyInv'
  <2>1. /\ Lists /\ Keys
        /\ UNCHANGED <<failed, changes, pc, checkpoint_decision, checkpoint_lock>>
    BY <1>14, Zenon DEF vars, lists, locals
  <2>2. \A u \in Txns : Reserved(u)'
    BY <1>b, <2>1, Zenon DEF Reserved
  <2> QED
    BY <1>keys, <2>1, <2>2, KeyInvNext, Zenon
<1> QED
  BY <1>1, <1>2, <1>3, <1>4, <1>5, <1>6, <1>7, <1>8, <1>9, <1>10, <1>11, <1>12, <1>13, <1>14, Zenon
     DEF Next, EndStep, ClientStep

-----------------------------------------------------------------------------
(* The own cleanup of a commit that checkpoints                            *)

(* Commit ids are below the transaction ids.                               *)
StampsLow == \A u \in Txns : commit_id[u] < TRANSACTION_ID_START

(* OwnCleanupInv, for one transaction.                                     *)
Checkpoints(t) == "update" \in changes[t] /\ checkpoint_decision[t] # "none"
OwnDone(t) ==
    /\ pc[t] \in {"commit", "remove"} => active_transactions = {t}
    /\ pc[t] \in {"cleanup", "cleaning", "checkpoint"} => t \notin Listed
    /\ pc[t] \in {"cleaning", "checkpoint"} => t \notin Queued
    /\ pc[t] = "checkpoint" => t \notin Popped

LEMMA OwnCleanupInvParts == OwnCleanupInv <=> \A t \in Txns : Checkpoints(t) => OwnDone(t)
BY Zenon DEF OwnCleanupInv, Checkpoints, OwnDone, Listed

LEMMA OwnCleanupInvNext == OwnCleanupInv' <=> \A t \in Txns : Checkpoints(t)' => OwnDone(t)'
BY Zenon DEF OwnCleanupInv, Checkpoints, OwnDone, Listed

(* The owner of the exclusive key finds no other cleanup than its own.     *)
LEMMA OwnQueue ==
  ASSUME TypeOK, PlaceInv, KeyInv, NEW t \in Txns, write_lock \subseteq {t},
         cleanup_queue # <<>>
  PROVE  Len(cleanup_queue) = 1
<1> DEFINE l == Len(cleanup_queue)
           set(i) == Elements(cleanup_queue[i].transactions)
<1>1. cleanup_queue \in Seq(Infos)
  BY Zenon DEF TypeOK, ListTypes
<1>2. l \in Nat /\ l # 0
  BY <1>1
<1>3. \A i \in 1..l : cleanup_queue[i].transactions \in Seq(Txns)
  <2> SUFFICES ASSUME NEW i \in 1..l PROVE cleanup_queue[i].transactions \in Seq(Txns)
    BY Zenon
  <2>1. cleanup_queue[i] \in Infos
    BY <1>1
  <2> QED
    BY <2>1, Zenon DEF Infos
<1>4. QueueApart(cleanup_queue)
  BY PlaceInvParts, Zenon
<1>5. \A i \in 1..l : set(i) # {}
  <2> SUFFICES ASSUME NEW i \in 1..l PROVE set(i) # {}
    BY Zenon
  <2>1. cleanup_queue[i].transactions # <<>> /\ cleanup_queue[i].transactions \in Seq(Txns)
    BY <1>3, <1>4, Zenon DEF QueueApart
  <2> QED
    BY <2>1, NoElements, Zenon
<1>6. \A i \in 1..l : set(i) \subseteq {t}
  <2>1. \A i \in 1..l : set(i) \subseteq Kept
    BY ScheduledParts, Zenon DEF Kept, Queued
  <2> QED
    BY <2>1, Zenon DEF KeyInv
<1>7. \A i, j \in 1..l : i # j => set(i) \cap set(j) = {}
  BY <1>4, Zenon DEF QueueApart
<1> HIDE DEF set, l
<1>8. \A i \in 1..l : t \in set(i)
  BY <1>5, <1>6, Zenon
<1>9. \A i, j \in 1..l : i = j
  BY <1>7, <1>8, Zenon
<1>10. l >= 2 => 1 \in 1..l /\ 2 \in 1..l
  BY <1>2
<1>11. ~(l >= 2)
  BY <1>9, <1>10
<1>12. l = 1
  BY <1>2, <1>11
<1> QED
  BY <1>12, Zenon DEF l

(* Every step keeps the own cleanup of a commit in front of its checkpoint. *)
LEMMA OwnStep ==
  TypeOK /\ LockInv /\ ListInv /\ PlaceInv /\ StampsLow /\ KeyInv /\ OwnCleanupInv /\ [Next]_vars
     => OwnCleanupInv'
<1> SUFFICES ASSUME TypeOK, LockInv, ListInv, PlaceInv, StampsLow, KeyInv, OwnCleanupInv,
                    [Next]_vars
             PROVE  OwnCleanupInv'
  BY Zenon
<1>a. /\ pc \in [Txns -> {"idle", "running", "wal", "relock", "commit", "remove",
                          "cleanup", "cleaning", "checkpoint", "done"}]
      /\ checkpoint_decision \in [Txns -> {"none", "full", "concurrent"}]
  BY Zenon DEF TypeOK, ThreadTypes
<1>c. changes \in [Txns -> SUBSET AllKinds] /\ active_transactions \subseteq Txns
  BY Zenon DEF TypeOK, ListTypes
<1>b. \A u \in Txns : Checkpoints(u) => OwnDone(u)
  BY OwnCleanupInvParts, Zenon
<1>l. \A u \in Txns : /\ Checkpoints(u) => pc[u] \in {"commit", "remove"} \cup Over
                      /\ Checkpoints(u) /\ pc[u] # "done" => checkpoint_lock = u
                      /\ pc[u] \in {"commit", "remove"} => transaction_lock = u
  BY Zenon DEF LockInv, Checkpoints
<1> DEFINE Lists == UNCHANGED <<recently_committed_transactions, old_transactions,
                                cleanup_queue, top_cleanup_info>>
           Same(u) == /\ changes'[u] = changes[u] /\ pc'[u] = pc[u]
                      /\ checkpoint_decision'[u] = checkpoint_decision[u]
           Done(u) == Checkpoints(u)' => OwnDone(u)'
<1>lists. ASSUME Lists PROVE Listed' = Listed /\ Queued' = Queued /\ Popped' = Popped
  BY <1>lists, Zenon DEF Listed, Queued, Popped
<1>same. ASSUME Lists, UNCHANGED active_transactions, NEW u \in Txns, Same(u) PROVE Done(u)
  BY <1>b, <1>lists, <1>same, Zenon DEF Checkpoints, OwnDone
<1>all. ASSUME \A u \in Txns : Done(u) PROVE OwnCleanupInv'
  BY <1>all, OwnCleanupInvNext, Zenon
<1>1. ASSUME NEW t \in Txns, BeginQuery(t) \/ SetActiveQuery(t) \/ EndQuery(t) \/ SetReadWrite(t)
      PROVE  OwnCleanupInv'
  <2>1. /\ Lists /\ UNCHANGED active_transactions /\ UNCHANGED <<changes, pc, checkpoint_decision>>
    BY <1>1, Zenon DEF BeginQuery, SetActiveQuery, EndQuery, SetReadWrite, lists, locals
  <2> QED
    BY <1>all, <1>same, <2>1, Zenon
<1>2. ASSUME NEW t \in Txns, StartTransaction(t) PROVE OwnCleanupInv'
  <2>1. /\ Lists /\ pc[t] = "idle" /\ pc' = [pc EXCEPT ![t] = "running"]
        /\ transaction_lock = Nobody
        /\ UNCHANGED <<changes, checkpoint_decision>>
    BY <1>2, Zenon DEF StartTransaction, Goto, locals
  <2>2. ASSUME NEW u \in Txns \ {t} PROVE Done(u)
    <3>1. Same(u)
      BY <1>a, <2>1, Zenon
    <3>2. pc[u] \notin {"commit", "remove"}
      BY <1>l, <2>1, ConstantFacts, Zenon
    <3> QED
      BY <1>b, <1>lists, <2>1, <3>1, <3>2, Zenon DEF Checkpoints, OwnDone
  <2>3. Done(t)
    <3>1. pc[t] \notin {"commit", "remove"} \cup Over
      BY <2>1, Zenon DEF Over
    <3> QED
      BY <1>l, <2>1, <3>1, Zenon DEF Checkpoints
  <2> QED
    BY <1>all, <2>2, <2>3, Zenon
<1>3. ASSUME NEW t \in Txns, NEW kind \in Kinds, Write(t, kind) PROVE OwnCleanupInv'
  <2>1. /\ Lists /\ pc[t] = "running" /\ changes' = [changes EXCEPT ![t] = @ \cup {kind}]
        /\ UNCHANGED active_transactions /\ UNCHANGED <<pc, checkpoint_decision>>
    BY <1>3, Zenon DEF Write, lists, locals
  <2>2. ASSUME NEW u \in Txns \ {t} PROVE Done(u)
    <3>1. Same(u)
      BY <1>c, <2>1, Zenon
    <3> QED
      BY <1>same, <2>1, <3>1, Zenon
  <2>3. Done(t)
    <3>1. pc[t] \notin {"commit", "remove"} \cup Over
      BY <2>1, Zenon DEF Over
    <3>2. checkpoint_decision[t] = "none"
      BY <3>1, Zenon DEF LockInv
    <3> QED
      BY <2>1, <3>2, Zenon DEF Checkpoints
  <2> QED
    BY <1>all, <2>2, <2>3, Zenon
<1>4. ASSUME NEW t \in Txns, CommitTransaction(t) PROVE OwnCleanupInv'
  <2>1. PICK auto, upgraded \in BOOLEAN, decision \in {"none", "full", "concurrent"} :
          /\ pc[t] = "running"
          /\ CanCheckpoint(t, auto, upgraded, decision)
          /\ checkpoint_decision' = [checkpoint_decision EXCEPT ![t] = decision]
          /\ EnterCommit(t, decision)
    BY <1>4, Zenon DEF CommitTransaction
  <2>2. Lists /\ UNCHANGED active_transactions /\ UNCHANGED changes
    BY <1>4, Zenon DEF CommitTransaction, lists
  <2>3. pc' = [pc EXCEPT ![t] = "wal"] \/ pc' = [pc EXCEPT ![t] = "commit"]
    BY <2>1, Zenon DEF EnterCommit, Goto
  <2>4. ASSUME NEW u \in Txns \ {t} PROVE Done(u)
    <3>1. Same(u)
      BY <1>a, <2>1, <2>2, <2>3, Zenon
    <3> QED
      BY <1>same, <2>2, <3>1, Zenon
  <2>5. Done(t)
    <3>1. pc'[t] \in {"wal", "commit"} /\ checkpoint_decision'[t] = decision
      BY <1>a, <2>1, <2>3, Zenon
    <3>2. "update" \in changes[t] /\ decision # "none" => active_transactions \ {t} = {}
      BY <2>1, Zenon DEF CanCheckpoint
    <3>3. t \in active_transactions
      BY <2>1, Zenon DEF LockInv
    <3>4. Checkpoints(t)' => active_transactions' = {t}
      BY <2>2, <3>1, <3>2, <3>3, Zenon DEF Checkpoints
    <3>5. pc'[t] \notin {"cleanup", "cleaning", "checkpoint"} /\ pc'[t] # "checkpoint"
          /\ pc'[t] \notin {"cleaning", "checkpoint"}
      BY <3>1, Zenon
    <3> QED
      BY <3>4, <3>5, Zenon DEF OwnDone
  <2> QED
    BY <1>all, <2>4, <2>5, Zenon
<1>5. ASSUME NEW t \in Txns, WriteToWAL(t) \/ Relock(t) PROVE OwnCleanupInv'
  <2>1. /\ Lists /\ UNCHANGED active_transactions /\ UNCHANGED <<changes, checkpoint_decision>>
        /\ pc[t] \in {"wal", "relock"}
        /\ pc' = [pc EXCEPT ![t] = "relock"] \/ pc' = [pc EXCEPT ![t] = "commit"]
    BY <1>5, Zenon DEF WriteToWAL, Relock, Goto, lists, locals
  <2>2. ASSUME NEW u \in Txns \ {t} PROVE Done(u)
    <3>1. Same(u)
      BY <1>a, <2>1, Zenon
    <3> QED
      BY <1>same, <2>1, <3>1, Zenon
  <2>3. Done(t)
    <3>1. pc[t] \notin {"commit", "remove"} \cup Over
      BY <2>1, Zenon DEF Over
    <3> QED
      BY <1>l, <2>1, <3>1, Zenon DEF Checkpoints
  <2> QED
    BY <1>all, <2>2, <2>3, Zenon
<1>6. ASSUME NEW t \in Txns, Commit(t) PROVE OwnCleanupInv'
  <2>1. PICK error \in BOOLEAN :
          /\ pc[t] = "commit" /\ pc' = [pc EXCEPT ![t] = "remove"]
          /\ checkpoint_decision' =
                 [checkpoint_decision EXCEPT ![t] = IF error THEN "none" ELSE @]
    BY <1>6, Zenon DEF Commit, Goto
  <2>2. Lists /\ UNCHANGED active_transactions /\ UNCHANGED changes
    BY <1>6, Zenon DEF Commit, lists
  <2>3. ASSUME NEW u \in Txns \ {t} PROVE Done(u)
    <3>1. Same(u)
      BY <1>a, <2>1, <2>2, Zenon
    <3> QED
      BY <1>same, <2>2, <3>1, Zenon
  <2>4. Done(t)
    <3>1. pc'[t] = "remove"
      BY <1>a, <2>1, Zenon
    <3>2. checkpoint_decision'[t] # "none" => checkpoint_decision[t] # "none"
      BY <1>a, <2>1, Zenon
    <3>3. Checkpoints(t)' => active_transactions' = {t}
      BY <1>b, <2>1, <2>2, <3>2, Zenon DEF Checkpoints, OwnDone
    <3>4. pc'[t] \notin {"cleanup", "cleaning", "checkpoint"} /\ pc'[t] # "checkpoint"
          /\ pc'[t] \notin {"cleaning", "checkpoint"}
      BY <3>1, Zenon
    <3> QED
      BY <3>3, <3>4, Zenon DEF OwnDone
  <2> QED
    BY <1>all, <2>3, <2>4, Zenon
<1>7. ASSUME NEW t \in Txns, RollbackTransaction(t) \/ RemoveCommitted(t) PROVE OwnCleanupInv'
  <2>1. PICK store \in BOOLEAN : RemoveTransaction(t, store)
    BY <1>7, Zenon DEF RollbackTransaction, RemoveCommitted, TypeOK, FlagTypes
  <2>2. /\ pc[t] \in {"running", "remove"} /\ pc' = [pc EXCEPT ![t] = "cleanup"]
        /\ pc[t] = "running" => transaction_lock = Nobody
        /\ UNCHANGED <<top_cleanup_info, cleanup_lock>>
        /\ UNCHANGED <<changes, checkpoint_decision>>
    <3>1. CASE RollbackTransaction(t)
      BY <3>1, Zenon DEF RollbackTransaction, Goto, locals
    <3>2. CASE RemoveCommitted(t)
      BY <3>2, Zenon DEF RemoveCommitted, Goto, locals
    <3> QED
      BY <1>7, <3>1, <3>2, Zenon
  <2>3. /\ Listed' \subseteq Listed \cup {t}
        /\ Queued' \subseteq Queued \cup Listed \cup {t} /\ Popped' = Popped
    BY <2>1, <2>2, RemovePlaces, Zenon
  <2>4. ASSUME NEW u \in Txns \ {t} PROVE Done(u)
    <3>1. Same(u)
      BY <1>a, <2>2, Zenon
    <3>2. pc[u] \notin {"commit", "remove"}
      <4>1. CASE pc[t] = "running"
        BY <1>l, <2>2, <4>1, ConstantFacts, Zenon
      <4>2. CASE pc[t] = "remove"
        BY <1>l, <4>2, Zenon
      <4> QED
        BY <2>2, <4>1, <4>2, Zenon
    <3>3. pc[u] \in {"cleaning", "checkpoint"} => pc[u] \in {"cleanup", "cleaning", "checkpoint"}
      BY Zenon
    <3>4. Checkpoints(u)' => Checkpoints(u)
      BY <3>1, Zenon DEF Checkpoints
    <3> SUFFICES ASSUME OwnDone(u) PROVE OwnDone(u)'
      BY <1>b, <3>4, Zenon
    <3> QED
      BY <2>3, <3>1, <3>2, <3>3, Zenon DEF OwnDone
  <2>5. Done(t)
    <3> SUFFICES ASSUME Checkpoints(t) PROVE OwnDone(t)'
      BY <2>2, Zenon DEF Checkpoints
    <3>1. pc[t] = "remove"
      <4>1. "running" \notin {"commit", "remove"} \cup Over
        BY Zenon DEF Over
      <4> QED
        BY <1>l, <2>2, <4>1, Zenon
    <3>2. active_transactions = {t}
      BY <1>b, <3>1, Zenon DEF OwnDone
    <3>3. pc[t] \notin Over /\ active_transactions \ {t} = {}
      BY <3>1, <3>2, Zenon DEF Over
    <3>4. recently_committed_transactions' = <<>> /\ old_transactions' = <<>>
      BY <2>1, <3>3, RemoveMoves, Zenon DEF StampsLow
    <3>5. Listed' = {}
      <4>1. Elements(<<>>) = {}
        BY DEF Elements
      <4> QED
        BY <3>4, <4>1, Zenon DEF Listed
    <3>6. pc'[t] = "cleanup"
      BY <1>a, <2>2, Zenon
    <3>7. pc'[t] \notin {"commit", "remove"} /\ pc'[t] \notin {"cleaning", "checkpoint"}
          /\ pc'[t] # "checkpoint"
      BY <3>6, Zenon
    <3> QED
      BY <3>5, <3>7, Zenon DEF OwnDone
  <2> QED
    BY <1>all, <2>4, <2>5, Zenon
<1>8. ASSUME NEW t \in Txns, PopCleanup(t) PROVE OwnCleanupInv'
  <2>1. /\ pc[t] = "cleanup" /\ cleanup_lock = Nobody
        /\ \/ pc' = [pc EXCEPT ![t] = "cleaning"] /\ cleanup_queue # <<>>
           \/ pc' = [pc EXCEPT ![t] = "done"] /\ cleanup_queue = <<>>
           \/ pc' = [pc EXCEPT ![t] = "checkpoint"] /\ cleanup_queue = <<>>
        /\ UNCHANGED active_transactions
        /\ UNCHANGED <<changes, checkpoint_decision>>
        /\ UNCHANGED <<recently_committed_transactions, old_transactions>>
        /\ cleanup_queue = <<>> => UNCHANGED <<cleanup_queue, top_cleanup_info>>
    BY <1>8, Zenon DEF PopCleanup, CleanupTurn, AfterCleanup, locals
  <2>2. Listed' = Listed
    BY <2>1, Zenon DEF Listed
  <2>3. cleanup_queue = <<>> => Queued = {} /\ Popped = {} /\ Queued' = {} /\ Popped' = {}
    <3> SUFFICES ASSUME cleanup_queue = <<>>
                 PROVE  Queued = {} /\ Popped = {} /\ Queued' = {} /\ Popped' = {}
      BY Zenon
    <3>1. 1..Len(<<>>) = {}
      OBVIOUS
    <3>2. Queued = {}
      BY <3>1, Zenon DEF Queued
    <3>3. Popped = {}
      BY <2>1, PlaceInvParts, PoppedParts, Zenon
    <3>4. Lists
      BY <2>1, Zenon
    <3> QED
      BY <1>lists, <3>2, <3>3, <3>4, Zenon
  <2>4. /\ Queued' \subseteq Queued
        /\ Popped' \subseteq Queued
    BY <1>8, <2>3, PopPlaces, Zenon
  <2>5. ASSUME NEW u \in Txns \ {t} PROVE Done(u)
    <3>1. Same(u)
      BY <1>a, <2>1, Zenon
    <3>2. pc[u] = "checkpoint" => pc[u] \in {"cleaning", "checkpoint"}
      BY Zenon
    <3>3. Checkpoints(u)' => Checkpoints(u)
      BY <3>1, Zenon DEF Checkpoints
    <3> SUFFICES ASSUME OwnDone(u) PROVE OwnDone(u)'
      BY <1>b, <3>3, Zenon
    <3> QED
      BY <2>1, <2>2, <2>4, <3>1, <3>2, Zenon DEF OwnDone
  <2>6. Done(t)
    <3> SUFFICES ASSUME Checkpoints(t) PROVE OwnDone(t)'
      BY <2>1, Zenon DEF Checkpoints
    <3>1. t \notin Listed
      BY <1>b, <2>1, Zenon DEF OwnDone
    <3>2. write_lock \subseteq {t}
      <4>1. checkpoint_lock = t
        BY <1>l, <2>1, Zenon
      <4> QED
        BY <4>1, ConstantFacts, Zenon DEF LockInv
    <3>3. Queued' = {}
      <4>1. CASE cleanup_queue = <<>>
        BY <2>3, <4>1, Zenon
      <4>2. CASE cleanup_queue # <<>>
        <5>1. Len(cleanup_queue) = 1
          BY <3>2, <4>2, OwnQueue, Zenon
        <5> QED
          BY <1>8, <4>2, <5>1, PopPlaces, Zenon
      <4> QED
        BY <4>1, <4>2, Zenon
    <3>4. pc'[t] = "checkpoint" => Popped' = {}
      <4>1. pc'[t] = "checkpoint" => cleanup_queue = <<>>
        BY <1>a, <2>1, Zenon
      <4> QED
        BY <2>3, <4>1, Zenon
    <3>5. pc'[t] \notin {"commit", "remove"}
      BY <1>a, <2>1, Zenon
    <3> QED
      BY <2>2, <3>1, <3>3, <3>4, <3>5, Zenon DEF OwnDone
  <2> QED
    BY <1>all, <2>5, <2>6, Zenon
<1>9. ASSUME NEW t \in Txns, Cleanup(t) PROVE OwnCleanupInv'
  <2>1. /\ pc[t] = "cleaning"
        /\ pc' = [pc EXCEPT ![t] = "done"] \/ pc' = [pc EXCEPT ![t] = "checkpoint"]
        /\ UNCHANGED active_transactions
        /\ UNCHANGED <<changes, checkpoint_decision>>
        /\ UNCHANGED <<recently_committed_transactions, old_transactions>>
    BY <1>9, Zenon DEF Cleanup, AfterCleanup, locals, lists
  <2>2. Listed' = Listed
    BY <2>1, Zenon DEF Listed
  <2>3. Queued' = Queued /\ Popped' = {}
    BY <1>9, CleanupPlaces, Zenon
  <2>4. ASSUME NEW u \in Txns \ {t} PROVE Done(u)
    <3>1. Same(u)
      BY <1>a, <2>1, Zenon
    <3>2. Checkpoints(u)' => Checkpoints(u)
      BY <3>1, Zenon DEF Checkpoints
    <3> SUFFICES ASSUME OwnDone(u) PROVE OwnDone(u)'
      BY <1>b, <3>2, Zenon
    <3> QED
      BY <2>1, <2>2, <2>3, <3>1, Zenon DEF OwnDone
  <2>5. Done(t)
    <3> SUFFICES ASSUME Checkpoints(t) PROVE OwnDone(t)'
      BY <2>1, Zenon DEF Checkpoints
    <3>1. t \notin Listed /\ t \notin Queued
      BY <1>b, <2>1, Zenon DEF OwnDone
    <3>2. pc'[t] \notin {"commit", "remove"}
      BY <1>a, <2>1, Zenon
    <3> QED
      BY <2>2, <2>3, <3>1, <3>2, Zenon DEF OwnDone
  <2> QED
    BY <1>all, <2>4, <2>5, Zenon
<1>10. ASSUME NEW t \in Txns, CheckpointOnCommit(t) PROVE OwnCleanupInv'
  <2>1. /\ Lists /\ UNCHANGED active_transactions /\ UNCHANGED <<changes, checkpoint_decision>>
        /\ pc' = [pc EXCEPT ![t] = "done"]
    BY <1>10, Zenon DEF CheckpointOnCommit, Goto, lists, locals
  <2>2. ASSUME NEW u \in Txns \ {t} PROVE Done(u)
    <3>1. Same(u)
      BY <1>a, <2>1, Zenon
    <3> QED
      BY <1>same, <2>1, <3>1, Zenon
  <2>3. Done(t)
    <3>1. pc'[t] = "done"
      BY <1>a, <2>1, Zenon
    <3>2. pc'[t] \notin {"commit", "remove", "cleanup", "cleaning", "checkpoint"}
      BY <3>1, Zenon
    <3> QED
      BY <3>2, Zenon DEF OwnDone
  <2> QED
    BY <1>all, <2>2, <2>3, Zenon
<1>11. ASSUME CommandNext \/ UNCHANGED vars PROVE OwnCleanupInv'
  <2>1. /\ Lists /\ UNCHANGED active_transactions /\ UNCHANGED <<changes, pc, checkpoint_decision>>
    BY <1>11, Zenon DEF CommandNext, CheckpointCommand, ForceCheckpoint, ForceLock, lists, locals,
       ForceInterrupted, ReadLastCommit, ReadLowestActiveStart, CreateCheckpoint, CommandStep, vars
  <2> QED
    BY <1>all, <1>same, <2>1, Zenon
<1> QED
  BY <1>1, <1>2, <1>3, <1>4, <1>5, <1>6, <1>7, <1>8, <1>9, <1>10, <1>11, Zenon
     DEF Next, EndStep, ClientStep

(***************************************************************************)
(* What is left when transactions are over                                 *)
(***************************************************************************)

(* How many transactions a set of them has, and what the proofs need to know *)
(* about that; CountLawsHold shows it.                                     *)
Count(S) == Cardinality(S)

CountLaws ==
  /\ Count({}) = 0
  /\ \A S \in SUBSET Txns : Count(S) \in Nat /\ Count(S) <= Count(Txns)
  /\ \A S \in SUBSET Txns : \A t \in Txns : t \notin S => Count(S \cup {t}) = Count(S) + 1
  /\ \A S \in SUBSET Txns : \A t \in S : Count(S \ {t}) = Count(S) - 1

(* Timestamps                                                              *)

(* The sets of transactions that bound the timestamps.                     *)
LEMMA StampSets ==
  ASSUME CountLaws
  PROVE  /\ Begun \in SUBSET Txns /\ Cardinality(Begun) \in Nat
         /\ Stamped \in SUBSET Txns /\ Cardinality(Stamped) \in Nat
         /\ 2 + Cardinality(Begun) + Cardinality(Stamped) <= TRANSACTION_ID_START
<1>1. Begun \in SUBSET Txns /\ Stamped \in SUBSET Txns /\ Txns \in SUBSET Txns
  BY Zenon DEF Begun, Stamped
<1>2. /\ Cardinality(Begun) <= Cardinality(Txns) /\ Cardinality(Stamped) <= Cardinality(Txns)
      /\ Cardinality(Begun) \in Nat /\ Cardinality(Stamped) \in Nat
      /\ Cardinality(Txns) \in Nat
  BY <1>1, Zenon DEF CountLaws, Count
<1> DEFINE b == Cardinality(Begun)
           s == Cardinality(Stamped)
           n == Cardinality(Txns)
<1>5. /\ b \in Nat /\ s \in Nat /\ n \in Nat /\ b <= n /\ s <= n
      /\ 2 * n + 2 <= TRANSACTION_ID_START /\ TRANSACTION_ID_START \in Nat
  BY <1>2, TimestampsAssumption, ConstantFacts, Zenon
<1> HIDE DEF b, s, n
<1>6. 2 + b + s <= TRANSACTION_ID_START
  BY <1>5
<1> QED
  BY <1>1, <1>2, <1>6, Zenon DEF b, s

(* Timestamps do not reach the transaction ids.                            *)
LEMMA StampsBelow ==
  ASSUME CountLaws, TypeOK, StampInv
  PROVE  StampsLow
<1> SUFFICES ASSUME NEW u \in Txns PROVE commit_id[u] < TRANSACTION_ID_START
  BY Zenon DEF StampsLow
<1> DEFINE c == current_start_timestamp
           i == commit_id[u]
           b == Cardinality(Begun)
           s == Cardinality(Stamped)
<1>1. c \in Nat \ {0} /\ i \in 0..(c - 1)
  BY Zenon DEF TypeOK, TimeTypes, Timestamps
<1>2. c <= 2 + b + s
  BY Zenon DEF StampInv
<1>3. b \in Nat /\ s \in Nat /\ 2 + b + s <= TRANSACTION_ID_START
      /\ TRANSACTION_ID_START \in Nat
  BY StampSets, ConstantFacts, Zenon
<1> HIDE DEF c, i, b, s
<1>4. i < TRANSACTION_ID_START
  BY <1>1, <1>2, <1>3
<1> QED
  BY <1>4, Zenon DEF i

(* Every timestamp is drawn by a transaction that starts or commits, and    *)
(* whoever leaves the manager without active transactions empties its lists. *)
LEMMA StampStep ==
  ASSUME CountLaws
  PROVE  TypeOK /\ LockInv /\ ListInv /\ PlaceInv /\ StampInv /\ [Next]_vars => StampInv'
<1> SUFFICES ASSUME TypeOK, LockInv, ListInv, PlaceInv, StampInv, [Next]_vars PROVE StampInv'
  BY Zenon
<1> DEFINE c == current_start_timestamp
           b == Cardinality(Begun)
           s == Cardinality(Stamped)
           Bound == c <= 2 + b + s
           Steps == pc \in [Txns -> {"idle", "running", "wal", "relock", "commit", "remove",
                                      "cleanup", "cleaning", "checkpoint", "done"}]
<1>a. Steps
  BY Zenon DEF TypeOK, ThreadTypes
<1>b. c \in Nat /\ b \in Nat /\ s \in Nat /\ c <= 2 + b + s
  <2>1. c \in Nat \ {0} /\ c <= 2 + b + s /\ b \in Nat /\ s \in Nat
    BY StampSets, Zenon DEF TypeOK, TimeTypes, StampInv
  <2> QED
    BY <2>1, Zenon
<1>c. ASSUME Bound', IdleKeepsNothing' PROVE StampInv'
  BY <1>c, Zenon DEF StampInv
<1>d. b' \in Nat /\ s' \in Nat
  <2>1. Begun' \in SUBSET Txns /\ Stamped' \in SUBSET Txns
    BY Zenon DEF Begun, Stamped
  <2> QED
    BY <2>1, Zenon DEF CountLaws, Count
<1>same. ASSUME UNCHANGED current_start_timestamp,
                \A u \in Txns : pc[u] # "idle" <=> pc'[u] # "idle",
                \A u \in Txns : pc[u] \in {"remove"} \cup Over <=> pc'[u] \in {"remove"} \cup Over
         PROVE  Bound'
  <2>1. Begun' = Begun /\ Stamped' = Stamped
    BY <1>same, Zenon DEF Begun, Stamped
  <2> QED
    BY <1>b, <1>same, <2>1, Zenon
<1>idle. ASSUME UNCHANGED <<recently_committed_transactions, old_transactions,
                            active_transactions>>
         PROVE  IdleKeepsNothing'
  BY <1>idle, Zenon DEF StampInv, IdleKeepsNothing
<1>1. ASSUME NEW t \in Txns,
             \/ BeginQuery(t) \/ SetActiveQuery(t) \/ EndQuery(t) \/ SetReadWrite(t)
             \/ \E kind \in Kinds : Write(t, kind)
      PROVE  StampInv'
  <2>1. UNCHANGED <<current_start_timestamp, pc, recently_committed_transactions,
                    old_transactions, active_transactions>>
    BY <1>1, Zenon DEF BeginQuery, SetActiveQuery, EndQuery, SetReadWrite, Write, lists, counters
  <2> QED
    BY <1>c, <1>same, <1>idle, <2>1, Zenon
<1>2. ASSUME NEW t \in Txns, StartTransaction(t) PROVE StampInv'
  <2>1. /\ pc[t] = "idle" /\ pc' = [pc EXCEPT ![t] = "running"] /\ c' = c + 1
        /\ active_transactions' = active_transactions \cup {t}
    BY <1>2, Zenon DEF StartTransaction, Goto
  <2>2. IdleKeepsNothing'
    BY <2>1, Zenon DEF IdleKeepsNothing
  <2>3. pc'[t] = "running" /\ \A u \in Txns \ {t} : pc'[u] = pc[u]
    BY <1>a, <2>1, Zenon
  <2>4. /\ pc[t] \notin {"remove"} \cup Over /\ "running" \notin {"remove"} \cup Over
        /\ "running" # "idle"
    BY <2>1, Zenon DEF Over
  <2>5. Begun' = Begun \cup {t} /\ t \notin Begun
    BY <2>1, <2>3, <2>4, Zenon DEF Begun
  <2>6. Stamped' = Stamped
    BY <2>3, <2>4, Zenon DEF Stamped
  <2>7. b' = b + 1
    BY <2>5, StampSets, Zenon DEF CountLaws, Count
  <2>8. Bound'
    <3>1. s' = s
      BY <2>6, Zenon
    <3> HIDE DEF c, b, s
    <3> QED
      BY <1>b, <2>1, <2>7, <3>1
  <2> QED
    BY <1>c, <2>2, <2>8, Zenon
<1>3. ASSUME NEW t \in Txns, CommitTransaction(t) \/ WriteToWAL(t) \/ Relock(t) PROVE StampInv'
  <2>1. /\ pc[t] \in {"running", "wal", "relock"}
        /\ \/ pc' = [pc EXCEPT ![t] = "wal"] \/ pc' = [pc EXCEPT ![t] = "relock"]
           \/ pc' = [pc EXCEPT ![t] = "commit"]
        /\ UNCHANGED <<current_start_timestamp, recently_committed_transactions,
                       old_transactions, active_transactions>>
    BY <1>3, Zenon DEF CommitTransaction, EnterCommit, WriteToWAL, Relock, Goto, lists, counters
  <2>2. pc'[t] \in {"wal", "relock", "commit"} /\ \A u \in Txns \ {t} : pc'[u] = pc[u]
    BY <1>a, <2>1, Zenon
  <2>3. /\ pc[t] # "idle" /\ pc'[t] # "idle"
        /\ pc[t] \notin {"remove"} \cup Over /\ pc'[t] \notin {"remove"} \cup Over
    BY <2>1, <2>2, Zenon DEF Over
  <2> QED
    BY <1>c, <1>same, <1>idle, <2>1, <2>2, <2>3, Zenon
<1>4. ASSUME NEW t \in Txns, Commit(t) PROVE StampInv'
  <2>1. /\ pc[t] = "commit" /\ pc' = [pc EXCEPT ![t] = "remove"] /\ c' = c + 1
        /\ UNCHANGED <<recently_committed_transactions, old_transactions, active_transactions>>
    BY <1>4, Zenon DEF Commit, Goto, lists
  <2>2. pc'[t] = "remove" /\ \A u \in Txns \ {t} : pc'[u] = pc[u]
    BY <1>a, <2>1, Zenon
  <2>3. /\ pc[t] # "idle" /\ pc'[t] # "idle"
        /\ pc[t] \notin {"remove"} \cup Over /\ pc'[t] \in {"remove"} \cup Over
    BY <2>1, <2>2, Zenon DEF Over
  <2>4. Begun' = Begun
    BY <2>2, <2>3, Zenon DEF Begun
  <2>5. Stamped' = Stamped \cup {t} /\ t \notin Stamped
    BY <2>2, <2>3, Zenon DEF Stamped
  <2>6. s' = s + 1
    BY <2>5, StampSets, Zenon DEF CountLaws, Count
  <2>7. Bound'
    <3>1. b' = b
      BY <2>4, Zenon
    <3> HIDE DEF c, b, s
    <3> QED
      BY <1>b, <2>1, <2>6, <3>1
  <2> QED
    BY <1>c, <1>idle, <2>1, <2>7, Zenon
<1>5. ASSUME NEW t \in Txns, RollbackTransaction(t) \/ RemoveCommitted(t) PROVE StampInv'
  <2>1. PICK store \in BOOLEAN : RemoveTransaction(t, store)
    BY <1>5, Zenon DEF RollbackTransaction, RemoveCommitted, TypeOK, FlagTypes
  <2>2. /\ pc[t] \in {"running", "remove"} /\ pc' = [pc EXCEPT ![t] = "cleanup"]
        /\ UNCHANGED current_start_timestamp
    BY <1>5, Zenon DEF RollbackTransaction, RemoveCommitted, Goto
  <2>3. pc[t] \notin Over
    BY <2>2, Zenon DEF Over
  <2>4. active_transactions' = active_transactions \ {t}
    BY <2>1, Zenon DEF RemoveTransaction
  <2>5. IdleKeepsNothing'
    BY <2>1, <2>3, <2>4, RemoveMoves, StampsBelow, Zenon DEF IdleKeepsNothing, StampsLow
  <2>6. pc'[t] = "cleanup" /\ \A u \in Txns \ {t} : pc'[u] = pc[u]
    BY <1>a, <2>2, Zenon
  <2>7. pc[t] # "idle" /\ pc'[t] # "idle" /\ pc'[t] \in {"remove"} \cup Over
    BY <2>2, <2>6, Zenon DEF Over
  <2>8. Begun' = Begun
    BY <2>6, <2>7, Zenon DEF Begun
  <2>9. Stamped' = Stamped \cup {t}
    BY <2>6, <2>7, Zenon DEF Stamped
  <2>10. s' = s \/ s' = s + 1
    <3>1. CASE t \in Stamped
      <4>1. Stamped' = Stamped
        BY <2>9, <3>1, Zenon
      <4> QED
        BY <4>1, Zenon
    <3>2. CASE t \notin Stamped
      BY <2>9, <3>2, StampSets, Zenon DEF CountLaws, Count
    <3> QED
      BY <3>1, <3>2, Zenon
  <2>11. Bound'
    <3>1. b' = b /\ c' = c
      BY <2>2, <2>8, Zenon
    <3> HIDE DEF c, b, s
    <3> QED
      BY <1>b, <2>10, <3>1
  <2> QED
    BY <1>c, <2>5, <2>11, Zenon
<1>6. ASSUME NEW t \in Txns, PopCleanup(t) \/ Cleanup(t) \/ CheckpointOnCommit(t) PROVE StampInv'
  <2>1. /\ pc[t] \in {"cleanup", "cleaning", "checkpoint"}
        /\ \/ pc' = [pc EXCEPT ![t] = "cleaning"] \/ pc' = [pc EXCEPT ![t] = "done"]
           \/ pc' = [pc EXCEPT ![t] = "checkpoint"]
        /\ UNCHANGED <<current_start_timestamp, recently_committed_transactions,
                       old_transactions, active_transactions>>
    BY <1>6, Zenon DEF PopCleanup, Cleanup, AfterCleanup, CheckpointOnCommit, Goto, lists, counters
  <2>2. pc'[t] \in {"cleaning", "checkpoint", "done"} /\ \A u \in Txns \ {t} : pc'[u] = pc[u]
    BY <1>a, <2>1, Zenon
  <2>3. /\ pc[t] # "idle" /\ pc'[t] # "idle"
        /\ pc[t] \in {"remove"} \cup Over /\ pc'[t] \in {"remove"} \cup Over
    BY <2>1, <2>2, Zenon DEF Over
  <2> QED
    BY <1>c, <1>same, <1>idle, <2>1, <2>2, <2>3, Zenon
<1>7. ASSUME CommandNext \/ UNCHANGED vars PROVE StampInv'
  <2>1. UNCHANGED <<current_start_timestamp, pc, recently_committed_transactions,
                    old_transactions, active_transactions>>
    BY <1>7, Zenon DEF CommandNext, CheckpointCommand, ForceCheckpoint, ForceLock, lists, vars,
       ForceInterrupted, ReadLastCommit, ReadLowestActiveStart, CreateCheckpoint, CommandStep,
       counters
  <2> QED
    BY <1>c, <1>same, <1>idle, <2>1, Zenon
<1> QED
  BY <1>1, <1>2, <1>3, <1>4, <1>5, <1>6, <1>7, Zenon DEF Next, EndStep, ClientStep

-----------------------------------------------------------------------------
(* The cleanup queue                                                       *)

(* The threads that are still to pop the queue.                            *)
Poppers == {t \in Txns : pc[t] = "cleanup"}

LEMMA PoppersCounted ==
  ASSUME CountLaws
  PROVE  Poppers \in SUBSET Txns /\ Cardinality(Poppers) \in Nat
<1>1. Poppers \in SUBSET Txns
  BY Zenon DEF Poppers
<1> QED
  BY <1>1, Zenon DEF CountLaws, Count

(* RemoveTransaction queues at most one cleanup.                           *)
LEMMA RemoveQueue ==
  ASSUME TypeOK, NEW t \in Txns, NEW store \in BOOLEAN, RemoveTransaction(t, store)
  PROVE  Len(cleanup_queue') <= Len(cleanup_queue) + 1
<1>1. PICK lowest \in Nat, n \in 0..Len(Recent(t, store)) : Removed(t, store, lowest, n)
  BY RemoveParts, Zenon
<1>2. \/ cleanup_queue' = cleanup_queue
      \/ \E info : cleanup_queue' = Append(cleanup_queue, info)
  BY <1>1, Zenon DEF Removed, ScheduleCleanup
<1>3. cleanup_queue \in Seq(Infos) /\ Len(cleanup_queue) \in Nat
  BY DEF TypeOK, ListTypes
<1>4. ASSUME NEW info PROVE Len(Append(cleanup_queue, info)) = Len(cleanup_queue) + 1
  BY <1>3
<1> QED
  BY <1>2, <1>3, <1>4

(* Every step leaves a thread for each queued cleanup.                     *)
LEMMA QueueStep ==
  ASSUME CountLaws
  PROVE  TypeOK /\ NoStrandedCleanup /\ [Next]_vars => NoStrandedCleanup'
<1> SUFFICES ASSUME TypeOK, NoStrandedCleanup, [Next]_vars PROVE NoStrandedCleanup'
  BY Zenon
<1>a. /\ cleanup_queue \in Seq(Infos) /\ Len(cleanup_queue) \in Nat
      /\ pc \in [Txns -> {"idle", "running", "wal", "relock", "commit", "remove",
                          "cleanup", "cleaning", "checkpoint", "done"}]
  BY DEF TypeOK, ListTypes, ThreadTypes
<1>b. Len(cleanup_queue) <= Cardinality(Poppers) /\ Cardinality(Poppers) \in Nat
      /\ Poppers \in SUBSET Txns
  BY PoppersCounted, Zenon DEF NoStrandedCleanup, Poppers
<1>c. NoStrandedCleanup' <=> Len(cleanup_queue') <= Cardinality(Poppers')
  BY Zenon DEF NoStrandedCleanup, Poppers
<1>frame. ASSUME UNCHANGED cleanup_queue,
                 \A u \in Txns : pc'[u] = "cleanup" <=> pc[u] = "cleanup"
          PROVE  NoStrandedCleanup'
  <2>1. Poppers' = Poppers
    BY <1>frame, Zenon DEF Poppers
  <2> QED
    BY <2>1, <1>b, <1>c, <1>frame, Zenon
<1> USE DEF lists
<1>1. ASSUME NEW t \in Txns,
             \/ BeginQuery(t) \/ SetActiveQuery(t) \/ EndQuery(t) \/ SetReadWrite(t)
             \/ \E kind \in Kinds : Write(t, kind)
      PROVE  NoStrandedCleanup'
  BY <1>1, <1>frame, Zenon DEF BeginQuery, SetActiveQuery, EndQuery, SetReadWrite, Write
<1>2. ASSUME NEW t \in Txns, StartTransaction(t) \/ CommitTransaction(t)
      PROVE  NoStrandedCleanup'
  BY <1>2, <1>a, <1>frame, Zenon DEF StartTransaction, CommitTransaction, EnterCommit, Goto
<1>3. ASSUME NEW t \in Txns, WriteToWAL(t) \/ Relock(t) \/ Commit(t) \/ CheckpointOnCommit(t)
      PROVE  NoStrandedCleanup'
  BY <1>3, <1>a, <1>frame, Zenon DEF WriteToWAL, Relock, Commit, CheckpointOnCommit, Goto
<1>4. ASSUME NEW t \in Txns, RollbackTransaction(t) \/ RemoveCommitted(t)
      PROVE  NoStrandedCleanup'
  <2>1. PICK store \in BOOLEAN : RemoveTransaction(t, store)
    BY <1>4, Zenon DEF RollbackTransaction, RemoveCommitted, TypeOK, FlagTypes
  <2>2. Len(cleanup_queue') <= Len(cleanup_queue) + 1
    BY <2>1, RemoveQueue, Zenon
  <2>3. pc[t] # "cleanup" /\ pc' = [pc EXCEPT ![t] = "cleanup"]
    BY <1>4, Zenon DEF RollbackTransaction, RemoveCommitted, Goto
  <2>4. Poppers' = Poppers \cup {t} /\ t \notin Poppers
    BY <2>3, <1>a, Zenon DEF Poppers
  <2>5. Cardinality(Poppers') = Cardinality(Poppers) + 1
    BY <2>4, <1>b, Zenon DEF CountLaws, Count
  <2>6. cleanup_queue' \in Seq(Infos)
    BY <2>1, RemoveType, Zenon
  <2>7. Len(cleanup_queue') \in Nat
    BY <2>6
  <2> QED
    BY <2>2, <2>5, <2>7, <1>a, <1>b, <1>c
<1>5. ASSUME NEW t \in Txns, PopCleanup(t) PROVE NoStrandedCleanup'
  <2>1. /\ pc[t] = "cleanup"
        /\ \/ pc' = [pc EXCEPT ![t] = "cleaning"]
           \/ pc' = [pc EXCEPT ![t] = "done"]
           \/ pc' = [pc EXCEPT ![t] = "checkpoint"]
        /\ \/ cleanup_queue = <<>> /\ cleanup_queue' = cleanup_queue
           \/ cleanup_queue # <<>> /\ cleanup_queue' = Tail(cleanup_queue)
    BY <1>5, Zenon DEF PopCleanup, AfterCleanup
  <2>2. Poppers' = Poppers \ {t} /\ t \in Poppers
    BY <2>1, <1>a, Zenon DEF Poppers
  <2>3. Cardinality(Poppers') = Cardinality(Poppers) - 1
    BY <2>2, <1>b, Zenon DEF CountLaws, Count
  <2>4. Cardinality(Poppers') \in Nat
    BY <2>2, <1>b, Zenon DEF CountLaws, Count
  <2>5. Len(cleanup_queue') = 0 \/ Len(cleanup_queue') = Len(cleanup_queue) - 1
    BY <2>1, <1>a
  <2> QED
    BY <2>3, <2>4, <2>5, <1>a, <1>b, <1>c, SMTT(20)
<1>6. ASSUME NEW t \in Txns, Cleanup(t) PROVE NoStrandedCleanup'
  <2>1. /\ pc[t] = "cleaning" /\ UNCHANGED cleanup_queue
        /\ \/ pc' = [pc EXCEPT ![t] = "done"]
           \/ pc' = [pc EXCEPT ![t] = "checkpoint"]
    BY <1>6, Zenon DEF Cleanup, AfterCleanup
  <2> QED
    BY <2>1, <1>a, <1>frame, Zenon
<1>7. ASSUME CommandNext PROVE NoStrandedCleanup'
  BY <1>7, <1>frame, Zenon DEF CommandNext, CheckpointCommand, ForceCheckpoint, ForceLock,
     ForceInterrupted, ReadLastCommit, ReadLowestActiveStart, CreateCheckpoint, CommandStep
<1>8. ASSUME UNCHANGED vars PROVE NoStrandedCleanup'
  BY <1>8, <1>frame, Zenon DEF vars
<1> QED
  BY <1>1, <1>2, <1>3, <1>4, <1>5, <1>6, <1>7, <1>8, Zenon DEF Next, EndStep, ClientStep

-----------------------------------------------------------------------------
(* The invariant of the objects, keys and cleanups                         *)

(* Initially nothing is kept and no key is owned.                          *)
LEMMA KeysInit ==
  ASSUME CountLaws
  PROVE  Init => PlaceInv /\ StampInv /\ KeyInv /\ OwnCleanupInv
<1> SUFFICES ASSUME Init PROVE PlaceInv /\ StampInv /\ KeyInv /\ OwnCleanupInv
  BY Zenon
<1>1. /\ recently_committed_transactions = <<>> /\ old_transactions = <<>>
      /\ cleanup_queue = <<>> /\ top_cleanup_info = [t \in Txns |-> NoInfo]
      /\ write_lock = {} /\ checkpoint_lock = Nobody /\ current_start_timestamp = 2
      /\ failed = [t \in Txns |-> FALSE] /\ pc = [t \in Txns |-> "idle"]
      /\ changes = [t \in Txns |-> {}]
  BY Zenon DEF Init
<1>2. Elements(<<>>) = {} /\ 1..Len(<<>>) = {} /\ Distinct(<<>>)
  BY DEF Elements, Distinct
<1>3. \A t \in Txns : top_cleanup_info[t].transactions = <<>>
  BY <1>1, Zenon DEF NoInfo
<1>4. Queued = {} /\ Popped = {}
  BY <1>1, <1>2, <1>3, Zenon DEF Queued, Popped
<1>5. Kept = {}
  BY <1>1, <1>2, <1>4, ScheduledParts, Zenon DEF Kept
<1>6. PlaceInv
  <2>1. TopOwned
    BY <1>1, <1>3, Zenon DEF TopOwned
  <2>2. Apart({}, {}, {}, {})
    BY Zenon DEF Apart
  <2>3. QueueApart(<<>>)
    BY <1>2, Zenon DEF QueueApart
  <2> QED
    BY <1>1, <1>2, <1>4, <2>1, <2>2, <2>3, PlaceInvParts, Zenon
<1>7. StampInv
  <2>1. IdleKeepsNothing
    BY <1>1, Zenon DEF IdleKeepsNothing
  <2> DEFINE b == Cardinality(Begun)
             s == Cardinality(Stamped)
  <2>2. b \in Nat /\ s \in Nat
    BY StampSets, Zenon
  <2> HIDE DEF b, s
  <2>3. current_start_timestamp <= 2 + b + s
    BY <1>1, <2>2
  <2> QED
    BY <2>1, <2>3, Zenon DEF StampInv, b, s
<1>8. KeyInv
  <2>1. KeysKept
    BY <1>1, <1>5, Zenon DEF KeysKept
  <2>2. ASSUME NEW t \in Txns PROVE Reserved(t)
    BY <1>1, ConstantFacts, Zenon DEF Reserved
  <2> QED
    BY <2>1, <2>2, KeyInvParts, Zenon
<1>9. OwnCleanupInv
  BY <1>1, OwnCleanupInvParts, Zenon DEF Checkpoints
<1> QED
  BY <1>6, <1>7, <1>8, <1>9, Zenon

(* The inductive invariant of this module.                                 *)
KeysInv == /\ TypeOK /\ LockInv /\ ListInv /\ PlaceInv /\ StampInv /\ KeyInv
           /\ OwnCleanupInv /\ NoStrandedCleanup

(* Initially the queue is empty.                                           *)
LEMMA QueueInit ==
  ASSUME CountLaws
  PROVE  Init => NoStrandedCleanup
<1>1. ASSUME Init PROVE Len(cleanup_queue) <= Cardinality(Poppers)
  <2>1. Len(cleanup_queue) = 0
    BY <1>1, Zenon DEF Init
  <2> QED
    BY <2>1, PoppersCounted
<1> QED
  BY <1>1, Zenon DEF NoStrandedCleanup, Poppers

(* The invariant holds initially.                                          *)
LEMMA KeysInvInit ==
  ASSUME CountLaws
  PROVE  Init => KeysInv
BY TypeInit, LockInit, ListInit, KeysInit, QueueInit, Zenon DEF KeysInv

(* Every step keeps it.                                                    *)
LEMMA KeysInvStep ==
  ASSUME CountLaws
  PROVE  KeysInv /\ [Next]_vars => KeysInv'
BY TypeStep, LockStep, ListStep, PlaceStep, StampStep, StampsBelow, KeyStep, OwnStep, QueueStep,
   Zenon DEF KeysInv

(* When every transaction is over, nothing is scheduled for cleanup either *)
(* and all keys are back: with the lists empty, every thread back from its *)
(* cleanup and none left to pop the queue, no object owns a shared key, and *)
(* a commit that had upgraded its key has given the exclusive one back.    *)
LEMMA KeysAreBack ==
  ASSUME CountLaws, KeysInv
  PROVE  KeysReleased
<1> SUFFICES ASSUME \A t \in Txns : pc[t] \in {"idle", "done"}
             PROVE  write_lock = {} /\ checkpoint_lock \notin Txns
  BY Zenon DEF KeysReleased
<1>a. /\ TypeOK /\ LockInv /\ PlaceInv /\ StampInv /\ KeyInv /\ NoStrandedCleanup
  BY Zenon DEF KeysInv
<1>1. \A t \in Txns : pc[t] # "cleanup" /\ pc[t] # "cleaning"
                      /\ pc[t] \notin {"running"} \cup Ending
                      /\ pc[t] \notin {"wal", "relock", "commit"}
  BY Zenon DEF Ending
<1>2. active_transactions = {}
  BY <1>1, <1>a, Zenon DEF LockInv, TypeOK, ListTypes
<1>3. recently_committed_transactions = <<>> /\ old_transactions = <<>>
  BY <1>2, <1>a, Zenon DEF StampInv, IdleKeepsNothing
<1>4. cleanup_queue = <<>>
  <2>1. cleanup_queue \in Seq(Infos)
    BY <1>a, Zenon DEF TypeOK, ListTypes
  <2>2. Poppers = {}
    BY <1>1, Zenon DEF Poppers
  <2>3. Len(cleanup_queue) <= 0
    <3>1. Len(cleanup_queue) <= Cardinality(Poppers)
      BY <1>a, Zenon DEF NoStrandedCleanup, Poppers
    <3>2. Cardinality(Poppers) = 0
      BY <2>2, Zenon DEF CountLaws, Count
    <3> QED
      BY <3>1, <3>2, Zenon
  <2> QED
    BY <2>1, <2>3
<1>5. Elements(<<>>) = {} /\ 1..Len(<<>>) = {}
  BY DEF Elements
<1>6. Queued = {}
  BY <1>4, <1>5, Zenon DEF Queued
<1>7. Popped = {}
  <2>1. \A t \in Txns : top_cleanup_info[t].transactions = <<>>
    BY <1>1, <1>a, Zenon DEF PlaceInv
  <2> QED
    BY <1>5, <2>1, Zenon DEF Popped
<1>8. Kept = {}
  BY <1>3, <1>5, <1>6, <1>7, ScheduledParts, Zenon DEF Kept
<1>9. write_lock = {}
  BY <1>2, <1>8, <1>a, Zenon DEF KeyInv
<1>10. ASSUME NEW t \in Txns, checkpoint_lock = t PROVE FALSE
  <2>1. checkpoint_decision[t] # "none" /\ pc[t] # "done"
    BY <1>1, <1>10, <1>a, Zenon DEF KeyInv
  <2>2. pc[t] = "idle"
    BY <2>1, Zenon
  <2>3. pc[t] \notin {"commit", "remove"} \cup Over
    BY <2>2, Zenon DEF Over
  <2> QED
    BY <2>1, <2>3, <1>a, Zenon DEF LockInv
<1> QED
  BY <1>9, <1>10, Zenon

(* Whoever checkpoints owns the exclusive key, so only its own object can   *)
(* still be kept, and a commit with updates has waited for the cleanup of   *)
(* that one, whichever thread popped it.                                   *)
LEMMA CleanedUpBefore ==
  ASSUME KeysInv
  PROVE  CheckpointAfterCleanup
<1>a. /\ TypeOK /\ LockInv /\ KeyInv /\ OwnCleanupInv
  BY Zenon DEF KeysInv
<1> SUFFICES ASSUME command = "running" \/ \E t \in Txns : pc[t] = "checkpoint"
             PROVE  \A u \in Kept : "update" \notin changes[u]
  BY Zenon DEF CheckpointAfterCleanup, Kept
<1>1. Kept \subseteq write_lock /\ write_lock \subseteq Txns
  BY <1>a, Zenon DEF KeyInv, TypeOK, ListTypes
<1>2. CASE command = "running"
  <2>1. write_lock \subseteq {Command}
    BY <1>2, <1>a, ConstantFacts, Zenon DEF LockInv
  <2> QED
    BY <1>1, <2>1, ConstantFacts, Zenon
<1>3. ASSUME NEW t \in Txns, pc[t] = "checkpoint"
      PROVE  \A u \in Kept : "update" \notin changes[u]
  <2>1. checkpoint_decision[t] # "none" /\ checkpoint_lock = t
    BY <1>3, <1>a, Zenon DEF LockInv
  <2>2. write_lock \subseteq {t}
    BY <1>a, <2>1, ConstantFacts, Zenon DEF LockInv
  <2>3. ASSUME "update" \in changes[t] PROVE t \notin Kept
    <3>1. OwnDone(t)
      BY <1>a, <2>1, <2>3, OwnCleanupInvParts, Zenon DEF Checkpoints
    <3>2. t \notin Listed /\ t \notin Queued /\ t \notin Popped
      BY <1>3, <3>1, Zenon DEF OwnDone
    <3> QED
      BY <3>2, ScheduledParts, Zenon DEF Kept, Listed
  <2> QED
    BY <1>1, <2>2, <2>3, Zenon
<1> QED
  BY <1>2, <1>3, Zenon

-----------------------------------------------------------------------------
(* The theorems                                                            *)

(* What counting transactions means: the definition of Cardinality, which  *)
(* links Count to the library's theorems instantiated below.               *)
LEMMA CountIs ==
  ASSUME NEW S
  PROVE  Count(S) = LET CS[T \in SUBSET S] == IF T = {} THEN 0
                                              ELSE 1 + CS[T \ {CHOOSE x : x \in T}]
                    IN  CS[S]
BY Zenon DEF Count, Cardinality

(* There are finitely many transactions: a sequence lists them.            *)
LEMMA TxnsListed == \E seq \in Seq(Txns) : \A t \in Txns : \E n \in 1..Len(seq) : seq[n] = t
BY ManagerAssumption, Zenon DEF IsFiniteSet

(* Only from here on: the proofs above do without these theorems, and are  *)
(* faster without them in their context.                                   *)
LOCAL INSTANCE FiniteSetTheorems

(* Counting transactions follows the laws.                                 *)
LEMMA CountLawsHold == CountLaws
<1>1. IsFiniteSet(Txns)
  BY TxnsListed, Zenon DEF IsFiniteSet
<1>2. \A S : Count(S) = Cardinality(S)
  BY CountIs, Zenon DEF Cardinality
<1>3. \A S \in SUBSET Txns : IsFiniteSet(S) /\ Cardinality(S) <= Cardinality(Txns)
  BY <1>1, FS_Subset, Zenon
<1>4. \A S \in SUBSET Txns : Cardinality(S) \in Nat
  BY <1>3, FS_CardinalityType, Zenon
<1>5. \A S \in SUBSET Txns : \A t \in Txns : t \notin S => Cardinality(S \cup {t}) = Cardinality(S) + 1
  BY <1>3, FS_AddElement, Zenon
<1>6. \A S \in SUBSET Txns : \A t \in S : Cardinality(S \ {t}) = Cardinality(S) - 1
  BY <1>3, FS_RemoveElement, Zenon
<1>7. Cardinality({}) = 0
  BY FS_EmptySet, Zenon
<1> QED
  BY <1>2, <1>3, <1>4, <1>5, <1>6, <1>7, Zenon DEF CountLaws

(* The invariant holds in every state.                                     *)
LEMMA KeysAlways == Spec => []KeysInv
<1>1. Init => KeysInv
  BY CountLawsHold, KeysInvInit, Zenon
<1>2. KeysInv /\ [Next]_vars => KeysInv'
  BY CountLawsHold, KeysInvStep, Zenon
<1> QED
  BY <1>1, <1>2, PTL DEF Spec

(* For each cleanup in the queue there is a thread that will still pop the *)
(* queue, although a thread may pop what another one queued: no undo       *)
(* buffer, and no shared key of the checkpoint lock, is left behind there. *)
THEOREM NoCleanupIsStranded == Spec => []NoStrandedCleanup
<1>1. Init => NoStrandedCleanup
  BY CountLawsHold, QueueInit, Zenon
<1>2. TypeOK /\ NoStrandedCleanup /\ [Next]_vars => NoStrandedCleanup'
  BY CountLawsHold, QueueStep, Zenon
<1> QED
  BY <1>1, <1>2, TypeInit, TypeStep, PTL DEF Spec

(* When nobody is active, the manager keeps no transaction in its lists:   *)
(* RemoveTransaction of the last active transaction hands over all of them *)
(* for cleanup, however they got there.                                    *)
THEOREM IdleManagerKeepsNothing == Spec => []IdleKeepsNothing
<1>1. KeysInv => IdleKeepsNothing
  BY Zenon DEF KeysInv, StampInv
<1> QED
  BY <1>1, KeysAlways, PTL

(* Once every transaction is over, no shared key of the checkpoint lock is *)
(* left in a list, in the queue or with a thread, and no commit still owns *)
(* the exclusive one: a later CHECKPOINT finds the lock free.              *)
THEOREM AllKeysAreReleased == Spec => []KeysReleased
<1>1. KeysInv => KeysReleased
  BY CountLawsHold, KeysAreBack, Zenon
<1> QED
  BY <1>1, KeysAlways, PTL

(* While a checkpoint runs, which frees the update segments, no undo buffer *)
(* with updates of a committed transaction still waits for its cleanup: not *)
(* one of another transaction, and not the own one of the commit that      *)
(* checkpoints, even when another thread has popped it from the queue.     *)
THEOREM CheckpointRunsAfterCleanup == Spec => []CheckpointAfterCleanup
<1>1. KeysInv => CheckpointAfterCleanup
  BY CleanedUpBefore, Zenon
<1> QED
  BY <1>1, KeysAlways, PTL

=============================================================================
