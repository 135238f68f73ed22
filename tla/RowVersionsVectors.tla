------------------------- MODULE RowVersionsVectors -------------------------
(***************************************************************************)
(* Where the rows of a row group are, and what the operations of its       *)
(* ChunkInfos do to the stamps of the rows.                                *)
(***************************************************************************)
EXTENDS RowVersions, TLAPS

\* Division with remainder.
LEMMA DivMod ==
    ASSUME NEW n \in Nat \ {0}, NEW r \in Nat
    PROVE  /\ r \div n \in Nat /\ r % n \in 0..(n - 1)
           /\ r = (r \div n) * n + (r % n)
  OBVIOUS

\* The start of a later vector is at or after the end of an earlier one.
LEMMA Times ==
    ASSUME NEW n \in Nat \ {0}, NEW a \in Nat, NEW b \in Nat, a < b
    PROVE  (a + 1) * n <= b * n
<1>1. PICK c \in Nat : b = (a + 1) + c
  <2>1. b - (a + 1) \in Nat
    OBVIOUS
  <2> QED BY <2>1
<1>2. b * n = (a + 1) * n + c * n
  BY <1>1
<1>3. c * n \in Nat
  BY <1>1
<1> QED BY <1>2, <1>3

\* Division with remainder has one result.
LEMMA Unique ==
    ASSUME NEW n \in Nat \ {0}, NEW v \in Nat, NEW w \in Nat, NEW i \in 0..(n - 1), NEW j \in 0..(n - 1),
           v * n + i = w * n + j
    PROVE  v = w /\ i = j
<1>1. ~ (v < w)
  <2> SUFFICES ASSUME v < w PROVE FALSE
    BY Zenon
  <2>1. (v + 1) * n <= w * n
    BY Times, Zenon
  <2>2. (v + 1) * n = v * n + n
    OBVIOUS
  <2>3. v * n \in Nat /\ w * n \in Nat
    OBVIOUS
  <2> QED BY <2>1, <2>2, <2>3
<1>2. ~ (w < v)
  <2> SUFFICES ASSUME w < v PROVE FALSE
    BY Zenon
  <2>1. (w + 1) * n <= v * n
    BY Times, Zenon
  <2>2. (w + 1) * n = w * n + n
    OBVIOUS
  <2>3. v * n \in Nat /\ w * n \in Nat
    OBVIOUS
  <2> QED BY <2>1, <2>2, <2>3
<1> QED BY <1>1, <1>2

\* The three kinds of ChunkInfo (or none) with stamps from T.
Nones == [type : {"none"}]
Constants(T) == [type : {"constant"}, insert_id : T, delete_id : T]
ChunkVectors(T) == [type : {"vector"}, insert_id : T, same_inserted_id : BOOLEAN,
               any_deleted : BOOLEAN, inserted : [Rows -> T], deleted : [Rows -> T]]
InfosOver(T) == Nones \cup Constants(T) \cup ChunkVectors(T)

\* Infos, built over its stamps.
LEMMA InfosAre == Infos = InfosOver(Stamps)
  BY Zenon DEF Infos, InfosOver, Nones, Constants, ChunkVectors

\* A new ChunkVectorInfo is well formed.
LEMMA VectorInfoType ==
    ASSUME NEW T, NEW id \in T, NOT_DELETED_ID \in T
    PROVE  VectorInfo(id) \in ChunkVectors(T)
  BY Zenon DEF VectorInfo, ChunkVectors

\* GetVectorInfo returns a ChunkVectorInfo, whatever the vector had.
LEMMA GetType ==
    ASSUME NEW T, NEW v, vector_info[v] \in InfosOver(T), 0 \in T, NOT_DELETED_ID \in T
    PROVE  GetVectorInfo(v) \in ChunkVectors(T)
<1>1. CASE vector_info[v] \in Nones
  BY <1>1, VectorInfoType, Zenon DEF GetVectorInfo, Nones
<1>2. CASE vector_info[v] \in Constants(T)
  BY <1>2, VectorInfoType, Zenon DEF GetVectorInfo, Constants
<1>3. CASE vector_info[v] \in ChunkVectors(T)
  BY <1>3, Zenon DEF GetVectorInfo, ChunkVectors
<1> QED BY <1>1, <1>2, <1>3, Zenon DEF InfosOver

\* x has the deletes of info.
KeepsDeletes(x, info) ==
    /\ x.type = info.type /\ \A i \in Rows : Mark(x, i) = Mark(info, i)
    /\ info.type = "constant" => x.delete_id = info.delete_id
    /\ info.type = "vector" => x.deleted = info.deleted /\ x.any_deleted = info.any_deleted

\* x is info with the given rows marked as deleted by id.
Remarked(x, info, rows, id) ==
    /\ x.any_deleted = info.any_deleted
    /\ \A i \in Rows : Mark(x, i) = IF i \in rows THEN id ELSE Mark(info, i)

\* ChunkVectorInfo::Append leaves the deletes alone.
LEMMA Append1Type ==
    ASSUME NEW info \in ChunkVectors(Stamps), NEW id \in Stamps, NOT_DELETED_ID \in Stamps, NEW a, NEW b
    PROVE  /\ Append1(info, a, b, id) \in ChunkVectors(Stamps)
           /\ KeepsDeletes(Append1(info, a, b, id), info)
  BY Zenon DEF Append1, ChunkVectors, KeepsDeletes, Mark

\* ChunkVectorInfo::Append stamps the rows it is given.
LEMMA Append1Stamp ==
    ASSUME NEW info \in ChunkVectors(Stamps), NEW id \in Stamps, NOT_DELETED_ID \in Stamps,
           NEW a \in Nat, NEW b \in Nat, NEW i \in Rows, a <= i, i < b
    PROVE  InsertStamp(Append1(info, a, b, id), i) = id
  BY Zenon DEF Append1, ChunkVectors, InsertStamp, Rows

\* ChunkInfo::CommitAppend keeps the kind and the deletes of a ChunkInfo.
LEMMA CommitAppend1Type ==
    ASSUME NEW info \in Constants(Stamps) \cup ChunkVectors(Stamps), NEW id \in Stamps, NEW a, NEW b
    PROVE  /\ CommitAppend1(info, a, b, id) \in Constants(Stamps) \cup ChunkVectors(Stamps)
           /\ KeepsDeletes(CommitAppend1(info, a, b, id), info)
<1>1. CASE info \in Constants(Stamps)
  BY <1>1, Zenon DEF CommitAppend1, Constants, Mark, KeepsDeletes
<1>2. CASE info \in ChunkVectors(Stamps)
  BY <1>2, Zenon DEF CommitAppend1, ChunkVectors, Mark, KeepsDeletes
<1> QED BY <1>1, <1>2, Zenon

\* ChunkInfo::CommitAppend stamps the rows it is given.
LEMMA CommitAppend1Stamp ==
    ASSUME NEW info \in Constants(Stamps) \cup ChunkVectors(Stamps), NEW id \in Stamps,
           NEW a \in Nat, NEW b \in Nat, NEW i \in Rows, a <= i, i < b
    PROVE  InsertStamp(CommitAppend1(info, a, b, id), i) = id
<1>1. CASE info \in Constants(Stamps)
  BY <1>1, Zenon DEF CommitAppend1, Constants, InsertStamp, Rows
<1>2. CASE info \in ChunkVectors(Stamps)
  BY <1>2, Zenon DEF CommitAppend1, ChunkVectors, InsertStamp, Rows
<1> QED BY <1>1, <1>2, Zenon

\* ChunkVectorInfo::CommitDelete leaves the inserts alone.
LEMMA CommitDelete1Type ==
    ASSUME NEW info \in ChunkVectors(Stamps), NEW id \in Stamps, NEW rows
    PROVE  /\ CommitDelete1(info, rows, id) \in ChunkVectors(Stamps)
           /\ \A i \in Rows : InsertStamp(CommitDelete1(info, rows, id), i) = InsertStamp(info, i)
  BY Zenon DEF CommitDelete1, ChunkVectors, InsertStamp

\* The steps of one transaction.
Step(t) ==
    \/ StartTransaction(t)
    \/ /\ pc[t] = "running" /\ Len(undo[t]) < MAX_DELETES
       /\ \E v \in Vectors : \E rows \in DeleteInput(t, v) : Delete(t, v, rows)
    \/ \E n \in 0..MAX_ROWS : Flush(t, n) \/ FlushFails(t, n)
    \/ \E to \in {"stamping", "reverting", "undoing"} : Commit(t, to)
    \/ CommitReadOnly(t) \/ CommitEntry(t) \/ CommitFails(t)
    \/ RevertCommitEntry(t) \/ RollbackTransaction(t) \/ RollbackEntry(t)
    \/ RemoveCommitted(t) \/ RemoveAborted(t) \/ Cleanup(t)

\* Every row has a vector and an index in it.
LEMMA RowOf ==
    ASSUME NEW r \in Nat
    PROVE  /\ VectorOf(r) \in Nat /\ IndexOf(r) \in Rows
           /\ r = Row(VectorOf(r), IndexOf(r))
<1>1. STANDARD_VECTOR_SIZE \in Nat \ {0}
  BY RowVersionsAssumption, Zenon
<1> QED BY <1>1, DivMod, Zenon DEF VectorOf, IndexOf, Row, Rows

\* Vector and index determine the row and are determined by it.
LEMMA OneRow ==
    ASSUME NEW v \in Nat, NEW i \in Rows, NEW w \in Nat, NEW j \in Rows, Row(v, i) = Row(w, j)
    PROVE  v = w /\ i = j
<1>1. STANDARD_VECTOR_SIZE \in Nat \ {0}
  BY RowVersionsAssumption, Zenon
<1> QED BY <1>1, Unique DEF Row, Rows

\* Where the rows of a vector are.
LEMMA RowInNat ==
    ASSUME NEW v \in Nat, NEW i \in Rows
    PROVE  /\ Row(v, i) \in Nat /\ VectorOf(Row(v, i)) = v /\ IndexOf(Row(v, i)) = i
           /\ Row(v, 0) \in Nat /\ Row(v + 1, 0) \in Nat
           /\ Row(v, 0) <= Row(v, i) /\ Row(v, i) < Row(v + 1, 0)
           /\ Row(v, i) = Row(v, 0) + i
           /\ Row(v + 1, 0) = Row(v, 0) + STANDARD_VECTOR_SIZE
<1>1. STANDARD_VECTOR_SIZE \in Nat \ {0} /\ i \in 0..(STANDARD_VECTOR_SIZE - 1)
  BY RowVersionsAssumption, Zenon DEF Rows
<1>2. v * STANDARD_VECTOR_SIZE \in Nat /\ (v + 1) * STANDARD_VECTOR_SIZE = v * STANDARD_VECTOR_SIZE + STANDARD_VECTOR_SIZE
  BY <1>1
<1>3. Row(v, i) \in Nat
  BY <1>1, <1>2 DEF Row
<1>4. VectorOf(Row(v, i)) = v /\ IndexOf(Row(v, i)) = i
  BY <1>3, RowOf, OneRow
<1> QED BY <1>1, <1>2, <1>4 DEF Row

\* Vectors, rows and counts are numbers.
LEMMA Numbers ==
           /\ \A v \in Vectors : v \in Nat
           /\ \A n \in 0..MAX_ROWS : n \in Nat
           /\ \A i \in Rows : i \in Nat
<1>1. \A v \in Vectors : v \in Nat
  BY DEF Vectors
<1>2. \A n \in 0..MAX_ROWS : n \in Nat
  OBVIOUS
<1>3. \A i \in Rows : i \in Nat
  BY DEF Rows
<1> QED BY <1>1, <1>2, <1>3, Zenon

\* An order of numbers.
LEMMA Between ==
    ASSUME NEW a \in Nat, NEW b \in Nat, NEW c \in Nat
    PROVE  /\ a <= b /\ b < c => a < c
           /\ a < b /\ b <= c => a < c
           /\ a <= b /\ b <= c => a <= c
           /\ ~(a <= b /\ b < a)
  OBVIOUS

\* The entry that a transaction commits, reverts or rolls back is one of its
\* undo buffer.
LEMMA EntryPosition ==
    ASSUME RowTypes, PhaseInv, NEW t \in Txns,
           CommitEntry(t) \/ RevertCommitEntry(t) \/ RollbackEntry(t)
    PROVE  pos[t] \in 1..Len(undo[t])
<1>1. pos[t] \in Nat /\ stop[t] \in Nat /\ undo[t] \in Seq(Entries)
  BY Zenon DEF RowTypes, PlainTypes
<1>2. Len(undo[t]) \in Nat
  BY <1>1
<1>3. CASE CommitEntry(t)
  <2>1. pos[t] <= Len(undo[t]) /\ 0 < pos[t]
    BY <1>3, Zenon DEF CommitEntry, PhaseInv, PositionInv
  <2> QED BY <2>1, <1>1, <1>2
<1>4. CASE RevertCommitEntry(t)
  <2>1. pos[t] \in 1..stop[t] /\ stop[t] <= Len(undo[t])
    BY <1>4, Zenon DEF RevertCommitEntry, PhaseInv, PositionInv
  <2> QED BY <2>1, <1>1, <1>2
<1>5. CASE RollbackEntry(t)
  <2>1. pos[t] <= Len(undo[t]) /\ pos[t] > 0
    BY <1>5, Zenon DEF RollbackEntry, PhaseInv, PositionInv
  <2> QED BY <2>1, <1>1, <1>2
<1> QED BY <1>3, <1>4, <1>5, Zenon

\* Vectors follow each other.
LEMMA RowOrder ==
    ASSUME NEW v \in Nat, NEW w \in Nat, v < w
    PROVE  Row(v + 1, 0) <= Row(w, 0)
<1>1. STANDARD_VECTOR_SIZE \in Nat \ {0}
  BY RowVersionsAssumption, Zenon
<1>2. (v + 1) * STANDARD_VECTOR_SIZE <= w * STANDARD_VECTOR_SIZE
  BY <1>1, Times, Zenon
<1>3. (v + 1) * STANDARD_VECTOR_SIZE \in Nat /\ w * STANDARD_VECTOR_SIZE \in Nat
  BY <1>1
<1> QED BY <1>2, <1>3 DEF Row

\* Comparing vectors is comparing their first rows.
LEMMA RowBounds ==
    ASSUME NEW v \in Nat, NEW r \in Nat
    PROVE  /\ VectorOf(r) < v <=> r < Row(v, 0)
           /\ v <= VectorOf(r) <=> Row(v, 0) <= r
           /\ v = VectorOf(r) => Row(v, 0) <= r /\ r < Row(v + 1, 0) /\ r = Row(v, 0) + IndexOf(r)
<1>0. 0 \in Rows
  BY RowVersionsAssumption DEF Rows
<1>1. /\ VectorOf(r) \in Nat /\ IndexOf(r) \in Rows /\ r = Row(VectorOf(r), IndexOf(r))
  BY RowOf, Zenon
<1>2. /\ Row(VectorOf(r), 0) \in Nat /\ Row(VectorOf(r) + 1, 0) \in Nat
      /\ Row(VectorOf(r), 0) <= r /\ r < Row(VectorOf(r) + 1, 0)
      /\ r = Row(VectorOf(r), 0) + IndexOf(r)
  BY <1>1, RowInNat, Zenon
<1>3. Row(v, 0) \in Nat /\ Row(v + 1, 0) \in Nat /\ Row(v, 0) <= Row(v + 1, 0)
  BY <1>0, RowInNat
<1>4. VectorOf(r) < v => Row(VectorOf(r) + 1, 0) <= Row(v, 0)
  BY <1>1, RowOrder, Zenon
<1>5. v < VectorOf(r) => Row(v + 1, 0) <= Row(VectorOf(r), 0)
  BY <1>1, RowOrder, Zenon
<1> QED BY <1>1, <1>2, <1>3, <1>4, <1>5

\* The rows of an append are in the vectors it spans, between its bounds there.
LEMMA SpanIn ==
    ASSUME NEW a \in Nat, NEW b \in Nat, NEW v \in Vectors, NEW i \in Rows,
           a <= Row(v, i), Row(v, i) < b
    PROVE  /\ v \in Spanned(a, b) /\ VectorStart(v, a) <= i /\ i < VectorEnd(v, b)
           /\ VectorStart(v, a) \in Nat /\ VectorEnd(v, b) \in Nat
<1> DEFINE S == STANDARD_VECTOR_SIZE
<1>1. v \in Nat /\ S \in Nat \ {0} /\ i \in 0..(S - 1)
  BY RowVersionsAssumption DEF Vectors, Rows
<1>2. /\ Row(v, i) \in Nat /\ Row(v, 0) \in Nat /\ Row(v, i) = Row(v, 0) + i
      /\ Row(v + 1, 0) = Row(v, 0) + S
  BY <1>1, RowInNat, Zenon
<1>3. b - 1 \in Nat
  BY <1>2
<1>4. /\ VectorOf(a) \in Nat /\ IndexOf(a) \in 0..(S - 1)
      /\ VectorOf(b - 1) \in Nat /\ IndexOf(b - 1) \in 0..(S - 1)
  BY <1>3, RowOf, Zenon DEF Rows
<1> HIDE DEF S
<1>5. VectorOf(a) <= v
  <2>1. v + 1 <= VectorOf(a) => Row(v + 1, 0) <= a
    BY <1>1, <1>4, RowBounds
  <2> QED BY <2>1, <1>1, <1>2, <1>4
<1>6. v <= VectorOf(b - 1)
  BY <1>1, <1>2, <1>3, RowBounds
<1>7. VectorStart(v, a) <= i /\ VectorStart(v, a) \in Nat
  <2>1. v = VectorOf(a) => a = Row(v, 0) + IndexOf(a)
    BY <1>1, RowBounds, Zenon
  <2> QED BY <2>1, <1>1, <1>2, <1>4 DEF VectorStart
<1>8. i < VectorEnd(v, b) /\ VectorEnd(v, b) \in Nat
  <2>1. v = VectorOf(b - 1) => b - 1 = Row(v, 0) + IndexOf(b - 1)
    BY <1>1, <1>3, RowBounds, Zenon
  <2> QED BY <2>1, <1>1, <1>2, <1>4 DEF VectorEnd, S
<1> QED BY <1>5, <1>6, <1>7, <1>8, Zenon DEF Spanned

\* A vector that an append spans has one of its rows.
LEMMA SpanRow ==
    ASSUME NEW a \in Nat, NEW b \in Nat, a < b, NEW v \in Spanned(a, b)
    PROVE  /\ VectorStart(v, a) \in Rows
           /\ a <= Row(v, VectorStart(v, a)) /\ Row(v, VectorStart(v, a)) < b
           /\ Row(v + 1, 0) > a
           /\ VectorStart(v, a) = 0 => a <= Row(v, 0)
           /\ VectorEnd(v, b) = STANDARD_VECTOR_SIZE => Row(v + 1, 0) <= b
<1> DEFINE S == STANDARD_VECTOR_SIZE
<1>1. /\ v \in Vectors /\ v \in Nat /\ S \in Nat \ {0} /\ Rows = 0..(S - 1) /\ 0 \in Rows
      /\ VectorOf(a) <= v /\ v <= VectorOf(b - 1)
  BY RowVersionsAssumption DEF Vectors, Rows, Spanned
<1>3. b - 1 \in Nat
  OBVIOUS
<1>4. /\ VectorOf(a) \in Nat /\ IndexOf(a) \in 0..(S - 1)
      /\ VectorOf(b - 1) \in Nat /\ IndexOf(b - 1) \in 0..(S - 1)
  BY <1>3, RowOf, Zenon DEF Rows
<1>2. /\ Row(v, 0) \in Nat /\ Row(v + 1, 0) = Row(v, 0) + S
      /\ Row(v, IndexOf(a)) = Row(v, 0) + IndexOf(a)
  BY <1>1, <1>4, RowInNat, Zenon
<1> HIDE DEF S
<1>5. Row(v, 0) <= b - 1
  BY <1>1, <1>3, RowBounds, Zenon
<1>6. VectorOf(a) < v => a < Row(v, 0)
  BY <1>1, RowBounds, Zenon
<1>7. v = VectorOf(a) => a = Row(v, 0) + IndexOf(a)
  BY <1>1, RowBounds, Zenon
<1>8. v < VectorOf(b - 1) => Row(v + 1, 0) <= b - 1
  <2>1. v + 1 <= VectorOf(b - 1) <=> Row(v + 1, 0) <= b - 1
    BY <1>1, <1>3, RowBounds
  <2> QED BY <2>1, <1>1, <1>4
<1>9. v = VectorOf(b - 1) => b - 1 = Row(v, 0) + IndexOf(b - 1)
  BY <1>1, <1>3, RowBounds, Zenon
<1>12. VectorEnd(v, b) = S => Row(v + 1, 0) <= b
  <2>1. CASE v = VectorOf(b - 1)
    <3>1. VectorEnd(v, b) = IndexOf(b - 1) + 1
      BY <2>1, Zenon DEF VectorEnd
    <3> QED BY <3>1, <2>1, <1>2, <1>3, <1>4, <1>9
  <2>2. CASE v < VectorOf(b - 1)
    BY <2>2, <1>1, <1>2, <1>3, <1>8
  <2> QED BY <2>1, <2>2, <1>1, <1>4
<1>10. CASE v = VectorOf(a)
  <2>1. VectorStart(v, a) = IndexOf(a)
    BY <1>10, Zenon DEF VectorStart
  <2>2. IndexOf(a) \in Rows /\ a = Row(v, IndexOf(a))
    BY <1>1, <1>2, <1>4, <1>7, <1>10, Zenon
  <2>3. ASSUME NEW s \in Nat, NEW r \in Nat, NEW i \in 0..(s - 1)
        PROVE  r + i <= r + i /\ r + s > r + i /\ (i = 0 => r + i <= r)
    OBVIOUS
  <2>4. a <= a /\ Row(v + 1, 0) > a /\ (IndexOf(a) = 0 => a <= Row(v, 0))
    BY <1>1, <1>2, <1>4, <1>7, <1>10, <2>3, Zenon
  <2> QED BY <2>1, <2>2, <2>4, <1>12, Zenon DEF S
<1>11. CASE VectorOf(a) < v
  <2>1. VectorStart(v, a) = 0
    BY <1>11, <1>1, <1>4 DEF VectorStart
  <2>2. a <= Row(v, 0) /\ Row(v, 0) < b /\ Row(v + 1, 0) > a
    BY <1>1, <1>2, <1>3, <1>5, <1>6, <1>11
  <2> QED BY <2>1, <2>2, <1>1, <1>12, Zenon DEF S
<1> QED BY <1>10, <1>11, <1>1, <1>4

\* RevertAppend drops the vectors that begin at or after the new count.
LEMMA RevertedRows ==
    ASSUME NEW n \in Nat, NEW v \in Nat
    PROVE  v >= FirstReverted(n) <=> n <= Row(v, 0)
<1> DEFINE S == STANDARD_VECTOR_SIZE
           r == n + S - 1
<1>1. S \in Nat \ {0} /\ r \in Nat /\ 0 \in Rows
  BY RowVersionsAssumption DEF Rows
<1>2. FirstReverted(n) = VectorOf(r)
  BY Zenon DEF FirstReverted, VectorOf
<1>3. VectorOf(r) < v + 1 <=> r < Row(v + 1, 0)
  BY <1>1, RowBounds
<1>4. Row(v + 1, 0) = Row(v, 0) + S /\ Row(v, 0) \in Nat
  BY <1>1, RowInNat, Zenon
<1>5. VectorOf(r) \in Nat
  BY <1>1, RowOf, Zenon
<1> HIDE DEF S
<1> QED BY <1>1, <1>2, <1>3, <1>4, <1>5

\* What sorting a list of rows relies on: the ranks of the rows are the
\* positions.
Ranks == \A m \in Nat : \A K \in SUBSET (1..m) :
            /\ Cardinality(K) \in 0..m
            /\ {Cardinality({k \in K : k < j}) : j \in K} = 0..(Cardinality(K) - 1)

\* What an undo entry names.
LEMMA EntryRows ==
    ASSUME PlainTypes, NEW t \in Txns, NEW k \in 1..Len(undo[t])
    PROVE  /\ undo[t][k] \in Entries /\ undo[t] \in Seq(Entries)
           /\ undo[t][k].type = "delete" =>
                undo[t][k].vector \in Vectors /\ DeletedRows(undo[t][k]) \subseteq Rows
           /\ undo[t][k].type = "append" =>
                /\ undo[t][k].start \in 0..MAX_ROWS /\ undo[t][k].count \in Nat \ {0}
                /\ undo[t][k].start \in Nat
           /\ undo[t][k].type \in {"delete", "append"}
<1>1. undo[t] \in Seq(Entries)
  BY Zenon DEF PlainTypes
<1>2. undo[t][k] \in Entries
  BY <1>1
<1>3. STANDARD_VECTOR_SIZE \in Nat /\ MAX_ROWS \in Nat
  BY RowVersionsAssumption
<1> QED BY <1>1, <1>2, <1>3 DEF Entries, DeletedRows, Rows

\* What DataTable::Delete passes to a row group.
LEMMA InputRows ==
    ASSUME PlainTypes, NEW t \in Txns, NEW v, NEW rows \in DeleteInput(t, v)
    PROVE  /\ rows \in Seq(Rows) /\ Len(rows) \in 1..STANDARD_VECTOR_SIZE
           /\ DOMAIN rows = 1..Len(rows)
           /\ \A j \in 1..Len(rows) : rows[j] \in Rows
<1> DEFINE visible == {i \in Rows : t \in Writers /\ v * STANDARD_VECTOR_SIZE + i \in Scan(t)}
           allowed == IF RepeatedRows THEN visible \cup DeletedBy(t, v) ELSE visible
<1>1. rows \in UNION {[1..n -> allowed] : n \in 1..STANDARD_VECTOR_SIZE}
  BY Zenon DEF DeleteInput
<1>2. DeletedBy(t, v) \subseteq Rows
  <2> SUFFICES ASSUME NEW i \in DeletedBy(t, v) PROVE i \in Rows
    BY Zenon
  <2>1. PICK j \in 1..Len(undo[t]) : undo[t][j].type = "delete" /\ i \in DeletedRows(undo[t][j])
    BY Zenon DEF DeletedBy
  <2> QED BY <2>1, EntryRows, Zenon
<1>3. allowed \subseteq Rows
  BY <1>2, Zenon
<1> HIDE DEF allowed
<1>4. PICK n \in 1..STANDARD_VECTOR_SIZE : rows \in [1..n -> allowed]
  BY <1>1, Zenon
<1>5. rows \in [1..n -> Rows] /\ n \in Nat
  BY <1>3, <1>4, RowVersionsAssumption
<1>6. rows \in Seq(Rows) /\ Len(rows) = n
  BY <1>5
<1> QED BY <1>4, <1>5, <1>6, Zenon

\* The undo entry of a delete names the rows that were newly marked, whether or
\* not it stores a list.
LEMMA EntryTyped ==
    ASSUME PlainTypes, Ranks, NEW t \in Txns, NEW v \in Vectors, NEW rows \in DeleteInput(t, v), NEW info
    PROVE  /\ DeleteEntry(t, v, info, rows) \in Entries
           /\ DeleteEntry(t, v, info, rows).type = "delete"
           /\ DeleteEntry(t, v, info, rows).vector = v
           /\ DeletedRows(DeleteEntry(t, v, info, rows))
                 = {rows[j] : j \in NewlyDeleted(t, info, rows, Len(rows))}
<1> DEFINE new == NewlyDeleted(t, info, rows, Len(rows))
           consecutive == \A j \in new : rows[j] = Cardinality({k \in new : k < j})
           e == DeleteEntry(t, v, info, rows)
<1>1. /\ rows \in Seq(Rows) /\ Len(rows) \in 1..STANDARD_VECTOR_SIZE
      /\ \A j \in 1..Len(rows) : rows[j] \in Rows
  BY InputRows, Zenon
<1>2. new \in SUBSET (1..Len(rows)) /\ Len(rows) \in Nat /\ STANDARD_VECTOR_SIZE \in Nat
  BY <1>1, RowVersionsAssumption DEF NewlyDeleted
<1>3. e = [type |-> "delete", vector |-> v, count |-> Cardinality(new),
           is_consecutive |-> consecutive,
           rows |-> IF consecutive THEN {} ELSE {rows[j] : j \in new}]
  BY Zenon DEF DeleteEntry
<1> HIDE DEF new, e
<1>4. /\ Cardinality(new) \in 0..Len(rows)
      /\ {Cardinality({k \in new : k < j}) : j \in new} = 0..(Cardinality(new) - 1)
  BY <1>2, Zenon DEF Ranks
<1>5. Cardinality(new) \in 0..STANDARD_VECTOR_SIZE
  BY <1>4, <1>1, <1>2
<1>6. {rows[j] : j \in new} \subseteq Rows
  BY <1>1, <1>2, Zenon
<1>7. consecutive \in BOOLEAN
  BY Zenon
<1>8. CASE consecutive
  <2>1. {rows[j] : j \in new} = {Cardinality({k \in new : k < j}) : j \in new}
    BY <1>8, Zenon
  <2> DEFINE marked == {rows[j] : j \in new}
  <2>2. e = [type |-> "delete", vector |-> v, count |-> Cardinality(new),
             is_consecutive |-> TRUE, rows |-> {}]
    BY <1>3, <1>8, Zenon
  <2>3. marked = 0..(Cardinality(new) - 1)
    BY <2>1, <1>4, Zenon
  <2> HIDE DEF consecutive, marked
  <2>4. e \in Entries /\ e.type = "delete" /\ e.vector = v /\ DeletedRows(e) = marked
    BY <1>5, <2>2, <2>3, Zenon DEF Entries, DeletedRows
  <2> QED BY <2>4, Zenon DEF e, new, marked
<1>9. CASE ~consecutive
  <2> DEFINE marked == {rows[j] : j \in new}
  <2>2. e = [type |-> "delete", vector |-> v, count |-> Cardinality(new),
             is_consecutive |-> FALSE, rows |-> marked]
    BY <1>3, <1>9, Zenon
  <2>3. marked \in SUBSET Rows
    BY <1>6, Zenon
  <2> HIDE DEF consecutive, marked
  <2>4. e \in Entries /\ e.type = "delete" /\ e.vector = v /\ DeletedRows(e) = marked
    BY <1>5, <2>2, <2>3, Zenon DEF Entries, DeletedRows
  <2> QED BY <2>4, Zenon DEF e, new, marked
<1> QED BY <1>8, <1>9, Zenon

\* The counters are where no timestamp can be taken for an id, and no id for
\* NOT_DELETED_ID.
Low == current_timestamp < TRANSACTION_ID_START /\ current_transaction_id < NOT_DELETED_ID

\* The ids of transactions are stamps.
LEMMA StampsHave ==
    ASSUME PlainTypes, IdInv
    PROVE  /\ 0 \in Stamps /\ NOT_DELETED_ID \in Stamps
           /\ \A t \in Txns : commit_id[t] \in Stamps
           /\ \A t \in Txns : pc[t] # "idle" => transaction_id[t] \in Stamps
<1>1. /\ start_time \in [Txns -> Nat] /\ transaction_id \in [Txns -> Nat]
      /\ commit_id \in [Txns -> Nat] /\ TRANSACTION_ID_START \in Nat
      /\ current_timestamp \in Nat /\ current_transaction_id \in Nat
  BY RowVersionsAssumption, Zenon DEF PlainTypes
<1>2. 0 \in Stamps /\ NOT_DELETED_ID \in Stamps
  BY <1>1 DEF IdInv, Stamps, FIRST_COMMIT
<1>3. ASSUME NEW t \in Txns PROVE commit_id[t] \in Stamps
  BY <1>1 DEF IdInv, Stamps
<1>4. ASSUME NEW t \in Txns, pc[t] # "idle" PROVE transaction_id[t] \in Stamps
  BY <1>4, <1>1 DEF IdInv, Stamps
<1> QED BY <1>2, <1>3, <1>4, Zenon

\* The ChunkInfos in memory and in storage are well formed.
LEMMA InfoTyped ==
    ASSUME RowTypes, NEW v \in Vectors
    PROVE  vector_info[v] \in InfosOver(Stamps) /\ storage[v] \in InfosOver(Stamps)
  BY InfosAre, Zenon DEF RowTypes

\* Setting any_deleted changes nothing else.
LEMMA AnyDeleted ==
    ASSUME NEW T, NEW info \in ChunkVectors(T)
    PROVE  /\ [info EXCEPT !.any_deleted = TRUE] \in ChunkVectors(T)
           /\ [info EXCEPT !.any_deleted = TRUE].deleted = info.deleted
           /\ [info EXCEPT !.any_deleted = TRUE].any_deleted = TRUE
           /\ \A i \in Rows : /\ InsertStamp([info EXCEPT !.any_deleted = TRUE], i) = InsertStamp(info, i)
                              /\ Mark([info EXCEPT !.any_deleted = TRUE], i) = Mark(info, i)
  BY Zenon DEF ChunkVectors, InsertStamp, Mark

\* A transaction has one append at most, and is then the committer.
LEMMA OneAppend ==
    ASSUME OwnerInv, NEW t \in Txns, NEW n, AppendsFrom(t, n)
    PROVE  /\ committer = t
           /\ undo[t][Len(undo[t])].start = n /\ undo[t][Len(undo[t])].type = "append"
           /\ \A k \in 1..Len(undo[t]) : undo[t][k].type = "append" => undo[t][k].start = n
<1>1. PICK k \in 1..Len(undo[t]) : undo[t][k].type = "append" /\ undo[t][k].start = n
  BY Zenon DEF AppendsFrom
<1>2. k = Len(undo[t])
  BY <1>1, Zenon DEF OwnerInv
<1>3. \A l \in 1..Len(undo[t]) : undo[t][l].type = "append" => l = Len(undo[t])
  BY Zenon DEF OwnerInv
<1>4. committer = t
  BY <1>1, Zenon DEF OwnerInv, AppendsFrom, Appending, Finishing
<1> QED BY <1>1, <1>2, <1>3, <1>4, Zenon

\* Where the append of an undo entry begins.
LEMMA AppendsOf ==
    ASSUME PlainTypes, NEW t \in Txns, NEW k \in 1..Len(undo[t]), undo[t][k].type = "append",
           pc[t] \in Appending
    PROVE  undo[t][k].start \in 0..MAX_ROWS /\ AppendsFrom(t, undo[t][k].start)
  BY EntryRows, Zenon DEF AppendsFrom, Appending

\* No append appears when the undo buffers stay and nobody else becomes one that may have one.
LEMMA AppendsStay ==
    ASSUME NEW t \in Txns, undo'[t] = undo[t], pc'[t] \in Appending => pc[t] \in Appending,
           NEW n, AppendsFrom(t, n)'
    PROVE  AppendsFrom(t, n)
  BY Zenon DEF AppendsFrom, Appending

\* AppendVersionInfo: the types, the new rows, and the other vectors.
LEMMA FlushVectors ==
    ASSUME RowTypes, PhaseInv, AppendInv, NEW t \in Txns, pc[t] # "idle", NEW n \in Nat, n > 0,
           count + n <= MAX_ROWS, ~requires_new_row_group,
           vector_info' = AppendVersionInfo(count, count + n, transaction_id[t])
    PROVE  /\ vector_info' \in [Vectors -> InfosOver(Stamps)]
           /\ \A v \in Vectors, i \in Rows : count <= Row(v, i) /\ Row(v, i) < count + n =>
                /\ vector_info'[v].type # "none"
                /\ InsertStamp(vector_info'[v], i) = transaction_id[t]
           /\ \A v \in Vectors : vector_info'[v].type = "constant" =>
                \/ vector_info[v].type = "constant"
                \/ count <= Row(v, 0) /\ Row(v + 1, 0) <= count + n
           /\ \A v \in Vectors : \/ vector_info'[v] = vector_info[v]
                                 \/ count <= Row(v, 0) /\ vector_info'[v] = ConstantInfo(transaction_id[t], NOT_DELETED_ID)
                                 \/ \E info \in ChunkVectors(Stamps), a, b \in Nat :
                                      /\ info = vector_info[v] \/ (info = VectorInfo(0) /\ vector_info[v].type = "none")
                                      /\ vector_info'[v] = Append1(info, a, b, transaction_id[t])
<1> DEFINE id == transaction_id[t]
           old(v) == IF vector_info[v].type = "none" THEN VectorInfo(0) ELSE vector_info[v]
           one(v) == Append1(old(v), VectorStart(v, count), VectorEnd(v, count + n), id)
           const == ConstantInfo(id, NOT_DELETED_ID)
<1>1. count \in Nat /\ count + n \in Nat /\ count < count + n
  BY RowVersionsAssumption DEF RowTypes, PlainTypes
<1>2. /\ 0 \in Stamps /\ NOT_DELETED_ID \in Stamps /\ id \in Stamps
  BY StampsHave, Zenon DEF RowTypes, PhaseInv
<1>3. const \in Constants(Stamps) /\ const.type = "constant" /\ const.insert_id = id
  BY <1>2, Zenon DEF ConstantInfo, Constants
<1>4. \A v \in Vectors :
        vector_info'[v] = IF v \notin Spanned(count, count + n) THEN vector_info[v]
                          ELSE IF VectorStart(v, count) = 0 /\ VectorEnd(v, count + n) = STANDARD_VECTOR_SIZE
                               THEN const ELSE one(v)
  BY Zenon DEF AppendVersionInfo
<1>5. DOMAIN vector_info' = Vectors /\ vector_info' = [v \in Vectors |-> vector_info'[v]]
  BY Zenon DEF AppendVersionInfo
<1>6. ASSUME NEW v \in Spanned(count, count + n)
      PROVE  /\ old(v) \in ChunkVectors(Stamps)
             /\ VectorStart(v, count) \in Nat /\ VectorEnd(v, count + n) \in Nat
             /\ one(v) \in ChunkVectors(Stamps)
  <2>1. v \in Vectors /\ v \in Nat
    BY DEF Spanned, Vectors
  <2>2. VectorStart(v, count) \in Rows /\ Row(v + 1, 0) > count
        /\ count <= Row(v, VectorStart(v, count)) /\ Row(v, VectorStart(v, count)) < count + n
    BY <1>1, SpanRow, Zenon
  <2>3. vector_info[v].type # "constant"
    <3> SUFFICES ASSUME vector_info[v].type = "constant" PROVE FALSE
      BY Zenon
    <3>1. Row(v + 1, 0) <= count
      BY <2>1, Zenon DEF AppendInv, ConstantInv
    <3>2. Row(v + 1, 0) \in Nat
      BY <2>1, <2>2, RowInNat, Zenon
    <3> QED BY <2>2, <3>1, <3>2, <1>1
  <2>4. vector_info[v] \in InfosOver(Stamps)
    BY <2>1, InfoTyped, Zenon
  <2>5. VectorInfo(0) \in ChunkVectors(Stamps)
    BY <1>2, VectorInfoType, Zenon
  <2>6. old(v) \in ChunkVectors(Stamps)
    <3>1. vector_info[v] \in Constants(Stamps) => vector_info[v].type = "constant"
      BY Zenon DEF Constants
    <3>2. vector_info[v] \in Nones => vector_info[v].type = "none"
      BY Zenon DEF Nones
    <3> QED BY <2>3, <2>4, <2>5, <3>1, <3>2, Zenon DEF InfosOver
  <2>7. VectorStart(v, count) \in Nat /\ VectorEnd(v, count + n) \in Nat
    BY <2>1, <2>2, <1>1, SpanIn, Zenon DEF Rows
  <2> HIDE DEF old
  <2>8. one(v) \in ChunkVectors(Stamps)
    BY <2>6, <1>2, Append1Type, Zenon
  <2> QED BY <2>6, <2>7, <2>8, Zenon DEF old
<1>7. vector_info' \in [Vectors -> InfosOver(Stamps)]
  <2>1. ASSUME NEW v \in Vectors PROVE vector_info'[v] \in InfosOver(Stamps)
    <3>1. vector_info[v] \in InfosOver(Stamps)
      BY InfoTyped, Zenon
    <3> HIDE DEF const, one
    <3> QED BY <3>1, <1>3, <1>4, <1>6, Zenon DEF InfosOver
  <2> QED BY <1>5, <2>1, Zenon
<1>8. ASSUME NEW v \in Vectors, NEW i \in Rows, count <= Row(v, i), Row(v, i) < count + n
      PROVE  vector_info'[v].type # "none" /\ InsertStamp(vector_info'[v], i) = id
  <2>1. v \in Spanned(count, count + n) /\ VectorStart(v, count) <= i /\ i < VectorEnd(v, count + n)
    BY <1>1, <1>8, SpanIn, Zenon
  <2>2. CASE vector_info'[v] = const
    BY <2>2, <1>3, Zenon DEF InsertStamp
  <2>3. CASE vector_info'[v] = one(v)
    <3>1. /\ old(v) \in ChunkVectors(Stamps)
          /\ VectorStart(v, count) \in Nat /\ VectorEnd(v, count + n) \in Nat
          /\ one(v) \in ChunkVectors(Stamps)
      BY <2>1, <1>6, Zenon
    <3> HIDE DEF old, id
    <3>2. InsertStamp(one(v), i) = id
      BY <3>1, <2>1, <1>2, Append1Stamp
    <3> HIDE DEF one
    <3>3. one(v).type = "vector"
      BY <3>1, Zenon DEF ChunkVectors
    <3> QED BY <2>3, <3>2, <3>3, Zenon
  <2> HIDE DEF const, one
  <2> QED BY <2>1, <2>2, <2>3, <1>4, Zenon
<1>9. ASSUME NEW v \in Vectors, vector_info'[v].type = "constant"
      PROVE  \/ vector_info[v].type = "constant"
             \/ count <= Row(v, 0) /\ Row(v + 1, 0) <= count + n
  <2>1. CASE v \notin Spanned(count, count + n)
    BY <2>1, <1>4, <1>9, Zenon
  <2>2. CASE v \in Spanned(count, count + n)
    <3>1. one(v).type # "constant"
      <4>1. one(v) \in ChunkVectors(Stamps)
        BY <2>2, <1>6, Zenon
      <4> HIDE DEF one
      <4> QED BY <4>1, Zenon DEF ChunkVectors
    <3>2. VectorStart(v, count) = 0 /\ VectorEnd(v, count + n) = STANDARD_VECTOR_SIZE
      <4> HIDE DEF one, const
      <4> QED BY <2>2, <3>1, <1>4, <1>9, Zenon
    <3> QED BY <3>2, <2>2, <1>1, SpanRow, Zenon
  <2> QED BY <2>1, <2>2, Zenon
<1>10. ASSUME NEW v \in Vectors
       PROVE  \/ vector_info'[v] = vector_info[v]
              \/ count <= Row(v, 0) /\ vector_info'[v] = const
              \/ \E info \in ChunkVectors(Stamps), a, b \in Nat :
                   /\ info = vector_info[v] \/ (info = VectorInfo(0) /\ vector_info[v].type = "none")
                   /\ vector_info'[v] = Append1(info, a, b, id)
  <2>1. CASE v \notin Spanned(count, count + n)
    BY <2>1, <1>4, Zenon
  <2>2. CASE v \in Spanned(count, count + n) /\ vector_info'[v] = one(v)
    BY <2>2, <1>6, Zenon
  <2>3. CASE v \in Spanned(count, count + n) /\ VectorStart(v, count) = 0 /\ vector_info'[v] = const
    <3>1. count <= Row(v, 0)
      BY <2>3, <1>1, SpanRow, Zenon
    <3> QED BY <2>3, <3>1, Zenon
  <2> HIDE DEF one, const
  <2> QED BY <2>1, <2>2, <2>3, <1>4, Zenon
<1> QED BY <1>7, <1>8, <1>9, <1>10, Zenon

\* Committing an append stamps all of its rows, and keeps the kinds of the
\* ChunkInfos.
LEMMA StampAppend ==
    ASSUME RowTypes, PhaseInv, AppendInv, NEW t \in Txns, pc[t] = "stamping",
           NEW k \in 1..Len(undo[t]), NEW e, e = undo[t][k], e.type = "append",
           vector_info' = Stamped(e, commit_id[t])
    PROVE  /\ vector_info' \in [Vectors -> InfosOver(Stamps)]
           /\ AppendsFrom(t, e.start) /\ e.start \in 0..MAX_ROWS
           /\ \A v \in Vectors : vector_info'[v].type = vector_info[v].type
           /\ \A v \in Vectors, i \in Rows : e.start <= Row(v, i) /\ Row(v, i) < count =>
                InsertStamp(vector_info'[v], i) = commit_id[t]
           /\ \A v \in Vectors :
                \/ vector_info'[v] = vector_info[v]
                \/ /\ vector_info[v] \in Constants(Stamps) \cup ChunkVectors(Stamps)
                   /\ \E a, b \in Nat : vector_info'[v] = CommitAppend1(vector_info[v], a, b, commit_id[t])
<1> DEFINE id == commit_id[t]
           end == e.start + e.count
           one(v) == CommitAppend1(vector_info[v], VectorStart(v, e.start), VectorEnd(v, end), id)
<1>1. /\ e.start \in 0..MAX_ROWS /\ e.start \in Nat /\ e.count \in Nat \ {0}
  BY EntryRows, Zenon DEF RowTypes
<1>2. id \in Stamps
  BY StampsHave, Zenon DEF RowTypes, PhaseInv
<1>3. AppendsFrom(t, e.start)
  BY AppendsOf, Zenon DEF RowTypes, Appending, Finishing
<1>4. end \in Nat /\ e.start < end /\ count = end
  <2>1. count = end
    BY Zenon DEF AppendInv, EndInv
  <2> QED BY <2>1, <1>1
<1>5. \A v \in Vectors : vector_info'[v] = IF v \notin Spanned(e.start, end) THEN vector_info[v] ELSE one(v)
  BY Zenon DEF Stamped
<1>6. DOMAIN vector_info' = Vectors /\ vector_info' = [v \in Vectors |-> vector_info'[v]]
  BY Zenon DEF Stamped
<1> HIDE DEF id, end
<1>7. ASSUME NEW v \in Spanned(e.start, end)
      PROVE  /\ vector_info[v] \in Constants(Stamps) \cup ChunkVectors(Stamps)
             /\ VectorStart(v, e.start) \in Nat /\ VectorEnd(v, end) \in Nat
             /\ one(v) \in Constants(Stamps) \cup ChunkVectors(Stamps)
             /\ one(v).type = vector_info[v].type
  <2>1. v \in Vectors
    BY Zenon DEF Spanned
  <2>2. /\ VectorStart(v, e.start) \in Rows
        /\ e.start <= Row(v, VectorStart(v, e.start)) /\ Row(v, VectorStart(v, e.start)) < end
    BY <1>1, <1>4, SpanRow, Zenon
  <2>3. Hidden(t, v, VectorStart(v, e.start))
    BY <1>1, <1>3, <1>4, <2>1, <2>2, Zenon DEF AppendInv, FreshInv, Fresh
  <2>4. vector_info[v].type # "none"
    BY <2>3, Zenon DEF Hidden
  <2>5. vector_info[v] \in Constants(Stamps) \cup ChunkVectors(Stamps)
    <3>1. vector_info[v] \in InfosOver(Stamps)
      BY <2>1, InfoTyped, Zenon
    <3>2. vector_info[v] \in Nones => vector_info[v].type = "none"
      BY Zenon DEF Nones
    <3> QED BY <2>4, <3>1, <3>2, Zenon DEF InfosOver
  <2>6. VectorStart(v, e.start) \in Nat /\ VectorEnd(v, end) \in Nat
    BY <2>1, <2>2, <1>1, <1>4, SpanIn, Zenon
  <2>7. one(v) \in Constants(Stamps) \cup ChunkVectors(Stamps) /\ one(v).type = vector_info[v].type
    <3>1. one(v) \in Constants(Stamps) \cup ChunkVectors(Stamps) /\ KeepsDeletes(one(v), vector_info[v])
      BY <2>5, <1>2, CommitAppend1Type, Zenon
    <3> QED BY <3>1, Zenon DEF KeepsDeletes
  <2> HIDE DEF one
  <2> QED BY <2>5, <2>6, <2>7, Zenon
<1>8. ASSUME NEW v \in Vectors PROVE vector_info'[v] \in InfosOver(Stamps)
  <2>1. vector_info[v] \in InfosOver(Stamps)
    BY InfoTyped, Zenon
  <2> HIDE DEF one
  <2> QED BY <2>1, <1>5, <1>7, Zenon DEF InfosOver
<1>9. ASSUME NEW v \in Vectors PROVE vector_info'[v].type = vector_info[v].type
  <2> HIDE DEF one
  <2> QED BY <1>5, <1>7, Zenon
<1>10. ASSUME NEW v \in Vectors, NEW i \in Rows, e.start <= Row(v, i), Row(v, i) < count
       PROVE  InsertStamp(vector_info'[v], i) = id
  <2>1. v \in Spanned(e.start, end) /\ VectorStart(v, e.start) <= i /\ i < VectorEnd(v, end)
    BY <1>1, <1>4, <1>10, SpanIn, Zenon
  <2>2. /\ vector_info[v] \in Constants(Stamps) \cup ChunkVectors(Stamps)
        /\ VectorStart(v, e.start) \in Nat /\ VectorEnd(v, end) \in Nat
    BY <2>1, <1>7, Zenon
  <2>3. InsertStamp(one(v), i) = id
    BY <2>1, <2>2, <1>2, CommitAppend1Stamp
  <2> HIDE DEF one
  <2> QED BY <2>1, <2>3, <1>5, Zenon
<1>11. ASSUME NEW v \in Vectors
       PROVE  \/ vector_info'[v] = vector_info[v]
              \/ /\ vector_info[v] \in Constants(Stamps) \cup ChunkVectors(Stamps)
                 /\ \E a, b \in Nat : vector_info'[v] = CommitAppend1(vector_info[v], a, b, id)
  BY <1>5, <1>7, Zenon
<1>12. vector_info' \in [Vectors -> InfosOver(Stamps)]
  BY <1>6, <1>8, Zenon
<1> QED BY <1>1, <1>3, <1>9, <1>10, <1>11, <1>12, Zenon DEF id

\* The vectors that a cleanup drops were filled by a committed append.
LEMMA CleanupVectors ==
    ASSUME RowTypes, PhaseInv, AppendInv, NEW t \in Txns, Cleanup(t)
    PROVE  /\ vector_info' \in [Vectors -> InfosOver(Stamps)]
           /\ \A v \in Vectors :
                \/ vector_info'[v] = vector_info[v]
                \/ /\ vector_info'[v] = NoInfo
                   /\ CleanupInfo(vector_info[v], lowest[t]) /\ vector_info[v].type # "none"
                   /\ \A u \in Txns, n \in 0..MAX_ROWS : AppendsFrom(u, n) => Row(v + 1, 0) <= n
<1> DEFINE appends == {i \in 1..Len(undo[t]) : undo[t][i].type = "append"}
           dropped == UNION {Dropped(undo[t][i], lowest[t]) : i \in appends}
<1>1. /\ vector_info' = [v \in Vectors |-> IF v \in dropped THEN NoInfo ELSE vector_info[v]]
      /\ pc[t] = "committed"
  BY Zenon DEF Cleanup, Goto
<1>2. ASSUME NEW v \in Vectors, v \in dropped
      PROVE  /\ CleanupInfo(vector_info[v], lowest[t]) /\ vector_info[v].type # "none"
             /\ \A u \in Txns, n \in 0..MAX_ROWS : AppendsFrom(u, n) => Row(v + 1, 0) <= n
  <2>1. PICK k \in 1..Len(undo[t]) : undo[t][k].type = "append" /\ v \in Dropped(undo[t][k], lowest[t])
    BY <1>2, Zenon
  <2> DEFINE e == undo[t][k]
             end == e.start + e.count
  <2>2. /\ v \in Spanned(e.start, end) /\ VectorEnd(v, end) = STANDARD_VECTOR_SIZE
        /\ CleanupInfo(vector_info[v], lowest[t]) /\ vector_info[v].type # "none"
    BY <2>1, Zenon DEF Dropped
  <2>3. e.start \in Nat /\ e.count \in Nat \ {0}
    BY <2>1, EntryRows, Zenon DEF RowTypes
  <2>4. \A u \in Txns, n \in 0..MAX_ROWS : AppendsFrom(u, n) => end <= n
    BY <1>1, <2>1, Zenon DEF AppendInv, EndInv
  <2>5. Row(v + 1, 0) <= end
    BY <2>2, <2>3, SpanRow
  <2>6. Row(v + 1, 0) \in Nat
    <3>1. v \in Nat /\ 0 \in Rows
      BY RowVersionsAssumption DEF Vectors, Rows
    <3> QED BY <3>1, RowInNat, Zenon
  <2>7. MAX_ROWS \in Nat
    BY RowVersionsAssumption
  <2>8. end \in Nat
    BY <2>3
  <2> HIDE DEF end, e
  <2> QED BY <2>2, <2>4, <2>5, <2>6, <2>7, <2>8
<1>3. NoInfo \in InfosOver(Stamps)
  BY Zenon DEF NoInfo, InfosOver, Nones
<1> HIDE DEF dropped
<1>4. vector_info' \in [Vectors -> InfosOver(Stamps)]
  BY <1>1, <1>3, InfoTyped, Zenon
<1>5. ASSUME NEW v \in Vectors PROVE vector_info'[v] = IF v \in dropped THEN NoInfo ELSE vector_info[v]
  BY <1>1, Zenon
<1> QED BY <1>2, <1>4, <1>5, Zenon

\* Reverting the open append: the rows are gone, and so are the vectors they started.
LEMMA RevertVectors ==
    ASSUME RowTypes, NEW e, e.start \in Nat, e.start <= count, RevertAppend(e)
    PROVE  /\ vector_info' \in [Vectors -> InfosOver(Stamps)]
           /\ count' = e.start /\ UNCHANGED <<size, has_unserialized_changes>>
           /\ \A v \in Vectors : vector_info'[v] = IF e.start <= Row(v, 0) THEN NoInfo ELSE vector_info[v]
<1>1. /\ vector_info' = [v \in Vectors |-> IF v >= FirstReverted(e.start) THEN NoInfo ELSE vector_info[v]]
      /\ count' = IF e.start < count THEN e.start ELSE count
      /\ UNCHANGED <<size, has_unserialized_changes>>
  BY Zenon DEF RevertAppend
<1>2. count' = e.start
  BY <1>1 DEF RowTypes, PlainTypes
<1>3. NoInfo \in InfosOver(Stamps)
  BY Zenon DEF NoInfo, InfosOver, Nones
<1>4. vector_info' \in [Vectors -> InfosOver(Stamps)]
  BY <1>1, <1>3, InfoTyped, Zenon
<1>5. \A v \in Vectors : v >= FirstReverted(e.start) <=> e.start <= Row(v, 0)
  <2>1. Vectors \subseteq Nat
    BY DEF Vectors
  <2> QED BY <2>1, RevertedRows, Zenon
<1>6. \A v \in Vectors : vector_info'[v] = IF v >= FirstReverted(e.start) THEN NoInfo ELSE vector_info[v]
  BY <1>1, Zenon
<1> QED BY <1>1, <1>2, <1>4, <1>5, <1>6, Zenon

\* A vector without a ChunkInfo has no marks.
LEMMA NoneMark == ASSUME NEW i PROVE Mark(NoInfo, i) = NOT_DELETED_ID /\ Summarised(NoInfo)
  BY Zenon DEF NoInfo, Mark, Summarised

=============================================================================
