-------------------------- MODULE LlmPredictProofs --------------------------
(***************************************************************************)
(* Proofs about LlmPredict, for any set of prompts, any options, and any   *)
(* kinds of replies: the calls ask for different rows of the chunk, every  *)
(* row gets its own answer, and the cache keeps answers under the prompts  *)
(* they belong to.                                                         *)
(***************************************************************************)
EXTENDS LlmPredict, FiniteSetTheorems, TLAPS

-----------------------------------------------------------------------------
(* Spans of rows                                                           *)

(* Entry k of a span of n rows that starts at a is row a + k - 1.          *)
LEMMA SpanEntries ==
  ASSUME NEW a \in Nat \ {0}, NEW n \in Nat \ {0}
  PROVE  /\ \A k \in 1..n : a + k - 1 \in a..(a + n - 1)
         /\ \A i \in a..(a + n - 1) : i - a + 1 \in 1..n /\ i = a + (i - a + 1) - 1
  OBVIOUS

(* The first l answers fill the rows that are not left over.               *)
LEMMA SpanCut ==
  ASSUME NEW a \in Nat \ {0}, NEW n \in Nat \ {0}, NEW l \in Nat
  PROVE  /\ \A i \in (a + l)..(a + n - 1) : i \in a..(a + n - 1) /\ l < n
         /\ \A i \in a..(a + n - 1) : i \notin (a + l)..(a + n - 1) => i - a + 1 <= l
  OBVIOUS

(* A function on 1..n is a sequence of length n.                           *)
LEMMA SequenceOnInterval ==
  ASSUME NEW S, NEW n \in Nat, NEW g \in [1..n -> S]
  PROVE  g \in Seq(S) /\ Len(g) = n
  OBVIOUS

-----------------------------------------------------------------------------
(* The order of the keys                                                   *)

\* The number of smaller elements in a set.
Rank(S, x) == Cardinality({y \in S : y < x})

(* Ranks are below the cardinality and grow with the elements.             *)
LEMMA RankMonotone ==
  ASSUME NEW S \in SUBSET Int, IsFiniteSet(S)
  PROVE  /\ \A x \in S : Rank(S, x) \in 0..(Cardinality(S) - 1)
         /\ \A x, y \in S : x < y => Rank(S, x) < Rank(S, y)
<1>1. \A x \in S : /\ IsFiniteSet({y \in S : y < x}) /\ Rank(S, x) \in Nat
                   /\ Rank(S, x) <= Cardinality(S)
  <2> SUFFICES ASSUME NEW x \in S
               PROVE  /\ IsFiniteSet({y \in S : y < x}) /\ Rank(S, x) \in Nat
                      /\ Rank(S, x) <= Cardinality(S)
    BY Zenon
  <2>1. {y \in S : y < x} \in SUBSET S
    BY Zenon
  <2> QED
    BY <2>1, FS_Subset, FS_CardinalityType, Zenon DEF Rank
<1>2. Cardinality(S) \in Nat
  BY FS_CardinalityType, Zenon
<1>3. ASSUME NEW x \in S PROVE Rank(S, x) < Cardinality(S)
  <2>1. {y \in S : y < x} # S /\ {y \in S : y < x} \in SUBSET S
    OBVIOUS
  <2>2. Cardinality(S) # Rank(S, x)
    BY <2>1, FS_Subset, Zenon DEF Rank
  <2>3. Rank(S, x) \in Nat /\ Rank(S, x) <= Cardinality(S)
    BY <1>1, Zenon
  <2> QED
    BY <1>2, <2>2, <2>3
<1>4. ASSUME NEW x \in S, NEW y \in S, x < y PROVE Rank(S, x) < Rank(S, y)
  <2> DEFINE X == {z \in S : z < x}
             Y == {z \in S : z < y}
  <2>1. X \in SUBSET Y /\ x \in Y /\ x \notin X
    <3>1. \A z \in S : z < x => z < y
      BY <1>4
    <3>2. ~ (x < x)
      OBVIOUS
    <3> QED
      BY <1>4, <3>1, <3>2, Zenon
  <2>2. IsFiniteSet(Y)
    BY <1>1, Zenon
  <2> HIDE DEF X, Y
  <2>3. Cardinality(X) <= Cardinality(Y) /\ (Cardinality(Y) = Cardinality(X) => Y = X)
    BY <2>1, <2>2, FS_Subset, Zenon
  <2>4. Cardinality(X) # Cardinality(Y)
    BY <2>1, <2>3, Zenon
  <2>5. Rank(S, x) = Cardinality(X) /\ Rank(S, y) = Cardinality(Y)
    BY Zenon DEF Rank, X, Y
  <2>6. Rank(S, x) \in Nat /\ Rank(S, y) \in Nat
    BY <1>1, Zenon
  <2> QED
    BY <2>3, <2>4, <2>5, <2>6
<1>5. \A x \in S : Rank(S, x) \in 0..(Cardinality(S) - 1)
  <2> SUFFICES ASSUME NEW x \in S PROVE Rank(S, x) \in 0..(Cardinality(S) - 1)
    BY Zenon
  <2>1. Rank(S, x) \in Nat
    BY <1>1, Zenon
  <2> QED
    BY <1>2, <1>3, <2>1
<1> QED
  BY <1>4, <1>5, Zenon

(* InOrder lists the elements of a set, each once.                         *)
LEMMA InOrderIsEnumeration ==
  ASSUME NEW S \in SUBSET Int, IsFiniteSet(S)
  PROVE  /\ Cardinality(S) \in Nat
         /\ InOrder(S) \in [1..Cardinality(S) -> S]
         /\ \A i, j \in 1..Cardinality(S) : InOrder(S)[i] = InOrder(S)[j] => i = j
         /\ \A x \in S : \E i \in 1..Cardinality(S) : InOrder(S)[i] = x
<1> DEFINE n == Cardinality(S)
           rank == [x \in S |-> Rank(S, x) + 1]
<1>1. n \in Nat
  BY FS_CardinalityType, Zenon
<1>2. rank \in [S -> 1..n]
  BY <1>1, RankMonotone
<1>3. \A x, y \in S : rank[x] = rank[y] => x = y
  <2> SUFFICES ASSUME NEW x \in S, NEW y \in S, rank[x] = rank[y] PROVE x = y
    BY Zenon
  <2>1. Rank(S, x) = Rank(S, y) /\ Rank(S, x) \in Int /\ Rank(S, y) \in Int
    BY RankMonotone
  <2>2. ~ (x < y) /\ ~ (y < x)
    BY <2>1, RankMonotone
  <2> QED
    BY <2>2
<1> HIDE DEF n, rank
<1>4. rank \in Injection(S, 1..n)
  BY <1>2, <1>3, Zenon DEF Injection, IsInjective
<1>5. IsFiniteSet(1..n) /\ Cardinality(1..n) = n
  BY <1>1, FS_Interval
<1>6. rank \in Surjection(S, 1..n)
  BY <1>4, <1>5, FS_Injection, Zenon DEF n
<1>7. \A i \in 1..n : \E x \in S : rank[x] = i
  BY <1>6, Zenon DEF Surjection
<1>8. \A i \in 1..n : \E x \in S : Rank(S, x) = i - 1
  BY <1>1, <1>7, RankMonotone DEF rank
<1>9. InOrder(S) = [i \in 1..n |-> CHOOSE x \in S : Rank(S, x) = i - 1]
  BY Zenon DEF InOrder, Rank, n
<1>10. \A i \in 1..n : InOrder(S)[i] \in S /\ Rank(S, InOrder(S)[i]) = i - 1
  <2> SUFFICES ASSUME NEW i \in 1..n
               PROVE  InOrder(S)[i] \in S /\ Rank(S, InOrder(S)[i]) = i - 1
    BY Zenon
  <2>1. InOrder(S)[i] = CHOOSE x \in S : Rank(S, x) = i - 1
    BY <1>9, Zenon
  <2> QED
    BY <1>8, <2>1, Zenon
<1>11. \A i, j \in 1..n : InOrder(S)[i] = InOrder(S)[j] => i = j
  BY <1>1, <1>10
<1>12. \A x \in S : \E i \in 1..n : InOrder(S)[i] = x
  <2> SUFFICES ASSUME NEW x \in S PROVE \E i \in 1..n : InOrder(S)[i] = x
    BY Zenon
  <2>1. rank[x] \in 1..n /\ rank[x] = Rank(S, x) + 1
    BY <1>2, Zenon DEF rank
  <2>2. InOrder(S)[rank[x]] \in S /\ rank[InOrder(S)[rank[x]]] = rank[x]
    BY <1>1, <1>10, <2>1, RankMonotone DEF rank
  <2> QED
    BY <1>3, <2>1, <2>2, Zenon
<1> QED
  BY <1>1, <1>9, <1>10, <1>11, <1>12, Zenon DEF n

(* The elements of 1..n in order.                                          *)
LEMMA InOrderInterval ==
  ASSUME NEW n \in Nat
  PROVE  \A i \in 1..n : InOrder(1..n)[i] = i
<1>1. IsFiniteSet(1..n) /\ Cardinality(1..n) = n
  BY FS_Interval
<1>2. ASSUME NEW x \in 1..n PROVE Rank(1..n, x) = x - 1
  <2>1. {y \in 1..n : y < x} = 1..(x - 1)
    OBVIOUS
  <2>2. Cardinality(1..(x - 1)) = x - 1
    BY FS_Interval
  <2> QED
    BY <2>1, <2>2, Zenon DEF Rank
<1>3. \A i \in 1..n : \A x \in 1..n : Rank(1..n, x) = i - 1 <=> x = i
  BY <1>2
<1>4. InOrder(1..n) = [i \in 1..n |-> CHOOSE x \in 1..n : Rank(1..n, x) = i - 1]
  BY <1>1, Zenon DEF InOrder, Rank
<1> QED
  <2> SUFFICES ASSUME NEW i \in 1..n PROVE InOrder(1..n)[i] = i
    BY Zenon
  <2>1. InOrder(1..n)[i] = CHOOSE x \in 1..n : Rank(1..n, x) = i - 1
    BY <1>4, Zenon
  <2> QED
    BY <1>3, <2>1, Zenon

-----------------------------------------------------------------------------
(* How the entries are cut into batches                                    *)

(* Multiples of a positive number are ordered as their factors.            *)
LEMMA Multiples ==
  ASSUME NEW s \in Nat \ {0}, NEW a \in Int, NEW b \in Int
  PROVE  /\ a * s \in Int /\ (a + 1) * s = a * s + s
         /\ a <= b => a * s <= b * s
         /\ a * s < b * s => a < b
         /\ a < b => (a + 1) * s <= b * s
<1>1. \A x, y \in Int : x * s \in Int /\ (x + y) * s = x * s + y * s
  OBVIOUS
<1>2. \A d \in Nat : d * s \in Nat
  OBVIOUS
<1>3. \A x, y \in Int : x <= y => x * s <= y * s
  <2> SUFFICES ASSUME NEW x \in Int, NEW y \in Int, x <= y PROVE x * s <= y * s
    BY Zenon
  <2>1. y - x \in Nat /\ y = x + (y - x)
    OBVIOUS
  <2>2. y * s = x * s + (y - x) * s
    BY <1>1, <2>1
  <2> QED
    BY <1>1, <1>2, <2>1, <2>2
<1>4. (a + 1) * s = a * s + s
  OBVIOUS
<1>5. a < b => (a + 1) * s <= b * s
  BY <1>3
<1> QED
  BY <1>1, <1>3, <1>4, <1>5

(* Quotient and remainder make up the number.                              *)
LEMMA QuotientRemainder ==
  ASSUME NEW s \in Int, s > 0, NEW n \in Int
  PROVE  n - (n \div s) * s = n % s
OBVIOUS

(* Division with remainder.                                                *)
LEMMA Division ==
  ASSUME NEW s \in Nat \ {0}, NEW n \in Nat
  PROVE  /\ n \div s \in Nat /\ n % s \in 0..(s - 1)
         /\ n - (n \div s) * s = n % s
         /\ (n \div s) * s <= n /\ n < (n \div s + 1) * s
<1>1. s \in Int /\ s > 0 /\ n \in Int
  OBVIOUS
<1>2. n \div s \in Nat
  BY <1>1
<1>3. n % s \in 0..(s - 1)
  BY <1>1
<1>4. n - (n \div s) * s = n % s
  BY <1>1, QuotientRemainder, Zenon
<1>5. (n \div s) * s <= n
  BY <1>1
<1>6. n < (n \div s + 1) * s
  BY <1>1
<1> QED
  BY <1>2, <1>3, <1>4, <1>5, <1>6, Zenon

(* The number of batches: a batch is started exactly when entries are left. *)
LEMMA RoundsCover ==
  ASSUME NEW s \in Nat \ {0}, NEW n \in Nat, NEW b \in Nat
  PROVE  /\ n \div s + (IF n % s # 0 THEN 1 ELSE 0) \in Nat
         /\ b < n \div s + (IF n % s # 0 THEN 1 ELSE 0) <=> b * s < n
<1> DEFINE q == n \div s
           m == n % s
           R == q + (IF m # 0 THEN 1 ELSE 0)
<1>1. q \in Nat /\ m \in 0..(s - 1) /\ n - q * s = m /\ q * s <= n /\ n < (q + 1) * s
  BY Division, Zenon
<1> HIDE DEF q, m
<1>2. b * s \in Int /\ q * s \in Int
  BY <1>1, Multiples
<1>3. CASE b < q
  BY <1>1, <1>2, <1>3, Multiples
<1>4. CASE b = q
  BY <1>1, <1>2, <1>4, Multiples
<1>5. CASE b > q
  <2>1. (q + 1) * s <= b * s
    BY <1>1, <1>5, Multiples
  <2> QED
    BY <1>1, <1>2, <1>5, <2>1, Multiples
<1> QED
  BY <1>1, <1>3, <1>4, <1>5 DEF q, m

(* The options of any scenario.                                            *)
LEMMA Options ==
  ASSUME scenario \in Scenarios
  PROVE  /\ batch_size \in Nat \ {0} /\ n_threads \in Nat \ {0}
         /\ use_batch \in BOOLEAN /\ use_cache \in BOOLEAN
         /\ MAX_ROWS \in Nat \ {0} /\ MAX_CHUNKS \in Nat
BY LlmPredictAssumption, Zenon
   DEF LlmPredictAssumption, batch_size, n_threads, use_batch, use_cache, MAX_ROWS, MAX_CHUNKS

(* Batches are never empty.                                                *)
LEMMA BatchSize ==
  ASSUME scenario \in Scenarios, NEW n \in Nat
  PROVE  ImpBatchSize(n) \in Nat \ {0}
<1> DEFINE t == n_threads
           q == n \div t
           m == n % t
<1>1. t \in Nat \ {0} /\ batch_size \in Nat \ {0}
  BY Options, Zenon
<1> HIDE DEF t
<1>2. q \in Nat /\ m \in 0..(t - 1) /\ n - q * t = m
  BY <1>1, Division, Zenon
<1> HIDE DEF q, m
<1>3. n >= t => q + (IF m > 0 THEN 1 ELSE 0) \in Nat \ {0}
  <2>1. q = 0 => q * t = 0
    BY <1>1
  <2> QED
    BY <1>1, <1>2, <2>1
<1>4. ImpBatchSize(n) = IF t * batch_size > n /\ n >= t THEN q + (IF m > 0 THEN 1 ELSE 0)
                        ELSE batch_size
  BY Zenon DEF ImpBatchSize, t, q, m
<1> QED
  BY <1>1, <1>3, <1>4, Zenon

(* The loop over the batches starts one as long as entries are left.       *)
LEMMA RoundsLeft ==
  ASSUME scenario \in Scenarios, NEW n \in Nat, NEW b \in Nat
  PROVE  /\ Rounds(n) \in Nat
         /\ b < Rounds(n) <=> b * ImpBatchSize(n) < n
<1>1. ImpBatchSize(n) \in Nat \ {0}
  BY BatchSize, Zenon
<1> QED
  BY <1>1, RoundsCover, Zenon DEF Rounds

\* The entries of a batch, by their numbers.
BatchEntries(b) ==
    {i \in 1..Len(unprocessed) : /\ b * ImpBatchSize(Len(unprocessed)) < i
                                 /\ i <= (b + 1) * ImpBatchSize(Len(unprocessed))}

(* A batch that is started is a call for its share of the entries.         *)
LEMMA BatchIsCall ==
  ASSUME scenario \in Scenarios, Len(unprocessed) \in Nat,
         NEW b \in Nat, b < Rounds(Len(unprocessed))
  PROVE  /\ Batch(b) \in Calls
         /\ Batch(b).reply = Pending /\ Batch(b).outputs = <<>>
         /\ Covered(Batch(b)) = BatchEntries(b)
<1> DEFINE n == Len(unprocessed)
           s == ImpBatchSize(n)
           left == n - b * s
           size == IF s < left THEN s ELSE left
<1>1. s \in Nat \ {0} /\ n \in Nat
  BY BatchSize, Zenon
<1>2. b * s < n
  BY RoundsLeft, Zenon
<1>3. Batch(b) = [frow |-> b * s + 1, n_rows |-> size, reply |-> Pending, outputs |-> <<>>]
  BY Zenon DEF Batch, Call
<1>4. BatchEntries(b) = {i \in 1..n : b * s < i /\ i <= (b + 1) * s}
  BY Zenon DEF BatchEntries
<1> HIDE DEF n, s
<1>5. b * s \in Nat /\ (b + 1) * s = b * s + s
  BY <1>1, Multiples
<1>6. size \in Nat \ {0}
  BY <1>1, <1>2, <1>5
<1>7. b * s + 1 \in Nat
  BY <1>5
<1>8. Batch(b) \in Calls /\ Batch(b).reply = Pending /\ Batch(b).outputs = <<>>
  BY <1>3, <1>6, <1>7 DEF Calls, Pending
<1>9. Covered(Batch(b)) = (b * s + 1)..(b * s + 1 + size - 1)
  BY <1>3 DEF Covered
<1> DEFINE x == b * s
<1> HIDE DEF x
<1>10. (x + 1)..(x + 1 + (IF s < n - x THEN s ELSE n - x) - 1) = {i \in 1..n : x < i /\ i <= x + s}
  <2>1. x \in Nat /\ x < n /\ s \in Nat \ {0} /\ n \in Nat
    BY <1>1, <1>2, <1>5, Zenon DEF x
  <2> QED
    BY <2>1
<1> QED
  BY <1>4, <1>5, <1>8, <1>9, <1>10, Zenon DEF x

(* Different batches have no entry in common.                              *)
LEMMA BatchesDisjoint ==
  ASSUME scenario \in Scenarios, Len(unprocessed) \in Nat,
         NEW b \in Nat, NEW c \in Nat, b # c
  PROVE  BatchEntries(b) \cap BatchEntries(c) = {}
<1> DEFINE s == ImpBatchSize(Len(unprocessed))
<1>1. s \in Nat \ {0}
  BY BatchSize, Zenon
<1> HIDE DEF s
<1>2. \A x, y \in Nat : x < y => \A i \in Int : i <= (x + 1) * s => ~ (y * s < i)
  <2> SUFFICES ASSUME NEW x \in Nat, NEW y \in Nat, x < y, NEW i \in Int, i <= (x + 1) * s
               PROVE  ~ (y * s < i)
    BY Zenon
  <2>1. (x + 1) * s <= y * s /\ y * s \in Int /\ (x + 1) * s \in Int
    BY <1>1, Multiples
  <2> QED
    BY <2>1
<1>3. b < c \/ c < b
  OBVIOUS
<1>4. \A i \in 1..Len(unprocessed) : i \in Int
  OBVIOUS
<1> QED
  BY <1>2, <1>3, <1>4, Zenon DEF BatchEntries, s

(* Every entry is in a batch.                                              *)
LEMMA EntryHasBatch ==
  ASSUME scenario \in Scenarios, Len(unprocessed) \in Nat, NEW i \in 1..Len(unprocessed)
  PROVE  \E b \in Nat : b < Rounds(Len(unprocessed)) /\ i \in BatchEntries(b)
<1> DEFINE n == Len(unprocessed)
           s == ImpBatchSize(n)
           b == (i - 1) \div s
<1>1. s \in Nat \ {0} /\ n \in Nat /\ i \in 1..n
  BY BatchSize, Zenon
<1>2. BatchEntries(b) = {j \in 1..n : b * s < j /\ j <= (b + 1) * s}
  BY Zenon DEF BatchEntries
<1>3. \A c \in Nat : c < Rounds(n) <=> c * s < n
  BY RoundsLeft, Zenon
<1> HIDE DEF n, s
<1>4. b \in Nat /\ b * s <= i - 1 /\ i - 1 < (b + 1) * s
  <2>1. i - 1 \in Nat
    BY <1>1
  <2> QED
    BY <1>1, <2>1, Division, Zenon
<1> HIDE DEF b
<1>5. b * s \in Int /\ (b + 1) * s \in Int
  BY <1>1, <1>4, Multiples
<1>6. b * s < i /\ i <= (b + 1) * s /\ b * s < n
  BY <1>1, <1>4, <1>5
<1>7. i \in BatchEntries(b)
  BY <1>1, <1>2, <1>6, Zenon
<1> QED
  BY <1>3, <1>4, <1>6, <1>7, Zenon DEF n

(* A sequence without its first element.                                   *)
LEMMA TailFacts ==
  ASSUME NEW T, NEW s \in Seq(T), s # <<>>
  PROVE  /\ Len(s) \in Nat \ {0} /\ DOMAIN s = 1..Len(s) /\ Head(s) = s[1] /\ 1 \in DOMAIN s
         /\ Tail(s) \in Seq(T) /\ Len(Tail(s)) = Len(s) - 1
         /\ DOMAIN Tail(s) = 1..(Len(s) - 1)
         /\ \A k \in DOMAIN Tail(s) : k + 1 \in DOMAIN s /\ Tail(s)[k] = s[k + 1] /\ k + 1 # 1
         /\ \A k \in DOMAIN s : k = 1 \/ (k - 1 \in DOMAIN Tail(s) /\ Tail(s)[k - 1] = s[k])
         /\ Len(s) = 1 => Tail(s) = <<>>
<1>1. Len(s) \in Nat \ {0} /\ DOMAIN s = 1..Len(s) /\ Head(s) = s[1] /\ 1 \in DOMAIN s
  OBVIOUS
<1>2. Tail(s) \in Seq(T) /\ Len(Tail(s)) = Len(s) - 1
  OBVIOUS
<1>3. DOMAIN Tail(s) = 1..(Len(s) - 1)
  BY <1>2
<1>4. \A k \in 1..(Len(s) - 1) : k + 1 \in DOMAIN s /\ Tail(s)[k] = s[k + 1] /\ k + 1 # 1
  BY <1>1
<1>5. \A k \in DOMAIN s : k = 1 \/ (k - 1 \in 1..(Len(s) - 1) /\ Tail(s)[k - 1] = s[k])
  BY <1>1, <1>4
<1>6. Len(s) = 1 => Tail(s) = <<>>
  <2>1. \A t \in Seq(T) : Len(t) = 0 => t = <<>>
    OBVIOUS
  <2>2. Len(s) = 1 => Len(Tail(s)) = 0
    BY <1>2
  <2> QED
    BY <1>2, <2>1, <2>2, Zenon
<1> QED
  BY <1>1, <1>2, <1>3, <1>4, <1>5, <1>6, Zenon

(* What is waited for, phase by phase.                                     *)
LEMMA OpenEntries ==
  /\ phase \in {"batches", "collect"} =>
       Open = ((1..Len(unprocessed)) \ Launched) \cup InFlight \cup Failed(0)
  /\ phase \in {"retry", "collect_retry"} => Open = InFlight \cup Failed(next)
  /\ phase \in {"idle", "done", "failed", "undefined"} => Open = {}
BY Zenon DEF Open

(* The same one step later.                                                *)
LEMMA OpenEntriesNext ==
  /\ phase' \in {"batches", "collect"} =>
       Open' = ((1..Len(unprocessed)') \ Launched') \cup InFlight' \cup Failed(0)'
  /\ phase' \in {"retry", "collect_retry"} => Open' = InFlight' \cup Failed(next)'
  /\ phase' \in {"idle", "done", "failed", "undefined"} => Open' = {}
BY Zenon DEF Open

(* Within a chunk, the options and what depends on the chunk stay.         *)
LEMMA SameChunk ==
  ASSUME UNCHANGED <<scenario, chunk>>
  PROVE  /\ scenario' = scenario /\ chunks' = chunks /\ input' = input
         /\ unprocessed' = unprocessed
         /\ batch_size' = batch_size /\ n_threads' = n_threads
         /\ use_batch' = use_batch /\ use_cache' = use_cache
         /\ MAX_ROWS' = MAX_ROWS /\ MAX_CHUNKS' = MAX_CHUNKS /\ Replies' = Replies
         /\ OnePerPrompt' = OnePerPrompt
BY Zenon DEF chunk, batch_size, n_threads, use_batch, use_cache, MAX_ROWS, MAX_CHUNKS, Replies,
             OnePerPrompt

(* The batches of a chunk do not change either.                            *)
LEMMA SameBatches ==
  ASSUME UNCHANGED <<scenario, chunk>>
  PROVE  /\ next' = next => Launched' = Launched
         /\ \A i : RowsOf(i)' = RowsOf(i)
         /\ \A n : ImpBatchSize(n)' = ImpBatchSize(n)
<1>1. \A n : ImpBatchSize(n)' = ImpBatchSize(n)
  BY SameChunk, Zenon DEF ImpBatchSize
<1>2. next' = next => Launched' = Launched
  <2>1. ImpBatchSize(Len(unprocessed))' = ImpBatchSize(Len(unprocessed))
    BY SameChunk, Zenon DEF ImpBatchSize
  <2> QED
    BY <2>1, SameChunk, Zenon DEF Launched
<1>3. \A i : RowsOf(i)' = RowsOf(i)
  BY SameChunk DEF RowsOf
<1> QED
  BY <1>1, <1>2, <1>3, Zenon

(* What a call brings back means the same while the phase stays.           *)
LEMMA SameOutcome ==
  ASSUME UNCHANGED <<scenario, chunk, phase>>, NEW f
  PROVE  Outcome(f)' <=> Outcome(f)
<1>1. Asked(f)' = Asked(f)
  BY SameChunk, Zenon DEF Asked
<1>2. Arrays(f)' = Arrays(f)
  BY <1>1, SameChunk, Zenon DEF Arrays
<1>3. RowOutputs(f)' <=> RowOutputs(f)
  BY <1>1, SameChunk, Zenon DEF RowOutputs
<1> QED
  BY <1>2, <1>3, SameChunk DEF Outcome

(* A call stays one of the chunk's.                                        *)
LEMMA SameCall ==
  ASSUME UNCHANGED <<scenario, chunk, phase, next, batch_fails>>, NEW f
  PROVE  CallInv(f)' <=> CallInv(f)
<1>1. Launched' = Launched /\ unprocessed' = unprocessed
  BY SameBatches, SameChunk, Zenon
<1>2. Failed(0)' = Failed(0) /\ Failed(next)' = Failed(next)
  BY Zenon DEF Failed
<1>3. Outcome(f)' <=> Outcome(f)
  BY SameOutcome, Zenon
<1> QED
  BY <1>1, <1>2, <1>3, Zenon DEF CallInv

(* The parts of the invariant that concern the calls.                      *)
LEMMA CallFacts ==
  ASSUME PredictInv
  PROVE  /\ \A k \in DOMAIN futures : futures[k] \in Calls /\ futures[k] \in Flying
         /\ \A f \in Flying : /\ f \in Calls /\ CallInv(f)
                              /\ f.frow \in 1..Len(unprocessed)
                              /\ f.frow + f.n_rows - 1 \in 1..Len(unprocessed)
         /\ Len(unprocessed) \in Nat
<1>1. futures \in Seq(Calls) /\ \A f \in Flying : CallInv(f)
  BY Zenon DEF PredictInv, FlightInv
<1>2. \A k \in DOMAIN futures : futures[k] \in Calls /\ futures[k] \in Flying
  BY <1>1 DEF Flying
<1>3. Len(unprocessed) \in Nat
  BY DEF PredictInv, TypeOK
<1>4. ASSUME NEW f \in Flying
      PROVE  /\ f \in Calls /\ CallInv(f)
             /\ f.frow \in 1..Len(unprocessed)
             /\ f.frow + f.n_rows - 1 \in 1..Len(unprocessed)
  <2>1. f \in Calls /\ CallInv(f)
    BY <1>1, <1>2, Zenon DEF Flying
  <2>2. f.frow \in Nat /\ f.n_rows \in Nat \ {0}
    BY <2>1, Zenon DEF Calls
  <2>3. f.frow \in Covered(f) /\ f.frow + f.n_rows - 1 \in Covered(f)
    BY <2>2 DEF Covered
  <2> QED
    BY <2>1, <2>3, Zenon DEF CallInv
<1> QED
  BY <1>2, <1>3, <1>4, Zenon

(* The loop over the futures takes the first call away and leaves the      *)
(* others, which ask for other entries, in flight.                         *)
LEMMA Popping ==
  ASSUME PredictInv, Replied, Applied
  PROVE  /\ Head(futures) \in Flying /\ Flying' \subseteq Flying
         /\ futures' \in Seq(Calls) /\ Len(futures') <= n_threads
         /\ \A k \in DOMAIN futures' : futures'[k] \in Flying
         /\ \A k, l \in DOMAIN futures' : k # l => Covered(futures'[k]) \cap Covered(futures'[l]) = {}
         /\ \A g \in Flying' : Covered(g) \cap Covered(Head(futures)) = {}
         /\ InFlight' = InFlight \ Covered(Head(futures))
         /\ \/ phase = "collect" /\ phase' \in {"collect", "batches"}
            \/ phase = "collect_retry" /\ phase' \in {"collect_retry", "retry"}
         /\ phase' # phase => futures' = <<>> /\ Flying' = {}
<1> DEFINE f == Head(futures)
<1>1. /\ futures \in Seq(Calls) /\ futures # <<>> /\ futures' = Tail(futures)
      /\ phase \in {"collect", "collect_retry"}
      /\ phase' = IF Len(futures) > 1 THEN phase
                  ELSE IF phase = "collect" THEN "batches" ELSE "retry"
  BY Zenon DEF PredictInv, FlightInv, Replied, Applied
<1>2. /\ Len(futures) \in Nat \ {0} /\ DOMAIN futures = 1..Len(futures)
      /\ f = futures[1] /\ 1 \in DOMAIN futures
      /\ futures' \in Seq(Calls) /\ Len(futures') = Len(futures) - 1
      /\ \A k \in DOMAIN futures' : k + 1 \in DOMAIN futures /\ futures'[k] = futures[k + 1] /\ k + 1 # 1
      /\ \A k \in DOMAIN futures : k = 1 \/ (k - 1 \in DOMAIN futures' /\ futures'[k - 1] = futures[k])
      /\ DOMAIN futures' = 1..(Len(futures) - 1)
      /\ Len(futures) = 1 => futures' = <<>>
  BY <1>1, TailFacts, Zenon
<1>3. Len(futures') <= n_threads
  <2>1. Len(futures) <= n_threads /\ n_threads \in Nat
    BY Options, Zenon DEF PredictInv, TypeOK
  <2> QED
    BY <1>2, <2>1
<1>4. \A k \in DOMAIN futures' : futures'[k] \in Flying
  BY <1>2, Zenon DEF Flying
<1>5. Flying' \subseteq Flying /\ f \in Flying
  BY <1>2, <1>4, Zenon DEF Flying
<1>6. \A k, l \in DOMAIN futures : k # l => Covered(futures[k]) \cap Covered(futures[l]) = {}
  BY Zenon DEF PredictInv, FlightInv
<1>7. \A k, l \in DOMAIN futures' : k # l => Covered(futures'[k]) \cap Covered(futures'[l]) = {}
  <2> SUFFICES ASSUME NEW k \in DOMAIN futures', NEW l \in DOMAIN futures', k # l
               PROVE  Covered(futures'[k]) \cap Covered(futures'[l]) = {}
    BY Zenon
  <2>1. k + 1 # l + 1
    BY <1>2
  <2> QED
    BY <1>2, <1>6, <2>1, Zenon
<1>8. InFlight' = InFlight \ Covered(f)
  <2>1. ASSUME NEW i \in InFlight' PROVE i \in InFlight /\ i \notin Covered(f)
    <3>1. PICK k \in DOMAIN futures' : i \in Covered(futures'[k])
      BY <2>1, Zenon DEF InFlight, Flying
    <3>2. k + 1 \in DOMAIN futures /\ i \in Covered(futures[k + 1]) /\ k + 1 # 1
      BY <1>2, <3>1, Zenon
    <3>3. i \in InFlight
      BY <3>2, Zenon DEF InFlight, Flying
    <3>4. Covered(futures[k + 1]) \cap Covered(futures[1]) = {}
      BY <1>2, <1>6, <3>2, Zenon
    <3> QED
      BY <1>2, <3>2, <3>3, <3>4, Zenon
  <2>2. ASSUME NEW i \in InFlight, i \notin Covered(f) PROVE i \in InFlight'
    <3>1. PICK k \in DOMAIN futures : i \in Covered(futures[k])
      BY <2>2, Zenon DEF InFlight, Flying
    <3>2. k - 1 \in DOMAIN futures' /\ i \in Covered(futures'[k - 1])
      BY <1>2, <2>2, <3>1, Zenon
    <3> QED
      BY <3>2, Zenon DEF InFlight, Flying
  <2> QED
    BY <2>1, <2>2, Zenon
<1>9. \A g \in Flying' : Covered(g) \cap Covered(f) = {}
  BY <1>8, Zenon DEF InFlight
<1>10. \/ phase = "collect" /\ phase' \in {"collect", "batches"}
       \/ phase = "collect_retry" /\ phase' \in {"collect_retry", "retry"}
  BY <1>1, Zenon
<1>11. phase' # phase => futures' = <<>> /\ DOMAIN futures' = {}
  BY <1>1, <1>2
<1>12. phase' # phase => Flying' = {}
  BY <1>11, Zenon DEF Flying
<1>13. futures' \in Seq(Calls) /\ (phase' # phase => futures' = <<>> /\ Flying' = {})
  BY <1>2, <1>11, <1>12, Zenon
<1> QED
  BY <1>3, <1>4, <1>5, <1>7, <1>8, <1>9, <1>10, <1>13, Zenon

(* When the first result is applied, the other calls fly on and what the   *)
(* first one asked for no longer waits.                                    *)
LEMMA Applying ==
  ASSUME PredictInv, Replied, Applied, UNCHANGED <<scenario, chunk, next, batch_fails>>
  PROVE  FlightInv' /\ Open' = Open \ Covered(Head(futures))
<1> DEFINE f == Head(futures)
<1>1. /\ f \in Flying /\ Flying' \subseteq Flying /\ InFlight' = InFlight \ Covered(f)
      /\ \/ phase = "collect" /\ phase' \in {"collect", "batches"}
         \/ phase = "collect_retry" /\ phase' \in {"collect_retry", "retry"}
      /\ phase' # phase => futures' = <<>> /\ Flying' = {}
  BY Popping, Zenon
<1>2. /\ Launched' = Launched /\ unprocessed' = unprocessed /\ next' = next
      /\ Failed(0)' = Failed(0) /\ Failed(next)' = Failed(next)
  BY SameBatches, SameChunk, Zenon DEF Failed
<1>3. CallInv(f)
  BY <1>1, Zenon DEF PredictInv, FlightInv
<1>4. phase = "collect_retry" => Covered(f) = {f.frow}
  <2>1. f.frow \in Nat /\ (phase = "collect_retry" => f.n_rows = 1)
    BY <1>1, <1>3, CallFacts, Zenon DEF Calls, CallInv
  <2> QED
    BY <2>1 DEF Covered
<1>5. Open' = Open \ Covered(f)
  <2>1. CASE phase = "collect"
    <3>1. Covered(f) \subseteq Launched \ Failed(0)
      BY <1>3, <2>1, Zenon DEF CallInv
    <3>2. phase' \in {"batches", "collect"}
      BY <1>1, <2>1, Zenon
    <3>3. /\ Open = ((1..Len(unprocessed)) \ Launched) \cup InFlight \cup Failed(0)
          /\ Open' = ((1..Len(unprocessed)') \ Launched') \cup InFlight' \cup Failed(0)'
      BY <2>1, <3>2, OpenEntries, OpenEntriesNext, Zenon
    <3> QED
      BY <1>1, <1>2, <3>1, <3>3, Zenon
  <2>2. CASE phase = "collect_retry"
    <3>1. Covered(f) \cap Failed(next) = {}
      BY <1>3, <1>4, <2>2, Zenon DEF CallInv
    <3>2. phase' \in {"retry", "collect_retry"}
      BY <1>1, <2>2, Zenon
    <3>3. Open = InFlight \cup Failed(next) /\ Open' = InFlight' \cup Failed(next)'
      BY <2>2, <3>2, OpenEntries, OpenEntriesNext, Zenon
    <3> QED
      BY <1>1, <1>2, <3>1, <3>3, Zenon
  <2> QED
    BY <1>1, <2>1, <2>2, Zenon
<1>6. \A g \in Flying' : CallInv(g)'
  <2> SUFFICES ASSUME NEW g \in Flying' PROVE CallInv(g)'
    BY Zenon
  <2>1. phase' = phase
    BY <1>1, Zenon
  <2>2. CallInv(g)
    BY <1>1, Zenon DEF PredictInv, FlightInv
  <2> QED
    BY <2>1, <2>2, SameCall, Zenon
<1>7. phase' \in {"batches", "collect"} => Failed(0)' \subseteq Launched'
  <2>1. phase' \in {"batches", "collect"} => phase \in {"batches", "collect"}
    BY <1>1, Zenon
  <2> QED
    BY <1>2, <2>1, Zenon DEF PredictInv, FlightInv
<1>8. \A i, j \in DOMAIN batch_fails' : batch_fails'[i] = batch_fails'[j] => i = j
  BY Zenon DEF PredictInv, FlightInv
<1>9. phase' \notin {"collect", "collect_retry"} => futures' = <<>>
  BY <1>1, Zenon
<1>10. FlightInv'
  BY <1>6, <1>7, <1>8, <1>9, Popping, Zenon DEF FlightInv
<1> QED
  BY <1>5, <1>10, Zenon

\* The rows a call may answer.
RowsFor(f) == {r \in DOMAIN input : \E i \in Covered(f) : r \in RowsOf(i)}

(* Applying a result keeps the invariant when the rows it is for get an    *)
(* answer of their own, the other rows stay, and what is new in the cache  *)
(* answers entries of the call.                                            *)
LEMMA Answering ==
  ASSUME PredictInv, Replied, Applied, UNCHANGED <<scenario, chunk, next, batch_fails>>,
         output' \in Seq(Answers), Len(output') = Len(output),
         DOMAIN cache' \subseteq Prompts, \A p \in DOMAIN cache' : cache'[p] \in Answers,
         ~use_cache => DOMAIN cache' = {},
         lost \subseteq lost', lost' \subseteq Prompts,
         (use_cache => OnePerPrompt) =>
            \A r \in DOMAIN input :
               IF r \in RowsFor(Head(futures)) THEN output'[r] \in Allowed(r)'
               ELSE output'[r] = output[r],
         use_cache /\ OnePerPrompt =>
            \A p \in DOMAIN cache' :
               \/ p \in DOMAIN cache /\ cache'[p] = cache[p]
               \/ cache'[p] = p /\ \E i \in Covered(Head(futures)) : p = unprocessed[i]
  PROVE  PredictInv'
<1> DEFINE f == Head(futures)
<1>1. /\ FlightInv' /\ Len(futures') <= n_threads
      /\ phase' \in {"batches", "collect", "retry", "collect_retry"}
      /\ Open' = Open \ Covered(f)
      /\ f \in Flying /\ \A k \in DOMAIN futures' : futures'[k] \in Flying
  <2>1. phase' \in {"batches", "collect", "retry", "collect_retry"}
    BY Popping, Zenon
  <2> QED
    BY <2>1, Applying, Popping, Zenon
<1>2. TypeOK'
  <2>1. \A k \in DOMAIN futures' :
          /\ futures'[k].frow \in 1..Len(unprocessed)
          /\ futures'[k].frow + futures'[k].n_rows - 1 \in 1..Len(unprocessed)
    BY <1>1, CallFacts, Zenon
  <2>2. phase' \in Phases
    BY <1>1, Zenon DEF Phases
  <2>3. output' \in Seq(Answers) /\ Len(output') = Len(input)
    BY Zenon DEF PredictInv, TypeOK
  <2> QED
    BY <1>1, <2>1, <2>2, <2>3, SameChunk, Zenon DEF PredictInv, TypeOK
<1>3. IF use_cache
      THEN \A i, j \in DOMAIN unprocessed : unprocessed[i] = unprocessed[j] => i = j
      ELSE unprocessed = input /\ DOMAIN cache = {}
  BY Zenon DEF PredictInv, AnswerInv
<1>4. ASSUME use_cache => OnePerPrompt, NEW r \in DOMAIN input
      PROVE  /\ output'[r] \in Allowed(r)' \cup {Unset}
             /\ output'[r] \in Allowed(r)' \/ \E i \in Open' : r \in RowsOf(i)'
  <2>1. CASE r \in RowsFor(f)
    BY <1>4, <2>1, Zenon
  <2>2. CASE r \notin RowsFor(f)
    <3>1. output'[r] = output[r]
      BY <1>4, <2>2, Zenon
    <3>2. Allowed(r) \subseteq Allowed(r)'
      BY SameChunk, Zenon DEF Allowed
    <3>3. phase \notin {"failed", "undefined"}
      BY Zenon DEF Replied
    <3>4. /\ output[r] \in Allowed(r) \cup {Unset}
          /\ output[r] \in Allowed(r) \/ \E i \in Open : r \in RowsOf(i)
      BY <1>4, <3>3, Zenon DEF PredictInv, AnswerInv
    <3>5. \A i \in Covered(f) : r \notin RowsOf(i)
      BY <2>2, Zenon DEF RowsFor
    <3>6. \A i : RowsOf(i)' = RowsOf(i)
      BY SameBatches, Zenon
    <3> QED
      BY <1>1, <3>1, <3>2, <3>4, <3>5, <3>6, Zenon
  <2> QED
    BY <2>1, <2>2, Zenon
<1>5. OnePerPrompt => \A p \in DOMAIN cache' : cache'[p] = p
  <2>1. OnePerPrompt => \A p \in DOMAIN cache : cache[p] = p
    BY Zenon DEF PredictInv, AnswerInv, CacheFaithful
  <2>2. use_cache \in BOOLEAN
    BY Options, Zenon DEF PredictInv, TypeOK
  <2> QED
    BY <2>1, <2>2, Zenon
<1>6. ASSUME use_cache, OnePerPrompt, NEW i \in Open' PROVE unprocessed[i] \notin DOMAIN cache'
  <2>1. i \in Open /\ i \notin Covered(f)
    BY <1>1, <1>6, Zenon
  <2>2. unprocessed[i] \notin DOMAIN cache
    BY <1>6, <2>1, Zenon DEF PredictInv, AnswerInv
  <2>3. i \in DOMAIN unprocessed /\ Covered(f) \subseteq DOMAIN unprocessed
    <3>1. DOMAIN unprocessed = 1..Len(unprocessed)
      BY DEF PredictInv, TypeOK
    <3>2. InFlight \subseteq 1..Len(unprocessed) /\ Covered(f) \subseteq 1..Len(unprocessed)
      <4>1. \A g \in Flying : Covered(g) \subseteq 1..Len(unprocessed)
        BY CallFacts, Zenon DEF CallInv
      <4> QED
        BY <1>1, <4>1, Zenon DEF InFlight
    <3>3. \A n \in Nat : Failed(n) \subseteq 1..Len(unprocessed)
      BY DEF Failed, PredictInv, TypeOK
    <3>4. next \in Nat /\ 0 \in Nat
      BY Zenon DEF PredictInv, TypeOK
    <3>5. phase \in {"collect", "collect_retry"}
      BY Zenon DEF Replied
    <3>6. Open \subseteq 1..Len(unprocessed)
      <4>1. CASE phase = "collect"
        BY <3>2, <3>3, <3>4, <4>1, OpenEntries, Zenon
      <4>2. CASE phase = "collect_retry"
        BY <3>2, <3>3, <3>4, <4>2, OpenEntries, Zenon
      <4> QED
        BY <3>5, <4>1, <4>2, Zenon
    <3> QED
      BY <2>1, <3>1, <3>2, <3>6, Zenon
  <2>4. \A j \in Covered(f) : unprocessed[i] # unprocessed[j]
    BY <1>3, <1>6, <2>1, <2>3, Zenon
  <2> QED
    BY <1>6, <2>2, <2>4, Zenon
<1>7. AnswerInv'
  <2>1. /\ unprocessed' = unprocessed /\ input' = input /\ use_cache' = use_cache
        /\ OnePerPrompt' = OnePerPrompt
    BY SameChunk, Zenon
  <2>2. CacheFaithful'
    BY <1>5, <2>1, Zenon DEF CacheFaithful
  <2> QED
    BY <1>3, <1>4, <1>6, <2>1, <2>2, Zenon DEF AnswerInv
<1> QED
  BY <1>1, <1>2, <1>7, Zenon DEF PredictInv

(* PropagateSingleResult: a row that some output is for gets one of these  *)
(* outputs, the others stay.                                               *)
LEMMA PlacedRows ==
  ASSUME PredictInv, NEW f, NEW a \in Seq(Answers)
  PROVE  /\ Placed(f, a) \in Seq(Answers) /\ Len(Placed(f, a)) = Len(output)
         /\ DOMAIN Placed(f, a) = DOMAIN input
         /\ \A r \in DOMAIN input :
              \/ \E k \in DOMAIN a : r \in RowsOf(f.frow + k - 1) /\ Placed(f, a)[r] = a[k]
              \/ /\ ~ \E k \in DOMAIN a : r \in RowsOf(f.frow + k - 1)
                 /\ Placed(f, a)[r] = output[r]
<1> DEFINE outputs(r) == {k \in DOMAIN a : r \in RowsOf(f.frow + k - 1)}
           P == Placed(f, a)
<1>1. P = [r \in DOMAIN output |-> IF outputs(r) = {} THEN output[r]
                                   ELSE a[CHOOSE k \in outputs(r) : TRUE]]
  BY Zenon DEF Placed
<1>2. /\ output \in Seq(Answers) /\ Len(output) = Len(input) /\ input \in Seq(Prompts)
      /\ DOMAIN output = 1..Len(output) /\ DOMAIN input = 1..Len(input) /\ Len(output) \in Nat
  BY DEF PredictInv, TypeOK
<1>3. ASSUME NEW r \in DOMAIN output
      PROVE  /\ \/ \E k \in DOMAIN a : r \in RowsOf(f.frow + k - 1) /\ P[r] = a[k]
                \/ /\ ~ \E k \in DOMAIN a : r \in RowsOf(f.frow + k - 1)
                   /\ P[r] = output[r]
  <2>1. CASE outputs(r) = {}
    BY <1>1, <2>1, Zenon
  <2>2. CASE outputs(r) # {}
    <3> DEFINE k == CHOOSE k \in outputs(r) : TRUE
    <3>1. k \in outputs(r)
      BY <2>2, Zenon
    <3>2. P[r] = a[k]
      BY <1>1, <2>2, Zenon
    <3> QED
      BY <3>1, <3>2, Zenon
  <2> QED
    BY <2>1, <2>2, Zenon
<1>4. (\A k \in DOMAIN a : a[k] \in Answers) /\ (\A r \in DOMAIN output : output[r] \in Answers)
  BY <1>2
<1>5. \A r \in DOMAIN output : P[r] \in Answers
  BY <1>3, <1>4, Zenon
<1>6. DOMAIN P = DOMAIN output /\ P = [r \in DOMAIN output |-> P[r]]
  BY <1>1, Zenon
<1> HIDE DEF P, outputs
<1>7. P \in [1..Len(output) -> Answers]
  BY <1>2, <1>5, <1>6, Zenon
<1>8. P \in Seq(Answers) /\ Len(P) = Len(output)
  <2>1. Len(output) \in Nat
    BY <1>2
  <2> QED
    BY <1>7, <2>1, SequenceOnInterval, Zenon
<1> QED
  BY <1>2, <1>3, <1>6, <1>8, Zenon DEF P

(* The cache afterwards: answers of the call under their prompts, and what *)
(* it had.                                                                 *)
LEMMA CachedPrompts ==
  ASSUME PredictInv, NEW f \in Flying, NEW a \in Seq(Answers),
         f.frow + Len(a) - 1 <= Len(unprocessed)
  PROVE  /\ DOMAIN Cached(f, a) \subseteq Prompts
         /\ \A p \in DOMAIN Cached(f, a) : Cached(f, a)[p] \in Answers
         /\ ~use_cache => DOMAIN Cached(f, a) = {}
         /\ \A p \in DOMAIN Cached(f, a) :
              \/ p \in DOMAIN cache /\ Cached(f, a)[p] = cache[p]
              \/ \E k \in DOMAIN a : /\ p = unprocessed[f.frow + k - 1]
                                     /\ Cached(f, a)[p] = a[k]
<1> DEFINE key(k) == unprocessed[f.frow + k - 1]
           keys == IF use_cache THEN {key(k) : k \in DOMAIN a} ELSE {}
           C == Cached(f, a)
<1>1. C = [p \in DOMAIN cache \cup keys |->
             IF p \in keys THEN a[CHOOSE k \in DOMAIN a : p = key(k)] ELSE cache[p]]
  BY Zenon DEF Cached
<1>2. \A k \in DOMAIN a : f.frow + k - 1 \in 1..Len(unprocessed) /\ a[k] \in Answers
  <2>1. f.frow \in 1..Len(unprocessed) /\ Len(unprocessed) \in Nat
    BY CallFacts, Zenon
  <2> QED
    BY <2>1
<1>3. \A k \in DOMAIN a : key(k) \in Prompts
  <2>1. \A i \in 1..Len(unprocessed) : unprocessed[i] \in Prompts
    BY DEF PredictInv, TypeOK
  <2> QED
    BY <1>2, <2>1, Zenon
<1>4. /\ DOMAIN cache \subseteq Prompts /\ \A p \in DOMAIN cache : cache[p] \in Answers
      /\ ~use_cache => DOMAIN cache = {}
  BY Zenon DEF PredictInv, TypeOK, AnswerInv
<1>5. DOMAIN C = DOMAIN cache \cup keys
  BY <1>1, Zenon
<1>6. ASSUME NEW p \in DOMAIN C
      PROVE  \/ p \in DOMAIN cache /\ C[p] = cache[p]
             \/ \E k \in DOMAIN a : p = key(k) /\ C[p] = a[k]
  <2>1. CASE p \in keys
    <3> DEFINE k == CHOOSE k \in DOMAIN a : p = key(k)
    <3>1. \E j \in DOMAIN a : p = key(j)
      BY <2>1, Zenon
    <3>2. k \in DOMAIN a /\ p = key(k)
      BY <3>1, Zenon
    <3>3. C[p] = a[k]
      BY <1>1, <1>5, <1>6, <2>1, Zenon
    <3> QED
      BY <3>2, <3>3, Zenon
  <2>2. CASE p \notin keys
    BY <1>1, <1>5, <1>6, <2>2, Zenon
  <2> QED
    BY <2>1, <2>2, Zenon
<1>7. DOMAIN C \subseteq Prompts /\ (~use_cache => DOMAIN C = {})
  BY <1>3, <1>4, <1>5, Zenon
<1>8. \A p \in DOMAIN C : C[p] \in Answers
  BY <1>2, <1>4, <1>6, Zenon
<1> QED
  BY <1>6, <1>7, <1>8, Zenon

(* The prompts of a call are those of its entries.                         *)
LEMMA AskedEntries ==
  ASSUME PredictInv, NEW f \in Flying
  PROVE  /\ f.frow \in Nat \ {0} /\ f.n_rows \in Nat \ {0}
         /\ Asked(f) \in Seq(Prompts) /\ Len(Asked(f)) = f.n_rows
         /\ \A k \in 1..f.n_rows : /\ f.frow + k - 1 \in Covered(f)
                                   /\ f.frow + k - 1 \in 1..Len(unprocessed)
                                   /\ Asked(f)[k] = unprocessed[f.frow + k - 1]
         /\ \A i \in Covered(f) : i - f.frow + 1 \in 1..f.n_rows /\ i = f.frow + (i - f.frow + 1) - 1
<1>1. /\ f \in Calls /\ f.frow \in 1..Len(unprocessed)
      /\ f.frow + f.n_rows - 1 \in 1..Len(unprocessed) /\ Len(unprocessed) \in Nat
  BY CallFacts, Zenon
<1>2. f.n_rows \in Nat \ {0} /\ f.frow \in Nat \ {0}
  BY <1>1 DEF Calls
<1>3. unprocessed \in Seq(Prompts)
  BY Zenon DEF PredictInv, TypeOK
<1>4. /\ Asked(f) \in Seq(Prompts) /\ Len(Asked(f)) = f.n_rows
      /\ \A k \in 1..f.n_rows : Asked(f)[k] = unprocessed[f.frow + k - 1]
  <2> DEFINE m == f.frow
             n == f.frow + f.n_rows - 1
  <2>1. m \in 1..Len(unprocessed) /\ n \in 1..Len(unprocessed) /\ n - m + 1 = f.n_rows
    BY <1>1, <1>2
  <2>2. Asked(f) = SubSeq(unprocessed, m, n)
    BY Zenon DEF Asked
  <2>3. \A k \in 1..f.n_rows : f.frow + k - 1 = m + k - 1
    BY Zenon
  <2> HIDE DEF m, n
  <2>4. /\ SubSeq(unprocessed, m, n) \in Seq(Prompts)
        /\ Len(SubSeq(unprocessed, m, n)) = f.n_rows
        /\ \A k \in 1..f.n_rows : SubSeq(unprocessed, m, n)[k] = unprocessed[m + k - 1]
    BY <1>2, <1>3, <2>1
  <2> QED
    BY <2>2, <2>3, <2>4, Zenon
<1>5. \A k \in 1..f.n_rows : f.frow + k - 1 \in Covered(f) /\ f.frow + k - 1 \in 1..Len(unprocessed)
  <2>1. \A k \in 1..f.n_rows : f.frow + k - 1 \in Covered(f)
    BY <1>2, SpanEntries, Zenon DEF Covered
  <2> QED
    BY <1>1, <1>2, <2>1
<1>6. \A i \in Covered(f) : i - f.frow + 1 \in 1..f.n_rows /\ i = f.frow + (i - f.frow + 1) - 1
  BY <1>2, SpanEntries, Zenon DEF Covered
<1> QED
  BY <1>2, <1>4, <1>5, <1>6, Zenon

(* A row has the prompt of the entry it waits for.                         *)
LEMMA RowHasPrompt ==
  ASSUME PredictInv, NEW i \in 1..Len(unprocessed), NEW r \in RowsOf(i)
  PROVE  r \in DOMAIN input /\ input[r] = unprocessed[i]
<1>1. CASE use_cache
  BY <1>1, Zenon DEF RowsOf
<1>2. CASE ~use_cache
  <2>1. unprocessed = input /\ r = i
    BY <1>2, Zenon DEF RowsOf, PredictInv, AnswerInv
  <2>2. DOMAIN input = 1..Len(input)
    BY DEF PredictInv, TypeOK
  <2> QED
    BY <2>1, <2>2, Zenon
<1> QED
  BY <1>1, <1>2, Zenon

(* Outputs that are in order give the rows their own answers.              *)
LEMMA OwnAnswer ==
  ASSUME PredictInv, NEW f \in Flying, NEW a \in Seq(Answers), Len(a) <= f.n_rows,
         \A k \in DOMAIN a : \/ a[k] = Asked(f)[k]
                             \/ "garbled" \in Replies /\ a[k] = NULL
  PROVE  \A r \in DOMAIN input :
            /\ (\E k \in DOMAIN a : r \in RowsOf(f.frow + k - 1)) =>
                   \/ Placed(f, a)[r] = input[r]
                   \/ "garbled" \in Replies /\ Placed(f, a)[r] = NULL
            /\ (~ \E k \in DOMAIN a : r \in RowsOf(f.frow + k - 1)) => Placed(f, a)[r] = output[r]
            /\ r \notin RowsFor(f) => Placed(f, a)[r] = output[r]
<1> SUFFICES ASSUME NEW r \in DOMAIN input
             PROVE  /\ (\E k \in DOMAIN a : r \in RowsOf(f.frow + k - 1)) =>
                           \/ Placed(f, a)[r] = input[r]
                           \/ "garbled" \in Replies /\ Placed(f, a)[r] = NULL
                    /\ (~ \E k \in DOMAIN a : r \in RowsOf(f.frow + k - 1)) => Placed(f, a)[r] = output[r]
                    /\ r \notin RowsFor(f) => Placed(f, a)[r] = output[r]
  BY Zenon
<1>1. \A k \in DOMAIN a : k \in 1..f.n_rows
  <2>1. f.n_rows \in Nat
    BY AskedEntries, Zenon
  <2> QED
    BY <2>1
<1>2. \/ \E k \in DOMAIN a : r \in RowsOf(f.frow + k - 1) /\ Placed(f, a)[r] = a[k]
      \/ /\ ~ \E k \in DOMAIN a : r \in RowsOf(f.frow + k - 1)
         /\ Placed(f, a)[r] = output[r]
  BY PlacedRows, Zenon
<1>3. ASSUME NEW k \in DOMAIN a, r \in RowsOf(f.frow + k - 1), Placed(f, a)[r] = a[k]
      PROVE  /\ r \in RowsFor(f)
             /\ \/ Placed(f, a)[r] = input[r]
                \/ "garbled" \in Replies /\ Placed(f, a)[r] = NULL
  <2>1. /\ f.frow + k - 1 \in Covered(f) /\ f.frow + k - 1 \in 1..Len(unprocessed)
        /\ Asked(f)[k] = unprocessed[f.frow + k - 1]
    BY <1>1, <1>3, AskedEntries, Zenon
  <2>2. input[r] = unprocessed[f.frow + k - 1]
    BY <1>3, <2>1, RowHasPrompt, Zenon
  <2> QED
    BY <1>3, <2>1, <2>2, Zenon DEF RowsFor
<1> QED
  BY <1>2, <1>3, Zenon

(* Complete outputs reach every row the call is for.                       *)
LEMMA CompleteAnswer ==
  ASSUME PredictInv, NEW f \in Flying, NEW a \in Seq(Answers), Len(a) = f.n_rows,
         \A k \in DOMAIN a : \/ a[k] = Asked(f)[k]
                             \/ "garbled" \in Replies /\ a[k] = NULL
  PROVE  \A r \in DOMAIN input :
            IF r \in RowsFor(f) THEN \/ Placed(f, a)[r] = input[r]
                                     \/ "garbled" \in Replies /\ Placed(f, a)[r] = NULL
            ELSE Placed(f, a)[r] = output[r]
<1>1. DOMAIN a = 1..f.n_rows /\ Len(a) <= f.n_rows
  BY AskedEntries
<1>2. \A r \in RowsFor(f) : \E k \in DOMAIN a : r \in RowsOf(f.frow + k - 1)
  <2> SUFFICES ASSUME NEW r \in RowsFor(f)
               PROVE  \E k \in DOMAIN a : r \in RowsOf(f.frow + k - 1)
    BY Zenon
  <2>1. PICK i \in Covered(f) : r \in RowsOf(i)
    BY Zenon DEF RowsFor
  <2>2. i - f.frow + 1 \in 1..f.n_rows /\ i = f.frow + (i - f.frow + 1) - 1
    BY AskedEntries, Zenon
  <2> QED
    BY <1>1, <2>1, <2>2, Zenon
<1> QED
  BY <1>1, <1>2, OwnAnswer, Zenon

(* The first call, when its result is there.                               *)
LEMMA FirstCall ==
  ASSUME PredictInv, Replied
  PROVE  /\ Head(futures) \in Flying /\ CallInv(Head(futures)) /\ Outcome(Head(futures))
         /\ Head(futures).outputs \in Seq(Answers)
         /\ phase \in {"collect", "collect_retry"}
<1>1. futures \in Seq(Calls) /\ futures # <<>> /\ phase \in {"collect", "collect_retry"}
  BY Zenon DEF PredictInv, FlightInv, Replied
<1>2. 1 \in DOMAIN futures /\ Head(futures) = futures[1]
  BY <1>1, TailFacts, Zenon
<1>3. Head(futures) \in Flying
  BY <1>2, Zenon DEF Flying
<1>4. CallInv(Head(futures)) /\ Head(futures) \in Calls
  BY <1>3, CallFacts, Zenon
<1>5. Head(futures).outputs \in Seq(Answers)
  BY <1>4, Zenon DEF Calls
<1> QED
  BY <1>1, <1>3, <1>4, <1>5, Zenon DEF CallInv

(* After an exception or an undefined access nothing is promised of the    *)
(* rows, and the cache is as good as the answers put there.                *)
LEMMA Stopping ==
  ASSUME PredictInv, phase' \in {"failed", "undefined"}, futures' = <<>>,
         UNCHANGED <<scenario, chunk, next, batch_fails, lost>>,
         output' \in Seq(Answers), Len(output') = Len(output),
         DOMAIN cache' \subseteq Prompts, \A p \in DOMAIN cache' : cache'[p] \in Answers,
         ~use_cache => DOMAIN cache' = {},
         OnePerPrompt => \A p \in DOMAIN cache' : cache'[p] = p
  PROVE  PredictInv'
<1>1. /\ DOMAIN futures' = {} /\ Len(futures') = 0 /\ futures' \in Seq(Calls)
      /\ phase' \notin {"collect", "collect_retry", "batches"} /\ phase' \in Phases
  BY DEF Phases
<1>2. TypeOK'
  <2>1. Len(futures') <= n_threads
    <3>1. n_threads \in Nat
      BY Options, Zenon DEF PredictInv, TypeOK
    <3> QED
      BY <1>1, <3>1
  <2>2. Len(output') = Len(input)
    BY Zenon DEF PredictInv, TypeOK
  <2> QED
    BY <1>1, <2>1, <2>2, SameChunk, Zenon DEF PredictInv, TypeOK
<1>3. FlightInv'
  BY <1>1, Zenon DEF PredictInv, FlightInv, Flying
<1>4. Open' = {}
  BY OpenEntriesNext, Zenon
<1>5. AnswerInv'
  <2>1. IF use_cache
        THEN \A i, j \in DOMAIN unprocessed : unprocessed[i] = unprocessed[j] => i = j
        ELSE unprocessed = input /\ DOMAIN cache = {}
    BY Zenon DEF PredictInv, AnswerInv
  <2>2. /\ unprocessed' = unprocessed /\ input' = input /\ use_cache' = use_cache
        /\ OnePerPrompt' = OnePerPrompt
    BY SameChunk, Zenon
  <2>3. CacheFaithful'
    BY <2>2, Zenon DEF CacheFaithful
  <2> QED
    BY <1>4, <2>1, <2>2, <2>3, Zenon DEF AnswerInv
<1> QED
  BY <1>2, <1>3, <1>5, Zenon DEF PredictInv

(* What the arrays of a batch hold.                                        *)
LEMMA ArrayEntries ==
  ASSUME PredictInv, NEW f \in Flying, NEW a \in Arrays(f)
  PROVE  /\ a \in Seq(Answers)
         /\ \A k \in DOMAIN a : k <= f.n_rows => a[k] = Asked(f)[k]
         /\ Len(a) < f.n_rows => "short" \in Replies
         /\ Len(a) > f.n_rows => "long" \in Replies
<1> DEFINE q == Asked(f)
           n == f.n_rows
<1>1. q \in Seq(Prompts) /\ Len(q) = n /\ n \in Nat \ {0}
  BY AskedEntries, Zenon
<1>2. \/ a = q
      \/ "short" \in Replies /\ \E m \in 0..(n - 1) : a = SubSeq(q, 1, m)
      \/ "long" \in Replies /\ a = Append(q, Extra)
  BY Zenon DEF Arrays
<1>3. Prompts \subseteq Answers /\ Extra \in Answers
  BY Zenon DEF Answers
<1> HIDE DEF q, n
<1>4. q \in Seq(Answers)
  BY <1>1, <1>3
<1>5. CASE a = q
  BY <1>1, <1>4, <1>5 DEF q, n
<1>6. ASSUME "short" \in Replies, NEW m \in 0..(n - 1), a = SubSeq(q, 1, m)
      PROVE  a \in Seq(Answers) /\ Len(a) = m /\ \A k \in 1..m : a[k] = q[k]
  BY <1>1, <1>4, <1>6
<1>7. CASE "short" \in Replies /\ \E m \in 0..(n - 1) : a = SubSeq(q, 1, m)
  <2>1. PICK m \in 0..(n - 1) : a = SubSeq(q, 1, m)
    BY <1>7, Zenon
  <2>2. a \in Seq(Answers) /\ Len(a) = m /\ \A k \in 1..m : a[k] = q[k]
    BY <1>6, <1>7, <2>1, Zenon
  <2>3. DOMAIN a = 1..m /\ ~ (Len(a) > n)
    BY <1>1, <2>2
  <2> QED
    BY <1>7, <2>2, <2>3, Zenon DEF q, n
<1>8. CASE "long" \in Replies /\ a = Append(q, Extra)
  <2>1. /\ a \in Seq(Answers) /\ Len(a) = n + 1 /\ ~ (Len(a) < n)
        /\ \A k \in DOMAIN a : k <= n => a[k] = q[k]
    BY <1>1, <1>3, <1>4, <1>8
  <2> QED
    BY <1>8, <2>1, Zenon DEF q, n
<1> QED
  BY <1>2, <1>5, <1>7, <1>8, Zenon

(* Nulls in a sequence of answers.                                         *)
LEMMA NullRows ==
  ASSUME NEW out \in Seq(Answers), NEW rows
  PROVE  /\ fill_null(out, rows) \in Seq(Answers) /\ Len(fill_null(out, rows)) = Len(out)
         /\ \A r \in DOMAIN out : fill_null(out, rows)[r] = IF r \in rows THEN NULL ELSE out[r]
<1>1. NULL \in Answers
  BY Zenon DEF Answers
<1> QED
  BY <1>1 DEF fill_null

(* GetArrayOfKeys keeps the invariant.                                     *)
LEMMA GetArrayOfKeysStep ==
  ASSUME PredictInv, GetArrayOfKeys
  PROVE  PredictInv'
<1> DEFINE f == Head(futures)
           a == f.outputs
           P == Placed(f, a)
<1>1. /\ Replied /\ use_cache /\ f.reply \in {"array", "garbled"}
      /\ UNCHANGED <<scenario, chunk, next, batch_fails, lost>>
  BY Zenon DEF GetArrayOfKeys
<1>2. /\ f \in Flying /\ CallInv(f) /\ Outcome(f) /\ a \in Seq(Answers)
  BY <1>1, FirstCall, Zenon
<1>3. CASE f.frow + Len(a) - 1 > Len(unprocessed) /\ futures' = <<>> /\ phase' = "undefined"
           /\ UNCHANGED <<output, cache>>
  <2>1. /\ output' \in Seq(Answers) /\ Len(output') = Len(output)
        /\ DOMAIN cache' \subseteq Prompts /\ \A p \in DOMAIN cache' : cache'[p] \in Answers
        /\ OnePerPrompt => \A p \in DOMAIN cache' : cache'[p] = p
    BY <1>3, Zenon DEF PredictInv, TypeOK, AnswerInv, CacheFaithful
  <2> QED
    BY <1>1, <1>3, <2>1, Stopping, Zenon
<1>4. CASE /\ f.frow + Len(a) - 1 <= Len(unprocessed)
           /\ output' = fill_null(P, Unanswered(f, a))
           /\ cache' = Cached(f, a)
           /\ Applied
  <2>1. P \in Seq(Answers) /\ Len(P) = Len(output) /\ DOMAIN P = DOMAIN input
    BY <1>2, PlacedRows, Zenon
  <2>2. /\ output' \in Seq(Answers) /\ Len(output') = Len(output)
        /\ \A r \in DOMAIN P : output'[r] = IF r \in Unanswered(f, a) THEN NULL ELSE P[r]
    <3> DEFINE U == Unanswered(f, a)
    <3>1. output' = fill_null(P, U)
      BY <1>4, Zenon
    <3> HIDE DEF P, U
    <3>2. /\ fill_null(P, U) \in Seq(Answers) /\ Len(fill_null(P, U)) = Len(P)
          /\ \A r \in DOMAIN P : fill_null(P, U)[r] = IF r \in U THEN NULL ELSE P[r]
      BY <2>1, NullRows, Zenon
    <3> QED
      BY <2>1, <3>1, <3>2, Zenon DEF U
  <2>3. /\ DOMAIN cache' \subseteq Prompts /\ \A p \in DOMAIN cache' : cache'[p] \in Answers
        /\ \A p \in DOMAIN cache' :
              \/ p \in DOMAIN cache /\ cache'[p] = cache[p]
              \/ \E k \in DOMAIN a : p = unprocessed[f.frow + k - 1] /\ cache'[p] = a[k]
    <3> DEFINE C == Cached(f, a)
    <3>1. /\ DOMAIN C \subseteq Prompts /\ \A p \in DOMAIN C : C[p] \in Answers
          /\ \A p \in DOMAIN C :
                \/ p \in DOMAIN cache /\ C[p] = cache[p]
                \/ \E k \in DOMAIN a : p = unprocessed[f.frow + k - 1] /\ C[p] = a[k]
      BY <1>2, <1>4, CachedPrompts, Zenon
    <3>2. cache' = C
      BY <1>4, Zenon
    <3> HIDE DEF C, a
    <3> QED
      BY <3>1, <3>2, Zenon
  <2>4. ASSUME OnePerPrompt
        PROVE  /\ Len(a) = f.n_rows /\ \A k \in DOMAIN a : a[k] = Asked(f)[k]
               /\ Unanswered(f, a) = {}
    <3>1. "short" \notin Replies /\ "long" \notin Replies /\ "garbled" \notin Replies
      BY <2>4, Zenon DEF OnePerPrompt
    <3>2. f.reply = "array" /\ a \in Arrays(f)
      BY <1>1, <1>2, <3>1, Zenon DEF Outcome
    <3>3. /\ ~ (Len(a) < f.n_rows) /\ ~ (Len(a) > f.n_rows)
          /\ \A k \in DOMAIN a : k <= f.n_rows => a[k] = Asked(f)[k]
      BY <1>2, <3>1, <3>2, ArrayEntries, Zenon
    <3>4. Len(a) \in Nat /\ DOMAIN a = 1..Len(a) /\ f.n_rows \in Nat
      BY <1>2, AskedEntries
    <3>5. Len(a) = f.n_rows /\ (\A k \in DOMAIN a : k <= f.n_rows) /\ ~ (Len(a) < f.n_rows - 1)
      BY <3>3, <3>4
    <3>6. f.reply # "garbled"
      BY <3>2, Zenon
    <3> QED
      BY <3>3, <3>5, <3>6, Zenon DEF Unanswered
  <2>5. ASSUME OnePerPrompt, NEW r \in DOMAIN input
        PROVE  IF r \in RowsFor(f) THEN output'[r] \in Allowed(r)' ELSE output'[r] = output[r]
    <3>1. output'[r] = P[r]
      <4>1. r \notin Unanswered(f, a) /\ r \in DOMAIN P
        BY <2>1, <2>4, <2>5, Zenon
      <4> HIDE DEF P, a
      <4> QED
        BY <2>2, <4>1, Zenon
    <3>2. IF r \in RowsFor(f) THEN P[r] = input[r] \/ ("garbled" \in Replies /\ P[r] = NULL)
          ELSE P[r] = output[r]
      BY <1>2, <2>4, <2>5, CompleteAnswer, Zenon
    <3>3. "garbled" \notin Replies
      BY <2>5, Zenon DEF OnePerPrompt
    <3>4. input[r] \in Allowed(r)'
      BY <1>1, SameChunk, Zenon DEF Allowed
    <3> QED
      BY <3>1, <3>2, <3>3, <3>4, Zenon
  <2>6. ASSUME OnePerPrompt, NEW p \in DOMAIN cache'
        PROVE  \/ p \in DOMAIN cache /\ cache'[p] = cache[p]
               \/ cache'[p] = p /\ \E i \in Covered(f) : p = unprocessed[i]
    <3>1. DOMAIN a = 1..f.n_rows
      BY <1>2, <2>4, <2>6
    <3>2. \A k \in DOMAIN a : /\ f.frow + k - 1 \in Covered(f)
                              /\ a[k] = unprocessed[f.frow + k - 1]
      BY <1>2, <2>4, <2>6, <3>1, AskedEntries, Zenon
    <3> QED
      BY <2>3, <2>6, <3>2, Zenon
  <2>7. lost \subseteq lost' /\ lost' \subseteq Prompts
    BY <1>1, Zenon DEF PredictInv, TypeOK
  <2> QED
    BY <1>1, <1>4, <2>2, <2>3, <2>5, <2>6, <2>7, Answering, Zenon
<1> QED
  BY <1>3, <1>4, Zenon DEF GetArrayOfKeys

(* The first entries of an array.                                          *)
LEMMA PrefixEntries ==
  ASSUME NEW a \in Seq(Answers), NEW n \in Nat \ {0}
  PROVE  /\ Prefix(a, n) \in Seq(Answers) /\ Len(Prefix(a, n)) <= n /\ Len(Prefix(a, n)) <= Len(a)
         /\ \A k \in 1..n : k <= Len(a) => k \in DOMAIN Prefix(a, n)
         /\ \A k \in DOMAIN Prefix(a, n) : Prefix(a, n)[k] = a[k] /\ k \in DOMAIN a /\ k <= n
<1> DEFINE b == Prefix(a, n)
<1>1. PICK m \in Nat : m = (IF Len(a) < n THEN Len(a) ELSE n)
  OBVIOUS
<1>2. m <= Len(a) /\ m <= n /\ b = SubSeq(a, 1, m)
  BY <1>1 DEF Prefix
<1> HIDE DEF b
<1>3. b \in Seq(Answers) /\ Len(b) = m /\ \A k \in 1..m : b[k] = a[k]
  BY <1>2
<1>4. DOMAIN b = 1..m
  BY <1>3
<1> QED
  BY <1>1, <1>2, <1>3, <1>4 DEF b

(* GetArrayOfRows keeps the invariant.                                     *)
LEMMA GetArrayOfRowsStep ==
  ASSUME PredictInv, GetArrayOfRows
  PROVE  PredictInv'
<1> DEFINE f == Head(futures)
           a == f.outputs
           b == Prefix(a, f.n_rows)
           P == Placed(f, b)
           U == (f.frow + Len(a))..(f.frow + f.n_rows - 1)
<1>1. /\ Replied /\ Applied /\ ~use_cache /\ f.reply \in {"array", "garbled"}
      /\ UNCHANGED <<scenario, chunk, cache, next, batch_fails, lost>>
      /\ output' = fill_null(P, U)
  BY Zenon DEF GetArrayOfRows, ArrayToRows
<1>2. f \in Flying /\ CallInv(f) /\ Outcome(f) /\ a \in Seq(Answers)
  BY <1>1, FirstCall, Zenon
<1>3. f.n_rows \in Nat \ {0} /\ f.frow \in Nat \ {0}
  BY <1>2, AskedEntries, Zenon
<1>4. /\ \A k \in DOMAIN a : k <= f.n_rows => a[k] = Asked(f)[k]
      /\ Len(a) < f.n_rows => {"short", "garbled"} \cap Replies # {}
  <2>1. CASE f.reply = "array"
    BY <1>2, <2>1, ArrayEntries, Zenon DEF Outcome
  <2>2. CASE f.reply = "garbled"
    <3>1. "garbled" \in Replies /\ a = <<>>
      BY <1>2, <2>2, Zenon DEF Outcome
    <3>2. DOMAIN a = {}
      BY <3>1
    <3> QED
      BY <3>1, <3>2, Zenon
  <2> QED
    BY <1>1, <2>1, <2>2, Zenon
<1>5. /\ b \in Seq(Answers) /\ Len(b) <= f.n_rows /\ Len(b) <= Len(a)
      /\ \A k \in 1..f.n_rows : k <= Len(a) => k \in DOMAIN b
      /\ \A k \in DOMAIN b : b[k] = a[k] /\ k \in DOMAIN a /\ k <= f.n_rows
  BY <1>2, <1>3, PrefixEntries, Zenon
<1>6. P \in Seq(Answers) /\ Len(P) = Len(output) /\ DOMAIN P = DOMAIN input
  BY <1>2, <1>5, PlacedRows, Zenon
<1>7. /\ output' \in Seq(Answers) /\ Len(output') = Len(output)
      /\ \A r \in DOMAIN input : output'[r] = IF r \in U THEN NULL ELSE P[r]
  <2> HIDE DEF P, U
  <2>1. /\ fill_null(P, U) \in Seq(Answers) /\ Len(fill_null(P, U)) = Len(P)
        /\ \A r \in DOMAIN P : fill_null(P, U)[r] = IF r \in U THEN NULL ELSE P[r]
    BY <1>6, NullRows, Zenon
  <2> QED
    BY <1>1, <1>6, <2>1, Zenon
<1>8. \A r \in DOMAIN input :
         /\ (\E k \in DOMAIN b : r \in RowsOf(f.frow + k - 1)) =>
                \/ P[r] = input[r]
                \/ "garbled" \in Replies /\ P[r] = NULL
         /\ r \notin RowsFor(f) => P[r] = output[r]
  <2>1. \A k \in DOMAIN b : b[k] = Asked(f)[k]
    BY <1>4, <1>5, Zenon
  <2> HIDE DEF b, f
  <2> QED
    BY <1>2, <1>5, <2>1, OwnAnswer, Zenon
<1>9. ASSUME NEW r \in DOMAIN input
      PROVE  IF r \in RowsFor(f) THEN output'[r] \in Allowed(r)' ELSE output'[r] = output[r]
  <2>1. r \in RowsFor(f) <=> r \in Covered(f)
    BY <1>1, <1>9, Zenon DEF RowsFor, RowsOf
  <2>2. /\ input[r] \in Allowed(r)'
        /\ {"short", "garbled"} \cap Replies # {} => NULL \in Allowed(r)'
    BY <1>1, SameChunk, Zenon DEF Allowed
  <2>3. "garbled" \in Replies => {"short", "garbled"} \cap Replies # {}
    BY Zenon
  <2>4. Len(a) \in Nat
    BY <1>2
  <2>5. CASE r \in U
    <3>1. r \in Covered(f) /\ Len(a) < f.n_rows
      BY <1>3, <2>4, <2>5, SpanCut, Zenon DEF Covered
    <3> QED
      BY <1>4, <1>7, <1>9, <2>1, <2>2, <2>5, <3>1, Zenon
  <2>6. CASE r \in RowsFor(f) /\ r \notin U
    <3>1. /\ r - f.frow + 1 \in 1..f.n_rows /\ r - f.frow + 1 <= Len(a)
          /\ r = f.frow + (r - f.frow + 1) - 1
      BY <1>3, <2>1, <2>4, <2>6, SpanEntries, SpanCut, Zenon DEF Covered
    <3>2. r - f.frow + 1 \in DOMAIN b /\ r \in RowsOf(f.frow + (r - f.frow + 1) - 1)
      BY <1>1, <1>5, <3>1, Zenon DEF RowsOf
    <3>3. P[r] = input[r] \/ ("garbled" \in Replies /\ P[r] = NULL)
      BY <1>8, <1>9, <3>2, Zenon
    <3> HIDE DEF P, U
    <3> QED
      BY <1>7, <1>9, <2>2, <2>3, <2>6, <3>3, Zenon
  <2>7. CASE r \notin RowsFor(f) /\ r \notin U
    <3>1. P[r] = output[r] /\ output'[r] = P[r]
      BY <1>7, <1>8, <1>9, <2>7, Zenon
    <3> QED
      BY <2>7, <3>1, Zenon
  <2> QED
    BY <2>5, <2>6, <2>7, Zenon
<1>10. /\ DOMAIN cache' \subseteq Prompts /\ \A p \in DOMAIN cache' : cache'[p] \in Answers
       /\ DOMAIN cache' = {}
       /\ lost \subseteq lost' /\ lost' \subseteq Prompts
  BY <1>1, Zenon DEF PredictInv, TypeOK, AnswerInv
<1> QED
  BY <1>1, <1>7, <1>9, <1>10, Answering, Zenon

(* Row-wise outputs, as GetRows and GetRetry place and keep them.          *)
LEMMA RowwiseOutputs ==
  ASSUME PredictInv, Replied, Head(futures).reply = "rows",
         output' = Placed(Head(futures), Head(futures).outputs),
         cache' = Cached(Head(futures), Head(futures).outputs)
  PROVE  /\ output' \in Seq(Answers) /\ Len(output') = Len(output)
         /\ DOMAIN cache' \subseteq Prompts /\ \A p \in DOMAIN cache' : cache'[p] \in Answers
         /\ ~use_cache => DOMAIN cache' = {}
         /\ \A p \in DOMAIN cache' :
              \/ p \in DOMAIN cache /\ cache'[p] = cache[p]
              \/ \E k \in DOMAIN Head(futures).outputs :
                    /\ p = unprocessed[Head(futures).frow + k - 1]
                    /\ cache'[p] = Head(futures).outputs[k]
<1> DEFINE f == Head(futures)
           a == f.outputs
           C == Cached(f, a)
           P == Placed(f, a)
<1>1. f \in Flying /\ Outcome(f) /\ a \in Seq(Answers)
  BY FirstCall, Zenon
<1>2. Len(a) <= f.n_rows
  BY <1>1, Zenon DEF Outcome, RowOutputs
<1>3. f.frow + Len(a) - 1 <= Len(unprocessed)
  <2>1. /\ f.frow \in Nat /\ f.n_rows \in Nat /\ Len(a) \in Nat
        /\ f.frow + f.n_rows - 1 \in 1..Len(unprocessed) /\ Len(unprocessed) \in Nat
    BY <1>1, CallFacts, AskedEntries
  <2> HIDE DEF a, f
  <2> QED
    BY <1>2, <2>1
<1>4. P \in Seq(Answers) /\ Len(P) = Len(output)
  BY <1>1, PlacedRows, Zenon
<1>5. /\ DOMAIN C \subseteq Prompts /\ (\A p \in DOMAIN C : C[p] \in Answers)
      /\ ~use_cache => DOMAIN C = {}
      /\ \A p \in DOMAIN C :
              \/ p \in DOMAIN cache /\ C[p] = cache[p]
              \/ \E k \in DOMAIN a : p = unprocessed[f.frow + k - 1] /\ C[p] = a[k]
  BY <1>1, <1>3, CachedPrompts, Zenon
<1>6. output' = P /\ cache' = C
  BY Zenon
<1> HIDE DEF P, C
<1>7. output' \in Seq(Answers) /\ Len(output') = Len(output)
  BY <1>4, <1>6, Zenon
<1>8. /\ DOMAIN cache' \subseteq Prompts /\ \A p \in DOMAIN cache' : cache'[p] \in Answers
      /\ ~use_cache => DOMAIN cache' = {}
  BY <1>5, <1>6, Zenon
<1>9. \A p \in DOMAIN cache' :
         \/ p \in DOMAIN cache /\ cache'[p] = cache[p]
         \/ \E k \in DOMAIN a : p = unprocessed[f.frow + k - 1] /\ cache'[p] = a[k]
  BY <1>5, <1>6, SMT
<1> QED
  BY <1>7, <1>8, <1>9, Zenon

(* Complete row-wise outputs give each row an answer it may have.          *)
LEMMA RowwiseAnswers ==
  ASSUME PredictInv, Replied, Head(futures).reply = "rows", UNCHANGED <<scenario, chunk>>,
         Len(Head(futures).outputs) = Head(futures).n_rows,
         output' = Placed(Head(futures), Head(futures).outputs)
  PROVE  \A r \in DOMAIN input :
            IF r \in RowsFor(Head(futures)) THEN output'[r] \in Allowed(r)'
            ELSE output'[r] = output[r]
<1> SUFFICES ASSUME NEW r \in DOMAIN input
             PROVE  IF r \in RowsFor(Head(futures)) THEN output'[r] \in Allowed(r)'
                    ELSE output'[r] = output[r]
  BY Zenon
<1> DEFINE f == Head(futures)
           a == f.outputs
           P == Placed(f, a)
<1>1. f \in Flying /\ Outcome(f) /\ a \in Seq(Answers)
  BY FirstCall, Zenon
<1>2. \A k \in DOMAIN a : a[k] = Asked(f)[k] \/ ("garbled" \in Replies /\ a[k] = NULL)
  <2>1. DOMAIN a = 1..f.n_rows
    BY <1>1
  <2> QED
    BY <1>1, <2>1, Zenon DEF Outcome, RowOutputs
<1>3. IF r \in RowsFor(f) THEN P[r] = input[r] \/ ("garbled" \in Replies /\ P[r] = NULL)
      ELSE P[r] = output[r]
  BY <1>1, <1>2, CompleteAnswer, Zenon
<1>4. /\ input[r] \in Allowed(r)'
      /\ {"short", "garbled"} \cap Replies # {} => NULL \in Allowed(r)'
  BY SameChunk, Zenon DEF Allowed
<1>5. "garbled" \in Replies => {"short", "garbled"} \cap Replies # {}
  BY Zenon
<1>6. output'[r] = P[r]
  BY Zenon
<1> HIDE DEF P
<1> QED
  BY <1>3, <1>4, <1>5, <1>6, Zenon

(* GetRows keeps the invariant: with a batch request there are no row-wise *)
(* results to collect, so no cache depends on these.                       *)
LEMMA GetRowsStep ==
  ASSUME PredictInv, GetRows
  PROVE  PredictInv'
<1> DEFINE f == Head(futures)
<1>1. /\ Replied /\ phase = "collect" /\ f.reply = "rows"
      /\ output' = Placed(f, f.outputs) /\ cache' = Cached(f, f.outputs)
      /\ \/ Len(f.outputs) = f.n_rows /\ Applied
         \/ Len(f.outputs) < f.n_rows /\ futures' = <<>> /\ phase' = "undefined"
      /\ UNCHANGED <<scenario, chunk, next, batch_fails, lost>>
  BY Zenon DEF GetRows
<1>2. ~OnePerPrompt
  <2>1. Outcome(f)
    BY <1>1, FirstCall, Zenon
  <2>2. use_batch => phase = "collect_retry"
    BY <1>1, <2>1, Zenon DEF Outcome
  <2>3. phase # "collect_retry"
    BY <1>1, Zenon
  <2> QED
    BY <2>2, <2>3, Zenon DEF OnePerPrompt
<1>3. /\ output' \in Seq(Answers) /\ Len(output') = Len(output)
      /\ DOMAIN cache' \subseteq Prompts /\ \A p \in DOMAIN cache' : cache'[p] \in Answers
      /\ ~use_cache => DOMAIN cache' = {}
  BY <1>1, RowwiseOutputs, Zenon
<1>4. lost \subseteq lost' /\ lost' \subseteq Prompts
  BY <1>1, Zenon DEF PredictInv, TypeOK
<1>5. CASE Len(f.outputs) = f.n_rows /\ Applied
  <2>1. \A r \in DOMAIN input :
            IF r \in RowsFor(f) THEN output'[r] \in Allowed(r)' ELSE output'[r] = output[r]
    BY <1>1, <1>5, RowwiseAnswers, Zenon
  <2> QED
    BY <1>1, <1>2, <1>3, <1>4, <1>5, <2>1, Answering, Zenon
<1>6. CASE futures' = <<>> /\ phase' = "undefined"
  BY <1>1, <1>2, <1>3, <1>6, Stopping, Zenon
<1> QED
  BY <1>1, <1>5, <1>6, Zenon

(* No outputs, no change.                                                  *)
LEMMA NothingPlaced ==
  ASSUME PredictInv, NEW f
  PROVE  \A r \in DOMAIN input : Placed(f, <<>>)[r] = output[r]
<1>1. <<>> \in Seq(Answers) /\ DOMAIN <<>> = {}
  OBVIOUS
<1> QED
  BY <1>1, PlacedRows, Zenon

(* GetRetry keeps the invariant: the rows of the entry get their answer,   *)
(* or the entry is one whose own call had no content.                      *)
LEMMA GetRetryStep ==
  ASSUME PredictInv, GetRetry
  PROVE  PredictInv'
<1> DEFINE f == Head(futures)
           a == f.outputs
<1>1. /\ Replied /\ phase = "collect_retry" /\ f.reply = "rows"
      /\ output' = Placed(f, f.outputs) /\ cache' = Cached(f, f.outputs)
      /\ lost' = IF a = <<>> THEN lost \cup {unprocessed[f.frow]} ELSE lost
      /\ Applied
      /\ UNCHANGED <<scenario, chunk, next, batch_fails>>
  BY Zenon DEF GetRetry
<1>2. /\ f \in Flying /\ CallInv(f) /\ Outcome(f) /\ a \in Seq(Answers)
  BY <1>1, FirstCall, Zenon
<1>3. /\ f.n_rows = 1 /\ Len(a) <= 1 /\ RowOutputs(f)
  BY <1>1, <1>2, Zenon DEF CallInv, Outcome, RowOutputs
<1>11. Len(a) \in Nat /\ DOMAIN a = 1..Len(a) /\ (Len(a) = 0 => a = <<>> /\ DOMAIN a = {})
  <2>1. \A s \in Seq(Answers) : Len(s) \in Nat /\ DOMAIN s = 1..Len(s)
                               /\ (Len(s) = 0 => s = <<>> /\ DOMAIN s = {})
    OBVIOUS
  <2> QED
    BY <1>2, <2>1, Zenon
<1>4. /\ output' \in Seq(Answers) /\ Len(output') = Len(output)
      /\ DOMAIN cache' \subseteq Prompts /\ \A p \in DOMAIN cache' : cache'[p] \in Answers
      /\ ~use_cache => DOMAIN cache' = {}
  BY <1>1, RowwiseOutputs, Zenon
<1>5. \A p \in DOMAIN cache' :
         \/ p \in DOMAIN cache /\ cache'[p] = cache[p]
         \/ \E k \in DOMAIN a : p = unprocessed[f.frow + k - 1] /\ cache'[p] = a[k]
  BY <1>1, RowwiseOutputs, Zenon
<1>6. unprocessed[f.frow] \in Prompts
  <2>1. f.frow \in 1..Len(unprocessed)
    BY <1>2, CallFacts, Zenon
  <2> QED
    BY <2>1 DEF PredictInv, TypeOK
<1>7. lost \subseteq lost' /\ lost' \subseteq Prompts
  BY <1>1, <1>6, Zenon DEF PredictInv, TypeOK
<1>8. CASE Len(a) = 1
  <2>1. \A r \in DOMAIN input :
            IF r \in RowsFor(f) THEN output'[r] \in Allowed(r)' ELSE output'[r] = output[r]
    <3>1. Len(f.outputs) = f.n_rows
      BY <1>3, <1>8, Zenon
    <3>2. UNCHANGED <<scenario, chunk>>
      BY <1>1, Zenon
    <3> QED
      BY <1>1, <3>1, <3>2, RowwiseAnswers, Zenon
  <2>2. ASSUME OnePerPrompt, NEW p \in DOMAIN cache'
        PROVE  \/ p \in DOMAIN cache /\ cache'[p] = cache[p]
               \/ cache'[p] = p /\ \E i \in Covered(f) : p = unprocessed[i]
    <3>1. DOMAIN a = 1..f.n_rows /\ Len(a) = f.n_rows
      BY <1>3, <1>8, <1>11, Zenon
    <3>2. "garbled" \notin Replies
      BY <2>2, Zenon DEF OnePerPrompt
    <3>3. \A k \in DOMAIN a : /\ f.frow + k - 1 \in Covered(f)
                              /\ a[k] = unprocessed[f.frow + k - 1]
      BY <1>2, <1>3, <3>1, <3>2, AskedEntries, Zenon DEF RowOutputs
    <3> QED
      BY <1>5, <2>2, <3>3, Zenon
  <2> QED
    BY <1>1, <1>4, <1>7, <2>1, <2>2, Answering, Zenon
<1>9. CASE Len(a) = 0
  <2>1. a = <<>> /\ DOMAIN a = {}
    BY <1>9, <1>11, Zenon
  <2>2. \A r \in DOMAIN input : output'[r] = output[r]
    <3>1. output' = Placed(f, <<>>)
      BY <1>1, <2>1, Zenon
    <3> QED
      BY <3>1, NothingPlaced, Zenon
  <2>3. ASSUME use_cache => OnePerPrompt, NEW r \in DOMAIN input
        PROVE  IF r \in RowsFor(f) THEN output'[r] \in Allowed(r)' ELSE output'[r] = output[r]
    <3>1. output[r] \in Allowed(r) \cup {Unset}
      <4>1. phase \notin {"failed", "undefined"}
        BY <1>1, Zenon
      <4> QED
        BY <2>3, <4>1, Zenon DEF PredictInv, AnswerInv
    <3>2. Allowed(r) \subseteq Allowed(r)'
      BY <1>1, <1>7, SameChunk, Zenon DEF Allowed
    <3>3. ASSUME r \in RowsFor(f) PROVE Unset \in Allowed(r)'
      <4>1. PICK i \in Covered(f) : r \in RowsOf(i)
        BY <3>3, Zenon DEF RowsFor
      <4>2. i = f.frow
        <5>1. f.frow \in Nat
          BY <1>2, AskedEntries, Zenon
        <5> QED
          BY <1>3, <4>1, <5>1 DEF Covered
      <4>3. input[r] = unprocessed[f.frow]
        <5>1. i \in 1..Len(unprocessed)
          BY <1>2, <4>1, Zenon DEF CallInv
        <5> QED
          BY <4>1, <4>2, <5>1, RowHasPrompt, Zenon
      <4>4. input'[r] \in lost'
        BY <1>1, <2>1, <4>3, SameChunk, Zenon
      <4> QED
        BY <4>4, Zenon DEF Allowed
    <3> QED
      BY <2>2, <2>3, <3>1, <3>2, <3>3, Zenon
  <2>4. \A p \in DOMAIN cache' : p \in DOMAIN cache /\ cache'[p] = cache[p]
    BY <1>5, <2>1, Zenon
  <2> QED
    BY <1>1, <1>4, <1>7, <2>3, <2>4, Answering, Zenon
<1>10. Len(a) = 0 \/ Len(a) = 1
  <2> HIDE DEF a, f
  <2> QED
    BY <1>3, <1>11
<1> QED
  BY <1>8, <1>9, <1>10, Zenon

(* GetThrows keeps the invariant.                                          *)
LEMMA GetThrowsStep ==
  ASSUME PredictInv, GetThrows
  PROVE  PredictInv'
<1>1. /\ futures' = <<>> /\ phase' = "failed"
      /\ UNCHANGED <<scenario, chunk, output, cache, next, batch_fails, lost>>
  BY Zenon DEF GetThrows
<1>2. /\ output' \in Seq(Answers) /\ Len(output') = Len(output)
      /\ DOMAIN cache' \subseteq Prompts /\ \A p \in DOMAIN cache' : cache'[p] \in Answers
      /\ ~use_cache => DOMAIN cache' = {}
      /\ OnePerPrompt => \A p \in DOMAIN cache' : cache'[p] = p
  BY <1>1, Zenon DEF PredictInv, TypeOK, AnswerInv, CacheFaithful
<1> QED
  BY <1>1, <1>2, Stopping, Zenon

(* A step that answers nothing, while the same entries wait.               *)
LEMMA Waiting ==
  ASSUME PredictInv, UNCHANGED <<scenario, chunk, output, cache, lost>>, Open' = Open,
         phase \notin {"failed", "undefined"}
  PROVE  AnswerInv'
<1>1. /\ unprocessed' = unprocessed /\ input' = input /\ use_cache' = use_cache
      /\ OnePerPrompt' = OnePerPrompt /\ Replies' = Replies
  BY SameChunk, Zenon
<1>2. CacheFaithful'
  BY <1>1, Zenon DEF PredictInv, AnswerInv, CacheFaithful
<1>3. \A i : RowsOf(i)' = RowsOf(i)
  BY SameBatches, Zenon
<1>4. \A r : Allowed(r)' = Allowed(r)
  BY <1>1, Zenon DEF Allowed
<1>5. ASSUME use_cache => OnePerPrompt, NEW r \in DOMAIN input
      PROVE  /\ output'[r] \in Allowed(r)' \cup {Unset}
             /\ output'[r] \in Allowed(r)' \/ \E i \in Open' : r \in RowsOf(i)'
  <2>1. /\ output[r] \in Allowed(r) \cup {Unset}
        /\ output[r] \in Allowed(r) \/ \E i \in Open : r \in RowsOf(i)
    BY <1>5, Zenon DEF PredictInv, AnswerInv
  <2> QED
    BY <1>3, <1>4, <2>1, Zenon
<1>6. /\ IF use_cache
         THEN \A i, j \in DOMAIN unprocessed : unprocessed[i] = unprocessed[j] => i = j
         ELSE unprocessed = input /\ DOMAIN cache = {}
      /\ use_cache /\ OnePerPrompt => \A i \in Open : unprocessed[i] \notin DOMAIN cache
  BY Zenon DEF PredictInv, AnswerInv
<1> QED
  BY <1>1, <1>2, <1>5, <1>6, Zenon DEF AnswerInv

(* The type invariant after a step that only deals with calls.             *)
LEMMA CallTypes ==
  ASSUME PredictInv, UNCHANGED <<scenario, chunk, output, cache, lost>>,
         phase' \in Phases, next' \in Nat, batch_fails' \in Seq(1..Len(unprocessed)),
         Len(futures') <= n_threads,
         \A k \in DOMAIN futures' :
            /\ futures'[k].frow \in Nat /\ futures'[k].n_rows \in Nat \ {0}
            /\ Covered(futures'[k]) \subseteq 1..Len(unprocessed)
  PROVE  TypeOK'
<1>1. \A k \in DOMAIN futures' :
         /\ futures'[k].frow \in 1..Len(unprocessed)
         /\ futures'[k].frow + futures'[k].n_rows - 1 \in 1..Len(unprocessed)
  <2> SUFFICES ASSUME NEW k \in DOMAIN futures'
               PROVE  /\ futures'[k].frow \in 1..Len(unprocessed)
                      /\ futures'[k].frow + futures'[k].n_rows - 1 \in 1..Len(unprocessed)
    BY Zenon
  <2>1. /\ futures'[k].frow \in Covered(futures'[k])
        /\ futures'[k].frow + futures'[k].n_rows - 1 \in Covered(futures'[k])
    BY DEF Covered
  <2> QED
    BY <2>1, Zenon
<1> QED
  BY <1>1, SameChunk, Zenon DEF PredictInv, TypeOK

(* Two sequences one after the other.                                      *)
LEMMA Concatenation ==
  ASSUME NEW T, NEW s \in Seq(T), NEW t \in Seq(T)
  PROVE  /\ s \o t \in Seq(T) /\ Len(s \o t) = Len(s) + Len(t)
         /\ DOMAIN s = 1..Len(s) /\ DOMAIN t = 1..Len(t)
         /\ DOMAIN (s \o t) = 1..Len(s \o t)
         /\ \A j \in DOMAIN s : j \in DOMAIN (s \o t) /\ (s \o t)[j] = s[j]
         /\ \A k \in DOMAIN t : Len(s) + k \in DOMAIN (s \o t) /\ (s \o t)[Len(s) + k] = t[k]
         /\ \A j \in DOMAIN (s \o t) : j \in DOMAIN s \/ \E k \in DOMAIN t : j = Len(s) + k
<1>1. s \o t \in Seq(T) /\ Len(s \o t) = Len(s) + Len(t)
  OBVIOUS
<1>2. /\ DOMAIN s = 1..Len(s) /\ DOMAIN t = 1..Len(t) /\ Len(s) \in Nat /\ Len(t) \in Nat
      /\ DOMAIN (s \o t) = 1..(Len(s) + Len(t))
  BY <1>1
<1>3. \A j \in 1..Len(s) : (s \o t)[j] = s[j]
  BY <1>2
<1>4. \A k \in 1..Len(t) : (s \o t)[Len(s) + k] = t[k]
  BY <1>2
<1>5. \A j \in 1..(Len(s) + Len(t)) : j \in 1..Len(s) \/ \E k \in 1..Len(t) : j = Len(s) + k
  <2> SUFFICES ASSUME NEW j \in 1..(Len(s) + Len(t)), j \notin 1..Len(s)
               PROVE  \E k \in 1..Len(t) : j = Len(s) + k
    BY Zenon
  <2>1. j - Len(s) \in 1..Len(t) /\ j = Len(s) + (j - Len(s))
    BY <1>2
  <2> QED
    BY <2>1, Zenon
<1>6. /\ \A j \in 1..Len(s) : j \in 1..(Len(s) + Len(t))
      /\ \A k \in 1..Len(t) : Len(s) + k \in 1..(Len(s) + Len(t))
  BY <1>2
<1> QED
  BY <1>1, <1>2, <1>3, <1>4, <1>5, <1>6, Zenon

(* Two sequences without repetitions and without common elements.          *)
LEMMA DisjointConcatenation ==
  ASSUME NEW T, NEW s \in Seq(T), NEW t \in Seq(T),
         \A i, j \in DOMAIN s : s[i] = s[j] => i = j,
         \A i, j \in DOMAIN t : t[i] = t[j] => i = j,
         \A i \in DOMAIN s, j \in DOMAIN t : s[i] # t[j]
  PROVE  /\ s \o t \in Seq(T)
         /\ {(s \o t)[j] : j \in 1..Len(s \o t)} = {s[j] : j \in DOMAIN s} \cup {t[k] : k \in DOMAIN t}
         /\ \A i, j \in DOMAIN (s \o t) : (s \o t)[i] = (s \o t)[j] => i = j
<1> DEFINE u == s \o t
<1>1. /\ u \in Seq(T) /\ DOMAIN u = 1..Len(u)
      /\ \A j \in DOMAIN s : j \in DOMAIN u /\ u[j] = s[j]
      /\ \A k \in DOMAIN t : Len(s) + k \in DOMAIN u /\ u[Len(s) + k] = t[k]
      /\ \A j \in DOMAIN u : j \in DOMAIN s \/ \E k \in DOMAIN t : j = Len(s) + k
  BY Concatenation, SMTT(15)
<1> HIDE DEF u
<1> DEFINE U == {u[j] : j \in 1..Len(u)}
           A == {s[j] : j \in DOMAIN s}
           B == {t[k] : k \in DOMAIN t}
<1>2. U \subseteq A \cup B
  <2>1. ASSUME NEW j \in DOMAIN u PROVE u[j] \in A \cup B
    <3>1. CASE j \in DOMAIN s
      <4>1. u[j] = s[j] /\ s[j] \in A
        BY <1>1, <3>1, Zenon
      <4> HIDE DEF A, B
      <4> QED
        BY <4>1, Zenon
    <3>2. CASE \E k \in DOMAIN t : j = Len(s) + k
      <4>1. PICK k \in DOMAIN t : j = Len(s) + k
        BY <3>2, Zenon
      <4>2. u[j] = t[k] /\ t[k] \in B
        BY <1>1, <4>1, Zenon
      <4> HIDE DEF A, B
      <4> QED
        BY <4>2, Zenon
    <3> QED
      BY <1>1, <2>1, <3>1, <3>2, Zenon
  <2> HIDE DEF A, B
  <2> QED
    BY <1>1, <2>1
<1>3. A \subseteq U /\ B \subseteq U
  <2>1. ASSUME NEW j \in DOMAIN s PROVE s[j] \in U
    <3>1. j \in 1..Len(u) /\ u[j] = s[j]
      BY <1>1, Zenon
    <3> QED
      BY <3>1, Zenon
  <2>2. ASSUME NEW k \in DOMAIN t PROVE t[k] \in U
    <3>1. Len(s) + k \in 1..Len(u) /\ u[Len(s) + k] = t[k]
      BY <1>1, Zenon
    <3> QED
      BY <3>1, Zenon
  <2> HIDE DEF U
  <2> QED
    BY <2>1, <2>2, Zenon
<1>4. ASSUME NEW i \in DOMAIN u, NEW j \in DOMAIN u, u[i] = u[j] PROVE i = j
  <2>1. CASE i \in DOMAIN s /\ j \in DOMAIN s
    <3>1. u[i] = s[i] /\ u[j] = s[j]
      BY <1>1, <2>1, Zenon
    <3> QED
      BY <1>4, <2>1, <3>1, Zenon
  <2>2. ASSUME NEW k \in DOMAIN t, NEW l \in DOMAIN t, i = Len(s) + k, j = Len(s) + l PROVE i = j
    <3>1. u[i] = t[k] /\ u[j] = t[l]
      BY <1>1, <2>2, Zenon
    <3> QED
      BY <1>4, <2>2, <3>1, Zenon
  <2>3. ASSUME NEW x \in DOMAIN s, NEW k \in DOMAIN t, 
               (i = x /\ j = Len(s) + k) \/ (j = x /\ i = Len(s) + k)
        PROVE  FALSE
    <3>1. u[x] = s[x] /\ u[Len(s) + k] = t[k] /\ s[x] # t[k]
      BY <1>1, Zenon
    <3> QED
      BY <1>4, <2>3, <3>1, Zenon
  <2>4. /\ i \in DOMAIN s \/ \E k \in DOMAIN t : i = Len(s) + k
        /\ j \in DOMAIN s \/ \E k \in DOMAIN t : j = Len(s) + k
    BY <1>1, Zenon
  <2> QED
    BY <2>1, <2>2, <2>3, <2>4, SMT
<1>5. U = A \cup B
  <2> HIDE DEF U, A, B
  <2> QED
    BY <1>2, <1>3, Zenon
<1> QED
  BY <1>1, <1>4, <1>5, Zenon DEF u

(* Consecutive entries as a sequence.                                      *)
LEMMA ConsecutiveEntries ==
  ASSUME NEW N \in Nat, NEW p \in Nat, NEW m \in Nat, \A k \in 1..m : p + k - 1 \in 1..N
  PROVE  [k \in 1..m |-> p + k - 1] \in Seq(1..N)
OBVIOUS

(* The entries of a failed batch come last in batch_fails.                 *)
LEMMA FailedBatch ==
  ASSUME PredictInv, NEW f \in Flying, Covered(f) \cap Failed(0) = {}
  PROVE  /\ batch_fails \o FailedRows(f) \in Seq(1..Len(unprocessed))
         /\ {(batch_fails \o FailedRows(f))[j] : j \in 1..Len(batch_fails \o FailedRows(f))}
               = Failed(0) \cup Covered(f)
         /\ \A i, j \in DOMAIN (batch_fails \o FailedRows(f)) :
               (batch_fails \o FailedRows(f))[i] = (batch_fails \o FailedRows(f))[j] => i = j
<1> DEFINE N == Len(unprocessed)
           t == FailedRows(f)
<1>1. /\ f.frow \in Nat \ {0} /\ f.n_rows \in Nat \ {0}
      /\ \A k \in 1..f.n_rows : f.frow + k - 1 \in 1..N /\ f.frow + k - 1 \in Covered(f)
      /\ \A i \in Covered(f) : i - f.frow + 1 \in 1..f.n_rows /\ i = f.frow + (i - f.frow + 1) - 1
  BY AskedEntries, Zenon
<1>2. batch_fails \in Seq(1..N) /\ \A i, j \in DOMAIN batch_fails : batch_fails[i] = batch_fails[j] => i = j
  BY Zenon DEF PredictInv, TypeOK, FlightInv
<1>3. Failed(0) = {batch_fails[j] : j \in DOMAIN batch_fails}
  BY <1>2 DEF Failed
<1>4. /\ DOMAIN t = 1..f.n_rows /\ \A k \in 1..f.n_rows : t[k] = f.frow + k - 1
      /\ t = [k \in 1..f.n_rows |-> f.frow + k - 1]
  BY Zenon DEF FailedRows
<1> HIDE DEF N
<1>5. t \in Seq(1..N)
  <2>1. N \in Nat /\ f.frow \in Nat /\ f.n_rows \in Nat
    BY <1>1, CallFacts, Zenon DEF N
  <2>2. \A k \in 1..f.n_rows : f.frow + k - 1 \in 1..N
    BY <1>1, Zenon
  <2>3. [k \in 1..f.n_rows |-> f.frow + k - 1] \in Seq(1..N)
    BY <2>1, <2>2, ConsecutiveEntries, Zenon
  <2> QED
    BY <1>4, <2>3, Zenon
<1> HIDE DEF t
<1>6. \A i, j \in DOMAIN t : t[i] = t[j] => i = j
  <2> SUFFICES ASSUME NEW i \in 1..f.n_rows, NEW j \in 1..f.n_rows, t[i] = t[j] PROVE i = j
    BY <1>4, Zenon
  <2>1. f.frow + i - 1 = f.frow + j - 1
    BY <1>4, Zenon
  <2>2. f.frow \in Nat
    BY <1>1, Zenon
  <2> QED
    BY <2>1, <2>2
<1>7. {t[k] : k \in DOMAIN t} = Covered(f)
  <2>1. \A k \in DOMAIN t : t[k] \in Covered(f)
    BY <1>1, <1>4, Zenon
  <2>2. \A i \in Covered(f) : i - f.frow + 1 \in DOMAIN t /\ t[i - f.frow + 1] = i
    BY <1>1, <1>4, Zenon
  <2> QED
    BY <2>1, <2>2, Zenon
<1>8. \A i \in DOMAIN batch_fails, j \in DOMAIN t : batch_fails[i] # t[j]
  <2>1. \A i \in DOMAIN batch_fails : batch_fails[i] \in Failed(0)
    BY <1>3, Zenon
  <2>2. \A j \in DOMAIN t : t[j] \in Covered(f)
    BY <1>7, Zenon
  <2> QED
    BY <2>1, <2>2, Zenon
<1> DEFINE T == 1..N
<1>9. batch_fails \in Seq(T) /\ t \in Seq(T)
  BY <1>2, <1>5, Zenon
<1> HIDE DEF T
<1>10. /\ batch_fails \o t \in Seq(T)
       /\ {(batch_fails \o t)[j] : j \in 1..Len(batch_fails \o t)}
             = {batch_fails[j] : j \in DOMAIN batch_fails} \cup {t[k] : k \in DOMAIN t}
       /\ \A i, j \in DOMAIN (batch_fails \o t) :
             (batch_fails \o t)[i] = (batch_fails \o t)[j] => i = j
  BY <1>2, <1>6, <1>8, <1>9, DisjointConcatenation, Zenon
<1> QED
  BY <1>3, <1>7, <1>10, Zenon DEF N, t, T

(* GetFailedBatch keeps the invariant: the entries of the batch wait for   *)
(* their second call.                                                      *)
LEMMA GetFailedBatchStep ==
  ASSUME PredictInv, GetFailedBatch
  PROVE  PredictInv'
<1> DEFINE f == Head(futures)
<1>1. /\ Replied /\ f.reply = "failed" /\ Applied
      /\ batch_fails' = batch_fails \o FailedRows(f)
      /\ UNCHANGED <<scenario, chunk, output, cache, next, lost>>
  BY Zenon DEF GetFailedBatch
<1>2. f \in Flying /\ CallInv(f) /\ phase = "collect"
  BY <1>1, FirstCall, Zenon DEF Outcome
<1>3. Covered(f) \subseteq Launched \ Failed(0)
  BY <1>2, Zenon DEF CallInv
<1>4. /\ batch_fails' \in Seq(1..Len(unprocessed))
      /\ Failed(0)' = Failed(0) \cup Covered(f)
      /\ \A i, j \in DOMAIN batch_fails' : batch_fails'[i] = batch_fails'[j] => i = j
  <2>1. Covered(f) \cap Failed(0) = {}
    BY <1>3, Zenon
  <2>2. /\ batch_fails' \in Seq(1..Len(unprocessed))
        /\ {batch_fails'[j] : j \in 1..Len(batch_fails')} = Failed(0) \cup Covered(f)
        /\ \A i, j \in DOMAIN batch_fails' : batch_fails'[i] = batch_fails'[j] => i = j
    <3> DEFINE bf == batch_fails \o FailedRows(f)
    <3>1. /\ bf \in Seq(1..Len(unprocessed))
          /\ {bf[j] : j \in 1..Len(bf)} = Failed(0) \cup Covered(f)
          /\ \A i, j \in DOMAIN bf : bf[i] = bf[j] => i = j
      BY <1>2, <2>1, FailedBatch, Zenon
    <3>2. batch_fails' = bf
      BY <1>1, Zenon
    <3> HIDE DEF bf
    <3> QED
      BY <3>1, <3>2, Zenon
  <2>3. Failed(0)' = {batch_fails'[j] : j \in 1..Len(batch_fails')}
    BY DEF Failed
  <2> QED
    BY <2>2, <2>3, Zenon
<1>5. /\ Flying' \subseteq Flying /\ InFlight' = InFlight \ Covered(f)
      /\ futures' \in Seq(Calls) /\ Len(futures') <= n_threads
      /\ \A k \in DOMAIN futures' : futures'[k] \in Flying
      /\ \A k, l \in DOMAIN futures' : k # l => Covered(futures'[k]) \cap Covered(futures'[l]) = {}
      /\ \A g \in Flying' : Covered(g) \cap Covered(f) = {}
      /\ phase' # phase => futures' = <<>> /\ Flying' = {}
  BY <1>1, Popping, Zenon
<1>6. phase' \in {"batches", "collect"}
  BY <1>1, <1>2, Popping, Zenon
<1>7. Launched' = Launched /\ unprocessed' = unprocessed
  BY <1>1, SameBatches, SameChunk, Zenon
<1>8. Failed(0) \subseteq Launched
  BY <1>2, Zenon DEF PredictInv, FlightInv
<1>9. Open' = Open
  <2>1. /\ Open = ((1..Len(unprocessed)) \ Launched) \cup InFlight \cup Failed(0)
        /\ Open' = ((1..Len(unprocessed)') \ Launched') \cup InFlight' \cup Failed(0)'
    BY <1>2, <1>6, OpenEntries, OpenEntriesNext, Zenon
  <2>2. Covered(f) \subseteq InFlight
    BY <1>2, Zenon DEF InFlight
  <2> QED
    BY <1>4, <1>5, <1>7, <2>1, <2>2, Zenon
<1>10. \A g \in Flying' : CallInv(g)'
  <2> SUFFICES ASSUME NEW g \in Flying' PROVE CallInv(g)'
    BY Zenon
  <2>1. phase' = phase /\ phase # "collect_retry"
    BY <1>2, <1>5, Zenon
  <2>2. CallInv(g)
    BY <1>5, Zenon DEF PredictInv, FlightInv
  <2>3. Outcome(g)'
    BY <1>1, <2>1, <2>2, SameOutcome, Zenon DEF CallInv
  <2>4. Covered(g) \subseteq Launched \ Failed(0)'
    BY <1>2, <1>4, <1>5, <2>2, Zenon DEF CallInv
  <2> QED
    BY <1>7, <2>1, <2>2, <2>3, <2>4, Zenon DEF CallInv
<1>11. FlightInv'
  <2>1. phase' \notin {"collect", "collect_retry"} => futures' = <<>>
    BY <1>2, <1>5, Zenon
  <2>2. Failed(0)' \subseteq Launched'
    BY <1>3, <1>4, <1>7, <1>8, Zenon
  <2> QED
    BY <1>4, <1>5, <1>10, <2>1, <2>2, Zenon DEF FlightInv
<1>12. TypeOK'
  <2>1. \A k \in DOMAIN futures' :
            /\ futures'[k].frow \in Nat /\ futures'[k].n_rows \in Nat \ {0}
            /\ Covered(futures'[k]) \subseteq 1..Len(unprocessed)
    <3>1. \A g \in Flying : /\ g.frow \in Nat /\ g.n_rows \in Nat \ {0}
                            /\ Covered(g) \subseteq 1..Len(unprocessed)
      BY CallFacts, AskedEntries, Zenon DEF CallInv
    <3> QED
      BY <1>5, <3>1, Zenon
  <2>2. phase' \in Phases
    BY <1>6, Zenon DEF Phases
  <2>3. next' \in Nat
    BY <1>1, Zenon DEF PredictInv, TypeOK
  <2> QED
    BY <1>1, <1>4, <1>5, <2>1, <2>2, <2>3, CallTypes, Zenon
<1>13. AnswerInv'
  <2>1. phase \notin {"failed", "undefined"}
    BY <1>2, Zenon
  <2> QED
    BY <1>1, <1>9, <2>1, Waiting, Zenon
<1> QED
  BY <1>11, <1>12, <1>13, Zenon DEF PredictInv

(* What comes back for a batch request.                                    *)
LEMMA BatchReply ==
  ASSUME PredictInv, NEW f \in Flying, f.reply = Pending, NEW g \in PredictBatch(f),
         use_batch, phase = "collect"
  PROVE  g \in Calls /\ g.frow = f.frow /\ g.n_rows = f.n_rows /\ Outcome(g)
<1>1. f \in Calls /\ f.outputs = <<>>
  BY CallFacts, Zenon DEF CallInv, Outcome
<1>2. CASE \E a \in Arrays(f) : g = [f EXCEPT !.reply = "array", !.outputs = a]
  <2>1. PICK a \in Arrays(f) : g = [f EXCEPT !.reply = "array", !.outputs = a]
    BY <1>2, Zenon
  <2>2. a \in Seq(Answers)
    BY ArrayEntries, Zenon
  <2>3. /\ g \in Calls /\ g.frow = f.frow /\ g.n_rows = f.n_rows
        /\ g.reply = "array" /\ g.outputs = a
    BY <1>1, <2>1, <2>2, Zenon DEF Calls
  <2>4. Arrays(g) = Arrays(f)
    <3>1. Asked(g) = Asked(f)
      BY <2>3, Zenon DEF Asked
    <3> QED
      BY <2>3, <3>1 DEF Arrays
  <2>5. Outcome(g)
    BY <2>3, <2>4, Zenon DEF Outcome, Pending
  <2> QED
    BY <2>3, <2>5, Zenon
<1>3. CASE \E r \in {"garbled", "failed", "throws"} :
              /\ g = [f EXCEPT !.reply = r]
              /\ r = "garbled" => "garbled" \in Replies
  <2>1. PICK r \in {"garbled", "failed", "throws"} :
              /\ g = [f EXCEPT !.reply = r]
              /\ r = "garbled" => "garbled" \in Replies
    BY <1>3, Zenon
  <2>2. /\ g \in Calls /\ g.frow = f.frow /\ g.n_rows = f.n_rows
        /\ g.reply = r /\ g.outputs = <<>>
    BY <1>1, <2>1, Zenon DEF Calls
  <2>3. Outcome(g)
    BY <2>1, <2>2, Zenon DEF Outcome, Pending
  <2> QED
    BY <2>2, <2>3, Zenon
<1> QED
  BY <1>2, <1>3, Zenon DEF PredictBatch

(* The results of row-wise requests.                                       *)
LEMMA RowwiseResults ==
  ASSUME NEW f, NEW g \in PredictOne(f)
  PROVE  \/ \E got, bad \in SUBSET (1..f.n_rows) :
               (bad # {} => "garbled" \in Replies) /\ g = RowResults(f, got, bad)
         \/ g = [f EXCEPT !.reply = "throws"]
<1> DEFINE G == IF "empty" \in Replies THEN SUBSET (1..f.n_rows) ELSE {1..f.n_rows}
           B == IF "garbled" \in Replies THEN SUBSET (1..f.n_rows) ELSE {{}}
           X == {RowResults(f, got, bad) : got \in G, bad \in B}
           Y == IF {"failed", "no_json"} \cap Replies # {}
                THEN {[f EXCEPT !.reply = "throws"]} ELSE {}
<1>1. PredictOne(f) = X \cup Y
  BY SMT DEF PredictOne
<1>2. g \in X \/ g \in Y
  <2> HIDE DEF X, Y
  <2> QED
    BY <1>1, Zenon
<1>3. G \subseteq SUBSET (1..f.n_rows)
  BY Zenon
<1>4. \A b \in B : b \in SUBSET (1..f.n_rows) /\ (b # {} => "garbled" \in Replies)
  BY Zenon
<1>5. g \in Y => g = [f EXCEPT !.reply = "throws"]
  BY Zenon
<1>6. CASE g \in X
  <2> HIDE DEF G, B
  <2>1. PICK got \in G, bad \in B : g = RowResults(f, got, bad)
    BY <1>6, SMT
  <2>2. got \in SUBSET (1..f.n_rows)
    BY <1>3, Zenon
  <2> QED
    BY <1>4, <2>1, <2>2, Zenon
<1> HIDE DEF X, Y
<1> QED
  BY <1>2, <1>5, <1>6, Zenon

(* What row-wise requests bring back: one output per answer, in order.     *)
LEMMA RowwiseReply ==
  ASSUME PredictInv, NEW f \in Flying, f.reply = Pending, NEW g \in PredictOne(f),
         use_batch => phase = "collect_retry"
  PROVE  g \in Calls /\ g.frow = f.frow /\ g.n_rows = f.n_rows /\ Outcome(g)
<1>1. f \in Calls /\ f.outputs = <<>>
  BY CallFacts, Zenon DEF CallInv, Outcome
<1>2. f.n_rows \in Nat \ {0} /\ Asked(f) \in Seq(Prompts) /\ Len(Asked(f)) = f.n_rows
  BY AskedEntries, Zenon
<1> DEFINE o(got, bad) == [k \in 1..Cardinality(got) |->
                              IF InOrder(got)[k] \in bad THEN NULL ELSE Asked(f)[InOrder(got)[k]]]
<1>3. ASSUME NEW got \in SUBSET (1..f.n_rows), NEW bad \in SUBSET (1..f.n_rows),
             bad # {} => "garbled" \in Replies
      PROVE  /\ o(got, bad) \in Seq(Answers) /\ Len(o(got, bad)) <= f.n_rows
             /\ Len(o(got, bad)) = f.n_rows => \A k \in 1..f.n_rows :
                   \/ o(got, bad)[k] = Asked(f)[k]
                   \/ "garbled" \in Replies /\ o(got, bad)[k] = NULL
  <2> DEFINE n == f.n_rows
             q == Asked(f)
             s == InOrder(got)
             c == Cardinality(got)
             u == o(got, bad)
  <2>1. IsFiniteSet(1..n) /\ Cardinality(1..n) = n
    <3>1. n \in Nat
      BY <1>2, Zenon
    <3> HIDE DEF n
    <3> QED
      BY <3>1, FS_Interval
  <2>2. IsFiniteSet(got) /\ c <= n /\ (n = c => 1..n = got)
    BY <1>3, <2>1, FS_Subset, Zenon
  <2>3. got \in SUBSET Int
    BY <1>3
  <2>4. c \in Nat /\ s \in [1..c -> got]
    BY <2>2, <2>3, InOrderIsEnumeration, Zenon
  <2>5. (\A i \in 1..n : q[i] \in Answers) /\ NULL \in Answers
    BY <1>2 DEF Answers
  <2>6. u = [k \in 1..c |-> IF s[k] \in bad THEN NULL ELSE q[s[k]]]
    BY Zenon
  <2>7. n = c => \A k \in 1..n : s[k] = k
    BY <1>2, <2>2, InOrderInterval, Zenon
  <2> HIDE DEF n, q, s, c, u
  <2>8. \A k \in 1..c : s[k] \in 1..n
    BY <1>3, <2>4, Zenon DEF n
  <2>9. u \in [1..c -> Answers]
    BY <2>5, <2>6, <2>8, Zenon
  <2>10. u \in Seq(Answers) /\ Len(u) = c
    BY <2>4, <2>9
  <2>11. ASSUME n = c, NEW k \in 1..n PROVE u[k] = q[k] \/ ("garbled" \in Replies /\ u[k] = NULL)
    <3>1. u[k] = IF k \in bad THEN NULL ELSE q[k]
      BY <2>6, <2>7, <2>11, Zenon
    <3> QED
      BY <1>3, <3>1, Zenon
  <2> QED
    BY <2>2, <2>10, <2>11, Zenon DEF n, q, u
<1>4. ASSUME NEW got \in SUBSET (1..f.n_rows), NEW bad \in SUBSET (1..f.n_rows),
             bad # {} => "garbled" \in Replies, g = RowResults(f, got, bad)
      PROVE  g \in Calls /\ g.frow = f.frow /\ g.n_rows = f.n_rows /\ Outcome(g)
  <2> DEFINE u == o(got, bad)
  <2>1. /\ u \in Seq(Answers) /\ Len(u) <= f.n_rows
        /\ Len(u) = f.n_rows => \A k \in 1..f.n_rows :
              \/ u[k] = Asked(f)[k]
              \/ "garbled" \in Replies /\ u[k] = NULL
    BY <1>3, <1>4, Zenon
  <2>2. g = [f EXCEPT !.reply = "rows", !.outputs = u]
    BY <1>4, Zenon DEF RowResults
  <2> HIDE DEF u, o
  <2>3. /\ g \in Calls /\ g.frow = f.frow /\ g.n_rows = f.n_rows
        /\ g.reply = "rows" /\ g.outputs = u
    BY <1>1, <2>1, <2>2, Zenon DEF Calls
  <2>4. Asked(g) = Asked(f)
    BY <2>3, Zenon DEF Asked
  <2>5. RowOutputs(g)
    BY <2>1, <2>3, <2>4, Zenon DEF RowOutputs
  <2>6. Outcome(g)
    BY <2>3, <2>5, Zenon DEF Outcome, Pending
  <2> QED
    BY <2>3, <2>6, Zenon
<1>5. CASE g = [f EXCEPT !.reply = "throws"]
  <2>1. /\ g \in Calls /\ g.frow = f.frow /\ g.n_rows = f.n_rows /\ g.reply = "throws"
    BY <1>1, <1>5, Zenon DEF Calls
  <2>2. Outcome(g)
    BY <2>1, Zenon DEF Outcome, Pending
  <2> QED
    BY <2>1, <2>2, Zenon
<1> QED
  BY <1>4, <1>5, RowwiseResults, Zenon

(* Reply keeps the invariant.                                              *)
LEMMA ReplyStep ==
  ASSUME PredictInv, Reply
  PROVE  PredictInv'
<1>1. /\ phase \in {"collect", "collect_retry"}
      /\ UNCHANGED <<scenario, chunk, output, cache, phase, next, batch_fails, lost>>
  BY Zenon DEF Reply
<1>2. PICK k \in DOMAIN futures :
         /\ futures[k].reply = Pending
         /\ \E g \in IF use_batch /\ phase = "collect" THEN PredictBatch(futures[k])
                                                       ELSE PredictOne(futures[k]) :
               futures' = [futures EXCEPT ![k] = g]
  BY Zenon DEF Reply
<1>3. PICK g \in IF use_batch /\ phase = "collect" THEN PredictBatch(futures[k])
                                                   ELSE PredictOne(futures[k]) :
         futures' = [futures EXCEPT ![k] = g]
  BY <1>2, Zenon
<1>4. PICK f \in Flying : f = futures[k] /\ f \in Calls /\ CallInv(f)
  BY CallFacts, Zenon
<1>5. g \in Calls /\ g.frow = f.frow /\ g.n_rows = f.n_rows /\ Outcome(g)
  <2>1. CASE use_batch /\ phase = "collect"
    BY <1>2, <1>3, <1>4, <2>1, BatchReply, Zenon
  <2>2. CASE ~ (use_batch /\ phase = "collect")
    <3>1. use_batch => phase = "collect_retry"
      BY <1>1, <2>2, Zenon
    <3>2. g \in PredictOne(f)
      BY <1>3, <1>4, <2>2, Zenon
    <3> QED
      BY <1>2, <1>4, <3>1, <3>2, RowwiseReply, Zenon
  <2> QED
    BY <2>1, <2>2, Zenon
<1>6. Covered(g) = Covered(f)
  BY <1>5, Zenon DEF Covered
<1>7. CallInv(g)
  BY <1>4, <1>5, <1>6, Zenon DEF CallInv
<1>8. futures \in Seq(Calls)
  BY Zenon DEF PredictInv, FlightInv
<1>9. /\ futures' \in Seq(Calls) /\ Len(futures') = Len(futures)
      /\ DOMAIN futures' = DOMAIN futures
      /\ \A j \in DOMAIN futures : futures'[j] = IF j = k THEN g ELSE futures[j]
  BY <1>3, <1>5, <1>8
<1>10. \A j \in DOMAIN futures : Covered(futures'[j]) = Covered(futures[j])
  BY <1>4, <1>6, <1>9, Zenon
<1>11. Flying' \subseteq Flying \cup {g}
  BY <1>9, Zenon DEF Flying
<1>12. InFlight' = InFlight
  <2>1. \A i : i \in InFlight <=> \E j \in DOMAIN futures : i \in Covered(futures[j])
    BY Zenon DEF InFlight, Flying
  <2>2. \A i : i \in InFlight' <=> \E j \in DOMAIN futures' : i \in Covered(futures'[j])
    BY Zenon DEF InFlight, Flying
  <2>3. \A i : i \in InFlight <=> i \in InFlight'
    BY <1>9, <1>10, <2>1, <2>2, Zenon
  <2> QED
    BY <2>3, Zenon
<1>13. \A h \in Flying' : CallInv(h)'
  <2> SUFFICES ASSUME NEW h \in Flying' PROVE CallInv(h)'
    BY Zenon
  <2>1. CallInv(h)
    BY <1>7, <1>11, CallFacts, Zenon
  <2> QED
    BY <1>1, <2>1, SameCall, Zenon
<1>14. /\ Launched' = Launched /\ unprocessed' = unprocessed /\ Failed(0)' = Failed(0)
       /\ Failed(next)' = Failed(next) /\ phase' = phase
  BY <1>1, SameBatches, SameChunk, Zenon DEF Failed
<1>15. FlightInv'
  <2>1. \A i, j \in DOMAIN futures' : i # j => Covered(futures'[i]) \cap Covered(futures'[j]) = {}
    BY <1>9, <1>10, Zenon DEF PredictInv, FlightInv
  <2>2. phase' \in {"batches", "collect"} => Failed(0)' \subseteq Launched'
    BY <1>14, Zenon DEF PredictInv, FlightInv
  <2>3. \A i, j \in DOMAIN batch_fails' : batch_fails'[i] = batch_fails'[j] => i = j
    BY <1>1, Zenon DEF PredictInv, FlightInv
  <2> QED
    BY <1>1, <1>9, <1>13, <2>1, <2>2, <2>3, Zenon DEF FlightInv
<1>16. Open' = Open
  <2>1. CASE phase = "collect"
    BY <1>12, <1>14, <2>1, OpenEntries, OpenEntriesNext, Zenon
  <2>2. CASE phase = "collect_retry"
    BY <1>12, <1>14, <2>2, OpenEntries, OpenEntriesNext, Zenon
  <2> QED
    BY <1>1, <2>1, <2>2, Zenon
<1>17. AnswerInv'
  <2>1. phase \notin {"failed", "undefined"}
    BY <1>1, Zenon
  <2> QED
    BY <1>1, <1>16, <2>1, Waiting, Zenon
<1>18. TypeOK'
  <2>1. \A j \in DOMAIN futures' :
            /\ futures'[j].frow \in Nat /\ futures'[j].n_rows \in Nat \ {0}
            /\ Covered(futures'[j]) \subseteq 1..Len(unprocessed)
    <3>1. \A h \in Calls : h.frow \in Nat /\ h.n_rows \in Nat \ {0}
      BY Zenon DEF Calls
    <3>2. \A j \in DOMAIN futures' : futures'[j] \in Calls
      BY <1>9
    <3>3. \A j \in DOMAIN futures : Covered(futures[j]) \subseteq 1..Len(unprocessed)
      BY CallFacts, Zenon DEF CallInv
    <3> QED
      BY <1>9, <1>10, <3>1, <3>2, <3>3, Zenon
  <2>2. /\ phase' \in Phases /\ next' \in Nat /\ batch_fails' \in Seq(1..Len(unprocessed))
        /\ Len(futures') <= n_threads
    BY <1>1, <1>9, Zenon DEF PredictInv, TypeOK
  <2> QED
    BY <1>1, <2>1, <2>2, CallTypes, Zenon
<1> QED
  BY <1>15, <1>17, <1>18, Zenon DEF PredictInv

\* The calls of a round, and the entries the loop counter moves past in it.
RoundSize == IF n_threads < Rounds(Len(unprocessed)) - next THEN n_threads
             ELSE Rounds(Len(unprocessed)) - next
LaunchedNext == {i \in 1..Len(unprocessed) :
                    i <= (next + n_threads) * ImpBatchSize(Len(unprocessed))}

(* One round of the batch loop starts calls for exactly the entries that   *)
(* the loop counter moves over.                                            *)
LEMMA BatchRound ==
  ASSUME scenario \in Scenarios, Len(unprocessed) \in Nat, next \in Nat,
         next < Rounds(Len(unprocessed))
  PROVE  /\ RoundSize \in Nat \ {0} /\ RoundSize <= n_threads
         /\ \A k \in 1..RoundSize : next + k - 1 \in Nat /\ next + k - 1 < Rounds(Len(unprocessed))
         /\ \A k \in 1..RoundSize : BatchEntries(next + k - 1) \subseteq LaunchedNext \ Launched
         /\ \A i \in LaunchedNext \ Launched : \E k \in 1..RoundSize : i \in BatchEntries(next + k - 1)
         /\ Launched \subseteq LaunchedNext
<1> DEFINE N == Len(unprocessed)
           s == ImpBatchSize(N)
           t == n_threads
           R == Rounds(N)
           m == RoundSize
           L == LaunchedNext
<1>1. s \in Nat \ {0} /\ N \in Nat /\ t \in Nat \ {0} /\ R \in Nat
  BY BatchSize, RoundsLeft, Options, Zenon
<1>2. /\ Launched = {i \in 1..N : i <= next * s}
      /\ L = {i \in 1..N : i <= (next + t) * s}
      /\ \A b : BatchEntries(b) = {i \in 1..N : b * s < i /\ i <= (b + 1) * s}
  BY Zenon DEF Launched, LaunchedNext, BatchEntries
<1>3. \A i \in 1..N : \E b \in Nat : b < R /\ i \in BatchEntries(b)
  BY EntryHasBatch, Zenon
<1>4. m = IF t < R - next THEN t ELSE R - next
  BY Zenon DEF RoundSize
<1>5. next < R
  BY Zenon
<1> HIDE DEF N, s, t, R, m, L
<1>6. /\ m \in Nat \ {0} /\ m <= t
      /\ \A k \in 1..m : next + k - 1 \in Nat /\ next + k - 1 < R
      /\ \A b \in Nat : next <= b /\ b < R /\ b < next + t => b - next + 1 \in 1..m /\ next + (b - next + 1) - 1 = b
      /\ \A k \in 1..m : next <= next + k - 1 /\ next + k - 1 + 1 <= next + t
  BY <1>1, <1>4, <1>5
<1>7. \A x, y \in Nat : /\ x * s \in Int
                        /\ x <= y => x * s <= y * s
                        /\ x * s < y * s => x < y
  <2> SUFFICES ASSUME NEW x \in Int, NEW y \in Int
               PROVE  x * s \in Int /\ (x <= y => x * s <= y * s) /\ (x * s < y * s => x < y)
    OBVIOUS
  <2> QED
    BY <1>1, Multiples, Zenon
<1>8. ASSUME NEW k \in 1..m, NEW i \in BatchEntries(next + k - 1)
      PROVE  i \in L \ Launched
  <2>1. PICK b \in Nat : b = next + k - 1
    BY <1>6, Zenon
  <2>2. next <= b /\ b + 1 <= next + t /\ i \in 1..N /\ b * s < i /\ i <= (b + 1) * s
    BY <1>2, <1>6, <1>8, <2>1, Zenon
  <2>3. next * s <= b * s /\ (b + 1) * s <= (next + t) * s
    <3>1. next + t \in Nat /\ b + 1 \in Nat
      BY <1>1
    <3> QED
      BY <1>7, <2>2, <3>1, Zenon
  <2>4. next * s \in Int /\ b * s \in Int /\ (b + 1) * s \in Int /\ (next + t) * s \in Int
    <3>1. next + t \in Nat /\ b + 1 \in Nat
      BY <1>1
    <3> QED
      BY <1>7, <3>1, Zenon
  <2>5. i \in Int
    BY <2>2
  <2>6. ~ (i <= next * s) /\ i <= (next + t) * s
    BY <2>2, <2>3, <2>4, <2>5
  <2> QED
    BY <1>2, <2>2, <2>6, Zenon
<1>9. ASSUME NEW i \in L \ Launched PROVE \E k \in 1..m : i \in BatchEntries(next + k - 1)
  <2>1. i \in 1..N /\ ~ (i <= next * s) /\ i <= (next + t) * s
    BY <1>2, <1>9, Zenon
  <2>2. PICK b \in Nat : b < R /\ i \in BatchEntries(b)
    BY <1>3, <2>1, Zenon
  <2>3. b * s < i /\ i <= (b + 1) * s
    BY <1>2, <2>2, Zenon
  <2>4. next + t \in Nat /\ b + 1 \in Nat
    BY <1>1
  <2>5. next * s \in Int /\ b * s \in Int /\ (b + 1) * s \in Int /\ (next + t) * s \in Int
    BY <1>7, <2>4, Zenon
  <2>6. next * s < (b + 1) * s /\ b * s < (next + t) * s
    BY <2>1, <2>3, <2>5
  <2>7. next < b + 1 /\ b < next + t
    BY <1>7, <2>4, <2>6, Zenon
  <2>8. next <= b
    BY <2>7
  <2> QED
    BY <1>6, <2>2, <2>7, <2>8, Zenon
<1>10. Launched \subseteq L
  <2> SUFFICES ASSUME NEW i \in 1..N, i <= next * s PROVE i <= (next + t) * s
    BY <1>2, Zenon
  <2>1. next + t \in Nat /\ next <= next + t
    BY <1>1
  <2>2. next * s <= (next + t) * s /\ next * s \in Int /\ (next + t) * s \in Int
    BY <1>7, <2>1, Zenon
  <2> QED
    BY <2>2
<1> QED
  BY <1>6, <1>8, <1>9, <1>10, Zenon DEF N, t, R, m, L

(* A call that was just made.                                              *)
LEMMA NewCall ==
  ASSUME NEW f \in Calls, f.reply = Pending, f.outputs = <<>>
  PROVE  Outcome(f)'
BY Zenon DEF Outcome, Pending

(* Sequences by their elements.                                            *)
LEMMA SequenceOf ==
  ASSUME NEW T, NEW m \in Nat, NEW s, DOMAIN s = 1..m, s = [k \in 1..m |-> s[k]],
         \A k \in 1..m : s[k] \in T
  PROVE  s \in Seq(T) /\ Len(s) = m
OBVIOUS

(* LaunchBatches keeps the invariant.                                      *)
LEMMA LaunchBatchesStep ==
  ASSUME PredictInv, LaunchBatches
  PROVE  PredictInv'
<1> DEFINE N == Len(unprocessed)
           m == RoundSize
<1>1. /\ phase = "batches" /\ next < Rounds(N)
      /\ phase' = "collect" /\ next' = next + n_threads
      /\ UNCHANGED <<scenario, chunk, output, cache, batch_fails, lost>>
      /\ futures' = [k \in 1..m |-> Batch(next + k - 1)]
  BY Zenon DEF LaunchBatches, Advance, RoundSize
<1>2. scenario \in Scenarios /\ N \in Nat /\ next \in Nat /\ futures = <<>>
  <2>1. phase \notin {"collect", "collect_retry"}
    BY <1>1, Zenon
  <2> QED
    BY <2>1, CallFacts, Zenon DEF PredictInv, TypeOK, FlightInv
<1>3. unprocessed' = unprocessed
  BY <1>1, SameChunk, Zenon
<1>4. Launched' = LaunchedNext
  <2>1. ImpBatchSize(Len(unprocessed))' = ImpBatchSize(N)
    BY <1>1, SameChunk, Zenon DEF ImpBatchSize
  <2> QED
    BY <1>1, <1>3, <2>1, Zenon DEF Launched, LaunchedNext
<1>5. /\ m \in Nat \ {0} /\ m <= n_threads
      /\ \A k \in 1..m : next + k - 1 \in Nat /\ next + k - 1 < Rounds(N)
      /\ \A k \in 1..m : BatchEntries(next + k - 1) \subseteq Launched' \ Launched
      /\ \A i \in Launched' \ Launched : \E k \in 1..m : i \in BatchEntries(next + k - 1)
      /\ Launched \subseteq Launched'
  BY <1>1, <1>2, <1>4, BatchRound, Zenon
<1> HIDE DEF m
<1>6. DOMAIN futures' = 1..m /\ \A k \in 1..m : futures'[k] = Batch(next + k - 1)
  BY <1>1, Zenon
<1>7. \A k \in 1..m : /\ futures'[k] \in Calls
                      /\ futures'[k].reply = Pending /\ futures'[k].outputs = <<>>
                      /\ Covered(futures'[k]) = BatchEntries(next + k - 1)
  BY <1>2, <1>5, <1>6, BatchIsCall, Zenon
<1>8. futures' \in Seq(Calls) /\ Len(futures') = m
  <2>1. futures' = [k \in 1..m |-> futures'[k]]
    BY <1>1, <1>6, Zenon
  <2>2. m \in Nat
    BY <1>5, Zenon
  <2> QED
    BY <1>6, <1>7, <2>1, <2>2, SequenceOf, Zenon
<1>9. \A k, l \in DOMAIN futures' : k # l => Covered(futures'[k]) \cap Covered(futures'[l]) = {}
  <2> SUFFICES ASSUME NEW k \in 1..m, NEW l \in 1..m, k # l
               PROVE  BatchEntries(next + k - 1) \cap BatchEntries(next + l - 1) = {}
    BY <1>6, <1>7, Zenon
  <2>1. next + k - 1 # next + l - 1
    BY <1>2, <1>5
  <2> QED
    BY <1>2, <1>5, <2>1, BatchesDisjoint, Zenon
<1>10. InFlight' = Launched' \ Launched
  <2>1. \A i : i \in InFlight' <=> \E k \in 1..m : i \in BatchEntries(next + k - 1)
    BY <1>6, <1>7, Zenon DEF InFlight, Flying
  <2> QED
    BY <1>5, <2>1, Zenon
<1>11. Failed(0)' = Failed(0) /\ Failed(0) \subseteq Launched
  <2>1. phase \in {"batches", "collect"}
    BY <1>1, Zenon
  <2> QED
    BY <1>1, <2>1, Zenon DEF Failed, PredictInv, FlightInv
<1>12. InFlight = {}
  <2>1. DOMAIN futures = {}
    BY <1>2
  <2> QED
    BY <2>1, Zenon DEF InFlight, Flying
<1>13. Launched \subseteq 1..N /\ Launched' \subseteq 1..N
  BY <1>4, Zenon DEF Launched, LaunchedNext
<1>14. Open' = Open
  <2>1. phase \in {"batches", "collect"} /\ phase' \in {"batches", "collect"}
    BY <1>1, Zenon
  <2>2. /\ Open = ((1..N) \ Launched) \cup InFlight \cup Failed(0)
        /\ Open' = ((1..N) \ Launched') \cup InFlight' \cup Failed(0)'
    BY <1>3, <2>1, OpenEntries, OpenEntriesNext, Zenon
  <2> QED
    BY <1>5, <1>10, <1>11, <1>12, <1>13, <2>2, Zenon
<1>15. \A f \in Flying' : CallInv(f)'
  <2> SUFFICES ASSUME NEW f \in Flying' PROVE CallInv(f)'
    BY Zenon
  <2>1. PICK k \in 1..m : f = futures'[k]
    BY <1>6, Zenon DEF Flying
  <2>2. f \in Calls /\ f.reply = Pending /\ f.outputs = <<>> /\ Covered(f) \subseteq Launched' \ Launched
    BY <1>5, <1>7, <2>1, Zenon
  <2>3. Outcome(f)'
    BY <2>2, NewCall, Zenon
  <2>4. phase' # "collect_retry"
    BY <1>1, Zenon
  <2> QED
    BY <1>3, <1>11, <1>13, <2>2, <2>3, <2>4, Zenon DEF CallInv
<1>16. FlightInv'
  <2>1. phase' \in {"collect", "collect_retry"}
    BY <1>1, Zenon
  <2>2. \A i, j \in DOMAIN batch_fails' : batch_fails'[i] = batch_fails'[j] => i = j
    BY <1>1, Zenon DEF PredictInv, FlightInv
  <2> QED
    BY <1>5, <1>8, <1>9, <1>11, <1>15, <2>1, <2>2, Zenon DEF FlightInv
<1>17. TypeOK'
  <2>1. \A k \in DOMAIN futures' :
            /\ futures'[k].frow \in Nat /\ futures'[k].n_rows \in Nat \ {0}
            /\ Covered(futures'[k]) \subseteq 1..Len(unprocessed)
    <3>1. \A h \in Calls : h.frow \in Nat /\ h.n_rows \in Nat \ {0}
      BY Zenon DEF Calls
    <3>2. \A k \in 1..m : Covered(futures'[k]) \subseteq 1..N
      BY <1>5, <1>7, <1>13, Zenon
    <3> QED
      BY <1>6, <1>7, <3>1, <3>2, Zenon
  <2>2. phase' \in Phases
    BY <1>1, Zenon DEF Phases
  <2>3. next' \in Nat
    <3>1. n_threads \in Nat
      BY <1>2, Options, Zenon
    <3> QED
      BY <1>1, <1>2, <3>1
  <2>4. batch_fails' \in Seq(1..Len(unprocessed))
    BY <1>1, Zenon DEF PredictInv, TypeOK
  <2> QED
    BY <1>1, <1>5, <1>8, <2>1, <2>2, <2>3, <2>4, CallTypes, Zenon
<1>18. AnswerInv'
  <2>1. phase \notin {"failed", "undefined"}
    BY <1>1, Zenon
  <2> QED
    BY <1>1, <1>14, <2>1, Waiting, Zenon
<1> QED
  BY <1>16, <1>17, <1>18, Zenon DEF PredictInv

(* A step to a phase without calls from one without.                       *)
LEMMA QuietStep ==
  ASSUME PredictInv, phase \in {"batches", "retry"}, phase' \in {"retry", "done"}, next' = 0,
         UNCHANGED <<scenario, chunk, output, cache, futures, batch_fails, lost>>,
         Open' = Open
  PROVE  PredictInv'
<1>1. futures = <<>>
  <2>1. phase \notin {"collect", "collect_retry"}
    BY Zenon
  <2> QED
    BY <2>1, Zenon DEF PredictInv, FlightInv
<1>2. DOMAIN futures' = {} /\ futures' = <<>> /\ Len(futures') = 0 /\ futures' \in Seq(Calls)
  BY <1>1
<1>3. phase' \notin {"batches", "collect", "collect_retry"} /\ phase' \in Phases /\ next' \in Nat
  BY Zenon DEF Phases
<1>4. FlightInv'
  BY <1>2, <1>3, Zenon DEF PredictInv, FlightInv, Flying
<1>5. TypeOK'
  <2>1. batch_fails' \in Seq(1..Len(unprocessed)) /\ Len(futures') <= n_threads
    BY Zenon DEF PredictInv, TypeOK
  <2> QED
    BY <1>2, <1>3, <2>1, CallTypes, Zenon
<1>6. AnswerInv'
  <2>1. phase \notin {"failed", "undefined"}
    BY Zenon
  <2> QED
    BY <2>1, Waiting, Zenon
<1> QED
  BY <1>4, <1>5, <1>6, Zenon DEF PredictInv

(* BatchesDone keeps the invariant: every entry was in some batch.         *)
LEMMA BatchesDoneStep ==
  ASSUME PredictInv, BatchesDone
  PROVE  PredictInv'
<1> DEFINE N == Len(unprocessed)
           s == ImpBatchSize(N)
<1>1. /\ phase = "batches" /\ next >= Rounds(N) /\ phase' = "retry" /\ next' = 0
      /\ UNCHANGED <<scenario, chunk, output, cache, futures, batch_fails, lost>>
  BY Zenon DEF BatchesDone
<1>2. scenario \in Scenarios /\ N \in Nat /\ next \in Nat /\ futures = <<>>
  <2>1. phase \notin {"collect", "collect_retry"}
    BY <1>1, Zenon
  <2> QED
    BY <2>1, CallFacts, Zenon DEF PredictInv, TypeOK, FlightInv
<1>3. Launched = 1..N
  <2>1. Rounds(N) \in Nat /\ (next < Rounds(N) <=> next * s < N)
    BY <1>2, RoundsLeft, Zenon
  <2>2. s \in Nat \ {0}
    BY <1>2, BatchSize, Zenon
  <2>3. Launched = {i \in 1..N : i <= next * s}
    BY Zenon DEF Launched
  <2> HIDE DEF N, s
  <2>4. ~ (next < Rounds(N))
    BY <1>1, <1>2, <2>1
  <2>5. next * s \in Int /\ ~ (next * s < N)
    BY <1>2, <2>1, <2>2, <2>4, Multiples
  <2>6. \A i \in 1..N : i <= next * s
    BY <1>2, <2>5
  <2> QED
    BY <2>3, <2>6, Zenon DEF N
<1>4. InFlight = {} /\ InFlight' = {}
  <2>1. DOMAIN futures = {} /\ futures' = futures
    BY <1>1, <1>2
  <2> QED
    BY <2>1, Zenon DEF InFlight, Flying
<1>5. Failed(next)' = Failed(0)
  BY <1>1, Zenon DEF Failed
<1>6. Open' = Open
  <2>1. Open = ((1..N) \ Launched) \cup InFlight \cup Failed(0)
    BY <1>1, OpenEntries, Zenon
  <2>2. Open' = InFlight' \cup Failed(next)'
    BY <1>1, OpenEntriesNext, Zenon
  <2> QED
    BY <1>3, <1>4, <1>5, <2>1, <2>2, Zenon
<1> QED
  BY <1>1, <1>6, QuietStep, Zenon

(* Finish keeps the invariant: nothing waits any more.                     *)
LEMMA FinishStep ==
  ASSUME PredictInv, Finish
  PROVE  PredictInv'
<1>1. /\ phase = "retry" /\ next >= Len(batch_fails) /\ phase' = "done" /\ next' = 0
      /\ UNCHANGED <<scenario, chunk, output, cache, futures, batch_fails, lost>>
  BY Zenon DEF Finish
<1>2. futures = <<>>
  <2>1. phase \notin {"collect", "collect_retry"}
    BY <1>1, Zenon
  <2> QED
    BY <2>1, Zenon DEF PredictInv, FlightInv
<1>3. Failed(next) = {}
  <2>1. next \in Nat /\ Len(batch_fails) \in Nat
    BY DEF PredictInv, TypeOK
  <2>2. (next + 1)..Len(batch_fails) = {}
    BY <1>1, <2>1
  <2> QED
    BY <2>2, Zenon DEF Failed
<1>4. InFlight = {}
  <2>1. DOMAIN futures = {}
    BY <1>2
  <2> QED
    BY <2>1, Zenon DEF InFlight, Flying
<1>5. Open = {} /\ Open' = {}
  BY <1>1, <1>3, <1>4, OpenEntries, OpenEntriesNext, Zenon
<1> QED
  BY <1>1, <1>5, QuietStep, Zenon

(* LaunchRetries keeps the invariant: a round takes the next entries from  *)
(* batch_fails.                                                            *)
LEMMA LaunchRetriesStep ==
  ASSUME PredictInv, LaunchRetries
  PROVE  PredictInv'
<1> DEFINE l == Len(batch_fails)
           t == n_threads
           m == IF t < l - next THEN t ELSE l - next
<1>1. /\ phase = "retry" /\ next < l
      /\ phase' = "collect_retry" /\ next' = next + t
      /\ UNCHANGED <<scenario, chunk, output, cache, batch_fails, lost>>
      /\ futures' = [k \in 1..m |-> Call(batch_fails[next + k], 1)]
  BY Zenon DEF LaunchRetries, Advance
<1>2. scenario \in Scenarios /\ next \in Nat /\ futures = <<>>
  <2>1. phase \notin {"collect", "collect_retry"}
    BY <1>1, Zenon
  <2> QED
    BY <2>1, Zenon DEF PredictInv, TypeOK, FlightInv
<1>3. /\ batch_fails \in Seq(1..Len(unprocessed))
      /\ \A i, j \in DOMAIN batch_fails : batch_fails[i] = batch_fails[j] => i = j
      /\ unprocessed' = unprocessed
  BY <1>1, SameChunk, Zenon DEF PredictInv, TypeOK, FlightInv
<1>4. l \in Nat /\ DOMAIN batch_fails = 1..l /\ \A i \in 1..l : batch_fails[i] \in 1..Len(unprocessed)
  BY <1>3
<1>5. t \in Nat \ {0}
  BY <1>2, Options, Zenon
<1> HIDE DEF l, t
<1>6. /\ m \in Nat \ {0} /\ m <= t
      /\ \A k \in 1..m : next + k \in 1..l /\ next + k \notin (next + t + 1)..l /\ next + k \in (next + 1)..l
      /\ \A j \in (next + 1)..l : (j - next \in 1..m /\ next + (j - next) = j) \/ j \in (next + t + 1)..l
      /\ \A j \in (next + t + 1)..l : j \in (next + 1)..l /\ j \in 1..l
  BY <1>1, <1>2, <1>4, <1>5
<1> DEFINE e(k) == batch_fails[next + k]
           F == (next + 1)..l
           G == (next + t + 1)..l
<1>7. DOMAIN futures' = 1..m /\ \A k \in 1..m : futures'[k] = Call(e(k), 1)
  BY <1>1, Zenon
<1>8. futures' = [k \in 1..m |-> futures'[k]]
  BY <1>1, <1>7, Zenon
<1>9. \A x \in 1..Len(unprocessed) :
         /\ Call(x, 1) \in Calls /\ Call(x, 1).reply = Pending /\ Call(x, 1).outputs = <<>>
         /\ Call(x, 1).frow = x /\ Call(x, 1).n_rows = 1 /\ Covered(Call(x, 1)) = {x}
  BY DEF Call, Calls, Covered, Pending
<1>10. /\ \A k \in 1..m : e(k) \in 1..Len(unprocessed) /\ (\E i \in F : e(k) = batch_fails[i])
       /\ \A k, j \in 1..m : e(k) = e(j) => k = j
       /\ \A k \in 1..m : \A j \in G : e(k) # batch_fails[j]
       /\ \A i \in F : i \in G \/ \E k \in 1..m : batch_fails[i] = e(k)
       /\ \A j \in G : j \in F
  <2>1. \A k \in 1..m : e(k) \in 1..Len(unprocessed) /\ \E i \in F : e(k) = batch_fails[i]
    BY <1>4, <1>6, Zenon
  <2>2. \A k, j \in 1..m : next + k = next + j => k = j
    BY <1>2, <1>6
  <2>3. \A k, j \in 1..m : e(k) = e(j) => k = j
    <3> SUFFICES ASSUME NEW k \in 1..m, NEW j \in 1..m, e(k) = e(j) PROVE k = j
      BY Zenon
    <3>1. next + k \in DOMAIN batch_fails /\ next + j \in DOMAIN batch_fails
      BY <1>4, <1>6, Zenon
    <3> QED
      BY <1>3, <2>2, <3>1, Zenon
  <2>4. \A k \in 1..m : \A j \in G : e(k) # batch_fails[j]
    <3> SUFFICES ASSUME NEW k \in 1..m, NEW j \in G, e(k) = batch_fails[j] PROVE FALSE
      BY Zenon
    <3>1. next + k \in DOMAIN batch_fails /\ j \in DOMAIN batch_fails
      BY <1>4, <1>6, Zenon
    <3>2. next + k = j
      BY <1>3, <3>1, Zenon
    <3> QED
      BY <1>6, <3>2, Zenon
  <2>5. \A i \in F : i \in G \/ \E k \in 1..m : batch_fails[i] = e(k)
    <3> SUFFICES ASSUME NEW i \in F, i \notin G PROVE \E k \in 1..m : batch_fails[i] = e(k)
      BY Zenon
    <3>1. i - next \in 1..m /\ next + (i - next) = i
      BY <1>6, Zenon
    <3> QED
      BY <3>1, Zenon
  <2> QED
    BY <1>6, <2>1, <2>3, <2>4, <2>5, Zenon
<1>11. Failed(next) = {batch_fails[j] : j \in F}
  BY Zenon DEF Failed, l
<1>12. Failed(next)' = {batch_fails[j] : j \in G}
  BY <1>1, Zenon DEF Failed, l
<1> HIDE DEF m, e, F, G
<1>13. \A k \in 1..m : /\ futures'[k] \in Calls
                       /\ futures'[k].reply = Pending /\ futures'[k].outputs = <<>>
                       /\ futures'[k].frow = e(k) /\ futures'[k].n_rows = 1
                       /\ Covered(futures'[k]) = {e(k)}
  <2> SUFFICES ASSUME NEW k \in 1..m
               PROVE  /\ futures'[k] \in Calls
                      /\ futures'[k].reply = Pending /\ futures'[k].outputs = <<>>
                      /\ futures'[k].frow = e(k) /\ futures'[k].n_rows = 1
                      /\ Covered(futures'[k]) = {e(k)}
    BY Zenon
  <2>1. e(k) \in 1..Len(unprocessed)
    BY <1>10, Zenon
  <2>2. futures'[k] = Call(e(k), 1)
    BY <1>7, Zenon
  <2>3. /\ Call(e(k), 1) \in Calls /\ Call(e(k), 1).reply = Pending
        /\ Call(e(k), 1).outputs = <<>> /\ Call(e(k), 1).frow = e(k)
        /\ Call(e(k), 1).n_rows = 1 /\ Covered(Call(e(k), 1)) = {e(k)}
    BY <1>9, <2>1, Zenon
  <2> QED
    BY <2>2, <2>3, Zenon
<1>14. \A k \in 1..m : e(k) \notin Failed(next)'
  BY <1>10, <1>12, Zenon
<1>15. \A k, j \in DOMAIN futures' : k # j => Covered(futures'[k]) \cap Covered(futures'[j]) = {}
  <2> SUFFICES ASSUME NEW k \in 1..m, NEW j \in 1..m, k # j
               PROVE  Covered(futures'[k]) \cap Covered(futures'[j]) = {}
    BY <1>7, Zenon
  <2>1. e(k) # e(j)
    BY <1>10, Zenon
  <2> QED
    BY <1>13, <2>1, Zenon
<1>16. \A i : i \in InFlight' <=> \E k \in 1..m : i = e(k)
  <2>1. \A i : i \in InFlight' <=> \E k \in 1..m : i \in Covered(futures'[k])
    BY <1>7, Zenon DEF InFlight, Flying
  <2>2. \A k \in 1..m : \A i : i \in Covered(futures'[k]) <=> i = e(k)
    BY <1>13, Zenon
  <2> QED
    BY <2>1, <2>2, Zenon
<1>17. InFlight' \cup Failed(next)' = Failed(next)
  <2>1. \A i \in InFlight' : i \in Failed(next)
    <3> SUFFICES ASSUME NEW k \in 1..m PROVE e(k) \in Failed(next)
      BY <1>16, Zenon
    <3>1. PICK i \in F : e(k) = batch_fails[i]
      BY <1>10, Zenon
    <3> QED
      BY <1>11, <3>1, Zenon
  <2>2. \A i \in Failed(next)' : i \in Failed(next)
    BY <1>10, <1>11, <1>12, Zenon
  <2>3. \A i \in Failed(next) : i \in InFlight' \/ i \in Failed(next)'
    <3> SUFFICES ASSUME NEW j \in F
                 PROVE  batch_fails[j] \in InFlight' \/ batch_fails[j] \in Failed(next)'
      BY <1>11, Zenon
    <3>1. CASE j \in G
      BY <1>12, <3>1, Zenon
    <3>2. CASE \E k \in 1..m : batch_fails[j] = e(k)
      BY <1>16, <3>2, Zenon
    <3> QED
      BY <1>10, <3>1, <3>2, Zenon
  <2> QED
    BY <2>1, <2>2, <2>3, Zenon
<1>23. futures' \in Seq(Calls) /\ Len(futures') = m
  <2>1. m \in Nat
    BY <1>6, Zenon
  <2>2. \A k \in 1..m : futures'[k] \in Calls
    BY <1>13, Zenon
  <2> QED
    BY <1>8, <2>1, <2>2, SequenceOf, Zenon
<1>18. Open' = Open
  <2>1. InFlight = {}
    <3>1. DOMAIN futures = {}
      BY <1>2
    <3> QED
      BY <3>1, Zenon DEF InFlight, Flying
  <2>2. Open = InFlight \cup Failed(next)
    BY <1>1, OpenEntries, Zenon
  <2>3. Open' = InFlight' \cup Failed(next)'
    BY <1>1, OpenEntriesNext, Zenon
  <2> QED
    BY <1>17, <2>1, <2>2, <2>3, Zenon
<1>19. \A f \in Flying' : CallInv(f)'
  <2> SUFFICES ASSUME NEW f \in Flying' PROVE CallInv(f)'
    BY Zenon
  <2>1. PICK k \in 1..m : f = futures'[k]
    BY <1>7, Zenon DEF Flying
  <2>2. /\ f \in Calls /\ f.reply = Pending /\ f.outputs = <<>> /\ f.n_rows = 1
        /\ f.frow \notin Failed(next)' /\ Covered(f) \subseteq 1..Len(unprocessed)
    <3>1. e(k) \in 1..Len(unprocessed) /\ e(k) \notin Failed(next)'
      BY <1>10, <1>14, Zenon
    <3>2. /\ f \in Calls /\ f.reply = Pending /\ f.outputs = <<>> /\ f.n_rows = 1
          /\ f.frow = e(k) /\ Covered(f) = {e(k)}
      BY <1>13, <2>1, Zenon
    <3> QED
      BY <3>1, <3>2, SMT
  <2>3. Outcome(f)'
    BY <2>2, NewCall, Zenon
  <2>4. phase' # "collect"
    BY <1>1, Zenon
  <2> QED
    BY <1>3, <2>2, <2>3, <2>4, Zenon DEF CallInv
<1>20. FlightInv'
  <2>1. phase' \in {"collect", "collect_retry"} /\ phase' \notin {"batches", "collect"}
    BY <1>1, Zenon
  <2>2. \A i, j \in DOMAIN batch_fails' : batch_fails'[i] = batch_fails'[j] => i = j
    BY <1>1, <1>3, Zenon
  <2> QED
    BY <1>15, <1>19, <1>23, <2>1, <2>2, Zenon DEF FlightInv
<1>21. TypeOK'
  <2>1. \A k \in DOMAIN futures' :
            /\ futures'[k].frow \in Nat /\ futures'[k].n_rows \in Nat \ {0}
            /\ Covered(futures'[k]) \subseteq 1..Len(unprocessed)
    <3>1. \A h \in Calls : h.frow \in Nat /\ h.n_rows \in Nat \ {0}
      BY Zenon DEF Calls
    <3> QED
      <4> SUFFICES ASSUME NEW k \in 1..m
                   PROVE  /\ futures'[k].frow \in Nat /\ futures'[k].n_rows \in Nat \ {0}
                          /\ Covered(futures'[k]) \subseteq 1..Len(unprocessed)
        BY <1>7, Zenon
      <4>1. e(k) \in 1..Len(unprocessed)
        BY <1>10, Zenon
      <4>2. futures'[k] \in Calls /\ Covered(futures'[k]) = {e(k)}
        BY <1>13, Zenon
      <4> QED
        BY <3>1, <4>1, <4>2, SMT
  <2>2. phase' \in Phases
    BY <1>1, Zenon DEF Phases
  <2>3. next' \in Nat
    BY <1>1, <1>2, <1>5
  <2>4. batch_fails' \in Seq(1..Len(unprocessed)) /\ Len(futures') <= n_threads
    BY <1>1, <1>3, <1>6, <1>23, Zenon DEF t
  <2> QED
    BY <1>1, <2>1, <2>2, <2>3, <2>4, CallTypes, Zenon
<1>22. AnswerInv'
  <2>1. phase \notin {"failed", "undefined"}
    BY <1>1, Zenon
  <2> QED
    BY <1>1, <1>18, <2>1, Waiting, Zenon
<1> QED
  BY <1>20, <1>21, <1>22, Zenon DEF PredictInv

(* The prompts to ask for: with a cache, each of the chunk's prompts that  *)
(* the cache lacks, once.                                                  *)
LEMMA UnprocessedEntries ==
  ASSUME PredictInv, NEW n \in Nat \ {0}, NEW in \in [1..n -> Prompts]
  PROVE  /\ Unprocessed(in) \in Seq(Prompts) /\ Len(Unprocessed(in)) <= n
         /\ ~use_cache => Unprocessed(in) = in
         /\ use_cache => /\ \A i, j \in DOMAIN Unprocessed(in) :
                               Unprocessed(in)[i] = Unprocessed(in)[j] => i = j
                         /\ \A i \in DOMAIN Unprocessed(in) : Unprocessed(in)[i] \notin DOMAIN cache
                         /\ \A r \in 1..n : \/ in[r] \in DOMAIN cache
                                            \/ \E i \in DOMAIN Unprocessed(in) : Unprocessed(in)[i] = in[r]
<1>1. CASE ~use_cache
  <2>1. Unprocessed(in) = in
    BY <1>1, Zenon DEF Unprocessed
  <2>2. in \in Seq(Prompts) /\ Len(in) <= n
    OBVIOUS
  <2> QED
    BY <1>1, <2>1, <2>2, Zenon
<1>2. CASE use_cache
  <2> DEFINE R == {in[r] : r \in DOMAIN in}
             M == Misses(in)
             u == Unprocessed(in)
  <2>1. DOMAIN in = 1..n
    BY Zenon
  <2>2. in \in Surjection(1..n, R)
    BY <2>1, Zenon DEF Surjection
  <2>3. IsFiniteSet(1..n) /\ Cardinality(1..n) = n
    BY FS_Interval
  <2>4. IsFiniteSet(R) /\ Cardinality(R) <= n
    <3> HIDE DEF R
    <3>1. IsFiniteSet(R) /\ Cardinality(R) <= Cardinality(1..n)
      BY <2>2, <2>3, FS_Surjection, Zenon
    <3> QED
      BY <2>3, <3>1, Zenon
  <2>5. M = R \ DOMAIN cache /\ R \subseteq Prompts
    BY <2>1, Zenon DEF Misses
  <2> HIDE DEF R, M
  <2>6. M \in SUBSET R
    BY <2>5, Zenon
  <2>7. IsFiniteSet(M) /\ Cardinality(M) <= Cardinality(R)
    BY <2>4, <2>6, FS_Subset, Zenon
  <2>8. Cardinality(M) \in Nat /\ Cardinality(R) \in Nat
    BY <2>4, <2>7, FS_CardinalityType, Zenon
  <2>9. Cardinality(M) <= n
    BY <2>4, <2>7, <2>8
  <2>10. M \in SUBSET Int /\ M \subseteq Prompts
    <3>1. M \subseteq Prompts
      BY <2>5, Zenon
    <3>2. Prompts \subseteq Nat
      BY LlmPredictAssumption, Zenon DEF LlmPredictAssumption
    <3>3. Nat \subseteq Int
      OBVIOUS
    <3> QED
      BY <3>1, <3>2, <3>3, Zenon
  <2>11. u = InOrder(M)
    BY <1>2, Zenon DEF Unprocessed, M
  <2> DEFINE c == Cardinality(M)
  <2>12. /\ u \in [1..c -> M]
         /\ \A i, j \in 1..c : u[i] = u[j] => i = j
         /\ \A x \in M : \E i \in 1..c : u[i] = x
    <3>1. /\ InOrder(M) \in [1..c -> M]
          /\ \A i, j \in 1..c : InOrder(M)[i] = InOrder(M)[j] => i = j
          /\ \A x \in M : \E i \in 1..c : InOrder(M)[i] = x
      BY <2>7, <2>10, InOrderIsEnumeration, Zenon
    <3> HIDE DEF u
    <3> QED
      BY <2>11, <3>1, Zenon
  <2> HIDE DEF u, c
  <2>13. DOMAIN u = 1..c /\ c \in Nat /\ c <= n
    BY <2>8, <2>9, <2>12, Zenon DEF c
  <2>14. u \in Seq(Prompts) /\ Len(u) <= n
    <3>1. u \in [1..c -> Prompts]
      BY <2>10, <2>12, Zenon
    <3>2. u \in Seq(Prompts) /\ Len(u) = c
      BY <2>13, <3>1
    <3> QED
      BY <2>13, <3>2, Zenon
  <2>15. \A i \in DOMAIN u : u[i] \notin DOMAIN cache
    BY <2>5, <2>12, <2>13, Zenon
  <2>16. \A r \in 1..n : in[r] \in DOMAIN cache \/ \E i \in DOMAIN u : u[i] = in[r]
    <3>1. \A r \in 1..n : in[r] \in R
      BY <2>1, Zenon DEF R
    <3> QED
      BY <2>5, <2>12, <2>13, <3>1, Zenon
  <2> QED
    BY <1>2, <2>12, <2>13, <2>14, <2>15, <2>16, Zenon DEF u
<1> QED
  BY <1>1, <1>2, Zenon

(* PhysicalPredict::Execute keeps the invariant: a new chunk starts with   *)
(* all its entries open, and a cache hit is the answer to its prompt.      *)
LEMMA ExecuteStep ==
  ASSUME PredictInv, Execute
  PROVE  PredictInv'
<1>1. PICK n \in 1..MAX_ROWS : \E in \in [1..n -> Prompts] :
          /\ input' = in
          /\ unprocessed' = Unprocessed(in)
          /\ output' = [r \in 1..n |-> IF use_cache /\ in[r] \in DOMAIN cache
                                       THEN cache[in[r]] ELSE Unset]
  BY Zenon DEF Execute
<1>2. PICK in \in [1..n -> Prompts] :
          /\ input' = in
          /\ unprocessed' = Unprocessed(in)
          /\ output' = [r \in 1..n |-> IF use_cache /\ in[r] \in DOMAIN cache
                                       THEN cache[in[r]] ELSE Unset]
  BY <1>1, Zenon
<1>3. /\ phase \in {"idle", "done"} /\ chunks < MAX_CHUNKS /\ chunks' = chunks + 1
      /\ phase' = "batches" /\ next' = 0 /\ batch_fails' = <<>> /\ lost' = {}
      /\ UNCHANGED <<scenario, cache, futures>>
  BY Zenon DEF Execute
<1>4. /\ scenario' = scenario /\ use_cache' = use_cache /\ use_batch' = use_batch
      /\ n_threads' = n_threads /\ Replies' = Replies
      /\ MAX_ROWS' = MAX_ROWS /\ MAX_CHUNKS' = MAX_CHUNKS /\ OnePerPrompt' = OnePerPrompt
  BY <1>3, Zenon DEF use_cache, use_batch, n_threads, Replies, MAX_ROWS, MAX_CHUNKS, OnePerPrompt
<1>5. /\ scenario \in Scenarios /\ chunks \in 0..MAX_CHUNKS /\ futures = <<>>
      /\ DOMAIN cache \subseteq Prompts /\ \A p \in DOMAIN cache : cache[p] \in Answers
  <2>1. phase \notin {"collect", "collect_retry"}
    BY <1>3, Zenon
  <2> QED
    BY <2>1, Zenon DEF PredictInv, TypeOK, FlightInv
<1>6. MAX_ROWS \in Nat \ {0} /\ MAX_CHUNKS \in Nat /\ n_threads \in Nat \ {0}
  BY <1>5, Options, LlmPredictAssumption, Zenon DEF MAX_ROWS, MAX_CHUNKS
<1>7. n \in Nat \ {0} /\ n <= MAX_ROWS
  BY <1>6
<1> DEFINE u == Unprocessed(in)
<1>8. /\ u \in Seq(Prompts) /\ Len(u) <= n
      /\ ~use_cache => u = in
      /\ use_cache => /\ \A i, j \in DOMAIN u : u[i] = u[j] => i = j
                      /\ \A i \in DOMAIN u : u[i] \notin DOMAIN cache
                      /\ \A r \in 1..n : in[r] \in DOMAIN cache \/ \E i \in DOMAIN u : u[i] = in[r]
  BY <1>7, UnprocessedEntries, Zenon
<1>9. unprocessed' = u
  BY <1>2, Zenon
<1> HIDE DEF u
<1>10. Len(u) \in Nat /\ DOMAIN u = 1..Len(u)
  BY <1>8
<1>11. /\ input' \in Seq(Prompts) /\ Len(input') = n /\ DOMAIN input' = 1..n
       /\ DOMAIN output' = 1..n
  BY <1>2, <1>7
<1>12. \A r \in 1..n : /\ input'[r] = in[r] /\ in[r] \in Prompts
                       /\ output'[r] = IF use_cache /\ in[r] \in DOMAIN cache
                                       THEN cache[in[r]] ELSE Unset
  BY <1>2, Zenon
<1>13. output' \in Seq(Answers) /\ Len(output') = n
  <2>1. \A r \in 1..n : output'[r] \in Answers
    BY <1>5, <1>12, Zenon DEF Answers
  <2>2. output' \in [1..n -> Answers]
    BY <1>2, <1>11, <2>1, Zenon
  <2> QED
    BY <1>7, <2>2
<1>14. TypeOK'
  <2>1. chunks' \in 0..MAX_CHUNKS /\ phase' \in Phases /\ next' \in Nat
    BY <1>3, <1>5, <1>6 DEF Phases
  <2>2. futures' = <<>> /\ DOMAIN futures' = {} /\ Len(futures') <= n_threads
    BY <1>3, <1>5, <1>6
  <2>3. Len(input') <= MAX_ROWS /\ Len(unprocessed') <= Len(input')
    BY <1>7, <1>8, <1>9, <1>11, Zenon
  <2>4. batch_fails' \in Seq(1..Len(unprocessed'))
    BY <1>3
  <2>5. unprocessed' \in Seq(Prompts) /\ Len(output') = Len(input') /\ output' \in Seq(Answers)
    BY <1>8, <1>9, <1>11, <1>13, Zenon
  <2>6. DOMAIN cache' \subseteq Prompts /\ (\A p \in DOMAIN cache' : cache'[p] \in Answers) /\ lost' \subseteq Prompts
    BY <1>3, <1>5, Zenon
  <2>7. scenario' \in Scenarios /\ chunks' \in 0..MAX_CHUNKS' /\ Len(input') <= MAX_ROWS'
    BY <1>4, <1>5, <2>1, <2>3, Zenon
  <2>8. Len(futures') <= n_threads'
    BY <1>4, <2>2, Zenon
  <2> QED
    BY <1>11, <2>1, <2>2, <2>3, <2>4, <2>5, <2>6, <2>7, <2>8, Zenon DEF TypeOK
<1>15. Open' = 1..Len(u)
  <2>1. DOMAIN futures' = {}
    BY <1>3, <1>5
  <2>2. InFlight' = {}
    BY <2>1, Zenon DEF InFlight, Flying
  <2>3. Failed(0)' = {}
    BY <1>3 DEF Failed
  <2>4. Launched' = {}
    <3> DEFINE s == ImpBatchSize(Len(unprocessed))'
    <3>1. s \in Nat
      <4>1. s = ImpBatchSize(Len(u))
        BY <1>4, <1>9, Zenon DEF ImpBatchSize, n_threads, batch_size
      <4> QED
        BY <1>5, <1>10, <4>1, BatchSize, Zenon
    <3>2. Launched' = {i \in 1..Len(u) : i <= 0 * s}
      BY <1>3, <1>9, Zenon DEF Launched
    <3> HIDE DEF s
    <3> QED
      BY <1>10, <3>1, <3>2
  <2> QED
    BY <1>3, <1>9, <2>2, <2>3, <2>4, Zenon DEF Open
<1>16. FlightInv'
  <2>1. futures' = <<>> /\ DOMAIN futures' = {} /\ futures' \in Seq(Calls)
    BY <1>3, <1>5
  <2>2. DOMAIN batch_fails' = {} /\ Failed(0)' = {}
    BY <1>3 DEF Failed
  <2>3. Flying' = {}
    BY <2>1, Zenon DEF Flying
  <2> QED
    BY <1>3, <2>1, <2>2, <2>3, Zenon DEF FlightInv
<1>17. AnswerInv'
  <2>1. CacheFaithful'
    BY <1>3, <1>4, Zenon DEF PredictInv, AnswerInv, CacheFaithful
  <2>2. IF use_cache' THEN \A i, j \in DOMAIN unprocessed' : unprocessed'[i] = unprocessed'[j] => i = j
        ELSE unprocessed' = input' /\ DOMAIN cache' = {}
    <3>1. CASE use_cache'
      BY <1>4, <1>8, <1>9, <3>1, Zenon
    <3>2. CASE ~use_cache'
      <4>1. unprocessed' = input'
        BY <1>2, <1>4, <1>8, <1>9, <3>2, Zenon
      <4>2. DOMAIN cache' = {}
        BY <1>3, <1>4, <3>2, Zenon DEF PredictInv, AnswerInv
      <4> QED
        BY <3>2, <4>1, <4>2, Zenon
    <3> QED
      BY <3>1, <3>2, Zenon
  <2>3. ASSUME use_cache => OnePerPrompt, NEW r \in 1..n
        PROVE  /\ output'[r] \in Allowed(r)' \cup {Unset}
               /\ output'[r] \in Allowed(r)' \/ \E i \in Open' : r \in RowsOf(i)'
    <3>1. CASE use_cache /\ in[r] \in DOMAIN cache
      <4>1. cache[in[r]] = in[r]
        BY <2>3, <3>1, Zenon DEF PredictInv, AnswerInv, CacheFaithful
      <4>2. output'[r] = input'[r]
        BY <1>12, <3>1, <4>1, Zenon
      <4> QED
        BY <4>2, Zenon DEF Allowed
    <3>2. CASE use_cache /\ in[r] \notin DOMAIN cache
      <4>1. PICK i \in DOMAIN u : u[i] = in[r]
        BY <1>8, <3>2, Zenon
      <4>2. r \in RowsOf(i)'
        BY <1>4, <1>9, <1>11, <1>12, <3>2, <4>1, Zenon DEF RowsOf
      <4> QED
        BY <1>10, <1>12, <1>15, <3>2, <4>1, <4>2, Zenon
    <3>3. CASE ~use_cache
      <4>1. DOMAIN u = 1..n
        BY <1>8, <3>3, Zenon
      <4>2. r \in RowsOf(r)'
        BY <1>4, <3>3, Zenon DEF RowsOf
      <4> QED
        BY <1>10, <1>12, <1>15, <3>3, <4>1, <4>2, Zenon
    <3> QED
      BY <3>1, <3>2, <3>3, Zenon
  <2>4. use_cache' => \A i \in Open' : unprocessed'[i] \notin DOMAIN cache'
    BY <1>3, <1>4, <1>8, <1>9, <1>10, <1>15, Zenon
  <2>5. (use_cache' => OnePerPrompt') =>
          \A r \in DOMAIN input' :
            /\ output'[r] \in Allowed(r)' \cup {Unset}
            /\ output'[r] \in Allowed(r)' \/ \E i \in Open' : r \in RowsOf(i)'
    BY <1>4, <1>11, <2>3, Zenon
  <2> QED
    BY <2>1, <2>2, <2>4, <2>5, Zenon DEF AnswerInv
<1> QED
  BY <1>14, <1>16, <1>17, Zenon DEF PredictInv

(* PredictChunk's invariant holds before the first chunk.                  *)
LEMMA PredictInit == Init => PredictInv
<1> SUFFICES ASSUME Init PROVE PredictInv
  BY Zenon
<1>1. /\ scenario \in Scenarios /\ chunks = 0 /\ input = <<>> /\ output = <<>> /\ unprocessed = <<>>
      /\ cache = <<>> /\ phase = "idle" /\ next = 0 /\ futures = <<>> /\ batch_fails = <<>> /\ lost = {}
  BY Zenon DEF Init
<1>2. MAX_ROWS \in Nat \ {0} /\ MAX_CHUNKS \in Nat /\ n_threads \in Nat \ {0}
  BY <1>1, Options, LlmPredictAssumption, Zenon DEF MAX_ROWS, MAX_CHUNKS
<1>3. DOMAIN input = {} /\ DOMAIN unprocessed = {} /\ DOMAIN cache = {} /\ DOMAIN futures = {}
      /\ DOMAIN batch_fails = {}
  BY <1>1
<1>4. TypeOK
  <2>1. /\ chunks \in 0..MAX_CHUNKS /\ Len(input) <= MAX_ROWS /\ Len(futures) <= n_threads
        /\ input \in Seq(Prompts) /\ output \in Seq(Answers) /\ unprocessed \in Seq(Prompts)
        /\ Len(output) = Len(input) /\ Len(unprocessed) <= Len(input)
        /\ phase \in Phases /\ next \in Nat /\ batch_fails \in Seq(1..Len(unprocessed))
    BY <1>1, <1>2 DEF Phases
  <2> QED
    BY <1>1, <1>3, <2>1, Zenon DEF TypeOK
<1>5. Flying = {} /\ futures \in Seq(Calls)
  BY <1>1, <1>3 DEF Flying
<1>6. FlightInv
  <2>1. phase \notin {"batches", "collect"}
    BY <1>1, Zenon
  <2> QED
    BY <1>1, <1>3, <1>5, <2>1, Zenon DEF FlightInv
<1>7. Open = {}
  BY <1>1, Zenon DEF Open
<1>8. AnswerInv
  <2>1. unprocessed = input
    BY <1>1, Zenon
  <2>2. CacheFaithful
    BY <1>3, Zenon DEF CacheFaithful
  <2> QED
    BY <1>3, <1>7, <2>1, <2>2, Zenon DEF AnswerInv
<1> QED
  BY <1>4, <1>6, <1>8, Zenon DEF PredictInv

(* A step that changes nothing keeps the invariant.                        *)
LEMMA PredictStutter ==
  ASSUME PredictInv, UNCHANGED vars
  PROVE  PredictInv'
<1>1. UNCHANGED <<scenario, chunks, input, unprocessed, output, cache, phase, next, futures, batch_fails, lost>>
  BY Zenon DEF vars, chunk
<1>2. /\ use_batch' = use_batch /\ use_cache' = use_cache /\ n_threads' = n_threads
      /\ batch_size' = batch_size /\ MAX_ROWS' = MAX_ROWS /\ MAX_CHUNKS' = MAX_CHUNKS
      /\ Replies' = Replies
  BY <1>1, Zenon DEF use_batch, use_cache, n_threads, batch_size, MAX_ROWS, MAX_CHUNKS, Replies
<1>3. /\ Flying' = Flying /\ InFlight' = InFlight /\ OnePerPrompt' = OnePerPrompt
      /\ \A n : Failed(n)' = Failed(n)
      /\ \A i : RowsOf(i)' = RowsOf(i)
      /\ \A r : Allowed(r)' = Allowed(r)
      /\ Failed(next)' = Failed(next)
  BY <1>1, <1>2, Zenon DEF Flying, InFlight, Failed, RowsOf, Allowed, OnePerPrompt
<1>4. Launched' = Launched /\ \A f : Asked(f)' = Asked(f)
  BY <1>1, <1>2, Zenon DEF Launched, Asked, ImpBatchSize
<1>5. Open' = Open
  BY <1>1, <1>3, <1>4, Zenon DEF Open
<1>6. \A f : CallInv(f)' = CallInv(f)
  <2> SUFFICES ASSUME NEW f PROVE CallInv(f)' = CallInv(f)
    BY Zenon
  <2>1. Arrays(f)' = Arrays(f)
    BY <1>2, <1>4, Zenon DEF Arrays
  <2>2. RowOutputs(f)' = RowOutputs(f)
    BY <1>2, <1>4, Zenon DEF RowOutputs
  <2>3. Outcome(f)' = Outcome(f)
    BY <1>1, <1>2, <2>1, <2>2, Zenon DEF Outcome
  <2> QED
    BY <1>1, <1>3, <1>4, <2>3, Zenon DEF CallInv
<1>7. TypeOK'
  BY <1>1, <1>2, Zenon DEF PredictInv, TypeOK
<1>8. FlightInv'
  BY <1>1, <1>3, <1>4, <1>6, Zenon DEF PredictInv, FlightInv
<1>9. AnswerInv'
  BY <1>1, <1>2, <1>3, <1>5, Zenon DEF PredictInv, AnswerInv, CacheFaithful
<1> QED
  BY <1>7, <1>8, <1>9, Zenon DEF PredictInv

(* Every step of the query keeps the invariant.                            *)
LEMMA PredictStep == PredictInv /\ [Next]_vars => PredictInv'
<1> SUFFICES ASSUME PredictInv, [Next]_vars PROVE PredictInv'
  BY Zenon
<1> USE ExecuteStep, LaunchBatchesStep, BatchesDoneStep, LaunchRetriesStep, FinishStep, ReplyStep
<1>1. CASE Execute \/ LaunchBatches \/ BatchesDone \/ LaunchRetries \/ Finish \/ Reply
  BY <1>1, Zenon
<1>2. CASE GetThrows \/ GetFailedBatch \/ GetArrayOfKeys \/ GetArrayOfRows \/ GetRows \/ GetRetry
  BY <1>2, GetThrowsStep, GetFailedBatchStep, GetArrayOfKeysStep, GetArrayOfRowsStep,
     GetRowsStep, GetRetryStep, Zenon
<1>3. CASE UNCHANGED vars
  BY <1>3, PredictStutter, Zenon
<1> QED
  BY <1>1, <1>2, <1>3, Zenon DEF Next, Predict

(* The inductive invariant of PredictChunk holds throughout.               *)
THEOREM PredictInvariant == Spec => []PredictInv
  BY PredictInit, PredictStep, PTL DEF Spec

(* When a chunk is done no entry waits, so each row has one of its answers. *)
LEMMA NothingWaits == PredictInv => RowsHoldOwnAnswer
<1> SUFFICES ASSUME PredictInv, phase = "done", use_cache => OnePerPrompt, NEW r \in DOMAIN input
             PROVE  output[r] \in Allowed(r)
  BY Zenon DEF RowsHoldOwnAnswer, Allowed
<1>1. phase \notin {"batches", "collect", "retry", "collect_retry", "failed", "undefined"}
  BY Zenon
<1>2. Open = {}
  BY <1>1, Zenon DEF Open
<1> QED
  BY <1>1, <1>2, Zenon DEF PredictInv, AnswerInv

(* The prompts of a call are those of the entries it covers.               *)
LEMMA AskedPrompts ==
  ASSUME PredictInv, NEW k \in DOMAIN futures, NEW p \in AskedBy(futures[k])
  PROVE  /\ Covered(futures[k]) \subseteq DOMAIN unprocessed
         /\ Covered(futures[k]) \subseteq InFlight
         /\ \E i \in Covered(futures[k]) : p = unprocessed[i]
<1> DEFINE f == futures[k]
<1>1. f \in Flying
  BY Zenon DEF Flying
<1>2. futures \in Seq(Calls) /\ unprocessed \in Seq(Prompts) /\ Covered(f) \subseteq 1..Len(unprocessed)
  BY <1>1, Zenon DEF PredictInv, FlightInv, TypeOK, CallInv
<1>3. Covered(f) \subseteq InFlight
  BY <1>1, Zenon DEF InFlight
<1>4. f \in Calls /\ DOMAIN unprocessed = 1..Len(unprocessed)
  BY <1>2
<1>5. PICK j \in DOMAIN Asked(f) : p = Asked(f)[j]
  BY Zenon DEF AskedBy
<1> HIDE DEF f
<1>6. \E i \in Covered(f) : p = unprocessed[i]
  <2>1. f.frow \in Nat /\ f.n_rows \in Nat \ {0}
    BY <1>4, Zenon DEF Calls
  <2>2. DOMAIN Asked(f) = 1..f.n_rows /\ \A i \in 1..f.n_rows : Asked(f)[i] = unprocessed[f.frow + i - 1]
    <3>1. /\ Asked(f) \in Seq(Prompts) /\ Len(Asked(f)) = f.n_rows
          /\ \A i \in 1..f.n_rows : Asked(f)[i] = unprocessed[f.frow + i - 1]
      BY <1>1, AskedEntries, Zenon
    <3> QED
      BY <3>1, SMT
  <2>3. f.frow + j - 1 \in Covered(f)
    BY <1>5, <2>1, <2>2 DEF Covered
  <2> QED
    BY <1>5, <2>2, <2>3, Zenon
<1> QED
  BY <1>2, <1>3, <1>4, <1>6, Zenon DEF f

(* Different entries have different prompts, and an open one is no key of  *)
(* the cache.                                                              *)
LEMMA NothingAskedTwice == PredictInv => AskedOnce
<1> SUFFICES ASSUME PredictInv, use_cache, OnePerPrompt, NEW k \in DOMAIN futures
             PROVE  /\ \A l \in DOMAIN futures \ {k} :
                           AskedBy(futures[k]) \cap AskedBy(futures[l]) = {}
                    /\ AskedBy(futures[k]) \cap DOMAIN cache = {}
  BY Zenon DEF AskedOnce
<1>1. \A i, j \in DOMAIN unprocessed : unprocessed[i] = unprocessed[j] => i = j
  BY Zenon DEF PredictInv, AnswerInv
<1>2. ASSUME NEW l \in DOMAIN futures, l # k, NEW p \in AskedBy(futures[k]), p \in AskedBy(futures[l])
      PROVE  FALSE
  <2>1. PICK i \in Covered(futures[k]) : p = unprocessed[i]
    BY AskedPrompts, Zenon
  <2>2. PICK j \in Covered(futures[l]) : p = unprocessed[j]
    BY <1>2, AskedPrompts, Zenon
  <2>3. i \in DOMAIN unprocessed /\ j \in DOMAIN unprocessed
    BY <1>2, AskedPrompts, Zenon
  <2>4. i = j
    BY <1>1, <2>1, <2>2, <2>3, Zenon
  <2> QED
    BY <1>2, <2>4, Zenon DEF PredictInv, FlightInv
<1>3. ASSUME NEW p \in AskedBy(futures[k]), p \in DOMAIN cache
      PROVE  FALSE
  <2>1. PICK i \in Covered(futures[k]) : p = unprocessed[i]
    BY AskedPrompts, Zenon
  <2>2. i \in InFlight
    BY AskedPrompts, Zenon
  <2>3. phase \in {"collect", "collect_retry"}
    <3>1. futures # <<>>
      OBVIOUS
    <3> QED
      BY <3>1, Zenon DEF PredictInv, FlightInv
  <2>4. InFlight \subseteq Open
    BY <2>3, OpenEntries, Zenon
  <2> QED
    BY <1>3, <2>1, <2>2, <2>4, Zenon DEF PredictInv, AnswerInv
<1> QED
  BY <1>2, <1>3, Zenon

(* Every call asks for entries of the chunk only, at most n_threads run,   *)
(* and output, cache and batch_fails refer to the chunk's rows and prompts. *)
THEOREM PredictTypes == Spec => []TypeOK
<1>1. PredictInv => TypeOK
  BY Zenon DEF PredictInv
<1> QED
  BY <1>1, PredictInvariant, PTL

(* When PredictChunk returns, every row holds the answer to its own prompt *)
(* (or the null or the gap that RowsHoldOwnAnswer admits), for every batch *)
(* size, thread count and chunk.                                           *)
THEOREM EveryRowHasItsAnswer == Spec => []RowsHoldOwnAnswer
  BY NothingWaits, PredictInvariant, PTL

(* The cache maps a prompt to the answer given for it, when the API gives  *)
(* one for each prompt.                                                    *)
THEOREM TheCacheIsFaithful == Spec => []CacheFaithful
<1>1. PredictInv => CacheFaithful
  BY Zenon DEF PredictInv, AnswerInv
<1> QED
  BY <1>1, PredictInvariant, PTL

(* With a cache no prompt is in two calls at once, and none is asked that  *)
(* the cache can answer.                                                   *)
THEOREM NoPromptIsAskedTwice == Spec => []AskedOnce
  BY NothingAskedTwice, PredictInvariant, PTL
=============================================================================
