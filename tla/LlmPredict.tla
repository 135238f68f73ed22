----------------------------- MODULE LlmPredict -----------------------------
(***************************************************************************)
(* LlmApiPredictor::PredictChunk: the PREDICT operator hands the predictor *)
(* one chunk of rows after the other, and the predictor fills in one       *)
(* answer per row.  It drops duplicate prompts, asks a remote model for    *)
(* the rest in batches run by n_threads asynchronous calls, asks again row *)
(* by row for the batches that failed, and keeps a cache of answers for    *)
(* the chunks to come.                                                     *)
(*                                                                         *)
(* A prompt (the text embed_prompt makes of a row) is a number, ordered as *)
(* the keys of the std::map tuple_id_map are, and the model's answer to a  *)
(* prompt is that number: an answer in the wrong place is a wrong number.  *)
(* Row and map indices start at 1 here and at 0 in the code.  The module   *)
(* models the build's configuration (LLM_USE_THREADS 1, LLM_USE_CLUSTER 0) *)
(* for the LLM task.                                                       *)
(***************************************************************************)
EXTENDS Integers, FiniteSets, Sequences

CONSTANTS
    Prompts,        \* the prompts rows may have
    Scenarios,      \* options of the predictor, bounds, and what the API does
    NULL,           \* the SQL null that fill_null writes
    Unset,          \* what the output chunk held before: nothing was written
    Extra           \* an array entry that answers no prompt of the request

(***************************************************************************)
(* What may come back from OpenAI::post.                                   *)
(*   "exact"   a completion with one answer for each prompt asked          *)
(*   "short"   an array that ends early; "long": one entry too many        *)
(*   "garbled" a completion whose content does not parse                   *)
(*   "empty"   a completion without content                                *)
(*   "failed"  an HTTP error: a batch is then repeated row by row, but a   *)
(*             single call reads completion["usage"], which throws         *)
(*   "no_json" a body in which extract_json finds no object: it throws     *)
(***************************************************************************)
AllReplies == {"exact", "short", "long", "garbled", "empty", "failed", "no_json"}

ASSUME LlmPredictAssumption ==
    /\ Prompts \subseteq Nat /\ IsFiniteSet(Prompts)
    /\ \A s \in Scenarios :
         /\ s.batch_size \in Nat \ {0} /\ s.n_threads \in Nat \ {0}
         /\ s.use_batch \in BOOLEAN /\ s.use_cache \in BOOLEAN
         /\ s.max_rows \in Nat \ {0} /\ s.max_chunks \in Nat
         /\ s.replies \subseteq AllReplies

VARIABLES
    scenario,               \* the options, as Config left them, and the scenario
    chunks,                 \* chunks predicted so far
    input,                  \* the prompts of the rows of the current chunk
    output,                 \* the answers written for those rows
    cache,                  \* prompt -> answer, kept from chunk to chunk
    unprocessed,            \* the prompts to ask for
    phase,                  \* where PredictChunk is
    next,                   \* loop counter: `batch', then `frow' of the retries
    futures,                \* the asynchronous calls of this round
    batch_fails,            \* indices into unprocessed of failed batches
    lost                    \* history: prompts whose own call had no content

chunk == <<chunks, input, unprocessed>>
vars == <<scenario, chunk, output, cache, phase, next, futures, batch_fails, lost>>

\* The options batch_size, n_threads, use_batch and use_cache.
batch_size == scenario.batch_size
n_threads  == scenario.n_threads
use_batch  == scenario.use_batch
use_cache  == scenario.use_cache

\* Bounds: rows of a chunk (STANDARD_VECTOR_SIZE) and chunks of a query.
MAX_ROWS   == scenario.max_rows
MAX_CHUNKS == scenario.max_chunks

\* How the remote API may answer in this scenario, a subset of AllReplies.
Replies == scenario.replies

Phases == {"idle", "batches", "collect", "retry", "collect_retry", "done",
           "failed", "undefined"}

Pending == "pending"

-----------------------------------------------------------------------------
(* The parts of PredictChunk that only compute.                            *)

\* The rows an entry of `unprocessed' stands for: tuple_id_map's row list of
\* that key, or the row itself when nothing is deduplicated.
RowsOf(i) ==
    IF use_cache THEN {r \in DOMAIN input : input[r] = unprocessed[i]} ELSE {i}

ImpBatchSize(n) ==
    IF n_threads * batch_size > n /\ n >= n_threads
    THEN (n \div n_threads) + (IF n % n_threads > 0 THEN 1 ELSE 0)
    ELSE batch_size

Rounds(n) ==
    (n \div ImpBatchSize(n)) + (IF n % ImpBatchSize(n) # 0 THEN 1 ELSE 0)

\* The elements of a finite set of numbers as a std::map iterates over its keys:
\* the i-th one has i - 1 smaller ones.
InOrder(S) == [i \in 1..Cardinality(S) |->
                  CHOOSE x \in S : Cardinality({y \in S : y < x}) = i - 1]

\* The prompts to ask for: each distinct one once, in the order of the map.
Misses(in) == {in[r] : r \in DOMAIN in} \ DOMAIN cache

\* Defect: the cache is not looked at when the keys are collected.
UnprocessedCached(in) ==
    IF use_cache THEN InOrder({in[r] : r \in DOMAIN in}) ELSE in

Unprocessed(in) == IF use_cache THEN InOrder(Misses(in)) ELSE in

-----------------------------------------------------------------------------
Init ==
    /\ scenario \in Scenarios
    /\ chunks = 0 /\ input = <<>> /\ output = <<>> /\ unprocessed = <<>>
    /\ cache = <<>>
    /\ phase = "idle" /\ next = 0 /\ futures = <<>> /\ batch_fails = <<>>
    /\ lost = {}

\* PhysicalPredict::Execute with the next chunk: cache hits are written at
\* once, the other rows wait for a call.
Execute ==
    /\ phase \in {"idle", "done"} /\ chunks < MAX_CHUNKS
    /\ chunks' = chunks + 1
    /\ \E n \in 1..MAX_ROWS : \E in \in [1..n -> Prompts] :
          /\ input' = in
          /\ unprocessed' = Unprocessed(in)
          /\ output' = [r \in 1..n |-> IF use_cache /\ in[r] \in DOMAIN cache
                                       THEN cache[in[r]] ELSE Unset]
    /\ phase' = "batches" /\ next' = 0 /\ batch_fails' = <<>> /\ lost' = {}
    /\ UNCHANGED <<scenario, cache, futures>>

\* A call in flight: `n_rows' entries of unprocessed from index `frow' on.
Call(frow, n_rows) == [frow |-> frow, n_rows |-> n_rows, reply |-> Pending, outputs |-> <<>>]

\* Defect: the last batch is not cut at the number of rows.
BatchUncut(b) == Call(b * ImpBatchSize(Len(unprocessed)) + 1, ImpBatchSize(Len(unprocessed)))

Batch(b) ==
    LET size == ImpBatchSize(Len(unprocessed))
        left == Len(unprocessed) - b * size
    IN  Call(b * size + 1, IF size < left THEN size ELSE left)

\* Defect: the loops' counter stays where it is.
AdvanceNever == next

Advance == next + n_threads

\* One round of the batch loop: at most n_threads calls start.
LaunchBatches ==
    /\ phase = "batches" /\ next < Rounds(Len(unprocessed))
    /\ LET left == Rounds(Len(unprocessed)) - next
       IN  futures' = [k \in 1..(IF n_threads < left THEN n_threads ELSE left) |->
                          Batch(next + k - 1)]
    /\ phase' = "collect" /\ next' = Advance
    /\ UNCHANGED <<scenario, chunk, output, cache, batch_fails, lost>>

BatchesDone ==
    /\ phase = "batches" /\ next >= Rounds(Len(unprocessed))
    /\ phase' = "retry" /\ next' = 0
    /\ UNCHANGED <<scenario, chunk, output, cache, futures, batch_fails, lost>>

\* One round of the loop over batch_fails, with a PredictOne for each.
LaunchRetries ==
    /\ phase = "retry" /\ next < Len(batch_fails)
    /\ LET left == Len(batch_fails) - next
       IN  futures' = [k \in 1..(IF n_threads < left THEN n_threads ELSE left) |->
                          Call(batch_fails[next + k], 1)]
    /\ phase' = "collect_retry" /\ next' = Advance
    /\ UNCHANGED <<scenario, chunk, output, cache, batch_fails, lost>>

Finish ==
    /\ phase = "retry" /\ next >= Len(batch_fails)
    /\ phase' = "done" /\ next' = 0
    /\ UNCHANGED <<scenario, chunk, output, cache, futures, batch_fails, lost>>

-----------------------------------------------------------------------------
(* The asynchronous calls.                                                 *)

Asked(f) == SubSeq(unprocessed, f.frow, f.frow + f.n_rows - 1)

\* PredictBatch with use_batch: one request for all prompts of the call.
Arrays(f) ==
    UNION { IF "exact" \in Replies THEN {Asked(f)} ELSE {},
            IF "short" \in Replies
            THEN {SubSeq(Asked(f), 1, m) : m \in 0..(f.n_rows - 1)} ELSE {},
            IF "long" \in Replies THEN {Append(Asked(f), Extra)} ELSE {} }

PredictBatch(f) ==
    {[f EXCEPT !.reply = "array", !.outputs = a] : a \in Arrays(f)}
        \cup {[f EXCEPT !.reply = r] : r \in
                 (IF "garbled" \in Replies THEN {"garbled"} ELSE {})
            \cup (IF {"failed", "empty"} \cap Replies # {} THEN {"failed"} ELSE {})
            \cup (IF "no_json" \in Replies THEN {"throws"} ELSE {})}

\* The result when the calls for `got' have content and that for `bad' cannot be read.
RowResults(f, got, bad) ==
    [f EXCEPT !.reply = "rows",
              !.outputs = [k \in 1..Cardinality(got) |->
                              LET i == InOrder(got)[k]
                              IN  IF i \in bad THEN NULL ELSE Asked(f)[i]]]

\* PredictOne for each prompt of the call in turn: an answer is appended to
\* the outputs (one that extract_row_data cannot read gives a null), an empty
\* one is not, and an error throws.
PredictOne(f) ==
    {RowResults(f, got, bad) :
        got \in IF "empty" \in Replies THEN SUBSET (1..f.n_rows) ELSE {1..f.n_rows},
        bad \in IF "garbled" \in Replies THEN SUBSET (1..f.n_rows) ELSE {{}}}
        \cup (IF {"failed", "no_json"} \cap Replies # {}
              THEN {[f EXCEPT !.reply = "throws"]} ELSE {})

\* The answer to some call arrives.
Reply ==
    /\ phase \in {"collect", "collect_retry"}
    /\ \E k \in DOMAIN futures :
          /\ futures[k].reply = Pending
          /\ \E g \in IF use_batch /\ phase = "collect" THEN PredictBatch(futures[k])
                                                        ELSE PredictOne(futures[k]) :
                futures' = [futures EXCEPT ![k] = g]
    /\ UNCHANGED <<scenario, chunk, output, cache, phase, next, batch_fails, lost>>

-----------------------------------------------------------------------------
(* f.get(): the results are applied in the order the calls were made.      *)

Replied == /\ phase \in {"collect", "collect_retry"}
           /\ futures # <<>> /\ Head(futures).reply # Pending

\* The loops over the futures end with the last one.
Applied ==
    /\ futures' = Tail(futures)
    /\ phase' = IF Len(futures) > 1 THEN phase
                ELSE IF phase = "collect" THEN "batches" ELSE "retry"

\* An exception of the call surfaces in get() and ends the query.
GetThrows ==
    /\ Replied /\ Head(futures).reply = "throws"
    /\ futures' = <<>> /\ phase' = "failed"
    /\ UNCHANGED <<scenario, chunk, output, cache, next, batch_fails, lost>>

FailedRows(f) == [k \in 1..f.n_rows |-> f.frow + k - 1]

GetFailedBatch ==
    /\ Replied /\ Head(futures).reply = "failed"
    /\ batch_fails' = batch_fails \o FailedRows(Head(futures))
    /\ Applied
    /\ UNCHANGED <<scenario, chunk, output, cache, next, lost>>

\* Defect: the answer reaches the first row that has the prompt only.
PlacedOnce(f, a) ==
    LET first(k) == CHOOSE r \in RowsOf(f.frow + k - 1) :
                        \A q \in RowsOf(f.frow + k - 1) : r <= q
        outputs(r) == {k \in DOMAIN a : r = first(k)}
    IN  [r \in DOMAIN output |-> IF outputs(r) = {} THEN output[r]
                                 ELSE a[CHOOSE k \in outputs(r) : TRUE]]

\* PropagateSingleResult for each output in turn: output k goes to every row
\* of entry frow + k - 1 of unprocessed ...
Placed(f, a) ==
    LET outputs(r) == {k \in DOMAIN a : r \in RowsOf(f.frow + k - 1)}
    IN  [r \in DOMAIN output |-> IF outputs(r) = {} THEN output[r]
                                 ELSE a[CHOOSE k \in outputs(r) : TRUE]]

\* Defect: the entry's index in the batch is taken for its index in the map.
CachedLocal(f, a) ==
    LET keys == IF use_cache THEN {unprocessed[k] : k \in DOMAIN a} ELSE {}
    IN  [p \in DOMAIN cache \cup keys |->
            IF p \in keys THEN a[CHOOSE k \in DOMAIN a : p = unprocessed[k]]
                          ELSE cache[p]]

\* ... and, with a cache, is kept under the prompt it answers.
Cached(f, a) ==
    LET key(k) == unprocessed[f.frow + k - 1]
        keys == IF use_cache THEN {key(k) : k \in DOMAIN a} ELSE {}
    IN  [p \in DOMAIN cache \cup keys |->
            IF p \in keys THEN a[CHOOSE k \in DOMAIN a : p = key(k)] ELSE cache[p]]

fill_null(out, rows) == [r \in DOMAIN out |-> IF r \in rows THEN NULL ELSE out[r]]

\* extract_array_data over tuple_id_map.  What follows the last entry is
\* nulled by its index in the map, as if that were a row of the chunk, and
\* only when two entries or more are missing or no array was found.
Unanswered(f, a) ==
    IF f.reply = "garbled" \/ Len(a) < f.n_rows - 1
    THEN (f.frow + Len(a))..(f.frow + f.n_rows - 1) ELSE {}

\* An entry past the end of the map is written through its end iterator.
GetArrayOfKeys ==
    /\ Replied /\ use_cache /\ Head(futures).reply \in {"array", "garbled"}
    /\ LET f == Head(futures)
           a == f.outputs
       IN  \/ /\ f.frow + Len(a) - 1 <= Len(unprocessed)
              /\ output' = fill_null(Placed(f, a), Unanswered(f, a))
              /\ cache' = Cached(f, a)
              /\ Applied
           \/ /\ f.frow + Len(a) - 1 > Len(unprocessed)
              /\ futures' = <<>> /\ phase' = "undefined"
              /\ UNCHANGED <<output, cache>>
    /\ UNCHANGED <<scenario, chunk, next, batch_fails, lost>>

Prefix(a, n) == SubSeq(a, 1, IF Len(a) < n THEN Len(a) ELSE n)

\* extract_array_data over batch_orig_rows: entries past n_rows are ignored,
\* rows past the last entry are null.
ArrayToRows(f, a) ==
    fill_null(Placed(f, Prefix(a, f.n_rows)),
              (f.frow + Len(a))..(f.frow + f.n_rows - 1))

GetArrayOfRows ==
    /\ Replied /\ ~use_cache /\ Head(futures).reply \in {"array", "garbled"}
    /\ output' = ArrayToRows(Head(futures), Head(futures).outputs)
    /\ Applied
    /\ UNCHANGED <<scenario, chunk, cache, next, batch_fails, lost>>

\* Row-wise results of a batch: outputs[i] is taken for row frow + i, and
\* when a call had no content the outputs end before the rows do.
GetRows ==
    /\ Replied /\ phase = "collect" /\ Head(futures).reply = "rows"
    /\ LET f == Head(futures)
       IN  /\ output' = Placed(f, f.outputs)
           /\ cache' = Cached(f, f.outputs)
           /\ \/ Len(f.outputs) = f.n_rows /\ Applied
              \/ Len(f.outputs) < f.n_rows /\ futures' = <<>> /\ phase' = "undefined"
    /\ UNCHANGED <<scenario, chunk, next, batch_fails, lost>>

\* The second attempt at one entry of a failed batch; without an answer its
\* rows are left as they are.
GetRetry ==
    /\ Replied /\ phase = "collect_retry" /\ Head(futures).reply = "rows"
    /\ LET f == Head(futures)
       IN  /\ output' = Placed(f, f.outputs)
           /\ cache' = Cached(f, f.outputs)
           /\ lost' = IF f.outputs = <<>> THEN lost \cup {unprocessed[f.frow]} ELSE lost
    /\ Applied
    /\ UNCHANGED <<scenario, chunk, next, batch_fails>>

\* PredictChunk's own steps.
Predict ==
    \/ LaunchBatches \/ BatchesDone \/ LaunchRetries \/ Finish
    \/ Reply
    \/ GetThrows \/ GetFailedBatch \/ GetArrayOfKeys \/ GetArrayOfRows
    \/ GetRows \/ GetRetry

Next == Execute \/ Predict

Spec == Init /\ [][Next]_vars

\* The main thread goes on as soon as it can and HTTP calls end, if only by
\* their timeout.
FairSpec == Spec /\ WF_vars(Predict)

-----------------------------------------------------------------------------
Answers == Prompts \cup {NULL, Unset, Extra}

\* Every call in flight covers entries of unprocessed only, at most n_threads run,
\* and output, cache and batch_fails refer to rows and prompts of the query.
TypeOK ==
    /\ scenario \in Scenarios
    /\ chunks \in 0..MAX_CHUNKS
    /\ input \in Seq(Prompts) /\ Len(input) <= MAX_ROWS
    /\ output \in Seq(Answers) /\ Len(output) = Len(input)
    /\ unprocessed \in Seq(Prompts) /\ Len(unprocessed) <= Len(input)
    /\ DOMAIN cache \subseteq Prompts /\ \A p \in DOMAIN cache : cache[p] \in Answers
    /\ phase \in Phases /\ next \in Nat
    /\ \A k \in DOMAIN futures :
          /\ futures[k].frow \in 1..Len(unprocessed)
          /\ futures[k].frow + futures[k].n_rows - 1 \in 1..Len(unprocessed)
    /\ Len(futures) <= n_threads
    /\ batch_fails \in Seq(1..Len(unprocessed))
    /\ lost \subseteq Prompts

OnePerPrompt == use_batch /\ Replies \cap {"short", "long", "garbled"} = {}

\* When PredictChunk returns, every row holds the answer to its own prompt.
\* It may hold a null instead where the API's array ended before it, and it
\* is left unwritten only when its own second call had no content.  This is
\* so whatever was deduplicated or found in the cache, however the prompts
\* were cut into batches, and whichever batches had to be repeated.  When rows are
\* deduplicated, the API has to answer each prompt of a batch (GetArrayOfKeys does
\* not check it) and calls without content are those of a retry.
RowsHoldOwnAnswer ==
    phase = "done" /\ (use_cache => OnePerPrompt) =>
        \A r \in DOMAIN input :
            output[r] \in {input[r]}
                \cup (IF {"short", "garbled"} \cap Replies # {} THEN {NULL} ELSE {})
                \cup (IF input[r] \in lost THEN {Unset} ELSE {})

\* PropagateSingleResult hands an output "to the row directly": no row is ever
\* given the answer to another row's prompt, in the middle of a chunk either.
NoForeignAnswer ==
    \A r \in DOMAIN input : output[r] \in {input[r], NULL, Unset}

\* The cache, which outlives the chunk, only ever maps a prompt to the answer
\* given for that prompt, provided that the API gives one for each.
CacheFaithful == OnePerPrompt => \A p \in DOMAIN cache : cache[p] = p

AskedBy(f) == {Asked(f)[k] : k \in DOMAIN Asked(f)}

\* Deduplication: with a cache no prompt is in two calls at the same time, and
\* none is asked that the cache can answer (unless an array that is too long put
\* an entry for another prompt there).
AskedOnce ==
    use_cache /\ OnePerPrompt =>
        \A k \in DOMAIN futures :
            /\ \A l \in DOMAIN futures \ {k} :
                  AskedBy(futures[k]) \cap AskedBy(futures[l]) = {}
            /\ AskedBy(futures[k]) \cap DOMAIN cache = {}

\* A chunk that was started is finished or fails: the loops over batches and
\* over failed rows end for all sizes, thread counts and replies (or run into
\* the undefined accesses of GetArrayOfKeys and GetRows).
Terminates == [](phase = "batches" => <>(phase \in {"done", "failed", "undefined"}))

-----------------------------------------------------------------------------
(* The inductive invariant behind TypeOK, RowsHoldOwnAnswer, CacheFaithful *)
(* and AskedOnce                                                           *)

\* The entries of unprocessed that a call asks for, and those of all calls.
Covered(f) == f.frow..(f.frow + f.n_rows - 1)
Flying == {futures[k] : k \in DOMAIN futures}
InFlight == UNION {Covered(f) : f \in Flying}

\* The entries in batch_fails behind the first n.
Failed(n) == {batch_fails[j] : j \in (n + 1)..Len(batch_fails)}

\* The entries of the batches that were started.
Launched == {i \in 1..Len(unprocessed) : i <= next * ImpBatchSize(Len(unprocessed))}

\* The entries that still wait for an answer.
Open == CASE phase \in {"batches", "collect"} ->
               ((1..Len(unprocessed)) \ Launched) \cup InFlight \cup Failed(0)
          [] phase \in {"retry", "collect_retry"} -> InFlight \cup Failed(next)
          [] OTHER -> {}

\* Row-wise outputs are complete or end early; complete ones are in order.
RowOutputs(f) ==
    /\ Len(f.outputs) <= f.n_rows
    /\ Len(f.outputs) = f.n_rows => \A k \in 1..f.n_rows :
          \/ f.outputs[k] = Asked(f)[k]
          \/ "garbled" \in Replies /\ f.outputs[k] = NULL

\* What a call brings back.
Outcome(f) ==
    /\ f.reply \in {"array", "garbled", "failed"} => use_batch /\ phase = "collect"
    /\ f.reply \in {Pending, "garbled"} => f.outputs = <<>>
    /\ f.reply = "array" => f.outputs \in Arrays(f)
    /\ f.reply = "garbled" => "garbled" \in Replies
    /\ f.reply = "rows" => (use_batch => phase = "collect_retry") /\ RowOutputs(f)

Calls == [frow : Nat, n_rows : Nat \ {0},
          reply : {Pending, "array", "garbled", "failed", "throws", "rows"},
          outputs : Seq(Answers)]

\* A call asks for entries of unprocessed, none of which is to be repeated later.
CallInv(f) ==
    /\ Covered(f) \subseteq 1..Len(unprocessed)
    /\ Outcome(f)
    /\ phase = "collect" => Covered(f) \subseteq Launched \ Failed(0)
    /\ phase = "collect_retry" => f.n_rows = 1 /\ f.frow \notin Failed(next)

\* The calls in flight ask for different entries, and no entry is repeated twice.
FlightInv ==
    /\ futures \in Seq(Calls)
    /\ phase \notin {"collect", "collect_retry"} => futures = <<>>
    /\ \A f \in Flying : CallInv(f)
    /\ \A k, l \in DOMAIN futures :
         k # l => Covered(futures[k]) \cap Covered(futures[l]) = {}
    /\ phase \in {"batches", "collect"} => Failed(0) \subseteq Launched
    /\ \A i, j \in DOMAIN batch_fails : batch_fails[i] = batch_fails[j] => i = j

\* The answers a row may end up with.
Allowed(r) == {input[r]} \cup (IF {"short", "garbled"} \cap Replies # {} THEN {NULL} ELSE {})
                         \cup (IF input[r] \in lost THEN {Unset} ELSE {})

\* Entries stand for rows with that prompt; a row holds one of its answers unless
\* its entry still waits for one; the cache knows no entry that waits.
AnswerInv ==
    /\ IF use_cache THEN \A i, j \in DOMAIN unprocessed : unprocessed[i] = unprocessed[j] => i = j
       ELSE unprocessed = input /\ DOMAIN cache = {}
    /\ (use_cache => OnePerPrompt) /\ phase \notin {"failed", "undefined"} =>
         \A r \in DOMAIN input :
            /\ output[r] \in Allowed(r) \cup {Unset}
            /\ output[r] \in Allowed(r) \/ \E i \in Open : r \in RowsOf(i)
    /\ CacheFaithful
    /\ use_cache /\ OnePerPrompt => \A i \in Open : unprocessed[i] \notin DOMAIN cache

PredictInv == TypeOK /\ FlightInv /\ AnswerInv
=============================================================================
