---------------------------- MODULE MCLlmPredict ----------------------------
(* The scenarios of the checks.                                            *)
EXTENDS LlmPredict

MCPrompts == 1..3

\* Two chunks with a cache, where every array has an answer for every prompt.
Deduplicated ==
    [max_rows : {4}, max_chunks : {2}, batch_size : {1, 3}, n_threads : {1, 2},
     use_batch : {TRUE}, use_cache : {TRUE},
     replies : {{"exact", "empty", "failed", "no_json"}}]

\* One chunk and an API that answers anything.
Faulty ==
    [max_rows : {4}, max_chunks : {1}, batch_size : {2, 3}, n_threads : {1, 2},
     use_batch : BOOLEAN, use_cache : BOOLEAN,
     replies : {{"exact", "short", "long", "garbled", "failed", "empty"}}]

MCScenarios == Deduplicated \cup Faulty

\* Single calls for deduplicated rows, some of them without content.
EmptyReplies ==
    [max_rows : {3}, max_chunks : {1}, batch_size : {3}, n_threads : {1},
     use_batch : {FALSE}, use_cache : {TRUE}, replies : {{"exact", "empty"}}]
=============================================================================
