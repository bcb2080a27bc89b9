------------------------- MODULE MCHistoryBackendMem -------------------------
(* Instantiation of HistoryBackendMem for TLC: two objects, one of them    *)
(* reachable under two spellings, in different buckets of a five-bucket   *)
(* table swept two buckets per timer event.                               *)
EXTENDS HistoryBackendMem

MCName == {"#a", "#A", "#b"}
MCFold == [n \in MCName |-> IF n = "#b" THEN "#b" ELSE "#a"]
MCHashOf == [c \in {"#a", "#b"} |-> IF c = "#a" THEN 0 ELSE 3]

\* HISTORY_BACKEND_MEM_HASH_TABLE_SIZE / HISTORY_SPREAD, as in the source.
MCCleanPerLoop == 5 \div 3

MCFilter == [last_seconds : {0, 1, 2}, last_lines : {1, 2}]
\* A filter whose last_lines is left unset (0).
MCFilterUnset == [last_seconds : {0, 1, 2}, last_lines : {0, 1}]
=============================================================================
