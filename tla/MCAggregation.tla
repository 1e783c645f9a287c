---------------------------- MODULE MCAggregation ----------------------------
(***************************************************************************)
(* Two tokens; two indexer processes with the same INDEXER_WORKER_ID, the  *)
(* second of which may start while the first one is still running.         *)
(***************************************************************************)
EXTENDS Aggregation

CONSTANTS t1, t2

MCTokens == {t1, t2}
MCWorkerID == [w \in Workers |-> "indexer-1"]
=============================================================================
