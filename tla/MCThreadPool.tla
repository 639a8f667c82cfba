---------------------------- MODULE MCThreadPool ----------------------------
(* A pool that keeps one thread and may have two; a third identity, so that   *)
(* a pool that grows too far shows.                                           *)
EXTENDS ThreadPool

CONSTANTS w1, w2, w3

MCWorkers == {w1, w2, w3}
==============================================================================
