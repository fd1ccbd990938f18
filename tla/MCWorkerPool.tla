---------------------------- MODULE MCWorkerPool ----------------------------
(* Two threads, four jobs and two priorities. *)
EXTENDS WorkerPool

CONSTANTS w1, w2

MCWorker == {w1, w2}
MCPriority == {0, 1}
=============================================================================
