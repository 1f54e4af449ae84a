---------------------------- MODULE MCWorkerPool ----------------------------
(* Instances of the worker pool for TLC.                                   *)
EXTENDS WorkerPool, TLC
=============================================================================
