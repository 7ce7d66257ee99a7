---------------------------- MODULE MCWorkerPool ----------------------------
(***************************************************************************)
(* Small instances of the worker pool for TLC.                             *)
(***************************************************************************)
EXTENDS WorkerPool
=============================================================================
