---------------------------- MODULE MCPoolBatch ----------------------------
(***************************************************************************)
(* Small instances of batches on a worker pool for TLC.                    *)
(***************************************************************************)
EXTENDS PoolBatch

CONSTANTS t1, t2

OneTask  == <<t2>>
TwoTasks == <<t1, t2>>
=============================================================================
