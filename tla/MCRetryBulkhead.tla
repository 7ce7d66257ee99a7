--------------------------- MODULE MCRetryBulkhead ---------------------------
(***************************************************************************)
(* Small instances of retried bulkhead calls for TLC.                      *)
(***************************************************************************)
EXTENDS RetryBulkhead
=============================================================================
