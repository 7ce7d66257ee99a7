----------------------- MODULE MCSemaphoreMiddleware -----------------------
(***************************************************************************)
(* Small instances of the middleware and its semaphore for TLC.            *)
(***************************************************************************)
EXTENDS SemaphoreMiddleware
=============================================================================
