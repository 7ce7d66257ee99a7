---------------------------- MODULE MCRateLimiter ----------------------------
(***************************************************************************)
(* Small instances of the rate limiters for TLC.                           *)
(***************************************************************************)
EXTENDS RateLimiter
=============================================================================
