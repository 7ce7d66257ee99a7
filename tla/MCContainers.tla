---------------------------- MODULE MCContainers ----------------------------
(***************************************************************************)
(* Small instances of the lock-protected containers for TLC.               *)
(***************************************************************************)
EXTENDS Containers
=============================================================================
