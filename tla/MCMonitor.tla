------------------------------ MODULE MCMonitor ------------------------------
(***************************************************************************)
(* Small instances of the resource monitor for TLC.                        *)
(***************************************************************************)
EXTENDS Monitor
=============================================================================
