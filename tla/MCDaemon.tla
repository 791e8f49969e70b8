------------------------------ MODULE MCDaemon ------------------------------
(***************************************************************************)
(* The process on a small instance: three contents of the file, of which   *)
(* one is not acceptable, and two lease scripts.                           *)
(***************************************************************************)
EXTENDS Daemon

=============================================================================
