---------------------------- MODULE MCForwarder -----------------------------
(***************************************************************************)
(* The forwarder on a small instance.                                      *)
(***************************************************************************)
EXTENDS Forwarder

=============================================================================
