---------------------------- MODULE MCLeaseLock -----------------------------
(***************************************************************************)
(* The lease manager's lock with its three users, the DHCPv4 task with and *)
(* without DISCOVER.                                                       *)
(***************************************************************************)
EXTENDS LeaseLock

=============================================================================
