---------------------------- MODULE MCLeaseStore ----------------------------
(***************************************************************************)
(* The lease store on a small instance: two addresses, a client with a     *)
(* name and one whose name came out empty.                                 *)
(***************************************************************************)
EXTENDS LeaseStore

CONSTANTS m1, m2, laptop, id2

MCHostOf == [m \in Mac |-> IF m = m1 THEN laptop ELSE Empty]

MCCidOf == [m \in Mac |-> IF m = m1 THEN None ELSE id2]

=============================================================================
