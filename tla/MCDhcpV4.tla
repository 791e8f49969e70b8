------------------------------ MODULE MCDhcpV4 ------------------------------
(***************************************************************************)
(* DHCPv4 on a small instance: two addresses in the range, one of them     *)
(* reserved for a client, and one outside.                                 *)
(***************************************************************************)
EXTENDS DhcpV4

CONSTANTS m1, m2, ip1, ip2, ip3

MCRange == <<ip1, ip2>>

MCStatic == [m \in Mac |-> IF m = m2 THEN ip2 ELSE None]

MCLeaseTime == [m \in Mac |-> IF m = m1 THEN 1 ELSE 2]

=============================================================================
