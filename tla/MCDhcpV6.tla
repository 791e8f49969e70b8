------------------------------ MODULE MCDhcpV6 ------------------------------
(***************************************************************************)
(* DHCPv6 on a small instance, two clients and a pool of two addresses,    *)
(* and the neighbour cache with two addresses and two devices.  They share *)
(* no state, so each is explored while the other is where it started.      *)
(***************************************************************************)
EXTENDS DhcpV6, ArpCache, TLC

Symmetry == Permutations(Client) \cup Permutations(Ip) \cup Permutations(Mac)

MCInit == Init /\ ArpInit

MCNext ==
    \/ ArpInit /\ Next /\ UNCHANGED arp
    \/ Init /\ ArpNext /\ UNCHANGED vars

MCSpec == MCInit /\ [][MCNext]_<<vars, arp>>

=============================================================================
