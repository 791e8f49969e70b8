----------------------------- MODULE MCResolver -----------------------------
(***************************************************************************)
(* Query resolution on a small instance; the names of its messages are     *)
(* written, up to three to a message, and read from all packets of five    *)
(* bytes, over a few bytes that cover the cases.  DNSSEC validation runs   *)
(* on responses of up to five signatures.  The resolution of queries, the *)
(* bytes of a message and the parts of the validation share no state, so   *)
(* each is explored while the others are where they started.               *)
(***************************************************************************)
EXTENDS Resolver, DnsWire, Dnssec

\* Labels with a byte that is escaped and without; a label too long once it is escaped
MCLabels == {<<97>>, <<1, 98>>}
MCNames == {<<>>} \cup {<<a>> : a \in MCLabels} \cup {<<a, b>> : a, b \in MCLabels}
              \cup {<<a, b, <<97>>>> : a, b \in MCLabels}
              \cup {<<a, [i \in 1..32 |-> 1]>> : a \in MCLabels}

\* Ends, lengths, letters and pointers; one name that is too long
MCPackets == [1..5 -> {0, 1, 2, 97, 192}] \cup {[i \in 1..70 |-> IF i = 1 THEN 61 ELSE 97]}

\* A name with two zones above it and an anchor for one of them and for the root
MCQueryName == <<"www", "example", "org">>
MCAnchors == {<<<<"org">>, 1>>, <<<<>>, 1>>, <<<<>>, 2>>}

\* The canonical order of the names, which is not the order of their text
MCCanonical == [name \in 0..6 |-> (3 * name) % 7]

\* No routes
MCChain == [n \in Name |-> <<>>]

MCInit == Init /\ WireInit /\ DnssecInit

\* The walk, the clock and the zone of the validation share no state either.
OnePart == IF Fresh THEN sig_clock = 0 \/ nsec_owners = {} ELSE sig_clock = 0 /\ nsec_owners = {}

MCNext ==
    \/ WireInit /\ DnssecInit /\ Next /\ UNCHANGED <<wire, dnssec>>
    \/ Init /\ DnssecInit /\ WireNext /\ UNCHANGED <<vars, dnssec>>
    \/ Init /\ WireInit /\ DnssecNext /\ OnePart' /\ UNCHANGED <<vars, wire>>

MCSpec == MCInit /\ [][MCNext]_<<vars, wire, dnssec>> /\ Fairness

=============================================================================
