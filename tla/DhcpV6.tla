------------------------------- MODULE DhcpV6 -------------------------------
(***************************************************************************)
(* DHCPv6: the task of src/src/dhcp/v6/server.rs and the handlers of       *)
(* src/src/dhcp/v6/protocol.rs over the lease manager of                   *)
(* src/src/dhcp/lease/mod.rs, with the clients they serve.                 *)
(*                                                                         *)
(* A handler that changes a lease has the lease manager's write guard from *)
(* its look at the lease to the change, so it is one action.  Clients keep *)
(* to the protocol and name this server.  Their messages may be lost, late *)
(* out of order or delivered again and again; replies arrive at once or    *)
(* are lost.  One pool serves the placeholder interface of handle_packet;  *)
(* messages are well formed and ask for an address (a REQUEST for a prefix *)
(* has no IA_NA and is refused, so delegation ends at the ADVERTISE), and  *)
(* nobody adds or deletes IPv6 leases over D-Bus.                          *)
(***************************************************************************)
EXTENDS Naturals

CONSTANTS
    Client,
    Start, End,    \* start6 and end6 of the pool
    ScanLimit,     \* how far past Start the search goes: 10000
    LeaseTime,     \* config.dhcp.lease_time in seconds
    None,
    MaxExchanges,  \* bound: messages a client sends
    MaxTime        \* bound: the clock stops here

ASSUME PoolAssumption ==
    {Start, End, ScanLimit} \subseteq Nat /\ Start <= End

\* types.rs refuses a lease time of zero.
ASSUME LeaseAssumption ==
    LeaseTime \in Nat \ {0} /\ MaxTime \in Nat

ASSUME ExchangesAssumption == MaxExchanges \in Nat

Addr == Start..End

Kind == {"REQUEST", "RENEW", "REBIND", "RELEASE", "DECLINE"}

Lease == [client : Client, expires : Nat]

Message == [kind : Kind, client : Client, ip : Addr, xid : 1..MaxExchanges]

\* What a client was told: the address, and until when it is the client's.
Belief == [ip : Addr, until : Nat]

ASSUME NoneAssumption == None \notin Lease /\ None \notin Belief /\ None \notin Addr

VARIABLES
    now,
    up,          \* DhcpV6Server::run has not returned
    leases,      \* the IPv6 leases of the lease manager: address -> lease
    net,         \* the messages sent: the server may get each at any time
    xid,         \* the number of each client's last message
    advertised,  \* what the last ADVERTISE offered each client
    held,        \* the address each client was given, and until when
    evicted      \* clients that hold an address and whose record was taken by a
                 \* REQUEST of another client or a late RELEASE of their own

clients == <<advertised, held>>
vars == <<now, up, leases, net, xid, clients, evicted>>

-----------------------------------------------------------------------------
Init ==
    /\ now = 0
    /\ up = TRUE
    /\ leases = [ip \in Addr |-> None]
    /\ net = {}
    /\ xid = [c \in Client |-> 0]
    /\ advertised = [c \in Client |-> None]
    /\ held = [c \in Client |-> None]
    /\ evicted = {}

Holding(c) == held[c] # None /\ now <= held[c].until

IsExpired(lease) == now > lease.expires

-----------------------------------------------------------------------------
(* SOLICIT only reads: the client asks, and hears the ADVERTISE or nothing. *)
(* With Rapid Commit the handler goes on as REQUEST and refuses a message   *)
(* without a server identifier, which a SOLICIT never has: no reply.        *)

Available_IfExpired ==
    {ip \in Addr : ip <= Start + ScanLimit /\ (leases[ip] # None => now >= leases[ip].expires)}

\* find_available_address leaves its loop after the address ScanLimit past the
\* first.  A lease that has run out but was not pruned keeps its address.
Available == {ip \in Addr : ip <= Start + ScanLimit /\ leases[ip] = None}

Solicit(c) ==
    /\ up
    /\ held[c] = None
    /\ \E ip \in Available :
          /\ \A other \in Available : ip <= other
          /\ advertised' = [advertised EXCEPT ![c] = ip]
    /\ UNCHANGED <<now, up, leases, net, xid, held, evicted>>

-----------------------------------------------------------------------------
(* The client sends *)

Send(c, kind, ip) ==
    /\ xid[c] < MaxExchanges
    /\ xid' = [xid EXCEPT ![c] = @ + 1]
    /\ net' = net \cup {[kind |-> kind, client |-> c, ip |-> ip, xid |-> xid[c] + 1]}
    /\ UNCHANGED <<now, up, leases>>

SendRequest(c) ==
    /\ advertised[c] # None /\ held[c] = None
    /\ Send(c, "REQUEST", advertised[c])
    /\ UNCHANGED <<clients, evicted>>

\* RENEW and REBIND while the lease runs.
SendRenewal(c, kind) ==
    /\ Holding(c)
    /\ Send(c, kind, held[c].ip)
    /\ UNCHANGED <<clients, evicted>>

\* RELEASE and DECLINE: the client stops using the address.
SendFarewell(c, kind) ==
    /\ Holding(c)
    /\ Send(c, kind, held[c].ip)
    /\ held' = [held EXCEPT ![c] = None]
    /\ advertised' = [advertised EXCEPT ![c] = None]
    /\ evicted' = evicted \ {c}

\* A client hears a reply to its last message only, or it is lost.  It drops an
\* address that a reply does not confirm (NoBinding, NotOnLink).
Hears(m, belief) ==
    \/ /\ m.xid = xid[m.client]
       /\ m.kind = "REQUEST" \/ held[m.client] # None
       /\ held' = [held EXCEPT ![m.client] = belief]
       /\ advertised' = [advertised EXCEPT ![m.client] = None]
    \/ UNCHANGED clients

-----------------------------------------------------------------------------
(* The handlers *)

\* is_address_in_pool: "just verify it's the same as start6 for now".
InPool(ip) == ip = Start

\* build_reply_with_address: whole seconds of what is left, so that the reply
\* may name one second less than the lease has.
Granted == {[ip |-> Start, until |-> now + secs] : secs \in {LeaseTime - 1, LeaseTime}}

Record(c, ip) ==
    leases' = [leases EXCEPT ![ip] = [client |-> c, expires |-> now + LeaseTime]]

\* The client the record of an address names, if there is one.
Owners(ip) == IF leases[ip] = None THEN {} ELSE {leases[ip].client}

\* handle_request: allocate_lease replaces whatever was recorded for the address.
\* An address other than the first is "not in pool": an error and no reply.
HandleRequest(m) ==
    \/ /\ ~InPool(m.ip)
       /\ UNCHANGED <<leases, clients, evicted>>
    \/ /\ InPool(m.ip)
       /\ Record(m.client, m.ip)
       /\ \E belief \in Granted : Hears(m, belief)
       /\ evicted' = (evicted \cup Owners(m.ip)) \ {m.client}

\* handle_renew: without a record there is an error and no reply.
HandleRenew(m) ==
    \/ /\ Owners(m.ip) = {}
       /\ UNCHANGED <<leases, clients, evicted>>
    \/ /\ Owners(m.ip) \notin {{}, {m.client}}
       /\ Hears(m, None)
       /\ UNCHANGED <<leases, evicted>>
    \/ /\ Owners(m.ip) = {m.client}
       /\ Record(m.client, m.ip)
       /\ \E belief \in Granted : Hears(m, belief)
       /\ evicted' = evicted \ {m.client}

HandleRebind_NoOwnerCheck(m) ==
    \/ ~InPool(m.ip) /\ Hears(m, None) /\ UNCHANGED <<leases, evicted>>
    \/ /\ InPool(m.ip)
       /\ Record(m.client, m.ip)
       /\ \E belief \in Granted : Hears(m, belief)
       /\ evicted' = evicted \ {m.client}

\* handle_rebind: an address nobody has on record is allocated to the client.
HandleRebind(m) ==
    \/ /\ ~InPool(m.ip) \/ Owners(m.ip) \notin {{}, {m.client}}
       /\ Hears(m, None)
       /\ UNCHANGED <<leases, evicted>>
    \/ /\ InPool(m.ip) /\ Owners(m.ip) \in {{}, {m.client}}
       /\ Record(m.client, m.ip)
       /\ \E belief \in Granted : Hears(m, belief)
       /\ evicted' = evicted \ {m.client}

Evicts(m) == IF Holding(m.client) /\ held[m.client].ip = m.ip THEN {m.client} ELSE {}

\* handle_release: only the client on record frees the address; handle_packet
\* sends no reply.
HandleRelease(m) ==
    \/ Owners(m.ip) # {m.client} /\ UNCHANGED <<leases, clients, evicted>>
    \/ /\ Owners(m.ip) = {m.client}
       /\ leases' = [leases EXCEPT ![m.ip] = None]
       /\ evicted' = evicted \cup Evicts(m)
       /\ UNCHANGED clients

\* handle_decline marks a copy of the lease: the record stays as it is.
HandleDecline(m) == UNCHANGED <<leases, clients, evicted>>

\* handle_packet dispatches one message; CONFIRM falls through to "ignored" and
\* INFORMATION-REQUEST is answered without touching a lease.
HandlePacket(m) ==
    /\ up
    /\ \/ m.kind = "REQUEST" /\ HandleRequest(m)
       \/ m.kind = "RENEW" /\ HandleRenew(m)
       \/ m.kind = "REBIND" /\ HandleRebind(m)
       \/ m.kind = "RELEASE" /\ HandleRelease(m)
       \/ m.kind = "DECLINE" /\ HandleDecline(m)
    /\ UNCHANGED <<now, up, net, xid>>

-----------------------------------------------------------------------------
\* The maintenance tick of run: prune_expired.
Prune ==
    /\ up
    /\ \E ip \in Addr : leases[ip] # None /\ IsExpired(leases[ip])
    /\ leases' = [ip \in Addr |-> IF leases[ip] # None /\ IsExpired(leases[ip]) THEN None
                                  ELSE leases[ip]]
    /\ UNCHANGED <<now, up, net, xid, clients, evicted>>

\* run returns on a fatal socket error or at shutdown, and nobody starts it again.
Stop ==
    /\ up
    /\ up' = FALSE
    /\ UNCHANGED <<now, leases, net, xid, clients, evicted>>

\* A client whose lease has run out no longer has the address.
LetGo(c) ==
    /\ held[c] # None /\ ~Holding(c)
    /\ held' = [held EXCEPT ![c] = None]
    /\ evicted' = evicted \ {c}
    /\ UNCHANGED <<now, up, leases, net, xid, advertised>>

Tick ==
    /\ now < MaxTime
    /\ now' = now + 1
    /\ UNCHANGED <<up, leases, net, xid, clients, evicted>>

Next ==
    \/ \E c \in Client :
          \/ Solicit(c) \/ SendRequest(c) \/ LetGo(c)
          \/ \E kind \in {"RENEW", "REBIND"} : SendRenewal(c, kind)
          \/ \E kind \in {"RELEASE", "DECLINE"} : SendFarewell(c, kind)
    \/ \E m \in net : HandlePacket(m)
    \/ Prune \/ Stop \/ Tick

Spec == Init /\ [][Next]_vars

-----------------------------------------------------------------------------
(* Properties *)

\* Every variable keeps its type, and no lease runs longer than LeaseTime.
TypeOK ==
    /\ now \in 0..MaxTime
    /\ up \in BOOLEAN
    /\ leases \in [Addr -> Lease \cup {None}]
    /\ \A ip \in Addr : leases[ip] # None => leases[ip].expires <= now + LeaseTime
    /\ net \subseteq Message
    /\ xid \in [Client -> 0..MaxExchanges]
    /\ advertised \in [Client -> Addr \cup {None}]
    /\ held \in [Client -> Belief \cup {None}]
    /\ evicted \subseteq Client

\* A client loses its record while it holds the address in two ways only, a
\* REQUEST of another client that was advertised the same address (handle_request
\* does not look at the record), or a late RELEASE of its own: not by a RELEASE
\* of the client it took the address from, not by pruning, not by a rebind of
\* somebody else.
HeldIsRecorded ==
    \A c \in Client \ evicted : Holding(c) =>
       /\ leases[held[c].ip] # None
       /\ leases[held[c].ip].client = c
       /\ leases[held[c].ip].expires >= held[c].until

\* An ADVERTISE never offers an address that a client with a record holds, even
\* in the second in which its lease ends.
AdvertisesOnlyUnheld ==
    [][\A c, d \in Client :
          /\ advertised'[c] # advertised[c] /\ advertised'[c] # None
          /\ Holding(d) /\ d \notin evicted
          => held[d].ip # advertised'[c]]_vars

=============================================================================
