------------------------------- MODULE DhcpV4 -------------------------------
(***************************************************************************)
(* DHCPv4: the handlers of src/src/dhcp/v4/protocol.rs over the lease      *)
(* manager of src/src/dhcp/lease/mod.rs, with the clients they serve.      *)
(*                                                                         *)
(* One task handles one message after the other.  It takes the lease       *)
(* manager's lock anew for each call of a handler, and in between the      *)
(* maintenance timer of the DHCPv6 server, which shares the lease manager, *)
(* may prune: a handler is one action per call.  Clients keep to the       *)
(* protocol; replies may be lost.  There is one range and no relay, and    *)
(* nobody adds or deletes leases over D-Bus.                               *)
(***************************************************************************)
EXTENDS Naturals, Sequences, FiniteSets

CONSTANTS
    Mac,          \* clients
    Ip,           \* addresses
    Range,        \* the addresses of the range, in order
    Static,       \* static_leases: mac -> address or None
    Host,         \* host names
    None,
    LeaseTime,    \* what calculate_lease_time returns: the range's override, what
                  \* the client asks for each time, or the configured time
    DeclineTime,  \* decline_duration
    MaxLease,     \* the longest of these times
    MaxTime       \* bound: the clock stops here

ASSUME RangeAssumption == Range \in Seq(Ip) /\ Static \in [Mac -> Ip \cup {None}]

ASSUME TimeAssumption ==
    /\ MaxLease \in Nat /\ MaxTime \in Nat
    /\ LeaseTime \in [Mac -> 0..MaxLease] /\ DeclineTime \in 0..MaxLease

InRange == {Range[i] : i \in DOMAIN Range}

Lease == [mac : Mac, host : Host \cup {None}, expires : Nat, declined : BOOLEAN]

\* What a client was told: the address, and until when it is the client's.
Belief == [ip : Ip, until : Nat]

\* A message between two calls of its handler.
Job == [kind : {"allocate", "renew", "record", "mark"}, mac : Mac, ip : Ip,
        host : Host \cup {None}]

ASSUME NoneAssumption ==
    /\ None \notin Mac /\ None \notin Ip /\ None \notin Host
    /\ None \notin Lease /\ None \notin Belief /\ None \notin Job

VARIABLES
    now,
    leases,     \* MemoryLeaseRepository::leases: address -> lease
    mac_index,  \* MemoryLeaseRepository::mac_index: client -> address
    names,      \* DHCP names in the lease manager's DNS cache
    job,        \* the rest of the message that is being handled
    offered,    \* the address each client was offered
    held        \* the address each client was given, and until when

server == <<leases, mac_index, names>>
vars == <<now, server, job, offered, held>>

-----------------------------------------------------------------------------
(* The lease manager *)

IsExpired_Early(lease) == now >= lease.expires

IsExpired(lease) == now > lease.expires

FindByMac(m) == IF mac_index[m] = None THEN None ELSE leases[mac_index[m]]

\* insert: the client's earlier address stays leased to it, out of the index.
Insert(ip, lease) ==
    /\ leases' = [leases EXCEPT ![ip] = lease]
    /\ mac_index' = [mac_index EXCEPT ![lease.mac] = ip]

\* allocate_lease: whatever was recorded for the address is replaced, flags
\* included, and the name registered.
AllocateLease(ip, m, host, expires) ==
    /\ Insert(ip, [mac |-> m, host |-> host, expires |-> expires, declined |-> FALSE])
    /\ names' = IF host = None THEN names
                ELSE [names EXCEPT ![host] = [ip |-> ip, expiry |-> expires]]

RemoveAll_KeepsIndex(gone) ==
    /\ leases' = [ip \in Ip |-> IF ip \in gone THEN None ELSE leases[ip]]
    /\ mac_index' = mac_index
    /\ names' = names

\* release_lease for each address: the client leaves the index whatever the
\* index says, the name goes whatever it points to.
RemoveAll(gone) ==
    LET was(field) == {leases[ip][field] : ip \in gone}
    IN /\ leases' = [ip \in Ip |-> IF ip \in gone THEN None ELSE leases[ip]]
       /\ mac_index' = [m \in Mac |-> IF m \in was("mac") THEN None ELSE mac_index[m]]
       /\ names' = [h \in Host |-> IF h \in was("host") THEN None ELSE names[h]]

-----------------------------------------------------------------------------
Init ==
    /\ now = 0
    /\ leases = [ip \in Ip |-> None]
    /\ mac_index = [m \in Mac |-> None]
    /\ names = [h \in Host |-> None]
    /\ job = None
    /\ offered = [m \in Mac |-> None]
    /\ held = [m \in Mac |-> None]

Holding(m) == held[m] # None /\ now <= held[m].until

\* The client hears the reply, or it is lost.
Hear(m, fact) == \/ held' = [held EXCEPT ![m] = fact] /\ offered' = [offered EXCEPT ![m] = None]
                 \/ UNCHANGED <<held, offered>>

Nak(m) == Hear(m, None) /\ UNCHANGED <<now, server>>

-----------------------------------------------------------------------------
(* DISCOVER: handle_discover and allocate_address_from_range hold one guard *)

Free_IgnoresDecline(ip) == leases[ip] # None => IsExpired(leases[ip])

Free(ip) == leases[ip] # None => IsExpired(leases[ip]) /\ ~leases[ip].declined

FirstFree(ip) ==
    \E i \in DOMAIN Range : /\ Range[i] = ip /\ Free(ip)
                            /\ \A j \in 1..(i - 1) : ~Free(Range[j])

Reusable(m) == LET lease == FindByMac(m)
               IN lease # None /\ ~lease.declined /\ ~IsExpired(lease)

\* The reservation, the client's own lease, the address it asks for, or the
\* first free one.
OffersFor(m, wanted) ==
    IF Static[m] # None THEN {Static[m]}
    ELSE IF Reusable(m) THEN {mac_index[m]}
    ELSE IF wanted \in InRange /\ Free(wanted) THEN {wanted}
    ELSE {ip \in Ip : FirstFree(ip)}

Discover(m, wanted) ==
    /\ job = None
    /\ \E ip \in OffersFor(m, wanted) : offered' = [offered EXCEPT ![m] = ip]
    /\ UNCHANGED <<now, server, job, held>>

-----------------------------------------------------------------------------
(* REQUEST: a check of the record, then the allocation or renewal *)

Foreign_Never(ip, m) == FALSE

Foreign(ip, m) == leases[ip] # None /\ leases[ip].mac # m

Check(m, ip, kind, host) ==
    \/ Foreign(ip, m) /\ Nak(m) /\ UNCHANGED job
    \/ /\ ~Foreign(ip, m)
       /\ job' = [kind |-> kind, mac |-> m, ip |-> ip, host |-> host]
       /\ UNCHANGED <<now, server, offered, held>>

\* handle_request_selecting looks at nothing but the client of the lease.
RequestSelecting(m, host) ==
    /\ job = None
    /\ offered[m] # None
    /\ Check(m, offered[m], "allocate", host)

\* handle_request_init_reboot: the client remembers an address, the one it held
\* last or, having moved, one of another network.
RequestInitReboot(m, ip) ==
    /\ job = None
    /\ held[m] # None => held[m].ip = ip
    /\ \/ ip \notin InRange /\ Nak(m) /\ UNCHANGED job
       \/ ip \in InRange /\ Check(m, ip, "allocate", None)

\* handle_request_renewing, of a request that may come after the lease has run
\* out: without a record there is an error and no reply.
RequestRenewing(m) ==
    /\ job = None
    /\ held[m] # None
    /\ leases[held[m].ip] # None
    /\ Check(m, held[m].ip, "renew", None)

Granted == now + LeaseTime[job.mac]

Ack == Hear(job.mac, [ip |-> job.ip, until |-> Granted])

Allocate ==
    /\ job # None /\ job.kind = "allocate"
    /\ AllocateLease(job.ip, job.mac, job.host, Granted)
    /\ Ack
    /\ job' = None
    /\ UNCHANGED now

\* renew_lease; the name keeps the expiry it was registered with.
Renew ==
    /\ job # None /\ job.kind = "renew"
    /\ \/ leases[job.ip] = None /\ Nak(job.mac)
       \/ /\ leases[job.ip] # None
          /\ Insert(job.ip, [leases[job.ip] EXCEPT !.expires = Granted])
          /\ Ack
          /\ UNCHANGED <<now, names>>
    /\ job' = None

-----------------------------------------------------------------------------
(* DECLINE and RELEASE: the client stops using the address, no reply *)

Drop(m) == held' = [held EXCEPT ![m] = None]

\* A DECLINE may come late, when the lease is gone.
Decline(m) ==
    /\ job = None
    /\ held[m] # None
    /\ Drop(m)
    /\ job' = [kind |-> IF leases[held[m].ip] = None THEN "record" ELSE "mark",
               mac |-> m, ip |-> held[m].ip, host |-> None]
    /\ UNCHANGED <<now, server, offered>>

RecordDeclined ==
    /\ job # None /\ job.kind = "record"
    /\ AllocateLease(job.ip, job.mac, None, now + DeclineTime)
    /\ job' = [job EXCEPT !.kind = "mark"]
    /\ UNCHANGED <<now, offered, held>>

\* mark_lease_declined inserts the lease again.
MarkDeclined ==
    /\ job # None /\ job.kind = "mark"
    /\ \/ leases[job.ip] = None /\ UNCHANGED <<leases, mac_index>>
       \/ /\ leases[job.ip] # None
          /\ Insert(job.ip, [leases[job.ip] EXCEPT !.declined = TRUE])
    /\ job' = None
    /\ UNCHANGED <<now, names, offered, held>>

\* handle_release does not ask whose lease it is.
Release(m) ==
    /\ job = None
    /\ Holding(m)
    /\ Drop(m)
    /\ RemoveAll({ip \in {held[m].ip} : leases[ip] # None})
    /\ UNCHANGED <<now, job, offered>>

-----------------------------------------------------------------------------
\* prune_expired, from the DHCPv6 server's maintenance timer, under the write
\* guard; it may find the DHCPv4 task between two calls.
Prune ==
    /\ \E ip \in Ip : leases[ip] # None /\ IsExpired(leases[ip])
    /\ RemoveAll({ip \in Ip : leases[ip] # None /\ IsExpired(leases[ip])})
    /\ UNCHANGED <<now, job, offered, held>>

\* The client crashes, or its RELEASE or DECLINE is lost.
Forget(m) ==
    /\ held[m] # None
    /\ Drop(m)
    /\ UNCHANGED <<now, server, job, offered>>

Tick ==
    /\ now < MaxTime
    /\ now' = now + 1
    /\ UNCHANGED <<server, job, offered, held>>

Next ==
    \/ \E m \in Mac :
          \/ \E wanted \in Ip \cup {None} : Discover(m, wanted)
          \/ \E host \in Host \cup {None} : RequestSelecting(m, host)
          \/ \E ip \in Ip : RequestInitReboot(m, ip)
          \/ RequestRenewing(m)
          \/ Decline(m) \/ Release(m) \/ Forget(m)
    \/ Allocate \/ Renew \/ RecordDeclined \/ MarkDeclined
    \/ Prune
    \/ Tick

Spec == Init /\ [][Next]_vars

-----------------------------------------------------------------------------
(* Properties *)

\* Every variable keeps its type, and no lease runs longer from now than the
\* longest lease time.
TypeOK ==
    /\ now \in 0..MaxTime
    /\ leases \in [Ip -> Lease \cup {None}]
    /\ \A ip \in Ip : leases[ip] # None => leases[ip].expires <= now + MaxLease
    /\ mac_index \in [Mac -> Ip \cup {None}]
    /\ names \in [Host -> [ip : Ip, expiry : Nat] \cup {None}]
    /\ job \in Job \cup {None}
    /\ offered \in [Mac -> Ip \cup {None}]
    /\ held \in [Mac -> Belief \cup {None}]

\* No two clients hold the same address at the same time: not when one was
\* acknowledged while the other's lease ran out or was pruned between the
\* check of its request and the allocation, not after declines, lost replies
\* or reboots into a remembered address.
OneHolder ==
    \A m, n \in Mac : m # n /\ Holding(m) /\ Holding(n) => held[m].ip # held[n].ip

\* While a client holds an address the server has that lease on record, for
\* this client and at least as long.
HeldIsRecorded ==
    \A m \in Mac : Holding(m) =>
       /\ leases[held[m].ip] # None
       /\ leases[held[m].ip].mac = m
       /\ leases[held[m].ip].expires >= held[m].until

\* mac_index leads a client to a lease that exists and is its own, so that
\* DISCOVER never offers a client somebody else's address as "existing".
IndexPointsHome ==
    \A m \in Mac : mac_index[m] # None =>
       leases[mac_index[m]] # None /\ leases[mac_index[m]].mac = m

\* An address that is out of use because a client declined it is not offered
\* to a client without a reservation, neither before nor after the record has
\* expired.
DeclinedIsNotOffered ==
    [][\A m \in Mac, ip \in Ip :
          /\ offered[m] # ip /\ offered'[m] = ip
          /\ Static[m] = None
          => leases[ip] = None \/ ~leases[ip].declined]_vars

=============================================================================
