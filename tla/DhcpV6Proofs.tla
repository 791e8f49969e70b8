---------------------------- MODULE DhcpV6Proofs ----------------------------
(***************************************************************************)
(* Proofs about DhcpV6: for any clients, pool, lease time and order of     *)
(* messages the record of an address names the client that holds it,       *)
(* except after the two events that DhcpV6 calls evictions.                *)
(*                                                                         *)
(* And about ArpCache, the neighbour cache of the same network layer: a    *)
(* lookup answers what the kernel said last, and no departure is lost.     *)
(* The two share no state.                                                 *)
(***************************************************************************)
EXTENDS DhcpV6, ArpCache, FiniteSetTheorems, WellFoundedInduction, TLAPS

\* is_address_in_pool lets the first address of the pool only through, so that
\* no other one is ever recorded or given to a client.
OnlyFirst ==
    /\ \A ip \in Addr : leases[ip] # None => ip = Start
    /\ \A c \in Client : held[c] # None => held[c].ip = Start

\* No client was told more than the lease time.
Bounded == \A c \in Client : held[c] # None => held[c].until <= now + LeaseTime

IInv == TypeOK /\ OnlyFirst /\ Bounded /\ HeldIsRecorded

-----------------------------------------------------------------------------
LEMMA Constants ==
    /\ Start \in Addr /\ Start \in Nat /\ End \in Nat /\ LeaseTime \in Nat
    /\ MaxTime \in Nat /\ MaxExchanges \in Nat
  BY PoolAssumption, LeaseAssumption, ExchangesAssumption DEF Addr

LEMMA InitEstablishes == Init => IInv
<1> SUFFICES ASSUME Init PROVE IInv
  OBVIOUS
<1>1. TypeOK
  BY Constants DEF Init, TypeOK
<1>2. OnlyFirst /\ Bounded /\ HeldIsRecorded
  BY DEF Init, OnlyFirst, Bounded, HeldIsRecorded, Holding
<1> QED
  BY <1>1, <1>2 DEF IInv

\* What a REPLY grants: the first address, for at most the lease time.
LEMMA GrantedIs ==
    ASSUME now \in Nat, NEW b \in Granted
    PROVE  b \in Belief /\ b # None /\ b.ip = Start /\ b.until <= now + LeaseTime
  BY Constants, LeaseAssumption, NoneAssumption DEF Granted, Belief

\* What hearing a reply does to the addresses clients hold.
LEMMA HearsIs ==
    ASSUME TypeOK, NEW m \in net, NEW b \in Belief \cup {None}, Hears(m, b)
    PROVE  /\ held' \in [Client -> Belief \cup {None}]
           /\ advertised' \in [Client -> Addr \cup {None}]
           /\ m.client \in Client /\ m.ip \in Addr
           /\ \A c \in Client \ {m.client} : held'[c] = held[c]
           /\ held'[m.client] \in {held[m.client], b}
<1>1. m \in Message
  BY DEF TypeOK
<1>2. m.client \in Client /\ m.ip \in Addr
  BY <1>1 DEF Message
<1>3. CASE held' = [held EXCEPT ![m.client] = b] /\ advertised' = [advertised EXCEPT ![m.client] = None]
  BY <1>2, <1>3 DEF TypeOK
<1>4. CASE UNCHANGED clients
  BY <1>2, <1>4 DEF TypeOK, clients
<1> QED
  BY <1>3, <1>4 DEF Hears

\* The client on record, or one no other client is on record with, gets its
\* record for a full lease time: by REQUEST, RENEW or REBIND.
LEMMA GrantKeeps ==
    ASSUME IInv, NEW m \in net, m.ip = Start, Record(m.client, m.ip),
           NEW b \in Granted, Hears(m, b),
           evicted' \in {evicted \ {m.client}, (evicted \cup Owners(m.ip)) \ {m.client}},
           \A d \in Client \ evicted' :
              d # m.client /\ leases[Start] # None => leases[Start].client # d,
           UNCHANGED <<now, up, net, xid>>
    PROVE  IInv'
<1>1. TypeOK /\ now \in Nat /\ Start \in Addr
  BY Constants DEF IInv, TypeOK
<1>2. b \in Belief /\ b # None /\ b.ip = Start /\ b.until <= now + LeaseTime
  BY <1>1, GrantedIs
<1>3. /\ held' \in [Client -> Belief \cup {None}]
      /\ advertised' \in [Client -> Addr \cup {None}]
      /\ m.client \in Client /\ m.ip \in Addr
      /\ \A c \in Client \ {m.client} : held'[c] = held[c]
      /\ held'[m.client] \in {held[m.client], b}
  BY <1>1, <1>2, HearsIs
<1> DEFINE new == [client |-> m.client, expires |-> now + LeaseTime]
<1>4. new \in Lease /\ new # None /\ new.client = m.client /\ new.expires = now + LeaseTime
  BY <1>1, <1>3, Constants, NoneAssumption DEF Lease
<1>5. leases' = [leases EXCEPT ![Start] = new]
  BY DEF Record
<1> HIDE DEF new
<1>6. /\ leases' \in [Addr -> Lease \cup {None}]
      /\ leases'[Start] = new
      /\ \A ip \in Addr \ {Start} : leases'[ip] = leases[ip]
  BY <1>1, <1>4, <1>5 DEF TypeOK
<1>7. evicted' \subseteq Client
  <2>1. leases[Start] # None => leases[Start].client \in Client
    BY <1>1 DEF TypeOK, Lease
  <2> QED
    BY <1>1, <2>1 DEF TypeOK, Owners
<1>8. TypeOK'
  <2>1. \A ip \in Addr : leases'[ip] # None => leases'[ip].expires <= now + LeaseTime
    <3>1. new.expires <= now + LeaseTime
      BY <1>1, <1>4, Constants
    <3> QED
      BY <1>1, <1>6, <3>1 DEF TypeOK
  <2> QED
    BY <1>1, <1>3, <1>6, <1>7, <2>1 DEF TypeOK
<1>9. OnlyFirst' /\ Bounded'
  <2>1. \A ip \in Addr : leases'[ip] # None => ip = Start
    BY <1>6 DEF IInv, OnlyFirst
  <2>2. ASSUME NEW c \in Client, held'[c] # None
        PROVE  held'[c].ip = Start /\ held'[c].until <= now + LeaseTime
    BY <1>2, <1>3, <2>2 DEF IInv, OnlyFirst, Bounded
  <2> QED
    BY <2>1, <2>2 DEF OnlyFirst, Bounded
<1>10. ASSUME NEW c \in Client \ evicted', Holding(c)'
       PROVE  /\ leases'[held'[c].ip] # None
              /\ leases'[held'[c].ip].client = c
              /\ leases'[held'[c].ip].expires >= held'[c].until
  <2>1. held'[c] # None /\ held'[c].ip = Start /\ held'[c].until <= now + LeaseTime
    BY <1>9, <1>10 DEF Holding, OnlyFirst, Bounded
  <2>2. held'[c].until \in Nat
    BY <1>3, <2>1 DEF Belief
  <2>3. c = m.client
    <3> SUFFICES ASSUME c # m.client PROVE FALSE
      OBVIOUS
    <3>1. held'[c] = held[c] /\ Holding(c) /\ c \notin evicted
      BY <1>3, <1>10 DEF Holding
    <3>2. leases[Start] # None /\ leases[Start].client = c
      BY <2>1, <3>1 DEF IInv, HeldIsRecorded
    <3> QED
      BY <1>10, <3>2
  <2> QED
    BY <1>1, <1>4, <1>6, <2>1, <2>2, <2>3, Constants
<1>11. HeldIsRecorded'
  BY <1>10 DEF HeldIsRecorded
<1> QED
  BY <1>8, <1>9, <1>11 DEF IInv

\* A reply that confirms nothing takes the address from the client that hears it.
LEMMA RefusalKeeps ==
    ASSUME IInv, NEW m \in net, Hears(m, None), UNCHANGED <<now, up, net, xid, leases, evicted>>
    PROVE  IInv'
<1>1. TypeOK
  BY DEF IInv
<1>2. /\ held' \in [Client -> Belief \cup {None}]
      /\ advertised' \in [Client -> Addr \cup {None}]
      /\ \A c \in Client \ {m.client} : held'[c] = held[c]
      /\ held'[m.client] \in {held[m.client], None}
  BY <1>1, HearsIs
<1>3. \A c \in Client : held'[c] # None => held'[c] = held[c]
  BY <1>2
<1>4. TypeOK'
  BY <1>1, <1>2 DEF TypeOK
<1>5. OnlyFirst' /\ Bounded'
  BY <1>3 DEF IInv, OnlyFirst, Bounded
<1>6. HeldIsRecorded'
  BY <1>3 DEF IInv, HeldIsRecorded, Holding
<1> QED
  BY <1>4, <1>5, <1>6 DEF IInv

\* Nothing but the clients' offers, the messages and `up' changes.
LEMMA QuietKeeps ==
    ASSUME IInv, UNCHANGED <<now, leases, held, evicted>>, up' \in BOOLEAN, net' \subseteq Message,
           xid' \in [Client -> 0..MaxExchanges], advertised' \in [Client -> Addr \cup {None}]
    PROVE  IInv'
<1>1. TypeOK'
  BY DEF IInv, TypeOK
<1>2. OnlyFirst' /\ Bounded' /\ HeldIsRecorded'
  BY DEF IInv, OnlyFirst, Bounded, HeldIsRecorded, Holding
<1> QED
  BY <1>1, <1>2 DEF IInv

\* A client that gives its address up is left out of every claim.
LEMMA DropKeeps ==
    ASSUME IInv, NEW c \in Client, held' = [held EXCEPT ![c] = None],
           evicted' = evicted \ {c}, UNCHANGED <<now, up, leases>>,
           net' \subseteq Message, xid' \in [Client -> 0..MaxExchanges],
           advertised' \in [Client -> Addr \cup {None}]
    PROVE  IInv'
<1>1. TypeOK
  BY DEF IInv
<1>2. held'[c] = None /\ \A d \in Client \ {c} : held'[d] = held[d]
  BY <1>1 DEF TypeOK
<1>3. TypeOK'
  BY <1>1 DEF TypeOK
<1>4. OnlyFirst' /\ Bounded'
  BY <1>2 DEF IInv, OnlyFirst, Bounded
<1>5. HeldIsRecorded'
  BY <1>2 DEF IInv, HeldIsRecorded, Holding
<1> QED
  BY <1>3, <1>4, <1>5 DEF IInv

-----------------------------------------------------------------------------
(* One lemma for each kind of step *)

LEMMA SendIs ==
    ASSUME TypeOK, NEW c \in Client, NEW kind \in Kind, NEW ip \in Addr, Send(c, kind, ip)
    PROVE  net' \subseteq Message /\ xid' \in [Client -> 0..MaxExchanges]
<1>1. xid[c] \in 0..MaxExchanges /\ xid[c] < MaxExchanges
  BY DEF TypeOK, Send
<1>2. xid[c] + 1 \in 1..MaxExchanges /\ xid[c] + 1 \in 0..MaxExchanges
  BY <1>1, Constants
<1>3. [kind |-> kind, client |-> c, ip |-> ip, xid |-> xid[c] + 1] \in Message
  BY <1>2 DEF Message
<1> QED
  BY <1>2, <1>3 DEF Send, TypeOK

LEMMA ClientKeeps ==
    ASSUME IInv, NEW c \in Client,
           \/ Solicit(c) \/ SendRequest(c) \/ LetGo(c)
           \/ \E kind \in {"RENEW", "REBIND"} : SendRenewal(c, kind)
           \/ \E kind \in {"RELEASE", "DECLINE"} : SendFarewell(c, kind)
    PROVE  IInv'
<1>0. TypeOK
  BY DEF IInv
<1>1. CASE Solicit(c)
  BY <1>0, <1>1, QuietKeeps DEF Solicit, Available, TypeOK
<1>2. CASE SendRequest(c)
  <2>1. advertised[c] \in Addr /\ Send(c, "REQUEST", advertised[c]) /\ "REQUEST" \in Kind
    BY <1>0, <1>2 DEF SendRequest, TypeOK, Kind
  <2>2. net' \subseteq Message /\ xid' \in [Client -> 0..MaxExchanges]
    BY <1>0, <2>1, SendIs
  <2> QED
    BY <1>0, <1>2, <2>2, QuietKeeps DEF SendRequest, Send, TypeOK, clients
<1>3. CASE LetGo(c)
  BY <1>0, <1>3, DropKeeps DEF LetGo, TypeOK
<1>4. ASSUME NEW kind \in {"RENEW", "REBIND"}, SendRenewal(c, kind) PROVE IInv'
  <2>1. held[c].ip \in Addr /\ Send(c, kind, held[c].ip) /\ kind \in Kind
    BY <1>0, <1>4 DEF SendRenewal, Holding, TypeOK, Belief, Kind
  <2>2. net' \subseteq Message /\ xid' \in [Client -> 0..MaxExchanges]
    BY <1>0, <2>1, SendIs
  <2> QED
    BY <1>0, <1>4, <2>2, QuietKeeps DEF SendRenewal, Send, TypeOK, clients
<1>5. ASSUME NEW kind \in {"RELEASE", "DECLINE"}, SendFarewell(c, kind) PROVE IInv'
  <2>1. held[c].ip \in Addr /\ Send(c, kind, held[c].ip) /\ kind \in Kind
    BY <1>0, <1>5 DEF SendFarewell, Holding, TypeOK, Belief, Kind
  <2>2. net' \subseteq Message /\ xid' \in [Client -> 0..MaxExchanges]
    BY <1>0, <2>1, SendIs
  <2> QED
    BY <1>0, <1>5, <2>2, DropKeeps DEF SendFarewell, Send, TypeOK
<1> QED
  BY <1>1, <1>2, <1>3, <1>4, <1>5

LEMMA RequestKeeps ==
    ASSUME IInv, NEW m \in net, HandleRequest(m), UNCHANGED <<now, up, net, xid>> PROVE IInv'
<1>1. CASE ~InPool(m.ip) /\ UNCHANGED <<leases, clients, evicted>>
  BY <1>1, QuietKeeps DEF IInv, TypeOK, clients
<1>2. CASE InPool(m.ip) /\ Record(m.client, m.ip) /\ (\E belief \in Granted : Hears(m, belief))
           /\ evicted' = (evicted \cup Owners(m.ip)) \ {m.client}
  <2>1. m.ip = Start
    BY <1>2 DEF InPool
  <2>2. \A d \in Client \ evicted' :
           d # m.client /\ leases[Start] # None => leases[Start].client # d
    BY <1>2, <2>1 DEF Owners
  <2> QED
    BY <1>2, <2>1, <2>2, GrantKeeps
<1> QED
  BY <1>1, <1>2 DEF HandleRequest

LEMMA RenewalKeeps ==
    ASSUME IInv, NEW m \in net, HandleRenew(m) \/ HandleRebind(m), UNCHANGED <<now, up, net, xid>>
    PROVE  IInv'
<1>0. TypeOK /\ m.ip \in Addr
  BY DEF IInv, TypeOK, Message
<1>1. CASE UNCHANGED <<leases, clients, evicted>>
  BY <1>1, QuietKeeps DEF IInv, TypeOK, clients
<1>2. CASE Hears(m, None) /\ UNCHANGED <<leases, evicted>>
  BY <1>2, RefusalKeeps
<1>3. CASE /\ InPool(m.ip) \/ Owners(m.ip) = {m.client}
           /\ Owners(m.ip) \in {{}, {m.client}}
           /\ Record(m.client, m.ip) /\ (\E belief \in Granted : Hears(m, belief))
           /\ evicted' = evicted \ {m.client}
  <2>1. m.ip = Start
    BY <1>0, <1>3 DEF InPool, Owners, IInv, OnlyFirst
  <2>2. leases[Start] # None => leases[Start].client = m.client
    BY <1>3, <2>1 DEF Owners
  <2> QED
    BY <1>3, <2>1, <2>2, GrantKeeps
<1> QED
  BY <1>1, <1>2, <1>3 DEF HandleRenew, HandleRebind

LEMMA ReleaseKeeps ==
    ASSUME IInv, NEW m \in net, HandleRelease(m), UNCHANGED <<now, up, net, xid>> PROVE IInv'
<1>0. TypeOK /\ m.ip \in Addr /\ m.client \in Client
  BY DEF IInv, TypeOK, Message
<1>1. CASE UNCHANGED <<leases, clients, evicted>>
  BY <1>1, QuietKeeps DEF IInv, TypeOK, clients
<1>2. CASE /\ Owners(m.ip) = {m.client}
           /\ leases' = [leases EXCEPT ![m.ip] = None]
           /\ evicted' = evicted \cup Evicts(m)
           /\ UNCHANGED clients
  <2>1. leases'[m.ip] = None /\ \A ip \in Addr \ {m.ip} : leases'[ip] = leases[ip]
    BY <1>0, <1>2 DEF TypeOK
  <2>2. leases[m.ip] # None /\ leases[m.ip].client = m.client
    BY <1>2 DEF Owners
  <2>3. Evicts(m) \subseteq Client
    BY <1>0 DEF Evicts
  <2>4. TypeOK'
    BY <1>0, <1>2, <2>1, <2>3 DEF TypeOK, clients
  <2>5. OnlyFirst' /\ Bounded'
    BY <1>2, <2>1 DEF IInv, OnlyFirst, Bounded, clients
  <2>6. ASSUME NEW c \in Client \ evicted', Holding(c)'
        PROVE  /\ leases'[held'[c].ip] # None
               /\ leases'[held'[c].ip].client = c
               /\ leases'[held'[c].ip].expires >= held'[c].until
    <3>1. Holding(c) /\ held'[c] = held[c] /\ c \notin evicted /\ c \notin Evicts(m)
      BY <1>2, <2>6 DEF Holding, clients
    <3>2. /\ leases[held[c].ip] # None
          /\ leases[held[c].ip].client = c
          /\ leases[held[c].ip].expires >= held[c].until
      BY <3>1 DEF IInv, HeldIsRecorded
    <3>3. held[c].ip # m.ip
      BY <2>2, <3>1, <3>2 DEF Evicts
    <3>4. held[c].ip \in Addr
      BY <1>0, <3>1 DEF TypeOK, Holding, Belief
    <3> QED
      BY <2>1, <3>1, <3>2, <3>3, <3>4
  <2> QED
    BY <2>4, <2>5, <2>6 DEF IInv, HeldIsRecorded
<1> QED
  BY <1>1, <1>2 DEF HandleRelease

\* Pruning takes only leases that have run out, and no client was told longer.
LEMMA PruneKeeps == ASSUME IInv, Prune PROVE IInv'
<1>0. TypeOK /\ now \in Nat
  BY Constants DEF IInv, TypeOK
<1>1. \A ip \in Addr : leases'[ip] = IF leases[ip] # None /\ IsExpired(leases[ip]) THEN None
                                     ELSE leases[ip]
  BY DEF Prune
<1>2. TypeOK'
  BY <1>0 DEF Prune, TypeOK, clients
<1>3. OnlyFirst' /\ Bounded'
  BY <1>1 DEF Prune, IInv, OnlyFirst, Bounded, clients
<1>4. ASSUME NEW c \in Client \ evicted, Holding(c)
      PROVE  leases'[held[c].ip] = leases[held[c].ip]
  <2>1. held[c] \in Belief /\ now <= held[c].until
    BY <1>0, <1>4 DEF Holding, TypeOK
  <2>2. held[c].ip \in Addr /\ held[c].until \in Nat
    BY <2>1 DEF Belief
  <2>3. leases[held[c].ip] # None /\ leases[held[c].ip].expires >= held[c].until
    BY <1>4 DEF IInv, HeldIsRecorded
  <2>4. leases[held[c].ip].expires \in Nat
    BY <1>0, <2>2, <2>3 DEF TypeOK, Lease
  <2>5. ~IsExpired(leases[held[c].ip])
    BY <1>0, <2>1, <2>2, <2>3, <2>4 DEF IsExpired
  <2> QED
    BY <1>1, <2>2, <2>5
<1>5. HeldIsRecorded'
  BY <1>4 DEF Prune, IInv, HeldIsRecorded, Holding, clients
<1> QED
  BY <1>2, <1>3, <1>5 DEF IInv

LEMMA TickKeeps == ASSUME IInv, Tick PROVE IInv'
<1>0. TypeOK /\ now \in Nat /\ now' = now + 1 /\ now' \in 0..MaxTime
  BY Constants DEF IInv, TypeOK, Tick
<1>1. \A ip \in Addr : leases[ip] # None => leases[ip].expires \in Nat
  BY <1>0 DEF TypeOK, Lease
<1>2. \A c \in Client : held[c] # None => held[c].until \in Nat
  BY <1>0 DEF TypeOK, Belief
<1>3. TypeOK'
  <2>1. \A ip \in Addr : leases[ip] # None => leases[ip].expires <= now' + LeaseTime
    BY <1>0, <1>1, Constants DEF TypeOK
  <2> QED
    BY <1>0, <2>1 DEF Tick, TypeOK, clients
<1>4. OnlyFirst' /\ Bounded'
  <2>1. \A c \in Client : held[c] # None => held[c].until <= now' + LeaseTime
    BY <1>0, <1>2, Constants DEF IInv, Bounded
  <2> QED
    BY <2>1 DEF Tick, IInv, OnlyFirst, Bounded, clients
<1>5. \A c \in Client : Holding(c)' => Holding(c)
  BY <1>0, <1>2 DEF Tick, Holding, clients
<1>6. HeldIsRecorded'
  BY <1>5 DEF Tick, IInv, HeldIsRecorded, clients
<1> QED
  BY <1>3, <1>4, <1>6 DEF IInv

LEMMA NextKeeps == IInv /\ [Next]_vars => IInv'
<1> SUFFICES ASSUME IInv, [Next]_vars PROVE IInv'
  OBVIOUS
<1>1. ASSUME NEW m \in net, HandlePacket(m) PROVE IInv'
  <2>1. CASE HandleDecline(m)
    BY <1>1, <2>1, QuietKeeps DEF HandlePacket, HandleDecline, IInv, TypeOK, clients
  <2> QED
    BY <1>1, <2>1, RequestKeeps, RenewalKeeps, ReleaseKeeps DEF HandlePacket
<1>2. CASE Stop
  BY <1>2, QuietKeeps DEF Stop, IInv, TypeOK, clients
<1>3. CASE UNCHANGED vars
  BY <1>3, QuietKeeps DEF vars, IInv, TypeOK, clients
<1> QED
  BY <1>1, <1>2, <1>3, ClientKeeps, PruneKeeps, TickKeeps DEF Next

-----------------------------------------------------------------------------
(* The theorems *)

\* The inductive invariant: types, the one address that is ever leased, bounded
\* beliefs, and the records of those who hold it.
THEOREM LeasesInvariant == Spec => []IInv
BY InitEstablishes, NextKeeps, PTL DEF Spec

\* Every handler of protocol.rs keeps the types, and no lease exceeds LeaseTime.
THEOREM LeaseTypes == Spec => []TypeOK
<1>1. IInv => TypeOK
  BY DEF IInv
<1> QED
  BY <1>1, LeasesInvariant, PTL

\* Whatever messages are lost, late or repeated, a client whose record was not
\* taken by a REQUEST of another client or by its own late RELEASE is on record
\* with its address for at least as long as it was told.
THEOREM HoldersAreRecorded == Spec => []HeldIsRecorded
<1>1. IInv => HeldIsRecorded
  BY DEF IInv
<1> QED
  BY <1>1, LeasesInvariant, PTL

\* No ADVERTISE offers an address whose holder is on record: find_available_address
\* passes over every record, also one that has just run out.
THEOREM OffersAreUnheld == Spec => AdvertisesOnlyUnheld
<1> DEFINE A == \A c, d \in Client :
                   /\ advertised'[c] # advertised[c] /\ advertised'[c] # None
                   /\ Holding(d) /\ d \notin evicted
                   => held[d].ip # advertised'[c]
<1>1. ASSUME IInv, [Next]_vars PROVE [A]_vars
  <2> SUFFICES ASSUME Next, NEW c \in Client, NEW d \in Client,
                      advertised'[c] # advertised[c], advertised'[c] # None,
                      Holding(d), d \notin evicted
               PROVE  held[d].ip # advertised'[c]
    BY <1>1
  <2>0. TypeOK
    BY <1>1 DEF IInv
  <2>1. ASSUME NEW e \in Client, advertised' = [advertised EXCEPT ![e] = None] PROVE FALSE
    BY <2>0, <2>1 DEF TypeOK
  <2>2. UNCHANGED advertised => FALSE
    OBVIOUS
  <2>3. ASSUME NEW m \in net, HandlePacket(m) PROVE FALSE
    <3>1. m.client \in Client
      BY <2>0 DEF TypeOK, Message
    <3>2. advertised' = [advertised EXCEPT ![m.client] = None] \/ UNCHANGED advertised
      BY <2>3 DEF HandlePacket, HandleRequest, HandleRenew, HandleRebind, HandleRelease,
                  HandleDecline, Hears, clients
    <3> QED
      BY <2>1, <2>2, <3>1, <3>2
  <2>4. ASSUME NEW e \in Client, Solicit(e) PROVE held[d].ip # advertised'[c]
    <3>1. PICK ip \in Available : advertised' = [advertised EXCEPT ![e] = ip]
      BY <2>4 DEF Solicit
    <3>2. c = e /\ advertised'[c] = ip
      BY <2>0, <3>1 DEF TypeOK
    <3>3. leases[ip] = None
      BY <3>1 DEF Available
    <3>4. leases[held[d].ip] # None
      BY <1>1 DEF IInv, HeldIsRecorded
    <3> QED
      BY <3>2, <3>3, <3>4
  <2>5. ASSUME NEW e \in Client, NEW kind, SendFarewell(e, kind) PROVE FALSE
    BY <2>1, <2>5 DEF SendFarewell
  <2>6. ASSUME NEW e \in Client,
               SendRequest(e) \/ LetGo(e) \/ (\E kind \in {"RENEW", "REBIND"} : SendRenewal(e, kind))
        PROVE  FALSE
    BY <2>2, <2>6 DEF SendRequest, LetGo, SendRenewal, clients
  <2>7. ASSUME Prune \/ Stop \/ Tick PROVE FALSE
    BY <2>2, <2>7 DEF Prune, Stop, Tick, clients
  <2> QED
    BY <2>3, <2>4, <2>5, <2>6, <2>7 DEF Next
<1> QED
  BY <1>1, LeasesInvariant, PTL DEF Spec, AdvertisesOnlyUnheld

-----------------------------------------------------------------------------
(* The neighbour cache: one refresh *)

ArpRecord == [ip : Ip, mac : Mac \cup {NoMac}, status : ArpStatus]

Live(r) == r.status # "Empty"

\* The kernel has confirmed the record in this refresh.
Sure(r) == r.status \in {"New", "Found"}

\* The first record of its address.
Leads(rs, i) == \A j \in DOMAIN rs : rs[j].ip = rs[i].ip => i <= j

LEMMA HasLeast ==
    ASSUME NEW S \in SUBSET Nat, S # {}
    PROVE  \E x \in S : \A y \in S : x <= y
<1> DEFINE Less == {p \in Nat \X Nat : p[1] < p[2]}
<1>1. IsWellFoundedOn(Less, Nat)
  BY NatLessThanWellFounded, Zenon DEF OpToRel
<1> HIDE DEF Less
<1>2. PICK x \in S : \A y \in S : ~(<<y, x>> \in Less)
  BY <1>1, WFMin
<1>3. ASSUME NEW y \in S
      PROVE  x <= y
  <2>1. ~(<<y, x>> \in Less) /\ x \in Nat /\ y \in Nat
    BY <1>2
  <2> QED
    BY <2>1 DEF Less
<1> QED
  BY <1>3

LEMMA StatusIs == {"Mark", "Found", "New", "Empty"} = ArpStatus /\ NoMac \notin Mac
  BY ArpAssumption DEF ArpStatus

LEMMA MarkedIs ==
    ASSUME NEW rs \in Seq(ArpRecord)
    PROVE  /\ Marked(rs) \in Seq(ArpRecord) /\ Len(Marked(rs)) = Len(rs)
           /\ \A i \in DOMAIN rs :
                 /\ Marked(rs)[i].ip = rs[i].ip /\ Marked(rs)[i].mac = rs[i].mac
                 /\ Live(Marked(rs)[i]) <=> Live(rs[i])
                 /\ ~Sure(Marked(rs)[i])
<1> DEFINE after(i) == IF rs[i].status = "Empty" THEN rs[i] ELSE [rs[i] EXCEPT !.status = "Mark"]
           ms == [i \in 1..Len(rs) |-> after(i)]
<1>1. Marked(rs) = ms
  BY DEF Marked
<1>2. ASSUME NEW i \in 1..Len(rs)
      PROVE  /\ after(i) \in ArpRecord /\ after(i).ip = rs[i].ip /\ after(i).mac = rs[i].mac
             /\ Live(after(i)) <=> Live(rs[i])
             /\ ~Sure(after(i))
  <2>1. rs[i] \in ArpRecord
    OBVIOUS
  <2> QED
    BY <2>1, StatusIs DEF ArpRecord, Live, Sure
<1> HIDE DEF after
<1>3. ms \in Seq(ArpRecord) /\ Len(ms) = Len(rs)
  BY <1>2
<1> QED
  BY <1>1, <1>2, <1>3

\* One pair of the kernel's table: its first record is sure then, what was sure
\* stays so, and nothing that was there goes.
LEMMA ConfirmedIs ==
    ASSUME NEW rs \in Seq(ArpRecord), NEW pair \in Ip \X Mac
    PROVE  LET out == Confirmed(rs, pair) IN
           /\ out \in Seq(ArpRecord) /\ Len(rs) <= Len(out)
           /\ \A i \in DOMAIN rs :
                 /\ out[i].ip = rs[i].ip
                 /\ Live(rs[i]) => Live(out[i])
                 /\ Sure(rs[i]) => Sure(out[i])
                 /\ Leads(rs, i) => Leads(out, i)
           /\ \A i \in DOMAIN out :
                 Sure(out[i]) => \/ i \in DOMAIN rs /\ out[i] = rs[i]
                                 \/ out[i].ip = pair[1] /\ out[i].mac = pair[2]
           /\ \E i \in DOMAIN out : out[i].ip = pair[1] /\ Sure(out[i]) /\ Leads(out, i)
<1> DEFINE ip == pair[1]
           mac == pair[2]
           mine == {i \in DOMAIN rs : rs[i].ip = ip}
           old == {i \in mine : rs[i].status # "New"}
           known(i) == rs[i].status # "Empty" /\ rs[i].mac = mac
           first(i) == i \in old /\ \A j \in old : i <= j
           out == Confirmed(rs, pair)
<1>0. ip \in Ip /\ mac \in Mac /\ DOMAIN rs = 1..Len(rs) /\ Len(rs) \in Nat
  OBVIOUS
<1>1. CASE mine = {}
  <2> DEFINE r == [ip |-> ip, mac |-> mac, status |-> "New"]
  <2>1. out = Append(rs, r)
    BY <1>1 DEF Confirmed
  <2>2. r \in ArpRecord /\ r.ip = ip /\ r.mac = mac /\ Sure(r)
    BY <1>0, StatusIs DEF ArpRecord, Sure
  <2> HIDE DEF r, out, ip, mac
  <2>3. /\ out \in Seq(ArpRecord) /\ Len(out) = Len(rs) + 1 /\ DOMAIN out = 1..(Len(rs) + 1)
        /\ \A i \in 1..Len(rs) : out[i] = rs[i]
        /\ out[Len(rs) + 1] = r
    BY <1>0, <2>1, <2>2
  <2>4. \A i \in 1..Len(rs) : rs[i].ip # ip
    BY <1>0, <1>1
  <2> HIDE DEF mine, old
  <2>5. ASSUME NEW i \in DOMAIN rs, Leads(rs, i)
        PROVE  Leads(out, i)
    BY <1>0, <2>3, <2>5 DEF Leads
  <2>6. Leads(out, Len(rs) + 1)
    BY <1>0, <2>2, <2>3, <2>4 DEF Leads
  <2>7. ASSUME NEW i \in DOMAIN out
        PROVE  (i \in DOMAIN rs /\ out[i] = rs[i]) \/ out[i] = r
    BY <1>0, <2>3
  <2>8. Len(rs) + 1 \in DOMAIN out /\ Len(rs) <= Len(out)
    BY <1>0, <2>3
  <2> QED
    BY <1>0, <2>2, <2>3, <2>5, <2>6, <2>7, <2>8 DEF out, ip, mac
<1>2. CASE mine # {}
  <2> DEFINE after(i) == IF first(i)
                         THEN [ip |-> ip, mac |-> mac, status |-> IF known(i) THEN "Found" ELSE "New"]
                         ELSE rs[i]
             latest == [i \in 1..Len(rs) |-> after(i)]
  <2>1. out = latest
    BY <1>0, <1>2 DEF Confirmed
  <2>2. ASSUME NEW i \in 1..Len(rs)
        PROVE  /\ after(i) \in ArpRecord /\ after(i).ip = rs[i].ip
               /\ Live(rs[i]) => Live(after(i))
               /\ Sure(rs[i]) => Sure(after(i))
               /\ after(i) = rs[i] \/ (after(i).ip = ip /\ after(i).mac = mac)
               /\ first(i) => Sure(after(i))
    <3>1. rs[i] \in ArpRecord
      OBVIOUS
    <3>2. CASE first(i)
      <4>1. rs[i].ip = ip
        BY <3>2
      <4>2. after(i) = [ip |-> ip, mac |-> mac, status |-> IF known(i) THEN "Found" ELSE "New"]
        BY <3>2
      <4> HIDE DEF first, after, ip, mac, known
      <4> QED
        BY <1>0, <4>1, <4>2, StatusIs DEF ArpRecord, Live, Sure
    <3>3. CASE ~first(i)
      <4>1. after(i) = rs[i]
        BY <3>3
      <4> HIDE DEF first, after, ip, mac, known
      <4> QED
        BY <3>1, <3>3, <4>1
    <3> QED
      BY <3>2, <3>3
  <2>3. PICK low \in mine : \A j \in mine : low <= j
    <3>1. mine \in SUBSET Nat
      BY <1>0
    <3> HIDE DEF mine
    <3> QED
      BY <1>2, <3>1, HasLeast
  <2>4. low \in 1..Len(rs) /\ rs[low].ip = ip /\ \A j \in 1..Len(rs) : rs[j].ip = ip => low <= j
    BY <1>0, <2>3
  <2>5. Sure(rs[low]) \/ first(low)
    <3>1. ~Sure(rs[low]) => low \in old
      BY <2>3, <2>4 DEF Sure
    <3> QED
      BY <2>3, <3>1
  <2> HIDE DEF after, first, mine, old, known, out
  <2>6. out \in Seq(ArpRecord) /\ Len(out) = Len(rs) /\ \A i \in 1..Len(rs) : out[i] = after(i)
    BY <2>1, <2>2
  <2> HIDE DEF latest, ip, mac
  <2>7. DOMAIN out = 1..Len(rs)
    BY <2>6
  <2>8. ASSUME NEW i \in 1..Len(rs), \A j \in 1..Len(rs) : rs[j].ip = rs[i].ip => i <= j
        PROVE  Leads(out, i)
    BY <2>2, <2>6, <2>7, <2>8 DEF Leads
  <2>9. \A i \in DOMAIN rs : Leads(rs, i) => Leads(out, i)
    BY <1>0, <2>8 DEF Leads
  <2>10. Leads(out, low) /\ out[low].ip = ip /\ Sure(out[low]) /\ low \in DOMAIN out
    BY <2>2, <2>4, <2>5, <2>6, <2>7, <2>8
  <2> QED
    BY <1>0, <2>2, <2>6, <2>7, <2>9, <2>10 DEF out, ip, mac
<1> QED
  BY <1>1, <1>2

Confirms(f, order, rs) ==
    f = [n \in 0..Len(order) |-> IF n = 0 THEN rs ELSE Confirmed(f[n - 1], order[n])]

\* The steps of the refresh exist, one after the other.
LEMMA ConfirmationsExist ==
    ASSUME NEW order, Len(order) \in Nat, NEW rs
    PROVE  \E f : Confirms(f, order, rs)
<1> DEFINE Steps(f, k) == f = [n \in 0..k |-> IF n = 0 THEN rs ELSE Confirmed(f[n - 1], order[n])]
           limit == Len(order)
           Missing == {k \in 0..limit : ~ \E f : Steps(f, k)}
<1>1. Missing = {}
  <2> SUFFICES ASSUME Missing # {} PROVE FALSE
    OBVIOUS
  <2>1. Missing \in SUBSET Nat
    OBVIOUS
  <2>2. PICK k \in Missing : \A other \in Missing : k <= other
    <3> HIDE DEF Missing
    <3> QED
      BY <2>1, HasLeast
  <2>3. k # 0
    <3>1. Steps([n \in 0..0 |-> rs], 0)
      OBVIOUS
    <3>2. ~ \E f : Steps(f, k)
      BY <2>2
    <3> HIDE DEF Steps
    <3> QED
      BY <3>1, <3>2
  <2>4. k - 1 \in 0..limit /\ k - 1 \notin Missing /\ k \in Nat
    <3>1. k \in 0..limit
      BY <2>2
    <3> HIDE DEF Missing
    <3> QED
      BY <2>2, <2>3, <3>1
  <2>5. PICK f : Steps(f, k - 1)
    BY <2>4
  <2> DEFINE g == [n \in 0..k |-> IF n = k THEN Confirmed(f[n - 1], order[n]) ELSE f[n]]
  <2>6. ASSUME NEW n \in 0..k
        PROVE  g[n] = IF n = 0 THEN rs ELSE Confirmed(g[n - 1], order[n])
    <3>1. CASE n = 0
      BY <2>3, <2>4, <2>5, <3>1
    <3>2. CASE n # 0
      <4>1. n - 1 \in 0..(k - 1) /\ n - 1 \in 0..k /\ n - 1 # k
        BY <2>4, <3>2
      <4>2. g[n - 1] = f[n - 1]
        BY <4>1
      <4>3. CASE n = k
        BY <3>2, <4>2, <4>3
      <4>4. CASE n # k
        <5>1. n \in 0..(k - 1)
          BY <2>4, <4>4
        <5>2. f[n] = Confirmed(f[n - 1], order[n])
          BY <2>5, <3>2, <5>1
        <5> QED
          BY <3>2, <4>2, <4>4, <5>2
      <4> QED
        BY <4>3, <4>4
    <3> QED
      BY <3>1, <3>2
  <2>7. DOMAIN g = 0..k /\ g = [n \in 0..k |-> g[n]]
    OBVIOUS
  <2> HIDE DEF g
  <2>8. Steps(g, k)
    BY <2>6, <2>7
  <2> QED
    BY <2>2, <2>8
<1>2. limit \in 0..limit
  OBVIOUS
<1> QED
  BY <1>1, <1>2 DEF Confirms

\* The records after the pairs in seen, when before was there at first.
Holds(before, out, seen) ==
    /\ out \in Seq(ArpRecord) /\ Len(before) <= Len(out)
    /\ \A i \in DOMAIN before : out[i].ip = before[i].ip /\ (Live(before[i]) => Live(out[i]))
    /\ \A i \in DOMAIN out : Sure(out[i]) => <<out[i].ip, out[i].mac>> \in seen
    /\ \A pair \in seen : \E i \in DOMAIN out :
          out[i].ip = pair[1] /\ Sure(out[i]) /\ Leads(out, i)

LEMMA HoldsMore ==
    ASSUME NEW before \in Seq(ArpRecord), NEW rs, NEW seen \in SUBSET (Ip \X Mac),
           Holds(before, rs, seen), NEW pair \in Ip \X Mac
    PROVE  Holds(before, Confirmed(rs, pair), seen \cup {pair})
<1> DEFINE out == Confirmed(rs, pair)
<1>1. /\ rs \in Seq(ArpRecord) /\ Len(before) <= Len(rs)
      /\ Len(before) \in Nat /\ Len(rs) \in Nat
      /\ DOMAIN before = 1..Len(before) /\ DOMAIN rs = 1..Len(rs)
  BY DEF Holds
<1>2. /\ out \in Seq(ArpRecord) /\ Len(rs) <= Len(out)
      /\ \A i \in DOMAIN rs :
            /\ out[i].ip = rs[i].ip
            /\ Live(rs[i]) => Live(out[i])
            /\ Sure(rs[i]) => Sure(out[i])
            /\ Leads(rs, i) => Leads(out, i)
      /\ \A i \in DOMAIN out :
            Sure(out[i]) => \/ i \in DOMAIN rs /\ out[i] = rs[i]
                            \/ out[i].ip = pair[1] /\ out[i].mac = pair[2]
      /\ \E i \in DOMAIN out : out[i].ip = pair[1] /\ Sure(out[i]) /\ Leads(out, i)
  BY <1>1, ConfirmedIs
<1> HIDE DEF out
<1>3. DOMAIN out = 1..Len(out) /\ Len(out) \in Nat
  BY <1>2
<1>4. DOMAIN before \subseteq DOMAIN rs /\ DOMAIN rs \subseteq DOMAIN out
  BY <1>1, <1>2, <1>3
<1>5. Len(before) <= Len(out)
  BY <1>1, <1>2, <1>3
<1>6. \A i \in DOMAIN before : out[i].ip = before[i].ip /\ (Live(before[i]) => Live(out[i]))
  BY <1>2, <1>4 DEF Holds
<1>7. pair = <<pair[1], pair[2]>>
  OBVIOUS
<1>8. ASSUME NEW i \in DOMAIN out, Sure(out[i])
      PROVE  <<out[i].ip, out[i].mac>> \in seen \cup {pair}
  <2>1. CASE i \in DOMAIN rs /\ out[i] = rs[i]
    BY <1>8, <2>1 DEF Holds
  <2>2. CASE out[i].ip = pair[1] /\ out[i].mac = pair[2]
    BY <1>7, <2>2
  <2> QED
    BY <1>2, <1>8, <2>1, <2>2
<1>9. ASSUME NEW p \in seen \cup {pair}
      PROVE  \E i \in DOMAIN out : out[i].ip = p[1] /\ Sure(out[i]) /\ Leads(out, i)
  <2>1. CASE p \in seen
    <3>1. PICK i \in DOMAIN rs : rs[i].ip = p[1] /\ Sure(rs[i]) /\ Leads(rs, i)
      BY <2>1 DEF Holds
    <3> QED
      BY <1>2, <1>4, <3>1
  <2>2. CASE p = pair
    BY <1>2, <2>2
  <2> QED
    BY <2>1, <2>2
<1> QED
  BY <1>2, <1>5, <1>6, <1>8, <1>9 DEF Holds, out

\* The whole table, in any order.
LEMMA ConfirmationIs ==
    ASSUME records \in Seq(ArpRecord), NEW order \in Seq(Ip \X Mac)
    PROVE  Holds(Marked(records), Confirmation(order), {order[n] : n \in 1..Len(order)})
<1> DEFINE before == Marked(records)
           confirmed == CHOOSE f : f = [n \in 0..Len(order) |->
                            IF n = 0 THEN before ELSE Confirmed(f[n - 1], order[n])]
           seen(n) == {order[k] : k \in 1..n}
           Wrong == {n \in 0..Len(order) : ~Holds(before, confirmed[n], seen(n))}
<1>0. Len(order) \in Nat /\ \A k \in 1..Len(order) : order[k] \in Ip \X Mac
  OBVIOUS
<1>1. confirmed = [n \in 0..Len(order) |->
                      IF n = 0 THEN before ELSE Confirmed(confirmed[n - 1], order[n])]
  <2> HIDE DEF before
  <2>1. \E f : Confirms(f, order, before)
    BY <1>0, ConfirmationsExist
  <2> QED
    BY <2>1 DEF Confirms
<1>2. Confirmation(order) = confirmed[Len(order)]
  BY DEF Confirmation
<1>3. /\ before \in Seq(ArpRecord) /\ Len(before) \in Nat
      /\ \A i \in DOMAIN before : ~Sure(before[i])
  BY MarkedIs
<1> HIDE DEF before, confirmed
<1>4. Holds(before, before, {})
  BY <1>3 DEF Holds
<1>5. Wrong = {}
  <2> SUFFICES ASSUME Wrong # {} PROVE FALSE
    OBVIOUS
  <2>1. PICK n \in Wrong : \A other \in Wrong : n <= other
    <3>1. Wrong \in SUBSET Nat
      OBVIOUS
    <3> HIDE DEF Wrong
    <3> QED
      BY <3>1, HasLeast
  <2>2. n \in 0..Len(order) /\ ~Holds(before, confirmed[n], seen(n))
    BY <2>1
  <2>3. n # 0
    <3>1. seen(0) = {} /\ confirmed[0] = before
      BY <1>0, <1>1
    <3> HIDE DEF seen
    <3> QED
      BY <1>4, <2>2, <3>1
  <2>4. n - 1 \in 0..Len(order) /\ n - 1 \notin Wrong /\ n \in 1..Len(order)
    <3> HIDE DEF Wrong
    <3> QED
      BY <1>0, <2>1, <2>2, <2>3
  <2>5. Holds(before, confirmed[n - 1], seen(n - 1))
    BY <2>4
  <2>6. seen(n) = seen(n - 1) \cup {order[n]} /\ seen(n - 1) \in SUBSET (Ip \X Mac)
    <3>1. 1..n = (1..(n - 1)) \cup {n} /\ 1..(n - 1) \subseteq 1..Len(order)
      BY <2>4
    <3> QED
      BY <1>0, <3>1
  <2>7. confirmed[n] = Confirmed(confirmed[n - 1], order[n]) /\ order[n] \in Ip \X Mac
    BY <1>0, <1>1, <2>3, <2>4
  <2> DEFINE rs == confirmed[n - 1]
             some == seen(n - 1)
             pair == order[n]
  <2>8. Holds(before, rs, some) /\ some \in SUBSET (Ip \X Mac) /\ pair \in Ip \X Mac
    BY <2>5, <2>6, <2>7
  <2>9. confirmed[n] = Confirmed(rs, pair) /\ seen(n) = some \cup {pair}
    BY <2>6, <2>7
  <2> HIDE DEF seen, rs, some, pair
  <2>10. Holds(before, Confirmed(rs, pair), some \cup {pair})
    BY <1>3, <2>8, HoldsMore
  <2> QED
    BY <2>2, <2>9, <2>10
<1>6. Len(order) \in 0..Len(order)
  BY <1>0
<1> QED
  BY <1>2, <1>5, <1>6 DEF before

\* The kernel's table is read whole.
LEMMA OrderIs ==
    ASSUME IsFiniteSet(kernel), kernel \subseteq Ip \X Mac, NEW order \in SetToSeqs(kernel)
    PROVE  order \in Seq(Ip \X Mac) /\ {order[n] : n \in 1..Len(order)} = kernel
<1> DEFINE D == 1..Cardinality(kernel)
<1>1. Cardinality(kernel) \in Nat /\ IsFiniteSet(D) /\ Cardinality(D) = Cardinality(kernel)
  BY FS_CardinalityType, FS_Interval
<1>2. order \in [D -> kernel] /\ \A i, j \in D : i # j => order[i] # order[j]
  BY DEF SetToSeqs
<1>3. order \in Injection(D, kernel)
  BY <1>2 DEF Injection, IsInjective
<1>4. order \in Surjection(D, kernel)
  BY <1>1, <1>3, FS_Injection
<1>5. \A pair \in kernel : \E n \in D : order[n] = pair
  BY <1>4 DEF Surjection
<1>6. order \in Seq(kernel) /\ Len(order) = Cardinality(kernel)
  BY <1>1, <1>2
<1> QED
  BY <1>2, <1>5, <1>6

Takes(r, marked) == (r.status = "Mark") = marked

Takings(f, rs, marked) ==
    f = [n \in 0..Len(rs) |->
           IF n = 0 THEN <<>>
           ELSE IF Takes(rs[n], marked) THEN Append(f[n - 1], rs[n]) ELSE f[n - 1]]

LEMMA TakingsExist ==
    ASSUME NEW rs, Len(rs) \in Nat, NEW marked
    PROVE  \E f : Takings(f, rs, marked)
<1> DEFINE next(s, n) == IF Takes(rs[n], marked) THEN Append(s, rs[n]) ELSE s
           Steps(f, k) == f = [n \in 0..k |-> IF n = 0 THEN <<>> ELSE next(f[n - 1], n)]
           limit == Len(rs)
           Missing == {k \in 0..limit : ~ \E f : Steps(f, k)}
<1>1. Missing = {}
  <2> HIDE DEF next
  <2> SUFFICES ASSUME Missing # {} PROVE FALSE
    OBVIOUS
  <2>1. Missing \in SUBSET Nat
    OBVIOUS
  <2>2. PICK k \in Missing : \A other \in Missing : k <= other
    <3> HIDE DEF Missing
    <3> QED
      BY <2>1, HasLeast
  <2>3. k # 0
    <3>1. Steps([n \in 0..0 |-> <<>>], 0)
      OBVIOUS
    <3>2. ~ \E f : Steps(f, k)
      BY <2>2
    <3> HIDE DEF Steps
    <3> QED
      BY <3>1, <3>2
  <2>4. k - 1 \in 0..limit /\ k - 1 \notin Missing /\ k \in Nat
    <3>1. k \in 0..limit
      BY <2>2
    <3> HIDE DEF Missing
    <3> QED
      BY <2>2, <2>3, <3>1
  <2>5. PICK f : Steps(f, k - 1)
    BY <2>4
  <2> DEFINE g == [n \in 0..k |-> IF n = k THEN next(f[n - 1], n) ELSE f[n]]
  <2>6. ASSUME NEW n \in 0..k
        PROVE  g[n] = IF n = 0 THEN <<>> ELSE next(g[n - 1], n)
    <3>1. CASE n = 0
      BY <2>3, <2>4, <2>5, <3>1
    <3>2. CASE n # 0
      <4>1. n - 1 \in 0..(k - 1) /\ n - 1 \in 0..k /\ n - 1 # k
        BY <2>4, <3>2
      <4>2. g[n - 1] = f[n - 1]
        BY <4>1
      <4>3. CASE n = k
        BY <3>2, <4>2, <4>3
      <4>4. CASE n # k
        <5>1. n \in 0..(k - 1)
          BY <2>4, <4>4
        <5>2. f[n] = next(f[n - 1], n)
          BY <2>5, <3>2, <5>1
        <5> QED
          BY <3>2, <4>2, <4>4, <5>2
      <4> QED
        BY <4>3, <4>4
    <3> QED
      BY <3>1, <3>2
  <2>7. DOMAIN g = 0..k /\ g = [n \in 0..k |-> g[n]]
    OBVIOUS
  <2> HIDE DEF g
  <2>8. Steps(g, k)
    BY <2>6, <2>7
  <2> QED
    BY <2>2, <2>8
<1>2. limit \in 0..limit
  OBVIOUS
<1> QED
  BY <1>1, <1>2 DEF Takings

\* The marked records among the first n, or the others, in their order.
Picked(rs, out, n, marked) ==
    /\ out \in Seq(ArpRecord)
    /\ \A j \in 1..Len(out) : \E i \in 1..n : out[j] = rs[i] /\ Takes(rs[i], marked)
    /\ \A i \in 1..n : Takes(rs[i], marked) =>
          \E j \in 1..Len(out) :
             out[j] = rs[i] /\ \A l \in 1..(j - 1) : \E k \in 1..(i - 1) : out[l] = rs[k]

LEMMA PickedMore ==
    ASSUME NEW rs \in Seq(ArpRecord), NEW n \in 1..Len(rs), NEW out, NEW marked,
           Picked(rs, out, n - 1, marked)
    PROVE  Picked(rs, IF Takes(rs[n], marked) THEN Append(out, rs[n]) ELSE out, n, marked)
<1>1. /\ out \in Seq(ArpRecord) /\ Len(out) \in Nat /\ rs[n] \in ArpRecord
      /\ n \in 1..n /\ 1..(n - 1) \subseteq 1..n /\ \A i \in 1..n : i = n \/ i \in 1..(n - 1)
  BY DEF Picked
<1>2. CASE ~Takes(rs[n], marked)
  BY <1>1, <1>2 DEF Picked
<1>3. CASE Takes(rs[n], marked)
  <2> DEFINE more == Append(out, rs[n])
  <2>1. /\ more \in Seq(ArpRecord) /\ Len(more) = Len(out) + 1 /\ more[Len(more)] = rs[n]
        /\ \A j \in 1..Len(out) : more[j] = out[j]
    BY <1>1
  <2> HIDE DEF more
  <2>2. \A j \in 1..Len(more) : j = Len(more) \/ j \in 1..Len(out)
    BY <1>1, <2>1
  <2>3. 1..Len(out) \subseteq 1..Len(more) /\ Len(more) \in 1..Len(more) /\ Len(more) - 1 = Len(out)
    BY <1>1, <2>1
  <2>4. ASSUME NEW j \in 1..Len(more)
        PROVE  \E i \in 1..n : more[j] = rs[i] /\ Takes(rs[i], marked)
    <3>1. CASE j = Len(more)
      BY <1>1, <1>3, <2>1, <3>1
    <3>2. CASE j \in 1..Len(out)
      <4>1. PICK i \in 1..(n - 1) : out[j] = rs[i] /\ Takes(rs[i], marked)
        BY <3>2 DEF Picked
      <4>2. i \in 1..n /\ more[j] = rs[i]
        BY <1>1, <2>1, <3>2, <4>1
      <4> QED
        BY <4>1, <4>2
    <3> QED
      BY <2>2, <3>1, <3>2
  <2>5. ASSUME NEW i \in 1..n, Takes(rs[i], marked)
        PROVE  \E j \in 1..Len(more) :
                  more[j] = rs[i] /\ \A l \in 1..(j - 1) : \E k \in 1..(i - 1) : more[l] = rs[k]
    <3>1. CASE i = n
      <4>1. \A l \in 1..Len(out) : \E k \in 1..(n - 1) : more[l] = rs[k]
        BY <2>1 DEF Picked
      <4> QED
        BY <2>1, <2>3, <3>1, <4>1
    <3>2. CASE i \in 1..(n - 1)
      <4>1. PICK j \in 1..Len(out) :
               out[j] = rs[i] /\ \A l \in 1..(j - 1) : \E k \in 1..(i - 1) : out[l] = rs[k]
        BY <2>5, <3>2 DEF Picked
      <4>2. \A l \in 1..(j - 1) : l \in 1..Len(out)
        BY <1>1
      <4>3. \A l \in 1..(j - 1) : more[l] = out[l]
        BY <2>1, <4>2
      <4> QED
        BY <2>1, <2>3, <4>1, <4>3
    <3> QED
      BY <1>1, <3>1, <3>2
  <2> QED
    BY <1>3, <2>1, <2>4, <2>5 DEF Picked, more
<1> QED
  BY <1>2, <1>3

LEMMA ThoseAre ==
    ASSUME NEW rs \in Seq(ArpRecord), NEW marked \in BOOLEAN
    PROVE  Picked(rs, Those(rs, marked), Len(rs), marked)
<1> DEFINE those == CHOOSE f : f = [n \in 0..Len(rs) |->
                       IF n = 0 THEN <<>>
                       ELSE IF (rs[n].status = "Mark") = marked THEN Append(f[n - 1], rs[n])
                                                                ELSE f[n - 1]]
           Wrong == {n \in 0..Len(rs) : ~Picked(rs, those[n], n, marked)}
<1>0. Len(rs) \in Nat
  OBVIOUS
<1>1. Takings(those, rs, marked)
  <2>1. \E f : Takings(f, rs, marked)
    BY <1>0, TakingsExist
  <2> QED
    BY <2>1 DEF Takings, Takes
<1>2. Those(rs, marked) = those[Len(rs)]
  BY DEF Those
<1> HIDE DEF those
<1>3. Wrong = {}
  <2> SUFFICES ASSUME Wrong # {} PROVE FALSE
    OBVIOUS
  <2>1. PICK n \in Wrong : \A other \in Wrong : n <= other
    <3>1. Wrong \in SUBSET Nat
      OBVIOUS
    <3> HIDE DEF Wrong
    <3> QED
      BY <3>1, HasLeast
  <2>2. n \in 0..Len(rs) /\ ~Picked(rs, those[n], n, marked)
    BY <2>1
  <2>3. n # 0
    <3>1. those[0] = <<>>
      BY <1>0, <1>1 DEF Takings
    <3>2. Picked(rs, <<>>, 0, marked)
      BY DEF Picked
    <3> QED
      BY <2>2, <3>1, <3>2
  <2>4. n - 1 \in 0..Len(rs) /\ n - 1 \notin Wrong /\ n \in 1..Len(rs)
    <3> HIDE DEF Wrong
    <3> QED
      BY <1>0, <2>1, <2>2, <2>3
  <2>5. Picked(rs, those[n - 1], n - 1, marked)
    BY <2>4
  <2>6. those[n] = IF Takes(rs[n], marked) THEN Append(those[n - 1], rs[n]) ELSE those[n - 1]
    BY <1>1, <2>2, <2>3 DEF Takings
  <2> QED
    BY <2>2, <2>4, <2>5, <2>6, PickedMore
<1>4. Len(rs) \in 0..Len(rs)
  BY <1>0
<1> QED
  BY <1>2, <1>3, <1>4

-----------------------------------------------------------------------------
(* The neighbour cache: the invariant *)

ArpTypes ==
    /\ kernel \subseteq Ip \X Mac /\ IsFiniteSet(kernel) /\ shown \subseteq Ip \X Mac
    /\ records \in Seq(ArpRecord) /\ pending_deletions \in Seq(ArpRecord)
    /\ \A i \in 1..Len(records) : Live(records[i]) => records[i].mac \in Mac
    /\ ~ArpScript => told = {}

\* Records that say what a table of the kernel's said: no other pairs, and the
\* first record of each of its addresses has a MAC address.
Mirrors(rs, table) ==
    /\ \A i \in 1..Len(rs) : Live(rs[i]) => <<rs[i].ip, rs[i].mac>> \in table
    /\ \A pair \in table : \E i \in 1..Len(rs) :
          /\ rs[i].ip = pair[1] /\ Live(rs[i])
          /\ \A j \in 1..Len(rs) : rs[j].ip = pair[1] => i <= j

ArpInv == ArpTypes /\ (fresh => Mirrors(records, shown)) /\ NeighboursAreRight

\* An address that someone still answers for, or whose departure waits.
Present(rs, pending, ip) ==
    \/ \E i \in 1..Len(rs) : rs[i].ip = ip /\ Live(rs[i])
    \/ \E i \in 1..Len(pending) : pending[i].ip = ip

LEMMA PresentIs ==
    ASSUME records \in Seq(ArpRecord), pending_deletions \in Seq(ArpRecord)
    PROVE  DeparturesAreAnnounced <=> \A ip \in told \ dropped : Present(records, pending_deletions, ip)
<1>1. DOMAIN records = 1..Len(records) /\ DOMAIN pending_deletions = 1..Len(pending_deletions)
  OBVIOUS
<1> QED
  BY <1>1 DEF DeparturesAreAnnounced, Present, Live

LEMMA AfterIs ==
    ASSUME records' \in Seq(ArpRecord), pending_deletions' \in Seq(ArpRecord)
    PROVE  DeparturesAreAnnounced'
              <=> \A ip \in told' \ dropped' : Present(records', pending_deletions', ip)
<1>1. DOMAIN records' = 1..Len(records') /\ DOMAIN pending_deletions' = 1..Len(pending_deletions')
  OBVIOUS
<1> QED
  BY <1>1 DEF DeparturesAreAnnounced, Present, Live

\* A refresh leaves the records that the kernel's table asks for, and no device
\* goes without being queued.
LEMMA RefreshedIs ==
    ASSUME ArpTypes, NEW result \in Refreshed
    PROVE  /\ result.records \in Seq(ArpRecord) /\ result.pending \in Seq(ArpRecord)
           /\ \A i \in 1..Len(result.records) :
                 Live(result.records[i]) => result.records[i].mac \in Mac
           /\ Mirrors(result.records, kernel)
           /\ \A ip : Present(records, pending_deletions, ip)
                         => Present(result.records, result.pending, ip)
<1>1. PICK order \in SetToSeqs(kernel) : result = Retained(Confirmation(order))
  BY DEF Refreshed
<1> DEFINE before == Marked(records)
           rs == Confirmation(order)
           kept == Those(rs, FALSE)
           gone == Those(rs, TRUE)
<1>2. Holds(before, rs, kernel)
  BY OrderIs, ConfirmationIs DEF ArpTypes
<1>3. /\ result.records = kept /\ result.pending = pending_deletions \o gone
  BY <1>1 DEF Retained
<1>4. /\ before \in Seq(ArpRecord) /\ Len(before) = Len(records)
      /\ \A i \in 1..Len(records) :
            before[i].ip = records[i].ip /\ (Live(before[i]) <=> Live(records[i]))
  <2>1. DOMAIN records = 1..Len(records)
    BY DEF ArpTypes
  <2> QED
    BY <2>1, MarkedIs DEF ArpTypes
<1> HIDE DEF before, rs
<1>5. rs \in Seq(ArpRecord) /\ Len(before) <= Len(rs) /\ Len(rs) \in Nat /\ Len(before) \in Nat
        /\ DOMAIN rs = 1..Len(rs) /\ DOMAIN before = 1..Len(before)
  BY <1>2, <1>4 DEF Holds
<1>6. Picked(rs, kept, Len(rs), FALSE) /\ Picked(rs, gone, Len(rs), TRUE)
  BY <1>5, ThoseAre
<1> HIDE DEF kept, gone
<1>7. kept \in Seq(ArpRecord) /\ gone \in Seq(ArpRecord) /\ pending_deletions \o gone \in Seq(ArpRecord)
  BY <1>6 DEF Picked, ArpTypes
<1>8. \A r \in ArpRecord : /\ Takes(r, FALSE) <=> r.status # "Mark"
                           /\ Takes(r, TRUE) <=> r.status = "Mark"
                           /\ Takes(r, FALSE) /\ Live(r) => Sure(r)
                           /\ Sure(r) => Takes(r, FALSE) /\ Live(r)
  BY StatusIs DEF Takes, Live, Sure, ArpRecord
<1>9. \A i \in 1..Len(rs) : rs[i] \in ArpRecord
  BY <1>5
<1>10. ASSUME NEW j \in 1..Len(kept), Live(kept[j])
       PROVE  <<kept[j].ip, kept[j].mac>> \in kernel
  <2>1. PICK i \in 1..Len(rs) : kept[j] = rs[i] /\ Takes(rs[i], FALSE)
    BY <1>6 DEF Picked
  <2>2. Sure(rs[i])
    BY <1>8, <1>9, <1>10, <2>1
  <2> QED
    BY <1>2, <1>5, <2>1, <2>2 DEF Holds
<1>11. ASSUME NEW j \in 1..Len(kept), Live(kept[j])
       PROVE  kept[j].mac \in Mac
  BY <1>10, <1>11 DEF ArpTypes
<1>12. ASSUME NEW pair \in kernel
       PROVE  \E j \in 1..Len(kept) :
                 /\ kept[j].ip = pair[1] /\ Live(kept[j])
                 /\ \A l \in 1..Len(kept) : kept[l].ip = pair[1] => j <= l
  <2>1. PICK i \in 1..Len(rs) : rs[i].ip = pair[1] /\ Sure(rs[i]) /\ Leads(rs, i)
    BY <1>2, <1>5 DEF Holds
  <2>2. PICK j \in 1..Len(kept) :
           kept[j] = rs[i] /\ \A l \in 1..(j - 1) : \E k \in 1..(i - 1) : kept[l] = rs[k]
    BY <1>6, <1>8, <1>9, <2>1 DEF Picked
  <2>3. Live(kept[j]) /\ kept[j].ip = pair[1]
    BY <1>8, <1>9, <2>1, <2>2
  <2>4. ASSUME NEW l \in 1..Len(kept), kept[l].ip = pair[1], ~(j <= l)
        PROVE  FALSE
    <3>1. l \in 1..(j - 1)
      BY <1>7, <2>4
    <3>2. PICK k \in 1..(i - 1) : kept[l] = rs[k]
      BY <2>2, <3>1
    <3>3. k \in 1..Len(rs) /\ ~(i <= k)
      BY <1>5
    <3> QED
      BY <1>5, <2>1, <2>4, <3>2, <3>3 DEF Leads
  <2> QED
    BY <2>3, <2>4
<1>13. ASSUME NEW ip, Present(records, pending_deletions, ip)
       PROVE  Present(kept, pending_deletions \o gone, ip)
  <2>1. /\ Len(pending_deletions \o gone) = Len(pending_deletions) + Len(gone)
        /\ Len(pending_deletions) \in Nat /\ Len(gone) \in Nat
        /\ \A i \in 1..Len(pending_deletions) :
              (pending_deletions \o gone)[i] = pending_deletions[i]
        /\ \A i \in 1..Len(gone) :
              (pending_deletions \o gone)[Len(pending_deletions) + i] = gone[i]
    BY <1>7 DEF ArpTypes
  <2>2. CASE \E i \in 1..Len(pending_deletions) : pending_deletions[i].ip = ip
    <3>1. \A i \in 1..Len(pending_deletions) : i \in 1..Len(pending_deletions \o gone)
      BY <2>1
    <3> QED
      BY <2>1, <2>2, <3>1 DEF Present
  <2>3. ASSUME NEW i \in 1..Len(records), records[i].ip = ip, Live(records[i])
        PROVE  Present(kept, pending_deletions \o gone, ip)
    <3>1. i \in 1..Len(rs) /\ i \in DOMAIN before
      BY <1>4, <1>5
    <3>2. rs[i].ip = ip /\ Live(rs[i])
      BY <1>2, <1>4, <2>3, <3>1 DEF Holds
    <3>3. CASE Takes(rs[i], FALSE)
      <4>1. PICK j \in 1..Len(kept) : kept[j] = rs[i]
        BY <1>6, <3>1, <3>3 DEF Picked
      <4> QED
        BY <3>2, <4>1 DEF Present
    <3>4. CASE Takes(rs[i], TRUE)
      <4>1. PICK j \in 1..Len(gone) : gone[j] = rs[i]
        BY <1>6, <3>1, <3>4 DEF Picked
      <4>2. Len(pending_deletions) + j \in 1..Len(pending_deletions \o gone)
        BY <2>1
      <4>3. (pending_deletions \o gone)[Len(pending_deletions) + j].ip = ip
        BY <2>1, <3>2, <4>1
      <4> QED
        BY <4>2, <4>3 DEF Present
    <3> QED
      BY <1>8, <1>9, <3>1, <3>3, <3>4
  <2> QED
    BY <1>13, <2>2, <2>3 DEF Present
<1> QED
  BY <1>3, <1>7, <1>10, <1>11, <1>12, <1>13 DEF Mirrors

\* The answer is the table's.
Says(a, table) ==
    a # <<>> => IF a.mac = NoMac THEN \A pair \in table : pair[1] # a.ip
                ELSE <<a.ip, a.mac>> \in table

\* A step from records rs that still says what the table says.
Follows(rs, table) ==
    /\ records' \in Seq(ArpRecord) /\ Mirrors(records', table)
    /\ \A i \in 1..Len(records') : Live(records'[i]) => records'[i].mac \in Mac
    /\ \A pending, ip : Present(rs, pending, ip) => Present(records', pending, ip)
    /\ Says(answer', table)

\* A search answers what the table says, and leaves records that say it too.
LEMMA SearchIs ==
    ASSUME NEW rs \in Seq(ArpRecord), NEW table \in SUBSET (Ip \X Mac), Mirrors(rs, table),
           \A i \in 1..Len(rs) : Live(rs[i]) => rs[i].mac \in Mac,
           NEW ip \in Ip, NEW lazy \in BOOLEAN, Search(rs, ip, lazy)
    PROVE  Follows(rs, table)
<1>0. DOMAIN rs = 1..Len(rs) /\ Len(rs) \in Nat
  OBVIOUS
<1>1. ASSUME NEW i \in Hits(rs, ip, lazy), \A j \in Hits(rs, ip, lazy) : i <= j,
             answer' = [ip |-> ip, mac |-> IF rs[i].status = "Empty" THEN NoMac ELSE rs[i].mac],
             records' = rs
      PROVE  Follows(rs, table)
  <2>1. i \in 1..Len(rs) /\ rs[i].ip = ip /\ (lazy \/ Live(rs[i]))
    BY <1>0 DEF Hits, Live
  <2>2. ASSUME Live(rs[i]) PROVE Says(answer', table)
    <3>1. answer'.ip = ip /\ answer'.mac = rs[i].mac
      BY <1>1, <2>2 DEF Live
    <3>2. <<rs[i].ip, rs[i].mac>> \in table /\ rs[i].mac # NoMac
      BY <2>1, <2>2, StatusIs DEF Mirrors
    <3> QED
      BY <2>1, <3>1, <3>2 DEF Says
  <2>3. ASSUME ~Live(rs[i]) PROVE Says(answer', table)
    <3>1. answer'.ip = ip /\ answer'.mac = NoMac /\ lazy
      BY <1>1, <2>1, <2>3 DEF Live
    <3>2. ASSUME NEW pair \in table, pair[1] = ip PROVE FALSE
      <4>1. PICK k \in 1..Len(rs) :
               /\ rs[k].ip = ip /\ Live(rs[k])
               /\ \A j \in 1..Len(rs) : rs[j].ip = ip => k <= j
        BY <3>2 DEF Mirrors
      <4>2. k \in Hits(rs, ip, lazy)
        BY <1>0, <3>1, <4>1 DEF Hits
      <4>3. k <= i /\ i <= k
        BY <1>1, <2>1, <4>1, <4>2
      <4>4. k = i
        BY <2>1, <4>3
      <4> QED
        BY <2>3, <4>1, <4>4
    <3> QED
      BY <3>1, <3>2 DEF Says
  <2>4. Says(answer', table)
    BY <2>2, <2>3
  <2> QED
    BY <1>1, <2>4 DEF Follows
<1>2. CASE /\ Hits(rs, ip, lazy) = {} /\ answer' = [ip |-> ip, mac |-> NoMac]
           /\ records' = Append(rs, [ip |-> ip, mac |-> NoMac, status |-> "Empty"])
  <2> DEFINE r == [ip |-> ip, mac |-> NoMac, status |-> "Empty"]
  <2>1. r \in ArpRecord /\ ~Live(r) /\ r.ip = ip
    BY StatusIs DEF ArpRecord, Live
  <2>2. records' = Append(rs, r)
    BY <1>2
  <2> HIDE DEF r
  <2>3. /\ records' \in Seq(ArpRecord) /\ Len(records') = Len(rs) + 1
        /\ \A i \in 1..Len(rs) : records'[i] = rs[i]
        /\ records'[Len(rs) + 1] = r
    BY <2>1, <2>2
  <2>4. \A i \in 1..Len(records') : i \in 1..Len(rs) \/ i = Len(rs) + 1
    BY <1>0, <2>3
  <2>5. \A i \in 1..Len(rs) : i \in 1..Len(records') /\ i <= Len(rs) + 1
    BY <1>0, <2>3
  <2>6. \A i \in 1..Len(records') : Live(records'[i]) => i \in 1..Len(rs) /\ records'[i] = rs[i]
    BY <2>1, <2>3, <2>4
  <2>7. \A pair \in table : pair[1] # ip
    <3>1. \A i \in 1..Len(rs) : ~(rs[i].ip = ip /\ Live(rs[i]))
      BY <1>0, <1>2 DEF Hits, Live
    <3> QED
      BY <3>1 DEF Mirrors
  <2>8. \A i \in 1..Len(records') : Live(records'[i]) => records'[i].mac \in Mac
    BY <2>6
  <2>9. ASSUME NEW pair \in table
        PROVE  \E i \in 1..Len(records') :
                  /\ records'[i].ip = pair[1] /\ Live(records'[i])
                  /\ \A j \in 1..Len(records') : records'[j].ip = pair[1] => i <= j
    <3>1. PICK i \in 1..Len(rs) :
             /\ rs[i].ip = pair[1] /\ Live(rs[i])
             /\ \A j \in 1..Len(rs) : rs[j].ip = pair[1] => i <= j
      BY DEF Mirrors
    <3>2. \A j \in 1..Len(records') : records'[j].ip = pair[1] => i <= j
      BY <2>3, <2>4, <2>5, <3>1
    <3> QED
      BY <2>3, <2>5, <3>1, <3>2
  <2>10. Mirrors(records', table)
    <3>1. \A i \in 1..Len(records') : Live(records'[i]) => <<records'[i].ip, records'[i].mac>> \in table
      BY <2>6 DEF Mirrors
    <3> QED
      BY <2>9, <3>1 DEF Mirrors
  <2>11. \A pending, other : Present(rs, pending, other) => Present(records', pending, other)
    BY <2>3, <2>5 DEF Present
  <2> QED
    BY <1>2, <2>3, <2>7, <2>8, <2>10, <2>11 DEF Follows, Says
<1>3. \/ \E i \in Hits(rs, ip, lazy) :
            /\ \A j \in Hits(rs, ip, lazy) : i <= j
            /\ answer' = [ip |-> ip, mac |-> IF rs[i].status = "Empty" THEN NoMac ELSE rs[i].mac]
            /\ records' = rs
      \/ /\ Hits(rs, ip, lazy) = {} /\ answer' = [ip |-> ip, mac |-> NoMac]
         /\ records' = Append(rs, [ip |-> ip, mac |-> NoMac, status |-> "Empty"])
  BY DEF Search
<1> QED
  BY <1>1, <1>2, <1>3

-----------------------------------------------------------------------------
(* The neighbour cache: the steps *)

LEMMA ArpStarts == ArpInit => ArpInv
<1> SUFFICES ASSUME ArpInit PROVE ArpInv
  OBVIOUS
<1>1. IsFiniteSet({})
  BY FS_EmptySet
<1>2. ArpTypes
  BY <1>1 DEF ArpInit, ArpTypes
<1> QED
  BY <1>2 DEF ArpInit, ArpInv, NeighboursAreRight, AnswersAreShown, DeparturesAreAnnounced

\* A refresh and a search, either of which may be missing.
LEMMA RefreshKeeps ==
    ASSUME ArpInv, NEW result \in Refreshed, Refresh(result),
           \/ records' = result.records /\ answer' = <<>>
           \/ \E ip \in Ip, lazy \in BOOLEAN : Search(result.records, ip, lazy)
    PROVE  ArpInv'
<1>1. /\ pending_deletions' = result.pending /\ shown' = kernel
      /\ kernel' = kernel /\ told' = told /\ dropped' = dropped
  BY DEF Refresh
<1>2. /\ result.records \in Seq(ArpRecord) /\ result.pending \in Seq(ArpRecord)
      /\ \A i \in 1..Len(result.records) :
            Live(result.records[i]) => result.records[i].mac \in Mac
      /\ Mirrors(result.records, kernel)
      /\ \A ip : Present(records, pending_deletions, ip)
                    => Present(result.records, result.pending, ip)
  BY RefreshedIs DEF ArpInv
<1>3. kernel \in SUBSET (Ip \X Mac)
  BY DEF ArpInv, ArpTypes
<1>4. Follows(result.records, kernel)
  <2>1. CASE records' = result.records /\ answer' = <<>>
    BY <1>2, <2>1 DEF Follows, Says
  <2>2. ASSUME NEW ip \in Ip, NEW lazy \in BOOLEAN, Search(result.records, ip, lazy)
        PROVE  Follows(result.records, kernel)
    BY <1>2, <1>3, <2>2, SearchIs
  <2> QED
    BY <2>1, <2>2
<1>5. ArpTypes'
  BY <1>1, <1>2, <1>4 DEF ArpInv, ArpTypes, Follows
<1>6. DeparturesAreAnnounced'
  <2>1. \A ip \in told \ dropped : Present(records', pending_deletions', ip)
    BY <1>1, <1>2, <1>4, PresentIs DEF ArpInv, ArpTypes, NeighboursAreRight, Follows
  <2> QED
    BY <1>1, <1>5, <2>1, AfterIs DEF ArpTypes
<1> QED
  BY <1>1, <1>4, <1>5, <1>6 DEF ArpInv, NeighboursAreRight, AnswersAreShown, Follows, Says

\* The kernel cannot be read.
LEMMA RefreshFailsKeeps == ASSUME ArpInv, RefreshFails PROVE ArpInv'
<1> DEFINE rs == Marked(records)
<1>1. /\ records' = rs /\ answer' = <<>>
      /\ UNCHANGED <<kernel, pending_deletions, fresh, shown, told, dropped>>
  BY DEF RefreshFails
<1>2. /\ rs \in Seq(ArpRecord) /\ Len(rs) = Len(records) /\ DOMAIN records = 1..Len(records)
      /\ \A i \in 1..Len(records) :
            /\ rs[i].ip = records[i].ip /\ rs[i].mac = records[i].mac
            /\ Live(rs[i]) <=> Live(records[i])
  BY MarkedIs DEF ArpInv, ArpTypes
<1> HIDE DEF rs
<1>3. ArpTypes'
  BY <1>1, <1>2 DEF ArpInv, ArpTypes
<1>4. fresh' => Mirrors(records', shown')
  BY <1>1, <1>2 DEF ArpInv, Mirrors
<1>5. \A ip : Present(records, pending_deletions, ip) => Present(records', pending_deletions', ip)
  BY <1>1, <1>2 DEF Present
<1>6. DeparturesAreAnnounced'
  BY <1>1, <1>3, <1>5, PresentIs, AfterIs DEF ArpInv, ArpTypes, NeighboursAreRight
<1> QED
  BY <1>1, <1>3, <1>4, <1>6 DEF ArpInv, NeighboursAreRight, AnswersAreShown

\* A lookup within the 90 seconds.
LEMMA SearchKeeps ==
    ASSUME ArpInv, fresh, NEW ip \in Ip, NEW lazy \in BOOLEAN, Search(records, ip, lazy),
           UNCHANGED <<kernel, pending_deletions, fresh, shown, told, dropped>>
    PROVE  ArpInv'
<1>1. Follows(records, shown)
  <2>1. shown \in SUBSET (Ip \X Mac) /\ records \in Seq(ArpRecord) /\ Mirrors(records, shown)
          /\ \A i \in 1..Len(records) : Live(records[i]) => records[i].mac \in Mac
    BY DEF ArpInv, ArpTypes
  <2> QED
    BY <2>1, SearchIs
<1>2. ArpTypes'
  BY <1>1 DEF Follows, ArpInv, ArpTypes
<1>3. DeparturesAreAnnounced'
  BY <1>1, <1>2, PresentIs, AfterIs DEF Follows, ArpInv, ArpTypes, NeighboursAreRight
<1> QED
  BY <1>1, <1>2, <1>3 DEF Follows, Says, ArpInv, NeighboursAreRight, AnswersAreShown

LEMMA DepartureKeeps ==
    ASSUME ArpInv, NEW queued \in BOOLEAN, AnnounceDeparture(queued)
    PROVE  ArpInv'
<1> DEFINE last == Last(pending_deletions)
           front == Front(pending_deletions)
<1>1. /\ pending_deletions # <<>> /\ pending_deletions' = front
      /\ told' = (IF ArpScript /\ queued THEN told \ {last.ip} ELSE told)
      /\ dropped' = (IF ArpScript /\ ~queued THEN dropped \cup {last.ip} ELSE dropped)
      /\ answer' = <<>> /\ UNCHANGED <<kernel, records, fresh, shown>>
  BY DEF AnnounceDeparture
<1>2. /\ pending_deletions \in Seq(ArpRecord) /\ Len(pending_deletions) \in Nat
      /\ Len(pending_deletions) # 0
  BY <1>1 DEF ArpInv, ArpTypes
<1>3. /\ front \in Seq(ArpRecord) /\ Len(front) = Len(pending_deletions) - 1
      /\ \A i \in 1..Len(front) : front[i] = pending_deletions[i]
      /\ last = pending_deletions[Len(pending_deletions)]
  <2>1. front = SubSeq(pending_deletions, 1, Len(pending_deletions) - 1)
          /\ last = pending_deletions[Len(pending_deletions)]
    BY DEF Front, Last
  <2> HIDE DEF front, last
  <2>2. ASSUME NEW s \in Seq(ArpRecord), NEW n \in Nat, n <= Len(s)
        PROVE  /\ SubSeq(s, 1, n) \in Seq(ArpRecord) /\ Len(SubSeq(s, 1, n)) = n
               /\ \A i \in 1..n : SubSeq(s, 1, n)[i] = s[i]
    BY <2>2
  <2>3. Len(pending_deletions) - 1 \in Nat /\ Len(pending_deletions) - 1 <= Len(pending_deletions)
    BY <1>2
  <2> DEFINE n == Len(pending_deletions) - 1
  <2> HIDE DEF n
  <2>4. n \in Nat /\ n <= Len(pending_deletions) /\ front = SubSeq(pending_deletions, 1, n)
    BY <2>1, <2>3 DEF n
  <2>5. /\ front \in Seq(ArpRecord) /\ Len(front) = n
        /\ \A i \in 1..n : front[i] = pending_deletions[i]
    BY <1>2, <2>2, <2>4
  <2> QED
    BY <2>1, <2>5 DEF n
<1> HIDE DEF front, last
<1>4. ArpTypes'
  BY <1>1, <1>3 DEF ArpInv, ArpTypes
<1>5. ASSUME NEW ip \in told' \ dropped'
      PROVE  Present(records', pending_deletions', ip)
  <2>1. ArpScript /\ ip \in told \ dropped /\ ip # last.ip
    BY <1>1, <1>5 DEF ArpInv, ArpTypes
  <2>2. Present(records, pending_deletions, ip)
    BY <2>1, PresentIs DEF ArpInv, ArpTypes, NeighboursAreRight
  <2>3. \A i \in 1..Len(pending_deletions) : i \in 1..Len(front) \/ i = Len(pending_deletions)
    BY <1>2, <1>3
  <2> QED
    BY <1>1, <1>3, <2>1, <2>2, <2>3 DEF Present
<1>6. DeparturesAreAnnounced'
  BY <1>4, <1>5, AfterIs DEF ArpTypes
<1> QED
  BY <1>1, <1>4, <1>6 DEF ArpInv, NeighboursAreRight, AnswersAreShown

LEMMA ArrivalKeeps ==
    ASSUME ArpInv, NEW queued \in BOOLEAN, AnnounceArrival(queued)
    PROVE  ArpInv'
<1>1. PICK i \in DOMAIN records :
         /\ records[i].status = "New"
         /\ records' = [records EXCEPT ![i].status = "Found"]
         /\ told' = IF ArpScript THEN told \cup {records[i].ip} ELSE told
         /\ dropped' = IF ArpScript THEN dropped \ {records[i].ip} ELSE dropped
  BY DEF AnnounceArrival
<1>2. answer' = <<>> /\ UNCHANGED <<kernel, pending_deletions, fresh, shown>>
  BY DEF AnnounceArrival
<1> DEFINE r == [records[i] EXCEPT !.status = "Found"]
<1>3. records \in Seq(ArpRecord) /\ DOMAIN records = 1..Len(records) /\ records[i] \in ArpRecord
  BY DEF ArpInv, ArpTypes
<1>4. /\ r \in ArpRecord /\ r.ip = records[i].ip /\ r.mac = records[i].mac /\ Live(r)
      /\ Live(records[i])
  BY <1>1, <1>3, StatusIs DEF ArpRecord, Live
<1>5. records' = [records EXCEPT ![i] = r]
  BY <1>1
<1> HIDE DEF r
<1>6. /\ records' \in Seq(ArpRecord) /\ Len(records') = Len(records)
      /\ \A j \in 1..Len(records) : records'[j] = IF j = i THEN r ELSE records[j]
  BY <1>3, <1>4, <1>5
<1>7. \A j \in 1..Len(records) :
         /\ records'[j].ip = records[j].ip /\ records'[j].mac = records[j].mac
         /\ Live(records'[j]) <=> Live(records[j])
  BY <1>4, <1>6
<1>8. ArpTypes'
  BY <1>1, <1>2, <1>6, <1>7 DEF ArpInv, ArpTypes
<1>9. fresh' => Mirrors(records', shown')
  BY <1>2, <1>6, <1>7 DEF ArpInv, Mirrors
<1>10. ASSUME NEW ip \in told' \ dropped'
       PROVE  Present(records', pending_deletions', ip)
  <2>1. CASE ip = records[i].ip
    BY <1>3, <1>4, <1>6, <2>1 DEF Present
  <2>2. CASE ip # records[i].ip
    <3>1. Present(records, pending_deletions, ip)
      BY <1>1, <1>10, <2>2, PresentIs DEF ArpInv, ArpTypes, NeighboursAreRight
    <3> QED
      BY <1>2, <1>6, <1>7, <3>1 DEF Present
  <2> QED
    BY <2>1, <2>2
<1>11. DeparturesAreAnnounced'
  BY <1>8, <1>10, AfterIs DEF ArpTypes
<1> QED
  BY <1>2, <1>8, <1>9, <1>11 DEF ArpInv, NeighboursAreRight, AnswersAreShown

LEMMA ArpStep == ASSUME ArpInv, [ArpNext]_arp PROVE ArpInv'
<1>1. ASSUME NEW ip \in Ip, NEW lazy \in BOOLEAN, find_mac(ip, lazy) PROVE ArpInv'
  <2>1. CASE fresh /\ Search(records, ip, lazy)
             /\ UNCHANGED <<kernel, pending_deletions, fresh, shown, told, dropped>>
    BY <2>1, SearchKeeps
  <2>2. CASE RefreshFails
    BY <2>2, RefreshFailsKeeps
  <2>3. ASSUME NEW result \in Refreshed, Refresh(result), Search(result.records, ip, lazy)
        PROVE  ArpInv'
    BY <2>3, RefreshKeeps
  <2> QED
    BY <1>1, <2>1, <2>2, <2>3 DEF find_mac
<1>2. CASE update_from_kernel
  BY <1>2, RefreshFailsKeeps, RefreshKeeps DEF update_from_kernel
<1>3. CASE notify_changes
  BY <1>3, DepartureKeeps, ArrivalKeeps DEF notify_changes
<1>4. ASSUME NEW pair \in Ip \X Mac, KernelLearns(pair) PROVE ArpInv'
  <2>1. kernel' \subseteq Ip \X Mac /\ IsFiniteSet(kernel')
    BY <1>4, FS_AddElement, FS_RemoveElement DEF KernelLearns, ArpInv, ArpTypes
  <2> QED
    BY <1>4, <2>1 DEF KernelLearns, ArpInv, ArpTypes, NeighboursAreRight, AnswersAreShown,
       DeparturesAreAnnounced
<1>5. CASE GrowOld
  BY <1>5 DEF GrowOld, ArpInv, ArpTypes, NeighboursAreRight, AnswersAreShown,
     DeparturesAreAnnounced
<1>6. CASE UNCHANGED arp
  BY <1>6 DEF arp, ArpInv, ArpTypes, NeighboursAreRight, AnswersAreShown, DeparturesAreAnnounced
<1> QED
  BY <1>1, <1>2, <1>3, <1>4, <1>5, <1>6 DEF ArpNext

\* The cache is well formed, a fresh one mirrors the kernel's table, and the script
\* is not left with devices that went.
THEOREM NeighbourInvariant == ArpSpec => []ArpInv
  BY ArpStarts, ArpStep, PTL DEF ArpSpec

\* find_mac answers what the kernel said at the last refresh, and notify_changes
\* forgets no departure that could be queued, for any order in which the kernel's
\* table is read and any number of Empty records.
THEOREM NeighboursStayRight == ArpSpec => []NeighboursAreRight
  BY NeighbourInvariant, PTL DEF ArpInv

=============================================================================
