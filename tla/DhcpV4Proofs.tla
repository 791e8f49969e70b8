---------------------------- MODULE DhcpV4Proofs ----------------------------
(***************************************************************************)
(* Proofs about DHCPv4: for every set of clients, addresses and names,     *)
(* every range, reservation and lease time, no address has two holders.    *)
(* And about the lock around the lease table (LeaseLock): the tasks never  *)
(* wait on each other's guards unless the DHCPv4 task answers DISCOVER.    *)
(***************************************************************************)
EXTENDS DhcpV4, LeaseLock, TLAPS

TheoremsOf == INSTANCE SequenceTheorems

-----------------------------------------------------------------------------
(* The inductive invariant *)

\* What the first call of a handler saw still holds at the second: pruning may
\* have removed the record, nobody has made another.
JobStillValid ==
    job # None =>
       /\ job.kind \in {"allocate", "renew"} => ~Foreign(job.ip, job.mac)
       /\ job.kind = "record" => leases[job.ip] = None

\* No client believes in more than its lease time from now.
BeliefIsBounded == \A m \in Mac : held[m] # None => held[m].until <= now + LeaseTime[m]

IInv == TypeOK /\ JobStillValid /\ BeliefIsBounded /\ HeldIsRecorded /\ IndexPointsHome

-----------------------------------------------------------------------------
(* The lease table *)

\* Storing a lease (MemoryLeaseRepository::insert) keeps the index sound when
\* the address was free or the client's own.
LEMMA InsertKeepsIndex ==
    ASSUME TypeOK, IndexPointsHome, NEW ip \in Ip, NEW lease \in Lease,
           ~Foreign(ip, lease.mac), Insert(ip, lease)
    PROVE  IndexPointsHome'
<1>1. lease.mac \in Mac /\ lease # None
  BY NoneAssumption DEF Lease
<1>2. ASSUME NEW m \in Mac, mac_index'[m] # None
      PROVE  leases'[mac_index'[m]] # None /\ leases'[mac_index'[m]].mac = m
  <2>1. CASE m = lease.mac
    BY <1>1, <2>1 DEF TypeOK, Insert
  <2>2. CASE m # lease.mac
    BY <1>1, <1>2, <2>2 DEF TypeOK, Insert, Foreign, IndexPointsHome
  <2> QED
    BY <2>1, <2>2
<1> QED
  BY <1>2 DEF IndexPointsHome

\* It keeps the types, when the lease ends in time.
LEMMA InsertTypes ==
    ASSUME TypeOK, NEW ip \in Ip, NEW lease \in Lease,
           lease.expires <= now + MaxLease, Insert(ip, lease)
    PROVE  /\ leases' \in [Ip -> Lease \cup {None}]
           /\ \A i \in Ip : leases'[i] # None => leases'[i].expires <= now + MaxLease
           /\ mac_index' \in [Mac -> Ip \cup {None}]
<1>1. lease.mac \in Mac
  BY DEF Lease
<1> QED
  BY <1>1 DEF TypeOK, Insert

\* The record `table' has of what client m believes.
Covers(table, m, b) ==
    /\ table[b.ip] # None
    /\ table[b.ip].mac = m
    /\ table[b.ip].expires >= b.until

\* It takes nothing from what other clients, or the same client, were told.
LEMMA InsertCovers ==
    ASSUME TypeOK, NEW ip \in Ip, NEW lease \in Lease,
           ~Foreign(ip, lease.mac), Insert(ip, lease),
           NEW m \in Mac, NEW b \in Belief, Covers(leases, m, b),
           m = lease.mac /\ b.ip = ip => lease.expires >= b.until
    PROVE  Covers(leases', m, b)
<1>1. lease # None
  BY NoneAssumption
<1>2. b.ip \in Ip
  BY DEF Belief
<1>3. CASE b.ip = ip
  BY <1>1, <1>2, <1>3 DEF TypeOK, Insert, Foreign, Covers
<1>4. CASE b.ip # ip
  BY <1>2, <1>4 DEF TypeOK, Insert, Covers
<1> QED
  BY <1>3, <1>4

\* Removing leases (release_lease, prune_expired) keeps the types.
LEMMA RemovalTypes ==
    ASSUME TypeOK, NEW gone \in SUBSET Ip, RemoveAll(gone)
    PROVE  /\ leases' \in [Ip -> Lease \cup {None}]
           /\ \A i \in Ip : leases'[i] # None => leases'[i].expires <= now + MaxLease
           /\ mac_index' \in [Mac -> Ip \cup {None}]
           /\ names' \in [Host -> [ip : Ip, expiry : Nat] \cup {None}]
<1>1. leases' \in [Ip -> Lease \cup {None}]
  BY DEF TypeOK, RemoveAll
<1>2. \A i \in Ip : leases'[i] # None => leases'[i].expires <= now + MaxLease
  BY DEF TypeOK, RemoveAll
<1>3. mac_index' \in [Mac -> Ip \cup {None}]
  BY DEF TypeOK, RemoveAll
<1>4. names' \in [Host -> [ip : Ip, expiry : Nat] \cup {None}]
  BY DEF TypeOK, RemoveAll
<1> QED
  BY <1>1, <1>2, <1>3, <1>4

\* ... and the index: the client of a lease that goes leaves the index.
LEMMA RemovalKeepsIndex ==
    ASSUME TypeOK, IndexPointsHome, NEW gone \in SUBSET Ip, RemoveAll(gone)
    PROVE  IndexPointsHome'
<1>1. ASSUME NEW m \in Mac, mac_index'[m] # None
      PROVE  leases'[mac_index'[m]] # None /\ leases'[mac_index'[m]].mac = m
  <2> DEFINE clients == {leases[ip]["mac"] : ip \in gone}
  <2>1. mac_index' = [n \in Mac |-> IF n \in clients THEN None ELSE mac_index[n]]
    BY DEF RemoveAll
  <2>2. m \notin clients /\ mac_index'[m] = mac_index[m]
    BY <1>1, <2>1
  <2>3. mac_index[m] \in Ip /\ leases[mac_index[m]] # None /\ leases[mac_index[m]].mac = m
    BY <1>1, <2>2 DEF TypeOK, IndexPointsHome
  <2>4. mac_index[m] \notin gone
    BY <2>2, <2>3
  <2> QED
    BY <2>2, <2>3, <2>4 DEF RemoveAll
<1> QED
  BY <1>1 DEF IndexPointsHome

-----------------------------------------------------------------------------
(* The steps *)

\* A lease table that still covers what each client is holding keeps the two
\* facts about clients, when the step tells no client anything new.
LEMMA NothingTold ==
    ASSUME IInv, TypeOK', now' >= now, \A m \in Mac : held'[m] \in {held[m], None},
           \A m \in Mac : Holding(m) /\ held'[m] = held[m] /\ now' <= held[m].until
                             => Covers(leases', m, held[m])
    PROVE  BeliefIsBounded' /\ HeldIsRecorded'
<1> USE TimeAssumption
<1>1. now \in Nat /\ now' \in Nat
  BY DEF IInv, TypeOK
<1>2. ASSUME NEW m \in Mac, held'[m] # None
      PROVE  /\ held'[m].until <= now' + LeaseTime[m]
             /\ now' <= held'[m].until => Covers(leases', m, held'[m])
  <2>1. held'[m] = held[m] /\ held[m].until \in Nat /\ LeaseTime[m] \in Nat
    BY <1>2 DEF IInv, TypeOK, Belief
  <2>2. held[m].until <= now + LeaseTime[m]
    BY <1>2, <2>1 DEF IInv, BeliefIsBounded
  <2>3. now' <= held[m].until => Holding(m)
    BY <1>1, <1>2, <2>1 DEF Holding
  <2> QED
    BY <1>1, <2>1, <2>2, <2>3
<1>3. BeliefIsBounded'
  BY <1>2 DEF BeliefIsBounded
<1>4. HeldIsRecorded'
  BY <1>2 DEF HeldIsRecorded, Holding, Covers
<1> QED
  BY <1>3, <1>4

\* What IInv says of a client that holds an address.
LEMMA HolderIsCovered ==
    ASSUME IInv, NEW m \in Mac, Holding(m)
    PROVE  held[m] \in Belief /\ Covers(leases, m, held[m])
BY DEF IInv, TypeOK, HeldIsRecorded, Holding, Covers

\* Steps that leave the lease manager alone.
LEMMA QuietStep ==
    ASSUME IInv, TypeOK', UNCHANGED server, now' >= now,
           \A m \in Mac : held'[m] \in {held[m], None}, JobStillValid'
    PROVE  IInv'
<1>1. leases' = leases /\ mac_index' = mac_index
  BY DEF server
<1>2. BeliefIsBounded' /\ HeldIsRecorded'
  BY <1>1, NothingTold, HolderIsCovered DEF Covers
<1>3. IndexPointsHome'
  BY <1>1 DEF IInv, IndexPointsHome
<1> QED
  BY <1>2, <1>3 DEF IInv

\* A NAK, heard or lost.
LEMMA NakKeeps ==
    ASSUME IInv, NEW m \in Mac, Nak(m), job' \in {job, None}
    PROVE  IInv'
<1>1. UNCHANGED <<now, server>> /\ \A n \in Mac : held'[n] \in {held[n], None}
  BY DEF IInv, TypeOK, Nak, Hear
<1>2. TypeOK'
  BY DEF IInv, TypeOK, Nak, Hear, server
<1>3. JobStillValid'
  BY <1>1 DEF IInv, JobStillValid, Foreign, server
<1>4. now' >= now
  BY <1>1 DEF IInv, TypeOK
<1> QED
  BY <1>1, <1>2, <1>3, <1>4, QuietStep

\* handle_discover only changes what is offered.
LEMMA DiscoverKeeps ==
    ASSUME IInv, NEW m \in Mac, NEW wanted \in Ip \cup {None}, Discover(m, wanted)
    PROVE  IInv'
<1>1. OffersFor(m, wanted) \subseteq Ip
  <2>1. Static[m] # None => Static[m] \in Ip
    BY RangeAssumption
  <2>2. Reusable(m) => mac_index[m] \in Ip
    BY DEF IInv, TypeOK, Reusable, FindByMac
  <2>3. wanted \in InRange => wanted \in Ip
    BY RangeAssumption DEF InRange
  <2> QED
    BY <2>1, <2>2, <2>3 DEF OffersFor
<1>2. TypeOK'
  BY <1>1 DEF IInv, TypeOK, Discover, server
<1>3. UNCHANGED <<now, server, job, held>>
  BY DEF Discover
<1>4. JobStillValid'
  BY <1>3 DEF IInv, JobStillValid, Foreign, server
<1> QED
  BY <1>2, <1>3, <1>4, QuietStep DEF IInv, TypeOK

\* The check of a REQUEST: what it found is what the next call relies on.
LEMMA CheckKeeps ==
    ASSUME IInv, NEW m \in Mac, NEW ip \in Ip, NEW kind \in {"allocate", "renew"},
           NEW host \in Host \cup {None}, Check(m, ip, kind, host)
    PROVE  IInv'
<1>1. CASE Foreign(ip, m) /\ Nak(m) /\ UNCHANGED job
  BY <1>1, NakKeeps
<1>2. CASE /\ ~Foreign(ip, m)
           /\ job' = [kind |-> kind, mac |-> m, ip |-> ip, host |-> host]
           /\ UNCHANGED <<now, server, offered, held>>
  <2>1. job' \in Job
    BY <1>2 DEF Job
  <2>2. TypeOK'
    BY <1>2, <2>1 DEF IInv, TypeOK, server
  <2>3. JobStillValid'
    BY <1>2 DEF JobStillValid, Foreign, server
  <2> QED
    BY <1>2, <2>2, <2>3, QuietStep DEF IInv, TypeOK
<1> QED
  BY <1>1, <1>2 DEF Check

LEMMA RequestSelectingKeeps ==
    ASSUME IInv, NEW m \in Mac, NEW host \in Host \cup {None}, RequestSelecting(m, host)
    PROVE  IInv'
<1>1. offered[m] \in Ip /\ Check(m, offered[m], "allocate", host)
  BY DEF IInv, TypeOK, RequestSelecting
<1> QED
  BY <1>1, CheckKeeps

LEMMA RequestInitRebootKeeps ==
    ASSUME IInv, NEW m \in Mac, NEW ip \in Ip, RequestInitReboot(m, ip)
    PROVE  IInv'
<1>1. CASE Nak(m) /\ UNCHANGED job
  BY <1>1, NakKeeps
<1>2. CASE Check(m, ip, "allocate", None)
  BY <1>2, CheckKeeps
<1> QED
  BY <1>1, <1>2 DEF RequestInitReboot

LEMMA RequestRenewingKeeps ==
    ASSUME IInv, NEW m \in Mac, RequestRenewing(m)
    PROVE  IInv'
<1>1. held[m].ip \in Ip /\ Check(m, held[m].ip, "renew", None)
  BY DEF IInv, TypeOK, Belief, RequestRenewing
<1> QED
  BY <1>1, CheckKeeps

\* The second call of a REQUEST stores a lease for the client of the message
\* that ends when the client is told, and the client hears of it or not.
LEMMA GrantKeeps ==
    ASSUME IInv, job # None, job.kind \in {"allocate", "renew"},
           NEW lease \in Lease, lease.mac = job.mac, lease.expires = Granted,
           Insert(job.ip, lease), Ack, job' = None, UNCHANGED now,
           names' \in [Host -> [ip : Ip, expiry : Nat] \cup {None}]
    PROVE  IInv'
<1> USE TimeAssumption
<1>1. job.mac \in Mac /\ job.ip \in Ip /\ now \in Nat
  BY DEF IInv, TypeOK, Job
<1>2. LeaseTime[job.mac] \in 0..MaxLease
  BY <1>1
<1>3. Granted \in Nat /\ Granted <= now + MaxLease /\ Granted = now + LeaseTime[job.mac]
  BY <1>1, <1>2 DEF Granted
<1>4. ~Foreign(job.ip, lease.mac)
  BY DEF IInv, JobStillValid
<1> DEFINE told == [ip |-> job.ip, until |-> Granted]
<1>5. told \in Belief
  BY <1>1, <1>3 DEF Belief
<1>6. \A m \in Mac : held'[m] = held[m] \/ (m = job.mac /\ held'[m] = told)
  BY <1>1 DEF IInv, TypeOK, Ack, Hear
<1>7. TypeOK'
  <2>1. /\ leases' \in [Ip -> Lease \cup {None}]
        /\ \A i \in Ip : leases'[i] # None => leases'[i].expires <= now + MaxLease
        /\ mac_index' \in [Mac -> Ip \cup {None}]
    BY <1>1, <1>3, InsertTypes DEF IInv
  <2>2. offered' \in [Mac -> Ip \cup {None}] /\ held' \in [Mac -> Belief \cup {None}]
    BY <1>5 DEF IInv, TypeOK, Ack, Hear
  <2> QED
    BY <2>1, <2>2 DEF IInv, TypeOK
<1>8. IndexPointsHome'
  BY <1>1, <1>4, InsertKeepsIndex DEF IInv
<1>9. ASSUME NEW m \in Mac, held'[m] # None
      PROVE  /\ held'[m].until <= now' + LeaseTime[m]
             /\ now' <= held'[m].until => Covers(leases', m, held'[m])
  <2>1. CASE held'[m] = held[m]
    <3>1. held[m] \in Belief /\ held[m].until <= now + LeaseTime[m]
      BY <1>9, <2>1 DEF IInv, TypeOK, BeliefIsBounded
    <3>2. ASSUME now <= held[m].until PROVE Covers(leases', m, held[m])
      <4>1. Covers(leases, m, held[m])
        BY <1>9, <2>1, <3>2, HolderIsCovered DEF Holding
      <4>2. m = lease.mac => lease.expires >= held[m].until
        BY <1>3, <3>1
      <4> QED
        BY <1>1, <1>4, <3>1, <4>1, <4>2, InsertCovers DEF IInv
    <3> QED
      BY <2>1, <3>1, <3>2
  <2>2. CASE m = job.mac /\ held'[m] = told
    <3>1. leases'[job.ip] = lease /\ lease # None
      BY <1>1, NoneAssumption DEF IInv, TypeOK, Insert
    <3> QED
      BY <1>1, <1>3, <2>2, <3>1 DEF Covers
  <2> QED
    BY <1>6, <2>1, <2>2
<1>10. BeliefIsBounded' /\ HeldIsRecorded'
  BY <1>9 DEF BeliefIsBounded, HeldIsRecorded, Holding, Covers
<1> QED
  BY <1>7, <1>8, <1>10 DEF IInv, JobStillValid

\* allocate_lease registers the name, if there is one.
LEMMA AllocateLeaseShape ==
    ASSUME IInv, NEW ip \in Ip, NEW m \in Mac, NEW host \in Host \cup {None},
           NEW expires \in Nat, AllocateLease(ip, m, host, expires)
    PROVE  /\ [mac |-> m, host |-> host, expires |-> expires, declined |-> FALSE] \in Lease
           /\ Insert(ip, [mac |-> m, host |-> host, expires |-> expires, declined |-> FALSE])
           /\ names' \in [Host -> [ip : Ip, expiry : Nat] \cup {None}]
<1>1. [mac |-> m, host |-> host, expires |-> expires, declined |-> FALSE] \in Lease
  BY DEF Lease
<1>2. names' \in [Host -> [ip : Ip, expiry : Nat] \cup {None}]
  BY DEF IInv, TypeOK, AllocateLease
<1> QED
  BY <1>1, <1>2 DEF AllocateLease

LEMMA AllocateKeeps ==
    ASSUME IInv, Allocate
    PROVE  IInv'
<1>1. job \in Job /\ job # None /\ job.kind = "allocate" /\ Ack /\ job' = None /\ UNCHANGED now
  BY DEF IInv, TypeOK, Allocate
<1>2. job.mac \in Mac /\ job.ip \in Ip /\ job.host \in Host \cup {None}
  BY <1>1 DEF Job
<1>3. Granted \in Nat
  BY <1>2, TimeAssumption DEF IInv, TypeOK, Granted
<1> DEFINE lease == [mac |-> job.mac, host |-> job.host, expires |-> Granted, declined |-> FALSE]
<1>4. AllocateLease(job.ip, job.mac, job.host, Granted)
  BY DEF Allocate
<1>5. /\ lease \in Lease /\ Insert(job.ip, lease)
      /\ names' \in [Host -> [ip : Ip, expiry : Nat] \cup {None}]
  BY <1>2, <1>3, <1>4, AllocateLeaseShape
<1>6. lease.mac = job.mac /\ lease.expires = Granted
  OBVIOUS
<1> QED
  BY <1>1, <1>5, <1>6, GrantKeeps

LEMMA RenewKeeps ==
    ASSUME IInv, Renew
    PROVE  IInv'
<1>1. job \in Job /\ job # None /\ job.kind = "renew" /\ job' = None
  BY DEF IInv, TypeOK, Renew
<1>2. job.mac \in Mac /\ job.ip \in Ip
  BY <1>1 DEF Job
<1>3. CASE leases[job.ip] = None /\ Nak(job.mac)
  BY <1>1, <1>2, <1>3, NakKeeps
<1>4. CASE leases[job.ip] # None /\ ~(leases[job.ip] = None /\ Nak(job.mac))
  <2> DEFINE lease == [leases[job.ip] EXCEPT !.expires = Granted]
  <2>1. leases[job.ip] \in Lease /\ leases[job.ip].mac = job.mac
    BY <1>1, <1>2, <1>4 DEF IInv, TypeOK, JobStillValid, Foreign
  <2>2. Granted \in Nat
    BY <1>2, TimeAssumption DEF IInv, TypeOK, Granted
  <2>3. lease \in Lease /\ lease.mac = job.mac /\ lease.expires = Granted
    BY <2>1, <2>2 DEF Lease
  <2>4. Insert(job.ip, lease) /\ Ack /\ UNCHANGED <<now, names>>
    BY <1>4 DEF Renew
  <2>5. names' \in [Host -> [ip : Ip, expiry : Nat] \cup {None}]
    BY <2>4 DEF IInv, TypeOK
  <2> HIDE DEF lease
  <2> QED
    BY <1>1, <2>3, <2>4, <2>5, GrantKeeps
<1> QED
  BY <1>3, <1>4 DEF Renew

\* handle_decline looks at the record while the client drops the address.
LEMMA DeclineKeeps ==
    ASSUME IInv, NEW m \in Mac, Decline(m)
    PROVE  IInv'
<1>1. held[m].ip \in Ip
  BY DEF IInv, TypeOK, Belief, Decline
<1>2. job' \in Job /\ job'.ip = held[m].ip
  BY <1>1 DEF Decline, Job
<1>3. UNCHANGED <<now, server, offered>> /\ \A n \in Mac : held'[n] \in {held[n], None}
  BY DEF IInv, TypeOK, Decline, Drop
<1>4. TypeOK'
  BY <1>2, <1>3 DEF IInv, TypeOK, Decline, Drop, server
<1>5. JobStillValid'
  BY <1>3 DEF Decline, JobStillValid, server
<1> QED
  BY <1>3, <1>4, <1>5, QuietStep DEF IInv, TypeOK

\* A lease for an address nobody has, told to nobody.
LEMMA RecordDeclinedKeeps ==
    ASSUME IInv, RecordDeclined
    PROVE  IInv'
<1> USE TimeAssumption
<1>1. /\ job \in Job /\ job # None /\ job.kind = "record" /\ leases[job.ip] = None
      /\ job' = [job EXCEPT !.kind = "mark"] /\ UNCHANGED <<now, offered, held>>
      /\ now \in Nat
  BY DEF IInv, TypeOK, JobStillValid, RecordDeclined
<1>2. job.mac \in Mac /\ job.ip \in Ip /\ job' \in Job /\ job'.kind = "mark"
  BY <1>1 DEF Job
<1> DEFINE lease == [mac |-> job.mac, host |-> None, expires |-> now + DeclineTime,
                     declined |-> FALSE]
<1>3. /\ lease \in Lease /\ Insert(job.ip, lease)
      /\ names' \in [Host -> [ip : Ip, expiry : Nat] \cup {None}]
  <2>1. now + DeclineTime \in Nat
    BY <1>1
  <2>2. AllocateLease(job.ip, job.mac, None, now + DeclineTime)
    BY DEF RecordDeclined
  <2> QED
    BY <1>2, <2>1, <2>2, AllocateLeaseShape
<1>4. ~Foreign(job.ip, lease.mac) /\ lease.expires <= now + MaxLease
  BY <1>1 DEF Foreign
<1> HIDE DEF lease
<1>5. TypeOK'
  BY <1>1, <1>2, <1>3, <1>4, InsertTypes DEF IInv, TypeOK
<1>6. IndexPointsHome'
  BY <1>2, <1>3, <1>4, InsertKeepsIndex DEF IInv
<1>7. ASSUME NEW m \in Mac, Holding(m) PROVE Covers(leases', m, held[m])
  <2>1. held[m] \in Belief /\ Covers(leases, m, held[m])
    BY <1>7, HolderIsCovered
  <2>2. held[m].ip # job.ip
    BY <1>1, <2>1 DEF Covers
  <2> QED
    BY <1>2, <1>3, <1>4, <2>1, <2>2, InsertCovers DEF IInv
<1>8. BeliefIsBounded' /\ HeldIsRecorded'
  BY <1>1, <1>5, <1>7, NothingTold
<1>9. JobStillValid'
  BY <1>2 DEF JobStillValid
<1> QED
  BY <1>5, <1>6, <1>8, <1>9 DEF IInv

\* The mark leaves the client and the end of the lease as they are.
LEMMA MarkDeclinedKeeps ==
    ASSUME IInv, MarkDeclined
    PROVE  IInv'
<1>1. job \in Job /\ job # None /\ job' = None /\ UNCHANGED <<now, names, offered, held>>
  BY DEF IInv, TypeOK, MarkDeclined
<1>2. job.ip \in Ip
  BY <1>1 DEF Job
<1>3. JobStillValid'
  BY <1>1 DEF JobStillValid
<1>4. CASE UNCHANGED <<leases, mac_index>>
  <2>1. TypeOK'
    BY <1>1, <1>4 DEF IInv, TypeOK
  <2> QED
    BY <1>1, <1>3, <1>4, <2>1, QuietStep DEF IInv, TypeOK, server
<1>5. CASE /\ leases[job.ip] # None
           /\ Insert(job.ip, [leases[job.ip] EXCEPT !.declined = TRUE])
  <2> DEFINE lease == [leases[job.ip] EXCEPT !.declined = TRUE]
  <2>1. leases[job.ip] \in Lease /\ leases[job.ip].expires <= now + MaxLease
    BY <1>2, <1>5 DEF IInv, TypeOK
  <2>2. /\ lease \in Lease /\ lease.mac = leases[job.ip].mac
        /\ lease.expires = leases[job.ip].expires
    BY <2>1 DEF Lease
  <2>3. Insert(job.ip, lease) /\ ~Foreign(job.ip, lease.mac) /\ lease.expires <= now + MaxLease
    BY <1>5, <2>1, <2>2 DEF Foreign
  <2> HIDE DEF lease
  <2>4. TypeOK'
    BY <1>1, <1>2, <2>2, <2>3, InsertTypes DEF IInv, TypeOK
  <2>5. IndexPointsHome'
    BY <1>2, <2>2, <2>3, InsertKeepsIndex DEF IInv
  <2>6. ASSUME NEW m \in Mac, Holding(m) PROVE Covers(leases', m, held[m])
    <3>1. held[m] \in Belief /\ Covers(leases, m, held[m])
      BY <2>6, HolderIsCovered
    <3>2. held[m].ip = job.ip => lease.expires >= held[m].until
      BY <2>2, <3>1 DEF Covers
    <3> QED
      BY <1>2, <2>2, <2>3, <3>1, <3>2, InsertCovers DEF IInv
  <2>7. BeliefIsBounded' /\ HeldIsRecorded'
    BY <1>1, <2>4, <2>6, NothingTold DEF IInv, TypeOK
  <2> QED
    BY <1>3, <2>4, <2>5, <2>7 DEF IInv
<1> QED
  BY <1>4, <1>5 DEF MarkDeclined

\* Removing leases that nobody who still holds an address relies on.
LEMMA RemovalKeeps ==
    ASSUME IInv, NEW gone \in SUBSET Ip, RemoveAll(gone), UNCHANGED <<now, job, offered>>,
           held' \in [Mac -> Belief \cup {None}],
           \A m \in Mac : held'[m] \in {held[m], None},
           \A m \in Mac : Holding(m) /\ held'[m] # None => held[m].ip \notin gone
    PROVE  IInv'
<1>1. TypeOK'
  BY RemovalTypes DEF IInv, TypeOK
<1>2. IndexPointsHome'
  BY RemovalKeepsIndex DEF IInv
<1>3. leases' = [ip \in Ip |-> IF ip \in gone THEN None ELSE leases[ip]]
  BY DEF RemoveAll
<1>4. JobStillValid'
  <2>1. job # None => job.ip \in Ip
    BY DEF IInv, TypeOK, Job
  <2> QED
    BY <1>3, <2>1 DEF IInv, JobStillValid, Foreign
<1>5. ASSUME NEW m \in Mac, Holding(m), held'[m] = held[m] PROVE Covers(leases', m, held[m])
  <2>1. held[m] \in Belief /\ Covers(leases, m, held[m]) /\ held[m] # None
    BY <1>5, HolderIsCovered DEF Holding
  <2>2. held[m].ip \in Ip /\ held[m].ip \notin gone
    BY <1>5, <2>1 DEF Belief
  <2> QED
    BY <1>3, <2>1, <2>2 DEF Covers
<1>6. BeliefIsBounded' /\ HeldIsRecorded'
  BY <1>1, <1>5, NothingTold DEF IInv, TypeOK
<1> QED
  BY <1>1, <1>2, <1>4, <1>6 DEF IInv

LEMMA ReleaseKeeps ==
    ASSUME IInv, NEW m \in Mac, Release(m)
    PROVE  IInv'
<1> DEFINE gone == {ip \in {held[m].ip} : leases[ip] # None}
<1>1. held[m] \in Belief /\ Covers(leases, m, held[m]) /\ RemoveAll(gone)
  BY HolderIsCovered DEF Release
<1>2. gone \in SUBSET Ip
  BY <1>1 DEF Belief
<1>3. /\ UNCHANGED <<now, job, offered>> /\ held' \in [Mac -> Belief \cup {None}]
      /\ \A n \in Mac : held'[n] \in {held[n], None}
  BY DEF IInv, TypeOK, Release, Drop
<1>4. ASSUME NEW n \in Mac, Holding(n), held'[n] # None PROVE held[n].ip \notin gone
  <2>1. n # m
    BY <1>4 DEF IInv, TypeOK, Release, Drop
  <2>2. Covers(leases, n, held[n])
    BY <1>4, HolderIsCovered
  <2> QED
    BY <1>1, <2>1, <2>2 DEF Covers
<1> HIDE DEF gone
<1> QED
  BY <1>1, <1>2, <1>3, <1>4, RemovalKeeps

\* A lease that has expired covers nobody.
LEMMA PruneKeeps ==
    ASSUME IInv, Prune
    PROVE  IInv'
<1> DEFINE gone == {ip \in Ip : leases[ip] # None /\ IsExpired(leases[ip])}
<1>1. gone \in SUBSET Ip /\ RemoveAll(gone) /\ UNCHANGED <<now, job, offered, held>>
  BY DEF Prune
<1>2. held' \in [Mac -> Belief \cup {None}]
  BY <1>1 DEF IInv, TypeOK
<1>3. ASSUME NEW m \in Mac, Holding(m) PROVE held[m].ip \notin gone
  <2>1. held[m] \in Belief /\ Covers(leases, m, held[m])
    BY <1>3, HolderIsCovered
  <2>2. leases[held[m].ip] \in Lease /\ held[m].until \in Nat
    BY <2>1 DEF IInv, TypeOK, Covers, Belief
  <2> QED
    BY <1>3, <2>1, <2>2 DEF IInv, TypeOK, Holding, Covers, IsExpired, Lease
<1> HIDE DEF gone
<1> QED
  BY <1>1, <1>2, <1>3, RemovalKeeps

LEMMA ForgetKeeps ==
    ASSUME IInv, NEW m \in Mac, Forget(m)
    PROVE  IInv'
<1>1. UNCHANGED <<now, server, job, offered>> /\ \A n \in Mac : held'[n] \in {held[n], None}
  BY DEF IInv, TypeOK, Forget, Drop
<1>2. TypeOK'
  BY <1>1 DEF IInv, TypeOK, Forget, Drop, server
<1>3. JobStillValid'
  BY <1>1 DEF IInv, JobStillValid, Foreign, server
<1> QED
  BY <1>1, <1>2, <1>3, QuietStep DEF IInv, TypeOK

LEMMA TickKeeps ==
    ASSUME IInv, Tick
    PROVE  IInv'
<1> USE TimeAssumption
<1>1. UNCHANGED <<server, job, offered, held>> /\ now \in Nat /\ now' = now + 1
  BY DEF IInv, TypeOK, Tick
<1>2. \A ip \in Ip : leases[ip] # None => leases[ip].expires <= now' + MaxLease
  BY <1>1 DEF IInv, TypeOK, Lease
<1>3. TypeOK'
  BY <1>1, <1>2 DEF IInv, TypeOK, Tick, server
<1>4. JobStillValid'
  BY <1>1 DEF IInv, JobStillValid, Foreign, server
<1> QED
  BY <1>1, <1>3, <1>4, QuietStep

LEMMA NextKeeps == IInv /\ [Next]_vars => IInv'
<1> SUFFICES ASSUME IInv, [Next]_vars PROVE IInv'
  OBVIOUS
<1>1. ASSUME NEW m \in Mac, NEW wanted \in Ip \cup {None}, Discover(m, wanted) PROVE IInv'
  BY <1>1, DiscoverKeeps
<1>2. ASSUME NEW m \in Mac, NEW host \in Host \cup {None}, RequestSelecting(m, host) PROVE IInv'
  BY <1>2, RequestSelectingKeeps
<1>3. ASSUME NEW m \in Mac, NEW ip \in Ip, RequestInitReboot(m, ip) PROVE IInv'
  BY <1>3, RequestInitRebootKeeps
<1>4. ASSUME NEW m \in Mac, RequestRenewing(m) \/ Decline(m) \/ Release(m) \/ Forget(m)
      PROVE  IInv'
  BY <1>4, RequestRenewingKeeps, DeclineKeeps, ReleaseKeeps, ForgetKeeps
<1>5. CASE Allocate \/ Renew \/ RecordDeclined \/ MarkDeclined
  BY <1>5, AllocateKeeps, RenewKeeps, RecordDeclinedKeeps, MarkDeclinedKeeps
<1>6. CASE Prune \/ Tick
  BY <1>6, PruneKeeps, TickKeeps
<1>7. CASE UNCHANGED vars
  <2>1. TypeOK'
    BY <1>7 DEF IInv, TypeOK, vars, server
  <2>2. JobStillValid'
    BY <1>7 DEF IInv, JobStillValid, Foreign, vars, server
  <2> QED
    BY <1>7, <2>1, <2>2, QuietStep DEF IInv, TypeOK, vars
<1> QED
  BY <1>1, <1>2, <1>3, <1>4, <1>5, <1>6, <1>7 DEF Next

LEMMA InitEstablishes == Init => IInv
<1> SUFFICES ASSUME Init PROVE IInv
  OBVIOUS
<1>1. TypeOK
  BY TimeAssumption DEF Init, TypeOK
<1>2. JobStillValid /\ BeliefIsBounded /\ HeldIsRecorded /\ IndexPointsHome
  BY DEF Init, JobStillValid, BeliefIsBounded, HeldIsRecorded, Holding, IndexPointsHome
<1> QED
  BY <1>1, <1>2 DEF IInv

-----------------------------------------------------------------------------
(* The theorems *)

\* The inductive invariant: types, what a handler found at its first call is
\* still so at its second, beliefs are bounded, recorded, and the index sound.
THEOREM LeasesInvariant == Spec => []IInv
BY InitEstablishes, NextKeeps, PTL DEF Spec

\* Every handler keeps the types of the leases, the index and what clients believe.
THEOREM LeaseTypes == Spec => []TypeOK
<1>1. IInv => TypeOK
  BY DEF IInv
<1> QED
  BY <1>1, LeasesInvariant, PTL

\* Whatever messages come, replies are lost, leases expire and are pruned
\* between the calls of a handler, the server's record of an address names its
\* holder and lasts at least as long as the holder was told.
THEOREM HoldersAreRecorded == Spec => []HeldIsRecorded
<1>1. IInv => HeldIsRecorded
  BY DEF IInv
<1> QED
  BY <1>1, LeasesInvariant, PTL

\* No two clients ever hold one address at the same time.
THEOREM NoTwoHolders == Spec => []OneHolder
<1>1. IInv => OneHolder
  BY DEF IInv, HeldIsRecorded, OneHolder
<1> QED
  BY <1>1, LeasesInvariant, PTL

\* find_by_mac always leads a client to a lease of its own.
THEOREM IndexIsSound == Spec => []IndexPointsHome
<1>1. IInv => IndexPointsHome
  BY DEF IInv
<1> QED
  BY <1>1, LeasesInvariant, PTL

\* handle_discover never offers a declined address to a client without a
\* reservation for it.
THEOREM DeclinedStaysOut == Spec => DeclinedIsNotOffered
<1> DEFINE A == \A m \in Mac, ip \in Ip :
                   /\ offered[m] # ip /\ offered'[m] = ip
                   /\ Static[m] = None
                   => leases[ip] = None \/ ~leases[ip].declined
<1>1. ASSUME IInv, [Next]_vars PROVE [A]_vars
  <2> SUFFICES ASSUME Next, NEW m \in Mac, NEW ip \in Ip,
                      offered[m] # ip, offered'[m] = ip, Static[m] = None
               PROVE  leases[ip] = None \/ ~leases[ip].declined
    BY <1>1
  <2>1. ASSUME NEW n \in Mac, Hear(n, None) \/ \E b \in Belief : Hear(n, b) PROVE FALSE
    BY <1>1, <2>1, NoneAssumption DEF IInv, TypeOK, Hear
  <2>2. UNCHANGED offered => FALSE
    OBVIOUS
  <2>3. ASSUME NEW n \in Mac, NEW wanted \in Ip \cup {None}, Discover(n, wanted)
        PROVE  leases[ip] = None \/ ~leases[ip].declined
    <3>1. n = m /\ ip \in OffersFor(m, wanted)
      BY <1>1, <2>3 DEF IInv, TypeOK, Discover
    <3>2. CASE Reusable(m)
      BY <1>1, <3>1, <3>2 DEF OffersFor, Reusable, FindByMac
    <3>3. CASE ~Reusable(m)
      BY <3>1, <3>3 DEF OffersFor, FirstFree, Free
    <3> QED
      BY <3>2, <3>3
  <2>4. ASSUME NEW n \in Mac, NEW i, NEW kind, NEW host, Check(n, i, kind, host) PROVE FALSE
    BY <2>1, <2>2, <2>4 DEF Check, Nak
  <2>5. CASE Allocate \/ Renew
    <3>1. job.mac \in Mac /\ [ip |-> job.ip, until |-> Granted] \in Belief
      BY <1>1, <2>5, TimeAssumption DEF IInv, TypeOK, Job, Belief, Granted, Allocate, Renew
    <3>2. Ack => FALSE
      BY <2>1, <3>1 DEF Ack
    <3>3. Nak(job.mac) => FALSE
      BY <2>1, <3>1 DEF Nak
    <3> QED
      BY <2>5, <3>2, <3>3 DEF Allocate, Renew
  <2>6. ASSUME NEW n \in Mac, NEW i \in Ip, RequestInitReboot(n, i) PROVE FALSE
    BY <2>1, <2>4, <2>6 DEF RequestInitReboot, Nak
  <2>7. ASSUME NEW n \in Mac, NEW host, RequestSelecting(n, host) PROVE FALSE
    BY <2>4, <2>7 DEF RequestSelecting
  <2>8. ASSUME NEW n \in Mac, RequestRenewing(n) PROVE FALSE
    BY <2>4, <2>8 DEF RequestRenewing
  <2>9. ASSUME NEW n \in Mac, Decline(n) \/ Release(n) \/ Forget(n) PROVE FALSE
    BY <2>2, <2>9 DEF Decline, Release, Forget
  <2>10. CASE RecordDeclined \/ MarkDeclined \/ Prune \/ Tick
    BY <2>2, <2>10 DEF RecordDeclined, MarkDeclined, Prune, Tick
  <2> QED
    BY <2>3, <2>5, <2>6, <2>7, <2>8, <2>9, <2>10 DEF Next
<1>2. IInv /\ [Next]_vars => [A]_vars
  BY <1>1
<1> HIDE DEF A
<1>3. Spec => [][A]_vars
  BY <1>2, LeasesInvariant, PTL DEF Spec
<1> QED
  BY <1>3 DEF A, DeclinedIsNotOffered

-----------------------------------------------------------------------------
(* The lock around the lease manager (LeaseLock) *)

\* What is left of a handler that has no guard, DISCOVER's apart.
AtRest ==
    { <<>>, <<"read", "drop">>, <<"write", "drop">>,
      <<"read", "drop", "read", "drop">>,
      <<"read", "drop", "write", "drop">>,
      <<"read", "drop", "read", "drop", "write", "drop">> }

\* What is left of one that has just taken its guard.
WithGuard ==
    { <<"drop">>, <<"drop", "read", "drop">>, <<"drop", "write", "drop">>,
      <<"drop", "read", "drop", "write", "drop">> }

\* A task has one guard at most, and it drops that one before it asks again.
OneGuard(t) ==
    \/ guards[t] = <<>> /\ script[t] \in AtRest
    \/ \E mode \in Mode : guards[t] = <<mode>> /\ script[t] \in WithGuard

\* A task waits once, at a request, and has no guard meanwhile.
LockInv ==
    /\ script \in [Task -> AtRest \cup WithGuard]
    /\ guards \in [Task -> Seq(Mode)]
    /\ queue \in Seq(Task)
    /\ \A t \in Task : OneGuard(t)
    /\ \A i \in DOMAIN queue : guards[queue[i]] = <<>> /\ script[queue[i]] # <<>>
    /\ \A i, j \in DOMAIN queue : queue[i] = queue[j] => i = j

\* Two handlers of one guard, one after the other.
LEMMA PairThenPair ==
    ASSUME NEW a, NEW b, NEW c, NEW d
    PROVE  <<a, b>> \o <<c, d>> = <<a, b, c, d>>
<1> DEFINE S == {a, b, c, d}
           s == <<a, b>>
           t == <<c, d>>
           both == <<a, b, c, d>>
<1>1. /\ s \in Seq(S) /\ Len(s) = 2 /\ s[1] = a /\ s[2] = b
      /\ t \in Seq(S) /\ Len(t) = 2 /\ t[1] = c /\ t[2] = d
  OBVIOUS
<1>2. /\ both \in Seq(S) /\ Len(both) = 4
      /\ both[1] = a /\ both[2] = b /\ both[3] = c /\ both[4] = d
  OBVIOUS
<1> HIDE DEF S, s, t, both
<1>3. /\ s \o t \in Seq(S) /\ Len(s \o t) = 4
      /\ \A i \in 1..4 : (s \o t)[i] = IF i <= 2 THEN s[i] ELSE t[i - 2]
  <2>1. /\ s \o t \in Seq(S)
        /\ Len(s \o t) = Len(s) + Len(t)
        /\ \A i \in 1 .. Len(s) + Len(t) :
              (s \o t)[i] = IF i <= Len(s) THEN s[i] ELSE t[i - Len(s)]
    BY <1>1, TheoremsOf!ConcatProperties, Zenon
  <2> QED
    BY <1>1, <2>1
<1>4. \A i \in 1..4 : (s \o t)[i] = both[i]
  BY <1>1, <1>2, <1>3
<1>5. s \o t = both
  BY <1>2, <1>3, <1>4, TheoremsOf!SeqEqual
<1> QED
  BY <1>5 DEF s, t, both

\* The longest path: a handler that reads twice and then writes.
LEMMA ReadReadWrite ==
    <<"read", "drop", "read", "drop">> \o Writing
       = <<"read", "drop", "read", "drop", "write", "drop">>
<1> DEFINE S == {"read", "write", "drop"}
           s == <<"read", "drop", "read", "drop">>
           t == <<"write", "drop">>
           both == <<"read", "drop", "read", "drop", "write", "drop">>
<1>1. /\ s \in Seq(S) /\ Len(s) = 4 /\ s[1] = "read" /\ s[2] = "drop" /\ s[3] = "read" /\ s[4] = "drop"
      /\ t \in Seq(S) /\ Len(t) = 2 /\ t[1] = "write" /\ t[2] = "drop"
  OBVIOUS
<1>2. /\ both \in Seq(S) /\ Len(both) = 6
      /\ both[1] = "read" /\ both[2] = "drop" /\ both[3] = "read" /\ both[4] = "drop"
      /\ both[5] = "write" /\ both[6] = "drop"
  OBVIOUS
<1> HIDE DEF S, s, t, both
<1>3. /\ s \o t \in Seq(S) /\ Len(s \o t) = 6
      /\ \A i \in 1..6 : (s \o t)[i] = IF i <= 4 THEN s[i] ELSE t[i - 4]
  <2>1. /\ s \o t \in Seq(S)
        /\ Len(s \o t) = Len(s) + Len(t)
        /\ \A i \in 1 .. Len(s) + Len(t) :
              (s \o t)[i] = IF i <= Len(s) THEN s[i] ELSE t[i - Len(s)]
    BY <1>1, TheoremsOf!ConcatProperties, Zenon
  <2> QED
    BY <1>1, <2>1
<1>4. \A i \in 1..6 : (s \o t)[i] = both[i]
  <2>1. ASSUME NEW i \in 1..4 PROVE (s \o t)[i] = both[i]
    BY <1>1, <1>2, <1>3
  <2>2. (s \o t)[5] = t[1] /\ (s \o t)[6] = t[2]
    BY <1>3
  <2>3. 1..6 = 1..4 \cup {5, 6}
    OBVIOUS
  <2> QED
    BY <1>1, <1>2, <2>1, <2>2, <2>3
<1>5. s \o t = both
  BY <1>2, <1>3, <1>4, TheoremsOf!SeqEqual
<1> QED
  BY <1>5 DEF s, t, both, Writing

\* Without DISCOVER every handler drops what it took before it takes again.
LEMMA PathsAreAtRest ==
    ASSUME "discover" \notin V4Messages, NEW t \in Task, NEW path \in Paths(t)
    PROVE  path \in AtRest
<1>1. Reading \o Reading = <<"read", "drop", "read", "drop">>
  BY PairThenPair, Zenon DEF Reading
<1>2. Reading \o Writing = <<"read", "drop", "write", "drop">>
  BY PairThenPair, Zenon DEF Reading, Writing
<1>3. Reading \o Reading \o Writing = <<"read", "drop", "read", "drop", "write", "drop">>
  BY <1>1, ReadReadWrite, Zenon
<1>4. RequestPaths \subseteq AtRest /\ DeclinePaths \subseteq AtRest /\ ReleasePaths \subseteq AtRest
  BY <1>1, <1>2, <1>3 DEF RequestPaths, DeclinePaths, ReleasePaths, Reading, AtRest
<1>5. V6Paths \subseteq AtRest /\ DbusPaths \subseteq AtRest
  BY <1>2 DEF V6Paths, DbusPaths, Reading, Writing, AtRest
<1>6. V4Paths \subseteq AtRest
  BY <1>4, MessagesAssumption DEF V4Paths
<1> QED
  BY <1>5, <1>6 DEF Paths, Task

\* A handler at rest that goes on asks for a guard, and then holds it.
LEMMA RestThenHold ==
    ASSUME NEW s \in AtRest, s # <<>>
    PROVE  Head(s) \in Mode /\ Head(s) # "drop" /\ Tail(s) \in WithGuard
<1>1. CASE s = <<"read", "drop">>
  BY <1>1 DEF WithGuard, Mode
<1>2. CASE s = <<"write", "drop">>
  BY <1>2 DEF WithGuard, Mode
<1>3. CASE s = <<"read", "drop", "read", "drop">>
  BY <1>3 DEF WithGuard, Mode
<1>4. CASE s = <<"read", "drop", "write", "drop">>
  BY <1>4 DEF WithGuard, Mode
<1>5. CASE s = <<"read", "drop", "read", "drop", "write", "drop">>
  BY <1>5 DEF WithGuard, Mode
<1> QED
  BY <1>1, <1>2, <1>3, <1>4, <1>5 DEF AtRest

\* One that holds a guard drops it, and is then at rest.
LEMMA HoldThenRest ==
    ASSUME NEW s \in WithGuard
    PROVE  s # <<>> /\ Head(s) = "drop" /\ Tail(s) \in AtRest
<1>1. CASE s = <<"drop">>
  BY <1>1 DEF AtRest
<1>2. CASE s = <<"drop", "read", "drop">>
  BY <1>2 DEF AtRest
<1>3. CASE s = <<"drop", "write", "drop">>
  BY <1>3 DEF AtRest
<1>4. CASE s = <<"drop", "read", "drop", "write", "drop">>
  BY <1>4 DEF AtRest
<1> QED
  BY <1>1, <1>2, <1>3, <1>4 DEF WithGuard

\* Taking a guard.
LEMMA TakeKeepsOneGuard ==
    ASSUME LockInv, NEW t \in Task, guards[t] = <<>>, script[t] # <<>>, Take(t)
    PROVE  /\ script' \in [Task -> AtRest \cup WithGuard]
           /\ guards' \in [Task -> Seq(Mode)]
           /\ \A u \in Task : OneGuard(u)'
           /\ \A u \in Task \ {t} : guards'[u] = guards[u] /\ script'[u] = script[u]
<1>1. script[t] \in AtRest
  <2>1. \A mode \in Mode : <<mode>> # <<>>
    OBVIOUS
  <2> QED
    BY <2>1 DEF LockInv, OneGuard
<1>2. Head(script[t]) \in Mode /\ Tail(script[t]) \in WithGuard
  BY <1>1, RestThenHold
<1>3. guards'[t] = <<Head(script[t])>> /\ script'[t] = Tail(script[t])
  BY <1>2 DEF LockInv, Take
<1>4. \A u \in Task \ {t} : guards'[u] = guards[u] /\ script'[u] = script[u]
  BY DEF LockInv, Take
<1>5. OneGuard(t)'
  BY <1>2, <1>3 DEF OneGuard
<1>6. \A u \in Task \ {t} : OneGuard(u)'
  BY <1>4 DEF OneGuard, LockInv
<1>7. script' \in [Task -> AtRest \cup WithGuard] /\ guards' \in [Task -> Seq(Mode)]
  BY <1>2 DEF LockInv, Take
<1> QED
  BY <1>4, <1>5, <1>6, <1>7

\* Without DISCOVER a task has one guard at most, and none while it waits.
THEOREM LockInvariant ==
    ASSUME "discover" \notin V4Messages
    PROVE  LockSpec => []LockInv
<1>1. LockInit => LockInv
  BY DEF LockInit, LockInv, OneGuard, AtRest
<1>2. LockInv /\ [LockNext]_lock => LockInv'
  <2> SUFFICES ASSUME LockInv, [LockNext]_lock PROVE LockInv'
    OBVIOUS
  <2>1. ASSUME NEW t \in Task, Start(t) PROVE LockInv'
    <3>1. PICK path \in Paths(t) : script' = [script EXCEPT ![t] = path]
      BY <2>1 DEF Start
    <3>2. path \in AtRest
      BY PathsAreAtRest
    <3>3. guards[t] = <<>>
      BY <2>1, HoldThenRest DEF Start, LockInv, OneGuard
    <3>4. script'[t] = path /\ \A u \in Task \ {t} : script'[u] = script[u]
      BY <3>1 DEF LockInv
    <3>5. \A u \in Task : OneGuard(u)'
      BY <2>1, <3>2, <3>3, <3>4 DEF Start, LockInv, OneGuard
    <3>6. \A i \in DOMAIN queue : queue[i] \in Task /\ queue[i] # t
      BY <2>1 DEF Start, LockInv
    <3>7. script' \in [Task -> AtRest \cup WithGuard]
      BY <3>1, <3>2 DEF LockInv
    <3> QED
      BY <2>1, <3>4, <3>5, <3>6, <3>7 DEF Start, LockInv
  <2>2. ASSUME NEW t \in Task, Acquire(t) PROVE LockInv'
    <3>1. guards[t] = <<>>
      BY <2>2, HoldThenRest DEF Acquire, LockInv, OneGuard, Mode
    <3>2. queue = <<>> /\ queue' = <<>>
      BY <2>2 DEF Acquire, Immediate
    <3> QED
      BY <2>2, <3>1, <3>2, TakeKeepsOneGuard DEF Acquire, LockInv
  <2>3. ASSUME NEW t \in Task, Enqueue(t) PROVE LockInv'
    <3>1. guards[t] = <<>> /\ script[t] # <<>>
      BY <2>3, HoldThenRest DEF Enqueue, LockInv, OneGuard, Mode
    <3>2. /\ queue' \in Seq(Task)
          /\ DOMAIN queue' = 1..(Len(queue) + 1)
          /\ DOMAIN queue = 1..Len(queue)
          /\ queue'[Len(queue) + 1] = t
          /\ \A i \in 1..Len(queue) : queue'[i] = queue[i]
      BY <2>3 DEF Enqueue, LockInv
    <3>3. \A i \in DOMAIN queue : queue[i] # t
      BY <2>3 DEF Enqueue, Waiting
    <3>4. /\ Len(queue) \in Nat
          /\ \A i \in 1..Len(queue) : guards[queue[i]] = <<>> /\ script[queue[i]] # <<>>
          /\ \A i, j \in 1..Len(queue) : queue[i] = queue[j] => i = j
      BY DEF LockInv
    <3>5. \A i \in DOMAIN queue' : guards[queue'[i]] = <<>> /\ script[queue'[i]] # <<>>
      BY <3>1, <3>2, <3>4
    <3>6. \A i, j \in DOMAIN queue' : queue'[i] = queue'[j] => i = j
      BY <3>2, <3>3, <3>4
    <3> QED
      BY <2>3, <3>2, <3>5, <3>6 DEF Enqueue, LockInv, OneGuard
  <2>4. CASE Grant
    <3> DEFINE t == Head(queue)
    <3>1. /\ t \in Task /\ t = queue[1] /\ 1 \in DOMAIN queue
          /\ queue' \in Seq(Task)
          /\ DOMAIN queue = 1..Len(queue) /\ Len(queue) \in Nat
          /\ DOMAIN queue' = 1..(Len(queue) - 1)
          /\ \A i \in 1..(Len(queue) - 1) : queue'[i] = queue[i + 1]
      BY <2>4 DEF Grant, LockInv
    <3>2. PICK u \in Task : u = t
      BY <3>1
    <3>3. guards[u] = <<>> /\ script[u] # <<>> /\ Take(u)
      BY <2>4, <3>1, <3>2 DEF Grant, LockInv
    <3>4. /\ script' \in [Task -> AtRest \cup WithGuard]
          /\ guards' \in [Task -> Seq(Mode)]
          /\ \A w \in Task : OneGuard(w)'
          /\ \A w \in Task \ {u} : guards'[w] = guards[w] /\ script'[w] = script[w]
      BY <3>3, TakeKeepsOneGuard
    <3>5. /\ \A i \in 1..Len(queue) : queue[i] \in Task
          /\ \A i \in 1..Len(queue) : guards[queue[i]] = <<>> /\ script[queue[i]] # <<>>
          /\ \A i, j \in 1..Len(queue) : queue[i] = queue[j] => i = j
      BY DEF LockInv
    <3> HIDE DEF t
    <3>6. \A i \in DOMAIN queue' : queue'[i] \in Task \ {u}
      BY <3>1, <3>2, <3>5
    <3>7. \A i \in DOMAIN queue' : guards'[queue'[i]] = <<>> /\ script'[queue'[i]] # <<>>
      <4> SUFFICES ASSUME NEW i \in 1..(Len(queue) - 1)
                   PROVE  guards'[queue'[i]] = <<>> /\ script'[queue'[i]] # <<>>
        BY <3>1
      <4>1. i + 1 \in 1..Len(queue) /\ queue'[i] = queue[i + 1]
        BY <3>1
      <4>2. queue'[i] \in Task \ {u}
        BY <3>1, <3>6
      <4>3. guards[queue'[i]] = <<>> /\ script[queue'[i]] # <<>>
        BY <3>5, <4>1, Zenon
      <4> QED
        BY <3>4, <4>2, <4>3, Zenon
    <3>8. \A i, j \in DOMAIN queue' : queue'[i] = queue'[j] => i = j
      BY <3>1, <3>5
    <3> QED
      BY <3>1, <3>4, <3>7, <3>8 DEF LockInv
  <2>5. ASSUME NEW t \in Task, DropGuard(t) PROVE LockInv'
    <3>1. PICK mode \in Mode : guards[t] = <<mode>> /\ script[t] \in WithGuard
      BY <2>5, RestThenHold DEF DropGuard, LockInv, OneGuard
    <3>2. SubSeq(<<mode>>, 1, Len(<<mode>>) - 1) = <<>>
      OBVIOUS
    <3>3. guards' = [guards EXCEPT ![t] = <<>>] /\ script' = [script EXCEPT ![t] = Tail(@)]
      BY <2>5, <3>1, <3>2 DEF DropGuard, LockInv
    <3>4. Tail(script[t]) \in AtRest
      BY <3>1, HoldThenRest
    <3>5. /\ guards'[t] = <<>> /\ script'[t] = Tail(script[t])
          /\ \A u \in Task \ {t} : guards'[u] = guards[u] /\ script'[u] = script[u]
      BY <3>3 DEF LockInv
    <3>6. \A u \in Task : OneGuard(u)'
      BY <3>4, <3>5 DEF LockInv, OneGuard
    <3>7. \A i \in DOMAIN queue : queue[i] \in Task \ {t}
      <4>1. guards[t] # <<>>
        BY <3>1
      <4> QED
        BY <4>1 DEF LockInv
    <3>8. script' \in [Task -> AtRest \cup WithGuard] /\ guards' \in [Task -> Seq(Mode)]
      BY <3>3, <3>4 DEF LockInv
    <3> QED
      BY <2>5, <3>5, <3>6, <3>7, <3>8 DEF DropGuard, LockInv
  <2>6. CASE UNCHANGED lock
    BY <2>6 DEF lock, LockInv, OneGuard
  <2> QED
    BY <2>1, <2>2, <2>3, <2>4, <2>5, <2>6 DEF LockNext
<1> QED
  BY <1>1, <1>2, PTL DEF LockSpec

\* The three tasks never all wait on each other's guards while no handler asks
\* for the lock with a guard out: DISCOVER, the one that does, is the cause of
\* the deadlock the run with it finds.
THEOREM OnlyDiscoverDeadlocks ==
    ASSUME "discover" \notin V4Messages
    PROVE  LockSpec => []NoDeadlock
<1>1. LockInv => NoDeadlock
  <2> SUFFICES ASSUME LockInv, queue # <<>>, \A t \in Task : guards[t] # <<>> => Waiting(t)
               PROVE  Compatible(Head(script[Head(queue)]))
    BY DEF NoDeadlock
  <2>1. \A t \in Task : guards[t] = <<>>
    BY DEF LockInv, Waiting
  <2> QED
    BY <2>1 DEF Compatible, Has
<1> QED
  BY <1>1, LockInvariant, PTL

=============================================================================
