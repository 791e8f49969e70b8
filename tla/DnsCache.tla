------------------------------ MODULE DnsCache ------------------------------
(***************************************************************************)
(* The DNS cache of src/src/dns/cache.rs: a hash table `entries' and an    *)
(* LRU index `lru' that must describe the same records, a capacity, and    *)
(* the counters of CacheStats.  Callers hold the write guard of            *)
(* Arc<RwLock<DnsCache>> for a whole call, so a call is one step; the one  *)
(* exception is refresh_from_hosts, which awaits the file between lines    *)
(* while it keeps the guard: it is a sequence of steps during which no     *)
(* other call can run.                                                     *)
(*                                                                         *)
(* A key is a (domain, record type) pair.  A table is a total function to  *)
(* entries, NoEntry marking an absent key.                                 *)
(***************************************************************************)
EXTENDS Naturals, FiniteSets

CONSTANTS
    Key,          \* (domain, record type) pairs
    Addr,         \* IP addresses
    NoAddr,       \* ip_addr = None: negative entries, non-address records
    NoEntry,      \* no record under this key
    Capacity,     \* maximum number of entries (DnsCache::capacity)
    MaxTtl,       \* bound: largest TTL of an upstream or DHCP record
    HostsTtl,     \* u32::MAX seconds, the TTL of /etc/hosts records
    MaxTime,      \* bound: the clock stops here
    MaxLookups,   \* bound on stats.lookups
    MaxInserts    \* bound on stats.insertions

Sources == {"upstream", "hosts", "dhcp"}

Entry == [addr : Addr \cup {NoAddr}, expiry : Nat, source : Sources]

Stats == [lookups : Nat, hits : Nat, misses : Nat, current_size : Nat,
          evictions : Nat, expirations : Nat, insertions : Nat]

\* DnsCache::new replaces a configured size of 0 by CACHESIZ, so a cache
\* always has room for a record.
ASSUME CapacityAssumption == Capacity \in Nat \ {0}

ASSUME KeyAssumption == IsFiniteSet(Key)

ASSUME NoEntryAssumption == NoEntry \notin Entry

ASSUME BoundsAssumption ==
    /\ MaxTtl \in Nat /\ HostsTtl \in Nat /\ MaxTime \in Nat
    /\ MaxLookups \in Nat /\ MaxInserts \in Nat

VARIABLES
    now,       \* the clock that Timestamp::now() reads
    entries,   \* the hash table
    lru,       \* the records the LRU index holds
    older,     \* <<a, b>>: a is nearer the least-recently-used end than b
    stats,     \* CacheStats
    reading,   \* refresh_from_hosts is between two lines of its file
    ret        \* what the last call returned: a key and its entry, or no entry

vars == <<now, entries, lru, older, stats, reading, ret>>

-----------------------------------------------------------------------------
(* Tables and the LRU list. *)

Cached(table) == {k \in Key : table[k] # NoEntry}

Without(table, gone) == [k \in Key |-> IF k \in gone THEN NoEntry ELSE table[k]]

Forget(order, gone) == {p \in order : p[1] \notin gone /\ p[2] \notin gone}

\* LruCache::get and LruCache::put move the key to the recently used end.
Promote(order, table, key) ==
    Forget(order, {key}) \cup {<<k, key>> : k \in Cached(table) \ {key}}

\* LruCache::pop_lru: the oldest key, if there is one, as a set.
Oldest(table, order) ==
    IF Cached(table) = {}
    THEN {{}}
    ELSE {{k} : k \in {x \in Cached(table) : \A y \in Cached(table) : <<y, x>> \notin order}}

\* LruCache::put of a new key first makes room in a full index.
Overflow(table, order, key) ==
    IF table[key] = NoEntry /\ Cardinality(Cached(table)) >= Capacity
    THEN Oldest(table, order)
    ELSE {{}}

-----------------------------------------------------------------------------
(* CacheEntry *)

NewEntry(addr, ttl, source) == [addr |-> addr, expiry |-> now + ttl, source |-> source]

IsExpired_Late(entry) == now > entry.expiry

\* is_expired, and the test of evict_expired and prune_expired
IsExpired(entry) == now >= entry.expiry

Expired == {k \in Cached(entries) : IsExpired(entries[k])}

Nothing(key) == [key |-> key, entry |-> NoEntry]

Idle == ~reading

-----------------------------------------------------------------------------
(* The steps the calls share. *)

CountHit == [stats EXCEPT !.lookups = @ + 1, !.hits = @ + 1]

CountMiss == [stats EXCEPT !.lookups = @ + 1, !.misses = @ + 1]

CountExpired_NotAMiss == [stats EXCEPT !.lookups = @ + 1, !.expirations = @ + 1]

CountExpired ==
    [stats EXCEPT !.lookups = @ + 1, !.misses = @ + 1, !.expirations = @ + 1]

Touch_Peek(key) == older

\* self.lru.get(key)
Touch(key) == IF lru[key] = NoEntry THEN older ELSE Promote(older, lru, key)

NeedsEviction_OffByOne(key) ==
    Cardinality(Cached(entries)) > Capacity /\ entries[key] = NoEntry

NeedsEviction(key) ==
    Cardinality(Cached(entries)) >= Capacity /\ entries[key] = NoEntry

-----------------------------------------------------------------------------
Init ==
    /\ now = 0
    /\ entries = [k \in Key |-> NoEntry]
    /\ lru = [k \in Key |-> NoEntry]
    /\ older = {}
    /\ stats = [lookups |-> 0, hits |-> 0, misses |-> 0, current_size |-> 0,
                evictions |-> 0, expirations |-> 0, insertions |-> 0]
    /\ reading = FALSE
    /\ ret = [key |-> NoEntry, entry |-> NoEntry]

\* LruCache::get has already promoted an expired entry when it is popped.
FindByName(key) ==
    /\ Idle
    /\ stats.lookups < MaxLookups
    /\ IF lru[key] = NoEntry
       THEN /\ stats' = CountMiss
            /\ ret' = Nothing(key)
            /\ UNCHANGED <<entries, lru, older>>
       ELSE IF IsExpired(lru[key])
       THEN /\ lru' = Without(lru, {key})
            /\ older' = Forget(older, {key})
            /\ entries' = Without(entries, {key})
            /\ stats' = CountExpired
            /\ ret' = Nothing(key)
       ELSE /\ older' = Touch(key)
            /\ stats' = CountHit
            /\ ret' = [key |-> key, entry |-> lru[key]]
            /\ UNCHANGED <<entries, lru>>
    /\ UNCHANGED <<now, reading>>

\* The table is scanned in hash order: whichever match comes first decides.
FindByAddr(addr) ==
    LET matches == {k \in Cached(entries) : entries[k].addr = addr}
    IN /\ Idle
       /\ stats.lookups < MaxLookups
       /\ \/ /\ matches = {}
             /\ stats' = CountMiss
             /\ ret' = Nothing(NoEntry)
             /\ UNCHANGED older
          \/ \E first \in matches :
                /\ IsExpired(entries[first])
                /\ stats' = CountExpired
                /\ ret' = Nothing(NoEntry)
                /\ UNCHANGED older
          \/ \E first \in matches :
                /\ ~IsExpired(entries[first])
                /\ older' = Touch(first)
                /\ stats' = CountHit
                /\ ret' = [key |-> first, entry |-> entries[first]]
       /\ UNCHANGED <<now, entries, lru, reading>>

\* insert, with the evict_lru it calls when the table is full and the key new
Insert(key, entry) ==
    /\ stats.insertions < MaxInserts
    /\ \E out \in IF NeedsEviction(key) THEN Oldest(lru, older) ELSE {{}} :
       LET kept == Without(lru, out)
           order == Forget(older, out)
       IN \E spilled \in Overflow(kept, order, key) :
          /\ entries' = [Without(entries, out) EXCEPT ![key] = entry]
          /\ lru' = [Without(kept, spilled) EXCEPT ![key] = entry]
          /\ older' = Promote(Forget(order, spilled), Without(kept, spilled), key)
          /\ stats' = [stats EXCEPT !.evictions = @ + Cardinality(out),
                                    !.insertions = @ + 1,
                                    !.current_size = Cardinality(Cached(entries'))]
    /\ ret' = Nothing(key)
    /\ UNCHANGED now

InsertUpstream(key, addr, ttl) ==
    /\ Idle
    /\ Insert(key, NewEntry(addr, ttl, "upstream"))
    /\ UNCHANGED reading

AddDhcpEntry(key, addr, ttl) ==
    /\ Idle
    /\ Insert(key, NewEntry(addr, ttl, "dhcp"))
    /\ UNCHANGED reading

RemoveDhcpEntry(key) ==
    /\ Idle
    /\ entries[key] # NoEntry
    /\ entries[key].source = "dhcp"
    /\ entries' = Without(entries, {key})
    /\ lru' = Without(lru, {key})
    /\ older' = Forget(older, {key})
    /\ stats' = [stats EXCEPT !.current_size = Cardinality(Cached(entries'))]
    /\ ret' = Nothing(key)
    /\ UNCHANGED <<now, reading>>

\* The public evict_lru
EvictLru ==
    /\ Idle
    /\ \E out \in Oldest(lru, older) :
          /\ out # {}
          /\ lru' = Without(lru, out)
          /\ older' = Forget(older, out)
          /\ entries' = Without(entries, out)
          /\ stats' = [stats EXCEPT !.evictions = @ + 1,
                                    !.current_size = Cardinality(Cached(entries'))]
    /\ ret' = Nothing(NoEntry)
    /\ UNCHANGED <<now, reading>>

\* prune_expired removes every expired entry, evict_expired an arbitrary one.
RemoveExpired(gone) ==
    /\ Idle
    /\ gone # {}
    /\ entries' = Without(entries, gone)
    /\ lru' = Without(lru, gone)
    /\ older' = Forget(older, gone)
    /\ stats' = [stats EXCEPT !.expirations = @ + Cardinality(gone),
                              !.current_size = Cardinality(Cached(entries'))]
    /\ ret' = Nothing(NoEntry)
    /\ UNCHANGED <<now, reading>>

EvictExpired == \E key \in Expired : RemoveExpired({key})

PruneExpired == RemoveExpired(Expired)

Clear ==
    /\ Idle
    /\ entries' = [k \in Key |-> NoEntry]
    /\ lru' = [k \in Key |-> NoEntry]
    /\ older' = {}
    /\ stats' = [stats EXCEPT !.current_size = 0]
    /\ ret' = Nothing(NoEntry)
    /\ UNCHANGED <<now, reading>>

\* refresh_from_hosts: the file is opened, each of its names is inserted, and
\* the end of the file or a read error gives the guard back.  A file that
\* cannot be opened changes nothing.
OpenHosts ==
    /\ Idle
    /\ reading' = TRUE
    /\ UNCHANGED <<now, entries, lru, older, stats, ret>>

LoadHost(key, addr) ==
    /\ reading
    /\ Insert(key, NewEntry(addr, HostsTtl, "hosts"))
    /\ UNCHANGED reading

CloseHosts ==
    /\ reading
    /\ reading' = FALSE
    /\ UNCHANGED <<now, entries, lru, older, stats, ret>>

Tick ==
    /\ now < MaxTime
    /\ now' = now + 1
    /\ UNCHANGED <<entries, lru, older, stats, reading, ret>>

Next ==
    \/ \E key \in Key : FindByName(key) \/ RemoveDhcpEntry(key)
    \/ \E addr \in Addr : FindByAddr(addr)
    \/ \E key \in Key, addr \in Addr \cup {NoAddr}, ttl \in 0..MaxTtl :
          InsertUpstream(key, addr, ttl)
    \/ \E key \in Key, addr \in Addr, ttl \in 0..MaxTtl : AddDhcpEntry(key, addr, ttl)
    \/ \E key \in Key, addr \in Addr : LoadHost(key, addr)
    \/ EvictLru \/ EvictExpired \/ PruneExpired \/ Clear
    \/ OpenHosts \/ CloseHosts
    \/ Tick

Spec == Init /\ [][Next]_vars

-----------------------------------------------------------------------------
(* Properties *)

\* Every variable keeps its type; the LRU list is over keys.
TypeOK ==
    /\ now \in Nat
    /\ entries \in [Key -> Entry \cup {NoEntry}]
    /\ lru \in [Key -> Entry \cup {NoEntry}]
    /\ older \in SUBSET (Key \X Key)
    /\ stats \in Stats
    /\ reading \in BOOLEAN
    /\ ret \in [key : Key \cup {NoEntry}, entry : Entry \cup {NoEntry}]

\* A strict total order on S, the shape of a list without repetitions.
TotalOn(order, S) ==
    /\ order \subseteq S \X S
    /\ \A a \in S : <<a, a>> \notin order
    /\ \A a, b \in S : a # b => (<<a, b>> \in order <=> <<b, a>> \notin order)
    /\ \A a, b, c \in S : <<a, b>> \in order /\ <<b, c>> \in order => <<a, c>> \in order

\* The hash table and the LRU index hold the same record under the same key
\* after every call: each of the six places that remove a record from one of
\* them (find_by_name, insert, evict_lru, evict_expired, prune_expired,
\* remove_dhcp_entry) must remove it from the other, and the LRU list must
\* order exactly the keys that are left.
TablesAgree == lru = entries /\ TotalOn(older, Cached(lru))

\* insert never lets the table outgrow the configured size.
WithinCapacity == Cardinality(Cached(entries)) <= Capacity

\* The counters that SIGUSR1 and D-Bus report balance: every lookup is a hit or
\* a miss, and a record can be evicted only once per insertion.
Accounting ==
    /\ stats.lookups = stats.hits + stats.misses
    /\ stats.evictions + Cardinality(Cached(entries)) <= stats.insertions

\* The cache implements the store its callers are promised.
Promise == INSTANCE NameStore WITH
    Limit <- Capacity, clock <- now, store <- lru, reply <- ret

PromiseKept == Promise!StoreSpec

=============================================================================
