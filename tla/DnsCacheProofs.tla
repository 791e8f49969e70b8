--------------------------- MODULE DnsCacheProofs ---------------------------
(***************************************************************************)
(* Proofs about the DNS cache, for every set of keys and addresses, every  *)
(* capacity and every bound.                                               *)
(***************************************************************************)
EXTENDS MCDnsCache, NamePatterns, FiniteSetTheorems, WellFoundedInduction, TLAPS

TheoremsOf == INSTANCE SequenceTheorems

Table == [Key -> Entry \cup {NoEntry}]

-----------------------------------------------------------------------------
(* Tables *)

\* Removing keys from a table (HashMap::remove, LruCache::pop) leaves a table
\* that holds the other keys.
LEMMA WithoutTable ==
    ASSUME NEW table \in Table, NEW gone
    PROVE  /\ Without(table, gone) \in Table
           /\ Cached(Without(table, gone)) = Cached(table) \ gone
BY DEF Table, Without, Cached

\* Storing an entry (HashMap::insert, LruCache::put) adds its key.
LEMMA PutTable ==
    ASSUME NEW table \in Table, NEW key \in Key, NEW entry \in Entry
    PROVE  /\ [table EXCEPT ![key] = entry] \in Table
           /\ Cached([table EXCEPT ![key] = entry]) = Cached(table) \cup {key}
BY NoEntryAssumption DEF Table, Cached

\* What a table holds is a finite set of keys.
LEMMA CachedFinite ==
    ASSUME NEW table
    PROVE  IsFiniteSet(Cached(table)) /\ Cardinality(Cached(table)) \in Nat
<1>1. Cached(table) \in SUBSET Key
  BY DEF Cached
<1> QED
  BY <1>1, KeyAssumption, FS_Subset, FS_CardinalityType

-----------------------------------------------------------------------------
(* The LRU list *)

\* Popping keys keeps the order of the others.
LEMMA ForgetOrder ==
    ASSUME NEW S, NEW order, TotalOn(order, S), NEW gone
    PROVE  TotalOn(Forget(order, gone), S \ gone)
BY DEF TotalOn, Forget

\* Moving a key to the recently used end keeps a total order.
LEMMA PromoteOrder ==
    ASSUME NEW table \in Table, NEW order, TotalOn(order, Cached(table)),
           NEW key \in Key
    PROVE  TotalOn(Promote(order, table, key), Cached(table) \cup {key})
<1> DEFINE others == Cached(table) \ {key}
           kept == Forget(order, {key})
<1>1. TotalOn(kept, others)
  BY ForgetOrder
<1>2. Promote(order, table, key) = kept \cup {<<k, key>> : k \in others}
  BY DEF Promote
<1>3. Cached(table) \cup {key} = others \cup {key}
  OBVIOUS
<1>4. TotalOn(kept \cup {<<k, key>> : k \in others}, others \cup {key})
  <2> HIDE DEF others, kept
  <2> key \notin others
    BY DEF others
  <2> QED
    BY <1>1 DEF TotalOn
<1> QED
  BY <1>2, <1>3, <1>4

\* evict_lru removes at most one key, and one that is cached.
LEMMA OldestAtMostOne ==
    ASSUME NEW table \in Table, NEW order, NEW out \in Oldest(table, order)
    PROVE  \/ out = {} /\ Cached(table) = {}
           \/ \E k \in Cached(table) : out = {k}
BY DEF Oldest

-----------------------------------------------------------------------------
(* The invariant *)

\* What the proof carries from step to step.  TablesAgree alone is not
\* inductive: that LruCache::put finds room, and so drops nothing behind the
\* hash table's back, needs WithinCapacity, and both need the types.
CacheInv == TypeOK /\ TablesAgree /\ WithinCapacity /\ Accounting

\* A call that removes the same keys from both tables.
LEMMA RemovalKeepsTables ==
    ASSUME CacheInv, NEW gone,
           entries' = Without(entries, gone),
           lru' = Without(lru, gone),
           older' = Forget(older, gone)
    PROVE  /\ entries' \in Table /\ lru' \in Table /\ older' \in SUBSET (Key \X Key)
           /\ TablesAgree' /\ WithinCapacity'
           /\ Cached(entries') = Cached(entries) \ gone
           /\ Cardinality(Cached(entries')) \in Nat
           /\ Cardinality(Cached(entries')) <= Cardinality(Cached(entries))
<1>1. entries \in Table /\ lru \in Table
  BY DEF CacheInv, TypeOK, Table
<1>2. /\ entries' \in Table /\ lru' \in Table
      /\ Cached(entries') = Cached(entries) \ gone
      /\ Cached(lru') = Cached(lru) \ gone
  BY <1>1, WithoutTable
<1>3. TotalOn(older', Cached(lru'))
  BY <1>2, ForgetOrder DEF CacheInv, TablesAgree
<1>4. TablesAgree'
  BY <1>3 DEF CacheInv, TablesAgree
<1>5. older' \in SUBSET (Key \X Key)
  BY DEF CacheInv, TypeOK, Forget
<1>6. /\ Cardinality(Cached(entries')) \in Nat
      /\ Cardinality(Cached(entries)) \in Nat
      /\ IsFiniteSet(Cached(entries))
  BY CachedFinite
<1>7. Cardinality(Cached(entries')) <= Cardinality(Cached(entries))
  <2>1. Cached(entries') \in SUBSET Cached(entries)
    BY <1>2
  <2> QED
    BY <1>6, <2>1, FS_Subset
<1>8. WithinCapacity'
  BY <1>6, <1>7, CapacityAssumption DEF CacheInv, WithinCapacity
<1> QED
  BY <1>2, <1>4, <1>5, <1>6, <1>7, <1>8

\* The key at the least recently used end of the list.
First(v) == \A y \in Cached(entries) : <<y, v>> \notin older

\* What insert does when it evicts the keys `out' to make room.
InsertEvicting(key, entry, out) ==
    /\ \/ out = {} /\ (entries[key] = NoEntry => Cardinality(Cached(entries)) < Capacity)
       \/ NeedsEviction(key) /\ \E v \in Cached(entries) : out = {v} /\ First(v)
    /\ entries' = [Without(entries, out) EXCEPT ![key] = entry]
    /\ lru' = [Without(lru, out) EXCEPT ![key] = entry]
    /\ older' = Promote(Forget(older, out), Without(lru, out), key)
    /\ stats' = [stats EXCEPT !.evictions = @ + Cardinality(out),
                              !.insertions = @ + 1,
                              !.current_size = Cardinality(Cached(entries'))]

\* insert makes room itself, so that LruCache::put never has to: it evicts
\* nothing, or one cached key when the table is full and the key is new.
LEMMA InsertShape ==
    ASSUME CacheInv, NEW key \in Key, NEW entry \in Entry, Insert(key, entry)
    PROVE  \E out : InsertEvicting(key, entry, out)
<1>1. entries \in Table /\ lru \in Table /\ lru = entries
  BY DEF CacheInv, TypeOK, Table, TablesAgree
<1>2. PICK out \in IF NeedsEviction(key) THEN Oldest(lru, older) ELSE {{}} :
         LET kept == Without(lru, out)
             order == Forget(older, out)
         IN \E spilled \in Overflow(kept, order, key) :
            /\ entries' = [Without(entries, out) EXCEPT ![key] = entry]
            /\ lru' = [Without(kept, spilled) EXCEPT ![key] = entry]
            /\ older' = Promote(Forget(order, spilled), Without(kept, spilled), key)
            /\ stats' = [stats EXCEPT !.evictions = @ + Cardinality(out),
                                      !.insertions = @ + 1,
                                      !.current_size = Cardinality(Cached(entries'))]
  BY DEF Insert
<1> DEFINE kept == Without(lru, out)
           order == Forget(older, out)
           n == Cardinality(Cached(entries))
           m == Cardinality(Cached(kept))
<1>3. n \in Nat /\ m \in Nat /\ IsFiniteSet(Cached(entries)) /\ n <= Capacity
  BY CachedFinite DEF CacheInv, WithinCapacity
<1>4. kept \in Table /\ Cached(kept) = Cached(entries) \ out
  BY <1>1, WithoutTable
<1>5. \/ out = {} /\ (entries[key] = NoEntry => n < Capacity)
      \/ NeedsEviction(key) /\ \E v \in Cached(entries) : out = {v} /\ First(v)
  <2>1. CASE NeedsEviction(key)
    <3>1. \/ out = {} /\ Cached(lru) = {}
          \/ \E v \in Cached(lru) : out = {v} /\ First(v)
      BY <1>1, <1>2, <2>1 DEF Oldest, First
    <3>2. n # 0
      BY <1>3, <2>1, CapacityAssumption DEF NeedsEviction
    <3>3. Cached(lru) # {}
      BY <3>2, <1>1, FS_EmptySet
    <3> QED
      BY <3>1, <3>3, <2>1, <1>1
  <2>2. CASE ~NeedsEviction(key)
    BY <1>2, <2>2, <1>3, CapacityAssumption DEF NeedsEviction
  <2> QED
    BY <2>1, <2>2
<1>6. ~(kept[key] = NoEntry /\ m >= Capacity)
  <2>1. CASE out = {} /\ (entries[key] = NoEntry => n < Capacity)
    <3>1. kept[key] = entries[key] /\ Cached(kept) = Cached(entries)
      BY <1>1, <1>4, <2>1 DEF Without
    <3>2. m = n
      BY <3>1
    <3> QED
      BY <3>1, <3>2, <2>1, <1>3, CapacityAssumption
  <2>2. ASSUME NEW v \in Cached(entries), out = {v}
        PROVE  m < Capacity
    <3>1. Cardinality(Cached(entries) \ {v}) = n - 1
      BY <1>3, FS_RemoveElement
    <3> QED
      <4>1. Cached(kept) = Cached(entries) \ {v}
        BY <2>2, <1>4
      <4>2. m = n - 1
        BY <3>1, <4>1
      <4> QED
        BY <4>2, <1>3, CapacityAssumption
  <2> QED
    BY <1>3, <1>5, <2>1, <2>2, CapacityAssumption
<1>7. Overflow(kept, order, key) = {{}}
  BY <1>6 DEF Overflow
<1>8. Without(kept, {}) = kept /\ Forget(order, {}) = order
  BY <1>4 DEF Without, Table, Forget
<1>9. InsertEvicting(key, entry, out)
  BY <1>2, <1>5, <1>7, <1>8 DEF InsertEvicting
<1> QED
  BY <1>9

\* insert keeps the two tables together and within capacity, and each record
\* it evicts was inserted before.
LEMMA InsertKeeps ==
    ASSUME CacheInv, NEW key \in Key, NEW entry \in Entry, Insert(key, entry),
           reading' \in BOOLEAN
    PROVE  CacheInv'
<1>1. entries \in Table /\ lru \in Table /\ lru = entries /\ TotalOn(older, Cached(lru))
  BY DEF CacheInv, TypeOK, Table, TablesAgree
<1>2a. PICK out : InsertEvicting(key, entry, out)
  BY InsertShape
<1>2. /\ \/ out = {} /\ (entries[key] = NoEntry => Cardinality(Cached(entries)) < Capacity)
         \/ NeedsEviction(key) /\ \E v \in Cached(entries) : out = {v} /\ First(v)
      /\ entries' = [Without(entries, out) EXCEPT ![key] = entry]
      /\ lru' = [Without(lru, out) EXCEPT ![key] = entry]
      /\ older' = Promote(Forget(older, out), Without(lru, out), key)
      /\ stats' = [stats EXCEPT !.evictions = @ + Cardinality(out),
                                !.insertions = @ + 1,
                                !.current_size = Cardinality(Cached(entries'))]
  BY <1>2a DEF InsertEvicting
<1> DEFINE kept == Without(lru, out)
           n == Cardinality(Cached(entries))
           size == Cardinality(Cached(entries'))
<1>3. n \in Nat /\ size \in Nat /\ IsFiniteSet(Cached(entries)) /\ n <= Capacity
  BY CachedFinite DEF CacheInv, WithinCapacity
<1>4. kept \in Table /\ Cached(kept) = Cached(entries) \ out
      /\ TotalOn(Forget(older, out), Cached(kept))
  BY <1>1, WithoutTable, ForgetOrder
<1>5. /\ entries' \in Table /\ lru' = entries'
      /\ Cached(entries') = (Cached(entries) \ out) \cup {key}
  <2>1. entries' = [kept EXCEPT ![key] = entry] /\ lru' = [kept EXCEPT ![key] = entry]
    BY <1>1, <1>2
  <2> HIDE DEF kept
  <2> QED
    BY <2>1, <1>4, PutTable
<1>6. TotalOn(older', Cached(lru'))
  <2>1. TotalOn(Promote(Forget(older, out), kept, key), Cached(kept) \cup {key})
    BY <1>4, PromoteOrder
  <2> QED
    BY <2>1, <1>2, <1>4, <1>5
<1>7. /\ Cardinality(out) \in Nat
      /\ Cardinality(out) + size <= n + 1
      /\ size <= Capacity
  <2>1. CASE out = {} /\ (entries[key] = NoEntry => n < Capacity)
    <3>1. Cardinality(out) = 0 /\ Cached(entries') = Cached(entries) \cup {key}
      BY <2>1, <1>5, FS_EmptySet
    <3>2. size = IF key \in Cached(entries) THEN n ELSE n + 1
      BY <3>1, <1>3, FS_AddElement, SMTT(30)
    <3>3. key \in Cached(entries) <=> entries[key] # NoEntry
      BY DEF Cached
    <3> QED
      BY <3>1, <3>2, <3>3, <2>1, <1>3, CapacityAssumption
  <2>2. CASE NeedsEviction(key) /\ \E v \in Cached(entries) : out = {v}
    <3>1. PICK v \in Cached(entries) : out = {v}
      BY <2>2
    <3>2. /\ Cardinality(out) = 1
          /\ Cardinality(Cached(entries) \ {v}) = n - 1
          /\ IsFiniteSet(Cached(entries) \ {v})
      <4>1. Cardinality({v}) = 1
        BY FS_Singleton
      <4>2. /\ Cardinality(Cached(entries) \ {v}) = n - 1
            /\ IsFiniteSet(Cached(entries) \ {v})
        BY <1>3, FS_RemoveElement
      <4> QED
        BY <3>1, <4>1, <4>2
    <3>3. Cardinality((Cached(entries) \ {v}) \cup {key}) <= n
      <4> DEFINE rest == Cached(entries) \ {v}
      <4> HIDE DEF rest
      <4>1. Cardinality(rest \cup {key}) = IF key \in rest THEN Cardinality(rest)
                                           ELSE Cardinality(rest) + 1
        BY <3>2, FS_AddElement DEF rest
      <4>2. Cardinality(rest) = n - 1
        BY <3>2 DEF rest
      <4>3. Cardinality(rest \cup {key}) <= n
        BY <4>1, <4>2, <1>3
      <4> QED
        BY <4>3 DEF rest
    <3> QED
      BY <3>1, <3>2, <3>3, <1>3, <1>5, CapacityAssumption
  <2> QED
    BY <1>2, <2>1, <2>2
<1>8. WithinCapacity'
  BY <1>7 DEF WithinCapacity
<1>9. stats \in Stats /\ stats.evictions + n <= stats.insertions
      /\ stats.lookups = stats.hits + stats.misses
  BY DEF CacheInv, TypeOK, Accounting
<1>10. /\ stats' \in Stats
       /\ stats'.lookups = stats.lookups /\ stats'.hits = stats.hits
       /\ stats'.misses = stats.misses /\ stats'.insertions = stats.insertions + 1
       /\ stats'.evictions = stats.evictions + Cardinality(out)
  <2> DEFINE ev == stats.evictions + Cardinality(out)
             ins == stats.insertions + 1
  <2>1. size \in Nat /\ ev \in Nat /\ ins \in Nat
    BY <1>3, <1>7, <1>9 DEF Stats
  <2>2. stats' = [stats EXCEPT !.evictions = ev, !.insertions = ins, !.current_size = size]
    BY <1>2
  <2> HIDE DEF size, ev, ins
  <2>3. /\ stats' \in Stats
        /\ stats'.lookups = stats.lookups /\ stats'.hits = stats.hits
        /\ stats'.misses = stats.misses /\ stats'.insertions = ins
        /\ stats'.evictions = ev
    BY <2>1, <2>2, <1>9 DEF Stats
  <2> QED
    BY <2>3 DEF ins, ev
<1>11. Accounting'
  <2>1. stats.evictions \in Nat /\ stats.insertions \in Nat
    BY <1>9 DEF Stats
  <2> QED
    BY <2>1, <1>3, <1>7, <1>9, <1>10 DEF Accounting
<1>12. TablesAgree'
  BY <1>5, <1>6 DEF TablesAgree
<1>13. older' \in SUBSET (Key \X Key)
  BY <1>5, <1>6 DEF TotalOn, Cached
<1>14. now' = now /\ ret' = Nothing(key)
  BY DEF Insert
<1>15. TypeOK'
  BY <1>5, <1>10, <1>13, <1>14 DEF CacheInv, TypeOK, Table, Nothing
<1> QED
  BY <1>8, <1>11, <1>12, <1>15 DEF CacheInv

-----------------------------------------------------------------------------
(* The other calls *)

\* What a lookup does to the counters.
LEMMA LookupCounters ==
    ASSUME stats \in Stats, stats.lookups = stats.hits + stats.misses,
           NEW c \in {CountHit, CountMiss, CountExpired}
    PROVE  /\ c \in Stats
           /\ c.lookups = c.hits + c.misses
           /\ c.evictions = stats.evictions
           /\ c.insertions = stats.insertions
<1>1. /\ stats.lookups \in Nat /\ stats.hits \in Nat /\ stats.misses \in Nat
      /\ stats.expirations \in Nat
  BY DEF Stats
<1>2. c \in Stats
  <2> DEFINE l == stats.lookups + 1
             h == stats.hits + 1
             m == stats.misses + 1
             x == stats.expirations + 1
  <2>1. l \in Nat /\ h \in Nat /\ m \in Nat /\ x \in Nat
    BY <1>1
  <2>2. c \in {[stats EXCEPT !.lookups = l, !.hits = h],
               [stats EXCEPT !.lookups = l, !.misses = m],
               [stats EXCEPT !.lookups = l, !.misses = m, !.expirations = x]}
    BY DEF CountHit, CountMiss, CountExpired
  <2> HIDE DEF l, h, m, x
  <2> QED
    BY <2>1, <2>2 DEF Stats
<1>3. c.evictions = stats.evictions /\ c.insertions = stats.insertions
  BY DEF Stats, CountHit, CountMiss, CountExpired
<1>4. /\ c.lookups = stats.lookups + 1
      /\ \/ c.hits = stats.hits + 1 /\ c.misses = stats.misses
         \/ c.hits = stats.hits /\ c.misses = stats.misses + 1
  BY DEF Stats, CountHit, CountMiss, CountExpired
<1>5. c.lookups = c.hits + c.misses
  BY <1>1, <1>4
<1> QED
  BY <1>2, <1>3, <1>5

\* A call that leaves both tables alone and at most reorders the LRU list.
LEMMA ReorderKeeps ==
    ASSUME CacheInv,
           entries' = entries, lru' = lru, TotalOn(older', Cached(lru)),
           stats' \in Stats, stats'.lookups = stats'.hits + stats'.misses,
           stats'.evictions = stats.evictions, stats'.insertions = stats.insertions,
           now' = now, reading' = reading,
           ret' \in [key : Key \cup {NoEntry}, entry : Entry \cup {NoEntry}]
    PROVE  CacheInv'
<1>1. Cached(entries') = Cached(entries) /\ Cached(lru') = Cached(lru)
  BY DEF Cached
<1>2. older' \in SUBSET (Key \X Key)
  BY DEF TotalOn, Cached
<1>3. TypeOK'
  BY <1>2 DEF CacheInv, TypeOK
<1>4. TablesAgree'
  BY <1>1 DEF CacheInv, TablesAgree
<1>5. WithinCapacity' /\ Accounting'
  BY <1>1 DEF CacheInv, WithinCapacity, Accounting
<1> QED
  BY <1>3, <1>4, <1>5 DEF CacheInv

\* A lookup by name: a miss, an expired record that both tables give up, or a
\* hit that only moves the key in the LRU list.
LEMMA FindByNameKeeps ==
    ASSUME CacheInv, NEW key \in Key, FindByName(key)
    PROVE  CacheInv'
<1>1. stats \in Stats /\ stats.lookups = stats.hits + stats.misses
      /\ stats.evictions + Cardinality(Cached(entries)) <= stats.insertions
      /\ Cardinality(Cached(entries)) \in Nat
  BY CachedFinite DEF CacheInv, TypeOK, Accounting
<1>2. entries \in Table /\ lru \in Table /\ now' = now /\ reading' = reading
  BY DEF CacheInv, TypeOK, Table, FindByName
<1>3. CASE lru[key] = NoEntry
  <2>1. /\ stats' = CountMiss /\ ret' = Nothing(key)
        /\ entries' = entries /\ lru' = lru /\ older' = older
    BY <1>3 DEF FindByName
  <2>2. /\ stats' \in Stats /\ stats'.lookups = stats'.hits + stats'.misses
        /\ stats'.evictions = stats.evictions /\ stats'.insertions = stats.insertions
    BY <1>1, <2>1, LookupCounters
  <2>3. ret' \in [key : Key \cup {NoEntry}, entry : Entry \cup {NoEntry}]
    BY <2>1 DEF Nothing
  <2>4. TotalOn(older', Cached(lru))
    BY <2>1 DEF CacheInv, TablesAgree
  <2> QED
    BY <1>2, <2>1, <2>2, <2>3, <2>4, ReorderKeeps
<1>4. CASE lru[key] # NoEntry /\ IsExpired(lru[key])
  <2>1. /\ stats' = CountExpired /\ ret' = Nothing(key)
        /\ lru' = Without(lru, {key}) /\ older' = Forget(older, {key})
        /\ entries' = Without(entries, {key})
    BY <1>4 DEF FindByName
  <2>2. /\ entries' \in Table /\ lru' \in Table /\ older' \in SUBSET (Key \X Key)
        /\ TablesAgree' /\ WithinCapacity'
        /\ Cardinality(Cached(entries')) \in Nat
        /\ Cardinality(Cached(entries')) <= Cardinality(Cached(entries))
    BY <2>1, RemovalKeepsTables
  <2>3. /\ stats' \in Stats /\ stats'.lookups = stats'.hits + stats'.misses
        /\ stats'.evictions = stats.evictions /\ stats'.insertions = stats.insertions
    BY <1>1, <2>1, LookupCounters
  <2>4. TypeOK'
    BY <1>2, <2>1, <2>2, <2>3 DEF CacheInv, TypeOK, Nothing, Table
  <2>5. Accounting'
    BY <1>1, <2>2, <2>3 DEF Accounting, Stats
  <2> QED
    BY <2>2, <2>4, <2>5 DEF CacheInv
<1>5. CASE lru[key] # NoEntry /\ ~IsExpired(lru[key])
  <2>1. /\ stats' = CountHit /\ ret' = [key |-> key, entry |-> lru[key]]
        /\ entries' = entries /\ lru' = lru /\ older' = Promote(older, lru, key)
    BY <1>5 DEF FindByName, Touch
  <2>2. Cached(lru) \cup {key} = Cached(lru)
    BY <1>5 DEF Cached
  <2>3. TotalOn(older', Cached(lru))
    BY <1>2, <2>1, <2>2, PromoteOrder DEF CacheInv, TablesAgree
  <2>4. /\ stats' \in Stats /\ stats'.lookups = stats'.hits + stats'.misses
        /\ stats'.evictions = stats.evictions /\ stats'.insertions = stats.insertions
    BY <1>1, <2>1, LookupCounters
  <2>5. ret' \in [key : Key \cup {NoEntry}, entry : Entry \cup {NoEntry}]
    BY <1>2, <2>1 DEF Table
  <2> QED
    BY <1>2, <2>1, <2>3, <2>4, <2>5, ReorderKeeps
<1> QED
  BY <1>3, <1>4, <1>5

\* A lookup by address never removes a record.
LEMMA FindByAddrKeeps ==
    ASSUME CacheInv, NEW addr \in Addr, FindByAddr(addr)
    PROVE  CacheInv'
<1>1. stats \in Stats /\ stats.lookups = stats.hits + stats.misses
      /\ stats.evictions + Cardinality(Cached(entries)) <= stats.insertions
      /\ Cardinality(Cached(entries)) \in Nat
  BY CachedFinite DEF CacheInv, TypeOK, Accounting
<1>2. /\ entries \in Table /\ lru \in Table /\ now' = now /\ reading' = reading
      /\ entries' = entries /\ lru' = lru
  BY DEF CacheInv, TypeOK, Table, FindByAddr
<1>3. \/ older' = older /\ ret' = Nothing(NoEntry) /\ (stats' = CountMiss \/ stats' = CountExpired)
      \/ \E first \in Cached(entries) :
            /\ older' = Touch(first) /\ stats' = CountHit
            /\ ret' = [key |-> first, entry |-> entries[first]]
  BY DEF FindByAddr
<1>4. CASE older' = older /\ ret' = Nothing(NoEntry) /\ (stats' = CountMiss \/ stats' = CountExpired)
  <2>1. /\ stats' \in Stats /\ stats'.lookups = stats'.hits + stats'.misses
        /\ stats'.evictions = stats.evictions /\ stats'.insertions = stats.insertions
    BY <1>1, <1>4, LookupCounters
  <2>2. ret' \in [key : Key \cup {NoEntry}, entry : Entry \cup {NoEntry}]
    BY <1>4 DEF Nothing
  <2>3. TotalOn(older', Cached(lru))
    BY <1>4 DEF CacheInv, TablesAgree
  <2> QED
    BY <1>2, <2>1, <2>2, <2>3, ReorderKeeps
<1>5. ASSUME NEW first \in Cached(entries),
             older' = Touch(first), stats' = CountHit,
             ret' = [key |-> first, entry |-> entries[first]]
      PROVE  CacheInv'
  <2>1. first \in Key /\ lru[first] # NoEntry /\ lru = entries
    BY DEF CacheInv, TablesAgree, Cached
  <2>2. older' = Promote(older, lru, first)
    BY <1>5, <2>1 DEF Touch
  <2>3. Cached(lru) \cup {first} = Cached(lru)
    BY <2>1
  <2>4. TotalOn(older', Cached(lru))
    BY <1>2, <2>1, <2>2, <2>3, PromoteOrder DEF CacheInv, TablesAgree
  <2>5. /\ stats' \in Stats /\ stats'.lookups = stats'.hits + stats'.misses
        /\ stats'.evictions = stats.evictions /\ stats'.insertions = stats.insertions
    BY <1>1, <1>5, LookupCounters
  <2>6. ret' \in [key : Key \cup {NoEntry}, entry : Entry \cup {NoEntry}]
    BY <1>2, <1>5, <2>1 DEF Table
  <2> QED
    BY <1>2, <2>4, <2>5, <2>6, ReorderKeeps
<1> QED
  BY <1>3, <1>4, <1>5

\* Calls that remove records and count them as evicted, expired or neither.
LEMMA RemovalKeeps ==
    ASSUME CacheInv, NEW gone,
           entries' = Without(entries, gone),
           lru' = Without(lru, gone),
           older' = Forget(older, gone),
           stats' \in Stats,
           stats'.lookups = stats.lookups, stats'.hits = stats.hits,
           stats'.misses = stats.misses, stats'.insertions = stats.insertions,
           stats'.evictions + Cardinality(Cached(entries'))
              <= stats.evictions + Cardinality(Cached(entries)),
           now' = now, reading' = reading,
           ret' \in [key : Key \cup {NoEntry}, entry : Entry \cup {NoEntry}]
    PROVE  CacheInv'
<1>1. /\ entries' \in Table /\ lru' \in Table /\ older' \in SUBSET (Key \X Key)
      /\ TablesAgree' /\ WithinCapacity'
  BY RemovalKeepsTables
<1>2. TypeOK'
  BY <1>1 DEF CacheInv, TypeOK, Table
<1>3. stats \in Stats /\ Cardinality(Cached(entries)) \in Nat /\ Cardinality(Cached(entries')) \in Nat
  BY CachedFinite DEF CacheInv, TypeOK
<1>4. Accounting'
  BY <1>3 DEF CacheInv, Accounting, Stats
<1> QED
  BY <1>1, <1>2, <1>4 DEF CacheInv

-----------------------------------------------------------------------------
(* The theorem *)

\* evict_lru: one cached record leaves both tables and is counted once.
LEMMA EvictLruKeeps ==
    ASSUME CacheInv, EvictLru
    PROVE  CacheInv'
<1>1. PICK out \in Oldest(lru, older) :
         /\ out # {}
         /\ lru' = Without(lru, out) /\ older' = Forget(older, out)
         /\ entries' = Without(entries, out)
         /\ stats' = [stats EXCEPT !.evictions = @ + 1,
                                   !.current_size = Cardinality(Cached(entries'))]
  BY DEF EvictLru
<1>2. now' = now /\ reading' = reading /\ ret' = Nothing(NoEntry)
  BY DEF EvictLru
<1>3. lru \in Table /\ entries \in Table /\ lru = entries /\ stats \in Stats
  BY DEF CacheInv, TypeOK, TablesAgree, Table
<1>4. PICK k \in Cached(entries) : out = {k}
  BY <1>1, <1>3, OldestAtMostOne
<1>5. /\ Cardinality(Cached(entries')) \in Nat /\ Cardinality(Cached(entries)) \in Nat
      /\ Cached(entries') = Cached(entries) \ {k}
  BY <1>1, <1>4, RemovalKeepsTables, CachedFinite
<1>6. Cardinality(Cached(entries')) = Cardinality(Cached(entries)) - 1
  BY <1>5, CachedFinite, FS_RemoveElement
<1>7. /\ stats' \in Stats
      /\ stats'.lookups = stats.lookups /\ stats'.hits = stats.hits
      /\ stats'.misses = stats.misses /\ stats'.insertions = stats.insertions
      /\ stats'.evictions = stats.evictions + 1
  <2> DEFINE size == Cardinality(Cached(entries'))
             ev == stats.evictions + 1
  <2>1. size \in Nat /\ ev \in Nat
    BY <1>3, <1>5 DEF Stats
  <2>2. stats' = [stats EXCEPT !.evictions = ev, !.current_size = size]
    BY <1>1
  <2> HIDE DEF size, ev
  <2>3. /\ stats' \in Stats
        /\ stats'.lookups = stats.lookups /\ stats'.hits = stats.hits
        /\ stats'.misses = stats.misses /\ stats'.insertions = stats.insertions
        /\ stats'.evictions = ev
    BY <2>1, <2>2, <1>3 DEF Stats
  <2> QED
    BY <2>3 DEF ev
<1>8. stats'.evictions + Cardinality(Cached(entries'))
         <= stats.evictions + Cardinality(Cached(entries))
  <2>1. stats.evictions \in Nat
    BY <1>3 DEF Stats
  <2> QED
    BY <2>1, <1>5, <1>6, <1>7
<1>9. ret' \in [key : Key \cup {NoEntry}, entry : Entry \cup {NoEntry}]
  BY <1>2 DEF Nothing
<1> QED
  BY <1>1, <1>2, <1>7, <1>8, <1>9, RemovalKeeps

\* remove_dhcp_entry, evict_expired, prune_expired: the records that leave are
\* not counted as evictions.
LEMMA UncountedRemovalKeeps ==
    ASSUME CacheInv, NEW gone, NEW x \in Nat,
           entries' = Without(entries, gone),
           lru' = Without(lru, gone),
           older' = Forget(older, gone),
           stats' = [stats EXCEPT !.expirations = x,
                                  !.current_size = Cardinality(Cached(entries'))],
           now' = now, reading' = reading,
           ret' \in [key : Key \cup {NoEntry}, entry : Entry \cup {NoEntry}]
    PROVE  CacheInv'
<1>1. /\ Cardinality(Cached(entries')) \in Nat /\ Cardinality(Cached(entries)) \in Nat
      /\ Cardinality(Cached(entries')) <= Cardinality(Cached(entries))
  BY RemovalKeepsTables, CachedFinite
<1>2. stats \in Stats
  BY DEF CacheInv, TypeOK
<1>3. /\ stats' \in Stats
      /\ stats'.lookups = stats.lookups /\ stats'.hits = stats.hits
      /\ stats'.misses = stats.misses /\ stats'.insertions = stats.insertions
      /\ stats'.evictions = stats.evictions
  <2> DEFINE size == Cardinality(Cached(entries'))
  <2>1. size \in Nat /\ stats' = [stats EXCEPT !.expirations = x, !.current_size = size]
    BY <1>1
  <2> HIDE DEF size
  <2> QED
    BY <2>1, <1>2 DEF Stats
<1>4. stats.evictions \in Nat
  BY <1>2 DEF Stats
<1>5. stats'.evictions + Cardinality(Cached(entries'))
         <= stats.evictions + Cardinality(Cached(entries))
  BY <1>1, <1>3, <1>4
<1> QED
  BY <1>3, <1>5, RemovalKeeps

LEMMA RemoveDhcpEntryKeeps ==
    ASSUME CacheInv, NEW key \in Key, RemoveDhcpEntry(key)
    PROVE  CacheInv'
<1>1. stats \in Stats
  BY DEF CacheInv, TypeOK
<1>2. stats.expirations \in Nat /\ [stats EXCEPT !.expirations = stats.expirations] = stats
  BY <1>1 DEF Stats
<1>3. stats' = [stats EXCEPT !.expirations = stats.expirations,
                             !.current_size = Cardinality(Cached(entries'))]
  <2> DEFINE size == Cardinality(Cached(entries'))
  <2>1. stats' = [stats EXCEPT !.current_size = size]
    BY DEF RemoveDhcpEntry
  <2> HIDE DEF size
  <2>2. stats' = [stats EXCEPT !.expirations = stats.expirations, !.current_size = size]
    BY <1>1, <2>1 DEF Stats
  <2> QED
    BY <2>2 DEF size
<1>4. ret' \in [key : Key \cup {NoEntry}, entry : Entry \cup {NoEntry}]
  BY DEF RemoveDhcpEntry, Nothing
<1> QED
  BY <1>2, <1>3, <1>4, UncountedRemovalKeeps DEF RemoveDhcpEntry

LEMMA RemoveExpiredKeeps ==
    ASSUME CacheInv, NEW gone \in SUBSET Cached(entries), RemoveExpired(gone)
    PROVE  CacheInv'
<1>1. stats.expirations \in Nat
  BY DEF CacheInv, TypeOK, Stats
<1>2. Cardinality(gone) \in Nat
  BY CachedFinite, FS_Subset, FS_CardinalityType
<1>3. stats.expirations + Cardinality(gone) \in Nat
  BY <1>1, <1>2
<1>4. ret' \in [key : Key \cup {NoEntry}, entry : Entry \cup {NoEntry}]
  BY DEF RemoveExpired, Nothing
<1> QED
  BY <1>3, <1>4, UncountedRemovalKeeps DEF RemoveExpired

LEMMA ClearKeeps ==
    ASSUME CacheInv, Clear
    PROVE  CacheInv'
<1>1. /\ Cached(entries') = {} /\ Cached(lru') = {} /\ older' = {} /\ lru' = entries'
      /\ entries' \in Table
  BY DEF Clear, Cached, Table
<1>2. Cardinality(Cached(entries')) = 0
  BY <1>1, FS_EmptySet
<1>3. stats \in Stats /\ Cardinality(Cached(entries)) \in Nat
  BY CachedFinite DEF CacheInv, TypeOK
<1>4. /\ stats' \in Stats
      /\ stats'.lookups = stats.lookups /\ stats'.hits = stats.hits
      /\ stats'.misses = stats.misses /\ stats'.insertions = stats.insertions
      /\ stats'.evictions = stats.evictions
  BY <1>3 DEF Clear, Stats
<1>5. TypeOK'
  BY <1>1, <1>4 DEF CacheInv, TypeOK, Clear, Nothing, Table
<1>6. TablesAgree' /\ WithinCapacity'
  BY <1>1, <1>2, CapacityAssumption DEF TablesAgree, TotalOn, WithinCapacity
<1>7. Accounting'
  BY <1>2, <1>3, <1>4 DEF CacheInv, Accounting, Stats
<1> QED
  BY <1>5, <1>6, <1>7 DEF CacheInv

\* Every call keeps the invariant.
LEMMA NextKeeps ==
    ASSUME CacheInv, [Next]_vars
    PROVE  CacheInv'
<1>1. ASSUME NEW key \in Key, FindByName(key) PROVE CacheInv'
  BY <1>1, FindByNameKeeps
<1>2. ASSUME NEW key \in Key, RemoveDhcpEntry(key) PROVE CacheInv'
  BY <1>2, RemoveDhcpEntryKeeps
<1>3. ASSUME NEW addr \in Addr, FindByAddr(addr) PROVE CacheInv'
  BY <1>3, FindByAddrKeeps
<1>4. ASSUME NEW key \in Key, NEW addr \in Addr \cup {NoAddr}, NEW ttl \in 0..MaxTtl,
             InsertUpstream(key, addr, ttl)
      PROVE  CacheInv'
  <2>1. NewEntry(addr, ttl, "upstream") \in Entry /\ reading' \in BOOLEAN
    BY <1>4, BoundsAssumption DEF CacheInv, TypeOK, NewEntry, Entry, Sources, InsertUpstream
  <2> QED
    BY <1>4, <2>1, InsertKeeps DEF InsertUpstream
<1>5. ASSUME NEW key \in Key, NEW addr \in Addr, NEW ttl \in 0..MaxTtl,
             AddDhcpEntry(key, addr, ttl)
      PROVE  CacheInv'
  <2>1. NewEntry(addr, ttl, "dhcp") \in Entry /\ reading' \in BOOLEAN
    BY <1>5, BoundsAssumption DEF CacheInv, TypeOK, NewEntry, Entry, Sources, AddDhcpEntry
  <2> QED
    BY <1>5, <2>1, InsertKeeps DEF AddDhcpEntry
<1>6. ASSUME NEW key \in Key, NEW addr \in Addr, LoadHost(key, addr) PROVE CacheInv'
  <2>1. NewEntry(addr, HostsTtl, "hosts") \in Entry /\ reading' \in BOOLEAN
    BY <1>6, BoundsAssumption DEF CacheInv, TypeOK, NewEntry, Entry, Sources, LoadHost
  <2> QED
    BY <1>6, <2>1, InsertKeeps DEF LoadHost
<1>7. CASE EvictLru
  BY <1>7, EvictLruKeeps
<1>8. CASE EvictExpired
  <2>1. PICK key \in Expired : RemoveExpired({key})
    BY <1>8 DEF EvictExpired
  <2>2. {key} \in SUBSET Cached(entries)
    BY DEF Expired
  <2> QED
    BY <2>1, <2>2, RemoveExpiredKeeps
<1>9. CASE PruneExpired
  <2>1. Expired \in SUBSET Cached(entries)
    BY DEF Expired
  <2> QED
    BY <1>9, <2>1, RemoveExpiredKeeps DEF PruneExpired
<1>10. CASE Clear
  BY <1>10, ClearKeeps
<1>11. CASE OpenHosts \/ CloseHosts \/ Tick \/ UNCHANGED vars
  <2>1. /\ entries' = entries /\ lru' = lru /\ older' = older /\ stats' = stats /\ ret' = ret
        /\ now' \in Nat
    BY <1>11 DEF OpenHosts, CloseHosts, Tick, vars, CacheInv, TypeOK
  <2>0. reading' \in BOOLEAN
    BY <1>11 DEF OpenHosts, CloseHosts, Tick, vars, CacheInv, TypeOK
  <2>2. Cached(entries') = Cached(entries) /\ Cached(lru') = Cached(lru)
    BY <2>1 DEF Cached
  <2>3. TypeOK'
    BY <2>1, <2>0 DEF CacheInv, TypeOK
  <2>4. TablesAgree'
    BY <2>1, <2>2 DEF CacheInv, TablesAgree
  <2>5. WithinCapacity' /\ Accounting'
    BY <2>1, <2>2 DEF CacheInv, WithinCapacity, Accounting
  <2> QED
    BY <2>3, <2>4, <2>5 DEF CacheInv
<1> QED
  BY <1>1, <1>2, <1>3, <1>4, <1>5, <1>6, <1>7, <1>8, <1>9, <1>10, <1>11 DEF Next

\* The empty cache satisfies the invariant.
LEMMA InitEstablishes == Init => CacheInv
<1> SUFFICES ASSUME Init PROVE CacheInv
  OBVIOUS
<1>1. Cached(entries) = {} /\ Cached(lru) = {} /\ lru = entries /\ older = {}
  BY DEF Init, Cached
<1>2. Cardinality(Cached(entries)) = 0
  BY <1>1, FS_EmptySet
<1>3. TypeOK
  BY DEF Init, TypeOK, Stats
<1>4. TablesAgree /\ WithinCapacity
  BY <1>1, <1>2, CapacityAssumption DEF TablesAgree, TotalOn, WithinCapacity
<1>5. Accounting
  BY <1>2 DEF Init, Accounting
<1> QED
  BY <1>3, <1>4, <1>5 DEF CacheInv

\* For any keys, capacity and bounds: every call of cache.rs keeps the hash
\* table and the LRU index equal, the table within its configured size, and
\* the counters balanced.
THEOREM CacheInvariant == Spec => []CacheInv
<1>1. Init => CacheInv
  BY InitEstablishes
<1>2. CacheInv /\ [Next]_vars => CacheInv'
  BY NextKeeps
<1> QED
  BY <1>1, <1>2, PTL DEF Spec

\* Every call of cache.rs keeps the types of the table, the index and the counters.
THEOREM CacheTypes == Spec => []TypeOK
<1>1. CacheInv => TypeOK
  BY DEF CacheInv
<1> QED
  BY <1>1, CacheInvariant, PTL

\* Whatever calls are made in whatever order, every lookup was counted as a hit
\* or a miss, and no record was counted as evicted that was not inserted.
THEOREM CountersBalance == Spec => []Accounting
<1>1. CacheInv => Accounting
  BY DEF CacheInv
<1> QED
  BY <1>1, CacheInvariant, PTL

\* Whatever sequence of calls is made, the hash table and the LRU index of
\* DnsCache describe the same records in one total order.
THEOREM TablesAlwaysAgree == Spec => []TablesAgree
<1>1. CacheInv => TablesAgree
  BY DEF CacheInv
<1> QED
  BY <1>1, CacheInvariant, PTL

\* insert never lets the cache outgrow its configured size.
THEOREM AlwaysWithinCapacity == Spec => []WithinCapacity
<1>1. CacheInv => WithinCapacity
  BY DEF CacheInv
<1> QED
  BY <1>1, CacheInvariant, PTL

-----------------------------------------------------------------------------
(* The cache keeps the promise of NameStore. *)

\* Leaving out keys means the same in both modules.
LEMMA SameRemoval ==
    ASSUME NEW gone
    PROVE  Without(lru, gone) = Promise!Minus(gone)
BY DEF Without, Promise!Minus

LEMMA SameCardinality ==
    ASSUME NEW S
    PROVE  Promise!Cardinality(S) = Cardinality(S)
BY DEF Promise!Cardinality, Cardinality

LEMMA FindByNameRefines ==
    ASSUME CacheInv, NEW key \in Key, FindByName(key)
    PROVE  Promise!LookupName(key)
<1>1. lru \in Table /\ now \in Nat
  BY DEF CacheInv, TypeOK, Table
<1>2. CASE lru[key] = NoEntry
  <2>1. Without(lru, {key}) = lru
    BY <1>1, <1>2 DEF Without, Table
  <2>2. lru' = Promise!Minus({key})
    BY <1>2, <2>1, SameRemoval DEF FindByName
  <2> QED
    BY <1>2, <2>2 DEF FindByName, Nothing, Promise!LookupName, Promise!Live
<1>3. CASE lru[key] # NoEntry /\ IsExpired(lru[key])
  <2>1. lru' = Promise!Minus({key})
    BY <1>3, SameRemoval DEF FindByName
  <2>2. lru[key].expiry \in Nat
    BY <1>1, <1>3 DEF Table, Entry
  <2> QED
    BY <1>1, <1>3, <2>1, <2>2
    DEF FindByName, Nothing, IsExpired, Promise!LookupName, Promise!Live
<1>4. CASE lru[key] # NoEntry /\ ~IsExpired(lru[key])
  <2>1. lru[key].expiry \in Nat
    BY <1>1, <1>4 DEF Table, Entry
  <2> QED
    BY <1>1, <1>4, <2>1 DEF FindByName, IsExpired, Promise!LookupName, Promise!Live
<1> QED
  BY <1>2, <1>3, <1>4

LEMMA FindByAddrRefines ==
    ASSUME CacheInv, NEW addr \in Addr, FindByAddr(addr)
    PROVE  Promise!LookupAddr(addr)
<1>1. lru \in Table /\ lru = entries /\ now \in Nat /\ now' = now /\ lru' = lru
  BY DEF CacheInv, TypeOK, TablesAgree, Table, FindByAddr
<1>2. \/ ret' = Nothing(NoEntry)
      \/ \E first \in Cached(entries) :
            /\ entries[first].addr = addr /\ ~IsExpired(entries[first])
            /\ ret' = [key |-> first, entry |-> entries[first]]
  BY DEF FindByAddr
<1>3. CASE ret' = Nothing(NoEntry)
  BY <1>1, <1>3 DEF Nothing, Promise!LookupAddr
<1>4. ASSUME NEW first \in Cached(entries),
             entries[first].addr = addr, ~IsExpired(entries[first]),
             ret' = [key |-> first, entry |-> entries[first]]
      PROVE  Promise!LookupAddr(addr)
  <2>1. first \in Key /\ lru[first] # NoEntry /\ lru[first].expiry \in Nat
    BY <1>1 DEF Cached, Table, Entry
  <2> QED
    BY <1>1, <1>4, <2>1 DEF IsExpired, Promise!LookupAddr, Promise!Live
<1> QED
  BY <1>2, <1>3, <1>4

LEMMA InsertRefines ==
    ASSUME CacheInv, NEW key \in Key, NEW entry \in Entry, Insert(key, entry),
           now <= entry.expiry
    PROVE  lru'[key] # NoEntry /\ Promise!Put(key, lru'[key])
<1>1a. PICK out : InsertEvicting(key, entry, out)
  BY InsertShape
<1>1. /\ \/ out = {} /\ (entries[key] = NoEntry => Cardinality(Cached(entries)) < Capacity)
         \/ NeedsEviction(key) /\ \E v \in Cached(entries) : out = {v} /\ First(v)
      /\ entries' = [Without(entries, out) EXCEPT ![key] = entry]
      /\ lru' = [Without(lru, out) EXCEPT ![key] = entry]
      /\ older' = Promote(Forget(older, out), Without(lru, out), key)
      /\ stats' = [stats EXCEPT !.evictions = @ + Cardinality(out),
                                !.insertions = @ + 1,
                                !.current_size = Cardinality(Cached(entries'))]
  BY <1>1a DEF InsertEvicting
<1>2. lru \in Table /\ lru = entries /\ Without(lru, out) \in Table
  BY WithoutTable DEF CacheInv, TypeOK, TablesAgree, Table
<1>3. lru'[key] = entry /\ entry # NoEntry
  BY <1>1, <1>2, NoEntryAssumption DEF Table
<1>4. out \in {{}} \cup {{x} : x \in Promise!Stored \ {key}}
  <2>1. Promise!Stored = Cached(entries)
    BY <1>2 DEF Promise!Stored, Cached
  <2>2. NeedsEviction(key) => key \notin Cached(entries)
    BY DEF NeedsEviction, Cached
  <2> QED
    BY <1>1, <2>1, <2>2
<1>5. out # {} => lru[key] = NoEntry /\ Promise!Cardinality(Promise!Stored) >= Capacity
  BY <1>1, <1>2, SameCardinality DEF NeedsEviction, Promise!Stored, Cached
<1>6. lru' = [Promise!Minus(out) EXCEPT ![key] = entry]
  BY <1>1, SameRemoval
<1>7. ret' = [key |-> key, entry |-> NoEntry] /\ now' = now
  BY DEF Insert, Nothing
<1> QED
  BY <1>3, <1>4, <1>5, <1>6, <1>7 DEF Promise!Put

\* Removing records that are not live, or a single record, is a Drop.
LEMMA RemovalRefines ==
    ASSUME CacheInv, NEW gone \in SUBSET Cached(entries),
           Promise!Cardinality(gone) <= 1 \/ gone \subseteq Expired,
           lru' = Without(lru, gone), now' = now, ret' = Nothing(NoEntry)
    PROVE  Promise!StoreNext
<1>1. lru \in Table /\ lru = entries /\ now \in Nat
  BY DEF CacheInv, TypeOK, TablesAgree, Table
<1>2. gone \in SUBSET Promise!Stored
  BY <1>1 DEF Promise!Stored, Cached
<1>3. ASSUME NEW k \in Expired PROVE ~Promise!Live(k)
  <2>1. k \in Key /\ lru[k] # NoEntry /\ now >= lru[k].expiry /\ lru[k].expiry \in Nat
    BY <1>1 DEF Expired, Cached, IsExpired, Table, Entry
  <2> QED
    BY <1>1, <2>1 DEF Promise!Live
<1>4. Promise!Cardinality(gone) <= 1 \/ \A k \in gone : ~Promise!Live(k)
  BY <1>3
<1>5. Promise!Drop(gone)
  BY <1>4, SameRemoval DEF Promise!Drop, Nothing
<1> QED
  BY <1>2, <1>5 DEF Promise!StoreNext

\* Every call is a step of the promised store, or leaves it alone.
LEMMA NextRefines ==
    ASSUME CacheInv, [Next]_vars
    PROVE  [Promise!StoreNext]_(Promise!absVars)
<1>1. ASSUME NEW key \in Key, FindByName(key) PROVE Promise!StoreNext
  BY <1>1, FindByNameRefines DEF Promise!StoreNext
<1>2. ASSUME NEW key \in Key, RemoveDhcpEntry(key) PROVE Promise!StoreNext
  <2>1. lru[key] # NoEntry /\ lru[key].source = "dhcp"
    BY <1>2 DEF RemoveDhcpEntry, CacheInv, TablesAgree
  <2>2. Promise!Withdraw(key)
    BY <1>2, <2>1, SameRemoval DEF RemoveDhcpEntry, Nothing, Promise!Withdraw
  <2> QED
    BY <2>2 DEF Promise!StoreNext
<1>3. ASSUME NEW addr \in Addr, FindByAddr(addr) PROVE Promise!StoreNext
  BY <1>3, FindByAddrRefines DEF Promise!StoreNext
<1>4. ASSUME NEW key \in Key, NEW addr \in Addr \cup {NoAddr}, NEW ttl \in Nat,
             NEW source \in Sources, Insert(key, NewEntry(addr, ttl, source))
      PROVE  Promise!StoreNext
  <2>1. now \in Nat
    BY DEF CacheInv, TypeOK
  <2>2. /\ NewEntry(addr, ttl, source) \in Entry
        /\ now <= NewEntry(addr, ttl, source).expiry
    BY <2>1 DEF NewEntry, Entry
  <2>3. lru'[key] # NoEntry /\ Promise!Put(key, lru'[key])
    BY <1>4, <2>2, InsertRefines
  <2> QED
    BY <2>3 DEF Promise!StoreNext
<1>5. ASSUME NEW key \in Key, NEW addr \in Addr \cup {NoAddr}, NEW ttl \in 0..MaxTtl,
             InsertUpstream(key, addr, ttl)
      PROVE  Promise!StoreNext
  BY <1>4, <1>5, BoundsAssumption DEF InsertUpstream, Sources
<1>6. ASSUME NEW key \in Key, NEW addr \in Addr, NEW ttl \in 0..MaxTtl,
             AddDhcpEntry(key, addr, ttl)
      PROVE  Promise!StoreNext
  BY <1>4, <1>6, BoundsAssumption DEF AddDhcpEntry, Sources
<1>7. ASSUME NEW key \in Key, NEW addr \in Addr, LoadHost(key, addr)
      PROVE  Promise!StoreNext
  BY <1>4, <1>7, BoundsAssumption DEF LoadHost, Sources
<1>8. CASE EvictLru
  <2>1. PICK out \in Oldest(lru, older) : out # {} /\ lru' = Without(lru, out)
    BY <1>8 DEF EvictLru
  <2>2. lru \in Table /\ lru = entries
    BY DEF CacheInv, TypeOK, TablesAgree, Table
  <2>3. PICK k \in Cached(entries) : out = {k}
    BY <2>1, <2>2, OldestAtMostOne
  <2>4. Cardinality({k}) = 1
    BY FS_Singleton
  <2>5. Promise!Cardinality(out) <= 1 /\ out \in SUBSET Cached(entries)
    BY <2>3, <2>4, SameCardinality
  <2>6. now' = now /\ ret' = Nothing(NoEntry)
    BY <1>8 DEF EvictLru
  <2> QED
    BY <2>1, <2>5, <2>6, RemovalRefines
<1>9. ASSUME NEW gone \in SUBSET Expired, RemoveExpired(gone) PROVE Promise!StoreNext
  <2>1. gone \in SUBSET Cached(entries)
    BY DEF Expired
  <2> QED
    BY <1>9, <2>1, RemovalRefines DEF RemoveExpired
<1>10. CASE EvictExpired \/ PruneExpired
  BY <1>9, <1>10 DEF EvictExpired, PruneExpired
<1>11. CASE Clear
  BY <1>11 DEF Clear, Nothing, Promise!Wipe, Promise!StoreNext
<1>12. CASE Tick
  BY <1>12 DEF Tick, Promise!Advance, Promise!StoreNext
<1>13. CASE OpenHosts \/ CloseHosts \/ UNCHANGED vars
  BY <1>13 DEF OpenHosts, CloseHosts, vars, Promise!absVars
<1> QED
  BY <1>1, <1>2, <1>3, <1>5, <1>6, <1>7, <1>8, <1>10, <1>11, <1>12, <1>13 DEF Next

\* For any keys, capacity and bounds, the cache of cache.rs with its two tables
\* implements the single store callers are promised: a lookup by name answers
\* from the latest insertion under that name, never with an expired record, and
\* an insertion costs at most one other record, and only in a full cache.
THEOREM CacheKeepsPromise == Spec => PromiseKept
<1>1. Init => Promise!StoreInit
  BY DEF Init, Promise!StoreInit
<1>2. CacheInv /\ [Next]_vars => [Promise!StoreNext]_(Promise!absVars)
  BY NextRefines
<1> QED
  BY <1>1, <1>2, CacheInvariant, PTL DEF Spec, PromiseKept, Promise!StoreSpec

-----------------------------------------------------------------------------
(* Evictions take the record that was not used for the longest time. *)

\* Nearer the end of the list is used longer ago.
AgesAgree == \A a, b \in Key : <<a, b>> \in older => <<b, a>> \in usedAfter

LruInv == CacheInv /\ AgesAgree

Tracked ==
    usedAfter' = {p \in usedAfter : p[2] \notin JustUsed}
                     \cup {<<k, x>> : k \in JustUsed, x \in Key \ JustUsed}

LEMMA CountersAre ==
    ASSUME CacheInv
    PROVE  /\ stats.hits \in Nat /\ stats.insertions \in Nat /\ stats.evictions \in Nat
           /\ stats \in Stats
  BY DEF CacheInv, TypeOK, Stats

\* A call that uses no key and moves none.
LEMMA UnusedKeeps ==
    ASSUME AgesAgree, Tracked, CacheInv, stats'.hits = stats.hits,
           stats'.insertions = stats.insertions, older' \subseteq older
    PROVE  AgesAgree'
<1>1. JustUsed = {}
  BY CountersAre DEF JustUsed
<1> QED
  BY <1>1 DEF AgesAgree, Tracked

\* A call that uses one key and moves it to the other end.
LEMMA UsedKeeps ==
    ASSUME AgesAgree, Tracked, NEW key \in Key, JustUsed = {key},
           NEW table, NEW order, order \subseteq older, older' = Promote(order, table, key)
    PROVE  AgesAgree'
<1> SUFFICES ASSUME NEW a \in Key, NEW b \in Key, <<a, b>> \in older'
             PROVE  <<b, a>> \in usedAfter'
  BY DEF AgesAgree
<1>1. CASE <<a, b>> \in order /\ a # key /\ b # key
  BY <1>1 DEF AgesAgree, Tracked
<1>2. CASE b = key /\ a # key
  BY <1>2 DEF Tracked
<1>3. \/ <<a, b>> \in order /\ a # key /\ b # key
      \/ b = key /\ a # key
  BY DEF Promote, Forget, Cached
<1> QED
  BY <1>1, <1>2, <1>3

\* Only what was used after the victim stays.
Justified ==
    stats'.evictions > stats.evictions =>
       \A gone \in Cached(entries) \ Cached(entries') :
          \A k \in Cached(entries) \ {gone} : <<k, gone>> \in usedAfter

LEMMA FirstIsOldest ==
    ASSUME LruInv, NEW v \in Cached(entries), First(v), NEW k \in Cached(entries) \ {v}
    PROVE  <<k, v>> \in usedAfter
<1>1. <<k, v>> \notin older /\ TotalOn(older, Cached(entries)) /\ k \in Key /\ v \in Key
  BY DEF First, LruInv, CacheInv, TablesAgree, Cached
<1>2. <<v, k>> \in older
  BY <1>1 DEF TotalOn
<1> QED
  BY <1>1, <1>2 DEF LruInv, AgesAgree

\* insert.
LEMMA InsertAges ==
    ASSUME LruInv, Tracked, NEW key \in Key, NEW entry \in Entry, Insert(key, entry)
    PROVE  AgesAgree' /\ Justified
<1>1. PICK out : InsertEvicting(key, entry, out)
  BY InsertShape DEF LruInv
<1>2. entries \in Table /\ IsFiniteSet(Cached(entries))
  BY CachedFinite DEF LruInv, CacheInv, TypeOK, Table
<1>3. /\ stats'.insertions = stats.insertions + 1 /\ ret'.key = key
      /\ stats'.evictions = stats.evictions + Cardinality(out)
  BY <1>1, CountersAre DEF LruInv, InsertEvicting, Insert, Nothing, Stats
<1>4. JustUsed = {key}
  BY <1>3, CountersAre DEF LruInv, JustUsed
<1>5. AgesAgree'
  <2>1. Forget(older, out) \subseteq older
    BY DEF Forget
  <2> QED
    BY <1>1, <1>4, <2>1, UsedKeeps DEF LruInv, InsertEvicting
<1>6. CASE out = {}
  <2>1. stats'.evictions = stats.evictions
    BY <1>3, <1>6, FS_EmptySet, CountersAre DEF LruInv
  <2> QED
    BY <1>5, <2>1, CountersAre DEF Justified, LruInv
<1>7. ASSUME NEW v \in Cached(entries), out = {v}, First(v)
      PROVE  Justified
  <2>1. Cached(entries) \ Cached(entries') \subseteq {v}
    BY <1>1, <1>2, <1>7, NoEntryAssumption DEF InsertEvicting, Cached, Without, Table
  <2> QED
    BY <1>7, <2>1, FirstIsOldest DEF Justified
<1> QED
  BY <1>1, <1>5, <1>6, <1>7 DEF InsertEvicting

\* evict_lru.
LEMMA EvictAges ==
    ASSUME LruInv, Tracked, EvictLru
    PROVE  AgesAgree' /\ Justified
<1>1. PICK out \in Oldest(lru, older) :
         /\ out # {} /\ older' = Forget(older, out) /\ entries' = Without(entries, out)
         /\ stats' = [stats EXCEPT !.evictions = @ + 1,
                                   !.current_size = Cardinality(Cached(entries'))]
  BY DEF EvictLru
<1>2. PICK v \in Cached(entries) : out = {v} /\ First(v)
  BY <1>1 DEF Oldest, First, LruInv, CacheInv, TablesAgree
<1>3. stats'.hits = stats.hits /\ stats'.insertions = stats.insertions
  BY <1>1, CountersAre DEF LruInv, Stats
<1>4. older' \subseteq older
  BY <1>1 DEF Forget
<1>5. Cached(entries) \ Cached(entries') \subseteq {v}
  BY <1>1, <1>2 DEF Without, Cached
<1> QED
  BY <1>2, <1>3, <1>4, <1>5, UnusedKeeps, FirstIsOldest DEF Justified, LruInv

\* The other calls evict nothing.
LEMMA CallAges ==
    ASSUME LruInv, Tracked, Next
    PROVE  AgesAgree' /\ Justified
<1> USE DEF LruInv
<1>0. /\ lru = entries /\ TotalOn(older, Cached(lru))
      /\ stats \in Stats /\ stats.hits \in Nat /\ stats.evictions \in Nat
  BY CountersAre DEF CacheInv, TablesAgree
<1>1. ASSUME stats'.hits = stats.hits, stats'.insertions = stats.insertions,
             stats'.evictions = stats.evictions, older' \subseteq older
      PROVE  AgesAgree' /\ Justified
  BY <1>0, <1>1, UnusedKeeps DEF Justified
<1>2. ASSUME NEW key \in Key, older' = Touch(key), stats' = CountHit, ret'.key = key,
             lru[key] # NoEntry
      PROVE  AgesAgree' /\ Justified
  <2>1. stats'.hits = stats.hits + 1 /\ stats'.evictions = stats.evictions
    BY <1>0, <1>2 DEF CountHit, Stats
  <2>2. JustUsed = {key}
    BY <1>0, <1>2, <2>1 DEF JustUsed
  <2>3. older' = Promote(older, lru, key)
    BY <1>2 DEF Touch
  <2> QED
    BY <1>0, <2>1, <2>2, <2>3, UsedKeeps DEF Justified
<1>3. ASSUME NEW key \in Key, FindByName(key)
      PROVE  AgesAgree' /\ Justified
  <2>1. CASE lru[key] # NoEntry /\ ~IsExpired(lru[key])
    BY <1>2, <1>3, <2>1 DEF FindByName
  <2>2. CASE lru[key] = NoEntry
    BY <1>0, <1>1, <1>3, <2>2 DEF FindByName, CountMiss, Stats
  <2>3. CASE lru[key] # NoEntry /\ IsExpired(lru[key])
    BY <1>0, <1>1, <1>3, <2>3 DEF FindByName, CountExpired, Stats, Forget
  <2> QED
    BY <2>1, <2>2, <2>3
<1>4. ASSUME NEW addr \in Addr, FindByAddr(addr)
      PROVE  AgesAgree' /\ Justified
  <2>1. ASSUME NEW first \in Cached(entries), older' = Touch(first), stats' = CountHit,
               ret' = [key |-> first, entry |-> entries[first]]
        PROVE  AgesAgree' /\ Justified
    BY <1>0, <1>2, <2>1 DEF Cached
  <2>2. CASE older' = older /\ (stats' = CountMiss \/ stats' = CountExpired)
    BY <1>0, <1>1, <2>2 DEF CountMiss, CountExpired, Stats
  <2> QED
    BY <1>4, <2>1, <2>2 DEF FindByAddr
<1>5. ASSUME NEW key \in Key, RemoveDhcpEntry(key)
      PROVE  AgesAgree' /\ Justified
  BY <1>0, <1>1, <1>5 DEF RemoveDhcpEntry, Stats, Forget
<1>6. ASSUME NEW gone, RemoveExpired(gone)
      PROVE  AgesAgree' /\ Justified
  BY <1>0, <1>1, <1>6 DEF RemoveExpired, Stats, Forget
<1>7. CASE Clear
  BY <1>0, <1>1, <1>7 DEF Clear, Stats
<1>8. CASE OpenHosts \/ CloseHosts \/ Tick
  BY <1>0, <1>1, <1>8 DEF OpenHosts, CloseHosts, Tick
<1>9. ASSUME NEW key \in Key, NEW addr \in Addr \cup {NoAddr}, NEW ttl \in Nat,
             \/ InsertUpstream(key, addr, ttl)
             \/ AddDhcpEntry(key, addr, ttl)
             \/ LoadHost(key, addr)
      PROVE  AgesAgree' /\ Justified
  <2>1. \A source \in Sources : NewEntry(addr, ttl, source) \in Entry
    BY DEF NewEntry, Entry, CacheInv, TypeOK
  <2>2. NewEntry(addr, HostsTtl, "hosts") \in Entry
    BY BoundsAssumption DEF NewEntry, Entry, CacheInv, TypeOK, Sources
  <2> QED
    BY <1>9, <2>1, <2>2, InsertAges DEF InsertUpstream, AddDhcpEntry, LoadHost, Sources
<1>10. CASE EvictLru
  BY <1>10, EvictAges
<1>11. \A ttl \in 0..MaxTtl : ttl \in Nat
  BY BoundsAssumption
<1> QED
  BY <1>3, <1>4, <1>5, <1>6, <1>7, <1>8, <1>9, <1>10, <1>11, BoundsAssumption
  DEF Next, EvictExpired, PruneExpired

\* evict_lru, called on its own or by insert, removes the record that was looked up or
\* inserted before every other one, for any keys and any capacity.
THEOREM EvictionsAreOfTheLeastRecentlyUsed == MCSpec => EvictsLeastRecentlyUsed
<1>1. MCInit => LruInv
  BY InitEstablishes DEF MCInit, Init, LruInv, AgesAgree
<1>2. LruInv /\ [MCNext]_mcVars => LruInv'
  <2>1. LruInv /\ MCNext => LruInv'
    BY CallAges, NextKeeps DEF MCNext, Tracked, LruInv
  <2>2. LruInv /\ UNCHANGED mcVars => LruInv'
    <3>1. LruInv /\ UNCHANGED mcVars => CacheInv'
      BY NextKeeps DEF mcVars, LruInv
    <3> QED
      BY <3>1 DEF mcVars, vars, LruInv, AgesAgree
  <2> QED
    BY <2>1, <2>2
<1>3. LruInv /\ [MCNext]_mcVars => [Justified]_mcVars
  BY CallAges DEF MCNext, Tracked
<1>4. [Justified]_mcVars <=> [stats'.evictions > stats.evictions =>
          \A gone \in Cached(entries) \ Cached(entries') :
             \A k \in Cached(entries) \ {gone} : <<k, gone>> \in usedAfter]_mcVars
  BY DEF Justified
<1> QED
  BY <1>1, <1>2, <1>3, <1>4, PTL DEF MCSpec, EvictsLeastRecentlyUsed

-----------------------------------------------------------------------------
(* Host names and patterns *)

\* A set of naturals with a member has a least one: what the proofs by induction over
\* the characters, the labels and the steps of a loop rest on.
LEMMA HasLeast ==
    ASSUME NEW S \in SUBSET Nat, S # {}
    PROVE  \E x \in S : \A y \in S : x <= y
<1> DEFINE Less == {p \in Nat \X Nat : p[1] < p[2]}
<1>1. IsWellFoundedOn(Less, Nat)
  BY NatLessThanWellFounded, Zenon DEF OpToRel
<1> HIDE DEF Less
<1>2. PICK x \in S : \A y \in S : ~(<<y, x>> \in Less)
  BY <1>1, WFMin
<1>3. ASSUME NEW y \in S
      PROVE  x <= y
  <2>1. ~(<<y, x>> \in Less) /\ x \in Nat /\ y \in Nat
    BY <1>2
  <2> QED
    BY <2>1 DEF Less
<1> QED
  BY <1>3
-----------------------------------------------------------------------------
(* Loops *)

Loops(f, S, Good, Going, next) ==
    f = [s \in S |-> s \in Good \/ (s \in Going /\ f[next[s]])]

\* The least set of states from which a loop arrives is what the loop computes.
LEMMA LoopExists ==
    ASSUME NEW S, NEW Good \in SUBSET S, NEW Going \in SUBSET S, NEW next \in [Going -> S]
    PROVE  \E f : Loops(f, S, Good, Going, next)
<1> DEFINE Closed(T) == Good \subseteq T /\ \A s \in Going : next[s] \in T => s \in T
           Least == {s \in S : \A T \in SUBSET S : Closed(T) => s \in T}
<1>1. Closed(Least)
  OBVIOUS
<1>2. ASSUME NEW s \in Least, s \notin Good, ~(s \in Going /\ next[s] \in Least)
      PROVE  FALSE
  <2> DEFINE Less == Least \ {s}
  <2>1. Less \in SUBSET S
    OBVIOUS
  <2>2. Closed(Less)
    BY <1>1, <1>2
  <2>3. s \in Less
    BY <2>1, <2>2
  <2> QED
    BY <2>3
<1>3. \A s \in S : s \in Least <=> (s \in Good \/ (s \in Going /\ next[s] \in Least))
  BY <1>1, <1>2
<1>4. Least \subseteq S
  OBVIOUS
<1> HIDE DEF Least, Closed
<1> DEFINE f == [s \in S |-> s \in Least]
<1>5. \A s \in Going : f[next[s]] = (next[s] \in Least)
  OBVIOUS
<1>6. ASSUME NEW s \in S
      PROVE  (s \in Least) = (s \in Good \/ (s \in Going /\ f[next[s]]))
  <2>1. s \in Going => f[next[s]] = (next[s] \in Least)
    BY <1>5
  <2> HIDE DEF f
  <2> QED
    <3>1. s \in Least <=> (s \in Good \/ (s \in Going /\ f[next[s]]))
      BY <1>3, <2>1
    <3> QED
      BY <3>1
<1>7. f = [s \in S |-> s \in Good \/ (s \in Going /\ f[next[s]])]
  <2> DEFINE g == [s \in S |-> s \in Good \/ (s \in Going /\ f[next[s]])]
  <2>1. \A s \in S : f[s] = g[s]
    BY <1>6
  <2> QED
    BY <2>1
<1> HIDE DEF f
<1> QED
  BY <1>7 DEF Loops

-----------------------------------------------------------------------------
(* is_string_matching_glob_pattern *)

Text == Seq(STRING)

Globs(f, value, pattern) ==
    f = [at \in Place(value, pattern) |->
            \/ AtEnd(value, pattern, at)
            \/ GoesOn(value, pattern, at) /\ f[Step(value, pattern, at)]]

LEMMA PlaceIs ==
    ASSUME NEW value \in Text, NEW pattern \in Text, NEW at \in Place(value, pattern)
    PROVE  /\ Len(value) \in Nat /\ Len(pattern) \in Nat
           /\ at.v \in 0..Len(value) /\ at.nextV \in 0..Len(value)
           /\ at.p \in 0..Len(pattern) /\ at.nextP \in 0..Len(pattern)
           /\ at.v \in Nat /\ at.nextV \in Nat /\ at.p \in Nat /\ at.nextP \in Nat
  BY DEF Place, Text

LEMMA StepIs ==
    ASSUME NEW value \in Text, NEW pattern \in Text, NEW at \in Place(value, pattern)
    PROVE  Step(value, pattern, at) \in Place(value, pattern)
<1>1. CASE AtStar(pattern, at)
  <2>1. at.p + 1 \in 0..Len(pattern) /\ Back(at.v, Len(value)) \in 0..Len(value)
    BY <1>1, PlaceIs DEF AtStar, Back
  <2> HIDE DEF Back
  <2> QED
    BY <1>1, <2>1, PlaceIs DEF Step, Place
<1>2. CASE ~AtStar(pattern, at) /\ AtSame(value, pattern, at)
  <2>1. at.p + 1 \in 0..Len(pattern) /\ at.v + 1 \in 0..Len(value)
    BY <1>2, PlaceIs DEF AtSame
  <2> QED
    BY <1>2, <2>1, PlaceIs DEF Step, Place
<1>3. CASE ~AtStar(pattern, at) /\ ~AtSame(value, pattern, at)
  BY <1>3, PlaceIs DEF Step, Place
<1> QED
  BY <1>1, <1>2, <1>3

LEMMA GlobExists ==
    ASSUME NEW value \in Text, NEW pattern \in Text
    PROVE  \E f : Globs(f, value, pattern)
<1> DEFINE S == Place(value, pattern)
           Good == {at \in S : AtEnd(value, pattern, at)}
           Going == {at \in S : GoesOn(value, pattern, at)}
           next == [at \in Going |-> Step(value, pattern, at)]
<1>1. next \in [Going -> S]
  BY StepIs
<1>2. \A at \in S : /\ at \in Good <=> AtEnd(value, pattern, at)
                    /\ at \in Going <=> GoesOn(value, pattern, at)
                    /\ at \in Going => next[at] = Step(value, pattern, at)
  OBVIOUS
<1>3. Good \in SUBSET S /\ Going \in SUBSET S
  OBVIOUS
<1> HIDE DEF Good, Going, next, S
<1>4. PICK f : Loops(f, S, Good, Going, next)
  BY <1>1, <1>3, LoopExists
<1>5. f = [at \in S |-> AtEnd(value, pattern, at)
                          \/ (GoesOn(value, pattern, at) /\ f[Step(value, pattern, at)])]
  BY <1>2, <1>4 DEF Loops
<1> QED
  BY <1>5 DEF S, Globs

LEMMA GlobIs ==
    ASSUME NEW value \in Text, NEW pattern \in Text
    PROVE  \E f : /\ Globs(f, value, pattern)
                  /\ is_string_matching_glob_pattern(value, pattern)
                        = f[[v |-> 0, nextV |-> 0, p |-> 0, nextP |-> 0]]
<1> DEFINE f == CHOOSE f : Globs(f, value, pattern)
<1>1. Globs(f, value, pattern)
  BY GlobExists
<1>2. is_string_matching_glob_pattern(value, pattern)
         = f[[v |-> 0, nextV |-> 0, p |-> 0, nextP |-> 0]]
  BY DEF is_string_matching_glob_pattern, Globs
<1> QED
  BY <1>1, <1>2

-----------------------------------------------------------------------------
(* Passes *)

Passes(f, limit, g, start) ==
    f = [n \in 0..limit |-> IF n = 0 THEN start ELSE g[<<f[n - 1], n>>]]

\* The steps of a pass over a text exist, one after the other.
LEMMA PassExists ==
    ASSUME NEW limit \in Nat, NEW V, NEW g \in [V \X (1..limit) -> V], NEW start \in V
    PROVE  \E f : Passes(f, limit, g, start) /\ f \in [0..limit -> V]
<1> DEFINE Upto(f, k) == /\ f \in [0..k -> V]
                         /\ f = [n \in 0..k |-> IF n = 0 THEN start ELSE g[<<f[n - 1], n>>]]
           Missing == {k \in 0..limit : ~ \E f : Upto(f, k)}
<1>1. Missing = {}
  <2> SUFFICES ASSUME Missing # {} PROVE FALSE
    OBVIOUS
  <2>1. PICK k \in Missing : \A j \in Missing : k <= j
    <3>1. Missing \in SUBSET Nat
      OBVIOUS
    <3> HIDE DEF Missing
    <3> QED
      BY <3>1, HasLeast
  <2>2. CASE k = 0
    <3> DEFINE f == [n \in 0..0 |-> start]
    <3>1. f[0] = start /\ DOMAIN f = 0..0 /\ 0..0 = {0}
      OBVIOUS
    <3>2. f \in [0..0 -> V]
      OBVIOUS
    <3>3. f = [n \in 0..0 |-> IF n = 0 THEN start ELSE g[<<f[n - 1], n>>]]
      BY <3>1
    <3> QED
      BY <2>1, <2>2, <3>2, <3>3
  <2>3. CASE k # 0
    <3>1. k - 1 \in 0..limit /\ k - 1 \notin Missing /\ k \in 1..limit
      BY <2>1, <2>3
    <3>2. PICK f : Upto(f, k - 1)
      BY <3>1
    <3> DEFINE h == [n \in 0..k |-> IF n = k THEN g[<<f[k - 1], k>>] ELSE f[n]]
    <3>3. f[k - 1] \in V /\ g[<<f[k - 1], k>>] \in V
      BY <3>1, <3>2
    <3>4. h \in [0..k -> V]
      <4>1. ASSUME NEW n \in 0..k
            PROVE  (IF n = k THEN g[<<f[k - 1], k>>] ELSE f[n]) \in V
        <5>1. n # k => n \in 0..(k - 1)
          BY <3>1
        <5> QED
          BY <3>2, <3>3, <5>1
      <4> QED
        BY <4>1
    <3>5. ASSUME NEW n \in 0..k
          PROVE  h[n] = IF n = 0 THEN start ELSE g[<<h[n - 1], n>>]
      <4>1. CASE n = k
        <5>1. h[n - 1] = f[k - 1] /\ h[n] = g[<<f[k - 1], k>>] /\ n # 0
          BY <3>1, <4>1
        <5> QED
          BY <4>1, <5>1
      <4>2. CASE n # k
        <5>1. n \in 0..(k - 1) /\ h[n] = f[n]
          BY <3>1, <4>2
        <5>2. n # 0 => n - 1 \in 0..k /\ n - 1 # k /\ h[n - 1] = f[n - 1]
          BY <3>1, <5>1
        <5>3. f[n] = IF n = 0 THEN start ELSE g[<<f[n - 1], n>>]
          BY <3>2, <5>1
        <5> HIDE DEF h
        <5> QED
          BY <5>1, <5>2, <5>3
      <4> QED
        BY <4>1, <4>2
    <3>6. Upto(h, k)
      <4>1. DOMAIN h = 0..k /\ h = [n \in 0..k |-> h[n]]
        OBVIOUS
      <4> HIDE DEF h
      <4> QED
        BY <3>4, <3>5, <4>1
    <3> QED
      BY <2>1, <3>6
  <2> QED
    BY <2>2, <2>3
<1>2. limit \in 0..limit /\ limit \notin Missing
  <2>1. limit \in 0..limit
    OBVIOUS
  <2> HIDE DEF Missing
  <2> QED
    BY <1>1, <2>1
<1>3. PICK f : Upto(f, limit)
  BY <1>2
<1> QED
  BY <1>3 DEF Passes

-----------------------------------------------------------------------------
(* What a glob means *)

Rests(f, value, pattern) ==
    f = [n \in 0..Len(pattern) |->
            IF n = 0 THEN {Len(value)}
            ELSE StartsFor(pattern[Len(pattern) - n + 1], f[n - 1], value)]

LEMMA RestExists ==
    ASSUME NEW value \in Text, NEW pattern \in Text
    PROVE  \E f : Rests(f, value, pattern) /\ f \in [0..Len(pattern) -> SUBSET (0..Len(value))]
<1> DEFINE V == SUBSET (0..Len(value))
           g == [a \in V \X (1..Len(pattern)) |->
                    StartsFor(pattern[Len(pattern) - a[2] + 1], a[1], value)]
<1>1. Len(value) \in Nat /\ Len(pattern) \in Nat
  BY DEF Text
<1>2. g \in [V \X (1..Len(pattern)) -> V]
  BY DEF StartsFor
<1>3. {Len(value)} \in V
  <2>1. Len(value) \in 0..Len(value)
    BY <1>1
  <2> QED
    BY <2>1
<1>4. \A r \in V, n \in 1..Len(pattern) :
         g[<<r, n>>] = StartsFor(pattern[Len(pattern) - n + 1], r, value)
  OBVIOUS
<1> HIDE DEF g, V
<1>5. PICK f : Passes(f, Len(pattern), g, {Len(value)}) /\ f \in [0..Len(pattern) -> V]
  BY <1>1, <1>2, <1>3, PassExists
<1>6. \A n \in 0..Len(pattern) :
         n # 0 => g[<<f[n - 1], n>>] = StartsFor(pattern[Len(pattern) - n + 1], f[n - 1], value)
  <2> TAKE n \in 0..Len(pattern)
  <2>1. n # 0 => n - 1 \in 0..Len(pattern) /\ n \in 1..Len(pattern)
    BY <1>1
  <2> QED
    BY <1>4, <1>5, <2>1
<1>7. Rests(f, value, pattern)
  BY <1>5, <1>6 DEF Passes, Rests
<1> QED
  BY <1>5, <1>7 DEF V

\* Position v of the value may start what the pattern means from position p on.
Fits(f, pattern, v, p) == v \in f[Len(pattern) - p]

LEMMA MeansIs ==
    ASSUME NEW value \in Text, NEW pattern \in Text
    PROVE  \E f : /\ Rests(f, value, pattern)
                  /\ f \in [0..Len(pattern) -> SUBSET (0..Len(value))]
                  /\ Means(pattern, value) <=> Fits(f, pattern, 0, 0)
<1> DEFINE f == CHOOSE f : Rests(f, value, pattern)
<1>1. Rests(f, value, pattern)
  BY RestExists
<1>2. Means(pattern, value) <=> 0 \in f[Len(pattern)]
  BY DEF Means, Rests
<1>3. Len(pattern) \in Nat /\ Len(pattern) - 0 = Len(pattern)
  BY DEF Text
<1> HIDE DEF f
<1>4. \A n \in 0..Len(pattern) : f[n] \subseteq 0..Len(value)
  <2> TAKE n \in 0..Len(pattern)
  <2>1. f[n] = IF n = 0 THEN {Len(value)}
               ELSE StartsFor(pattern[Len(pattern) - n + 1], f[n - 1], value)
    BY <1>1 DEF Rests
  <2>2. Len(value) \in 0..Len(value)
    BY DEF Text
  <2> QED
    BY <2>1, <2>2 DEF StartsFor
<1>5. f \in [0..Len(pattern) -> SUBSET (0..Len(value))]
  BY <1>1, <1>4 DEF Rests
<1> QED
  BY <1>1, <1>2, <1>3, <1>5 DEF Fits

LEMMA FitsIs ==
    ASSUME NEW value \in Text, NEW pattern \in Text, NEW f, Rests(f, value, pattern),
           f \in [0..Len(pattern) -> SUBSET (0..Len(value))],
           NEW p \in 0..Len(pattern), NEW v \in 0..Len(value)
    PROVE  /\ p = Len(pattern) => (Fits(f, pattern, v, p) <=> v = Len(value))
           /\ p < Len(pattern) /\ pattern[p + 1] = "*" =>
                 (Fits(f, pattern, v, p)
                    <=> \E j \in 0..Len(value) : v <= j /\ Fits(f, pattern, j, p + 1))
           /\ p < Len(pattern) /\ pattern[p + 1] # "*" =>
                 (Fits(f, pattern, v, p)
                    <=> /\ v < Len(value) /\ Upper(value[v + 1]) = Upper(pattern[p + 1])
                        /\ Fits(f, pattern, v + 1, p + 1))
<1> DEFINE n == Len(pattern) - p
<1>1. /\ Len(value) \in Nat /\ Len(pattern) \in Nat /\ n \in 0..Len(pattern)
      /\ Len(pattern) - n + 1 = p + 1 /\ (n = 0 <=> p = Len(pattern))
      /\ n - 1 = Len(pattern) - (p + 1) /\ n # 0 => n - 1 \in 0..Len(pattern)
  BY DEF Text
<1>2. f[n] = IF n = 0 THEN {Len(value)}
             ELSE StartsFor(pattern[Len(pattern) - n + 1], f[n - 1], value)
  BY <1>1 DEF Rests
<1> HIDE DEF n
<1>3. CASE n = 0
  BY <1>1, <1>2, <1>3 DEF Fits, n
<1>4. CASE n # 0
  <2>1. f[n] = StartsFor(pattern[p + 1], f[n - 1], value) /\ f[n - 1] \subseteq 0..Len(value)
    BY <1>1, <1>2, <1>4
  <2>2. v \in f[n] <=> IF pattern[p + 1] = "*" THEN \E j \in f[n - 1] : v <= j
                       ELSE v + 1 \in f[n - 1] /\ Upper(value[v + 1]) = Upper(pattern[p + 1])
    BY <2>1 DEF StartsFor
  <2>3. v + 1 \in f[n - 1] => v < Len(value)
    BY <1>1, <2>1
  <2>4. /\ \A j : Fits(f, pattern, j, p + 1) <=> j \in f[n - 1]
        /\ Fits(f, pattern, v, p) <=> v \in f[n]
    BY <1>1 DEF Fits, n
  <2> QED
    BY <1>1, <1>4, <2>1, <2>2, <2>3, <2>4
<1> QED
  BY <1>3, <1>4

LEMMA StarFits ==
    ASSUME NEW value \in Text, NEW pattern \in Text, NEW f, Rests(f, value, pattern),
           f \in [0..Len(pattern) -> SUBSET (0..Len(value))],
           NEW p \in 0..Len(pattern), NEW v \in 0..Len(value),
           p < Len(pattern), pattern[p + 1] = "*"
    PROVE  /\ Fits(f, pattern, v, p)
                <=> \/ Fits(f, pattern, v, p + 1)
                    \/ v < Len(value) /\ Fits(f, pattern, v + 1, p)
           /\ \A w \in 0..Len(value) : v <= w /\ Fits(f, pattern, w, p) => Fits(f, pattern, v, p)
<1>1. Len(value) \in Nat
  BY DEF Text
<1>2. \A w \in 0..Len(value) :
         Fits(f, pattern, w, p) <=> \E j \in 0..Len(value) : w <= j /\ Fits(f, pattern, j, p + 1)
  BY FitsIs
<1>3. v < Len(value) => v + 1 \in 0..Len(value)
  BY <1>1
<1>4. \A j \in 0..Len(value) : v <= j <=> (j = v \/ (v < Len(value) /\ v + 1 <= j))
  BY <1>1
<1> QED
  BY <1>1, <1>2, <1>3, <1>4

\* Between a "*" and the next one the value is consumed character by character.
LEMMA SegmentFits ==
    ASSUME NEW value \in Text, NEW pattern \in Text, NEW f, Rests(f, value, pattern),
           f \in [0..Len(pattern) -> SUBSET (0..Len(value))],
           NEW a \in 0..Len(pattern), NEW b \in 0..Len(pattern), a <= b,
           \A i \in a..(b - 1) : pattern[i + 1] # "*",
           NEW k \in 0..Len(value), Fits(f, pattern, k, a)
    PROVE  k + (b - a) <= Len(value) /\ Fits(f, pattern, k + (b - a), b)
<1> DEFINE Good(i) == k + (i - a) <= Len(value) /\ Fits(f, pattern, k + (i - a), i)
           Bad == {i \in a..b : ~Good(i)}
<1>1. Len(value) \in Nat /\ Len(pattern) \in Nat
  BY DEF Text
<1>2. Bad = {}
  <2> SUFFICES ASSUME Bad # {} PROVE FALSE
    OBVIOUS
  <2>1. PICK i \in Bad : \A j \in Bad : i <= j
    <3>1. Bad \in SUBSET Nat
      OBVIOUS
    <3> HIDE DEF Bad
    <3> QED
      BY <3>1, HasLeast
  <2>2. i # a
    <3>1. Good(a)
      <4>1. k + (a - a) = k
        OBVIOUS
      <4> QED
        BY <4>1
    <3> QED
      BY <2>1, <3>1
  <2>3. i - 1 \in a..b /\ i - 1 \in a..(b - 1) /\ i - 1 \notin Bad /\ i \in a..b
    <3>1. i \in a..b /\ a \in Nat /\ b \in Nat
      BY <1>1, <2>1
    <3> HIDE DEF Bad
    <3>2. i - 1 \notin Bad
      BY <2>1, <3>1
    <3> QED
      BY <2>2, <3>1, <3>2
  <2>4. Good(i - 1)
    BY <2>3
  <2>5. /\ k + (i - 1 - a) \in 0..Len(value) /\ i - 1 \in 0..Len(pattern) /\ i - 1 < Len(pattern)
        /\ k + (i - 1 - a) + 1 = k + (i - a) /\ i - 1 + 1 = i
    BY <1>1, <2>3, <2>4
  <2>6. pattern[i - 1 + 1] # "*"
    BY <2>3
  <2>7. k + (i - 1 - a) < Len(value) /\ Fits(f, pattern, k + (i - 1 - a) + 1, i - 1 + 1)
    <3>1. Fits(f, pattern, k + (i - 1 - a), i - 1)
      BY <2>4
    <3> QED
      BY <2>5, <2>6, <3>1, FitsIs, SMTT(30)
  <2>8. Good(i)
    <3>1. k + (i - a) <= Len(value)
      BY <1>1, <2>5, <2>7
    <3> QED
      BY <2>5, <2>7, <3>1
  <2> QED
    BY <2>1, <2>8
<1>3. b \in a..b
  BY <1>1
<1> QED
  BY <1>2, <1>3

-----------------------------------------------------------------------------
(* The loop with one place to go back to *)

\* The place to go back to is a "*", and since it was tried the loop has seen no other.
Sane(pattern, at) ==
    at.nextV # 0 =>
       /\ at.nextP < Len(pattern) /\ pattern[at.nextP + 1] = "*"
       /\ \/ at.p = at.nextP /\ at.v = at.nextV
          \/ /\ at.nextP < at.p /\ at.v + at.nextP + 2 = at.nextV + at.p
             /\ \A i \in (at.nextP + 1)..(at.p - 1) : pattern[i + 1] # "*"

\* A match goes on from where the loop is, or from where it can go back to.
Open(f, pattern, at) ==
    \/ Fits(f, pattern, at.v, at.p)
    \/ at.nextV # 0 /\ Fits(f, pattern, at.nextV, at.nextP)

LEMMA StepFields ==
    ASSUME NEW value \in Text, NEW pattern \in Text, NEW at \in Place(value, pattern)
    PROVE  LET to == Step(value, pattern, at) IN
           /\ AtStar(pattern, at) =>
                 /\ to.p = at.p + 1 /\ to.v = at.v /\ to.nextP = at.p
                 /\ to.nextV = Back(at.v, Len(value))
           /\ ~AtStar(pattern, at) /\ AtSame(value, pattern, at) =>
                 /\ to.p = at.p + 1 /\ to.v = at.v + 1
                 /\ to.nextP = at.nextP /\ to.nextV = at.nextV
           /\ ~AtStar(pattern, at) /\ ~AtSame(value, pattern, at) =>
                 /\ to.p = at.nextP /\ to.v = at.nextV
                 /\ to.nextP = at.nextP /\ to.nextV = at.nextV
  BY DEF Step, Place

LEMMA StepIsSane ==
    ASSUME NEW value \in Text, NEW pattern \in Text, NEW at \in Place(value, pattern),
           Sane(pattern, at), GoesOn(value, pattern, at)
    PROVE  Sane(pattern, Step(value, pattern, at))
<1> DEFINE to == Step(value, pattern, at)
<1>1. /\ Len(value) \in Nat /\ Len(pattern) \in Nat
      /\ at.v \in Nat /\ at.nextV \in Nat /\ at.p \in Nat /\ at.nextP \in Nat
      /\ at.p <= Len(pattern) /\ at.v <= Len(value)
  BY PlaceIs
<1>2. CASE AtStar(pattern, at)
  <2>1. /\ to.p = at.p + 1 /\ to.v = at.v /\ to.nextP = at.p
        /\ to.nextV = Back(at.v, Len(value))
    BY <1>2, StepFields
  <2> HIDE DEF to
  <2>2. to.nextP < Len(pattern) /\ pattern[to.nextP + 1] = "*"
    BY <1>2, <2>1 DEF AtStar
  <2>3. to.nextV # 0 => to.nextV = at.v + 1
    BY <2>1 DEF Back
  <2>4. (to.nextP + 1)..(to.p - 1) = {}
    BY <1>1, <2>1
  <2>5. to.nextP < to.p /\ (to.nextV # 0 => to.v + to.nextP + 2 = to.nextV + to.p)
    BY <1>1, <2>1, <2>3, SMTT(30)
  <2>6. \A i \in (to.nextP + 1)..(to.p - 1) : pattern[i + 1] # "*"
    BY <2>4
  <2>7. Sane(pattern, to)
    BY <2>2, <2>5, <2>6 DEF Sane
  <2> QED
    BY <2>7 DEF to
<1>3. CASE ~AtStar(pattern, at) /\ AtSame(value, pattern, at)
  <2>1. /\ to.p = at.p + 1 /\ to.v = at.v + 1
        /\ to.nextP = at.nextP /\ to.nextV = at.nextV
    BY <1>3, StepFields
  <2>2. at.p < Len(pattern) /\ pattern[at.p + 1] # "*"
    BY <1>3 DEF AtStar, AtSame
  <2> HIDE DEF to
  <2>3. ASSUME to.nextV # 0
        PROVE  /\ at.nextP < Len(pattern) /\ pattern[at.nextP + 1] = "*"
               /\ at.nextP < at.p /\ at.v + at.nextP + 2 = at.nextV + at.p
               /\ \A i \in (at.nextP + 1)..(at.p - 1) : pattern[i + 1] # "*"
    BY <2>1, <2>2, <2>3 DEF Sane
  <2>4. ASSUME to.nextV # 0, NEW i \in (to.nextP + 1)..(to.p - 1)
        PROVE  pattern[i + 1] # "*"
    <3>1. i = at.p \/ i \in (at.nextP + 1)..(at.p - 1)
      BY <1>1, <2>1, <2>4
    <3> QED
      BY <2>2, <2>3, <2>4, <3>1
  <2>5. to.nextV # 0 => /\ to.nextP < Len(pattern) /\ pattern[to.nextP + 1] = "*"
                        /\ to.nextP < to.p /\ to.v + to.nextP + 2 = to.nextV + to.p
    <3>1. ASSUME to.nextV # 0
          PROVE  to.nextP < to.p /\ to.v + to.nextP + 2 = to.nextV + to.p
      <4>1. at.nextP < at.p /\ at.v + at.nextP + 2 = at.nextV + at.p
        BY <2>3, <3>1
      <4>2. at.nextP \in Nat /\ at.p \in Nat /\ at.v \in Nat /\ at.nextV \in Nat
        BY <1>1
      <4>3. /\ at.nextP < at.p + 1
            /\ at.v + 1 + at.nextP + 2 = at.nextV + (at.p + 1)
        BY <4>1, <4>2
      <4> QED
        BY <2>1, <4>3
    <3> QED
      BY <2>1, <2>3, <3>1
  <2>6. to.nextV # 0 => \A i \in (to.nextP + 1)..(to.p - 1) : pattern[i + 1] # "*"
    BY <2>4
  <2>7. Sane(pattern, to)
    BY <2>5, <2>6 DEF Sane
  <2> QED
    BY <2>7 DEF to
<1>4. CASE ~AtStar(pattern, at) /\ ~AtSame(value, pattern, at)
  <2>1. /\ to.p = at.nextP /\ to.v = at.nextV
        /\ to.nextP = at.nextP /\ to.nextV = at.nextV
    BY <1>4, StepFields
  <2> HIDE DEF to
  <2>2. Sane(pattern, to)
    BY <2>1 DEF Sane
  <2> QED
    BY <2>2 DEF to
<1> QED
  BY <1>2, <1>3, <1>4

LEMMA LaterIs ==
    ASSUME NEW v \in Nat, NEW nextP \in Nat, NEW nextV \in Nat, NEW p \in Nat, NEW k \in Nat,
           v + nextP + 2 = nextV + p, nextP < p, nextV <= k
    PROVE  k + (p - (nextP + 1)) \in Nat /\ v <= k + (p - (nextP + 1))
  OBVIOUS

\* What could be matched from the "*" before can be matched from a new one.
LEMMA StarAbsorbs ==
    ASSUME NEW value \in Text, NEW pattern \in Text, NEW f, Rests(f, value, pattern),
           f \in [0..Len(pattern) -> SUBSET (0..Len(value))],
           NEW at \in Place(value, pattern), Sane(pattern, at), AtStar(pattern, at),
           at.nextV # 0, Fits(f, pattern, at.nextV, at.nextP)
    PROVE  Fits(f, pattern, at.v, at.p)
<1>1. /\ Len(value) \in Nat /\ Len(pattern) \in Nat
      /\ at.v \in 0..Len(value) /\ at.nextV \in 0..Len(value)
      /\ at.p \in 0..Len(pattern) /\ at.nextP \in 0..Len(pattern)
      /\ at.p < Len(pattern) /\ pattern[at.p + 1] = "*"
  BY PlaceIs DEF AtStar
<1>2. /\ at.nextP < Len(pattern) /\ pattern[at.nextP + 1] = "*"
      /\ at.nextP + 1 \in 0..Len(pattern)
  BY <1>1 DEF Sane
<1>3. CASE at.p = at.nextP /\ at.v = at.nextV
  BY <1>3
<1>4. CASE /\ at.nextP < at.p /\ at.v + at.nextP + 2 = at.nextV + at.p
           /\ \A i \in (at.nextP + 1)..(at.p - 1) : pattern[i + 1] # "*"
  <2>1. PICK k \in 0..Len(value) : at.nextV <= k /\ Fits(f, pattern, k, at.nextP + 1)
    BY <1>1, <1>2, FitsIs
  <2> DEFINE w == k + (at.p - (at.nextP + 1))
  <2>2. w <= Len(value) /\ Fits(f, pattern, w, at.p)
    <3>1. at.nextP + 1 <= at.p
      BY <1>1, <1>4
    <3>2. \A i \in (at.nextP + 1)..(at.p - 1) : pattern[i + 1] # "*"
      BY <1>4
    <3> QED
      BY <1>1, <1>2, <2>1, <3>1, <3>2, SegmentFits
  <2>3. w \in 0..Len(value) /\ at.v <= w
    <3>1. at.nextP \in Nat /\ at.p \in Nat /\ at.v \in Nat /\ at.nextV \in Nat /\ k \in Nat
      BY <1>1
    <3>2. w \in Nat /\ at.v <= w
      BY <1>4, <2>1, <3>1, LaterIs
    <3> QED
      BY <1>1, <2>2, <3>2
  <2> HIDE DEF w
  <2> QED
    BY <1>1, <2>2, <2>3, StarFits
<1> QED
  BY <1>3, <1>4 DEF Sane

\* One step keeps what can still be matched.
LEMMA StepKeepsOpen ==
    ASSUME NEW value \in Text, NEW pattern \in Text, NEW f, Rests(f, value, pattern),
           f \in [0..Len(pattern) -> SUBSET (0..Len(value))],
           NEW at \in Place(value, pattern), Sane(pattern, at)
    PROVE  Open(f, pattern, at)
              <=> \/ AtEnd(value, pattern, at)
                  \/ GoesOn(value, pattern, at) /\ Open(f, pattern, Step(value, pattern, at))
<1> DEFINE to == Step(value, pattern, at)
<1>1. /\ Len(value) \in Nat /\ Len(pattern) \in Nat
      /\ at.v \in 0..Len(value) /\ at.nextV \in 0..Len(value)
      /\ at.p \in 0..Len(pattern) /\ at.nextP \in 0..Len(pattern)
  BY PlaceIs
<1>2. CASE AtStar(pattern, at)
  <2>1. /\ to.p = at.p + 1 /\ to.v = at.v /\ to.nextP = at.p
        /\ to.nextV = Back(at.v, Len(value))
    BY <1>2, StepFields
  <2>2. /\ at.p < Len(pattern) /\ pattern[at.p + 1] = "*"
        /\ ~AtEnd(value, pattern, at) /\ GoesOn(value, pattern, at)
    BY <1>1, <1>2 DEF AtStar, AtEnd, GoesOn
  <2> HIDE DEF to
  <2>3. Open(f, pattern, to) <=> Fits(f, pattern, at.v, at.p)
    <3>1. /\ at.v < Len(value) => to.nextV = at.v + 1 /\ to.nextV # 0
          /\ ~(at.v < Len(value)) => to.nextV = 0
      BY <1>1, <2>1 DEF Back
    <3>2. Fits(f, pattern, at.v, at.p)
             <=> \/ Fits(f, pattern, at.v, at.p + 1)
                 \/ at.v < Len(value) /\ Fits(f, pattern, at.v + 1, at.p)
      BY <1>1, <2>2, StarFits
    <3> QED
      BY <2>1, <3>1, <3>2 DEF Open
  <2>4. Open(f, pattern, at) <=> Fits(f, pattern, at.v, at.p)
    BY <1>2, StarAbsorbs DEF Open
  <2> QED
    BY <2>2, <2>3, <2>4 DEF to
<1>3. CASE ~AtStar(pattern, at) /\ AtSame(value, pattern, at)
  <2>1. /\ to.p = at.p + 1 /\ to.v = at.v + 1
        /\ to.nextP = at.nextP /\ to.nextV = at.nextV
    BY <1>3, StepFields
  <2>2. /\ at.p < Len(pattern) /\ pattern[at.p + 1] # "*"
        /\ ~AtEnd(value, pattern, at) /\ GoesOn(value, pattern, at)
        /\ at.v < Len(value) /\ Upper(value[at.v + 1]) = Upper(pattern[at.p + 1])
    BY <1>1, <1>3 DEF AtStar, AtSame, AtEnd, GoesOn
  <2>3. Fits(f, pattern, at.v, at.p) <=> Fits(f, pattern, at.v + 1, at.p + 1)
    BY <1>1, <2>2, FitsIs
  <2> HIDE DEF to
  <2>4. Open(f, pattern, at) <=> Open(f, pattern, to)
    BY <2>1, <2>3 DEF Open
  <2> QED
    BY <2>2, <2>4 DEF to
<1>4. CASE ~AtStar(pattern, at) /\ ~AtSame(value, pattern, at)
  <2>1. /\ to.p = at.nextP /\ to.v = at.nextV
        /\ to.nextP = at.nextP /\ to.nextV = at.nextV
    BY <1>4, StepFields
  <2>2. GoesOn(value, pattern, at) <=> at.nextV # 0
    BY <1>4 DEF GoesOn
  <2>3. Fits(f, pattern, at.v, at.p) <=> AtEnd(value, pattern, at)
    <3>1. CASE at.p = Len(pattern)
      BY <1>1, <3>1, FitsIs DEF AtEnd
    <3>2. CASE at.p # Len(pattern)
      <4>1. at.p < Len(pattern) /\ pattern[at.p + 1] # "*"
        BY <1>1, <1>4, <3>2 DEF AtStar
      <4>2. ~(at.v < Len(value) /\ Upper(value[at.v + 1]) = Upper(pattern[at.p + 1]))
        BY <1>4, <4>1 DEF AtSame
      <4>3. ~AtEnd(value, pattern, at)
        BY <3>2 DEF AtEnd
      <4> QED
        BY <1>1, <4>1, <4>2, <4>3, FitsIs
    <3> QED
      BY <3>1, <3>2
  <2> HIDE DEF to
  <2>4. Open(f, pattern, to) <=> Fits(f, pattern, at.nextV, at.nextP)
    BY <2>1 DEF Open
  <2> QED
    BY <2>2, <2>3, <2>4 DEF Open, to
<1> QED
  BY <1>2, <1>3, <1>4

\* How far the loop has come: the place to go back to, and that there is none any more.
Base(value, at) ==
    IF at.nextV # 0 THEN at.nextV ELSE IF at.v < Len(value) THEN 0 ELSE Len(value) + 1

LEMMA BaseIs ==
    ASSUME NEW value \in Text, NEW pattern \in Text, NEW at \in Place(value, pattern)
    PROVE  Base(value, at) \in Nat /\ Base(value, at) <= Len(value) + 1
  BY PlaceIs DEF Base

LEMMA StarAdvances ==
    ASSUME NEW value \in Text, NEW pattern \in Text, NEW at \in Place(value, pattern),
           Sane(pattern, at), AtStar(pattern, at)
    PROVE  LET to == Step(value, pattern, at) IN
           /\ to.p = at.p + 1 /\ Base(value, at) <= Base(value, to)
           /\ at.p = at.nextP /\ at.v = at.nextV /\ at.nextV # 0 => Base(value, at) < Base(value, to)
<1> DEFINE to == Step(value, pattern, at)
<1>1. /\ Len(value) \in Nat /\ at.v \in Nat /\ at.nextV \in Nat /\ at.p \in Nat /\ at.nextP \in Nat
      /\ at.v <= Len(value) /\ at.nextV <= Len(value)
  BY PlaceIs
<1>2. to.p = at.p + 1 /\ to.v = at.v /\ to.nextV = Back(at.v, Len(value))
  BY StepFields
<1> HIDE DEF to
<1>3. at.nextV # 0 => at.nextV <= at.v + 1
  <2>1. at.nextP < at.p /\ at.v + at.nextP + 2 = at.nextV + at.p => at.nextV <= at.v + 1
    BY <1>1
  <2>2. at.v = at.nextV => at.nextV <= at.v + 1
    BY <1>1
  <2> QED
    BY <2>1, <2>2 DEF Sane
<1>4. CASE at.v < Len(value)
  <2>1. Base(value, to) = at.v + 1
    BY <1>1, <1>2, <1>4 DEF Base, Back
  <2>2. Base(value, at) = at.nextV
    BY <1>4 DEF Base
  <2>3. at.nextV <= at.v + 1
    BY <1>1, <1>3
  <2>4. at.v = at.nextV => at.nextV < at.v + 1
    BY <1>1
  <2>5. Base(value, at) <= Base(value, to) /\ (at.v = at.nextV => Base(value, at) < Base(value, to))
    BY <2>1, <2>2, <2>3, <2>4
  <2> QED
    BY <1>2, <2>5 DEF to
<1>5. CASE ~(at.v < Len(value))
  <2>1. Base(value, to) = Len(value) + 1
    BY <1>1, <1>2, <1>5 DEF Base, Back
  <2>2. Base(value, at) <= Len(value) + 1 /\ (at.nextV # 0 => Base(value, at) < Len(value) + 1)
    BY <1>1 DEF Base
  <2> QED
    BY <1>2, <2>1, <2>2 DEF to
<1> QED
  BY <1>4, <1>5

LEMMA SameAdvances ==
    ASSUME NEW value \in Text, NEW pattern \in Text, NEW at \in Place(value, pattern),
           ~AtStar(pattern, at), AtSame(value, pattern, at)
    PROVE  LET to == Step(value, pattern, at) IN
           to.p = at.p + 1 /\ Base(value, at) <= Base(value, to)
<1> DEFINE to == Step(value, pattern, at)
<1>1. /\ Len(value) \in Nat /\ at.v \in Nat /\ at.nextV \in Nat
      /\ at.v <= Len(value) /\ at.nextV <= Len(value) /\ at.v < Len(value)
  BY PlaceIs DEF AtSame
<1>2. to.p = at.p + 1 /\ to.v = at.v + 1 /\ to.nextV = at.nextV
  BY StepFields
<1> HIDE DEF to
<1>3. Base(value, at) = at.nextV
  BY <1>1 DEF Base
<1>4. at.nextV <= Base(value, to)
  BY <1>1, <1>2 DEF Base
<1>5. to.p = at.p + 1 /\ Base(value, at) <= Base(value, to)
  BY <1>2, <1>3, <1>4
<1> QED
  BY <1>5 DEF to

\* By what the loop computes from the places that come after it, furthest first.
LEMMA GlobFinds ==
    ASSUME NEW value \in Text, NEW pattern \in Text, NEW g, Globs(g, value, pattern),
           NEW f, Rests(f, value, pattern),
           f \in [0..Len(pattern) -> SUBSET (0..Len(value))]
    PROVE  \A at \in Place(value, pattern) :
              Sane(pattern, at) => (g[at] <=> Open(f, pattern, at))
<1> DEFINE Wrong == {at \in Place(value, pattern) :
                        Sane(pattern, at) /\ ~(g[at] <=> Open(f, pattern, at))}
<1>1. Len(value) \in Nat /\ Len(pattern) \in Nat
  BY DEF Text
<1>2. ASSUME NEW at \in Wrong
      PROVE  /\ at \in Place(value, pattern) /\ Sane(pattern, at)
             /\ GoesOn(value, pattern, at) /\ Step(value, pattern, at) \in Wrong
  <2>1. at \in Place(value, pattern) /\ Sane(pattern, at) /\ ~(g[at] <=> Open(f, pattern, at))
    OBVIOUS
  <2>2. g[at] = (\/ AtEnd(value, pattern, at)
                 \/ GoesOn(value, pattern, at) /\ g[Step(value, pattern, at)])
    BY <2>1 DEF Globs
  <2>3. Open(f, pattern, at)
           <=> \/ AtEnd(value, pattern, at)
               \/ GoesOn(value, pattern, at) /\ Open(f, pattern, Step(value, pattern, at))
    BY <2>1, StepKeepsOpen
  <2> HIDE DEF Wrong
  <2>4. /\ GoesOn(value, pattern, at)
        /\ ~(g[Step(value, pattern, at)] <=> Open(f, pattern, Step(value, pattern, at)))
    BY <2>1, <2>2, <2>3
  <2>5. Step(value, pattern, at) \in Place(value, pattern) /\ Sane(pattern, Step(value, pattern, at))
    BY <2>1, <2>4, StepIs, StepIsSane
  <2> QED
    BY <2>1, <2>4, <2>5 DEF Wrong
<1>3. Wrong = {}
  <2> SUFFICES ASSUME Wrong # {} PROVE FALSE
    OBVIOUS
  <2> HIDE DEF Wrong
  <2> DEFINE Left == {Len(value) + 1 - Base(value, at) : at \in Wrong}
  <2>1. PICK a \in Wrong : \A at \in Wrong : Base(value, at) <= Base(value, a)
    <3>1. \A at \in Wrong : Base(value, at) \in Nat /\ Base(value, at) <= Len(value) + 1
      BY <1>2, BaseIs
    <3>2. Left \in SUBSET Nat /\ Left # {}
      BY <1>1, <3>1
    <3>3. PICK least \in Left : \A l \in Left : least <= l
      <4> HIDE DEF Left
      <4> QED
        BY <3>2, HasLeast
    <3>4. PICK a \in Wrong : least = Len(value) + 1 - Base(value, a)
      BY <3>3
    <3>5. ASSUME NEW at \in Wrong
          PROVE  Base(value, at) <= Base(value, a)
      <4>1. Len(value) + 1 - Base(value, at) \in Left
        OBVIOUS
      <4>2. Len(value) + 1 - Base(value, a) <= Len(value) + 1 - Base(value, at)
        BY <3>3, <3>4, <4>1
      <4> QED
        BY <1>1, <3>1, <4>2
    <3> QED
      BY <3>5
  <2> DEFINE Furthest == {at \in Wrong : Base(value, at) = Base(value, a)}
             Short == {Len(pattern) - at.p : at \in Furthest}
  <2>2. PICK c \in Furthest : \A at \in Furthest : at.p <= c.p
    <3>1. \A at \in Furthest : at.p \in Nat /\ at.p <= Len(pattern)
      BY <1>1, <1>2, PlaceIs
    <3>2. Short \in SUBSET Nat /\ Short # {}
      BY <1>1, <2>1, <3>1
    <3>3. PICK least \in Short : \A l \in Short : least <= l
      <4> HIDE DEF Short
      <4> QED
        BY <3>2, HasLeast
    <3>4. PICK c \in Furthest : least = Len(pattern) - c.p
      BY <3>3
    <3>5. ASSUME NEW at \in Furthest
          PROVE  at.p <= c.p
      <4>1. Len(pattern) - at.p \in Short
        OBVIOUS
      <4>2. Len(pattern) - c.p <= Len(pattern) - at.p
        BY <3>3, <3>4, <4>1
      <4> QED
        BY <1>1, <3>1, <4>2
    <3> QED
      BY <3>5
  <2> DEFINE to == Step(value, pattern, c)
  <2>3. /\ c \in Place(value, pattern) /\ Sane(pattern, c) /\ GoesOn(value, pattern, c)
        /\ c \in Wrong /\ to \in Wrong
    BY <1>2, <2>2
  <2>4. /\ c.p \in Nat /\ Base(value, c) \in Nat /\ Base(value, to) \in Nat
        /\ Base(value, to) <= Base(value, c)
    <3>1. c.p \in Nat /\ Base(value, c) \in Nat /\ Base(value, to) \in Nat
      BY <1>2, <2>3, PlaceIs, BaseIs
    <3>2. Base(value, c) = Base(value, a) /\ Base(value, to) <= Base(value, a)
      BY <2>1, <2>2, <2>3
    <3> QED
      BY <3>1, <3>2
  <2>5. CASE AtStar(pattern, c) \/ AtSame(value, pattern, c)
    <3>1. to.p = c.p + 1 /\ Base(value, c) <= Base(value, to)
      BY <2>3, <2>5, StarAdvances, SameAdvances
    <3> HIDE DEF to
    <3>2. Base(value, to) = Base(value, c)
      BY <2>4, <3>1
    <3>3. to \in Furthest
      BY <2>2, <2>3, <3>2
    <3>4. to.p <= c.p
      BY <2>2, <3>3
    <3> QED
      BY <2>4, <3>1, <3>4
  <2>6. CASE ~AtStar(pattern, c) /\ ~AtSame(value, pattern, c)
    <3>1. c.nextV # 0
      BY <2>3, <2>6 DEF GoesOn
    <3>2. /\ to.p = to.nextP /\ to.v = to.nextV /\ to.nextV = c.nextV /\ to.nextP = c.nextP
      BY <2>3, <2>6, StepFields
    <3> HIDE DEF to
    <3>3. AtStar(pattern, to)
      BY <2>3, <3>1, <3>2 DEF Sane, AtStar
    <3>4. /\ to \in Place(value, pattern) /\ Sane(pattern, to)
          /\ Step(value, pattern, to) \in Wrong
      BY <1>2, <2>3
    <3>5. Base(value, to) < Base(value, Step(value, pattern, to))
      BY <3>1, <3>2, <3>3, <3>4, StarAdvances
    <3>6. Base(value, c) = c.nextV /\ Base(value, to) = c.nextV
      BY <3>1, <3>2 DEF Base
    <3>7. Base(value, Step(value, pattern, to)) <= Base(value, c)
      BY <2>1, <2>2, <3>4
    <3>8. Base(value, Step(value, pattern, to)) \in Nat
      BY <1>2, <3>4, BaseIs
    <3> QED
      BY <2>4, <3>5, <3>6, <3>7, <3>8
  <2> QED
    BY <2>5, <2>6
<1> QED
  BY <1>3

\* The loop accepts a value if and only if the pattern means it.
LEMMA GlobMeans ==
    ASSUME NEW value \in Text, NEW pattern \in Text
    PROVE  is_string_matching_glob_pattern(value, pattern) <=> Means(pattern, value)
<1> DEFINE first == [v |-> 0, nextV |-> 0, p |-> 0, nextP |-> 0]
<1>1. PICK g : Globs(g, value, pattern) /\ is_string_matching_glob_pattern(value, pattern) = g[first]
  BY GlobIs
<1>2. PICK f : /\ Rests(f, value, pattern)
               /\ f \in [0..Len(pattern) -> SUBSET (0..Len(value))]
               /\ Means(pattern, value) <=> Fits(f, pattern, 0, 0)
  BY MeansIs
<1>3. first \in Place(value, pattern) /\ Sane(pattern, first)
  <2>1. Len(value) \in Nat /\ Len(pattern) \in Nat
    BY DEF Text
  <2> QED
    BY <2>1 DEF Place, Sane
<1>4. g[first] <=> Open(f, pattern, first)
  BY <1>1, <1>2, <1>3, GlobFinds
<1>5. Open(f, pattern, first) <=> Fits(f, pattern, 0, 0)
  BY DEF Open
<1> QED
  BY <1>1, <1>2, <1>4, <1>5

-----------------------------------------------------------------------------
(* Labels *)

IsEnd(text, pos, end) ==
    /\ end \in (pos - 1)..Len(text)
    /\ \A i \in pos..end : text[i] # "."
    /\ end < Len(text) => text[end + 1] = "."

LEMMA LabelEndIs ==
    ASSUME NEW text \in Text, NEW pos \in 1..(Len(text) + 1)
    PROVE  IsEnd(text, pos, LabelEnd(text, pos))
<1> DEFINE dots == {i \in pos..Len(text) : text[i] = "."}
<1>1. Len(text) \in Nat /\ pos \in Nat /\ 1 <= pos /\ pos <= Len(text) + 1
  BY DEF Text
<1>2. CASE dots = {}
  <2>1. LabelEnd(text, pos) = Len(text)
    BY <1>2 DEF LabelEnd
  <2> QED
    BY <1>1, <1>2, <2>1 DEF IsEnd
<1>3. CASE dots # {}
  <2> DEFINE dot == CHOOSE i \in dots : \A j \in dots : i <= j
  <2>1. dots \in SUBSET Nat
    BY <1>1
  <2>2. LabelEnd(text, pos) = dot - 1
    BY <1>3 DEF LabelEnd
  <2> HIDE DEF dots
  <2>3. dot \in dots /\ \A j \in dots : dot <= j
    BY <1>3, <2>1, HasLeast
  <2> HIDE DEF dot
  <2>4. dot \in pos..Len(text) /\ text[dot] = "."
    BY <2>3 DEF dots
  <2>5. ASSUME NEW i \in pos..(dot - 1)
        PROVE  text[i] # "."
    <3>1. i \in pos..Len(text) /\ i < dot /\ dot \in Nat
      BY <1>1, <2>4
    <3> QED
      BY <2>3, <3>1 DEF dots
  <2>6. dot - 1 \in (pos - 1)..Len(text) /\ dot - 1 + 1 = dot
    BY <1>1, <2>4
  <2> QED
    BY <2>2, <2>4, <2>5, <2>6 DEF IsEnd
<1> QED
  BY <1>2, <1>3

LEMMA OneEnd ==
    ASSUME NEW text \in Text, NEW pos \in 1..(Len(text) + 1), NEW a, NEW b,
           IsEnd(text, pos, a), IsEnd(text, pos, b)
    PROVE  a = b
<1>1. /\ Len(text) \in Nat /\ pos \in Nat /\ a \in Int /\ b \in Int
      /\ pos - 1 <= a /\ a <= Len(text) /\ pos - 1 <= b /\ b <= Len(text)
  BY DEF Text, IsEnd
<1>2. ~(a < b)
  <2> SUFFICES ASSUME a < b PROVE FALSE
    OBVIOUS
  <2>1. a < Len(text) /\ a + 1 \in pos..b
    BY <1>1
  <2> QED
    BY <2>1 DEF IsEnd
<1>3. ~(b < a)
  <2> SUFFICES ASSUME b < a PROVE FALSE
    OBVIOUS
  <2>1. b < Len(text) /\ b + 1 \in pos..a
    BY <1>1
  <2> QED
    BY <2>1 DEF IsEnd
<1> QED
  BY <1>1, <1>2, <1>3

LEMMA LabelIs ==
    ASSUME NEW text \in Text, NEW pos \in 1..(Len(text) + 1)
    PROVE  /\ LabelAt(text, pos) \in Text
           /\ Len(LabelAt(text, pos)) = LabelEnd(text, pos) - pos + 1
           /\ \A i \in 1..Len(LabelAt(text, pos)) : LabelAt(text, pos)[i] = text[pos + i - 1]
<1> DEFINE end == LabelEnd(text, pos)
<1>1. IsEnd(text, pos, end)
  BY LabelEndIs
<1> HIDE DEF end
<1>2. /\ Len(text) \in Nat /\ pos \in Int /\ end \in Int /\ 1 <= pos
      /\ pos - 1 <= end /\ end <= Len(text)
  BY <1>1 DEF Text, IsEnd
<1>3. \A i \in pos..end : text[i] \in STRING
  <2> TAKE i \in pos..end
  <2>1. i \in 1..Len(text)
    BY <1>2
  <2> QED
    BY <2>1 DEF Text
<1>4. /\ SubSeq(text, pos, end) \in Seq(STRING)
      /\ Len(SubSeq(text, pos, end)) = IF pos <= end THEN end - pos + 1 ELSE 0
      /\ \A i \in 1..(end - pos + 1) : SubSeq(text, pos, end)[i] = text[pos + i - 1]
  BY <1>2, <1>3, TheoremsOf!SubSeqProperties
<1>5. Len(SubSeq(text, pos, end)) = end - pos + 1
  BY <1>2, <1>4
<1> QED
  BY <1>4, <1>5 DEF LabelAt, end, Text

\* A label is known by its place and its end.
LEMMA SameLabel ==
    ASSUME NEW s \in Text, NEW t \in Text, NEW pos \in 1..(Len(s) + 1), pos \in 1..(Len(t) + 1),
           LabelEnd(s, pos) = LabelEnd(t, pos),
           \A i \in pos..LabelEnd(s, pos) : s[i] = t[i]
    PROVE  LabelAt(s, pos) = LabelAt(t, pos)
<1> DEFINE a == LabelAt(s, pos)
           b == LabelAt(t, pos)
           end == LabelEnd(s, pos)
<1>1. /\ a \in Text /\ Len(a) = end - pos + 1 /\ \A i \in 1..Len(a) : a[i] = s[pos + i - 1]
      /\ b \in Text /\ Len(b) = end - pos + 1 /\ \A i \in 1..Len(b) : b[i] = t[pos + i - 1]
  BY LabelIs
<1>2. end \in Int /\ pos \in Int
  BY LabelEndIs DEF IsEnd
<1> HIDE DEF a, b
<1>3. ASSUME NEW i \in 1..Len(a)
      PROVE  a[i] = b[i]
  <2>1. pos + i - 1 \in pos..end /\ i \in 1..Len(b)
    <3> HIDE DEF end
    <3> QED
      BY <1>1, <1>2
  <2> QED
    BY <1>1, <2>1
<1>4. a = b
  BY <1>1, <1>3, TheoremsOf!SeqEqual DEF Text
<1> QED
  BY <1>4 DEF a, b

LEMMA StartsAre ==
    ASSUME NEW text \in Text
    PROVE  /\ Starts(text) \subseteq 1..(Len(text) + 1) /\ 1 \in Starts(text)
           /\ IsFiniteSet(Starts(text))
           /\ \A pos \in Int : pos \in Starts(text)
                 <=> pos = 1 \/ (pos - 1 \in 1..Len(text) /\ text[pos - 1] = ".")
           /\ \A pos \in Starts(text) :
                 IsFiniteSet(After(text, pos)) /\ Cardinality(After(text, pos)) \in Nat
<1>1. Len(text) \in Nat /\ DOMAIN text = 1..Len(text)
  BY DEF Text
<1>2. Starts(text) \subseteq 1..(Len(text) + 1) /\ 1 \in Starts(text)
  BY <1>1 DEF Starts
<1>3. ASSUME NEW pos \in Int
      PROVE  pos \in Starts(text) <=> pos = 1 \/ (pos - 1 \in 1..Len(text) /\ text[pos - 1] = ".")
  <2>1. \A i \in 1..Len(text) : i + 1 = pos <=> i = pos - 1
    BY <1>1
  <2> QED
    BY <1>1, <2>1 DEF Starts
<1>4. IsFiniteSet(Starts(text))
  <2>1. IsFiniteSet(1..(Len(text) + 1))
    BY <1>1, FS_Interval
  <2> QED
    BY <1>2, <2>1, FS_Subset
<1>5. \A pos \in Starts(text) :
         IsFiniteSet(After(text, pos)) /\ Cardinality(After(text, pos)) \in Nat
  <2> TAKE pos \in Starts(text)
  <2>1. After(text, pos) \subseteq Starts(text)
    BY DEF After
  <2> QED
    BY <1>4, <2>1, FS_Subset, FS_CardinalityType
<1> QED
  BY <1>2, <1>3, <1>4, <1>5

\* Another label follows if and only if the label ends before the text does.
LEMMA NextLabelIs ==
    ASSUME NEW text \in Text, NEW pos \in Starts(text)
    PROVE  /\ pos \in 1..(Len(text) + 1)
           /\ After(text, pos) # {} <=> LabelEnd(text, pos) < Len(text)
           /\ After(text, pos) # {} => LabelEnd(text, pos) + 2 \in After(text, pos)
           /\ \A q \in After(text, pos) : LabelEnd(text, pos) + 2 <= q
<1> DEFINE end == LabelEnd(text, pos)
<1>1. pos \in 1..(Len(text) + 1) /\ Len(text) \in Nat
  BY StartsAre DEF Text
<1>2. IsEnd(text, pos, end)
  BY <1>1, LabelEndIs
<1> HIDE DEF end
<1>3. end \in Int /\ pos - 1 <= end /\ end <= Len(text)
  BY <1>1, <1>2 DEF IsEnd
<1>4. ASSUME end < Len(text)
      PROVE  end + 2 \in After(text, pos)
  <2>1. text[end + 1] = "." /\ end + 2 - 1 = end + 1 /\ end + 1 \in 1..Len(text) /\ pos < end + 2
    BY <1>1, <1>2, <1>3, <1>4 DEF IsEnd
  <2>2. end + 2 \in Starts(text)
    BY <1>3, <2>1, StartsAre
  <2> QED
    BY <2>1, <2>2 DEF After
<1>5. ASSUME NEW q \in After(text, pos)
      PROVE  end + 2 <= q /\ end < Len(text)
  <2>1. q \in Starts(text) /\ pos < q /\ q \in Int /\ q <= Len(text) + 1
    BY <1>1, StartsAre DEF After
  <2>2. q # 1 /\ q - 1 \in 1..Len(text) /\ text[q - 1] = "."
    BY <1>1, <2>1, StartsAre
  <2>3. ~(q - 1 \in pos..end)
    BY <1>2, <2>2 DEF IsEnd
  <2> QED
    BY <1>1, <1>3, <2>1, <2>3
<1> QED
  BY <1>1, <1>4, <1>5 DEF end

-----------------------------------------------------------------------------
(* A text with one more character *)

LEMMA AnyAppend ==
    ASSUME NEW S, NEW s \in Seq(S), NEW c \in S
    PROVE  /\ Append(s, c) \in Seq(S) /\ Len(Append(s, c)) = Len(s) + 1
           /\ \A i \in 1..Len(s) : Append(s, c)[i] = s[i]
           /\ Append(s, c)[Len(s) + 1] = c
BY TheoremsOf!AppendProperties

LEMMA AppendIs ==
    ASSUME NEW text \in Text, NEW c \in STRING
    PROVE  /\ Append(text, c) \in Text /\ Len(Append(text, c)) = Len(text) + 1
           /\ Len(text) \in Nat
           /\ \A i \in 1..Len(text) : Append(text, c)[i] = text[i]
           /\ Append(text, c)[Len(text) + 1] = c
<1>1. text \in Seq(STRING) /\ Len(text) \in Nat
  BY DEF Text
<1>2. /\ Append(text, c) \in Seq(STRING) /\ Len(Append(text, c)) = Len(text) + 1
      /\ \A i \in 1..Len(text) : Append(text, c)[i] = text[i]
      /\ Append(text, c)[Len(text) + 1] = c
  BY <1>1, AnyAppend, Zenon
<1> QED
  BY <1>1, <1>2 DEF Text

\* The start of the last label.
Latest(text) == CHOOSE pos \in Starts(text) : After(text, pos) = {}

LEMMA LatestIs ==
    ASSUME NEW text \in Text
    PROVE  /\ Latest(text) \in Starts(text) /\ After(text, Latest(text)) = {}
           /\ \A pos \in Starts(text) : pos <= Latest(text)
           /\ \A pos \in Starts(text) : After(text, pos) = {} => pos = Latest(text)
<1> DEFINE Left == {Len(text) + 1 - pos : pos \in Starts(text)}
<1>1. /\ Len(text) \in Nat /\ Starts(text) # {}
      /\ \A pos \in Starts(text) : pos \in Nat /\ pos <= Len(text) + 1
  BY StartsAre DEF Text
<1>2. Left \in SUBSET Nat /\ Left # {}
  BY <1>1
<1>3. PICK least \in Left : \A l \in Left : least <= l
  <2> HIDE DEF Left
  <2> QED
    BY <1>2, HasLeast
<1>4. PICK last \in Starts(text) : least = Len(text) + 1 - last
  BY <1>3
<1>5. \A pos \in Starts(text) : pos <= last
  <2> TAKE pos \in Starts(text)
  <2>1. Len(text) + 1 - last <= Len(text) + 1 - pos
    BY <1>3, <1>4
  <2> QED
    BY <1>1, <2>1
<1>6. After(text, last) = {}
  BY <1>1, <1>5 DEF After
<1>7. Latest(text) \in Starts(text) /\ After(text, Latest(text)) = {}
  BY <1>6 DEF Latest
<1>8. \A p, q \in Starts(text) : After(text, p) = {} => q <= p
  BY <1>1 DEF After
<1> QED
  BY <1>1, <1>7, <1>8

LEMMA WithCharacter ==
    ASSUME NEW text \in Text, NEW c \in STRING, c # "."
    PROVE  /\ Starts(Append(text, c)) = Starts(text)
           /\ \A pos \in Starts(text) : After(Append(text, c), pos) = After(text, pos)
           /\ Latest(Append(text, c)) = Latest(text)
           /\ LabelAt(Append(text, c), Latest(text)) = Append(LabelAt(text, Latest(text)), c)
           /\ \A pos \in Starts(text) :
                 After(text, pos) # {} => LabelAt(Append(text, c), pos) = LabelAt(text, pos)
<1> DEFINE longer == Append(text, c)
<1>1. /\ longer \in Text /\ Len(longer) = Len(text) + 1 /\ Len(text) \in Nat
      /\ \A i \in 1..Len(text) : longer[i] = text[i]
      /\ longer[Len(text) + 1] = c
  BY AppendIs
<1> HIDE DEF longer
<1>2. ASSUME NEW pos \in Int
      PROVE  pos \in Starts(longer) <=> pos \in Starts(text)
  <2>1. pos \in Starts(longer)
           <=> pos = 1 \/ (pos - 1 \in 1..(Len(text) + 1) /\ longer[pos - 1] = ".")
    BY <1>1, StartsAre
  <2>2. pos \in Starts(text) <=> pos = 1 \/ (pos - 1 \in 1..Len(text) /\ text[pos - 1] = ".")
    BY StartsAre
  <2>3. pos - 1 \in 1..(Len(text) + 1) <=> pos - 1 \in 1..Len(text) \/ pos - 1 = Len(text) + 1
    BY <1>1
  <2> QED
    BY <1>1, <2>1, <2>2, <2>3
<1>3. Starts(longer) = Starts(text)
  <2>1. Starts(longer) \subseteq Int /\ Starts(text) \subseteq Int
    BY <1>1, StartsAre
  <2> QED
    BY <1>2, <2>1
<1>4. \A pos : After(longer, pos) = After(text, pos)
  BY <1>3 DEF After
<1>5. Latest(longer) = Latest(text)
  BY <1>3, <1>4 DEF Latest
<1>6. ASSUME NEW pos \in Starts(text), After(text, pos) # {}
      PROVE  LabelAt(longer, pos) = LabelAt(text, pos)
  <2> DEFINE end == LabelEnd(text, pos)
  <2>1. pos \in 1..(Len(text) + 1) /\ pos \in 1..(Len(longer) + 1) /\ end < Len(text)
    BY <1>1, <1>6, NextLabelIs
  <2>2. IsEnd(text, pos, end) /\ IsEnd(longer, pos, LabelEnd(longer, pos))
    BY <1>1, <2>1, LabelEndIs
  <2> HIDE DEF end
  <2>3. end \in Int /\ pos \in Nat /\ 1 <= pos /\ pos - 1 <= end /\ end < Len(text)
    BY <1>1, <2>1, <2>2 DEF IsEnd
  <2>4. \A i \in pos..(end + 1) : longer[i] = text[i]
    BY <1>1, <2>3
  <2>5. \A i \in pos..end : longer[i] # "."
    <3> TAKE i \in pos..end
    <3>1. i \in pos..(end + 1)
      BY <2>3
    <3> QED
      BY <2>2, <2>4, <3>1 DEF IsEnd
  <2>6. longer[end + 1] = "."
    BY <2>2, <2>3, <2>4 DEF IsEnd
  <2>7. IsEnd(longer, pos, end)
    BY <1>1, <2>3, <2>5, <2>6 DEF IsEnd
  <2>8. LabelEnd(longer, pos) = LabelEnd(text, pos)
    BY <1>1, <2>1, <2>2, <2>7, OneEnd DEF end
  <2>9. \A i \in pos..LabelEnd(longer, pos) : longer[i] = text[i]
    BY <2>3, <2>4, <2>8 DEF end
  <2> QED
    BY <1>1, <2>1, <2>8, <2>9, SameLabel
<1>7. LabelAt(longer, Latest(text)) = Append(LabelAt(text, Latest(text)), c)
  <2> DEFINE pos == Latest(text)
             a == LabelAt(text, pos)
             b == LabelAt(longer, pos)
  <2>1. /\ pos \in Starts(text) /\ pos \in 1..(Len(text) + 1) /\ pos \in 1..(Len(longer) + 1)
        /\ ~(LabelEnd(text, pos) < Len(text))
    BY <1>1, LatestIs, NextLabelIs
  <2>2. IsEnd(text, pos, LabelEnd(text, pos))
    BY <2>1, LabelEndIs
  <2> HIDE DEF pos
  <2>3. LabelEnd(text, pos) = Len(text) /\ pos \in Nat /\ 1 <= pos /\ pos <= Len(text) + 1
    BY <1>1, <2>1, <2>2 DEF IsEnd
  <2>4. IsEnd(longer, pos, Len(text) + 1)
    <3>1. ASSUME NEW i \in pos..(Len(text) + 1)
          PROVE  longer[i] # "."
      <4>1. CASE i = Len(text) + 1
        BY <1>1, <4>1
      <4>2. CASE i # Len(text) + 1
        <5>1. i \in pos..Len(text) /\ i \in 1..Len(text)
          BY <1>1, <2>3, <4>2
        <5> QED
          BY <1>1, <2>2, <2>3, <5>1 DEF IsEnd
      <4> QED
        BY <4>1, <4>2
    <3> QED
      BY <1>1, <2>3, <3>1 DEF IsEnd
  <2>5. LabelEnd(longer, pos) = Len(text) + 1
    BY <1>1, <2>1, <2>4, LabelEndIs, OneEnd
  <2>6. /\ a \in Text /\ Len(a) = Len(text) - pos + 1 /\ Len(a) \in Nat
        /\ \A i \in 1..Len(a) : a[i] = text[pos + i - 1]
    BY <2>1, <2>3, LabelIs DEF Text
  <2>7. /\ b \in Text /\ Len(b) = Len(text) + 1 - pos + 1
        /\ \A i \in 1..Len(b) : b[i] = longer[pos + i - 1]
    <3>1. /\ b \in Text /\ Len(b) = LabelEnd(longer, pos) - pos + 1
          /\ \A i \in 1..Len(b) : b[i] = longer[pos + i - 1]
      BY <1>1, <2>1, LabelIs
    <3>2. LabelEnd(longer, pos) - pos + 1 = Len(text) + 1 - pos + 1
      BY <1>1, <2>3, <2>5
    <3> HIDE DEF b
    <3> QED
      BY <3>1, <3>2
  <2> HIDE DEF a, b
  <2>8. /\ Append(a, c) \in Text /\ Len(Append(a, c)) = Len(a) + 1
        /\ \A i \in 1..Len(a) : Append(a, c)[i] = a[i]
        /\ Append(a, c)[Len(a) + 1] = c
    BY <2>6, AppendIs
  <2>9. Len(b) = Len(a) + 1 /\ pos + (Len(a) + 1) - 1 = Len(text) + 1
    BY <1>1, <2>3, <2>6, <2>7
  <2>10. ASSUME NEW i \in 1..Len(b)
         PROVE  b[i] = Append(a, c)[i]
    <3>1. CASE i = Len(a) + 1
      BY <1>1, <2>7, <2>8, <2>9, <3>1
    <3>2. CASE i # Len(a) + 1
      <4>1. i \in 1..Len(a) /\ pos + i - 1 \in 1..Len(text)
        BY <1>1, <2>3, <2>6, <2>9, <3>2
      <4> QED
        BY <1>1, <2>6, <2>7, <2>8, <4>1
    <3> QED
      BY <3>1, <3>2
  <2>11. b = Append(a, c)
    BY <2>7, <2>8, <2>9, <2>10, TheoremsOf!SeqEqual DEF Text
  <2> QED
    BY <2>11 DEF a, b, pos
<1> QED
  BY <1>3, <1>4, <1>5, <1>6, <1>7 DEF longer

LEMMA WithDot ==
    ASSUME NEW text \in Text, "." \in STRING
    PROVE  LET longer == Append(text, ".")
               next == Len(text) + 2
           IN /\ Starts(longer) = Starts(text) \cup {next} /\ next \notin Starts(text)
              /\ \A pos \in Starts(text) :
                    /\ After(longer, pos) = After(text, pos) \cup {next}
                    /\ LabelAt(longer, pos) = LabelAt(text, pos)
              /\ After(longer, next) = {} /\ Latest(longer) = next
              /\ LabelAt(longer, next) = <<>>
<1> DEFINE longer == Append(text, ".")
           next == Len(text) + 2
<1>1. /\ longer \in Text /\ Len(longer) = Len(text) + 1 /\ Len(text) \in Nat
      /\ \A i \in 1..Len(text) : longer[i] = text[i]
      /\ longer[Len(text) + 1] = "."
  BY AppendIs
<1> HIDE DEF longer
<1>2. ASSUME NEW pos \in Int
      PROVE  pos \in Starts(longer) <=> pos \in Starts(text) \/ pos = next
  <2>1. pos \in Starts(longer)
           <=> pos = 1 \/ (pos - 1 \in 1..(Len(text) + 1) /\ longer[pos - 1] = ".")
    BY <1>1, StartsAre
  <2>2. pos \in Starts(text) <=> pos = 1 \/ (pos - 1 \in 1..Len(text) /\ text[pos - 1] = ".")
    BY StartsAre
  <2>3. /\ pos - 1 \in 1..(Len(text) + 1) <=> pos - 1 \in 1..Len(text) \/ pos - 1 = Len(text) + 1
        /\ pos - 1 = Len(text) + 1 <=> pos = next
    BY <1>1
  <2> QED
    BY <1>1, <2>1, <2>2, <2>3
<1>3. /\ \A pos \in Starts(text) : pos \in Int /\ pos <= Len(text) + 1 /\ 1 <= pos
      /\ \A pos \in Starts(longer) : pos \in Int
  BY <1>1, StartsAre
<1>4. Starts(longer) = Starts(text) \cup {next} /\ next \notin Starts(text) /\ next \in Int
  BY <1>1, <1>2, <1>3
<1>5. \A pos \in Starts(text) : pos < next
  BY <1>1, <1>3
<1>6. \A pos \in Starts(text) : After(longer, pos) = After(text, pos) \cup {next}
  BY <1>4, <1>5 DEF After
<1>7. After(longer, next) = {}
  <2>1. \A pos \in Starts(text) : ~(next < pos)
    BY <1>1, <1>3
  <2>2. ~(next < next)
    BY <1>1
  <2> QED
    BY <1>4, <2>1, <2>2 DEF After
<1>8. Latest(longer) = next
  BY <1>1, <1>4, <1>7, LatestIs
<1>9. LabelAt(longer, next) = <<>>
  <2>1. next \in 1..(Len(longer) + 1)
    BY <1>1
  <2>2. IsEnd(longer, next, LabelEnd(longer, next))
    BY <1>1, <2>1, LabelEndIs
  <2>3. LabelEnd(longer, next) = Len(text) + 1
    BY <1>1, <2>2 DEF IsEnd
  <2>4. LabelAt(longer, next) \in Text /\ Len(LabelAt(longer, next)) = Len(text) + 1 - next + 1
    BY <1>1, <2>1, <2>3, LabelIs
  <2>5. Len(text) + 1 - next + 1 = 0
    BY <1>1
  <2> QED
    BY <2>4, <2>5, TheoremsOf!EmptySeq DEF Text
<1>10. ASSUME NEW pos \in Starts(text)
       PROVE  LabelAt(longer, pos) = LabelAt(text, pos)
  <2> DEFINE end == LabelEnd(text, pos)
  <2>1. pos \in 1..(Len(text) + 1) /\ pos \in 1..(Len(longer) + 1)
    BY <1>1, <1>3
  <2>2. IsEnd(text, pos, end) /\ IsEnd(longer, pos, LabelEnd(longer, pos))
    BY <1>1, <2>1, LabelEndIs
  <2> HIDE DEF end
  <2>3. end \in Int /\ pos \in Nat /\ 1 <= pos /\ pos - 1 <= end /\ end <= Len(text)
    BY <1>1, <2>1, <2>2 DEF IsEnd
  <2>4. \A i \in pos..end : longer[i] = text[i]
    BY <1>1, <2>3
  <2>5. \A i \in pos..end : longer[i] # "."
    BY <2>2, <2>4 DEF IsEnd
  <2>6. longer[end + 1] = "."
    <3>1. CASE end = Len(text)
      BY <1>1, <3>1
    <3>2. CASE end # Len(text)
      <4>1. end < Len(text) /\ end + 1 \in 1..Len(text)
        BY <1>1, <2>3, <3>2
      <4> QED
        BY <1>1, <2>2, <4>1 DEF IsEnd
    <3> QED
      BY <3>1, <3>2
  <2>7. IsEnd(longer, pos, end)
    BY <1>1, <2>3, <2>5, <2>6 DEF IsEnd
  <2>8. LabelEnd(longer, pos) = LabelEnd(text, pos)
    BY <1>1, <2>1, <2>2, <2>7, OneEnd DEF end
  <2>9. \A i \in pos..LabelEnd(longer, pos) : longer[i] = text[i]
    BY <2>3, <2>4, <2>8 DEF end
  <2> QED
    BY <1>1, <2>1, <2>8, <2>9, SameLabel
<1> QED
  BY <1>4, <1>6, <1>7, <1>8, <1>9, <1>10 DEF longer

-----------------------------------------------------------------------------
(* The scan of a name *)

Spots(text, chars) == {i \in DOMAIN text : text[i] \in chars}

LEMMA SpotsAre ==
    ASSUME NEW text \in Text, NEW chars
    PROVE  IsFiniteSet(Spots(text, chars)) /\ Cardinality(Spots(text, chars)) \in Nat
<1>1. Spots(text, chars) \subseteq 1..Len(text) /\ Len(text) \in Nat
  BY DEF Text, Spots
<1>2. IsFiniteSet(1..Len(text))
  BY <1>1, FS_Interval
<1> QED
  BY <1>1, <1>2, FS_Subset, FS_CardinalityType

LEMMA SpotsWith ==
    ASSUME NEW text \in Text, NEW c \in STRING, NEW chars
    PROVE  Cardinality(Spots(Append(text, c), chars))
              = Cardinality(Spots(text, chars)) + IF c \in chars THEN 1 ELSE 0
<1> DEFINE longer == Append(text, c)
           last == Len(text) + 1
<1>1. /\ longer \in Text /\ Len(longer) = Len(text) + 1 /\ Len(text) \in Nat
      /\ \A i \in 1..Len(text) : longer[i] = text[i]
      /\ longer[Len(text) + 1] = c
      /\ DOMAIN text = 1..Len(text) /\ DOMAIN longer = 1..Len(longer)
  <2>1. /\ longer \in Text /\ Len(longer) = Len(text) + 1 /\ Len(text) \in Nat
        /\ \A i \in 1..Len(text) : longer[i] = text[i]
        /\ longer[Len(text) + 1] = c
    BY AppendIs
  <2> HIDE DEF longer
  <2> QED
    BY <2>1 DEF Text
<1> HIDE DEF longer
<1>2. /\ 1..Len(longer) = 1..Len(text) \cup {last} /\ last \notin 1..Len(text)
  BY <1>1
<1>3. Spots(longer, chars) = IF c \in chars THEN Spots(text, chars) \cup {last} ELSE Spots(text, chars)
  BY <1>1, <1>2 DEF Spots
<1>4. last \notin Spots(text, chars)
  BY <1>1, <1>2 DEF Spots
<1>5. IsFiniteSet(Spots(text, chars)) /\ Cardinality(Spots(text, chars)) \in Nat
  BY SpotsAre
<1>6. Cardinality(Spots(text, chars) \cup {last}) = Cardinality(Spots(text, chars)) + 1
  BY <1>4, <1>5, FS_AddElement
<1>7. Cardinality(Spots(longer, chars)) = Cardinality(Spots(text, chars)) + IF c \in chars THEN 1 ELSE 0
  <2>1. CASE c \in chars
    BY <1>3, <1>6, <2>1
  <2>2. CASE c \notin chars
    BY <1>3, <1>5, <2>2
  <2> QED
    BY <2>1, <2>2
<1> QED
  BY <1>7 DEF longer

LEMMA CountsWith ==
    ASSUME NEW text \in Text, NEW c \in STRING
    PROVE  /\ Stars(text) \in Nat /\ Bare(text) \in Nat
           /\ Stars(Append(text, c)) = IF c = "*" THEN Stars(text) + 1 ELSE Stars(text)
           /\ Bare(Append(text, c)) = IF c \in {".", "*"} THEN Bare(text) ELSE Bare(text) + 1
<1> DEFINE plain == STRING \ {".", "*"}
<1>1. ASSUME NEW t \in Text
      PROVE  Stars(t) = Cardinality(Spots(t, {"*"})) /\ Bare(t) = Cardinality(Spots(t, plain))
  <2>1. \A i \in DOMAIN t : t[i] \in STRING
    BY DEF Text
  <2>2. /\ {i \in DOMAIN t : t[i] = "*"} = Spots(t, {"*"})
        /\ {i \in DOMAIN t : t[i] \notin {".", "*"}} = Spots(t, plain)
    BY <2>1 DEF Spots
  <2> QED
    BY <2>2 DEF Stars, Bare
<1>2. Append(text, c) \in Text
  BY AppendIs
<1>3. c \in {"*"} <=> c = "*"
  OBVIOUS
<1>4. c \in plain <=> c \notin {".", "*"}
  OBVIOUS
<1> HIDE DEF plain
<1> QED
  BY <1>1, <1>2, <1>3, <1>4, SpotsAre, SpotsWith

Allowed == Letters \cup Digits \cup {"-", "*"}

\* What a label that is still open may be.
MayGoOn(label, wildcards) ==
    /\ ToSet(label) \subseteq Allowed
    /\ label # <<>> => label[1] # "-"
    /\ Stars(label) <= wildcards

LEMMA LabelGoesOn ==
    ASSUME NEW label \in Text, NEW c \in STRING, NEW wildcards \in Nat
    PROVE  MayGoOn(Append(label, c), wildcards)
              <=> /\ MayGoOn(label, wildcards) /\ c \in Allowed
                  /\ label = <<>> => c # "-"
                  /\ c = "*" => Stars(label) < wildcards
<1> DEFINE longer == Append(label, c)
<1>1. /\ longer \in Text /\ Len(longer) = Len(label) + 1 /\ Len(label) \in Nat
      /\ \A i \in 1..Len(label) : longer[i] = label[i]
      /\ longer[Len(label) + 1] = c
      /\ DOMAIN label = 1..Len(label) /\ DOMAIN longer = 1..Len(longer)
  <2>1. /\ longer \in Text /\ Len(longer) = Len(label) + 1 /\ Len(label) \in Nat
        /\ \A i \in 1..Len(label) : longer[i] = label[i]
        /\ longer[Len(label) + 1] = c
    BY AppendIs
  <2> HIDE DEF longer
  <2> QED
    BY <2>1 DEF Text
<1>2. /\ Stars(label) \in Nat
      /\ Stars(longer) = IF c = "*" THEN Stars(label) + 1 ELSE Stars(label)
  BY CountsWith
<1> HIDE DEF longer
<1>3. 1..Len(longer) = 1..Len(label) \cup {Len(label) + 1}
  BY <1>1
<1>4. ToSet(longer) = ToSet(label) \cup {c}
  <2>1. \A i \in DOMAIN longer : longer[i] \in ToSet(label) \cup {c}
    BY <1>1, <1>3 DEF ToSet
  <2>2. \A i \in DOMAIN label : label[i] \in ToSet(longer)
    BY <1>1, <1>3 DEF ToSet
  <2>3. c \in ToSet(longer)
    BY <1>1, <1>3 DEF ToSet
  <2> QED
    BY <2>1, <2>2, <2>3 DEF ToSet
<1>5. longer # <<>> /\ (label = <<>> <=> Len(label) = 0)
  BY <1>1, TheoremsOf!EmptySeq DEF Text
<1>6. longer[1] = IF label = <<>> THEN c ELSE label[1]
  <2>1. CASE label = <<>>
    <3>1. Len(label) + 1 = 1
      BY <1>1, <1>5, <2>1
    <3>2. longer[1] = c
      BY <1>1, <3>1, Zenon
    <3> QED
      BY <2>1, <3>2, Zenon
  <2>2. CASE label # <<>>
    <3>1. 1 \in 1..Len(label)
      BY <1>1, <1>5, <2>2
    <3> QED
      BY <1>1, <2>2, <3>1
  <2> QED
    BY <2>1, <2>2
<1>7. Stars(longer) <= wildcards <=> Stars(label) <= wildcards /\ (c = "*" => Stars(label) < wildcards)
  BY <1>2
<1> QED
  BY <1>4, <1>5, <1>6, <1>7 DEF MayGoOn, longer

LEMMA LabelCloses ==
    ASSUME NEW label \in Text, NEW wildcards \in Nat
    PROVE  IsLabel(label, wildcards)
              <=> MayGoOn(label, wildcards) /\ label # <<>> /\ Last(label) # "-" /\ LabelFits(label)
<1>1. Stars(label) \in Nat /\ Len(label) \in Nat /\ MAX_LABEL_LENGTH \in Nat
  <2>1. {i \in DOMAIN label : label[i] = "*"} = Spots(label, {"*"})
    BY DEF Spots
  <2>2. Stars(label) \in Nat
    BY <2>1, SpotsAre DEF Stars
  <2>3. Len(label) \in Nat
    BY DEF Text
  <2> QED
    BY <2>2, <2>3, LimitsAssumption
<1>2. LabelFits(label) <=> Len(label) <= MAX_LABEL_LENGTH + Stars(label)
  BY <1>1 DEF LabelFits
<1> QED
  BY <1>2 DEF IsLabel, MayGoOn, Allowed

Wildcards == MAX_WILDCARDS_PER_LABEL

ScanState == [ok : BOOLEAN, bytes : Nat, labels : Nat, label : Text, starred : SUBSET Nat]

Ordinal(text, pos) == Cardinality(Starts(text)) - Cardinality(After(text, pos))

\* The labels before the last one are labels.
ClosedLabels(text) ==
    \A pos \in Starts(text) : After(text, pos) # {} => IsLabel(LabelAt(text, pos), Wildcards)

StarredLabels(text) ==
    {pos \in Starts(text) : After(text, pos) # {} /\ Stars(LabelAt(text, pos)) > 0}

Starred(text) == {Ordinal(text, pos) : pos \in StarredLabels(text)}

LastLabel(text) == LabelAt(text, Latest(text))

\* What the scan knows of the text that it has passed.
Scanned(s, text) ==
    /\ s \in ScanState
    /\ s.ok <=> ClosedLabels(text) /\ MayGoOn(LastLabel(text), Wildcards)
    /\ s.ok => /\ s.label = LastLabel(text)
               /\ s.labels + 1 = Cardinality(Starts(text))
               /\ s.bytes = Bare(text)
               /\ s.starred = Starred(text)

LEMMA LastLabelIs ==
    ASSUME NEW text \in Text
    PROVE  LastLabel(text) \in Text /\ Stars(LastLabel(text)) \in Nat
<1>1. Latest(text) \in 1..(Len(text) + 1)
  BY LatestIs, StartsAre
<1>2. LastLabel(text) \in Text
  BY <1>1, LabelIs DEF LastLabel
<1>3. \A label \in Text : Stars(label) \in Nat
  <2> TAKE label \in Text
  <2>1. {i \in DOMAIN label : label[i] = "*"} = Spots(label, {"*"})
    BY DEF Spots
  <2> QED
    BY <2>1, SpotsAre DEF Stars
<1> QED
  BY <1>2, <1>3

LEMMA NothingIs ==
    /\ <<>> \in Text /\ Stars(<<>>) = 0 /\ Bare(<<>>) = 0
    /\ MayGoOn(<<>>, Wildcards)
<1>1. Stars(<<>>) = 0 /\ Bare(<<>>) = 0
  <2>1. DOMAIN <<>> = {}
    OBVIOUS
  <2>2. /\ {i \in DOMAIN <<>> : <<>>[i] = "*"} = {}
        /\ {i \in DOMAIN <<>> : <<>>[i] \notin {".", "*"}} = {}
    BY <2>1
  <2> QED
    BY <2>2, FS_EmptySet DEF Stars, Bare
<1>2. ToSet(<<>>) = {}
  BY DEF ToSet
<1>3. Wildcards \in Nat
  BY LimitsAssumption DEF Wildcards
<1> QED
  BY <1>1, <1>2, <1>3 DEF MayGoOn, Text

LEMMA ScanStarts == Scanned(Start, <<>>)
<1>1. <<>> \in Text /\ Len(<<>>) = 0
  BY NothingIs
<1>2. Starts(<<>>) = {1}
  <2>1. Starts(<<>>) \subseteq 1..(Len(<<>>) + 1) /\ 1 \in Starts(<<>>)
    BY <1>1, StartsAre
  <2> QED
    BY <1>1, <2>1
<1>3. After(<<>>, 1) = {} /\ Latest(<<>>) = 1
  BY <1>1, <1>2, LatestIs
<1>4. LastLabel(<<>>) = <<>>
  <2>1. LabelEnd(<<>>, 1) = 0
    <3>1. {i \in 1..Len(<<>>) : <<>>[i] = "."} = {}
      BY <1>1
    <3> QED
      BY <1>1, <3>1 DEF LabelEnd
  <2> QED
    BY <1>3, <2>1 DEF LastLabel, LabelAt
<1>5. Cardinality(Starts(<<>>)) = 1
  BY <1>2, FS_Singleton
<1>6. ClosedLabels(<<>>) /\ StarredLabels(<<>>) = {}
  BY <1>2, <1>3 DEF ClosedLabels, StarredLabels
<1>7. Starred(<<>>) = {}
  BY <1>6 DEF Starred
<1>8. Start \in ScanState
  BY <1>1 DEF Start, ScanState
<1> QED
  BY <1>4, <1>5, <1>6, <1>7, <1>8, NothingIs DEF Scanned, Start

LEMMA ScanIsTyped ==
    ASSUME NEW s \in ScanState, NEW c \in STRING
    PROVE  ScanByte(s, c) \in ScanState
<1>1. /\ s.ok \in BOOLEAN /\ s.bytes \in Nat /\ s.labels \in Nat /\ s.label \in Text
      /\ s.starred \in SUBSET Nat
  BY DEF ScanState
<1>2. <<>> \in Text /\ Append(s.label, c) \in Text
  BY <1>1, NothingIs, AppendIs
<1>3. s.labels + 1 \in Nat /\ s.bytes + 1 \in Nat
  BY <1>1
<1>4. EndLabel(s) \in ScanState
  <2>1. (IF Stars(s.label) > 0 THEN s.starred \cup {s.labels + 1} ELSE s.starred) \in SUBSET Nat
    BY <1>1, <1>3
  <2> QED
    BY <1>1, <1>2, <1>3, <2>1 DEF EndLabel, ScanState
<1>5. CASE s.ok /\ c # "."
  <2>1. (IF c = "*" THEN s.bytes ELSE s.bytes + 1) \in Nat
    BY <1>1, <1>3
  <2> QED
    BY <1>1, <1>2, <1>5, <2>1 DEF ScanByte, ScanState
<1> QED
  BY <1>4, <1>5 DEF ScanByte

LEMMA ScanCharacter ==
    ASSUME NEW text \in Text, NEW c \in STRING, c # ".", NEW s, Scanned(s, text)
    PROVE  Scanned(ScanByte(s, c), Append(text, c))
<1> DEFINE longer == Append(text, c)
           t == ScanByte(s, c)
           label == LastLabel(text)
<1>1. s \in ScanState /\ t \in ScanState /\ longer \in Text
  BY ScanIsTyped, AppendIs DEF Scanned
<1>2. /\ Starts(longer) = Starts(text)
      /\ \A pos \in Starts(text) : After(longer, pos) = After(text, pos)
      /\ LastLabel(longer) = Append(label, c)
      /\ \A pos \in Starts(text) : After(text, pos) # {} => LabelAt(longer, pos) = LabelAt(text, pos)
  BY WithCharacter DEF LastLabel
<1>3. /\ Stars(label) \in Nat /\ label \in Text
      /\ Bare(longer) = IF c = "*" THEN Bare(text) ELSE Bare(text) + 1
  BY LastLabelIs, CountsWith
<1>4. ClosedLabels(longer) <=> ClosedLabels(text)
  BY <1>2 DEF ClosedLabels
<1>5. StarredLabels(longer) = StarredLabels(text) /\ StarredLabels(text) \subseteq Starts(text)
  BY <1>2 DEF StarredLabels
<1>6. Starred(longer) = Starred(text)
  <2>1. \A pos \in Starts(text) : Ordinal(longer, pos) = Ordinal(text, pos)
    BY <1>2 DEF Ordinal
  <2> QED
    BY <1>5, <2>1 DEF Starred
<1>7. MayGoOn(LastLabel(longer), Wildcards)
         <=> /\ MayGoOn(label, Wildcards) /\ c \in Allowed
             /\ label = <<>> => c # "-"
             /\ c = "*" => Stars(label) < Wildcards
  <2>1. Wildcards \in Nat
    BY LimitsAssumption DEF Wildcards
  <2> QED
    BY <1>2, <1>3, <2>1, LabelGoesOn
<1> HIDE DEF longer, label
<1>8. CASE ~s.ok
  <2>1. t = s
    BY <1>8 DEF ScanByte
  <2>2. ~(ClosedLabels(text) /\ MayGoOn(label, Wildcards))
    BY <1>8 DEF Scanned, label
  <2> QED
    BY <1>1, <1>4, <1>7, <1>8, <2>1, <2>2 DEF Scanned, longer
<1>9. CASE s.ok
  <2>1. /\ ClosedLabels(text) /\ MayGoOn(label, Wildcards)
        /\ s.label = label /\ s.labels + 1 = Cardinality(Starts(text))
        /\ s.bytes = Bare(text) /\ s.starred = Starred(text)
    BY <1>9 DEF Scanned, label
  <2>2. /\ t.ok <=> /\ c \in Allowed
                    /\ label = <<>> => c # "-"
                    /\ c = "*" => Stars(label) < Wildcards
        /\ t.bytes = IF c = "*" THEN s.bytes ELSE s.bytes + 1
        /\ t.label = Append(s.label, c) /\ t.labels = s.labels /\ t.starred = s.starred
    BY <1>1, <1>9, <2>1 DEF ScanByte, ScanState, Allowed, Wildcards
  <2> HIDE DEF t
  <2>3. t.ok <=> ClosedLabels(longer) /\ MayGoOn(LastLabel(longer), Wildcards)
    BY <1>4, <1>7, <2>1, <2>2
  <2>4. /\ t.label = LastLabel(longer) /\ t.labels + 1 = Cardinality(Starts(longer))
        /\ t.bytes = Bare(longer) /\ t.starred = Starred(longer)
    BY <1>2, <1>3, <1>6, <2>1, <2>2
  <2> QED
    BY <1>1, <2>3, <2>4 DEF Scanned, t, longer
<1> QED
  BY <1>8, <1>9

LEMMA ScanDot ==
    ASSUME NEW text \in Text, "." \in STRING, NEW s, Scanned(s, text)
    PROVE  Scanned(ScanByte(s, "."), Append(text, "."))
<1> DEFINE longer == Append(text, ".")
           next == Len(text) + 2
           t == ScanByte(s, ".")
           label == LastLabel(text)
<1>1. s \in ScanState /\ t \in ScanState /\ longer \in Text
  BY ScanIsTyped, AppendIs DEF Scanned
<1>2. /\ Starts(longer) = Starts(text) \cup {next} /\ next \notin Starts(text)
      /\ \A pos \in Starts(text) :
            /\ After(longer, pos) = After(text, pos) \cup {next}
            /\ LabelAt(longer, pos) = LabelAt(text, pos)
      /\ After(longer, next) = {} /\ LastLabel(longer) = <<>>
  BY WithDot DEF LastLabel
<1>3. /\ Stars(label) \in Nat /\ label \in Text /\ Bare(longer) = Bare(text)
      /\ Wildcards \in Nat
  BY LastLabelIs, CountsWith, LimitsAssumption DEF Wildcards
<1>4. /\ Latest(text) \in Starts(text) /\ After(text, Latest(text)) = {}
      /\ \A pos \in Starts(text) : After(text, pos) = {} => pos = Latest(text)
      /\ label = LabelAt(text, Latest(text))
  BY LatestIs DEF LastLabel
<1> HIDE DEF longer, label, next
<1>5. ClosedLabels(longer) <=> ClosedLabels(text) /\ IsLabel(label, Wildcards)
  BY <1>2, <1>4 DEF ClosedLabels
<1>6. \A pos \in Starts(text) : Ordinal(longer, pos) = Ordinal(text, pos)
  <2> TAKE pos \in Starts(text)
  <2>1. IsFiniteSet(Starts(text)) /\ IsFiniteSet(After(text, pos)) /\ next \notin After(text, pos)
    BY <1>2, StartsAre DEF After
  <2>2. /\ Cardinality(Starts(longer)) = Cardinality(Starts(text)) + 1
        /\ Cardinality(After(longer, pos)) = Cardinality(After(text, pos)) + 1
    <3>1. /\ Cardinality(Starts(text) \cup {next}) = Cardinality(Starts(text)) + 1
          /\ Cardinality(After(text, pos) \cup {next}) = Cardinality(After(text, pos)) + 1
      BY <1>2, <2>1, FS_AddElement, Zenon
    <3> QED
      BY <1>2, <3>1, Zenon
  <2>3. Cardinality(Starts(text)) \in Nat /\ Cardinality(After(text, pos)) \in Nat
    BY <2>1, FS_CardinalityType
  <2> QED
    BY <2>2, <2>3 DEF Ordinal
<1>7. /\ Cardinality(Starts(longer)) = Cardinality(Starts(text)) + 1
      /\ Ordinal(text, Latest(text)) = Cardinality(Starts(text))
  <2>1. IsFiniteSet(Starts(text)) /\ Cardinality(Starts(text)) \in Nat
    BY StartsAre, FS_CardinalityType
  <2>2. Cardinality({}) = 0
    BY FS_EmptySet
  <2>3. Cardinality(Starts(longer)) = Cardinality(Starts(text)) + 1
    <3>1. Cardinality(Starts(text) \cup {next}) = Cardinality(Starts(text)) + 1
      BY <1>2, <2>1, FS_AddElement, Zenon
    <3> QED
      BY <1>2, <3>1, Zenon
  <2>4. Ordinal(text, Latest(text)) = Cardinality(Starts(text)) - Cardinality({})
    BY <1>4, Zenon DEF Ordinal
  <2> QED
    BY <2>1, <2>2, <2>3, <2>4
<1>8. Starred(longer) = IF Stars(label) > 0 THEN Starred(text) \cup {Cardinality(Starts(text))}
                        ELSE Starred(text)
  <2>1. StarredLabels(longer) = {pos \in Starts(text) : Stars(LabelAt(text, pos)) > 0}
    BY <1>2 DEF StarredLabels
  <2>2. StarredLabels(longer) = IF Stars(label) > 0 THEN StarredLabels(text) \cup {Latest(text)}
                                ELSE StarredLabels(text)
    BY <1>4, <2>1 DEF StarredLabels
  <2>3. StarredLabels(text) \subseteq Starts(text)
    BY DEF StarredLabels
  <2>4. Starred(longer) = {Ordinal(text, pos) : pos \in StarredLabels(longer)}
    BY <1>4, <1>6, <2>2, <2>3 DEF Starred
  <2>5. CASE Stars(label) > 0
    <3>1. Starred(longer) = Starred(text) \cup {Ordinal(text, Latest(text))}
      BY <2>2, <2>4, <2>5 DEF Starred
    <3> QED
      BY <1>7, <2>5, <3>1
  <2>6. CASE ~(Stars(label) > 0)
    BY <2>2, <2>4, <2>6 DEF Starred
  <2> QED
    BY <2>5, <2>6
<1>9. IsLabel(label, Wildcards)
         <=> MayGoOn(label, Wildcards) /\ label # <<>> /\ Last(label) # "-" /\ LabelFits(label)
  BY <1>3, LabelCloses
<1>10. CASE ~s.ok
  <2>1. t = s
    BY <1>10 DEF ScanByte
  <2>2. ~(ClosedLabels(text) /\ MayGoOn(label, Wildcards))
    BY <1>10 DEF Scanned, label
  <2> QED
    BY <1>1, <1>5, <1>9, <1>10, <2>1, <2>2 DEF Scanned, longer
<1>11. CASE s.ok
  <2>1. /\ ClosedLabels(text) /\ MayGoOn(label, Wildcards)
        /\ s.label = label /\ s.labels + 1 = Cardinality(Starts(text))
        /\ s.bytes = Bare(text) /\ s.starred = Starred(text)
    BY <1>11 DEF Scanned, label
  <2>2. t = EndLabel(s)
    BY <1>11 DEF ScanByte
  <2>3. /\ t.ok <=> label # <<>> /\ Last(label) # "-" /\ LabelFits(label)
        /\ t.bytes = s.bytes /\ t.label = <<>> /\ t.labels = s.labels + 1
        /\ t.starred = IF Stars(label) > 0 THEN s.starred \cup {s.labels + 1} ELSE s.starred
    BY <1>1, <1>11, <2>1, <2>2 DEF EndLabel, ScanState
  <2> HIDE DEF t
  <2>4. t.ok <=> ClosedLabels(longer) /\ MayGoOn(LastLabel(longer), Wildcards)
    BY <1>2, <1>5, <1>9, <2>1, <2>3, NothingIs
  <2>5. t.starred = Starred(longer)
    BY <1>8, <2>1, <2>3
  <2>6. t.label = LastLabel(longer) /\ t.labels + 1 = Cardinality(Starts(longer)) /\ t.bytes = Bare(longer)
    BY <1>2, <1>3, <1>7, <2>1, <2>3
  <2> QED
    BY <1>1, <2>4, <2>5, <2>6 DEF Scanned, t, longer
<1> QED
  BY <1>10, <1>11

Scans(f, text) ==
    f = [n \in 0..Len(text) |-> IF n = 0 THEN Start ELSE ScanByte(f[n - 1], text[n])]

LEMMA ScanExists ==
    ASSUME NEW text \in Text
    PROVE  \E f : Scans(f, text)
<1> DEFINE g == [a \in ScanState \X (1..Len(text)) |-> ScanByte(a[1], text[a[2]])]
<1>1. Len(text) \in Nat /\ \A n \in 1..Len(text) : text[n] \in STRING
  BY DEF Text
<1>2. g \in [ScanState \X (1..Len(text)) -> ScanState]
  BY <1>1, ScanIsTyped
<1>3. Start \in ScanState
  BY ScanStarts DEF Scanned
<1>4. \A s \in ScanState, n \in 1..Len(text) : g[<<s, n>>] = ScanByte(s, text[n])
  OBVIOUS
<1> HIDE DEF g
<1>5. PICK f : Passes(f, Len(text), g, Start) /\ f \in [0..Len(text) -> ScanState]
  BY <1>1, <1>2, <1>3, PassExists
<1>6. \A n \in 0..Len(text) : n # 0 => g[<<f[n - 1], n>>] = ScanByte(f[n - 1], text[n])
  <2> TAKE n \in 0..Len(text)
  <2>1. n # 0 => n - 1 \in 0..Len(text) /\ n \in 1..Len(text)
    BY <1>1
  <2> QED
    BY <1>4, <1>5, <2>1
<1> QED
  BY <1>5, <1>6 DEF Passes, Scans

\* The texts of which a text is the last.
LEMMA BeginningIs ==
    ASSUME NEW text \in Text
    PROVE  /\ SubSeq(text, 1, 0) = <<>> /\ SubSeq(text, 1, Len(text)) = text
           /\ \A n \in 0..Len(text) : SubSeq(text, 1, n) \in Text
           /\ \A n \in 1..Len(text) : SubSeq(text, 1, n) = Append(SubSeq(text, 1, n - 1), text[n])
<1>1. Len(text) \in Nat /\ \A n \in 1..Len(text) : text[n] \in STRING
  BY DEF Text
<1>2. ASSUME NEW n \in 0..Len(text)
      PROVE  /\ SubSeq(text, 1, n) \in Text /\ Len(SubSeq(text, 1, n)) = n
             /\ \A i \in 1..n : SubSeq(text, 1, n)[i] = text[i]
  <2>1. n \in Int /\ \A i \in 1..n : text[i] \in STRING
    BY <1>1
  <2>2. /\ SubSeq(text, 1, n) \in Seq(STRING)
        /\ Len(SubSeq(text, 1, n)) = IF 1 <= n THEN n - 1 + 1 ELSE 0
        /\ \A i \in 1..(n - 1 + 1) : SubSeq(text, 1, n)[i] = text[1 + i - 1]
    BY <2>1, TheoremsOf!SubSeqProperties
  <2>3. Len(SubSeq(text, 1, n)) = n
    BY <1>1, <2>2
  <2>4. \A i \in 1..n : SubSeq(text, 1, n)[i] = text[i]
    BY <1>1, <2>2
  <2> QED
    BY <2>2, <2>3, <2>4 DEF Text
<1>3. SubSeq(text, 1, 0) = <<>>
  <2>1. 0 \in 0..Len(text)
    BY <1>1
  <2>2. SubSeq(text, 1, 0) \in Text /\ Len(SubSeq(text, 1, 0)) = 0
    BY <1>2, <2>1
  <2> QED
    BY <2>2, TheoremsOf!EmptySeq DEF Text
<1>4. SubSeq(text, 1, Len(text)) = text
  <2>1. Len(text) \in 0..Len(text)
    BY <1>1
  <2> QED
    BY <1>2, <2>1, TheoremsOf!SeqEqual DEF Text
<1>5. ASSUME NEW n \in 1..Len(text)
      PROVE  SubSeq(text, 1, n) = Append(SubSeq(text, 1, n - 1), text[n])
  <2> DEFINE a == SubSeq(text, 1, n)
             b == SubSeq(text, 1, n - 1)
             c == Append(b, text[n])
  <2>1. n \in Nat /\ n - 1 \in Nat /\ n - 1 \in 0..Len(text) /\ n \in 0..Len(text) /\ n - 1 + 1 = n
    BY <1>1
  <2>2. /\ a \in Text /\ Len(a) = n /\ \A i \in 1..n : a[i] = text[i]
        /\ b \in Text /\ Len(b) = n - 1 /\ \A i \in 1..(n - 1) : b[i] = text[i]
    BY <1>2, <2>1
  <2>3. /\ c \in Text /\ Len(c) = Len(b) + 1 /\ c[Len(b) + 1] = text[n]
        /\ \A i \in 1..Len(b) : c[i] = b[i]
    BY <1>1, <2>2, AppendIs
  <2> HIDE DEF a, b, c
  <2>4. \A i \in 1..n : a[i] = c[i]
    <3> TAKE i \in 1..n
    <3>1. CASE i = n
      BY <2>1, <2>2, <2>3, <3>1
    <3>2. CASE i # n
      <4>1. i \in 1..(n - 1)
        BY <2>1, <3>2
      <4> QED
        BY <2>2, <2>3, <4>1
    <3> QED
      BY <3>1, <3>2
  <2>5. a = c
    BY <2>1, <2>2, <2>3, <2>4, TheoremsOf!SeqEqual DEF Text
  <2> QED
    BY <2>5 DEF a, b, c
<1> QED
  BY <1>2, <1>3, <1>4, <1>5

LEMMA ScanPasses ==
    ASSUME NEW text \in Text, NEW f, Scans(f, text)
    PROVE  Scanned(f[Len(text)], text)
<1> DEFINE Wrong == {n \in 0..Len(text) : ~Scanned(f[n], SubSeq(text, 1, n))}
<1>1. Len(text) \in Nat /\ \A n \in 1..Len(text) : text[n] \in STRING
  BY DEF Text
<1>2. \A n \in 0..Len(text) : f[n] = IF n = 0 THEN Start ELSE ScanByte(f[n - 1], text[n])
  BY DEF Scans
<1>3. Wrong = {}
  <2> SUFFICES ASSUME Wrong # {} PROVE FALSE
    OBVIOUS
  <2>1. PICK n \in Wrong : \A m \in Wrong : n <= m
    <3>1. Wrong \in SUBSET Nat
      OBVIOUS
    <3> HIDE DEF Wrong
    <3> QED
      BY <3>1, HasLeast
  <2>2. n \in 0..Len(text) /\ ~Scanned(f[n], SubSeq(text, 1, n))
    BY <2>1
  <2>3. CASE n = 0
    <3>1. f[0] = Start /\ SubSeq(text, 1, 0) = <<>>
      BY <1>2, <2>2, <2>3, BeginningIs
    <3> QED
      BY <2>2, <2>3, <3>1, ScanStarts
  <2>4. CASE n # 0
    <3>1. n \in 1..Len(text) /\ n - 1 \in 0..Len(text) /\ ~(n <= n - 1)
      BY <1>1, <2>2, <2>4
    <3>2. Scanned(f[n - 1], SubSeq(text, 1, n - 1))
      BY <2>1, <3>1
    <3>3. /\ f[n] = ScanByte(f[n - 1], text[n]) /\ text[n] \in STRING
          /\ SubSeq(text, 1, n) = Append(SubSeq(text, 1, n - 1), text[n])
          /\ SubSeq(text, 1, n - 1) \in Text
      BY <1>1, <1>2, <2>2, <2>4, <3>1, BeginningIs
    <3>4. Scanned(f[n], SubSeq(text, 1, n))
      <4>1. CASE text[n] = "."
        BY <3>2, <3>3, <4>1, ScanDot
      <4>2. CASE text[n] # "."
        BY <3>2, <3>3, <4>2, ScanCharacter
      <4> QED
        BY <4>1, <4>2
    <3> QED
      BY <2>2, <3>4
  <2> QED
    BY <2>3, <2>4
<1>4. Len(text) \in 0..Len(text)
  BY <1>1
<1>5. Scanned(f[Len(text)], SubSeq(text, 1, Len(text)))
  BY <1>3, <1>4
<1> QED
  BY <1>5, BeginningIs

\* What the scans accept: the length is counted without dots and wildcards.
Counted(text, wildcards) ==
    HasHostLabels(text, wildcards) /\ Bare(text) \in 1..MAX_HOSTNAME_LENGTH

\* At the end of the text the scan accepts it if and only if it is within this count.
LEMMA AcceptsCounted ==
    ASSUME NEW text \in Text, NEW s, Scanned(s, text)
    PROVE  s.ok /\ Accepts(s) <=> Counted(text, Wildcards)
<1> DEFINE label == LastLabel(text)
           count == Cardinality(Starts(text))
<1>1. /\ Latest(text) \in Starts(text) /\ After(text, Latest(text)) = {}
      /\ \A pos \in Starts(text) : After(text, pos) = {} => pos = Latest(text)
      /\ label = LabelAt(text, Latest(text))
  BY LatestIs DEF LastLabel
<1>2. /\ Stars(label) \in Nat /\ label \in Text /\ Wildcards \in Nat
      /\ IsFiniteSet(Starts(text)) /\ count \in Nat
  BY LastLabelIs, LimitsAssumption, StartsAre, FS_CardinalityType DEF Wildcards
<1>3. IsLabel(label, Wildcards)
         <=> MayGoOn(label, Wildcards) /\ label # <<>> /\ Last(label) # "-" /\ LabelFits(label)
  BY <1>2, LabelCloses
<1> HIDE DEF label, count
<1>4. ASSUME Counted(text, Wildcards)
      PROVE  \A pos \in Starts(text) : IsLabel(LabelAt(text, pos), Wildcards)
  BY <1>4 DEF Counted, HasHostLabels
<1>5. (\A pos \in Starts(text) : IsLabel(LabelAt(text, pos), Wildcards))
         <=> ClosedLabels(text) /\ IsLabel(label, Wildcards)
  BY <1>1 DEF ClosedLabels
<1>6. CASE ~s.ok
  <2>1. ~(ClosedLabels(text) /\ IsLabel(label, Wildcards))
    BY <1>3, <1>6 DEF Scanned, label
  <2> QED
    BY <1>4, <1>5, <1>6, <2>1
<1>7. CASE s.ok
  <2> DEFINE end == EndLabel(s)
  <2>1. /\ ClosedLabels(text) /\ MayGoOn(label, Wildcards)
        /\ s.label = label /\ s.labels + 1 = count
        /\ s.bytes = Bare(text) /\ s.starred = Starred(text) /\ s \in ScanState
    BY <1>7 DEF Scanned, label, count
  <2>2. /\ end.ok <=> label # <<>> /\ Last(label) # "-" /\ LabelFits(label)
        /\ end.labels = count
        /\ end.starred = IF Stars(label) > 0 THEN Starred(text) \cup {count} ELSE Starred(text)
    <3>1. /\ end.ok <=> label # <<>> /\ Last(label) # "-" /\ LabelFits(label)
          /\ end.labels = s.labels + 1
          /\ end.starred = IF Stars(label) > 0 THEN s.starred \cup {s.labels + 1} ELSE s.starred
      BY <1>7, <2>1 DEF EndLabel, ScanState
    <3> QED
      BY <2>1, <3>1
  <2>3. label # <<>> /\ end.ok <=> \A pos \in Starts(text) : IsLabel(LabelAt(text, pos), Wildcards)
    BY <1>3, <1>5, <2>1, <2>2
  <2> HIDE DEF end
  <2>4. Ordinal(text, Latest(text)) = count
    <3>1. Cardinality({}) = 0
      BY FS_EmptySet
    <3>2. Ordinal(text, Latest(text)) = count - Cardinality({})
      BY <1>1, Zenon DEF Ordinal, count
    <3> QED
      BY <1>2, <3>1, <3>2
  <2> DEFINE starred == {pos \in Starts(text) : Stars(LabelAt(text, pos)) > 0}
  <2>5. end.starred = {Ordinal(text, pos) : pos \in starred}
    <3>1. starred = IF Stars(label) > 0 THEN StarredLabels(text) \cup {Latest(text)}
                    ELSE StarredLabels(text)
      BY <1>1 DEF StarredLabels
    <3> HIDE DEF starred
    <3> QED
      BY <2>2, <2>4, <3>1 DEF Starred
  <2>6. ASSUME NEW pos \in Starts(text)
        PROVE  Ordinal(text, pos) \in {count, count - 1} <=> ~(Cardinality(After(text, pos)) >= 2)
    <3>1. Cardinality(After(text, pos)) \in Nat
      BY StartsAre
    <3>2. Ordinal(text, pos) = count - Cardinality(After(text, pos))
      BY DEF Ordinal, count
    <3> QED
      BY <1>2, <3>1, <3>2
  <2>7. end.starred \cap {end.labels, end.labels - 1} = {}
           <=> \A pos \in Starts(text) :
                  Stars(LabelAt(text, pos)) > 0 => Cardinality(After(text, pos)) >= 2
    <3>1. end.starred \cap {count, count - 1} = {}
             <=> \A pos \in starred : Ordinal(text, pos) \notin {count, count - 1}
      <4> HIDE DEF starred
      <4> QED
        BY <2>5
    <3>2. (\A pos \in starred : Ordinal(text, pos) \notin {count, count - 1})
             <=> \A pos \in starred : Cardinality(After(text, pos)) >= 2
      BY <2>6
    <3> QED
      BY <2>2, <3>1, <3>2
  <2>8. (\E i \in DOMAIN label : label[i] \notin Digits) <=> ~(ToSet(label) \subseteq Digits)
    BY DEF ToSet
  <2>9. Accepts(s)
           <=> /\ label # <<>> /\ end.ok
               /\ end.labels >= MIN_LABELS
               /\ end.starred \cap {end.labels, end.labels - 1} = {}
               /\ \E i \in DOMAIN label : label[i] \notin Digits
               /\ [i \in DOMAIN label |-> Upper(label[i])] # LocalLabel
               /\ Bare(text) \in 1..MAX_HOSTNAME_LENGTH
    BY <2>1 DEF Accepts, end
  <2>10. Counted(text, Wildcards)
            <=> /\ count >= MIN_LABELS
                /\ Bare(text) \in 1..MAX_HOSTNAME_LENGTH
                /\ \A pos \in Starts(text) : IsLabel(LabelAt(text, pos), Wildcards)
                /\ \A pos \in Starts(text) :
                      Stars(LabelAt(text, pos)) > 0 => Cardinality(After(text, pos)) >= 2
                /\ ~(ToSet(label) \subseteq Digits)
                /\ [i \in DOMAIN label |-> Upper(label[i])] # LocalLabel
    <3> DEFINE Goes(pos) == Cardinality(After(text, pos)) >= 2
               Ends(a) == ~(ToSet(a) \subseteq Digits) /\ [i \in DOMAIN a |-> Upper(a[i])] # LocalLabel
    <3>1. (\A pos \in Starts(text) : After(text, pos) = {} => Ends(LabelAt(text, pos))) <=> Ends(label)
      <4> HIDE DEF Ends
      <4> QED
        BY <1>1
    <3>2. Counted(text, Wildcards)
             <=> /\ count >= MIN_LABELS
                 /\ Bare(text) \in 1..MAX_HOSTNAME_LENGTH
                 /\ \A pos \in Starts(text) :
                       /\ IsLabel(LabelAt(text, pos), Wildcards)
                       /\ Stars(LabelAt(text, pos)) > 0 => Goes(pos)
                       /\ After(text, pos) = {} => Ends(LabelAt(text, pos))
      BY Zenon DEF Counted, HasHostLabels, Bare, count
    <3> HIDE DEF Goes, Ends
    <3>3. Counted(text, Wildcards)
             <=> /\ count >= MIN_LABELS
                 /\ Bare(text) \in 1..MAX_HOSTNAME_LENGTH
                 /\ \A pos \in Starts(text) : IsLabel(LabelAt(text, pos), Wildcards)
                 /\ \A pos \in Starts(text) : Stars(LabelAt(text, pos)) > 0 => Goes(pos)
                 /\ Ends(label)
      BY <3>1, <3>2
    <3> QED
      BY <3>3 DEF Goes, Ends
  <2> QED
    BY <1>7, <2>2, <2>3, <2>7, <2>8, <2>9, <2>10
<1> QED
  BY <1>6, <1>7

LEMMA ScanIsRight ==
    ASSUME NEW text \in Text
    PROVE  is_valid_dns_name_pattern(text) <=> Counted(text, Wildcards)
<1> DEFINE f == CHOOSE f : Scans(f, text)
<1>1. Scans(f, text)
  BY ScanExists
<1>2. is_valid_dns_name_pattern(text) <=> f[Len(text)].ok /\ Accepts(f[Len(text)])
  BY DEF is_valid_dns_name_pattern, Scans
<1> HIDE DEF f
<1> QED
  BY <1>1, <1>2, ScanPasses, AcceptsCounted

\* Every character but a dot is of a label.
LEMMA LabelsCover ==
    ASSUME NEW text \in Text, NEW i \in 1..Len(text), text[i] # "."
    PROVE  \E pos \in Starts(text) : pos <= i /\ i <= LabelEnd(text, pos)
<1> DEFINE Left == {i - pos : pos \in {p \in Starts(text) : p <= i}}
<1>1. /\ Len(text) \in Nat /\ i \in Nat /\ 1 <= i
      /\ \A pos \in Starts(text) : pos \in Nat /\ 1 <= pos /\ pos <= Len(text) + 1
      /\ 1 \in Starts(text)
  BY StartsAre DEF Text
<1>2. Left \in SUBSET Nat /\ Left # {}
  <2>1. \A pos \in Starts(text) : pos <= i => i - pos \in Nat
    BY <1>1
  <2>2. i - 1 \in Left
    BY <1>1
  <2> QED
    BY <2>1, <2>2
<1>3. PICK least \in Left : \A l \in Left : least <= l
  <2> HIDE DEF Left
  <2> QED
    BY <1>2, HasLeast
<1>4. PICK pos \in Starts(text) : pos <= i /\ least = i - pos
  BY <1>3
<1>5. /\ pos \in 1..(Len(text) + 1) /\ IsEnd(text, pos, LabelEnd(text, pos))
      /\ LabelEnd(text, pos) < Len(text) => LabelEnd(text, pos) + 2 \in Starts(text)
  BY LabelEndIs, NextLabelIs DEF After
<1>6. ~(LabelEnd(text, pos) < i)
  <2> SUFFICES ASSUME LabelEnd(text, pos) < i PROVE FALSE
    OBVIOUS
  <2> DEFINE end == LabelEnd(text, pos)
  <2>1. end \in Int /\ pos - 1 <= end /\ (end < Len(text) => text[end + 1] = ".")
    BY <1>1, <1>5 DEF IsEnd
  <2> HIDE DEF end
  <2>2. end < Len(text)
    BY <1>1, <2>1 DEF end
  <2>3. end + 1 # i
    BY <2>1, <2>2
  <2>4. end + 2 <= i /\ pos < end + 2
    BY <1>1, <1>4, <2>1, <2>3, SMTT(30) DEF end
  <2>5. end + 2 \in Starts(text)
    BY <1>5, <2>2 DEF end
  <2>6. i - (end + 2) \in Left
    BY <2>4, <2>5
  <2>7. i - pos <= i - (end + 2)
    BY <1>3, <1>4, <2>6
  <2> QED
    BY <1>1, <2>1, <2>4, <2>7
<1>7. LabelEnd(text, pos) \in Int
  BY <1>5 DEF IsEnd
<1> QED
  BY <1>1, <1>4, <1>6, <1>7

LEMMA NoStars ==
    ASSUME NEW label \in Text
    PROVE  /\ Stars(label) \in Nat
           /\ Stars(label) = 0 <=> "*" \notin ToSet(label)
<1>1. {i \in DOMAIN label : label[i] = "*"} = Spots(label, {"*"})
  BY DEF Spots
<1>2. IsFiniteSet(Spots(label, {"*"})) /\ Cardinality(Spots(label, {"*"})) \in Nat
  BY SpotsAre
<1>3. Stars(label) = Cardinality(Spots(label, {"*"}))
  BY <1>1 DEF Stars
<1>4. Stars(label) = 0 <=> Spots(label, {"*"}) = {}
  BY <1>2, <1>3, FS_EmptySet
<1>5. Spots(label, {"*"}) = {} <=> "*" \notin ToSet(label)
  BY DEF Spots, ToSet
<1> QED
  BY <1>2, <1>3, <1>4, <1>5

LEMMA LabelStars ==
    ASSUME NEW text \in Text
    PROVE  "*" \notin ToSet(text) <=> \A pos \in Starts(text) : Stars(LabelAt(text, pos)) = 0
<1>1. Len(text) \in Nat /\ DOMAIN text = 1..Len(text)
  BY DEF Text
<1>2. ASSUME NEW pos \in Starts(text)
      PROVE  /\ pos \in 1..(Len(text) + 1) /\ LabelAt(text, pos) \in Text
             /\ Len(LabelAt(text, pos)) = LabelEnd(text, pos) - pos + 1
             /\ DOMAIN LabelAt(text, pos) = 1..Len(LabelAt(text, pos))
             /\ \A k \in 1..Len(LabelAt(text, pos)) : LabelAt(text, pos)[k] = text[pos + k - 1]
             /\ LabelEnd(text, pos) \in Int /\ LabelEnd(text, pos) <= Len(text)
  <2>1. pos \in 1..(Len(text) + 1)
    BY StartsAre
  <2>2. LabelAt(text, pos) \in Text
    BY <2>1, LabelIs
  <2>3. DOMAIN LabelAt(text, pos) = 1..Len(LabelAt(text, pos))
    BY <2>2 DEF Text
  <2> QED
    <3>1. /\ Len(LabelAt(text, pos)) = LabelEnd(text, pos) - pos + 1
          /\ \A k \in 1..Len(LabelAt(text, pos)) : LabelAt(text, pos)[k] = text[pos + k - 1]
      BY <2>1, LabelIs, Zenon
    <3>2. LabelEnd(text, pos) \in (pos - 1)..Len(text)
      BY <2>1, LabelEndIs, Zenon DEF IsEnd
    <3>3. LabelEnd(text, pos) \in Int /\ LabelEnd(text, pos) <= Len(text)
      BY <1>1, <2>1, <3>2
    <3> QED
      BY <2>1, <2>2, <2>3, <3>1, <3>3, Zenon
<1>3. ASSUME "*" \notin ToSet(text), NEW pos \in Starts(text)
      PROVE  Stars(LabelAt(text, pos)) = 0
  <2> DEFINE label == LabelAt(text, pos)
  <2>1. ASSUME NEW k \in DOMAIN label
        PROVE  label[k] # "*"
    <3>1. /\ k \in 1..Len(label) /\ label[k] = text[pos + k - 1]
          /\ Len(label) = LabelEnd(text, pos) - pos + 1
      BY <1>2
    <3> HIDE DEF label
    <3>2. pos + k - 1 \in 1..Len(text)
      BY <1>1, <1>2, <3>1
    <3> QED
      BY <1>1, <1>3, <3>1, <3>2 DEF ToSet
  <2>2. "*" \notin ToSet(label)
    BY <2>1 DEF ToSet
  <2> QED
    BY <1>2, <2>2, NoStars
<1>4. ASSUME "*" \in ToSet(text)
      PROVE  \E pos \in Starts(text) : Stars(LabelAt(text, pos)) # 0
  <2>1. PICK i \in 1..Len(text) : text[i] = "*"
    BY <1>1, <1>4 DEF ToSet
  <2>2. PICK pos \in Starts(text) : pos <= i /\ i <= LabelEnd(text, pos)
    BY <2>1, LabelsCover
  <2> DEFINE label == LabelAt(text, pos)
             k == i - pos + 1
  <2>3. /\ label \in Text /\ Len(label) = LabelEnd(text, pos) - pos + 1
        /\ DOMAIN label = 1..Len(label)
        /\ \A n \in 1..Len(label) : label[n] = text[pos + n - 1]
    BY <1>2
  <2> HIDE DEF label
  <2>4. k \in 1..Len(label) /\ pos + k - 1 = i
    BY <1>1, <1>2, <2>2, <2>3
  <2>5. label[k] = text[i]
    BY <2>3, <2>4
  <2>6. "*" \in ToSet(label)
    BY <2>1, <2>3, <2>4, <2>5 DEF ToSet
  <2> QED
    BY <2>3, <2>6, NoStars DEF label
<1> QED
  BY <1>3, <1>4

\* Names are the patterns with no wildcard.
LEMMA NameIsRight ==
    ASSUME NEW text \in Text
    PROVE  is_valid_dns_name(text) <=> Counted(text, 0)
<1>1. \A pos \in Starts(text) : Stars(LabelAt(text, pos)) \in Nat
  BY StartsAre, LabelIs, NoStars
<1>2. Wildcards \in Nat
  BY LimitsAssumption DEF Wildcards
<1>3. ASSUME NEW pos \in Starts(text)
      PROVE  IsLabel(LabelAt(text, pos), 0)
                <=> IsLabel(LabelAt(text, pos), Wildcards) /\ Stars(LabelAt(text, pos)) = 0
  <2>1. Stars(LabelAt(text, pos)) <= 0
           <=> Stars(LabelAt(text, pos)) <= Wildcards /\ Stars(LabelAt(text, pos)) = 0
    BY <1>1, <1>2
  <2> QED
    BY <2>1 DEF IsLabel
<1>4. Counted(text, 0)
         <=> Counted(text, Wildcards) /\ \A pos \in Starts(text) : Stars(LabelAt(text, pos)) = 0
  BY <1>3 DEF Counted, HasHostLabels
<1> QED
  BY <1>4, LabelStars, ScanIsRight DEF is_valid_dns_name

-----------------------------------------------------------------------------
(* The match label by label *)

\* The number of labels that follow tells the label.
LEMMA OneLabel ==
    ASSUME NEW text \in Text, NEW pos \in Starts(text), NEW q \in Starts(text),
           Cardinality(After(text, pos)) = Cardinality(After(text, q))
    PROVE  pos = q
<1>1. \A r \in Starts(text) : r \in Nat
  BY StartsAre DEF Text
<1>2. ASSUME NEW a \in Starts(text), NEW b \in Starts(text), a < b,
             Cardinality(After(text, a)) = Cardinality(After(text, b))
      PROVE  FALSE
  <2>1. After(text, b) \in SUBSET After(text, a) /\ b \in After(text, a) /\ b \notin After(text, b)
    BY <1>1, <1>2 DEF After
  <2>2. IsFiniteSet(After(text, a))
    BY StartsAre
  <2>3. After(text, a) = After(text, b)
    BY <1>2, <2>1, <2>2, FS_Subset
  <2> QED
    BY <2>1, <2>3
<1>3. ~(pos < q) /\ ~(q < pos)
  BY <1>2
<1> QED
  BY <1>1, <1>3

LEMMA NextIs ==
    ASSUME NEW text \in Text, NEW pos \in Starts(text), After(text, pos) # {}
    PROVE  LET q == AfterLabel(text, pos)
           IN /\ q \in Starts(text) /\ pos < q
              /\ Cardinality(After(text, pos)) = Cardinality(After(text, q)) + 1
              /\ \A r \in Starts(text) : pos <= r <=> (r = pos \/ q <= r)
<1> DEFINE q == LabelEnd(text, pos) + 2
<1>1. q \in After(text, pos) /\ \A r \in After(text, pos) : q <= r
  BY NextLabelIs
<1>2. \A r \in Starts(text) : r \in Nat
  BY StartsAre DEF Text
<1> HIDE DEF q
<1>3. q \in Starts(text) /\ pos < q
  BY <1>1 DEF After
<1>4. \A r \in Starts(text) : pos <= r <=> (r = pos \/ q <= r)
  <2> TAKE r \in Starts(text)
  <2>1. pos < r => q <= r
    BY <1>1 DEF After
  <2> QED
    BY <1>2, <1>3, <2>1
<1>5. After(text, pos) = After(text, q) \cup {q} /\ q \notin After(text, q)
  <2>1. \A r \in Starts(text) : pos < r <=> (r = q \/ q < r)
    BY <1>2, <1>3, <1>4
  <2> QED
    BY <1>2, <1>3, <2>1 DEF After
<1>6. IsFiniteSet(After(text, q))
  BY <1>3, StartsAre
<1>7. Cardinality(After(text, pos)) = Cardinality(After(text, q)) + 1
  <2>1. Cardinality(After(text, q) \cup {q}) = Cardinality(After(text, q)) + 1
    BY <1>5, <1>6, FS_AddElement, Zenon
  <2> QED
    BY <1>5, <2>1, Zenon
<1> QED
  BY <1>3, <1>4, <1>7 DEF q, AfterLabel

LEMMA FirstIs ==
    ASSUME NEW text \in Text
    PROVE  /\ 1 \in Starts(text) /\ \A pos \in Starts(text) : pos \in Nat /\ 1 <= pos
           /\ Cardinality(Starts(text)) = Cardinality(After(text, 1)) + 1
           /\ Cardinality(After(text, 1)) \in Nat
<1>1. 1 \in Starts(text) /\ \A pos \in Starts(text) : pos \in Nat /\ 1 <= pos
  BY StartsAre DEF Text
<1>2. Starts(text) = After(text, 1) \cup {1} /\ 1 \notin After(text, 1)
  BY <1>1 DEF After
<1>3. IsFiniteSet(After(text, 1)) /\ Cardinality(After(text, 1)) \in Nat
  BY <1>1, StartsAre
<1>4. Cardinality(Starts(text)) = Cardinality(After(text, 1)) + 1
  <2>1. Cardinality(After(text, 1) \cup {1}) = Cardinality(After(text, 1)) + 1
    BY <1>2, <1>3, FS_AddElement, Zenon
  <2> QED
    BY <1>2, <2>1, Zenon
<1> QED
  BY <1>1, <1>3, <1>4

\* Where no label is empty, the text is over after its last label.
Full(text) == \A pos \in Starts(text) : LabelAt(text, pos) # <<>>

LEMMA TextEnds ==
    ASSUME NEW text \in Text, Full(text), NEW pos \in Starts(text)
    PROVE  AfterLabel(text, pos) > Len(text) <=> After(text, pos) = {}
<1> DEFINE end == LabelEnd(text, pos)
<1>1. pos \in 1..(Len(text) + 1) /\ Len(text) \in Nat
  BY StartsAre DEF Text
<1>2. IsEnd(text, pos, end)
  BY <1>1, LabelEndIs
<1>3. end \in Int /\ end <= Len(text)
  BY <1>1, <1>2 DEF IsEnd
<1>4. CASE After(text, pos) = {}
  <2>1. ~(end < Len(text))
    BY <1>4, NextLabelIs
  <2> HIDE DEF end
  <2>2. end + 2 > Len(text)
    BY <1>1, <1>3, <2>1
  <2> QED
    BY <1>4, <2>2 DEF AfterLabel, end
<1>5. CASE After(text, pos) # {}
  <2>1. end < Len(text) /\ end + 2 \in Starts(text)
    BY <1>5, NextLabelIs DEF After
  <2> HIDE DEF end
  <2>2. end + 2 # Len(text) + 1
    <3> SUFFICES ASSUME end + 2 = Len(text) + 1 PROVE FALSE
      OBVIOUS
    <3> DEFINE q == end + 2
               label == LabelAt(text, q)
    <3>1. q \in Starts(text) /\ q = Len(text) + 1 /\ q \in 1..(Len(text) + 1)
      BY <1>1, <2>1
    <3> HIDE DEF q
    <3>2. LabelEnd(text, q) \in (q - 1)..Len(text)
      BY <3>1, LabelEndIs DEF IsEnd
    <3>3. label \in Text /\ Len(label) = LabelEnd(text, q) - q + 1
      BY <3>1, LabelIs
    <3> HIDE DEF label
    <3>4. Len(label) = 0
      BY <1>1, <3>1, <3>2, <3>3
    <3>5. label = <<>>
      BY <3>3, <3>4, TheoremsOf!EmptySeq DEF Text
    <3> QED
      BY <3>1, <3>5 DEF Full, label
  <2>3. ~(end + 2 > Len(text))
    BY <1>1, <1>3, <2>1, <2>2
  <2> QED
    BY <1>5, <2>3 DEF AfterLabel, end
<1> QED
  BY <1>4, <1>5

Heads(name, pattern) == [n : 1..(Len(name) + 1), p : 1..(Len(pattern) + 1)]

NextHeads(name, pattern, at) == [n |-> AfterLabel(name, at.n), p |-> AfterLabel(pattern, at.p)]

SameLabels(name, pattern, at) ==
    is_string_matching_glob_pattern(LabelAt(name, at.n), LabelAt(pattern, at.p))

Matches(f, name, pattern) ==
    f = [at \in Heads(name, pattern) |->
           LET next == NextHeads(name, pattern, at)
               nameEnds == next.n > Len(name)
               patternEnds == next.p > Len(pattern)
           IN /\ SameLabels(name, pattern, at)
              /\ \/ nameEnds /\ patternEnds
                 \/ ~nameEnds /\ ~patternEnds /\ f[next]]

LEMMA MatchExists ==
    ASSUME NEW name \in Text, NEW pattern \in Text
    PROVE  \E f : Matches(f, name, pattern)
<1> DEFINE S == Heads(name, pattern)
           NameEnds(at) == NextHeads(name, pattern, at).n > Len(name)
           PatternEnds(at) == NextHeads(name, pattern, at).p > Len(pattern)
           Good == {at \in S : SameLabels(name, pattern, at) /\ NameEnds(at) /\ PatternEnds(at)}
           Going == {at \in S : SameLabels(name, pattern, at) /\ ~NameEnds(at) /\ ~PatternEnds(at)}
           next == [at \in Going |-> NextHeads(name, pattern, at)]
<1>1. ASSUME NEW text \in Text, NEW pos \in 1..(Len(text) + 1), ~(AfterLabel(text, pos) > Len(text))
      PROVE  AfterLabel(text, pos) \in 1..(Len(text) + 1)
  <2>1. LabelEnd(text, pos) \in (pos - 1)..Len(text)
    BY LabelEndIs DEF IsEnd
  <2>2. Len(text) \in Nat
    BY DEF Text
  <2> QED
    BY <1>1, <2>1, <2>2 DEF AfterLabel
<1>2. ASSUME NEW at \in Going
      PROVE  NextHeads(name, pattern, at) \in S
  <2>1. at.n \in 1..(Len(name) + 1) /\ at.p \in 1..(Len(pattern) + 1)
    BY DEF Heads
  <2>2. ~(AfterLabel(name, at.n) > Len(name)) /\ ~(AfterLabel(pattern, at.p) > Len(pattern))
    BY DEF NextHeads
  <2>3. AfterLabel(name, at.n) \in 1..(Len(name) + 1) /\ AfterLabel(pattern, at.p) \in 1..(Len(pattern) + 1)
    BY <1>1, <2>1, <2>2
  <2> QED
    BY <2>3 DEF NextHeads, Heads
<1>3. next \in [Going -> S] /\ Good \in SUBSET S /\ Going \in SUBSET S
  BY <1>2
<1>4. \A at \in S :
         /\ at \in Good <=> SameLabels(name, pattern, at) /\ NameEnds(at) /\ PatternEnds(at)
         /\ at \in Going <=> SameLabels(name, pattern, at) /\ ~NameEnds(at) /\ ~PatternEnds(at)
         /\ at \in Going => next[at] = NextHeads(name, pattern, at)
  OBVIOUS
<1> HIDE DEF Good, Going, next, S, NameEnds, PatternEnds
<1>5. PICK f : Loops(f, S, Good, Going, next)
  BY <1>3, LoopExists
<1>6. f = [at \in S |-> SameLabels(name, pattern, at)
              /\ \/ NameEnds(at) /\ PatternEnds(at)
                 \/ ~NameEnds(at) /\ ~PatternEnds(at) /\ f[NextHeads(name, pattern, at)]]
  BY <1>4, <1>5 DEF Loops
<1> QED
  BY <1>6, Zenon DEF S, Matches, NameEnds, PatternEnds

LEMMA MatchIs ==
    ASSUME NEW name \in Text, NEW pattern \in Text
    PROVE  \E f : /\ Matches(f, name, pattern)
                  /\ is_dns_name_matching_pattern(name, pattern) = f[[n |-> 1, p |-> 1]]
<1> DEFINE f == CHOOSE f : Matches(f, name, pattern)
<1>1. Matches(f, name, pattern)
  BY MatchExists
<1>2. is_dns_name_matching_pattern(name, pattern) = f[[n |-> 1, p |-> 1]]
  BY DEF is_dns_name_matching_pattern, Matches, Heads, NextHeads, SameLabels
<1> QED
  BY <1>1, <1>2

LabelsMean(name, pattern, pos) ==
    \A pair \in Abreast(name, pattern) :
        pos <= pair[1] => Means(LabelAt(pattern, pair[2]), LabelAt(name, pair[1]))

\* From two labels on, the loop finds what it is to find.
Found(f, name, pattern, pos, q) ==
    f[[n |-> pos, p |-> q]]
       <=> /\ Cardinality(After(name, pos)) = Cardinality(After(pattern, q))
           /\ LabelsMean(name, pattern, pos)

LEMMA MatchStep ==
    ASSUME NEW name \in Text, NEW pattern \in Text, Full(name), Full(pattern),
           NEW f, Matches(f, name, pattern),
           NEW pos \in Starts(name), NEW q \in Starts(pattern),
           After(name, pos) # {} /\ After(pattern, q) # {} =>
               Found(f, name, pattern, AfterLabel(name, pos), AfterLabel(pattern, q))
    PROVE  Found(f, name, pattern, pos, q)
<1> DEFINE at == [n |-> pos, p |-> q]
           next == [n |-> AfterLabel(name, pos), p |-> AfterLabel(pattern, q)]
           Same == Means(LabelAt(pattern, q), LabelAt(name, pos))
           Count(a, b) == Cardinality(After(name, a)) = Cardinality(After(pattern, b))
<1>1. /\ pos \in 1..(Len(name) + 1) /\ q \in 1..(Len(pattern) + 1)
      /\ LabelAt(name, pos) \in Text /\ LabelAt(pattern, q) \in Text
  BY StartsAre, LabelIs
<1>2. at \in Heads(name, pattern) /\ at.n = pos /\ at.p = q /\ NextHeads(name, pattern, at) = next
  BY <1>1 DEF Heads, NextHeads
<1>3. SameLabels(name, pattern, at) <=> Same
  BY <1>1, GlobMeans DEF SameLabels
<1>4. /\ next.n > Len(name) <=> After(name, pos) = {}
      /\ next.p > Len(pattern) <=> After(pattern, q) = {}
  BY TextEnds
<1>5. f[at] <=> /\ Same
                /\ \/ After(name, pos) = {} /\ After(pattern, q) = {}
                   \/ After(name, pos) # {} /\ After(pattern, q) # {} /\ f[next]
  <2> HIDE DEF at, next, Same
  <2>1. f[at] = (/\ SameLabels(name, pattern, at)
                 /\ \/ next.n > Len(name) /\ next.p > Len(pattern)
                    \/ ~(next.n > Len(name)) /\ ~(next.p > Len(pattern)) /\ f[next])
    BY <1>2 DEF Matches
  <2> QED
    BY <1>3, <1>4, <2>1
<1>6. /\ \A r \in Starts(name) : r \in Nat /\ IsFiniteSet(After(name, r))
                                 /\ Cardinality(After(name, r)) \in Nat
      /\ \A r \in Starts(pattern) : IsFiniteSet(After(pattern, r))
                                 /\ Cardinality(After(pattern, r)) \in Nat
  BY StartsAre DEF Text
<1>7. /\ Cardinality(After(name, pos)) = 0 <=> After(name, pos) = {}
      /\ Cardinality(After(pattern, q)) = 0 <=> After(pattern, q) = {}
  BY <1>6, FS_EmptySet
<1>8. ASSUME Count(pos, q)
      PROVE  /\ <<pos, q>> \in Abreast(name, pattern)
             /\ \A pair \in Abreast(name, pattern) : pair[1] = pos => pair = <<pos, q>>
  <2>1. <<pos, q>> \in Abreast(name, pattern)
    BY <1>8 DEF Abreast
  <2>2. ASSUME NEW pair \in Abreast(name, pattern), pair[1] = pos
        PROVE  pair = <<pos, q>>
    <3>1. /\ pair \in Starts(name) \X Starts(pattern) /\ pair[2] \in Starts(pattern)
          /\ Cardinality(After(pattern, pair[2])) = Cardinality(After(pattern, q))
      BY <1>8, <2>2 DEF Abreast
    <3>2. pair[2] = q
      BY <3>1, OneLabel
    <3> QED
      BY <2>2, <3>1, <3>2
  <2> QED
    BY <2>1, <2>2
<1>9. ASSUME NEW later, Count(pos, q), \A r \in Starts(name) : pos <= r <=> (r = pos \/ later <= r)
      PROVE  LabelsMean(name, pattern, pos) <=> Same /\ LabelsMean(name, pattern, later)
  <2>1. \A pair \in Abreast(name, pattern) : pair[1] \in Starts(name)
    BY DEF Abreast
  <2>2. ASSUME LabelsMean(name, pattern, pos)
        PROVE  Same /\ LabelsMean(name, pattern, later)
    <3>1. pos <= pos
      BY <1>6
    <3> QED
      BY <1>8, <1>9, <2>1, <2>2, <3>1 DEF LabelsMean
  <2>3. ASSUME Same, LabelsMean(name, pattern, later)
        PROVE  LabelsMean(name, pattern, pos)
    BY <1>8, <1>9, <2>1, <2>3 DEF LabelsMean
  <2> QED
    BY <2>2, <2>3
<1>10. CASE After(name, pos) = {} /\ After(pattern, q) = {}
  <2>1. Count(pos, q)
    BY <1>10
  <2>2. \A r \in Starts(name) : r <= pos
    <3>1. \A r \in Starts(name) : ~(pos < r)
      BY <1>10 DEF After
    <3>2. \A r \in Starts(name) : r \in Nat
      BY <1>6
    <3> QED
      BY <3>1, <3>2
  <2>3. LabelsMean(name, pattern, pos) <=> Same
    <3>1. \A pair \in Abreast(name, pattern) : pos <= pair[1] <=> pair[1] = pos
      <4> TAKE pair \in Abreast(name, pattern)
      <4>1. pair[1] \in Starts(name)
        BY DEF Abreast
      <4> QED
        BY <1>6, <2>2, <4>1
    <3>2. \A pair \in Abreast(name, pattern) : pos <= pair[1] => pair = <<pos, q>>
      BY <1>8, <2>1, <3>1
    <3>3. <<pos, q>> \in Abreast(name, pattern) /\ pos <= pos
      BY <1>6, <1>8, <2>1
    <3> QED
      BY <3>2, <3>3 DEF LabelsMean
  <2> QED
    BY <1>5, <1>10, <2>1, <2>3 DEF Found
<1>11. CASE ~(After(name, pos) = {} <=> After(pattern, q) = {})
  BY <1>5, <1>7, <1>11 DEF Found
<1>12. CASE After(name, pos) # {} /\ After(pattern, q) # {}
  <2> DEFINE a == AfterLabel(name, pos)
             b == AfterLabel(pattern, q)
  <2>1. /\ a \in Starts(name) /\ Cardinality(After(name, pos)) = Cardinality(After(name, a)) + 1
        /\ \A r \in Starts(name) : pos <= r <=> (r = pos \/ a <= r)
        /\ b \in Starts(pattern) /\ Cardinality(After(pattern, q)) = Cardinality(After(pattern, b)) + 1
    BY <1>12, NextIs
  <2>2. f[next] <=> Count(a, b) /\ LabelsMean(name, pattern, a)
    BY <1>12 DEF Found
  <2> HIDE DEF a, b
  <2>3. Count(pos, q) <=> Count(a, b)
    BY <1>6, <2>1
  <2>4. Count(pos, q) => (LabelsMean(name, pattern, pos) <=> Same /\ LabelsMean(name, pattern, a))
    BY <1>9, <2>1
  <2>5. f[at] <=> Same /\ f[next]
    BY <1>5, <1>12
  <2> HIDE DEF Same, next, Count
  <2>6. f[at] <=> Count(pos, q) /\ LabelsMean(name, pattern, pos)
    BY <2>2, <2>3, <2>4, <2>5
  <2> QED
    BY <2>6 DEF Found, Count
<1> QED
  BY <1>10, <1>11, <1>12

LEMMA MatchMeans ==
    ASSUME NEW name \in Text, NEW pattern \in Text, Full(name), Full(pattern)
    PROVE  is_dns_name_matching_pattern(name, pattern)
              <=> /\ Cardinality(Starts(name)) = Cardinality(Starts(pattern))
                  /\ \A pair \in Abreast(name, pattern) :
                        Means(LabelAt(pattern, pair[2]), LabelAt(name, pair[1]))
<1>1. PICK f : Matches(f, name, pattern) /\ is_dns_name_matching_pattern(name, pattern) = f[[n |-> 1, p |-> 1]]
  BY MatchIs
<1> DEFINE Lost(k) == \E pos \in Starts(name), q \in Starts(pattern) :
                         k = Cardinality(After(name, pos)) /\ ~Found(f, name, pattern, pos, q)
           Wrong == {k \in Nat : Lost(k)}
<1>2. Wrong = {}
  <2> SUFFICES ASSUME Wrong # {} PROVE FALSE
    OBVIOUS
  <2>1. PICK k \in Wrong : \A m \in Wrong : k <= m
    <3>1. Wrong \in SUBSET Nat
      OBVIOUS
    <3> HIDE DEF Wrong
    <3> QED
      BY <3>1, HasLeast
  <2>2. PICK pos \in Starts(name), q \in Starts(pattern) :
           k = Cardinality(After(name, pos)) /\ ~Found(f, name, pattern, pos, q)
    BY <2>1
  <2>3. PICK a \in Starts(name), b \in Starts(pattern) :
           /\ Cardinality(After(name, pos)) = Cardinality(After(name, a)) + 1
           /\ ~Found(f, name, pattern, a, b)
    <3>1. /\ After(name, pos) # {} /\ After(pattern, q) # {}
          /\ ~Found(f, name, pattern, AfterLabel(name, pos), AfterLabel(pattern, q))
      BY <1>1, <2>2, MatchStep
    <3> QED
      BY <3>1, NextIs
  <2>4. Cardinality(After(name, a)) \in Nat /\ k \in Nat
    BY <2>1, StartsAre
  <2>5. Cardinality(After(name, a)) \in Wrong
    BY <2>3, <2>4
  <2>6. k <= Cardinality(After(name, a)) /\ k = Cardinality(After(name, a)) + 1
    BY <2>1, <2>2, <2>3, <2>5
  <2> QED
    BY <2>4, <2>6
<1>3. Found(f, name, pattern, 1, 1)
  <2> SUFFICES ASSUME ~Found(f, name, pattern, 1, 1) PROVE FALSE
    OBVIOUS
  <2>1. 1 \in Starts(name) /\ 1 \in Starts(pattern) /\ Cardinality(After(name, 1)) \in Nat
    BY FirstIs
  <2>2. Lost(Cardinality(After(name, 1)))
    BY <2>1
  <2> HIDE DEF Lost
  <2> QED
    BY <1>2, <2>1, <2>2
<1>4. Cardinality(After(name, 1)) = Cardinality(After(pattern, 1))
         <=> Cardinality(Starts(name)) = Cardinality(Starts(pattern))
  <2>1. /\ Cardinality(Starts(name)) = Cardinality(After(name, 1)) + 1
        /\ Cardinality(Starts(pattern)) = Cardinality(After(pattern, 1)) + 1
        /\ Cardinality(After(name, 1)) \in Nat /\ Cardinality(After(pattern, 1)) \in Nat
    BY FirstIs
  <2> QED
    BY <2>1
<1>5. LabelsMean(name, pattern, 1)
         <=> \A pair \in Abreast(name, pattern) :
                Means(LabelAt(pattern, pair[2]), LabelAt(name, pair[1]))
  <2>1. \A pair \in Abreast(name, pattern) : 1 <= pair[1]
    <3> TAKE pair \in Abreast(name, pattern)
    <3>1. pair[1] \in Starts(name)
      BY DEF Abreast
    <3> QED
      BY <3>1, FirstIs
  <2> QED
    BY <2>1 DEF LabelsMean
<1> QED
  BY <1>1, <1>3, <1>4, <1>5 DEF Found

-----------------------------------------------------------------------------

\* The last label of a host name begins with a letter or a digit, so that a host name is
\* not empty when its dots and wildcards are left out.
LEMMA HostNamesAreCounted ==
    ASSUME NEW text \in Text, NEW wildcards, IsHostName(text, wildcards)
    PROVE  Counted(text, wildcards)
<1> DEFINE pos == Latest(text)
           label == LabelAt(text, pos)
           plain == {i \in DOMAIN text : text[i] \notin {".", "*"}}
<1>1. pos \in Starts(text) /\ After(text, pos) = {} /\ pos \in 1..(Len(text) + 1)
  BY LatestIs, StartsAre
<1>2. /\ IsLabel(label, wildcards)
      /\ Stars(label) > 0 => Cardinality(After(text, pos)) >= 2
      /\ Len(text) <= MAX_HOSTNAME_LENGTH
  BY <1>1 DEF IsHostName, HasHostLabels
<1>3. /\ label \in Text /\ Len(label) = LabelEnd(text, pos) - pos + 1
      /\ \A i \in 1..Len(label) : label[i] = text[pos + i - 1]
      /\ LabelEnd(text, pos) <= Len(text) /\ LabelEnd(text, pos) \in Int
  BY <1>1, LabelIs, LabelEndIs DEF IsEnd, Text
<1> HIDE DEF label, pos
<1>4. Stars(label) = 0 /\ \A i \in DOMAIN label : label[i] # "*"
  <2>1. Cardinality(After(text, pos)) = 0
    BY <1>1, FS_EmptySet
  <2>2. Stars(label) \in Nat
    BY <1>3, NoStars
  <2>3. Stars(label) = 0
    BY <1>2, <2>1, <2>2
  <2> QED
    BY <1>3, <2>3, NoStars DEF ToSet
<1>5. /\ 1 \in 1..Len(label) /\ DOMAIN label = 1..Len(label)
      /\ label[1] \notin {".", "-", "*"}
  <2>1. Len(label) \in Nat /\ DOMAIN label = 1..Len(label) /\ (Len(label) = 0 => label = <<>>)
    BY <1>3, TheoremsOf!EmptySeq DEF Text
  <2>2. 1 \in 1..Len(label)
    BY <1>2, <2>1 DEF IsLabel
  <2>3. label[1] \in ToSet(label)
    BY <2>1, <2>2 DEF ToSet
  <2>4. label[1] \in Letters \cup Digits \cup {"-", "*"} /\ label[1] # "-" /\ label[1] # "*"
    BY <1>2, <1>4, <2>1, <2>2, <2>3 DEF IsLabel
  <2> QED
    BY <2>1, <2>2, <2>4, TextAssumption DEF Letters
<1>6. pos \in plain /\ plain \subseteq 1..Len(text) /\ Len(text) \in Nat
  <2>1. pos \in Int /\ 1 <= pos /\ Len(text) \in Nat /\ DOMAIN text = 1..Len(text)
    BY <1>1 DEF Text
  <2>2. Len(label) \in Int /\ 1 <= Len(label)
    BY <1>3, <1>5, <2>1
  <2>3. pos \in 1..Len(text) /\ pos + 1 - 1 = pos
    BY <1>3, <2>1, <2>2
  <2>4. text[pos] = label[1]
    BY <1>3, <1>5, <2>3
  <2> QED
    BY <1>5, <2>1, <2>3, <2>4
<1>7. IsFiniteSet(1..Len(text)) /\ Cardinality(1..Len(text)) = Len(text)
  <2>1. Len(text) \in Int /\ 1 \in Int /\ Len(text) >= 0
    BY <1>6
  <2>2. /\ IsFiniteSet(1..Len(text))
        /\ Cardinality(1..Len(text)) = IF 1 > Len(text) THEN 0 ELSE Len(text) - 1 + 1
    BY <2>1, FS_Interval, Zenon
  <2> QED
    BY <2>1, <2>2
<1> HIDE DEF plain
<1>8. IsFiniteSet(plain) /\ Cardinality(plain) \in Nat /\ Cardinality(plain) <= Len(text)
  BY <1>6, <1>7, FS_Subset, FS_CardinalityType
<1>9. Cardinality(plain) # 0
  BY <1>6, <1>8, FS_EmptySet
<1>10. Bare(text) \in 1..MAX_HOSTNAME_LENGTH
  <2>1. Cardinality(plain) \in 1..MAX_HOSTNAME_LENGTH
    BY <1>2, <1>6, <1>8, <1>9, LimitsAssumption
  <2> QED
    BY <2>1 DEF Bare, plain
<1> QED
  BY <1>10 DEF IsHostName, Counted

LEMMA CountedAreFull ==
    ASSUME NEW text, NEW wildcards, Counted(text, wildcards)
    PROVE  Full(text)
BY Zenon DEF Counted, HasHostLabels, IsLabel, Full

EnteredIsText == entered \in Texts \cup {<<>>}

LEMMA TextsAre ==
    /\ Texts \subseteq Text /\ GlobValues \subseteq Text
  BY TextAssumption DEF Text

LEMMA PatternsAre ==
    ASSUME EnteredIsText
    PROVE  PatternsAreRight
<1>1. entered \in Text
  BY TextsAre, NothingIs DEF EnteredIsText
<1>2. GlobIsRight
  BY <1>1, TextsAre, GlobMeans DEF GlobIsRight
<1>3. ScansAreRight
  <2>1. /\ IsHostName(entered, 0) => is_valid_dns_name(entered)
        /\ IsHostName(entered, Wildcards) => is_valid_dns_name_pattern(entered)
    BY <1>1, HostNamesAreCounted, NameIsRight, ScanIsRight
  <2>2. /\ is_valid_dns_name(entered)
              => HasHostLabels(entered, 0) /\ Bare(entered) <= MAX_HOSTNAME_LENGTH
        /\ is_valid_dns_name_pattern(entered)
              => HasHostLabels(entered, Wildcards) /\ Bare(entered) <= MAX_HOSTNAME_LENGTH
    BY <1>1, NameIsRight, ScanIsRight DEF Counted
  <2> QED
    BY <2>1, <2>2 DEF ScansAreRight, Wildcards
<1>4. MatchIsLabelwise
  <2> SUFFICES ASSUME is_valid_dns_name(entered)
               PROVE  /\ is_valid_dns_name_pattern(entered)
                      /\ \A pattern \in ValidPatterns :
                            is_dns_name_matching_pattern(entered, pattern) <=>
                               /\ Cardinality(Starts(entered)) = Cardinality(Starts(pattern))
                               /\ \A pair \in Abreast(entered, pattern) :
                                     Means(LabelAt(pattern, pair[2]), LabelAt(entered, pair[1]))
    BY DEF MatchIsLabelwise
  <2>1. is_valid_dns_name_pattern(entered)
    BY DEF is_valid_dns_name
  <2>2. Full(entered)
    BY <1>1, <2>1, ScanIsRight, CountedAreFull
  <2>3. ASSUME NEW pattern \in ValidPatterns
        PROVE  pattern \in Text /\ Full(pattern)
    <3>1. pattern \in Text /\ is_valid_dns_name_pattern(pattern)
      BY TextsAre DEF ValidPatterns
    <3> QED
      BY <3>1, ScanIsRight, CountedAreFull
  <2> QED
    BY <1>1, <2>1, <2>2, <2>3, MatchMeans
<1> QED
  BY <1>2, <1>3, <1>4 DEF PatternsAreRight

\* For all texts, of any length: the glob loop accepts what the pattern means; the
\* one-pass scans of is_valid_dns_name and is_valid_dns_name_pattern accept every host
\* name, and beyond the host names only what dots and wildcards make too long; and
\* is_dns_name_matching_pattern matches what they accept label by label.
THEOREM PatternsStayRight == TextSpec => []PatternsAreRight
<1>1. ASSUME entered = <<>>
      PROVE  EnteredIsText
  BY <1>1 DEF EnteredIsText
<1>2. ASSUME EnteredIsText, [TextNext]_entered
      PROVE  EnteredIsText'
  BY <1>2 DEF EnteredIsText, TextNext, Type
<1>3. EnteredIsText => PatternsAreRight
  BY PatternsAre
<1> QED
  BY <1>1, <1>2, <1>3, PTL DEF TextSpec

=============================================================================
