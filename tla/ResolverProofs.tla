---------------------------- MODULE ResolverProofs ----------------------------
(***************************************************************************)
(* Proofs about the way of a query to an upstream server and back, for any *)
(* servers, names, clients, limits and zones.  Of UpstreamPool: what       *)
(* select_server returns, and that it takes turns.  Of Resolver: the       *)
(* attempts of a query, rebinding, and the names of a zone.  Of Dnssec:    *)
(* the validation calls nothing secure that has a covering signature and   *)
(* stays within its limits, and the tests of times and of spans are right. *)
(* Of DomainMatcher: the lookups of patterns and of zones.  Of DnsWire:    *)
(* reading a name ends, the readers agree, and a name that is written is   *)
(* read back; a name stands in a message as labels, or as labels and one   *)
(* pointer back to labels.                                                 *)
(***************************************************************************)
EXTENDS Resolver, Dnssec, DomainMatcher, DnsWire, FiniteSetTheorems, WellFoundedInduction, TLAPS

TheoremsOf == INSTANCE SequenceTheorems

-----------------------------------------------------------------------------
(* Smallest numbers *)

LEMMA HasLeast ==
    ASSUME NEW S \in SUBSET Nat, S # {}
    PROVE  \E x \in S : \A y \in S : x <= y
<1> DEFINE Less == {p \in Nat \X Nat : p[1] < p[2]}
<1>1. IsWellFoundedOn(Less, Nat)
  BY NatLessThanWellFounded, Zenon DEF OpToRel
<1> HIDE DEF Less
<1>2. PICK x \in S : \A y \in S : ~(<<y, x>> \in Less)
  BY <1>1, WFMin
<1>3. ASSUME NEW y \in S
      PROVE  x <= y
  <2>1. ~(<<y, x>> \in Less) /\ x \in Nat /\ y \in Nat
    BY <1>2
  <2> QED
    BY <2>1 DEF Less
<1> QED
  BY <1>3

LEMMA MinIs ==
    ASSUME NEW S \in SUBSET Nat, S # {}
    PROVE  Min(S) \in S /\ \A y \in S : Min(S) <= y
  BY HasLeast DEF Min

\* How many of a set come before a number.
Rank(S, i) == Cardinality({j \in S : j < i})

LEMMA RankIs ==
    ASSUME NEW S \in SUBSET Nat, IsFiniteSet(S), NEW i
    PROVE  Rank(S, i) \in Nat /\ IsFiniteSet({j \in S : j < i})
  BY FS_Subset, FS_CardinalityType DEF Rank

\* The member after one, if there is one, has one more before it.
LEMMA RankOfNext ==
    ASSUME NEW S \in SUBSET Nat, IsFiniteSet(S), NEW i \in S, NEW n \in S, n > i,
           \A j \in S : j > i => n <= j
    PROVE  Rank(S, n) = Rank(S, i) + 1
<1>1. {j \in S : j < n} = {j \in S : j < i} \cup {i}
  <2>1. \A j \in S : j \in Nat /\ i \in Nat /\ n \in Nat
    OBVIOUS
  <2>2. \A j \in S : j < n <=> j < i \/ j = i
    BY <2>1
  <2> QED
    BY <2>2, Zenon
<1>2. IsFiniteSet({j \in S : j < i}) /\ i \notin {j \in S : j < i}
  BY RankIs
<1> QED
  BY <1>1, <1>2, FS_AddElement DEF Rank

\* The last has all others before it.
LEMMA RankOfLast ==
    ASSUME NEW S \in SUBSET Nat, IsFiniteSet(S), NEW i \in S, \A j \in S : ~(j > i)
    PROVE  Cardinality(S) = Rank(S, i) + 1
<1>1. S = {j \in S : j < i} \cup {i}
  <2>1. \A j \in S : j \in Nat /\ i \in Nat
    OBVIOUS
  <2>2. \A j \in S : j < i \/ j = i
    BY <2>1
  <2> QED
    BY <2>2, Zenon
<1>2. IsFiniteSet({j \in S : j < i}) /\ i \notin {j \in S : j < i}
  BY RankIs
<1> QED
  BY <1>1, <1>2, FS_AddElement DEF Rank

LEMMA RankOfFirst ==
    ASSUME NEW S \in SUBSET Nat, NEW i \in S, \A j \in S : i <= j
    PROVE  Rank(S, i) = 0
<1>1. {j \in S : j < i} = {}
  <2>1. \A j \in S : j \in Nat /\ i \in Nat
    OBVIOUS
  <2>2. \A j \in S : ~(j < i)
    BY <2>1
  <2> QED
    BY <2>2, Zenon
<1> QED
  BY <1>1, FS_EmptySet DEF Rank

\* Members with as many before them are the same.
LEMMA RankIsUnique ==
    ASSUME NEW S \in SUBSET Nat, IsFiniteSet(S), NEW i \in S, NEW k \in S, Rank(S, i) = Rank(S, k)
    PROVE  i = k
<1>1. ASSUME NEW a \in S, NEW b \in S, a < b
      PROVE  Rank(S, a) # Rank(S, b)
  <2>1. {j \in S : j < a} \subseteq {j \in S : j < b}
    <3>1. \A j \in S : j \in Nat /\ a \in Nat /\ b \in Nat
      OBVIOUS
    <3>2. \A j \in S : j < a => j < b
      BY <1>1, <3>1
    <3> QED
      BY <3>2, Zenon
  <2>2. a \in {j \in S : j < b} /\ a \notin {j \in S : j < a}
    BY <1>1
  <2>3. IsFiniteSet({j \in S : j < b})
    BY RankIs
  <2> HIDE <1>1
  <2> QED
    BY <2>1, <2>2, <2>3, FS_Subset DEF Rank
<1> QED
  BY <1>1

\* For every number below the size of the set, a member has as many before it:
\* the smallest number that is no rank follows one that is.
LEMMA RankExists ==
    ASSUME NEW S \in SUBSET Nat, IsFiniteSet(S), NEW r \in Nat, r < Cardinality(S)
    PROVE  \E i \in S : Rank(S, i) = r
<1> DEFINE Bad == {k \in Nat : k < Cardinality(S) /\ \A i \in S : Rank(S, i) # k}
<1>1. SUFFICES ASSUME Bad # {} PROVE FALSE
  OBVIOUS
<1>2. PICK k \in Bad : \A other \in Bad : k <= other
  BY <1>1, HasLeast
<1>3. S # {} /\ Cardinality(S) \in Nat
  BY FS_EmptySet, FS_CardinalityType
<1>4. k # 0
  <2>1. PICK i \in S : \A j \in S : i <= j
    BY <1>3, HasLeast
  <2>2. Rank(S, i) = 0
    BY <2>1, RankOfFirst
  <2> QED
    BY <2>2
<1>5. k - 1 \in Nat /\ k - 1 < Cardinality(S) /\ k - 1 \notin Bad
  BY <1>2, <1>3, <1>4
<1>6. PICK i \in S : Rank(S, i) = k - 1
  BY <1>5
<1>7. {j \in S : j > i} # {}
  BY <1>3, <1>6, RankOfLast
<1>8. PICK n \in {j \in S : j > i} : \A j \in {x \in S : x > i} : n <= j
  BY <1>7, HasLeast
<1>9. Rank(S, n) = k
  <2>1. n \in S /\ n > i /\ \A j \in S : j > i => n <= j
    BY <1>8
  <2>2. Rank(S, n) = Rank(S, i) + 1
    BY <2>1, RankOfNext
  <2> QED
    BY <1>5, <1>6, <2>2
<1> QED
  BY <1>8, <1>9

LEMMA TurnIs ==
    ASSUME NEW S \in SUBSET Nat, IsFiniteSet(S), NEW r \in Nat, r < Cardinality(S)
    PROVE  Turn(S, r) \in S /\ Rank(S, Turn(S, r)) = r
<1>1. \E i \in S : Cardinality({j \in S : j < i}) = r
  BY RankExists DEF Rank
<1> QED
  BY <1>1 DEF Turn, Rank

\* The member after one has the next rank, the first the rank after the last.
LEMMA FollowingIs ==
    ASSUME NEW S \in SUBSET Nat, IsFiniteSet(S), NEW i \in S
    PROVE  /\ Following(S, i) \in S
           /\ Rank(S, Following(S, i)) = (Rank(S, i) + 1) % Cardinality(S)
<1> DEFINE later == {j \in S : j > i}
<1>0. Rank(S, i) \in Nat /\ Cardinality(S) \in Nat
  BY RankIs, FS_CardinalityType
<1>1. CASE later = {}
  <2>1. Following(S, i) = Min(S)
    BY <1>1 DEF Following
  <2>2. Min(S) \in S /\ Rank(S, Min(S)) = 0
    BY MinIs, RankOfFirst
  <2>3. Cardinality(S) = Rank(S, i) + 1
    BY <1>1, RankOfLast
  <2> QED
    BY <1>0, <2>1, <2>2, <2>3
<1>2. CASE later # {}
  <2>1. Following(S, i) = Min(later) /\ later \in SUBSET Nat
    BY <1>2 DEF Following
  <2>2. Min(later) \in later /\ \A j \in later : Min(later) <= j
    BY <1>2, <2>1, MinIs
  <2>3. Rank(S, Min(later)) = Rank(S, i) + 1
    BY <2>2, RankOfNext
  <2>4. Rank(S, i) + 1 < Cardinality(S)
    <3>1. {j \in S : j < Min(later)} \subseteq S /\ Min(later) \in S
            /\ Min(later) \notin {j \in S : j < Min(later)}
      <4>1. Min(later) \in S
        BY <2>2
      <4>2. \A m \in Nat : ~(m < m)
        OBVIOUS
      <4> HIDE DEF later
      <4>3. ~(Min(later) < Min(later))
        BY <4>1, <4>2
      <4> QED
        BY <4>1, <4>3, Zenon
    <3>2. Rank(S, Min(later)) < Cardinality(S)
      <4> HIDE DEF later
      <4>1. {j \in S : j < Min(later)} # S
        BY <3>1
      <4> QED
        BY <3>1, <4>1, FS_Subset, RankIs, FS_CardinalityType DEF Rank
    <3> QED
      BY <2>3, <3>2
  <2> QED
    BY <1>0, <2>1, <2>2, <2>3, <2>4
<1> QED
  BY <1>1, <1>2

-----------------------------------------------------------------------------
(* The upstream pool *)

LEMMA PoolNumbers ==
    /\ Cooldown \in Nat /\ MaxServers \in Nat /\ MaxTime \in Nat /\ NoDomain \notin Pattern
    /\ \A name \in Name : Chain[name] \in Seq(Pattern)
  BY PoolAssumption, ChainAssumption

\* The first server with an address, if there is one.
LEMMA IndexIs ==
    ASSUME NEW addr
    PROVE  /\ IndexOf(addr) \in Nat
           /\ IndexOf(addr) # 0 => IndexOf(addr) \in 1..Len(servers)
                                   /\ servers[IndexOf(addr)].addr = addr
<1> DEFINE I == {i \in 1..Len(servers) : servers[i].addr = addr}
<1>1. IndexOf(addr) = IF I # {} THEN Min(I) ELSE 0
  BY DEF IndexOf, SelectInSeq
<1>2. I \in SUBSET Nat
  OBVIOUS
<1>3. I # {} => Min(I) \in I
  BY <1>2, MinIs
<1> QED
  BY <1>1, <1>3

\* A route found for a name is registered for one of the patterns that cover it.
LEMMA MatchIs ==
    ASSUME NEW name
    PROVE  \A p \in LongestMatch(name) : p \in ToSet(Chain[name]) /\ matcher[p] # <<>>
<1> DEFINE I == {i \in 1..Len(Chain[name]) : matcher[Chain[name][i]] # <<>>}
<1> DEFINE at == SelectInSeq(Chain[name], LAMBDA p : matcher[p] # <<>>)
<1>1. at = IF I # {} THEN Min(I) ELSE 0
  BY DEF SelectInSeq
<1>2. I \in SUBSET Nat
  OBVIOUS
<1>3. I # {} => Min(I) \in I
  BY <1>2, MinIs
<1>4. at # 0 => at \in 1..Len(Chain[name])
  BY <1>1, <1>3
<1>5. LongestMatch(name) = IF at = 0 THEN {} ELSE {Chain[name][at]}
  BY DEF LongestMatch
<1>6. at # 0 => matcher[Chain[name][at]] # <<>>
  BY <1>1, <1>3
<1> HIDE DEF at
<1> QED
  BY <1>4, <1>5, <1>6 DEF ToSet

\* The longest match of a name has a route to the address.
Follows(name, addr) ==
    name \in Name /\ matcher \in [Pattern -> {<<>>} \cup {<<a>> : a \in Addr}] =>
       \E p \in LongestMatch(name) : matcher[p] = <<addr>>

\* A server a route leads to can be used, and its address is that of a route.
LEMMA RoutedIs ==
    ASSUME NEW name, NEW required
    PROVE  /\ DomainServer(name, required) \in Nat
           /\ DomainServer(name, required) # 0 =>
                 /\ DomainServer(name, required) \in 1..Len(servers)
                 /\ Usable(servers[DomainServer(name, required)], required)
                 /\ Follows(name, servers[DomainServer(name, required)].addr)
<1> DEFINE list == IF LongestMatch(name) = {} THEN <<>>
                   ELSE matcher[CHOOSE p \in LongestMatch(name) : TRUE]
<1> DEFINE I == {k \in 1..Len(list) : /\ IndexOf(list[k]) # 0
                                      /\ Usable(servers[IndexOf(list[k])], required)}
<1> DEFINE at == IF I # {} THEN Min(I) ELSE 0
<1>1. DomainServer(name, required) = IF at = 0 THEN 0 ELSE IndexOf(list[at])
  BY DEF DomainServer, SelectInSeq
<1>2. I \in SUBSET Nat
  OBVIOUS
<1>3. at # 0 => at \in I
  BY <1>2, MinIs
<1>4. LongestMatch(name) = {} => I = {}
  OBVIOUS
<1>5. at # 0 => /\ IndexOf(list[at]) # 0
                /\ Usable(servers[IndexOf(list[at])], required)
                /\ LongestMatch(name) # {} /\ at \in 1..Len(list)
  BY <1>3, <1>4
<1>6. at # 0 => Follows(name, list[at])
  <2> SUFFICES ASSUME at # 0, name \in Name,
                      matcher \in [Pattern -> {<<>>} \cup {<<a>> : a \in Addr}]
               PROVE  \E p \in LongestMatch(name) : matcher[p] = <<list[at]>>
    BY DEF Follows
  <2> DEFINE p == CHOOSE q \in LongestMatch(name) : TRUE
  <2>1. p \in LongestMatch(name) /\ list = matcher[p]
    BY <1>5
  <2>2. p \in Pattern /\ matcher[p] # <<>>
    BY <2>1, MatchIs, PoolNumbers DEF ToSet
  <2> HIDE DEF p
  <2>3. PICK a \in Addr : matcher[p] = <<a>>
    BY <2>2
  <2>4. list[at] = a
    <3>1. list = <<a>> /\ at \in 1..Len(list)
      BY <1>5, <2>1, <2>3
    <3> HIDE DEF list, at
    <3>2. at = 1
      BY <3>1
    <3> QED
      BY <3>1, <3>2
  <2> QED
    BY <2>1, <2>3, <2>4
<1> HIDE DEF at, list
<1> QED
  BY <1>1, <1>5, <1>6, IndexIs

\* Turns taken modulo the length of a list.
LEMMA Remainder ==
    ASSUME NEW n \in Nat \ {0}, NEW q \in Nat, NEW r \in 0..(n - 1)
    PROVE  (n * q + r) % n = r
  OBVIOUS

LEMMA RemainderOfNext ==
    ASSUME NEW n \in Nat \ {0}, NEW c \in Nat
    PROVE  /\ c % n \in 0..(n - 1) /\ (c % n) % n = c % n
           /\ (c + 1) % n = ((c % n) + 1) % n
<1> DEFINE q == c \div n
           r == c % n
<1>1. q \in Nat /\ r \in 0..(n - 1) /\ c = n * q + r
  OBVIOUS
<1>2. (c % n) % n = c % n
  BY <1>1, Remainder
<1>3. CASE r + 1 < n
  <2>1. c + 1 = n * q + (r + 1) /\ r + 1 \in 0..(n - 1)
    BY <1>1, <1>3
  <2>2. (c + 1) % n = r + 1
    BY <1>1, <2>1, Remainder
  <2>3. (r + 1) % n = r + 1
    BY <2>1
  <2> QED
    BY <1>1, <1>2, <2>2, <2>3
<1>4. CASE r + 1 = n
  <2>1. c + 1 = n * (q + 1) + 0 /\ 0 \in 0..(n - 1) /\ q + 1 \in Nat
    BY <1>1, <1>4
  <2>2. (c + 1) % n = 0
    BY <2>1, Remainder
  <2>3. n % n = 0
    OBVIOUS
  <2> QED
    BY <1>1, <1>2, <1>4, <2>2, <2>3
<1> QED
  BY <1>1, <1>3, <1>4

LEMMA GeneralIs ==
    ASSUME servers \in Seq(Server), NEW required
    PROVE  /\ General(required) \in SUBSET Nat /\ General(required) \subseteq 1..Len(servers)
           /\ IsFiniteSet(General(required))
           /\ Cardinality(General(required)) \in 0..Len(servers)
           /\ General(required) # {} => Cardinality(General(required)) # 0
<1>1. General(required) \subseteq 1..Len(servers) /\ Len(servers) \in Nat
  BY DEF General
<1>2. IsFiniteSet(1..Len(servers)) /\ Cardinality(1..Len(servers)) = Len(servers)
  <2>1. /\ IsFiniteSet(1..Len(servers))
        /\ Cardinality(1..Len(servers)) = IF 1 > Len(servers) THEN 0 ELSE Len(servers) - 1 + 1
    BY <1>1, FS_Interval, SMTT(30)
  <2> QED
    BY <1>1, <2>1
<1>3. /\ IsFiniteSet(General(required)) /\ Cardinality(General(required)) \in Nat
      /\ Cardinality(General(required)) <= Len(servers)
  BY <1>1, <1>2, FS_Subset, FS_CardinalityType
<1>4. General(required) # {} => Cardinality(General(required)) # 0
  BY <1>3, FS_EmptySet
<1> QED
  BY <1>1, <1>3, <1>4

\* What select_server returns and where it leaves the turn.
LEMMA SelectIs ==
    ASSUME servers \in Seq(Server), current_index \in Nat, NEW name, NEW required,
           SelectServer(name, required)
    PROVE  /\ UNCHANGED <<now, servers, matcher, left_behind>>
           /\ picked'.name = name /\ picked'.dnssec = required
           /\ \/ /\ picked'.addr = NoAddr /\ picked'.general = {}
                 /\ current_index' = current_index
              \/ /\ picked'.at \in 1..Len(servers) /\ picked'.addr = servers[picked'.at].addr
                 /\ Usable(servers[picked'.at], required)
                 /\ \/ /\ picked'.general = {} /\ Follows(name, picked'.addr)
                       /\ current_index' = current_index
                    \/ /\ picked'.general # {} /\ picked'.general = General(required)
                       /\ picked'.at \in General(required)
                       /\ Rank(General(required), picked'.at)
                             = current_index % Cardinality(General(required))
                       /\ current_index' = (current_index + 1) % Cardinality(General(required))
<1> DEFINE routed == DomainServer(name, required)
           general == General(required)
           n == Cardinality(general)
<1>1. UNCHANGED <<now, servers, matcher, left_behind>>
  BY DEF SelectServer
<1>2. CASE routed # 0
  <2>1. picked' = [name |-> name, dnssec |-> required, at |-> routed,
                   addr |-> servers[routed].addr, general |-> {}] /\ current_index' = current_index
    BY <1>2 DEF SelectServer
  <2>2. routed \in 1..Len(servers) /\ Usable(servers[routed], required)
          /\ Follows(name, servers[routed].addr)
    BY <1>2, RoutedIs
  <2> HIDE DEF routed
  <2> QED
    BY <1>1, <2>1, <2>2
<1>3. CASE routed = 0 /\ general # {}
  <2> DEFINE i == Turn(general, current_index % n)
  <2>1. picked' = [name |-> name, dnssec |-> required, at |-> i, addr |-> servers[i].addr,
                   general |-> general] /\ current_index' = (current_index + 1) % n
    BY <1>3 DEF SelectServer, NextTurn
  <2>2. /\ general \in SUBSET Nat /\ general \subseteq 1..Len(servers) /\ IsFiniteSet(general)
        /\ n \in Nat \ {0}
    BY <1>3, GeneralIs
  <2>3. current_index % n \in Nat /\ current_index % n < n
    <3> HIDE DEF n
    <3>1. current_index % n \in 0..(n - 1)
      BY <2>2, RemainderOfNext
    <3> QED
      BY <2>2, <3>1
  <2>4. i \in general /\ Rank(general, i) = current_index % n
    BY <2>2, <2>3, TurnIs
  <2>5. Usable(servers[i], required) /\ i \in 1..Len(servers)
    BY <2>2, <2>4 DEF General
  <2> HIDE DEF i, n
  <2> QED
    BY <1>1, <1>3, <2>1, <2>4, <2>5 DEF n
<1>4. CASE routed = 0 /\ general = {}
  <2>1. picked' = [NoPick EXCEPT !.name = name, !.dnssec = required] /\ current_index' = current_index
    BY <1>4 DEF SelectServer
  <2>2. picked'.addr = NoAddr /\ picked'.general = {} /\ picked'.name = name /\ picked'.dnssec = required
    BY <2>1 DEF NoPick
  <2> QED
    BY <1>1, <2>1, <2>2
<1> QED
  BY <1>2, <1>3, <1>4

\* The last selection, while nothing else has been done, and where the turn is.
TurnInv ==
    picked.general # {} =>
       /\ picked.general \in SUBSET Nat /\ IsFiniteSet(picked.general)
       /\ picked.at \in picked.general
       /\ current_index = (Rank(picked.general, picked.at) + 1) % Cardinality(picked.general)

\* A route that was not left behind leads to a server of its domain.
RoutesInv ==
    \A p \in Pattern \ left_behind :
       matcher[p] # <<>> =>
          \E i \in 1..Len(servers) : matcher[p] = <<servers[i].addr>> /\ servers[i].domain = p

PoolInv ==
    PoolTypeOK /\ SelectedServerIsUsable /\ DomainServersStayPrivate /\ TurnInv /\ RoutesInv

LEMMA PoolInvStarts == PoolInit => PoolInv
  BY PoolNumbers
     DEF PoolInit, PoolInv, PoolTypeOK, SelectedServerIsUsable, DomainServersStayPrivate, TurnInv, NoPick, RoutesInv

\* Forgetting the selection leaves nothing to say of it.
LEMMA NoPickIs ==
    ASSUME picked' = NoPick
    PROVE  SelectedServerIsUsable' /\ DomainServersStayPrivate' /\ TurnInv' /\ picked'.general = {}
<1>1. picked'.addr = NoAddr /\ picked'.general = {}
  BY DEF NoPick
<1> QED
  BY <1>1 DEF SelectedServerIsUsable, DomainServersStayPrivate, TurnInv

\* Changing when one server last failed.
LEMMA MarkedIs ==
    ASSUME servers \in Seq(Server), NEW i \in 1..Len(servers), NEW t \in Nat \cup {Never}
    PROVE  /\ [servers EXCEPT ![i].lastFailed = t] \in Seq(Server)
           /\ Len([servers EXCEPT ![i].lastFailed = t]) = Len(servers)
<1>1. servers \in [1..Len(servers) -> Server] /\ Len(servers) \in Nat
  OBVIOUS
<1>2. [servers[i] EXCEPT !.lastFailed = t] \in Server
  BY <1>1 DEF Server
<1>3. [servers EXCEPT ![i].lastFailed = t] \in [1..Len(servers) -> Server]
  BY <1>1, <1>2
<1> QED
  BY <1>1, <1>3

LEMMA AddServerKeeps ==
    ASSUME PoolTypeOK, RoutesInv, NEW addr \in Addr, NEW domain \in Pattern \cup {NoDomain},
           NEW dnssec_ok \in BOOLEAN, NEW loop \in BOOLEAN, AddServer(addr, domain, dnssec_ok, loop)
    PROVE  PoolTypeOK' /\ RoutesInv' /\ picked' = NoPick
<1> DEFINE server == [addr |-> addr, domain |-> domain, dnssec |-> dnssec_ok,
                      loop |-> loop, lastFailed |-> Never]
<1>1. server \in Server
  BY DEF Server
<1>2. servers' = Append(servers, server) /\ Len(servers) < MaxServers /\ picked' = NoPick
        /\ UNCHANGED <<now, current_index>>
  BY DEF AddServer
<1>5. server.addr = addr /\ server.domain = domain
  OBVIOUS
<1> HIDE DEF server
<1>3. servers' \in Seq(Server) /\ Len(servers') = Len(servers) + 1
  BY <1>1, <1>2 DEF PoolTypeOK
<1>4. matcher' \in [Pattern -> {<<>>} \cup {<<a>> : a \in Addr}]
  BY DEF AddServer, PoolTypeOK
<1>6. left_behind' = left_behind \ {domain}
        /\ matcher' = IF domain = NoDomain THEN matcher ELSE [matcher EXCEPT ![domain] = <<addr>>]
  BY DEF AddServer
<1>7. \A i \in 1..Len(servers) : i \in 1..Len(servers') /\ servers'[i] = servers[i]
  BY <1>1, <1>2, <1>3 DEF PoolTypeOK
<1>8. Len(servers') \in 1..Len(servers') /\ servers'[Len(servers')] = server
  BY <1>1, <1>2, <1>3 DEF PoolTypeOK
<1>9. RoutesInv'
  <2> SUFFICES ASSUME NEW p \in Pattern, p \notin left_behind', matcher'[p] # <<>>
               PROVE  \E i \in 1..Len(servers') :
                         matcher'[p] = <<servers'[i].addr>> /\ servers'[i].domain = p
    BY DEF RoutesInv
  <2>1. CASE p = domain /\ domain # NoDomain
    <3>1. matcher'[p] = <<addr>>
      BY <1>6, <2>1 DEF PoolTypeOK
    <3> QED
      BY <1>5, <1>8, <2>1, <3>1
  <2>2. CASE ~(p = domain /\ domain # NoDomain)
    <3>1. matcher'[p] = matcher[p]
      BY <1>6, <2>2 DEF PoolTypeOK
    <3>2. CASE p \notin left_behind
      <4>1. PICK i \in 1..Len(servers) : matcher[p] = <<servers[i].addr>> /\ servers[i].domain = p
        BY <3>1, <3>2 DEF RoutesInv
      <4> QED
        BY <1>7, <3>1, <4>1
    <3>3. CASE p \in left_behind
      <4>1. p = domain /\ domain = NoDomain
        BY <1>6, <2>2, <3>3
      <4> QED
        BY <4>1, PoolNumbers
    <3> QED
      BY <3>2, <3>3
  <2> QED
    BY <2>1, <2>2
<1> QED
  BY <1>2, <1>3, <1>4, <1>6, <1>9, PoolNumbers DEF PoolTypeOK

\* The list without one of its members.
LEMMA RemovedIs ==
    ASSUME NEW S, NEW s \in Seq(S), NEW i \in 1..Len(s)
    PROVE  /\ RemoveAt(s, i) \in Seq(S) /\ Len(RemoveAt(s, i)) = Len(s) - 1
           /\ \A k \in 1..Len(s) : k # i =>
                 \E l \in 1..Len(RemoveAt(s, i)) : RemoveAt(s, i)[l] = s[k]
<1>1. SubSeq(s, 1, i - 1) \in Seq(S) /\ Len(SubSeq(s, 1, i - 1)) = i - 1
  OBVIOUS
<1>2. SubSeq(s, i + 1, Len(s)) \in Seq(S) /\ Len(SubSeq(s, i + 1, Len(s))) = Len(s) - i
  OBVIOUS
<1>3. \A a, b \in Seq(S) : a \o b \in Seq(S) /\ Len(a \o b) = Len(a) + Len(b)
  OBVIOUS
<1>4. RemoveAt(s, i) = SubSeq(s, 1, i - 1) \o SubSeq(s, i + 1, Len(s))
  BY DEF RemoveAt
<1>5. Len(s) \in Nat /\ (i - 1) + (Len(s) - i) = Len(s) - 1
  OBVIOUS
<1>6. RemoveAt(s, i) \in Seq(S) /\ Len(RemoveAt(s, i)) = Len(s) - 1
  BY <1>1, <1>2, <1>3, <1>4, <1>5
<1>7. ASSUME NEW k \in 1..Len(s), k # i
      PROVE  \E l \in 1..Len(RemoveAt(s, i)) : RemoveAt(s, i)[l] = s[k]
  <2>1. CASE k < i
    <3>1. k \in 1..Len(RemoveAt(s, i)) /\ k \in 1..(i - 1)
      BY <1>6, <2>1
    <3>2. RemoveAt(s, i)[k] = SubSeq(s, 1, i - 1)[k] /\ SubSeq(s, 1, i - 1)[k] = s[k]
      BY <1>1, <1>2, <1>4, <3>1
    <3> QED
      BY <3>1, <3>2
  <2>2. CASE i < k
    <3>1. k - 1 \in 1..Len(RemoveAt(s, i)) /\ k - i \in 1..(Len(s) - i) /\ (k - 1) - (i - 1) = k - i
            /\ ~(k - 1 <= i - 1) /\ (i + 1) + (k - i) - 1 = k
      BY <1>6, <2>2
    <3>2. RemoveAt(s, i)[k - 1] = SubSeq(s, i + 1, Len(s))[k - i]
      BY <1>1, <1>2, <1>4, <3>1
    <3>3. SubSeq(s, i + 1, Len(s))[k - i] = s[k]
      <4>1. /\ i + 1 \in Int /\ Len(s) \in Int /\ k - i \in 1..(Len(s) - (i + 1) + 1)
            /\ \A j \in (i + 1)..Len(s) : s[j] \in S
        BY <1>5, <3>1
      <4>2. SubSeq(s, i + 1, Len(s))[k - i] = s[(i + 1) + (k - i) - 1]
        BY <4>1, TheoremsOf!SubSeqProperties
      <4> QED
        BY <3>1, <4>2
    <3> QED
      BY <3>1, <3>2, <3>3
  <2> QED
    BY <1>7, <2>1, <2>2
<1> QED
  BY <1>6, <1>7

LEMMA RemoveServerKeeps ==
    ASSUME PoolTypeOK, RoutesInv, NEW addr \in Addr, RemoveServer(addr)
    PROVE  PoolTypeOK' /\ RoutesInv' /\ picked' = NoPick
<1>1. IndexOf(addr) \in 1..Len(servers) /\ servers' = RemoveAt(servers, IndexOf(addr))
  BY IndexIs DEF RemoveServer
<1>2. servers' \in Seq(Server) /\ Len(servers') = Len(servers) - 1
  BY <1>1, RemovedIs DEF PoolTypeOK
<1>3. RoutesInv'
  <2> SUFFICES ASSUME NEW p \in Pattern, p \notin left_behind', matcher'[p] # <<>>
               PROVE  \E i \in 1..Len(servers') :
                         matcher'[p] = <<servers'[i].addr>> /\ servers'[i].domain = p
    BY DEF RoutesInv
  <2>1. /\ matcher' = matcher /\ p \notin left_behind
        /\ ~(matcher[p] = <<addr>> /\ servers[IndexOf(addr)].domain = p)
    BY DEF RemoveServer
  <2>2. PICK k \in 1..Len(servers) : matcher[p] = <<servers[k].addr>> /\ servers[k].domain = p
    BY <2>1 DEF RoutesInv
  <2>3. k # IndexOf(addr)
    BY <2>1, <2>2, IndexIs DEF RemoveServer
  <2>4. PICK l \in 1..Len(servers') : servers'[l] = servers[k]
    BY <1>1, <2>3, RemovedIs DEF PoolTypeOK
  <2> QED
    BY <2>1, <2>2, <2>4
<1> QED
  BY <1>2, <1>3, PoolNumbers DEF RemoveServer, PoolTypeOK

LEMMA MarkKeeps ==
    ASSUME PoolTypeOK, RoutesInv, NEW addr \in Addr, MarkFailed(addr) \/ MarkAvailable(addr)
    PROVE  PoolTypeOK' /\ RoutesInv' /\ picked' = NoPick
<1>1. IndexOf(addr) \in 1..Len(servers) /\ now \in Nat /\ servers \in Seq(Server)
  BY IndexIs DEF MarkFailed, MarkAvailable, PoolTypeOK
<1>2. servers' \in Seq(Server) /\ Len(servers') = Len(servers)
  BY <1>1, MarkedIs DEF MarkFailed, MarkAvailable
<1>3. \A i \in 1..Len(servers) :
         servers'[i].addr = servers[i].addr /\ servers'[i].domain = servers[i].domain
  <2>1. \A i \in 1..Len(servers) : servers[i] \in Server
    BY <1>1
  <2> QED
    BY <1>1, <2>1 DEF MarkFailed, MarkAvailable, Server
<1>4. matcher' = matcher /\ left_behind' = left_behind
  BY DEF MarkFailed, MarkAvailable
<1>5. RoutesInv'
  BY <1>2, <1>3, <1>4 DEF RoutesInv
<1> QED
  BY <1>2, <1>5 DEF PoolTypeOK, MarkFailed, MarkAvailable

LEMMA SelectServerKeeps ==
    ASSUME PoolTypeOK, RoutesInv, NEW name \in Name, NEW required, SelectServer(name, required)
    PROVE  PoolInv'
<1> USE DEF PoolTypeOK
<1>0. servers \in Seq(Server) /\ current_index \in Nat /\ Len(servers) \in Nat
  OBVIOUS
<1>1. UNCHANGED <<now, servers, matcher, left_behind>> /\ picked'.name = name
        /\ picked'.dnssec = required
  BY <1>0, SelectIs
<1>5. RoutesInv'
  BY <1>1 DEF RoutesInv
<1>2. CASE picked'.addr = NoAddr /\ picked'.general = {} /\ current_index' = current_index
  BY <1>1, <1>2, <1>5 DEF PoolInv, SelectedServerIsUsable, DomainServersStayPrivate, TurnInv
<1>3. CASE /\ picked'.at \in 1..Len(servers) /\ picked'.addr = servers[picked'.at].addr
           /\ Usable(servers[picked'.at], required)
           /\ picked'.general = {} /\ Follows(name, picked'.addr)
           /\ current_index' = current_index
  <2>1. SelectedServerIsUsable'
    BY <1>0, <1>1, <1>3 DEF SelectedServerIsUsable, Usable, IsAvailable
  <2>2. LongestMatch(picked.name)' = LongestMatch(name)
    BY <1>1 DEF LongestMatch, SelectInSeq
  <2>3. DomainServersStayPrivate'
    <3> SUFFICES ASSUME LongestMatch(name) \cap left_behind = {}
                 PROVE  \E i \in 1..Len(servers) :
                           /\ servers[i].addr = picked'.addr
                           /\ servers[i].domain \in {NoDomain} \cup ToSet(Chain[name])
      BY <1>0, <1>1, <2>2 DEF DomainServersStayPrivate
    <3>1. PICK p \in LongestMatch(name) : matcher[p] = <<picked'.addr>>
      BY <1>3 DEF Follows
    <3>2. p \in ToSet(Chain[name]) /\ matcher[p] # <<>>
      BY MatchIs
    <3>3. p \in Pattern
      BY <3>2, PoolNumbers DEF ToSet
    <3>4. PICK i \in 1..Len(servers) : matcher[p] = <<servers[i].addr>> /\ servers[i].domain = p
      BY <3>1, <3>2, <3>3 DEF RoutesInv
    <3> QED
      BY <3>1, <3>2, <3>4
  <2> QED
    BY <1>1, <1>3, <1>5, <2>1, <2>3 DEF PoolInv, TurnInv
<1>4. CASE /\ picked'.at \in 1..Len(servers) /\ picked'.addr = servers[picked'.at].addr
           /\ Usable(servers[picked'.at], required)
           /\ picked'.general # {} /\ picked'.general = General(required)
           /\ picked'.at \in General(required)
           /\ Rank(General(required), picked'.at)
                 = current_index % Cardinality(General(required))
           /\ current_index' = (current_index + 1) % Cardinality(General(required))
  <2> DEFINE n == Cardinality(General(required))
  <2>1. SelectedServerIsUsable'
    BY <1>0, <1>1, <1>4 DEF SelectedServerIsUsable, Usable, IsAvailable
  <2>2. DomainServersStayPrivate'
    BY <1>0, <1>1, <1>4 DEF DomainServersStayPrivate, General
  <2>3. n \in Nat \ {0} /\ n <= Len(servers) /\ IsFiniteSet(General(required))
          /\ General(required) \in SUBSET Nat
    BY <1>0, <1>4, GeneralIs
  <2> HIDE DEF n
  <2>4. /\ (current_index + 1) % n \in 0..(n - 1)
        /\ (current_index + 1) % n = ((current_index % n) + 1) % n
    <3>1. current_index + 1 \in Nat
      BY <1>0
    <3>2. (current_index + 1) % n \in 0..(n - 1)
      BY <2>3, <3>1, RemainderOfNext
    <3>3. (current_index + 1) % n = ((current_index % n) + 1) % n
      BY <1>0, <2>3, RemainderOfNext
    <3> QED
      BY <3>2, <3>3
  <2>5. TurnInv'
    BY <1>4, <2>3, <2>4 DEF TurnInv, n
  <2>6. PoolTypeOK'
    BY <1>1, <1>4, <2>3, <2>4, PoolNumbers DEF n
  <2> QED
    BY <1>5, <2>1, <2>2, <2>5, <2>6 DEF PoolInv
<1> QED
  BY <1>0, <1>2, <1>3, <1>4, SelectIs

LEMMA PoolStepKeeps == PoolInv /\ [PoolNext]_pool => PoolInv'
<1> SUFFICES ASSUME PoolInv, [PoolNext]_pool PROVE PoolInv'
  OBVIOUS
<1>1. ASSUME NEW addr \in Addr, NEW domain \in Pattern \cup {NoDomain},
             NEW dnssec_ok \in BOOLEAN, NEW loop \in BOOLEAN, AddServer(addr, domain, dnssec_ok, loop)
      PROVE  PoolInv'
  BY <1>1, AddServerKeeps, NoPickIs DEF PoolInv
<1>2. ASSUME NEW addr \in Addr, RemoveServer(addr) \/ MarkFailed(addr) \/ MarkAvailable(addr)
      PROVE  PoolInv'
  BY <1>2, RemoveServerKeeps, MarkKeeps, NoPickIs DEF PoolInv
<1>3. ASSUME NEW name \in Name, NEW required \in BOOLEAN, SelectServer(name, required)
      PROVE  PoolInv'
  BY <1>3, SelectServerKeeps DEF PoolInv
<1>4. CASE Clear
  <2>1. PoolTypeOK'
    BY <1>4, PoolNumbers DEF Clear, PoolInv, PoolTypeOK
  <2>2. RoutesInv'
    BY <1>4 DEF Clear, RoutesInv
  <2> QED
    BY <1>4, <2>1, <2>2, NoPickIs DEF Clear, PoolInv
<1>5. CASE PoolTick
  <2>1. PoolTypeOK'
    BY <1>5, PoolNumbers DEF PoolTick, PoolInv, PoolTypeOK
  <2>2. RoutesInv'
    BY <1>5 DEF PoolTick, PoolInv, RoutesInv
  <2> QED
    BY <1>5, <2>1, <2>2, NoPickIs DEF PoolTick, PoolInv
<1>6. CASE UNCHANGED pool
  <2>1. LongestMatch(picked.name)' = LongestMatch(picked.name)
    BY <1>6 DEF pool, LongestMatch, SelectInSeq
  <2> QED
    BY <1>6, <2>1
       DEF pool, PoolInv, PoolTypeOK, SelectedServerIsUsable, DomainServersStayPrivate, TurnInv,
           RoutesInv
<1> QED
  BY <1>1, <1>2, <1>3, <1>4, <1>5, <1>6 DEF PoolNext

\* The pool (select_server and the operations that change its list) is well formed:
\* what was picked is usable, private to its domain and in turn.
THEOREM PoolInvariant == PoolSpec => []PoolInv
  BY PoolInvStarts, PoolStepKeeps, PTL DEF PoolSpec

\* UpstreamPool::select_server, whatever was added, removed, cleared or failed
\* before, returns a configured server without a forwarding loop, whose cooldown is
\* over, that can do what is asked; and one that is configured for domains only
\* never for a name outside them, unless remove_server left the name's route behind.
THEOREM SelectionsAreSound == PoolSpec => []SelectionIsSound
<1>1. PoolInv => SelectionIsSound
  BY DEF PoolInv, SelectionIsSound
<1> QED
  BY <1>1, PoolInvariant, PTL

\* Two general selections in a row from the same list take its servers in turn,
\* for lists of any length and wherever current_index was left.
THEOREM SelectionsTakeTurns == PoolSpec => TakesTurns
<1>1. ASSUME PoolInv, PoolNext, picked.general # {}, picked'.general = picked.general
      PROVE  picked'.at = Following(picked.general, picked.at)
  <2> DEFINE S == picked.general
             n == Cardinality(S)
  <2>1. PICK name \in Name, required \in BOOLEAN : SelectServer(name, required)
    <3>1. picked' # NoPick
      BY <1>1 DEF NoPick
    <3> QED
      BY <1>1, <3>1 DEF PoolNext, AddServer, RemoveServer, MarkFailed, MarkAvailable, Clear, PoolTick
  <2>2. servers \in Seq(Server) /\ current_index \in Nat
    BY <1>1 DEF PoolInv, PoolTypeOK
  <2>3. picked'.at \in S /\ Rank(S, picked'.at) = current_index % n
    BY <1>1, <2>1, <2>2, SelectIs
  <2>4. /\ S \in SUBSET Nat /\ IsFiniteSet(S) /\ picked.at \in S
        /\ current_index = (Rank(S, picked.at) + 1) % n
    BY <1>1 DEF PoolInv, TurnInv
  <2>5. n \in Nat \ {0} /\ Rank(S, picked.at) + 1 \in Nat
    <3>1. n \in Nat /\ n # 0
      BY <1>1, <2>4, FS_EmptySet, FS_CardinalityType
    <3>2. Rank(S, picked.at) \in Nat
      BY <2>4, RankIs
    <3> QED
      BY <3>1, <3>2
  <2>6. Rank(S, picked'.at) = (Rank(S, picked.at) + 1) % n
    <3> HIDE DEF n
    <3> QED
      BY <2>3, <2>4, <2>5, RemainderOfNext
  <2>7. /\ Following(S, picked.at) \in S
        /\ Rank(S, Following(S, picked.at)) = (Rank(S, picked.at) + 1) % n
    BY <2>4, FollowingIs
  <2> HIDE DEF S, n
  <2>8. picked'.at = Following(S, picked.at)
    <3> DEFINE a == picked'.at
               b == Following(S, picked.at)
    <3>1. S \in SUBSET Nat /\ IsFiniteSet(S) /\ a \in S /\ b \in S /\ Rank(S, a) = Rank(S, b)
      BY <2>3, <2>4, <2>6, <2>7
    <3> HIDE DEF a, b
    <3>2. a = b
      BY <3>1, RankIsUnique
    <3> QED
      BY <3>2 DEF a, b
  <2> QED
    BY <2>8 DEF S
<1>2. PoolInv /\ [PoolNext]_pool =>
         [picked.general # {} /\ picked'.general = picked.general /\ servers' = servers
             => picked'.at = Following(picked.general, picked.at)]_pool
  BY <1>1
<1> QED
  BY <1>2, PoolInvariant, PTL DEF PoolSpec, TakesTurns

-----------------------------------------------------------------------------
(* The resolution of a query *)

Places == {"idle", "zone", "select", "sending", "waiting", "resolved", "done", "failed"}

PoolPart ==
    /\ now \in 0..MaxTime /\ servers \in Seq(Server)
    /\ current_index \in Nat /\ current_index <= Len(servers)

\* Each try was counted when it was over; a query for a name of a zone has none.
TaskIs(c) ==
    /\ tried[c] \in Seq(Addr) /\ attempts[c] \in Nat
    /\ IsInjective(tried[c]) /\ Len(tried[c]) <= MaxAttempts
    /\ pc[c] \in {"idle", "zone"} => tried[c] = <<>>
    /\ pc[c] \in {"idle", "zone", "select"} => attempts[c] = Len(tried[c])
    /\ pc[c] \in {"sending", "waiting"} => attempts[c] + 1 = Len(tried[c])
    /\ attempts[c] <= Len(tried[c])
    /\ asked[c] \in ZoneKeys => tried[c] = <<>>
    /\ pc[c] \in {"select", "sending", "waiting", "resolved"} => asked[c] \in Key \ ZoneKeys
    /\ response[c] \in Response \cup {None}
    /\ pc[c] = "resolved" =>
          response[c] \in Response /\ (StopRebind => response[c].kind # "private")
    /\ StopRebind => reply[c] # "private"

RecordIsRight(k) ==
    cache[k] # None =>
       /\ cache[k].expiry \in Nat
       /\ StopRebind => cache[k].kind # "private"
       /\ k \in ZoneKeys => cache[k].kind \notin Negative

ResolverInv ==
    /\ PoolPart
    /\ pc \in [Client -> Places]
    /\ tried = [c \in Client |-> tried[c]] /\ response = [c \in Client |-> response[c]]
    /\ DOMAIN attempts = Client /\ DOMAIN asked = Client /\ DOMAIN reply = Client
    /\ \A c \in Client : TaskIs(c)
    /\ \A k \in Key : RecordIsRight(k)

LEMMA ResolverNumbers ==
    /\ Cooldown \in Nat /\ MaxServers \in Nat /\ MaxTime \in Nat /\ MaxAttempts \in Nat
    /\ HostTtl \in Nat /\ MaxTtl \in Nat /\ NegTtl \in 0..MaxTtl
    /\ Key = Name /\ HostKeys \subseteq Key /\ ZoneKeys \subseteq Key
    /\ StopRebind \in BOOLEAN /\ None # "private"
  BY PoolAssumption, BoundsAssumption

LEMMA ResolverStarts == Init => ResolverInv
<1> SUFFICES ASSUME Init PROVE ResolverInv
  OBVIOUS
<1>1. PoolPart
  <2> DEFINE S == {[addr |-> a, domain |-> NoDomain, dnssec |-> FALSE,
                    loop |-> FALSE, lastFailed |-> Never] : a \in Addr}
  <2>1. S \subseteq Server
    <3>1. ASSUME NEW a \in Addr
          PROVE  [addr |-> a, domain |-> NoDomain, dnssec |-> FALSE,
                  loop |-> FALSE, lastFailed |-> Never] \in Server
      BY DEF Server
    <3> QED
      BY <3>1
  <2>2. servers \in [1..MaxServers -> S]
    BY DEF Init, Injection
  <2>3. servers \in Seq(Server)
    BY <2>1, <2>2, ResolverNumbers
  <2> QED
    BY <2>3, ResolverNumbers DEF Init, PoolPart
<1>2. \A c \in Client : TaskIs(c)
  BY ResolverNumbers DEF Init, TaskIs, IsInjective
<1>3. \A k \in Key : RecordIsRight(k)
  BY ResolverNumbers DEF Init, RecordIsRight, Negative
<1> QED
  BY <1>1, <1>2, <1>3 DEF Init, ResolverInv, Places

\* What is left of the invariant of a step of one task.
LEMMA TaskStep ==
    ASSUME ResolverInv, NEW c \in Client, PoolPart', NEW place \in Places, Goto(c, place),
           TaskIs(c)', \A k \in Key : RecordIsRight(k)',
           tried' = [d \in Client |-> tried'[d]], response' = [d \in Client |-> response'[d]],
           DOMAIN attempts' = Client, DOMAIN asked' = Client, DOMAIN reply' = Client,
           \A d \in Client \ {c} :
              /\ tried'[d] = tried[d] /\ attempts'[d] = attempts[d] /\ asked'[d] = asked[d]
              /\ response'[d] = response[d] /\ reply'[d] = reply[d]
    PROVE  ResolverInv'
<1>1. pc' = [pc EXCEPT ![c] = place]
  BY DEF Goto
<1>2. \A d \in Client \ {c} : pc'[d] = pc[d]
  BY <1>1 DEF ResolverInv
<1>3. \A d \in Client \ {c} : TaskIs(d)'
  BY <1>2 DEF ResolverInv, TaskIs
<1> QED
  BY <1>1, <1>3 DEF ResolverInv

LEMMA PoolStays ==
    ASSUME PoolPart, UNCHANGED pool
    PROVE  PoolPart'
  BY DEF PoolPart, pool

LEMMA RecordsStay ==
    ASSUME ResolverInv, cache' = cache
    PROVE  \A k \in Key : RecordIsRight(k)'
  BY DEF ResolverInv, RecordIsRight

\* A record that has run out is dropped.
LEMMA RecordGoes ==
    ASSUME ResolverInv, NEW k \in Key, cache' = [cache EXCEPT ![k] = None]
    PROVE  \A key \in Key : RecordIsRight(key)'
<1> SUFFICES ASSUME NEW key \in Key, cache'[key] # None
             PROVE  cache'[key] = cache[key]
  BY DEF ResolverInv, RecordIsRight
<1> QED
  OBVIOUS

LEMMA HitKeeps ==
    ASSUME ResolverInv, NEW c \in Client, NEW k \in Key, Hit(c, k)
    PROVE  ResolverInv'
<1>1. /\ pc[c] = "idle" /\ Live(k) /\ asked' = [asked EXCEPT ![c] = k]
      /\ reply' = [reply EXCEPT ![c] = cache[k].kind] /\ Goto(c, "done")
      /\ UNCHANGED pool /\ UNCHANGED <<cache, tried, attempts, response>>
  BY DEF Hit
<1>2. pc'[c] = "done" /\ asked'[c] = k /\ reply'[c] = cache[k].kind
  BY <1>1 DEF Goto, ResolverInv
<1>3. StopRebind => cache[k].kind # "private"
  BY <1>1 DEF Live, ResolverInv, RecordIsRight
<1>4. TaskIs(c)'
  BY <1>1, <1>2, <1>3 DEF ResolverInv, TaskIs
<1>5. PoolPart' /\ \A key \in Key : RecordIsRight(key)'
  BY <1>1, PoolStays, RecordsStay DEF ResolverInv
<1> QED
  BY <1>1, <1>4, <1>5, TaskStep DEF ResolverInv, Places

LEMMA MissKeeps ==
    ASSUME ResolverInv, NEW c \in Client, NEW k \in Key, Miss(c, k)
    PROVE  ResolverInv'
<1>1. /\ pc[c] = "idle" /\ asked' = [asked EXCEPT ![c] = k] /\ cache' = [cache EXCEPT ![k] = None]
      /\ Goto(c, Route(k))
      /\ UNCHANGED pool /\ UNCHANGED <<tried, attempts, response, reply>>
  BY DEF Miss
<1>2. pc'[c] = Route(k) /\ asked'[c] = k
  BY <1>1 DEF Goto, ResolverInv
<1>3. Route(k) = "zone" \/ (Route(k) = "select" /\ k \notin ZoneKeys)
  BY DEF Route
<1>4. TaskIs(c)'
  BY <1>1, <1>2, <1>3 DEF ResolverInv, TaskIs
<1>5. PoolPart' /\ \A key \in Key : RecordIsRight(key)'
  BY <1>1, PoolStays, RecordGoes DEF ResolverInv
<1> QED
  BY <1>1, <1>3, <1>4, <1>5, TaskStep DEF ResolverInv, Places

LEMMA AnswerFromZoneKeeps ==
    ASSUME ResolverInv, NEW c \in Client, AnswerFromZone(c)
    PROVE  ResolverInv'
<1> DEFINE k == asked[c]
<1>1. /\ pc[c] = "zone" /\ reply' = [reply EXCEPT ![c] = ZoneReply(k)] /\ Goto(c, "done")
      /\ UNCHANGED pool /\ UNCHANGED <<asked, tried, attempts, response>>
      /\ cache' = cache \/ cache' = [cache EXCEPT ![k] = None]
  BY DEF AnswerFromZone, local
<1>2. pc'[c] = "done" /\ reply'[c] \in {"zone_nodata", "zone_nxdomain"}
  BY <1>1 DEF Goto, ResolverInv, ZoneReply
<1>3. TaskIs(c)'
  BY <1>1, <1>2 DEF ResolverInv, TaskIs
<1>4. \A key \in Key : RecordIsRight(key)'
  <2> SUFFICES ASSUME NEW key \in Key, cache'[key] # None
               PROVE  cache'[key] = cache[key]
    BY DEF ResolverInv, RecordIsRight
  <2>1. CASE cache' = cache
    BY <2>1
  <2>2. CASE cache' = [cache EXCEPT ![k] = None]
    <3> HIDE DEF k
    <3> QED
      BY <2>2
  <2> QED
    BY <1>1, <2>1, <2>2
<1>5. PoolPart'
  BY <1>1, PoolStays DEF ResolverInv
<1> QED
  BY <1>1, <1>3, <1>4, <1>5, TaskStep DEF ResolverInv, Places

\* The server that was picked was not asked before.
LEMMA AppendedIs ==
    ASSUME NEW s \in Seq(Addr), IsInjective(s), NEW a \in Addr, a \notin ToSet(s)
    PROVE  /\ Append(s, a) \in Seq(Addr) /\ Len(Append(s, a)) = Len(s) + 1
           /\ IsInjective(Append(s, a))
<1>1. Len(s) \in Nat /\ DOMAIN s = 1..Len(s) /\ DOMAIN Append(s, a) = 1..(Len(s) + 1)
        /\ Append(s, a)[Len(s) + 1] = a /\ \A i \in 1..Len(s) : Append(s, a)[i] = s[i]
  OBVIOUS
<1>2. \A i \in 1..Len(s) : s[i] # a
  BY <1>1 DEF ToSet
<1>3. \A i, j \in 1..Len(s) : s[i] = s[j] => i = j
  BY <1>1 DEF IsInjective
<1>4. ASSUME NEW i \in 1..(Len(s) + 1), NEW j \in 1..(Len(s) + 1), Append(s, a)[i] = Append(s, a)[j]
      PROVE  i = j
  <2>1. (i \in 1..Len(s) \/ i = Len(s) + 1) /\ (j \in 1..Len(s) \/ j = Len(s) + 1)
    BY <1>1
  <2> QED
    BY <1>1, <1>2, <1>3, <1>4, <2>1
<1>5. IsInjective(Append(s, a))
  BY <1>1, <1>4 DEF IsInjective
<1> QED
  BY <1>5

LEMMA SelectKeeps ==
    ASSUME ResolverInv, NEW c \in Client, Select(c)
    PROVE  ResolverInv'
<1>1. /\ pc[c] = "select" /\ attempts[c] < MaxAttempts /\ SelectServer(asked[c], FALSE)
      /\ UNCHANGED <<cache, asked, attempts, response, reply>>
  BY DEF Select
<1>2. servers \in Seq(Server) /\ current_index \in Nat /\ Len(servers) \in Nat /\ TaskIs(c)
  BY DEF ResolverInv, PoolPart
<1>3. PoolPart'
  <2>1. UNCHANGED <<now, servers>>
    BY <1>1, <1>2, SelectIs
  <2>2. CASE current_index' = current_index
    BY <2>1, <2>2 DEF ResolverInv, PoolPart
  <2>3. CASE current_index' # current_index
    <3> DEFINE n == Cardinality(General(FALSE))
    <3>1. current_index' = (current_index + 1) % n /\ General(FALSE) # {}
      BY <1>1, <1>2, <2>3, SelectIs
    <3>2. n \in Nat \ {0} /\ n <= Len(servers)
      <4>1. n \in 0..Len(servers) /\ n # 0
        BY <1>2, <3>1, GeneralIs, Zenon
      <4> HIDE DEF n
      <4> QED
        BY <1>2, <4>1
    <3> HIDE DEF n
    <3>3. (current_index + 1) % n \in 0..(n - 1)
      BY <1>2, <3>2
    <3> QED
      BY <1>2, <2>1, <3>1, <3>2, <3>3 DEF ResolverInv, PoolPart
  <2> QED
    BY <2>2, <2>3
<1>4. CASE Skip(c, picked'.addr)
  <2>1. Goto(c, "failed") /\ tried' = tried
    BY <1>4 DEF Select
  <2>2. pc'[c] = "failed"
    BY <2>1 DEF Goto, ResolverInv
  <2>3. TaskIs(c)'
    BY <1>1, <1>2, <2>1, <2>2 DEF TaskIs
  <2> QED
    BY <1>1, <1>3, <2>1, <2>3, TaskStep, RecordsStay DEF ResolverInv, Places
<1>5. CASE ~Skip(c, picked'.addr)
  <2> DEFINE a == picked'.addr
             s == tried[c]
  <2>1. Goto(c, "sending") /\ tried' = [tried EXCEPT ![c] = Append(@, a)]
    BY <1>5 DEF Select
  <2>2. a # NoAddr /\ a \notin ToSet(s)
    BY <1>5 DEF Skip
  <2>3. a \in Addr
    <3>1. PICK i \in 1..Len(servers) : a = servers[i].addr
      BY <1>1, <1>2, <2>2, SelectIs
    <3>2. servers[i] \in Server
      BY <1>2
    <3> QED
      BY <3>1, <3>2 DEF Server
  <2>4. s \in Seq(Addr) /\ IsInjective(s) /\ Len(s) = attempts[c] /\ attempts[c] \in Nat
    BY <1>1, <1>2 DEF TaskIs
  <2>5. pc'[c] = "sending" /\ tried'[c] = Append(s, a)
    BY <2>1 DEF Goto, ResolverInv
  <2>6. /\ Append(s, a) \in Seq(Addr) /\ Len(Append(s, a)) = Len(s) + 1
        /\ IsInjective(Append(s, a))
    BY <2>2, <2>3, <2>4, AppendedIs
  <2>7. asked[c] \in Key \ ZoneKeys
    BY <1>1, <1>2 DEF TaskIs
  <2> HIDE DEF a, s
  <2>8. Len(tried'[c]) = attempts[c] + 1 /\ Len(tried'[c]) <= MaxAttempts
    BY <1>1, <2>4, <2>5, <2>6, ResolverNumbers
  <2>9. TaskIs(c)'
    BY <1>1, <1>2, <2>4, <2>5, <2>6, <2>7, <2>8 DEF TaskIs
  <2> QED
    BY <1>1, <1>3, <2>1, <2>9, TaskStep, RecordsStay DEF ResolverInv, Places
<1> QED
  BY <1>4, <1>5

\* An attempt that is over was counted, and its server marked or not.
LEMMA CountedKeeps ==
    ASSUME ResolverInv, NEW c \in Client, pc[c] \in {"sending", "waiting"}, PoolPart',
           attempts' = Attempted(c), Goto(c, "select"),
           UNCHANGED <<cache, asked, tried, response, reply>>
    PROVE  ResolverInv'
<1>1. attempts' = [attempts EXCEPT ![c] = attempts[c] + 1]
  BY DEF Attempted
<1>2. pc'[c] = "select" /\ attempts'[c] = attempts[c] + 1
  BY <1>1 DEF Goto, ResolverInv
<1>3. TaskIs(c)
  BY DEF ResolverInv
<1>4. attempts[c] \in Nat /\ attempts[c] + 1 = Len(tried[c]) /\ asked[c] \in Key \ ZoneKeys
  BY <1>3 DEF TaskIs
<1>5. TaskIs(c)'
  BY <1>2, <1>3, <1>4 DEF TaskIs
<1> QED
  BY <1>1, <1>5, TaskStep, RecordsStay DEF ResolverInv, Places

LEMMA TryNextKeeps ==
    ASSUME ResolverInv, NEW c \in Client, pc[c] \in {"sending", "waiting"}, TryNext(c)
    PROVE  ResolverInv'
<1> DEFINE addr == Last(tried[c])
<1>1. MarkFailed(addr)
  BY DEF TryNext
<1>2. IndexOf(addr) \in 1..Len(servers) /\ servers' = [servers EXCEPT ![IndexOf(addr)].lastFailed = now]
        /\ UNCHANGED <<now, current_index>>
  BY <1>1, IndexIs DEF MarkFailed
<1> HIDE DEF addr
<1>3. servers \in Seq(Server) /\ now \in Nat
  BY DEF ResolverInv, PoolPart
<1>4. servers' \in Seq(Server) /\ Len(servers') = Len(servers)
  BY <1>2, <1>3, MarkedIs
<1>5. PoolPart'
  BY <1>2, <1>4 DEF ResolverInv, PoolPart
<1> QED
  BY <1>5, CountedKeeps DEF TryNext

LEMMA BindFailsKeeps ==
    ASSUME ResolverInv, NEW c \in Client, BindFails(c)
    PROVE  ResolverInv'
  BY CountedKeeps, PoolStays DEF BindFails, ResolverInv

LEMMA SendKeeps ==
    ASSUME ResolverInv, NEW c \in Client, Send(c)
    PROVE  ResolverInv'
<1>1. /\ pc[c] = "sending" /\ Goto(c, "waiting")
      /\ UNCHANGED pool /\ UNCHANGED <<cache, asked, tried, attempts, response, reply>>
  BY DEF Send
<1>2. pc'[c] = "waiting" /\ TaskIs(c)
  BY <1>1 DEF Goto, ResolverInv
<1>3. TaskIs(c)'
  BY <1>1, <1>2 DEF TaskIs
<1> QED
  BY <1>1, <1>3, TaskStep, RecordsStay, PoolStays DEF ResolverInv, Places

LEMMA ExhaustedKeeps ==
    ASSUME ResolverInv, NEW c \in Client, Exhausted(c)
    PROVE  ResolverInv'
<1>1. /\ pc[c] = "select" /\ Goto(c, "failed")
      /\ UNCHANGED pool /\ UNCHANGED <<cache, asked, tried, attempts, response, reply>>
  BY DEF Exhausted, local
<1>2. pc'[c] = "failed" /\ TaskIs(c)
  BY <1>1 DEF Goto, ResolverInv
<1>3. TaskIs(c)'
  BY <1>1, <1>2 DEF TaskIs
<1> QED
  BY <1>1, <1>3, TaskStep, RecordsStay, PoolStays DEF ResolverInv, Places

\* What is left of a response is a response, and not a private one if those are
\* stopped.
LEMMA ReboundIs ==
    ASSUME NEW r \in Response
    PROVE  Rebound(r) \in Response /\ (StopRebind => Rebound(r).kind # "private")
<1>1. CASE StopRebind /\ r.kind = "private"
  <2>1. Rebound(r) = [kind |-> "nxdomain", keys |-> {}, ttl |-> NegTtl]
    BY <1>1 DEF Rebound
  <2> QED
    BY <2>1, ResolverNumbers DEF Response
<1>2. CASE ~(StopRebind /\ r.kind = "private")
  BY <1>2 DEF Rebound
<1> QED
  BY <1>1, <1>2

LEMMA RespondKeeps ==
    ASSUME ResolverInv, NEW c \in Client, NEW r \in Response, Respond(c, r)
    PROVE  ResolverInv'
<1>1. /\ pc[c] = "waiting" /\ Goto(c, "resolved") /\ response' = [response EXCEPT ![c] = Rebound(r)]
      /\ UNCHANGED pool /\ UNCHANGED <<cache, asked, tried, attempts, reply>>
  BY DEF Respond
<1>2. pc'[c] = "resolved" /\ response'[c] = Rebound(r) /\ TaskIs(c)
  BY <1>1 DEF Goto, ResolverInv
<1>3. TaskIs(c)'
  BY <1>1, <1>2, ReboundIs DEF TaskIs
<1> QED
  BY <1>1, <1>3, TaskStep, RecordsStay, PoolStays DEF ResolverInv, Places

LEMMA FinishKeeps ==
    ASSUME ResolverInv, NEW c \in Client, Finish(c)
    PROVE  ResolverInv'
<1> DEFINE r == response[c]
           record == [kind |-> r.kind, expiry |-> now + r.ttl]
           stored == IF r.kind \in Negative THEN {asked[c]} ELSE r.keys
<1>1. /\ pc[c] = "resolved" /\ Goto(c, "done") /\ response' = [response EXCEPT ![c] = None]
      /\ reply' = [reply EXCEPT ![c] = r.kind]
      /\ cache' = [k \in Key |-> IF k \in stored THEN record ELSE cache[k]]
      /\ UNCHANGED pool /\ UNCHANGED <<asked, tried, attempts>>
  BY DEF Finish
<1>2. pc'[c] = "done" /\ response'[c] = None /\ reply'[c] = r.kind /\ TaskIs(c)
  BY <1>1 DEF Goto, ResolverInv
<1>3. r \in Response /\ (StopRebind => r.kind # "private") /\ asked[c] \notin ZoneKeys
  BY <1>1, <1>2 DEF TaskIs
<1>4. TaskIs(c)'
  BY <1>1, <1>2, <1>3 DEF TaskIs
<1>5. r.ttl \in Nat
  BY <1>3, ResolverNumbers DEF Response
<1>6. ASSUME NEW k \in Key
      PROVE  RecordIsRight(k)'
  <2>1. CASE k \in stored
    <3>1. cache'[k] = record
      BY <1>1, <2>1
    <3>2. record.kind = r.kind /\ record.expiry = now + r.ttl /\ now + r.ttl \in Nat
      BY <1>5 DEF ResolverInv, PoolPart
    <3>3. k \in ZoneKeys => r.kind \notin Negative
      BY <1>3, <2>1
    <3> HIDE DEF r, record
    <3> QED
      BY <1>3, <3>1, <3>2, <3>3 DEF RecordIsRight
  <2>2. CASE k \notin stored
    <3>1. cache'[k] = cache[k]
      BY <1>1, <2>2
    <3> QED
      BY <3>1 DEF RecordIsRight, ResolverInv
  <2> QED
    BY <2>1, <2>2
<1> HIDE DEF r, stored
<1> QED
  BY <1>1, <1>4, <1>6, TaskStep, PoolStays DEF ResolverInv, Places

LEMMA TickKeeps ==
    ASSUME ResolverInv, Tick
    PROVE  ResolverInv'
<1>1. /\ now' = now + 1 /\ now < MaxTime /\ UNCHANGED <<servers, current_index>>
      /\ UNCHANGED <<cache, pc, asked, tried, attempts, response, reply>>
  BY DEF Tick, PoolTick, local
<1>2. PoolPart'
  BY <1>1, ResolverNumbers DEF ResolverInv, PoolPart
<1>3. \A c \in Client : TaskIs(c)'
  BY <1>1 DEF ResolverInv, TaskIs
<1> QED
  BY <1>1, <1>2, <1>3, RecordsStay DEF ResolverInv

\* Each step of a task, and of time, keeps the tasks, the pool and the cache in
\* order.
THEOREM ResolverInvariant == Spec => []ResolverInv
<1>1. ASSUME ResolverInv, Next PROVE ResolverInv'
  <2>1. ASSUME NEW c \in Client, NEW k \in Key, Hit(c, k) \/ Miss(c, k)
        PROVE  ResolverInv'
    BY <1>1, <2>1, HitKeeps, MissKeeps
  <2>2. ASSUME NEW c \in Client, Proceed(c) \/ ReceiveFails(c)
        PROVE  ResolverInv'
    BY <1>1, <2>2, SelectKeeps, ExhaustedKeeps, SendKeeps, BindFailsKeeps, TryNextKeeps,
       FinishKeeps, AnswerFromZoneKeeps DEF Proceed, ReceiveFails, SendFails, TimesOut
  <2>3. ASSUME NEW c \in Client, NEW r \in Response, Respond(c, r)
        PROVE  ResolverInv'
    BY <1>1, <2>3, RespondKeeps
  <2> QED
    BY <1>1, <2>1, <2>2, <2>3, TickKeeps DEF Next
<1>2. ASSUME ResolverInv, UNCHANGED vars PROVE ResolverInv'
  BY <1>2 DEF vars, pool, local, ResolverInv, PoolPart, TaskIs, RecordIsRight
<1> QED
  BY <1>1, <1>2, ResolverStarts, PTL DEF Spec

\* forward_query_and_wait counts the attempts of a query, never tries a server
\* twice and never more than MAX_RETRY_ATTEMPTS, whatever other tasks do to the
\* turn and the cooldowns of the pool, for any number of them.
THEOREM AttemptsStaySound == Spec => []AttemptsAreSound
<1>1. ASSUME ResolverInv PROVE AttemptsAreSound
  <2>1. AsksEachServerOnce
    BY <1>1 DEF ResolverInv, TaskIs, AsksEachServerOnce
  <2>2. \A c \in Client : attempts[c] \in 0..Len(tried[c])
    BY <1>1 DEF ResolverInv, TaskIs
  <2>3. current_index \in 0..Len(servers) /\ now \in 0..MaxTime
    BY <1>1 DEF ResolverInv, PoolPart
  <2>4. response \in [Client -> Response \cup {None}] /\ tried \in [Client -> Seq(Addr)]
    <3>1. response = [c \in Client |-> response[c]] /\ tried = [c \in Client |-> tried[c]]
      BY <1>1 DEF ResolverInv
    <3>2. \A c \in Client : response[c] \in Response \cup {None} /\ tried[c] \in Seq(Addr)
      BY <1>1 DEF ResolverInv, TaskIs
    <3> QED
      BY <3>1, <3>2
  <2>5. \A k \in Key : cache[k] # None => cache[k].expiry \in Nat
    BY <1>1 DEF ResolverInv, RecordIsRight
  <2> QED
    BY <2>1, <2>2, <2>3, <2>4, <2>5 DEF AttemptsAreSound, TypeOK
<1> QED
  BY <1>1, ResolverInvariant, PTL

\* With stop_dns_rebind an answer with a private address reaches neither a client
\* nor the cache, on no path through resolve_query.
THEOREM RebindingStaysStopped == Spec => []RebindIsStopped
<1>1. ResolverInv => RebindIsStopped
  BY DEF ResolverInv, TaskIs, RecordIsRight, RebindIsStopped
<1> QED
  BY <1>1, ResolverInvariant, PTL

\* A query for a name of an authoritative zone is not sent upstream, and no
\* negative answer from upstream is kept for the name.
THEOREM ZoneNamesAreKeptHome == Spec => []ZoneNamesStayHome
<1>1. ResolverInv => ZoneNamesStayHome
  BY ResolverNumbers DEF ResolverInv, TaskIs, RecordIsRight, ZoneNamesStayHome
<1> QED
  BY <1>1, ResolverInvariant, PTL

-----------------------------------------------------------------------------
(* The validation of a response *)

Status == {"none", "Secure", "Insecure", "Bogus", "Indeterminate"}

\* The record of a validation; a zone is whatever is left of the name.
Validation(zone) ==
    [at : {"done", "signatures", "anchor", "ds"}, sigs : Nat, covered : BOOLEAN, work : Nat,
     crypto : Nat, sig_fail : Nat, zone : {zone}, depth : Nat, status : Status]

IsValidation(c) == c \in Validation(c.zone)

\* A validation that goes on has not met a signature over a record and has not
\* reached a limit.
GoesOn(c) ==
    c.at # "done" =>
       /\ ~c.covered /\ c.status = "none"
       /\ c.work < MaxWork /\ c.crypto < MaxCrypto /\ c.depth <= MaxDepth

\* CoveredIsNotSecure and WorkIsBounded of a validation.
Bounded(c) ==
    /\ c.work <= MaxWork /\ c.crypto <= MaxCrypto /\ c.depth <= MaxDepth + 1
    /\ c.status = "Secure" => ~c.covered /\ c.work < MaxWork /\ c.depth <= MaxDepth

Sound(c) == IsValidation(c) /\ GoesOn(c) /\ Bounded(c)

DnssecInv == Sound(check)

\* The limits are numbers.
LEMMA Limits ==
    /\ {MaxWork, MaxCrypto, MaxSigFail, MaxDepth} \subseteq Nat
    /\ 0 < MaxWork /\ 0 < MaxCrypto
  BY DnssecAssumption

-----------------------------------------------------------------------------
\* What a validation counts can be counted on.
LEMMA Counts ==
    ASSUME NEW c, IsValidation(c)
    PROVE  /\ {c.work, c.crypto, c.sig_fail, c.depth, c.sigs} \subseteq Nat
           /\ {c.work + 1, c.crypto + 1, c.sig_fail + 1, c.depth + 1, c.sigs + 1} \subseteq Nat
<1>1. {c.work, c.crypto, c.sig_fail, c.depth, c.sigs} \subseteq Nat
  BY DEF IsValidation, Validation
<1> QED
  BY <1>1

\* Ending with a status other than Secure keeps the counters.
LEMMA EndsKeeps ==
    ASSUME NEW c, IsValidation(c), NEW status \in Status \ {"Secure"},
           c.work <= MaxWork, c.crypto <= MaxCrypto, c.depth <= MaxDepth + 1
    PROVE  Sound(Ends(c, status))
  BY DEF Ends, Sound, IsValidation, Validation, GoesOn, Bounded, Status

\* No validation has begun.
LEMMA NoCheckIsSound == IsValidation(NoCheck) /\ Sound(NoCheck)
  BY Limits DEF NoCheck, Sound, IsValidation, Validation, GoesOn, Bounded, Status

\* The next response.
LEMMA BeginKeepsInv == Begin => DnssecInv'
<1> SUFFICES ASSUME Begin
             PROVE  Sound(check')
  BY DEF DnssecInv
<1>1. NoCheck.work = 0 /\ NoCheck.crypto = 0 /\ NoCheck.depth = 0
  BY DEF NoCheck
<1>2. Sound(Ends(NoCheck, "Indeterminate")) /\ Sound(Ends(NoCheck, "Insecure"))
  BY <1>1, NoCheckIsSound, EndsKeeps, Limits DEF Status
<1>3. Sound([NoCheck EXCEPT !.at = "signatures"])
  <2> DEFINE b == [NoCheck EXCEPT !.at = "signatures"]
  <2>1. IsValidation(b)
    BY DEF NoCheck, IsValidation, Validation, Status
  <2>2. b.work = 0 /\ b.crypto = 0 /\ b.depth = 0 /\ ~b.covered /\ b.status = "none"
    BY DEF NoCheck
  <2> QED
    BY <2>1, <2>2, Limits DEF Sound, GoesOn, Bounded
<1> QED
  BY <1>2, <1>3 DEF Begin

\* Every end of validate_rrset is one with a status other than Secure.
LEMMA RrsetIsSound ==
    ASSUME NEW c, IsValidation(c), c.work <= MaxWork, c.crypto < MaxCrypto, c.depth <= MaxDepth
    PROVE  Sound(validate_rrset(c))
<1> DEFINE d == [c EXCEPT !.crypto = @ + 1, !.covered = TRUE]
           e == [d EXCEPT !.sig_fail = @ + 1]
<1>1. /\ IsValidation(d) /\ d.work <= MaxWork /\ d.crypto <= MaxCrypto /\ d.depth <= MaxDepth + 1
      /\ IsValidation(e) /\ e.work <= MaxWork /\ e.crypto <= MaxCrypto /\ e.depth <= MaxDepth + 1
  <2>1. IsValidation(d)
    BY Counts DEF IsValidation, Validation
  <2>2. d.work = c.work /\ d.crypto = c.crypto + 1 /\ d.depth = c.depth
    BY DEF IsValidation, Validation
  <2>3. IsValidation(e) /\ e.work = d.work /\ e.crypto = d.crypto /\ e.depth = d.depth
    <3> HIDE DEF d
    <3>1. d.sig_fail + 1 \in Nat
      BY <2>1, Counts
    <3> QED
      BY <2>1, <3>1 DEF IsValidation, Validation
  <2> HIDE DEF d, e
  <2> QED
    BY <2>1, <2>2, <2>3, Limits, Counts
<1>2. \A status \in Status \ {"Secure"} : Sound(Ends(d, status)) /\ Sound(Ends(e, status))
  <2> HIDE DEF d, e
  <2> QED
    BY <1>1, EndsKeeps
<1>3. validate_rrset(c) \in {Ends(d, "Indeterminate"), Ends(e, "Indeterminate"), Ends(e, "Bogus")}
  BY DEF validate_rrset
<1> QED
  BY <1>2, <1>3 DEF Status

\* A signature over a record ends the validation, any other leaves it going.
LEMMA SignatureKeepsInv ==
    ASSUME NEW sig \in Signature, DnssecInv, CheckSignature(sig)
    PROVE  DnssecInv'
<1> DEFINE c == [check EXCEPT !.work = @ + 1, !.sigs = @ + 1]
<1>1. check.at = "signatures" /\ Sound(check)
  BY DEF CheckSignature, DnssecInv
<1>2. /\ IsValidation(c) /\ c.work <= MaxWork /\ c.crypto < MaxCrypto /\ c.depth <= MaxDepth
      /\ c.depth <= MaxDepth + 1 /\ c.crypto <= MaxCrypto /\ c.at = "signatures"
      /\ c.work = check.work + 1 /\ ~c.covered /\ c.status = "none"
  <2>1. IsValidation(check)
    BY <1>1 DEF Sound
  <2>2. IsValidation(c)
    BY <2>1, Counts DEF IsValidation, Validation
  <2>3. /\ c.work = check.work + 1 /\ c.crypto = check.crypto /\ c.depth = check.depth
        /\ c.at = check.at /\ c.covered = check.covered /\ c.status = check.status
    BY <2>1 DEF IsValidation, Validation
  <2> HIDE DEF c
  <2> QED
    BY <1>1, <2>1, <2>2, <2>3, Limits, Counts DEF Sound, GoesOn
<1>3. CASE Spent(check.work, MaxWork)
  <2>1. check' = Ends(c, "Indeterminate")
    BY <1>3 DEF CheckSignature
  <2>2. Sound(Ends(c, "Indeterminate"))
    <3> HIDE DEF c
    <3> QED
      BY <1>2, EndsKeeps DEF Status
  <2> QED
    BY <2>1, <2>2 DEF DnssecInv
<1>4. CASE ~Spent(check.work, MaxWork)
  <2>1. check' = Judged(c, sig)
    BY <1>4 DEF CheckSignature
  <2>2. Sound(validate_rrset(c))
    <3> HIDE DEF c
    <3> QED
      BY <1>2, RrsetIsSound
  <2>3. c.work < MaxWork
    <3> HIDE DEF c
    <3> QED
      BY <1>1, <1>2, <1>4, Limits, Counts DEF Spent, Sound
  <2>4. Sound(c) /\ Sound([c EXCEPT !.sig_fail = @ + 1])
    <3> HIDE DEF c
    <3> DEFINE d == [c EXCEPT !.sig_fail = @ + 1]
    <3>1. IsValidation(d)
      BY <1>2, Counts DEF IsValidation, Validation
    <3>2. /\ d.work = c.work /\ d.crypto = c.crypto /\ d.depth = c.depth
          /\ d.covered = c.covered /\ d.status = c.status
      BY <1>2 DEF IsValidation, Validation
    <3> HIDE DEF d
    <3>3. Sound(c)
      BY <1>2, <2>3 DEF Sound, GoesOn, Bounded
    <3>4. Sound(d)
      BY <1>2, <2>3, <3>1, <3>2 DEF Sound, GoesOn, Bounded
    <3> QED
      BY <3>3, <3>4 DEF d
  <2>5. Judged(c, sig) \in {c, [c EXCEPT !.sig_fail = @ + 1], validate_rrset(c)}
    BY DEF Judged, Signature
  <2> HIDE DEF c
  <2> QED
    BY <2>1, <2>2, <2>4, <2>5 DEF DnssecInv
<1> QED
  BY <1>3, <1>4

\* The walk starts where the loop over the signatures was left.
LEMMA StartWalkKeepsInv == DnssecInv /\ StartWalk => DnssecInv'
  BY Limits DEF StartWalk, DnssecInv, Sound, IsValidation, Validation, GoesOn, Bounded

\* A zone of the walk: secure only while work and depth last.
LEMMA AnchorKeepsInv ==
    ASSUME NEW has_key \in BOOLEAN, DnssecInv, AtAnchor(has_key)
    PROVE  DnssecInv'
<1> DEFINE c == [check EXCEPT !.depth = @ + 1]
           d == [c EXCEPT !.work = @ + 1]
<1>1. check.at = "anchor" /\ Sound(check)
  BY DEF AtAnchor, DnssecInv
<1>2. /\ IsValidation(c) /\ c.work <= MaxWork /\ c.crypto <= MaxCrypto /\ c.depth <= MaxDepth + 1
      /\ IsValidation(d) /\ d.work <= MaxWork /\ d.crypto <= MaxCrypto /\ d.depth <= MaxDepth + 1
      /\ c.depth = check.depth + 1 /\ d.depth = c.depth /\ d.work = check.work + 1
      /\ d.crypto < MaxCrypto /\ ~d.covered /\ d.status = "none"
  <2>1. IsValidation(check)
    BY <1>1 DEF Sound
  <2>2. IsValidation(c)
    BY <2>1, Counts DEF IsValidation, Validation
  <2>3. /\ c.work = check.work /\ c.crypto = check.crypto /\ c.depth = check.depth + 1
        /\ c.covered = check.covered /\ c.status = check.status
    BY <2>1 DEF IsValidation, Validation
  <2>4. IsValidation(d)
    <3> HIDE DEF c
    <3>1. c.work + 1 \in Nat
      BY <2>2, Counts
    <3> QED
      BY <2>2, <3>1 DEF IsValidation, Validation
  <2>5. /\ d.work = c.work + 1 /\ d.crypto = c.crypto /\ d.depth = c.depth
        /\ d.covered = c.covered /\ d.status = c.status
    <3> HIDE DEF c
    <3> QED
      BY <2>2 DEF IsValidation, Validation
  <2> HIDE DEF c, d
  <2> QED
    BY <1>1, <2>1, <2>2, <2>3, <2>4, <2>5, Limits, Counts DEF Sound, GoesOn
<1>3. Sound(Ends(c, "Bogus")) /\ Sound(Ends(d, "Bogus"))
  <2> HIDE DEF c, d
  <2> QED
    BY <1>2, EndsKeeps DEF Status
<1>4. CASE c.depth > MaxDepth \/ Spent(check.work, MaxWork)
  BY <1>3, <1>4 DEF AtAnchor, DnssecInv
<1>5. CASE ~(c.depth > MaxDepth) /\ ~Spent(check.work, MaxWork)
  <2>1. d.depth <= MaxDepth /\ d.work < MaxWork /\ ~d.covered /\ d.crypto < MaxCrypto
        /\ d.status = "none"
    <3> HIDE DEF c, d
    <3> QED
      BY <1>1, <1>2, <1>5, Limits, Counts DEF Sound, Spent
  <2>2. Sound(Ends(d, "Secure"))
    <3> HIDE DEF d
    <3> QED
      BY <1>2, <2>1, Limits DEF Ends, Sound, IsValidation, Validation, GoesOn, Bounded, Status
  <2>3. Sound([d EXCEPT !.at = "ds", !.zone = Tail(@)])
    <3> HIDE DEF d
    <3> QED
      BY <1>2, <2>1, Limits DEF Sound, IsValidation, Validation, GoesOn, Bounded
  <2>4. check' \in {Ends(d, "Secure"), Ends(d, "Bogus"), [d EXCEPT !.at = "ds", !.zone = Tail(@)]}
    BY <1>5 DEF AtAnchor
  <2> HIDE DEF c, d
  <2> QED
    BY <1>3, <2>2, <2>3, <2>4 DEF DnssecInv
<1> QED
  BY <1>4, <1>5

\* The DS records of the zone above.
LEMMA DsKeepsInv == DnssecInv /\ AtDs => DnssecInv'
<1> SUFFICES ASSUME DnssecInv, AtDs
             PROVE  Sound(check')
  BY DEF DnssecInv
<1> DEFINE c == [check EXCEPT !.crypto = @ + 1]
<1>1. check.at = "ds" /\ Sound(check)
  BY DEF AtDs, DnssecInv
<1>2. Sound([check EXCEPT !.at = "anchor"])
  BY <1>1 DEF Sound, IsValidation, Validation, GoesOn, Bounded
<1>3. /\ IsValidation(check) /\ check.work <= MaxWork /\ check.crypto <= MaxCrypto
      /\ check.depth <= MaxDepth + 1
      /\ IsValidation(c) /\ c.work <= MaxWork /\ c.crypto <= MaxCrypto /\ c.depth <= MaxDepth + 1
  BY <1>1, Limits DEF Sound, IsValidation, Validation, GoesOn, Bounded
<1>4. Sound(Ends(check, "Bogus")) /\ Sound(Ends(c, "Bogus"))
  <2> HIDE DEF c
  <2> QED
    BY <1>3, EndsKeeps DEF Status
<1>5. ~Spent(check.crypto, MaxCrypto) => Sound([c EXCEPT !.at = "anchor"])
  <2> DEFINE d == [c EXCEPT !.at = "anchor"]
  <2>1. c.crypto = check.crypto + 1 /\ c.work = check.work /\ c.depth = check.depth
        /\ c.covered = check.covered /\ c.status = check.status
    BY <1>3 DEF IsValidation, Validation
  <2> HIDE DEF c
  <2>2. IsValidation(d)
    BY <1>3 DEF IsValidation, Validation
  <2>3. /\ d.crypto = c.crypto /\ d.work = c.work /\ d.depth = c.depth
        /\ d.covered = c.covered /\ d.status = c.status
    BY <1>3 DEF IsValidation, Validation
  <2> HIDE DEF d
  <2>4. ~Spent(check.crypto, MaxCrypto) => Sound(d)
    BY <1>1, <1>3, <2>1, <2>2, <2>3, Limits, Counts DEF Sound, GoesOn, Bounded, Spent
  <2> QED
    BY <2>4 DEF d
<1> HIDE DEF c
<1> QED
  BY <1>2, <1>4, <1>5 DEF AtDs, c

\* The invariant holds in every reachable state; the anchors, the cache, the clock
\* and the zone are not in it.
THEOREM DnssecInvariant == DnssecSpec => []DnssecInv
<1>1. DnssecInv /\ [DnssecNext]_dnssec => DnssecInv'
  <2> SUFFICES ASSUME DnssecInv, [DnssecNext]_dnssec
               PROVE  DnssecInv'
    OBVIOUS
  <2>1. ASSUME check' = check PROVE DnssecInv'
    BY <2>1 DEF DnssecInv
  <2>2. CASE Walk
    <3>1. ASSUME NEW a, add_anchor(a) \/ remove_anchor(a) \/ clear_anchors
          PROVE  check' = check
      BY <3>1 DEF add_anchor, remove_anchor, clear_anchors
    <3>2. ASSUME NEW zone, DsComesOrGoes(zone)
          PROVE  check' = check
      BY <3>2 DEF DsComesOrGoes
    <3> QED
      BY <2>1, <2>2, <3>1, <3>2, BeginKeepsInv, StartWalkKeepsInv, DsKeepsInv, SignatureKeepsInv,
         AnchorKeepsInv DEF Walk
  <2>3. CASE SecondPasses /\ UNCHANGED <<walk, nsec_owners>>
    BY <2>1, <2>3 DEF walk
  <2>4. CASE (\E name \in 0..MaxPoint : ZoneGrows(name)) /\ UNCHANGED <<walk, sig_clock>>
    BY <2>1, <2>4 DEF walk
  <2>5. CASE UNCHANGED dnssec
    BY <2>1, <2>5 DEF dnssec, walk
  <2> QED
    BY <2>2, <2>3, <2>4, <2>5 DEF DnssecNext
<1>2. DnssecInit => DnssecInv
  BY NoCheckIsSound DEF DnssecInit, Fresh, DnssecInv
<1> QED
  BY <1>1, <1>2, PTL DEF DnssecSpec

-----------------------------------------------------------------------------
(* Times and spans *)

\* Numbers up to three times a modulus.
LEMMA ModIs ==
    ASSUME NEW n \in Nat \ {0}, NEW a \in Nat
    PROVE  /\ a < n => a % n = a
           /\ n <= a /\ a < 2 * n => a % n = a - n
           /\ 2 * n <= a /\ a < 3 * n => a % n = a - 2 * n
<1>1. CASE a < n
  BY <1>1
<1>2. CASE n <= a /\ a < 2 * n
  <2>1. a - n \in 0..(n - 1) /\ a = n * 1 + (a - n)
    BY <1>2
  <2> QED
    BY <1>2, <2>1, Remainder
<1>3. CASE 2 * n <= a /\ a < 3 * n
  <2>1. a - 2 * n \in 0..(n - 1) /\ a = n * 2 + (a - 2 * n)
    BY <1>3
  <2> QED
    BY <1>3, <2>1, Remainder
<1> QED
  BY <1>1, <1>2, <1>3

\* A number past a modulus once, when what is left of it is known.
LEMMA ModOnce ==
    ASSUME NEW n \in Nat \ {0}, NEW a \in Nat, NEW b \in Nat, b < n, a = n + b
    PROVE  a % n = b
<1>1. a = n * 1 + b /\ b \in 0..(n - 1)
  OBVIOUS
<1> QED
  BY <1>1, Remainder

LEMMA TimesAreAlwaysRight == sig_clock \in Nat => TimesAreRight
<1> SUFFICES ASSUME sig_clock \in Nat, NEW start \in 0..(Serial - 1),
                    NEW len \in 1..(Serial \div 2 - 1), sig_clock < Serial,
                    start <= sig_clock + Serial \div 2, sig_clock < start + Serial \div 2
             PROVE  validate_rrsig_timing(start, (start + len) % Serial)
                       <=> start <= sig_clock /\ sig_clock < start + len
  BY DEF TimesAreRight
<1> DEFINE t == sig_clock
           half == Serial \div 2
           end == (start + len) % Serial
<1>0. Serial \in Nat \ {0} /\ half \in Nat /\ 2 * half <= Serial /\ Serial <= 2 * half + 1
  BY DnssecAssumption, SMTT(30)
<1>1. validate_rrsig_timing(start, end)
         <=> (t + Serial - start) % Serial < half /\ ~((t + Serial - end) % Serial < half)
  BY DEF validate_rrsig_timing, NotBefore
<1>2. t \in Nat /\ t < Serial /\ start \in Nat /\ start < Serial /\ len \in Nat
        /\ 0 < len /\ len < half /\ start <= t + half /\ t < start + half
  BY <1>0
<1> HIDE DEF t, half
<1>3. (t + Serial - start) % Serial < half <=> start <= t
  <2>1. CASE start <= t
    <3>1. /\ t + Serial - start \in Nat /\ t - start \in Nat /\ t - start < Serial
          /\ t + Serial - start = Serial + (t - start)
      BY <1>0, <1>2, <2>1
    <3>2. (t + Serial - start) % Serial = t - start
      BY <1>0, <3>1, ModOnce
    <3> QED
      BY <1>0, <1>2, <2>1, <3>2
  <2>2. CASE t < start
    <3>1. t + Serial - start \in Nat /\ t + Serial - start < Serial
      BY <1>0, <1>2, <2>2
    <3>2. (t + Serial - start) % Serial = t + Serial - start
      BY <1>0, <3>1, ModIs
    <3> QED
      BY <1>0, <1>2, <2>2, <3>2
  <2> QED
    BY <1>2, <2>1, <2>2
<1>4. ASSUME start <= t
      PROVE  (t + Serial - end) % Serial < half <=> ~(t < start + len)
  <2>1. CASE start + len < Serial
    <3>0. start + len \in Nat
      BY <1>2
    <3>1. end = start + len
      BY <1>0, <2>1, <3>0, ModIs
    <3> HIDE DEF end
    <3>2. CASE t < start + len
      <4>1. t + Serial - end \in Nat /\ t + Serial - end < Serial
        BY <1>0, <1>2, <2>1, <3>1, <3>2
      <4>2. (t + Serial - end) % Serial = t + Serial - end
        BY <1>0, <4>1, ModIs
      <4> QED
        BY <1>0, <1>2, <1>4, <3>1, <3>2, <4>2
    <3>3. CASE ~(t < start + len)
      <4>1. /\ t + Serial - end \in Nat /\ t - end \in Nat /\ t - end < Serial
            /\ t + Serial - end = Serial + (t - end)
        BY <1>0, <1>2, <2>1, <3>1, <3>3
      <4>2. (t + Serial - end) % Serial = t - end
        BY <1>0, <4>1, ModOnce
      <4> QED
        BY <1>0, <1>2, <3>1, <3>3, <4>2
    <3> QED
      BY <3>2, <3>3
  <2>2. CASE Serial <= start + len
    <3>0. /\ start + len \in Nat /\ start + len - Serial \in Nat /\ start + len - Serial < Serial
          /\ start + len = Serial + (start + len - Serial)
      BY <1>0, <1>2, <2>2
    <3>1. end = start + len - Serial
      BY <1>0, <3>0, ModOnce
    <3> HIDE DEF end
    <3>2. /\ t + Serial - end \in Nat /\ t - end \in Nat /\ t - end < Serial
          /\ t + Serial - end = Serial + (t - end)
      BY <1>0, <1>2, <1>4, <2>2, <3>1
    <3>3. (t + Serial - end) % Serial = t - end
      BY <1>0, <3>2, ModOnce
    <3> QED
      BY <1>0, <1>2, <1>4, <2>2, <3>1, <3>3
  <2> QED
    BY <1>0, <1>2, <2>1, <2>2
<1> QED
  BY <1>1, <1>2, <1>3, <1>4 DEF t, half

LEMMA HasGreatest ==
    ASSUME NEW n \in Nat, NEW S \in SUBSET (0..n), S # {}
    PROVE  \E x \in S : \A y \in S : y <= x
<1> DEFINE T == {n - x : x \in S}
<1>1. T \in SUBSET Nat /\ T # {}
  <2>1. ASSUME NEW x \in S
        PROVE  n - x \in Nat
    OBVIOUS
  <2> QED
    BY <2>1
<1>2. PICK t \in T : \A other \in T : t <= other
  <2> HIDE DEF T
  <2> QED
    BY <1>1, HasLeast
<1>3. PICK x \in S : t = n - x
  BY <1>2
<1>4. ASSUME NEW y \in S
      PROVE  y <= x
  <2>1. n - y \in T
    OBVIOUS
  <2>2. n - x <= n - y
    BY <1>2, <1>3, <2>1
  <2> QED
    BY <2>2
<1> QED
  BY <1>4

LEMMA SuccessorIs ==
    ASSUME nsec_owners \in SUBSET (0..MaxPoint), NEW o \in nsec_owners
    PROVE  LET next == Successor(o, HashOrder)
           IN  /\ next \in nsec_owners
               /\ \/ next > o /\ \A other \in nsec_owners : other > o => next <= other
                  \/ /\ \A other \in nsec_owners : other <= o
                     /\ next <= o /\ \A other \in nsec_owners : next <= other
<1> DEFINE later == {other \in nsec_owners : other > o}
           from == IF later = {} THEN nsec_owners ELSE later
           next == Successor(o, HashOrder)
<1>0. nsec_owners \in SUBSET Nat /\ \A p \in nsec_owners : HashOrder[p] = p
  BY DnssecAssumption DEF HashOrder
<1>1. from \in SUBSET Nat /\ from # {} /\ from \subseteq nsec_owners
  BY <1>0
<1>2. next = CHOOSE m \in from : \A other \in from : m <= other
  <2>1. {other \in nsec_owners : HashOrder[other] > HashOrder[o]} = later
    BY <1>0
  <2>2. next = CHOOSE m \in from : \A other \in from : HashOrder[m] <= HashOrder[other]
    BY <2>1, Zenon DEF Successor
  <2>3. \A m \in from : (\A other \in from : HashOrder[m] <= HashOrder[other])
                             <=> \A other \in from : m <= other
    <3> HIDE DEF from
    <3> QED
      BY <1>0, <1>1
  <2> HIDE DEF from, next
  <2> QED
    BY <2>2, <2>3
<1> HIDE DEF next
<1>3. next \in from /\ \A other \in from : next <= other
  <2> HIDE DEF from
  <2> QED
    BY <1>1, <1>2, HasLeast
<1>4. \/ next > o /\ \A other \in nsec_owners : other > o => next <= other
      \/ /\ \A other \in nsec_owners : other <= o
         /\ next <= o /\ \A other \in nsec_owners : next <= other
  <2>1. CASE later = {}
    <3>1. \A other \in nsec_owners : other <= o
      BY <1>0, <2>1
    <3> QED
      BY <1>3, <2>1, <3>1
  <2>2. CASE later # {}
    BY <1>3, <2>2
  <2> QED
    BY <2>1, <2>2
<1> QED
  BY <1>1, <1>3, <1>4 DEF next

\* The owner whose span a hash is in: the last one up to the hash, or the last.
LEMMA HashesAlwaysHaveOneSpan == nsec_owners \in SUBSET (0..MaxPoint) => HashesHaveOneSpan
<1> SUFFICES ASSUME nsec_owners \in SUBSET (0..MaxPoint), nsec_owners # {}, NEW hash \in 0..MaxPoint
             PROVE  \E owner \in nsec_owners : \A o \in nsec_owners :
                       InSpan(o, Successor(o, HashOrder), hash) <=> o = owner
  BY DEF HashesHaveOneSpan
<1> DEFINE below == {o \in nsec_owners : o <= hash}
<1>0. MaxPoint \in Nat /\ hash \in Nat /\ nsec_owners \in SUBSET Nat
  BY DnssecAssumption
<1>1. CASE below # {}
  <2>1. PICK owner \in below : \A o \in below : o <= owner
    BY <1>0, <1>1, HasGreatest
  <2>2. owner \in nsec_owners /\ owner <= hash /\ \A o \in nsec_owners : o <= hash => o <= owner
    BY <2>1
  <2>3. ASSUME NEW o \in nsec_owners
        PROVE  InSpan(o, Successor(o, HashOrder), hash) <=> o = owner
    <3> DEFINE next == Successor(o, HashOrder)
    <3>1. o \in Nat /\ owner \in Nat /\ next \in nsec_owners /\ next \in Nat
      BY <1>0, <2>2, SuccessorIs
    <3>2. CASE next > o /\ \A other \in nsec_owners : other > o => next <= other
      <4> HIDE DEF next
      <4>1. InSpan(o, next, hash) <=> o <= hash /\ hash < next
        BY <3>1, <3>2 DEF InSpan
      <4>2. o <= hash => o <= owner
        BY <2>2
      <4>3. next <= hash => next <= owner
        BY <2>2, <3>1
      <4>4. o < owner => next <= owner
        BY <2>2, <3>2
      <4> QED
        BY <1>0, <2>2, <3>1, <3>2, <4>1, <4>2, <4>3, <4>4 DEF next
    <3>3. CASE /\ \A other \in nsec_owners : other <= o
               /\ next <= o /\ \A other \in nsec_owners : next <= other
      <4> HIDE DEF next
      <4>1. InSpan(o, next, hash) <=> o <= hash \/ hash < next
        BY <3>1, <3>3 DEF InSpan
      <4>2. owner <= o /\ next <= owner /\ (o <= hash => o <= owner)
        BY <2>2, <3>3
      <4> QED
        BY <1>0, <2>2, <3>1, <4>1, <4>2 DEF next
    <3> HIDE DEF next
    <3> QED
      BY <1>0, <3>2, <3>3, SuccessorIs DEF next
  <2> QED
    BY <2>2, <2>3
<1>2. CASE below = {}
  <2>1. PICK owner \in nsec_owners : \A o \in nsec_owners : o <= owner
    BY <1>0, HasGreatest
  <2>2. \A o \in nsec_owners : ~(o <= hash)
    BY <1>2
  <2>3. ASSUME NEW o \in nsec_owners
        PROVE  InSpan(o, Successor(o, HashOrder), hash) <=> o = owner
    <3> DEFINE next == Successor(o, HashOrder)
    <3>1. o \in Nat /\ owner \in Nat /\ next \in nsec_owners /\ next \in Nat
      BY <1>0, <2>1, SuccessorIs
    <3>2. ~(o <= hash) /\ ~(next <= hash) /\ o <= owner /\ next <= owner
      BY <2>1, <2>2, <3>1
    <3>3. CASE next > o
      <4> HIDE DEF next
      <4>1. InSpan(o, next, hash) <=> o <= hash /\ hash < next
        BY <3>1, <3>3 DEF InSpan
      <4> QED
        BY <3>1, <3>2, <3>3, <4>1 DEF next
    <3>4. CASE next <= o /\ \A other \in nsec_owners : other <= o
      <4> HIDE DEF next
      <4>1. InSpan(o, next, hash) <=> o <= hash \/ hash < next
        BY <3>1, <3>4 DEF InSpan
      <4>2. owner <= o
        BY <3>4
      <4> QED
        BY <1>0, <3>1, <3>2, <4>1, <4>2 DEF next
    <3> HIDE DEF next
    <3> QED
      BY <1>0, <3>3, <3>4, SuccessorIs DEF next
  <2> QED
    BY <2>3
<1> QED
  BY <1>1, <1>2

\* Whatever the order of a chain, what follows an owner in it is an owner.
LEMMA SuccessorIsOwner ==
    ASSUME nsec_owners \in SUBSET (0..MaxPoint), NEW o \in nsec_owners
    PROVE  Successor(o, Canonical) \in nsec_owners
<1> DEFINE later == {other \in nsec_owners : Canonical[other] > Canonical[o]}
           from == IF later = {} THEN nsec_owners ELSE later
           places == {Canonical[p] : p \in from}
<1>1. from # {} /\ from \subseteq nsec_owners
  OBVIOUS
<1>2. Successor(o, Canonical) = CHOOSE m \in from : \A other \in from : Canonical[m] <= Canonical[other]
  BY Zenon DEF Successor
<1> HIDE DEF from
<1>3. places \in SUBSET Nat /\ places # {}
  BY <1>1, DnssecAssumption
<1>4. \E least \in places : \A place \in places : least <= place
  <2> HIDE DEF places
  <2> QED
    BY <1>3, HasLeast
<1>5. \E m \in from : \A other \in from : Canonical[m] <= Canonical[other]
  BY <1>4
<1> QED
  BY <1>1, <1>2, <1>5

\* The last owner up to the name covers it, or the last of all if there is none.
LEMMA NamesAlwaysHaveASpan == nsec_owners \in SUBSET (0..MaxPoint) => NamesHaveASpan
<1> SUFFICES ASSUME nsec_owners \in SUBSET (0..MaxPoint), nsec_owners # {}, NEW name \in 0..MaxPoint
             PROVE  \E owner \in nsec_owners : InSpan(owner, Successor(owner, Canonical), name)
  BY DEF NamesHaveASpan
<1> DEFINE below == {o \in nsec_owners : o <= name}
           next(o) == Successor(o, Canonical)
<1>0. /\ MaxPoint \in Nat /\ name \in Nat /\ nsec_owners \in SUBSET Nat
      /\ \A o \in nsec_owners : next(o) \in nsec_owners
  BY SuccessorIsOwner, DnssecAssumption
<1> HIDE DEF next
<1>1. CASE below # {}
  <2>1. PICK owner \in below : \A o \in below : o <= owner
    BY <1>0, <1>1, HasGreatest
  <2>2. owner \in nsec_owners /\ owner <= name /\ next(owner) \in nsec_owners
    BY <1>0, <2>1
  <2>3. next(owner) <= name => next(owner) <= owner
    BY <2>1, <2>2
  <2>4. InSpan(owner, next(owner), name)
    <3>1. owner \in Nat /\ next(owner) \in Nat
      BY <1>0, <2>2
    <3> QED
      BY <1>0, <2>2, <2>3, <3>1 DEF InSpan
  <2> QED
    BY <2>2, <2>4 DEF next
<1>2. CASE below = {}
  <2>1. PICK owner \in nsec_owners : \A o \in nsec_owners : o <= owner
    BY <1>0, HasGreatest
  <2>2. next(owner) <= owner /\ ~(next(owner) <= name)
    BY <1>0, <1>2, <2>1
  <2>3. InSpan(owner, next(owner), name)
    <3>1. owner \in Nat /\ next(owner) \in Nat
      BY <1>0
    <3> QED
      BY <1>0, <2>2, <3>1 DEF InSpan
  <2> QED
    BY <2>3 DEF next
<1> QED
  BY <1>1, <1>2

\* The validation of a response (validate_response) stays within its limits, for every
\* value of them, and calls no response secure that has a signature over one of its
\* records; a signature is timely exactly between its inception and its expiration
\* (validate_rrsig_timing), for any number of serial numbers; and for any zone every
\* hash is in the span of exactly one NSEC3 record, every name of one NSEC record at
\* least, whatever the canonical order is.
THEOREM ValidationStaysSound == DnssecSpec => []ValidationIsSound
<1> DEFINE Numbers == sig_clock \in Nat /\ nsec_owners \in SUBSET (0..MaxPoint)
<1>1. DnssecInit => Numbers
  BY DEF DnssecInit
<1>2. Numbers /\ [DnssecNext]_dnssec => Numbers'
  <2> SUFFICES ASSUME Numbers, [DnssecNext]_dnssec
               PROVE  Numbers'
    OBVIOUS
  <2>1. CASE UNCHANGED <<sig_clock, nsec_owners>>
    BY <2>1
  <2>2. CASE SecondPasses /\ UNCHANGED <<walk, nsec_owners>>
    BY <2>2 DEF SecondPasses
  <2>3. CASE (\E name \in 0..MaxPoint : ZoneGrows(name)) /\ UNCHANGED <<walk, sig_clock>>
    BY <2>3 DEF ZoneGrows
  <2> QED
    BY <2>1, <2>2, <2>3 DEF DnssecNext, dnssec
<1>3. DnssecInv /\ Numbers => ValidationIsSound
  BY TimesAreAlwaysRight, HashesAlwaysHaveOneSpan, NamesAlwaysHaveASpan
     DEF DnssecInv, Sound, Bounded, CoveredIsNotSecure, WorkIsBounded, ValidationIsSound
<1> HIDE DEF Numbers
<1> QED
  BY <1>1, <1>2, <1>3, DnssecInvariant, PTL DEF DnssecSpec

-----------------------------------------------------------------------------
(* Names and their tails (DomainMatcher) *)

Label == (DOMAIN LabelSize) \cup {Wildcard}

\* The tables of the matcher and of the zones hold names.
RoutesTypes ==
    /\ patterns \subseteq Seq(Label) \ {<<>>}
    /\ zones \in Seq(Seq(DOMAIN LabelSize) \ {<<>>})

LEMMA NamesAre ==
    /\ Query \subseteq Seq(Label)
    /\ Patterns \subseteq Seq(Label) \ {<<>>}
    /\ Zones \subseteq Seq(DOMAIN LabelSize) \ {<<>>}
<1>1. \A s \in Seq(DOMAIN LabelSize) : s \in Seq(Label)
  BY TheoremsOf!SeqMonotonic DEF Label
<1> QED
  BY <1>1, NameAssumption

LEMMA FromIs ==
    ASSUME NEW S, NEW name \in Seq(S), NEW i \in 1..(Len(name) + 1)
    PROVE  /\ From(name, i) \in Seq(S)
           /\ Len(From(name, i)) = Len(name) - i + 1
           /\ \A j \in 1..(Len(name) - i + 1) : From(name, i)[j] = name[i + j - 1]
<1>1. Len(name) \in Nat /\ i \in Int /\ \A j \in i..Len(name) : name[j] \in S
  OBVIOUS
<1>2. /\ SubSeq(name, i, Len(name)) \in Seq(S)
      /\ Len(SubSeq(name, i, Len(name))) = IF i <= Len(name) THEN Len(name) - i + 1 ELSE 0
      /\ \A j \in 1..(Len(name) - i + 1) : SubSeq(name, i, Len(name))[j] = name[i + j - 1]
  BY <1>1, TheoremsOf!SubSeqProperties
<1> QED
  BY <1>1, <1>2 DEF From

\* A name that is as long as a tail and agrees with it is that tail.
LEMMA IsFrom ==
    ASSUME NEW S, NEW name \in Seq(S), NEW t \in Seq(S), NEW i \in 1..(Len(name) + 1),
           Len(t) = Len(name) - i + 1, \A j \in 1..Len(t) : t[j] = name[i + j - 1]
    PROVE  t = From(name, i)
<1>1. /\ From(name, i) \in Seq(S) /\ Len(From(name, i)) = Len(t)
      /\ \A j \in 1..Len(t) : t[j] = From(name, i)[j]
  BY FromIs
<1> QED
  BY <1>1, TheoremsOf!SeqEqual

LEMMA WholeIsFrom ==
    ASSUME NEW S, NEW name \in Seq(S)
    PROVE  From(name, 1) = name
<1>1. 1 \in 1..(Len(name) + 1) /\ Len(name) = Len(name) - 1 + 1
      /\ \A j \in 1..Len(name) : name[j] = name[1 + j - 1]
  OBVIOUS
<1> QED
  BY <1>1, IsFrom

LEMMA TailOfFrom ==
    ASSUME NEW S, NEW name \in Seq(S), NEW i \in 1..(Len(name) + 1),
           NEW j \in i..(Len(name) + 1)
    PROVE  From(name, j) = From(From(name, i), j - i + 1)
<1> DEFINE t == From(name, i)
           u == From(name, j)
<1>1. j \in 1..(Len(name) + 1) /\ Len(name) \in Nat /\ i \in Nat /\ j \in Nat
  OBVIOUS
<1>2. /\ t \in Seq(S) /\ Len(t) = Len(name) - i + 1
      /\ \A k \in 1..(Len(name) - i + 1) : t[k] = name[i + k - 1]
  BY FromIs
<1>3. /\ u \in Seq(S) /\ Len(u) = Len(name) - j + 1
      /\ \A k \in 1..(Len(name) - j + 1) : u[k] = name[j + k - 1]
  BY <1>1, FromIs
<1> HIDE DEF t, u
<1>4. j - i + 1 \in 1..(Len(t) + 1) /\ Len(u) = Len(t) - (j - i + 1) + 1
  BY <1>1, <1>2, <1>3
<1>5. ASSUME NEW k \in 1..Len(u) PROVE u[k] = t[(j - i + 1) + k - 1]
  <2>1. k \in 1..(Len(name) - j + 1) /\ (j - i + k) \in 1..(Len(name) - i + 1)
    BY <1>1, <1>3
  <2>2. u[k] = name[j + k - 1] /\ t[j - i + k] = name[i + (j - i + k) - 1]
    BY <1>2, <1>3, <2>1
  <2>3. i + (j - i + k) - 1 = j + k - 1 /\ (j - i + 1) + k - 1 = j - i + k
    BY <1>1, <2>1
  <2> QED
    BY <2>2, <2>3
<1>6. u = From(t, j - i + 1)
  <2> DEFINE d == j - i + 1
  <2>1. /\ d \in 1..(Len(t) + 1) /\ Len(u) = Len(t) - d + 1
        /\ \A k \in 1..Len(u) : u[k] = t[d + k - 1]
    BY <1>4, <1>5
  <2> HIDE DEF d
  <2>2. u = From(t, d)
    BY <1>2, <1>3, <2>1, IsFrom
  <2> QED
    BY <2>2 DEF d
<1> QED
  BY <1>6 DEF t, u

\* To be below a name is to have it as a tail.
LEMMA SubdomainIs ==
    ASSUME NEW S, NEW name \in Seq(S), NEW parent \in Seq(S)
    PROVE  is_subdomain_of(name, parent) <=>
              \E i \in 2..(Len(name) + 1) : parent = From(name, i)
<1>1. ASSUME is_subdomain_of(name, parent)
      PROVE  \E i \in 2..(Len(name) + 1) : parent = From(name, i)
  <2>1. Len(name) - Len(parent) + 1 \in 2..(Len(name) + 1)
    BY <1>1 DEF is_subdomain_of
  <2> QED
    BY <1>1, <2>1 DEF is_subdomain_of
<1>2. ASSUME NEW i \in 2..(Len(name) + 1), parent = From(name, i)
      PROVE  is_subdomain_of(name, parent)
  <2>1. i \in 1..(Len(name) + 1)
    OBVIOUS
  <2>2. Len(parent) = Len(name) - i + 1
    BY <1>2, <2>1, FromIs
  <2>3. i = Len(name) - Len(parent) + 1 /\ Len(parent) < Len(name)
    BY <2>2
  <2> QED
    BY <1>2, <2>3 DEF is_subdomain_of
<1> QED
  BY <1>1, <1>2

LEMMA ZoneMatchIs ==
    ASSUME NEW S, NEW name \in Seq(S), NEW zone \in Seq(S)
    PROVE  is_match(zone, name) <=> \E i \in 1..(Len(name) + 1) : zone = From(name, i)
<1>1. From(name, 1) = name
  BY WholeIsFrom
<1>2. Len(name) \in Nat
  OBVIOUS
<1>3. 1..(Len(name) + 1) = {1} \cup 2..(Len(name) + 1)
  BY <1>2
<1>4. is_match(zone, name) <=>
         zone = From(name, 1) \/ \E i \in 2..(Len(name) + 1) : zone = From(name, i)
  BY <1>1, SubdomainIs DEF is_match
<1> QED
  BY <1>3, <1>4, Zenon

LEMMA ConsIs ==
    ASSUME NEW S, NEW w \in S, NEW s \in Seq(S)
    PROVE  /\ <<w>> \o s \in Seq(S) /\ Len(<<w>> \o s) = Len(s) + 1
           /\ Head(<<w>> \o s) = w /\ Tail(<<w>> \o s) = s
<1> DEFINE c == <<w>> \o s
<1>1. <<w>> \in Seq(S) /\ Len(<<w>>) = 1 /\ <<w>>[1] = w /\ Len(s) \in Nat
  OBVIOUS
<1>2. /\ c \in Seq(S) /\ Len(c) = Len(<<w>>) + Len(s)
      /\ \A i \in 1 .. Len(<<w>>) + Len(s) :
            c[i] = IF i <= Len(<<w>>) THEN <<w>>[i] ELSE s[i - Len(<<w>>)]
  BY <1>1, TheoremsOf!ConcatProperties, Zenon
<1> HIDE DEF c
<1>3. /\ c \in Seq(S) /\ Len(c) = Len(s) + 1 /\ c[1] = w
      /\ \A i \in 1..Len(s) : c[i + 1] = s[i]
  BY <1>1, <1>2
<1>4. c # <<>> /\ Head(c) = w
  BY <1>1, <1>3
<1>5. /\ Tail(c) \in Seq(S) /\ Len(Tail(c)) = Len(s)
      /\ \A i \in 1..Len(s) : Tail(c)[i] = s[i]
  <2>1. /\ Tail(c) \in Seq(S) /\ Len(Tail(c)) = Len(c) - 1
        /\ \A i \in 1..Len(Tail(c)) : Tail(c)[i] = c[i + 1]
    BY <1>3, <1>4, TheoremsOf!HeadTailProperties
  <2> QED
    BY <1>1, <1>3, <2>1
<1>6. Tail(c) = s
  BY <1>5, TheoremsOf!SeqEqual
<1> QED
  BY <1>3, <1>4, <1>6 DEF c

LEMMA IsCons ==
    ASSUME NEW S, NEW p \in Seq(S), p # <<>>
    PROVE  Head(p) \in S /\ Tail(p) \in Seq(S) /\ p = <<Head(p)>> \o Tail(p)
<1> DEFINE w == Head(p)
           s == Tail(p)
           c == <<w>> \o s
<1>1. /\ w \in S /\ w = p[1] /\ s \in Seq(S) /\ Len(s) = Len(p) - 1
      /\ \A i \in 1..Len(s) : s[i] = p[i + 1]
  BY TheoremsOf!HeadTailProperties
<1>2. <<w>> \in Seq(S) /\ Len(<<w>>) = 1 /\ <<w>>[1] = w /\ Len(s) \in Nat /\ Len(p) \in Nat
  BY <1>1
<1>0. w \in S /\ s \in Seq(S) /\ <<w>> \in Seq(S)
  BY <1>1, <1>2
<1> HIDE DEF w, s
<1>3. /\ c \in Seq(S) /\ Len(c) = Len(<<w>>) + Len(s)
      /\ \A i \in 1 .. Len(<<w>>) + Len(s) :
            c[i] = IF i <= Len(<<w>>) THEN <<w>>[i] ELSE s[i - Len(<<w>>)]
  BY <1>0, TheoremsOf!ConcatProperties, Zenon
<1> HIDE DEF c
<1>4. Len(c) = Len(p) /\ \A i \in 1..Len(p) : c[i] = p[i]
  BY <1>1, <1>2, <1>3
<1>5. c = p
  BY <1>3, <1>4, TheoremsOf!SeqEqual
<1> QED
  BY <1>1, <1>5 DEF c, w, s

\* What is looked up at a position.
LEMMA CandidateIs ==
    ASSUME NEW query \in Seq(Label), NEW at \in Positions(query)
    PROVE  /\ at[1] \in 1..Len(query) /\ at[2] \in {0, 1} /\ at = <<at[1], at[2]>>
           /\ Candidate(query, at) \in Seq(Label)
           /\ Len(Candidate(query, at)) = Len(query) - at[1] + 1 + at[2]
           /\ at[2] = 0 => Candidate(query, at) = From(query, at[1])
           /\ at[2] = 1 => /\ IsWildcard(Candidate(query, at))
                           /\ Tail(Candidate(query, at)) = From(query, at[1])
<1>1. at[1] \in 1..Len(query) /\ at[2] \in {0, 1} /\ at = <<at[1], at[2]>> /\ Len(query) \in Nat
  BY DEF Positions
<1>2. From(query, at[1]) \in Seq(Label) /\ Len(From(query, at[1])) = Len(query) - at[1] + 1
  BY <1>1, FromIs
<1>3. /\ <<Wildcard>> \o From(query, at[1]) \in Seq(Label)
      /\ Len(<<Wildcard>> \o From(query, at[1])) = Len(query) - at[1] + 2
      /\ Head(<<Wildcard>> \o From(query, at[1])) = Wildcard
      /\ Tail(<<Wildcard>> \o From(query, at[1])) = From(query, at[1])
  <2>1. Wildcard \in Label
    BY DEF Label
  <2>2. /\ <<Wildcard>> \o From(query, at[1]) \in Seq(Label)
        /\ Len(<<Wildcard>> \o From(query, at[1])) = Len(From(query, at[1])) + 1
        /\ Head(<<Wildcard>> \o From(query, at[1])) = Wildcard
        /\ Tail(<<Wildcard>> \o From(query, at[1])) = From(query, at[1])
    BY <1>2, <2>1, ConsIs
  <2> QED
    BY <1>1, <1>2, <2>2
<1>4. CASE at[2] = 0
  BY <1>1, <1>2, <1>4 DEF Candidate
<1>5. CASE at[2] = 1
  <2>1. Candidate(query, at) = <<Wildcard>> \o From(query, at[1])
    BY <1>5 DEF Candidate
  <2>2. IsWildcard(Candidate(query, at))
    <3>1. Len(Candidate(query, at)) > 1 /\ Head(Candidate(query, at)) = Wildcard
      BY <1>1, <1>3, <2>1
    <3> QED
      BY <3>1 DEF IsWildcard
  <2>3. Len(Candidate(query, at)) = Len(query) - at[1] + 1 + at[2]
    BY <1>1, <1>3, <1>5, <2>1
  <2> QED
    BY <1>1, <1>3, <1>5, <2>1, <2>2, <2>3
<1> QED
  BY <1>1, <1>4, <1>5

LEMMA HitIs ==
    ASSUME NEW query \in Seq(Label), NEW at \in Hits(query)
    PROVE  /\ at \in Positions(query) /\ Candidate(query, at) \in patterns
           /\ IsWildcard(Candidate(query, at)) <=> at[2] = 1
           /\ Fixed(Candidate(query, at)) = From(query, at[1])
           /\ at[2] = 1 => at[1] > 1
<1>1. /\ at \in Positions(query) /\ Candidate(query, at) \in patterns
      /\ at[2] = 1 => at[1] > 1
      /\ at[2] # 1 => ~IsWildcard(Candidate(query, at))
  BY DEF Hits, IsTried
<1> QED
  BY <1>1, CandidateIs DEF Fixed

\* Two positions that hit are of two patterns.
LEMMA HitsDiffer ==
    ASSUME NEW query \in Seq(Label), NEW a \in Hits(query), NEW b \in Hits(query),
           Candidate(query, a) = Candidate(query, b)
    PROVE  a = b
<1>1. /\ a[1] \in 1..Len(query) /\ a[2] \in {0, 1} /\ a = <<a[1], a[2]>>
      /\ b[1] \in 1..Len(query) /\ b[2] \in {0, 1} /\ b = <<b[1], b[2]>>
      /\ Len(query) - a[1] + 1 + a[2] = Len(query) - b[1] + 1 + b[2]
      /\ a[2] = 1 <=> b[2] = 1
  BY HitIs, CandidateIs
<1>2. a[1] = b[1] /\ a[2] = b[2]
  BY <1>1
<1> QED
  BY <1>1, <1>2

\* A query is looked up under exactly the patterns that cover it.
LEMMA CoversIs ==
    ASSUME RoutesTypes, NEW query \in Seq(Label), NEW p \in patterns
    PROVE  Covers(p, query) <=> \E at \in Hits(query) : Candidate(query, at) = p
<1>1. p \in Seq(Label) /\ p # <<>> /\ Len(p) \in Nat /\ Len(p) > 0 /\ Len(query) \in Nat
  BY DEF RoutesTypes
<1>2. ASSUME IsWildcard(p), Covers(p, query)
      PROVE  \E at \in Hits(query) : Candidate(query, at) = p
  <2>1. Head(p) = Wildcard /\ Len(p) > 1 /\ Tail(p) \in Seq(Label)
        /\ p = <<Wildcard>> \o Tail(p)
    BY <1>1, <1>2, IsCons DEF IsWildcard
  <2>2. Len(Tail(p)) = Len(p) - 1
    BY <1>1
  <2>3. PICK i \in 2..(Len(query) + 1) : Tail(p) = From(query, i)
    BY <1>2, <2>1, SubdomainIs DEF Covers
  <2>4. i \in 1..Len(query) /\ i > 1
    <3>1. i \in 1..(Len(query) + 1)
      BY <1>1
    <3>2. Len(Tail(p)) = Len(query) - i + 1
      BY <2>3, <3>1, FromIs
    <3> QED
      BY <1>1, <2>1, <2>2, <3>1, <3>2
  <2>5. <<i, 1>> \in Positions(query) /\ Candidate(query, <<i, 1>>) = p
    <3>1. <<i, 1>>[1] = i /\ <<i, 1>>[2] = 1
      OBVIOUS
    <3>2. Candidate(query, <<i, 1>>) = <<Wildcard>> \o From(query, i)
      BY <3>1 DEF Candidate
    <3>3. Candidate(query, <<i, 1>>) = p
      BY <2>1, <2>3, <3>2, Zenon
    <3>4. i \in 1..Len(query) /\ 1 \in 0..1
      BY <2>4
    <3> QED
      BY <3>3, <3>4, Zenon DEF Positions
  <2>6. <<i, 1>> \in Hits(query)
    BY <2>4, <2>5 DEF Hits, IsTried
  <2> QED
    BY <2>5, <2>6
<1>3. ASSUME ~IsWildcard(p), Covers(p, query)
      PROVE  \E at \in Hits(query) : Candidate(query, at) = p
  <2>1. PICK i \in 1..(Len(query) + 1) : p = From(query, i)
    BY <1>1, <1>3, ZoneMatchIs DEF Covers
  <2>2. i \in 1..Len(query)
    <3>1. Len(p) = Len(query) - i + 1
      BY <2>1, FromIs
    <3> QED
      BY <1>1, <3>1
  <2>3. <<i, 0>> \in Positions(query) /\ Candidate(query, <<i, 0>>) = p
    BY <2>1, <2>2 DEF Positions, Candidate
  <2>4. <<i, 0>> \in Hits(query)
    BY <1>3, <2>3 DEF Hits, IsTried
  <2> QED
    BY <2>3, <2>4
<1>4. ASSUME NEW at \in Hits(query), Candidate(query, at) = p
      PROVE  Covers(p, query)
  <2>1. /\ at[1] \in 1..Len(query) /\ at[2] \in {0, 1}
        /\ at[2] = 0 => p = From(query, at[1]) /\ ~IsWildcard(p)
        /\ at[2] = 1 => Tail(p) = From(query, at[1]) /\ IsWildcard(p) /\ at[1] > 1
    BY <1>4, HitIs, CandidateIs
  <2>2. CASE at[2] = 0
    <3>1. at[1] \in 1..(Len(query) + 1)
      BY <1>1, <2>1
    <3>2. is_match(p, query)
      BY <1>1, <2>1, <2>2, <3>1, ZoneMatchIs
    <3> QED
      BY <2>1, <2>2, <3>2 DEF Covers
  <2>3. CASE at[2] = 1
    <3>1. at[1] \in 2..(Len(query) + 1) /\ Tail(p) \in Seq(Label)
      BY <1>1, <2>1, <2>3
    <3>2. is_subdomain_of(query, Tail(p))
      BY <2>1, <2>3, <3>1, SubdomainIs
    <3> QED
      BY <2>1, <2>3, <3>2 DEF Covers
  <2> QED
    BY <2>1, <2>2, <2>3
<1> QED
  BY <1>2, <1>3, <1>4

-----------------------------------------------------------------------------
(* The order of the patterns that cover a query *)

LEMMA FirstHit ==
    ASSUME NEW query \in Seq(Label), NEW H \in SUBSET Positions(query), H # {}
    PROVE  \E at \in H : \A b \in H : b = at \/ Earlier(at, b)
<1> DEFINE Numbers == {2 * at[1] + at[2] : at \in H}
<1>1. \A at \in H : at[1] \in Nat /\ at[2] \in {0, 1} /\ at = <<at[1], at[2]>>
  <2>1. \A at \in H : at \in Positions(query)
    OBVIOUS
  <2> QED
    BY <2>1, CandidateIs
<1>2. PICK n \in Numbers : \A m \in Numbers : n <= m
  <2>1. Numbers \in SUBSET Nat /\ Numbers # {}
    BY <1>1
  <2> HIDE DEF Numbers
  <2> QED
    BY <2>1, HasLeast
<1>3. PICK at \in H : n = 2 * at[1] + at[2]
  BY <1>2
<1>4. ASSUME NEW b \in H PROVE b = at \/ Earlier(at, b)
  <2>1. 2 * at[1] + at[2] <= 2 * b[1] + b[2]
    BY <1>2, <1>3
  <2>2. Earlier(at, b) \/ (at[1] = b[1] /\ at[2] = b[2])
    BY <1>1, <2>1 DEF Earlier
  <2>3. at = <<at[1], at[2]>> /\ b = <<b[1], b[2]>>
    BY <1>1
  <2> QED
    BY <2>2, <2>3
<1> QED
  BY <1>4

LEMMA LongestIs ==
    ASSUME NEW query \in Seq(Label), Hits(query) # {}
    PROVE  \E best \in Hits(query) :
              /\ find_longest_match(query) = Candidate(query, best)
              /\ \A b \in Hits(query) : b = best \/ Earlier(best, b)
<1> DEFINE best == CHOOSE at \in Hits(query) : \A b \in Hits(query) : b = at \/ Earlier(at, b)
<1>1. Hits(query) \in SUBSET Positions(query)
  BY DEF Hits
<1>2. best \in Hits(query) /\ \A b \in Hits(query) : b = best \/ Earlier(best, b)
  BY <1>1, FirstHit, Zenon
<1>3. find_longest_match(query) = Candidate(query, best)
  BY Zenon DEF find_longest_match
<1> QED
  BY <1>2, <1>3, Zenon

LEMMA LongestMatchIsRight == RoutesTypes => LongestMatchWins
<1> SUFFICES ASSUME RoutesTypes, NEW query \in Query
             PROVE  LET best == find_longest_match(query)
                        covering == {p \in patterns : Covers(p, query)}
                    IN IF covering = {} THEN best = <<>>
                       ELSE /\ best \in covering
                            /\ \A p \in covering : \/ Len(Fixed(p)) < Len(Fixed(best))
                                                   \/ Fixed(p) = Fixed(best) /\ ~IsWildcard(best)
                                                   \/ p = best
  BY Zenon DEF LongestMatchWins
<1> DEFINE covering == {p \in patterns : Covers(p, query)}
<1>1. query \in Seq(Label)
  BY NamesAre
<1>2. \A p \in patterns : Covers(p, query) <=> \E at \in Hits(query) : Candidate(query, at) = p
  BY <1>1, CoversIs
<1>3. \A at \in Hits(query) : Candidate(query, at) \in patterns
  BY DEF Hits
<1>4. CASE Hits(query) = {}
  <2>1. covering = {}
    BY <1>2, <1>4
  <2>2. find_longest_match(query) = <<>>
    BY <1>4 DEF find_longest_match
  <2> QED
    BY <2>1, <2>2
<1>5. CASE Hits(query) # {}
  <2>1. PICK at \in Hits(query) :
            /\ find_longest_match(query) = Candidate(query, at)
            /\ \A b \in Hits(query) : b = at \/ Earlier(at, b)
    BY <1>1, <1>5, LongestIs
  <2>2. Candidate(query, at) \in covering
    BY <1>2, <1>3
  <2>3. ASSUME NEW p \in covering
        PROVE  \/ Len(Fixed(p)) < Len(Fixed(Candidate(query, at)))
               \/ Fixed(p) = Fixed(Candidate(query, at)) /\ ~IsWildcard(Candidate(query, at))
               \/ p = Candidate(query, at)
    <3>1. PICK b \in Hits(query) : Candidate(query, b) = p
      BY <1>2, <2>3
    <3>2. /\ at[1] \in 1..Len(query) /\ at[2] \in {0, 1}
          /\ b[1] \in 1..Len(query) /\ b[2] \in {0, 1}
          /\ Fixed(p) = From(query, b[1]) /\ Fixed(Candidate(query, at)) = From(query, at[1])
          /\ IsWildcard(Candidate(query, at)) <=> at[2] = 1
      BY <1>1, <3>1, HitIs, CandidateIs
    <3>3. /\ Len(From(query, at[1])) = Len(query) - at[1] + 1
          /\ Len(From(query, b[1])) = Len(query) - b[1] + 1
          /\ Len(query) \in Nat
      <4>1. at[1] \in 1..(Len(query) + 1) /\ b[1] \in 1..(Len(query) + 1) /\ Len(query) \in Nat
        BY <1>1, <3>2
      <4> QED
        BY <1>1, <4>1, FromIs
    <3>4. CASE b = at
      BY <3>1, <3>4
    <3>5. CASE at[1] < b[1]
      <4>1. Len(From(query, b[1])) < Len(From(query, at[1]))
        BY <3>2, <3>3, <3>5
      <4> QED
        BY <3>2, <4>1
    <3>6. CASE at[1] = b[1] /\ at[2] < b[2]
      <4>1. at[2] # 1
        BY <3>2, <3>6
      <4> QED
        BY <3>2, <3>6, <4>1
    <3> QED
      BY <2>1, <3>4, <3>5, <3>6 DEF Earlier
  <2> HIDE DEF covering
  <2>4. covering # {}
    BY <2>2
  <2> QED
    BY <2>1, <2>2, <2>3, <2>4 DEF covering
<1> QED
  BY <1>4, <1>5

\* Fewer labels come later; of as many, the wildcard does.
SortKey(at) == 2 * at[1] - at[2]

LEMMA SortKeyIs ==
    ASSUME NEW query \in Seq(Label), NEW a \in Positions(query), NEW b \in Positions(query)
    PROVE  /\ SortKey(a) \in Nat /\ SortKey(a) <= 2 * Len(query)
           /\ Before(query, a, b) <=> SortKey(a) < SortKey(b)
           /\ SortKey(a) = SortKey(b) => a = b
<1>1. /\ a[1] \in 1..Len(query) /\ a[2] \in {0, 1} /\ a = <<a[1], a[2]>>
      /\ b[1] \in 1..Len(query) /\ b[2] \in {0, 1} /\ b = <<b[1], b[2]>>
      /\ Len(Candidate(query, a)) = Len(query) - a[1] + 1 + a[2]
      /\ Len(Candidate(query, b)) = Len(query) - b[1] + 1 + b[2]
      /\ Len(query) \in Nat
  BY CandidateIs
<1>2. SortKey(a) \in Nat /\ SortKey(a) <= 2 * Len(query)
  BY <1>1, SMTT(30) DEF SortKey
<1>3. Before(query, a, b) <=> SortKey(a) < SortKey(b)
  BY <1>1, SMTT(30) DEF SortKey, Before, Earlier
<1>4. SortKey(a) = SortKey(b) => a[1] = b[1] /\ a[2] = b[2]
  BY <1>1, SMTT(30) DEF SortKey
<1> QED
  BY <1>1, <1>2, <1>3, <1>4

PositionSets(query) == SUBSET Positions(query)

LEMMA PositionSetIs ==
    ASSUME NEW query \in Seq(Label), NEW H \in PositionSets(query)
    PROVE  /\ IsFiniteSet(H) /\ Cardinality(H) \in Nat
           /\ \A at \in H : at \in Positions(query)
<1>1. IsFiniteSet(1..Len(query)) /\ IsFiniteSet(0..1)
  <2>1. Len(query) \in Int /\ 0 \in Int /\ 1 \in Int
    OBVIOUS
  <2> QED
    BY <2>1, FS_Interval
<1>2. IsFiniteSet(Positions(query))
  BY <1>1, FS_Product DEF Positions
<1> QED
  BY <1>2, FS_Subset, FS_CardinalityType DEF PositionSets

\* A set of positions in the order of their keys.
Lists(s, H) ==
    /\ s \in [1..Cardinality(H) -> H]
    /\ \A i, j \in 1..Cardinality(H) : i < j => SortKey(s[i]) < SortKey(s[j])

LEMMA HasLastSortKey ==
    ASSUME NEW query \in Seq(Label), NEW H \in PositionSets(query), H # {}
    PROVE  \E at \in H : \A b \in H : b # at => SortKey(b) < SortKey(at)
<1> DEFINE Left == {2 * Len(query) - SortKey(at) : at \in H}
<1>1. \A at \in H : at \in Positions(query)
  BY PositionSetIs
<1>2. \A at \in H : SortKey(at) \in Nat /\ SortKey(at) <= 2 * Len(query)
  BY <1>1, SortKeyIs
<1>3. \A a, b \in H : SortKey(a) = SortKey(b) => a = b
  BY <1>1, SortKeyIs
<1>4. Len(query) \in Nat
  OBVIOUS
<1>5. PICK n \in Left : \A m \in Left : n <= m
  <2>1. Left \in SUBSET Nat /\ Left # {}
    BY <1>2, <1>4
  <2> HIDE DEF Left
  <2> QED
    BY <2>1, HasLeast
<1>6. PICK at \in H : n = 2 * Len(query) - SortKey(at)
  BY <1>5
<1>7. ASSUME NEW b \in H, b # at PROVE SortKey(b) < SortKey(at)
  <2>1. 2 * Len(query) - SortKey(at) <= 2 * Len(query) - SortKey(b)
    BY <1>5, <1>6
  <2>2. SortKey(b) # SortKey(at)
    BY <1>3, <1>7
  <2> QED
    BY <1>2, <1>4, <2>1, <2>2
<1> QED
  BY <1>7

LEMMA OrderExists ==
    ASSUME NEW query \in Seq(Label), NEW H \in PositionSets(query)
    PROVE  \E s : Lists(s, H)
<1> DEFINE Sizes == {n \in Nat : \E T \in PositionSets(query) :
                        Cardinality(T) = n /\ ~ \E s : Lists(s, T)}
<1>1. Sizes = {}
  <2> SUFFICES ASSUME Sizes # {} PROVE FALSE
    OBVIOUS
  <2>1. PICK n \in Sizes : \A m \in Sizes : n <= m
    <3>1. Sizes \in SUBSET Nat
      OBVIOUS
    <3> HIDE DEF Sizes
    <3> QED
      BY <3>1, HasLeast
  <2>2. PICK T \in PositionSets(query) : Cardinality(T) = n /\ ~ \E s : Lists(s, T)
    BY <2>1
  <2>3. n \in Nat
    BY <2>1
  <2>4. IsFiniteSet(T) /\ \A at \in T : at \in Positions(query)
    BY PositionSetIs
  <2>5. T # {}
    <3> SUFFICES ASSUME T = {} PROVE FALSE
      OBVIOUS
    <3>1. n = 0
      BY <2>2, FS_EmptySet
    <3>2. 1..n = {}
      BY <3>1
    <3>3. Lists([i \in 1..n |-> i], T)
      BY <2>2, <3>2 DEF Lists
    <3> QED
      BY <2>2, <3>3
  <2>6. PICK at \in T : \A b \in T : b # at => SortKey(b) < SortKey(at)
    BY <2>5, HasLastSortKey
  <2> DEFINE R == T \ {at}
  <2>7. R \in PositionSets(query) /\ Cardinality(R) = n - 1 /\ n - 1 \in Nat
    <3>1. R \in PositionSets(query)
      BY DEF PositionSets
    <3>2. Cardinality(R) = n - 1
      BY <2>2, <2>4, <2>6, FS_RemoveElement
    <3> HIDE DEF R
    <3>3. Cardinality(R) \in Nat
      BY <3>1, PositionSetIs
    <3> QED
      BY <3>1, <3>2, <3>3
  <2>8. PICK t : Lists(t, R)
    <3>1. n - 1 \notin Sizes
      <4> HIDE DEF Sizes
      <4>1. \A m \in Sizes : n <= m
        BY <2>1
      <4> QED
        BY <2>3, <4>1
    <3> HIDE DEF R
    <3> QED
      BY <2>7, <3>1
  <2> DEFINE s == [i \in 1..n |-> IF i = n THEN at ELSE t[i]]
  <2>9. ASSUME NEW i \in 1..n
        PROVE  s[i] \in T /\ (i # n => i \in 1..(n - 1) /\ s[i] = t[i] /\ t[i] \in T /\ t[i] # at)
    <3>1. CASE i = n
      BY <2>6, <3>1
    <3>2. CASE i # n
      <4>1. i \in 1..(n - 1)
        BY <2>3, <3>2
      <4>2. t[i] \in R
        BY <2>7, <2>8, <4>1 DEF Lists
      <4> QED
        BY <3>2, <4>1, <4>2
    <3> QED
      BY <3>1, <3>2
  <2>10. ASSUME NEW i \in 1..n, NEW j \in 1..n, i < j
         PROVE  SortKey(s[i]) < SortKey(s[j])
    <3>1. i # n
      BY <2>3, <2>10
    <3>2. i \in 1..(n - 1) /\ s[i] = t[i] /\ t[i] \in T /\ t[i] # at
      BY <2>9, <3>1
    <3>3. CASE j = n
      BY <2>6, <3>2, <3>3
    <3>4. CASE j # n
      <4>1. j \in 1..(n - 1) /\ s[j] = t[j]
        BY <2>9, <3>4
      <4>2. SortKey(t[i]) < SortKey(t[j])
        BY <2>7, <2>8, <2>10, <3>2, <4>1 DEF Lists
      <4> QED
        BY <3>2, <4>1, <4>2
    <3> QED
      BY <3>3, <3>4
  <2>11. s \in [1..n -> T]
    BY <2>9
  <2> HIDE DEF s
  <2>12. Lists(s, T)
    BY <2>2, <2>10, <2>11 DEF Lists
  <2> QED
    BY <2>2, <2>12
<1>2. Cardinality(H) \in Nat
  BY PositionSetIs
<1> QED
  BY <1>1, <1>2

\* Such a list leaves none out.
LEMMA ListsAll ==
    ASSUME NEW query \in Seq(Label), NEW H \in PositionSets(query), NEW s, Lists(s, H)
    PROVE  \A at \in H : \E i \in 1..Cardinality(H) : s[i] = at
<1> DEFINE n == Cardinality(H)
<1>1. n \in Nat /\ IsFiniteSet(H) /\ \A at \in H : at \in Positions(query)
  BY PositionSetIs
<1>2. IsFiniteSet(1..n) /\ Cardinality(1..n) = n
  BY <1>1, FS_Interval
<1>3. \A at \in H : SortKey(at) \in Nat
  BY <1>1, SortKeyIs
<1>4. ASSUME NEW i \in 1..n, NEW j \in 1..n, s[i] = s[j]
      PROVE  i = j
  <2>1. s[i] \in H /\ s[j] \in H /\ ~(i < j) /\ ~(j < i)
    BY <1>3, <1>4 DEF Lists
  <2> QED
    BY <1>1, <2>1
<1>5. s \in Injection(1..n, H)
  BY <1>4 DEF Lists, Injection, IsInjective
<1>6. s \in Surjection(1..n, H)
  BY <1>1, <1>2, <1>5, FS_Injection
<1> QED
  BY <1>6 DEF Surjection

LEMMA AllMatchesAre ==
    ASSUME NEW query \in Seq(Label)
    PROVE  \E s : /\ Lists(s, Hits(query))
                  /\ find_all_matches(query)
                        = [i \in 1..Cardinality(Hits(query)) |-> Candidate(query, s[i])]
<1> DEFINE H == Hits(query)
           n == Cardinality(H)
           Sorted(s) == \A i, j \in DOMAIN s : i < j => Before(query, s[i], s[j])
           order == CHOOSE s \in [1..n -> H] : Sorted(s)
<1>1. H \in PositionSets(query) /\ \A at \in H : at \in Positions(query)
  BY DEF Hits, PositionSets
<1>2. ASSUME NEW s \in [1..n -> H]
      PROVE  Sorted(s) <=> Lists(s, H)
  <2>1. DOMAIN s = 1..n /\ \A i \in 1..n : s[i] \in Positions(query)
    BY <1>1
  <2>2. \A i, j \in 1..n : Before(query, s[i], s[j]) <=> SortKey(s[i]) < SortKey(s[j])
    BY <2>1, SortKeyIs
  <2> QED
    BY <2>1, <2>2, Zenon DEF Lists
<1>3. \E s \in [1..n -> H] : Sorted(s)
  <2>1. PICK s : Lists(s, H)
    BY <1>1, OrderExists
  <2>2. s \in [1..n -> H]
    BY <2>1 DEF Lists
  <2> QED
    BY <1>2, <2>1, <2>2
<1>4. order \in [1..n -> H] /\ Sorted(order)
  BY <1>3, Zenon
<1>5. Lists(order, H)
  BY <1>2, <1>4
<1>6. find_all_matches(query) = [i \in 1..n |-> Candidate(query, order[i])]
  BY Zenon DEF find_all_matches
<1> QED
  BY <1>5, <1>6

LEMMA MatchersAreRight == RoutesTypes => MatchersAgree
<1> SUFFICES ASSUME RoutesTypes, NEW query \in Query
             PROVE  LET all == find_all_matches(query)
                        best == find_longest_match(query)
                    IN /\ ToSet(all) = {p \in patterns : Covers(p, query)}
                       /\ IsInjective(all)
                       /\ \A i \in 1..(Len(all) - 1) : Len(all[i + 1]) <= Len(all[i])
                       /\ all # <<>> => Head(all) \in {best, <<Wildcard>> \o best}
  BY Zenon DEF MatchersAgree
<1> DEFINE H == Hits(query)
           n == Cardinality(H)
           all == find_all_matches(query)
<1>1. query \in Seq(Label) /\ Len(query) \in Nat
  BY NamesAre
<1>2. /\ H \in PositionSets(query) /\ \A at \in H : at \in Positions(query)
      /\ \A at \in H : Candidate(query, at) \in patterns /\ Candidate(query, at) \in Seq(Label)
  BY <1>1, CandidateIs DEF Hits, PositionSets
<1>3. n \in Nat /\ \A at \in H : SortKey(at) \in Nat
  BY <1>1, <1>2, PositionSetIs, SortKeyIs
<1>4. PICK s : Lists(s, H) /\ all = [i \in 1..n |-> Candidate(query, s[i])]
  BY <1>1, AllMatchesAre
<1>5. \A i \in 1..n : s[i] \in H
  BY <1>4 DEF Lists
<1>6. \A at \in H : \E i \in 1..n : s[i] = at
  BY <1>1, <1>2, <1>4, ListsAll
<1> HIDE DEF n, H, all
<1>7. all \in Seq(Seq(Label)) /\ Len(all) = n /\ DOMAIN all = 1..n
  BY <1>2, <1>3, <1>4, <1>5
<1>8. ToSet(all) = {p \in patterns : Covers(p, query)}
  <2>1. \A p \in patterns : Covers(p, query) <=> \E at \in H : Candidate(query, at) = p
    BY <1>1, CoversIs DEF H
  <2>2. ASSUME NEW i \in 1..n
        PROVE  all[i] \in patterns /\ Covers(all[i], query)
    BY <1>2, <1>4, <1>5, <2>1
  <2>3. ASSUME NEW p \in patterns, Covers(p, query)
        PROVE  \E i \in 1..n : all[i] = p
    <3>1. PICK at \in H : Candidate(query, at) = p
      BY <2>1, <2>3
    <3>2. PICK i \in 1..n : s[i] = at
      BY <1>6
    <3> QED
      BY <1>4, <3>1, <3>2
  <2>4. ToSet(all) = {all[i] : i \in 1..n}
    BY <1>7 DEF ToSet
  <2> QED
    BY <2>2, <2>3, <2>4
<1>9. IsInjective(all)
  <2>1. ASSUME NEW i \in 1..n, NEW j \in 1..n, all[i] = all[j]
        PROVE  i = j
    <3>1. s[i] = s[j]
      <4>1. Candidate(query, s[i]) = Candidate(query, s[j]) /\ s[i] \in H /\ s[j] \in H
        BY <1>4, <1>5, <2>1
      <4> QED
        BY <1>1, <4>1, HitsDiffer DEF H
    <3>2. ~(i < j) /\ ~(j < i)
      BY <1>3, <1>4, <1>5, <3>1 DEF Lists, n
    <3> QED
      BY <1>3, <3>2
  <2> QED
    BY <1>7, <2>1 DEF IsInjective
<1>10. ASSUME NEW i \in 1..(Len(all) - 1)
       PROVE  Len(all[i + 1]) <= Len(all[i])
  <2>1. i \in 1..n /\ i + 1 \in 1..n /\ i < i + 1
    BY <1>3, <1>7
  <2>2. SortKey(s[i]) < SortKey(s[i + 1])
    BY <1>4, <2>1 DEF Lists, n
  <2>3. all[i] = Candidate(query, s[i]) /\ all[i + 1] = Candidate(query, s[i + 1])
    BY <1>4, <2>1
  <2>4. s[i] \in Positions(query) /\ s[i + 1] \in Positions(query)
    BY <1>2, <1>5, <2>1
  <2>5. Before(query, s[i], s[i + 1])
    BY <1>1, <2>2, <2>4, SortKeyIs
  <2>6. Len(Candidate(query, s[i])) \in Nat /\ Len(Candidate(query, s[i + 1])) \in Nat
    BY <1>1, <2>4, CandidateIs
  <2> QED
    BY <2>3, <2>5, <2>6 DEF Before
<1>11. ASSUME all # <<>>
       PROVE  Head(all) \in {find_longest_match(query), <<Wildcard>> \o find_longest_match(query)}
  <2>1. n > 0 /\ 1 \in 1..n
    BY <1>3, <1>7, <1>11
  <2>2. Head(all) = all[1] /\ all[1] = Candidate(query, s[1]) /\ s[1] \in H
    BY <1>4, <1>5, <1>7, <1>11, <2>1
  <2>3. PICK best \in H : /\ find_longest_match(query) = Candidate(query, best)
                          /\ \A b \in H : b = best \/ Earlier(best, b)
    BY <1>1, <2>2, LongestIs DEF H
  <2>4. PICK k \in 1..n : s[k] = best
    BY <1>6
  <2>5. SortKey(s[1]) <= SortKey(best)
    <3>1. CASE k = 1
      BY <1>3, <2>4, <3>1
    <3>2. CASE k # 1
      <4>1. 1 < k
        BY <1>3, <3>2
      <4>2. SortKey(s[1]) < SortKey(s[k])
        BY <1>4, <2>1, <4>1 DEF Lists, n
      <4> QED
        BY <1>3, <2>2, <2>4, <4>2
    <3> QED
      BY <3>1, <3>2
  <2>6. s[1] = best \/ Earlier(best, s[1])
    BY <2>2, <2>3
  <2>7. /\ best[1] \in 1..Len(query) /\ best[2] \in {0, 1}
        /\ s[1][1] \in 1..Len(query) /\ s[1][2] \in {0, 1} /\ s[1] = <<s[1][1], s[1][2]>>
        /\ best[2] = 0 => Candidate(query, best) = From(query, best[1])
    BY <1>1, <1>2, <2>2, <2>3, CandidateIs
  <2>8. s[1] = best \/ (s[1][1] = best[1] /\ s[1][2] = 1 /\ best[2] = 0)
    BY <2>5, <2>6, <2>7 DEF SortKey, Earlier
  <2> QED
    BY <2>2, <2>3, <2>7, <2>8 DEF Candidate
<1> QED
  BY <1>8, <1>9, <1>10, <1>11 DEF all

-----------------------------------------------------------------------------
(* Zones *)

\* The lengths of the last labels of a name.
Lengths(f, name, size) ==
    f = [k \in 0..size |-> IF k = 0 THEN 0
                           ELSE f[k - 1] + LabelSize[name[Len(name) + 1 - k]] + 1]

LEMMA LengthsExist ==
    ASSUME NEW name, NEW size \in Nat
    PROVE  \E f : Lengths(f, name, size)
<1> DEFINE Missing == {k \in Nat : ~ \E f : Lengths(f, name, k)}
<1>1. Missing = {}
  <2> SUFFICES ASSUME Missing # {} PROVE FALSE
    OBVIOUS
  <2>1. PICK k \in Missing : \A m \in Missing : k <= m
    <3>1. Missing \in SUBSET Nat
      OBVIOUS
    <3> HIDE DEF Missing
    <3> QED
      BY <3>1, HasLeast
  <2>2. k \in Nat /\ ~ \E f : Lengths(f, name, k)
    BY <2>1
  <2>3. k # 0
    <3>1. Lengths([n \in 0..0 |-> 0], name, 0)
      BY DEF Lengths
    <3> QED
      BY <2>2, <3>1
  <2>4. k - 1 \in Nat /\ k - 1 \notin Missing
    <3> HIDE DEF Missing
    <3> QED
      BY <2>1, <2>2, <2>3
  <2>5. PICK f : Lengths(f, name, k - 1)
    BY <2>4
  <2> DEFINE last == f[k - 1] + LabelSize[name[Len(name) + 1 - k]] + 1
             g == [n \in 0..k |-> IF n = k THEN last ELSE f[n]]
  <2>6. ASSUME NEW n \in 0..k
        PROVE  g[n] = IF n = 0 THEN 0 ELSE g[n - 1] + LabelSize[name[Len(name) + 1 - n]] + 1
    <3>1. CASE n = 0
      <4>1. f[0] = 0
        BY <2>4, <2>5 DEF Lengths
      <4> QED
        BY <2>3, <3>1, <4>1
    <3>2. CASE n # 0
      <4>1. n - 1 \in 0..k /\ n - 1 # k
        BY <2>2, <3>2
      <4>2. g[n - 1] = f[n - 1]
        BY <4>1
      <4>3. CASE n = k
        BY <3>2, <4>2, <4>3
      <4>4. CASE n # k
        <5>1. n \in 0..(k - 1)
          BY <2>2, <4>4
        <5>2. f[n] = f[n - 1] + LabelSize[name[Len(name) + 1 - n]] + 1
          BY <2>5, <3>2, <5>1 DEF Lengths
        <5> QED
          BY <3>2, <4>2, <4>4, <5>2
      <4> QED
        BY <4>3, <4>4
    <3> QED
      BY <3>1, <3>2
  <2>7. DOMAIN g = 0..k /\ g = [n \in 0..k |-> g[n]]
    OBVIOUS
  <2> HIDE DEF g
  <2>8. Lengths(g, name, k)
    BY <2>6, <2>7 DEF Lengths
  <2> QED
    BY <2>2, <2>8
<1> QED
  BY <1>1

LEMMA LengthsGrow ==
    ASSUME NEW name \in Seq(DOMAIN LabelSize), NEW f, Lengths(f, name, Len(name))
    PROVE  /\ \A k \in 0..Len(name) : f[k] \in Nat
           /\ \A k \in 0..Len(name) : \A j \in 0..Len(name) : j < k => f[j] < f[k]
<1>1. Len(name) \in Nat
  OBVIOUS
<1>2. /\ f[0] = 0
      /\ \A k \in 1..Len(name) : /\ k - 1 \in 0..Len(name)
                                 /\ f[k] = f[k - 1] + LabelSize[name[Len(name) + 1 - k]] + 1
                                 /\ LabelSize[name[Len(name) + 1 - k]] \in Nat
  <2>1. f[0] = 0
    BY <1>1 DEF Lengths
  <2>2. ASSUME NEW k \in 1..Len(name)
        PROVE  /\ k - 1 \in 0..Len(name)
               /\ f[k] = f[k - 1] + LabelSize[name[Len(name) + 1 - k]] + 1
               /\ LabelSize[name[Len(name) + 1 - k]] \in Nat
    <3>1. k \in 0..Len(name) /\ k # 0 /\ k - 1 \in 0..Len(name) /\ Len(name) + 1 - k \in 1..Len(name)
      BY <1>1
    <3>2. name[Len(name) + 1 - k] \in DOMAIN LabelSize
      BY <3>1
    <3>3. LabelSize[name[Len(name) + 1 - k]] \in Nat
      BY <3>2, LabelAssumption
    <3> QED
      BY <3>1, <3>3 DEF Lengths
  <2> QED
    BY <2>1, <2>2
<1> DEFINE Wrong == {k \in 0..Len(name) : ~(f[k] \in Nat /\ \A j \in 0..Len(name) : j < k => f[j] < f[k])}
<1>3. Wrong = {}
  <2> SUFFICES ASSUME Wrong # {} PROVE FALSE
    OBVIOUS
  <2>1. PICK k \in Wrong : \A m \in Wrong : k <= m
    <3>1. Wrong \in SUBSET Nat
      BY <1>1
    <3> HIDE DEF Wrong
    <3> QED
      BY <3>1, HasLeast
  <2>2. k \in 0..Len(name) /\ ~(f[k] \in Nat /\ \A j \in 0..Len(name) : j < k => f[j] < f[k])
    BY <2>1
  <2>3. k # 0
    BY <1>2, <2>2
  <2>4. k \in 1..Len(name) /\ k - 1 \in 0..Len(name) /\ k - 1 < k
    BY <1>1, <2>2, <2>3
  <2>5. k - 1 \notin Wrong
    <3> HIDE DEF Wrong
    <3> QED
      BY <2>1, <2>4
  <2>6. f[k - 1] \in Nat /\ \A j \in 0..Len(name) : j < k - 1 => f[j] < f[k - 1]
    BY <2>4, <2>5
  <2>7. f[k] \in Nat /\ f[k - 1] < f[k]
    <3> DEFINE more == LabelSize[name[Len(name) + 1 - k]]
    <3>1. f[k] = f[k - 1] + more + 1 /\ more \in Nat
      BY <1>2, <2>4
    <3>2. f[k - 1] \in Nat
      BY <2>6
    <3> HIDE DEF more
    <3> QED
      BY <3>1, <3>2
  <2>8. ASSUME NEW j \in 0..Len(name), j < k PROVE f[j] < f[k]
    <3>1. CASE j = k - 1
      BY <2>7, <3>1
    <3>2. CASE j # k - 1
      <4>1. j < k - 1 /\ j \notin Wrong
        <5> HIDE DEF Wrong
        <5>1. j < k - 1
          BY <2>4, <2>8, <3>2
        <5> QED
          BY <2>1, <2>4, <2>8, <5>1
      <4>2. f[j] \in Nat /\ f[j] < f[k - 1]
        BY <2>6, <4>1
      <4> QED
        BY <2>6, <2>7, <4>2
    <3> QED
      BY <3>1, <3>2
  <2> QED
    BY <2>2, <2>7, <2>8
<1> QED
  BY <1>3

LEMMA TextLengthIs ==
    ASSUME NEW name
    PROVE  \A f : Lengths(f, name, Len(name)) /\ Len(name) \in Nat =>
              \E g : Lengths(g, name, Len(name)) /\ TextLength(name) = g[Len(name)] - 1
<1> DEFINE length == CHOOSE f : Lengths(f, name, Len(name))
<1>1. TextLength(name) = length[Len(name)] - 1
  BY DEF TextLength, Lengths
<1> QED
  BY <1>1, Zenon

\* A proper tail of a name has a shorter text.
LEMMA TailIsShorter ==
    ASSUME NEW name \in Seq(DOMAIN LabelSize), NEW i \in 1..(Len(name) + 1)
    PROVE  /\ TextLength(name) \in Int /\ TextLength(From(name, i)) \in Int
           /\ TextLength(From(name, i)) <= TextLength(name)
           /\ i > 1 => TextLength(From(name, i)) < TextLength(name)
<1> DEFINE t == From(name, i)
           m == Len(name) - i + 1
<1>1. /\ t \in Seq(DOMAIN LabelSize) /\ Len(t) = m
      /\ \A j \in 1..m : t[j] = name[i + j - 1]
  BY FromIs
<1>2. Len(name) \in Nat /\ m \in Nat /\ m <= Len(name) /\ i \in Nat
  OBVIOUS
<1> HIDE DEF t
<1>3. PICK f : Lengths(f, name, Len(name)) /\ TextLength(name) = f[Len(name)] - 1
  BY <1>2, LengthsExist, TextLengthIs
<1>4. PICK g : Lengths(g, t, m) /\ TextLength(t) = g[m] - 1
  BY <1>1, <1>2, LengthsExist, TextLengthIs
<1>5. /\ \A k \in 0..Len(name) : f[k] \in Nat
      /\ \A k \in 0..Len(name) : \A j \in 0..Len(name) : j < k => f[j] < f[k]
  BY <1>3, LengthsGrow
<1>6. g[m] \in Nat
  <2>1. m \in 0..m
    BY <1>2
  <2> QED
    BY <1>1, <1>4, <2>1, LengthsGrow
<1> DEFINE Apart == {k \in 0..m : f[k] # g[k]}
<1>7. Apart = {}
  <2> SUFFICES ASSUME Apart # {} PROVE FALSE
    OBVIOUS
  <2>1. PICK k \in Apart : \A n \in Apart : k <= n
    <3>1. Apart \in SUBSET Nat
      BY <1>2
    <3> HIDE DEF Apart
    <3> QED
      BY <3>1, HasLeast
  <2>2. k \in 0..m /\ f[k] # g[k] /\ k \in 0..Len(name)
    BY <1>2, <2>1
  <2>3. k # 0
    BY <1>2, <1>3, <1>4, <2>2 DEF Lengths
  <2>4. k - 1 \in 0..m /\ k - 1 < k /\ m + 1 - k \in 1..m /\ i + (m + 1 - k) - 1 = Len(name) + 1 - k
    BY <1>2, <2>2, <2>3
  <2>5. f[k - 1] = g[k - 1]
    <3>1. k - 1 \notin Apart
      <4> HIDE DEF Apart
      <4> QED
        BY <2>1, <2>2, <2>4
    <3> QED
      BY <2>4, <3>1
  <2>6. t[m + 1 - k] = name[Len(name) + 1 - k]
    BY <1>1, <2>4
  <2>7. f[k] = f[k - 1] + LabelSize[name[Len(name) + 1 - k]] + 1
    BY <1>3, <2>2, <2>3 DEF Lengths
  <2>8. g[k] = g[k - 1] + LabelSize[t[m + 1 - k]] + 1
    BY <1>1, <1>4, <2>2, <2>3 DEF Lengths
  <2> QED
    BY <2>2, <2>5, <2>6, <2>7, <2>8
<1>8. g[m] = f[m]
  <2>1. m \in 0..m
    BY <1>2
  <2> QED
    BY <1>7, <2>1
<1>9. f[m] <= f[Len(name)] /\ (m < Len(name) => f[m] < f[Len(name)])
  <2>1. m \in 0..Len(name) /\ Len(name) \in 0..Len(name) /\ (m = Len(name) \/ m < Len(name))
    BY <1>2
  <2> QED
    BY <1>5, <2>1
<1>10. f[Len(name)] \in Nat
  BY <1>2, <1>5
<1>11. i > 1 => m < Len(name)
  BY <1>2
<1> HIDE DEF m
<1> QED
  BY <1>3, <1>4, <1>6, <1>8, <1>9, <1>10, <1>11 DEF t

LEMMA InnermostIsRight == RoutesTypes => InnermostZone
<1> SUFFICES ASSUME RoutesTypes, NEW query \in Query
             PROVE  LET i == find_zone(query)
                    IN IF i = 0 THEN \A j \in DOMAIN zones : ~is_match(zones[j], query)
                       ELSE /\ is_match(zones[i], query)
                            /\ \A j \in DOMAIN zones :
                                  is_match(zones[j], query) => /\ is_match(zones[j], zones[i])
                                                               /\ j > i => zones[j] # zones[i]
  BY Zenon DEF InnermostZone
<1> DEFINE L == DOMAIN LabelSize
           matching == {i \in DOMAIN zones : is_match(zones[i], query)}
           longest == {i \in matching :
                          \A j \in matching : TextLength(zones[j]) <= TextLength(zones[i])}
<1>1. query \in Seq(L) /\ Len(query) \in Nat
  BY NameAssumption
<1>2. /\ DOMAIN zones = 1..Len(zones) /\ Len(zones) \in Nat
      /\ \A i \in DOMAIN zones : zones[i] \in Seq(L)
  BY DEF RoutesTypes
<1>3. \A i \in matching : \E a \in 1..(Len(query) + 1) : zones[i] = From(query, a)
  BY <1>1, <1>2, ZoneMatchIs
<1>4. \A i \in matching : /\ TextLength(zones[i]) \in Int /\ TextLength(query) \in Int
                          /\ TextLength(zones[i]) <= TextLength(query)
  <2> SUFFICES ASSUME NEW i \in matching
               PROVE  /\ TextLength(zones[i]) \in Int /\ TextLength(query) \in Int
                      /\ TextLength(zones[i]) <= TextLength(query)
    OBVIOUS
  <2>1. PICK a \in 1..(Len(query) + 1) : zones[i] = From(query, a)
    BY <1>3
  <2> HIDE DEF matching, L
  <2> QED
    BY <1>1, <2>1, TailIsShorter DEF L
<1>5. \A i \in DOMAIN zones : i \in Nat /\ i <= Len(zones) /\ i > 0
  BY <1>2
<1>6. CASE matching = {}
  BY <1>6 DEF find_zone
<1>7. CASE matching # {}
  <2>1. longest # {}
    <3> DEFINE Left == {TextLength(query) - TextLength(zones[i]) : i \in matching}
    <3> HIDE DEF matching
    <3>1. Left \in SUBSET Nat /\ Left # {}
      <4>1. \A i \in matching : TextLength(query) - TextLength(zones[i]) \in Nat
        BY <1>4
      <4> QED
        BY <1>7, <4>1
    <3>2. PICK n \in Left : \A k \in Left : n <= k
      <4> HIDE DEF Left
      <4> QED
        BY <3>1, HasLeast
    <3>3. PICK i \in matching : n = TextLength(query) - TextLength(zones[i])
      BY <3>2
    <3>4. ASSUME NEW j \in matching PROVE TextLength(zones[j]) <= TextLength(zones[i])
      <4>1. TextLength(query) - TextLength(zones[i]) <= TextLength(query) - TextLength(zones[j])
        BY <3>2, <3>3
      <4> QED
        BY <1>4, <4>1
    <3> QED
      BY <3>4
  <2>2. \E i \in longest : \A j \in longest : j <= i
    <3> DEFINE Rest == {Len(zones) - i : i \in longest}
    <3>1. \A i \in longest : i \in Nat /\ i <= Len(zones)
      BY <1>5
    <3> HIDE DEF longest
    <3>2. Rest \in SUBSET Nat /\ Rest # {}
      BY <1>2, <2>1, <3>1
    <3>3. PICK n \in Rest : \A k \in Rest : n <= k
      <4> HIDE DEF Rest
      <4> QED
        BY <3>2, HasLeast
    <3>4. PICK i \in longest : n = Len(zones) - i
      BY <3>3
    <3>5. ASSUME NEW j \in longest PROVE j <= i
      <4>1. Len(zones) - i <= Len(zones) - j
        BY <3>3, <3>4
      <4> QED
        BY <1>2, <3>1, <4>1
    <3> QED
      BY <3>5
  <2>3. PICK i : i = find_zone(query)
    OBVIOUS
  <2>4. i \in longest /\ \A j \in longest : j <= i
    <3>1. i = CHOOSE k \in longest : \A j \in longest : j <= k
      BY <1>7, <2>3 DEF find_zone
    <3> HIDE DEF longest
    <3> QED
      BY <2>2, <3>1
  <2>5. i \in matching /\ i # 0 /\ is_match(zones[i], query) /\ i \in DOMAIN zones
    BY <1>5, <2>4
  <2>6. ASSUME NEW j \in DOMAIN zones, is_match(zones[j], query)
        PROVE  /\ is_match(zones[j], zones[i])
               /\ j > i => zones[j] # zones[i]
    <3>1. j \in matching /\ TextLength(zones[j]) <= TextLength(zones[i])
      BY <2>4, <2>6
    <3>2. PICK a \in 1..(Len(query) + 1) : zones[i] = From(query, a)
      BY <1>3, <2>5
    <3>3. PICK b \in 1..(Len(query) + 1) : zones[j] = From(query, b)
      BY <1>3, <3>1
    <3>4. zones[i] \in Seq(L) /\ zones[j] \in Seq(L) /\ a \in Nat /\ b \in Nat
      BY <1>1, <1>2, <2>5
    <3>5. a <= b
      <4> SUFFICES ASSUME b < a PROVE FALSE
        BY <3>4
      <4>1. a \in b..(Len(query) + 1)
        BY <1>1, <3>4
      <4>2. zones[i] = From(zones[j], a - b + 1)
        BY <1>1, <3>2, <3>3, <4>1, TailOfFrom
      <4>3. a - b + 1 \in 1..(Len(zones[j]) + 1) /\ a - b + 1 > 1
        <5>1. Len(zones[j]) = Len(query) - b + 1
          BY <1>1, <3>3, FromIs
        <5> QED
          BY <1>1, <3>4, <4>1, <5>1
      <4>4. TextLength(zones[i]) < TextLength(zones[j])
        BY <3>4, <4>2, <4>3, TailIsShorter
      <4> QED
        BY <1>4, <2>5, <3>1, <4>4
    <3>6. is_match(zones[j], zones[i])
      <4>1. b \in a..(Len(query) + 1)
        BY <1>1, <3>4, <3>5
      <4>2. zones[j] = From(zones[i], b - a + 1)
        BY <1>1, <3>2, <3>3, <4>1, TailOfFrom
      <4>3. b - a + 1 \in 1..(Len(zones[i]) + 1)
        <5>1. Len(zones[i]) = Len(query) - a + 1
          BY <1>1, <3>2, FromIs
        <5> QED
          BY <1>1, <3>4, <4>1, <5>1
      <4> QED
        BY <3>4, <4>2, <4>3, ZoneMatchIs
    <3>7. ASSUME j > i PROVE zones[j] # zones[i]
      <4> SUFFICES ASSUME zones[j] = zones[i] PROVE FALSE
        OBVIOUS
      <4>1. j \in longest
        BY <2>4, <3>1
      <4>2. j <= i /\ i \in Nat /\ j \in Nat
        BY <1>5, <2>4, <2>5, <4>1
      <4> QED
        BY <3>7, <4>2
    <3> QED
      BY <3>6, <3>7
  <2> HIDE DEF matching, longest
  <2> QED
    BY <2>3, <2>5, <2>6
<1> QED
  BY <1>6, <1>7

\* The tables of routes hold names, whatever is added and cleared.
THEOREM RoutesInvariant == RoutesSpec => []RoutesTypes
<1>1. NoRoutes => RoutesTypes
  BY DEF NoRoutes, RoutesTypes
<1>2. RoutesTypes /\ [RoutesNext]_routes => RoutesTypes'
  <2> SUFFICES ASSUME RoutesTypes, [RoutesNext]_routes PROVE RoutesTypes'
    OBVIOUS
  <2>1. ASSUME NEW p \in Patterns, add_pattern(p) PROVE RoutesTypes'
    BY <2>1, NamesAre DEF add_pattern, RoutesTypes
  <2>2. CASE clear
    BY <2>2 DEF clear, RoutesTypes
  <2>3. ASSUME NEW z \in Zones, add_zone(z) PROVE RoutesTypes'
    BY <2>3, NamesAre DEF add_zone, RoutesTypes
  <2>4. CASE UNCHANGED routes
    BY <2>4 DEF routes, RoutesTypes
  <2> QED
    BY <2>1, <2>2, <2>3, <2>4 DEF RoutesNext
<1> QED
  BY <1>1, <1>2, PTL DEF RoutesSpec

\* For every table of patterns and list of zones and for every query, of any number
\* of labels: find_longest_match returns a pattern that covers the name and compares
\* most labels, find_all_matches all of them, once and in order, and find_zone the
\* innermost zone, though it compares lengths of text.
THEOREM LookupsStayRight == RoutesSpec => []LookupsAreRight
<1>1. RoutesTypes => LookupsAreRight
  BY LongestMatchIsRight, MatchersAreRight, InnermostIsRight, Zenon DEF LookupsAreRight
<1> QED
  BY <1>1, RoutesInvariant, PTL

-----------------------------------------------------------------------------
(* Passes over a text *)

Passes(f, limit, g, start) ==
    f = [n \in 0..limit |-> IF n = 0 THEN start ELSE g[<<f[n - 1], n>>]]

\* The steps of a pass over a text exist, one after the other.
LEMMA PassExists ==
    ASSUME NEW limit \in Nat, NEW V, NEW g \in [V \X (1..limit) -> V], NEW start \in V
    PROVE  \E f : Passes(f, limit, g, start) /\ f \in [0..limit -> V]
<1> DEFINE Upto(f, k) == /\ f \in [0..k -> V]
                         /\ f = [n \in 0..k |-> IF n = 0 THEN start ELSE g[<<f[n - 1], n>>]]
           Missing == {k \in 0..limit : ~ \E f : Upto(f, k)}
<1>1. Missing = {}
  <2> SUFFICES ASSUME Missing # {} PROVE FALSE
    OBVIOUS
  <2>1. PICK k \in Missing : \A j \in Missing : k <= j
    <3>1. Missing \in SUBSET Nat
      OBVIOUS
    <3> HIDE DEF Missing
    <3> QED
      BY <3>1, HasLeast
  <2>2. CASE k = 0
    <3> DEFINE f == [n \in 0..0 |-> start]
    <3>1. f[0] = start /\ DOMAIN f = 0..0 /\ 0..0 = {0}
      OBVIOUS
    <3>2. f \in [0..0 -> V]
      OBVIOUS
    <3>3. f = [n \in 0..0 |-> IF n = 0 THEN start ELSE g[<<f[n - 1], n>>]]
      BY <3>1
    <3> QED
      BY <2>1, <2>2, <3>2, <3>3
  <2>3. CASE k # 0
    <3>1. k - 1 \in 0..limit /\ k - 1 \notin Missing /\ k \in 1..limit
      <4>1. k \in 0..limit
        OBVIOUS
      <4>2. k \in 1..limit /\ k - 1 \in 0..limit /\ ~(k <= k - 1)
        BY <2>3, <4>1
      <4> HIDE DEF Missing
      <4> QED
        BY <2>1, <4>2
    <3>2. PICK f : Upto(f, k - 1)
      BY <3>1
    <3> DEFINE h == [n \in 0..k |-> IF n = k THEN g[<<f[k - 1], k>>] ELSE f[n]]
    <3>3. f[k - 1] \in V /\ g[<<f[k - 1], k>>] \in V
      BY <3>1, <3>2
    <3>4. h \in [0..k -> V]
      <4>1. ASSUME NEW n \in 0..k
            PROVE  (IF n = k THEN g[<<f[k - 1], k>>] ELSE f[n]) \in V
        <5>1. n # k => n \in 0..(k - 1)
          BY <3>1
        <5> QED
          BY <3>2, <3>3, <5>1
      <4> QED
        BY <4>1
    <3>5. ASSUME NEW n \in 0..k
          PROVE  h[n] = IF n = 0 THEN start ELSE g[<<h[n - 1], n>>]
      <4>1. CASE n = k
        <5>1. h[n - 1] = f[k - 1] /\ h[n] = g[<<f[k - 1], k>>] /\ n # 0
          BY <3>1, <4>1
        <5> QED
          BY <4>1, <5>1
      <4>2. CASE n # k
        <5>1. n \in 0..(k - 1) /\ h[n] = f[n]
          BY <3>1, <4>2
        <5>2. n # 0 => n - 1 \in 0..k /\ n - 1 # k /\ h[n - 1] = f[n - 1]
          BY <3>1, <5>1
        <5>3. f[n] = IF n = 0 THEN start ELSE g[<<f[n - 1], n>>]
          BY <3>2, <5>1
        <5> HIDE DEF h
        <5> QED
          BY <5>1, <5>2, <5>3
      <4> QED
        BY <4>1, <4>2
    <3>6. Upto(h, k)
      <4>1. DOMAIN h = 0..k /\ h = [n \in 0..k |-> h[n]]
        OBVIOUS
      <4> HIDE DEF h
      <4> QED
        BY <3>4, <3>5, <4>1
    <3> QED
      BY <2>1, <3>6
  <2> QED
    BY <2>2, <2>3
<1>2. limit \in 0..limit /\ limit \notin Missing
  <2>1. limit \in 0..limit
    OBVIOUS
  <2> HIDE DEF Missing
  <2> QED
    BY <1>1, <2>1
<1>3. PICK f : Upto(f, limit)
  BY <1>2
<1> QED
  BY <1>3 DEF Passes

-----------------------------------------------------------------------------
(* Loops whose states are records *)

Reads(f, S, Going, next) == f = [s \in S |-> IF s \in Going THEN f[next[s]] ELSE s]

\* A loop arrives at the states from which it goes nowhere: the least relation closed
\* under its steps says where.
LEMMA ReadExists ==
    ASSUME NEW S, NEW Going \in SUBSET S, NEW next \in [Going -> S]
    PROVE  \E f : Reads(f, S, Going, next)
<1> DEFINE Closed(R) == /\ \A s \in S : s \notin Going => <<s, s>> \in R
                        /\ \A s \in Going, v \in S : <<next[s], v>> \in R => <<s, v>> \in R
           Least == {p \in S \X S : \A R \in SUBSET (S \X S) : Closed(R) => p \in R}
           Endings(s) == {v \in S : <<s, v>> \in Least}
<1>1. Closed(Least)
  OBVIOUS
<1>2. ASSUME NEW p \in Least,
             p[1] \notin Going => p[1] # p[2],
             p[1] \in Going => <<next[p[1]], p[2]>> \notin Least
      PROVE  FALSE
  <2> DEFINE Less == Least \ {p}
  <2>1. Less \in SUBSET (S \X S)
    OBVIOUS
  <2>2. p \in S \X S /\ p = <<p[1], p[2]>> /\ p[1] \in S /\ p[2] \in S
    OBVIOUS
  <2>3. \A s \in S : s \notin Going => <<s, s>> \in Less
    <3> TAKE s \in S
    <3> HAVE s \notin Going
    <3>1. <<s, s>> \in Least
      BY <1>1
    <3>2. <<s, s>> # p
      BY <1>2, <2>2
    <3> QED
      BY <3>1, <3>2
  <2>4. \A s \in Going, v \in S : <<next[s], v>> \in Less => <<s, v>> \in Less
    <3> TAKE s \in Going, v \in S
    <3> HAVE <<next[s], v>> \in Less
    <3>1. <<next[s], v>> \in Least /\ <<s, v>> \in Least
      BY <1>1
    <3>2. <<s, v>> # p
      BY <1>2, <2>2, <3>1
    <3> QED
      BY <3>1, <3>2
  <2>5. Closed(Less)
    BY <2>3, <2>4
  <2>6. p \in Less
    BY <2>1, <2>5
  <2> QED
    BY <2>6
<1>3. Least \subseteq S \X S
  OBVIOUS
<1>4. \A s \in S \ Going : Endings(s) = {s}
  <2> TAKE s \in S \ Going
  <2>1. <<s, s>> \in Least
    BY <1>1
  <2>2. ASSUME NEW v \in Endings(s)
        PROVE  v = s
    <3>1. <<s, v>> \in Least /\ <<s, v>>[1] = s /\ <<s, v>>[2] = v
      OBVIOUS
    <3> HIDE DEF Least
    <3> QED
      BY <1>2, <3>1
  <2> HIDE DEF Least
  <2> QED
    BY <2>1, <2>2
<1>5. \A s \in Going : Endings(s) = Endings(next[s])
  <2> TAKE s \in Going
  <2>1. \A v \in S : <<next[s], v>> \in Least => <<s, v>> \in Least
    BY <1>1
  <2>2. ASSUME NEW v \in S, <<s, v>> \in Least
        PROVE  <<next[s], v>> \in Least
    <3>1. <<s, v>>[1] = s /\ <<s, v>>[2] = v
      OBVIOUS
    <3> HIDE DEF Least
    <3> QED
      BY <1>2, <2>2, <3>1
  <2> HIDE DEF Least
  <2> QED
    BY <2>1, <2>2
<1> HIDE DEF Endings, Closed, Least
<1> DEFINE f == [s \in S |-> CHOOSE v : v \in Endings(s)]
<1>6. \A s \in Going : f[s] = f[next[s]]
  <2> TAKE s \in Going
  <2>1. s \in S /\ next[s] \in S
    OBVIOUS
  <2>2. f[s] = (CHOOSE v : v \in Endings(s)) /\ f[next[s]] = (CHOOSE v : v \in Endings(next[s]))
    BY <2>1
  <2>3. Endings(s) = Endings(next[s])
    BY <1>5
  <2> HIDE DEF f
  <2> QED
    BY <2>2, <2>3
<1>7. \A s \in S \ Going : f[s] = s
  <2> TAKE s \in S \ Going
  <2>1. \A v : v \in Endings(s) <=> v = s
    BY <1>4
  <2>2. (CHOOSE v : v \in Endings(s)) = s
    BY <2>1
  <2> QED
    BY <2>2
<1>8. f = [s \in S |-> IF s \in Going THEN f[next[s]] ELSE s]
  <2> DEFINE g == [s \in S |-> IF s \in Going THEN f[next[s]] ELSE s]
  <2>1. \A s \in S : f[s] = g[s]
    <3> HIDE DEF f
    <3> QED
      BY <1>6, <1>7
  <2> QED
    BY <2>1
<1> HIDE DEF f
<1> QED
  BY <1>8 DEF Reads

\* A loop each of whose turns has less left to do comes to an end.
LEMMA LoopEnds ==
    ASSUME NEW Inv, Inv # {}, NEW left \in [Inv -> Nat], NEW Going,
           \A s \in Inv : s \in Going => \E t \in Inv : t \notin Going \/ left[t] < left[s]
    PROVE  \E s \in Inv : s \notin Going
<1> DEFINE Lefts == {left[s] : s \in Inv}
<1>1. Lefts \in SUBSET Nat /\ Lefts # {}
  OBVIOUS
<1>2. PICK n \in Lefts : \A m \in Lefts : n <= m
  <2> HIDE DEF Lefts
  <2> QED
    BY <1>1, HasLeast
<1>3. PICK s \in Inv : n = left[s]
  OBVIOUS
<1>4. \A t \in Inv : ~(left[t] < left[s])
  <2> TAKE t \in Inv
  <2>1. left[s] <= left[t] /\ left[s] \in Nat /\ left[t] \in Nat
    BY <1>2, <1>3
  <2> QED
    BY <2>1
<1> QED
  BY <1>4
-----------------------------------------------------------------------------
(* Sequences put together *)

LEMMA SliceIs ==
    ASSUME NEW V, NEW s \in Seq(V), NEW p \in Nat, NEW n \in Nat, p + n <= Len(s)
    PROVE  /\ SubSeq(s, p + 1, p + n) \in Seq(V) /\ Len(SubSeq(s, p + 1, p + n)) = n
           /\ \A i \in 1..n : SubSeq(s, p + 1, p + n)[i] = s[p + i] /\ p + i \in 1..Len(s)
<1>1. Len(s) \in Nat /\ \A i \in 1..n : p + i \in 1..Len(s) /\ p + 1 + i - 1 = p + i
  OBVIOUS
<1>2. SubSeq(s, p + 1, p + n) \in Seq(V)
  <2>1. \A i \in (p + 1)..(p + n) : i \in 1..Len(s)
    BY <1>1
  <2> QED
    BY <1>1, <2>1
<1>3. Len(SubSeq(s, p + 1, p + n)) = n
  BY <1>1
<1>4. \A i \in 1..n : SubSeq(s, p + 1, p + n)[i] = s[p + 1 + i - 1]
  BY <1>1
<1> QED
  BY <1>1, <1>2, <1>3, <1>4

LEMMA JoinIs ==
    ASSUME NEW s \in Seq(Nat), NEW t \in Seq(Nat)
    PROVE  /\ s \o t \in Seq(Nat) /\ Len(s \o t) = Len(s) + Len(t)
           /\ Len(s) \in Nat /\ Len(t) \in Nat
           /\ \A i \in 1..Len(s) : (s \o t)[i] = s[i]
           /\ \A i \in 1..Len(t) : (s \o t)[Len(s) + i] = t[i]
  OBVIOUS

LEMMA Within ==
    ASSUME NEW a \in Nat, NEW b \in Nat, NEW c, c = a + b, NEW n \in Nat, c <= n
    PROVE  /\ \A j \in 1..b : a + j \in 1..n
           /\ \A d \in Nat : c <= n + d
  OBVIOUS

Flattens(f, seqs) == f = [i \in 1..Len(seqs) |-> IF i = 1 THEN seqs[i] ELSE f[i - 1] \o seqs[i]]

LEMMA FlattenExists ==
    ASSUME NEW seqs \in Seq(Seq(Nat)), Len(seqs) > 0
    PROVE  \E f \in [1..Len(seqs) -> Seq(Nat)] : Flattens(f, seqs)
<1> DEFINE V == Seq(Nat)
           limit == Len(seqs) - 1
           g == [p \in V \X (1..limit) |-> p[1] \o seqs[p[2] + 1]]
<1>1. limit \in Nat /\ seqs[1] \in V /\ \A n \in 1..limit : n + 1 \in 1..Len(seqs)
  OBVIOUS
<1>2. g \in [V \X (1..limit) -> V]
  <2>1. ASSUME NEW p \in V \X (1..limit)
        PROVE  p[1] \o seqs[p[2] + 1] \in V
    <3>1. p[1] \in Seq(Nat) /\ p[2] + 1 \in 1..Len(seqs) /\ seqs[p[2] + 1] \in Seq(Nat)
      BY <1>1
    <3> QED
      BY <3>1, JoinIs
  <2> QED
    BY <2>1
<1>3. \A v \in V, n \in 1..limit : g[<<v, n>>] = v \o seqs[n + 1]
  OBVIOUS
<1> HIDE DEF V, g, limit
<1>4. PICK h : Passes(h, limit, g, seqs[1]) /\ h \in [0..limit -> V]
  BY <1>1, <1>2, PassExists
<1> DEFINE f == [i \in 1..Len(seqs) |-> h[i - 1]]
<1>5. \A i \in 1..Len(seqs) : i - 1 \in 0..limit /\ f[i] = h[i - 1]
  BY DEF limit
<1>6. f \in [1..Len(seqs) -> V]
  BY <1>4, <1>5
<1>7. ASSUME NEW i \in 1..Len(seqs)
      PROVE  f[i] = IF i = 1 THEN seqs[i] ELSE f[i - 1] \o seqs[i]
  <2>1. CASE i = 1
    <3>1. f[1] = h[0] /\ 0 \in 0..limit
      BY <1>5, <2>1
    <3> QED
      BY <1>4, <2>1, <3>1 DEF Passes
  <2>2. CASE i # 1
    <3>1. /\ i - 1 \in 1..limit /\ i - 1 \in 0..limit /\ i - 1 \in 1..Len(seqs) /\ i - 1 # 0
          /\ (i - 1) - 1 \in 0..limit /\ (i - 1) + 1 = i
      BY <2>2 DEF limit
    <3>2. f[i] = h[i - 1] /\ f[i - 1] = h[(i - 1) - 1]
      BY <1>5, <3>1
    <3>3. h[i - 1] = g[<<h[(i - 1) - 1], i - 1>>]
      BY <1>4, <3>1 DEF Passes
    <3>4. g[<<h[(i - 1) - 1], i - 1>>] = h[(i - 1) - 1] \o seqs[(i - 1) + 1]
      BY <1>3, <1>4, <3>1
    <3> HIDE DEF f
    <3> QED
      BY <2>2, <3>1, <3>2, <3>3, <3>4
  <2> QED
    BY <2>1, <2>2
<1>8. DOMAIN f = 1..Len(seqs) /\ f = [i \in 1..Len(seqs) |-> f[i]]
  OBVIOUS
<1> HIDE DEF f
<1>9. Flattens(f, seqs)
  BY <1>7, <1>8 DEF Flattens
<1> QED
  BY <1>6, <1>9 DEF V

\* Where each of the sequences starts in the whole.
Pieces(pos, seqs, whole) ==
    /\ whole \in Seq(Nat)
    /\ pos \in [1..(Len(seqs) + 1) -> Nat]
    /\ pos[1] = 0 /\ pos[Len(seqs) + 1] = Len(whole)
    /\ \A i \in 1..Len(seqs) :
          /\ pos[i + 1] = pos[i] + Len(seqs[i]) /\ pos[i + 1] <= Len(whole)
          /\ \A j \in 1..Len(seqs[i]) : whole[pos[i] + j] = seqs[i][j]

LEMMA FlattenPieces ==
    ASSUME NEW seqs \in Seq(Seq(Nat))
    PROVE  \E pos : Pieces(pos, seqs, FlattenSeq(seqs))
<1>1. CASE Len(seqs) = 0
  <2> DEFINE pos == [i \in 1..1 |-> 0]
  <2>1. FlattenSeq(seqs) = seqs /\ seqs = <<>>
    BY <1>1 DEF FlattenSeq
  <2>2. pos \in [1..1 -> Nat] /\ pos[1] = 0
    OBVIOUS
  <2> HIDE DEF pos
  <2>3. Pieces(pos, seqs, <<>>)
    BY <1>1, <2>1, <2>2 DEF Pieces
  <2> QED
    BY <2>1, <2>3
<1>2. CASE Len(seqs) > 0
  <2> DEFINE f == CHOOSE f : Flattens(f, seqs)
             size == Len(seqs)
             pos == [i \in 1..(size + 1) |-> IF i = 1 THEN 0 ELSE Len(f[i - 1])]
  <2>1. f \in [1..size -> Seq(Nat)] /\ Flattens(f, seqs)
    <3>1. PICK h \in [1..size -> Seq(Nat)] : Flattens(h, seqs)
      BY <1>2, FlattenExists
    <3>2. Flattens(f, seqs)
      BY <3>1
    <3>3. \A n \in 1..size : f[n] = h[n]
      <4> DEFINE Other == {n \in 1..size : f[n] # h[n]}
      <4> SUFFICES ASSUME Other # {} PROVE FALSE
        OBVIOUS
      <4>1. PICK n \in Other : \A m \in Other : n <= m
        <5>1. Other \in SUBSET Nat
          OBVIOUS
        <5> HIDE DEF Other
        <5> QED
          BY <5>1, HasLeast
      <4>2. n # 1 => n - 1 \in 1..size /\ f[n - 1] = h[n - 1]
        <5>1. n # 1 => n - 1 \in 1..size /\ ~(n <= n - 1)
          OBVIOUS
        <5> HIDE DEF f
        <5> QED
          BY <4>1, <5>1
      <4>3. /\ f[n] = IF n = 1 THEN seqs[n] ELSE f[n - 1] \o seqs[n]
            /\ h[n] = IF n = 1 THEN seqs[n] ELSE h[n - 1] \o seqs[n]
        <5> HIDE DEF f
        <5> QED
          BY <3>1, <3>2 DEF Flattens
      <4> HIDE DEF f
      <4> QED
        BY <4>2, <4>3
    <3>4. f = h
      <4>1. DOMAIN f = 1..size /\ DOMAIN h = 1..size /\ f = [n \in 1..size |-> f[n]]
        <5> HIDE DEF f
        <5> QED
          BY <3>1, <3>2 DEF Flattens
      <4> HIDE DEF f
      <4> QED
        BY <3>1, <3>3, <4>1
    <3> HIDE DEF f
    <3> QED
      BY <3>1, <3>4
  <2>2. FlattenSeq(seqs) = f[size]
    BY <1>2 DEF FlattenSeq, Flattens
  <2> HIDE DEF f
  <2>3. /\ size \in Nat /\ size \in 1..size
        /\ \A i \in 1..size : f[i] \in Seq(Nat) /\ seqs[i] \in Seq(Nat) /\ Len(f[i]) \in Nat
        /\ \A i \in 1..size : f[i] = IF i = 1 THEN seqs[i] ELSE f[i - 1] \o seqs[i]
    <3>1. size \in Nat /\ size \in 1..size
      BY <1>2
    <3>2. \A i \in 1..size : f[i] \in Seq(Nat) /\ seqs[i] \in Seq(Nat)
      <4>1. \A i \in 1..size : seqs[i] \in Seq(Nat)
        OBVIOUS
      <4>2. \A i \in 1..size : f[i] \in Seq(Nat)
        <5> HIDE DEF size
        <5> QED
          BY <2>1
      <4> QED
        BY <4>1, <4>2
    <3>3. \A i \in 1..size : f[i] = IF i = 1 THEN seqs[i] ELSE f[i - 1] \o seqs[i]
      BY <2>1 DEF Flattens
    <3>4. \A i \in 1..size : Len(f[i]) \in Nat
      BY <3>2
    <3> HIDE DEF size
    <3> QED
      BY <3>1, <3>2, <3>3, <3>4
  <2> HIDE DEF size
  <2>4. pos \in [1..(size + 1) -> Nat]
    <3>1. ASSUME NEW i \in 1..(size + 1)
          PROVE  (IF i = 1 THEN 0 ELSE Len(f[i - 1])) \in Nat
      <4>1. i # 1 => i - 1 \in 1..size
        BY <2>3
      <4> QED
        BY <2>3, <4>1
    <3> QED
      BY <3>1
  <2>5. /\ pos[1] = 0
        /\ \A i \in 1..size : i + 1 \in 1..(size + 1) /\ pos[i + 1] = Len(f[i])
    <3>1. \A i \in 1..size : i + 1 \in 1..(size + 1) /\ i + 1 # 1 /\ (i + 1) - 1 = i
      BY <2>3
    <3>2. 1 \in 1..(size + 1)
      BY <2>3
    <3> QED
      BY <3>1, <3>2
  <2> HIDE DEF pos
  <2>6. \A i \in 1..size :
           /\ pos[i + 1] = pos[i] + Len(seqs[i])
           /\ \A j \in 1..Len(seqs[i]) : f[i][pos[i] + j] = seqs[i][j]
           /\ i # 1 => i - 1 \in 1..size /\ \A j \in 1..Len(f[i - 1]) : f[i][j] = f[i - 1][j]
    <3> TAKE i \in 1..size
    <3>1. CASE i = 1
      BY <2>3, <2>5, <3>1
    <3>2. CASE i # 1
      <4>1. i - 1 \in 1..size /\ (i - 1) + 1 = i
        BY <2>3, <3>2
      <4>2. f[i] = f[i - 1] \o seqs[i] /\ f[i - 1] \in Seq(Nat) /\ seqs[i] \in Seq(Nat)
        BY <2>3, <3>2, <4>1
      <4>3. pos[i] = Len(f[i - 1]) /\ pos[i + 1] = Len(f[i])
        BY <2>5, <4>1
      <4>4. /\ Len(f[i]) = Len(f[i - 1]) + Len(seqs[i])
            /\ \A j \in 1..Len(f[i - 1]) : f[i][j] = f[i - 1][j]
            /\ \A j \in 1..Len(seqs[i]) : f[i][Len(f[i - 1]) + j] = seqs[i][j]
        <5> DEFINE s == f[i - 1]
                   t == seqs[i]
        <5>1. s \in Seq(Nat) /\ t \in Seq(Nat) /\ f[i] = s \o t
          BY <4>2
        <5> HIDE DEF s, t
        <5>2. /\ Len(s \o t) = Len(s) + Len(t)
              /\ \A j \in 1..Len(s) : (s \o t)[j] = s[j]
              /\ \A j \in 1..Len(t) : (s \o t)[Len(s) + j] = t[j]
          BY <5>1, JoinIs
        <5> QED
          BY <5>1, <5>2 DEF s, t
      <4> QED
        BY <4>1, <4>3, <4>4
    <3> QED
      BY <3>1, <3>2
  <2> DEFINE Missing == {k \in 1..size : ~ \A i \in 1..k :
                 /\ pos[i + 1] <= Len(f[k])
                 /\ \A j \in 1..Len(seqs[i]) : f[k][pos[i] + j] = seqs[i][j]}
  <2>7. Missing = {}
    <3> SUFFICES ASSUME Missing # {} PROVE FALSE
      OBVIOUS
    <3>1. PICK k \in Missing : \A m \in Missing : k <= m
      <4>1. Missing \in SUBSET Nat
        OBVIOUS
      <4> HIDE DEF Missing
      <4> QED
        BY <4>1, HasLeast
    <3>2. PICK i \in 1..k : ~ (/\ pos[i + 1] <= Len(f[k])
                               /\ \A j \in 1..Len(seqs[i]) : f[k][pos[i] + j] = seqs[i][j])
      OBVIOUS
    <3>3. k \in 1..size
      OBVIOUS
    <3>4. CASE i = k
      BY <2>3, <2>5, <2>6, <3>2, <3>3, <3>4
    <3>5. CASE i # k
      <4>1. k - 1 \in 1..size /\ i \in 1..(k - 1) /\ k - 1 \notin Missing
        <5>1. k - 1 \in 1..size /\ i \in 1..(k - 1) /\ ~(k <= k - 1)
          BY <2>3, <3>3, <3>5
        <5> HIDE DEF Missing
        <5> QED
          BY <3>1, <5>1
      <4>2. /\ pos[i + 1] <= Len(f[k - 1])
            /\ \A j \in 1..Len(seqs[i]) : f[k - 1][pos[i] + j] = seqs[i][j]
        BY <4>1
      <4> HIDE DEF Missing
      <4>3. /\ pos[i] \in Nat /\ pos[i + 1] = pos[i] + Len(seqs[i]) /\ Len(seqs[i]) \in Nat
            /\ i \in 1..size
        <5>1. i \in 1..size /\ i \in 1..(size + 1)
          BY <2>3, <3>3
        <5>2. seqs[i] \in Seq(Nat)
          BY <2>3, <5>1
        <5>3. Len(seqs[i]) \in Nat
          BY <5>2
        <5> QED
          BY <2>4, <2>6, <5>1, <5>3
      <4>4. Len(f[k - 1]) \in Nat /\ Len(f[k]) \in Nat /\ Len(seqs[k]) \in Nat
        <5>1. seqs[k] \in Seq(Nat)
          BY <2>3, <3>3
        <5> QED
          BY <2>3, <3>3, <4>1, <5>1
      <4>5. \A j \in 1..Len(seqs[i]) : pos[i] + j \in 1..Len(f[k - 1])
        BY <4>2, <4>3, <4>4, Within
      <4>6. \A j \in 1..Len(f[k - 1]) : f[k][j] = f[k - 1][j]
        <5>1. k # 1
          BY <2>3, <3>3, <3>5
        <5> QED
          BY <2>6, <3>3, <5>1
      <4>7. Len(f[k]) = Len(f[k - 1]) + Len(seqs[k])
        <5>1. (k - 1) + 1 = k
          BY <2>3, <3>3
        <5>2. pos[k] = Len(f[k - 1]) /\ pos[k + 1] = Len(f[k])
          BY <2>5, <3>3, <4>1, <5>1
        <5> QED
          BY <2>6, <3>3, <5>2
      <4>8. pos[i + 1] <= Len(f[k])
        <5>1. pos[i + 1] <= Len(f[k - 1]) + Len(seqs[k])
          <6> DEFINE a == pos[i]
                     b == Len(seqs[i])
                     c == pos[i + 1]
                     n == Len(f[k - 1])
                     d == Len(seqs[k])
          <6>1. a \in Nat /\ b \in Nat /\ c = a + b /\ n \in Nat /\ c <= n /\ d \in Nat
            BY <4>2, <4>3, <4>4
          <6> HIDE DEF a, b, c, n, d
          <6>2. c <= n + d
            BY <6>1
          <6> QED
            BY <6>2 DEF c, n, d
        <5> QED
          BY <4>7, <5>1, Zenon
      <4>9. \A j \in 1..Len(seqs[i]) : f[k][pos[i] + j] = seqs[i][j]
        BY <4>2, <4>5, <4>6
      <4> QED
        BY <3>2, <4>8, <4>9
    <3> QED
      BY <3>4, <3>5
  <2>8. \A i \in 1..size :
           /\ pos[i + 1] <= Len(f[size])
           /\ \A j \in 1..Len(seqs[i]) : f[size][pos[i] + j] = seqs[i][j]
    <3>1. size \notin Missing
      BY <2>7
    <3> QED
      BY <2>3, <3>1
  <2>9. Pieces(pos, seqs, f[size])
    <3> USE DEF size
    <3>1. f[size] \in Seq(Nat) /\ pos[size + 1] = Len(f[size])
      BY <2>3, <2>5
    <3> QED
      BY <2>4, <2>5, <2>6, <2>8, <3>1 DEF Pieces
  <2> QED
    BY <2>2, <2>9
<1> QED
  <2>1. Len(seqs) \in Nat
    OBVIOUS
  <2> QED
    BY <1>1, <1>2, <2>1
-----------------------------------------------------------------------------
(* Escapes *)

LEMMA PrefixIs ==
    ASSUME NEW S, NEW s \in Seq(S), NEW n \in 0..Len(s)
    PROVE  /\ SubSeq(s, 1, n) \in Seq(S) /\ Len(SubSeq(s, 1, n)) = n
           /\ \A i \in 1..n : SubSeq(s, 1, n)[i] = s[i]
  OBVIOUS

LEMMA PrefixGrows ==
    ASSUME NEW S, NEW s \in Seq(S), NEW n \in 1..Len(s)
    PROVE  SubSeq(s, 1, n) = Append(SubSeq(s, 1, n - 1), s[n])
  OBVIOUS

LEMMA PrefixOfAll ==
    ASSUME NEW S, NEW s \in Seq(S)
    PROVE  /\ SubSeq(s, 1, Len(s)) = s /\ SubSeq(s, 1, 0) = <<>>
           /\ Len(s) \in Nat /\ 0 \in 0..Len(s) /\ Len(s) \in 0..Len(s)
  OBVIOUS

Unescapes(f, label) ==
    f = [n \in 0..Len(label) |-> IF n = 0 THEN [bytes |-> <<>>, open |-> FALSE]
                                 ELSE UnescapeByte(f[n - 1], label[n])]

\* What the loop has unescaped, and whether an escape is open.
Passed == [bytes : Seq(Nat), open : BOOLEAN]

LEMMA UnescapeByteIs ==
    ASSUME NEW s \in Passed, NEW byte \in Nat
    PROVE  UnescapeByte(s, byte) \in Passed
<1>1. s.bytes \in Seq(Nat) /\ s.open \in BOOLEAN /\ (byte + 255) % 256 \in Nat
  BY DEF Passed
<1>2. Append(s.bytes, byte) \in Seq(Nat) /\ Append(s.bytes, (byte + 255) % 256) \in Seq(Nat)
  BY <1>1
<1> QED
  BY <1>1, <1>2 DEF UnescapeByte, Passed

LEMMA UnescapePlain ==
    ASSUME NEW bytes \in Seq(Nat), NEW byte \in Nat, byte # NAME_ESCAPE
    PROVE  UnescapeByte([bytes |-> bytes, open |-> FALSE], byte)
              = [bytes |-> Append(bytes, byte), open |-> FALSE]
  BY DEF UnescapeByte

LEMMA UnescapeOpens ==
    ASSUME NEW bytes \in Seq(Nat)
    PROVE  UnescapeByte([bytes |-> bytes, open |-> FALSE], NAME_ESCAPE) = [bytes |-> bytes, open |-> TRUE]
  BY DEF UnescapeByte

LEMMA UnescapeExists ==
    ASSUME NEW label \in Seq(Nat)
    PROVE  \E f : Unescapes(f, label)
<1> DEFINE g == [p \in Passed \X (1..Len(label)) |-> UnescapeByte(p[1], label[p[2]])]
           start == [bytes |-> <<>>, open |-> FALSE]
<1>1. Len(label) \in Nat /\ start \in Passed
  BY DEF Passed
<1>2. g \in [Passed \X (1..Len(label)) -> Passed]
  BY UnescapeByteIs
<1>3. \A s \in Passed, n \in 1..Len(label) : g[<<s, n>>] = UnescapeByte(s, label[n])
  OBVIOUS
<1> HIDE DEF g, start
<1>4. PICK f : Passes(f, Len(label), g, start) /\ f \in [0..Len(label) -> Passed]
  BY <1>1, <1>2, PassExists
<1>5. \A n \in 0..Len(label) : n # 0 => g[<<f[n - 1], n>>] = UnescapeByte(f[n - 1], label[n])
  <2> TAKE n \in 0..Len(label)
  <2>1. n # 0 => n - 1 \in 0..Len(label) /\ n \in 1..Len(label)
    BY <1>1
  <2> QED
    BY <1>3, <1>4, <2>1
<1>6. f = [n \in 0..Len(label) |-> IF n = 0 THEN start ELSE g[<<f[n - 1], n>>]]
  BY <1>4 DEF Passes
<1>7. f = [n \in 0..Len(label) |-> IF n = 0 THEN start ELSE UnescapeByte(f[n - 1], label[n])]
  BY <1>5, <1>6
<1> QED
  BY <1>7 DEF Unescapes, start

LEMMA UnescapedIs ==
    ASSUME NEW label \in Seq(Nat)
    PROVE  \E f : /\ Unescapes(f, label) /\ Unescaped(label) = f[Len(label)]
                  /\ f[0] = [bytes |-> <<>>, open |-> FALSE]
                  /\ \A n \in 1..Len(label) : f[n] = UnescapeByte(f[n - 1], label[n])
<1> DEFINE f == CHOOSE f : Unescapes(f, label)
<1>1. Unescapes(f, label)
  BY UnescapeExists
<1>2. Unescaped(label) = f[Len(label)]
  BY DEF Unescaped, Unescapes
<1> HIDE DEF f
<1>3. Len(label) \in Nat /\ 0 \in 0..Len(label) /\ \A n \in 1..Len(label) : n \in 0..Len(label) /\ n # 0
  OBVIOUS
<1>4. f[0] = [bytes |-> <<>>, open |-> FALSE] /\ \A n \in 1..Len(label) : f[n] = UnescapeByte(f[n - 1], label[n])
  BY <1>1, <1>3 DEF Unescapes
<1> QED
  BY <1>1, <1>2, <1>4

LEMMA UnescapedTyped ==
    ASSUME NEW label \in Seq(Nat)
    PROVE  Unescaped(label) \in Passed
<1>1. PICK f : /\ Unescapes(f, label) /\ Unescaped(label) = f[Len(label)]
               /\ f[0] = [bytes |-> <<>>, open |-> FALSE]
               /\ \A n \in 1..Len(label) : f[n] = UnescapeByte(f[n - 1], label[n])
  BY UnescapedIs
<1> DEFINE Bad == {n \in 0..Len(label) : f[n] \notin Passed}
<1>2. Len(label) \in Nat /\ \A n \in 1..Len(label) : label[n] \in Nat
  OBVIOUS
<1>3. Bad = {}
  <2> SUFFICES ASSUME Bad # {} PROVE FALSE
    OBVIOUS
  <2>1. PICK n \in Bad : \A m \in Bad : n <= m
    <3>1. Bad \in SUBSET Nat
      OBVIOUS
    <3> HIDE DEF Bad
    <3> QED
      BY <3>1, HasLeast
  <2>2. CASE n = 0
    <3>1. f[0] \in Passed
      <4> HIDE DEF Bad
      <4>1. [bytes |-> <<>>, open |-> FALSE] \in Passed
        BY DEF Passed
      <4> QED
        BY <1>1, <4>1
    <3> QED
      BY <2>2, <3>1
  <2>3. CASE n # 0
    <3>1. n \in 1..Len(label) /\ n - 1 \in 0..Len(label) /\ ~(n <= n - 1)
      BY <1>2, <2>3
    <3>2. f[n - 1] \in Passed
      BY <2>1, <3>1
    <3>3. f[n] \in Passed
      BY <1>1, <1>2, <3>1, <3>2, UnescapeByteIs
    <3> QED
      BY <3>3
  <2> QED
    BY <2>2, <2>3
<1>4. Len(label) \in 0..Len(label)
  BY <1>2
<1> QED
  BY <1>1, <1>3, <1>4

\* A label without escapes is what it was.
LEMMA PlainUnescaped ==
    ASSUME NEW label \in Seq(Nat), \A i \in 1..Len(label) : label[i] # NAME_ESCAPE
    PROVE  Unescaped(label) = [bytes |-> label, open |-> FALSE]
<1>1. PICK f : /\ Unescapes(f, label) /\ Unescaped(label) = f[Len(label)]
               /\ f[0] = [bytes |-> <<>>, open |-> FALSE]
               /\ \A n \in 1..Len(label) : f[n] = UnescapeByte(f[n - 1], label[n])
  BY UnescapedIs
<1> DEFINE Bad == {n \in 0..Len(label) : f[n] # [bytes |-> SubSeq(label, 1, n), open |-> FALSE]}
<1>2. Len(label) \in Nat /\ \A n \in 1..Len(label) : label[n] \in Nat
  OBVIOUS
<1>3. Bad = {}
  <2> SUFFICES ASSUME Bad # {} PROVE FALSE
    OBVIOUS
  <2>1. PICK n \in Bad : \A m \in Bad : n <= m
    <3>1. Bad \in SUBSET Nat
      OBVIOUS
    <3> HIDE DEF Bad
    <3> QED
      BY <3>1, HasLeast
  <2>2. CASE n = 0
    <3>1. SubSeq(label, 1, 0) = <<>>
      BY PrefixOfAll
    <3> QED
      BY <1>1, <2>2, <3>1
  <2>3. CASE n # 0
    <3>1. n \in 1..Len(label) /\ n - 1 \in 0..Len(label) /\ ~(n <= n - 1)
      BY <1>2, <2>3
    <3>2. f[n - 1] = [bytes |-> SubSeq(label, 1, n - 1), open |-> FALSE]
      BY <2>1, <3>1
    <3>3. f[n] = [bytes |-> Append(SubSeq(label, 1, n - 1), label[n]), open |-> FALSE]
      <4>1. f[n] = UnescapeByte([bytes |-> SubSeq(label, 1, n - 1), open |-> FALSE], label[n])
        BY <1>1, <3>1, <3>2
      <4>2. label[n] # NAME_ESCAPE
        BY <3>1
      <4>3. UnescapeByte([bytes |-> SubSeq(label, 1, n - 1), open |-> FALSE], label[n])
              = [bytes |-> Append(SubSeq(label, 1, n - 1), label[n]), open |-> FALSE]
        <5>1. SubSeq(label, 1, n - 1) \in Seq(Nat) /\ label[n] \in Nat
          BY <1>2, <3>1, PrefixIs
        <5> HIDE DEF Bad
        <5> QED
          BY <4>2, <5>1, UnescapePlain, Zenon
      <4> QED
        BY <4>1, <4>3, Zenon
    <3>4. SubSeq(label, 1, n) = Append(SubSeq(label, 1, n - 1), label[n])
      BY <3>1, PrefixGrows
    <3> QED
      BY <3>3, <3>4
  <2> QED
    BY <2>2, <2>3
<1>4. Len(label) \in 0..Len(label) /\ SubSeq(label, 1, Len(label)) = label
  BY <1>2, PrefixOfAll
<1> QED
  BY <1>1, <1>3, <1>4

\* What stands for a byte in an escaped label.
Escaped(byte) == IF byte \in {0, NAME_ESCAPE, Dot} THEN <<NAME_ESCAPE, byte + 1>> ELSE <<byte>>

LEMMA NarrowIs ==
    ASSUME NEW n \in Nat, NEW s \in Seq(0..n)
    PROVE  /\ s \in Seq(Nat) /\ Len(s) \in Nat /\ DOMAIN s = 1..Len(s)
           /\ \A i \in 1..Len(s) : s[i] \in 0..n /\ s[i] \in Nat
<1>1. Len(s) \in Nat /\ DOMAIN s = 1..Len(s) /\ s \in [1..Len(s) -> 0..n]
  OBVIOUS
<1>2. \A i \in 1..Len(s) : s[i] \in 0..n /\ s[i] \in Nat
  BY <1>1
<1>3. s \in [1..Len(s) -> Nat]
  BY <1>1
<1> QED
  BY <1>1, <1>2, <1>3

LEMMA EscapedIs ==
    ASSUME NEW byte \in 0..127
    PROVE  /\ Escaped(byte) \in Seq(Nat)
           /\ byte \in {0, NAME_ESCAPE, Dot} =>
                 /\ Len(Escaped(byte)) = 2 /\ Escaped(byte)[1] = NAME_ESCAPE
                 /\ (Escaped(byte)[2] + 255) % 256 = byte
           /\ byte \notin {0, NAME_ESCAPE, Dot} =>
                 Len(Escaped(byte)) = 1 /\ Escaped(byte)[1] = byte /\ byte # NAME_ESCAPE
<1>1. byte \in Nat /\ byte + 1 \in Nat /\ (byte + 1 + 255) % 256 = byte /\ NAME_ESCAPE \in Nat
  BY DEF NAME_ESCAPE
<1>2. CASE byte \in {0, NAME_ESCAPE, Dot}
  <2>1. Escaped(byte) = <<NAME_ESCAPE, byte + 1>>
    BY <1>2 DEF Escaped
  <2>2. <<NAME_ESCAPE, byte + 1>> \in Seq(Nat)
    BY <1>1
  <2> QED
    BY <1>1, <1>2, <2>1, <2>2
<1>3. CASE byte \notin {0, NAME_ESCAPE, Dot}
  <2>1. Escaped(byte) = <<byte>>
    BY <1>3 DEF Escaped
  <2>2. <<byte>> \in Seq(Nat)
    BY <1>1
  <2> QED
    BY <1>1, <1>3, <2>1, <2>2
<1> QED
  BY <1>2, <1>3

LEMMA EscapeIs ==
    ASSUME NEW label \in Seq(0..127)
    PROVE  \E pos, pieces : /\ Pieces(pos, pieces, escape_label(label))
                            /\ Len(pieces) = Len(label)
                            /\ \A i \in 1..Len(label) : pieces[i] = Escaped(label[i])
<1> DEFINE pieces == [i \in DOMAIN label |-> IF label[i] \in {0, NAME_ESCAPE, Dot}
                                             THEN <<NAME_ESCAPE, label[i] + 1>> ELSE <<label[i]>>]
<1>1. /\ DOMAIN label = 1..Len(label) /\ Len(label) \in Nat
      /\ \A i \in 1..Len(label) : label[i] \in 0..127
  <2> HIDE DEF pieces
  <2> QED
    BY NarrowIs
<1>2. \A i \in 1..Len(label) : pieces[i] = Escaped(label[i])
  BY <1>1 DEF Escaped
<1>3. \A i \in 1..Len(label) : pieces[i] \in Seq(Nat)
  <2> HIDE DEF pieces
  <2> TAKE i \in 1..Len(label)
  <2>1. label[i] \in 0..127
    BY <1>1
  <2>2. Escaped(label[i]) \in Seq(Nat)
    BY <2>1, EscapedIs, Zenon
  <2> QED
    BY <1>2, <2>2
<1>4. pieces = [i \in 1..Len(label) |-> pieces[i]]
  BY <1>1
<1>5. escape_label(label) = FlattenSeq(pieces)
  BY DEF escape_label
<1> HIDE DEF pieces
<1>6. pieces \in [1..Len(label) -> Seq(Nat)]
  BY <1>3, <1>4
<1>7. pieces \in Seq(Seq(Nat)) /\ Len(pieces) = Len(label)
  BY <1>1, <1>6
<1>8. PICK pos : Pieces(pos, pieces, FlattenSeq(pieces))
  BY <1>7, FlattenPieces
<1> QED
  BY <1>2, <1>5, <1>7, <1>8

\* What was escaped is unescaped.
LEMMA EscapesUndone ==
    ASSUME NEW label \in Seq(0..127)
    PROVE  /\ escape_label(label) \in Seq(Nat)
           /\ Unescaped(escape_label(label)) = [bytes |-> label, open |-> FALSE]
<1> DEFINE whole == escape_label(label)
<1>1. PICK pos, pieces : /\ Pieces(pos, pieces, whole)
                         /\ Len(pieces) = Len(label)
                         /\ \A i \in 1..Len(label) : pieces[i] = Escaped(label[i])
  BY EscapeIs
<1> HIDE DEF whole
<1>2. /\ whole \in Seq(Nat) /\ Len(whole) \in Nat /\ Len(label) \in Nat
      /\ label \in Seq(Nat)
      /\ \A i \in 1..Len(label) : label[i] \in 0..127 /\ label[i] \in Nat
  <2>1. whole \in Seq(Nat)
    BY <1>1 DEF Pieces
  <2>2. Len(whole) \in Nat
    BY <2>1
  <2> QED
    BY <2>1, <2>2, NarrowIs
<1>3. PICK f : /\ Unescapes(f, whole) /\ Unescaped(whole) = f[Len(whole)]
               /\ f[0] = [bytes |-> <<>>, open |-> FALSE]
               /\ \A n \in 1..Len(whole) : f[n] = UnescapeByte(f[n - 1], whole[n])
  BY <1>2, UnescapedIs
<1> DEFINE Right(i) == f[pos[i + 1]] = [bytes |-> SubSeq(label, 1, i), open |-> FALSE]
           Bad == {i \in 0..Len(label) : ~Right(i)}
<1>4. Right(0)
  <2>1. SubSeq(label, 1, 0) = <<>>
    BY <1>2, PrefixOfAll
  <2>2. pos[0 + 1] = 0
    BY <1>1 DEF Pieces
  <2> QED
    BY <1>3, <2>1, <2>2
<1>5. ASSUME NEW i \in 1..Len(label), Right(i - 1)
      PROVE  Right(i)
  <2> DEFINE before == SubSeq(label, 1, i - 1)
             byte == label[i]
             at == pos[i]
  <2>1. (i - 1) + 1 = i /\ i \in 1..Len(pieces) /\ i \in 1..(Len(pieces) + 1) /\ i - 1 \in 0..Len(label)
    BY <1>1, <1>2
  <2>2. /\ f[at] = [bytes |-> before, open |-> FALSE]
        /\ before \in Seq(Nat) /\ byte \in 0..127 /\ byte \in Nat
        /\ SubSeq(label, 1, i) = Append(before, byte)
    <3>1. f[at] = [bytes |-> before, open |-> FALSE]
      BY <1>5, <2>1, Zenon
    <3>2. before \in Seq(Nat)
      BY <1>2, <2>1, PrefixIs
    <3>3. SubSeq(label, 1, i) = Append(before, byte)
      BY <1>2, PrefixGrows
    <3> HIDE DEF before
    <3> QED
      BY <1>2, <3>1, <3>2, <3>3
  <2>3. /\ at \in Nat /\ pos[i + 1] = at + Len(pieces[i]) /\ pos[i + 1] <= Len(whole)
        /\ \A j \in 1..Len(pieces[i]) : whole[at + j] = pieces[i][j]
        /\ pieces[i] = Escaped(byte)
    BY <1>1, <2>1 DEF Pieces
  <2>4. SubSeq(label, 1, i) = Append(before, byte)
    BY <2>2
  <2> HIDE DEF before, byte, at, Bad
  <2>5. CASE byte \in {0, NAME_ESCAPE, Dot}
    <3>1. Len(pieces[i]) = 2 /\ pieces[i][1] = NAME_ESCAPE /\ (pieces[i][2] + 255) % 256 = byte
      <4>1. /\ Len(Escaped(byte)) = 2 /\ Escaped(byte)[1] = NAME_ESCAPE
            /\ (Escaped(byte)[2] + 255) % 256 = byte
        BY <2>2, <2>5, EscapedIs, Zenon
      <4> QED
        BY <2>3, <4>1, Zenon
    <3>2. pos[i + 1] = at + 2 /\ at + 1 \in 1..Len(whole) /\ at + 2 \in 1..Len(whole)
      BY <1>2, <2>3, <3>1
    <3>3. whole[at + 1] = NAME_ESCAPE /\ (whole[at + 2] + 255) % 256 = byte /\ whole[at + 2] \in Nat
      <4>1. 1 \in 1..Len(pieces[i]) /\ 2 \in 1..Len(pieces[i])
        BY <3>1
      <4>2. whole[at + 1] = pieces[i][1] /\ whole[at + 2] = pieces[i][2]
        BY <2>3, <4>1
      <4>3. whole[at + 2] \in Nat
        BY <1>2, <3>2, SMTT(30)
      <4> QED
        BY <3>1, <4>2, <4>3
    <3>4. f[at + 1] = [bytes |-> before, open |-> TRUE]
      <4>1. (at + 1) - 1 = at
        BY <2>3
      <4>2. f[at + 1] = UnescapeByte([bytes |-> before, open |-> FALSE], NAME_ESCAPE)
        BY <1>3, <2>2, <3>2, <3>3, <4>1
      <4> QED
        BY <2>2, <4>2, UnescapeOpens
    <3>5. f[at + 2] = [bytes |-> Append(before, byte), open |-> FALSE]
      <4>1. (at + 2) - 1 = at + 1
        BY <2>3
      <4>2. f[at + 2] = UnescapeByte([bytes |-> before, open |-> TRUE], whole[at + 2])
        BY <1>3, <3>2, <3>4, <4>1
      <4>3. UnescapeByte([bytes |-> before, open |-> TRUE], whole[at + 2])
              = [bytes |-> Append(before, (whole[at + 2] + 255) % 256), open |-> FALSE]
        <5> DEFINE x == whole[at + 2]
        <5>1. x \in Nat /\ before \in Seq(Nat)
          BY <2>2, <3>3
        <5> HIDE DEF x
        <5>2. UnescapeByte([bytes |-> before, open |-> TRUE], x)
                = [bytes |-> Append(before, (x + 255) % 256), open |-> FALSE]
          BY <5>1 DEF UnescapeByte
        <5> QED
          BY <5>2 DEF x
      <4> QED
        BY <3>3, <4>2, <4>3
    <3> QED
      BY <2>4, <3>2, <3>5
  <2>6. CASE byte \notin {0, NAME_ESCAPE, Dot}
    <3>1. Len(pieces[i]) = 1 /\ pieces[i][1] = byte /\ byte # NAME_ESCAPE
      BY <2>2, <2>3, <2>6, EscapedIs
    <3>2. pos[i + 1] = at + 1 /\ at + 1 \in 1..Len(whole) /\ (at + 1) - 1 = at
      <4>1. pos[i + 1] = at + 1 /\ at + 1 <= Len(whole)
        BY <2>3, <3>1
      <4>2. (at + 1) - 1 = at /\ at + 1 >= 1 /\ at + 1 \in Nat
        BY <2>3
      <4> QED
        BY <1>2, <4>1, <4>2
    <3>3. whole[at + 1] = byte
      BY <2>3, <3>1
    <3>4. f[at + 1] = UnescapeByte([bytes |-> before, open |-> FALSE], byte)
      BY <1>3, <2>2, <3>2, <3>3
    <3>5. UnescapeByte([bytes |-> before, open |-> FALSE], byte)
            = [bytes |-> Append(before, byte), open |-> FALSE]
      BY <2>2, <3>1, UnescapePlain
    <3> QED
      BY <2>4, <3>2, <3>4, <3>5
  <2> QED
    BY <2>5, <2>6
<1>6. Bad = {}
  <2> SUFFICES ASSUME Bad # {} PROVE FALSE
    OBVIOUS
  <2>1. PICK i \in Bad : \A j \in Bad : i <= j
    <3>1. Bad \in SUBSET Nat
      OBVIOUS
    <3> HIDE DEF Bad
    <3> QED
      BY <3>1, HasLeast
  <2>2. i \in 0..Len(label) /\ ~Right(i)
    OBVIOUS
  <2>3. i # 0
    BY <1>4, <2>2
  <2>4. i \in 1..Len(label) /\ i - 1 \in 0..Len(label) /\ ~(i <= i - 1)
    BY <1>2, <2>2, <2>3
  <2>5. Right(i - 1)
    BY <2>1, <2>4
  <2> HIDE DEF Right
  <2> QED
    BY <1>5, <2>2, <2>4, <2>5
<1>7. Right(Len(label))
  <2>1. Len(label) \in 0..Len(label)
    BY <1>2
  <2> HIDE DEF Right
  <2> QED
    BY <1>6, <2>1
<1>8. pos[Len(label) + 1] = Len(whole) /\ SubSeq(label, 1, Len(label)) = label
  BY <1>1, <1>2, PrefixOfAll DEF Pieces
<1> QED
  BY <1>2, <1>3, <1>7, <1>8 DEF whole

LEMMA ShownTyped ==
    ASSUME NEW byte \in Nat
    PROVE  Shown(byte) \in Seq(Nat) /\ Len(Shown(byte)) \in 1..4
<1>1. byte \div 16 \in Nat /\ byte % 16 \in Nat
  OBVIOUS
<1>2. /\ <<byte>> \in Seq(Nat) /\ <<92, 120, byte \div 16, byte % 16>> \in Seq(Nat)
      /\ Len(<<byte>>) = 1 /\ Len(<<92, 120, byte \div 16, byte % 16>>) = 4
  BY <1>1
<1> QED
  BY <1>2 DEF Shown

LEMMA ShownHas ==
    ASSUME NEW byte \in Nat, ~(byte < 128)
    PROVE  Shown(byte)[1] = Backslash
  BY DEF Shown, IsGraphic, Backslash

LEMMA FourMore ==
    ASSUME NEW i \in Nat, NEW p \in Nat, NEW l \in 1..4, p <= 4 * (i - 1)
    PROVE  p + l <= 4 * i
  OBVIOUS

LEMMA OneIn ==
    ASSUME NEW n \in 1..4
    PROVE  1 \in 1..n /\ n \in Nat
  OBVIOUS

LEMMA PiecesBound ==
    ASSUME NEW pos, NEW seqs \in Seq(Seq(Nat)), NEW whole, Pieces(pos, seqs, whole),
           \A i \in 1..Len(seqs) : Len(seqs[i]) \in 1..4
    PROVE  Len(whole) <= 4 * Len(seqs)
<1> DEFINE Bad == {i \in 0..Len(seqs) : ~(pos[i + 1] <= 4 * i)}
<1>1. /\ Len(seqs) \in Nat
      /\ pos \in [1..(Len(seqs) + 1) -> Nat] /\ pos[1] = 0 /\ pos[Len(seqs) + 1] = Len(whole)
      /\ \A i \in 1..Len(seqs) : pos[i + 1] = pos[i] + Len(seqs[i])
  BY DEF Pieces
<1>2. Bad = {}
  <2> SUFFICES ASSUME Bad # {} PROVE FALSE
    OBVIOUS
  <2>1. PICK i \in Bad : \A j \in Bad : i <= j
    <3>1. Bad \in SUBSET Nat
      OBVIOUS
    <3> HIDE DEF Bad
    <3> QED
      BY <3>1, HasLeast
  <2>2. i \in 0..Len(seqs) /\ ~(pos[i + 1] <= 4 * i)
    OBVIOUS
  <2>3. i # 0
    BY <1>1, <2>2
  <2>4. i \in 1..Len(seqs) /\ i - 1 \in 0..Len(seqs) /\ ~(i <= i - 1) /\ (i - 1) + 1 = i
        /\ i \in 1..(Len(seqs) + 1)
    BY <1>1, <2>2, <2>3
  <2>5. pos[i] <= 4 * (i - 1)
    BY <2>1, <2>4
  <2> HIDE DEF Bad
  <2>6. pos[i + 1] = pos[i] + Len(seqs[i]) /\ Len(seqs[i]) \in 1..4 /\ pos[i] \in Nat
    BY <1>1, <2>4
  <2>7. i \in Nat
    BY <1>1, <2>4
  <2>8. pos[i] + Len(seqs[i]) <= 4 * i
    BY <2>5, <2>6, <2>7, FourMore, Zenon
  <2> QED
    BY <2>2, <2>6, <2>8, Zenon
<1>3. ~(Len(seqs) \in Bad)
  BY <1>2
<1> QED
  BY <1>1, <1>3

\* The characters that show bytes that are not text.
ShownLabel(bytes) == FlattenSeq([i \in DOMAIN bytes |-> Shown(bytes[i])])

LEMMA ShownLabelIs ==
    ASSUME NEW bytes \in Seq(Nat)
    PROVE  /\ ShownLabel(bytes) \in Seq(Nat) /\ Len(ShownLabel(bytes)) <= 4 * Len(bytes)
           /\ ~IsText(bytes) => \E j \in 1..Len(ShownLabel(bytes)) : ShownLabel(bytes)[j] = Backslash
<1> DEFINE seqs == [i \in DOMAIN bytes |-> Shown(bytes[i])]
           whole == ShownLabel(bytes)
<1>1. DOMAIN bytes = 1..Len(bytes) /\ Len(bytes) \in Nat /\ \A i \in 1..Len(bytes) : bytes[i] \in Nat
  OBVIOUS
<1>2. \A i \in 1..Len(bytes) : /\ seqs[i] = Shown(bytes[i])
                               /\ seqs[i] \in Seq(Nat) /\ Len(seqs[i]) \in 1..4
  BY <1>1, ShownTyped
<1>3. seqs = [i \in 1..Len(bytes) |-> seqs[i]] /\ whole = FlattenSeq(seqs)
  BY <1>1 DEF ShownLabel
<1> HIDE DEF seqs, whole
<1>4. seqs \in [1..Len(bytes) -> Seq(Nat)]
  BY <1>2, <1>3
<1>5. seqs \in Seq(Seq(Nat)) /\ Len(seqs) = Len(bytes)
  BY <1>1, <1>4
<1>6. PICK pos : Pieces(pos, seqs, whole)
  BY <1>3, <1>5, FlattenPieces
<1>7. whole \in Seq(Nat) /\ Len(whole) <= 4 * Len(bytes)
  <2>1. whole \in Seq(Nat)
    BY <1>6 DEF Pieces
  <2>2. Len(whole) <= 4 * Len(seqs)
    BY <1>2, <1>5, <1>6, PiecesBound
  <2> QED
    BY <1>5, <2>1, <2>2
<1>8. ASSUME ~IsText(bytes)
      PROVE  \E j \in 1..Len(whole) : whole[j] = Backslash
  <2>1. PICK i \in 1..Len(bytes) : ~(bytes[i] < 128)
    BY <1>1, <1>8 DEF IsText
  <2>2. seqs[i][1] = Backslash /\ 1 \in 1..Len(seqs[i]) /\ Len(seqs[i]) \in Nat
    <3>1. bytes[i] \in Nat
      BY <1>1
    <3>2. Shown(bytes[i])[1] = Backslash
      BY <2>1, <3>1, ShownHas
    <3>3. Len(seqs[i]) \in 1..4
      BY <1>2
    <3>4. 1 \in 1..Len(seqs[i]) /\ Len(seqs[i]) \in Nat
      BY <3>3, OneIn, Zenon
    <3> QED
      BY <1>2, <3>2, <3>4
  <2>3. /\ pos[i] \in Nat /\ pos[i + 1] = pos[i] + Len(seqs[i]) /\ pos[i + 1] <= Len(whole)
        /\ whole[pos[i] + 1] = seqs[i][1]
    <3>1. i \in 1..Len(seqs) /\ i \in 1..(Len(seqs) + 1)
      BY <1>1, <1>5
    <3> QED
      BY <1>6, <2>2, <3>1 DEF Pieces
  <2>4. pos[i] + 1 \in 1..Len(whole)
    <3>1. Len(whole) \in Nat
      BY <1>7
    <3> QED
      BY <2>2, <2>3, <3>1, SMTT(30)
  <2> QED
    BY <2>2, <2>3, <2>4
<1> QED
  BY <1>7, <1>8 DEF whole

LEMMA UnescapeLabelTyped ==
    ASSUME NEW raw \in Seq(Nat)
    PROVE  unescape_label(raw) \in Seq(Nat)
<1>1. Unescaped(raw).bytes \in Seq(Nat)
  BY UnescapedTyped DEF Passed
<1>2. unescape_label(raw) = IF IsText(Unescaped(raw).bytes) THEN Unescaped(raw).bytes
                            ELSE ShownLabel(Unescaped(raw).bytes)
  BY DEF unescape_label, ShownLabel
<1> QED
  BY <1>1, <1>2, ShownLabelIs

\* A label without an escape: read as it is, or shown.
LEMMA PlainLabel ==
    ASSUME NEW raw \in Seq(Nat), \A i \in 1..Len(raw) : raw[i] # NAME_ESCAPE
    PROVE  /\ ~IsCut(raw)
           /\ Len(unescape_label(raw)) <= 4 * Len(raw)
           /\ IsText(raw) => unescape_label(raw) = raw
           /\ ~IsText(raw) => \E j \in DOMAIN unescape_label(raw) : unescape_label(raw)[j] = Backslash
<1>1. Unescaped(raw) = [bytes |-> raw, open |-> FALSE]
  BY PlainUnescaped
<1>2. ~IsCut(raw) /\ unescape_label(raw) = IF IsText(raw) THEN raw ELSE ShownLabel(raw)
  BY <1>1 DEF unescape_label, ShownLabel, IsCut
<1>3. Len(raw) \in Nat /\ Len(raw) <= 4 * Len(raw)
  OBVIOUS
<1>4. ~IsText(raw) => /\ Len(ShownLabel(raw)) <= 4 * Len(raw)
                      /\ \E j \in DOMAIN ShownLabel(raw) : ShownLabel(raw)[j] = Backslash
  <2>1. ShownLabel(raw) \in Seq(Nat)
    BY ShownLabelIs
  <2>2. DOMAIN ShownLabel(raw) = 1..Len(ShownLabel(raw))
    BY <2>1
  <2> QED
    BY <2>2, ShownLabelIs
<1> QED
  BY <1>2, <1>3, <1>4

-----------------------------------------------------------------------------
(* Lengths of names *)

Labels == Seq(Seq(Nat))

Measures(f, labels) ==
    f = [n \in 0..Len(labels) |-> IF n = 0 THEN 0 ELSE f[n - 1] + Len(labels[n]) + 1]

LEMMA LabelsAre ==
    ASSUME NEW labels \in Labels
    PROVE  /\ Len(labels) \in Nat /\ DOMAIN labels = 1..Len(labels)
           /\ \A n \in 1..Len(labels) : labels[n] \in Seq(Nat) /\ Len(labels[n]) \in Nat
<1>1. labels \in [1..Len(labels) -> Seq(Nat)] /\ Len(labels) \in Nat /\ DOMAIN labels = 1..Len(labels)
  BY DEF Labels
<1>2. \A n \in 1..Len(labels) : labels[n] \in Seq(Nat)
  BY <1>1
<1>3. \A n \in 1..Len(labels) : Len(labels[n]) \in Nat
  BY <1>2
<1> QED
  BY <1>1, <1>2, <1>3

LEMMA MeasureExists ==
    ASSUME NEW labels \in Labels
    PROVE  \E f : Measures(f, labels)
<1> DEFINE g == [p \in Nat \X (1..Len(labels)) |-> p[1] + Len(labels[p[2]]) + 1]
<1>1. Len(labels) \in Nat /\ \A n \in 1..Len(labels) : Len(labels[n]) \in Nat
  BY LabelsAre
<1>2. g \in [Nat \X (1..Len(labels)) -> Nat]
  <2>1. ASSUME NEW p \in Nat \X (1..Len(labels))
        PROVE  p[1] + Len(labels[p[2]]) + 1 \in Nat
    <3>1. p[1] \in Nat /\ Len(labels[p[2]]) \in Nat
      BY <1>1
    <3> QED
      BY <3>1
  <2> QED
    BY <2>1
<1>3. \A v \in Nat, n \in 1..Len(labels) : g[<<v, n>>] = v + Len(labels[n]) + 1
  OBVIOUS
<1> HIDE DEF g
<1>4. PICK f : Passes(f, Len(labels), g, 0) /\ f \in [0..Len(labels) -> Nat]
  BY <1>1, <1>2, PassExists
<1>5. \A n \in 0..Len(labels) : n # 0 => g[<<f[n - 1], n>>] = f[n - 1] + Len(labels[n]) + 1
  <2> TAKE n \in 0..Len(labels)
  <2>1. n # 0 => n - 1 \in 0..Len(labels) /\ n \in 1..Len(labels)
    BY <1>1
  <2>2. n # 0 => f[n - 1] \in Nat
    BY <1>4, <2>1
  <2> QED
    BY <1>3, <2>1, <2>2
<1>6. f = [n \in 0..Len(labels) |-> IF n = 0 THEN 0 ELSE g[<<f[n - 1], n>>]]
  BY <1>4 DEF Passes
<1>7. f = [n \in 0..Len(labels) |-> IF n = 0 THEN 0 ELSE f[n - 1] + Len(labels[n]) + 1]
  BY <1>5, <1>6
<1> QED
  BY <1>7 DEF Measures

LEMMA SumIs ==
    ASSUME NEW a \in Nat, NEW b \in Nat
    PROVE  a + b + 1 \in Nat
  OBVIOUS

LEMMA LengthIs ==
    ASSUME NEW labels \in Labels
    PROVE  \E f : /\ Length(labels) = f[Len(labels)] /\ f[0] = 0
                  /\ \A n \in 1..Len(labels) : f[n] = f[n - 1] + Len(labels[n]) + 1
                  /\ \A n \in 0..Len(labels) : f[n] \in Nat
<1> DEFINE f == CHOOSE f : Measures(f, labels)
<1>1. Measures(f, labels)
  BY MeasureExists
<1>2. Length(labels) = f[Len(labels)]
  BY DEF Length, Measures
<1> HIDE DEF f
<1>3. /\ Len(labels) \in Nat /\ 0 \in 0..Len(labels)
      /\ \A n \in 1..Len(labels) : n \in 0..Len(labels) /\ n # 0 /\ Len(labels[n]) \in Nat
  <2>1. Len(labels) \in Nat /\ \A n \in 1..Len(labels) : Len(labels[n]) \in Nat
    BY LabelsAre
  <2> QED
    BY <2>1
<1>4. f[0] = 0 /\ \A n \in 1..Len(labels) : f[n] = f[n - 1] + Len(labels[n]) + 1
  BY <1>1, <1>3 DEF Measures
<1> DEFINE Bad == {n \in 0..Len(labels) : f[n] \notin Nat}
<1>5. Bad = {}
  <2> SUFFICES ASSUME Bad # {} PROVE FALSE
    OBVIOUS
  <2>1. PICK n \in Bad : \A m \in Bad : n <= m
    <3>1. Bad \in SUBSET Nat
      OBVIOUS
    <3> HIDE DEF Bad
    <3> QED
      BY <3>1, HasLeast
  <2>2. n # 0 /\ n \in 0..Len(labels) /\ f[n] \notin Nat
    BY <1>4
  <2>3. n \in 1..Len(labels) /\ n - 1 \in 0..Len(labels) /\ ~(n <= n - 1)
    BY <1>3, <2>2
  <2>4. f[n - 1] \in Nat
    BY <2>1, <2>3
  <2>5. f[n] \in Nat
    <3>1. f[n] = f[n - 1] + Len(labels[n]) + 1 /\ Len(labels[n]) \in Nat
      BY <1>3, <1>4, <2>3
    <3> QED
      BY <2>4, <3>1, SumIs, Zenon
  <2> QED
    BY <2>2, <2>5
<1> QED
  BY <1>2, <1>4, <1>5

LEMMA MeasuresGoTogether ==
    ASSUME NEW s \in Labels, NEW t \in Labels, Len(s) <= Len(t), \A n \in 1..Len(s) : s[n] = t[n]
    PROVE  \E f : /\ f[Len(s)] = Length(s) /\ f[Len(t)] = Length(t)
                  /\ \A n \in 1..Len(t) : f[n] = f[n - 1] + Len(t[n]) + 1
                  /\ \A n \in 0..Len(t) : f[n] \in Nat
<1>1. PICK f : /\ Length(t) = f[Len(t)] /\ f[0] = 0
               /\ \A n \in 1..Len(t) : f[n] = f[n - 1] + Len(t[n]) + 1
               /\ \A n \in 0..Len(t) : f[n] \in Nat
  BY LengthIs
<1>2. PICK g : /\ Length(s) = g[Len(s)] /\ g[0] = 0
               /\ \A n \in 1..Len(s) : g[n] = g[n - 1] + Len(s[n]) + 1
               /\ \A n \in 0..Len(s) : g[n] \in Nat
  BY LengthIs
<1>3. Len(s) \in Nat /\ Len(t) \in Nat
  BY LabelsAre
<1> DEFINE Bad == {n \in 0..Len(s) : g[n] # f[n]}
<1>4. Bad = {}
  <2> SUFFICES ASSUME Bad # {} PROVE FALSE
    OBVIOUS
  <2>1. PICK n \in Bad : \A m \in Bad : n <= m
    <3>1. Bad \in SUBSET Nat
      OBVIOUS
    <3> HIDE DEF Bad
    <3> QED
      BY <3>1, HasLeast
  <2>2. n # 0 /\ n \in 0..Len(s) /\ g[n] # f[n]
    BY <1>1, <1>2
  <2>3. n \in 1..Len(s) /\ n - 1 \in 0..Len(s) /\ ~(n <= n - 1) /\ n \in 1..Len(t)
    BY <1>3, <2>2
  <2>4. g[n - 1] = f[n - 1]
    BY <2>1, <2>3
  <2>5. g[n] = f[n]
    BY <1>1, <1>2, <2>3, <2>4
  <2> QED
    BY <2>2, <2>5
<1>5. g[Len(s)] = f[Len(s)]
  <2>1. Len(s) \in 0..Len(s)
    BY <1>3
  <2> QED
    BY <1>4, <2>1
<1> QED
  BY <1>1, <1>2, <1>5

LEMMA LengthTyped ==
    ASSUME NEW labels \in Labels
    PROVE  Length(labels) \in Nat
<1>1. PICK f : Length(labels) = f[Len(labels)] /\ \A n \in 0..Len(labels) : f[n] \in Nat
  BY LengthIs
<1>2. Len(labels) \in 0..Len(labels)
  BY LabelsAre
<1> QED
  BY <1>1, <1>2

LEMMA LengthOfNone == Length(<<>>) = 0
<1>1. <<>> \in Labels /\ Len(<<>>) = 0
  BY DEF Labels
<1>2. PICK f : Length(<<>>) = f[Len(<<>>)] /\ f[0] = 0
  BY <1>1, LengthIs
<1> QED
  BY <1>1, <1>2

LEMMA LengthOfPrefix ==
    ASSUME NEW s \in Labels, NEW t \in Labels, Len(s) <= Len(t), \A n \in 1..Len(s) : s[n] = t[n]
    PROVE  Length(s) <= Length(t)
<1>1. PICK f : /\ f[Len(s)] = Length(s) /\ f[Len(t)] = Length(t)
               /\ \A n \in 1..Len(t) : f[n] = f[n - 1] + Len(t[n]) + 1
               /\ \A n \in 0..Len(t) : f[n] \in Nat
  BY MeasuresGoTogether
<1>2. Len(s) \in Nat /\ Len(t) \in Nat /\ \A n \in 1..Len(t) : Len(t[n]) \in Nat
  BY LabelsAre
<1> DEFINE Bad == {n \in Len(s)..Len(t) : ~(f[Len(s)] <= f[n])}
<1>3. Bad = {}
  <2> SUFFICES ASSUME Bad # {} PROVE FALSE
    OBVIOUS
  <2>1. PICK n \in Bad : \A m \in Bad : n <= m
    <3>1. Bad \in SUBSET Nat
      BY <1>2
    <3> HIDE DEF Bad
    <3> QED
      BY <3>1, HasLeast
  <2>2. n \in Len(s)..Len(t) /\ ~(f[Len(s)] <= f[n])
    OBVIOUS
  <2>3. n # Len(s)
    <3>1. Len(s) \in 0..Len(t)
      BY <1>2
    <3> QED
      BY <1>1, <2>2, <3>1
  <2>4. n \in 1..Len(t) /\ n - 1 \in Len(s)..Len(t) /\ n - 1 \in 0..Len(t) /\ ~(n <= n - 1)
        /\ Len(s) \in 0..Len(t)
    BY <1>2, <2>2, <2>3
  <2>5. f[Len(s)] <= f[n - 1]
    BY <2>1, <2>4
  <2>6. f[n] = f[n - 1] + Len(t[n]) + 1 /\ f[n - 1] \in Nat /\ Len(t[n]) \in Nat /\ f[Len(s)] \in Nat
    BY <1>1, <1>2, <2>4
  <2>7. f[Len(s)] <= f[n - 1] + Len(t[n]) + 1
    BY <2>5, <2>6
  <2> QED
    BY <2>2, <2>6, <2>7
<1>4. Len(t) \in Len(s)..Len(t)
  BY <1>2
<1> QED
  BY <1>1, <1>3, <1>4

LEMMA LabelAppended ==
    ASSUME NEW labels \in Labels, NEW label \in Seq(Nat)
    PROVE  /\ Append(labels, label) \in Labels
           /\ Len(Append(labels, label)) = Len(labels) + 1
           /\ \A n \in 1..Len(labels) : Append(labels, label)[n] = labels[n]
           /\ Append(labels, label)[Len(labels) + 1] = label
  BY TheoremsOf!AppendProperties DEF Labels

LEMMA LengthOfAppended ==
    ASSUME NEW labels \in Labels, NEW label \in Seq(Nat)
    PROVE  Length(Append(labels, label)) = Length(labels) + Len(label) + 1
<1> DEFINE t == Append(labels, label)
<1>1. /\ t \in Labels /\ Len(t) = Len(labels) + 1 /\ t[Len(labels) + 1] = label
      /\ \A n \in 1..Len(labels) : labels[n] = t[n]
  BY LabelAppended
<1> HIDE DEF t
<1>2. Len(labels) \in Nat /\ Len(t) \in Nat
  BY <1>1, LabelsAre
<1>3. Len(labels) <= Len(t) /\ Len(t) \in 1..Len(t) /\ Len(t) - 1 = Len(labels)
  BY <1>1, <1>2
<1>4. PICK f : /\ f[Len(labels)] = Length(labels) /\ f[Len(t)] = Length(t)
               /\ \A n \in 1..Len(t) : f[n] = f[n - 1] + Len(t[n]) + 1
               /\ \A n \in 0..Len(t) : f[n] \in Nat
  BY <1>1, <1>3, MeasuresGoTogether, Zenon
<1>5. f[Len(t)] = f[Len(labels)] + Len(label) + 1
  <2>1. t[Len(t)] = label
    BY <1>1
  <2>2. f[Len(t)] = f[Len(t) - 1] + Len(t[Len(t)]) + 1
    BY <1>3, <1>4
  <2> QED
    BY <1>3, <2>1, <2>2
<1> QED
  BY <1>4, <1>5 DEF t

-----------------------------------------------------------------------------
(* Turns of the readers *)

LEMMA ReadingIs ==
    ASSUME NEW at \in Reading
    PROVE  /\ at.offset \in Nat /\ at.labels \in Labels /\ at.hops \in Nat /\ at.back \in SUBSET Nat
           /\ at.status \in {"reading", "ok", "error"}
  BY DEF Reading, Labels

LEMMA ByteIs ==
    ASSUME NEW pkt \in Seq(Nat), NEW offset \in Nat, offset < Len(pkt)
    PROVE  Len(pkt) \in Nat /\ Byte(pkt, offset) \in Nat /\ Byte(pkt, offset) = pkt[offset + 1]
<1>1. offset + 1 \in 1..Len(pkt) /\ Len(pkt) \in Nat
  OBVIOUS
<1> QED
  BY <1>1 DEF Byte

LEMMA RawIs ==
    ASSUME NEW pkt \in Seq(Nat), NEW offset \in Nat, offset < Len(pkt),
           offset + 1 + Byte(pkt, offset) <= Len(pkt)
    PROVE  /\ Raw(pkt, offset) \in Seq(Nat) /\ Len(Raw(pkt, offset)) = Byte(pkt, offset)
           /\ \A i \in 1..Byte(pkt, offset) :
                 /\ Raw(pkt, offset)[i] = pkt[offset + 1 + i]
                 /\ offset + 1 + i \in 1..Len(pkt)
<1> DEFINE n == Byte(pkt, offset)
           p == offset + 1
<1>1. n \in Nat /\ p \in Nat /\ p + n <= Len(pkt)
  <2>1. n \in Nat
    BY ByteIs
  <2>2. p \in Nat
    OBVIOUS
  <2> QED
    BY <2>1, <2>2
<1>2. Raw(pkt, offset) = SubSeq(pkt, p + 1, p + n)
  BY DEF Raw, Bytes, n
<1> HIDE DEF n, p
<1>3. /\ SubSeq(pkt, p + 1, p + n) \in Seq(Nat) /\ Len(SubSeq(pkt, p + 1, p + n)) = n
      /\ \A i \in 1..n : SubSeq(pkt, p + 1, p + n)[i] = pkt[p + i] /\ p + i \in 1..Len(pkt)
  BY <1>1, SliceIs
<1> QED
  BY <1>2, <1>3 DEF n, p

\* What a turn of a reader can do.
TurnOf(pkt, at, t, follows, takes, longer) ==
    \/ at.offset >= Len(pkt) /\ t = Failed(at)
    \/ at.offset < Len(pkt) /\ Byte(pkt, at.offset) = 0 /\ t = [at EXCEPT !.status = "ok"]
    \/ /\ at.offset + 1 < Len(pkt) /\ IsPointer(Byte(pkt, at.offset))
       /\ at.hops < MaxHops /\ follows /\ t = Jump(pkt, at)
    \/ /\ at.offset < Len(pkt) /\ IsPointer(Byte(pkt, at.offset))
       /\ ~(at.offset + 1 < Len(pkt) /\ at.hops < MaxHops /\ follows) /\ t = Failed(at)
    \/ at.offset < Len(pkt) /\ IsReserved(Byte(pkt, at.offset)) /\ t = Failed(at)
    \/ /\ Byte(pkt, at.offset) \in 1..63 /\ at.offset + 1 + Byte(pkt, at.offset) <= Len(pkt)
       /\ takes /\ t = TakeLabel(pkt, at, longer)
    \/ /\ at.offset < Len(pkt) /\ Byte(pkt, at.offset) \in 1..63
       /\ ~(at.offset + 1 + Byte(pkt, at.offset) <= Len(pkt) /\ takes) /\ t = Failed(at)

DecompressTurnOf(pkt, at) ==
    TurnOf(pkt, at, DecompressTurn(pkt, at), Target(pkt, at.offset) < Len(pkt),
           ~IsCut(Raw(pkt, at.offset))
              /\ Length(Append(at.labels, unescape_label(Raw(pkt, at.offset)))) <= MAXDNAME,
           Append(at.labels, unescape_label(Raw(pkt, at.offset))))

FromWireTurnOf(pkt, at) ==
    TurnOf(pkt, at, FromWireTurn(pkt, at), TRUE,
           IsText(Raw(pkt, at.offset))
              /\ Length(Append(at.labels, Raw(pkt, at.offset))) <= MAX_NAME_LEN,
           Append(at.labels, Raw(pkt, at.offset)))

ValidateTurnOf(pkt, at) ==
    TurnOf(pkt, at, ValidateTurn(pkt, at),
           Target(pkt, at.offset) < Len(pkt) /\ LeadsBack(Target(pkt, at.offset), at.offset),
           TRUE, at.labels)

LEMMA ByteCases ==
    ASSUME NEW byte \in Nat
    PROVE  /\ byte = 0 \/ IsPointer(byte) \/ IsReserved(byte) \/ byte \in 1..63
           /\ byte = 0 => ~IsPointer(byte) /\ ~IsReserved(byte)
           /\ IsPointer(byte) => byte # 0 /\ ~IsReserved(byte)
           /\ IsReserved(byte) => byte # 0 /\ ~IsPointer(byte)
           /\ byte \in 1..63 => byte # 0 /\ ~IsPointer(byte) /\ ~IsReserved(byte)
  BY DEF IsPointer, IsReserved

LEMMA DecompressTurns ==
    ASSUME NEW pkt \in Seq(Nat), NEW at \in Reading, at.status = "reading"
    PROVE  DecompressTurnOf(pkt, at)
<1> DEFINE byte == Byte(pkt, at.offset)
           L == Len(pkt)
<1>1. at.offset \in Nat /\ L \in Nat
  BY ReadingIs
<1>2. CASE at.offset >= L
  <2>1. DecompressTurn(pkt, at) = Failed(at)
    BY <1>2 DEF DecompressTurn, ReaderTurn
  <2> QED
    BY <1>2, <2>1 DEF DecompressTurnOf, TurnOf
<1>3. CASE at.offset < L
  <2>1. byte \in Nat /\ ~(at.offset >= L) /\ L \in Nat
    BY <1>1, <1>3, ByteIs
  <2> HIDE DEF byte
  <2>2. CASE byte = 0
    <3>1. ~IsPointer(byte) /\ ~IsReserved(byte)
      BY <2>1, <2>2, ByteCases
    <3> QED
      BY <1>3, <2>1, <2>2, <3>1 DEF DecompressTurn, ReaderTurn, DecompressTurnOf, TurnOf, byte
  <2>3. CASE IsPointer(byte)
    <3>1. byte # 0 /\ ~IsReserved(byte)
      BY <2>1, <2>3, ByteCases
    <3> QED
      BY <1>3, <2>1, <2>3, <3>1 DEF DecompressTurn, ReaderTurn, DecompressTurnOf, TurnOf, byte
  <2>4. CASE IsReserved(byte)
    <3>1. byte # 0 /\ ~IsPointer(byte)
      BY <2>1, <2>4, ByteCases
    <3> QED
      BY <1>3, <2>1, <2>4, <3>1 DEF DecompressTurn, ReaderTurn, DecompressTurnOf, TurnOf, byte
  <2>5. CASE byte \in 1..63
    <3>1. byte # 0 /\ ~IsPointer(byte) /\ ~IsReserved(byte)
      BY <2>1, <2>5, ByteCases
    <3> QED
      BY <1>3, <2>1, <2>5, <3>1 DEF DecompressTurn, ReaderTurn, DecompressTurnOf, TurnOf, byte
  <2> QED
    BY <2>1, <2>2, <2>3, <2>4, <2>5, ByteCases
<1> QED
  BY <1>1, <1>2, <1>3

LEMMA FromWireTurns ==
    ASSUME NEW pkt \in Seq(Nat), NEW at \in Reading, at.status = "reading"
    PROVE  FromWireTurnOf(pkt, at)
<1> DEFINE byte == Byte(pkt, at.offset)
           L == Len(pkt)
<1>1. at.offset \in Nat /\ L \in Nat
  BY ReadingIs
<1>2. CASE at.offset >= L
  <2>1. FromWireTurn(pkt, at) = Failed(at)
    BY <1>2 DEF FromWireTurn, ReaderTurn
  <2> QED
    BY <1>2, <2>1 DEF FromWireTurnOf, TurnOf
<1>3. CASE at.offset < L
  <2>1. byte \in Nat /\ ~(at.offset >= L) /\ L \in Nat
    BY <1>1, <1>3, ByteIs
  <2> HIDE DEF byte
  <2>2. CASE byte = 0
    <3>1. ~IsPointer(byte) /\ ~IsReserved(byte)
      BY <2>1, <2>2, ByteCases
    <3> QED
      BY <1>3, <2>1, <2>2, <3>1 DEF FromWireTurn, ReaderTurn, FromWireTurnOf, TurnOf, byte
  <2>3. CASE IsPointer(byte)
    <3>1. byte # 0 /\ ~IsReserved(byte)
      BY <2>1, <2>3, ByteCases
    <3> QED
      BY <1>3, <2>1, <2>3, <3>1 DEF FromWireTurn, ReaderTurn, FromWireTurnOf, TurnOf, byte
  <2>4. CASE IsReserved(byte)
    <3>1. byte # 0 /\ ~IsPointer(byte)
      BY <2>1, <2>4, ByteCases
    <3> QED
      BY <1>3, <2>1, <2>4, <3>1 DEF FromWireTurn, ReaderTurn, FromWireTurnOf, TurnOf, byte
  <2>5. CASE byte \in 1..63
    <3>1. byte # 0 /\ ~IsPointer(byte) /\ ~IsReserved(byte)
      BY <2>1, <2>5, ByteCases
    <3> QED
      BY <1>3, <2>1, <2>5, <3>1 DEF FromWireTurn, ReaderTurn, FromWireTurnOf, TurnOf, byte
  <2> QED
    BY <2>1, <2>2, <2>3, <2>4, <2>5, ByteCases
<1> QED
  BY <1>1, <1>2, <1>3

LEMMA ValidateTurns ==
    ASSUME NEW pkt \in Seq(Nat), NEW at \in Reading, at.status = "reading"
    PROVE  ValidateTurnOf(pkt, at)
<1> DEFINE byte == Byte(pkt, at.offset)
           L == Len(pkt)
<1>1. at.offset \in Nat /\ L \in Nat
  BY ReadingIs
<1>2. CASE at.offset >= L
  <2>1. ValidateTurn(pkt, at) = Failed(at)
    BY <1>2 DEF ValidateTurn, ReaderTurn
  <2> QED
    BY <1>2, <2>1 DEF ValidateTurnOf, TurnOf
<1>3. CASE at.offset < L
  <2>1. byte \in Nat /\ ~(at.offset >= L) /\ L \in Nat
    BY <1>1, <1>3, ByteIs
  <2> HIDE DEF byte
  <2>2. CASE byte = 0
    <3>1. ~IsPointer(byte) /\ ~IsReserved(byte)
      BY <2>1, <2>2, ByteCases
    <3> QED
      BY <1>3, <2>1, <2>2, <3>1 DEF ValidateTurn, ReaderTurn, ValidateTurnOf, TurnOf, byte
  <2>3. CASE IsPointer(byte)
    <3>1. byte # 0 /\ ~IsReserved(byte)
      BY <2>1, <2>3, ByteCases
    <3> QED
      BY <1>3, <2>1, <2>3, <3>1 DEF ValidateTurn, ReaderTurn, ValidateTurnOf, TurnOf, byte
  <2>4. CASE IsReserved(byte)
    <3>1. byte # 0 /\ ~IsPointer(byte)
      BY <2>1, <2>4, ByteCases
    <3> QED
      BY <1>3, <2>1, <2>4, <3>1 DEF ValidateTurn, ReaderTurn, ValidateTurnOf, TurnOf, byte
  <2>5. CASE byte \in 1..63
    <3>1. byte # 0 /\ ~IsPointer(byte) /\ ~IsReserved(byte)
      BY <2>1, <2>5, ByteCases
    <3> QED
      BY <1>3, <2>1, <2>5, <3>1 DEF ValidateTurn, ReaderTurn, ValidateTurnOf, TurnOf, byte
  <2> QED
    BY <2>1, <2>2, <2>3, <2>4, <2>5, ByteCases
<1> QED
  BY <1>1, <1>2, <1>3

\* Where a turn leads: to an end, behind a pointer, or behind a label.
Went(pkt, at, t, longer) ==
    \/ t = Failed(at)
    \/ t = [at EXCEPT !.status = "ok"]
    \/ /\ at.offset + 1 < Len(pkt) /\ IsPointer(Byte(pkt, at.offset)) /\ at.hops < MaxHops
       /\ t = Jump(pkt, at)
    \/ /\ Byte(pkt, at.offset) \in 1..63 /\ at.offset + 1 + Byte(pkt, at.offset) <= Len(pkt)
       /\ t = TakeLabel(pkt, at, longer)

LEMMA DecompressWent ==
    ASSUME NEW pkt \in Seq(Nat), NEW at \in Reading, at.status = "reading"
    PROVE  Went(pkt, at, DecompressTurn(pkt, at), Append(at.labels, unescape_label(Raw(pkt, at.offset))))
  BY DecompressTurns DEF DecompressTurnOf, TurnOf, Went

LEMMA FromWireWent ==
    ASSUME NEW pkt \in Seq(Nat), NEW at \in Reading, at.status = "reading"
    PROVE  Went(pkt, at, FromWireTurn(pkt, at), Append(at.labels, Raw(pkt, at.offset)))
  BY FromWireTurns DEF FromWireTurnOf, TurnOf, Went

LEMMA ValidateWent ==
    ASSUME NEW pkt \in Seq(Nat), NEW at \in Reading, at.status = "reading"
    PROVE  Went(pkt, at, ValidateTurn(pkt, at), at.labels)
  BY ValidateTurns DEF ValidateTurnOf, TurnOf, Went

LEMMA TargetIs ==
    ASSUME NEW pkt \in Seq(Nat), NEW offset \in Nat, offset + 1 < Len(pkt)
    PROVE  Target(pkt, offset) \in Nat
<1>1. offset < Len(pkt) /\ offset + 1 \in Nat
  OBVIOUS
<1>2. Byte(pkt, offset) \in Nat /\ Byte(pkt, offset + 1) \in Nat
  BY <1>1, ByteIs
<1>3. \A a, b \in Nat : (a % 64) * 256 + b \in Nat
  OBVIOUS
<1> QED
  BY <1>2, <1>3 DEF Target

LEMMA OffsetIs ==
    ASSUME NEW o \in Nat
    PROVE  /\ o + 1 \in Nat /\ o + 2 \in Nat
           /\ \A b \in 1..63 : o + 1 + b \in Nat
           /\ \A b \in 1..63, n \in Nat : o + 1 + b <= n =>
                 /\ o <= n /\ o < n /\ n + 1 - o \in Nat /\ n + 1 - (o + 1 + b) \in Nat
                 /\ n + 1 - (o + 1 + b) < n + 1 - o
  OBVIOUS

LEMMA WentTyped ==
    ASSUME NEW pkt \in Seq(Nat), NEW at \in Reading, at.status = "reading", NEW t, NEW longer,
           Went(pkt, at, t, longer),
           Byte(pkt, at.offset) \in 1..63 /\ at.offset + 1 + Byte(pkt, at.offset) <= Len(pkt)
              => longer \in Labels
    PROVE  t \in Reading
<1>1. /\ at.offset \in Nat /\ at.labels \in Seq(Seq(Nat)) /\ at.hops \in Nat /\ at.back \in SUBSET Nat
      /\ Len(pkt) \in Nat
  BY ReadingIs DEF Labels
<1>2. CASE t = Failed(at)
  BY <1>2 DEF Failed, Reading
<1>3. CASE t = [at EXCEPT !.status = "ok"]
  BY <1>3 DEF Reading
<1>4. CASE /\ at.offset + 1 < Len(pkt) /\ t = Jump(pkt, at)
  <2>1. Target(pkt, at.offset) \in Nat
    BY <1>1, <1>4, TargetIs, Zenon
  <2>3. at.hops + 1 \in Nat
    BY <1>1, OffsetIs, Zenon
  <2>2. Follow(at.back, at.offset) \in SUBSET Nat
    <3>1. at.offset + 2 \in Nat
      BY <1>1, OffsetIs, Zenon
    <3> QED
      BY <1>1, <3>1 DEF Follow
  <2> QED
    BY <1>4, <2>1, <2>2, <2>3 DEF Jump, Reading
<1>5. CASE /\ Byte(pkt, at.offset) \in 1..63 /\ at.offset + 1 + Byte(pkt, at.offset) <= Len(pkt)
           /\ t = TakeLabel(pkt, at, longer)
  <2>1. at.offset + 1 + Byte(pkt, at.offset) \in Nat
    BY <1>1, <1>5, OffsetIs, Zenon
  <2>2. longer \in Seq(Seq(Nat))
    BY <1>5 DEF Labels
  <2> QED
    BY <1>5, <2>1, <2>2 DEF TakeLabel, Reading
<1> QED
  BY <1>2, <1>3, <1>4, <1>5 DEF Went

\* What a loop has left to read: all bytes for each hop that is left, and those to the end.
Room(pkt, at) == IF at.offset <= Len(pkt) THEN Len(pkt) + 1 - at.offset ELSE 0

Left(pkt, at) == (MaxHops - at.hops) * (Len(pkt) + 1) + Room(pkt, at)

LEMMA Times ==
    ASSUME NEW a \in Nat, NEW b \in Nat, a > 0
    PROVE  /\ a * b \in Nat /\ (a - 1) * b \in Nat /\ (a - 1) * b = a * b - b
  OBVIOUS

LEMMA TimesTyped ==
    ASSUME NEW a \in Nat, NEW b \in Nat
    PROVE  a * b \in Nat
  OBVIOUS

LEMMA LeftTyped ==
    ASSUME NEW pkt \in Seq(Nat), NEW at \in Reading, at.hops <= MaxHops
    PROVE  Left(pkt, at) \in Nat
<1>1. /\ at.offset \in Nat /\ at.hops \in Nat /\ Len(pkt) \in Nat /\ MaxHops \in Nat
  BY ReadingIs, WireAssumption
<1>2. MaxHops - at.hops \in Nat /\ Len(pkt) + 1 \in Nat
  BY <1>1
<1>3. (MaxHops - at.hops) * (Len(pkt) + 1) \in Nat
  BY <1>2, TimesTyped
<1>4. Room(pkt, at) \in Nat
  BY <1>1 DEF Room
<1> QED
  BY <1>3, <1>4 DEF Left

LEMMA WentOn ==
    ASSUME NEW pkt \in Seq(Nat), NEW at \in Reading, at.status = "reading", at.hops <= MaxHops,
           NEW t, NEW longer, Went(pkt, at, t, longer)
    PROVE  /\ t.hops <= MaxHops
           /\ t.status # "reading" \/ Left(pkt, t) < Left(pkt, at)
<1>1. /\ at.offset \in Nat /\ at.hops \in Nat /\ Len(pkt) \in Nat /\ MaxHops \in Nat
      /\ DOMAIN at = {"offset", "labels", "hops", "back", "status"}
  BY ReadingIs, WireAssumption DEF Reading
<1>2. CASE t = Failed(at)
  BY <1>1, <1>2 DEF Failed
<1>3. CASE t = [at EXCEPT !.status = "ok"]
  BY <1>1, <1>3
<1>4. CASE /\ at.offset + 1 < Len(pkt) /\ at.hops < MaxHops /\ t = Jump(pkt, at)
  <2>1. t.hops = at.hops + 1 /\ t.offset = Target(pkt, at.offset) /\ t.offset \in Nat
    BY <1>1, <1>4, TargetIs DEF Jump
  <2> DEFINE a == MaxHops - at.hops
             b == Len(pkt) + 1
             p == a * b
             q == (a - 1) * b
  <2>2. a \in Nat /\ b \in Nat /\ a > 0 /\ MaxHops - t.hops = a - 1 /\ t.hops <= MaxHops
    BY <1>1, <1>4, <2>1
  <2>3. p \in Nat /\ q \in Nat /\ q = p - b
    <3> HIDE DEF a, b
    <3> QED
      BY <2>2, Times
  <2>4. Room(pkt, t) \in Nat /\ Room(pkt, t) <= b /\ Room(pkt, at) \in Nat /\ Room(pkt, at) > 0
    BY <1>1, <1>4, <2>1, SMTT(30) DEF Room
  <2>5. Left(pkt, at) = p + Room(pkt, at) /\ Left(pkt, t) = q + Room(pkt, t)
    BY <2>2 DEF Left
  <2> HIDE DEF a, b, p, q
  <2> QED
    BY <2>2, <2>3, <2>4, <2>5
<1>5. CASE /\ Byte(pkt, at.offset) \in 1..63 /\ at.offset + 1 + Byte(pkt, at.offset) <= Len(pkt)
           /\ t = TakeLabel(pkt, at, longer)
  <2>1. t.hops = at.hops /\ t.offset = at.offset + 1 + Byte(pkt, at.offset)
    BY <1>1, <1>5 DEF TakeLabel
  <2> DEFINE p == (MaxHops - at.hops) * (Len(pkt) + 1)
  <2>2. p \in Nat
    <3>1. MaxHops - at.hops \in Nat /\ Len(pkt) + 1 \in Nat
      BY <1>1
    <3> QED
      BY <3>1, TimesTyped
  <2>3. Room(pkt, t) \in Nat /\ Room(pkt, at) \in Nat /\ Room(pkt, t) < Room(pkt, at)
    <3> DEFINE o == at.offset
               b == Byte(pkt, at.offset)
               n == Len(pkt)
    <3>1. /\ o \in Nat /\ b \in 1..63 /\ n \in Nat /\ o + 1 + b <= n
          /\ Room(pkt, at) = (IF o <= n THEN n + 1 - o ELSE 0)
          /\ Room(pkt, t) = (IF o + 1 + b <= n THEN n + 1 - (o + 1 + b) ELSE 0)
      BY <1>1, <1>5, <2>1 DEF Room
    <3> HIDE DEF o, b, n
    <3> QED
      BY <3>1, OffsetIs
  <2>4. Left(pkt, at) = p + Room(pkt, at) /\ Left(pkt, t) = p + Room(pkt, t)
    BY <2>1 DEF Left
  <2> HIDE DEF p
  <2> QED
    BY <2>1, <2>2, <2>3, <2>4
<1> QED
  BY <1>2, <1>3, <1>4, <1>5 DEF Went

Begins(s, t) == Len(s) <= Len(t) /\ \A i \in 1..Len(s) : s[i] = t[i]

LEMMA BeginsAppended ==
    ASSUME NEW s \in Labels, NEW t \in Labels, NEW label \in Seq(Nat), Begins(s, t)
    PROVE  Begins(s, Append(t, label))
<1>1. Len(s) \in Nat /\ Len(t) \in Nat
  BY LabelsAre
<1>2. /\ Len(Append(t, label)) = Len(t) + 1
      /\ \A n \in 1..Len(t) : Append(t, label)[n] = t[n]
  BY LabelAppended
<1> QED
  BY <1>1, <1>2 DEF Begins

LEMMA WentLabels ==
    ASSUME NEW pkt, NEW s \in Reading, NEW t, NEW longer, Went(pkt, s, t, longer)
    PROVE  \/ t.labels = s.labels
           \/ /\ Byte(pkt, s.offset) \in 1..63 /\ s.offset + 1 + Byte(pkt, s.offset) <= Len(pkt)
              /\ t.labels = longer
<1>1. DOMAIN s = {"offset", "labels", "hops", "back", "status"}
  BY DEF Reading
<1>2. Failed(s).labels = s.labels /\ [s EXCEPT !.status = "ok"].labels = s.labels
      /\ Jump(pkt, s).labels = s.labels /\ TakeLabel(pkt, s, longer).labels = longer
  BY <1>1 DEF Failed, Jump, TakeLabel
<1> QED
  BY <1>2 DEF Went

LEMMA TakenRawIs ==
    ASSUME NEW pkt \in Seq(Nat), NEW s \in Reading, Byte(pkt, s.offset) \in 1..63,
           s.offset + 1 + Byte(pkt, s.offset) <= Len(pkt)
    PROVE  Raw(pkt, s.offset) \in Seq(Nat)
<1>1. s.offset \in Nat /\ Len(pkt) \in Nat
  BY ReadingIs
<1>2. s.offset < Len(pkt)
  BY <1>1, OffsetIs
<1> QED
  BY <1>1, <1>2, RawIs

\* Where the loop of decompress_name ends, from any state.
Questions(pkt) ==
    CHOOSE f : f = [at \in Reading |-> IF at.status = "reading" THEN f[DecompressTurn(pkt, at)] ELSE at]

LEMMA DecompressTurnTyped ==
    ASSUME NEW pkt \in Seq(Nat), NEW at \in Reading, at.status = "reading"
    PROVE  DecompressTurn(pkt, at) \in Reading
<1>1. at.labels \in Labels /\ at.offset \in Nat
  BY ReadingIs
<1>2. ASSUME Byte(pkt, at.offset) \in 1..63, at.offset + 1 + Byte(pkt, at.offset) <= Len(pkt)
      PROVE  Append(at.labels, unescape_label(Raw(pkt, at.offset))) \in Labels
  <2>1. unescape_label(Raw(pkt, at.offset)) \in Seq(Nat)
    BY <1>2, TakenRawIs, UnescapeLabelTyped
  <2> QED
    BY <1>1, <2>1, LabelAppended
<1>3. Went(pkt, at, DecompressTurn(pkt, at), Append(at.labels, unescape_label(Raw(pkt, at.offset))))
  BY DecompressWent
<1> QED
  BY <1>2, <1>3, WentTyped

LEMMA QuestionsAre ==
    ASSUME NEW pkt \in Seq(Nat)
    PROVE  /\ \A at \in Reading :
                 Questions(pkt)[at] = IF at.status = "reading" THEN Questions(pkt)[DecompressTurn(pkt, at)] ELSE at
           /\ \A offset : Decompressed(pkt, offset) = Questions(pkt)[ReadFrom(offset)]
<1> DEFINE Going == {at \in Reading : at.status = "reading"}
           next == [at \in Going |-> DecompressTurn(pkt, at)]
<1>1. next \in [Going -> Reading] /\ Going \in SUBSET Reading
  BY DecompressTurnTyped
<1>2. \A at \in Reading : /\ at \in Going <=> at.status = "reading"
                          /\ at \in Going => next[at] = DecompressTurn(pkt, at)
  OBVIOUS
<1> HIDE DEF Going, next
<1>3. PICK f : Reads(f, Reading, Going, next)
  BY <1>1, ReadExists
<1>4. f = [at \in Reading |-> IF at.status = "reading" THEN f[DecompressTurn(pkt, at)] ELSE at]
  BY <1>2, <1>3 DEF Reads
<1>5. Questions(pkt) = [at \in Reading |-> IF at.status = "reading" THEN Questions(pkt)[DecompressTurn(pkt, at)] ELSE at]
  BY <1>4 DEF Questions
<1>6. \A offset : Decompressed(pkt, offset) = Questions(pkt)[ReadFrom(offset)]
  BY DEF Decompressed, Questions
<1> QED
  BY <1>5, <1>6

\* Its turns come to an end, and labels are only added.
LEMMA QuestionsEnd ==
    ASSUME NEW pkt \in Seq(Nat), NEW at \in Reading, at.hops <= MaxHops
    PROVE  \E e \in Reading : e.status # "reading" /\ Questions(pkt)[at] = e /\ Begins(at.labels, e.labels)
<1> DEFINE Inv == {s \in Reading : /\ s.hops <= MaxHops /\ Questions(pkt)[s] = Questions(pkt)[at]
                                   /\ Begins(at.labels, s.labels)}
           left == [s \in Inv |-> Left(pkt, s)]
           Going == {s \in Reading : s.status = "reading"}
<1>1. at \in Inv
  <2>1. at.labels \in Labels
    BY ReadingIs
  <2>2. Begins(at.labels, at.labels)
    BY <2>1, LabelsAre DEF Begins
  <2> QED
    BY <2>2
<1>2. left \in [Inv -> Nat]
  BY LeftTyped
<1>3. ASSUME NEW s \in Inv, s \in Going
      PROVE  \E t \in Inv : t \notin Going \/ left[t] < left[s]
  <2> DEFINE t == DecompressTurn(pkt, s)
  <2>1. s \in Reading /\ s.status = "reading" /\ s.hops <= MaxHops /\ Begins(at.labels, s.labels)
        /\ Questions(pkt)[s] = Questions(pkt)[at]
    BY <1>3
  <2>2. Went(pkt, s, t, Append(s.labels, unescape_label(Raw(pkt, s.offset)))) /\ t \in Reading
    BY <2>1, DecompressWent, DecompressTurnTyped
  <2> HIDE DEF t
  <2>3. t.hops <= MaxHops /\ (t.status # "reading" \/ Left(pkt, t) < Left(pkt, s))
    BY <2>1, <2>2, WentOn
  <2>4. Questions(pkt)[t] = Questions(pkt)[at]
    BY <2>1, QuestionsAre DEF t
  <2>5. Begins(at.labels, t.labels)
    <3>1. s.labels \in Labels /\ at.labels \in Labels
      BY <2>1, ReadingIs
    <3>2. CASE t.labels = s.labels
      BY <2>1, <3>2
    <3>3. CASE /\ Byte(pkt, s.offset) \in 1..63 /\ s.offset + 1 + Byte(pkt, s.offset) <= Len(pkt)
               /\ t.labels = Append(s.labels, unescape_label(Raw(pkt, s.offset)))
      <4>1. unescape_label(Raw(pkt, s.offset)) \in Seq(Nat)
        BY <2>1, <3>3, TakenRawIs, UnescapeLabelTyped
      <4>2. Begins(at.labels, Append(s.labels, unescape_label(Raw(pkt, s.offset))))
        BY <2>1, <3>1, <4>1, BeginsAppended
      <4> QED
        BY <3>3, <4>2
    <3>4. \/ t.labels = s.labels
          \/ /\ Byte(pkt, s.offset) \in 1..63 /\ s.offset + 1 + Byte(pkt, s.offset) <= Len(pkt)
             /\ t.labels = Append(s.labels, unescape_label(Raw(pkt, s.offset)))
      <4> DEFINE longer == Append(s.labels, unescape_label(Raw(pkt, s.offset)))
      <4>1. Went(pkt, s, t, longer) /\ s \in Reading
        BY <2>1, <2>2
      <4>2. \/ t.labels = s.labels
            \/ /\ Byte(pkt, s.offset) \in 1..63 /\ s.offset + 1 + Byte(pkt, s.offset) <= Len(pkt)
               /\ t.labels = longer
        <5> HIDE DEF longer
        <5> QED
          BY <4>1, WentLabels
      <4> QED
        BY <4>2
    <3> QED
      BY <3>2, <3>3, <3>4
  <2>6. t \in Inv
    BY <2>2, <2>3, <2>4, <2>5
  <2> QED
    BY <2>1, <2>3, <2>6
<1> HIDE DEF Inv, left, Going
<1>4. Inv # {}
  BY <1>1
<1>5. PICK e \in Inv : e \notin Going
  BY <1>2, <1>3, <1>4, LoopEnds
<1>6. e \in Reading /\ e.status # "reading" /\ Questions(pkt)[e] = Questions(pkt)[at] /\ Begins(at.labels, e.labels)
  BY <1>5 DEF Inv, Going
<1>7. Questions(pkt)[e] = e
  BY <1>6, QuestionsAre
<1> QED
  BY <1>6, <1>7

\* Where the loop of from_wire ends, from any state.
Records(pkt) ==
    CHOOSE f : f = [at \in Reading |-> IF at.status = "reading" THEN f[FromWireTurn(pkt, at)] ELSE at]

LEMMA FromWireTurnTyped ==
    ASSUME NEW pkt \in Seq(Nat), NEW at \in Reading, at.status = "reading"
    PROVE  FromWireTurn(pkt, at) \in Reading
<1>1. at.labels \in Labels /\ at.offset \in Nat
  BY ReadingIs
<1>2. ASSUME Byte(pkt, at.offset) \in 1..63, at.offset + 1 + Byte(pkt, at.offset) <= Len(pkt)
      PROVE  Append(at.labels, Raw(pkt, at.offset)) \in Labels
  <2>1. Raw(pkt, at.offset) \in Seq(Nat)
    BY <1>2, TakenRawIs
  <2> QED
    BY <1>1, <2>1, LabelAppended
<1>3. Went(pkt, at, FromWireTurn(pkt, at), Append(at.labels, Raw(pkt, at.offset)))
  BY FromWireWent
<1> QED
  BY <1>2, <1>3, WentTyped

LEMMA RecordsAre ==
    ASSUME NEW pkt \in Seq(Nat)
    PROVE  /\ \A at \in Reading :
                 Records(pkt)[at] = IF at.status = "reading" THEN Records(pkt)[FromWireTurn(pkt, at)] ELSE at
           /\ \A offset : Parsed(pkt, offset) = Records(pkt)[ReadFrom(offset)]
<1> DEFINE Going == {at \in Reading : at.status = "reading"}
           next == [at \in Going |-> FromWireTurn(pkt, at)]
<1>1. next \in [Going -> Reading] /\ Going \in SUBSET Reading
  BY FromWireTurnTyped
<1>2. \A at \in Reading : /\ at \in Going <=> at.status = "reading"
                          /\ at \in Going => next[at] = FromWireTurn(pkt, at)
  OBVIOUS
<1> HIDE DEF Going, next
<1>3. PICK f : Reads(f, Reading, Going, next)
  BY <1>1, ReadExists
<1>4. f = [at \in Reading |-> IF at.status = "reading" THEN f[FromWireTurn(pkt, at)] ELSE at]
  BY <1>2, <1>3 DEF Reads
<1>5. Records(pkt) = [at \in Reading |-> IF at.status = "reading" THEN Records(pkt)[FromWireTurn(pkt, at)] ELSE at]
  BY <1>4 DEF Records
<1>6. \A offset : Parsed(pkt, offset) = Records(pkt)[ReadFrom(offset)]
  BY DEF Parsed, Records
<1> QED
  BY <1>5, <1>6

\* Its turns come to an end, and labels are only added.
LEMMA RecordsEnd ==
    ASSUME NEW pkt \in Seq(Nat), NEW at \in Reading, at.hops <= MaxHops
    PROVE  \E e \in Reading : e.status # "reading" /\ Records(pkt)[at] = e /\ Begins(at.labels, e.labels)
<1> DEFINE Inv == {s \in Reading : /\ s.hops <= MaxHops /\ Records(pkt)[s] = Records(pkt)[at]
                                   /\ Begins(at.labels, s.labels)}
           left == [s \in Inv |-> Left(pkt, s)]
           Going == {s \in Reading : s.status = "reading"}
<1>1. at \in Inv
  <2>1. at.labels \in Labels
    BY ReadingIs
  <2>2. Begins(at.labels, at.labels)
    BY <2>1, LabelsAre DEF Begins
  <2> QED
    BY <2>2
<1>2. left \in [Inv -> Nat]
  BY LeftTyped
<1>3. ASSUME NEW s \in Inv, s \in Going
      PROVE  \E t \in Inv : t \notin Going \/ left[t] < left[s]
  <2> DEFINE t == FromWireTurn(pkt, s)
  <2>1. s \in Reading /\ s.status = "reading" /\ s.hops <= MaxHops /\ Begins(at.labels, s.labels)
        /\ Records(pkt)[s] = Records(pkt)[at]
    BY <1>3
  <2>2. Went(pkt, s, t, Append(s.labels, Raw(pkt, s.offset))) /\ t \in Reading
    BY <2>1, FromWireWent, FromWireTurnTyped
  <2> HIDE DEF t
  <2>3. t.hops <= MaxHops /\ (t.status # "reading" \/ Left(pkt, t) < Left(pkt, s))
    BY <2>1, <2>2, WentOn
  <2>4. Records(pkt)[t] = Records(pkt)[at]
    BY <2>1, RecordsAre DEF t
  <2>5. Begins(at.labels, t.labels)
    <3>1. s.labels \in Labels /\ at.labels \in Labels
      BY <2>1, ReadingIs
    <3>2. CASE t.labels = s.labels
      BY <2>1, <3>2
    <3>3. CASE /\ Byte(pkt, s.offset) \in 1..63 /\ s.offset + 1 + Byte(pkt, s.offset) <= Len(pkt)
               /\ t.labels = Append(s.labels, Raw(pkt, s.offset))
      <4>1. Raw(pkt, s.offset) \in Seq(Nat)
        BY <2>1, <3>3, TakenRawIs
      <4>2. Begins(at.labels, Append(s.labels, Raw(pkt, s.offset)))
        BY <2>1, <3>1, <4>1, BeginsAppended
      <4> QED
        BY <3>3, <4>2
    <3>4. \/ t.labels = s.labels
          \/ /\ Byte(pkt, s.offset) \in 1..63 /\ s.offset + 1 + Byte(pkt, s.offset) <= Len(pkt)
             /\ t.labels = Append(s.labels, Raw(pkt, s.offset))
      <4> DEFINE longer == Append(s.labels, Raw(pkt, s.offset))
      <4>1. Went(pkt, s, t, longer) /\ s \in Reading
        BY <2>1, <2>2
      <4>2. \/ t.labels = s.labels
            \/ /\ Byte(pkt, s.offset) \in 1..63 /\ s.offset + 1 + Byte(pkt, s.offset) <= Len(pkt)
               /\ t.labels = longer
        <5> HIDE DEF longer
        <5> QED
          BY <4>1, WentLabels
      <4> QED
        BY <4>2
    <3> QED
      BY <3>2, <3>3, <3>4
  <2>6. t \in Inv
    BY <2>2, <2>3, <2>4, <2>5
  <2> QED
    BY <2>1, <2>3, <2>6
<1> HIDE DEF Inv, left, Going
<1>4. Inv # {}
  BY <1>1
<1>5. PICK e \in Inv : e \notin Going
  BY <1>2, <1>3, <1>4, LoopEnds
<1>6. e \in Reading /\ e.status # "reading" /\ Records(pkt)[e] = Records(pkt)[at] /\ Begins(at.labels, e.labels)
  BY <1>5 DEF Inv, Going
<1>7. Records(pkt)[e] = e
  BY <1>6, RecordsAre
<1> QED
  BY <1>6, <1>7

\* Where the loop of validate_name_at_offset ends, from any state.
Valids(pkt) ==
    CHOOSE f : f = [at \in Reading |-> IF at.status = "reading" THEN f[ValidateTurn(pkt, at)] ELSE at]

LEMMA ValidateTurnTyped ==
    ASSUME NEW pkt \in Seq(Nat), NEW at \in Reading, at.status = "reading"
    PROVE  ValidateTurn(pkt, at) \in Reading
<1>1. at.labels \in Labels /\ at.offset \in Nat
  BY ReadingIs
<1>2. ASSUME Byte(pkt, at.offset) \in 1..63, at.offset + 1 + Byte(pkt, at.offset) <= Len(pkt)
      PROVE  at.labels \in Labels
  BY <1>1
<1>3. Went(pkt, at, ValidateTurn(pkt, at), at.labels)
  BY ValidateWent
<1> QED
  BY <1>2, <1>3, WentTyped

LEMMA ValidsAre ==
    ASSUME NEW pkt \in Seq(Nat)
    PROVE  /\ \A at \in Reading :
                 Valids(pkt)[at] = IF at.status = "reading" THEN Valids(pkt)[ValidateTurn(pkt, at)] ELSE at
           /\ \A offset : Validated(pkt, offset) = Valids(pkt)[ReadFrom(offset)]
<1> DEFINE Going == {at \in Reading : at.status = "reading"}
           next == [at \in Going |-> ValidateTurn(pkt, at)]
<1>1. next \in [Going -> Reading] /\ Going \in SUBSET Reading
  BY ValidateTurnTyped
<1>2. \A at \in Reading : /\ at \in Going <=> at.status = "reading"
                          /\ at \in Going => next[at] = ValidateTurn(pkt, at)
  OBVIOUS
<1> HIDE DEF Going, next
<1>3. PICK f : Reads(f, Reading, Going, next)
  BY <1>1, ReadExists
<1>4. f = [at \in Reading |-> IF at.status = "reading" THEN f[ValidateTurn(pkt, at)] ELSE at]
  BY <1>2, <1>3 DEF Reads
<1>5. Valids(pkt) = [at \in Reading |-> IF at.status = "reading" THEN Valids(pkt)[ValidateTurn(pkt, at)] ELSE at]
  BY <1>4 DEF Valids
<1>6. \A offset : Validated(pkt, offset) = Valids(pkt)[ReadFrom(offset)]
  BY DEF Validated, Valids
<1> QED
  BY <1>5, <1>6

\* Its turns come to an end, and labels are only added.
LEMMA ValidsEnd ==
    ASSUME NEW pkt \in Seq(Nat), NEW at \in Reading, at.hops <= MaxHops
    PROVE  \E e \in Reading : e.status # "reading" /\ Valids(pkt)[at] = e /\ Begins(at.labels, e.labels)
<1> DEFINE Inv == {s \in Reading : /\ s.hops <= MaxHops /\ Valids(pkt)[s] = Valids(pkt)[at]
                                   /\ Begins(at.labels, s.labels)}
           left == [s \in Inv |-> Left(pkt, s)]
           Going == {s \in Reading : s.status = "reading"}
<1>1. at \in Inv
  <2>1. at.labels \in Labels
    BY ReadingIs
  <2>2. Begins(at.labels, at.labels)
    BY <2>1, LabelsAre DEF Begins
  <2> QED
    BY <2>2
<1>2. left \in [Inv -> Nat]
  BY LeftTyped
<1>3. ASSUME NEW s \in Inv, s \in Going
      PROVE  \E t \in Inv : t \notin Going \/ left[t] < left[s]
  <2> DEFINE t == ValidateTurn(pkt, s)
  <2>1. s \in Reading /\ s.status = "reading" /\ s.hops <= MaxHops /\ Begins(at.labels, s.labels)
        /\ Valids(pkt)[s] = Valids(pkt)[at]
    BY <1>3
  <2>2. Went(pkt, s, t, s.labels) /\ t \in Reading
    BY <2>1, ValidateWent, ValidateTurnTyped
  <2> HIDE DEF t
  <2>3. t.hops <= MaxHops /\ (t.status # "reading" \/ Left(pkt, t) < Left(pkt, s))
    BY <2>1, <2>2, WentOn
  <2>4. Valids(pkt)[t] = Valids(pkt)[at]
    BY <2>1, ValidsAre DEF t
  <2>5. Begins(at.labels, t.labels)
    BY <2>1, <2>2, WentLabels
  <2>6. t \in Inv
    BY <2>2, <2>3, <2>4, <2>5
  <2> QED
    BY <2>1, <2>3, <2>6
<1> HIDE DEF Inv, left, Going
<1>4. Inv # {}
  BY <1>1
<1>5. PICK e \in Inv : e \notin Going
  BY <1>2, <1>3, <1>4, LoopEnds
<1>6. e \in Reading /\ e.status # "reading" /\ Valids(pkt)[e] = Valids(pkt)[at] /\ Begins(at.labels, e.labels)
  BY <1>5 DEF Inv, Going
<1>7. Valids(pkt)[e] = e
  BY <1>6, ValidsAre
<1> QED
  BY <1>6, <1>7

-----------------------------------------------------------------------------
(* The readers on one packet *)

LEMMA TurnFields ==
    ASSUME NEW pkt, NEW s \in Reading
    PROVE  /\ Failed(s).status = "error"
           /\ Jump(pkt, s).status = s.status /\ Jump(pkt, s).offset = Target(pkt, s.offset)
           /\ Jump(pkt, s).hops = s.hops + 1 /\ Jump(pkt, s).back = Follow(s.back, s.offset)
           /\ Jump(pkt, s).labels = s.labels
<1>1. DOMAIN s = {"offset", "labels", "hops", "back", "status"}
  BY DEF Reading
<1> QED
  BY <1>1 DEF Failed, Jump

LEMMA LabelFields ==
    ASSUME NEW pkt, NEW s \in Reading, NEW longer, NEW t, t = TakeLabel(pkt, s, longer)
    PROVE  /\ t.status = s.status /\ t.offset = s.offset + 1 + Byte(pkt, s.offset)
           /\ t.hops = s.hops /\ t.back = s.back /\ t.labels = longer
<1>1. DOMAIN s = {"offset", "labels", "hops", "back", "status"}
  BY DEF Reading
<1> QED
  BY <1>1 DEF TakeLabel

LEMMA ByteOnly ==
    ASSUME NEW pkt \in Seq(Nat), NEW s \in Reading, s.offset < Len(pkt)
    PROVE  /\ s.offset \in Nat /\ Len(pkt) \in Nat /\ Byte(pkt, s.offset) \in Nat
           /\ ~(s.offset >= Len(pkt))
           /\ Byte(pkt, s.offset) = 0 => ~IsPointer(Byte(pkt, s.offset)) /\ ~IsReserved(Byte(pkt, s.offset))
           /\ IsPointer(Byte(pkt, s.offset)) => Byte(pkt, s.offset) # 0 /\ ~IsReserved(Byte(pkt, s.offset))
                                                /\ Byte(pkt, s.offset) \notin 1..63
           /\ Byte(pkt, s.offset) \in 1..63 => Byte(pkt, s.offset) # 0 /\ ~IsPointer(Byte(pkt, s.offset))
                                               /\ ~IsReserved(Byte(pkt, s.offset))
<1>1. s.offset \in Nat /\ Len(pkt) \in Nat
  BY ReadingIs
<1>2. Byte(pkt, s.offset) \in Nat
  BY <1>1, ByteIs
<1>3. ~(s.offset >= Len(pkt))
  BY <1>1
<1> QED
  BY <1>1, <1>2, <1>3, ByteCases

LEMMA RecordsFailed ==
    ASSUME NEW pkt \in Seq(Nat), NEW s \in Reading, s.status = "reading", FromWireTurn(pkt, s) = Failed(s)
    PROVE  Records(pkt)[s].status = "error"
<1>1. Failed(s) \in Reading /\ Failed(s).status = "error"
  BY FromWireTurnTyped, TurnFields
<1>2. Records(pkt)[s] = Records(pkt)[Failed(s)] /\ Records(pkt)[Failed(s)] = Failed(s)
  BY <1>1, RecordsAre
<1> QED
  BY <1>1, <1>2

\* What from_wire accepts with plain labels, decompress_name reads with the same turns.
LEMMA RecordTurnSame ==
    ASSUME NEW pkt \in Seq(Nat), NEW s \in Reading, s.status = "reading", s.hops <= MaxHops,
           Records(pkt)[s].status = "ok",
           \A i \in 1..Len(Records(pkt)[s].labels) : Plain(Records(pkt)[s].labels[i])
    PROVE  DecompressTurn(pkt, s) = FromWireTurn(pkt, s)
<1> DEFINE t == FromWireTurn(pkt, s)
           byte == Byte(pkt, s.offset)
<1>1. t \in Reading /\ t.hops <= MaxHops /\ t # Failed(s) /\ Records(pkt)[s] = Records(pkt)[t]
  BY FromWireTurnTyped, FromWireWent, WentOn, RecordsFailed, RecordsAre
<1>2. FromWireTurnOf(pkt, s) /\ DecompressTurnOf(pkt, s)
  BY FromWireTurns, DecompressTurns
<1>3. CASE s.offset < Len(pkt) /\ byte = 0 /\ t = [s EXCEPT !.status = "ok"]
  <2>1. ~(s.offset >= Len(pkt)) /\ ~IsPointer(byte) /\ ~IsReserved(byte)
    BY <1>3, ByteOnly
  <2> HIDE DEF t
  <2>2. byte \notin 1..63
    BY <1>3
  <2> HIDE DEF byte
  <2>3. DecompressTurn(pkt, s) = [s EXCEPT !.status = "ok"]
    BY <1>2, <1>3, <2>1, <2>2 DEF DecompressTurnOf, TurnOf, byte
  <2> QED
    BY <1>3, <2>3 DEF t
<1>4. CASE /\ s.offset + 1 < Len(pkt) /\ IsPointer(byte) /\ s.hops < MaxHops /\ t = Jump(pkt, s)
  <2>1. s.offset < Len(pkt)
    BY <1>4, ReadingIs
  <2>2. ~(s.offset >= Len(pkt)) /\ byte # 0 /\ ~IsReserved(byte) /\ byte \notin 1..63
    BY <1>4, <2>1, ByteOnly
  <2>3. Target(pkt, s.offset) < Len(pkt)
    <3>1. SUFFICES ASSUME ~(Target(pkt, s.offset) < Len(pkt))
                   PROVE  FALSE
      OBVIOUS
    <3>2. t.offset >= Len(pkt) /\ t.status = "reading"
      <4>1. t.offset = Target(pkt, s.offset) /\ t.status = "reading" /\ t.offset \in Nat /\ Len(pkt) \in Nat
        <5>1. t.offset = Target(pkt, s.offset) /\ t.status = "reading"
          BY <1>4, TurnFields
        <5> HIDE DEF t
        <5> QED
          BY <1>1, <5>1, ReadingIs
      <4> HIDE DEF t
      <4> QED
        BY <3>1, <4>1
    <3>3. FromWireTurn(pkt, t) = Failed(t)
      BY <3>2 DEF FromWireTurn, ReaderTurn
    <3> HIDE DEF t
    <3> QED
      BY <1>1, <3>2, <3>3, RecordsFailed
  <2> HIDE DEF byte, t
  <2>4. DecompressTurn(pkt, s) = Jump(pkt, s)
    BY <1>2, <1>4, <2>1, <2>2, <2>3 DEF DecompressTurnOf, TurnOf, byte
  <2> QED
    BY <1>4, <2>4 DEF t
<1>5. CASE /\ byte \in 1..63 /\ s.offset + 1 + byte <= Len(pkt)
           /\ IsText(Raw(pkt, s.offset))
           /\ Length(Append(s.labels, Raw(pkt, s.offset))) <= MAX_NAME_LEN
           /\ t = TakeLabel(pkt, s, Append(s.labels, Raw(pkt, s.offset)))
  <2> DEFINE raw == Raw(pkt, s.offset)
             longer == Append(s.labels, raw)
  <2>1. s.offset < Len(pkt)
    <3>1. s.offset \in Nat /\ Len(pkt) \in Nat
      BY ReadingIs
    <3> HIDE DEF byte
    <3> QED
      BY <1>5, <3>1, OffsetIs
  <2>2. ~(s.offset >= Len(pkt)) /\ byte # 0 /\ ~IsReserved(byte) /\ ~IsPointer(byte)
    BY <1>5, <2>1, ByteOnly
  <2>3. raw \in Seq(Nat) /\ s.labels \in Labels
    BY <1>5, TakenRawIs, ReadingIs
  <2>4. t.labels = longer
    <3>1. t = TakeLabel(pkt, s, longer)
      BY <1>5
    <3> HIDE DEF t, longer
    <3> QED
      BY <3>1, LabelFields
  <2>5. Begins(longer, Records(pkt)[s].labels)
    <3>1. Begins(t.labels, Records(pkt)[t].labels)
      <4> HIDE DEF t
      <4> QED
        BY <1>1, RecordsEnd
    <3> HIDE DEF t
    <3> QED
      BY <1>1, <2>4, <3>1
  <2>6. Plain(raw)
    <3>1. Len(longer) = Len(s.labels) + 1 /\ longer[Len(s.labels) + 1] = raw /\ Len(s.labels) \in Nat
      BY <2>3, LabelAppended, LabelsAre
    <3>2. Records(pkt)[s].labels \in Labels
      <4>1. Records(pkt)[s] \in Reading
        BY RecordsEnd
      <4> QED
        BY <4>1, ReadingIs
    <3>3. Len(Records(pkt)[s].labels) \in Nat
      BY <3>2, LabelsAre
    <3> HIDE DEF longer, raw
    <3>4. Len(s.labels) + 1 \in 1..Len(longer) /\ Len(s.labels) + 1 \in 1..Len(Records(pkt)[s].labels)
      BY <2>5, <3>1, <3>3 DEF Begins
    <3> QED
      BY <2>5, <3>1, <3>4 DEF Begins
  <2>7. ~IsCut(raw) /\ unescape_label(raw) = raw
    <3>1. \A i \in 1..Len(raw) : raw[i] # NAME_ESCAPE
      BY <2>3, <2>6 DEF Plain
    <3>2. IsText(raw)
      BY <2>6 DEF Plain
    <3> HIDE DEF raw
    <3> QED
      BY <2>3, <3>1, <3>2, PlainLabel
  <2>8. Length(longer) <= MAXDNAME
    <3>1. Length(longer) \in Nat
      BY <2>3, LabelAppended, LengthTyped
    <3>2. Length(longer) <= MAX_NAME_LEN
      BY <1>5
    <3> HIDE DEF longer
    <3> QED
      BY <3>1, <3>2, WireAssumption
  <2> HIDE DEF byte, t
  <2>9. DecompressTurn(pkt, s) = TakeLabel(pkt, s, longer)
    BY <1>2, <1>5, <2>1, <2>2, <2>7, <2>8 DEF DecompressTurnOf, TurnOf, byte
  <2> QED
    BY <1>5, <2>9 DEF t
<1> QED
  BY <1>1, <1>2, <1>3, <1>4, <1>5 DEF FromWireTurnOf, TurnOf

LEMMA RecordsSame ==
    ASSUME NEW pkt \in Seq(Nat), NEW at \in Reading, at.hops <= MaxHops,
           Records(pkt)[at].status = "ok",
           \A i \in 1..Len(Records(pkt)[at].labels) : Plain(Records(pkt)[at].labels[i])
    PROVE  Questions(pkt)[at] = Records(pkt)[at]
<1> DEFINE Inv == {s \in Reading : /\ s.hops <= MaxHops /\ Records(pkt)[s] = Records(pkt)[at]
                                   /\ Questions(pkt)[s] = Questions(pkt)[at]}
           left == [s \in Inv |-> Left(pkt, s)]
           Going == {s \in Reading : s.status = "reading"}
<1>1. at \in Inv
  OBVIOUS
<1>2. left \in [Inv -> Nat]
  BY LeftTyped
<1>3. ASSUME NEW s \in Inv, s \in Going
      PROVE  \E t \in Inv : t \notin Going \/ left[t] < left[s]
  <2> DEFINE t == FromWireTurn(pkt, s)
  <2>1. /\ s \in Reading /\ s.status = "reading" /\ s.hops <= MaxHops
        /\ Records(pkt)[s] = Records(pkt)[at] /\ Questions(pkt)[s] = Questions(pkt)[at]
    BY <1>3
  <2>2. t \in Reading /\ t.hops <= MaxHops /\ (t.status # "reading" \/ Left(pkt, t) < Left(pkt, s))
    BY <2>1, FromWireTurnTyped, FromWireWent, WentOn
  <2>3. DecompressTurn(pkt, s) = t
    BY <2>1, RecordTurnSame
  <2>4. Records(pkt)[t] = Records(pkt)[at] /\ Questions(pkt)[t] = Questions(pkt)[at]
    BY <2>1, <2>3, RecordsAre, QuestionsAre
  <2> HIDE DEF t
  <2>5. t \in Inv
    BY <2>2, <2>4
  <2> QED
    BY <2>1, <2>2, <2>5
<1> HIDE DEF Inv, left, Going
<1>4. Inv # {}
  BY <1>1
<1>5. PICK e \in Inv : e \notin Going
  BY <1>2, <1>3, <1>4, LoopEnds
<1>6. /\ e \in Reading /\ e.status # "reading"
      /\ Records(pkt)[e] = Records(pkt)[at] /\ Questions(pkt)[e] = Questions(pkt)[at]
  BY <1>5 DEF Inv, Going
<1>7. Records(pkt)[e] = e /\ Questions(pkt)[e] = e
  BY <1>6, RecordsAre, QuestionsAre
<1> QED
  BY <1>6, <1>7

LEMMA QuestionsFailed ==
    ASSUME NEW pkt \in Seq(Nat), NEW s \in Reading, s.status = "reading", DecompressTurn(pkt, s) = Failed(s)
    PROVE  Questions(pkt)[s].status = "error"
<1>1. Failed(s) \in Reading /\ Failed(s).status = "error"
  BY DecompressTurnTyped, TurnFields
<1>2. Questions(pkt)[s] = Questions(pkt)[Failed(s)] /\ Questions(pkt)[Failed(s)] = Failed(s)
  BY <1>1, QuestionsAre
<1> QED
  BY <1>1, <1>2

LEMMA RawPlain ==
    ASSUME NEW pkt \in Seq(Nat), NEW s \in Reading, Byte(pkt, s.offset) \in 1..63,
           s.offset + 1 + Byte(pkt, s.offset) <= Len(pkt), \A i \in 1..Len(pkt) : pkt[i] # NAME_ESCAPE
    PROVE  /\ Len(Raw(pkt, s.offset)) = Byte(pkt, s.offset)
           /\ \A i \in 1..Len(Raw(pkt, s.offset)) : Raw(pkt, s.offset)[i] # NAME_ESCAPE
<1>1. s.offset \in Nat /\ Len(pkt) \in Nat
  BY ReadingIs
<1>2. s.offset < Len(pkt)
  BY <1>1, OffsetIs
<1>3. /\ Len(Raw(pkt, s.offset)) = Byte(pkt, s.offset)
      /\ \A i \in 1..Byte(pkt, s.offset) :
            Raw(pkt, s.offset)[i] = pkt[s.offset + 1 + i] /\ s.offset + 1 + i \in 1..Len(pkt)
  BY <1>1, <1>2, RawIs
<1> QED
  BY <1>3, Zenon

\* What decompress_name accepts, short and with nothing escaped or shown, from_wire
\* reads with the same turns.
LEMMA QuestionTurnSame ==
    ASSUME NEW pkt \in Seq(Nat), NEW s \in Reading, s.status = "reading", s.hops <= MaxHops,
           Questions(pkt)[s].status = "ok",
           \A i \in 1..Len(pkt) : pkt[i] # NAME_ESCAPE,
           \A i \in 1..Len(Questions(pkt)[s].labels) :
              \A j \in DOMAIN Questions(pkt)[s].labels[i] : Questions(pkt)[s].labels[i][j] # Backslash,
           Length(Questions(pkt)[s].labels) <= MAX_NAME_LEN
    PROVE  FromWireTurn(pkt, s) = DecompressTurn(pkt, s)
<1> DEFINE t == DecompressTurn(pkt, s)
           byte == Byte(pkt, s.offset)
<1>1. t \in Reading /\ t.hops <= MaxHops /\ t # Failed(s) /\ Questions(pkt)[s] = Questions(pkt)[t]
  BY DecompressTurnTyped, DecompressWent, WentOn, QuestionsFailed, QuestionsAre
<1>2. FromWireTurnOf(pkt, s) /\ DecompressTurnOf(pkt, s)
  BY FromWireTurns, DecompressTurns
<1>3. CASE s.offset < Len(pkt) /\ byte = 0 /\ t = [s EXCEPT !.status = "ok"]
  <2>1. ~(s.offset >= Len(pkt)) /\ ~IsPointer(byte) /\ ~IsReserved(byte)
    BY <1>3, ByteOnly
  <2> HIDE DEF t
  <2>2. byte \notin 1..63
    BY <1>3
  <2> HIDE DEF byte
  <2>3. FromWireTurn(pkt, s) = [s EXCEPT !.status = "ok"]
    BY <1>2, <1>3, <2>1, <2>2 DEF FromWireTurnOf, TurnOf, byte
  <2> QED
    BY <1>3, <2>3 DEF t
<1>4. CASE /\ s.offset + 1 < Len(pkt) /\ IsPointer(byte) /\ s.hops < MaxHops /\ t = Jump(pkt, s)
  <2>1. s.offset < Len(pkt)
    BY <1>4, ReadingIs
  <2>2. ~(s.offset >= Len(pkt)) /\ byte # 0 /\ ~IsReserved(byte) /\ byte \notin 1..63
    BY <1>4, <2>1, ByteOnly
  <2> HIDE DEF byte, t
  <2>3. FromWireTurn(pkt, s) = Jump(pkt, s)
    BY <1>2, <1>4, <2>1, <2>2 DEF FromWireTurnOf, TurnOf, byte
  <2> QED
    BY <1>4, <2>3 DEF t
<1>5. CASE /\ byte \in 1..63 /\ s.offset + 1 + byte <= Len(pkt)
           /\ t = TakeLabel(pkt, s, Append(s.labels, unescape_label(Raw(pkt, s.offset))))
  <2> DEFINE raw == Raw(pkt, s.offset)
             label == unescape_label(raw)
             longer == Append(s.labels, label)
             all == Questions(pkt)[s].labels
  <2>1. s.offset < Len(pkt)
    <3>1. s.offset \in Nat /\ Len(pkt) \in Nat
      BY ReadingIs
    <3> HIDE DEF byte
    <3> QED
      BY <1>5, <3>1, OffsetIs
  <2>2. ~(s.offset >= Len(pkt)) /\ byte # 0 /\ ~IsReserved(byte) /\ ~IsPointer(byte)
    BY <1>5, <2>1, ByteOnly
  <2>3. raw \in Seq(Nat) /\ label \in Seq(Nat) /\ s.labels \in Labels
    BY <1>5, TakenRawIs, ReadingIs, UnescapeLabelTyped
  <2>4. t.labels = longer
    <3>1. t = TakeLabel(pkt, s, longer)
      BY <1>5
    <3> HIDE DEF t, longer
    <3> QED
      BY <3>1, LabelFields
  <2>5. Begins(longer, all)
    <3>1. Begins(t.labels, Questions(pkt)[t].labels)
      <4> HIDE DEF t
      <4> QED
        BY <1>1, QuestionsEnd
    <3> HIDE DEF t
    <3> QED
      BY <1>1, <2>4, <3>1
  <2>6. all \in Labels /\ Len(all) \in Nat
    <3>1. Questions(pkt)[s] \in Reading
      BY QuestionsEnd
    <3> QED
      BY <3>1, ReadingIs, LabelsAre
  <2>7. \A j \in DOMAIN label : label[j] # Backslash
    <3>1. Len(longer) = Len(s.labels) + 1 /\ longer[Len(s.labels) + 1] = label /\ Len(s.labels) \in Nat
      <4> HIDE DEF label
      <4> QED
        BY <2>3, LabelAppended, LabelsAre
    <3> HIDE DEF longer, label
    <3>2. Len(s.labels) + 1 \in 1..Len(longer) /\ Len(s.labels) + 1 \in 1..Len(all)
      BY <2>5, <2>6, <3>1 DEF Begins
    <3>3. all[Len(s.labels) + 1] = label
      BY <2>5, <3>1, <3>2 DEF Begins
    <3> QED
      BY <3>2, <3>3
  <2>8. IsText(raw) /\ label = raw
    <3>1. \A i \in 1..Len(raw) : raw[i] # NAME_ESCAPE
      BY <1>5, RawPlain
    <3> HIDE DEF raw
    <3> QED
      BY <2>3, <2>7, <3>1, PlainLabel
  <2>9. Length(longer) <= MAX_NAME_LEN
    <3>1. longer \in Labels /\ Len(longer) <= Len(all) /\ \A n \in 1..Len(longer) : longer[n] = all[n]
      <4> HIDE DEF label
      <4> QED
        BY <2>3, <2>5, LabelAppended DEF Begins
    <3> HIDE DEF longer, all
    <3>2. Length(longer) <= Length(all) /\ Length(longer) \in Nat /\ Length(all) \in Nat
      BY <2>6, <3>1, LengthOfPrefix, LengthTyped
    <3> QED
      BY <3>2, WireAssumption DEF all
  <2> HIDE DEF byte, t, label, longer, all
  <2>10. longer = Append(s.labels, raw)
    BY <2>8 DEF longer
  <2>11. FromWireTurn(pkt, s) = TakeLabel(pkt, s, longer)
    BY <1>2, <1>5, <2>1, <2>2, <2>8, <2>9, <2>10 DEF FromWireTurnOf, TurnOf, byte
  <2> QED
    BY <1>5, <2>11 DEF t, longer, label
<1> QED
  BY <1>1, <1>2, <1>3, <1>4, <1>5 DEF DecompressTurnOf, TurnOf

LEMMA QuestionsSame ==
    ASSUME NEW pkt \in Seq(Nat), NEW at \in Reading, at.hops <= MaxHops,
           Questions(pkt)[at].status = "ok",
           \A i \in 1..Len(pkt) : pkt[i] # NAME_ESCAPE,
           \A i \in 1..Len(Questions(pkt)[at].labels) :
              \A j \in DOMAIN Questions(pkt)[at].labels[i] : Questions(pkt)[at].labels[i][j] # Backslash,
           Length(Questions(pkt)[at].labels) <= MAX_NAME_LEN
    PROVE  Records(pkt)[at] = Questions(pkt)[at]
<1> DEFINE Inv == {s \in Reading : /\ s.hops <= MaxHops /\ Questions(pkt)[s] = Questions(pkt)[at]
                                   /\ Records(pkt)[s] = Records(pkt)[at]}
           left == [s \in Inv |-> Left(pkt, s)]
           Going == {s \in Reading : s.status = "reading"}
<1>1. at \in Inv
  OBVIOUS
<1>2. left \in [Inv -> Nat]
  BY LeftTyped
<1>3. ASSUME NEW s \in Inv, s \in Going
      PROVE  \E t \in Inv : t \notin Going \/ left[t] < left[s]
  <2> DEFINE t == DecompressTurn(pkt, s)
  <2>1. /\ s \in Reading /\ s.status = "reading" /\ s.hops <= MaxHops
        /\ Questions(pkt)[s] = Questions(pkt)[at] /\ Records(pkt)[s] = Records(pkt)[at]
    BY <1>3
  <2>2. t \in Reading /\ t.hops <= MaxHops /\ (t.status # "reading" \/ Left(pkt, t) < Left(pkt, s))
    BY <2>1, DecompressTurnTyped, DecompressWent, WentOn
  <2>3. FromWireTurn(pkt, s) = t
    BY <2>1, QuestionTurnSame
  <2>4. Questions(pkt)[t] = Questions(pkt)[at] /\ Records(pkt)[t] = Records(pkt)[at]
    BY <2>1, <2>3, RecordsAre, QuestionsAre
  <2> HIDE DEF t
  <2>5. t \in Inv
    BY <2>2, <2>4
  <2> QED
    BY <2>1, <2>2, <2>5
<1> HIDE DEF Inv, left, Going
<1>4. Inv # {}
  BY <1>1
<1>5. PICK e \in Inv : e \notin Going
  BY <1>2, <1>3, <1>4, LoopEnds
<1>6. /\ e \in Reading /\ e.status # "reading"
      /\ Questions(pkt)[e] = Questions(pkt)[at] /\ Records(pkt)[e] = Records(pkt)[at]
  BY <1>5 DEF Inv, Going
<1>7. Questions(pkt)[e] = e /\ Records(pkt)[e] = e
  BY <1>6, RecordsAre, QuestionsAre
<1> QED
  BY <1>6, <1>7

LEMMA ValidsFailed ==
    ASSUME NEW pkt \in Seq(Nat), NEW s \in Reading, s.status = "reading", ValidateTurn(pkt, s) = Failed(s)
    PROVE  Valids(pkt)[s].status = "error"
<1>1. Failed(s) \in Reading /\ Failed(s).status = "error"
  BY ValidateTurnTyped, TurnFields
<1>2. Valids(pkt)[s] = Valids(pkt)[Failed(s)] /\ Valids(pkt)[Failed(s)] = Failed(s)
  BY <1>1, ValidsAre
<1> QED
  BY <1>1, <1>2

\* A reader with the labels stands where the one without them stands, and its labels
\* are no longer than four characters for each byte that was read.
Level(pkt, v, q) ==
    /\ v.offset = q.offset /\ v.hops = q.hops /\ v.back = q.back /\ v.status = q.status
    /\ q.offset <= Len(pkt)
    /\ Length(q.labels) <= 4 * (q.hops * Len(pkt) + q.offset)

LEMMA LevelArithmetic ==
    ASSUME NEW n \in Nat, NEW h \in Nat, NEW o \in Nat, o <= n, NEW m \in Nat, h <= m
    PROVE  /\ h * n \in Nat /\ (h + 1) * n = h * n + n
           /\ 4 * (h * n + o) <= 4 * n * (m + 1)
<1>1. h * n \in Nat /\ (h + 1) * n = h * n + n
  OBVIOUS
<1>2. PICK d \in Nat : m = h + d
  <2>1. m - h \in Nat /\ m = h + (m - h)
    OBVIOUS
  <2> QED
    BY <2>1
<1>3. d * n \in Nat
  OBVIOUS
<1>4. n * (m + 1) = h * n + d * n + n
  BY <1>2
<1>5. 4 * n * (m + 1) = 4 * (n * (m + 1))
  OBVIOUS
<1> DEFINE x == h * n
           y == d * n
           z == n * (m + 1)
<1>6. x \in Nat /\ y \in Nat /\ z = x + y + n /\ 4 * n * (m + 1) = 4 * z
  BY <1>1, <1>3, <1>4, <1>5
<1>7. 4 * (x + o) <= 4 * z
  <2> HIDE DEF x, y, z
  <2> QED
    BY <1>6
<1> QED
  BY <1>1, <1>6, <1>7

LEMMA JumpArithmetic ==
    ASSUME NEW x \in Nat, NEW n \in Nat, NEW o \in Nat, o <= n, NEW l \in Nat, l <= 4 * (x + o), NEW p \in Nat
    PROVE  l <= 4 * (x + n + p)
  OBVIOUS

LEMMA LabelArithmetic ==
    ASSUME NEW x \in Nat, NEW o \in Nat, NEW l \in Nat, l <= 4 * (x + o), NEW b \in 1..63,
           NEW k \in Nat, k <= 4 * b
    PROVE  l + k + 1 <= 4 * (x + (o + 1 + b))
  OBVIOUS

\* A turn of validate_name_at_offset that does not fail is taken by decompress_name too,
\* if nothing is escaped and the packet is too short to make a name too long.
LEMMA ValidTurnLevel ==
    ASSUME NEW pkt \in Seq(Nat), NEW v \in Reading, NEW q \in Reading,
           v.status = "reading", v.hops <= MaxHops, Level(pkt, v, q),
           Valids(pkt)[v].status = "ok",
           \A i \in 1..Len(pkt) : pkt[i] # NAME_ESCAPE,
           4 * Len(pkt) * (MaxHops + 1) <= MAXDNAME
    PROVE  Level(pkt, ValidateTurn(pkt, v), DecompressTurn(pkt, q))
<1> DEFINE t == ValidateTurn(pkt, v)
           u == DecompressTurn(pkt, q)
           byte == Byte(pkt, q.offset)
           o == q.offset
           n == Len(pkt)
           h == q.hops
<1>1. /\ v.offset = o /\ v.hops = h /\ v.back = q.back /\ q.status = "reading" /\ o <= n
      /\ Length(q.labels) <= 4 * (h * n + o)
      /\ DOMAIN v = {"offset", "labels", "hops", "back", "status"}
      /\ DOMAIN q = {"offset", "labels", "hops", "back", "status"}
  BY DEF Level, Reading
<1>2. o \in Nat /\ n \in Nat /\ h \in Nat /\ q.labels \in Labels /\ Length(q.labels) \in Nat /\ MaxHops \in Nat
      /\ h * n \in Nat
  BY ReadingIs, LengthTyped, WireAssumption, TimesTyped, SMTT(30)
<1>3. t \in Reading /\ u \in Reading /\ t # Failed(v)
  BY <1>1, ValidateTurnTyped, DecompressTurnTyped, ValidsFailed
<1>4. ValidateTurnOf(pkt, v) /\ DecompressTurnOf(pkt, q)
  BY <1>1, ValidateTurns, DecompressTurns
<1>5. CASE o < n /\ byte = 0 /\ t = [v EXCEPT !.status = "ok"]
  <2>1. ~(o >= n) /\ ~IsPointer(byte) /\ ~IsReserved(byte)
    BY <1>5, ByteOnly
  <2> HIDE DEF t, u
  <2>2. byte \notin 1..63
    BY <1>5
  <2> HIDE DEF byte
  <2>3. u = [q EXCEPT !.status = "ok"]
    BY <1>4, <1>5, <2>1, <2>2 DEF DecompressTurnOf, TurnOf, byte, u
  <2>4. t.offset = v.offset /\ t.hops = v.hops /\ t.back = v.back /\ t.status = "ok"
    BY <1>1, <1>5
  <2>5. u.offset = o /\ u.hops = h /\ u.back = q.back /\ u.status = "ok" /\ u.labels = q.labels
    BY <1>1, <2>3
  <2>6. Level(pkt, t, u)
    BY <1>1, <2>4, <2>5 DEF Level
  <2> QED
    BY <2>6 DEF t, u
<1>6. CASE /\ o + 1 < n /\ IsPointer(byte) /\ h < MaxHops /\ Target(pkt, o) < n
           /\ t = Jump(pkt, v)
  <2>1. o < n
    BY <1>2, <1>6
  <2>2. ~(o >= n) /\ byte # 0 /\ ~IsReserved(byte) /\ byte \notin 1..63
    BY <1>6, <2>1, ByteOnly
  <2> HIDE DEF byte, t, u
  <2>3. u = Jump(pkt, q)
    BY <1>4, <1>6, <2>1, <2>2 DEF DecompressTurnOf, TurnOf, byte, u
  <2>4. /\ t.offset = Target(pkt, o) /\ t.hops = h + 1 /\ t.back = Follow(q.back, o) /\ t.status = "reading"
    BY <1>1, <1>6, TurnFields
  <2>5. /\ u.offset = Target(pkt, o) /\ u.hops = h + 1 /\ u.back = Follow(q.back, o) /\ u.status = "reading"
        /\ u.labels = q.labels
    BY <1>1, <2>3, TurnFields
  <2>6. Target(pkt, o) \in Nat
    BY <1>2, <1>6, TargetIs
  <2>7. (h + 1) * n = h * n + n
    BY <1>1, <1>2, LevelArithmetic
  <2>8. Length(q.labels) <= 4 * (h * n + n + Target(pkt, o))
    <3> DEFINE x == h * n
               l == Length(q.labels)
               p == Target(pkt, o)
    <3>1. x \in Nat /\ l \in Nat /\ p \in Nat /\ l <= 4 * (x + o)
      BY <1>1, <1>2, <2>6
    <3> HIDE DEF x, l, p
    <3>2. l <= 4 * (x + n + p)
      BY <1>1, <1>2, <3>1, JumpArithmetic
    <3> QED
      BY <3>2 DEF x, l, p
  <2>9. Target(pkt, o) <= n
    BY <1>2, <1>6, <2>6
  <2>10. Level(pkt, t, u)
    BY <2>4, <2>5, <2>7, <2>8, <2>9 DEF Level
  <2> QED
    BY <2>10 DEF t, u
<1>7. CASE byte \in 1..63 /\ o + 1 + byte <= n /\ t = TakeLabel(pkt, v, v.labels)
  <2> DEFINE raw == Raw(pkt, o)
             label == unescape_label(raw)
             longer == Append(q.labels, label)
  <2>1. o < n
    <3> HIDE DEF byte, o, n
    <3> QED
      BY <1>2, <1>7, OffsetIs
  <2>2. ~(o >= n) /\ byte # 0 /\ ~IsReserved(byte) /\ ~IsPointer(byte)
    BY <1>7, <2>1, ByteOnly
  <2>3. raw \in Seq(Nat) /\ label \in Seq(Nat) /\ Len(label) \in Nat
    BY <1>7, TakenRawIs, UnescapeLabelTyped
  <2>4. ~IsCut(raw) /\ Len(label) <= 4 * byte
    <3>1. Len(raw) = byte /\ \A i \in 1..Len(raw) : raw[i] # NAME_ESCAPE
      BY <1>7, RawPlain
    <3> HIDE DEF raw, byte
    <3>2. ~IsCut(raw) /\ Len(label) <= 4 * Len(raw)
      BY <2>3, <3>1, PlainLabel
    <3> QED
      BY <3>1, <3>2
  <2>5. Length(longer) = Length(q.labels) + Len(label) + 1
    <3> HIDE DEF label
    <3> QED
      BY <1>2, <2>3, LengthOfAppended
  <2> HIDE DEF label
  <2>6. Length(longer) <= 4 * (h * n + (o + 1 + byte))
    <3> DEFINE x == h * n
               l == Length(q.labels)
    <3>1. x \in Nat /\ l \in Nat /\ l <= 4 * (x + o)
      BY <1>1, <1>2
    <3> HIDE DEF x, l, byte, longer
    <3>2. l + Len(label) + 1 <= 4 * (x + (o + 1 + byte))
      BY <1>2, <1>7, <2>3, <2>4, <3>1, LabelArithmetic
    <3> QED
      BY <2>5, <3>2 DEF x, l
  <2> HIDE DEF byte, t, u
  <2>7. Length(longer) <= MAXDNAME
    <3> DEFINE a == 4 * (h * n + (o + 1 + byte))
               c == 4 * n * (MaxHops + 1)
    <3>1. o + 1 + byte \in Nat
      <4> HIDE DEF byte, o
      <4> QED
        BY <1>2, <1>7, OffsetIs
    <3>2. h <= MaxHops
      BY <1>1
    <3>3. a <= c
      <4> HIDE DEF h, n, o
      <4> QED
        BY <1>2, <1>7, <3>1, <3>2, LevelArithmetic
    <3>4. a \in Nat /\ c \in Nat /\ Length(longer) \in Nat /\ MAXDNAME \in Nat
      <4>1. h * n + (o + 1 + byte) \in Nat
        BY <1>2, <3>1, SMTT(30)
      <4>2. a \in Nat
        <5> HIDE DEF h, n, o
        <5> QED
          BY <4>1
      <4>3. c \in Nat
        BY <1>2
      <4> QED
        BY <1>2, <2>3, <4>2, <4>3, LabelAppended, LengthTyped, WireAssumption
    <3>5. Length(longer) <= a /\ c <= MAXDNAME
      BY <2>6
    <3> HIDE DEF a, c, longer
    <3> QED
      BY <3>3, <3>4, <3>5
  <2>8. u = TakeLabel(pkt, q, longer)
    BY <1>4, <1>7, <2>1, <2>2, <2>4, <2>7 DEF DecompressTurnOf, TurnOf, byte, u, label
  <2> HIDE DEF longer
  <2>9. t.offset = o + 1 + byte /\ t.hops = h /\ t.back = q.back /\ t.status = "reading"
    <3>1. /\ t.status = v.status /\ t.offset = v.offset + 1 + Byte(pkt, v.offset)
          /\ t.hops = v.hops /\ t.back = v.back
      BY <1>7, LabelFields
    <3> QED
      BY <1>1, <3>1 DEF byte
  <2>10. u.offset = o + 1 + byte /\ u.hops = h /\ u.back = q.back /\ u.status = "reading" /\ u.labels = longer
    <3>1. /\ u.status = q.status /\ u.offset = q.offset + 1 + Byte(pkt, q.offset)
          /\ u.hops = q.hops /\ u.back = q.back /\ u.labels = longer
      BY <2>8, LabelFields
    <3> QED
      BY <1>1, <3>1 DEF byte
  <2>11. Level(pkt, t, u)
    BY <1>7, <2>6, <2>9, <2>10 DEF Level
  <2> QED
    BY <2>11 DEF t, u
<1>8. \/ o < n /\ byte = 0 /\ t = [v EXCEPT !.status = "ok"]
      \/ o + 1 < n /\ IsPointer(byte) /\ h < MaxHops /\ Target(pkt, o) < n /\ t = Jump(pkt, v)
      \/ byte \in 1..63 /\ o + 1 + byte <= n /\ t = TakeLabel(pkt, v, v.labels)
  <2> HIDE DEF t
  <2> QED
    BY <1>1, <1>3, <1>4 DEF ValidateTurnOf, TurnOf, t
<1> QED
  BY <1>5, <1>6, <1>7, <1>8

LEMMA ValidsLevel ==
    ASSUME NEW pkt \in Seq(Nat), NEW at \in Reading, at.status = "reading", at.hops <= MaxHops,
           Level(pkt, at, at), Valids(pkt)[at].status = "ok",
           \A i \in 1..Len(pkt) : pkt[i] # NAME_ESCAPE,
           4 * Len(pkt) * (MaxHops + 1) <= MAXDNAME
    PROVE  Level(pkt, Valids(pkt)[at], Questions(pkt)[at])
<1> DEFINE Inv == {p \in Reading \X Reading :
                     /\ p[1].hops <= MaxHops /\ Level(pkt, p[1], p[2])
                     /\ Valids(pkt)[p[1]] = Valids(pkt)[at] /\ Questions(pkt)[p[2]] = Questions(pkt)[at]}
           left == [p \in Inv |-> Left(pkt, p[1])]
           Going == {p \in Reading \X Reading : p[1].status = "reading"}
<1>1. <<at, at>> \in Inv
  OBVIOUS
<1>2. left \in [Inv -> Nat]
  BY LeftTyped
<1>3. ASSUME NEW p \in Inv, p \in Going
      PROVE  \E r \in Inv : r \notin Going \/ left[r] < left[p]
  <2> DEFINE v == p[1]
             q == p[2]
             t == ValidateTurn(pkt, v)
             u == DecompressTurn(pkt, q)
  <2>1. /\ v \in Reading /\ q \in Reading /\ v.status = "reading" /\ v.hops <= MaxHops
        /\ Level(pkt, v, q)
        /\ Valids(pkt)[v] = Valids(pkt)[at] /\ Questions(pkt)[q] = Questions(pkt)[at]
    BY <1>3
  <2>2. left[p] = Left(pkt, v)
    OBVIOUS
  <2> HIDE DEF v, q
  <2>3. q.status = "reading"
    BY <2>1 DEF Level
  <2>4. t \in Reading /\ u \in Reading /\ t.hops <= MaxHops
        /\ (t.status # "reading" \/ Left(pkt, t) < Left(pkt, v))
    BY <2>1, <2>3, ValidateTurnTyped, DecompressTurnTyped, ValidateWent, WentOn
  <2>5. Level(pkt, t, u)
    BY <2>1, ValidTurnLevel
  <2>6. Valids(pkt)[t] = Valids(pkt)[at] /\ Questions(pkt)[u] = Questions(pkt)[at]
    BY <2>1, <2>3, ValidsAre, QuestionsAre
  <2> HIDE DEF t, u
  <2>7. <<t, u>> \in Inv
    BY <2>4, <2>5, <2>6
  <2>8. left[<<t, u>>] = Left(pkt, t)
    BY <2>7
  <2>9. <<t, u>> \notin Going \/ left[<<t, u>>] < left[p]
    <3>1. t.status # "reading" => <<t, u>> \notin Going
      OBVIOUS
    <3> HIDE DEF Going, left, Inv
    <3> QED
      BY <2>2, <2>4, <2>8, <3>1
  <2> QED
    BY <2>7, <2>9
<1>4. Inv # {}
  BY <1>1
<1>5. PICK p \in Inv : p \notin Going
  <2> HIDE DEF Inv, left, Going
  <2> QED
    BY <1>2, <1>3, <1>4, LoopEnds
<1>6. /\ p[1] \in Reading /\ p[2] \in Reading /\ p[1].status # "reading" /\ Level(pkt, p[1], p[2])
      /\ Valids(pkt)[p[1]] = Valids(pkt)[at] /\ Questions(pkt)[p[2]] = Questions(pkt)[at]
  BY <1>5
<1>7. p[2].status # "reading"
  BY <1>6 DEF Level
<1>8. Valids(pkt)[p[1]] = p[1] /\ Questions(pkt)[p[2]] = p[2]
  BY <1>6, <1>7, ValidsAre, QuestionsAre
<1> QED
  BY <1>6, <1>8

LEMMA StartIs ==
    ASSUME NEW offset \in Nat
    PROVE  /\ ReadFrom(offset) \in Reading /\ ReadFrom(offset).hops <= MaxHops
           /\ ReadFrom(offset).hops = 0 /\ ReadFrom(offset).status = "reading"
           /\ ReadFrom(offset).offset = offset /\ ReadFrom(offset).labels = <<>>
           /\ ReadFrom(offset).back = {}
<1>1. <<>> \in Seq(Seq(Nat)) /\ MaxHops \in Nat
  BY WireAssumption
<1> QED
  BY <1>1 DEF ReadFrom, Reading

\* Reading ends, on any packet and from any offset: the turns of decompress_name, of
\* from_wire and of validate_name_at_offset come to an end, also among pointers that
\* lead forward or in a circle.
THEOREM ReadersEnd ==
    ASSUME NEW pkt \in Seq(Nat), NEW offset \in Nat
    PROVE  /\ Decompressed(pkt, offset) \in Reading /\ Decompressed(pkt, offset).status # "reading"
           /\ Parsed(pkt, offset) \in Reading /\ Parsed(pkt, offset).status # "reading"
           /\ Validated(pkt, offset) \in Reading /\ Validated(pkt, offset).status # "reading"
<1> DEFINE at == ReadFrom(offset)
<1>1. at \in Reading /\ at.hops <= MaxHops
  BY StartIs
<1>2. /\ Decompressed(pkt, offset) = Questions(pkt)[at] /\ Parsed(pkt, offset) = Records(pkt)[at]
      /\ Validated(pkt, offset) = Valids(pkt)[at]
  BY QuestionsAre, RecordsAre, ValidsAre
<1> HIDE DEF at
<1>3. /\ Questions(pkt)[at] \in Reading /\ Questions(pkt)[at].status # "reading"
      /\ Records(pkt)[at] \in Reading /\ Records(pkt)[at].status # "reading"
      /\ Valids(pkt)[at] \in Reading /\ Valids(pkt)[at].status # "reading"
  BY <1>1, QuestionsEnd, RecordsEnd, ValidsEnd
<1> QED
  BY <1>2, <1>3

LEMMA ResultIs ==
    ASSUME NEW e
    PROVE  /\ Result(e) # Error <=> e.status = "ok"
           /\ e.status = "ok" => /\ Result(e)[2] = e.labels /\ Result(e)[3] = After(e.back, e.offset + 1)
<1>1. \A a, b : <<"ok", a, b>> # <<"error">>
  OBVIOUS
<1> QED
  BY <1>1 DEF Result, Error

LEMMA AgreeAt ==
    ASSUME NEW pkt \in Seq(Nat), NEW offset \in 0..(Len(pkt) - 1)
    PROVE  LET record == from_wire(pkt, offset)
               question == decompress_name(pkt, offset)
               valid == validate_name_at_offset(pkt, offset)
           IN /\ record # Error /\ (\A i \in DOMAIN record[2] : Plain(record[2][i])) => question = record
              /\ question # Error => \/ record = question
                                     \/ Length(question[2]) > MAX_NAME_LEN
                                     \/ HasEscape(pkt)
                                     \/ \E i \in DOMAIN question[2] :
                                           \E j \in DOMAIN question[2][i] : question[2][i][j] = Backslash
              /\ valid # Error => \/ question # Error /\ question[3] = valid[3]
                                  \/ HasEscape(pkt)
                                  \/ 4 * Len(pkt) * (MaxHops + 1) > MAXDNAME
<1> DEFINE at == ReadFrom(offset)
           r == Records(pkt)[at]
           q == Questions(pkt)[at]
           v == Valids(pkt)[at]
<1>1. offset \in Nat /\ Len(pkt) \in Nat /\ offset <= Len(pkt)
  OBVIOUS
<1>2. /\ at \in Reading /\ at.hops <= MaxHops /\ at.status = "reading"
      /\ at.hops = 0 /\ at.offset = offset /\ at.labels = <<>>
  BY <1>1, StartIs
<1>3. /\ from_wire(pkt, offset) = Result(r) /\ decompress_name(pkt, offset) = Result(q)
      /\ validate_name_at_offset(pkt, offset) = Result(v)
  BY RecordsAre, QuestionsAre, ValidsAre DEF from_wire, decompress_name, validate_name_at_offset
<1> HIDE DEF at
<1>4. /\ r \in Reading /\ q \in Reading /\ v \in Reading
  BY <1>2, QuestionsEnd, RecordsEnd, ValidsEnd
<1>5. /\ DOMAIN r.labels = 1..Len(r.labels) /\ DOMAIN q.labels = 1..Len(q.labels)
      /\ q.labels \in Labels
  BY <1>4, ReadingIs, LabelsAre
<1>6. ~HasEscape(pkt) => \A i \in 1..Len(pkt) : pkt[i] # NAME_ESCAPE
  BY DEF HasEscape
<1>7. ASSUME Result(r) # Error, \A i \in DOMAIN Result(r)[2] : Plain(Result(r)[2][i])
      PROVE  Result(q) = Result(r)
  <2>1. r.status = "ok" /\ Result(r)[2] = r.labels
    BY <1>7, ResultIs
  <2>2. \A i \in 1..Len(r.labels) : Plain(r.labels[i])
    BY <1>5, <1>7, <2>1
  <2>3. q = r
    BY <1>2, <2>1, <2>2, RecordsSame
  <2> QED
    BY <2>3
<1>8. ASSUME Result(q) # Error, ~(Length(Result(q)[2]) > MAX_NAME_LEN), ~HasEscape(pkt),
             ~ \E i \in DOMAIN Result(q)[2] :
                  \E j \in DOMAIN Result(q)[2][i] : Result(q)[2][i][j] = Backslash
      PROVE  Result(r) = Result(q)
  <2>1. q.status = "ok" /\ Result(q)[2] = q.labels
    BY <1>8, ResultIs
  <2>2. \A i \in 1..Len(q.labels) : \A j \in DOMAIN q.labels[i] : q.labels[i][j] # Backslash
    BY <1>5, <1>8, <2>1
  <2>3. Length(q.labels) <= MAX_NAME_LEN
    <3>1. Length(q.labels) \in Nat /\ MAX_NAME_LEN \in Nat
      BY <1>5, LengthTyped, WireAssumption
    <3>2. ~(Length(q.labels) > MAX_NAME_LEN)
      BY <1>8, <2>1
    <3> QED
      BY <3>1, <3>2
  <2>4. r = q
    BY <1>2, <1>6, <1>8, <2>1, <2>2, <2>3, QuestionsSame
  <2> QED
    BY <2>4
<1>9. ASSUME Result(v) # Error, ~HasEscape(pkt), ~(4 * Len(pkt) * (MaxHops + 1) > MAXDNAME)
      PROVE  Result(q) # Error /\ Result(q)[3] = Result(v)[3]
  <2>1. v.status = "ok"
    BY <1>9, ResultIs
  <2>2. 4 * Len(pkt) * (MaxHops + 1) <= MAXDNAME
    <3>1. 4 * Len(pkt) * (MaxHops + 1) \in Nat /\ MAXDNAME \in Nat
      <4>1. MaxHops + 1 \in Nat /\ MAXDNAME \in Nat /\ 4 * Len(pkt) \in Nat
        BY <1>1, WireAssumption
      <4> QED
        BY <4>1, TimesTyped
    <3> DEFINE c == 4 * Len(pkt) * (MaxHops + 1)
    <3>2. c \in Nat /\ ~(c > MAXDNAME)
      BY <1>9, <3>1
    <3> HIDE DEF c
    <3>3. c <= MAXDNAME
      BY <3>1, <3>2
    <3> QED
      BY <3>3 DEF c
  <2>3. Level(pkt, at, at)
    <3>1. 0 * Len(pkt) = 0 /\ 4 * (0 + offset) \in Nat
      BY <1>1
    <3>2. 0 <= 4 * (0 * Len(pkt) + offset)
      BY <1>1, <3>1
    <3> QED
      BY <1>1, <1>2, <3>2, LengthOfNone DEF Level
  <2>4. Level(pkt, v, q)
    BY <1>2, <1>6, <1>9, <2>1, <2>2, <2>3, ValidsLevel
  <2> HIDE DEF v, q
  <2>5. q.status = "ok" /\ q.offset = v.offset /\ q.back = v.back
    BY <2>1, <2>4 DEF Level
  <2> QED
    BY <2>1, <2>5, ResultIs
<1> HIDE DEF r, q, v
<1> QED
  BY <1>3, <1>7, <1>8, <1>9

-----------------------------------------------------------------------------
(* A name that stands in a packet is read *)

LEMMA SameSequence ==
    ASSUME NEW s \in Seq(Nat), NEW t \in Seq(Nat), Len(s) = Len(t), \A i \in 1..Len(s) : s[i] = t[i]
    PROVE  s = t
<1>1. DOMAIN s = 1..Len(s) /\ DOMAIN t = 1..Len(t)
  OBVIOUS
<1> QED
  BY <1>1, SMTT(30)

LEMMA NameIs ==
    ASSUME NEW name \in Seq(Seq(0..127))
    PROVE  /\ name \in Labels /\ Len(name) \in Nat /\ DOMAIN name = 1..Len(name)
           /\ \A i \in 1..Len(name) : name[i] \in Seq(0..127) /\ name[i] \in Seq(Nat)
<1>1. name \in [1..Len(name) -> Seq(0..127)] /\ Len(name) \in Nat /\ DOMAIN name = 1..Len(name)
  OBVIOUS
<1>2. \A i \in 1..Len(name) : name[i] \in Seq(0..127)
  BY <1>1
<1>3. \A i \in 1..Len(name) : name[i] \in Seq(Nat)
  BY <1>2, NarrowIs
<1>4. name \in [1..Len(name) -> Seq(Nat)]
  BY <1>1, <1>3
<1>5. name \in Seq(Seq(Nat))
  <2> DEFINE V == Seq(Nat)
  <2>1. name \in [1..Len(name) -> V] /\ Len(name) \in Nat
    BY <1>1, <1>4
  <2> HIDE DEF V
  <2>2. name \in Seq(V)
    BY <2>1
  <2> QED
    BY <2>2 DEF V
<1> QED
  BY <1>1, <1>2, <1>3, <1>5 DEF Labels

\* The escaped bytes of a label behind their number.
LabelAt(pkt, o, label) ==
    /\ Byte(pkt, o) = Len(escape_label(label))
    /\ o + 1 + Len(escape_label(label)) <= Len(pkt)
    /\ \A j \in 1..Len(escape_label(label)) : pkt[o + 1 + j] = escape_label(label)[j]

PointsTo(pkt, o, p) == o + 1 < Len(pkt) /\ IsPointer(Byte(pkt, o)) /\ Target(pkt, o) = p /\ p < o

LEMMA LabelRead ==
    ASSUME NEW pkt \in Seq(Nat), NEW o \in Nat, NEW label \in Seq(0..127),
           Len(escape_label(label)) \in 1..63, LabelAt(pkt, o, label)
    PROVE  /\ o < Len(pkt) /\ Byte(pkt, o) \in 1..63 /\ o + 1 + Byte(pkt, o) <= Len(pkt)
           /\ ~IsCut(Raw(pkt, o)) /\ unescape_label(Raw(pkt, o)) = label
<1> DEFINE e == escape_label(label)
<1>1. e \in Seq(Nat) /\ Unescaped(e) = [bytes |-> label, open |-> FALSE]
  BY EscapesUndone
<1>2. Byte(pkt, o) \in 1..63 /\ o + 1 + Byte(pkt, o) <= Len(pkt) /\ Byte(pkt, o) = Len(e) /\ Len(pkt) \in Nat
  <2>1. Byte(pkt, o) = Len(e) /\ o + 1 + Len(e) <= Len(pkt) /\ Len(e) \in 1..63
    BY DEF LabelAt
  <2>2. Len(pkt) \in Nat
    OBVIOUS
  <2> HIDE DEF e
  <2> QED
    BY <2>1, <2>2, Zenon
<1>3. o < Len(pkt)
  BY <1>2, OffsetIs
<1>4. Raw(pkt, o) = e
  <2>1. /\ Raw(pkt, o) \in Seq(Nat) /\ Len(Raw(pkt, o)) = Byte(pkt, o)
        /\ \A i \in 1..Byte(pkt, o) : Raw(pkt, o)[i] = pkt[o + 1 + i] /\ o + 1 + i \in 1..Len(pkt)
    BY <1>2, <1>3, RawIs
  <2>2. \A i \in 1..Byte(pkt, o) : Raw(pkt, o)[i] = e[i]
    BY <1>2, <2>1 DEF LabelAt
  <2> HIDE DEF e
  <2> QED
    BY <1>1, <1>2, <2>1, <2>2, SameSequence
<1>5. IsText(label)
  <2>1. DOMAIN label = 1..Len(label) /\ \A i \in 1..Len(label) : label[i] \in 0..127
    BY NarrowIs
  <2>2. \A b \in 0..127 : b < 128
    OBVIOUS
  <2> QED
    BY <2>1, <2>2 DEF IsText
<1>6. ~IsCut(e) /\ unescape_label(e) = label
  <2> HIDE DEF e
  <2> QED
    BY <1>1, <1>5 DEF IsCut, unescape_label
<1> QED
  BY <1>2, <1>3, <1>4, <1>6

LEMMA ZeroTurns ==
    ASSUME NEW pkt \in Seq(Nat), NEW s \in Reading, s.status = "reading",
           s.offset < Len(pkt), Byte(pkt, s.offset) = 0
    PROVE  /\ DecompressTurn(pkt, s) = [s EXCEPT !.status = "ok"]
           /\ ValidateTurn(pkt, s) = [s EXCEPT !.status = "ok"]
<1>1. ~(s.offset >= Len(pkt)) /\ ~IsPointer(Byte(pkt, s.offset)) /\ ~IsReserved(Byte(pkt, s.offset))
  BY ByteOnly
<1>2. Byte(pkt, s.offset) \notin 1..63
  OBVIOUS
<1>3. DecompressTurnOf(pkt, s) /\ ValidateTurnOf(pkt, s)
  BY DecompressTurns, ValidateTurns
<1> QED
  BY <1>1, <1>2, <1>3 DEF DecompressTurnOf, ValidateTurnOf, TurnOf

LEMMA PointerTurns ==
    ASSUME NEW pkt \in Seq(Nat), NEW s \in Reading, s.status = "reading", s.hops < MaxHops,
           NEW p, PointsTo(pkt, s.offset, p)
    PROVE  /\ DecompressTurn(pkt, s) = Jump(pkt, s)
           /\ ValidateTurn(pkt, s) = Jump(pkt, s)
<1>1. s.offset \in Nat /\ Len(pkt) \in Nat /\ s.offset + 1 < Len(pkt) /\ IsPointer(Byte(pkt, s.offset))
      /\ Target(pkt, s.offset) < s.offset
  BY ReadingIs DEF PointsTo
<1>2. Target(pkt, s.offset) < Len(pkt) /\ s.offset < Len(pkt)
  <2>1. Target(pkt, s.offset) \in Nat
    BY <1>1, TargetIs
  <2> QED
    BY <1>1, <2>1
<1>3. ~(s.offset >= Len(pkt)) /\ Byte(pkt, s.offset) # 0 /\ ~IsReserved(Byte(pkt, s.offset))
      /\ Byte(pkt, s.offset) \notin 1..63
  BY <1>1, <1>2, ByteOnly
<1>4. DecompressTurnOf(pkt, s) /\ ValidateTurnOf(pkt, s)
  BY DecompressTurns, ValidateTurns
<1> QED
  BY <1>1, <1>2, <1>3, <1>4 DEF DecompressTurnOf, ValidateTurnOf, TurnOf, LeadsBack

LEMMA LabelTurns ==
    ASSUME NEW pkt \in Seq(Nat), NEW s \in Reading, s.status = "reading",
           NEW label \in Seq(0..127), Len(escape_label(label)) \in 1..63, LabelAt(pkt, s.offset, label)
    PROVE  /\ Length(Append(s.labels, label)) <= MAXDNAME =>
                 DecompressTurn(pkt, s) = TakeLabel(pkt, s, Append(s.labels, label))
           /\ ValidateTurn(pkt, s) = TakeLabel(pkt, s, s.labels)
<1> DEFINE o == s.offset
<1>1. o \in Nat
  BY ReadingIs
<1>2. /\ o < Len(pkt) /\ Byte(pkt, o) \in 1..63 /\ o + 1 + Byte(pkt, o) <= Len(pkt)
      /\ ~IsCut(Raw(pkt, o)) /\ unescape_label(Raw(pkt, o)) = label
  BY <1>1, LabelRead
<1>3. ~(o >= Len(pkt)) /\ Byte(pkt, o) # 0 /\ ~IsReserved(Byte(pkt, o)) /\ ~IsPointer(Byte(pkt, o))
  BY <1>2, ByteOnly
<1>4. DecompressTurnOf(pkt, s) /\ ValidateTurnOf(pkt, s)
  BY DecompressTurns, ValidateTurns
<1>5. Length(Append(s.labels, label)) <= MAXDNAME =>
         DecompressTurn(pkt, s) = TakeLabel(pkt, s, Append(s.labels, label))
  BY <1>2, <1>3, <1>4 DEF DecompressTurnOf, TurnOf
<1>6. ValidateTurn(pkt, s) = TakeLabel(pkt, s, s.labels)
  BY <1>2, <1>3, <1>4 DEF ValidateTurnOf, TurnOf
<1> QED
  BY <1>5, <1>6

\* Where the reader comes after the first i labels of a name.
NextPlace(name, b, at, place, i) ==
    IF i = b THEN at ELSE place[i - 1] + 1 + Len(escape_label(name[i]))

\* The labels of a name after the first b stand in a packet from an offset on, label
\* i + 1 at place[i], with a pointer after the first k or with none, and end before another.
Stands(pkt, name, b, at, end, k, place) ==
    /\ k \in b..Len(name) /\ place \in [b..Len(name) -> Nat]
    /\ \A i \in b..Len(name) : (i # k \/ k = Len(name)) => place[i] = NextPlace(name, b, at, place, i)
    /\ \A i \in (b + 1)..Len(name) : LabelAt(pkt, place[i - 1], name[i])
    /\ place[Len(name)] < Len(pkt) /\ Byte(pkt, place[Len(name)]) = 0
    /\ k = Len(name) => end = place[Len(name)] + 1
    /\ k # Len(name) => /\ PointsTo(pkt, NextPlace(name, b, at, place, k), place[k])
                        /\ end = NextPlace(name, b, at, place, k) + 2


\* A reader before the one pointer of a name, and one behind it.
Direct(o, labels) ==
    [offset |-> o, labels |-> labels, hops |-> 0, back |-> {}, status |-> "reading"]

Behind(o, labels, end) ==
    [offset |-> o, labels |-> labels, hops |-> 1, back |-> {end}, status |-> "reading"]

Done(at) == [at EXCEPT !.status = "ok"]

LEMMA DirectIs ==
    ASSUME NEW o \in Nat, NEW labels \in Labels
    PROVE  /\ Direct(o, labels) \in Reading /\ Direct(o, labels).offset = o
           /\ Direct(o, labels).labels = labels /\ Direct(o, labels).hops = 0
           /\ Direct(o, labels).back = {} /\ Direct(o, labels).status = "reading"
  BY DEF Direct, Reading, Labels

LEMMA BehindIs ==
    ASSUME NEW o \in Nat, NEW labels \in Labels, NEW end \in Nat
    PROVE  /\ Behind(o, labels, end) \in Reading /\ Behind(o, labels, end).offset = o
           /\ Behind(o, labels, end).labels = labels /\ Behind(o, labels, end).hops = 1
           /\ Behind(o, labels, end).back = {end} /\ Behind(o, labels, end).status = "reading"
  BY DEF Behind, Reading, Labels

LEMMA SameReading ==
    ASSUME NEW s \in Reading, NEW t \in Reading, s.offset = t.offset, s.labels = t.labels,
           s.hops = t.hops, s.back = t.back, s.status = t.status
    PROVE  s = t
<1>1. s = [offset |-> s.offset, labels |-> s.labels, hops |-> s.hops, back |-> s.back, status |-> s.status]
  BY DEF Reading
<1>2. t = [offset |-> t.offset, labels |-> t.labels, hops |-> t.hops, back |-> t.back, status |-> t.status]
  BY DEF Reading
<1> QED
  BY <1>1, <1>2

LEMMA JumpBehind ==
    ASSUME NEW pkt, NEW o \in Nat, NEW labels \in Labels, Target(pkt, o) \in Nat
    PROVE  Jump(pkt, Direct(o, labels)) = Behind(Target(pkt, o), labels, o + 2)
<1> DEFINE s == Direct(o, labels)
           t == Jump(pkt, s)
           u == Behind(Target(pkt, o), labels, o + 2)
<1>1. /\ s \in Reading /\ s.offset = o /\ s.labels = labels /\ s.hops = 0
      /\ s.back = {} /\ s.status = "reading"
  BY DirectIs
<1>2. /\ u \in Reading /\ u.offset = Target(pkt, o) /\ u.labels = labels /\ u.hops = 1
      /\ u.back = {o + 2} /\ u.status = "reading"
  <2>1. o + 2 \in Nat
    OBVIOUS
  <2> QED
    BY <2>1, BehindIs
<1> HIDE DEF s, u
<1>3. /\ t.offset = Target(pkt, s.offset) /\ t.labels = s.labels /\ t.hops = s.hops + 1
      /\ t.status = s.status /\ t.back = Follow(s.back, s.offset)
  BY <1>1, TurnFields
<1>4. Follow(s.back, s.offset) = {o + 2}
  BY <1>1 DEF Follow
<1>5. t.hops = 1
  BY <1>1, <1>3
<1>6. t \in Reading
  <2>1. Target(pkt, s.offset) \in Nat /\ s.hops + 1 \in Nat /\ Follow(s.back, s.offset) \in SUBSET Nat
    BY <1>1, <1>4
  <2> QED
    BY <1>1, <2>1 DEF Jump, Reading
<1> HIDE DEF t
<1>7. t = u
  BY <1>1, <1>2, <1>3, <1>4, <1>5, <1>6, SameReading
<1> QED
  BY <1>7 DEF t, s, u

LEMMA TakeDirect ==
    ASSUME NEW pkt, NEW o \in Nat, NEW labels \in Labels, NEW end \in Nat, NEW longer \in Labels,
           o + 1 + Byte(pkt, o) \in Nat
    PROVE  TakeLabel(pkt, Direct(o, labels), longer) = Direct(o + 1 + Byte(pkt, o), longer)
<1> DEFINE s == Direct(o, labels)
           t == TakeLabel(pkt, s, longer)
           u == Direct(o + 1 + Byte(pkt, o), longer)
<1>1. /\ s \in Reading /\ s.offset = o /\ s.labels = labels /\ s.hops = 0
      /\ s.back = {} /\ s.status = "reading"
  BY DirectIs
<1>2. /\ u \in Reading /\ u.offset = o + 1 + Byte(pkt, o) /\ u.labels = longer /\ u.hops = 0
      /\ u.back = {} /\ u.status = "reading"
  BY DirectIs
<1> HIDE DEF s, u
<1>3. /\ t.status = s.status /\ t.offset = s.offset + 1 + Byte(pkt, s.offset)
      /\ t.hops = s.hops /\ t.back = s.back /\ t.labels = longer
  BY <1>1, LabelFields
<1>4. t \in Reading
  <2>1. s.offset + 1 + Byte(pkt, s.offset) \in Nat /\ longer \in Seq(Seq(Nat))
    BY <1>1 DEF Labels
  <2> QED
    BY <1>1, <2>1 DEF TakeLabel, Reading
<1> HIDE DEF t
<1>5. t = u
  BY <1>1, <1>2, <1>3, <1>4, SameReading
<1> QED
  BY <1>5 DEF t, s, u

LEMMA DoneDirect ==
    ASSUME NEW o \in Nat, NEW labels \in Labels, NEW end \in Nat
    PROVE  /\ Done(Direct(o, labels)) \in Reading /\ Done(Direct(o, labels)).status # "reading"
           /\ Result(Done(Direct(o, labels))) = <<"ok", labels, o + 1>>
<1> DEFINE s == Direct(o, labels)
           e == Done(s)
<1>1. s \in Reading /\ s.offset = o /\ s.labels = labels /\ s.back = {}
  BY DirectIs
<1> HIDE DEF s
<1>2. e \in Reading /\ e.status = "ok" /\ e.labels = labels /\ e.offset = o /\ e.back = s.back
  BY <1>1 DEF Reading, Done
<1>3. After(e.back, e.offset + 1) = o + 1
  <2>1. {end} # {} /\ (CHOOSE b \in {end} : TRUE) = end
    OBVIOUS
  <2> QED
    BY <1>1, <1>2, <2>1 DEF After
<1> HIDE DEF e
<1>4. e.status # "reading" /\ Result(e) = <<"ok", labels, o + 1>>
  BY <1>2, <1>3 DEF Result
<1> QED
  BY <1>2, <1>4 DEF e, s

LEMMA TakeBehind ==
    ASSUME NEW pkt, NEW o \in Nat, NEW labels \in Labels, NEW end \in Nat, NEW longer \in Labels,
           o + 1 + Byte(pkt, o) \in Nat
    PROVE  TakeLabel(pkt, Behind(o, labels, end), longer) = Behind(o + 1 + Byte(pkt, o), longer, end)
<1> DEFINE s == Behind(o, labels, end)
           t == TakeLabel(pkt, s, longer)
           u == Behind(o + 1 + Byte(pkt, o), longer, end)
<1>1. /\ s \in Reading /\ s.offset = o /\ s.labels = labels /\ s.hops = 1
      /\ s.back = {end} /\ s.status = "reading"
  BY BehindIs
<1>2. /\ u \in Reading /\ u.offset = o + 1 + Byte(pkt, o) /\ u.labels = longer /\ u.hops = 1
      /\ u.back = {end} /\ u.status = "reading"
  BY BehindIs
<1> HIDE DEF s, u
<1>3. /\ t.status = s.status /\ t.offset = s.offset + 1 + Byte(pkt, s.offset)
      /\ t.hops = s.hops /\ t.back = s.back /\ t.labels = longer
  BY <1>1, LabelFields
<1>4. t \in Reading
  <2>1. s.offset + 1 + Byte(pkt, s.offset) \in Nat /\ longer \in Seq(Seq(Nat))
    BY <1>1 DEF Labels
  <2> QED
    BY <1>1, <2>1 DEF TakeLabel, Reading
<1> HIDE DEF t
<1>5. t = u
  BY <1>1, <1>2, <1>3, <1>4, SameReading
<1> QED
  BY <1>5 DEF t, s, u

LEMMA DoneBehind ==
    ASSUME NEW o \in Nat, NEW labels \in Labels, NEW end \in Nat
    PROVE  /\ Done(Behind(o, labels, end)) \in Reading /\ Done(Behind(o, labels, end)).status # "reading"
           /\ Result(Done(Behind(o, labels, end))) = <<"ok", labels, end>>
<1> DEFINE s == Behind(o, labels, end)
           e == Done(s)
<1>1. s \in Reading /\ s.offset = o /\ s.labels = labels /\ s.back = {end}
  BY BehindIs
<1> HIDE DEF s
<1>2. e \in Reading /\ e.status = "ok" /\ e.labels = labels /\ e.offset = o /\ e.back = s.back
  BY <1>1 DEF Reading, Done
<1>3. After(e.back, e.offset + 1) = end
  <2>1. {end} # {} /\ (CHOOSE b \in {end} : TRUE) = end
    OBVIOUS
  <2> QED
    BY <1>1, <1>2, <2>1 DEF After
<1> HIDE DEF e
<1>4. e.status # "reading" /\ Result(e) = <<"ok", labels, end>>
  BY <1>2, <1>3 DEF Result
<1> QED
  BY <1>2, <1>4 DEF e, s

LEMMA NextTyped ==
    ASSUME NEW name \in Seq(Seq(0..127)), NEW b \in Nat, NEW at \in Nat,
           NEW place \in [b..Len(name) -> Nat], NEW i \in b..Len(name)
    PROVE  NextPlace(name, b, at, place, i) \in Nat
<1>1. Len(name) \in Nat /\ \A j \in 1..Len(name) : name[j] \in Seq(0..127)
  BY NameIs
<1>2. CASE i # b
  <2>1. i \in 1..Len(name) /\ i - 1 \in b..Len(name)
    BY <1>1, <1>2
  <2>2. place[i - 1] \in Nat /\ Len(escape_label(name[i])) \in Nat
    <3>1. escape_label(name[i]) \in Seq(Nat)
      BY <1>1, <2>1, EscapesUndone
    <3>2. Len(escape_label(name[i])) \in Nat
      BY <3>1
    <3>3. place[i - 1] \in Nat
      BY <2>1
    <3> QED
      BY <3>2, <3>3
  <2> QED
    BY <1>2, <2>2 DEF NextPlace
<1> QED
  BY <1>2 DEF NextPlace

LEMMA PrefixLength ==
    ASSUME NEW name \in Labels, NEW i \in 1..Len(name)
    PROVE  /\ SubSeq(name, 1, i - 1) \in Labels /\ SubSeq(name, 1, i) \in Labels
           /\ SubSeq(name, 1, i) = Append(SubSeq(name, 1, i - 1), name[i])
           /\ Length(SubSeq(name, 1, i)) <= Length(name)
<1> DEFINE V == Seq(Nat)
<1>1. name \in Seq(V) /\ Len(name) \in Nat /\ i \in 0..Len(name) /\ i - 1 \in 0..Len(name)
  BY LabelsAre DEF Labels
<1>2. SubSeq(name, 1, i) = Append(SubSeq(name, 1, i - 1), name[i])
  <2> HIDE DEF V
  <2> QED
    BY <1>1, PrefixGrows
<1>3. /\ SubSeq(name, 1, i) \in Seq(V) /\ Len(SubSeq(name, 1, i)) = i
      /\ \A j \in 1..i : SubSeq(name, 1, i)[j] = name[j]
      /\ SubSeq(name, 1, i - 1) \in Seq(V)
  <2> HIDE DEF V
  <2> QED
    BY <1>1, PrefixIs
<1>4. SubSeq(name, 1, i) \in Labels /\ SubSeq(name, 1, i - 1) \in Labels
  BY <1>3 DEF Labels
<1>5. Length(SubSeq(name, 1, i)) <= Length(name)
  <2> DEFINE s == SubSeq(name, 1, i)
  <2>1. s \in Labels /\ Len(s) <= Len(name) /\ \A j \in 1..Len(s) : s[j] = name[j]
    BY <1>1, <1>3, <1>4
  <2> HIDE DEF s
  <2>2. Length(s) <= Length(name)
    BY <2>1, LengthOfPrefix
  <2> QED
    BY <2>2 DEF s
<1> QED
  BY <1>2, <1>4, <1>5

\* decompress_name reads a name that stands in the packet.
LEMMA QuestionStands ==
    ASSUME NEW pkt \in Seq(Nat), NEW name \in Seq(Seq(0..127)), NEW at \in Nat, NEW end, NEW k, NEW place,
           Stands(pkt, name, 0, at, end, k, place), Fits(name)
    PROVE  decompress_name(pkt, at) = <<"ok", name, end>>
<1> DEFINE N == Len(name)
           labels(i) == SubSeq(name, 1, i)
           arrived(i) == IF i <= k \/ k = N THEN Direct(NextPlace(name, 0, at, place, i), labels(i))
                         ELSE Behind(NextPlace(name, 0, at, place, i), labels(i), end)
           placed(i) == IF i < k \/ k = N THEN Direct(place[i], labels(i))
                        ELSE Behind(place[i], labels(i), end)
<1>1. /\ N \in Nat /\ name \in Labels /\ k \in 0..N /\ place \in [0..N -> Nat]
      /\ \A i \in 1..N : /\ name[i] \in Seq(0..127) /\ Len(escape_label(name[i])) \in 1..63
                         /\ LabelAt(pkt, place[i - 1], name[i])
                         /\ i - 1 \in 0..N /\ i \in 0..N /\ i # 0
      /\ Length(name) <= MAXDNAME
  <2>1. /\ k \in 0..N /\ place \in [0..N -> Nat]
        /\ \A i \in (0 + 1)..N : LabelAt(pkt, place[i - 1], name[i])
    BY DEF Stands
  <2>2. N \in Nat /\ name \in Labels /\ DOMAIN name = 1..N /\ \A i \in 1..N : name[i] \in Seq(0..127)
    BY NameIs
  <2>3. Length(name) <= MAXDNAME /\ \A i \in 1..N : Len(escape_label(name[i])) \in 1..63
    BY <2>2 DEF Fits
  <2> QED
    BY <2>1, <2>2, <2>3
<1>2. \A i \in 0..N : NextPlace(name, 0, at, place, i) \in Nat /\ place[i] \in Nat
  BY <1>1, NextTyped
<1>3. \A i \in 0..N : labels(i) \in Labels
  <2>1. name \in Seq(Seq(Nat))
    BY <1>1 DEF Labels
  <2>2. \A i \in 0..N : SubSeq(name, 1, i) \in Seq(Seq(Nat))
    <3> DEFINE V == Seq(Nat)
    <3>1. name \in Seq(V)
      BY <2>1
    <3> HIDE DEF V
    <3>2. \A i \in 0..N : SubSeq(name, 1, i) \in Seq(V)
      BY <3>1, PrefixIs
    <3> QED
      BY <3>2 DEF V
  <2> QED
    BY <2>2 DEF Labels
<1>4. end \in Nat
  <2>1. CASE k = N
    BY <1>1, <1>2, <2>1 DEF Stands
  <2>2. CASE k # N
    <3>1. end = NextPlace(name, 0, at, place, k) + 2
      BY <2>2 DEF Stands
    <3> QED
      BY <1>1, <1>2, <3>1
  <2> QED
    BY <2>1, <2>2
<1> HIDE DEF labels
<1>6. \A i \in 0..N : Questions(pkt)[arrived(i)] = Questions(pkt)[placed(i)]
  <2> TAKE i \in 0..N
  <2>1. CASE i # k \/ k = N
    <3>1. place[i] = NextPlace(name, 0, at, place, i)
      BY <2>1 DEF Stands
    <3>2. (i <= k \/ k = N) <=> (i < k \/ k = N)
      BY <1>1, <2>1
    <3> QED
      BY <3>1, <3>2
  <2>2. CASE i = k /\ k # N
    <3> DEFINE o == NextPlace(name, 0, at, place, i)
               s == Direct(o, labels(i))
    <3>1. arrived(i) = s /\ placed(i) = Behind(place[i], labels(i), end)
      BY <1>1, <2>2
    <3>2. PointsTo(pkt, o, place[i]) /\ end = o + 2
      BY <2>2 DEF Stands
    <3>3. o \in Nat /\ labels(i) \in Labels /\ Target(pkt, o) = place[i] /\ place[i] \in Nat
      BY <1>2, <1>3, <3>2 DEF PointsTo
    <3> HIDE DEF o
    <3>4. s \in Reading /\ s.status = "reading" /\ s.hops = 0 /\ s.offset = o
      BY <3>3, DirectIs
    <3>5. Jump(pkt, s) = Behind(place[i], labels(i), end)
      BY <3>2, <3>3, JumpBehind
    <3> HIDE DEF s
    <3>6. s.hops < MaxHops
      BY <3>4, WireAssumption
    <3>7. DecompressTurn(pkt, s) = Jump(pkt, s)
      BY <3>2, <3>4, <3>6, PointerTurns
    <3>8. Questions(pkt)[s] = Questions(pkt)[Jump(pkt, s)]
      BY <3>4, <3>7, QuestionsAre
    <3> QED
      BY <3>1, <3>5, <3>8
  <2> QED
    BY <2>1, <2>2
<1>7. \A i \in 1..N : Questions(pkt)[placed(i - 1)] = Questions(pkt)[arrived(i)]
  <2> TAKE i \in 1..N
  <2> DEFINE s == placed(i - 1)
             o == place[i - 1]
  <2>1. /\ i - 1 \in 0..N /\ i \in 0..N /\ i # 0 /\ o \in Nat
        /\ labels(i - 1) \in Labels /\ labels(i) \in Labels
    BY <1>1, <1>2, <1>3
  <2>2. /\ s \in Reading /\ s.status = "reading" /\ s.offset = o /\ s.labels = labels(i - 1)
    <3> HIDE DEF o
    <3>1. /\ Direct(o, labels(i - 1)) \in Reading /\ Direct(o, labels(i - 1)).status = "reading"
          /\ Direct(o, labels(i - 1)).offset = o /\ Direct(o, labels(i - 1)).labels = labels(i - 1)
      BY <2>1, DirectIs
    <3>2. /\ Behind(o, labels(i - 1), end) \in Reading /\ Behind(o, labels(i - 1), end).status = "reading"
          /\ Behind(o, labels(i - 1), end).offset = o /\ Behind(o, labels(i - 1), end).labels = labels(i - 1)
      BY <1>4, <2>1, BehindIs, SMTT(30)
    <3> QED
      BY <3>1, <3>2 DEF o
  <2>3. NextPlace(name, 0, at, place, i) = o + 1 + Byte(pkt, o) /\ o + 1 + Byte(pkt, o) \in Nat
    <3>1. NextPlace(name, 0, at, place, i) = o + 1 + Byte(pkt, o)
      BY <1>1, <2>1 DEF NextPlace, LabelAt
    <3> QED
      BY <1>2, <2>1, <3>1
  <2>4. TakeLabel(pkt, s, labels(i)) = arrived(i)
    <3> HIDE DEF o
    <3>1. /\ TakeLabel(pkt, Direct(o, labels(i - 1)), labels(i)) = Direct(o + 1 + Byte(pkt, o), labels(i))
          /\ TakeLabel(pkt, Behind(o, labels(i - 1), end), labels(i))
                = Behind(o + 1 + Byte(pkt, o), labels(i), end)
      <4> DEFINE some == labels(i - 1)
                 longer == labels(i)
      <4>1. o \in Nat /\ some \in Labels /\ longer \in Labels /\ o + 1 + Byte(pkt, o) \in Nat
        BY <2>1, <2>3
      <4> HIDE DEF some, longer
      <4>2. TakeLabel(pkt, Direct(o, some), longer) = Direct(o + 1 + Byte(pkt, o), longer)
        BY <1>4, <4>1, TakeDirect
      <4>3. TakeLabel(pkt, Behind(o, some, end), longer) = Behind(o + 1 + Byte(pkt, o), longer, end)
        BY <1>4, <4>1, TakeBehind
      <4> QED
        BY <4>2, <4>3 DEF some, longer
    <3>2. (i - 1 < k) <=> (i <= k)
      BY <1>1
    <3>3. s = IF i <= k \/ k = N THEN Direct(o, labels(i - 1)) ELSE Behind(o, labels(i - 1), end)
      BY <3>2 DEF o
    <3> HIDE DEF s
    <3> QED
      BY <2>3, <3>1, <3>3
  <2> HIDE DEF s
  <2>5. DecompressTurn(pkt, s) = TakeLabel(pkt, s, labels(i))
    <3>1. labels(i) = Append(s.labels, name[i]) /\ Length(labels(i)) <= Length(name)
      BY <1>1, <2>2, PrefixLength DEF labels
    <3>2. Length(labels(i)) <= MAXDNAME
      <4>1. Length(labels(i)) \in Nat /\ Length(name) \in Nat
        BY <1>1, <2>1, LengthTyped
      <4> QED
        BY <1>1, <3>1, <4>1, WireAssumption
    <3>3. DecompressTurn(pkt, s) = TakeLabel(pkt, s, Append(s.labels, name[i]))
      <4>1. /\ Len(escape_label(name[i])) \in 1..63 /\ LabelAt(pkt, s.offset, name[i])
            /\ name[i] \in Seq(0..127) /\ Length(Append(s.labels, name[i])) <= MAXDNAME
        BY <1>1, <2>2, <3>1, <3>2
      <4> QED
        BY <2>2, <4>1, LabelTurns
    <3> QED
      BY <3>1, <3>3
  <2>6. Questions(pkt)[s] = Questions(pkt)[TakeLabel(pkt, s, labels(i))]
    BY <2>2, <2>5, QuestionsAre
  <2> QED
    BY <2>4, <2>6 DEF s
<1> DEFINE Bad == {i \in 0..N : Questions(pkt)[placed(i)] # Questions(pkt)[arrived(0)]}
<1>8. Bad = {}
  <2> SUFFICES ASSUME Bad # {} PROVE FALSE
    OBVIOUS
  <2>1. PICK i \in Bad : \A j \in Bad : i <= j
    <3>1. Bad \in SUBSET Nat
      BY <1>1
    <3> HIDE DEF Bad
    <3> QED
      BY <3>1, HasLeast
  <2>2. i \in 0..N /\ Questions(pkt)[placed(i)] # Questions(pkt)[arrived(0)]
    OBVIOUS
  <2>3. i # 0
    <3>1. 0 \in 0..N
      BY <1>1
    <3> HIDE DEF arrived, placed, Bad
    <3> QED
      BY <1>6, <2>2, <3>1
  <2>4. i - 1 \in 0..N /\ i \in 1..N /\ i - 1 \notin Bad
    <3>1. i - 1 \in 0..N /\ i \in 1..N /\ ~(i <= i - 1)
      BY <1>1, <2>2, <2>3
    <3> HIDE DEF Bad
    <3> QED
      BY <2>1, <3>1
  <2>5. Questions(pkt)[placed(i - 1)] = Questions(pkt)[arrived(0)]
    BY <2>4
  <2> HIDE DEF arrived, placed, Bad
  <2> QED
    BY <1>6, <1>7, <2>2, <2>4, <2>5
<1> DEFINE s == placed(N)
           e == Done(s)
<1>9. N \in 0..N /\ s = IF k = N THEN Direct(place[N], labels(N)) ELSE Behind(place[N], labels(N), end)
  BY <1>1
<1>10. s \in Reading /\ s.status = "reading" /\ s.offset = place[N]
  <2> HIDE DEF s
  <2>1. place[N] \in Nat /\ labels(N) \in Labels
    BY <1>2, <1>3, <1>9
  <2>2. /\ Direct(place[N], labels(N)) \in Reading /\ Direct(place[N], labels(N)).status = "reading"
        /\ Direct(place[N], labels(N)).offset = place[N]
    BY <2>1, DirectIs
  <2>3. /\ Behind(place[N], labels(N), end) \in Reading /\ Behind(place[N], labels(N), end).status = "reading"
        /\ Behind(place[N], labels(N), end).offset = place[N]
    BY <1>4, <2>1, BehindIs
  <2> QED
    BY <1>9, <2>2, <2>3
<1>11. DecompressTurn(pkt, s) = e
  <2>1. s.offset < Len(pkt) /\ Byte(pkt, s.offset) = 0
    BY <1>10 DEF Stands
  <2> HIDE DEF s
  <2> QED
    BY <1>10, <2>1, ZeroTurns DEF Done
<1>12. e \in Reading /\ e.status # "reading" /\ Result(e) = <<"ok", labels(N), end>>
  <2>1. place[N] \in Nat /\ labels(N) \in Labels
    BY <1>2, <1>3, <1>9
  <2>2. CASE k = N
    <3>1. end = place[N] + 1
      BY <2>2 DEF Stands
    <3>2. s = Direct(place[N], labels(N))
      BY <1>9, <2>2
    <3> HIDE DEF s
    <3>3. /\ Done(s) \in Reading /\ Done(s).status # "reading"
          /\ Result(Done(s)) = <<"ok", labels(N), place[N] + 1>>
      BY <1>4, <2>1, <3>2, DoneDirect
    <3> QED
      BY <3>1, <3>3
  <2>3. CASE k # N
    <3>1. s = Behind(place[N], labels(N), end)
      BY <1>9, <2>3
    <3> HIDE DEF s
    <3> QED
      BY <1>4, <2>1, <3>1, DoneBehind
  <2> QED
    BY <2>2, <2>3
<1>13. Result(e) = <<"ok", name, end>>
  <2>1. labels(N) = name
    <3>1. name \in Seq(Seq(Nat))
      BY <1>1 DEF Labels
    <3> DEFINE V == Seq(Nat)
    <3>2. name \in Seq(V)
      BY <3>1
    <3> HIDE DEF V
    <3>3. SubSeq(name, 1, N) = name
      BY <3>2, PrefixOfAll
    <3> QED
      BY <3>3 DEF labels
  <2> HIDE DEF e
  <2> QED
    BY <1>12, <2>1
<1>14. ReadFrom(at) = arrived(0)
  <2>1. labels(0) = <<>>
    <3>1. name \in Seq(Seq(Nat))
      BY <1>1 DEF Labels
    <3> DEFINE V == Seq(Nat)
    <3>2. name \in Seq(V)
      BY <3>1
    <3> HIDE DEF V
    <3>3. SubSeq(name, 1, 0) = <<>>
      BY <3>2, PrefixOfAll
    <3> QED
      BY <3>3 DEF labels
  <2>2. NextPlace(name, 0, at, place, 0) = at /\ (0 <= k)
    BY <1>1 DEF NextPlace
  <2> QED
    BY <2>1, <2>2 DEF ReadFrom, Direct
<1>15. Questions(pkt)[ReadFrom(at)] = e
  <2>1. Questions(pkt)[s] = Questions(pkt)[arrived(0)]
    <3> HIDE DEF arrived, placed
    <3>1. N \in 0..N /\ N \notin Bad
      BY <1>8, <1>9
    <3> QED
      BY <3>1
  <2> HIDE DEF s, e, arrived
  <2>2. Questions(pkt)[s] = Questions(pkt)[e] /\ Questions(pkt)[e] = e
    BY <1>10, <1>11, <1>12, QuestionsAre
  <2> QED
    BY <1>14, <2>1, <2>2
<1>16. decompress_name(pkt, at) = Result(Questions(pkt)[ReadFrom(at)])
  BY QuestionsAre DEF decompress_name
<1> HIDE DEF e, s, arrived, placed
<1> QED
  BY <1>13, <1>15, <1>16

\* validate_name_at_offset reads a name that stands in the packet.
LEMMA ValidStands ==
    ASSUME NEW pkt \in Seq(Nat), NEW name \in Seq(Seq(0..127)), NEW at \in Nat, NEW end, NEW k, NEW place,
           Stands(pkt, name, 0, at, end, k, place), Fits(name)
    PROVE  validate_name_at_offset(pkt, at) = <<"ok", <<>>, end>>
<1> DEFINE N == Len(name)
           labels(i) == <<>>
           arrived(i) == IF i <= k \/ k = N THEN Direct(NextPlace(name, 0, at, place, i), labels(i))
                         ELSE Behind(NextPlace(name, 0, at, place, i), labels(i), end)
           placed(i) == IF i < k \/ k = N THEN Direct(place[i], labels(i))
                        ELSE Behind(place[i], labels(i), end)
<1>1. /\ N \in Nat /\ name \in Labels /\ k \in 0..N /\ place \in [0..N -> Nat]
      /\ \A i \in 1..N : /\ name[i] \in Seq(0..127) /\ Len(escape_label(name[i])) \in 1..63
                         /\ LabelAt(pkt, place[i - 1], name[i])
                         /\ i - 1 \in 0..N /\ i \in 0..N /\ i # 0
      /\ Length(name) <= MAXDNAME
  <2>1. /\ k \in 0..N /\ place \in [0..N -> Nat]
        /\ \A i \in (0 + 1)..N : LabelAt(pkt, place[i - 1], name[i])
    BY DEF Stands
  <2>2. N \in Nat /\ name \in Labels /\ DOMAIN name = 1..N /\ \A i \in 1..N : name[i] \in Seq(0..127)
    BY NameIs
  <2>3. Length(name) <= MAXDNAME /\ \A i \in 1..N : Len(escape_label(name[i])) \in 1..63
    BY <2>2 DEF Fits
  <2> QED
    BY <2>1, <2>2, <2>3
<1>2. \A i \in 0..N : NextPlace(name, 0, at, place, i) \in Nat /\ place[i] \in Nat
  BY <1>1, NextTyped
<1>3. \A i \in 0..N : labels(i) \in Labels
  BY DEF Labels
<1>4. end \in Nat
  <2>1. CASE k = N
    BY <1>1, <1>2, <2>1 DEF Stands
  <2>2. CASE k # N
    <3>1. end = NextPlace(name, 0, at, place, k) + 2
      BY <2>2 DEF Stands
    <3> QED
      BY <1>1, <1>2, <3>1
  <2> QED
    BY <2>1, <2>2
<1> HIDE DEF labels
<1>6. \A i \in 0..N : Valids(pkt)[arrived(i)] = Valids(pkt)[placed(i)]
  <2> TAKE i \in 0..N
  <2>1. CASE i # k \/ k = N
    <3>1. place[i] = NextPlace(name, 0, at, place, i)
      BY <2>1 DEF Stands
    <3>2. (i <= k \/ k = N) <=> (i < k \/ k = N)
      BY <1>1, <2>1
    <3> QED
      BY <3>1, <3>2
  <2>2. CASE i = k /\ k # N
    <3> DEFINE o == NextPlace(name, 0, at, place, i)
               s == Direct(o, labels(i))
    <3>1. arrived(i) = s /\ placed(i) = Behind(place[i], labels(i), end)
      BY <1>1, <2>2
    <3>2. PointsTo(pkt, o, place[i]) /\ end = o + 2
      BY <2>2 DEF Stands
    <3>3. o \in Nat /\ labels(i) \in Labels /\ Target(pkt, o) = place[i] /\ place[i] \in Nat
      BY <1>2, <1>3, <3>2 DEF PointsTo
    <3> HIDE DEF o
    <3>4. s \in Reading /\ s.status = "reading" /\ s.hops = 0 /\ s.offset = o
      BY <3>3, DirectIs
    <3>5. Jump(pkt, s) = Behind(place[i], labels(i), end)
      BY <3>2, <3>3, JumpBehind
    <3> HIDE DEF s
    <3>6. s.hops < MaxHops
      BY <3>4, WireAssumption
    <3>7. ValidateTurn(pkt, s) = Jump(pkt, s)
      BY <3>2, <3>4, <3>6, PointerTurns
    <3>8. Valids(pkt)[s] = Valids(pkt)[Jump(pkt, s)]
      BY <3>4, <3>7, ValidsAre
    <3> QED
      BY <3>1, <3>5, <3>8
  <2> QED
    BY <2>1, <2>2
<1>7. \A i \in 1..N : Valids(pkt)[placed(i - 1)] = Valids(pkt)[arrived(i)]
  <2> TAKE i \in 1..N
  <2> DEFINE s == placed(i - 1)
             o == place[i - 1]
  <2>1. /\ i - 1 \in 0..N /\ i \in 0..N /\ i # 0 /\ o \in Nat
        /\ labels(i - 1) \in Labels /\ labels(i) \in Labels
    BY <1>1, <1>2, <1>3
  <2>2. /\ s \in Reading /\ s.status = "reading" /\ s.offset = o /\ s.labels = labels(i - 1)
    <3> HIDE DEF o
    <3>1. /\ Direct(o, labels(i - 1)) \in Reading /\ Direct(o, labels(i - 1)).status = "reading"
          /\ Direct(o, labels(i - 1)).offset = o /\ Direct(o, labels(i - 1)).labels = labels(i - 1)
      BY <2>1, DirectIs
    <3>2. /\ Behind(o, labels(i - 1), end) \in Reading /\ Behind(o, labels(i - 1), end).status = "reading"
          /\ Behind(o, labels(i - 1), end).offset = o /\ Behind(o, labels(i - 1), end).labels = labels(i - 1)
      BY <1>4, <2>1, BehindIs, SMTT(30)
    <3> QED
      BY <3>1, <3>2 DEF o
  <2>3. NextPlace(name, 0, at, place, i) = o + 1 + Byte(pkt, o) /\ o + 1 + Byte(pkt, o) \in Nat
    <3>1. NextPlace(name, 0, at, place, i) = o + 1 + Byte(pkt, o)
      BY <1>1, <2>1 DEF NextPlace, LabelAt
    <3> QED
      BY <1>2, <2>1, <3>1
  <2>4. TakeLabel(pkt, s, labels(i)) = arrived(i)
    <3> HIDE DEF o
    <3>1. /\ TakeLabel(pkt, Direct(o, labels(i - 1)), labels(i)) = Direct(o + 1 + Byte(pkt, o), labels(i))
          /\ TakeLabel(pkt, Behind(o, labels(i - 1), end), labels(i))
                = Behind(o + 1 + Byte(pkt, o), labels(i), end)
      <4> DEFINE some == labels(i - 1)
                 longer == labels(i)
      <4>1. o \in Nat /\ some \in Labels /\ longer \in Labels /\ o + 1 + Byte(pkt, o) \in Nat
        BY <2>1, <2>3
      <4> HIDE DEF some, longer
      <4>2. TakeLabel(pkt, Direct(o, some), longer) = Direct(o + 1 + Byte(pkt, o), longer)
        BY <1>4, <4>1, TakeDirect
      <4>3. TakeLabel(pkt, Behind(o, some, end), longer) = Behind(o + 1 + Byte(pkt, o), longer, end)
        BY <1>4, <4>1, TakeBehind
      <4> QED
        BY <4>2, <4>3 DEF some, longer
    <3>2. (i - 1 < k) <=> (i <= k)
      BY <1>1
    <3>3. s = IF i <= k \/ k = N THEN Direct(o, labels(i - 1)) ELSE Behind(o, labels(i - 1), end)
      BY <3>2 DEF o
    <3> HIDE DEF s
    <3> QED
      BY <2>3, <3>1, <3>3
  <2> HIDE DEF s
  <2>5. ValidateTurn(pkt, s) = TakeLabel(pkt, s, labels(i))
    <3>1. labels(i) = s.labels
      BY <2>2 DEF labels
    <3>2. /\ Len(escape_label(name[i])) \in 1..63 /\ LabelAt(pkt, s.offset, name[i]) /\ name[i] \in Seq(0..127)
      BY <1>1, <2>2
    <3> QED
      BY <2>2, <3>1, <3>2, LabelTurns
  <2>6. Valids(pkt)[s] = Valids(pkt)[TakeLabel(pkt, s, labels(i))]
    BY <2>2, <2>5, ValidsAre
  <2> QED
    BY <2>4, <2>6 DEF s
<1> DEFINE Bad == {i \in 0..N : Valids(pkt)[placed(i)] # Valids(pkt)[arrived(0)]}
<1>8. Bad = {}
  <2> SUFFICES ASSUME Bad # {} PROVE FALSE
    OBVIOUS
  <2>1. PICK i \in Bad : \A j \in Bad : i <= j
    <3>1. Bad \in SUBSET Nat
      BY <1>1
    <3> HIDE DEF Bad
    <3> QED
      BY <3>1, HasLeast
  <2>2. i \in 0..N /\ Valids(pkt)[placed(i)] # Valids(pkt)[arrived(0)]
    OBVIOUS
  <2>3. i # 0
    <3>1. 0 \in 0..N
      BY <1>1
    <3> HIDE DEF arrived, placed, Bad
    <3> QED
      BY <1>6, <2>2, <3>1
  <2>4. i - 1 \in 0..N /\ i \in 1..N /\ i - 1 \notin Bad
    <3>1. i - 1 \in 0..N /\ i \in 1..N /\ ~(i <= i - 1)
      BY <1>1, <2>2, <2>3
    <3> HIDE DEF Bad
    <3> QED
      BY <2>1, <3>1
  <2>5. Valids(pkt)[placed(i - 1)] = Valids(pkt)[arrived(0)]
    BY <2>4
  <2> HIDE DEF arrived, placed, Bad
  <2> QED
    BY <1>6, <1>7, <2>2, <2>4, <2>5
<1> DEFINE s == placed(N)
           e == Done(s)
<1>9. N \in 0..N /\ s = IF k = N THEN Direct(place[N], labels(N)) ELSE Behind(place[N], labels(N), end)
  BY <1>1
<1>10. s \in Reading /\ s.status = "reading" /\ s.offset = place[N]
  <2> HIDE DEF s
  <2>1. place[N] \in Nat /\ labels(N) \in Labels
    BY <1>2, <1>3, <1>9
  <2>2. /\ Direct(place[N], labels(N)) \in Reading /\ Direct(place[N], labels(N)).status = "reading"
        /\ Direct(place[N], labels(N)).offset = place[N]
    BY <2>1, DirectIs
  <2>3. /\ Behind(place[N], labels(N), end) \in Reading /\ Behind(place[N], labels(N), end).status = "reading"
        /\ Behind(place[N], labels(N), end).offset = place[N]
    BY <1>4, <2>1, BehindIs
  <2> QED
    BY <1>9, <2>2, <2>3
<1>11. ValidateTurn(pkt, s) = e
  <2>1. s.offset < Len(pkt) /\ Byte(pkt, s.offset) = 0
    BY <1>10 DEF Stands
  <2> HIDE DEF s
  <2> QED
    BY <1>10, <2>1, ZeroTurns DEF Done
<1>12. e \in Reading /\ e.status # "reading" /\ Result(e) = <<"ok", labels(N), end>>
  <2>1. place[N] \in Nat /\ labels(N) \in Labels
    BY <1>2, <1>3, <1>9
  <2>2. CASE k = N
    <3>1. end = place[N] + 1
      BY <2>2 DEF Stands
    <3>2. s = Direct(place[N], labels(N))
      BY <1>9, <2>2
    <3> HIDE DEF s
    <3>3. /\ Done(s) \in Reading /\ Done(s).status # "reading"
          /\ Result(Done(s)) = <<"ok", labels(N), place[N] + 1>>
      BY <1>4, <2>1, <3>2, DoneDirect
    <3> QED
      BY <3>1, <3>3
  <2>3. CASE k # N
    <3>1. s = Behind(place[N], labels(N), end)
      BY <1>9, <2>3
    <3> HIDE DEF s
    <3> QED
      BY <1>4, <2>1, <3>1, DoneBehind
  <2> QED
    BY <2>2, <2>3
<1>13. Result(e) = <<"ok", <<>>, end>>
  <2>1. labels(N) = <<>>
    BY DEF labels
  <2> HIDE DEF e
  <2> QED
    BY <1>12, <2>1
<1>14. ReadFrom(at) = arrived(0)
  <2>1. labels(0) = <<>>
    BY DEF labels
  <2>2. NextPlace(name, 0, at, place, 0) = at /\ (0 <= k)
    BY <1>1 DEF NextPlace
  <2> QED
    BY <2>1, <2>2 DEF ReadFrom, Direct
<1>15. Valids(pkt)[ReadFrom(at)] = e
  <2>1. Valids(pkt)[s] = Valids(pkt)[arrived(0)]
    <3> HIDE DEF arrived, placed
    <3>1. N \in 0..N /\ N \notin Bad
      BY <1>8, <1>9
    <3> QED
      BY <3>1
  <2> HIDE DEF s, e, arrived
  <2>2. Valids(pkt)[s] = Valids(pkt)[e] /\ Valids(pkt)[e] = e
    BY <1>10, <1>11, <1>12, ValidsAre
  <2> QED
    BY <1>14, <2>1, <2>2
<1>16. validate_name_at_offset(pkt, at) = Result(Valids(pkt)[ReadFrom(at)])
  BY ValidsAre DEF validate_name_at_offset
<1> HIDE DEF e, s, arrived, placed
<1> QED
  BY <1>13, <1>15, <1>16

-----------------------------------------------------------------------------
(* A name that is written stands in the message *)

Holds(pkt, o, bytes) == o + Len(bytes) <= Len(pkt) /\ \A j \in 1..Len(bytes) : pkt[o + j] = bytes[j]

LEMMA ByteStays ==
    ASSUME NEW pkt \in Seq(Nat), NEW more \in Seq(Nat), NEW o \in Nat, o < Len(pkt)
    PROVE  Byte(pkt \o more, o) = Byte(pkt, o) /\ o < Len(pkt \o more)
<1>1. o + 1 \in 1..Len(pkt) /\ Len(pkt) \in Nat /\ Len(more) \in Nat
  OBVIOUS
<1>2. Len(pkt \o more) = Len(pkt) + Len(more) /\ (pkt \o more)[o + 1] = pkt[o + 1]
  BY <1>1, JoinIs
<1> QED
  BY <1>1, <1>2 DEF Byte

LEMMA HoldsStays ==
    ASSUME NEW pkt \in Seq(Nat), NEW more \in Seq(Nat), NEW o \in Nat, NEW bytes \in Seq(Nat),
           Holds(pkt, o, bytes)
    PROVE  Holds(pkt \o more, o, bytes)
<1>1. Len(bytes) \in Nat /\ Len(pkt) \in Nat /\ Len(more) \in Nat /\ o + Len(bytes) <= Len(pkt)
      /\ \A j \in 1..Len(bytes) : pkt[o + j] = bytes[j]
  BY DEF Holds
<1>2. Len(pkt \o more) = Len(pkt) + Len(more) /\ \A i \in 1..Len(pkt) : (pkt \o more)[i] = pkt[i]
  BY JoinIs
<1>3. \A j \in 1..Len(bytes) : o + j \in 1..Len(pkt)
  BY <1>1
<1>4. o + Len(bytes) <= Len(pkt \o more)
  BY <1>1, <1>2
<1>5. \A j \in 1..Len(bytes) : (pkt \o more)[o + j] = bytes[j]
  BY <1>1, <1>2, <1>3
<1> QED
  BY <1>4, <1>5 DEF Holds

LEMMA HoldsHere ==
    ASSUME NEW pkt \in Seq(Nat), NEW more \in Seq(Nat)
    PROVE  Holds(pkt \o more, Len(pkt), more)
<1>1. /\ Len(pkt \o more) = Len(pkt) + Len(more) /\ Len(pkt) \in Nat /\ Len(more) \in Nat
      /\ \A i \in 1..Len(more) : (pkt \o more)[Len(pkt) + i] = more[i]
  BY JoinIs
<1> QED
  BY <1>1 DEF Holds

LEMMA HoldsBoth ==
    ASSUME NEW pkt \in Seq(Nat), NEW o \in Nat, NEW s \in Seq(Nat), NEW t \in Seq(Nat),
           Holds(pkt, o, s \o t)
    PROVE  Holds(pkt, o, s) /\ Holds(pkt, o + Len(s), t)
<1>1. /\ Len(s \o t) = Len(s) + Len(t) /\ Len(s) \in Nat /\ Len(t) \in Nat /\ Len(pkt) \in Nat
      /\ \A i \in 1..Len(s) : (s \o t)[i] = s[i]
      /\ \A i \in 1..Len(t) : (s \o t)[Len(s) + i] = t[i]
  BY JoinIs
<1>2. o + (Len(s) + Len(t)) <= Len(pkt) /\ \A j \in 1..(Len(s) + Len(t)) : pkt[o + j] = (s \o t)[j]
  BY <1>1 DEF Holds
<1>3. o + Len(s) <= Len(pkt) /\ (o + Len(s)) + Len(t) <= Len(pkt)
  BY <1>1, <1>2
<1>4. \A j \in 1..Len(s) : j \in 1..(Len(s) + Len(t))
  BY <1>1
<1>5. \A j \in 1..Len(t) : Len(s) + j \in 1..(Len(s) + Len(t)) /\ o + (Len(s) + j) = (o + Len(s)) + j
  BY <1>1
<1>6. \A j \in 1..Len(s) : pkt[o + j] = s[j]
  BY <1>1, <1>2, <1>4
<1>7. \A j \in 1..Len(t) : pkt[(o + Len(s)) + j] = t[j]
  <2> TAKE j \in 1..Len(t)
  <2>1. pkt[o + (Len(s) + j)] = (s \o t)[Len(s) + j]
    BY <1>2, <1>5
  <2> QED
    BY <1>1, <1>5, <2>1
<1> QED
  BY <1>3, <1>6, <1>7 DEF Holds

LEMMA LabelBytesAre ==
    ASSUME NEW label \in Seq(0..127)
    PROVE  /\ LabelBytes(label) \in Seq(Nat) /\ escape_label(label) \in Seq(Nat)
           /\ Len(escape_label(label)) \in Nat
           /\ Len(LabelBytes(label)) = 1 + Len(escape_label(label))
           /\ LabelBytes(label)[1] = Len(escape_label(label))
           /\ \A j \in 1..Len(escape_label(label)) : LabelBytes(label)[1 + j] = escape_label(label)[j]
<1> DEFINE e == escape_label(label)
           s == <<Len(e)>>
<1>1. e \in Seq(Nat) /\ Len(e) \in Nat
  <2>1. e \in Seq(Nat)
    BY EscapesUndone
  <2> HIDE DEF e
  <2> QED
    BY <2>1
<1>2. LabelBytes(label) = s \o e
  BY DEF LabelBytes
<1> HIDE DEF e
<1>3. s \in Seq(Nat) /\ Len(s) = 1 /\ s[1] = Len(e)
  BY <1>1
<1> HIDE DEF s
<1>4. /\ s \o e \in Seq(Nat) /\ Len(s \o e) = 1 + Len(e) /\ (s \o e)[1] = Len(e)
      /\ \A i \in 1..Len(e) : (s \o e)[1 + i] = e[i]
  <2>1. /\ s \o e \in Seq(Nat) /\ Len(s \o e) = Len(s) + Len(e)
        /\ \A i \in 1..Len(s) : (s \o e)[i] = s[i]
        /\ \A i \in 1..Len(e) : (s \o e)[Len(s) + i] = e[i]
    BY <1>1, <1>3, JoinIs
  <2> QED
    BY <1>3, <2>1
<1> QED
  BY <1>1, <1>2, <1>4 DEF e

LEMMA HoldsLabel ==
    ASSUME NEW pkt \in Seq(Nat), NEW o \in Nat, NEW label \in Seq(0..127), Holds(pkt, o, LabelBytes(label))
    PROVE  LabelAt(pkt, o, label)
<1> DEFINE n == Len(escape_label(label))
<1>1. /\ n \in Nat /\ Len(LabelBytes(label)) = 1 + n /\ LabelBytes(label)[1] = n
      /\ \A j \in 1..n : LabelBytes(label)[1 + j] = escape_label(label)[j]
  BY LabelBytesAre
<1>2. o + (1 + n) <= Len(pkt) /\ \A j \in 1..(1 + n) : pkt[o + j] = LabelBytes(label)[j]
  BY <1>1 DEF Holds
<1> HIDE DEF n
<1>3. 1 \in 1..(1 + n) /\ \A j \in 1..n : 1 + j \in 1..(1 + n) /\ o + (1 + j) = o + 1 + j
  BY <1>1
<1>4. o + 1 + n <= Len(pkt) /\ pkt[o + 1] = n
  <2>1. o + (1 + n) = o + 1 + n
    BY <1>1
  <2> QED
    BY <1>1, <1>2, <1>3, <2>1
<1>5. \A j \in 1..n : pkt[o + 1 + j] = escape_label(label)[j]
  <2> TAKE j \in 1..n
  <2>1. pkt[o + (1 + j)] = LabelBytes(label)[1 + j]
    BY <1>2, <1>3
  <2> QED
    BY <1>1, <1>3, <2>1
<1> QED
  BY <1>4, <1>5 DEF LabelAt, Byte, n

LEMMA PointerArithmetic ==
    ASSUME NEW p \in Nat, p < 64 * 256
    PROVE  /\ 192 + ((p \div 256) % 64) >= 192
           /\ ((192 + ((p \div 256) % 64)) % 64) * 256 + (p % 256) = p
<1>1. p \div 256 \in 0..63 /\ p = 256 * (p \div 256) + (p % 256)
  OBVIOUS
<1>2. \A q \in 0..63 : q % 64 = q /\ (192 + q) % 64 = q
  OBVIOUS
<1> QED
  BY <1>1, <1>2

LEMMA HoldsPointer ==
    ASSUME NEW pkt \in Seq(Nat), NEW o \in Nat, NEW p \in Nat, p <= PointerLimit, Holds(pkt, o, Pointer(p))
    PROVE  o + 1 < Len(pkt) /\ IsPointer(Byte(pkt, o)) /\ Target(pkt, o) = p
<1> DEFINE high == 192 + ((p \div 256) % 64)
           low == p % 256
<1>1. p < 64 * 256
  BY WireAssumption
<1>2. high >= 192 /\ (high % 64) * 256 + low = p
  BY <1>1, PointerArithmetic
<1>3. Pointer(p) = <<high, low>>
  BY DEF Pointer
<1> HIDE DEF high, low
<1>4. Len(<<high, low>>) = 2 /\ <<high, low>>[1] = high /\ <<high, low>>[2] = low
  OBVIOUS
<1>5. o + 2 <= Len(pkt) /\ \A j \in 1..2 : pkt[o + j] = Pointer(p)[j]
  BY <1>3, <1>4 DEF Holds
<1>6. pkt[o + 1] = high /\ pkt[o + 2] = low
  BY <1>3, <1>4, <1>5
<1>7. o + 1 < Len(pkt) /\ o + 1 + 1 = o + 2
  BY <1>5
<1>8. Byte(pkt, o) = high /\ Byte(pkt, o + 1) = low
  BY <1>6, <1>7 DEF Byte
<1> QED
  BY <1>2, <1>7, <1>8 DEF IsPointer, Target

LEMMA PointerTyped ==
    ASSUME NEW p \in Nat
    PROVE  Pointer(p) \in Seq(Nat) /\ Len(Pointer(p)) = 2
<1>1. p % 256 \in Nat /\ 192 + ((p \div 256) % 64) \in Nat
  <2>1. p \div 256 \in Nat
    OBVIOUS
  <2> QED
    BY <2>1
<1> QED
  BY <1>1 DEF Pointer

LEMMA TailIs ==
    ASSUME NEW name \in Seq(Seq(0..127)), NEW n \in 0..Len(name)
    PROVE  /\ LastLabels(name, n) \in Seq(Seq(0..127)) /\ Len(LastLabels(name, n)) = n
           /\ \A i \in 1..n : /\ LastLabels(name, n)[i] = name[Len(name) - n + i]
                              /\ Len(name) - n + i \in 1..Len(name)
<1> DEFINE V == Seq(0..127)
           b == Len(name) - n
<1>1. n \in Nat /\ b \in Nat /\ b + n = Len(name) /\ b + n <= Len(name) /\ name \in Seq(V)
  OBVIOUS
<1> HIDE DEF V, b
<1>2. /\ SubSeq(name, b + 1, b + n) \in Seq(V) /\ Len(SubSeq(name, b + 1, b + n)) = n
      /\ \A i \in 1..n : SubSeq(name, b + 1, b + n)[i] = name[b + i] /\ b + i \in 1..Len(name)
  BY <1>1, SliceIs
<1>3. LastLabels(name, n) = SubSeq(name, b + 1, b + n)
  BY <1>1 DEF LastLabels, b
<1> QED
  BY <1>2, <1>3 DEF V, b

\* The offsets in the bytes of a name that is not compressed.
LEMMA EncodedStands ==
    ASSUME NEW pkt \in Seq(Nat), NEW o \in Nat, NEW labels \in Seq(Seq(0..127)),
           Holds(pkt, o, encode_labels_to_wire(labels))
    PROVE  /\ encode_labels_to_wire(labels) \in Seq(Nat) /\ Len(encode_labels_to_wire(labels)) > 0
           /\ \E f \in [0..Len(labels) -> Nat] :
                 /\ f[0] = o /\ f[Len(labels)] < Len(pkt) /\ Byte(pkt, f[Len(labels)]) = 0
                 /\ \A i \in 1..Len(labels) : /\ f[i] = f[i - 1] + 1 + Len(escape_label(labels[i]))
                                              /\ LabelAt(pkt, f[i - 1], labels[i])
<1> DEFINE n == Len(labels)
           seqs == [i \in DOMAIN labels |-> LabelBytes(labels[i])]
           flat == FlattenSeq(seqs)
           end == <<0>>
<1>1. n \in Nat /\ DOMAIN labels = 1..n /\ \A i \in 1..n : labels[i] \in Seq(0..127)
  BY NameIs
<1>2. \A i \in 1..n : /\ LabelBytes(labels[i]) \in Seq(Nat) /\ Len(escape_label(labels[i])) \in Nat
                      /\ Len(LabelBytes(labels[i])) = 1 + Len(escape_label(labels[i]))
  BY <1>1, LabelBytesAre
<1>3. seqs \in Seq(Seq(Nat)) /\ Len(seqs) = n /\ \A i \in 1..n : seqs[i] = LabelBytes(labels[i])
  <2> DEFINE V == Seq(Nat)
  <2>1. seqs \in [1..n -> V] /\ \A i \in 1..n : seqs[i] = LabelBytes(labels[i])
    BY <1>1, <1>2
  <2> HIDE DEF seqs, V
  <2>2. n \in Nat
    BY <1>1
  <2> HIDE DEF n
  <2>3. seqs \in Seq(V) /\ Len(seqs) = n
    BY <2>1, <2>2
  <2> QED
    BY <2>1, <2>3 DEF V
<1>4. encode_labels_to_wire(labels) = flat \o end
  BY DEF encode_labels_to_wire
<1> HIDE DEF seqs
<1>5. PICK pos : Pieces(pos, seqs, flat)
  BY <1>3, FlattenPieces
<1> HIDE DEF flat
<1>6. /\ flat \in Seq(Nat) /\ Len(flat) \in Nat /\ end \in Seq(Nat) /\ Len(end) = 1 /\ end[1] = 0
      /\ pos \in [1..(n + 1) -> Nat] /\ pos[1] = 0 /\ pos[n + 1] = Len(flat)
      /\ \A i \in 1..n :
            /\ pos[i + 1] = pos[i] + Len(seqs[i]) /\ pos[i + 1] <= Len(flat)
            /\ \A j \in 1..Len(seqs[i]) : flat[pos[i] + j] = seqs[i][j]
  <2>1. flat \in Seq(Nat)
    BY <1>5 DEF Pieces
  <2> QED
    BY <1>3, <1>5, <2>1 DEF Pieces
<1>7. Holds(pkt, o, flat) /\ Holds(pkt, o + Len(flat), end)
  <2> HIDE DEF end
  <2> QED
    BY <1>4, <1>6, HoldsBoth
<1>8. flat \o end \in Seq(Nat) /\ Len(flat \o end) > 0
  <2> HIDE DEF end
  <2>1. flat \o end \in Seq(Nat) /\ Len(flat \o end) = Len(flat) + Len(end)
    BY <1>6, JoinIs
  <2> QED
    BY <1>6, <2>1
<1> DEFINE f == [i \in 0..n |-> o + pos[i + 1]]
<1>9. /\ \A i \in 0..n : i + 1 \in 1..(n + 1) /\ pos[i + 1] \in Nat
      /\ \A i \in 1..n : /\ i - 1 \in 0..n /\ i \in 0..n /\ i - 1 + 1 = i
                         /\ i \in 1..(n + 1) /\ pos[i] \in Nat
      /\ 0 \in 0..n /\ n \in 0..n
  <2>1. /\ \A i \in 0..n : i + 1 \in 1..(n + 1)
        /\ \A i \in 1..n : i - 1 \in 0..n /\ i \in 0..n /\ i - 1 + 1 = i /\ i \in 1..(n + 1)
        /\ 0 \in 0..n /\ n \in 0..n
    BY <1>1
  <2> QED
    BY <1>6, <2>1
<1>10. f \in [0..n -> Nat] /\ f[0] = o /\ f[n] = o + Len(flat)
  <2>1. f \in [0..n -> Nat]
    BY <1>9
  <2>2. f[0] = o + pos[1] /\ f[n] = o + pos[n + 1]
    BY <1>9
  <2> HIDE DEF f, n
  <2> QED
    BY <1>6, <2>1, <2>2
<1>11. f[n] < Len(pkt) /\ Byte(pkt, f[n]) = 0
  <2>1. o + Len(flat) + 1 <= Len(pkt) /\ pkt[o + Len(flat) + 1] = 0
    <3>1. 1 \in 1..1
      OBVIOUS
    <3> HIDE DEF end
    <3> QED
      BY <1>6, <1>7, <3>1 DEF Holds
  <2>2. o + Len(flat) \in Nat /\ Len(pkt) \in Nat
    BY <1>6
  <2> HIDE DEF f
  <2> QED
    BY <1>10, <2>1, <2>2 DEF Byte
<1>12. \A i \in 1..n : f[i - 1] = o + pos[i] /\ f[i] = o + pos[i + 1]
  BY <1>9
<1>13. \A i \in 1..n : Holds(pkt, o + pos[i], LabelBytes(labels[i]))
  <2> TAKE i \in 1..n
  <2> DEFINE s == LabelBytes(labels[i])
             l == Len(flat)
             m == Len(s)
             p == pos[i]
  <2>1. /\ m \in Nat /\ p \in Nat /\ l \in Nat /\ p + m <= l
        /\ \A j \in 1..m : flat[p + j] = s[j]
    <3>1. s \in Seq(Nat) /\ seqs[i] = s
      BY <1>2, <1>3
    <3>2. m \in Nat
      <4> HIDE DEF s
      <4> QED
        BY <3>1
    <3> HIDE DEF s
    <3> QED
      BY <1>6, <1>9, <3>1, <3>2
  <2>2. o + l <= Len(pkt) /\ \A j \in 1..l : pkt[o + j] = flat[j]
    BY <1>7 DEF Holds
  <2> HIDE DEF p, l, s, m
  <2>3. Len(pkt) \in Nat
    OBVIOUS
  <2>4. o + p + m <= Len(pkt)
    BY <2>1, <2>2, <2>3
  <2>5. \A j \in 1..m : p + j \in 1..l /\ o + (p + j) = o + p + j
    BY <2>1
  <2>6. \A j \in 1..m : pkt[o + p + j] = s[j]
    <3> TAKE j \in 1..m
    <3>1. pkt[o + (p + j)] = flat[p + j]
      BY <2>2, <2>5
    <3> QED
      BY <2>1, <2>5, <3>1
  <2> QED
    BY <2>4, <2>6 DEF Holds, p, m, s
<1>14. \A i \in 1..n : LabelAt(pkt, o + pos[i], labels[i])
  <2> TAKE i \in 1..n
  <2>1. o + pos[i] \in Nat
    BY <1>9
  <2> QED
    BY <1>1, <1>13, <2>1, HoldsLabel
<1>15. \A i \in 1..n : o + pos[i + 1] = o + pos[i] + 1 + Len(escape_label(labels[i]))
  <2> TAKE i \in 1..n
  <2>1. pos[i + 1] = pos[i] + (1 + Len(escape_label(labels[i]))) /\ pos[i] \in Nat
        /\ Len(escape_label(labels[i])) \in Nat
    <3>1. pos[i + 1] = pos[i] + Len(seqs[i]) /\ pos[i] \in Nat
      BY <1>6, <1>9
    <3>2. seqs[i] = LabelBytes(labels[i])
      BY <1>3
    <3> QED
      BY <1>2, <3>1, <3>2
  <2> DEFINE l == Len(escape_label(labels[i]))
             p == pos[i]
             q == pos[i + 1]
  <2>2. q = p + (1 + l) /\ p \in Nat /\ l \in Nat
    BY <2>1
  <2> HIDE DEF l, p, q
  <2>3. o + q = o + p + 1 + l
    BY <2>2
  <2> QED
    BY <2>3 DEF l, p, q
<1> HIDE DEF f
<1>16. \A i \in 1..n : /\ f[i] = f[i - 1] + 1 + Len(escape_label(labels[i]))
                       /\ LabelAt(pkt, f[i - 1], labels[i])
  BY <1>12, <1>14, <1>15
<1> QED
  BY <1>4, <1>8, <1>10, <1>11, <1>16

\* The forms of the tails of a name, from the shortest on.
Forms(f, map, labels) ==
    f = [n \in 0..Len(labels) |->
           LET tail == LastLabels(labels, n)
           IN IF n = 0 THEN <<0>>
              ELSE IF Reachable(map, tail) # {} THEN Pointer(CHOOSE k \in Reachable(map, tail) : TRUE)
              ELSE LabelBytes(Head(tail)) \o f[n - 1]]

LEMMA ReachableIs ==
    ASSUME NEW map, \A e \in map : e[2] \in Nat, NEW labels, Reachable(map, labels) # {}
    PROVE  \E e \in map : /\ (CHOOSE k \in Reachable(map, labels) : TRUE) = e[2]
                          /\ e[1] = encode_labels_to_wire(labels) /\ e[2] <= PointerLimit /\ e[2] \in Nat
<1>1. (CHOOSE k \in Reachable(map, labels) : TRUE) \in Reachable(map, labels)
  OBVIOUS
<1> QED
  BY <1>1 DEF Reachable

LEMMA TailHead ==
    ASSUME NEW labels \in Seq(Seq(0..127)), NEW n \in 1..Len(labels)
    PROVE  Head(LastLabels(labels, n)) = labels[Len(labels) - n + 1]
           /\ Len(labels) - n + 1 \in 1..Len(labels) /\ labels[Len(labels) - n + 1] \in Seq(0..127)
<1> DEFINE tail == LastLabels(labels, n)
<1>1. n \in 0..Len(labels) /\ 1 \in 1..n
  OBVIOUS
<1>2. /\ tail \in Seq(Seq(0..127)) /\ Len(tail) = n
      /\ tail[1] = labels[Len(labels) - n + 1] /\ Len(labels) - n + 1 \in 1..Len(labels)
  <2> HIDE DEF tail
  <2>1. /\ tail \in Seq(Seq(0..127)) /\ Len(tail) = n
        /\ \A i \in 1..n : tail[i] = labels[Len(labels) - n + i] /\ Len(labels) - n + i \in 1..Len(labels)
    BY <1>1, TailIs DEF tail
  <2> QED
    BY <1>1, <2>1
<1>3. labels[Len(labels) - n + 1] \in Seq(0..127)
  BY <1>2, NameIs
<1>4. Head(tail) = tail[1]
  <2> DEFINE V == Seq(0..127)
  <2>1. tail \in Seq(V) /\ Len(tail) > 0
    BY <1>1, <1>2
  <2> HIDE DEF tail, V
  <2> QED
    BY <2>1
<1> QED
  BY <1>2, <1>3, <1>4

LEMMA FormsExist ==
    ASSUME NEW map, \A e \in map : e[2] \in Nat, NEW labels \in Seq(Seq(0..127))
    PROVE  \E f \in [0..Len(labels) -> Seq(Nat)] : Forms(f, map, labels)
<1> DEFINE V == Seq(Nat)
           N == Len(labels)
           Some(n) == Reachable(map, LastLabels(labels, n))
           first(n) == LabelBytes(Head(LastLabels(labels, n)))
           g == [p \in V \X (1..N) |-> IF Some(p[2]) # {} THEN Pointer(CHOOSE k \in Some(p[2]) : TRUE)
                                       ELSE first(p[2]) \o p[1]]
           start == <<0>>
<1>1. N \in Nat /\ start \in V
  OBVIOUS
<1>2. \A n \in 1..N : Some(n) # {} => Pointer(CHOOSE k \in Some(n) : TRUE) \in V
  BY ReachableIs, PointerTyped
<1>3. \A n \in 1..N : first(n) \in V
  BY TailHead, LabelBytesAre
<1> HIDE DEF Some, first
<1>4. g \in [V \X (1..N) -> V]
  <2>1. ASSUME NEW p \in V \X (1..N)
        PROVE  (IF Some(p[2]) # {} THEN Pointer(CHOOSE k \in Some(p[2]) : TRUE)
                ELSE first(p[2]) \o p[1]) \in V
    <3>1. p[1] \in Seq(Nat) /\ p[2] \in 1..N
      OBVIOUS
    <3>2. first(p[2]) \in Seq(Nat)
      BY <1>3, <3>1
    <3>3. first(p[2]) \o p[1] \in Seq(Nat)
      BY <3>1, <3>2, JoinIs
    <3> QED
      BY <1>2, <3>1, <3>3
  <2> QED
    BY <2>1
<1>5. \A s \in V, n \in 1..N :
         g[<<s, n>>] = IF Some(n) # {} THEN Pointer(CHOOSE k \in Some(n) : TRUE) ELSE first(n) \o s
  <2> TAKE s \in V, n \in 1..N
  <2> DEFINE p == <<s, n>>
  <2>1. p \in V \X (1..N) /\ p[1] = s /\ p[2] = n
    OBVIOUS
  <2> HIDE DEF p, V, N
  <2>2. g[p] = IF Some(p[2]) # {} THEN Pointer(CHOOSE k \in Some(p[2]) : TRUE) ELSE first(p[2]) \o p[1]
    BY <2>1
  <2> HIDE DEF g
  <2> QED
    BY <2>1, <2>2 DEF p
<1> HIDE DEF g, start, V, N
<1>6. PICK f : Passes(f, N, g, start) /\ f \in [0..N -> V]
  BY <1>1, <1>4, PassExists
<1>7. \A n \in 0..N : f[n] = IF n = 0 THEN start
                             ELSE IF Some(n) # {} THEN Pointer(CHOOSE k \in Some(n) : TRUE)
                             ELSE first(n) \o f[n - 1]
  <2> TAKE n \in 0..N
  <2>1. f[n] = IF n = 0 THEN start ELSE g[<<f[n - 1], n>>]
    BY <1>6 DEF Passes
  <2>2. n # 0 => n \in 1..N /\ n - 1 \in 0..N
    BY <1>1
  <2>3. n # 0 => f[n - 1] \in V
    BY <1>6, <2>2
  <2> QED
    BY <1>5, <2>1, <2>2, <2>3
<1>8. DOMAIN f = 0..N
  BY <1>6
<1>9. f = [n \in 0..N |-> IF n = 0 THEN start
                          ELSE IF Some(n) # {} THEN Pointer(CHOOSE k \in Some(n) : TRUE)
                          ELSE first(n) \o f[n - 1]]
  <2>1. f = [n \in 0..N |-> f[n]]
    BY <1>6, <1>8
  <2> QED
    BY <1>7, <2>1
<1>10. Forms(f, map, labels)
  BY <1>9 DEF Forms, Some, first, start, N
<1> QED
  BY <1>6, <1>10 DEF V, N

LEMMA FormIs ==
    ASSUME NEW map, \A e \in map : e[2] \in Nat, NEW labels \in Seq(Seq(0..127))
    PROVE  \E f : /\ Compressed(map, labels) = f[Len(labels)]
                  /\ \A n \in 0..Len(labels) : f[n] \in Seq(Nat)
                  /\ f[0] = <<0>>
                  /\ \A n \in 1..Len(labels) :
                        \/ \E e \in map : /\ e[1] = encode_labels_to_wire(LastLabels(labels, n))
                                          /\ e[2] <= PointerLimit /\ e[2] \in Nat /\ f[n] = Pointer(e[2])
                        \/ f[n] = LabelBytes(labels[Len(labels) - n + 1]) \o f[n - 1]
<1> DEFINE f == CHOOSE f : Forms(f, map, labels)
           N == Len(labels)
<1>1. PICK h \in [0..N -> Seq(Nat)] : Forms(h, map, labels)
  BY FormsExist
<1>2. Forms(f, map, labels)
  BY <1>1
<1>3. Compressed(map, labels) = f[N]
  BY DEF Compressed, Forms
<1> HIDE DEF f
<1>4. N \in Nat /\ 0 \in 0..N /\ N \in 0..N /\ \A n \in 1..N : n \in 0..N /\ n # 0 /\ n - 1 \in 0..N
  OBVIOUS
<1>5. f[0] = <<0>>
  BY <1>2, <1>4 DEF Forms
<1>6. \A n \in 1..N : f[n] = IF Reachable(map, LastLabels(labels, n)) # {}
                             THEN Pointer(CHOOSE k \in Reachable(map, LastLabels(labels, n)) : TRUE)
                             ELSE LabelBytes(Head(LastLabels(labels, n))) \o f[n - 1]
  BY <1>2, <1>4 DEF Forms
<1>7. \A n \in 1..N :
         \/ \E e \in map : /\ e[1] = encode_labels_to_wire(LastLabels(labels, n))
                           /\ e[2] <= PointerLimit /\ e[2] \in Nat /\ f[n] = Pointer(e[2])
         \/ f[n] = LabelBytes(labels[N - n + 1]) \o f[n - 1]
  <2> TAKE n \in 1..N
  <2>1. CASE Reachable(map, LastLabels(labels, n)) # {}
    <3>1. f[n] = Pointer(CHOOSE k \in Reachable(map, LastLabels(labels, n)) : TRUE)
      BY <1>6, <2>1
    <3>2. PICK e \in map :
             /\ (CHOOSE k \in Reachable(map, LastLabels(labels, n)) : TRUE) = e[2]
             /\ e[1] = encode_labels_to_wire(LastLabels(labels, n)) /\ e[2] <= PointerLimit /\ e[2] \in Nat
      BY <2>1, ReachableIs
    <3>3. f[n] = Pointer(e[2])
      BY <3>1, <3>2
    <3> QED
      BY <3>2, <3>3
  <2>2. CASE Reachable(map, LastLabels(labels, n)) = {}
    BY <1>6, <2>2, TailHead
  <2> QED
    BY <2>1, <2>2
<1> DEFINE Bad == {n \in 0..N : f[n] \notin Seq(Nat)}
<1>8. Bad = {}
  <2> SUFFICES ASSUME Bad # {} PROVE FALSE
    OBVIOUS
  <2>1. PICK n \in Bad : \A j \in Bad : n <= j
    <3>1. Bad \in SUBSET Nat
      OBVIOUS
    <3> HIDE DEF Bad
    <3> QED
      BY <3>1, HasLeast
  <2>2. n \in 0..N /\ f[n] \notin Seq(Nat)
    OBVIOUS
  <2>3. n # 0
    <3>1. <<0>> \in Seq(Nat)
      OBVIOUS
    <3> QED
      BY <1>5, <2>2, <3>1
  <2>4. n \in 1..N /\ n - 1 \in 0..N /\ ~(n <= n - 1)
    BY <1>4, <2>2, <2>3
  <2>5. f[n - 1] \in Seq(Nat)
    <3>1. n - 1 \notin Bad
      <4> HIDE DEF Bad
      <4> QED
        BY <2>1, <2>4
    <3> QED
      BY <2>4, <3>1
  <2>6. N - n + 1 \in 1..N /\ LabelBytes(labels[N - n + 1]) \in Seq(Nat)
    BY <2>4, TailHead, LabelBytesAre
  <2>7. LabelBytes(labels[N - n + 1]) \o f[n - 1] \in Seq(Nat)
    BY <2>5, <2>6, JoinIs
  <2>8. \A p \in Nat : Pointer(p) \in Seq(Nat)
    BY PointerTyped
  <2> HIDE DEF Bad
  <2> QED
    BY <1>7, <2>2, <2>4, <2>7, <2>8
<1>9. \A n \in 0..N : f[n] \in Seq(Nat)
  BY <1>8
<1> QED
  BY <1>3, <1>5, <1>7, <1>9

\* What the entries of the compression map say is true of the message.
MapSound(map, buffer) == \A e \in map : e[1] \in Seq(Nat) /\ e[2] \in Nat /\ Holds(buffer, e[2], e[1])

\* The byte that ends a name.
LastByte == <<0>>

LEMMA TailZeroStands ==
    ASSUME NEW pkt \in Seq(Nat), NEW name \in Seq(Seq(0..127)), NEW o \in Nat, Holds(pkt, o, LastByte)
    PROVE  \E place : Stands(pkt, name, Len(name), o, o + Len(LastByte), Len(name), place)
<1> DEFINE N == Len(name)
           place == [i \in N..N |-> o]
<1>1. N \in Nat /\ N \in N..N /\ (N + 1)..N = {} /\ \A i \in N..N : i = N
  <2>1. N \in Nat
    OBVIOUS
  <2> HIDE DEF N
  <2> QED
    BY <2>1
<1>2. Len(LastByte) = 1 /\ LastByte[1] = 0 /\ 1 \in 1..1
  BY DEF LastByte
<1>3. o + 1 <= Len(pkt) /\ pkt[o + 1] = 0
  BY <1>2 DEF Holds
<1>4. o < Len(pkt) /\ Byte(pkt, o) = 0
  BY <1>3 DEF Byte
<1>5. place \in [N..N -> Nat] /\ place[N] = o
  BY <1>1
<1> HIDE DEF place, N
<1>6. \A i \in N..N : NextPlace(name, N, o, place, i) = o /\ place[i] = o
  BY <1>1, <1>5 DEF NextPlace
<1>7. Stands(pkt, name, N, o, o + Len(LastByte), N, place)
  BY <1>1, <1>2, <1>4, <1>5, <1>6 DEF Stands, N
<1> QED
  BY <1>7 DEF N

LEMMA TailPointerStands ==
    ASSUME NEW buffer \in Seq(Nat), NEW more \in Seq(Nat), NEW name \in Seq(Seq(0..127)),
           NEW n \in 1..Len(name), NEW o \in Nat, Len(buffer) <= o,
           NEW p \in Nat, p <= PointerLimit,
           Holds(buffer, p, encode_labels_to_wire(LastLabels(name, n))),
           Holds(buffer \o more, o, Pointer(p))
    PROVE  \E place : Stands(buffer \o more, name, Len(name) - n, o, o + Len(Pointer(p)), Len(name) - n, place)
<1> DEFINE N == Len(name)
           b == N - n
           tail == LastLabels(name, n)
           pkt == buffer \o more
<1>1. /\ N \in Nat /\ n \in Nat /\ b \in Nat /\ b < N /\ b \in b..N /\ N - b = n
      /\ \A i \in b..N : i - b \in 0..n
      /\ \A i \in (b + 1)..N : /\ i - b \in 1..n /\ i - 1 - b = i - b - 1 /\ i # b
                               /\ i - 1 \in b..N /\ N - n + (i - b) = i /\ i \in 1..N
      /\ \A i \in b..N : i # b => i \in (b + 1)..N
  OBVIOUS
<1>2. /\ tail \in Seq(Seq(0..127)) /\ Len(tail) = n
      /\ \A i \in 1..n : tail[i] = name[N - n + i]
  <2>1. n \in 0..N
    BY <1>1
  <2> HIDE DEF tail
  <2> QED
    BY <2>1, TailIs DEF tail
<1>3. pkt \in Seq(Nat) /\ Holds(pkt, o, Pointer(p))
  BY JoinIs
<1> HIDE DEF tail
<1>4. /\ encode_labels_to_wire(tail) \in Seq(Nat) /\ Len(encode_labels_to_wire(tail)) > 0
  BY <1>2, EncodedStands DEF tail
<1>5. Holds(pkt, p, encode_labels_to_wire(tail))
  BY <1>4, HoldsStays DEF tail
<1>6. p < o
  <2>1. p + Len(encode_labels_to_wire(tail)) <= Len(buffer) /\ Len(encode_labels_to_wire(tail)) \in Nat
        /\ Len(buffer) \in Nat
    <3> DEFINE e == encode_labels_to_wire(tail)
    <3>1. Holds(buffer, p, e) /\ e \in Seq(Nat)
      BY <1>4 DEF tail
    <3> HIDE DEF e
    <3>2. Len(e) \in Nat /\ Len(buffer) \in Nat
      BY <3>1
    <3>3. p + Len(e) <= Len(buffer)
      BY <3>1 DEF Holds
    <3> QED
      BY <3>2, <3>3 DEF e
  <2> QED
    BY <1>4, <2>1
<1> HIDE DEF pkt, b
<1>7. PICK f \in [0..n -> Nat] :
         /\ f[0] = p /\ f[n] < Len(pkt) /\ Byte(pkt, f[n]) = 0
         /\ \A i \in 1..n : /\ f[i] = f[i - 1] + 1 + Len(escape_label(tail[i]))
                            /\ LabelAt(pkt, f[i - 1], tail[i])
  <2> DEFINE Offsets(m) ==
               \E f \in [0..m -> Nat] :
                  /\ f[0] = p /\ f[m] < Len(pkt) /\ Byte(pkt, f[m]) = 0
                  /\ \A i \in 1..m : /\ f[i] = f[i - 1] + 1 + Len(escape_label(tail[i]))
                                     /\ LabelAt(pkt, f[i - 1], tail[i])
  <2>1. Offsets(Len(tail))
    BY <1>2, <1>3, <1>5, EncodedStands
  <2>2. Offsets(n)
    <3> HIDE DEF Offsets
    <3> QED
      BY <1>2, <2>1
  <2> QED
    BY <2>2
<1>8. PointsTo(pkt, o, p) /\ o + 2 = o + Len(Pointer(p))
  <2>1. o + 1 < Len(pkt) /\ IsPointer(Byte(pkt, o)) /\ Target(pkt, o) = p
    BY <1>3, HoldsPointer
  <2>2. Len(Pointer(p)) = 2
    BY PointerTyped
  <2> QED
    BY <1>6, <2>1, <2>2 DEF PointsTo
<1> DEFINE place == [i \in b..N |-> f[i - b]]
<1>9. place \in [b..N -> Nat]
  BY <1>1, <1>7
<1>10. /\ place[b] = p /\ place[N] = f[n]
       /\ \A i \in (b + 1)..N : place[i] = f[i - b] /\ place[i - 1] = f[i - b - 1]
  <2>1. b - b = 0 /\ N \in b..N /\ \A i \in (b + 1)..N : i \in b..N
    BY <1>1
  <2> QED
    BY <1>1, <1>7, <2>1
<1> HIDE DEF place
<1>11. \A i \in (b + 1)..N : /\ LabelAt(pkt, place[i - 1], name[i])
                             /\ place[i] = place[i - 1] + 1 + Len(escape_label(name[i]))
  <2> TAKE i \in (b + 1)..N
  <2>1. tail[i - b] = name[i] /\ i - b \in 1..n
    BY <1>1, <1>2
  <2>2. /\ f[i - b] = f[i - b - 1] + 1 + Len(escape_label(tail[i - b]))
        /\ LabelAt(pkt, f[i - b - 1], tail[i - b])
    BY <1>7, <2>1
  <2> QED
    BY <1>10, <2>1, <2>2
<1>12. NextPlace(name, b, o, place, b) = o
  BY DEF NextPlace
<1>13. \A i \in b..N : (i # b \/ b = N) => place[i] = NextPlace(name, b, o, place, i)
  <2> TAKE i \in b..N
  <2> HAVE i # b \/ b = N
  <2>1. i \in (b + 1)..N /\ i # b
    BY <1>1
  <2> QED
    BY <1>11, <2>1 DEF NextPlace
<1>14. b # N
  BY <1>1
<1> HIDE DEF N
<1>15. Stands(pkt, name, b, o, o + Len(Pointer(p)), b, place)
  BY <1>1, <1>7, <1>8, <1>9, <1>10, <1>11, <1>12, <1>13, <1>14 DEF Stands, N
<1> QED
  BY <1>15 DEF pkt, b, N

LEMMA TailLabelStands ==
    ASSUME NEW pkt \in Seq(Nat), NEW name \in Seq(Seq(0..127)),
           NEW n \in 1..Len(name), NEW o \in Nat, NEW rest \in Seq(Nat),
           Holds(pkt, o, LabelBytes(name[Len(name) - n + 1]) \o rest),
           \A q \in Nat : o <= q /\ Holds(pkt, q, rest) =>
              \E k, place : Stands(pkt, name, Len(name) - (n - 1), q, q + Len(rest), k, place)
    PROVE  \E k, place : Stands(pkt, name, Len(name) - n, o,
                                o + Len(LabelBytes(name[Len(name) - n + 1]) \o rest), k, place)
<1> DEFINE N == Len(name)
           b == N - n
           label == name[b + 1]
           l == Len(escape_label(label))
           q == o + 1 + l
           end == o + Len(LabelBytes(label) \o rest)
<1>1. /\ N \in Nat /\ n \in Nat /\ b \in Nat /\ b < N /\ N - (n - 1) = b + 1
      /\ b \in b..N /\ b + 1 \in b..N /\ b + 1 \in 1..N
      /\ \A i \in b..N : i # b => i \in (b + 1)..N
      /\ \A i \in (b + 1)..N : i # b /\ i - 1 \in b..N /\ i \in b..N
                               /\ (i # b + 1 => i - 1 # b /\ i \in (b + 1 + 1)..N)
      /\ N \in (b + 1)..N
  <2>1. N \in Nat /\ n \in Nat /\ n >= 1 /\ n <= N
    OBVIOUS
  <2> HIDE DEF N
  <2>2. b \in Nat /\ b < N /\ N - (n - 1) = b + 1
    BY <2>1
  <2> HIDE DEF b
  <2>3. /\ b \in b..N /\ b + 1 \in b..N /\ b + 1 \in 1..N /\ N \in (b + 1)..N
    BY <2>1, <2>2
  <2>4. \A i \in b..N : i # b => i \in (b + 1)..N
    BY <2>1, <2>2
  <2>5. \A i \in (b + 1)..N : i # b /\ i - 1 \in b..N /\ i \in b..N
    BY <2>1, <2>2
  <2>6. \A i \in (b + 1)..N : i # b + 1 => i - 1 # b /\ i \in (b + 1 + 1)..N
    BY <2>1, <2>2
  <2> QED
    BY <2>1, <2>2, <2>3, <2>4, <2>5, <2>6
<1>2. label \in Seq(0..127)
  BY <1>1, NameIs
<1> HIDE DEF b
<1>3. /\ LabelBytes(label) \in Seq(Nat) /\ l \in Nat /\ Len(LabelBytes(label)) = 1 + l
  <2> HIDE DEF label
  <2> QED
    BY <1>2, LabelBytesAre
<1>4. Holds(pkt, o, LabelBytes(label)) /\ Holds(pkt, o + Len(LabelBytes(label)), rest)
  <2>1. Holds(pkt, o, LabelBytes(label) \o rest)
    BY DEF b
  <2> HIDE DEF label
  <2> QED
    BY <1>3, <2>1, HoldsBoth
<1>5. LabelAt(pkt, o, label)
  <2> HIDE DEF label
  <2> QED
    BY <1>2, <1>4, HoldsLabel
<1>6. q \in Nat /\ o <= q /\ q = o + Len(LabelBytes(label)) /\ q + Len(rest) = end
  <2>1. Len(LabelBytes(label) \o rest) = Len(LabelBytes(label)) + Len(rest) /\ Len(rest) \in Nat
    <3> HIDE DEF label
    <3> QED
      BY <1>3, JoinIs
  <2> HIDE DEF label, l
  <2> QED
    BY <1>3, <2>1
<1> HIDE DEF q, l, label, end
<1>7. PICK k, old : Stands(pkt, name, b + 1, q, end, k, old)
  <2>1. \E k, place : Stands(pkt, name, Len(name) - (n - 1), q, q + Len(rest), k, place)
    BY <1>4, <1>6
  <2> QED
    BY <1>1, <1>6, <2>1
<1> DEFINE place == [i \in b..N |-> IF i = b THEN o ELSE old[i]]
<1>8. /\ k \in (b + 1)..N /\ old \in [(b + 1)..N -> Nat]
      /\ \A i \in (b + 1)..N : (i # k \/ k = N) => old[i] = NextPlace(name, b + 1, q, old, i)
      /\ \A i \in (b + 1 + 1)..N : LabelAt(pkt, old[i - 1], name[i])
      /\ old[N] < Len(pkt) /\ Byte(pkt, old[N]) = 0
      /\ k = N => end = old[N] + 1
      /\ k # N => /\ PointsTo(pkt, NextPlace(name, b + 1, q, old, k), old[k])
                  /\ end = NextPlace(name, b + 1, q, old, k) + 2
  BY <1>7 DEF Stands
<1>9. place \in [b..N -> Nat] /\ place[b] = o /\ \A i \in (b + 1)..N : place[i] = old[i]
  <2>1. \A i \in (b + 1)..N : old[i] \in Nat
    BY <1>8
  <2>2. place[b] = o
    BY <1>1
  <2>3. \A i \in (b + 1)..N : place[i] = old[i]
    BY <1>1
  <2>4. \A i \in b..N : (IF i = b THEN o ELSE old[i]) \in Nat
    BY <1>1, <2>1
  <2>5. place \in [b..N -> Nat]
    BY <2>4
  <2> QED
    BY <2>2, <2>3, <2>5
<1> HIDE DEF place
<1>10. \A i \in (b + 1)..N : NextPlace(name, b, o, place, i) = NextPlace(name, b + 1, q, old, i)
  <2> TAKE i \in (b + 1)..N
  <2>1. CASE i = b + 1
    <3>1. NextPlace(name, b, o, place, i) = place[b] + 1 + Len(escape_label(name[b + 1]))
      <4>1. i # b /\ i - 1 = b
        BY <1>1, <2>1
      <4> QED
        BY <2>1, <4>1 DEF NextPlace
    <3>2. NextPlace(name, b + 1, q, old, i) = q
      BY <2>1 DEF NextPlace
    <3> QED
      BY <1>9, <3>1, <3>2 DEF q, l, label
  <2>2. CASE i # b + 1
    <3>1. i # b /\ i - 1 \in (b + 1)..N
      BY <1>1, <2>2
    <3> QED
      BY <1>9, <2>2, <3>1 DEF NextPlace
  <2> QED
    BY <2>1, <2>2
<1>11. NextPlace(name, b, o, place, b) = o
  BY DEF NextPlace
<1>12. k \in b..N /\ k # b
  BY <1>1, <1>8
<1>13. \A i \in b..N : (i # k \/ k = N) => place[i] = NextPlace(name, b, o, place, i)
  <2> TAKE i \in b..N
  <2> HAVE i # k \/ k = N
  <2>1. CASE i = b
    BY <1>9, <1>11, <2>1
  <2>2. CASE i # b
    <3>1. i \in (b + 1)..N
      BY <1>1, <2>2
    <3> QED
      BY <1>8, <1>9, <1>10, <3>1
  <2> QED
    BY <2>1, <2>2
<1>14. \A i \in (b + 1)..N : LabelAt(pkt, place[i - 1], name[i])
  <2> TAKE i \in (b + 1)..N
  <2>1. CASE i = b + 1
    <3>1. i - 1 = b
      BY <1>1, <2>1
    <3> QED
      BY <1>5, <1>9, <2>1, <3>1 DEF label
  <2>2. CASE i # b + 1
    <3>1. i - 1 \in (b + 1)..N /\ i \in (b + 1 + 1)..N
      BY <1>1, <2>2
    <3> QED
      BY <1>8, <1>9, <3>1
  <2> QED
    BY <2>1, <2>2
<1>15. place[N] = old[N] /\ place[k] = old[k] /\ NextPlace(name, b, o, place, k) = NextPlace(name, b + 1, q, old, k)
  BY <1>1, <1>8, <1>9, <1>10
<1> HIDE DEF N
<1>16. Stands(pkt, name, b, o, end, k, place)
  BY <1>8, <1>9, <1>12, <1>13, <1>14, <1>15 DEF Stands, N
<1> QED
  BY <1>16 DEF b, N, end, label

\* The form of a name that is appended to a message stands there.
LEMMA CompressedStands ==
    ASSUME NEW buffer \in Seq(Nat), NEW map, MapSound(map, buffer), NEW name \in Seq(Seq(0..127))
    PROVE  /\ Compressed(map, name) \in Seq(Nat)
           /\ \E k, place : Stands(buffer \o Compressed(map, name), name, 0, Len(buffer),
                                   Len(buffer) + Len(Compressed(map, name)), k, place)
<1> DEFINE N == Len(name)
           more == Compressed(map, name)
           pkt == buffer \o more
<1>1. PICK f :
         /\ more = f[N]
         /\ \A n \in 0..N : f[n] \in Seq(Nat)
         /\ f[0] = <<0>>
         /\ \A n \in 1..N :
               \/ \E e \in map : /\ e[1] = encode_labels_to_wire(LastLabels(name, n))
                                 /\ e[2] <= PointerLimit /\ e[2] \in Nat /\ f[n] = Pointer(e[2])
               \/ f[n] = LabelBytes(name[N - n + 1]) \o f[n - 1]
  <2>1. \A e \in map : e[2] \in Nat
    BY DEF MapSound
  <2> QED
    BY <2>1, FormIs
<1>2. /\ N \in Nat /\ 0 \in 0..N /\ N \in 0..N /\ N - 0 = N /\ N - N = 0
      /\ \A n \in 0..N : n # 0 => n \in 1..N /\ n - 1 \in 0..N /\ ~(n <= n - 1)
  OBVIOUS
<1> DEFINE P(n) == \A o \in Nat : Len(buffer) <= o /\ Holds(pkt, o, f[n]) =>
                      \E k, place : Stands(pkt, name, N - n, o, o + Len(f[n]), k, place)
           Bad == {n \in 0..N : ~P(n)}
<1> HIDE DEF more
<1>3. more \in Seq(Nat) /\ pkt \in Seq(Nat) /\ Len(buffer) \in Nat /\ Holds(pkt, Len(buffer), more)
  <2>1. more \in Seq(Nat)
    BY <1>1, <1>2
  <2> QED
    BY <2>1, JoinIs, HoldsHere
<1> HIDE DEF pkt
<1>4. P(0)
  <2> TAKE o \in Nat
  <2> HAVE Len(buffer) <= o /\ Holds(pkt, o, f[0])
  <2>1. f[0] = LastByte
    BY <1>1 DEF LastByte
  <2>2. \E place : Stands(pkt, name, N, o, o + Len(LastByte), N, place)
    BY <1>3, <2>1, TailZeroStands
  <2> QED
    BY <1>2, <2>1, <2>2
<1>5. ASSUME NEW n \in 1..N, P(n - 1)
      PROVE  P(n)
  <2> SUFFICES ASSUME NEW o \in Nat, Len(buffer) <= o, Holds(pkt, o, f[n])
               PROVE  \E k, place : Stands(pkt, name, N - n, o, o + Len(f[n]), k, place)
    OBVIOUS
  <2>1. CASE \E e \in map : /\ e[1] = encode_labels_to_wire(LastLabels(name, n))
                            /\ e[2] <= PointerLimit /\ e[2] \in Nat /\ f[n] = Pointer(e[2])
    <3>1. PICK e \in map : /\ e[1] = encode_labels_to_wire(LastLabels(name, n))
                           /\ e[2] <= PointerLimit /\ e[2] \in Nat /\ f[n] = Pointer(e[2])
      BY <2>1
    <3>2. Holds(buffer, e[2], encode_labels_to_wire(LastLabels(name, n)))
      BY <3>1 DEF MapSound
    <3>3. Holds(buffer \o more, o, Pointer(e[2]))
      BY <3>1 DEF pkt
    <3>4. \E place : Stands(buffer \o more, name, N - n, o, o + Len(Pointer(e[2])), N - n, place)
      BY <1>3, <3>1, <3>2, <3>3, TailPointerStands
    <3> QED
      BY <3>1, <3>4 DEF pkt
  <2>2. CASE f[n] = LabelBytes(name[N - n + 1]) \o f[n - 1]
    <3>1. f[n - 1] \in Seq(Nat)
      <4>1. n - 1 \in 0..N
        BY <1>2
      <4> QED
        BY <1>1, <4>1
    <3>2. Holds(pkt, o, LabelBytes(name[N - n + 1]) \o f[n - 1])
      BY <2>2
    <3>3. \A q \in Nat : o <= q /\ Holds(pkt, q, f[n - 1]) =>
             \E k, place : Stands(pkt, name, N - (n - 1), q, q + Len(f[n - 1]), k, place)
      <4> TAKE q \in Nat
      <4> HAVE o <= q /\ Holds(pkt, q, f[n - 1])
      <4>1. Len(buffer) <= q
        BY <1>3
      <4> QED
        BY <1>5, <4>1
    <3>4. \E k, place : Stands(pkt, name, N - n, o, o + Len(LabelBytes(name[N - n + 1]) \o f[n - 1]), k, place)
      <4> HIDE DEF P
      <4> QED
        BY <1>3, <3>1, <3>2, <3>3, TailLabelStands
    <3> QED
      BY <2>2, <3>4
  <2> QED
    BY <1>1, <2>1, <2>2
<1> HIDE DEF P
<1>6. Bad = {}
  <2> SUFFICES ASSUME Bad # {} PROVE FALSE
    OBVIOUS
  <2>1. PICK n \in Bad : \A j \in Bad : n <= j
    <3>1. Bad \in SUBSET Nat
      OBVIOUS
    <3> HIDE DEF Bad
    <3> QED
      BY <3>1, HasLeast
  <2>2. n \in 0..N /\ ~P(n)
    OBVIOUS
  <2>3. n # 0
    BY <1>4, <2>2
  <2>4. n \in 1..N /\ n - 1 \in 0..N /\ ~(n <= n - 1)
    BY <1>2, <2>2, <2>3
  <2>5. P(n - 1)
    <3>1. n - 1 \notin Bad
      <4> HIDE DEF Bad
      <4> QED
        BY <2>1, <2>4
    <3> QED
      BY <2>4, <3>1
  <2> QED
    BY <1>5, <2>2, <2>4, <2>5
<1>7. P(N)
  BY <1>2, <1>6
<1>8. Holds(pkt, Len(buffer), f[N])
  BY <1>1, <1>3
<1>9. \E k, place : Stands(pkt, name, N - N, Len(buffer), Len(buffer) + Len(f[N]), k, place)
  <2>1. Len(buffer) <= Len(buffer)
    BY <1>3
  <2> HIDE DEF N
  <2> QED
    BY <1>3, <1>7, <1>8, <2>1 DEF P
<1>10. \E k, place : Stands(pkt, name, 0, Len(buffer), Len(buffer) + Len(more), k, place)
  BY <1>1, <1>2, <1>9
<1> QED
  BY <1>3, <1>10 DEF pkt, more

LEMMA LabelStays ==
    ASSUME NEW pkt \in Seq(Nat), NEW more \in Seq(Nat), NEW o \in Nat, NEW label \in Seq(0..127),
           LabelAt(pkt, o, label)
    PROVE  LabelAt(pkt \o more, o, label)
<1> DEFINE e == escape_label(label)
<1>1. e \in Seq(Nat) /\ Len(e) \in Nat
  <2>1. e \in Seq(Nat)
    BY EscapesUndone
  <2> HIDE DEF e
  <2> QED
    BY <2>1
<1>2. /\ Byte(pkt, o) = Len(e) /\ o + 1 + Len(e) <= Len(pkt)
      /\ \A j \in 1..Len(e) : pkt[o + 1 + j] = e[j]
  BY DEF LabelAt
<1> HIDE DEF e
<1>3. Len(pkt \o more) = Len(pkt) + Len(more) /\ Len(pkt) \in Nat /\ Len(more) \in Nat
      /\ \A i \in 1..Len(pkt) : (pkt \o more)[i] = pkt[i]
  BY JoinIs
<1>4. o < Len(pkt) /\ \A j \in 1..Len(e) : o + 1 + j \in 1..Len(pkt)
  BY <1>1, <1>2, <1>3
<1>5. Byte(pkt \o more, o) = Len(e)
  BY <1>2, <1>4, ByteStays
<1>6. o + 1 + Len(e) <= Len(pkt \o more)
  BY <1>1, <1>2, <1>3
<1>7. \A j \in 1..Len(e) : (pkt \o more)[o + 1 + j] = e[j]
  BY <1>2, <1>3, <1>4
<1> QED
  BY <1>5, <1>6, <1>7 DEF LabelAt, e

LEMMA PointerStays ==
    ASSUME NEW pkt \in Seq(Nat), NEW more \in Seq(Nat), NEW o \in Nat, NEW p, PointsTo(pkt, o, p)
    PROVE  PointsTo(pkt \o more, o, p)
<1>1. o + 1 < Len(pkt) /\ IsPointer(Byte(pkt, o)) /\ Target(pkt, o) = p /\ p < o
  BY DEF PointsTo
<1>2. o < Len(pkt) /\ o + 1 \in Nat
  BY <1>1
<1>3. Byte(pkt \o more, o) = Byte(pkt, o)
  BY <1>2, ByteStays
<1>4. Byte(pkt \o more, o + 1) = Byte(pkt, o + 1) /\ o + 1 < Len(pkt \o more)
  BY <1>1, <1>2, ByteStays
<1> QED
  BY <1>1, <1>3, <1>4 DEF PointsTo, Target

\* What stands in a message still does when more is written.
LEMMA StandsStays ==
    ASSUME NEW pkt \in Seq(Nat), NEW more \in Seq(Nat), NEW name \in Seq(Seq(0..127)), NEW at \in Nat,
           NEW end, NEW k, NEW place, Stands(pkt, name, 0, at, end, k, place)
    PROVE  Stands(pkt \o more, name, 0, at, end, k, place)
<1> DEFINE N == Len(name)
           far == pkt \o more
<1>1. /\ k \in 0..N /\ place \in [0..N -> Nat]
      /\ \A i \in 0..N : (i # k \/ k = N) => place[i] = NextPlace(name, 0, at, place, i)
      /\ \A i \in (0 + 1)..N : LabelAt(pkt, place[i - 1], name[i])
      /\ place[N] < Len(pkt) /\ Byte(pkt, place[N]) = 0
      /\ k = N => end = place[N] + 1
      /\ k # N => /\ PointsTo(pkt, NextPlace(name, 0, at, place, k), place[k])
                  /\ end = NextPlace(name, 0, at, place, k) + 2
  BY DEF Stands
<1>2. N \in Nat /\ N \in 0..N /\ 0 \in Nat /\ \A i \in (0 + 1)..N : i - 1 \in 0..N /\ i \in 1..N
  OBVIOUS
<1>3. \A i \in 0..N : place[i] \in Nat
  BY <1>1
<1>4. \A i \in (0 + 1)..N : LabelAt(far, place[i - 1], name[i])
  <2> TAKE i \in (0 + 1)..N
  <2>1. place[i - 1] \in Nat /\ name[i] \in Seq(0..127)
    BY <1>2, <1>3, NameIs
  <2> QED
    BY <1>1, <2>1, LabelStays
<1>5. place[N] < Len(far) /\ Byte(far, place[N]) = 0
  BY <1>1, <1>2, <1>3, ByteStays
<1>6. NextPlace(name, 0, at, place, k) \in Nat
  BY <1>1, <1>2, NextTyped
<1>7. k # N => PointsTo(far, NextPlace(name, 0, at, place, k), place[k])
  <2> HAVE k # N
  <2> QED
    BY <1>1, <1>6, PointerStays
<1> HIDE DEF far
<1> QED
  BY <1>1, <1>4, <1>5, <1>7 DEF Stands, far

LEMMA MapStays ==
    ASSUME NEW buffer \in Seq(Nat), NEW more \in Seq(Nat), NEW map, MapSound(map, buffer)
    PROVE  MapSound(map, buffer \o more)
  BY HoldsStays DEF MapSound

\* A tail of bytes that are appended is where add_name says.
LEMMA TailHolds ==
    ASSUME NEW buffer \in Seq(Nat), NEW bytes \in Seq(Nat), NEW p \in 0..(Len(bytes) - 1)
    PROVE  /\ SubSeq(bytes, p + 1, Len(bytes)) \in Seq(Nat) /\ Len(buffer) + p \in Nat
           /\ Holds(buffer \o bytes, Len(buffer) + p, SubSeq(bytes, p + 1, Len(bytes)))
<1> DEFINE n == Len(bytes)
           tail == SubSeq(bytes, p + 1, n)
           b == Len(buffer)
<1>1. n \in Nat /\ b \in Nat /\ p \in Nat /\ p + 1 \in 1..n /\ n - p \in Nat /\ b + p \in Nat
  OBVIOUS
<1>2. /\ tail \in Seq(Nat) /\ Len(tail) = n - p
      /\ \A i \in 1..(n - p) : tail[i] = bytes[p + i]
  <2> DEFINE m == n - p
  <2>1. m \in Nat /\ p + m = n /\ p + m <= Len(bytes)
    BY <1>1
  <2> HIDE DEF m, n
  <2>2. /\ SubSeq(bytes, p + 1, p + m) \in Seq(Nat) /\ Len(SubSeq(bytes, p + 1, p + m)) = m
        /\ \A i \in 1..m : SubSeq(bytes, p + 1, p + m)[i] = bytes[p + i]
    BY <1>1, <2>1, SliceIs
  <2> QED
    BY <2>1, <2>2 DEF m
<1>3. Len(buffer \o bytes) = b + n /\ \A i \in 1..n : (buffer \o bytes)[b + i] = bytes[i]
  BY JoinIs
<1> HIDE DEF tail, n, b
<1>4. b + p + Len(tail) <= b + n
  BY <1>1, <1>2, SMTT(30)
<1>5. \A i \in 1..Len(tail) : (buffer \o bytes)[b + p + i] = tail[i]
  <2> TAKE i \in 1..Len(tail)
  <2>1. i \in 1..(n - p) /\ p + i \in 1..n /\ b + (p + i) = b + p + i
    BY <1>1, <1>2
  <2>2. (buffer \o bytes)[b + (p + i)] = bytes[p + i]
    BY <1>3, <2>1
  <2> QED
    BY <1>2, <2>1, <2>2
<1>6. Holds(buffer \o bytes, b + p, tail)
  BY <1>3, <1>4, <1>5 DEF Holds
<1> QED
  BY <1>1, <1>2, <1>6 DEF tail, n, b

LEMMA AddSound ==
    ASSUME NEW buffer \in Seq(Nat), NEW bytes \in Seq(Nat), NEW map, MapSound(map, buffer)
    PROVE  MapSound(add_name(map, bytes, Len(buffer)), buffer \o bytes)
<1> DEFINE far == buffer \o bytes
           tails == {<<SubSeq(bytes, p + 1, Len(bytes)), Len(buffer) + p>> : p \in LabelStarts(bytes)}
<1>1. \A e \in map : e[1] \in Seq(Nat) /\ e[2] \in Nat /\ Holds(far, e[2], e[1])
  BY MapStays DEF MapSound
<1>2. \A e \in tails : e[1] \in Seq(Nat) /\ e[2] \in Nat /\ Holds(far, e[2], e[1])
  <2> TAKE e \in tails
  <2>1. PICK p \in LabelStarts(bytes) : e = <<SubSeq(bytes, p + 1, Len(bytes)), Len(buffer) + p>>
    OBVIOUS
  <2>2. p \in 0..(Len(bytes) - 1)
    BY DEF LabelStarts
  <2> QED
    BY <2>1, <2>2, TailHolds
<1> HIDE DEF tails, far
<1>3. add_name(map, bytes, Len(buffer)) = {e \in map : \A t \in tails : t[1] # e[1]} \cup tails
  BY DEF add_name, tails
<1> QED
  BY <1>1, <1>2, <1>3 DEF MapSound, far

-----------------------------------------------------------------------------
(* What is true of the message and the packet *)

\* A name of the message stands where the record of it says.
Written(w, buffer) ==
    /\ w.name \in Names /\ w.at \in Nat
    /\ \E k, place : Stands(buffer, w.name, 0, w.at, w.end, k, place)

WireInv ==
    /\ packet \in Seq(Nat) /\ message.buffer \in Seq(Nat)
    /\ MapSound(message.map, message.buffer)
    /\ \A w \in message.written : Written(w, message.buffer)

LEMMA BytesTyped ==
    ASSUME NEW bytes \in Seq(0..255)
    PROVE  bytes \in Seq(Nat)
<1> DEFINE n == 255
<1>1. n \in Nat /\ bytes \in Seq(0..n)
  OBVIOUS
<1> HIDE DEF n
<1> QED
  BY <1>1, NarrowIs

LEMMA WireInvInit == WireInit => WireInv
<1> SUFFICES ASSUME WireInit PROVE WireInv
  OBVIOUS
<1>1. packet = <<>> /\ message = NewMessage
  BY DEF WireInit
<1>2. message.buffer = [i \in 1..HeaderLength |-> 0] /\ message.map = {} /\ message.written = {}
  BY <1>1 DEF NewMessage
<1>3. HeaderLength \in Nat
  BY WireAssumption
<1>4. message.buffer \in Seq(Nat) /\ packet \in Seq(Nat)
  BY <1>1, <1>2, <1>3
<1> QED
  BY <1>2, <1>4 DEF WireInv, MapSound

LEMMA WireInvNext == WireInv /\ [WireNext]_wire => WireInv'
<1> SUFFICES ASSUME WireInv, [WireNext]_wire PROVE WireInv'
  OBVIOUS
<1> DEFINE buffer == message.buffer
<1>1. /\ packet \in Seq(Nat) /\ buffer \in Seq(Nat) /\ MapSound(message.map, buffer)
      /\ \A w \in message.written : Written(w, buffer)
  BY DEF WireInv
<1>2. ASSUME NEW name \in Names, Write(name)
      PROVE  WireInv'
  <2> DEFINE bytes == Compressed(message.map, name)
             new == [name |-> name, at |-> Len(buffer), end |-> Len(buffer) + Len(bytes)]
             map == IF name = <<>> \/ IsPointer(bytes[1]) THEN message.map
                    ELSE add_name(message.map, bytes, Len(buffer))
  <2>1. packet' = packet /\ message' = compress_name(message, name)
    BY <1>2 DEF Write
  <2>2. message'.buffer = buffer \o bytes /\ message'.map = map /\ message'.written = message.written \cup {new}
    BY <2>1 DEF compress_name
  <2>3. name \in Seq(Seq(0..127))
    BY WireAssumption
  <2>4. bytes \in Seq(Nat) /\ Len(buffer) \in Nat
        /\ \E k, place : Stands(buffer \o bytes, name, 0, Len(buffer), Len(buffer) + Len(bytes), k, place)
    <3>1. MapSound(message.map, buffer) /\ buffer \in Seq(Nat)
      BY <1>1
    <3>2. Len(buffer) \in Nat
      <4> HIDE DEF buffer
      <4> QED
        BY <3>1
    <3> HIDE DEF buffer
    <3> QED
      BY <2>3, <3>1, <3>2, CompressedStands
  <2>5. new.name = name /\ new.at = Len(buffer) /\ new.end = Len(buffer) + Len(bytes)
    OBVIOUS
  <2> HIDE DEF bytes, new, buffer
  <2>6. buffer \o bytes \in Seq(Nat)
    BY <1>1, <2>4, JoinIs
  <2>7. MapSound(map, buffer \o bytes)
    <3>1. MapSound(message.map, buffer \o bytes)
      BY <1>1, <2>4, MapStays
    <3>2. MapSound(add_name(message.map, bytes, Len(buffer)), buffer \o bytes)
      BY <1>1, <2>4, AddSound
    <3> QED
      BY <3>1, <3>2
  <2>8. Written(new, buffer \o bytes)
    BY <2>4, <2>5 DEF Written
  <2>9. \A w \in message.written : Written(w, buffer \o bytes)
    <3> TAKE w \in message.written
    <3>1. w.name \in Names /\ w.at \in Nat
      BY <1>1 DEF Written
    <3>2. PICK k, place : Stands(buffer, w.name, 0, w.at, w.end, k, place)
      BY <1>1 DEF Written
    <3>3. w.name \in Seq(Seq(0..127))
      BY <3>1, WireAssumption
    <3>4. Stands(buffer \o bytes, w.name, 0, w.at, w.end, k, place)
      BY <1>1, <2>4, <3>1, <3>2, <3>3, StandsStays
    <3> QED
      BY <3>1, <3>4 DEF Written
  <2> HIDE DEF map
  <2>10. \A w \in message'.written : Written(w, buffer \o bytes)
    BY <2>2, <2>8, <2>9
  <2> QED
    BY <1>1, <2>1, <2>2, <2>6, <2>7, <2>10 DEF WireInv
<1>3. ASSUME NEW bytes \in Packets, Receive(bytes)
      PROVE  WireInv'
  <2>1. packet' = bytes /\ message' = message
    BY <1>3 DEF Receive
  <2>2. bytes \in Seq(0..255)
    BY WireAssumption
  <2>3. bytes \in Seq(Nat)
    BY <2>2, BytesTyped
  <2> QED
    BY <1>1, <2>1, <2>3 DEF WireInv
<1>4. CASE UNCHANGED wire
  BY <1>1, <1>4 DEF wire, WireInv
<1> QED
  BY <1>2, <1>3, <1>4 DEF WireNext

\* In every message compress_name writes, each name stands where the first byte of it
\* was put, as labels or as labels and one pointer back to such labels, and each entry
\* of the compression map is the offset of the very bytes it is the key of; that holds
\* for names that do not fit as well.
THEOREM WireInvariant == WireSpec => []WireInv
<1>1. WireInit => WireInv
  BY WireInvInit
<1>2. WireInv /\ [WireNext]_wire => WireInv'
  BY WireInvNext
<1> QED
  BY <1>1, <1>2, PTL DEF WireSpec

LEMMA WireInvRight == WireInv => WireIsRight
<1> SUFFICES ASSUME WireInv PROVE WireIsRight
  OBVIOUS
<1>1. /\ packet \in Seq(Nat) /\ message.buffer \in Seq(Nat)
      /\ \A w \in message.written : Written(w, message.buffer)
  BY DEF WireInv
<1>2. NamesReadBack
  <2> SUFFICES ASSUME NEW w \in message.written, Fits(w.name)
               PROVE  /\ decompress_name(message.buffer, w.at) = <<"ok", w.name, w.end>>
                      /\ validate_name_at_offset(message.buffer, w.at) = <<"ok", <<>>, w.end>>
    BY DEF NamesReadBack
  <2>1. w.name \in Names /\ w.at \in Nat
    BY <1>1 DEF Written
  <2>2. PICK k, place : Stands(message.buffer, w.name, 0, w.at, w.end, k, place)
    BY <1>1 DEF Written
  <2>3. w.name \in Seq(Seq(0..127))
    BY <2>1, WireAssumption
  <2>4. decompress_name(message.buffer, w.at) = <<"ok", w.name, w.end>>
    BY <1>1, <2>1, <2>2, <2>3, QuestionStands
  <2>5. validate_name_at_offset(message.buffer, w.at) = <<"ok", <<>>, w.end>>
    BY <1>1, <2>1, <2>2, <2>3, ValidStands
  <2> QED
    BY <2>4, <2>5
<1>3. ReadersAgree
  BY <1>1, AgreeAt, Zenon DEF ReadersAgree
<1> QED
  BY <1>2, <1>3 DEF WireIsRight

\* WireIsRight in every behaviour: whatever names a message holds and wherever they
\* land, decompress_name reads each name that fits back as it was written, and the two
\* readers and the validator agree on every packet.
THEOREM WireStaysRight == WireSpec => []WireIsRight
<1>1. WireInv => WireIsRight
  BY WireInvRight
<1> QED
  BY <1>1, WireInvariant, PTL

=============================================================================
