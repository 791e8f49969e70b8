---------------------------- MODULE DomainMatcher ----------------------------
(***************************************************************************)
(* Which configured domain a query name belongs to: the patterns of        *)
(* DomainMatcher, src/src/dns/matcher.rs, and the zones of AuthService,    *)
(* src/src/dns/auth.rs, with is_subdomain_of of dns/protocol/name.rs.      *)
(*                                                                         *)
(* A name is the sequence of its labels, in lower case: patterns and       *)
(* queries are lowered before they are compared.  has_wildcards is set     *)
(* when a pattern of the table is a wildcard; the servers registered for a *)
(* pattern are in UpstreamPool.                                            *)
(***************************************************************************)
EXTENDS Naturals, Sequences, SequencesExt, FiniteSets

CONSTANTS
    Wildcard,   \* the label "*"
    LabelSize,  \* the number of characters of each label
    Query,      \* query names
    Patterns,   \* patterns that may be added
    Zones,      \* zones that may be configured
    MaxPatterns, MaxZones  \* bounds: how many of each

ASSUME LabelAssumption ==
    /\ \A label \in DOMAIN LabelSize : LabelSize[label] \in Nat \ {0}
    /\ MaxPatterns \in Nat /\ MaxZones \in Nat

\* Nobody configures the root as a pattern or a zone.
ASSUME NameAssumption ==
    /\ Query \subseteq Seq(DOMAIN LabelSize)
    /\ (Patterns \cup Zones) \subseteq Seq(DOMAIN LabelSize) \ {<<>>}

VARIABLES
    patterns,  \* DomainMatcher::patterns: the patterns that were added
    zones      \* AuthService::zones, in the order of the configuration

routes == <<patterns, zones>>

\* query_labels[start_idx..], counted from 1
From(name, i) == SubSeq(name, i, Len(name))

\* domain_str.starts_with("*.")
IsWildcard(pattern) == Len(pattern) > 1 /\ Head(pattern) = Wildcard

-----------------------------------------------------------------------------
(* DomainMatcher *)

\* A query is looked up under its tails, from the longest, and under the wildcard
\* over each: a position is the label where the tail starts and the number of
\* wildcard labels before it.
Positions(query) == (1..Len(query)) \X (0..1)

Candidate(query, at) ==
    IF at[2] = 1 THEN <<Wildcard>> \o From(query, at[1]) ELSE From(query, at[1])

Earlier(a, b) == a[1] < b[1] \/ (a[1] = b[1] /\ a[2] < b[2])

IsTried_SelfToo(query, at) == at[2] = 1 \/ ~IsWildcard(Candidate(query, at))

\* A wildcard does not stand for the name itself.
IsTried(query, at) == IF at[2] = 1 THEN at[1] > 1 ELSE ~IsWildcard(Candidate(query, at))

Hits(query) == {at \in Positions(query) : IsTried(query, at) /\ Candidate(query, at) \in patterns}

\* The first one; none is <<>>.
find_longest_match(query) ==
    LET hits == Hits(query)
    IN IF hits = {} THEN <<>>
       ELSE Candidate(query, CHOOSE at \in hits : \A b \in hits : b = at \/ Earlier(at, b))

\* Vec::sort_by keeps patterns with the same number of labels in their order.
Before(query, a, b) ==
    LET labels(at) == Len(Candidate(query, at))
    IN labels(b) < labels(a) \/ (labels(a) = labels(b) /\ Earlier(a, b))

find_all_matches(query) ==
    LET hits == Hits(query)
        order == CHOOSE s \in [1..Cardinality(hits) -> hits] :
                    \A i, j \in DOMAIN s : i < j => Before(query, s[i], s[j])
    IN [i \in 1..Cardinality(hits) |-> Candidate(query, order[i])]

-----------------------------------------------------------------------------
(* Zones *)

is_subdomain_of(name, parent) ==
    Len(name) > Len(parent) /\ From(name, Len(name) - Len(parent) + 1) = parent

\* AuthoritativeZone::is_match
is_match(zone, name) == name = zone \/ is_subdomain_of(name, zone)

\* domain.len(), the length of its text: of its last labels, one more at each step,
\* with a dot between them.
TextLength(name) ==
    LET length[k \in 0..Len(name)] ==
            IF k = 0 THEN 0 ELSE length[k - 1] + LabelSize[name[Len(name) + 1 - k]] + 1
    IN length[Len(name)] - 1

\* The index of the zone: max_by_key returns the last of the longest; 0 is None.
find_zone(name) ==
    LET matching == {i \in DOMAIN zones : is_match(zones[i], name)}
        longest == {i \in matching : \A j \in matching : TextLength(zones[j]) <= TextLength(zones[i])}
    IN IF matching = {} THEN 0 ELSE CHOOSE i \in longest : \A j \in longest : j <= i

-----------------------------------------------------------------------------
(* Configuration *)

NoRoutes == patterns = {} /\ zones = <<>>

add_pattern(p) ==
    /\ Cardinality(patterns) < MaxPatterns
    /\ patterns' = patterns \cup {p}
    /\ UNCHANGED zones

clear ==
    /\ patterns' = {}
    /\ UNCHANGED zones

\* AuthService::new takes the zones of the configuration as they come.
add_zone(z) ==
    /\ Len(zones) < MaxZones
    /\ zones' = Append(zones, z)
    /\ UNCHANGED patterns

RoutesNext == (\E p \in Patterns : add_pattern(p)) \/ clear \/ \E z \in Zones : add_zone(z)

RoutesSpec == NoRoutes /\ [][RoutesNext]_routes

-----------------------------------------------------------------------------
(* Properties *)

\* The names a pattern stands for: "d" for d and everything below it, "*.d" for
\* what is below d.
Covers(pattern, name) ==
    IF IsWildcard(pattern) THEN is_subdomain_of(name, Tail(pattern))
    ELSE is_match(pattern, name)

\* The labels of a pattern that are compared.
Fixed(pattern) == IF IsWildcard(pattern) THEN Tail(pattern) ELSE pattern

\* Label-by-label lookup finds what the meaning of patterns says, for every query: a pattern that covers the name when there is one, and no other that
\* covers it compares more labels; between "d" and "*.d" it takes "d".
LongestMatchWins ==
    \A query \in Query :
        LET best == find_longest_match(query)
            covering == {p \in patterns : Covers(p, query)}
        IN IF covering = {} THEN best = <<>>
           ELSE /\ best \in covering
                /\ \A p \in covering : \/ Len(Fixed(p)) < Len(Fixed(best))
                                       \/ Fixed(p) = Fixed(best) /\ ~IsWildcard(best)
                                       \/ p = best

\* find_all_matches returns each covering pattern once, in the order of their
\* numbers of labels, and the two lookups prefer different patterns only between
\* "d", which find_longest_match returns, and "*.d", which has one label more.
MatchersAgree ==
    \A query \in Query :
        LET all == find_all_matches(query)
            best == find_longest_match(query)
        IN /\ ToSet(all) = {p \in patterns : Covers(p, query)}
           /\ IsInjective(all)
           /\ \A i \in 1..(Len(all) - 1) : Len(all[i + 1]) <= Len(all[i])
           /\ all # <<>> => Head(all) \in {best, <<Wildcard>> \o best}

\* find_zone compares lengths of text, which is the same as taking the innermost
\* zone that contains the name, and the last of those that are configured twice.
InnermostZone ==
    \A query \in Query :
        LET i == find_zone(query)
        IN IF i = 0 THEN \A j \in DOMAIN zones : ~is_match(zones[j], query)
           ELSE /\ is_match(zones[i], query)
                /\ \A j \in DOMAIN zones :
                      is_match(zones[j], query) => /\ is_match(zones[j], zones[i])
                                                   /\ j > i => zones[j] # zones[i]

\* Patterns and zones are found as they are meant.
LookupsAreRight == ~NoRoutes => LongestMatchWins /\ MatchersAgree /\ InnermostZone

=============================================================================
