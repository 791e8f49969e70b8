----------------------------- MODULE MCDnsCache -----------------------------
(***************************************************************************)
(* The DNS cache on a small instance, with a history variable that records *)
(* in which order callers used the keys.                                   *)
(***************************************************************************)
EXTENDS DnsCache, TLC

VARIABLE usedAfter   \* <<a, b>>: the last use of a is later than that of b

mcVars == <<vars, usedAfter>>

\* A use of a key is a lookup that hit it or an insertion under it.
JustUsed ==
    IF stats'.hits > stats.hits \/ stats'.insertions > stats.insertions
    THEN {ret'.key} ELSE {}

MCInit == Init /\ usedAfter = {}

MCNext ==
    /\ Next
    /\ usedAfter' = {p \in usedAfter : p[2] \notin JustUsed}
                       \cup {<<k, x>> : k \in JustUsed, x \in Key \ JustUsed}

MCSpec == MCInit /\ [][MCNext]_mcVars

\* Whatever evict_lru removes, on its own or for insert, is the record no
\* caller has used for the longest time: a lookup by name or by address
\* counts as a use, not only an insertion.
EvictsLeastRecentlyUsed ==
    [][stats'.evictions > stats.evictions =>
          \A gone \in Cached(entries) \ Cached(entries') :
             \A k \in Cached(entries) \ {gone} : <<k, gone>> \in usedAfter]_mcVars

Symmetric == Permutations(Key)

=============================================================================
