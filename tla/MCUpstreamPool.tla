--------------------------- MODULE MCUpstreamPool ---------------------------
(***************************************************************************)
(* The upstream pool on a small instance, with its routes looked up by     *)
(* DomainMatcher: a domain inside another one, a name of both and a name   *)
(* of the outer one only.  The lookups themselves are checked on all       *)
(* tables and lists of zones of a small size, and the patterns of host     *)
(* names on texts as they are entered.  The pool, the tables and the text  *)
(* share no state, so each is explored while the others are where they     *)
(* started.                                                                *)
(***************************************************************************)
EXTENDS UpstreamPool, DomainMatcher, NamePatterns

Upto(S, n) == UNION {[1..k -> S] : k \in 0..n}

\* Routes
MCName == {<<"x", "corp">>, <<"y", "corp">>}
MCPattern == {<<"corp">>, <<"x", "corp">>}
MCLookups(n) == {at \in Positions(n) : IsTried(n, at) /\ Candidate(n, at) \in Pattern}
MCChain == [n \in Name |->
    LET order == SetToSortSeq(MCLookups(n), Earlier)
    IN [i \in DOMAIN order |-> Candidate(n, order[i])]]

\* Patterns of one to three labels
MCLabel == {"a", "b"}
MCQuery == (Upto(MCLabel, 3) \ {<<>>}) \cup {<<"*", "a">>}
MCPatterns == (Upto(MCLabel, 2) \ {<<>>})
                 \cup {<<"*">> \o s : s \in Upto(MCLabel, 2)} \cup {<<"a", "b", "a">>}
MCLabelSize == [label \in {"a", "b", "*"} |-> IF label = "b" THEN 5 ELSE 1]
MCZones == Upto(MCLabel, 2) \ {<<>>}

\* Host names
MCLetterOf == [c \in {"a", "A", "b"} |-> IF c = "b" THEN "B" ELSE "A"]
MCAlphabet == {"a", "b", "1", "-", ".", "*", "_"}
MCShapes == Upto({"a", "1", "-", ".", "*"}, 6) \cup Upto({"a", "b", "*"}, 5)
               \cup Upto({"a", ".", "_"}, 4) \cup Upto({"a", "."}, 8)
               \cup {s \o SubSeq(<<".", "a", ".", "a">>, 1, k) : s \in Upto({"a", "*"}, 5), k \in 1..4}
MCTexts == {text \in MCShapes : Len(text) <= 9}
MCGlobValues == Upto({"a", "A", "b"}, 4)
MCLocalLabel == <<"A", "A">>

others == <<routes, entered>>

MCInit == PoolInit /\ patterns = {} /\ zones = <<>> /\ entered = <<>>

MCNext ==
    \/ NoRoutes /\ entered = <<>> /\ PoolNext /\ UNCHANGED others
    \/ /\ PoolInit /\ entered = <<>> /\ UNCHANGED <<pool, entered>>
       /\ \/ zones = <<>> /\ ((\E p \in Patterns : add_pattern(p)) \/ clear)
          \/ patterns = {} /\ \E z \in Zones : add_zone(z)
    \/ PoolInit /\ NoRoutes /\ (\E c \in MCAlphabet : Type(c)) /\ UNCHANGED <<pool, routes>>

MCSpec == MCInit /\ [][MCNext]_<<pool, others>>

=============================================================================
