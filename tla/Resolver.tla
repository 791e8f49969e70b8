------------------------------ MODULE Resolver ------------------------------
(***************************************************************************)
(* The path a DNS query takes in the running daemon: the event loop spawns *)
(* a task per query (src/src/runtime/event_loop.rs), which resolves it     *)
(* with DnsService::resolve_query (src/src/dns/mod.rs) and                 *)
(* DnsForwarder::forward_query_and_wait (src/src/dns/forwarder.rs).  Tasks *)
(* share the upstream pool, here the module UpstreamPool itself, and the   *)
(* cache, here what it stores under a key and until when, with room for    *)
(* every key.  A zone answers for its names before a query is forwarded    *)
(* (src/src/dns/auth.rs); which zone has a name is in DomainMatcher.       *)
(*                                                                         *)
(* Only waiting for the network takes time; a second passes when every     *)
(* task waits for it.                                                      *)
(***************************************************************************)
EXTENDS UpstreamPool

CONSTANTS
    Client,        \* client queries, one task each
    Key,           \* (name, type) pairs that are asked for and cached; the pool's names
    HostKeys,      \* the keys of configured host records
    ZoneKeys,      \* the keys with a name in an authoritative zone, of type A or AAAA
    None,
    Timeout,       \* TIMEOUT: the query timeout and the servers' cooldown
    MaxAttempts,   \* MAX_RETRY_ATTEMPTS
    StopRebind,    \* the option stop_dns_rebind
    HostTtl,       \* host_ttl, the TTL of host records in the cache
    MaxTtl,        \* bound: largest TTL in a response
    NegTtl         \* the TTL of a negative response without SOA

ASSUME BoundsAssumption ==
    /\ Timeout = Cooldown /\ MaxAttempts \in Nat /\ StopRebind \in BOOLEAN
    /\ HostTtl \in Nat /\ MaxTtl \in Nat /\ NegTtl \in 0..MaxTtl
    /\ Key = Name /\ HostKeys \subseteq Key /\ ZoneKeys \subseteq Key
    /\ NoAddr \notin Addr /\ None \notin Key \cup {"private"}

VARIABLES
    cache,      \* key -> cached record
    pc,         \* where the task of each client query is
    asked,      \* the key it asks for
    tried,      \* tried_servers
    attempts,   \* retry_count
    deadline,   \* when its wait for the upstream ends
    response,   \* the upstream's response
    reply       \* what the client was sent

local == <<asked, tried, attempts, deadline, response>>
vars == <<pool, cache, pc, local, reply>>

\* The upstream answers with records for some keys, not always the one asked
\* for (a CNAME and its target), with a private address among them or not; or
\* it has none to give: no such name, no such record, or it failed.  Nothing
\* looks at the TC bit.
Response ==
    [kind : {"answer", "private"}, keys : (SUBSET Key) \ {{}}, ttl : 0..MaxTtl]
       \cup [kind : {"nxdomain", "nodata"}, keys : {{}}, ttl : 0..MaxTtl]
       \cup [kind : {"error"}, keys : {{}}, ttl : {0}]

Negative == {"nxdomain", "nodata"}

Goto(c, label) == pc' = [pc EXCEPT ![c] = label]

\* DnsServiceBuilder::build fills the cache with the host records and the pool
\* with the configured servers, all general-purpose.
Init ==
    /\ now = 0
    /\ servers \in Injection(1..MaxServers, {[addr |-> a, domain |-> NoDomain, dnssec |-> FALSE,
                                               loop |-> FALSE, lastFailed |-> Never] : a \in Addr})
    /\ current_index = 0
    /\ matcher = [p \in Pattern |-> <<>>]
    /\ picked = NoPick /\ left_behind = {}
    /\ cache = [k \in Key |-> IF k \in HostKeys
                              THEN [kind |-> "host", expiry |-> HostTtl]
                              ELSE None]
    /\ pc = [c \in Client |-> "idle"]
    /\ asked = [c \in Client |-> None] /\ response = [c \in Client |-> None]
    /\ tried = [c \in Client |-> <<>>]
    /\ attempts = [c \in Client |-> 0] /\ deadline = [c \in Client |-> 0]
    /\ reply = [c \in Client |-> None]

Live(k) == cache[k] # None /\ now < cache[k].expiry

-----------------------------------------------------------------------------
(* resolve_query up to the forwarder *)

Hit(c, k) ==
    /\ pc[c] = "idle"
    /\ Live(k)
    /\ asked' = [asked EXCEPT ![c] = k]
    /\ reply' = [reply EXCEPT ![c] = cache[k].kind]
    /\ Goto(c, "done")
    /\ UNCHANGED <<pool, cache, tried, attempts, deadline, response>>

Route_Forward(k) == "select"

Route(k) == IF k \in ZoneKeys THEN "zone" ELSE "select"

\* find_by_name drops an expired record.
Miss(c, k) ==
    /\ pc[c] = "idle"
    /\ ~Live(k)
    /\ now + MaxAttempts * Timeout <= MaxTime
    /\ asked' = [asked EXCEPT ![c] = k]
    /\ cache' = [cache EXCEPT ![k] = None]
    /\ Goto(c, Route(k))
    /\ UNCHANGED <<pool, tried, attempts, deadline, response, reply>>

\* generate_auth_response for an address: a record of a host makes an answer
\* without records, everything else NXDOMAIN.
ZoneReply(k) ==
    IF Live(k) /\ cache[k].kind = "host" THEN "zone_nodata" ELSE "zone_nxdomain"

\* answer_auth_query looks the name up again, under a guard of its own.
AnswerFromZone(c) ==
    LET k == asked[c]
    IN /\ pc[c] = "zone"
       /\ reply' = [reply EXCEPT ![c] = ZoneReply(k)]
       /\ cache' = IF Live(k) THEN cache ELSE [cache EXCEPT ![k] = None]
       /\ Goto(c, "done")
       /\ UNCHANGED <<pool, local>>

-----------------------------------------------------------------------------
(* forward_query_and_wait *)

Skip_Nothing(c, addr) == addr = NoAddr

\* The selection is dropped when the one server it names was tried before.
Skip(c, addr) == addr = NoAddr \/ addr \in ToSet(tried[c])

Select(c) ==
    /\ pc[c] = "select"
    /\ attempts[c] < MaxAttempts
    /\ SelectServer(asked[c], FALSE)
    /\ IF Skip(c, picked'.addr)
       THEN Goto(c, "failed") /\ UNCHANGED tried
       ELSE Goto(c, "sending") /\ tried' = [tried EXCEPT ![c] = Append(@, picked'.addr)]
    /\ UNCHANGED <<cache, asked, attempts, deadline, response, reply>>

Exhausted(c) ==
    /\ pc[c] = "select"
    /\ attempts[c] >= MaxAttempts
    /\ Goto(c, "failed")
    /\ UNCHANGED <<pool, cache, local, reply>>

Attempted(c) == [attempts EXCEPT ![c] = @ + 1]

\* UdpSocket::bind fails: the server is not marked.
BindFails(c) ==
    /\ pc[c] = "sending"
    /\ attempts' = Attempted(c)
    /\ Goto(c, "select")
    /\ UNCHANGED <<pool, cache, asked, tried, deadline, response, reply>>

Send(c) ==
    /\ pc[c] = "sending"
    /\ deadline' = [deadline EXCEPT ![c] = now + Timeout]
    /\ Goto(c, "waiting")
    /\ UNCHANGED <<pool, cache, asked, tried, attempts, response, reply>>

TryNext(c) ==
    /\ MarkFailed(Last(tried[c]))
    /\ attempts' = Attempted(c)
    /\ Goto(c, "select")
    /\ UNCHANGED <<cache, asked, tried, deadline, response, reply>>

SendFails(c) == pc[c] = "sending" /\ TryNext(c)

\* recv_from fails, or the response cannot be parsed.
ReceiveFails(c) == pc[c] = "waiting" /\ TryNext(c)

TimesOut_NoTimer(c) == FALSE

TimesOut(c) == pc[c] = "waiting" /\ now >= deadline[c] /\ TryNext(c)

Rebound_Passed(r) == r

\* An answer with a private address becomes an empty NXDOMAIN.
Rebound(r) ==
    IF StopRebind /\ r.kind = "private"
    THEN [kind |-> "nxdomain", keys |-> {}, ttl |-> NegTtl]
    ELSE r

Respond(c, r) ==
    /\ pc[c] = "waiting"
    /\ response' = [response EXCEPT ![c] = Rebound(r)]
    /\ Goto(c, "resolved")
    /\ UNCHANGED <<pool, cache, asked, tried, attempts, deadline, reply>>

-----------------------------------------------------------------------------
(* The rest of resolve_query, and the event loop's answer *)

\* Every answer is stored under its own key whatever is there, an empty
\* NXDOMAIN or NOERROR under the key that was asked for.
Finish(c) ==
    LET r == response[c]
        record == [kind |-> r.kind, expiry |-> now + r.ttl]
        stored == IF r.kind \in Negative THEN {asked[c]} ELSE r.keys
    IN /\ pc[c] = "resolved"
       /\ cache' = [k \in Key |-> IF k \in stored THEN record ELSE cache[k]]
       /\ reply' = [reply EXCEPT ![c] = r.kind]
       /\ Goto(c, "done")
       /\ response' = [response EXCEPT ![c] = None]
       /\ UNCHANGED <<pool, asked, tried, attempts, deadline>>

Tick ==
    /\ \A c \in Client : \/ pc[c] \in {"idle", "done", "failed"}
                         \/ pc[c] = "waiting" /\ now < deadline[c]
    /\ PoolTick
    /\ UNCHANGED <<cache, pc, local, reply>>

Proceed(c) ==
    \/ Select(c) \/ Exhausted(c) \/ Send(c) \/ BindFails(c) \/ SendFails(c)
    \/ TimesOut(c) \/ Finish(c) \/ AnswerFromZone(c)

Next ==
    \/ \E c \in Client : \/ \E k \in Key : Hit(c, k) \/ Miss(c, k)
                         \/ Proceed(c) \/ ReceiveFails(c)
                         \/ \E r \in Response : Respond(c, r)
    \/ Tick

\* The runtime polls every task that is ready, time passes, and the timer of a
\* task that waits for the network fires; no upstream need ever answer.
Fairness == WF_vars(Tick) /\ \A c \in Client : WF_vars(Proceed(c))

Spec == Init /\ [][Next]_vars /\ Fairness

-----------------------------------------------------------------------------
(* Properties *)

\* Every variable keeps its type, and the attempts counted are tries that were
\* made.
TypeOK ==
    /\ now \in 0..MaxTime /\ current_index \in 0..Len(servers)
    /\ \A k \in Key : cache[k] # None => cache[k].expiry \in Nat
    /\ \A c \in Client : attempts[c] \in 0..Len(tried[c])
    /\ response \in [Client -> Response \cup {None}]
    /\ tried \in [Client -> Seq(Addr)]

\* A query never tries a server twice and never more servers than
\* MAX_RETRY_ATTEMPTS, whatever other tasks do to the turn and the cooldowns
\* of the pool in between, and also when binding a socket failed and left the
\* server available.
AsksEachServerOnce ==
    \A c \in Client : IsInjective(tried[c]) /\ Len(tried[c]) <= MaxAttempts

\* The attempts of a query are counted and go to different servers.
AttemptsAreSound == TypeOK /\ AsksEachServerOnce

\* With stop_dns_rebind an answer with a private address reaches neither a
\* client nor the cache.
RebindIsStopped ==
    StopRebind => /\ \A c \in Client : reply[c] # "private"
                  /\ \A k \in Key : cache[k] # None => cache[k].kind # "private"

\* A query for a name of a zone is not sent upstream, whatever expires or arrives
\* between its two looks at the cache, and no negative answer from upstream is
\* ever kept for the name; a record that came with the answer to another query is.
ZoneNamesStayHome ==
    /\ \A c \in Client : asked[c] \in ZoneKeys => tried[c] = <<>>
    /\ \A k \in ZoneKeys : cache[k] # None => cache[k].kind \notin Negative

\* Every query ends, answered or given up.
EveryQueryEnds ==
    \A c \in Client : pc[c] \in {"select", "zone"} ~> pc[c] \in {"done", "failed"}

=============================================================================
