---------------------------- MODULE UpstreamPool ----------------------------
(***************************************************************************)
(* The pool of upstream servers, src/src/dns/upstream.rs, with the domain  *)
(* routes of src/src/dns/matcher.rs: which server a query goes to, the     *)
(* cooldown of servers that failed, and the round-robin turn.  Every       *)
(* caller holds the pool's write guard for the whole call.                 *)
(***************************************************************************)
EXTENDS Naturals, Sequences, SequencesExt, FiniteSets

CONSTANTS
    Addr,         \* socket addresses of upstream servers
    Name,         \* query names
    Pattern,      \* domain patterns ("lan", "*.corp")
    Chain,        \* Chain[name]: the patterns that cover name, most specific first
    NoDomain,     \* domain = None: a general-purpose server
    NoAddr,       \* no server selected
    Never,        \* last_failed = None
    Cooldown,     \* TIMEOUT, the seconds a failed server is left alone
    MaxServers,   \* bound on the length of the server list
    MaxTime       \* bound: the clock stops here

ASSUME ChainAssumption == Chain \in [Name -> Seq(Pattern)]

ASSUME PoolAssumption ==
    /\ Cooldown \in Nat \ {0} /\ MaxServers \in Nat /\ MaxTime \in Nat /\ NoDomain \notin Pattern

Server == [addr : Addr, domain : Pattern \cup {NoDomain}, dnssec : BOOLEAN,
           loop : BOOLEAN, lastFailed : Nat \cup {Never}]

VARIABLES
    now,
    servers,        \* Vec<UpstreamServer>, in the order they were added
    current_index,  \* the round-robin turn
    matcher,        \* DomainMatcher: pattern -> addresses registered for it
    picked,         \* the last selection: query, server and how it was chosen
    left_behind     \* history: routes whose server remove_server took away

pool == <<now, servers, current_index, matcher, picked, left_behind>>

NoPick == [name |-> NoDomain, dnssec |-> FALSE, at |-> 0, addr |-> NoAddr, general |-> {}]

-----------------------------------------------------------------------------
(* Which servers can be used *)

\* UpstreamServer::is_available
IsAvailable(server) ==
    /\ ~server.loop
    /\ server.lastFailed = Never \/ now >= server.lastFailed + Cooldown

Usable(server, dnssecRequired) ==
    IsAvailable(server) /\ (dnssecRequired => server.dnssec)

\* self.servers.iter().find(|s| s.addr == addr), as an index; 0 when absent
IndexOf(addr) == SelectInSeq(servers, LAMBDA s : s.addr = addr)

\* find_longest_match: the most specific registered pattern, as a set
LongestMatch(name) ==
    LET i == SelectInSeq(Chain[name], LAMBDA p : matcher[p] # <<>>)
    IN IF i = 0 THEN {} ELSE {Chain[name][i]}

\* The server of the longest match that select_server would return; 0 if none
DomainServer(name, dnssecRequired) ==
    LET routes == IF LongestMatch(name) = {} THEN <<>>
                  ELSE matcher[CHOOSE p \in LongestMatch(name) : TRUE]
        i == SelectInSeq(routes, LAMBDA a : /\ IndexOf(a) # 0
                                            /\ Usable(servers[IndexOf(a)], dnssecRequired))
    IN IF i = 0 THEN 0 ELSE IndexOf(routes[i])

\* The general-purpose servers select_server takes turns with, as indices
General(dnssecRequired) ==
    {i \in DOMAIN servers : servers[i].domain = NoDomain /\ Usable(servers[i], dnssecRequired)}

\* available_servers[turn]: the one with as many before it
Turn(general, turn) == CHOOSE i \in general : Cardinality({j \in general : j < i}) = turn

-----------------------------------------------------------------------------
PoolInit ==
    /\ now = 0
    /\ servers = <<>>
    /\ current_index = 0
    /\ matcher = [p \in Pattern |-> <<>>]
    /\ picked = NoPick
    /\ left_behind = {}

\* add_pattern replaces whatever was registered for the pattern.
AddServer(addr, domain, dnssec, loop) ==
    /\ Len(servers) < MaxServers
    /\ servers' = Append(servers, [addr |-> addr, domain |-> domain, dnssec |-> dnssec,
                                   loop |-> loop, lastFailed |-> Never])
    /\ matcher' = IF domain = NoDomain THEN matcher
                  ELSE [matcher EXCEPT ![domain] = <<addr>>]
    /\ left_behind' = left_behind \ {domain}
    /\ picked' = NoPick
    /\ UNCHANGED <<now, current_index>>

\* The routes of the server stay in the matcher.
RemoveServer(addr) ==
    /\ IndexOf(addr) # 0
    /\ servers' = RemoveAt(servers, IndexOf(addr))
    /\ left_behind' = left_behind \cup
                         {p \in Pattern : matcher[p] = <<addr>> /\ servers[IndexOf(addr)].domain = p}
    /\ picked' = NoPick
    /\ UNCHANGED <<now, current_index, matcher>>

Clear_KeepsRoutes ==
    /\ servers' = <<>>
    /\ current_index' = 0
    /\ left_behind' = {}
    /\ picked' = NoPick
    /\ UNCHANGED <<now, matcher>>

Clear ==
    /\ servers' = <<>>
    /\ current_index' = 0
    /\ matcher' = [p \in Pattern |-> <<>>]
    /\ left_behind' = {}
    /\ picked' = NoPick
    /\ UNCHANGED now

NextTurn_Stuck(turns) == current_index

NextTurn(turns) == (current_index + 1) % turns

\* select_server: a usable server of the longest match, else the next
\* general-purpose server in turn, else none.
SelectServer(name, dnssecRequired) ==
    LET routed == DomainServer(name, dnssecRequired)
        general == General(dnssecRequired)
        pick(i, from) == picked' = [name |-> name, dnssec |-> dnssecRequired, at |-> i,
                                    addr |-> servers[i].addr, general |-> from]
    IN /\ \/ /\ routed # 0
             /\ pick(routed, {})
             /\ UNCHANGED current_index
          \/ /\ routed = 0 /\ general # {}
             /\ pick(Turn(general, current_index % Cardinality(general)), general)
             /\ current_index' = NextTurn(Cardinality(general))
          \/ /\ routed = 0 /\ general = {}
             /\ picked' = [NoPick EXCEPT !.name = name, !.dnssec = dnssecRequired]
             /\ UNCHANGED current_index
       /\ UNCHANGED <<now, servers, matcher, left_behind>>

\* mark_failed with record_failure, mark_available with record_success
MarkFailed(addr) ==
    /\ IndexOf(addr) # 0
    /\ servers' = [servers EXCEPT ![IndexOf(addr)].lastFailed = now]
    /\ picked' = NoPick
    /\ UNCHANGED <<now, current_index, matcher, left_behind>>

MarkAvailable(addr) ==
    /\ IndexOf(addr) # 0
    /\ servers' = [servers EXCEPT ![IndexOf(addr)].lastFailed = Never]
    /\ picked' = NoPick
    /\ UNCHANGED <<now, current_index, matcher, left_behind>>

PoolTick ==
    /\ now < MaxTime
    /\ now' = now + 1
    /\ picked' = NoPick
    /\ UNCHANGED <<servers, current_index, matcher, left_behind>>

PoolNext ==
    \/ \E addr \in Addr :
          \/ \E domain \in Pattern \cup {NoDomain}, dnssec, loop \in BOOLEAN :
                AddServer(addr, domain, dnssec, loop)
          \/ RemoveServer(addr) \/ MarkFailed(addr) \/ MarkAvailable(addr)
    \/ \E name \in Name, dnssecRequired \in BOOLEAN : SelectServer(name, dnssecRequired)
    \/ Clear
    \/ PoolTick

PoolSpec == PoolInit /\ [][PoolNext]_pool

-----------------------------------------------------------------------------
(* Properties *)

\* Every variable keeps its type, and the turn never runs past the list of a
\* pool that can hold MaxServers servers.
PoolTypeOK ==
    /\ now \in 0..MaxTime
    /\ servers \in Seq(Server) /\ Len(servers) <= MaxServers
    /\ current_index \in Nat /\ current_index <= MaxServers
    /\ matcher \in [Pattern -> {<<>>} \cup {<<a>> : a \in Addr}]
    /\ left_behind \subseteq Pattern

\* Whatever was added, removed, cleared or failed before, select_server only
\* returns a server that is configured now, that no forwarding loop excludes,
\* whose cooldown is over and that can do DNSSEC when it is asked for: a route
\* left behind in the matcher by remove_server leads nowhere until its address is
\* configured again.
SelectedServerIsUsable ==
    picked.addr # NoAddr =>
       \E i \in DOMAIN servers :
          /\ servers[i].addr = picked.addr
          /\ ~servers[i].loop
          /\ servers[i].lastFailed # Never => now >= servers[i].lastFailed + Cooldown
          /\ picked.dnssec => servers[i].dnssec

\* A server that is configured for domains only is selected for the names of these
\* domains only: its address stands for a general-purpose server or for a domain
\* that covers the name.  The exception is a route whose server remove_server took
\* away: once its address is configured again, for whatever domain, the route is
\* followed again, until its pattern is registered anew or the pool is cleared.
DomainServersStayPrivate ==
    picked.addr # NoAddr /\ LongestMatch(picked.name) \cap left_behind = {} =>
       \E i \in DOMAIN servers :
          /\ servers[i].addr = picked.addr
          /\ servers[i].domain \in {NoDomain} \cup ToSet(Chain[picked.name])

\* The pool is well formed and every selection is a server that may be used for
\* its name.
SelectionIsSound == PoolTypeOK /\ SelectedServerIsUsable /\ DomainServersStayPrivate

\* The one after i in the list, the first after the last.
Following(general, i) ==
    LET later == {j \in general : j > i} IN Min(IF later = {} THEN general ELSE later)

\* Two general selections in a row from the same list take its servers in
\* turn, the last followed by the first, wherever earlier selections from
\* other lists have left current_index.
TakesTurns ==
    [][picked.general # {} /\ picked'.general = picked.general /\ servers' = servers
          => picked'.at = Following(picked.general, picked.at)]_pool

=============================================================================
