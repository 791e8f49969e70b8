----------------------------- MODULE Forwarder ------------------------------
(***************************************************************************)
(* The event-driven forwarder of src/src/dns/forwarder.rs: receive_query,  *)
(* forward_query and the task it spawns for the upstream's answer, with    *)
(* reply_query, TCP fallback, timeouts and retries.  Tasks share the map   *)
(* `outstanding_queries', the cache and the pool, and give control away at *)
(* every await: each stretch between two awaits that touches shared state  *)
(* is an action.  tokio::time::timeout may cancel a task at any await      *)
(* inside wait_for_upstream_response.                                      *)
(* A step on the pool that comes right before or after one on the map is   *)
(* taken with it: a cooldown may begin or end between any two actions.     *)
(*                                                                         *)
(* The pool is reduced to the servers in cooldown and the cache to what is *)
(* stored under a name; UpstreamPool and DnsCache model them in full.      *)
(***************************************************************************)
EXTENDS Naturals, Sequences

CONSTANTS
    Client,      \* client queries, one task each
    Name,        \* domain names
    Server,      \* upstream servers
    Id,          \* 16-bit query ids
    None,        \* no query, id, server or cached answer
    MaxRetry     \* MAX_RETRY_ATTEMPTS

ASSUME MaxRetryAssumption == MaxRetry \in Nat

\* OutstandingQuery: whose query it is, and QueryState::Forwarded
Query == [client : Client, server : Server, retries : 0..MaxRetry]

\* A complete response is cached when it is negative or has a positive TTL.
Complete == {"cached", "uncached"}

Answer == [about : Name, kind : Complete \cup {"empty"}]

ASSUME NoneAssumption ==
    /\ None \notin Client /\ None \notin Name /\ None \notin Server /\ None \notin Id
    /\ None \notin Query /\ None \notin Answer

VARIABLES
    outstanding,  \* outstanding_queries: id -> query
    down,         \* servers in their failure cooldown
    cache,        \* name -> cached answer
    replies,      \* replies[c]: the answers sent to c's client, oldest first
    collided,     \* history: an id was drawn that a running task was using
    fooled,       \* history: tasks that took an answer to another question than they sent
    pc,           \* where the task of each client query is
    asked,        \* the name it asks for
    qid, tcpId,   \* the task's query_id and tcp_query_id
    server,       \* its upstream_server
    retries,      \* its retry_count
    mine,         \* its current_query, while it retries
    taken,        \* the query reply_query took out of the map
    resp          \* the response reply_query works on

shared == <<outstanding, down, cache, replies, collided, fooled>>
local == <<asked, qid, tcpId, server, retries, mine, taken, resp>>
vars == <<shared, pc, local>>

-----------------------------------------------------------------------------
Over == {"idle", "done", "gaveUp"}

Running(c) == pc[c] \notin Over

Goto(c, label) == pc' = [pc EXCEPT ![c] = label]

\* generate_query_id: an id that is not in the map, any id when all are.  The
\* map is only read: nothing keeps the id for the caller.
FreshIds ==
    LET free == {i \in Id : outstanding[i] = None}
    IN IF free = {} THEN Id ELSE free

NoteCollision(c, id) ==
    collided' = (collided \/ \E d \in Client \ {c} : Running(d) /\ id \in {qid[d], tcpId[d]})

\* select_server, as far as the cooldown decides
Available == Server \ down

Remove(id) == outstanding' = [outstanding EXCEPT ![id] = None]

\* The client whose bytes task c has on the wire
Carries(c) == IF mine[c] = None THEN c ELSE mine[c].client

Init ==
    /\ outstanding = [i \in Id |-> None]
    /\ down = {}
    /\ cache = [n \in Name |-> None]
    /\ replies = [c \in Client |-> <<>>]
    /\ collided = FALSE /\ fooled = {}
    /\ pc = [c \in Client |-> "idle"]
    /\ retries = [c \in Client |-> 0]
    /\ asked = [c \in Client |-> None] /\ server = [c \in Client |-> None]
    /\ qid = [c \in Client |-> None] /\ tcpId = [c \in Client |-> None]
    /\ mine = [c \in Client |-> None] /\ taken = [c \in Client |-> None]
    /\ resp = [c \in Client |-> None]

-----------------------------------------------------------------------------
(* receive_query and forward_query *)

AnswerFromCache_NoReturn(c, name) ==
    /\ pc[c] = "idle"
    /\ cache[name] # None
    /\ asked' = [asked EXCEPT ![c] = name]
    /\ replies' = [replies EXCEPT ![c] = Append(@, [about |-> name, kind |-> "empty"])]
    /\ Goto(c, "missed")
    /\ UNCHANGED <<outstanding, down, cache, collided, fooled,
                   qid, tcpId, server, retries, mine, taken, resp>>

\* build_response_from_cache leaves the entry out of the response.
AnswerFromCache(c, name) ==
    /\ pc[c] = "idle"
    /\ cache[name] # None
    /\ asked' = [asked EXCEPT ![c] = name]
    /\ replies' = [replies EXCEPT ![c] = Append(@, [about |-> name, kind |-> "empty"])]
    /\ Goto(c, "done")
    /\ UNCHANGED <<outstanding, down, cache, collided, fooled,
                   qid, tcpId, server, retries, mine, taken, resp>>

Miss(c, name) ==
    /\ pc[c] = "idle"
    /\ cache[name] = None
    /\ asked' = [asked EXCEPT ![c] = name]
    /\ Goto(c, "missed")
    /\ UNCHANGED <<shared, qid, tcpId, server, retries, mine, taken, resp>>

NoServer(c) ==
    /\ pc[c] = "missed"
    /\ Available = {}
    /\ Goto(c, "done")
    /\ UNCHANGED <<shared, local>>

ForwardQuery(c) ==
    /\ pc[c] = "missed"
    /\ \E s \in Available, id \in FreshIds :
          /\ server' = [server EXCEPT ![c] = s]
          /\ qid' = [qid EXCEPT ![c] = id]
          /\ NoteCollision(c, id)
    /\ Goto(c, "sending")
    /\ UNCHANGED <<outstanding, down, cache, replies, fooled,
                   asked, tcpId, retries, mine, taken, resp>>

\* bind or send_to fails
SendFails(c) ==
    /\ pc[c] = "sending"
    /\ Goto(c, "done")
    /\ UNCHANGED <<shared, local>>

\* The query enters the map once it is on its way.
Track(c) ==
    /\ pc[c] = "sending"
    /\ outstanding' = [outstanding EXCEPT
                          ![qid[c]] = [client |-> c, server |-> server[c], retries |-> 0]]
    /\ Goto(c, "waiting")
    /\ UNCHANGED <<down, cache, replies, collided, fooled, local>>

-----------------------------------------------------------------------------
(* wait_for_upstream_response, reply_query and handle_tcp_fallback *)

Fail(c) == Goto(c, "erred") /\ UNCHANGED <<outstanding, fooled, taken, resp>>

\* reply_query up to its first await after the map: a response of this kind, about
\* this name, takes query `id' out of the map.  Neither the id and the question in
\* it nor the address it came from are compared with the query.
ReplyQuery(c, id, question, about, kind) ==
    /\ \/ /\ kind = "garbled" \/ outstanding[id] = None
          /\ Fail(c)
       \/ /\ kind # "garbled" /\ outstanding[id] # None
          /\ Remove(id)
          /\ taken' = [taken EXCEPT ![c] = outstanding[id]]
          /\ \/ kind = "notAResponse" /\ Goto(c, "erred") /\ UNCHANGED <<fooled, resp>>
             \/ kind = "truncated" /\ Goto(c, "tcp") /\ UNCHANGED <<fooled, resp>>
             \/ /\ kind \in Complete /\ Goto(c, "took")
                /\ resp' = [resp EXCEPT ![c] = [about |-> about, kind |-> kind]]
                /\ fooled' = IF about = question THEN fooled ELSE fooled \cup {c}
    /\ UNCHANGED <<down, cache, replies, collided, asked, qid, tcpId, server, retries, mine>>

Kinds == Complete \cup {"truncated", "notAResponse", "garbled"}

\* The socket is not connected: whatever arrives at its port first is the response.
UdpResponse(c, about, kind) ==
    /\ pc[c] = "waiting"
    /\ ReplyQuery(c, qid[c], asked[Carries(c)], about, kind)

TcpConnect(c) ==
    /\ pc[c] = "tcp"
    /\ \E id \in FreshIds :
          /\ tcpId' = [tcpId EXCEPT ![c] = id]
          /\ NoteCollision(c, id)
    /\ Goto(c, "tcpWait")
    /\ UNCHANGED <<outstanding, down, cache, replies, fooled,
                   asked, qid, server, retries, mine, taken, resp>>

TcpResponse(c, about, kind) ==
    /\ pc[c] = "tcpWait"
    /\ ReplyQuery(c, tcpId[c], asked[taken[c].client], about, kind)

\* recv_from, connect, write_all or read_exact fails
NetworkError(c) ==
    /\ pc[c] \in {"waiting", "tcp", "tcpWait"}
    /\ Goto(c, "erred")
    /\ UNCHANGED <<shared, local>>

MarkAvailable(c) ==
    /\ pc[c] = "took"
    /\ down' = down \ {taken[c].server}
    /\ Goto(c, "marked")
    /\ UNCHANGED <<outstanding, cache, replies, collided, fooled, local>>

\* create_cache_entry and create_negative_cache_entry store under the name of
\* the query that was taken.
Store(c) ==
    /\ pc[c] = "marked"
    /\ cache' = IF resp[c].kind = "uncached" THEN cache
                ELSE [cache EXCEPT ![asked[taken[c].client]] = resp[c]]
    /\ Goto(c, "stored")
    /\ UNCHANGED <<outstanding, down, replies, collided, fooled, local>>

SendReply(c) ==
    /\ pc[c] = "stored"
    /\ replies' = [replies EXCEPT ![taken[c].client] = Append(@, resp[c])]
    /\ Goto(c, "done")
    /\ UNCHANGED <<outstanding, down, cache, collided, fooled, local>>

\* to_bytes or send_to the client fails
SendReplyFails(c) ==
    /\ pc[c] = "stored"
    /\ Goto(c, "erred")
    /\ UNCHANGED <<shared, local>>

HandleQueryError_KeepsQuery(c) ==
    /\ pc[c] = "erred"
    /\ Goto(c, "done")
    /\ UNCHANGED <<shared, local>>

HandleQueryError(c) ==
    /\ pc[c] = "erred"
    /\ Remove(qid[c])
    /\ Goto(c, "done")
    /\ UNCHANGED <<down, cache, replies, collided, fooled, local>>

-----------------------------------------------------------------------------
(* Timeouts and retries *)

Cancellable == {"waiting", "tcp", "tcpWait", "took", "marked", "stored"}

Timeout(c) ==
    /\ pc[c] \in Cancellable
    /\ Goto(c, "timedOut")
    /\ tcpId' = [tcpId EXCEPT ![c] = None]
    /\ taken' = [taken EXCEPT ![c] = None]
    /\ resp' = [resp EXCEPT ![c] = None]
    /\ UNCHANGED <<shared, asked, qid, server, retries, mine>>

\* handle_query_timeout up to its loop: only a query still in the map is retried.
HandleQueryTimeout(c) ==
    LET query == outstanding[qid[c]]
    IN /\ pc[c] = "timedOut" /\ mine[c] = None
       /\ Remove(qid[c])
       /\ \/ /\ query = None
             /\ Goto(c, "done")
             /\ UNCHANGED <<down, mine, retries>>
          \/ /\ query # None
             /\ Goto(c, "retry")
             /\ down' = down \cup {query.server}
             /\ mine' = [mine EXCEPT ![c] = query]
             /\ retries' = [retries EXCEPT ![c] = query.retries]
       /\ UNCHANGED <<cache, replies, collided, fooled,
                      asked, qid, tcpId, server, taken, resp>>

\* A retry timed out: its own copy stands in for a query that left the map.
RetryTimedOut(c) ==
    LET query == outstanding[qid[c]]
    IN /\ pc[c] = "timedOut" /\ mine[c] # None
       /\ down' = down \cup {server[c]}
       /\ Remove(qid[c])
       /\ mine' = IF query = None THEN mine ELSE [mine EXCEPT ![c] = query]
       /\ Goto(c, "retry")
       /\ UNCHANGED <<cache, replies, collided, fooled,
                      asked, qid, tcpId, server, retries, taken, resp>>

MayRetry(c) == retries[c] < MaxRetry

Retries_NotCounted(c) == retries[c]

Retries(c) == retries[c] + 1

Retry(c) ==
    /\ pc[c] = "retry"
    /\ MayRetry(c)
    /\ \E s \in Available, id \in FreshIds :
          /\ server' = [server EXCEPT ![c] = s]
          /\ qid' = [qid EXCEPT ![c] = id]
          /\ NoteCollision(c, id)
    /\ retries' = [retries EXCEPT ![c] = Retries(c)]
    /\ Goto(c, "resending")
    /\ UNCHANGED <<outstanding, down, cache, replies, fooled, asked, tcpId, mine, taken, resp>>

ResendFails(c) ==
    /\ pc[c] = "resending"
    /\ Goto(c, "retry")
    /\ UNCHANGED <<shared, local>>

TrackRetry(c) ==
    LET query == [client |-> mine[c].client, server |-> server[c], retries |-> retries[c]]
    IN /\ pc[c] = "resending"
       /\ outstanding' = [outstanding EXCEPT ![qid[c]] = query]
       /\ mine' = [mine EXCEPT ![c] = query]
       /\ Goto(c, "waiting")
       /\ UNCHANGED <<down, cache, replies, collided, fooled,
                      asked, qid, tcpId, server, retries, taken, resp>>

\* The loop ends: nothing is sent to the client.
GiveUp(c) ==
    /\ pc[c] = "retry"
    /\ ~MayRetry(c) \/ Available = {}
    /\ Goto(c, "gaveUp")
    /\ UNCHANGED <<shared, local>>

-----------------------------------------------------------------------------
\* A cooldown ends; a cached answer expires or is evicted.
Recover(s) ==
    /\ s \in down
    /\ down' = down \ {s}
    /\ UNCHANGED <<outstanding, cache, replies, collided, fooled, pc, local>>

Expire(n) ==
    /\ cache[n] # None
    /\ cache' = [cache EXCEPT ![n] = None]
    /\ UNCHANGED <<outstanding, down, replies, collided, fooled, pc, local>>

Receive(c) == \E name \in Name : AnswerFromCache(c, name) \/ Miss(c, name)

Proceed(c) ==
    \/ NoServer(c) \/ ForwardQuery(c) \/ SendFails(c) \/ Track(c)
    \/ \E about \in Name, kind \in Kinds :
          UdpResponse(c, about, kind) \/ TcpResponse(c, about, kind)
    \/ TcpConnect(c) \/ NetworkError(c)
    \/ MarkAvailable(c) \/ Store(c) \/ SendReply(c) \/ SendReplyFails(c)
    \/ HandleQueryError(c)
    \/ Timeout(c) \/ HandleQueryTimeout(c) \/ RetryTimedOut(c)
    \/ Retry(c) \/ ResendFails(c) \/ TrackRetry(c) \/ GiveUp(c)

Next ==
    \/ \E c \in Client : Receive(c) \/ Proceed(c)
    \/ \E s \in Server : Recover(s)
    \/ \E n \in Name : Expire(n)

\* tokio polls every task that is ready, and a task that waits for the network
\* has a timer that fires.
Fairness == \A c \in Client : WF_vars(Proceed(c))

Spec == Init /\ [][Next]_vars /\ Fairness

-----------------------------------------------------------------------------
(* Properties *)

Pcs == Over \cup Cancellable
       \cup {"missed", "sending", "erred", "timedOut", "retry", "resending"}

\* Every variable keeps its type.
TypeOK ==
    /\ outstanding \in [Id -> Query \cup {None}]
    /\ down \subseteq Server
    /\ cache \in [Name -> Answer \cup {None}]
    /\ replies \in [Client -> Seq(Answer)]
    /\ collided \in BOOLEAN /\ fooled \subseteq Client
    /\ pc \in [Client -> Pcs]
    /\ asked \in [Client -> Name \cup {None}]
    /\ qid \in [Client -> Id \cup {None}] /\ tcpId \in [Client -> Id \cup {None}]
    /\ server \in [Client -> Server \cup {None}]
    /\ retries \in [Client -> 0..MaxRetry]
    /\ mine \in [Client -> Query \cup {None}] /\ taken \in [Client -> Query \cup {None}]
    /\ resp \in [Client -> Answer \cup {None}]

\* No query is left behind in outstanding_queries: whatever was answered,
\* cancelled, retried or overwritten under its id, some running task will
\* still remove the entry.
OutstandingIsAwaited ==
    \A i \in Id : outstanding[i] # None =>
       \E c \in Client : qid[c] = i /\ pc[c] \in {"waiting", "erred", "timedOut"}

\* As long as no id was drawn that a running task was using, a client is sent one
\* reply at most, and the forwarder mixes up nothing of its own: a reply about another
\* name than the client's, and an answer cached under another name than it is about,
\* were taken from the network as they are by the task of that very query, whatever
\* the order of responses, cancellations, retries and TCP fallbacks.
RightAnswerOnce ==
    ~collided =>
       /\ \A c \in Client :
             /\ Len(replies[c]) <= 1
             /\ \A k \in DOMAIN replies[c] : replies[c][k].about = asked[c] \/ c \in fooled
       /\ \A n \in Name :
             cache[n] # None =>
                cache[n].about = n \/ \E c \in fooled : asked[c] = n

\* Every query that was received is done with at some time: retries are
\* counted even when nothing could be sent, and every wait has a timer.
EveryQueryEnds == \A c \in Client : pc[c] = "missed" ~> pc[c] \in {"done", "gaveUp"}

=============================================================================
