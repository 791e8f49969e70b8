-------------------------- MODULE ForwarderProofs ---------------------------
(***************************************************************************)
(* Proofs about the forwarder, for any number of clients, servers and ids: *)
(* no query is left behind in outstanding_queries, and without an id drawn *)
(* twice every client gets at most one reply, to the question it asked.    *)
(***************************************************************************)
EXTENDS Forwarder, TLAPS

Awaiting == {"waiting", "erred", "timedOut"}

Answered == {"took", "marked", "stored"}

Sent == Awaiting \cup Answered \cup {"sending", "tcp", "tcpWait", "retry", "resending"}

\* What a task has in hand at each point of the code.
WellFormed ==
    /\ \A c \in Client :
          /\ pc[c] \in {"idle", "missed"} =>
                qid[c] = None /\ tcpId[c] = None /\ mine[c] = None /\ taken[c] = None
          /\ pc[c] # "idle" => asked[c] \in Name
          /\ pc[c] \in Sent => qid[c] \in Id /\ server[c] \in Server
          /\ pc[c] = "tcpWait" => tcpId[c] \in Id
          /\ pc[c] \in Answered \cup {"tcp", "tcpWait"} => taken[c] \in Query
          /\ pc[c] \in Answered => resp[c] \in Answer
          /\ pc[c] \in {"retry", "resending"} => mine[c] \in Query
          /\ taken[c] # None => pc[taken[c].client] # "idle"
          /\ mine[c] # None => pc[mine[c].client] # "idle"
          /\ c \in fooled => pc[c] # "idle"
    /\ \A i \in Id : outstanding[i] # None => pc[outstanding[i].client] # "idle"

Uses(c, i) == Running(c) /\ (qid[c] = i \/ tcpId[c] = i)

\* Without a collision every id has one user, and everything a task handles is
\* its own client's.
OneUser == \A c, d \in Client, i \in Id : Uses(c, i) /\ Uses(d, i) => c = d

OwnEntry ==
    \A i \in Id : outstanding[i] # None =>
       qid[outstanding[i].client] = i /\ pc[outstanding[i].client] \in Awaiting

OwnQuery ==
    \A c \in Client : Running(c) =>
       /\ mine[c] # None => mine[c].client = c
       /\ taken[c] # None => taken[c].client = c

OwnAnswer == \A c \in Client : pc[c] \in Answered => resp[c].about = asked[c] \/ c \in fooled

Unanswered == \A c \in Client : pc[c] \notin {"done", "gaveUp"} => replies[c] = <<>>

Private == ~collided => OneUser /\ OwnEntry /\ OwnQuery /\ OwnAnswer /\ Unanswered

IInv == TypeOK /\ WellFormed /\ OutstandingIsAwaited /\ Private /\ RightAnswerOnce

-----------------------------------------------------------------------------
LEMMA PcNames ==
    /\ "missed" \in Pcs /\ "sending" \in Pcs /\ "waiting" \in Pcs /\ "erred" \in Pcs
    /\ "tcp" \in Pcs /\ "tcpWait" \in Pcs /\ "took" \in Pcs /\ "marked" \in Pcs
    /\ "stored" \in Pcs /\ "timedOut" \in Pcs /\ "retry" \in Pcs /\ "resending" \in Pcs
    /\ "done" \in Pcs /\ "gaveUp" \in Pcs
  BY DEF Pcs, Over, Cancellable

\* What is put into the map or taken out of it when a response comes is a query, and the
\* name a response is about is a name.
LEMMA ReplyKeepsTypes ==
    ASSUME TypeOK, NEW c \in Client, NEW id \in Id, NEW question, NEW about \in Name, NEW kind,
           ReplyQuery(c, id, question, about, kind)
    PROVE  TypeOK'
<1>1. \/ Goto(c, "erred") /\ UNCHANGED <<outstanding, fooled, taken, resp>>
      \/ /\ outstanding[id] # None /\ Remove(id)
         /\ taken' = [taken EXCEPT ![c] = outstanding[id]]
         /\ \/ (Goto(c, "erred") \/ Goto(c, "tcp")) /\ UNCHANGED <<fooled, resp>>
            \/ /\ Goto(c, "took") /\ kind \in Complete
               /\ resp' = [resp EXCEPT ![c] = [about |-> about, kind |-> kind]]
               /\ fooled' = IF about = question THEN fooled ELSE fooled \cup {c}
  BY Zenon DEF ReplyQuery, Fail
<1>2. /\ outstanding \in [Id -> Query \cup {None}] /\ taken \in [Client -> Query \cup {None}]
      /\ resp \in [Client -> Answer \cup {None}] /\ pc \in [Client -> Pcs] /\ fooled \subseteq Client
  BY DEF TypeOK
<1>3. kind \in Complete => [about |-> about, kind |-> kind] \in Answer
  BY DEF Answer
<1>4. outstanding' \in [Id -> Query \cup {None}]
  BY <1>1, <1>2 DEF Remove
<1>5. taken' \in [Client -> Query \cup {None}]
  BY <1>1, <1>2
<1>6. resp' \in [Client -> Answer \cup {None}]
  BY <1>1, <1>2, <1>3
<1>7. pc' \in [Client -> Pcs]
  BY <1>1, <1>2, PcNames DEF Goto
<1>8. fooled' \subseteq Client
  BY <1>1, <1>2
<1> QED
  BY <1>4, <1>5, <1>6, <1>7, <1>8, Zenon DEF TypeOK, ReplyQuery

\* Every step of every task keeps the types.
LEMMA TypeStep == IInv /\ [Next]_vars => TypeOK'
<1> SUFFICES ASSUME IInv, [Next]_vars PROVE TypeOK'
  OBVIOUS
<1> USE NoneAssumption, MaxRetryAssumption
<1>i. TypeOK /\ WellFormed
  BY DEF IInv
<1>1. ASSUME NEW c \in Client, NEW name \in Name, AnswerFromCache(c, name) PROVE TypeOK'
  <2>1. [about |-> name, kind |-> "empty"] \in Answer
    BY DEF Answer
  <2>2. asked' \in [Client -> Name \cup {None}]
    BY <1>i, <1>1, <2>1 DEF TypeOK, AnswerFromCache
  <2>3. replies' \in [Client -> Seq(Answer)]
    BY <1>i, <1>1, <2>1 DEF TypeOK, AnswerFromCache
  <2>4. pc' \in [Client -> Pcs]
    BY <1>i, <1>1, <2>1, PcNames DEF TypeOK, AnswerFromCache, Goto
  <2> QED
    BY <1>i, <1>1, <2>2, <2>3, <2>4, Zenon DEF TypeOK, AnswerFromCache, shared, local
<1>2. ASSUME NEW c \in Client, NEW name \in Name, Miss(c, name) PROVE TypeOK'
  <2>1. asked' \in [Client -> Name \cup {None}]
    BY <1>i, <1>2 DEF TypeOK, Miss
  <2>2. pc' \in [Client -> Pcs]
    BY <1>i, <1>2, PcNames DEF TypeOK, Miss, Goto
  <2> QED
    BY <1>i, <1>2, <2>1, <2>2, Zenon DEF TypeOK, Miss, shared, local
<1>3. ASSUME NEW c \in Client, NEW about \in Name, NEW kind \in Kinds,
             UdpResponse(c, about, kind)
      PROVE  TypeOK'
  <2>1. qid[c] \in Id
    BY <1>i, <1>3 DEF UdpResponse, WellFormed, Sent, Awaiting, Answered
  <2> QED
    BY <1>i, <1>3, <2>1, ReplyKeepsTypes DEF UdpResponse
<1>4. ASSUME NEW c \in Client, NEW about \in Name, NEW kind \in Kinds,
             TcpResponse(c, about, kind)
      PROVE  TypeOK'
  <2>1. tcpId[c] \in Id
    BY <1>i, <1>4 DEF TcpResponse, WellFormed, Sent, Awaiting, Answered
  <2> QED
    BY <1>i, <1>4, <2>1, ReplyKeepsTypes DEF TcpResponse
<1>5. ASSUME NEW c \in Client, NoServer(c) PROVE TypeOK'
  <2>1. pc' \in [Client -> Pcs]
    BY <1>i, <1>5, PcNames DEF TypeOK, NoServer, Goto
  <2> QED
    BY <1>i, <1>5, <2>1, Zenon DEF TypeOK, NoServer, shared, local
<1>6. ASSUME NEW c \in Client, ForwardQuery(c) PROVE TypeOK'
  <2>1. FreshIds \subseteq Id
    BY DEF FreshIds
  <2>2. qid' \in [Client -> Id \cup {None}]
    BY <1>i, <1>6, <2>1 DEF TypeOK, ForwardQuery, Available, NoteCollision
  <2>3. server' \in [Client -> Server \cup {None}]
    BY <1>i, <1>6, <2>1 DEF TypeOK, ForwardQuery, Available, NoteCollision
  <2>4. collided' \in BOOLEAN
    BY <1>i, <1>6, Zenon DEF TypeOK, ForwardQuery, Available, NoteCollision
  <2>5. pc' \in [Client -> Pcs]
    BY <1>i, <1>6, <2>1, PcNames DEF TypeOK, ForwardQuery, Available, NoteCollision, Goto
  <2> QED
    BY <1>i, <1>6, <2>2, <2>3, <2>4, <2>5, Zenon DEF TypeOK, ForwardQuery, shared, local
<1>7. ASSUME NEW c \in Client, SendFails(c) PROVE TypeOK'
  <2>1. pc' \in [Client -> Pcs]
    BY <1>i, <1>7, PcNames DEF TypeOK, SendFails, Goto
  <2> QED
    BY <1>i, <1>7, <2>1, Zenon DEF TypeOK, SendFails, shared, local
<1>8. ASSUME NEW c \in Client, Track(c) PROVE TypeOK'
  <2>1. [client |-> c, server |-> server[c], retries |-> 0] \in Query
    BY <1>i, <1>8 DEF Track, Query, WellFormed, Sent, Awaiting, Answered
  <2>2. outstanding' \in [Id -> Query \cup {None}]
    BY <1>i, <1>8, <2>1 DEF TypeOK, Track
  <2>3. pc' \in [Client -> Pcs]
    BY <1>i, <1>8, <2>1, PcNames DEF TypeOK, Track, Goto
  <2> QED
    BY <1>i, <1>8, <2>2, <2>3, Zenon DEF TypeOK, Track, shared, local
<1>9. ASSUME NEW c \in Client, TcpConnect(c) PROVE TypeOK'
  <2>1. FreshIds \subseteq Id
    BY DEF FreshIds
  <2>2. tcpId' \in [Client -> Id \cup {None}]
    BY <1>i, <1>9, <2>1 DEF TypeOK, TcpConnect, NoteCollision
  <2>3. collided' \in BOOLEAN
    BY <1>i, <1>9, Zenon DEF TypeOK, TcpConnect, NoteCollision
  <2>4. pc' \in [Client -> Pcs]
    BY <1>i, <1>9, <2>1, PcNames DEF TypeOK, TcpConnect, NoteCollision, Goto
  <2> QED
    BY <1>i, <1>9, <2>2, <2>3, <2>4, Zenon DEF TypeOK, TcpConnect, shared, local
<1>10. ASSUME NEW c \in Client, NetworkError(c) PROVE TypeOK'
  <2>1. pc' \in [Client -> Pcs]
    BY <1>i, <1>10, PcNames DEF TypeOK, NetworkError, Goto
  <2> QED
    BY <1>i, <1>10, <2>1, Zenon DEF TypeOK, NetworkError, shared, local
<1>11. ASSUME NEW c \in Client, MarkAvailable(c) PROVE TypeOK'
  <2>1. down' \subseteq Server
    BY <1>i, <1>11 DEF TypeOK, MarkAvailable
  <2>2. pc' \in [Client -> Pcs]
    BY <1>i, <1>11, PcNames DEF TypeOK, MarkAvailable, Goto
  <2> QED
    BY <1>i, <1>11, <2>1, <2>2, Zenon DEF TypeOK, MarkAvailable, shared, local
<1>12. ASSUME NEW c \in Client, Store(c) PROVE TypeOK'
  <2>1. resp[c] \in Answer
    BY <1>i, <1>12 DEF Store, WellFormed, Sent, Awaiting, Answered
  <2>2. cache' \in [Name -> Answer \cup {None}]
    BY <1>i, <1>12, <2>1 DEF TypeOK, Store
  <2>3. pc' \in [Client -> Pcs]
    BY <1>i, <1>12, <2>1, PcNames DEF TypeOK, Store, Goto
  <2> QED
    BY <1>i, <1>12, <2>2, <2>3, Zenon DEF TypeOK, Store, shared, local
<1>13. ASSUME NEW c \in Client, SendReply(c) PROVE TypeOK'
  <2>1. resp[c] \in Answer /\ taken[c].client \in Client
    BY <1>i, <1>13 DEF SendReply, Query, WellFormed, Sent, Awaiting, Answered
  <2>2. Append(replies[taken[c].client], resp[c]) \in Seq(Answer)
    BY <1>i, <2>1 DEF TypeOK
  <2>3. replies' \in [Client -> Seq(Answer)]
    BY <1>i, <1>13, <2>1, <2>2 DEF TypeOK, SendReply
  <2>4. pc' \in [Client -> Pcs]
    BY <1>i, <1>13, <2>1, <2>2, PcNames DEF TypeOK, SendReply, Goto
  <2> QED
    BY <1>i, <1>13, <2>3, <2>4, Zenon DEF TypeOK, SendReply, shared, local
<1>14. ASSUME NEW c \in Client, SendReplyFails(c) PROVE TypeOK'
  <2>1. pc' \in [Client -> Pcs]
    BY <1>i, <1>14, PcNames DEF TypeOK, SendReplyFails, Goto
  <2> QED
    BY <1>i, <1>14, <2>1, Zenon DEF TypeOK, SendReplyFails, shared, local
<1>15. ASSUME NEW c \in Client, HandleQueryError(c) PROVE TypeOK'
  <2>1. outstanding' \in [Id -> Query \cup {None}]
    BY <1>i, <1>15 DEF TypeOK, HandleQueryError, Remove
  <2>2. pc' \in [Client -> Pcs]
    BY <1>i, <1>15, PcNames DEF TypeOK, HandleQueryError, Remove, Goto
  <2> QED
    BY <1>i, <1>15, <2>1, <2>2, Zenon DEF TypeOK, HandleQueryError, shared, local
<1>16. ASSUME NEW c \in Client, Timeout(c) PROVE TypeOK'
  <2>1. tcpId' \in [Client -> Id \cup {None}]
    BY <1>i, <1>16 DEF TypeOK, Timeout
  <2>2. taken' \in [Client -> Query \cup {None}]
    BY <1>i, <1>16 DEF TypeOK, Timeout
  <2>3. resp' \in [Client -> Answer \cup {None}]
    BY <1>i, <1>16 DEF TypeOK, Timeout
  <2>4. pc' \in [Client -> Pcs]
    BY <1>i, <1>16, PcNames DEF TypeOK, Timeout, Goto
  <2> QED
    BY <1>i, <1>16, <2>1, <2>2, <2>3, <2>4, Zenon DEF TypeOK, Timeout, shared, local
<1>17. ASSUME NEW c \in Client, HandleQueryTimeout(c) PROVE TypeOK'
  <2>1. outstanding[qid[c]] \in Query \cup {None}
    BY <1>i, <1>17 DEF TypeOK, HandleQueryTimeout, WellFormed, Sent, Awaiting, Answered
  <2>2. outstanding[qid[c]] # None => outstanding[qid[c]].server \in Server /\ outstanding[qid[c]].retries \in 0..MaxRetry
    BY <2>1 DEF Query
  <2>3. outstanding' \in [Id -> Query \cup {None}]
    BY <1>i, <1>17, <2>1, <2>2 DEF TypeOK, HandleQueryTimeout, Remove
  <2>4. down' \subseteq Server
    <3>1. down' = down \/ (outstanding[qid[c]] # None /\ down' = down \cup {outstanding[qid[c]].server})
      BY <1>17, Zenon DEF HandleQueryTimeout
    <3>2. down \subseteq Server
      BY <1>i DEF TypeOK
    <3> QED
      BY <2>2, <3>1, <3>2
  <2>5. mine' \in [Client -> Query \cup {None}]
    <3>1. UNCHANGED mine \/ mine' = [mine EXCEPT ![c] = outstanding[qid[c]]]
      BY <1>17, Zenon DEF HandleQueryTimeout
    <3>2. mine \in [Client -> Query \cup {None}]
      BY <1>i DEF TypeOK
    <3> QED
      BY <2>1, <3>1, <3>2
  <2>6. retries' \in [Client -> 0..MaxRetry]
    BY <1>i, <1>17, <2>1, <2>2 DEF TypeOK, HandleQueryTimeout, Remove
  <2>7. pc' \in [Client -> Pcs]
    <3>1. Goto(c, "done") \/ Goto(c, "retry")
      BY <1>17, Zenon DEF HandleQueryTimeout
    <3>2. pc \in [Client -> Pcs]
      BY <1>i DEF TypeOK
    <3> QED
      BY <3>1, <3>2, PcNames DEF Goto
  <2> QED
    BY <1>i, <1>17, <2>3, <2>4, <2>5, <2>6, <2>7, Zenon DEF TypeOK, HandleQueryTimeout, shared,
         local
<1>18. ASSUME NEW c \in Client, RetryTimedOut(c) PROVE TypeOK'
  <2>1. outstanding[qid[c]] \in Query \cup {None}
    BY <1>i, <1>18 DEF TypeOK, RetryTimedOut, WellFormed, Sent, Awaiting, Answered
  <2>2. server[c] \in Server
    BY <1>i, <1>18 DEF RetryTimedOut, WellFormed, Sent, Awaiting, Answered
  <2>3. outstanding' \in [Id -> Query \cup {None}]
    BY <1>i, <1>18, <2>1, <2>2 DEF TypeOK, RetryTimedOut, Remove
  <2>4. down' \subseteq Server
    BY <1>i, <1>18, <2>1, <2>2 DEF TypeOK, RetryTimedOut, Remove
  <2>5. mine' \in [Client -> Query \cup {None}]
    BY <1>i, <1>18, <2>1, <2>2 DEF TypeOK, RetryTimedOut, Remove
  <2>6. pc' \in [Client -> Pcs]
    BY <1>i, <1>18, <2>1, <2>2, PcNames DEF TypeOK, RetryTimedOut, Remove, Goto
  <2> QED
    BY <1>i, <1>18, <2>3, <2>4, <2>5, <2>6, Zenon DEF TypeOK, RetryTimedOut, shared, local
<1>19. ASSUME NEW c \in Client, Retry(c) PROVE TypeOK'
  <2>1. FreshIds \subseteq Id
    BY DEF FreshIds
  <2>2. Retries(c) \in 0..MaxRetry
    BY <1>i, <1>19 DEF TypeOK, Retry, MayRetry, Retries
  <2>3. qid' \in [Client -> Id \cup {None}]
    BY <1>i, <1>19, <2>1, <2>2 DEF TypeOK, Retry, Available, NoteCollision
  <2>4. server' \in [Client -> Server \cup {None}]
    BY <1>i, <1>19, <2>1, <2>2 DEF TypeOK, Retry, Available, NoteCollision
  <2>5. collided' \in BOOLEAN
    BY <1>i, <1>19, Zenon DEF TypeOK, Retry, Available, NoteCollision
  <2>6. retries' \in [Client -> 0..MaxRetry]
    BY <1>i, <1>19, <2>1, <2>2 DEF TypeOK, Retry, Available, NoteCollision
  <2>7. pc' \in [Client -> Pcs]
    BY <1>i, <1>19, <2>1, <2>2, PcNames DEF TypeOK, Retry, Available, NoteCollision, Goto
  <2> QED
    BY <1>i, <1>19, <2>3, <2>4, <2>5, <2>6, <2>7, Zenon DEF TypeOK, Retry, shared, local
<1>20. ASSUME NEW c \in Client, ResendFails(c) PROVE TypeOK'
  <2>1. pc' \in [Client -> Pcs]
    BY <1>i, <1>20, PcNames DEF TypeOK, ResendFails, Goto
  <2> QED
    BY <1>i, <1>20, <2>1, Zenon DEF TypeOK, ResendFails, shared, local
<1>21. ASSUME NEW c \in Client, TrackRetry(c) PROVE TypeOK'
  <2>1. [client |-> mine[c].client, server |-> server[c], retries |-> retries[c]] \in Query
    BY <1>i, <1>21 DEF TypeOK, TrackRetry, Query, WellFormed, Sent, Awaiting, Answered
  <2>2. outstanding' \in [Id -> Query \cup {None}]
    BY <1>i, <1>21, <2>1 DEF TypeOK, TrackRetry
  <2>3. mine' \in [Client -> Query \cup {None}]
    BY <1>i, <1>21, <2>1 DEF TypeOK, TrackRetry
  <2>4. pc' \in [Client -> Pcs]
    BY <1>i, <1>21, <2>1, PcNames DEF TypeOK, TrackRetry, Goto
  <2> QED
    BY <1>i, <1>21, <2>2, <2>3, <2>4, Zenon DEF TypeOK, TrackRetry, shared, local
<1>22. ASSUME NEW c \in Client, GiveUp(c) PROVE TypeOK'
  <2>1. pc' \in [Client -> Pcs]
    BY <1>i, <1>22, PcNames DEF TypeOK, GiveUp, Goto
  <2> QED
    BY <1>i, <1>22, <2>1, Zenon DEF TypeOK, GiveUp, shared, local
<1>23. ASSUME NEW s \in Server, Recover(s) PROVE TypeOK'
  <2>1. down' \subseteq Server
    BY <1>i, <1>23 DEF TypeOK, Recover
  <2> QED
    BY <1>i, <1>23, <2>1, Zenon DEF TypeOK, Recover, shared, local
<1>24. ASSUME NEW n \in Name, Expire(n) PROVE TypeOK'
  <2>1. cache' \in [Name -> Answer \cup {None}]
    BY <1>i, <1>24 DEF TypeOK, Expire
  <2> QED
    BY <1>i, <1>24, <2>1, Zenon DEF TypeOK, Expire, shared, local
<1>25. CASE UNCHANGED vars
  BY <1>i, <1>25, Zenon DEF TypeOK, vars, shared, local
<1> QED
  BY <1>1, <1>2, <1>3, <1>4, <1>5, <1>6, <1>7, <1>8, <1>9, <1>10, <1>11, <1>12, <1>13, <1>14,
       <1>15, <1>16, <1>17, <1>18, <1>19, <1>20, <1>21, <1>22, <1>23, <1>24, <1>25 DEF Next,
       Receive, Proceed

\* A task that stops waiting, or was not waiting, may remove an entry.
LEMMA RemovalKeepsAwaited ==
    ASSUME TypeOK, OutstandingIsAwaited, NEW c \in Client, NEW i \in Id, Remove(i),
           i = qid[c] \/ pc[c] \notin {"waiting", "erred", "timedOut"},
           qid' = qid, \A d \in Client \ {c} : pc'[d] = pc[d]
    PROVE  OutstandingIsAwaited'
<1> SUFFICES ASSUME NEW j \in Id, outstanding'[j] # None
             PROVE  \E d \in Client : qid'[d] = j /\ pc'[d] \in {"waiting", "erred", "timedOut"}
  BY DEF OutstandingIsAwaited
<1>1. j # i /\ outstanding[j] # None
  BY DEF Remove, TypeOK
<1>2. PICK d \in Client : qid[d] = j /\ pc[d] \in {"waiting", "erred", "timedOut"}
  BY <1>1 DEF OutstandingIsAwaited
<1>3. d # c
  BY <1>1, <1>2
<1> QED
  BY <1>2, <1>3

\* An entry leaves the map with the step that ends the wait for it.
LEMMA AwaitedStep == IInv /\ [Next]_vars => OutstandingIsAwaited'
<1> SUFFICES ASSUME IInv, [Next]_vars PROVE OutstandingIsAwaited'
  OBVIOUS
<1> USE NoneAssumption
<1>1. ASSUME NEW c \in Client, NEW name \in Name, AnswerFromCache(c, name) PROVE OutstandingIsAwaited'
  BY <1>1 DEF AnswerFromCache, Goto, shared, local, IInv, TypeOK, OutstandingIsAwaited,
       WellFormed, Sent, Awaiting, Answered
<1>2. ASSUME NEW c \in Client, NEW name \in Name, Miss(c, name) PROVE OutstandingIsAwaited'
  BY <1>2 DEF Miss, Goto, shared, local, IInv, TypeOK, OutstandingIsAwaited, WellFormed, Sent,
       Awaiting, Answered
<1>3. ASSUME NEW c \in Client, NEW about \in Name, NEW kind \in Kinds,
             UdpResponse(c, about, kind)
      PROVE  OutstandingIsAwaited'
  <2>1. TypeOK /\ OutstandingIsAwaited /\ qid[c] \in Id
    BY <1>3 DEF IInv, UdpResponse, WellFormed, Sent, Awaiting, Answered
  <2>2. qid' = qid /\ \A d \in Client \ {c} : pc'[d] = pc[d]
    BY <1>3, <2>1 DEF UdpResponse, ReplyQuery, Fail, TypeOK, Goto
  <2>3. CASE Fail(c)
    BY <2>1, <2>2, <2>3 DEF Fail, Goto, TypeOK, OutstandingIsAwaited
  <2>4. CASE Remove(qid[c])
    BY <1>3, <2>1, <2>2, <2>4, RemovalKeepsAwaited DEF UdpResponse
  <2> QED
    BY <1>3, <2>3, <2>4 DEF UdpResponse, ReplyQuery
<1>4. ASSUME NEW c \in Client, NEW about \in Name, NEW kind \in Kinds,
             TcpResponse(c, about, kind)
      PROVE  OutstandingIsAwaited'
  <2>1. TypeOK /\ OutstandingIsAwaited /\ tcpId[c] \in Id
    BY <1>4 DEF IInv, TcpResponse, WellFormed, Sent, Awaiting, Answered
  <2>2. qid' = qid /\ \A d \in Client \ {c} : pc'[d] = pc[d]
    BY <1>4, <2>1 DEF TcpResponse, ReplyQuery, Fail, TypeOK, Goto
  <2>3. CASE Fail(c)
    BY <2>1, <2>2, <2>3 DEF Fail, Goto, TypeOK, OutstandingIsAwaited
  <2>4. CASE Remove(tcpId[c])
    BY <1>4, <2>1, <2>2, <2>4, RemovalKeepsAwaited DEF TcpResponse
  <2> QED
    BY <1>4, <2>3, <2>4 DEF TcpResponse, ReplyQuery
<1>5. ASSUME NEW c \in Client, NoServer(c) PROVE OutstandingIsAwaited'
  BY <1>5 DEF NoServer, Goto, shared, local, IInv, TypeOK, OutstandingIsAwaited, WellFormed, Sent,
       Awaiting, Answered
<1>6. ASSUME NEW c \in Client, ForwardQuery(c) PROVE OutstandingIsAwaited'
  <2>1. TypeOK /\ OutstandingIsAwaited /\ outstanding' = outstanding
    BY <1>6 DEF IInv, ForwardQuery
  <2>2. \A d \in Client \ {c} : qid'[d] = qid[d] /\ pc'[d] = pc[d]
    BY <1>6, <2>1 DEF ForwardQuery, TypeOK, Goto
  <2> QED
    BY <1>6, <2>1, <2>2 DEF ForwardQuery, OutstandingIsAwaited
<1>7. ASSUME NEW c \in Client, SendFails(c) PROVE OutstandingIsAwaited'
  BY <1>7 DEF SendFails, Goto, shared, local, IInv, TypeOK, OutstandingIsAwaited, WellFormed,
       Sent, Awaiting, Answered
<1>8. ASSUME NEW c \in Client, Track(c) PROVE OutstandingIsAwaited'
  BY <1>8 DEF Track, Goto, shared, local, IInv, TypeOK, OutstandingIsAwaited, WellFormed, Sent,
       Awaiting, Answered
<1>9. ASSUME NEW c \in Client, TcpConnect(c) PROVE OutstandingIsAwaited'
  BY <1>9 DEF TcpConnect, Goto, NoteCollision, shared, local, IInv, TypeOK, OutstandingIsAwaited,
       WellFormed, Sent, Awaiting, Answered
<1>10. ASSUME NEW c \in Client, NetworkError(c) PROVE OutstandingIsAwaited'
  BY <1>10 DEF NetworkError, Goto, shared, local, IInv, TypeOK, OutstandingIsAwaited, WellFormed,
       Sent, Awaiting, Answered
<1>11. ASSUME NEW c \in Client, MarkAvailable(c) PROVE OutstandingIsAwaited'
  BY <1>11 DEF MarkAvailable, Goto, shared, local, IInv, TypeOK, OutstandingIsAwaited, WellFormed,
       Sent, Awaiting, Answered
<1>12. ASSUME NEW c \in Client, Store(c) PROVE OutstandingIsAwaited'
  BY <1>12 DEF Store, Goto, shared, local, IInv, TypeOK, OutstandingIsAwaited, WellFormed, Sent,
       Awaiting, Answered
<1>13. ASSUME NEW c \in Client, SendReply(c) PROVE OutstandingIsAwaited'
  BY <1>13 DEF SendReply, Goto, shared, local, IInv, TypeOK, OutstandingIsAwaited, WellFormed,
       Sent, Awaiting, Answered
<1>14. ASSUME NEW c \in Client, SendReplyFails(c) PROVE OutstandingIsAwaited'
  BY <1>14 DEF SendReplyFails, Goto, shared, local, IInv, TypeOK, OutstandingIsAwaited,
       WellFormed, Sent, Awaiting, Answered
<1>15. ASSUME NEW c \in Client, HandleQueryError(c) PROVE OutstandingIsAwaited'
  BY <1>15 DEF HandleQueryError, Goto, Remove, shared, local, IInv, TypeOK, OutstandingIsAwaited,
       WellFormed, Sent, Awaiting, Answered
<1>16. ASSUME NEW c \in Client, Timeout(c) PROVE OutstandingIsAwaited'
  BY <1>16 DEF Timeout, Goto, shared, local, IInv, TypeOK, OutstandingIsAwaited, WellFormed, Sent,
       Awaiting, Answered
<1>17. ASSUME NEW c \in Client, HandleQueryTimeout(c) PROVE OutstandingIsAwaited'
  <2>1. TypeOK /\ OutstandingIsAwaited /\ qid[c] \in Id
    BY <1>17 DEF IInv, HandleQueryTimeout, WellFormed, Sent, Awaiting, Answered
  <2>2. qid' = qid /\ Remove(qid[c]) /\ \A d \in Client \ {c} : pc'[d] = pc[d]
    BY <1>17, <2>1 DEF HandleQueryTimeout, TypeOK, Goto
  <2> QED
    BY <2>1, <2>2, RemovalKeepsAwaited
<1>18. ASSUME NEW c \in Client, RetryTimedOut(c) PROVE OutstandingIsAwaited'
  BY <1>18 DEF RetryTimedOut, Goto, Remove, shared, local, IInv, TypeOK, OutstandingIsAwaited,
       WellFormed, Sent, Awaiting, Answered
<1>19. ASSUME NEW c \in Client, Retry(c) PROVE OutstandingIsAwaited'
  <2>1. TypeOK /\ OutstandingIsAwaited /\ outstanding' = outstanding
    BY <1>19 DEF IInv, Retry
  <2>2. \A d \in Client \ {c} : qid'[d] = qid[d] /\ pc'[d] = pc[d]
    BY <1>19, <2>1 DEF Retry, TypeOK, Goto
  <2> QED
    BY <1>19, <2>1, <2>2 DEF Retry, OutstandingIsAwaited
<1>20. ASSUME NEW c \in Client, ResendFails(c) PROVE OutstandingIsAwaited'
  BY <1>20 DEF ResendFails, Goto, shared, local, IInv, TypeOK, OutstandingIsAwaited, WellFormed,
       Sent, Awaiting, Answered
<1>21. ASSUME NEW c \in Client, TrackRetry(c) PROVE OutstandingIsAwaited'
  BY <1>21 DEF TrackRetry, Goto, shared, local, IInv, TypeOK, OutstandingIsAwaited, WellFormed,
       Sent, Awaiting, Answered
<1>22. ASSUME NEW c \in Client, GiveUp(c) PROVE OutstandingIsAwaited'
  BY <1>22 DEF GiveUp, Goto, shared, local, IInv, TypeOK, OutstandingIsAwaited, WellFormed, Sent,
       Awaiting, Answered
<1>23. ASSUME NEW s \in Server, Recover(s) PROVE OutstandingIsAwaited'
  BY <1>23 DEF Recover, Goto, shared, local, IInv, TypeOK, OutstandingIsAwaited, WellFormed, Sent,
       Awaiting, Answered
<1>24. ASSUME NEW n \in Name, Expire(n) PROVE OutstandingIsAwaited'
  BY <1>24 DEF Expire, Goto, shared, local, IInv, TypeOK, OutstandingIsAwaited, WellFormed, Sent,
       Awaiting, Answered
<1>25. CASE UNCHANGED vars
  BY <1>25 DEF vars, shared, local, IInv, TypeOK, OutstandingIsAwaited, WellFormed, Sent,
       Awaiting, Answered
<1> QED
  BY <1>1, <1>2, <1>3, <1>4, <1>5, <1>6, <1>7, <1>8, <1>9, <1>10, <1>11, <1>12, <1>13, <1>14,
       <1>15, <1>16, <1>17, <1>18, <1>19, <1>20, <1>21, <1>22, <1>23, <1>24, <1>25 DEF Next,
       Receive, Proceed

\* A task has in hand what the code at its place uses.
LEMMA WellFormedStep == IInv /\ [Next]_vars => WellFormed'
<1> SUFFICES ASSUME IInv, [Next]_vars PROVE WellFormed'
  OBVIOUS
<1> USE NoneAssumption
<1>1. ASSUME NEW c \in Client, NEW name \in Name, AnswerFromCache(c, name) PROVE WellFormed'
  BY <1>1 DEF AnswerFromCache, Goto, shared, local, IInv, TypeOK, WellFormed, Sent, Awaiting,
       Answered, Query
<1>2. ASSUME NEW c \in Client, NEW name \in Name, Miss(c, name) PROVE WellFormed'
  BY <1>2 DEF Miss, Goto, shared, local, IInv, TypeOK, WellFormed, Sent, Awaiting, Answered, Query
<1>3. ASSUME NEW c \in Client, NEW about \in Name, NEW kind \in Kinds,
             UdpResponse(c, about, kind)
      PROVE  WellFormed'
  <2>1. TypeOK /\ WellFormed
    BY DEF IInv
  <2>2. qid[c] \in Id /\ asked[Carries(c)] \in Name
    BY <1>3, <2>1 DEF UdpResponse, TypeOK, Query, WellFormed, Sent, Awaiting, Answered, Carries
  <2>3. \A d \in Client : (d # c => pc'[d] = pc[d]) /\ (pc'[d] = "idle" <=> pc[d] = "idle")
    BY <1>3, <2>1 DEF UdpResponse, ReplyQuery, Fail, TypeOK, Goto
  <2>4. CASE Fail(c)
    BY <1>3, <2>1, <2>2, <2>3, <2>4 DEF UdpResponse, ReplyQuery, Fail, Goto, TypeOK, Query,
         WellFormed, Sent, Awaiting, Answered
  <2>5. CASE Remove(qid[c]) /\ outstanding[qid[c]] # None
    <3>1. \A j \in Id : outstanding'[j] # None => pc'[outstanding'[j].client] # "idle"
      BY <2>1, <2>2, <2>3, <2>5 DEF Remove, TypeOK, Query, WellFormed
    <3>2. outstanding[qid[c]] \in Query /\ pc'[outstanding[qid[c]].client] # "idle"
      BY <2>1, <2>2, <2>3, <2>5 DEF TypeOK, Query, WellFormed
    <3>3. taken' = [taken EXCEPT ![c] = outstanding[qid[c]]]
      BY <1>3, <2>1, <2>2, <2>5 DEF UdpResponse, ReplyQuery, Fail, Remove, TypeOK
    <3>4. pc'[c] \in Answered => resp'[c] \in Answer
      BY <1>3, <2>1, <2>2, <2>5 DEF UdpResponse, ReplyQuery, Fail, TypeOK, Goto, Answered, Answer
    <3>5. \A d \in Client \ {c} : resp'[d] = resp[d]
      BY <1>3, <2>1 DEF UdpResponse, ReplyQuery, Fail, TypeOK
    <3>6. pc'[c] \in Answered \cup {"erred", "tcp"}
      BY <1>3, <2>1 DEF UdpResponse, ReplyQuery, Fail, TypeOK, Goto, Answered
    <3>7. UNCHANGED <<asked, qid, tcpId, server, mine>>
      BY <1>3 DEF UdpResponse, ReplyQuery
    <3>8. pc[c] \in Sent /\ pc[c] # "idle"
      BY <1>3 DEF UdpResponse, WellFormed, Sent, Awaiting, Answered
    <3>9. taken'[c] \in Query /\ pc'[taken'[c].client] # "idle"
      BY <2>1, <3>2, <3>3 DEF TypeOK
    <3>10. \A d \in Client \ {c} : taken'[d] = taken[d]
      BY <2>1, <3>3 DEF TypeOK
    <3>11. \A d \in Client : mine'[d] # None => pc'[mine'[d].client] # "idle"
      BY <2>1, <2>3, <3>7 DEF TypeOK, WellFormed, Query
    <3>12. \A d \in Client : taken'[d] # None => pc'[taken'[d].client] # "idle"
      <4>1. ASSUME NEW d \in Client \ {c}, taken[d] # None PROVE pc'[taken[d].client] # "idle"
        <5>1. taken[d].client \in Client
          BY <2>1, <4>1 DEF TypeOK, Query
        <5>2. pc[taken[d].client] # "idle"
          BY <2>1, <4>1 DEF WellFormed
        <5> QED
          BY <2>3, <5>1, <5>2
      <4> QED
        BY <3>9, <3>10, <4>1
    <3>13. asked'[c] \in Name /\ qid'[c] \in Id /\ server'[c] \in Server
      BY <2>1, <3>7, <3>8 DEF WellFormed
    <3>14. pc'[c] \notin {"idle", "missed", "tcpWait", "retry", "resending"}
      BY <3>6 DEF Answered
    <3>15. \A d \in Client \ {c} : pc'[d] = pc[d]
      BY <2>3
    <3>16. \A d \in Client : d \in fooled' => pc'[d] # "idle"
      <4>1. \A d \in Client : d \in fooled' => d \in fooled \/ d = c
        BY <1>3 DEF UdpResponse, ReplyQuery, Fail
      <4>2. \A d \in Client : d \in fooled => pc[d] # "idle"
        BY <2>1 DEF WellFormed
      <4> QED
        BY <2>3, <3>8, <4>1, <4>2
    <3> HIDE DEF Sent, Answered, Query
    <3> QED
      BY <2>1, <3>1, <3>4, <3>5, <3>7, <3>9, <3>10, <3>11, <3>12, <3>13, <3>14, <3>15, <3>16
         DEF WellFormed
  <2> QED
    BY <1>3, <2>4, <2>5 DEF UdpResponse, ReplyQuery
<1>4. ASSUME NEW c \in Client, NEW about \in Name, NEW kind \in Kinds,
             TcpResponse(c, about, kind)
      PROVE  WellFormed'
  <2>1. TypeOK /\ WellFormed
    BY DEF IInv
  <2>2. tcpId[c] \in Id /\ asked[taken[c].client] \in Name
    BY <1>4, <2>1 DEF TcpResponse, TypeOK, Query, WellFormed, Sent, Awaiting, Answered
  <2>3. \A d \in Client : (d # c => pc'[d] = pc[d]) /\ (pc'[d] = "idle" <=> pc[d] = "idle")
    BY <1>4, <2>1 DEF TcpResponse, ReplyQuery, Fail, TypeOK, Goto
  <2>4. CASE Fail(c)
    BY <1>4, <2>1, <2>2, <2>3, <2>4 DEF TcpResponse, ReplyQuery, Fail, Goto, TypeOK, Query,
         WellFormed, Sent, Awaiting, Answered
  <2>5. CASE Remove(tcpId[c]) /\ outstanding[tcpId[c]] # None
    <3>1. \A j \in Id : outstanding'[j] # None => pc'[outstanding'[j].client] # "idle"
      BY <2>1, <2>2, <2>3, <2>5 DEF Remove, TypeOK, Query, WellFormed
    <3>2. outstanding[tcpId[c]] \in Query /\ pc'[outstanding[tcpId[c]].client] # "idle"
      BY <2>1, <2>2, <2>3, <2>5 DEF TypeOK, Query, WellFormed
    <3>3. taken' = [taken EXCEPT ![c] = outstanding[tcpId[c]]]
      BY <1>4, <2>1, <2>2, <2>5 DEF TcpResponse, ReplyQuery, Fail, Remove, TypeOK
    <3>4. pc'[c] \in Answered => resp'[c] \in Answer
      BY <1>4, <2>1, <2>2, <2>5 DEF TcpResponse, ReplyQuery, Fail, TypeOK, Goto, Answered, Answer
    <3>5. \A d \in Client \ {c} : resp'[d] = resp[d]
      BY <1>4, <2>1 DEF TcpResponse, ReplyQuery, Fail, TypeOK
    <3>6. pc'[c] \in Answered \cup {"erred", "tcp"}
      BY <1>4, <2>1 DEF TcpResponse, ReplyQuery, Fail, TypeOK, Goto, Answered
    <3>7. UNCHANGED <<asked, qid, tcpId, server, mine>>
      BY <1>4 DEF TcpResponse, ReplyQuery
    <3>8. pc[c] \in Sent /\ pc[c] # "idle"
      BY <1>4 DEF TcpResponse, WellFormed, Sent, Awaiting, Answered
    <3>9. taken'[c] \in Query /\ pc'[taken'[c].client] # "idle"
      BY <2>1, <3>2, <3>3 DEF TypeOK
    <3>10. \A d \in Client \ {c} : taken'[d] = taken[d]
      BY <2>1, <3>3 DEF TypeOK
    <3>11. \A d \in Client : mine'[d] # None => pc'[mine'[d].client] # "idle"
      BY <2>1, <2>3, <3>7 DEF TypeOK, WellFormed, Query
    <3>12. \A d \in Client : taken'[d] # None => pc'[taken'[d].client] # "idle"
      <4>1. ASSUME NEW d \in Client \ {c}, taken[d] # None PROVE pc'[taken[d].client] # "idle"
        <5>1. taken[d].client \in Client
          BY <2>1, <4>1 DEF TypeOK, Query
        <5>2. pc[taken[d].client] # "idle"
          BY <2>1, <4>1 DEF WellFormed
        <5> QED
          BY <2>3, <5>1, <5>2
      <4> QED
        BY <3>9, <3>10, <4>1
    <3>13. asked'[c] \in Name /\ qid'[c] \in Id /\ server'[c] \in Server
      BY <2>1, <3>7, <3>8 DEF WellFormed
    <3>14. pc'[c] \notin {"idle", "missed", "tcpWait", "retry", "resending"}
      BY <3>6 DEF Answered
    <3>15. \A d \in Client \ {c} : pc'[d] = pc[d]
      BY <2>3
    <3>16. \A d \in Client : d \in fooled' => pc'[d] # "idle"
      <4>1. \A d \in Client : d \in fooled' => d \in fooled \/ d = c
        BY <1>4 DEF TcpResponse, ReplyQuery, Fail
      <4>2. \A d \in Client : d \in fooled => pc[d] # "idle"
        BY <2>1 DEF WellFormed
      <4> QED
        BY <2>3, <3>8, <4>1, <4>2
    <3> HIDE DEF Sent, Answered, Query
    <3> QED
      BY <2>1, <3>1, <3>4, <3>5, <3>7, <3>9, <3>10, <3>11, <3>12, <3>13, <3>14, <3>15, <3>16
         DEF WellFormed
  <2> QED
    BY <1>4, <2>4, <2>5 DEF TcpResponse, ReplyQuery
<1>5. ASSUME NEW c \in Client, NoServer(c) PROVE WellFormed'
  BY <1>5 DEF NoServer, Goto, shared, local, IInv, TypeOK, WellFormed, Sent, Awaiting, Answered,
       Query
<1>6. ASSUME NEW c \in Client, ForwardQuery(c) PROVE WellFormed'
  <2>1. TypeOK /\ WellFormed /\ FreshIds \subseteq Id
    BY DEF IInv, FreshIds
  <2>2. qid'[c] \in Id /\ \A d \in Client \ {c} : qid'[d] = qid[d]
    BY <1>6, <2>1 DEF ForwardQuery, TypeOK
  <2>3. \A d \in Client : d # c => pc'[d] = pc[d] /\ server'[d] = server[d]
    BY <1>6, <2>1 DEF ForwardQuery, TypeOK, Goto
  <2>4. server'[c] \in Server
    BY <1>6, <2>1 DEF ForwardQuery, TypeOK, Available, WellFormed, Sent, Awaiting, Answered
  <2> QED
    BY <1>6, <2>1, <2>2, <2>3, <2>4 DEF ForwardQuery, Goto, TypeOK, Query, WellFormed, Sent,
         Awaiting, Answered
<1>7. ASSUME NEW c \in Client, SendFails(c) PROVE WellFormed'
  BY <1>7 DEF SendFails, Goto, shared, local, IInv, TypeOK, WellFormed, Sent, Awaiting, Answered,
       Query
<1>8. ASSUME NEW c \in Client, Track(c) PROVE WellFormed'
  BY <1>8 DEF Track, Goto, shared, local, IInv, TypeOK, WellFormed, Sent, Awaiting, Answered, Query
<1>9. ASSUME NEW c \in Client, TcpConnect(c) PROVE WellFormed'
  <2>1. TypeOK /\ WellFormed /\ FreshIds \subseteq Id
    BY DEF IInv, FreshIds
  <2>2. tcpId'[c] \in Id /\ \A d \in Client \ {c} : tcpId'[d] = tcpId[d]
    BY <1>9, <2>1 DEF TcpConnect, TypeOK
  <2>3. \A d \in Client : d # c => pc'[d] = pc[d] /\ server'[d] = server[d]
    BY <1>9, <2>1 DEF TcpConnect, TypeOK, Goto
  <2>4. server'[c] \in Server
    BY <1>9, <2>1 DEF TcpConnect, TypeOK, Available, WellFormed, Sent, Awaiting, Answered
  <2> QED
    BY <1>9, <2>1, <2>2, <2>3, <2>4 DEF TcpConnect, Goto, TypeOK, Query, WellFormed, Sent,
         Awaiting, Answered
<1>10. ASSUME NEW c \in Client, NetworkError(c) PROVE WellFormed'
  BY <1>10 DEF NetworkError, Goto, shared, local, IInv, TypeOK, WellFormed, Sent, Awaiting,
       Answered, Query
<1>11. ASSUME NEW c \in Client, MarkAvailable(c) PROVE WellFormed'
  BY <1>11 DEF MarkAvailable, Goto, shared, local, IInv, TypeOK, WellFormed, Sent, Awaiting,
       Answered, Query
<1>12. ASSUME NEW c \in Client, Store(c) PROVE WellFormed'
  BY <1>12 DEF Store, Goto, shared, local, IInv, TypeOK, WellFormed, Sent, Awaiting, Answered, Query
<1>13. ASSUME NEW c \in Client, SendReply(c) PROVE WellFormed'
  BY <1>13 DEF SendReply, Goto, shared, local, IInv, TypeOK, WellFormed, Sent, Awaiting, Answered,
       Query
<1>14. ASSUME NEW c \in Client, SendReplyFails(c) PROVE WellFormed'
  BY <1>14 DEF SendReplyFails, Goto, shared, local, IInv, TypeOK, WellFormed, Sent, Awaiting,
       Answered, Query
<1>15. ASSUME NEW c \in Client, HandleQueryError(c) PROVE WellFormed'
  BY <1>15 DEF HandleQueryError, Goto, Remove, shared, local, IInv, TypeOK, WellFormed, Sent,
       Awaiting, Answered, Query
<1>16. ASSUME NEW c \in Client, Timeout(c) PROVE WellFormed'
  <2>1. TypeOK /\ WellFormed /\ pc[c] \in Sent /\ pc[c] # "idle"
    BY <1>16 DEF IInv, Timeout, Cancellable, Sent, Awaiting, Answered
  <2>2. pc'[c] = "timedOut" /\ \A d \in Client \ {c} : pc'[d] = pc[d]
    BY <1>16, <2>1 DEF Timeout, Goto, TypeOK
  <2> QED
    BY <1>16, <2>1, <2>2 DEF Timeout, shared, TypeOK, Query, WellFormed, Sent, Awaiting, Answered
<1>17. ASSUME NEW c \in Client, HandleQueryTimeout(c) PROVE WellFormed'
  <2>1. /\ pc[c] = "timedOut" /\ Remove(qid[c])
        /\ \/ Goto(c, "done") /\ UNCHANGED mine
           \/ /\ outstanding[qid[c]] # None /\ Goto(c, "retry")
              /\ mine' = [mine EXCEPT ![c] = outstanding[qid[c]]]
        /\ UNCHANGED <<fooled, asked, qid, tcpId, server, taken, resp>>
    BY <1>17, Zenon DEF HandleQueryTimeout
  <2>2. TypeOK /\ WellFormed
    BY DEF IInv
  <2> QED
    BY <2>1, <2>2 DEF Goto, Remove, TypeOK, WellFormed, Sent, Awaiting, Answered, Query
<1>18. ASSUME NEW c \in Client, RetryTimedOut(c) PROVE WellFormed'
  BY <1>18 DEF RetryTimedOut, Goto, Remove, shared, local, IInv, TypeOK, WellFormed, Sent,
       Awaiting, Answered, Query
<1>19. ASSUME NEW c \in Client, Retry(c) PROVE WellFormed'
  <2>1. TypeOK /\ WellFormed /\ FreshIds \subseteq Id
    BY DEF IInv, FreshIds
  <2>2. qid'[c] \in Id /\ \A d \in Client \ {c} : qid'[d] = qid[d]
    BY <1>19, <2>1 DEF Retry, TypeOK
  <2>3. \A d \in Client : d # c => pc'[d] = pc[d] /\ server'[d] = server[d]
    BY <1>19, <2>1 DEF Retry, TypeOK, Goto
  <2>4. server'[c] \in Server
    BY <1>19, <2>1 DEF Retry, TypeOK, Available, WellFormed, Sent, Awaiting, Answered
  <2> QED
    BY <1>19, <2>1, <2>2, <2>3, <2>4 DEF Retry, Goto, TypeOK, Query, WellFormed, Sent, Awaiting,
         Answered
<1>20. ASSUME NEW c \in Client, ResendFails(c) PROVE WellFormed'
  BY <1>20 DEF ResendFails, Goto, shared, local, IInv, TypeOK, WellFormed, Sent, Awaiting,
       Answered, Query
<1>21. ASSUME NEW c \in Client, TrackRetry(c) PROVE WellFormed'
  BY <1>21 DEF TrackRetry, Goto, shared, local, IInv, TypeOK, WellFormed, Sent, Awaiting,
       Answered, Query
<1>22. ASSUME NEW c \in Client, GiveUp(c) PROVE WellFormed'
  BY <1>22 DEF GiveUp, Goto, shared, local, IInv, TypeOK, WellFormed, Sent, Awaiting, Answered,
       Query
<1>23. ASSUME NEW s \in Server, Recover(s) PROVE WellFormed'
  BY <1>23 DEF Recover, Goto, shared, local, IInv, TypeOK, WellFormed, Sent, Awaiting, Answered,
       Query
<1>24. ASSUME NEW n \in Name, Expire(n) PROVE WellFormed'
  BY <1>24 DEF Expire, Goto, shared, local, IInv, TypeOK, WellFormed, Sent, Awaiting, Answered,
       Query
<1>25. CASE UNCHANGED vars
  BY <1>25 DEF vars, shared, local, IInv, TypeOK, WellFormed, Sent, Awaiting, Answered, Query
<1> QED
  BY <1>1, <1>2, <1>3, <1>4, <1>5, <1>6, <1>7, <1>8, <1>9, <1>10, <1>11, <1>12, <1>13, <1>14,
       <1>15, <1>16, <1>17, <1>18, <1>19, <1>20, <1>21, <1>22, <1>23, <1>24, <1>25 DEF Next,
       Receive, Proceed

\* A draw that does not count as a collision gives an id no other task uses.
LEMMA FreshDraw ==
    ASSUME NEW c \in Client, NEW id, NoteCollision(c, id), ~collided'
    PROVE  /\ ~collided
           /\ \A d \in Client \ {c} : Running(d) => id # qid[d] /\ id # tcpId[d]
  BY DEF NoteCollision

\* An id stays private when no task starts to use it.
LEMMA FewerUses ==
    ASSUME OneUser, qid' = qid, \A d \in Client : tcpId'[d] \in {tcpId[d], None},
           \A d \in Client : Running(d)' => Running(d)
    PROVE  OneUser'
  BY NoneAssumption DEF OneUser, Uses

\* What a task finds in the map under an id it uses is its own query.
LEMMA EntryIsOwn ==
    ASSUME TypeOK, OneUser, OwnEntry, NEW c \in Client, NEW i \in Id, Uses(c, i),
           outstanding[i] # None
    PROVE  outstanding[i].client = c
<1>1. outstanding[i].client \in Client
  BY DEF TypeOK, Query
<1>2. Uses(outstanding[i].client, i)
  BY <1>1 DEF OwnEntry, Uses, Running, Over, Awaiting
<1> QED
  BY <1>1, <1>2 DEF OneUser

\* Without a collision no two running tasks use the same id.
LEMMA OneUserStep ==
    ASSUME IInv, [Next]_vars, ~collided, ~collided'
    PROVE  OneUser'
<1> USE NoneAssumption
<1>1. ASSUME NEW c \in Client, NEW name \in Name, AnswerFromCache(c, name) PROVE OneUser'
  BY <1>1 DEF AnswerFromCache, Goto, shared, local, IInv, TypeOK, Private, OneUser, Uses, Running,
       Over
<1>2. ASSUME NEW c \in Client, NEW name \in Name, Miss(c, name) PROVE OneUser'
  <2>1. TypeOK /\ OneUser /\ qid[c] = None /\ tcpId[c] = None
    BY <1>2 DEF IInv, Private, WellFormed, Miss
  <2>2. qid' = qid /\ tcpId' = tcpId /\ \A d \in Client \ {c} : pc'[d] = pc[d]
    BY <1>2, <2>1 DEF Miss, Goto, TypeOK
  <2> QED
    BY <2>1, <2>2 DEF OneUser, Uses, Running
<1>3. ASSUME NEW c \in Client, NEW about \in Name, NEW kind \in Kinds,
             UdpResponse(c, about, kind)
      PROVE  OneUser'
  <2>1. TypeOK /\ OneUser /\ WellFormed
    BY DEF IInv, Private
  <2>2. qid' = qid /\ \A d \in Client : tcpId'[d] \in {tcpId[d], None}
    BY <1>3, <2>1 DEF UdpResponse, shared, local, TypeOK, ReplyQuery, Fail
  <2>3. \A d \in Client : Running(d)' => Running(d)
    BY <1>3, <2>1 DEF UdpResponse, Goto, Running, Over, Cancellable, TypeOK, ReplyQuery, Fail
  <2> QED
    BY <2>1, <2>2, <2>3, FewerUses
<1>4. ASSUME NEW c \in Client, NEW about \in Name, NEW kind \in Kinds,
             TcpResponse(c, about, kind)
      PROVE  OneUser'
  <2>1. TypeOK /\ OneUser /\ WellFormed
    BY DEF IInv, Private
  <2>2. qid' = qid /\ \A d \in Client : tcpId'[d] \in {tcpId[d], None}
    BY <1>4, <2>1 DEF TcpResponse, shared, local, TypeOK, ReplyQuery, Fail
  <2>3. \A d \in Client : Running(d)' => Running(d)
    BY <1>4, <2>1 DEF TcpResponse, Goto, Running, Over, Cancellable, TypeOK, ReplyQuery, Fail
  <2> QED
    BY <2>1, <2>2, <2>3, FewerUses
<1>5. ASSUME NEW c \in Client, NoServer(c) \/ SendFails(c) \/ NetworkError(c) \/ SendReplyFails(c) \/ ResendFails(c) \/ GiveUp(c)
     PROVE  OneUser'
  <2>1. TypeOK /\ OneUser /\ WellFormed
    BY DEF IInv, Private
  <2>2. qid' = qid /\ \A d \in Client : tcpId'[d] \in {tcpId[d], None}
    BY <1>5, <2>1 DEF NoServer, shared, local, TypeOK, SendFails, NetworkError, SendReplyFails,
         ResendFails, GiveUp
  <2>3. \A d \in Client : Running(d)' => Running(d)
    BY <1>5, <2>1 DEF NoServer, Goto, Running, Over, Cancellable, TypeOK, SendFails, NetworkError,
         SendReplyFails, ResendFails, GiveUp
  <2> QED
    BY <2>1, <2>2, <2>3, FewerUses
<1>6. ASSUME NEW c \in Client, ForwardQuery(c) PROVE OneUser'
  <2>1. PICK id \in FreshIds : qid' = [qid EXCEPT ![c] = id] /\ NoteCollision(c, id)
    BY <1>6 DEF ForwardQuery
  <2>2. \A d \in Client \ {c} : Running(d) => id # qid[d] /\ id # tcpId[d]
    BY <2>1, FreshDraw
  <2> QED
    BY <1>6, <2>1, <2>2 DEF ForwardQuery, Goto, IInv, TypeOK, Private, OneUser, Uses, Running, Over
<1>7. ASSUME NEW c \in Client, Track(c) PROVE OneUser'
  BY <1>7 DEF Track, Goto, shared, local, IInv, TypeOK, Private, OneUser, Uses, Running, Over
<1>8. ASSUME NEW c \in Client, TcpConnect(c) PROVE OneUser'
  <2>1. PICK id \in FreshIds : tcpId' = [tcpId EXCEPT ![c] = id] /\ NoteCollision(c, id)
    BY <1>8 DEF TcpConnect
  <2>2. \A d \in Client \ {c} : Running(d) => id # qid[d] /\ id # tcpId[d]
    BY <2>1, FreshDraw
  <2> QED
    BY <1>8, <2>1, <2>2 DEF TcpConnect, Goto, IInv, TypeOK, Private, OneUser, Uses, Running, Over
<1>9. ASSUME NEW c \in Client, MarkAvailable(c) \/ Store(c)
     PROVE  OneUser'
  <2>1. /\ TypeOK /\ OneUser /\ Running(c) /\ UNCHANGED <<qid, tcpId>>
        /\ Goto(c, "marked") \/ Goto(c, "stored")
    BY <1>9 DEF MarkAvailable, Store, local, IInv, Private, Running, Over
  <2>2. \A d \in Client : pc'[d] \notin Over => pc[d] \notin Over
    BY <2>1 DEF Goto, TypeOK, Running
  <2> QED
    BY <2>1, <2>2 DEF OneUser, Uses, Running
<1>10. ASSUME NEW c \in Client, SendReply(c) PROVE OneUser'
  BY <1>10 DEF SendReply, Goto, shared, local, IInv, TypeOK, Private, OneUser, Uses, Running, Over
<1>11. ASSUME NEW c \in Client, HandleQueryError(c) PROVE OneUser'
  BY <1>11 DEF HandleQueryError, Remove, Goto, shared, local, IInv, TypeOK, Private, OneUser,
       Uses, Running, Over
<1>12. ASSUME NEW c \in Client, Timeout(c) PROVE OneUser'
  <2>1. TypeOK /\ OneUser /\ WellFormed
    BY DEF IInv, Private
  <2>2. qid' = qid /\ \A d \in Client : tcpId'[d] \in {tcpId[d], None}
    BY <1>12, <2>1 DEF Timeout, shared, local, TypeOK
  <2>3. \A d \in Client : Running(d)' => Running(d)
    BY <1>12, <2>1 DEF Timeout, Goto, Running, Over, Cancellable, TypeOK
  <2> QED
    BY <2>1, <2>2, <2>3, FewerUses
<1>13. ASSUME NEW c \in Client, HandleQueryTimeout(c) PROVE OneUser'
  <2>1. TypeOK /\ OneUser /\ WellFormed
    BY DEF IInv, Private
  <2>2. qid' = qid /\ \A d \in Client : tcpId'[d] \in {tcpId[d], None}
    BY <1>13, <2>1 DEF HandleQueryTimeout, shared, local, TypeOK
  <2>3. \A d \in Client : Running(d)' => Running(d)
    BY <1>13, <2>1 DEF HandleQueryTimeout, Goto, Running, Over, Cancellable, TypeOK
  <2> QED
    BY <2>1, <2>2, <2>3, FewerUses
<1>14. ASSUME NEW c \in Client, RetryTimedOut(c) PROVE OneUser'
  BY <1>14 DEF RetryTimedOut, Remove, Goto, shared, local, IInv, TypeOK, Private, OneUser, Uses,
       Running, Over
<1>15. ASSUME NEW c \in Client, Retry(c) PROVE OneUser'
  <2>1. PICK id \in FreshIds : qid' = [qid EXCEPT ![c] = id] /\ NoteCollision(c, id)
    BY <1>15 DEF Retry
  <2>2. \A d \in Client \ {c} : Running(d) => id # qid[d] /\ id # tcpId[d]
    BY <2>1, FreshDraw
  <2> QED
    BY <1>15, <2>1, <2>2 DEF Retry, Goto, IInv, TypeOK, Private, OneUser, Uses, Running, Over
<1>16. ASSUME NEW c \in Client, TrackRetry(c) PROVE OneUser'
  BY <1>16 DEF TrackRetry, Goto, shared, local, IInv, TypeOK, Private, OneUser, Uses, Running, Over
<1>17. ASSUME NEW s \in Server, Recover(s) PROVE OneUser'
  BY <1>17 DEF Recover, Goto, shared, local, IInv, TypeOK, Private, OneUser, Uses, Running, Over
<1>18. ASSUME NEW n \in Name, Expire(n) PROVE OneUser'
  BY <1>18 DEF Expire, Goto, shared, local, IInv, TypeOK, Private, OneUser, Uses, Running, Over
<1>19. CASE UNCHANGED vars
  BY <1>19 DEF vars, shared, local, IInv, TypeOK, Private, OneUser, Uses, Running, Over
<1> QED
  BY <1>1, <1>2, <1>3, <1>4, <1>5, <1>6, <1>7, <1>8, <1>9, <1>10, <1>11, <1>12, <1>13, <1>14,
       <1>15, <1>16, <1>17, <1>18, <1>19 DEF Next, Receive, Proceed

\* The entry under an id is the query of the task that waits under it.
LEMMA OwnEntryStep ==
    ASSUME IInv, [Next]_vars, ~collided, ~collided'
    PROVE  OwnEntry'
<1> USE NoneAssumption
<1>1. ASSUME NEW c \in Client, NEW name \in Name, AnswerFromCache(c, name) PROVE OwnEntry'
  BY <1>1 DEF AnswerFromCache, Goto, shared, local, IInv, TypeOK, Private, OneUser, OwnEntry,
       OwnQuery, Uses, Running, Over, Query, WellFormed, Sent, Awaiting, Answered
<1>2. ASSUME NEW c \in Client, NEW name \in Name, Miss(c, name) PROVE OwnEntry'
  BY <1>2 DEF Miss, Goto, shared, local, IInv, TypeOK, Private, OneUser, OwnEntry, OwnQuery, Uses,
       Running, Over, Query, WellFormed, Sent, Awaiting, Answered
<1>3. ASSUME NEW c \in Client, NEW about \in Name, NEW kind \in Kinds,
             UdpResponse(c, about, kind)
      PROVE  OwnEntry'
  <2>1. TypeOK /\ WellFormed /\ OneUser /\ OwnEntry /\ OwnQuery /\ OwnAnswer
    BY DEF IInv, Private
  <2>2. \A d \in Client \ {c} : pc'[d] = pc[d]
    BY <1>3, <2>1 DEF UdpResponse, Goto, TypeOK, ReplyQuery, Fail
  <2>3. qid' = qid /\ qid[c] \in Id
    BY <1>3, <2>1 DEF UdpResponse, WellFormed, Sent, Awaiting, Answered, ReplyQuery, Fail
  <2>4. CASE Fail(c)
    BY <2>1, <2>2, <2>3, <2>4 DEF Fail, Goto, TypeOK, OwnEntry, Awaiting
  <2>5. CASE Remove(qid[c])
    <3> SUFFICES ASSUME NEW j \in Id, j # qid[c], outstanding[j] # None
                 PROVE  qid[outstanding[j].client] = j /\ pc'[outstanding[j].client] \in Awaiting
      BY <2>1, <2>3, <2>5 DEF Remove, TypeOK, OwnEntry
    <3>1. outstanding[j].client \in Client /\ qid[outstanding[j].client] = j /\ pc[outstanding[j].client] \in Awaiting
      BY <2>1 DEF TypeOK, Query, OwnEntry
    <3>2. outstanding[j].client # c
      BY <1>3, <3>1 DEF UdpResponse, Awaiting
    <3> QED
      BY <2>2, <3>1, <3>2
  <2> QED
    BY <1>3, <2>4, <2>5 DEF UdpResponse, ReplyQuery
<1>4. ASSUME NEW c \in Client, NEW about \in Name, NEW kind \in Kinds,
             TcpResponse(c, about, kind)
      PROVE  OwnEntry'
  <2>1. TypeOK /\ WellFormed /\ OneUser /\ OwnEntry /\ OwnQuery /\ OwnAnswer
    BY DEF IInv, Private
  <2>2. \A d \in Client \ {c} : pc'[d] = pc[d]
    BY <1>4, <2>1 DEF TcpResponse, Goto, TypeOK, ReplyQuery, Fail
  <2>3. qid' = qid /\ tcpId[c] \in Id
    BY <1>4, <2>1 DEF TcpResponse, WellFormed, Sent, Awaiting, Answered, ReplyQuery, Fail
  <2>4. CASE Fail(c)
    BY <2>1, <2>2, <2>3, <2>4 DEF Fail, Goto, TypeOK, OwnEntry, Awaiting
  <2>5. CASE Remove(tcpId[c])
    <3> SUFFICES ASSUME NEW j \in Id, j # tcpId[c], outstanding[j] # None
                 PROVE  qid[outstanding[j].client] = j /\ pc'[outstanding[j].client] \in Awaiting
      BY <2>1, <2>3, <2>5 DEF Remove, TypeOK, OwnEntry
    <3>1. outstanding[j].client \in Client /\ qid[outstanding[j].client] = j /\ pc[outstanding[j].client] \in Awaiting
      BY <2>1 DEF TypeOK, Query, OwnEntry
    <3>2. outstanding[j].client # c
      BY <1>4, <3>1 DEF TcpResponse, Awaiting
    <3> QED
      BY <2>2, <3>1, <3>2
  <2> QED
    BY <1>4, <2>4, <2>5 DEF TcpResponse, ReplyQuery
<1>5. ASSUME NEW c \in Client, NoServer(c) \/ SendFails(c) \/ NetworkError(c) \/ SendReplyFails(c) \/ ResendFails(c) \/ GiveUp(c)
     PROVE  OwnEntry'
  <2>1. TypeOK /\ WellFormed /\ OneUser /\ OwnEntry /\ OwnQuery /\ OwnAnswer
    BY DEF IInv, Private
  <2>2. \A d \in Client \ {c} : pc'[d] = pc[d]
    BY <1>5, <2>1 DEF NoServer, Goto, TypeOK, SendFails, NetworkError, SendReplyFails,
         ResendFails, GiveUp
  <2>3. qid' = qid /\ outstanding' = outstanding
    BY <1>5 DEF NoServer, shared, local, SendFails, NetworkError, SendReplyFails, ResendFails,
         GiveUp
  <2>4. pc[c] \in Awaiting => pc'[c] \in Awaiting
    BY <1>5, <2>1 DEF NoServer, Goto, TypeOK, Awaiting, SendFails, NetworkError, SendReplyFails,
         ResendFails, GiveUp
  <2>5. ASSUME NEW j \in Id, outstanding[j] # None
        PROVE  qid[outstanding[j].client] = j /\ pc'[outstanding[j].client] \in Awaiting
    <3>1. outstanding[j].client \in Client
      BY <2>1, <2>5 DEF TypeOK, Query
    <3> QED
      BY <2>1, <2>2, <2>4, <2>5, <3>1 DEF OwnEntry
  <2> QED
    BY <2>3, <2>5 DEF OwnEntry
<1>6. ASSUME NEW c \in Client, ForwardQuery(c) PROVE OwnEntry'
  BY <1>6 DEF ForwardQuery, Available, Goto, shared, local, IInv, TypeOK, Private, OneUser,
       OwnEntry, OwnQuery, Uses, Running, Over, Query, WellFormed, Sent, Awaiting, Answered
<1>7. ASSUME NEW c \in Client, Track(c) PROVE OwnEntry'
  BY <1>7 DEF Track, Goto, shared, local, IInv, TypeOK, Private, OneUser, OwnEntry, OwnQuery,
       Uses, Running, Over, Query, WellFormed, Sent, Awaiting, Answered
<1>8. ASSUME NEW c \in Client, TcpConnect(c) PROVE OwnEntry'
  BY <1>8 DEF TcpConnect, Goto, shared, local, IInv, TypeOK, Private, OneUser, OwnEntry, OwnQuery,
       Uses, Running, Over, Query, WellFormed, Sent, Awaiting, Answered
<1>9. ASSUME NEW c \in Client, MarkAvailable(c) \/ Store(c)
     PROVE  OwnEntry'
  <2>1. TypeOK /\ WellFormed /\ OneUser /\ OwnEntry /\ OwnQuery /\ OwnAnswer
    BY DEF IInv, Private
  <2>2. \A d \in Client \ {c} : pc'[d] = pc[d]
    BY <1>9, <2>1 DEF MarkAvailable, Goto, TypeOK, Store
  <2>3. qid' = qid /\ outstanding' = outstanding
    BY <1>9 DEF MarkAvailable, shared, local, Store
  <2>4. pc[c] \in Awaiting => pc'[c] \in Awaiting
    BY <1>9, <2>1 DEF MarkAvailable, Goto, TypeOK, Awaiting, Store
  <2>5. ASSUME NEW j \in Id, outstanding[j] # None
        PROVE  qid[outstanding[j].client] = j /\ pc'[outstanding[j].client] \in Awaiting
    <3>1. outstanding[j].client \in Client
      BY <2>1, <2>5 DEF TypeOK, Query
    <3> QED
      BY <2>1, <2>2, <2>4, <2>5, <3>1 DEF OwnEntry
  <2> QED
    BY <2>3, <2>5 DEF OwnEntry
<1>10. ASSUME NEW c \in Client, SendReply(c) PROVE OwnEntry'
  BY <1>10 DEF SendReply, Goto, shared, local, IInv, TypeOK, Private, OneUser, OwnEntry, OwnQuery,
       Uses, Running, Over, Query, WellFormed, Sent, Awaiting, Answered
<1>11. ASSUME NEW c \in Client, HandleQueryError(c) PROVE OwnEntry'
  BY <1>11 DEF HandleQueryError, Remove, Goto, shared, local, IInv, TypeOK, Private, OneUser,
       OwnEntry, OwnQuery, Uses, Running, Over, Query, WellFormed, Sent, Awaiting, Answered
<1>12. ASSUME NEW c \in Client, Timeout(c) PROVE OwnEntry'
  BY <1>12 DEF Timeout, Goto, shared, local, IInv, TypeOK, Private, OneUser, OwnEntry, OwnQuery,
       Uses, Running, Over, Query, WellFormed, Sent, Awaiting, Answered
<1>13. ASSUME NEW c \in Client, HandleQueryTimeout(c) PROVE OwnEntry'
  <2>1. TypeOK /\ WellFormed /\ OneUser /\ OwnEntry /\ OwnQuery /\ OwnAnswer
    BY DEF IInv, Private
  <2>2. \A d \in Client \ {c} : pc'[d] = pc[d]
    BY <1>13, <2>1 DEF HandleQueryTimeout, Goto, TypeOK
  <2>3. qid' = qid /\ qid[c] \in Id
    BY <1>13, <2>1 DEF HandleQueryTimeout, WellFormed, Sent, Awaiting, Answered
  <2>4. CASE Fail(c)
    BY <2>1, <2>2, <2>3, <2>4 DEF Fail, Goto, TypeOK, OwnEntry, Awaiting
  <2>5. CASE Remove(qid[c])
    <3> SUFFICES ASSUME NEW j \in Id, j # qid[c], outstanding[j] # None
                 PROVE  qid[outstanding[j].client] = j /\ pc'[outstanding[j].client] \in Awaiting
      BY <2>1, <2>3, <2>5 DEF Remove, TypeOK, OwnEntry
    <3>1. outstanding[j].client \in Client /\ qid[outstanding[j].client] = j /\ pc[outstanding[j].client] \in Awaiting
      BY <2>1 DEF TypeOK, Query, OwnEntry
    <3>2. outstanding[j].client # c
      BY <1>13, <3>1 DEF HandleQueryTimeout, Awaiting
    <3> QED
      BY <2>2, <3>1, <3>2
  <2> QED
    BY <1>13, <2>4, <2>5 DEF HandleQueryTimeout
<1>14. ASSUME NEW c \in Client, RetryTimedOut(c) PROVE OwnEntry'
  BY <1>14 DEF RetryTimedOut, Remove, Goto, shared, local, IInv, TypeOK, Private, OneUser,
       OwnEntry, OwnQuery, Uses, Running, Over, Query, WellFormed, Sent, Awaiting, Answered
<1>15. ASSUME NEW c \in Client, Retry(c) PROVE OwnEntry'
  BY <1>15 DEF Retry, Available, Goto, shared, local, IInv, TypeOK, Private, OneUser, OwnEntry,
       OwnQuery, Uses, Running, Over, Query, WellFormed, Sent, Awaiting, Answered
<1>16. ASSUME NEW c \in Client, TrackRetry(c) PROVE OwnEntry'
  <2>1. TypeOK /\ WellFormed /\ OneUser /\ OwnEntry /\ OwnQuery /\ OwnAnswer
    BY DEF IInv, Private
  <2>2. \A d \in Client \ {c} : pc'[d] = pc[d]
    BY <1>16, <2>1 DEF TrackRetry, Goto, TypeOK
  <2>3. qid[c] \in Id /\ mine[c] \in Query /\ mine[c].client = c
    BY <1>16, <2>1 DEF TrackRetry, OwnQuery, Running, Over, WellFormed, Sent
  <2>4. pc'[c] = "waiting" /\ qid' = qid
    BY <1>16, <2>1 DEF TrackRetry, Goto, TypeOK
  <2>5. outstanding'[qid[c]].client = c /\ \A i \in Id \ {qid[c]} : outstanding'[i] = outstanding[i]
    BY <1>16, <2>1, <2>3 DEF TrackRetry, TypeOK
  <2>6. ASSUME NEW j \in Id \ {qid[c]}, outstanding[j] # None
        PROVE  qid[outstanding[j].client] = j /\ pc'[outstanding[j].client] \in Awaiting
    <3>1. outstanding[j].client \in Client
      BY <2>1, <2>6 DEF TypeOK, Query
    <3>2. qid[outstanding[j].client] = j /\ pc[outstanding[j].client] \in Awaiting
      BY <2>1, <2>6 DEF OwnEntry
    <3> QED
      BY <2>2, <3>1, <3>2
  <2> QED
    BY <2>4, <2>5, <2>6 DEF OwnEntry, Awaiting
<1>17. ASSUME NEW s \in Server, Recover(s) PROVE OwnEntry'
  BY <1>17 DEF Recover, Goto, shared, local, IInv, TypeOK, Private, OneUser, OwnEntry, OwnQuery,
       Uses, Running, Over, Query, WellFormed, Sent, Awaiting, Answered
<1>18. ASSUME NEW n \in Name, Expire(n) PROVE OwnEntry'
  BY <1>18 DEF Expire, Goto, shared, local, IInv, TypeOK, Private, OneUser, OwnEntry, OwnQuery,
       Uses, Running, Over, Query, WellFormed, Sent, Awaiting, Answered
<1>19. CASE UNCHANGED vars
  BY <1>19 DEF vars, shared, local, IInv, TypeOK, Private, OneUser, OwnEntry, OwnQuery, Uses,
       Running, Over, Query, WellFormed, Sent, Awaiting, Answered
<1> QED
  BY <1>1, <1>2, <1>3, <1>4, <1>5, <1>6, <1>7, <1>8, <1>9, <1>10, <1>11, <1>12, <1>13, <1>14,
       <1>15, <1>16, <1>17, <1>18, <1>19 DEF Next, Receive, Proceed

\* Without a collision a task only handles its own client's query.
LEMMA OwnQueryStep ==
    ASSUME IInv, [Next]_vars, ~collided, ~collided'
    PROVE  OwnQuery'
<1> USE NoneAssumption
<1>1. ASSUME NEW c \in Client, NEW name \in Name, AnswerFromCache(c, name) PROVE OwnQuery'
  BY <1>1 DEF AnswerFromCache, Goto, shared, local, IInv, TypeOK, Private, OneUser, OwnEntry,
       OwnQuery, Uses, Running, Over, Query, WellFormed, Sent, Awaiting, Answered
<1>2. ASSUME NEW c \in Client, NEW name \in Name, Miss(c, name) PROVE OwnQuery'
  <2>1. TypeOK /\ WellFormed /\ OneUser /\ OwnEntry /\ OwnQuery /\ OwnAnswer
    BY DEF IInv, Private
  <2>2. \A d \in Client \ {c} : pc'[d] = pc[d] /\ mine'[d] = mine[d] /\ taken'[d] = taken[d]
    BY <1>2, <2>1 DEF Miss, Goto, TypeOK, WellFormed
  <2>9. Running(c)' => (mine'[c] # None => mine'[c].client = c) /\ (taken'[c] # None => taken'[c].client = c)
    BY <1>2, <2>1 DEF Miss, Goto, TypeOK, OwnQuery, Running, Over, Cancellable, WellFormed
  <2> QED
    BY <2>1, <2>2, <2>9 DEF OwnQuery, Running
<1>3. ASSUME NEW c \in Client, NEW about \in Name, NEW kind \in Kinds,
             UdpResponse(c, about, kind)
      PROVE  OwnQuery'
  <2>1. TypeOK /\ WellFormed /\ OneUser /\ OwnEntry /\ OwnQuery /\ OwnAnswer
    BY DEF IInv, Private
  <2>2. \A d \in Client \ {c} : pc'[d] = pc[d] /\ mine'[d] = mine[d] /\ taken'[d] = taken[d]
    BY <1>3, <2>1 DEF UdpResponse, Goto, TypeOK, ReplyQuery, Fail
  <2>3. outstanding[qid[c]] # None => outstanding[qid[c]].client = c
    BY <1>3, <2>1, EntryIsOwn DEF UdpResponse, Uses, Running, Over, WellFormed, Sent, Awaiting,
         Answered
  <2>9. Running(c)' => (mine'[c] # None => mine'[c].client = c) /\ (taken'[c] # None => taken'[c].client = c)
    BY <1>3, <2>1, <2>3 DEF UdpResponse, Goto, TypeOK, OwnQuery, Running, Over, Cancellable,
         ReplyQuery, Fail
  <2> QED
    BY <2>1, <2>2, <2>9 DEF OwnQuery, Running
<1>4. ASSUME NEW c \in Client, NEW about \in Name, NEW kind \in Kinds,
             TcpResponse(c, about, kind)
      PROVE  OwnQuery'
  <2>1. TypeOK /\ WellFormed /\ OneUser /\ OwnEntry /\ OwnQuery /\ OwnAnswer
    BY DEF IInv, Private
  <2>2. \A d \in Client \ {c} : pc'[d] = pc[d] /\ mine'[d] = mine[d] /\ taken'[d] = taken[d]
    BY <1>4, <2>1 DEF TcpResponse, Goto, TypeOK, ReplyQuery, Fail
  <2>3. outstanding[tcpId[c]] # None => outstanding[tcpId[c]].client = c
    BY <1>4, <2>1, EntryIsOwn DEF TcpResponse, Uses, Running, Over, WellFormed, Sent, Awaiting,
         Answered
  <2>9. Running(c)' => (mine'[c] # None => mine'[c].client = c) /\ (taken'[c] # None => taken'[c].client = c)
    BY <1>4, <2>1, <2>3 DEF TcpResponse, Goto, TypeOK, OwnQuery, Running, Over, Cancellable,
         ReplyQuery, Fail
  <2> QED
    BY <2>1, <2>2, <2>9 DEF OwnQuery, Running
<1>5. ASSUME NEW c \in Client, NoServer(c) \/ SendFails(c) \/ NetworkError(c) \/ SendReplyFails(c) \/ ResendFails(c) \/ GiveUp(c)
     PROVE  OwnQuery'
  <2>1. TypeOK /\ WellFormed /\ OneUser /\ OwnEntry /\ OwnQuery /\ OwnAnswer
    BY DEF IInv, Private
  <2>2. \A d \in Client \ {c} : pc'[d] = pc[d] /\ mine'[d] = mine[d] /\ taken'[d] = taken[d]
    BY <1>5, <2>1 DEF NoServer, Goto, TypeOK, shared, local, SendFails, NetworkError,
         SendReplyFails, ResendFails, GiveUp
  <2>9. Running(c)' => (mine'[c] # None => mine'[c].client = c) /\ (taken'[c] # None => taken'[c].client = c)
    BY <1>5, <2>1 DEF NoServer, Goto, TypeOK, OwnQuery, Running, Over, Cancellable, shared, local,
         SendFails, NetworkError, SendReplyFails, ResendFails, GiveUp
  <2> QED
    BY <2>1, <2>2, <2>9 DEF OwnQuery, Running
<1>6. ASSUME NEW c \in Client, ForwardQuery(c) PROVE OwnQuery'
  BY <1>6 DEF ForwardQuery, Available, Goto, shared, local, IInv, TypeOK, Private, OneUser,
       OwnEntry, OwnQuery, Uses, Running, Over, Query, WellFormed, Sent, Awaiting, Answered
<1>7. ASSUME NEW c \in Client, Track(c) PROVE OwnQuery'
  BY <1>7 DEF Track, Goto, shared, local, IInv, TypeOK, Private, OneUser, OwnEntry, OwnQuery,
       Uses, Running, Over, Query, WellFormed, Sent, Awaiting, Answered
<1>8. ASSUME NEW c \in Client, TcpConnect(c) PROVE OwnQuery'
  BY <1>8 DEF TcpConnect, Goto, shared, local, IInv, TypeOK, Private, OneUser, OwnEntry, OwnQuery,
       Uses, Running, Over, Query, WellFormed, Sent, Awaiting, Answered
<1>9. ASSUME NEW c \in Client, MarkAvailable(c) \/ Store(c)
     PROVE  OwnQuery'
  <2>1. TypeOK /\ WellFormed /\ OneUser /\ OwnEntry /\ OwnQuery /\ OwnAnswer
    BY DEF IInv, Private
  <2>2. \A d \in Client \ {c} : pc'[d] = pc[d] /\ mine'[d] = mine[d] /\ taken'[d] = taken[d]
    BY <1>9, <2>1 DEF MarkAvailable, Goto, TypeOK, Store, local
  <2>9. Running(c)' => (mine'[c] # None => mine'[c].client = c) /\ (taken'[c] # None => taken'[c].client = c)
    BY <1>9, <2>1 DEF MarkAvailable, Goto, TypeOK, OwnQuery, Running, Over, Cancellable, Store,
         local
  <2> QED
    BY <2>1, <2>2, <2>9 DEF OwnQuery, Running
<1>10. ASSUME NEW c \in Client, SendReply(c) PROVE OwnQuery'
  BY <1>10 DEF SendReply, Goto, shared, local, IInv, TypeOK, Private, OneUser, OwnEntry, OwnQuery,
       Uses, Running, Over, Query, WellFormed, Sent, Awaiting, Answered
<1>11. ASSUME NEW c \in Client, HandleQueryError(c) PROVE OwnQuery'
  BY <1>11 DEF HandleQueryError, Remove, Goto, shared, local, IInv, TypeOK, Private, OneUser,
       OwnEntry, OwnQuery, Uses, Running, Over, Query, WellFormed, Sent, Awaiting, Answered
<1>12. ASSUME NEW c \in Client, Timeout(c) PROVE OwnQuery'
  <2>1. TypeOK /\ WellFormed /\ OneUser /\ OwnEntry /\ OwnQuery /\ OwnAnswer
    BY DEF IInv, Private
  <2>2. \A d \in Client \ {c} : pc'[d] = pc[d] /\ mine'[d] = mine[d] /\ taken'[d] = taken[d]
    BY <1>12, <2>1 DEF Timeout, Goto, TypeOK
  <2>9. Running(c)' => (mine'[c] # None => mine'[c].client = c) /\ (taken'[c] # None => taken'[c].client = c)
    BY <1>12, <2>1 DEF Timeout, Goto, TypeOK, OwnQuery, Running, Over, Cancellable
  <2> QED
    BY <2>1, <2>2, <2>9 DEF OwnQuery, Running
<1>13. ASSUME NEW c \in Client, HandleQueryTimeout(c) PROVE OwnQuery'
  <2>1. TypeOK /\ WellFormed /\ OneUser /\ OwnEntry /\ OwnQuery /\ OwnAnswer
    BY DEF IInv, Private
  <2>2. \A d \in Client \ {c} : pc'[d] = pc[d] /\ mine'[d] = mine[d] /\ taken'[d] = taken[d]
    BY <1>13, <2>1 DEF HandleQueryTimeout, Goto, TypeOK
  <2>3. outstanding[qid[c]] # None => outstanding[qid[c]].client = c
    BY <1>13, <2>1, EntryIsOwn DEF HandleQueryTimeout, Uses, Running, Over, WellFormed, Sent,
         Awaiting, Answered
  <2>4. /\ UNCHANGED mine \/ (outstanding[qid[c]] # None /\ mine' = [mine EXCEPT ![c] = outstanding[qid[c]]])
        /\ UNCHANGED taken /\ pc[c] = "timedOut"
    BY <1>13, Zenon DEF HandleQueryTimeout
  <2>9. Running(c)' => (mine'[c] # None => mine'[c].client = c) /\ (taken'[c] # None => taken'[c].client = c)
    BY <2>1, <2>3, <2>4 DEF TypeOK, OwnQuery, Running, Over
  <2> QED
    BY <2>1, <2>2, <2>9 DEF OwnQuery, Running
<1>14. ASSUME NEW c \in Client, RetryTimedOut(c) PROVE OwnQuery'
  <2>1. TypeOK /\ WellFormed /\ OneUser /\ OwnEntry /\ OwnQuery /\ OwnAnswer
    BY DEF IInv, Private
  <2>2. \A d \in Client \ {c} : pc'[d] = pc[d] /\ mine'[d] = mine[d] /\ taken'[d] = taken[d]
    BY <1>14, <2>1 DEF RetryTimedOut, Goto, TypeOK
  <2>3. outstanding[qid[c]] # None => outstanding[qid[c]].client = c
    BY <1>14, <2>1, EntryIsOwn DEF RetryTimedOut, Uses, Running, Over, WellFormed, Sent, Awaiting,
         Answered
  <2>9. Running(c)' => (mine'[c] # None => mine'[c].client = c) /\ (taken'[c] # None => taken'[c].client = c)
    BY <1>14, <2>1, <2>3 DEF RetryTimedOut, Goto, TypeOK, OwnQuery, Running, Over, Cancellable
  <2> QED
    BY <2>1, <2>2, <2>9 DEF OwnQuery, Running
<1>15. ASSUME NEW c \in Client, Retry(c) PROVE OwnQuery'
  BY <1>15 DEF Retry, Available, Goto, shared, local, IInv, TypeOK, Private, OneUser, OwnEntry,
       OwnQuery, Uses, Running, Over, Query, WellFormed, Sent, Awaiting, Answered
<1>16. ASSUME NEW c \in Client, TrackRetry(c) PROVE OwnQuery'
  BY <1>16 DEF TrackRetry, Goto, shared, local, IInv, TypeOK, Private, OneUser, OwnEntry,
       OwnQuery, Uses, Running, Over, Query, WellFormed, Sent, Awaiting, Answered
<1>17. ASSUME NEW s \in Server, Recover(s) PROVE OwnQuery'
  BY <1>17 DEF Recover, Goto, shared, local, IInv, TypeOK, Private, OneUser, OwnEntry, OwnQuery,
       Uses, Running, Over, Query, WellFormed, Sent, Awaiting, Answered
<1>18. ASSUME NEW n \in Name, Expire(n) PROVE OwnQuery'
  BY <1>18 DEF Expire, Goto, shared, local, IInv, TypeOK, Private, OneUser, OwnEntry, OwnQuery,
       Uses, Running, Over, Query, WellFormed, Sent, Awaiting, Answered
<1>19. CASE UNCHANGED vars
  BY <1>19 DEF vars, shared, local, IInv, TypeOK, Private, OneUser, OwnEntry, OwnQuery, Uses,
       Running, Over, Query, WellFormed, Sent, Awaiting, Answered
<1> QED
  BY <1>1, <1>2, <1>3, <1>4, <1>5, <1>6, <1>7, <1>8, <1>9, <1>10, <1>11, <1>12, <1>13, <1>14,
       <1>15, <1>16, <1>17, <1>18, <1>19 DEF Next, Receive, Proceed

\* Without a collision the response a task works on is about its own question, or the
\* task took it from the network so.
LEMMA OwnAnswerStep ==
    ASSUME IInv, [Next]_vars, ~collided, ~collided'
    PROVE  OwnAnswer'
<1> USE NoneAssumption
<1>1. ASSUME NEW c \in Client, NEW name \in Name, AnswerFromCache(c, name) PROVE OwnAnswer'
  BY <1>1 DEF AnswerFromCache, Goto, shared, local, IInv, TypeOK, Private, OwnQuery, OwnAnswer,
       Running, Over, Query, WellFormed, Sent, Awaiting, Answered, Carries
<1>2. ASSUME NEW c \in Client, NEW name \in Name, Miss(c, name) PROVE OwnAnswer'
  BY <1>2 DEF Miss, Goto, shared, local, IInv, TypeOK, Private, OwnQuery, OwnAnswer, Running,
       Over, Query, WellFormed, Sent, Awaiting, Answered, Carries
<1>3. ASSUME NEW c \in Client, NEW about \in Name, NEW kind \in Kinds,
             UdpResponse(c, about, kind)
      PROVE  OwnAnswer'
  <2>1. TypeOK /\ WellFormed /\ OneUser /\ OwnEntry /\ OwnQuery /\ OwnAnswer
    BY DEF IInv, Private
  <2>2. \A d \in Client \ {c} : pc'[d] = pc[d] /\ resp'[d] = resp[d]
    BY <1>3, <2>1 DEF UdpResponse, Goto, TypeOK, ReplyQuery, Fail
  <2>3. asked' = asked /\ asked[Carries(c)] = asked[c]
    BY <1>3, <2>1 DEF UdpResponse, ReplyQuery, OwnQuery, Running, Over, WellFormed, Carries,
         Answered
  <2>4. pc'[c] \in Answered => resp'[c].about = asked[c] \/ c \in fooled'
    BY <1>3, <2>1, <2>3 DEF UdpResponse, ReplyQuery, Fail, Goto, TypeOK, Answered
  <2>5. fooled \subseteq fooled'
    BY <1>3 DEF UdpResponse, ReplyQuery, Fail
  <2> QED
    BY <2>1, <2>2, <2>3, <2>4, <2>5 DEF OwnAnswer
<1>4. ASSUME NEW c \in Client, NEW about \in Name, NEW kind \in Kinds,
             TcpResponse(c, about, kind)
      PROVE  OwnAnswer'
  <2>1. TypeOK /\ WellFormed /\ OneUser /\ OwnEntry /\ OwnQuery /\ OwnAnswer
    BY DEF IInv, Private
  <2>2. \A d \in Client \ {c} : pc'[d] = pc[d] /\ resp'[d] = resp[d]
    BY <1>4, <2>1 DEF TcpResponse, Goto, TypeOK, ReplyQuery, Fail
  <2>3. asked' = asked /\ asked[taken[c].client] = asked[c]
    BY <1>4, <2>1 DEF TcpResponse, ReplyQuery, OwnQuery, Running, Over, WellFormed, Answered
  <2>4. pc'[c] \in Answered => resp'[c].about = asked[c] \/ c \in fooled'
    BY <1>4, <2>1, <2>3 DEF TcpResponse, ReplyQuery, Fail, Goto, TypeOK, Answered
  <2>5. fooled \subseteq fooled'
    BY <1>4 DEF TcpResponse, ReplyQuery, Fail
  <2> QED
    BY <2>1, <2>2, <2>3, <2>4, <2>5 DEF OwnAnswer
<1>5. ASSUME NEW c \in Client, NoServer(c) \/ SendFails(c) \/ NetworkError(c) \/ SendReplyFails(c) \/ ResendFails(c) \/ GiveUp(c)
     PROVE  OwnAnswer'
  BY <1>5 DEF NoServer, SendFails, NetworkError, SendReplyFails, ResendFails, GiveUp, Goto,
       shared, local, IInv, TypeOK, Private, OwnQuery, OwnAnswer, Running, Over, Query,
       WellFormed, Sent, Awaiting, Answered, Carries
<1>6. ASSUME NEW c \in Client, ForwardQuery(c) PROVE OwnAnswer'
  BY <1>6 DEF ForwardQuery, Available, Goto, shared, local, IInv, TypeOK, Private, OwnQuery,
       OwnAnswer, Running, Over, Query, WellFormed, Sent, Awaiting, Answered, Carries
<1>7. ASSUME NEW c \in Client, Track(c) PROVE OwnAnswer'
  BY <1>7 DEF Track, Goto, shared, local, IInv, TypeOK, Private, OwnQuery, OwnAnswer, Running,
       Over, Query, WellFormed, Sent, Awaiting, Answered, Carries
<1>8. ASSUME NEW c \in Client, TcpConnect(c) PROVE OwnAnswer'
  BY <1>8 DEF TcpConnect, Goto, shared, local, IInv, TypeOK, Private, OwnQuery, OwnAnswer,
       Running, Over, Query, WellFormed, Sent, Awaiting, Answered, Carries
<1>9. ASSUME NEW c \in Client, MarkAvailable(c) \/ Store(c)
     PROVE  OwnAnswer'
  BY <1>9 DEF MarkAvailable, Store, Goto, shared, local, IInv, TypeOK, Private, OwnQuery,
       OwnAnswer, Running, Over, Query, WellFormed, Sent, Awaiting, Answered, Carries
<1>10. ASSUME NEW c \in Client, SendReply(c) PROVE OwnAnswer'
  BY <1>10 DEF SendReply, Goto, shared, local, IInv, TypeOK, Private, OwnQuery, OwnAnswer,
       Running, Over, Query, WellFormed, Sent, Awaiting, Answered, Carries
<1>11. ASSUME NEW c \in Client, HandleQueryError(c) PROVE OwnAnswer'
  BY <1>11 DEF HandleQueryError, Remove, Goto, shared, local, IInv, TypeOK, Private, OwnQuery,
       OwnAnswer, Running, Over, Query, WellFormed, Sent, Awaiting, Answered, Carries
<1>12. ASSUME NEW c \in Client, Timeout(c) PROVE OwnAnswer'
  BY <1>12 DEF Timeout, Goto, shared, local, IInv, TypeOK, Private, OwnQuery, OwnAnswer, Running,
       Over, Query, WellFormed, Sent, Awaiting, Answered, Carries
<1>13. ASSUME NEW c \in Client, HandleQueryTimeout(c) PROVE OwnAnswer'
  BY <1>13 DEF HandleQueryTimeout, Remove, Goto, shared, local, IInv, TypeOK, Private, OwnQuery,
       OwnAnswer, Running, Over, Query, WellFormed, Sent, Awaiting, Answered, Carries
<1>14. ASSUME NEW c \in Client, RetryTimedOut(c) PROVE OwnAnswer'
  BY <1>14 DEF RetryTimedOut, Remove, Goto, shared, local, IInv, TypeOK, Private, OwnQuery,
       OwnAnswer, Running, Over, Query, WellFormed, Sent, Awaiting, Answered, Carries
<1>15. ASSUME NEW c \in Client, Retry(c) PROVE OwnAnswer'
  BY <1>15 DEF Retry, Available, Goto, shared, local, IInv, TypeOK, Private, OwnQuery, OwnAnswer,
       Running, Over, Query, WellFormed, Sent, Awaiting, Answered, Carries
<1>16. ASSUME NEW c \in Client, TrackRetry(c) PROVE OwnAnswer'
  BY <1>16 DEF TrackRetry, Goto, shared, local, IInv, TypeOK, Private, OwnQuery, OwnAnswer,
       Running, Over, Query, WellFormed, Sent, Awaiting, Answered, Carries
<1>17. ASSUME NEW s \in Server, Recover(s) PROVE OwnAnswer'
  BY <1>17 DEF Recover, Goto, shared, local, IInv, TypeOK, Private, OwnQuery, OwnAnswer, Running,
       Over, Query, WellFormed, Sent, Awaiting, Answered, Carries
<1>18. ASSUME NEW n \in Name, Expire(n) PROVE OwnAnswer'
  BY <1>18 DEF Expire, Goto, shared, local, IInv, TypeOK, Private, OwnQuery, OwnAnswer, Running,
       Over, Query, WellFormed, Sent, Awaiting, Answered, Carries
<1>19. CASE UNCHANGED vars
  BY <1>19 DEF vars, shared, local, IInv, TypeOK, Private, OwnQuery, OwnAnswer, Running, Over,
       Query, WellFormed, Sent, Awaiting, Answered, Carries
<1> QED
  BY <1>1, <1>2, <1>3, <1>4, <1>5, <1>6, <1>7, <1>8, <1>9, <1>10, <1>11, <1>12, <1>13, <1>14,
       <1>15, <1>16, <1>17, <1>18, <1>19 DEF Next, Receive, Proceed

\* A step of one running task that sends nothing leaves every client that has
\* had no reply without one.
LEMMA QuietKeepsUnanswered ==
    ASSUME Unanswered, NEW c \in Client, pc[c] \notin {"done", "gaveUp"}, UNCHANGED replies,
           \A d \in Client \ {c} : pc'[d] = pc[d]
    PROVE  Unanswered'
  BY DEF Unanswered

\* Without a collision a client whose task still runs has had no reply.
LEMMA UnansweredStep ==
    ASSUME IInv, [Next]_vars, ~collided, ~collided'
    PROVE  Unanswered'
<1> USE NoneAssumption
<1>0. TypeOK /\ Unanswered
  BY DEF IInv, Private
<1>1. ASSUME NEW c \in Client, NEW name \in Name, AnswerFromCache(c, name) PROVE Unanswered'
  BY <1>0, <1>1 DEF AnswerFromCache, Goto, TypeOK, Unanswered
<1>2. ASSUME NEW c \in Client, NEW name \in Name, Miss(c, name) PROVE Unanswered'
  BY <1>0, <1>2 DEF Miss, Goto, shared, TypeOK, Unanswered
<1>3. ASSUME NEW c \in Client, NEW id, NEW question, NEW about, NEW kind,
             ReplyQuery(c, id, question, about, kind),
             pc[c] \in {"waiting", "tcpWait"}
      PROVE  Unanswered'
  <2>1. UNCHANGED replies
    BY <1>3 DEF ReplyQuery
  <2>2. \/ Goto(c, "erred")
        \/ Goto(c, "tcp")
        \/ Goto(c, "took")
    BY <1>3 DEF ReplyQuery, Fail
  <2>3. \A d \in Client \ {c} : pc'[d] = pc[d]
    BY <1>0, <2>2 DEF Goto, TypeOK
  <2> QED
    BY <1>0, <1>3, <2>1, <2>3, QuietKeepsUnanswered
<1>4. ASSUME NEW c \in Client, NEW about \in Name, NEW kind \in Kinds,
             UdpResponse(c, about, kind) \/ TcpResponse(c, about, kind)
      PROVE  Unanswered'
  BY <1>3, <1>4 DEF UdpResponse, TcpResponse
<1>5. ASSUME NEW c \in Client, NoServer(c) \/ SendFails(c) \/ NetworkError(c) \/ SendReplyFails(c) \/ ResendFails(c) \/ GiveUp(c)
     PROVE  Unanswered'
  <2>1. pc[c] \notin {"done", "gaveUp"} /\ UNCHANGED replies
    BY <1>5 DEF NoServer, SendFails, NetworkError, SendReplyFails, ResendFails, GiveUp, shared
  <2>2. \A d \in Client \ {c} : pc'[d] = pc[d]
    BY <1>0, <1>5 DEF NoServer, SendFails, NetworkError, SendReplyFails, ResendFails, GiveUp, Goto, TypeOK
  <2> QED
    BY <1>0, <2>1, <2>2, QuietKeepsUnanswered
<1>6. ASSUME NEW c \in Client, ForwardQuery(c) PROVE Unanswered'
  <2>1. pc[c] \notin {"done", "gaveUp"} /\ UNCHANGED replies
    BY <1>6 DEF ForwardQuery, shared
  <2>2. \A d \in Client \ {c} : pc'[d] = pc[d]
    BY <1>0, <1>6 DEF ForwardQuery, Goto, TypeOK
  <2> QED
    BY <1>0, <2>1, <2>2, QuietKeepsUnanswered
<1>7. ASSUME NEW c \in Client, Track(c) PROVE Unanswered'
  <2>1. pc[c] \notin {"done", "gaveUp"} /\ UNCHANGED replies
    BY <1>7 DEF Track, shared
  <2>2. \A d \in Client \ {c} : pc'[d] = pc[d]
    BY <1>0, <1>7 DEF Track, Goto, TypeOK
  <2> QED
    BY <1>0, <2>1, <2>2, QuietKeepsUnanswered
<1>8. ASSUME NEW c \in Client, TcpConnect(c) PROVE Unanswered'
  <2>1. pc[c] \notin {"done", "gaveUp"} /\ UNCHANGED replies
    BY <1>8 DEF TcpConnect, shared
  <2>2. \A d \in Client \ {c} : pc'[d] = pc[d]
    BY <1>0, <1>8 DEF TcpConnect, Goto, TypeOK
  <2> QED
    BY <1>0, <2>1, <2>2, QuietKeepsUnanswered
<1>9. ASSUME NEW c \in Client, MarkAvailable(c) \/ Store(c) PROVE Unanswered'
  <2>1. pc[c] \notin {"done", "gaveUp"} /\ UNCHANGED replies
    BY <1>9 DEF MarkAvailable, Store, shared
  <2>2. \A d \in Client \ {c} : pc'[d] = pc[d]
    BY <1>0, <1>9 DEF MarkAvailable, Store, Goto, TypeOK
  <2> QED
    BY <1>0, <2>1, <2>2, QuietKeepsUnanswered
<1>10. ASSUME NEW c \in Client, SendReply(c) PROVE Unanswered'
  BY <1>10 DEF SendReply, Goto, shared, local, IInv, TypeOK, Private, OwnQuery, Unanswered,
       Running, Over, WellFormed, Sent, Awaiting, Answered
<1>11. ASSUME NEW c \in Client, HandleQueryError(c) PROVE Unanswered'
  <2>1. pc[c] \notin {"done", "gaveUp"} /\ UNCHANGED replies
    BY <1>11 DEF HandleQueryError, shared
  <2>2. \A d \in Client \ {c} : pc'[d] = pc[d]
    BY <1>0, <1>11 DEF HandleQueryError, Goto, TypeOK
  <2> QED
    BY <1>0, <2>1, <2>2, QuietKeepsUnanswered
<1>12. ASSUME NEW c \in Client, Timeout(c) PROVE Unanswered'
  <2>1. pc[c] \notin {"done", "gaveUp"} /\ UNCHANGED replies
    BY <1>12 DEF Timeout, Cancellable, shared
  <2>2. \A d \in Client \ {c} : pc'[d] = pc[d]
    BY <1>0, <1>12 DEF Timeout, Cancellable, Goto, TypeOK
  <2> QED
    BY <1>0, <2>1, <2>2, QuietKeepsUnanswered
<1>13. ASSUME NEW c \in Client, HandleQueryTimeout(c) PROVE Unanswered'
  <2>1. pc[c] \notin {"done", "gaveUp"} /\ UNCHANGED replies
    BY <1>13 DEF HandleQueryTimeout, shared
  <2>2. \A d \in Client \ {c} : pc'[d] = pc[d]
    BY <1>0, <1>13 DEF HandleQueryTimeout, Goto, TypeOK
  <2> QED
    BY <1>0, <2>1, <2>2, QuietKeepsUnanswered
<1>14. ASSUME NEW c \in Client, RetryTimedOut(c) PROVE Unanswered'
  <2>1. pc[c] \notin {"done", "gaveUp"} /\ UNCHANGED replies
    BY <1>14 DEF RetryTimedOut, shared
  <2>2. \A d \in Client \ {c} : pc'[d] = pc[d]
    BY <1>0, <1>14 DEF RetryTimedOut, Goto, TypeOK
  <2> QED
    BY <1>0, <2>1, <2>2, QuietKeepsUnanswered
<1>15. ASSUME NEW c \in Client, Retry(c) PROVE Unanswered'
  <2>1. pc[c] \notin {"done", "gaveUp"} /\ UNCHANGED replies
    BY <1>15 DEF Retry, shared
  <2>2. \A d \in Client \ {c} : pc'[d] = pc[d]
    BY <1>0, <1>15 DEF Retry, Goto, TypeOK
  <2> QED
    BY <1>0, <2>1, <2>2, QuietKeepsUnanswered
<1>16. ASSUME NEW c \in Client, TrackRetry(c) PROVE Unanswered'
  <2>1. pc[c] \notin {"done", "gaveUp"} /\ UNCHANGED replies
    BY <1>16 DEF TrackRetry, shared
  <2>2. \A d \in Client \ {c} : pc'[d] = pc[d]
    BY <1>0, <1>16 DEF TrackRetry, Goto, TypeOK
  <2> QED
    BY <1>0, <2>1, <2>2, QuietKeepsUnanswered
<1>17. ASSUME NEW s \in Server, Recover(s) PROVE Unanswered'
  BY <1>0, <1>17 DEF Recover, Unanswered
<1>18. ASSUME NEW n \in Name, Expire(n) PROVE Unanswered'
  BY <1>0, <1>18 DEF Expire, Unanswered
<1>19. CASE UNCHANGED vars
  BY <1>0, <1>19 DEF vars, shared, Unanswered
<1> QED
  BY <1>1, <1>2, <1>4, <1>5, <1>6, <1>7, <1>8, <1>9, <1>10, <1>11, <1>12, <1>13, <1>14,
       <1>15, <1>16, <1>17, <1>18, <1>19 DEF Next, Receive, Proceed

\* The reply that is sent is the first one and answers the question.
LEMMA RightAnswerStep ==
    ASSUME IInv, [Next]_vars, ~collided, ~collided'
    PROVE  RightAnswerOnce'
<1> USE NoneAssumption
<1>0. \A c \in Client : c \in fooled => pc[c] # "idle"
  BY DEF IInv, WellFormed
<1>1. ASSUME NEW c \in Client, NEW name \in Name, AnswerFromCache(c, name) PROVE RightAnswerOnce'
  <2>1. TypeOK /\ RightAnswerOnce /\ replies[c] = <<>>
    BY <1>1 DEF AnswerFromCache, IInv, Private, Unanswered
  <2>2. /\ replies' = [replies EXCEPT ![c] = <<[about |-> name, kind |-> "empty"]>>]
        /\ UNCHANGED <<cache, fooled>> /\ c \notin fooled
        /\ asked'[c] = name /\ \A d \in Client \ {c} : asked'[d] = asked[d]
    BY <1>0, <1>1, <2>1 DEF AnswerFromCache, TypeOK
  <2>3. ASSUME NEW d \in Client
        PROVE  /\ Len(replies'[d]) <= 1
               /\ \A k \in DOMAIN replies'[d] : replies'[d][k].about = asked'[d] \/ d \in fooled'
    <3>1. CASE d = c
      BY <2>1, <2>2, <3>1 DEF TypeOK
    <3>2. CASE d # c
      BY <2>1, <2>2, <3>2 DEF TypeOK, RightAnswerOnce
    <3> QED
      BY <3>1, <3>2
  <2>4. \A n \in Name :
           cache'[n] # None => cache'[n].about = n \/ \E d \in fooled' : asked'[d] = n
    BY <2>1, <2>2 DEF TypeOK, RightAnswerOnce
  <2> QED
    BY <2>3, <2>4 DEF RightAnswerOnce
<1>2. ASSUME NEW c \in Client, NEW name \in Name, Miss(c, name) PROVE RightAnswerOnce'
  <2>1. TypeOK /\ RightAnswerOnce /\ replies[c] = <<>>
    BY <1>2 DEF Miss, IInv, Private, Unanswered
  <2>2. /\ UNCHANGED <<replies, cache, fooled>> /\ c \notin fooled
        /\ \A d \in Client \ {c} : asked'[d] = asked[d]
    BY <1>0, <1>2, <2>1 DEF Miss, shared, TypeOK
  <2>3. \A d \in fooled : asked'[d] = asked[d]
    BY <2>1, <2>2 DEF TypeOK
  <2> QED
    BY <2>1, <2>2, <2>3 DEF RightAnswerOnce
<1>3. ASSUME NEW c \in Client, NEW about \in Name, NEW kind \in Kinds,
             UdpResponse(c, about, kind)
      PROVE  RightAnswerOnce'
  BY <1>3 DEF UdpResponse, ReplyQuery, Fail, Remove, Goto, shared, local, IInv, TypeOK, Private,
       OwnQuery, OwnAnswer, Unanswered, RightAnswerOnce, Running, Over, WellFormed, Sent,
       Awaiting, Answered
<1>4. ASSUME NEW c \in Client, NEW about \in Name, NEW kind \in Kinds,
             TcpResponse(c, about, kind)
      PROVE  RightAnswerOnce'
  BY <1>4 DEF TcpResponse, ReplyQuery, Fail, Remove, Goto, shared, local, IInv, TypeOK, Private,
       OwnQuery, OwnAnswer, Unanswered, RightAnswerOnce, Running, Over, WellFormed, Sent,
       Awaiting, Answered
<1>5. ASSUME NEW c \in Client, NoServer(c) \/ SendFails(c) \/ NetworkError(c) \/ SendReplyFails(c) \/ ResendFails(c) \/ GiveUp(c)
     PROVE  RightAnswerOnce'
  BY <1>5 DEF NoServer, SendFails, NetworkError, SendReplyFails, ResendFails, GiveUp, Goto,
       shared, local, IInv, TypeOK, Private, OwnQuery, OwnAnswer, Unanswered, RightAnswerOnce,
       Running, Over, WellFormed, Sent, Awaiting, Answered
<1>6. ASSUME NEW c \in Client, ForwardQuery(c) PROVE RightAnswerOnce'
  BY <1>6 DEF ForwardQuery, Available, Goto, shared, local, IInv, TypeOK, Private, OwnQuery,
       OwnAnswer, Unanswered, RightAnswerOnce, Running, Over, WellFormed, Sent, Awaiting, Answered
<1>7. ASSUME NEW c \in Client, Track(c) PROVE RightAnswerOnce'
  BY <1>7 DEF Track, Goto, shared, local, IInv, TypeOK, Private, OwnQuery, OwnAnswer, Unanswered,
       RightAnswerOnce, Running, Over, WellFormed, Sent, Awaiting, Answered
<1>8. ASSUME NEW c \in Client, TcpConnect(c) PROVE RightAnswerOnce'
  BY <1>8 DEF TcpConnect, Goto, shared, local, IInv, TypeOK, Private, OwnQuery, OwnAnswer,
       Unanswered, RightAnswerOnce, Running, Over, WellFormed, Sent, Awaiting, Answered
<1>9. ASSUME NEW c \in Client, MarkAvailable(c) PROVE RightAnswerOnce'
  BY <1>9 DEF MarkAvailable, Goto, shared, local, IInv, TypeOK, Private, OwnQuery, OwnAnswer,
       Unanswered, RightAnswerOnce, Running, Over, WellFormed, Sent, Awaiting, Answered
<1>10. ASSUME NEW c \in Client, Store(c) PROVE RightAnswerOnce'
  <2>1. /\ TypeOK /\ RightAnswerOnce /\ taken[c].client = c
        /\ resp[c].about = asked[c] \/ c \in fooled
        /\ asked[c] \in Name
    BY <1>10 DEF Store, IInv, Private, OwnQuery, OwnAnswer, Running, Over, WellFormed, Answered
  <2>2. UNCHANGED <<replies, asked, fooled>>
    BY <1>10 DEF Store, local
  <2>3. \A n \in Name :
           cache'[n] # None => cache'[n].about = n \/ \E d \in fooled : asked[d] = n
    BY <1>10, <2>1 DEF Store, TypeOK, RightAnswerOnce
  <2> QED
    BY <2>1, <2>2, <2>3 DEF RightAnswerOnce
<1>11. ASSUME NEW c \in Client, SendReply(c) PROVE RightAnswerOnce'
  <2>1. /\ TypeOK /\ RightAnswerOnce /\ taken[c].client = c /\ replies[c] = <<>>
        /\ resp[c].about = asked[c] \/ c \in fooled
    BY <1>11 DEF SendReply, IInv, Private, OwnQuery, OwnAnswer, Unanswered, Running, Over,
         WellFormed, Answered
  <2>2. replies' = [replies EXCEPT ![c] = <<resp[c]>>]
    BY <1>11, <2>1 DEF SendReply
  <2> QED
    BY <1>11, <2>1, <2>2 DEF SendReply, local, TypeOK, RightAnswerOnce
<1>12. ASSUME NEW c \in Client, HandleQueryError(c) PROVE RightAnswerOnce'
  BY <1>12 DEF HandleQueryError, Remove, Goto, shared, local, IInv, TypeOK, Private, OwnQuery,
       OwnAnswer, Unanswered, RightAnswerOnce, Running, Over, WellFormed, Sent, Awaiting, Answered
<1>13. ASSUME NEW c \in Client, Timeout(c) PROVE RightAnswerOnce'
  BY <1>13 DEF Timeout, Goto, shared, local, IInv, TypeOK, Private, OwnQuery, OwnAnswer,
       Unanswered, RightAnswerOnce, Running, Over, WellFormed, Sent, Awaiting, Answered
<1>14. ASSUME NEW c \in Client, HandleQueryTimeout(c) PROVE RightAnswerOnce'
  BY <1>14 DEF HandleQueryTimeout, Remove, Goto, shared, local, IInv, TypeOK, Private, OwnQuery,
       OwnAnswer, Unanswered, RightAnswerOnce, Running, Over, WellFormed, Sent, Awaiting, Answered
<1>15. ASSUME NEW c \in Client, RetryTimedOut(c) PROVE RightAnswerOnce'
  BY <1>15 DEF RetryTimedOut, Remove, Goto, shared, local, IInv, TypeOK, Private, OwnQuery,
       OwnAnswer, Unanswered, RightAnswerOnce, Running, Over, WellFormed, Sent, Awaiting, Answered
<1>16. ASSUME NEW c \in Client, Retry(c) PROVE RightAnswerOnce'
  BY <1>16 DEF Retry, Available, Goto, shared, local, IInv, TypeOK, Private, OwnQuery, OwnAnswer,
       Unanswered, RightAnswerOnce, Running, Over, WellFormed, Sent, Awaiting, Answered
<1>17. ASSUME NEW c \in Client, TrackRetry(c) PROVE RightAnswerOnce'
  BY <1>17 DEF TrackRetry, Goto, shared, local, IInv, TypeOK, Private, OwnQuery, OwnAnswer,
       Unanswered, RightAnswerOnce, Running, Over, WellFormed, Sent, Awaiting, Answered
<1>18. ASSUME NEW s \in Server, Recover(s) PROVE RightAnswerOnce'
  BY <1>18 DEF Recover, Goto, shared, local, IInv, TypeOK, Private, OwnQuery, OwnAnswer,
       Unanswered, RightAnswerOnce, Running, Over, WellFormed, Sent, Awaiting, Answered
<1>19. ASSUME NEW n \in Name, Expire(n) PROVE RightAnswerOnce'
  BY <1>19 DEF Expire, Goto, shared, local, IInv, TypeOK, Private, OwnQuery, OwnAnswer,
       Unanswered, RightAnswerOnce, Running, Over, WellFormed, Sent, Awaiting, Answered
<1>20. CASE UNCHANGED vars
  BY <1>20 DEF vars, shared, local, IInv, TypeOK, Private, OwnQuery, OwnAnswer, Unanswered,
       RightAnswerOnce, Running, Over, WellFormed, Sent, Awaiting, Answered
<1> QED
  BY <1>1, <1>2, <1>3, <1>4, <1>5, <1>6, <1>7, <1>8, <1>9, <1>10, <1>11, <1>12, <1>13, <1>14,
       <1>15, <1>16, <1>17, <1>18, <1>19, <1>20 DEF Next, Receive, Proceed

\* The history variable only ever rises.
LEMMA CollidedStays == ASSUME IInv, [Next]_vars, collided PROVE collided'
<1>1. ASSUME NEW c \in Client, ForwardQuery(c) \/ TcpConnect(c) \/ Retry(c) PROVE collided'
  BY <1>1 DEF ForwardQuery, TcpConnect, Retry, NoteCollision
<1>2. CASE collided' = collided
  BY <1>2
<1>3. ASSUME NEW c \in Client, NEW name \in Name, AnswerFromCache(c, name) \/ Miss(c, name)
      PROVE  collided' = collided
  BY <1>3 DEF AnswerFromCache, Miss, shared
<1>4. ASSUME NEW c \in Client, NEW about \in Name, NEW kind \in Kinds,
             UdpResponse(c, about, kind) \/ TcpResponse(c, about, kind)
      PROVE  collided' = collided
  BY <1>4 DEF UdpResponse, TcpResponse, ReplyQuery
<1>5. ASSUME NEW c \in Client,
             \/ NoServer(c) \/ SendFails(c) \/ Track(c) \/ NetworkError(c) \/ MarkAvailable(c)
             \/ Store(c) \/ SendReply(c) \/ SendReplyFails(c) \/ HandleQueryError(c)
             \/ Timeout(c) \/ HandleQueryTimeout(c) \/ RetryTimedOut(c)
             \/ ResendFails(c) \/ TrackRetry(c) \/ GiveUp(c)
      PROVE  collided' = collided
  BY <1>5 DEF NoServer, SendFails, Track, NetworkError, MarkAvailable, Store, SendReply,
              SendReplyFails, HandleQueryError, Timeout, HandleQueryTimeout, RetryTimedOut,
              ResendFails, TrackRetry, GiveUp, shared
<1>6. CASE UNCHANGED vars \/ (\E s \in Server : Recover(s)) \/ (\E n \in Name : Expire(n))
  BY <1>6 DEF vars, shared, Recover, Expire
<1> QED
  BY <1>1, <1>2, <1>3, <1>4, <1>5, <1>6 DEF Next, Receive, Proceed

-----------------------------------------------------------------------------
\* The inductive invariant: types, what each task has in hand, an awaiting task
\* for every entry of the map, and the privacy of ids, queries and answers as
\* long as no id was drawn twice.
THEOREM ForwarderInvariant == Spec => []IInv
<1>1. Init => IInv
  <2> SUFFICES ASSUME Init PROVE IInv
    OBVIOUS
  <2>1. TypeOK
    <3>1. collided \in BOOLEAN /\ down \subseteq Server
      BY Zenon DEF Init
    <3>2. replies \in [Client -> Seq(Answer)]
      BY DEF Init
    <3>3. pc \in [Client -> Pcs] /\ retries \in [Client -> 0..MaxRetry]
      BY MaxRetryAssumption DEF Init, Pcs, Over
    <3> QED
      BY <3>1, <3>2, <3>3 DEF Init, TypeOK
  <2>2. WellFormed
    BY NoneAssumption DEF Init, WellFormed, Sent, Awaiting, Answered
  <2>3. OutstandingIsAwaited
    BY DEF Init, OutstandingIsAwaited
  <2>4. Private
    BY DEF Init, Private, OneUser, Uses, Running, Over, OwnEntry, OwnQuery, OwnAnswer, Unanswered,
         Answered
  <2>5. RightAnswerOnce
    BY DEF Init, RightAnswerOnce
  <2> QED
    BY <2>1, <2>2, <2>3, <2>4, <2>5 DEF IInv
<1>2. IInv /\ [Next]_vars => IInv'
  <2> SUFFICES ASSUME IInv, [Next]_vars PROVE IInv'
    OBVIOUS
  <2>1. TypeOK' /\ WellFormed' /\ OutstandingIsAwaited'
    BY TypeStep, WellFormedStep, AwaitedStep
  <2>2. CASE collided'
    BY <2>1, <2>2 DEF IInv, Private, RightAnswerOnce
  <2>3. CASE ~collided'
    <3>1. ~collided
      BY <2>3, CollidedStays
    <3>2. OneUser' /\ OwnEntry' /\ OwnQuery'
      BY <2>3, <3>1, OneUserStep, OwnEntryStep, OwnQueryStep
    <3>3. OwnAnswer' /\ Unanswered' /\ RightAnswerOnce'
      BY <2>3, <3>1, OwnAnswerStep, UnansweredStep, RightAnswerStep
    <3> QED
      BY <2>1, <3>2, <3>3 DEF IInv, Private
  <2> QED
    BY <2>2, <2>3
<1> QED
  BY <1>1, <1>2, PTL DEF Spec

\* Whatever tasks do between their awaits, what the forwarder shares keeps its type.
THEOREM ForwarderTypes == Spec => []TypeOK
<1>1. IInv => TypeOK
  BY DEF IInv
<1> QED
  BY <1>1, ForwarderInvariant, PTL

\* No entry of outstanding_queries is ever forgotten, with any number of
\* concurrent clients, even when ids collide.
THEOREM NoQueryIsForgotten == Spec => []OutstandingIsAwaited
<1>1. IInv => OutstandingIsAwaited
  BY DEF IInv
<1> QED
  BY <1>1, ForwarderInvariant, PTL

\* Unless two tasks draw the same id, a client gets at most one reply, it
\* answers the client's question, and the cache files it under the right name.
THEOREM ClientsGetTheirOwnAnswer == Spec => []RightAnswerOnce
<1>1. IInv => RightAnswerOnce
  BY DEF IInv
<1> QED
  BY <1>1, ForwarderInvariant, PTL

=============================================================================
