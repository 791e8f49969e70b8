-------------------------------- MODULE Tftp --------------------------------
(***************************************************************************)
(* The TFTP server, src/src/tftp/server.rs, the state of a transfer,       *)
(* src/src/tftp/transfer.rs, and the clients that fetch files from it.     *)
(*                                                                         *)
(* The server is one task.  It either takes a request from its listener    *)
(* or, when none came for 10 ms, visits every transfer once.  It sends a   *)
(* block at a time and clients run in between.  Packets may be lost and    *)
(* overtake each other: one that is never received stays in flight.        *)
(*                                                                         *)
(* Block numbers have 16 bits.  The release build checks for overflow and  *)
(* aborts on a panic (.cargo/config.toml:235-243), so a transfer that is   *)
(* out of numbers ends the daemon, and with it every transfer.             *)
(***************************************************************************)
EXTENDS Integers, Sequences, FiniteSets, SequencesExt

CONSTANTS
    Client,        \* peers, each of which asks for one file
    Request,       \* the requests clients make
    File,          \* the files that check_tftp_fileperm opens
    Content,       \* file -> its bytes
    LF, CR,        \* the bytes that netascii is about
    None,
    M,             \* block numbers are 0..M-1; 65536 in the code
    DefaultBlk,    \* 512
    MinBlk,        \* 8
    MaxBlk,        \* 65464, or the MTU less its headers if that is less
    MaxWindow,     \* TFTP_MAX_WINDOW
    MaxConn,       \* TFTP_MAX_CONNECTIONS; tftp_max of the configuration is not read
    MaxSock,       \* bound: how many transfers there are
    MaxTries       \* bound: how often a client sends something again

ASSUME SizeAssumption ==
    /\ M \in Nat \ {0, 1} /\ MaxWindow \in 1..(M - 1)
    /\ DefaultBlk \in Nat \ {0} /\ MinBlk \in Nat \ {0} /\ MaxBlk \in Nat \ {0}
    /\ MaxConn \in Nat /\ MaxSock \in Nat /\ MaxTries \in Nat

Block == 0..(M - 1)

\* Transfer sockets, in the order in which they are bound.
Sock == 1..MaxSock

Byte == (UNION {Range(Content[f]) : f \in File}) \cup {LF, CR}

ASSUME RequestAssumption ==
    /\ \A r \in Request :
        /\ r.op \in {"RRQ", "other"}        \* "other": WRQ, or what cannot be parsed
        /\ r.netascii \in BOOLEAN
        /\ r.blksize \in Nat \cup {None}    \* None: absent, or not a number
        /\ r.windowsize \in Nat \cup {None}
        /\ r.more \in BOOLEAN               \* tsize or timeout is asked for
    /\ \A f \in File : Content[f] \in Seq(Byte)
    /\ None \notin Nat \cup Client \cup Request

\* TransferState.  aged: more than timeout since last_activity.
Transfer ==
    [peer : Client, file : File, blocksize : Nat \ {0}, windowsize : 1..MaxWindow,
     block_current : Block, block_high : Block, file_offset : Nat, netascii : BOOLEAN,
     carrylf : BOOLEAN, eof : BOOLEAN, aged : BOOLEAN]

\* A window that is being sent: its socket, the next block and how many are left.
\* M is no block number: the daemon aborts when it gets there.
Window == [sock : Sock, next : 1..M, left : 1..MaxWindow]

ASSUME NoneAssumption == None \notin Transfer /\ None \notin Window

VARIABLES
    listener,   \* clients whose request waits at the listener's socket
    transfers,  \* active_transfers: socket -> TransferState
    opened,     \* how many sockets were bound so far
    todo,       \* process_active_transfers: transfers it has yet to visit
    serving,    \* handle_tftp_packet: the window it is sending
    aborted,    \* the transfer whose overflow ended the daemon, or None
    client,     \* what each client knows
    up, down    \* packets in flight to and from the transfer sockets

server == <<transfers, opened, todo, serving, aborted>>
vars == <<listener, server, client, up, down>>

-----------------------------------------------------------------------------
(* TransferState *)

\* TransferState::new.
NewTransfer(c, r, blksize, windowsize) ==
    [peer |-> c, file |-> r.file, blocksize |-> blksize, windowsize |-> windowsize,
     block_current |-> 0, block_high |-> 0, file_offset |-> 0, netascii |-> r.netascii,
     carrylf |-> FALSE, eof |-> FALSE, aged |-> FALSE]

\* One byte of netascii_convert's loop.
ConvertByte(a, byte, blocksize) ==
    CASE a.stop -> a
      [] ~a.stop /\ byte = LF /\ Len(a.out) + 2 > blocksize ->
            [out |-> Append(a.out, LF), consumed |-> a.consumed + 1, carrylf |-> TRUE,
             stop |-> TRUE]
      [] ~a.stop /\ byte = LF /\ Len(a.out) + 2 <= blocksize ->
            [a EXCEPT !.out = @ \o <<CR, LF>>, !.consumed = @ + 1]
      [] ~a.stop /\ byte # LF /\ Len(a.out) >= blocksize -> [a EXCEPT !.stop = TRUE]
      [] OTHER -> [a EXCEPT !.out = Append(@, byte), !.consumed = @ + 1]

netascii_convert(t, data) ==
    LET converted[n \in 0..Len(data)] ==
           IF n = 0 THEN [out |-> IF t.carrylf THEN <<CR>> ELSE <<>>, consumed |-> 0,
                          carrylf |-> FALSE, stop |-> FALSE]
           ELSE ConvertByte(converted[n - 1], data[n], t.blocksize)
        end == converted[Len(data)]
    IN [end EXCEPT !.out = SubSeq(@, 1, IF Len(@) < t.blocksize THEN Len(@)
                                                               ELSE t.blocksize)]

\* Where get_block reads.
Position(t, block) ==
    IF t.netascii /\ t.block_current > 0 THEN t.file_offset ELSE (block - 1) * t.blocksize

\* File::read of up to size bytes.
Read(f, position, size) ==
    LET rest == Len(Content[f]) - position
    IN SubSeq(Content[f], position + 1, position + (IF rest < size THEN rest ELSE size))

\* get_block: the block's data and the state it leaves.
get_block(t, block) ==
    IF block = 0 THEN [data |-> <<>>, state |-> t]
    ELSE IF t.netascii
    THEN LET buffer == Read(t.file, Position(t, block), 2 * t.blocksize)
             conv == netascii_convert(t, buffer)
         IN [data |-> conv.out,
             state |-> [t EXCEPT !.block_current = block, !.carrylf = conv.carrylf,
                                 !.file_offset = Position(t, block) + conv.consumed,
                                 !.eof = @ \/ /\ conv.consumed < t.blocksize
                                              /\ Len(buffer) < 2 * t.blocksize]]
    ELSE LET buffer == Read(t.file, Position(t, block), t.blocksize)
         IN [data |-> buffer,
             state |-> [t EXCEPT !.block_current = block,
                                 !.file_offset = Position(t, block) + Len(buffer),
                                 !.eof = @ \/ Len(buffer) < t.blocksize]]

is_complete(t) == t.eof

is_timeout_OnceAcked(t) == t.aged /\ t.block_high > 0

is_timeout(t) == t.aged

advance_window_Back(t, ack) == [t EXCEPT !.block_high = ack, !.aged = FALSE]

advance_window(t, ack) ==
    [t EXCEPT !.block_high = IF ack > @ THEN ack ELSE @, !.aged = FALSE]

-----------------------------------------------------------------------------
(* TftpServer: requests *)

Active == {s \in Sock : transfers[s] # None}

Busy == Cardinality(Active) >= MaxConn

\* The options a request negotiates.
Options(r) == r.blksize # None \/ r.windowsize # None \/ r.more

Blksize(r) ==
    LET clamped == IF r.blksize < MinBlk THEN MinBlk ELSE r.blksize
    IN IF r.blksize = None THEN DefaultBlk
       ELSE IF clamped < MaxBlk THEN clamped ELSE MaxBlk

Windowsize(r) ==
    LET least == IF r.windowsize < 1 THEN 1 ELSE r.windowsize
    IN IF r.windowsize = None THEN 1 ELSE IF least < MaxWindow THEN least ELSE MaxWindow

Data(s, t, block, data) ==
    [type |-> "DATA", sock |-> s, to |-> t.peer, block |-> block, data |-> data,
     blksize |-> None]

Oack_Requested(s, t) ==
    [type |-> "OACK", sock |-> s, to |-> t.peer, block |-> 0, data |-> <<>>,
     blksize |-> client[t.peer].req.blksize]

\* build_oack_packet: the client learns the block size from it.
Oack(s, t) ==
    [type |-> "OACK", sock |-> s, to |-> t.peer, block |-> 0, data |-> <<>>,
     blksize |-> t.blocksize]

\* send_error, on the listener's socket.
Error(c) ==
    [type |-> "ERROR", sock |-> None, to |-> c, block |-> 0, data |-> <<>>,
     blksize |-> None]

\* tftp_request and the early returns of handle_rrq.
Refuse(c) ==
    /\ LET r == client[c].req IN r.op # "RRQ" \/ Busy \/ r.file \notin File
    /\ down' = down \cup {Error(c)}
    /\ UNCHANGED transfers

\* The rest of handle_rrq.  The first packet goes out before the transfer is kept.
Accept(c, s) ==
    LET r == client[c].req
        t == NewTransfer(c, r, Blksize(r), Windowsize(r))
        first == get_block(t, 1)
    IN  /\ r.op = "RRQ" /\ ~Busy /\ r.file \in File
        /\ \/ /\ Options(r)
              /\ transfers' = [transfers EXCEPT ![s] = t]
              /\ down' = down \cup {Oack(s, t)}
           \/ /\ ~Options(r)
              /\ transfers' = [transfers EXCEPT ![s] = first.state]
              /\ down' = down \cup {Data(s, t, 1, first.data)}

\* The socket cannot be bound, the file not read or the packet not sent: handle_rrq
\* returns the error, which is logged.
Fail(c) ==
    /\ LET r == client[c].req IN r.op = "RRQ" /\ ~Busy /\ r.file \in File
    /\ UNCHANGED <<transfers, down>>

\* check_tftp_listeners, a request is there.
Listen(c) ==
    /\ todo = {} /\ serving = None /\ aborted = None
    /\ c \in listener /\ listener' = listener \ {c}
    /\ \/ (Refuse(c) \/ Fail(c)) /\ UNCHANGED opened
       \/ opened < MaxSock /\ Accept(c, opened + 1) /\ opened' = opened + 1
    /\ UNCHANGED <<todo, serving, aborted, client, up>>

-----------------------------------------------------------------------------
(* TftpServer: transfers *)

\* check_tftp_listeners, the 10 ms are over: process_active_transfers.
Poll ==
    /\ todo = {} /\ serving = None /\ listener = {} /\ Active # {}
    /\ todo' = Active
    /\ UNCHANGED <<listener, transfers, opened, serving, aborted, client, up, down>>

\* Removals take place after the loop; no one looks at the list before.
RemoveTransfer(s) == transfers' = [transfers EXCEPT ![s] = None]

\* The visit of a transfer that is over.
Over(s) ==
    /\ serving = None /\ s \in todo /\ todo' = todo \ {s}
    /\ is_timeout(transfers[s]) \/ is_complete(transfers[s])
    /\ RemoveTransfer(s)
    /\ UNCHANGED <<listener, opened, serving, aborted, client, up, down>>

Receives(s) ==
    /\ serving = None /\ s \in todo /\ todo' = todo \ {s}
    /\ ~is_timeout(transfers[s]) /\ ~is_complete(transfers[s])

\* Nothing came within 1 ms.
Nothing(s) ==
    /\ Receives(s)
    /\ UNCHANGED <<listener, transfers, opened, serving, aborted, client, up, down>>

\* recv fails: the client has closed its port.
SocketError(s) ==
    /\ Receives(s)
    /\ client[transfers[s].peer].state \in {"done", "failed"}
    /\ RemoveTransfer(s)
    /\ UNCHANGED <<listener, opened, serving, aborted, client, up, down>>

\* handle_tftp_packet: an ACK up to where handle_ack accepts it.
HandleAck(s, m) ==
    /\ m.type = "ACK" /\ m.block <= transfers[s].block_current
    /\ LET t == advance_window(transfers[s], m.block)
       IN  /\ transfers' = [transfers EXCEPT ![s] = t]
           /\ serving' = [sock |-> s, next |-> t.block_high + 1, left |-> t.windowsize]

\* Anything else is an error, which ends the transfer.
HandleOther(s, m) ==
    /\ m.type # "ACK" \/ m.block > transfers[s].block_current
    /\ RemoveTransfer(s)
    /\ UNCHANGED serving

HandlePacket(s, m) ==
    /\ Receives(s)
    /\ m \in up /\ m.sock = s /\ up' = up \ {m}
    /\ HandleAck(s, m) \/ HandleOther(s, m)
    /\ UNCHANGED <<listener, opened, aborted, client, down>>

\* One turn of the loop that sends a window.
SendBlock ==
    /\ serving # None /\ serving.next < M
    /\ LET s == serving.sock
           b == get_block(transfers[s], serving.next)
       IN  /\ transfers' = [transfers EXCEPT ![s] = b.state]
           /\ down' = down \cup {Data(s, b.state, serving.next, b.data)}
           /\ serving' = IF is_complete(b.state) \/ serving.left = 1 THEN None
                         ELSE [serving EXCEPT !.next = @ + 1, !.left = @ - 1]
    /\ UNCHANGED <<listener, opened, todo, aborted, client, up>>

\* The file cannot be read or the block not sent: the loop ends with an error.
SendFails ==
    /\ serving # None /\ serving.next < M
    /\ RemoveTransfer(serving.sock)
    /\ serving' = None
    /\ UNCHANGED <<listener, opened, todo, aborted, client, up, down>>

\* The number of the next block does not fit into 16 bits.
Overflow ==
    /\ serving # None /\ serving.next = M
    /\ aborted' = transfers[serving.sock]
    /\ transfers' = [s \in Sock |-> None]
    /\ todo' = {} /\ serving' = None
    /\ UNCHANGED <<listener, opened, client, up, down>>

\* Time passes: more than timeout since last_activity.
Age(s) ==
    /\ transfers[s] # None /\ ~transfers[s].aged
    /\ transfers' = [transfers EXCEPT ![s].aged = TRUE]
    /\ UNCHANGED <<listener, opened, todo, serving, aborted, client, up, down>>

-----------------------------------------------------------------------------
(* Clients: RFC 1350 and RFC 7440, as tests and docs expect them *)

Ack(s, block) == [type |-> "ACK", sock |-> s, block |-> block]

Ask(c) ==
    /\ client[c].state = "idle"
    /\ \E r \in Request :
        client' = [client EXCEPT ![c].state = "asking", ![c].req = r]
    /\ listener' = listener \cup {c}
    /\ UNCHANGED <<server, up, down>>

\* A client that waited too long says again what it said last.
TryAgain(c) ==
    /\ client[c].tries < MaxTries
    /\ client' = [client EXCEPT ![c].tries = @ + 1]
    /\ \/ client[c].state = "asking" /\ listener' = listener \cup {c} /\ UNCHANGED up
       \/ /\ client[c].state = "receiving"
          /\ up' = up \cup {Ack(client[c].sock, client[c].last)}
          /\ UNCHANGED listener
    /\ UNCHANGED <<server, down>>

GiveUp(c) ==
    /\ client[c].state \in {"asking", "receiving"} /\ client[c].tries = MaxTries
    /\ client' = [client EXCEPT ![c].state = "failed"]
    /\ UNCHANGED <<listener, server, up, down>>

\* The block is the next one: keep its data, acknowledge it, and end if it is short.
Take(k, m) ==
    [k EXCEPT !.state = IF Len(m.data) < k.blksize THEN "done" ELSE "receiving",
              !.sock = m.sock, !.last = m.block, !.got = @ \o m.data]

Hear(c, m) ==
    /\ m \in down /\ m.to = c /\ down' = down \ {m}
    /\ LET k == client[c] IN
       \/ /\ k.state = "asking" /\ m.type = "ERROR"
          /\ client' = [client EXCEPT ![c].state = "failed"]
          /\ UNCHANGED up
       \/ /\ k.state = "asking" /\ m.type = "OACK"
          /\ client' = [client EXCEPT ![c].state = "receiving", ![c].sock = m.sock,
                                      ![c].blksize = m.blksize]
          /\ up' = up \cup {Ack(m.sock, 0)}
       \/ /\ m.type = "DATA"
          /\ \/ k.state = "asking"
             \/ k.state = "receiving" /\ m.sock = k.sock /\ m.block = k.last + 1
          /\ client' = [client EXCEPT ![c] = Take(k, m)]
          /\ up' = up \cup {Ack(m.sock, m.block)}
       \/ \* another transfer than the one the client fetches: unknown transfer id
          /\ k.state = "receiving" /\ m.sock \notin {k.sock, None}
          /\ up' = up \cup {[type |-> "ERROR", sock |-> m.sock, block |-> 0]}
          /\ UNCHANGED client
       \/ \* a block that is not the next one, or a client that is gone
          /\ \/ k.state = "receiving" /\ m.sock \in {k.sock, None}
                /\ (m.type = "DATA" => m.block # k.last + 1)
             \/ k.state \in {"done", "failed"}
          /\ UNCHANGED <<client, up>>
    /\ UNCHANGED <<listener, server>>

-----------------------------------------------------------------------------
Init ==
    /\ listener = {} /\ opened = 0 /\ todo = {} /\ serving = None /\ aborted = None
    /\ transfers = [s \in Sock |-> None]
    /\ client = [c \in Client |-> [state |-> "idle", req |-> None, sock |-> None,
                                   last |-> 0, got |-> <<>>, blksize |-> DefaultBlk,
                                   tries |-> 0]]
    /\ up = {} /\ down = {}

ServerStep ==
    \/ \E c \in Client : Listen(c)
    \/ Poll \/ SendBlock \/ SendFails \/ Overflow
    \/ \E s \in Sock : Over(s) \/ Nothing(s) \/ SocketError(s)
                       \/ \E m \in up : HandlePacket(s, m)

ClientStep ==
    \E c \in Client : Ask(c) \/ TryAgain(c) \/ GiveUp(c) \/ \E m \in down : Hear(c, m)

Next == ServerStep \/ ClientStep \/ \E s \in Sock : Age(s)

\* The server task runs and time passes.
Fairness == WF_vars(ServerStep) /\ WF_vars(\E s \in Sock : Age(s))

Spec == Init /\ [][Next]_vars /\ Fairness

-----------------------------------------------------------------------------
(* Properties *)

\* The server's state is well formed, and it never serves more transfers than the
\* constant TFTP_MAX_CONNECTIONS, whatever limit is configured.
TypeOK ==
    /\ listener \subseteq Client
    /\ transfers \in [Sock -> Transfer \cup {None}]
    /\ Cardinality(Active) <= MaxConn
    /\ opened \in 0..MaxSock /\ Active \subseteq 1..opened /\ todo \subseteq Active
    /\ serving = None \/ /\ serving.sock \in Active \ todo /\ serving.next \in 1..M
                         /\ serving.left \in 1..transfers[serving.sock].windowsize
    /\ aborted \in Transfer \cup {None}

\* What a client has received is a beginning of the file it asked for, however
\* packets were lost, repeated or late, and whichever of two transfers its repeated
\* request started it follows.  get_block reads where the block's number says; this
\* is about octet mode, in netascii mode it is not so.
ReceivedIsPrefix ==
    \A c \in Client : LET k == client[c] IN
        k.state \in {"receiving", "done"} /\ ~k.req.netascii
            => IsPrefix(k.got, Content[k.req.file])

\* A client that saw the last block has the whole file: the block size the client
\* was told is the one the server uses, and only the last block is short.
DoneIsWhole ==
    \A c \in Client : LET k == client[c] IN
        (k.state = "done" /\ ~k.req.netascii) => k.got = Content[k.req.file]

\* A client in octet mode has a beginning of the file and in the end all of it,
\* whatever the network did to requests, blocks and acknowledgements.
FileArrives == ReceivedIsPrefix /\ DoneIsWhole

\* handle_ack never takes the ACK of a client for an error: no acknowledgement in
\* flight is ahead of block_current when the server may read it, which it does
\* until the transfer is complete.
GoodAcksAreAccepted ==
    \A m \in up :
        m.type = "ACK" /\ transfers[m.sock] # None /\ serving = None =>
            LET t == transfers[m.sock] IN
            ~is_complete(t) => m.block <= t.block_current

\* In octet mode handle_tftp_packet runs out of block numbers, and aborts the daemon,
\* only for a file that has more blocks than there are numbers: never earlier,
\* whatever is acknowledged late, twice or in windows.
AbortsOnlyOutOfNumbers ==
    aborted # None /\ ~aborted.netascii =>
        Len(Content[aborted.file]) \div aborted.blocksize + 1 > M - 1

\* The constant limit on connections is kept, no transfer is given up for an ACK
\* that is right, and the daemon not for a file that has a number for each block.
TransfersAreSound == TypeOK /\ GoodAcksAreAccepted /\ AbortsOnlyOutOfNumbers

\* Every transfer ends: process_active_transfers removes it when the file is sent,
\* the client reports an error or nothing was heard for the timeout, or the daemon
\* aborts.
EveryTransferEnds ==
    \A s \in Sock : transfers[s] # None ~> transfers[s] = None

=============================================================================
