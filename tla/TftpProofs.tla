----------------------------- MODULE TftpProofs -----------------------------
(***************************************************************************)
(* Proofs about Tftp, for any clients, requests, files, limits and number  *)
(* of block numbers: the server's state stays well formed within           *)
(* TFTP_MAX_CONNECTIONS, no acknowledgement in flight is taken for an      *)
(* error, the daemon aborts in octet mode only for a file that has more    *)
(* blocks than there are numbers, and in octet mode a client has a         *)
(* beginning of its file and, when it is done, all of it.                  *)
(*                                                                         *)
(* A socket is used for one transfer and a client makes one request, so    *)
(* what a packet says is fixed by its socket, its client and its number,   *)
(* although the transfer it belongs to may be over when it arrives.        *)
(***************************************************************************)
EXTENDS Tftp, FiniteSetTheorems, WellFoundedInduction, TLAPS

LEMMA Sizes ==
    /\ M \in Nat /\ 1 < M /\ MaxWindow \in Nat /\ 0 < MaxWindow /\ MaxWindow < M
    /\ DefaultBlk \in Nat /\ 0 < DefaultBlk /\ MinBlk \in Nat /\ 0 < MinBlk
    /\ MaxBlk \in Nat /\ 0 < MaxBlk /\ MaxConn \in Nat /\ MaxSock \in Nat /\ MaxTries \in Nat
  BY SizeAssumption

LEMMA BlockIs == /\ 0 \in Block /\ 1 \in Block
                 /\ \A n \in Nat : n \in Block <=> n < M
                 /\ \A b \in Block : b \in Nat /\ b < M
  BY Sizes DEF Block

LEMMA NextBlockIs ==
    ASSUME NEW b \in Block
    PROVE  b + 1 \in 1..M
  BY Sizes DEF Block

-----------------------------------------------------------------------------
(* netascii_convert *)

Conversion == [out : Seq(Byte), consumed : Nat, carrylf : BOOLEAN, stop : BOOLEAN]

LEMMA HasLeast ==
    ASSUME NEW S \in SUBSET Nat, S # {}
    PROVE  \E x \in S : \A y \in S : x <= y
<1> DEFINE Less == {p \in Nat \X Nat : p[1] < p[2]}
<1>1. IsWellFoundedOn(Less, Nat)
  BY NatLessThanWellFounded, Zenon DEF OpToRel
<1> HIDE DEF Less
<1>2. PICK x \in S : \A y \in S : ~(<<y, x>> \in Less)
  BY <1>1, WFMin
<1>3. ASSUME NEW y \in S
      PROVE  x <= y
  <2>1. ~(<<y, x>> \in Less) /\ x \in Nat /\ y \in Nat
    BY <1>2
  <2> QED
    BY <2>1 DEF Less
<1> QED
  BY <1>3

LEMMA BytesAre == LF \in Byte /\ CR \in Byte /\ \A f \in File : Content[f] \in Seq(Byte)
<1>1. LF \in Byte /\ CR \in Byte
  BY DEF Byte
<1>2. \A f \in File : Content[f] \in Seq(Byte)
  BY RequestAssumption
<1> QED
  BY <1>1, <1>2

LEMMA ConvertByteIs ==
    ASSUME NEW a \in Conversion, NEW byte \in Byte, NEW size \in Nat
    PROVE  ConvertByte(a, byte, size) \in Conversion
<1>1. a.out \in Seq(Byte) /\ a.consumed \in Nat /\ a.carrylf \in BOOLEAN /\ a.stop \in BOOLEAN
  BY DEF Conversion
<1>2. /\ Append(a.out, LF) \in Seq(Byte) /\ Append(a.out, byte) \in Seq(Byte)
      /\ a.out \o <<CR, LF>> \in Seq(Byte) /\ a.consumed + 1 \in Nat
  BY <1>1, BytesAre
<1>3. /\ [out |-> Append(a.out, LF), consumed |-> a.consumed + 1, carrylf |-> TRUE, stop |-> TRUE]
            \in Conversion
      /\ [a EXCEPT !.out = a.out \o <<CR, LF>>, !.consumed = a.consumed + 1] \in Conversion
      /\ [a EXCEPT !.stop = TRUE] \in Conversion
      /\ [a EXCEPT !.out = Append(a.out, byte), !.consumed = a.consumed + 1] \in Conversion
  BY <1>2 DEF Conversion
<1> QED
  BY <1>3 DEF ConvertByte

Converts(f, limit, data, start, size) ==
    f = [n \in 0..limit |-> IF n = 0 THEN start ELSE ConvertByte(f[n - 1], data[n], size)]

\* The steps of the loop exist, one after the other.
LEMMA StepsExist ==
    ASSUME NEW limit \in Nat, NEW data, NEW start, NEW size
    PROVE  \E f : Converts(f, limit, data, start, size)
<1> DEFINE Steps(f, k) == f = [n \in 0..k |-> IF n = 0 THEN start
                                              ELSE ConvertByte(f[n - 1], data[n], size)]
           Missing == {k \in 0..limit : ~ \E f : Steps(f, k)}
<1>1. Missing = {}
  <2> SUFFICES ASSUME Missing # {} PROVE FALSE
    OBVIOUS
  <2>1. Missing \in SUBSET Nat
    OBVIOUS
  <2>2. PICK k \in Missing : \A other \in Missing : k <= other
    <3> HIDE DEF Missing
    <3> QED
      BY <2>1, HasLeast
  <2>3. k # 0
    <3>1. Steps([n \in 0..0 |-> start], 0)
      OBVIOUS
    <3>2. ~ \E f : Steps(f, k)
      BY <2>2
    <3> HIDE DEF Steps
    <3> QED
      BY <3>1, <3>2
  <2>4. k - 1 \in 0..limit /\ k - 1 \notin Missing /\ k \in Nat
    <3>1. k \in 0..limit
      BY <2>2
    <3> HIDE DEF Missing
    <3> QED
      BY <2>2, <2>3, <3>1
  <2>5. PICK f : Steps(f, k - 1)
    BY <2>4
  <2> DEFINE g == [n \in 0..k |-> IF n = k THEN ConvertByte(f[n - 1], data[n], size) ELSE f[n]]
  <2>6. ASSUME NEW n \in 0..k
        PROVE  g[n] = IF n = 0 THEN start ELSE ConvertByte(g[n - 1], data[n], size)
    <3>1. CASE n = 0
      BY <2>3, <2>4, <2>5, <3>1
    <3>2. CASE n # 0
      <4>1. n - 1 \in 0..(k - 1) /\ n - 1 \in 0..k /\ n - 1 # k
        BY <2>4, <3>2
      <4>2. g[n - 1] = f[n - 1]
        BY <4>1
      <4>3. CASE n = k
        BY <3>2, <4>2, <4>3
      <4>4. CASE n # k
        <5>1. n \in 0..(k - 1)
          BY <2>4, <4>4
        <5>2. f[n] = ConvertByte(f[n - 1], data[n], size)
          BY <2>5, <3>2, <5>1
        <5> QED
          BY <3>2, <4>2, <4>4, <5>2
      <4> QED
        BY <4>3, <4>4
    <3> QED
      BY <3>1, <3>2
  <2>7. DOMAIN g = 0..k /\ g = [n \in 0..k |-> g[n]]
    OBVIOUS
  <2> HIDE DEF g
  <2>8. Steps(g, k)
    BY <2>6, <2>7
  <2> QED
    BY <2>2, <2>8
<1>2. limit \in 0..limit
  OBVIOUS
<1> QED
  BY <1>1, <1>2 DEF Converts

LEMMA ConversionIs ==
    ASSUME NEW carry \in BOOLEAN, NEW data \in Seq(Byte), NEW size \in Nat,
           NEW t, t.carrylf = carry, t.blocksize = size
    PROVE  netascii_convert(t, data) \in Conversion
<1> DEFINE start == [out |-> IF t.carrylf THEN <<CR>> ELSE <<>>, consumed |-> 0,
                     carrylf |-> FALSE, stop |-> FALSE]
           converted == CHOOSE f : f = [n \in 0..Len(data) |-> IF n = 0 THEN start
                                       ELSE ConvertByte(f[n - 1], data[n], t.blocksize)]
           end == converted[Len(data)]
<1>0. Len(data) \in Nat
  OBVIOUS
<1>1. converted = [n \in 0..Len(data) |-> IF n = 0 THEN start
                             ELSE ConvertByte(converted[n - 1], data[n], t.blocksize)]
  <2> HIDE DEF start
  <2>1. \E f : Converts(f, Len(data), data, start, t.blocksize)
    BY <1>0, StepsExist
  <2> QED
    BY <2>1 DEF Converts
<1>2. start \in Conversion
  BY BytesAre DEF Conversion
<1> HIDE DEF start, converted
<1> DEFINE Wrong == {n \in 0..Len(data) : converted[n] \notin Conversion}
<1>3. Wrong = {}
  <2> SUFFICES ASSUME Wrong # {} PROVE FALSE
    OBVIOUS
  <2>1. PICK k \in Wrong : \A other \in Wrong : k <= other
    <3>1. Wrong \in SUBSET Nat
      OBVIOUS
    <3> HIDE DEF Wrong
    <3> QED
      BY <3>1, HasLeast
  <2>2. k \in 0..Len(data) /\ converted[k] \notin Conversion
    BY <2>1
  <2>3. k # 0
    BY <1>1, <1>2, <2>2
  <2>4. k - 1 \in 0..Len(data) /\ k - 1 \notin Wrong /\ k \in 1..Len(data)
    <3> HIDE DEF Wrong
    <3> QED
      BY <1>0, <2>1, <2>2, <2>3
  <2>5. converted[k - 1] \in Conversion /\ data[k] \in Byte
    BY <2>4
  <2>6. converted[k] = ConvertByte(converted[k - 1], data[k], size)
    BY <1>1, <2>2, <2>3
  <2> QED
    BY <2>2, <2>5, <2>6, ConvertByteIs
<1>4. end \in Conversion
  BY <1>0, <1>3
<1> HIDE DEF end
<1>5. netascii_convert(t, data)
         = [end EXCEPT !.out = SubSeq(end.out, 1, IF Len(end.out) < t.blocksize THEN Len(end.out)
                                                                               ELSE t.blocksize)]
  BY DEF netascii_convert, end, converted, start
<1>6. SubSeq(end.out, 1, IF Len(end.out) < t.blocksize THEN Len(end.out) ELSE t.blocksize)
         \in Seq(Byte)
  BY <1>4 DEF Conversion
<1> QED
  BY <1>4, <1>5, <1>6 DEF Conversion

-----------------------------------------------------------------------------
(* get_block *)

\* What File::read returns: bytes, and those at the position, up to the size or to
\* the end of the file.
LEMMA ReadIs ==
    ASSUME NEW f \in File, NEW position \in Nat, NEW size \in Nat
    PROVE  /\ Read(f, position, size) \in Seq(Byte)
           /\ position <= Len(Content[f]) =>
                 /\ Len(Read(f, position, size)) <= size
                 /\ position + Len(Read(f, position, size)) <= Len(Content[f])
                 /\ Len(Read(f, position, size)) < size =>
                       position + Len(Read(f, position, size)) = Len(Content[f])
                 /\ \A i \in 1..Len(Read(f, position, size)) :
                       Read(f, position, size)[i] = Content[f][position + i]
<1> DEFINE s == Content[f]
           rest == Len(s) - position
           some == IF rest < size THEN rest ELSE size
           read == SubSeq(s, position + 1, position + some)
<1>1. s \in Seq(Byte) /\ Len(s) \in Nat
  BY BytesAre
<1>2. Read(f, position, size) = read
  BY DEF Read
<1> HIDE DEF s
<1>3. CASE position <= Len(s)
  <2>1. some \in Nat /\ some <= size /\ position + some <= Len(s)
          /\ (some < size => position + some = Len(s))
    BY <1>1, <1>3
  <2> HIDE DEF some
  <2>2. read \in Seq(Byte) /\ Len(read) = some
    BY <1>1, <1>3, <2>1
  <2>3. \A i \in 1..some : read[i] = s[position + i]
    BY <1>1, <1>3, <2>1
  <2> QED
    BY <1>2, <2>1, <2>2, <2>3 DEF s
<1>4. CASE ~(position <= Len(s))
  <2>1. some \in Int /\ some < 1
    BY <1>1, <1>4
  <2> HIDE DEF some
  <2>2. read = <<>>
    BY <2>1
  <2> HIDE DEF read
  <2>3. read \in Seq(Byte)
    BY <2>2
  <2> QED
    BY <1>2, <1>4, <2>3 DEF s
<1> QED
  BY <1>3, <1>4

\* The block of a file that get_block reads in octet mode.
Octets(f, block, size) == IF block = 0 THEN <<>> ELSE Read(f, (block - 1) * size, size)

LEMMA OffsetIs ==
    ASSUME NEW block \in Block, block # 0, NEW size \in Nat
    PROVE  (block - 1) * size \in Nat
<1>1. block - 1 \in Nat
  BY BlockIs
<1> DEFINE before == block - 1
<1> HIDE DEF before
<1>2. before * size \in Nat
  BY <1>1 DEF before
<1> QED
  BY <1>2 DEF before

LEMMA TransferIs ==
    ASSUME NEW t \in Transfer
    PROVE  /\ t.peer \in Client /\ t.file \in File /\ t.blocksize \in Nat /\ 0 < t.blocksize
           /\ t.windowsize \in Nat /\ 0 < t.windowsize /\ t.windowsize < M
           /\ t.block_current \in Block /\ t.block_high \in Block /\ t.file_offset \in Nat
           /\ t.netascii \in BOOLEAN /\ t.carrylf \in BOOLEAN /\ t.eof \in BOOLEAN /\ t.aged \in BOOLEAN
           /\ t # None
<1>1. /\ t.peer \in Client /\ t.file \in File /\ t.blocksize \in Nat /\ 0 < t.blocksize
      /\ t.windowsize \in Nat /\ 0 < t.windowsize /\ t.windowsize < M
      /\ t.block_current \in Block /\ t.block_high \in Block /\ t.file_offset \in Nat
      /\ t.netascii \in BOOLEAN /\ t.carrylf \in BOOLEAN /\ t.eof \in BOOLEAN /\ t.aged \in BOOLEAN
  BY Sizes DEF Transfer
<1> QED
  BY <1>1, NoneAssumption

\* In octet mode all blocks of a transfer were full until the end of the file is seen.
Filled(t) ==
    ~t.netascii /\ ~t.eof /\ t.block_current # 0 =>
       t.block_current * t.blocksize <= Len(Content[t.file])

LEMMA FullIs ==
    ASSUME NEW f \in File, NEW block \in Block, block # 0, NEW size \in Nat, 0 < size,
           ~(Len(Read(f, (block - 1) * size, size)) < size)
    PROVE  block * size <= Len(Content[f])
<1>1. (block - 1) * size \in Nat /\ Len(Content[f]) \in Nat /\ block - 1 \in Nat
  <2>1. (block - 1) * size \in Nat
    BY OffsetIs, Zenon
  <2>2. Len(Content[f]) \in Nat /\ block - 1 \in Nat
    BY BytesAre, BlockIs
  <2> QED
    BY <2>1, <2>2, Zenon
<1>2. (block - 1) * size <= Len(Content[f])
  <2> SUFFICES ASSUME ~((block - 1) * size <= Len(Content[f])) PROVE FALSE
    OBVIOUS
  <2> DEFINE position == (block - 1) * size
             rest == Len(Content[f]) - position
  <2>1. position \in Nat /\ rest \in Int /\ rest < 0 /\ rest < size
    BY <1>1
  <2>2. Read(f, position, size) = SubSeq(Content[f], position + 1, position + rest)
    BY <2>1 DEF Read
  <2> HIDE DEF position, rest
  <2>3. SubSeq(Content[f], position + 1, position + rest) = <<>>
    BY <2>1
  <2>4. Read(f, position, size) = <<>>
    BY <2>2, <2>3
  <2> QED
    BY <2>4 DEF position
<1>3. (block - 1) * size + size <= Len(Content[f])
  <2> DEFINE position == (block - 1) * size
             read == Read(f, position, size)
  <2>1. position \in Nat /\ position <= Len(Content[f])
    BY <1>1, <1>2
  <2>2. Len(read) <= size /\ position + Len(read) <= Len(Content[f]) /\ read \in Seq(Byte)
    <3> HIDE DEF position
    <3> QED
      BY <2>1, ReadIs
  <2>3. ~(Len(read) < size) /\ Len(read) \in Nat
    BY <2>2
  <2> HIDE DEF position, read
  <2>4. position + size <= Len(Content[f])
    BY <1>1, <2>1, <2>2, <2>3
  <2> QED
    BY <2>4 DEF position
<1>4. block * size = (block - 1) * size + size
  <2> DEFINE before == block - 1
  <2>1. before \in Nat /\ block = before + 1
    BY <1>1, BlockIs
  <2> HIDE DEF before
  <2>2. block * size = before * size + size
    BY <2>1
  <2> QED
    BY <2>2 DEF before
<1> QED
  BY <1>3, <1>4

\* The fields of a transfer that only its request decides.
Same(t, u) ==
    /\ t.peer = u.peer /\ t.file = u.file /\ t.blocksize = u.blocksize
    /\ t.windowsize = u.windowsize /\ t.netascii = u.netascii

LEMMA GetBlockIs ==
    ASSUME NEW t \in Transfer, NEW block \in Block
    PROVE  LET b == get_block(t, block) IN
           /\ b.data \in Seq(Byte) /\ b.state \in Transfer /\ Same(b.state, t)
           /\ b.state.block_high = t.block_high /\ b.state.aged = t.aged
           /\ block # 0 => b.state.block_current = block
           /\ t.eof => b.state.eof
           /\ ~t.netascii => b.data = Octets(t.file, block, t.blocksize)
           /\ block # 0 => Filled(b.state)
<1>1. CASE block = 0
  BY <1>1 DEF get_block, Same, Octets
<1>2. CASE block # 0 /\ t.netascii
  <2> DEFINE position == Position(t, block)
             buffer == Read(t.file, position, 2 * t.blocksize)
             conv == netascii_convert(t, buffer)
             eof == t.eof \/ (conv.consumed < t.blocksize /\ Len(buffer) < 2 * t.blocksize)
             state == [t EXCEPT !.block_current = block, !.carrylf = conv.carrylf,
                                !.file_offset = position + conv.consumed, !.eof = eof]
  <2>1. position \in Nat
    BY <1>2, TransferIs, OffsetIs DEF Position
  <2>2. buffer \in Seq(Byte)
    <3> HIDE DEF position
    <3> QED
      BY <2>1, TransferIs, ReadIs
  <2>3. conv \in Conversion
    <3> HIDE DEF buffer
    <3> QED
      BY <2>2, TransferIs, ConversionIs
  <2>4. get_block(t, block) = [data |-> conv.out, state |-> state]
    BY <1>2 DEF get_block
  <2> HIDE DEF position, buffer, conv
  <2>5. position + conv.consumed \in Nat /\ conv.carrylf \in BOOLEAN /\ conv.out \in Seq(Byte)
    BY <2>1, <2>3 DEF Conversion
  <2>6. eof \in BOOLEAN /\ (t.eof => eof)
    BY TransferIs
  <2> HIDE DEF eof
  <2>7. state \in Transfer
    BY <2>5, <2>6 DEF Transfer
  <2>8. /\ state.peer = t.peer /\ state.file = t.file /\ state.blocksize = t.blocksize
        /\ state.windowsize = t.windowsize /\ state.netascii = t.netascii
        /\ state.block_high = t.block_high /\ state.aged = t.aged
        /\ state.block_current = block /\ state.eof = eof
    BY DEF Transfer
  <2> HIDE DEF state
  <2>9. get_block(t, block).data = conv.out /\ get_block(t, block).state = state
    BY <2>4
  <2>10. Filled(state)
    BY <1>2, <2>8 DEF Filled
  <2> QED
    BY <1>2, <2>5, <2>6, <2>7, <2>8, <2>9, <2>10 DEF Same
<1>3. CASE block # 0 /\ ~t.netascii
  <2> DEFINE position == (block - 1) * t.blocksize
             buffer == Read(t.file, position, t.blocksize)
             eof == t.eof \/ Len(buffer) < t.blocksize
             state == [t EXCEPT !.block_current = block,
                                !.file_offset = position + Len(buffer), !.eof = eof]
  <2>1. position \in Nat /\ Position(t, block) = position
    BY <1>3, TransferIs, OffsetIs DEF Position
  <2>2. get_block(t, block) = [data |-> buffer, state |-> state]
    BY <1>3, <2>1 DEF get_block
  <2>3. buffer = Octets(t.file, block, t.blocksize)
    BY <1>3 DEF Octets
  <2>4. buffer \in Seq(Byte) /\ Len(buffer) \in Nat
    <3> HIDE DEF position
    <3> QED
      BY <2>1, TransferIs, ReadIs
  <2>9. ~(Len(buffer) < t.blocksize) => block * t.blocksize <= Len(Content[t.file])
    BY <1>3, TransferIs, FullIs
  <2> HIDE DEF buffer, position
  <2>5. /\ eof \in BOOLEAN /\ (t.eof => eof) /\ position + Len(buffer) \in Nat
        /\ ~eof => block * t.blocksize <= Len(Content[t.file])
    BY <2>1, <2>4, <2>9, TransferIs
  <2> HIDE DEF eof
  <2>6. state \in Transfer
    BY <2>5 DEF Transfer
  <2>7. /\ state.peer = t.peer /\ state.file = t.file /\ state.blocksize = t.blocksize
        /\ state.windowsize = t.windowsize /\ state.netascii = t.netascii
        /\ state.block_high = t.block_high /\ state.aged = t.aged
        /\ state.block_current = block /\ state.eof = eof
    BY DEF Transfer
  <2> HIDE DEF state
  <2>8. get_block(t, block).data = buffer /\ get_block(t, block).state = state
    BY <2>2
  <2>10. Filled(state)
    BY <2>5, <2>7 DEF Filled
  <2> QED
    BY <2>3, <2>4, <2>5, <2>6, <2>7, <2>8, <2>10 DEF Same
<1> QED
  BY <1>1, <1>2, <1>3, TransferIs

-----------------------------------------------------------------------------
(* Requests, sockets and types *)

Packet ==
    [type : {"DATA", "OACK", "ERROR"}, sock : Sock \cup {None}, to : Client, block : Block,
     data : Seq(Byte), blksize : Nat \cup {None}]

Answer == [type : {"ACK", "ERROR"}, sock : Sock, block : Block]

Peer ==
    [state : {"idle", "asking", "receiving", "done", "failed"}, req : Request \cup {None},
     sock : Sock \cup {None}, last : Block, got : Seq(Byte), blksize : Nat \cup {None}, tries : Nat]

Types ==
    /\ TypeOK
    /\ serving \in Window \cup {None}
    /\ client \in [Client -> Peer]
    /\ up \subseteq Answer
    /\ down \subseteq Packet

LEMMA RequestIs ==
    ASSUME NEW r \in Request
    PROVE  /\ Blksize(r) \in Nat /\ 0 < Blksize(r)
           /\ Windowsize(r) \in 1..MaxWindow
           /\ r.netascii \in BOOLEAN
           /\ ~Options(r) => Blksize(r) = DefaultBlk
<1>1. /\ r.netascii \in BOOLEAN /\ r.blksize \in Nat \cup {None} /\ r.windowsize \in Nat \cup {None}
      /\ None \notin Nat
  BY RequestAssumption
<1>2. Blksize(r) \in Nat /\ 0 < Blksize(r)
  BY <1>1, Sizes DEF Blksize
<1>3. Windowsize(r) \in 1..MaxWindow
  BY <1>1, Sizes DEF Windowsize
<1>4. ~Options(r) => Blksize(r) = DefaultBlk
  BY DEF Options, Blksize
<1> QED
  BY <1>1, <1>2, <1>3, <1>4

LEMMA SockIs == \A s \in Sock : s \in Nat /\ 0 < s /\ s <= MaxSock /\ s # None
  BY Sizes, RequestAssumption DEF Sock

LEMMA ActiveIs ==
    ASSUME Types
    PROVE  /\ IsFiniteSet(Active) /\ Cardinality(Active) \in Nat /\ Active \subseteq Sock
           /\ \A s \in Active : transfers[s] \in Transfer
<1>1. IsFiniteSet(Sock)
  BY Sizes, FS_Interval DEF Sock
<1>2. Active \subseteq Sock
  BY DEF Active
<1>3. \A s \in Active : transfers[s] \in Transfer
  BY DEF Active, Types, TypeOK
<1> QED
  BY <1>1, <1>2, <1>3, FS_Subset, FS_CardinalityType

\* The transfers that are left when one ends, and when one begins or goes on.
LEMMA ActiveLess ==
    ASSUME Types, NEW s \in Sock, transfers' = [transfers EXCEPT ![s] = None]
    PROVE  /\ Active' = Active \ {s} /\ Cardinality(Active') <= MaxConn
           /\ transfers' \in [Sock -> Transfer \cup {None}]
<1>1. transfers' \in [Sock -> Transfer \cup {None}] /\ Active' = Active \ {s}
  BY DEF Types, TypeOK, Active
<1>2. Cardinality(Active') <= Cardinality(Active) /\ Cardinality(Active') \in Nat
  BY <1>1, ActiveIs, FS_Subset, FS_CardinalityType
<1>3. Cardinality(Active) <= MaxConn /\ Cardinality(Active) \in Nat
  BY ActiveIs DEF Types, TypeOK
<1> QED
  BY <1>1, <1>2, <1>3, Sizes

LEMMA ActiveMore ==
    ASSUME Types, NEW s \in Sock, NEW t \in Transfer, transfers' = [transfers EXCEPT ![s] = t],
           s \in Active \/ ~Busy
    PROVE  /\ Active' = Active \cup {s} /\ Cardinality(Active') <= MaxConn
           /\ transfers' \in [Sock -> Transfer \cup {None}]
<1>1. transfers' \in [Sock -> Transfer \cup {None}]
  BY DEF Types, TypeOK
<1>2. Active' = Active \cup {s}
  BY TransferIs DEF Types, TypeOK, Active
<1>3. Cardinality(Active) <= MaxConn /\ Cardinality(Active) \in Nat
  BY ActiveIs DEF Types, TypeOK
<1>4. CASE s \in Active
  <2>1. Active' = Active
    BY <1>2, <1>4
  <2> QED
    BY <1>1, <1>2, <1>3, <2>1
<1>5. CASE s \notin Active /\ ~Busy
  <2>1. Cardinality(Active') = Cardinality(Active) + 1
    BY <1>2, <1>5, ActiveIs, FS_AddElement
  <2> QED
    BY <1>1, <1>2, <1>3, <1>5, <2>1, Sizes DEF Busy
<1> QED
  BY <1>4, <1>5

\* A transfer as it begins.
LEMMA NewTransferIs ==
    ASSUME NEW c \in Client, NEW r \in Request, r.file \in File
    PROVE  LET t == NewTransfer(c, r, Blksize(r), Windowsize(r)) IN
           /\ t \in Transfer /\ t.peer = c /\ t.file = r.file /\ t.netascii = r.netascii
           /\ t.blocksize = Blksize(r) /\ t.block_current = 0 /\ t.block_high = 0
           /\ t.windowsize = Windowsize(r)
<1>1. /\ Blksize(r) \in Nat \ {0} /\ Windowsize(r) \in 1..MaxWindow /\ r.netascii \in BOOLEAN
      /\ 0 \in Block
  BY RequestIs, BlockIs
<1> QED
  BY <1>1 DEF NewTransfer, Transfer

-----------------------------------------------------------------------------
(* The invariant *)

\* A transfer does what its client asked for.
Serves(t) ==
    LET k == client[t.peer] IN
    /\ k.state # "idle"
    /\ t.file = k.req.file /\ t.netascii = k.req.netascii /\ t.blocksize = Blksize(k.req)

\* A packet of a transfer socket goes to the client of that socket's transfer.
PacketOwned(m) ==
    /\ m.sock # None =>
          /\ m.sock \in 1..opened
          /\ client[m.to].state # "idle" /\ client[m.to].req.file \in File
          /\ transfers[m.sock] # None => transfers[m.sock].peer = m.to
    /\ m.type \in {"DATA", "OACK"} => m.sock # None
    /\ m.type = "OACK" => m.blksize = Blksize(client[m.to].req)

ClientOwned(c) ==
    LET k == client[c] IN
    /\ k.state # "idle" => k.req \in Request
    /\ k.state \in {"idle", "asking"} => k.blksize = DefaultBlk /\ k.got = <<>> /\ k.last = 0
    /\ k.state \in {"receiving", "done"} =>
          /\ k.sock \in 1..opened /\ k.req.file \in File /\ k.blksize = Blksize(k.req)
          /\ transfers[k.sock] # None => transfers[k.sock].peer = c

Owned ==
    /\ \A c \in Client : ClientOwned(c)
    /\ \A c \in listener : client[c].state # "idle"
    /\ \A s \in Sock : transfers[s] # None => Serves(transfers[s])
    /\ \A m \in down : PacketOwned(m)
    /\ \A m \in up : m.sock \in 1..opened

\* A client that waits for the answer to its request has acknowledged nothing, and
\* can receive a first block only if it asked for no options.
PacketEarly(m) ==
    m.type = "DATA" /\ client[m.to].state = "asking" => m.block = 1 /\ ~Options(client[m.to].req)

Unheard(s) ==
    transfers[s] # None /\ client[transfers[s].peer].state = "asking" =>
       /\ serving # None => serving.sock # s
       /\ \A m \in up : m.type = "ACK" => m.sock # s

Early == (\A m \in down : PacketEarly(m)) /\ (\A s \in Sock : Unheard(s))

\* What blocks hold in octet mode, and what a client makes of them.
PacketOctet(m) ==
    m.type = "DATA" /\ ~client[m.to].req.netascii =>
       m.data = Octets(client[m.to].req.file, m.block, Blksize(client[m.to].req))

Begins(got, f) == Len(got) <= Len(Content[f]) /\ \A i \in 1..Len(got) : got[i] = Content[f][i]

ClientOctet(c) ==
    LET k == client[c] IN
    k.state \in {"receiving", "done"} /\ ~k.req.netascii =>
       /\ Begins(k.got, k.req.file)
       /\ k.state = "receiving" => Len(k.got) = k.last * k.blksize
       /\ k.state = "done" => Len(k.got) = Len(Content[k.req.file])

Octet == (\A m \in down : PacketOctet(m)) /\ (\A c \in Client : ClientOctet(c))

\* The last block a transfer has sent, or will have sent when its window is out.
Sending(s) == serving # None /\ serving.sock = s

Far(s) ==
    IF Sending(s) THEN transfers[s].block_high + transfers[s].windowsize
    ELSE transfers[s].block_current

Unfinished(s) == transfers[s] # None /\ ~is_complete(transfers[s])

\* Nothing in flight, and no client, is beyond it.
Within(s) ==
    Unfinished(s) =>
       /\ Sending(s) => serving.next + serving.left
                           = transfers[s].block_high + transfers[s].windowsize + 1
       /\ transfers[s].block_current <= transfers[s].block_high + transfers[s].windowsize
       /\ \A m \in down : m.type = "DATA" /\ m.sock = s => m.block <= Far(s)
       /\ \A m \in up : m.type = "ACK" /\ m.sock = s => m.block <= Far(s)
       /\ \A c \in Client :
             client[c].state = "receiving" /\ client[c].sock = s => client[c].last <= Far(s)

Reach == \A s \in Sock : Within(s)

\* What is left to send starts where a client may have got to, at most one behind
\* what was sent, and the blocks that were sent are in the file.
Behind(s) ==
    transfers[s] # None =>
       /\ transfers[s].block_high <= transfers[s].block_current
       /\ Sending(s) => ~transfers[s].eof /\ serving.next <= transfers[s].block_current + 1
       /\ Filled(transfers[s])

\* The transfer that ended the daemon had sent a full block of each number.
Ended ==
    aborted # None /\ ~aborted.netascii =>
       (M - 1) * aborted.blocksize <= Len(Content[aborted.file])

Numbers == (\A s \in Sock : Behind(s)) /\ Ended

TftpInv == Types /\ Owned /\ Early /\ Octet /\ Reach /\ Numbers

LEMMA TftpStarts == Init => TftpInv
<1> SUFFICES ASSUME Init PROVE TftpInv
  OBVIOUS
<1>1. Active = {} /\ Cardinality(Active) = 0
  BY FS_EmptySet DEF Init, Active
<1>2. TypeOK
  BY <1>1, Sizes DEF Init, TypeOK
<1>3. client \in [Client -> Peer]
  BY Sizes, BlockIs DEF Init, Peer
<1>4. Types
  BY <1>2, <1>3 DEF Init, Types
<1>5. Owned
  BY DEF Init, Owned, ClientOwned
<1>6. Early /\ Octet
  BY DEF Init, Early, Unheard, Octet, ClientOctet
<1>7. Reach
  BY DEF Init, Reach, Within, Unfinished
<1>8. Numbers
  BY DEF Init, Numbers, Behind, Ended
<1> QED
  BY <1>4, <1>5, <1>6, <1>7, <1>8 DEF TftpInv

-----------------------------------------------------------------------------
(* What the server's steps do *)

\* A transfer that goes on stays that of its request.
GoesOn(s) == transfers[s] # None /\ Same(transfers'[s], transfers[s])

\* Steps that send nothing but errors: a transfer may end or grow old.
Quiet ==
    /\ client' = client /\ up' \subseteq up /\ opened' = opened
    /\ listener' \subseteq listener
    /\ \A m \in down' : m \in down \/ (m.type = "ERROR" /\ m.sock = None)
    /\ serving' \in {serving, None}
    /\ \A s \in Sock : transfers'[s] # None =>
          /\ GoesOn(s)
          /\ transfers'[s].block_high = transfers[s].block_high
          /\ transfers'[s].block_current = transfers[s].block_current
          /\ transfers'[s].eof = transfers[s].eof
          /\ serving' # serving => ~Sending(s)

LEMMA QuietKeeps ==
    ASSUME TftpInv, Types', Ended', Quiet
    PROVE  TftpInv'
<1>0. /\ client' = client /\ up' \subseteq up /\ opened' = opened
      /\ listener' \subseteq listener
      /\ \A m \in down' : m \in down \/ (m.type = "ERROR" /\ m.sock = None)
  BY DEF Quiet
<1>1. ASSUME NEW s \in Sock, transfers'[s] # None
      PROVE  /\ transfers[s] # None /\ transfers'[s].peer = transfers[s].peer
             /\ transfers'[s].file = transfers[s].file
             /\ transfers'[s].netascii = transfers[s].netascii
             /\ transfers'[s].blocksize = transfers[s].blocksize
             /\ transfers'[s].windowsize = transfers[s].windowsize
             /\ transfers'[s].block_high = transfers[s].block_high
             /\ transfers'[s].block_current = transfers[s].block_current
             /\ transfers'[s].eof = transfers[s].eof
             /\ Sending(s)' <=> Sending(s)
             /\ Sending(s) => serving' = serving
  BY <1>1 DEF Quiet, GoesOn, Same, Sending
<1>2. Owned'
  <2>1. ASSUME NEW c \in Client PROVE ClientOwned(c)'
    BY <1>0, <1>1, Sizes DEF TftpInv, Types, TypeOK, Owned, ClientOwned, Sock
  <2>2. ASSUME NEW m \in down' PROVE PacketOwned(m)'
    BY <1>0, <1>1, Sizes DEF TftpInv, Types, TypeOK, Owned, PacketOwned, Sock
  <2>3. ASSUME NEW s \in Sock, transfers'[s] # None PROVE Serves(transfers[s])'
    BY <1>0, <1>1, <2>3 DEF TftpInv, Owned, Serves
  <2> QED
    BY <1>0, <2>1, <2>2, <2>3 DEF TftpInv, Owned
<1>3. Early'
  <2>1. ASSUME NEW m \in down' PROVE PacketEarly(m)'
    BY <1>0 DEF TftpInv, Early, PacketEarly
  <2>2. ASSUME NEW s \in Sock PROVE Unheard(s)'
    BY <1>0, <1>1 DEF TftpInv, Early, Unheard, Sending
  <2> QED
    BY <2>1, <2>2 DEF Early
<1>4. Octet'
  <2>1. ASSUME NEW m \in down' PROVE PacketOctet(m)'
    BY <1>0 DEF TftpInv, Octet, PacketOctet
  <2>2. ASSUME NEW c \in Client PROVE ClientOctet(c)'
    BY <1>0 DEF TftpInv, Octet, ClientOctet
  <2> QED
    BY <2>1, <2>2 DEF Octet
<1>5. ASSUME NEW s \in Sock PROVE Within(s)'
  <2> SUFFICES ASSUME Unfinished(s)'
               PROVE  /\ Sending(s)' => serving'.next + serving'.left
                            = transfers'[s].block_high + transfers'[s].windowsize + 1
                      /\ transfers'[s].block_current <= transfers'[s].block_high + transfers'[s].windowsize
                      /\ \A m \in down' : m.type = "DATA" /\ m.sock = s => m.block <= Far(s)'
                      /\ \A m \in up' : m.type = "ACK" /\ m.sock = s => m.block <= Far(s)'
                      /\ \A c \in Client : client'[c].state = "receiving" /\ client'[c].sock = s
                                              => client'[c].last <= Far(s)'
    BY DEF Within
  <2>1. transfers'[s] # None
    BY DEF Unfinished
  <2>2. Unfinished(s) /\ Far(s)' = Far(s)
    BY <1>1, <2>1 DEF Unfinished, Far, is_complete
  <2>3. Within(s)
    BY DEF TftpInv, Reach
  <2> QED
    BY <1>0, <1>1, <2>1, <2>2, <2>3 DEF Within
<1>6. ASSUME NEW s \in Sock PROVE Behind(s)'
  BY <1>1 DEF TftpInv, Numbers, Behind, Filled
<1> QED
  BY <1>2, <1>3, <1>4, <1>5, <1>6 DEF TftpInv, Reach, Numbers

\* A transfer that ends.
LEMMA EndIsQuiet ==
    ASSUME TftpInv, NEW s \in Sock, RemoveTransfer(s), client' = client, down' = down,
           up' \subseteq up, opened' = opened, listener' = listener,
           todo' \subseteq todo \ {s}, aborted' = aborted,
           \/ serving = None /\ serving' = None
           \/ serving # None /\ serving.sock = s /\ serving' = None
    PROVE  TftpInv'
<1>1. transfers' = [transfers EXCEPT ![s] = None]
  BY DEF RemoveTransfer
<1>2. /\ Active' = Active \ {s} /\ Cardinality(Active') <= MaxConn
      /\ transfers' \in [Sock -> Transfer \cup {None}]
  BY <1>1, ActiveLess DEF TftpInv
<1>3. Types'
  BY <1>2 DEF TftpInv, Types, TypeOK
<1>4. ASSUME NEW u \in Sock, transfers'[u] # None
      PROVE  u # s /\ transfers'[u] = transfers[u] /\ Same(transfers'[u], transfers[u])
  BY <1>1, <1>4 DEF TftpInv, Types, TypeOK, Same
<1>5. Quiet
  BY <1>4 DEF Quiet, GoesOn, Sending
<1>6. Ended'
  BY DEF TftpInv, Numbers, Ended
<1> QED
  BY <1>3, <1>5, <1>6, QuietKeeps

\* Nothing happens to any transfer.
LEMMA StillIsQuiet ==
    ASSUME TftpInv, Types', UNCHANGED <<transfers, serving, aborted, client, up, opened>>,
           listener' \subseteq listener,
           \A m \in down' : m \in down \/ (m.type = "ERROR" /\ m.sock = None)
    PROVE  TftpInv'
<1>1. Quiet
  BY DEF Quiet, GoesOn, Same
<1>2. Ended'
  BY DEF TftpInv, Numbers, Ended
<1> QED
  BY <1>1, <1>2, QuietKeeps

LEMMA AgeKeeps ==
    ASSUME TftpInv, NEW s \in Sock, Age(s)
    PROVE  TftpInv'
<1> DEFINE t == [transfers[s] EXCEPT !.aged = TRUE]
<1>1. transfers[s] \in Transfer /\ s \in Active
  BY DEF Age, TftpInv, Types, TypeOK, Active
<1>2. /\ t \in Transfer /\ Same(t, transfers[s]) /\ t.block_high = transfers[s].block_high
      /\ t.block_current = transfers[s].block_current /\ t.eof = transfers[s].eof
  BY <1>1 DEF Transfer, Same
<1>3. transfers' = [transfers EXCEPT ![s] = t]
  BY DEF Age
<1> HIDE DEF t
<1>4. /\ Active' = Active \cup {s} /\ Cardinality(Active') <= MaxConn
      /\ transfers' \in [Sock -> Transfer \cup {None}]
  BY <1>1, <1>2, <1>3, ActiveMore DEF TftpInv
<1>5. Active' = Active
  BY <1>1, <1>4
<1>6. \A u \in Sock : transfers'[u] = IF u = s THEN t ELSE transfers[u]
  BY <1>3 DEF TftpInv, Types, TypeOK
<1>7. \A u \in Active : transfers'[u].windowsize = transfers[u].windowsize
  BY <1>2, <1>6 DEF Same, Active
<1>8. Types'
  BY <1>4, <1>5, <1>7 DEF Age, TftpInv, Types, TypeOK
<1>9. Quiet
  BY <1>1, <1>2, <1>6, TransferIs DEF Age, Quiet, GoesOn, Same
<1>10. Ended'
  BY DEF Age, TftpInv, Numbers, Ended
<1> QED
  BY <1>8, <1>9, <1>10, QuietKeeps

\* The block numbers run out: every transfer ends with the daemon.
LEMMA OverflowKeeps ==
    ASSUME TftpInv, Overflow
    PROVE  TftpInv'
<1> DEFINE s == serving.sock
           t == transfers[s]
<1>1. s \in Sock /\ t \in Transfer /\ Sending(s) /\ serving.next = M
  BY ActiveIs DEF Overflow, TftpInv, Types, TypeOK, Sending
<1>2. /\ transfers' = [u \in Sock |-> None] /\ todo' = {} /\ serving' = None /\ aborted' = t
      /\ UNCHANGED <<listener, opened, client, up, down>>
  BY DEF Overflow
<1>3. Active' = {}
  BY <1>2 DEF Active
<1>4. Cardinality(Active') <= MaxConn
  BY <1>3, FS_EmptySet, Sizes
<1>5. Types'
  BY <1>1, <1>2, <1>3, <1>4 DEF TftpInv, Types, TypeOK
<1>6. Quiet
  BY <1>2 DEF Quiet
<1>7. Ended'
  <2>1. Behind(s) /\ t # None
    BY <1>1, TransferIs DEF TftpInv, Numbers
  <2>2. ~t.eof /\ M <= t.block_current + 1 /\ Filled(t)
    BY <1>1, <2>1 DEF Behind
  <2>3. t.block_current = M - 1 /\ t.block_current # 0
    BY <1>1, <2>2, TransferIs, BlockIs, Sizes
  <2>4. ~t.netascii => (M - 1) * t.blocksize <= Len(Content[t.file])
    BY <2>2, <2>3 DEF Filled
  <2> QED
    BY <1>2, <2>4 DEF Ended
<1> QED
  BY <1>5, <1>6, <1>7, QuietKeeps

\* Refuse and Fail, Poll, and the visits of transfers that send nothing.
LEMMA QuietSteps ==
    ASSUME TftpInv,
           \/ \E c \in Client : /\ Refuse(c) \/ Fail(c)
                                /\ listener' = listener \ {c}
                                /\ UNCHANGED <<opened, todo, serving, aborted, client, up>>
           \/ Poll \/ SendFails
           \/ \E s \in Sock : \/ Over(s) \/ Nothing(s) \/ SocketError(s)
                              \/ \E m \in up : HandlePacket(s, m) /\ HandleOther(s, m)
    PROVE  TftpInv'
<1>1. ASSUME NEW c \in Client, Refuse(c) \/ Fail(c), listener' = listener \ {c},
             UNCHANGED <<opened, todo, serving, aborted, client, up>>
      PROVE  TftpInv'
  <2>1. UNCHANGED transfers /\ Active' = Active
    BY <1>1 DEF Refuse, Fail, Active
  <2>2. Error(c) \in Packet /\ Error(c).type = "ERROR" /\ Error(c).sock = None
    BY BlockIs DEF Error, Packet
  <2>3. down' \in {down, down \cup {Error(c)}}
    BY <1>1 DEF Refuse, Fail
  <2>4. Types'
    BY <1>1, <2>1, <2>2, <2>3 DEF TftpInv, Types, TypeOK
  <2> QED
    BY <1>1, <2>1, <2>2, <2>3, <2>4, StillIsQuiet
<1>2. CASE Poll
  <2>1. Active' = Active
    BY <1>2 DEF Poll, Active
  <2>2. Types'
    BY <1>2, <2>1 DEF Poll, TftpInv, Types, TypeOK
  <2> QED
    BY <1>2, <2>2, StillIsQuiet DEF Poll
<1>3. CASE SendFails
  <2>1. serving.sock \in Sock /\ serving.sock \notin todo
    BY <1>3, ActiveIs DEF SendFails, TftpInv, Types, TypeOK
  <2> QED
    BY <1>3, <2>1, EndIsQuiet DEF SendFails
<1>4. ASSUME NEW s \in Sock, Over(s) \/ SocketError(s)
      PROVE  TftpInv'
  BY <1>4, EndIsQuiet DEF Over, SocketError, Receives
<1>5. ASSUME NEW s \in Sock, Nothing(s)
      PROVE  TftpInv'
  <2>1. Active' = Active
    BY <1>5 DEF Nothing, Active
  <2>2. Types'
    BY <1>5, <2>1 DEF Nothing, Receives, TftpInv, Types, TypeOK
  <2> QED
    BY <1>5, <2>2, StillIsQuiet DEF Nothing, Receives
<1>6. ASSUME NEW s \in Sock, NEW m \in up, HandlePacket(s, m), HandleOther(s, m)
      PROVE  TftpInv'
  BY <1>6, EndIsQuiet DEF HandlePacket, HandleOther, Receives
<1> QED
  BY <1>1, <1>2, <1>3, <1>4, <1>5, <1>6

\* handle_rrq: the transfer and the packet it begins with.
LEMMA AcceptIs ==
    ASSUME TftpInv, NEW c \in listener, NEW s \in Sock, Accept(c, s)
    PROVE  LET r == client[c].req IN
           /\ c \in Client /\ r \in Request /\ r.file \in File /\ ~Busy
           /\ client[c].state # "idle"
           /\ \E t \in Transfer, p \in Packet :
                 /\ transfers' = [transfers EXCEPT ![s] = t] /\ down' = down \cup {p}
                 /\ t.peer = c /\ t.file = r.file /\ t.netascii = r.netascii
                 /\ t.blocksize = Blksize(r) /\ t.block_high = 0 /\ Filled(t)
                 /\ p.sock = s /\ p.to = c
                 /\ \/ p.type = "OACK" /\ p.blksize = Blksize(r) /\ t.block_current = 0
                    \/ /\ p.type = "DATA" /\ p.block = 1 /\ ~Options(r) /\ t.block_current = 1
                       /\ ~r.netascii => p.data = Octets(r.file, 1, Blksize(r))
<1> DEFINE r == client[c].req
           t == NewTransfer(c, r, Blksize(r), Windowsize(r))
           first == get_block(t, 1)
<1>1. c \in Client /\ client[c].state # "idle"
  BY DEF TftpInv, Types, TypeOK, Owned
<1>2. r \in Request
  BY <1>1 DEF TftpInv, Owned, ClientOwned
<1>3. r.file \in File /\ ~Busy
  BY DEF Accept
<1>4. /\ t \in Transfer /\ t.peer = c /\ t.file = r.file /\ t.netascii = r.netascii
      /\ t.blocksize = Blksize(r) /\ t.block_current = 0 /\ t.block_high = 0 /\ Filled(t)
  <2> HIDE DEF r
  <2> QED
    BY <1>1, <1>2, <1>3, NewTransferIs DEF Filled
<1>5. CASE Options(r) /\ transfers' = [transfers EXCEPT ![s] = t] /\ down' = down \cup {Oack(s, t)}
  <2> DEFINE p == Oack(s, t)
  <2>1. p \in Packet /\ p.sock = s /\ p.to = c /\ p.type = "OACK" /\ p.blksize = Blksize(r)
    <3> HIDE DEF t, r
    <3> QED
      BY <1>1, <1>4, BlockIs, TransferIs DEF Oack, Packet
  <2>2. transfers' = [transfers EXCEPT ![s] = t] /\ down' = down \cup {p}
    BY <1>5
  <2> HIDE DEF t, p, r
  <2> QED
    BY <1>1, <1>2, <1>3, <1>4, <2>1, <2>2 DEF r
<1>6. CASE /\ ~Options(r) /\ transfers' = [transfers EXCEPT ![s] = first.state]
           /\ down' = down \cup {Data(s, t, 1, first.data)}
  <2> DEFINE p == Data(s, t, 1, first.data)
             u == first.state
  <2>1. /\ first.data \in Seq(Byte) /\ u \in Transfer /\ Same(u, t) /\ u.block_high = t.block_high
        /\ u.block_current = 1 /\ Filled(u)
        /\ ~t.netascii => first.data = Octets(t.file, 1, t.blocksize)
    <3> HIDE DEF t, r
    <3> QED
      BY <1>4, BlockIs, GetBlockIs
  <2>2. /\ p \in Packet /\ p.sock = s /\ p.to = c /\ p.type = "DATA" /\ p.block = 1
        /\ p.data = first.data
    <3> HIDE DEF t, r, first
    <3> QED
      BY <1>1, <1>4, <2>1, BlockIs DEF Data, Packet
  <2>3. transfers' = [transfers EXCEPT ![s] = u] /\ down' = down \cup {p} /\ ~Options(r)
    BY <1>6
  <2> HIDE DEF t, p, u, r, first
  <2>4. /\ u.peer = c /\ u.file = r.file /\ u.netascii = r.netascii
        /\ u.blocksize = Blksize(r) /\ u.block_high = 0 /\ u.block_current = 1
        /\ ~r.netascii => p.data = Octets(r.file, 1, Blksize(r))
        /\ Filled(u)
    BY <1>4, <2>1, <2>2 DEF Same
  <2> QED
    BY <1>1, <1>2, <1>3, <2>1, <2>2, <2>3, <2>4 DEF r
<1> QED
  BY <1>5, <1>6 DEF Accept

LEMMA AcceptKeeps ==
    ASSUME TftpInv, NEW c \in listener, opened < MaxSock, Accept(c, opened + 1),
           opened' = opened + 1, listener' = listener \ {c}, todo = {}, serving = None,
           UNCHANGED <<todo, serving, aborted, client, up>>
    PROVE  TftpInv'
<1> DEFINE s == opened + 1
           r == client[c].req
<1>1. s \in Sock /\ s \notin 1..opened /\ opened \in Nat /\ s \notin Active
  BY Sizes DEF TftpInv, Types, TypeOK, Sock
<1>2. c \in Client /\ r \in Request /\ r.file \in File /\ ~Busy /\ client[c].state # "idle"
  BY <1>1, AcceptIs
<1>3. PICK t \in Transfer, p \in Packet :
         /\ transfers' = [transfers EXCEPT ![s] = t] /\ down' = down \cup {p}
         /\ t.peer = c /\ t.file = r.file /\ t.netascii = r.netascii
         /\ t.blocksize = Blksize(r) /\ t.block_high = 0 /\ Filled(t)
         /\ p.sock = s /\ p.to = c
         /\ \/ p.type = "OACK" /\ p.blksize = Blksize(r) /\ t.block_current = 0
            \/ /\ p.type = "DATA" /\ p.block = 1 /\ ~Options(r) /\ t.block_current = 1
               /\ ~r.netascii => p.data = Octets(r.file, 1, Blksize(r))
  BY <1>1, AcceptIs
<1> HIDE DEF s
<1>4. /\ Active' = Active \cup {s} /\ Cardinality(Active') <= MaxConn
      /\ transfers' \in [Sock -> Transfer \cup {None}]
  BY <1>1, <1>2, <1>3, ActiveMore DEF TftpInv
<1>5. Active' \subseteq 1..opened' /\ opened' \in 0..MaxSock
  BY <1>1, <1>4, Sizes DEF TftpInv, Types, TypeOK, s
<1>6. Types'
  BY <1>3, <1>4, <1>5 DEF TftpInv, Types, TypeOK
<1>7. \A u \in Sock : transfers'[u] = IF u = s THEN t ELSE transfers[u]
  BY <1>3 DEF TftpInv, Types, TypeOK
<1>8. \A n \in 1..opened : n \in 1..opened' /\ n # s /\ n \in Sock
  BY <1>1, <1>5, Sizes DEF s, Sock
<1>9. s \in 1..opened' /\ s # None
  BY <1>1, SockIs DEF s
<1>10. Owned'
  <2>1. ASSUME NEW d \in Client PROVE ClientOwned(d)'
    BY <1>7, <1>8 DEF TftpInv, Owned, ClientOwned
  <2>2. ASSUME NEW m \in down PROVE PacketOwned(m)'
    BY <1>7, <1>8 DEF TftpInv, Owned, PacketOwned
  <2>3. PacketOwned(p)'
    BY <1>1, <1>2, <1>3, <1>7, <1>9 DEF PacketOwned
  <2>4. ASSUME NEW u \in Sock, transfers'[u] # None PROVE Serves(transfers[u])'
    BY <1>2, <1>3, <1>7, <2>4 DEF TftpInv, Owned, Serves
  <2>5. ASSUME NEW m \in up PROVE m.sock \in 1..opened'
    BY <1>8 DEF TftpInv, Owned
  <2> QED
    BY <1>3, <2>1, <2>2, <2>3, <2>4, <2>5 DEF TftpInv, Owned
<1>11. Early'
  <2>1. ASSUME NEW m \in down PROVE PacketEarly(m)'
    BY DEF TftpInv, Early, PacketEarly
  <2>2. PacketEarly(p)'
    BY <1>3 DEF PacketEarly
  <2>3. ASSUME NEW u \in Sock PROVE Unheard(u)'
    <3>1. CASE u = s
      BY <1>8, <3>1 DEF TftpInv, Owned, Unheard
    <3>2. CASE u # s
      BY <1>7, <3>2 DEF TftpInv, Early, Unheard
    <3> QED
      BY <3>1, <3>2
  <2> QED
    BY <1>3, <2>1, <2>2, <2>3 DEF Early
<1>12. Octet'
  <2>1. ASSUME NEW m \in down PROVE PacketOctet(m)'
    BY DEF TftpInv, Octet, PacketOctet
  <2>2. PacketOctet(p)'
    BY <1>3 DEF PacketOctet
  <2>3. ASSUME NEW d \in Client PROVE ClientOctet(d)'
    BY DEF TftpInv, Octet, ClientOctet
  <2> QED
    BY <1>3, <2>1, <2>2, <2>3 DEF Octet
<1>13. ASSUME NEW u \in Sock PROVE Within(u)'
  <2>1. ~Sending(u)' /\ Far(u)' = transfers'[u].block_current
    BY DEF Sending, Far
  <2>2. CASE u = s
    <3>1. t.windowsize \in Nat /\ 0 < t.windowsize /\ t.block_current \in {0, 1}
      BY <1>3, TransferIs
    <3>2. \A m \in down' : m.type = "DATA" /\ m.sock = s => m.block = 1 /\ t.block_current = 1
      BY <1>3, <1>8, <1>9 DEF TftpInv, Owned, PacketOwned
    <3>3. \A m \in up : m.sock # s
      BY <1>8 DEF TftpInv, Owned
    <3>4. \A d \in Client : client[d].state = "receiving" => client[d].sock # s
      BY <1>8 DEF TftpInv, Owned, ClientOwned
    <3>5. transfers'[u] = t /\ 1 <= 1
      BY <1>7, <2>2
    <3> QED
      BY <1>3, <2>1, <2>2, <3>1, <3>2, <3>3, <3>4, <3>5 DEF Within
  <2>3. CASE u # s
    <3>1. transfers'[u] = transfers[u] /\ Within(u) /\ (Unfinished(u)' <=> Unfinished(u))
            /\ Far(u)' = Far(u)
      BY <1>7, <2>3 DEF TftpInv, Reach, Unfinished, Far, Sending
    <3>2. \A m \in down' : m.sock = u => m \in down
      BY <1>3, <2>3
    <3> QED
      BY <2>1, <3>1, <3>2 DEF Within, Sending
  <2> QED
    BY <2>2, <2>3
<1>14. ASSUME NEW u \in Sock PROVE Behind(u)'
  <2>1. CASE u = s
    <3>1. transfers'[u] = t /\ t.block_current \in Block
      BY <1>7, <2>1, TransferIs
    <3> QED
      BY <1>3, <3>1, BlockIs DEF Behind, Sending
  <2>2. CASE u # s
    BY <1>7, <2>2 DEF TftpInv, Numbers, Behind, Sending
  <2> QED
    BY <2>1, <2>2
<1>15. Ended'
  BY DEF TftpInv, Numbers, Ended
<1> QED
  BY <1>6, <1>10, <1>11, <1>12, <1>13, <1>14, <1>15 DEF TftpInv, Reach, Numbers

\* handle_ack and the start of the window.
LEMMA AckKeeps ==
    ASSUME TftpInv, NEW s \in Sock, NEW m \in up, HandlePacket(s, m), HandleAck(s, m)
    PROVE  TftpInv'
<1> DEFINE t == transfers[s]
           u == advance_window(t, m.block)
           w == [sock |-> s, next |-> u.block_high + 1, left |-> u.windowsize]
<1>1. /\ serving = None /\ s \in todo /\ todo' = todo \ {s} /\ m.sock = s /\ up' = up \ {m}
      /\ UNCHANGED <<listener, opened, aborted, client, down>>
      /\ m.type = "ACK" /\ m.block <= t.block_current /\ ~t.eof
      /\ transfers' = [transfers EXCEPT ![s] = u] /\ serving' = w
  BY DEF HandlePacket, Receives, HandleAck, is_complete
<1>2. t \in Transfer /\ s \in Active /\ m.block \in Block
  BY <1>1, ActiveIs DEF TftpInv, Types, TypeOK, Answer
<1>3. /\ u \in Transfer /\ Same(u, t) /\ u.block_current = t.block_current /\ u.eof = t.eof
      /\ u.block_high \in {t.block_high, m.block}
  BY <1>2, BlockIs, TransferIs DEF advance_window, Transfer, Same
<1>4. t.block_high <= u.block_high /\ u.block_high \in Nat /\ t.block_high \in Nat
        /\ t.block_current \in Nat /\ t.windowsize \in Nat /\ 0 < t.windowsize
  BY <1>2, BlockIs, TransferIs DEF advance_window, Transfer
<1> HIDE DEF t, u
<1>5. w \in Window /\ w.sock = s /\ w.left = u.windowsize /\ w.next = u.block_high + 1
  BY <1>3, NextBlockIs, TransferIs DEF Window, Transfer
<1> HIDE DEF w
<1>6. /\ Active' = Active \cup {s} /\ Cardinality(Active') <= MaxConn
      /\ transfers' \in [Sock -> Transfer \cup {None}]
  BY <1>1, <1>2, <1>3, ActiveMore DEF TftpInv
<1>7. \A v \in Sock : transfers'[v] = IF v = s THEN u ELSE transfers[v]
  BY <1>1 DEF TftpInv, Types, TypeOK
<1>8. /\ Active' = Active /\ serving'.sock \in Active' \ todo' /\ serving'.next \in 1..M
      /\ serving'.left \in 1..transfers'[serving'.sock].windowsize
  BY <1>1, <1>2, <1>3, <1>5, <1>6, <1>7, TransferIs DEF Window
<1>9. Types'
  BY <1>1, <1>5, <1>6, <1>8 DEF TftpInv, Types, TypeOK
<1>10. serving' # None
  BY <1>1, <1>5, NoneAssumption
<1>11. ASSUME NEW v \in Sock
       PROVE  /\ transfers'[v] # None => transfers[v] # None /\ Same(transfers'[v], transfers[v])
              /\ Sending(v)' <=> v = s
              /\ ~Sending(v)
  BY <1>1, <1>2, <1>3, <1>5, <1>7, <1>10, TransferIs DEF Same, Sending, t
<1>12. Owned'
  <2>1. ASSUME NEW d \in Client PROVE ClientOwned(d)'
    BY <1>1, <1>11, Sizes DEF TftpInv, Types, TypeOK, Owned, ClientOwned, Sock, Same
  <2>2. ASSUME NEW n \in down PROVE PacketOwned(n)'
    BY <1>1, <1>11, Sizes DEF TftpInv, Types, TypeOK, Owned, PacketOwned, Sock, Same
  <2>3. ASSUME NEW v \in Sock, transfers'[v] # None PROVE Serves(transfers[v])'
    BY <1>1, <1>11, <2>3 DEF TftpInv, Owned, Serves, Same
  <2> QED
    BY <1>1, <2>1, <2>2, <2>3 DEF TftpInv, Owned
<1>13. Early'
  <2>1. ASSUME NEW n \in down PROVE PacketEarly(n)'
    BY <1>1 DEF TftpInv, Early, PacketEarly
  <2>2. ASSUME NEW v \in Sock PROVE Unheard(v)'
    <3>1. transfers[s] # None /\ Unheard(s)
      BY <1>2 DEF TftpInv, Early, Active
    <3>2. client[transfers[s].peer].state # "asking"
      BY <1>1, <3>1 DEF Unheard
    <3>3. CASE v = s
      BY <1>1, <1>11, <3>2, <3>3 DEF Unheard, Same
    <3>4. CASE v # s
      BY <1>1, <1>5, <1>7, <3>4 DEF TftpInv, Early, Unheard
    <3> QED
      BY <3>3, <3>4
  <2> QED
    BY <1>1, <2>1, <2>2 DEF Early
<1>14. Octet'
  <2>1. ASSUME NEW n \in down PROVE PacketOctet(n)'
    BY <1>1 DEF TftpInv, Octet, PacketOctet
  <2>2. ASSUME NEW d \in Client PROVE ClientOctet(d)'
    BY <1>1 DEF TftpInv, Octet, ClientOctet
  <2> QED
    BY <1>1, <2>1, <2>2 DEF Octet
<1>15. ASSUME NEW v \in Sock PROVE Within(v)'
  <2>1. CASE v # s
    <3>1. transfers'[v] = transfers[v] /\ Within(v) /\ (Unfinished(v)' <=> Unfinished(v))
            /\ ~Sending(v) /\ ~Sending(v)' /\ Far(v)' = Far(v)
      BY <1>7, <1>11, <2>1 DEF TftpInv, Reach, Unfinished, Far
    <3> QED
      BY <1>1, <3>1 DEF Within
  <2>2. CASE v = s /\ Unfinished(s)'
    <3>1. /\ transfers'[s] = u /\ ~u.eof
          /\ u.windowsize = t.windowsize /\ transfers[s] = t /\ t # None
      BY <1>2, <1>3, <1>7, <2>2, TransferIs DEF Unfinished, is_complete, Same, t
    <3>2. Unfinished(s) /\ Within(s) /\ Far(s) = t.block_current
      BY <1>3, <1>11, <3>1 DEF Unfinished, is_complete, TftpInv, Reach, Far
    <3>3. Far(s)' = u.block_high + t.windowsize
      BY <1>11, <3>1 DEF Far
    <3>4. t.block_current <= t.block_high + t.windowsize
      BY <3>1, <3>2 DEF Within
    <3>5. Far(s)' \in Nat /\ t.block_current <= Far(s)'
      BY <1>4, <3>3, <3>4
    <3>7. serving'.next = u.block_high + 1 /\ serving'.left = t.windowsize
      BY <1>1, <1>3, <1>5, <3>1, TransferIs
    <3>8. serving'.next + serving'.left = u.block_high + u.windowsize + 1
      BY <1>4, <3>1, <3>7
    <3>9. ASSUME NEW n \in down, n.type = "DATA", n.sock = s
          PROVE  n.block <= Far(s)'
      <4>1. n.block <= t.block_current /\ n.block \in Nat
        BY <3>2, <3>9, BlockIs DEF Within, TftpInv, Types, Packet
      <4> QED
        BY <1>4, <3>5, <4>1
    <3>10. ASSUME NEW n \in up, n.type = "ACK", n.sock = s
           PROVE  n.block <= Far(s)'
      <4>1. n.block <= t.block_current /\ n.block \in Nat
        BY <3>2, <3>10, BlockIs DEF Within, TftpInv, Types, Answer
      <4> QED
        BY <1>4, <3>5, <4>1
    <3>11. ASSUME NEW d \in Client, client[d].state = "receiving", client[d].sock = s
           PROVE  client[d].last <= Far(s)'
      <4>1. client[d].last <= t.block_current /\ client[d].last \in Nat
        BY <3>2, <3>11, BlockIs DEF Within, TftpInv, Types, Peer
      <4> QED
        BY <1>4, <3>5, <4>1
    <3>12. u.block_current <= u.block_high + u.windowsize
      BY <1>3, <3>1, <3>3, <3>5
    <3> QED
      BY <1>1, <2>2, <3>1, <3>8, <3>9, <3>10, <3>11, <3>12 DEF Within
  <2> QED
    BY <2>1, <2>2 DEF Within
<1>16. ASSUME NEW v \in Sock PROVE Behind(v)'
  <2>1. CASE v = s
    <3>1. Behind(s) /\ transfers[s] = t /\ t # None
      BY <1>2, TransferIs DEF TftpInv, Numbers, t
    <3>2. t.block_high <= t.block_current /\ Filled(t)
      BY <3>1 DEF Behind
    <3>3. u.block_high <= u.block_current /\ u.block_current \in Nat /\ ~u.eof
      BY <1>1, <1>3, <1>4, <3>2
    <3>4. Filled(u)
      BY <1>3, <3>2 DEF Filled, Same
    <3>5. transfers'[v] = u /\ serving'.next = u.block_high + 1
      BY <1>1, <1>5, <1>7, <2>1
    <3>6. serving'.next <= u.block_current + 1
      BY <1>4, <3>3, <3>5
    <3> QED
      BY <3>3, <3>4, <3>5, <3>6 DEF Behind
  <2>2. CASE v # s
    BY <1>7, <1>11, <2>2 DEF TftpInv, Numbers, Behind
  <2> QED
    BY <2>1, <2>2
<1>17. Ended'
  BY <1>1 DEF TftpInv, Numbers, Ended
<1> QED
  BY <1>9, <1>12, <1>13, <1>14, <1>15, <1>16, <1>17 DEF TftpInv, Reach, Numbers

\* One block of a window.
LEMMA SendKeeps ==
    ASSUME TftpInv, SendBlock
    PROVE  TftpInv'
<1>0. PICK s \in Sock : serving # None /\ s = serving.sock
  BY ActiveIs DEF SendBlock, TftpInv, Types, TypeOK
<1> DEFINE t == transfers[s]
           b == get_block(t, serving.next)
           u == b.state
           sent == Data(s, u, serving.next, b.data)
           w == [serving EXCEPT !.next = serving.next + 1, !.left = serving.left - 1]
<1>1. /\ serving # None /\ transfers' = [transfers EXCEPT ![s] = u] /\ down' = down \cup {sent}
      /\ serving' = IF u.eof \/ serving.left = 1 THEN None ELSE w
      /\ UNCHANGED <<listener, opened, todo, aborted, client, up>>
  BY <1>0 DEF SendBlock, is_complete
<1>2. /\ serving \in Window /\ s \in Active /\ s \notin todo /\ serving.next \in Block /\ serving.next # 0
      /\ t \in Transfer /\ serving.left \in 1..t.windowsize
  BY <1>0, ActiveIs, BlockIs, Sizes DEF SendBlock, TftpInv, Types, TypeOK
<1>3. /\ b.data \in Seq(Byte) /\ u \in Transfer /\ Same(u, t) /\ u.block_high = t.block_high
      /\ u.block_current = serving.next /\ Filled(u)
      /\ t.eof => u.eof
      /\ ~t.netascii => b.data = Octets(t.file, serving.next, t.blocksize)
  <2> HIDE DEF t
  <2> QED
    BY <1>2, GetBlockIs
<1>4. transfers[s] = t /\ t # None /\ Serves(t) /\ Unheard(s) /\ Within(s) /\ Sending(s)
  BY <1>0, <1>2, TransferIs DEF TftpInv, Owned, Early, Reach, Active, Sending
<1>5. t.peer \in Client /\ client[t.peer].state \notin {"idle", "asking"}
        /\ client[t.peer].req \in Request /\ client[t.peer].req.file = t.file /\ t.file \in File
  BY <1>0, <1>2, <1>4, TransferIs DEF Serves, Unheard, TftpInv, Owned, ClientOwned
<1> HIDE DEF b, u
<1>6. PICK p \in Packet :
         /\ down' = down \cup {p} /\ p.type = "DATA" /\ p.sock = s /\ p.to = t.peer
         /\ p.block = serving.next /\ p.data = b.data
  <2>1. /\ sent \in Packet /\ sent.type = "DATA" /\ sent.sock = s /\ sent.to = t.peer
        /\ sent.block = serving.next /\ sent.data = b.data
    BY <1>2, <1>3, <1>5 DEF Data, Packet, Same
  <2> HIDE DEF sent
  <2> QED
    BY <1>1, <2>1
<1> HIDE DEF sent
<1>7. serving.left # 1 => /\ w \in Window /\ w.sock = s /\ w.next = serving.next + 1
                          /\ w.left = serving.left - 1 /\ w.left \in 1..t.windowsize
  <2>1. serving.left # 1 => serving.left - 1 \in 1..t.windowsize /\ serving.left - 1 \in 1..MaxWindow
    BY <1>2, TransferIs, Sizes DEF Window
  <2>2. serving.next + 1 \in 1..M
    BY <1>2, NextBlockIs
  <2> QED
    BY <1>0, <1>2, <2>1, <2>2 DEF Window
<1> HIDE DEF w
<1>8. /\ Active' = Active \cup {s} /\ Cardinality(Active') <= MaxConn
      /\ transfers' \in [Sock -> Transfer \cup {None}]
  BY <1>1, <1>2, <1>3, ActiveMore DEF TftpInv
<1>9. \A v \in Sock : transfers'[v] = IF v = s THEN u ELSE transfers[v]
  BY <1>1 DEF TftpInv, Types, TypeOK
<1>10. Active' = Active /\ serving' \in Window \cup {None}
  BY <1>1, <1>2, <1>7, <1>8
<1>11. serving' = None \/ /\ serving'.sock \in Active' \ todo' /\ serving'.next \in 1..M
                          /\ serving'.left \in 1..transfers'[serving'.sock].windowsize
  BY <1>1, <1>2, <1>3, <1>7, <1>9, <1>10 DEF Window, Same
<1>12. Types'
  BY <1>1, <1>6, <1>8, <1>10, <1>11 DEF TftpInv, Types, TypeOK
<1> HIDE DEF t
<1>13. ASSUME NEW v \in Sock
       PROVE  /\ transfers'[v] # None => transfers[v] # None /\ Same(transfers'[v], transfers[v])
              /\ Sending(v) <=> v = s
              /\ Sending(v)' => v = s
  <2>1. v = s => Same(transfers'[v], transfers[v]) /\ transfers[v] # None
    BY <1>3, <1>4, <1>9
  <2>2. v # s => transfers'[v] = transfers[v] /\ Same(transfers'[v], transfers[v])
    BY <1>9 DEF Same
  <2>3. (Sending(v) <=> v = s) /\ (Sending(v)' => v = s)
    BY <1>0, <1>1, <1>7 DEF Sending
  <2> QED
    BY <2>1, <2>2, <2>3
<1>14. Owned'
  <2>1. ASSUME NEW d \in Client PROVE ClientOwned(d)'
    BY <1>1, <1>13, Sizes DEF TftpInv, Types, TypeOK, Owned, ClientOwned, Sock, Same
  <2>2. ASSUME NEW n \in down PROVE PacketOwned(n)'
    BY <1>1, <1>13, Sizes DEF TftpInv, Types, TypeOK, Owned, PacketOwned, Sock, Same
  <2>3. PacketOwned(p)'
    <3>1. s \in 1..opened /\ s # None
      BY <1>2, SockIs DEF TftpInv, Types, TypeOK
    <3>2. transfers'[s].peer = t.peer
      BY <1>2, <1>3, <1>9 DEF Same
    <3> QED
      BY <1>1, <1>5, <1>6, <3>1, <3>2 DEF PacketOwned
  <2>4. ASSUME NEW v \in Sock, transfers'[v] # None PROVE Serves(transfers[v])'
    BY <1>1, <1>13, <2>4 DEF TftpInv, Owned, Serves, Same
  <2> QED
    BY <1>1, <1>6, <2>1, <2>2, <2>3, <2>4 DEF TftpInv, Owned
<1>15. Early'
  <2>1. ASSUME NEW n \in down PROVE PacketEarly(n)'
    BY <1>1 DEF TftpInv, Early, PacketEarly
  <2>2. PacketEarly(p)'
    BY <1>1, <1>5, <1>6 DEF PacketEarly
  <2>3. ASSUME NEW v \in Sock PROVE Unheard(v)'
    <3>1. CASE v = s
      BY <1>1, <1>2, <1>3, <1>5, <1>9, <3>1 DEF Unheard, Same
    <3>2. CASE v # s
      <4>1. transfers'[v] = transfers[v] /\ Unheard(v)
        BY <1>9, <3>2 DEF TftpInv, Early
      <4>2. serving' # None => serving'.sock # v
        BY <1>13, <3>2 DEF Sending
      <4> QED
        BY <1>1, <4>1, <4>2 DEF Unheard
    <3> QED
      BY <3>1, <3>2
  <2> QED
    BY <1>6, <2>1, <2>2, <2>3 DEF Early
<1>16. Octet'
  <2>1. ASSUME NEW n \in down PROVE PacketOctet(n)'
    BY <1>1 DEF TftpInv, Octet, PacketOctet
  <2>2. PacketOctet(p)'
    <3>1. t.netascii = client[t.peer].req.netascii /\ t.blocksize = Blksize(client[t.peer].req)
      BY <1>4 DEF Serves
    <3> QED
      BY <1>1, <1>3, <1>5, <1>6, <3>1 DEF PacketOctet
  <2>3. ASSUME NEW d \in Client PROVE ClientOctet(d)'
    BY <1>1 DEF TftpInv, Octet, ClientOctet
  <2> QED
    BY <1>6, <2>1, <2>2, <2>3 DEF Octet
<1>17. ASSUME NEW v \in Sock PROVE Within(v)'
  <2>1. CASE v # s
    <3>1. transfers'[v] = transfers[v] /\ Within(v) /\ (Unfinished(v)' <=> Unfinished(v))
            /\ ~Sending(v) /\ ~Sending(v)' /\ Far(v)' = Far(v)
      BY <1>9, <1>13, <2>1 DEF TftpInv, Reach, Unfinished, Far
    <3>2. \A n \in down' : n.sock = v => n \in down
      BY <1>1, <1>6, <2>1
    <3> QED
      BY <1>1, <3>1, <3>2 DEF Within
  <2>2. CASE v = s /\ Unfinished(s)'
    <3>1. transfers'[s] = u /\ ~u.eof /\ ~t.eof
            /\ u.windowsize = t.windowsize
      BY <1>2, <1>3, <1>9, <2>2, TransferIs DEF Unfinished, is_complete, Same
    <3>2. Unfinished(s) /\ Far(s) = t.block_high + t.windowsize
      BY <1>4, <3>1 DEF Unfinished, is_complete, Far
    <3>3. serving.next + serving.left = t.block_high + t.windowsize + 1
      BY <1>4, <3>2 DEF Within
    <3>4. /\ serving.next \in Nat /\ serving.left \in Nat /\ t.block_high \in Nat
          /\ t.windowsize \in Nat /\ serving.left <= t.windowsize /\ 1 <= serving.left
      BY <1>2, BlockIs, TransferIs
    <3>5. serving.next <= t.block_high + t.windowsize
      BY <3>3, <3>4
    <3>6. u.block_current = serving.next
      BY <1>3
    <3>7. Far(s)' = t.block_high + t.windowsize
      <4>1. CASE serving.left = 1
        <5>1. serving' = None /\ ~Sending(s)'
          BY <1>1, <4>1 DEF Sending
        <5> QED
          BY <3>1, <3>3, <3>4, <3>6, <4>1, <5>1 DEF Far
      <4>2. CASE serving.left # 1
        <5>1. serving' = w /\ w # None /\ w.sock = s
          BY <1>1, <1>7, <3>1, <4>2, NoneAssumption
        <5> QED
          BY <1>3, <3>1, <5>1 DEF Far, Sending
      <4> QED
        BY <4>1, <4>2
    <3>8. Sending(s)' => serving'.next + serving'.left = u.block_high + u.windowsize + 1
      <4> SUFFICES ASSUME serving' # None
                   PROVE  serving'.next + serving'.left = u.block_high + u.windowsize + 1
        BY DEF Sending
      <4>1. serving.left # 1 /\ serving' = w
        BY <1>1
      <4>2. w.next = serving.next + 1 /\ w.left = serving.left - 1
        BY <1>7, <4>1
      <4> QED
        BY <1>3, <3>1, <3>3, <3>4, <4>1, <4>2
    <3>9. \A n \in down' : n.type = "DATA" /\ n.sock = s => n.block <= Far(s)'
      BY <1>1, <1>4, <1>6, <3>2, <3>5, <3>7 DEF Within
    <3>10. /\ \A n \in up : n.type = "ACK" /\ n.sock = s => n.block <= Far(s)'
           /\ \A d \in Client : client[d].state = "receiving" /\ client[d].sock = s
                                   => client[d].last <= Far(s)'
      BY <1>4, <3>2, <3>7 DEF Within
    <3>11. u.block_current <= u.block_high + u.windowsize
      BY <1>3, <3>1, <3>5, <3>6
    <3> QED
      BY <1>1, <2>2, <3>1, <3>8, <3>9, <3>10, <3>11 DEF Within
  <2> QED
    BY <2>1, <2>2 DEF Within
<1>18. ASSUME NEW v \in Sock PROVE Behind(v)'
  <2>1. CASE v = s
    <3>1. ~t.eof /\ Behind(s)
      BY <1>4 DEF TftpInv, Numbers, Behind
    <3>2. serving.next + serving.left = t.block_high + t.windowsize + 1
      BY <1>4, <3>1 DEF Within, Unfinished, is_complete
    <3>3. /\ serving.next \in Nat /\ serving.left \in Nat /\ t.block_high \in Nat
          /\ t.windowsize \in Nat /\ serving.left <= t.windowsize
      BY <1>2, BlockIs, TransferIs DEF t
    <3>4. u.block_high <= u.block_current
      BY <1>3, <3>2, <3>3
    <3>5. transfers'[v] = u
      BY <1>9, <2>1
    <3>6. Sending(s)' => ~u.eof /\ serving' = w /\ w.next = serving.next + 1
      BY <1>1, <1>7 DEF Sending
    <3>7. Sending(v)' => ~u.eof /\ serving'.next <= u.block_current + 1
      BY <1>3, <2>1, <3>3, <3>6
    <3> QED
      BY <1>3, <3>4, <3>5, <3>7 DEF Behind
  <2>2. CASE v # s
    BY <1>9, <1>13, <2>2 DEF TftpInv, Numbers, Behind
  <2> QED
    BY <2>1, <2>2
<1>19. Ended'
  BY <1>1 DEF TftpInv, Numbers, Ended
<1> QED
  BY <1>12, <1>14, <1>15, <1>16, <1>17, <1>18, <1>19 DEF TftpInv, Reach, Numbers

-----------------------------------------------------------------------------
(* What the clients' steps do *)

\* An answer that a client in state k may send.
Right(c, k, m) ==
    /\ m \in Answer /\ m.sock \in 1..opened
    /\ m.type = "ACK" =>
          /\ k.state # "asking"
          /\ transfers[m.sock] # None => transfers[m.sock].peer = c
          /\ Unfinished(m.sock) => m.block <= Far(m.sock)

\* A client goes on to state k, hears what it hears and says only what is right.
Moves(c, k) ==
    /\ client' = [client EXCEPT ![c] = k] /\ k.state # "idle" /\ k.req \in Request
    /\ client[c].state # "idle" => k.req = client[c].req
    /\ k.state = "asking" => client[c].state \in {"idle", "asking"}
    /\ k.state = "receiving" => (Unfinished(k.sock) => k.last <= Far(k.sock))
    /\ listener' \subseteq listener \cup {c} /\ down' \subseteq down
    /\ \A m \in up' : m \in up \/ Right(c, k, m)
    /\ UNCHANGED <<transfers, opened, todo, serving, aborted>>

LEMMA MovesKeep ==
    ASSUME TftpInv, NEW c \in Client, NEW k \in Peer, Moves(c, k), ClientOwned(c)', ClientOctet(c)'
    PROVE  TftpInv'
<1>1. /\ client' = [client EXCEPT ![c] = k] /\ k.state # "idle" /\ k.req \in Request
      /\ client[c].state # "idle" => k.req = client[c].req
      /\ k.state = "asking" => client[c].state \in {"idle", "asking"}
      /\ k.state = "receiving" => (Unfinished(k.sock) => k.last <= Far(k.sock))
      /\ listener' \subseteq listener \cup {c} /\ down' \subseteq down
      /\ \A m \in up' : m \in up \/ Right(c, k, m)
      /\ transfers' = transfers /\ opened' = opened /\ todo' = todo /\ serving' = serving
      /\ aborted' = aborted
  BY DEF Moves
<1>2. client' \in [Client -> Peer] /\ \A d \in Client : client'[d] = IF d = c THEN k ELSE client[d]
  BY <1>1 DEF TftpInv, Types
<1>3. Active' = Active
  BY <1>1 DEF Active
<1>4. up' \subseteq Answer /\ \A m \in up' : m.sock \in 1..opened
  BY <1>1 DEF TftpInv, Types, Owned, Right
<1>5. Types'
  BY <1>1, <1>2, <1>3, <1>4 DEF TftpInv, Types, TypeOK
<1>6. Owned'
  <2>1. ASSUME NEW d \in Client PROVE ClientOwned(d)'
    <3>1. CASE d = c
      BY <3>1
    <3>2. CASE d # c
      BY <1>1, <1>2, <3>2 DEF TftpInv, Owned, ClientOwned
    <3> QED
      BY <3>1, <3>2
  <2>2. ASSUME NEW m \in down' PROVE PacketOwned(m)'
    <3>1. PacketOwned(m) /\ m.to \in Client
      BY <1>1 DEF TftpInv, Types, Packet, Owned
    <3> QED
      BY <1>1, <1>2, <3>1 DEF PacketOwned
  <2>3. ASSUME NEW s \in Sock, transfers'[s] # None PROVE Serves(transfers[s])'
    <3>1. Serves(transfers[s]) /\ transfers[s].peer \in Client
      BY <1>1, <2>3, TransferIs DEF TftpInv, Types, TypeOK, Owned
    <3> QED
      BY <1>1, <1>2, <3>1 DEF Serves
  <2>4. ASSUME NEW d \in listener' PROVE client'[d].state # "idle"
    BY <1>1, <1>2 DEF TftpInv, Types, TypeOK, Owned
  <2> QED
    BY <1>1, <1>4, <2>1, <2>2, <2>3, <2>4 DEF Owned
<1>7. Early'
  <2>1. ASSUME NEW m \in down' PROVE PacketEarly(m)'
    <3>1. PacketOwned(m) /\ PacketEarly(m) /\ m.to \in Client
      BY <1>1 DEF TftpInv, Types, Packet, Owned, Early
    <3> QED
      BY <1>1, <1>2, <3>1 DEF PacketOwned, PacketEarly
  <2>2. ASSUME NEW s \in Sock, transfers[s] # None, client'[transfers[s].peer].state = "asking"
        PROVE  /\ serving # None => serving.sock # s
               /\ \A m \in up' : m.type = "ACK" => m.sock # s
    <3>1. Serves(transfers[s]) /\ Unheard(s) /\ transfers[s].peer \in Client
      BY <2>2, TransferIs DEF TftpInv, Types, TypeOK, Owned, Early
    <3>2. client[transfers[s].peer].state = "asking"
      BY <1>1, <1>2, <2>2, <3>1 DEF Serves
    <3>3. ASSUME NEW m \in up', m.type = "ACK", m.sock = s PROVE FALSE
      <4>1. Right(c, k, m)
        BY <1>1, <2>2, <3>1, <3>2, <3>3 DEF Unheard
      <4>2. k.state # "asking" /\ transfers[s].peer = c
        BY <2>2, <3>3, <4>1 DEF Right
      <4> QED
        BY <1>2, <2>2, <4>2
    <3> QED
      BY <2>2, <3>1, <3>2, <3>3 DEF Unheard
  <2> QED
    BY <1>1, <2>1, <2>2 DEF Early, Unheard
<1>8. Octet'
  <2>1. ASSUME NEW m \in down' PROVE PacketOctet(m)'
    <3>1. PacketOwned(m) /\ PacketOctet(m) /\ m.to \in Client
      BY <1>1 DEF TftpInv, Types, Packet, Owned, Octet
    <3> QED
      BY <1>1, <1>2, <3>1 DEF PacketOwned, PacketOctet
  <2>2. ASSUME NEW d \in Client PROVE ClientOctet(d)'
    <3>1. CASE d = c
      BY <3>1
    <3>2. CASE d # c
      BY <1>1, <1>2, <3>2 DEF TftpInv, Octet, ClientOctet
    <3> QED
      BY <3>1, <3>2
  <2> QED
    BY <2>1, <2>2 DEF Octet
<1>9. ASSUME NEW s \in Sock PROVE Within(s)'
  <2>1. Within(s) /\ (Unfinished(s)' <=> Unfinished(s)) /\ (Sending(s)' <=> Sending(s)) /\ Far(s)' = Far(s)
    BY <1>1 DEF TftpInv, Reach, Unfinished, Sending, Far
  <2>2. ASSUME Unfinished(s), NEW m \in up', m.type = "ACK", m.sock = s
        PROVE  m.block <= Far(s)
    BY <1>1, <2>1, <2>2 DEF Within, Right
  <2>3. ASSUME Unfinished(s), NEW d \in Client, client'[d].state = "receiving", client'[d].sock = s
        PROVE  client'[d].last <= Far(s)
    BY <1>1, <1>2, <2>1, <2>3 DEF Within
  <2> QED
    BY <1>1, <2>1, <2>2, <2>3 DEF Within
<1>10. Numbers'
  BY <1>1 DEF TftpInv, Numbers, Behind, Ended, Sending
<1> QED
  BY <1>5, <1>6, <1>7, <1>8, <1>9, <1>10 DEF TftpInv, Reach

\* Ask, TryAgain and GiveUp.
LEMMA SaysKeeps ==
    ASSUME TftpInv, NEW c \in Client, Ask(c) \/ TryAgain(c) \/ GiveUp(c)
    PROVE  TftpInv'
<1> DEFINE old == client[c]
<1>0. old \in Peer /\ ClientOwned(c) /\ ClientOctet(c) /\ client \in [Client -> Peer]
  BY DEF TftpInv, Types, Owned, Octet
<1>1. ASSUME NEW r \in Request, old.state = "idle", listener' = listener \cup {c},
             client' = [client EXCEPT ![c].state = "asking", ![c].req = r],
             UNCHANGED <<server, up, down>>
      PROVE  TftpInv'
  <2> DEFINE k == [old EXCEPT !.state = "asking", !.req = r]
  <2>1. k \in Peer /\ k.state = "asking" /\ k.req = r /\ k.blksize = old.blksize /\ k.got = old.got
          /\ k.last = old.last
    BY <1>0 DEF Peer
  <2>2. client' = [client EXCEPT ![c] = k] /\ client'[c] = k
    BY <1>0, <1>1
  <2> HIDE DEF k
  <2>3. Moves(c, k)
    BY <1>1, <2>1, <2>2 DEF Moves, server
  <2>4. ClientOwned(c)' /\ ClientOctet(c)'
    BY <1>0, <1>1, <2>1, <2>2 DEF ClientOwned, ClientOctet
  <2> QED
    BY <2>1, <2>3, <2>4, MovesKeep
<1>2. CASE TryAgain(c)
  <2> DEFINE k == [old EXCEPT !.tries = old.tries + 1]
  <2>1. k \in Peer /\ k.state = old.state /\ k.req = old.req /\ k.blksize = old.blksize
          /\ k.got = old.got /\ k.last = old.last /\ k.sock = old.sock
    <3>1. old.tries + 1 \in Nat
      BY <1>0 DEF Peer
    <3> HIDE DEF old
    <3> QED
      BY <1>0, <3>1 DEF Peer
  <2>2. client' = [client EXCEPT ![c] = k] /\ client'[c] = k
    BY <1>0, <1>2 DEF TryAgain
  <2> HIDE DEF k
  <2>3. UNCHANGED <<transfers, opened, todo, serving, aborted, down>> /\ old.state \in {"asking", "receiving"}
          /\ listener' \subseteq listener \cup {c}
    BY <1>2 DEF TryAgain, server
  <2>4. old.req \in Request
    BY <1>0, <2>3 DEF ClientOwned
  <2>5. ASSUME old.state = "receiving"
        PROVE  /\ old.sock \in Sock /\ old.sock \in 1..opened
               /\ transfers[old.sock] # None => transfers[old.sock].peer = c
               /\ Unfinished(old.sock) => old.last <= Far(old.sock)
    <3>1. old.sock \in 1..opened /\ (transfers[old.sock] # None => transfers[old.sock].peer = c)
      BY <1>0, <2>5 DEF ClientOwned
    <3>2. old.sock \in Sock
      BY <3>1, Sizes DEF TftpInv, Types, TypeOK, Sock
    <3>3. Within(old.sock)
      BY <3>2 DEF TftpInv, Reach
    <3> QED
      BY <2>5, <3>1, <3>2, <3>3 DEF Within
  <2>6. ASSUME NEW m \in up', m \notin up
        PROVE  Right(c, k, m)
    <3>1. m = Ack(old.sock, old.last) /\ old.state = "receiving"
      BY <1>2, <2>6 DEF TryAgain
    <3>2. m \in Answer /\ m.sock = old.sock /\ m.block = old.last
      BY <1>0, <2>5, <3>1 DEF Ack, Answer, Peer
    <3> QED
      BY <2>1, <2>5, <3>1, <3>2 DEF Right
  <2>7. Moves(c, k)
    BY <2>1, <2>2, <2>3, <2>4, <2>5, <2>6 DEF Moves
  <2>8. ClientOwned(c)' /\ ClientOctet(c)'
    BY <1>0, <2>1, <2>2, <2>3 DEF ClientOwned, ClientOctet
  <2> QED
    BY <2>1, <2>7, <2>8, MovesKeep
<1>3. CASE GiveUp(c)
  <2> DEFINE k == [old EXCEPT !.state = "failed"]
  <2>1. k \in Peer /\ k.state = "failed" /\ k.req = old.req
    BY <1>0 DEF Peer
  <2>2. client' = [client EXCEPT ![c] = k] /\ client'[c] = k
    BY <1>0, <1>3 DEF GiveUp
  <2> HIDE DEF k
  <2>3. old.req \in Request
    BY <1>0, <1>3 DEF GiveUp, ClientOwned
  <2>4. Moves(c, k)
    BY <1>3, <2>1, <2>2, <2>3 DEF GiveUp, Moves, server
  <2>5. ClientOwned(c)' /\ ClientOctet(c)'
    BY <2>1, <2>2, <2>3 DEF ClientOwned, ClientOctet
  <2> QED
    BY <2>1, <2>4, <2>5, MovesKeep
<1> QED
  BY <1>1, <1>2, <1>3 DEF Ask

LEMMA DivIs ==
    ASSUME NEW n \in Nat, NEW q \in Nat, NEW size \in Nat, 0 < size, q * size <= n
    PROVE  q <= n \div size /\ n \div size \in Nat
<1> DEFINE d == n \div size
           rem == n % size
<1>1. d \in Nat /\ rem \in Nat /\ rem < size /\ n = size * d + rem
  OBVIOUS
<1> HIDE DEF d, rem
<1>2. ASSUME d < q PROVE FALSE
  <2>1. PICK e \in Nat : q = d + 1 + e
    <3>1. q - d - 1 \in Nat /\ q = d + 1 + (q - d - 1)
      BY <1>1, <1>2
    <3> QED
      BY <3>1
  <2>2. q * size = size * d + size + e * size
    BY <1>1, <2>1
  <2>3. e * size \in Nat /\ size * d \in Nat
    BY <1>1
  <2> DEFINE more == e * size
             some == size * d
  <2> HIDE DEF more, some
  <2>4. q * size = some + size + more /\ more \in Nat /\ some \in Nat /\ n = some + rem
    BY <1>1, <2>2, <2>3 DEF more, some
  <2> DEFINE whole == q * size
  <2>5. whole = some + size + more /\ whole <= n
    BY <2>4
  <2> HIDE DEF whole
  <2> QED
    BY <1>1, <2>4, <2>5
<1> QED
  BY <1>1, <1>2 DEF d

\* The next block continues what a client has; when it is short, it ends it.
LEMMA NextOctets ==
    ASSUME NEW f \in File, NEW got \in Seq(Byte), NEW size \in Nat, 0 < size, NEW last \in Block,
           Begins(got, f), Len(got) = last * size, NEW data \in Seq(Byte),
           last + 1 < M, data = Octets(f, last + 1, size)
    PROVE  /\ Begins(got \o data, f)
           /\ ~(Len(data) < size) => Len(got \o data) = (last + 1) * size
           /\ Len(data) < size => Len(got \o data) = Len(Content[f])
<1> DEFINE s == Content[f]
           before == last * size
<1>1. s \in Seq(Byte) /\ Len(s) \in Nat /\ Len(got) \in Nat /\ Len(data) \in Nat /\ last \in Nat
  BY BytesAre, BlockIs
<1>2. Len(got \o data) = Len(got) + Len(data)
  OBVIOUS
<1>3. before \in Nat /\ before = Len(got) /\ before <= Len(s)
  BY <1>1 DEF Begins
<1>4. last + 1 # 0 /\ (last + 1) - 1 = last
  BY <1>1
<1>5. data = Read(f, before, size)
  BY <1>4 DEF Octets
<1>6. (last + 1) * size = before + size
  BY <1>1
<1> HIDE DEF before, s
<1>7. /\ Len(data) <= size /\ before + Len(data) <= Len(s)
      /\ Len(data) < size => before + Len(data) = Len(s)
      /\ \A i \in 1..Len(data) : data[i] = s[before + i]
  <2>1. before <= Len(Content[f])
    BY <1>3 DEF s
  <2> DEFINE read == Read(f, before, size)
  <2>2. /\ Len(read) <= size /\ before + Len(read) <= Len(Content[f])
        /\ Len(read) < size => before + Len(read) = Len(Content[f])
        /\ \A i \in 1..Len(read) : read[i] = Content[f][before + i]
    BY ONLY <1>3, <2>1, ReadIs, f \in File, size \in Nat
  <2> QED
    BY <1>5, <2>2 DEF s
<1>8. ASSUME NEW i \in 1..Len(got \o data)
      PROVE  (got \o data)[i] = s[i]
  <2>1. CASE i <= Len(got)
    <3>1. i \in 1..Len(got) /\ (got \o data)[i] = got[i]
      BY <1>1, <1>2, <2>1
    <3> QED
      BY <3>1 DEF Begins, s
  <2>2. CASE ~(i <= Len(got))
    <3>1. i - Len(got) \in 1..Len(data) /\ (got \o data)[i] = data[i - Len(got)]
      BY <1>1, <1>2, <2>2
    <3>2. before + (i - Len(got)) = i
      BY <1>1, <1>3
    <3>3. data[i - Len(got)] = s[before + (i - Len(got))]
      BY <1>7, <3>1
    <3> QED
      BY <3>1, <3>2, <3>3
  <2> QED
    BY <2>1, <2>2
<1>9. Begins(got \o data, f)
  BY <1>2, <1>3, <1>7, <1>8 DEF Begins, s
<1>10. ~(Len(data) < size) => Len(got) + Len(data) = before + size
  BY <1>1, <1>3, <1>7
<1>11. Len(data) < size => Len(got) + Len(data) = Len(s)
  BY <1>1, <1>3, <1>7
<1> QED
  BY <1>2, <1>4, <1>6, <1>9, <1>10, <1>11 DEF s

\* What is known of a packet of a transfer socket when its client hears it.
LEMMA HeardIs ==
    ASSUME TftpInv, NEW m \in down, m.type \in {"DATA", "OACK"}
    PROVE  /\ m \in Packet /\ m.sock \in Sock /\ m.sock \in 1..opened
           /\ client[m.to].state # "idle" /\ client[m.to].req \in Request
           /\ client[m.to].req.file \in File
           /\ transfers[m.sock] # None => transfers[m.sock].peer = m.to
           /\ m.type = "DATA" /\ Unfinished(m.sock) => m.block <= Far(m.sock)
<1>1. m \in Packet /\ m.to \in Client /\ PacketOwned(m)
  BY DEF TftpInv, Types, Packet, Owned
<1>2. m.sock \in 1..opened /\ m.sock \in Sock
  BY <1>1, Sizes DEF PacketOwned, TftpInv, Types, TypeOK, Sock
<1>3. client[m.to].state # "idle" /\ client[m.to].req \in Request
  BY <1>1, <1>2, SockIs DEF PacketOwned, TftpInv, Owned, ClientOwned
<1>4. Within(m.sock)
  BY <1>2 DEF TftpInv, Reach
<1> QED
  BY <1>1, <1>2, <1>3, <1>4, SockIs DEF PacketOwned, Within

\* The answer to a request with options: the client learns the block size.
LEMMA OackKeeps ==
    ASSUME TftpInv, NEW c \in Client, NEW m \in down, m.to = c, m.type = "OACK",
           client[c].state = "asking",
           client' = [client EXCEPT ![c].state = "receiving", ![c].sock = m.sock,
                                    ![c].blksize = m.blksize],
           up' = up \cup {Ack(m.sock, 0)}, down' = down \ {m}, UNCHANGED <<listener, server>>
    PROVE  TftpInv'
<1> DEFINE old == client[c]
           k == [old EXCEPT !.state = "receiving", !.sock = m.sock, !.blksize = m.blksize]
<1>1. old \in Peer /\ ClientOwned(c) /\ client \in [Client -> Peer] /\ PacketOwned(m)
  BY DEF TftpInv, Types, Owned
<1>2. /\ m \in Packet /\ m.sock \in Sock /\ m.sock \in 1..opened
      /\ old.req \in Request /\ old.req.file \in File
      /\ transfers[m.sock] # None => transfers[m.sock].peer = c
  BY HeardIs
<1>3. m.blksize = Blksize(old.req) /\ m.blksize \in Nat
  BY <1>1, <1>2, RequestIs DEF PacketOwned
<1>4. old.got = <<>> /\ old.last = 0
  BY <1>1 DEF ClientOwned
<1>5. /\ k \in Peer /\ k.state = "receiving" /\ k.req = old.req /\ k.blksize = m.blksize
      /\ k.got = <<>> /\ k.last = 0 /\ k.sock = m.sock
  BY <1>1, <1>2, <1>3, <1>4 DEF Peer
<1>6. client' = [client EXCEPT ![c] = k] /\ client'[c] = k
  BY <1>1
<1> HIDE DEF k
<1>7. Unfinished(m.sock) => 0 <= Far(m.sock)
  <2>1. Unfinished(m.sock) => transfers[m.sock] \in Transfer
    BY <1>2 DEF Unfinished, TftpInv, Types, TypeOK
  <2>2. transfers[m.sock] \in Transfer => Far(m.sock) \in Nat
    BY BlockIs, TransferIs DEF Far
  <2> QED
    BY <2>1, <2>2
<1>8. ASSUME NEW n \in up', n \notin up
      PROVE  Right(c, k, n)
  <2>1. n = Ack(m.sock, 0)
    BY <1>8
  <2>2. n \in Answer /\ n.sock = m.sock /\ n.block = 0
    BY <1>2, <2>1, BlockIs DEF Ack, Answer
  <2> QED
    BY <1>2, <1>5, <1>7, <2>2 DEF Right
<1>9. Moves(c, k)
  BY <1>2, <1>5, <1>6, <1>7, <1>8 DEF Moves, server
<1>10. ClientOwned(c)'
  BY <1>2, <1>3, <1>5, <1>6 DEF ClientOwned, server
<1>11. ClientOctet(c)'
  <2>1. Begins(<<>>, old.req.file)
    BY <1>2, BytesAre DEF Begins
  <2>2. Len(<<>>) = 0 * m.blksize
    BY <1>3
  <2> QED
    BY <1>5, <1>6, <2>1, <2>2 DEF ClientOctet
<1> QED
  BY <1>5, <1>9, <1>10, <1>11, MovesKeep

\* The client takes a block.
LEMMA TakeKeeps ==
    ASSUME TftpInv, NEW c \in Client, NEW m \in down, m.to = c, m.type = "DATA",
           \/ client[c].state = "asking"
           \/ client[c].state = "receiving" /\ m.sock = client[c].sock
              /\ m.block = client[c].last + 1,
           client' = [client EXCEPT ![c] = Take(client[c], m)],
           up' = up \cup {Ack(m.sock, m.block)}, down' = down \ {m}, UNCHANGED <<listener, server>>
    PROVE  TftpInv'
<1> DEFINE old == client[c]
           k == Take(old, m)
<1>1. /\ old \in Peer /\ ClientOwned(c) /\ ClientOctet(c) /\ client \in [Client -> Peer]
      /\ PacketEarly(m) /\ PacketOctet(m)
  BY DEF TftpInv, Types, Owned, Early, Octet
<1>2. /\ m \in Packet /\ m.sock \in Sock /\ m.sock \in 1..opened
      /\ old.req \in Request /\ old.req.file \in File
      /\ transfers[m.sock] # None => transfers[m.sock].peer = c
      /\ Unfinished(m.sock) => m.block <= Far(m.sock)
  BY HeardIs
<1>3. /\ old.blksize = Blksize(old.req) /\ old.blksize \in Nat /\ 0 < old.blksize
      /\ old.last \in Block /\ m.block = old.last + 1 /\ m.data \in Seq(Byte)
      /\ old.got \in Seq(Byte)
  <2>1. CASE old.state = "asking"
    <3>1. m.block = 1 /\ ~Options(old.req) /\ old.blksize = DefaultBlk /\ old.last = 0
      BY <1>1, <2>1 DEF PacketEarly, ClientOwned
    <3> QED
      BY <1>1, <1>2, <3>1, RequestIs, BlockIs DEF Packet, Peer
  <2>2. CASE old.state = "receiving"
    BY <1>1, <1>2, <2>2, RequestIs DEF Packet, Peer, ClientOwned
  <2> QED
    BY <2>1, <2>2
<1>4. /\ k \in Peer /\ k.state = (IF Len(m.data) < old.blksize THEN "done" ELSE "receiving")
      /\ k.req = old.req /\ k.blksize = old.blksize /\ k.got = old.got \o m.data
      /\ k.last = m.block /\ k.sock = m.sock
  <2>1. old.got \o m.data \in Seq(Byte) /\ m.block \in Block
    BY <1>2, <1>3 DEF Packet
  <2> QED
    BY <1>1, <1>2, <2>1 DEF Take, Peer
<1>5. client' = [client EXCEPT ![c] = k] /\ client'[c] = k
  BY <1>1
<1> HIDE DEF k
<1>6. ASSUME NEW n \in up', n \notin up
      PROVE  Right(c, k, n)
  <2>1. n = Ack(m.sock, m.block)
    BY <1>6
  <2>2. n \in Answer /\ n.sock = m.sock /\ n.block = m.block
    BY <1>2, <2>1 DEF Ack, Answer, Packet
  <2> QED
    BY <1>2, <1>4, <2>2 DEF Right
<1>7. Moves(c, k)
  BY <1>2, <1>4, <1>5, <1>6 DEF Moves, server
<1>8. ClientOwned(c)'
  BY <1>2, <1>3, <1>4, <1>5 DEF ClientOwned, server
<1>9. ClientOctet(c)'
  <2> SUFFICES ASSUME ~old.req.netascii
               PROVE  /\ Begins(k.got, k.req.file)
                      /\ k.state = "receiving" => Len(k.got) = k.last * k.blksize
                      /\ k.state = "done" => Len(k.got) = Len(Content[k.req.file])
    BY <1>4, <1>5 DEF ClientOctet
  <2>1. m.data = Octets(old.req.file, m.block, old.blksize)
    BY <1>1, <1>3 DEF PacketOctet
  <2>2. Begins(old.got, old.req.file) /\ Len(old.got) = old.last * old.blksize
    <3>1. CASE old.state = "asking"
      <4>1. old.got = <<>> /\ old.last = 0
        BY <1>1, <3>1 DEF ClientOwned
      <4>2. Begins(<<>>, old.req.file)
        BY <1>2, BytesAre DEF Begins
      <4>3. Len(<<>>) = 0 * old.blksize
        BY <1>3
      <4> QED
        BY <4>1, <4>2, <4>3
    <3>2. CASE old.state = "receiving"
      BY <1>1, <3>2 DEF ClientOctet
    <3> QED
      BY <3>1, <3>2
  <2> DEFINE file == old.req.file
             size == old.blksize
             last == old.last
             got == old.got
  <2>3. /\ file \in File /\ got \in Seq(Byte) /\ size \in Nat /\ 0 < size /\ last \in Block
        /\ Begins(got, file) /\ Len(got) = last * size /\ m.data \in Seq(Byte)
        /\ m.data = Octets(file, last + 1, size) /\ last + 1 < M
    BY <1>2, <1>3, <2>1, <2>2, BlockIs DEF Packet
  <2> HIDE DEF file, size, last, got
  <2>4. /\ Begins(got \o m.data, file)
        /\ ~(Len(m.data) < size) => Len(got \o m.data) = (last + 1) * size
        /\ Len(m.data) < size => Len(got \o m.data) = Len(Content[file])
    BY <2>3, NextOctets
  <2> QED
    BY <1>3, <1>4, <2>4 DEF file, size, last, got
<1> QED
  BY <1>4, <1>7, <1>8, <1>9, MovesKeep

LEMMA HearKeeps ==
    ASSUME TftpInv, NEW c \in Client, NEW m \in down, Hear(c, m)
    PROVE  TftpInv'
<1> DEFINE old == client[c]
<1>0. /\ m.to = c /\ down' = down \ {m} /\ UNCHANGED <<listener, server>>
      /\ old \in Peer /\ ClientOwned(c) /\ ClientOctet(c) /\ client \in [Client -> Peer]
  BY DEF Hear, TftpInv, Types, Owned, Octet
<1>1. CASE /\ old.state = "asking" /\ m.type = "ERROR"
           /\ client' = [client EXCEPT ![c].state = "failed"] /\ UNCHANGED up
  <2> DEFINE k == [old EXCEPT !.state = "failed"]
  <2>1. k \in Peer /\ k.state = "failed" /\ k.req = old.req
    BY <1>0 DEF Peer
  <2>2. client' = [client EXCEPT ![c] = k] /\ client'[c] = k
    BY <1>0, <1>1
  <2> HIDE DEF k
  <2>3. old.req \in Request
    BY <1>0, <1>1 DEF ClientOwned
  <2>4. Moves(c, k)
    BY <1>0, <1>1, <2>1, <2>2, <2>3 DEF Moves, server
  <2>5. ClientOwned(c)' /\ ClientOctet(c)'
    BY <2>1, <2>2, <2>3 DEF ClientOwned, ClientOctet
  <2> QED
    BY <2>1, <2>4, <2>5, MovesKeep
<1>2. CASE /\ old.state = "asking" /\ m.type = "OACK"
           /\ client' = [client EXCEPT ![c].state = "receiving", ![c].sock = m.sock,
                                       ![c].blksize = m.blksize]
           /\ up' = up \cup {Ack(m.sock, 0)}
  BY <1>0, <1>2, OackKeeps
<1>3. CASE /\ m.type = "DATA"
           /\ \/ old.state = "asking"
              \/ old.state = "receiving" /\ m.sock = old.sock /\ m.block = old.last + 1
           /\ client' = [client EXCEPT ![c] = Take(old, m)]
           /\ up' = up \cup {Ack(m.sock, m.block)}
  BY <1>0, <1>3, TakeKeeps
<1>4. CASE /\ client' = client /\ old.state \in {"receiving", "done", "failed"}
           /\ \/ up' = up
              \/ m.sock # None /\ up' = up \cup {[type |-> "ERROR", sock |-> m.sock, block |-> 0]}
  <2>1. client' = [client EXCEPT ![c] = old] /\ client'[c] = old
    BY <1>0, <1>4
  <2>2. old.req \in Request
    BY <1>0, <1>4 DEF ClientOwned
  <2>3. m \in Packet /\ PacketOwned(m)
    BY DEF TftpInv, Types, Owned
  <2>4. ASSUME NEW n \in up', n \notin up PROVE Right(c, old, n)
    <3>1. n = [type |-> "ERROR", sock |-> m.sock, block |-> 0] /\ m.sock # None
      BY <1>4, <2>4
    <3>2. m.sock \in 1..opened /\ m.sock \in Sock
      BY <2>3, <3>1, Sizes DEF PacketOwned, TftpInv, Types, TypeOK, Sock
    <3>3. n \in Answer /\ n.sock = m.sock /\ n.type = "ERROR"
      BY <3>1, <3>2, BlockIs DEF Answer
    <3> QED
      BY <3>2, <3>3 DEF Right
  <2>5. old.state = "receiving" => (Unfinished(old.sock) => old.last <= Far(old.sock))
    <3> SUFFICES ASSUME old.state = "receiving" PROVE Unfinished(old.sock) => old.last <= Far(old.sock)
      OBVIOUS
    <3>1. old.sock \in Sock
      BY <1>0, Sizes DEF ClientOwned, TftpInv, Types, TypeOK, Sock
    <3> QED
      BY <3>1 DEF TftpInv, Reach, Within
  <2>6. Moves(c, old)
    BY <1>0, <1>4, <2>1, <2>2, <2>4, <2>5 DEF Moves, server
  <2>7. ClientOwned(c)' /\ ClientOctet(c)'
    BY <1>0, <1>4 DEF ClientOwned, ClientOctet, server
  <2> QED
    BY <1>0, <2>6, <2>7, MovesKeep
<1> QED
  BY <1>1, <1>2, <1>3, <1>4 DEF Hear

-----------------------------------------------------------------------------
(* The theorems *)

LEMMA TftpStep ==
    ASSUME TftpInv, [Next]_vars
    PROVE  TftpInv'
<1>1. ASSUME NEW c \in Client, Listen(c) PROVE TftpInv'
  <2>1. CASE (Refuse(c) \/ Fail(c)) /\ UNCHANGED opened
    BY <1>1, <2>1, QuietSteps DEF Listen
  <2>2. CASE opened < MaxSock /\ Accept(c, opened + 1) /\ opened' = opened + 1
    BY <1>1, <2>2, AcceptKeeps DEF Listen
  <2> QED
    BY <1>1, <2>1, <2>2 DEF Listen
<1>2. CASE Poll \/ SendFails
  BY <1>2, QuietSteps
<1>3. CASE SendBlock
  BY <1>3, SendKeeps
<1>4. ASSUME NEW s \in Sock, Over(s) \/ Nothing(s) \/ SocketError(s) PROVE TftpInv'
  BY <1>4, QuietSteps
<1>5. ASSUME NEW s \in Sock, NEW m \in up, HandlePacket(s, m) PROVE TftpInv'
  <2>1. HandleAck(s, m) \/ HandleOther(s, m)
    BY <1>5 DEF HandlePacket
  <2> QED
    BY <1>5, <2>1, AckKeeps, QuietSteps
<1>6. ASSUME NEW c \in Client, Ask(c) \/ TryAgain(c) \/ GiveUp(c) PROVE TftpInv'
  BY <1>6, SaysKeeps
<1>7. ASSUME NEW c \in Client, NEW m \in down, Hear(c, m) PROVE TftpInv'
  BY <1>7, HearKeeps
<1>8. ASSUME NEW s \in Sock, Age(s) PROVE TftpInv'
  BY <1>8, AgeKeeps
<1>9. CASE UNCHANGED vars
  BY <1>9 DEF vars, server, TftpInv, Types, TypeOK, Active, Owned, ClientOwned, Serves, PacketOwned,
     Early, PacketEarly, Unheard, Octet, PacketOctet, ClientOctet, Reach, Within, Unfinished,
     Far, Sending, Numbers, Behind, Ended
<1>10. CASE Overflow
  BY <1>10, OverflowKeeps
<1> QED
  BY <1>1, <1>2, <1>3, <1>4, <1>5, <1>6, <1>7, <1>8, <1>9, <1>10 DEF Next, ServerStep, ClientStep

\* Every packet in flight is one its transfer could have sent, every client has what
\* the blocks up to its last one hold, and nothing is beyond what was sent.
THEOREM TftpInvariant == Spec => []TftpInv
  BY TftpStarts, TftpStep, PTL DEF Spec

\* process_active_transfers and handle_rrq keep the list of transfers within the
\* constant TFTP_MAX_CONNECTIONS, handle_ack takes no acknowledgement a client sent
\* for an error while the transfer goes on, and in octet mode handle_tftp_packet ends
\* the daemon only for a file with more blocks than there are numbers.
THEOREM TransfersStaySound == Spec => []TransfersAreSound
<1>1. ASSUME TftpInv PROVE TransfersAreSound
  <2>1. ASSUME NEW m \in up, m.type = "ACK", transfers[m.sock] # None, serving = None,
               ~is_complete(transfers[m.sock])
        PROVE  m.block <= transfers[m.sock].block_current
    <3>1. m.sock \in Sock
      BY <1>1 DEF TftpInv, Types, Answer
    <3>2. Within(m.sock) /\ Unfinished(m.sock) /\ Far(m.sock) = transfers[m.sock].block_current
      BY <1>1, <2>1, <3>1 DEF TftpInv, Reach, Unfinished, Far, Sending
    <3> QED
      BY <2>1, <3>2 DEF Within
  <2>2. ASSUME aborted # None, ~aborted.netascii
        PROVE  Len(Content[aborted.file]) \div aborted.blocksize + 1 > M - 1
    <3>1. aborted \in Transfer
      BY <1>1, <2>2 DEF TftpInv, Types, TypeOK
    <3> DEFINE n == Len(Content[aborted.file])
               size == aborted.blocksize
               q == n \div size
    <3>2. n \in Nat /\ size \in Nat /\ 0 < size /\ M - 1 \in Nat
      BY <3>1, TransferIs, BytesAre, Sizes
    <3>3. (M - 1) * size <= n
      BY <1>1, <2>2 DEF TftpInv, Numbers, Ended
    <3>4. M - 1 <= q /\ q \in Nat
      <4> HIDE DEF n, size
      <4> DEFINE k == M - 1
      <4>1. k \in Nat /\ k * size <= n
        BY <3>2, <3>3
      <4> HIDE DEF k
      <4>2. k <= n \div size /\ n \div size \in Nat
        BY <3>2, <4>1, DivIs
      <4> QED
        BY <4>2 DEF k
    <3> HIDE DEF q
    <3>5. q + 1 > M - 1
      BY <3>4, Sizes
    <3> QED
      BY <3>5 DEF q
  <2> QED
    BY <1>1, <2>1, <2>2 DEF TransfersAreSound, GoodAcksAreAccepted, AbortsOnlyOutOfNumbers, TftpInv,
       Types
<1> QED
  BY <1>1, TftpInvariant, PTL

\* get_block and the window that handle_tftp_packet sends: in octet mode a client has
\* a beginning of its file, and when it saw a short block all of it, for any loss,
\* repetition and delay of packets.
THEOREM FilesArrive == Spec => []FileArrives
<1>1. ASSUME TftpInv, NEW c \in Client
      PROVE  /\ client[c].state \in {"receiving", "done"} /\ ~client[c].req.netascii
                   => IsPrefix(client[c].got, Content[client[c].req.file])
             /\ client[c].state = "done" /\ ~client[c].req.netascii
                   => client[c].got = Content[client[c].req.file]
  <2> SUFFICES ASSUME client[c].state \in {"receiving", "done"}, ~client[c].req.netascii
               PROVE  /\ IsPrefix(client[c].got, Content[client[c].req.file])
                      /\ client[c].state = "done"
                            => client[c].got = Content[client[c].req.file]
    OBVIOUS
  <2> DEFINE got == client[c].got
             s == Content[client[c].req.file]
  <2>1. got \in Seq(Byte) /\ s \in Seq(Byte) /\ Len(got) \in Nat /\ Len(s) \in Nat
    BY <1>1, BytesAre DEF TftpInv, Types, Peer, Owned, ClientOwned
  <2>2. /\ Len(got) <= Len(s) /\ \A i \in 1..Len(got) : got[i] = s[i]
        /\ client[c].state = "done" => Len(got) = Len(s)
    BY <1>1 DEF TftpInv, Octet, ClientOctet, Begins
  <2> HIDE DEF got, s
  <2>3. SubSeq(got, 1, Len(got)) = SubSeq(s, 1, Len(got))
    BY <2>1, <2>2
  <2>4. IsPrefix(got, s)
    BY <2>2, <2>3 DEF IsPrefix
  <2>5. Len(got) = Len(s) => got = s
    BY <2>1, <2>2
  <2> QED
    BY <2>2, <2>4, <2>5 DEF got, s
<1>2. TftpInv => FileArrives
  BY <1>1 DEF FileArrives, ReceivedIsPrefix, DoneIsWhole
<1> QED
  BY <1>2, TftpInvariant, PTL

=============================================================================
