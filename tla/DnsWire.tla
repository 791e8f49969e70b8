------------------------------- MODULE DnsWire -------------------------------
(***************************************************************************)
(* Domain names on the wire: the compression map, the writer and the three *)
(* readers of src/src/dns/protocol/compression.rs and name.rs.  Questions  *)
(* and record owners are written by compress_name; questions are read by   *)
(* decompress_name, owners and names in record data by from_wire.          *)
(*                                                                         *)
(* A packet is a sequence of bytes, which are numbers; an offset counts    *)
(* from 0.  A name is the sequence of its labels and a label the sequence  *)
(* of its bytes.  A reader returns <<"ok", labels, offset after the name>> *)
(* or an error.                                                            *)
(***************************************************************************)
EXTENDS Naturals, Sequences, SequencesExt, FiniteSets

CONSTANTS
    Names,         \* names that are written
    MaxNames,      \* bound: how many of them to one message
    HeaderLength,  \* 12
    PointerLimit,  \* 0x3FFF: the last offset a pointer can name
    MaxHops,       \* MAX_COMPRESSION_HOPS, 255
    MAXDNAME,      \* the longest name decompress_name builds
    MAX_NAME_LEN,  \* the longest name from_wire builds
    Packets        \* packets that come from the network

ASSUME WireAssumption ==
    /\ {HeaderLength, PointerLimit, MaxHops, MAXDNAME, MAX_NAME_LEN} \subseteq Nat
    /\ MAX_NAME_LEN <= MAXDNAME
    /\ MaxHops > 0 /\ PointerLimit < 64 * 256
    /\ Names \subseteq Seq(Seq(0..127))                             \* a longer label is an error
    /\ \A name \in Names : \A i \in DOMAIN name : Len(name[i]) <= 63
    /\ Packets \subseteq Seq(0..255)

VARIABLES
    message,  \* the message being written: bytes, compression map, names written
    packet    \* a packet from the network

wire == <<message, packet>>

NAME_ESCAPE == 1

Dot == 46

Byte(pkt, offset) == pkt[offset + 1]

Bytes(pkt, offset, n) == SubSeq(pkt, offset + 1, offset + n)

\* The two top bits of a byte where a label may start.
IsPointer(byte) == byte >= 192

IsReserved(byte) == byte \in 64..191

-----------------------------------------------------------------------------
(* Writing *)

escape_label(label) ==
    FlattenSeq([i \in DOMAIN label |-> IF label[i] \in {0, NAME_ESCAPE, Dot}
                                       THEN <<NAME_ESCAPE, label[i] + 1>> ELSE <<label[i]>>])

LabelBytes(label) == <<Len(escape_label(label))>> \o escape_label(label)

encode_labels_to_wire(labels) == FlattenSeq([i \in DOMAIN labels |-> LabelBytes(labels[i])]) \o <<0>>

\* The places in the bytes of a name where a label, the end or a pointer starts:
\* the first one, and where a label that starts earlier ends.
LabelStarts(bytes) ==
    LET starts[p \in 0..Len(bytes)] ==
           p = 0 \/ \E q \in 0..(p - 1) : /\ Byte(bytes, q) \in 1..63 /\ q + 1 + Byte(bytes, q) = p
                                        /\ starts[q]
    IN {p \in 0..(Len(bytes) - 1) : starts[p]}

add_name_FirstOffset(map, bytes, offset) ==
    LET tails == {<<SubSeq(bytes, p + 1, Len(bytes)), offset>> : p \in LabelStarts(bytes)}
    IN {e \in map : \A t \in tails : t[1] # e[1]} \cup tails

\* Every tail of the name with the offset it starts at; an older offset of the
\* same bytes goes.
add_name(map, bytes, offset) ==
    LET tails == {<<SubSeq(bytes, p + 1, Len(bytes)), offset + p>> : p \in LabelStarts(bytes)}
    IN {e \in map : \A t \in tails : t[1] # e[1]} \cup tails

\* find_exact: the offsets of a wire form, none or one, that a pointer can name.
Reachable(map, labels) ==
    {e[2] : e \in {f \in map : f[1] = encode_labels_to_wire(labels) /\ f[2] <= PointerLimit}}

\* 0xC000 | offset
Pointer(offset) == <<192 + ((offset \div 256) % 64), offset % 256>>

LastLabels(labels, n) == SubSeq(labels, Len(labels) - n + 1, Len(labels))

\* Labels up to the first tail that a pointer can stand for, or to the end.
Compressed(map, labels) ==
    LET form[n \in 0..Len(labels)] ==
           LET tail == LastLabels(labels, n)
           IN IF n = 0 THEN <<0>>
              ELSE IF Reachable(map, tail) # {} THEN Pointer(CHOOSE k \in Reachable(map, tail) : TRUE)
              ELSE LabelBytes(Head(tail)) \o form[n - 1]
    IN form[Len(labels)]

\* A message being written: its bytes, the map, and what was written where.
compress_name(msg, name) ==
    LET bytes == Compressed(msg.map, name)
        start == Len(msg.buffer)
    IN [buffer |-> msg.buffer \o bytes,
        map |-> IF name = <<>> \/ IsPointer(bytes[1]) THEN msg.map
                ELSE add_name(msg.map, bytes, start),
        written |-> msg.written \cup {[name |-> name, at |-> start, end |-> start + Len(bytes)]}]

\* DnsMessage::to_bytes starts with the header and an empty map.
NewMessage == [buffer |-> [i \in 1..HeaderLength |-> 0], map |-> {}, written |-> {}]

\* It then writes the names of the message with one compression map.
Write(name) ==
    /\ packet = <<>>
    /\ Cardinality(message.written) < MaxNames
    /\ message' = compress_name(message, name)
    /\ UNCHANGED packet

-----------------------------------------------------------------------------
(* Reading *)

Error == <<"error">>

\* A label is text unless a byte of it is above 127 (the packets hold no
\* well-formed sequence of such bytes).
IsText(label) == \A i \in DOMAIN label : label[i] < 128

IsGraphic(byte) == byte \in 33..126 /\ byte # 92

\* A byte that cannot be shown becomes four characters.
Shown(byte) == IF IsGraphic(byte) THEN <<byte>> ELSE <<92, 120, byte \div 16, byte % 16>>

UnescapeByte(s, byte) ==
    IF s.open THEN [bytes |-> Append(s.bytes, (byte + 255) % 256), open |-> FALSE]
    ELSE IF byte = NAME_ESCAPE THEN [s EXCEPT !.open = TRUE]
    ELSE [s EXCEPT !.bytes = Append(@, byte)]

\* The bytes without escapes, and whether the last byte opens one.
Unescaped(label) ==
    LET pass[n \in 0..Len(label)] ==
           IF n = 0 THEN [bytes |-> <<>>, open |-> FALSE] ELSE UnescapeByte(pass[n - 1], label[n])
    IN pass[Len(label)]

IsCut(label) == Unescaped(label).open

unescape_label(label) ==
    LET bytes == Unescaped(label).bytes
    IN IF IsText(bytes) THEN bytes ELSE FlattenSeq([i \in DOMAIN bytes |-> Shown(bytes[i])])

\* The offset after the name: behind the first pointer, if one was followed.
After(back, offset) == IF back = {} THEN offset ELSE CHOOSE b \in back : TRUE

Target(pkt, offset) == (Byte(pkt, offset) % 64) * 256 + Byte(pkt, offset + 1)

\* Where reading goes on after the name is kept at the first pointer only.
Follow(back, offset) == IF back = {} THEN {offset + 2} ELSE back

\* The bytes of the label at an offset.
Raw(pkt, offset) == Bytes(pkt, offset + 1, Byte(pkt, offset))

\* The length of a name in characters, with a dot after each label.
Length(labels) ==
    LET length[n \in 0..Len(labels)] ==
           IF n = 0 THEN 0 ELSE length[n - 1] + Len(labels[n]) + 1
    IN length[Len(labels)]

\* Where the loop of a reader is, and where it starts.
Reading == [offset : Nat, labels : Seq(Seq(Nat)), hops : Nat, back : SUBSET Nat,
            status : {"reading", "ok", "error"}]

ReadFrom(offset) == [offset |-> offset, labels |-> <<>>, hops |-> 0, back |-> {}, status |-> "reading"]

Failed(at) == [at EXCEPT !.status = "error"]

Jump(pkt, at) ==
    [at EXCEPT !.offset = Target(pkt, at.offset), !.hops = @ + 1, !.back = Follow(@, at.offset)]

TakeLabel(pkt, at, longer) == [at EXCEPT !.offset = @ + 1 + Byte(pkt, @), !.labels = longer]

\* One turn of the loop of a reader that follows a pointer or takes a label, which
\* makes the labels longer, on conditions of its own.
ReaderTurn(pkt, at, follows, takes, longer) ==
    LET byte == Byte(pkt, at.offset)
    IN IF at.status # "reading" THEN at
       ELSE IF at.offset >= Len(pkt) THEN Failed(at)
       ELSE CASE byte = 0 -> [at EXCEPT !.status = "ok"]
              [] IsPointer(byte) -> IF at.offset + 1 < Len(pkt) /\ at.hops < MaxHops /\ follows
                                    THEN Jump(pkt, at) ELSE Failed(at)
              [] IsReserved(byte) -> Failed(at)
              [] OTHER -> IF at.offset + 1 + byte <= Len(pkt) /\ takes
                          THEN TakeLabel(pkt, at, longer) ELSE Failed(at)

Result(at) ==
    IF at.status = "ok" THEN <<"ok", at.labels, After(at.back, at.offset + 1)>> ELSE Error

DecompressTurn(pkt, at) ==
    LET longer == Append(at.labels, unescape_label(Raw(pkt, at.offset)))
    IN ReaderTurn(pkt, at, Target(pkt, at.offset) < Len(pkt),
            ~IsCut(Raw(pkt, at.offset)) /\ Length(longer) <= MAXDNAME, longer)

Decompressed(pkt, offset) ==
    LET read[at \in Reading] == IF at.status = "reading" THEN read[DecompressTurn(pkt, at)] ELSE at
    IN read[ReadFrom(offset)]

decompress_name(pkt, offset) == Result(Decompressed(pkt, offset))

\* Labels are taken as they are, and must be UTF-8; a pointer out of the packet
\* is met at the next turn of the loop.
FromWireTurn(pkt, at) ==
    LET longer == Append(at.labels, Raw(pkt, at.offset))
    IN ReaderTurn(pkt, at, TRUE, IsText(Raw(pkt, at.offset)) /\ Length(longer) <= MAX_NAME_LEN, longer)

Parsed(pkt, offset) ==
    LET read[at \in Reading] == IF at.status = "reading" THEN read[FromWireTurn(pkt, at)] ELSE at
    IN read[ReadFrom(offset)]

from_wire(pkt, offset) == Result(Parsed(pkt, offset))

\* A pointer of a valid packet names an earlier offset.
LeadsBack(target, offset) == target < offset

ValidateTurn(pkt, at) ==
    LET target == Target(pkt, at.offset)
    IN ReaderTurn(pkt, at, target < Len(pkt) /\ LeadsBack(target, at.offset), TRUE, at.labels)

Validated(pkt, offset) ==
    LET read[at \in Reading] == IF at.status = "reading" THEN read[ValidateTurn(pkt, at)] ELSE at
    IN read[ReadFrom(offset)]

\* The labels are not kept.
validate_name_at_offset(pkt, offset) == Result(Validated(pkt, offset))

\* A packet comes; it owes nothing to the message that is written.
Receive(bytes) ==
    /\ packet = <<>> /\ message = NewMessage
    /\ packet' = bytes
    /\ UNCHANGED message

WireInit == message = NewMessage /\ packet = <<>>

WireNext == (\E name \in Names : Write(name)) \/ (\E bytes \in Packets : Receive(bytes))

WireSpec == WireInit /\ [][WireNext]_wire

-----------------------------------------------------------------------------
(* Properties *)

\* The escaped labels have lengths that a byte before a label can say, and the name
\* is not too long.
Fits(name) ==
    Length(name) <= MAXDNAME /\ \A i \in DOMAIN name : Len(escape_label(name[i])) \in 1..63

\* Every name of a message that fits is read back by decompress_name as it was
\* written, with the offset where the next one starts, and the message is valid:
\* also when names share tails, when the tail lies beyond what a pointer can name,
\* when a label holds a byte that is escaped, and after a name that does not fit.
NamesReadBack ==
    \A w \in message.written :
        Fits(w.name) =>
            /\ decompress_name(message.buffer, w.at) = <<"ok", w.name, w.end>>
            /\ validate_name_at_offset(message.buffer, w.at) = <<"ok", <<>>, w.end>>

\* A byte that is not text is shown with it.
Backslash == 92

Plain(label) == IsText(label) /\ \A i \in DOMAIN label : label[i] # NAME_ESCAPE

HasEscape(pkt) == \E i \in DOMAIN pkt : pkt[i] = NAME_ESCAPE

\* On any packet, with pointers into other names, into themselves or forward,
\* the reader of questions and the reader of records see the same labels and
\* the same end of a name: what the reader of records accepts, if the labels are
\* plain; what the reader of questions accepts, if it is short enough and nothing
\* was escaped or shown.  A name that validate_name_at_offset accepts ends where
\* they say, and is refused by decompress_name only for an escape at the end of a
\* label or its length.
ReadersAgree ==
    \A offset \in 0..(Len(packet) - 1) :
        LET record == from_wire(packet, offset)
            question == decompress_name(packet, offset)
            valid == validate_name_at_offset(packet, offset)
        IN /\ record # Error /\ (\A i \in DOMAIN record[2] : Plain(record[2][i])) => question = record
           /\ question # Error => \/ record = question
                                  \/ Length(question[2]) > MAX_NAME_LEN
                                  \/ HasEscape(packet)
                                  \/ \E i \in DOMAIN question[2] :
                                        \E j \in DOMAIN question[2][i] : question[2][i][j] = Backslash
           /\ valid # Error => \/ question # Error /\ question[3] = valid[3]
                               \/ HasEscape(packet)
                               \/ 4 * Len(packet) * (MaxHops + 1) > MAXDNAME

\* Writing and reading of names fit together.
WireIsRight == NamesReadBack /\ ReadersAgree

=============================================================================
