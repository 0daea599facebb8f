------------------------------ MODULE PeerWire ------------------------------
(***************************************************************************)
(* What comes out of the bytes of a peer: the handshake, the messages      *)
(* (SimplePacket and its matchers, Message), how MessageAssembler finds    *)
(* them in whatever pieces the socket delivers, and what EventHub makes of *)
(* each of them.  Bitfield is here too, for the sake of its bytes.         *)
(***************************************************************************)
EXTENDS Integers, Sequences, FiniteSets, SequencesExt

CONSTANTS
    ByteBits,       \* bits of a byte: 8 in the code
    IntBytes,       \* bytes of an integer: 4
    MaxPayload,     \* 32768
    Protocol,       \* "BitTorrent protocol", as bytes
    FeatureBytes,   \* 8
    HashBytes,      \* 20
    IdBytes         \* 20

ASSUME WireAssumption ==
    /\ {ByteBits, IntBytes, MaxPayload} \subseteq Nat \ {0}
    /\ {FeatureBytes, HashBytes, IdBytes} \subseteq Nat \ {0}
    /\ Protocol # <<>>

Byte == 0..2^ByteBits - 1

----------------------------------------------------------------------------
\* Fields and packets.  A field is an integer, a byte, a string of a known length or
\* the rest of the message, whose length follows from the size in the first field.

Integer  == [kind |-> "integer", size |-> IntBytes]
OneByte  == [kind |-> "byte", size |-> 1]
Fixed(n) == [kind |-> "string", size |-> n]
Rest     == [kind |-> "rest", size |-> 0]

BigEndian(n) == [i \in 1..IntBytes |-> (n \div 2^(ByteBits * (IntBytes - i))) % 2^ByteBits]
FromBigEndian(bytes) == FoldLeft(LAMBDA n, b : n * 2^ByteBits + b, 0, bytes)

Data(field, value) ==
    CASE field = Integer -> BigEndian(value)
      [] field = OneByte -> <<value>>
      [] OTHER           -> value
Value(field, bytes) ==
    CASE field = Integer -> FromBigEndian(bytes)
      [] field = OneByte -> bytes[1]
      [] OTHER           -> bytes

\* serializeFields.
SerializeFields(fields, values) == FlattenSeq([i \in DOMAIN fields |-> Data(fields[i], values[i])])

\* fieldsSize, when only the first fields have their values: the rest is empty until
\* it has one.
FieldSize(fields, values, i) ==
    IF fields[i] = Rest /\ i \in DOMAIN values THEN Len(values[i]) ELSE fields[i].size
AccumulateSize(sizes) == FoldLeft(+, 0, sizes)
FieldsSize(fields, values) ==
    AccumulateSize([i \in DOMAIN fields |-> FieldSize(fields, values, i)])

\* YieldPacketSize, for packets without a rest.
PacketSize(fields) == AccumulateSize([i \in DOMAIN fields |-> fields[i].size])

\* Mutant: the size counts itself.
WholeSize(fields, values) == values[1] - FieldsSize(fields, values)

\* VariableLengthStringMatcher.
RestSize(fields, values) == values[1] - FieldsSize(fields, values) + IntBytes

\* A matcher takes the bytes of its field, which must be there; a string, that of a known
\* length or the rest, is not empty.
Take(match, field, size, bytes) ==
    IF match.at + size > Len(bytes) THEN [match EXCEPT !.ok = FALSE]
    ELSE [ok |-> TRUE, at |-> match.at + size,
          values |-> Append(match.values,
                            Value(field, SubSeq(bytes, match.at + 1, match.at + size)))]
MatchRest(match, size, bytes) ==
    IF size > 0 THEN Take(match, Rest, size, bytes) ELSE [match EXCEPT !.ok = FALSE]
Match(fields, match, field, bytes) ==
    IF field = Rest THEN MatchRest(match, RestSize(fields, match.values), bytes)
    ELSE Take(match, field, field.size, bytes)

\* absorb: the values of the packet at an offset, if it is there.  It may go beyond the
\* message whose size is too small for its fields.
Absorb(fields, bytes, offset) ==
    FoldLeft(LAMBDA match, field : IF match.ok THEN Match(fields, match, field, bytes) ELSE match,
             [ok |-> TRUE, at |-> offset, values |-> <<>>], fields)

----------------------------------------------------------------------------
\* Messages: their fields behind the size and the id.

Ids == 0..8
Arguments(id) ==
    CASE id \in 0..3   -> <<>>                            \* (un)choke, (not) interested
      [] id = 4        -> <<Integer>>                     \* have
      [] id = 5        -> <<Rest>>                        \* bitfield
      [] id \in {6, 8} -> <<Integer, Integer, Integer>>   \* request, cancel
      [] id = 7        -> <<Integer, Integer, Rest>>      \* piece
Layout(id) == <<Integer, OneByte>> \o Arguments(id)

\* The constructors of Message put the size in; that of one without arguments is another.
Message(id, args) ==
    <<FieldsSize(Layout(id), <<0, id>> \o args) - IntBytes, id>> \o args
BareMessage(id) == <<FieldsSize(Layout(id), <<0, id>>) - IntBytes, id>>
Serialize(message) == SerializeFields(Layout(message[2]), message)

HashPart == <<OneByte, Fixed(Len(Protocol)), Fixed(FeatureBytes), Fixed(HashBytes)>>
HandshakeMessage == Append(HashPart, Fixed(IdBytes))
Handshake(hash, id) ==
    SerializeFields(HandshakeMessage,
                    <<Len(Protocol), Protocol, [i \in 1..FeatureBytes |-> 0], hash, id>>)

----------------------------------------------------------------------------
\* A connection: first HandshakeNegotiator has the bytes, then MessageAssembler.

NewConnection ==
    [stage |-> "handshake", buffer |-> <<>>, discovered |-> FALSE, peer |-> <<>>, messages |-> <<>>]

Waiting(offset) == [messages |-> <<>>, closed |-> FALSE, next |-> offset]
Closed(offset)  == [messages |-> <<>>, closed |-> TRUE, next |-> offset]
Then(message, rest) ==
    IF message.ok THEN [rest EXCEPT !.messages = <<message.values>> \o @] ELSE Closed(0)

\* MessageAssembler::receive and dispatchMessage: the messages that begin in a buffer.
\* A handler that closes the socket does not end the loop.
Assembled(buffer) ==
    LET payload[offset \in 0..Len(buffer)] ==
            IF offset + IntBytes > Len(buffer) THEN -1
            ELSE Absorb(<<Integer>>, buffer, offset).values[1]
        Id(offset) == buffer[offset + IntBytes + 1]
        Next(offset) == offset + IntBytes + payload[offset]
        from[offset \in 0..Len(buffer)] ==
            IF payload[offset] < 0 THEN Waiting(offset)
            ELSE IF payload[offset] = 0 THEN from[Next(offset)]     \* a keep-alive
            ELSE IF payload[offset] > MaxPayload THEN Closed(offset)
            ELSE IF Next(offset) > Len(buffer) THEN Waiting(offset)
            ELSE IF Id(offset) \notin Ids THEN Closed(offset)
            ELSE Then(Absorb(Layout(Id(offset)), buffer, offset), from[Next(offset)])
    IN  from[0]

\* The buffer is not cut when the socket was closed, and not read again either.
Keep(c, buffer, all) ==
    [c EXCEPT !.stage    = IF all.closed THEN "closed" ELSE "messages",
              !.messages = @ \o all.messages,
              !.buffer   = IF all.closed THEN buffer ELSE SubSeq(buffer, all.next + 1, Len(buffer))]
Receive(c, data) == Keep(c, c.buffer \o data, Assembled(c.buffer \o data))

\* HandshakeNegotiator::receive, when there is enough to see the hash; the length of the
\* name is not looked at.
Refused(part, hashes) == ~part.ok \/ part.values[2] # Protocol \/ part.values[4] \notin hashes
Negotiated(c, hashes) ==
    IF c.discovered \/ Len(c.buffer) < PacketSize(HashPart) THEN c
    ELSE IF Refused(Absorb(HashPart, c.buffer, 0), hashes) THEN [c EXCEPT !.stage = "closed"]
    ELSE [c EXCEPT !.discovered = TRUE]
Negotiate(c, data, hashes) == Negotiated([c EXCEPT !.buffer = @ \o data], hashes)

\* CommandTask::Private::reconfigurePeer: what is behind the handshake goes on to the
\* assembler.
Reconfigured(c, whole) ==
    LET behind == SubSeq(c.buffer, whole.at + 1, Len(c.buffer))
        made   == [c EXCEPT !.stage = "messages", !.buffer = <<>>,
                            !.peer = <<whole.values[4], whole.values[5]>>]
    IN  IF behind = <<>> THEN made ELSE Receive(made, behind)
ReconfigurePeer(c) ==
    IF c.stage = "closed" \/ Len(c.buffer) < PacketSize(HandshakeMessage) THEN c
    ELSE Reconfigured(c, Absorb(HandshakeMessage, c.buffer, 0))

\* A closed socket is not read again.
Read(c, data, hashes) ==
    CASE c.stage = "handshake" -> ReconfigurePeer(Negotiate(c, data, hashes))
      [] c.stage = "messages"  -> Receive(c, data)
      [] c.stage = "closed"    -> c

----------------------------------------------------------------------------
\* Bitfield.

ByteCount(bitCount) == bitCount \div ByteBits + (IF bitCount % ByteBits # 0 THEN 1 ELSE 0)

Bits(bytes) ==
    [i \in 1..Len(bytes) * ByteBits |->
        (bytes[(i - 1) \div ByteBits + 1] \div 2^(ByteBits - 1 - ((i - 1) % ByteBits))) % 2 = 1]

\* updateEnabledBitsCounter.
EnabledBits(bits, bitCount) == Cardinality({i \in 1..bitCount : bits[i]})

NewBitfield(bitCount) ==
    [bits |-> [i \in 1..ByteCount(bitCount) * ByteBits |-> FALSE],
     bitCount |-> bitCount, setCount |-> 0]
\* One made of bytes takes as many of them as it needs.
BitfieldOf(bytes, bitCount) ==
    LET bits == Bits(SubSeq(bytes, 1, ByteCount(bitCount)))
    IN  [bits |-> bits, bitCount |-> bitCount, setCount |-> EnabledBits(bits, bitCount)]
DisabledCount(b) == b.bitCount - b.setCount
Bit(b, i) == b.bits[i + 1]
SetBit(b, i) == IF Bit(b, i) THEN b ELSE [b EXCEPT !.bits[i + 1] = TRUE, !.setCount = @ + 1]
UnsetBit(b, i) == IF Bit(b, i) THEN [b EXCEPT !.bits[i + 1] = FALSE, !.setCount = @ - 1] ELSE b

\* The bits behind the last one are set too.
SetAll(b)   == [b EXCEPT !.bits = [i \in DOMAIN @ |-> TRUE], !.setCount = b.bitCount]
UnsetAll(b) == [b EXCEPT !.bits = [i \in DOMAIN @ |-> FALSE], !.setCount = 0]

Assignable(b, bytes) == Len(bytes) = ByteCount(b.bitCount)
Assign(b, bytes) ==
    [b EXCEPT !.bits = Bits(bytes), !.setCount = EnabledBits(Bits(bytes), b.bitCount)]

----------------------------------------------------------------------------
\* PeerDataCollector in front of EventHub: d is what it keeps of the peer, passed the
\* messages that it handed on (InputMiddleware hands on what it does not handle).

NewCollector(pieces) ==
    [peerChokedUs |-> TRUE, peerIsInterested |-> FALSE, bitfield |-> NewBitfield(pieces),
     dropBitfield |-> FALSE, passed |-> <<>>, closed |-> FALSE]

Pass(d, message) == [d EXCEPT !.dropBitfield = TRUE, !.passed = Append(@, message)]
Drop(d)          == [d EXCEPT !.dropBitfield = TRUE]

\* Offset and size are added in the width of an integer.
Bogus(m, available, pieceSize) ==
    \/ m[3] \notin DOMAIN available \/ m[4] >= pieceSize
    \/ (m[4] + m[5]) % 2^(ByteBits * IntBytes) > pieceSize

CollectFlag(d, m, on) ==
    LET flag == IF m[2] \in {0, 1} THEN "peerChokedUs" ELSE "peerIsInterested"
    IN  IF d[flag] = on THEN Drop(d) ELSE [Pass(d, m) EXCEPT ![flag] = on]
CollectHave(d, m) ==
    IF m[3] < d.bitfield.bitCount
    THEN IF Bit(d.bitfield, m[3]) THEN Drop(d)
         ELSE [Pass(d, m) EXCEPT !.bitfield = SetBit(@, m[3])]
    ELSE Drop(d)
CollectBitfield(d, m) ==
    IF d.dropBitfield THEN d
    ELSE IF Assignable(d.bitfield, m[3]) THEN [Pass(d, m) EXCEPT !.bitfield = Assign(@, m[3])]
    ELSE [Drop(d) EXCEPT !.closed = TRUE]

\* available: of each piece, whether it can be sent; weChokedPeer: nothing can.
CollectRequest(d, m, available, pieceSize, weChokedPeer) ==
    IF Bogus(m, available, pieceSize) \/ weChokedPeer THEN Drop(d)
    ELSE IF ~available[m[3]] THEN Drop(d)
    ELSE IF m[5] > MaxPayload THEN [Drop(d) EXCEPT !.closed = TRUE]
    ELSE Pass(d, m)
Collect(d, m, available, pieceSize, weChokedPeer) ==
    CASE m[2] \in 0..3 -> CollectFlag(d, m, m[2] \in {0, 2})
      [] m[2] = 4 -> CollectHave(d, m)
      [] m[2] = 5 -> CollectBitfield(d, m)
      [] m[2] = 6 -> CollectRequest(d, m, available, pieceSize, weChokedPeer)
      [] m[2] = 7 -> Pass(d, m)
      [] m[2] = 8 -> [d EXCEPT !.passed = Append(@, m)]
----------------------------------------------------------------------------
\* Properties.

Hash == [i \in 1..HashBytes |-> 3]
Peer == [i \in 1..IdBytes |-> 5]
Row(n, byte) == [i \in 1..n |-> byte]

\* Every kind of message, one as large as may be, and what must be refused.
SomeMessages ==
    {BareMessage(id) : id \in 0..3} \cup
    {Message(4, <<2^ByteBits + 2>>), Message(5, << <<1, 2>> >>), Message(6, <<0, 1, 2>>),
     Message(7, <<0, 1, <<7>> >>), Message(7, <<1, 0, Row(MaxPayload - 1 - 2 * IntBytes, 4)>>),
     Message(8, <<0, 1, 2>>)}
Refusable ==
    {BigEndian(MaxPayload + 1), BigEndian(1) \o <<9>>, BigEndian(1 + 2 * IntBytes) \o <<7>>
                                                    \o Row(2 * IntBytes, 0)}

ReadAll(c, chunks) == FoldLeft(LAMBDA b, data : Read(b, data, {Hash}), c, chunks)
Cut(row, n) == <<SubSeq(row, 1, n), SubSeq(row, n + 1, Len(row))>>

\* The messages that a peer sends behind its handshake are dispatched, all of them and
\* no others, in whatever two pieces the bytes come, with keep-alives among them, up to
\* the first one that is refused (HandshakeNegotiator, MessageAssembler).
StreamsUnderstood ==
    \A m, n \in SomeMessages, end \in Refusable \cup {<<>>} :
        LET sent == Handshake(Hash, Peer) \o Serialize(m) \o BigEndian(0) \o Serialize(n) \o end
        IN  \A i \in 0..Len(sent) :
              LET c == ReadAll(NewConnection, Cut(sent, i))
              IN  /\ c.peer = <<Hash, Peer>> /\ c.messages = <<m, n>>
                  /\ c.stage = IF end = <<>> THEN "messages" ELSE "closed"
                  /\ end = <<>> => c.buffer = <<>>

\* Of any bytes, what is dispatched when they come in two pieces is the beginning of
\* what is dispatched when they come at once, and all of it unless the connection was
\* closed: only a message whose size is too small for it makes the difference.
CutsHarmless ==
    \A length \in 1..2 * IntBytes + 2 : \A row \in [1..length -> {0, 1, 4, 7}] :
        LET made  == [NewConnection EXCEPT !.stage = "messages"]
            whole == Read(made, row, {})
        IN  \A i \in 1..length - 1 :
              LET c == ReadAll(made, Cut(row, i))
              IN  /\ IsPrefix(c.messages, whole.messages)
                  /\ whole.stage = "closed" => c.stage = "closed"
                  /\ c.stage # "closed" => c = whole

\* A handshake with another hash or name is refused as soon as that can be known, and
\* nothing behind it is looked at.
StrangersRefused ==
    \A name \in {Protocol, Row(Len(Protocol), 0)}, hash \in {Hash, Row(HashBytes, 0)} :
        LET sent == SerializeFields(HashPart, <<0, name, Row(FeatureBytes, 0), hash>>)
            c == ReadAll(NewConnection, <<sent, Peer \o Serialize(BareMessage(0))>>)
        IN  IF name = Protocol /\ hash = Hash THEN c.messages = <<BareMessage(0)>>
            ELSE c.stage = "closed" /\ c.messages = <<>>

\* The counter of a bitfield is right after every operation, whatever its spare bits
\* are; and its bytes are the ones that were assigned (Bitfield).
BitCount == ByteBits + 1
CountersRight ==
    \A bits \in [1..2 * ByteBits -> BOOLEAN] :
        LET b == [bits |-> bits, bitCount |-> BitCount, setCount |-> EnabledBits(bits, BitCount)]
            Right(x) ==
                /\ x.setCount = EnabledBits(x.bits, BitCount)
                /\ DisabledCount(x) = Cardinality({i \in 0..BitCount - 1 : ~Bit(x, i)})
        IN  /\ \A i \in 0..BitCount - 1 :
                  /\ Right(SetBit(b, i)) /\ Bit(SetBit(b, i), i)
                  /\ Right(UnsetBit(b, i)) /\ ~Bit(UnsetBit(b, i), i)
            /\ Right(SetAll(b)) /\ Right(UnsetAll(b)) /\ Right(NewBitfield(BitCount))
            /\ \A byte \in Byte :
                  /\ Right(Assign(b, <<1, byte>>)) /\ ~Assignable(b, <<byte>>)
                  /\ BitfieldOf(<<1, byte, 1>>, BitCount) = Assign(b, <<1, byte>>)
                  /\ Bits(<<1, byte>>) = Assign(b, <<1, byte>>).bits

\* The tasks behind EventHub hear of changes only, whatever a peer sends: of a piece
\* once, of a bitfield first, of requests that can be answered (PeerDataCollector).
Sent ==
    {BareMessage(id) : id \in 0..3} \cup {Message(4, <<n>>) : n \in {0, 2, 9}} \cup
    {Message(5, <<bytes>>) : bytes \in {<<8>>, <<1, 2>>}} \cup
    {Message(6, args) : args \in {<<0, 1, 2>>, <<1, 0, 1>>, <<0, 1, 2^(ByteBits * IntBytes) - 1>>}}
Passed(d, kinds) == SelectSeq(d.passed, LAMBDA m : m[2] \in kinds)
OnlyChangesHeard ==
    \A a, b, c \in Sent :
        LET available == [i \in 0..2 |-> i = 0]
            d == FoldLeft(LAMBDA x, m : IF x.closed THEN x ELSE Collect(x, m, available, 3, FALSE),
                          NewCollector(3), <<a, b, c>>)
        IN  /\ \A kinds \in {{0, 1}, {2, 3}} :
                  \A i \in 2..Len(Passed(d, kinds)) :
                      Passed(d, kinds)[i][2] # Passed(d, kinds)[i - 1][2]
            /\ \A i, j \in DOMAIN d.passed :
                  d.passed[i] = d.passed[j] /\ d.passed[i][2] = 4 => i = j
            /\ \A i \in DOMAIN d.passed : d.passed[i][2] = 5 => i = 1 /\ a = d.passed[i]
            /\ \A i \in DOMAIN d.passed :
                  d.passed[i][2] = 6 => d.passed[i] = Message(6, <<0, 1, 2>>)
            /\ d.bitfield.setCount = EnabledBits(d.bitfield.bits, 3)
            /\ d.bitfield.setCount = Len(Passed(d, {4})) + (IF Passed(d, {5}) = <<>> THEN 0 ELSE 1)

WireUnderstood ==
    StreamsUnderstood /\ CutsHarmless /\ StrangersRefused /\ CountersRight /\ OnlyChangesHeard
=============================================================================
