---------------------------- MODULE UploadStream ----------------------------
(***************************************************************************)
(* A connection from end to end: Upload at one end, and at the other one   *)
(* Socket::read with MessageAssembler, which finds the messages again in   *)
(* whatever pieces the bytes arrive.                                       *)
(***************************************************************************)
EXTENDS Upload

VARIABLES
    buffer,     \* MessageAssembler::buffer_
    got         \* history: the messages that were dispatched

streamVars == <<buffer, got>>

\* Of a packet, how many parts it has; the first part of a message tells it.
Sizes == [k \in Packets |-> Parts(k)]

\* One more part comes: a message is taken out when its last part is there.
TakePart(size, read, part) ==
    LET rest == Append(read.rest, part)
    IN  IF Len(rest) = size[rest[1][1]]
        THEN [messages |-> Append(read.messages, rest), rest |-> <<>>]
        ELSE [messages |-> read.messages, rest |-> rest]

\* The messages in the data, each with its parts, and the parts of an unfinished one.
Assemble(size, data) ==
    LET read[n \in 0..Len(data)] ==
            IF n = 0 THEN [messages |-> <<>>, rest |-> <<>>]
            ELSE TakePart(size, read[n - 1], data[n])
    IN  read[Len(data)]

\* The parts of the message in the order in which they were serialized.
Whole(m) == \A j \in DOMAIN m : m[j] = <<m[1][1], j>>
Names(messages) == [j \in DOMAIN messages |-> IF Whole(messages[j]) THEN messages[j][1][1] ELSE 0]

\* Mutant: what follows the last whole message is thrown away.
ReceiveForgetful(n) ==
    LET r == Assemble(Sizes, buffer \o SubSeq(wire, 1, n))
    IN  /\ Drain(n)
        /\ buffer' = <<>>
        /\ got' = got \o Names(r.messages)

\* MessageAssembler::receive, for n parts.
Receive(n) ==
    LET r == Assemble(Sizes, buffer \o SubSeq(wire, 1, n))
    IN  /\ Drain(n)
        /\ buffer' = r.rest
        /\ got' = got \o Names(r.messages)

StreamInit == Init /\ buffer = <<>> /\ got = <<>>

StreamNext ==
    \/ UploadNext /\ UNCHANGED streamVars
    \/ \E n \in 1..Room : Receive(n)

StreamSpec == StreamInit /\ [][StreamNext]_<<vars, streamVars>>

----------------------------------------------------------------------------

\* The messages behind what was written: the one in pendingData_, and those behind it.
\* The packet at the front of the queue is the one that pendingData_ is sent for.
Unwritten ==
    IF closed THEN <<>>
    ELSE IF pending = 0 THEN queue
    ELSE <<pending>> \o (IF queue = <<>> THEN <<>> ELSE Tail(queue))

\* The messages whose data is ahead of the receiver: whole ones on the wire, and the
\* others.
OnTheWay == Names(Assemble(Sizes, buffer \o wire).messages) \o Unwritten

Stream == INSTANCE MessageStream WITH line <- OnTheWay, got <- got

\* In whatever chunks the data is written, allowed by the limits and read, the
\* peer gets whole messages, in order and none twice; a failed connection and
\* discarded messages take nothing but whole messages out of the stream.
ImplementsStream == Stream!Spec
=============================================================================
