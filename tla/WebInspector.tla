---------------------------- MODULE WebInspector ----------------------------
(***************************************************************************)
(* The connection to a device's web inspector, src/src/webinspector.c:     *)
(* messages are sent and received as packets of a length and a body, in    *)
(* parts where the device has partial messages, and arrive in pieces.      *)
(*                                                                         *)
(* The bytes of message m of either side are <<m, place>>.  A byte of the  *)
(* device's stream is its place in it.  The property list around the bytes *)
(* of a part is the key of a packet and Envelope bytes.                    *)
(* An iteration of wi_recv_loop is an action; wi_send_plist is one.        *)
(*                                                                         *)
(* Operators whose comment starts with (slip) are not part of the model:   *)
(* each is the definition that follows it with a plausible mistake.        *)
(***************************************************************************)
EXTENDS CharBuffer, Spans, FiniteSetsExt

CONSTANTS
    LengthBytes,    \* 4 in the code
    MaxRpc,         \* MAX_RPC_LEN
    Envelope,       \* bytes of a body around the bytes of a part
    Lengths,        \* lengths of messages of the proxy, and of parts of the device's
    MaxMessages,    \* bound on the messages of the proxy and packets of the device
    MaxBehind       \* bound on the bytes sent and not received when it sends more

ASSUME SizesAssumption ==
    /\ {LengthBytes, MaxRpc} \subseteq Nat \ {0} /\ Lengths \subseteq Nat \ {0}
    /\ {Envelope, MaxMessages, MaxBehind} \subseteq Nat

\* is_sim and partials_supported: the proxy never sets both.
Modes == {"simulator", "device", "partials"}

VARIABLES
    mode,
    in,             \* my->in
    partial,        \* my->partial
    hasLength,      \* my->has_length
    bodyLength,     \* my->body_length
    looping,        \* wi_recv_loop runs
    alive,          \* the connection is open
    packets,        \* packets of the device
    starts,         \* bytes before each of them, and before the next
    delivered,      \* bytes of them that were received
    handled,        \* packets of them that wi_recv_packet got
    received,       \* messages that recv_plist got
    asked,          \* of each message to be sent: [length, ok], ok the answer
    out,            \* packets to the device
    broken          \* a send failed

receiver == <<in, partial, hasLength, bodyLength, looping, alive>>
device == <<packets, starts, delivered, handled, received>>
sender == <<asked, out, broken>>
vars == <<mode, receiver, device, sender>>

\* wi_new.
Init ==
    /\ mode \in Modes
    /\ in = NewBuffer /\ partial = NewBuffer
    /\ hasLength = FALSE /\ bodyLength = 0 /\ looping = FALSE /\ alive = TRUE
    /\ packets = <<>> /\ starts = <<0>> /\ delivered = 0 /\ handled = 0 /\ received = <<>>
    /\ asked = <<>> /\ out = <<>> /\ broken = FALSE

\* The bytes first to last of message m.
Bytes(m, first, last) == [i \in 1..(last - first + 1) |-> <<m, first + i - 1>>]

Packet(key, body) == [key |-> key, body |-> body]

\* The places of the packets with bytes of message m among the first n of list, and
\* the bytes of m in them: up to the last one's last.
PartsIn(list, n, m) == {k \in 1..n : list[k].body # <<>> /\ list[k].body[1][1] = m}
LengthIn(list, n, m) ==
    IF PartsIn(list, n, m) = {} THEN 0
    ELSE LET body == list[Max(PartsIn(list, n, m))].body IN body[Len(body)][2]

-----------------------------------------------------------------------------
(* Sending.                                                                  *)

\* (slip) a message of just MaxRpc bytes, or of a multiple, ends in a partial.
IsPartialOrFull(rest) == rest >= MaxRpc

\* More remains than one part takes.
IsPartial(rest) == rest > MaxRpc

\* The parts of wi_send_plist.
Parts(m, length) ==
    [i \in 1..((length + MaxRpc - 1) \div MaxRpc) |->
        LET from == (i - 1) * MaxRpc IN
        IF IsPartial(length - from)
        THEN Packet("partial", Bytes(m, from + 1, from + MaxRpc))
        ELSE Packet("final", Bytes(m, from + 1, length))]

\* The packets of wi_send_plist.  A device without partial messages gets an empty
\* one after each.
PacketsOf(m, length) ==
    IF mode = "partials" THEN Parts(m, length)
    ELSE IF mode = "device" THEN <<Packet("whole", Bytes(m, 1, length)), Packet("whole", <<>>)>>
    ELSE <<Packet("whole", Bytes(m, 1, length))>>

\* The answer when n packets were sent: nobody looks at the send of the empty one.
Answer(all, n) == IF mode = "partials" THEN n = Len(all) ELSE n > 0

\* wi_send_plist with wi_send; the send of a packet may fail, and then all later
\* ones do.
SendPlist(length) ==
    /\ Len(asked) + Len(packets) < MaxMessages /\ alive /\ ~looping
    /\ LET all == PacketsOf(Len(asked) + 1, length) IN
       \E n \in 0..Len(all) :
            /\ broken => n = 0
            /\ out' = out \o SubSeq(all, 1, n)
            /\ asked' = Append(asked, [length |-> length, ok |-> Answer(all, n)])
            /\ broken' = (n < Len(all))
    /\ UNCHANGED <<mode, receiver, device>>

-----------------------------------------------------------------------------
(* The device.                                                               *)

\* Bytes of a packet, its length counted.
Size(p) == LengthBytes + Len(p.body) + (IF p.key \in {"partial", "final"} THEN Envelope ELSE 0)

BytesSent == starts[Len(starts)]

\* The packet is the last of a message.
Whole(p) == p.key \in {"whole", "final"}

\* How many messages end in the first n packets of the device.
Count(n) == Cardinality({k \in 1..n : Whole(packets[k])})

\* The device sends the next part of its message, or something that is no message:
\* "bad" is a body that cannot be parsed, "huge" a length beyond MAX_BODY_LENGTH.
DeviceSends(key, length) ==
    /\ alive /\ ~looping
    /\ Len(asked) + Len(packets) < MaxMessages
    /\ BytesSent - delivered <= MaxBehind
    /\ key \in {"bad", "huge"} \cup (IF mode = "partials" THEN {"partial", "final"} ELSE {"whole"})
    /\ LET m == Count(Len(packets)) + 1
           before == LengthIn(packets, Len(packets), m) IN
       /\ packets' = Append(packets, IF key \in {"bad", "huge"} THEN Packet(key, <<>>)
                                     ELSE Packet(key, Bytes(m, before + 1, before + length)))
       /\ starts' = Append(starts, BytesSent + Size(packets'[Len(packets')]))
    /\ UNCHANGED <<mode, receiver, delivered, handled, received, sender>>

-----------------------------------------------------------------------------
(* Receiving.                                                                *)

\* wi_on_recv: the next n bytes arrive.
OnRecv(n) ==
    /\ alive /\ ~looping
    /\ delivered + n <= BytesSent
    /\ in' = BeginInput(in, Span(delivered, delivered + n))
    /\ delivered' = delivered + n
    /\ looping' = TRUE
    /\ UNCHANGED <<mode, partial, hasLength, bodyLength, alive, packets, starts, handled, received, sender>>

\* The packet that starts where the input does; "bad" if none does.
At(input) ==
    IF \E k \in DOMAIN packets : starts[k] + 1 = input[1]
    THEN packets[CHOOSE k \in DOMAIN packets : starts[k] + 1 = input[1]]
    ELSE Packet("bad", <<>>)

\* wi_recv_loop ends with an error, and the connection with it.
Fails(read) ==
    /\ in' = EndInput(read)
    /\ looping' = FALSE /\ alive' = FALSE

\* wi_parse_length.
RecvLength ==
    /\ looping /\ ~hasLength /\ Len(Input(in)) >= LengthBytes
    /\ IF At(Input(in)).key = "huge"
       THEN Fails(Advance(in, LengthBytes)) /\ UNCHANGED <<hasLength, bodyLength>>
       ELSE /\ hasLength' = TRUE
            /\ bodyLength' = Size(At(Input(in))) - LengthBytes
            /\ UNCHANGED <<in, looping, alive>>
    /\ UNCHANGED <<mode, partial, device, sender>>

\* The whole packet is there.
Complete(input) == Len(input) >= bodyLength + LengthBytes

\* (slip) the parts stay for the next message.
PartialAfterKept(p) == IF p.key = "partial" \/ Used(partial) > 0 THEN Add(partial, p.body) ELSE partial

\* my->partial after wi_parse_plist, and the message that is complete with p.
PartialAfter(p) ==
    IF p.key = "partial" THEN Add(partial, p.body)
    ELSE IF p.key = "final" /\ Used(partial) > 0 THEN Clear(Add(partial, p.body))
    ELSE partial

MessageOf(p) ==
    IF p.key = "final" /\ Used(partial) > 0 THEN Kept(Add(partial, p.body)) ELSE p.body

\* The messages that recv_plist got, when p is parsed.
ReceivedAfter(p) == IF Whole(p) THEN Append(received, MessageOf(p)) ELSE received

\* wi_recv_packet.  The message may be one that cannot be parsed, and recv_plist may fail.
RecvPacket ==
    /\ looping /\ hasLength /\ Complete(Input(in))
    /\ LET p == At(Input(in))
           read == Advance(in, bodyLength + LengthBytes) IN
        /\ partial' = PartialAfter(p)
        /\ \/ /\ p.key # "bad" /\ in' = read /\ received' = ReceivedAfter(p)
              /\ UNCHANGED <<looping, alive>>
           \/ p.key # "partial" /\ Fails(read) /\ received' \in {received, ReceivedAfter(p)}
    /\ hasLength' = FALSE /\ bodyLength' = 0
    /\ handled' = handled + 1
    /\ UNCHANGED <<mode, packets, starts, delivered, sender>>

\* More input is needed.
RecvMore ==
    /\ looping
    /\ IF hasLength THEN ~Complete(Input(in)) ELSE Len(Input(in)) < LengthBytes
    /\ in' = EndInput(in)
    /\ looping' = FALSE
    /\ UNCHANGED <<mode, partial, hasLength, bodyLength, alive, device, sender>>

Next ==
    \/ \E length \in Lengths : SendPlist(length)
    \/ \E key \in {"whole", "partial", "final", "bad", "huge"}, length \in Lengths : DeviceSends(key, length)
    \/ \E n \in 1..BytesSent : OnRecv(n)
    \/ RecvLength \/ RecvPacket \/ RecvMore

Spec == Init /\ [][Next]_vars

-----------------------------------------------------------------------------

\* The type of the state.
TypeOK ==
    /\ mode \in Modes
    /\ {hasLength, looping, alive, broken} \subseteq BOOLEAN
    /\ InBounds(in) /\ InBounds(partial)
    /\ bodyLength \in Nat
    /\ delivered \in 0..BytesSent /\ handled \in 0..Len(packets)
    /\ Len(received) <= handled
    /\ Len(asked) <= MaxMessages

Framed == INSTANCE FramedStream WITH
    Sizes <- {LengthBytes} \cup {LengthBytes + n + e : n \in Lengths, e \in {0, Envelope}},
    arrived <- delivered,
    unread <- IF ~alive THEN <<>> ELSE IF looping THEN Input(in) ELSE Kept(in),
    busy <- looping,
    open <- alive

\* wi_on_recv implements FramedStream: what wi_recv_loop reads, and what is kept
\* between two calls, is what arrived and was not handled, byte for byte; each packet
\* is handled once, in order and with its last byte.
FramedSpec == Framed!Spec

\* recv_plist got the messages of the device, each once, whole and in order,
\* whatever parts they were sent in and whatever pieces arrived.  Only the one at
\* which the connection ended may be missing.
ReceivedWhole ==
    /\ \/ Len(received) = Count(handled)
       \/ ~alive /\ Len(received) = Count(handled - 1)
    /\ \A m \in DOMAIN received : received[m] = Bytes(m, 1, LengthIn(packets, Len(packets), m))

\* The packets to the device: the bytes of the messages in their order, none left
\* out or twice; parts of MaxRpc at most; the last of each message, and no other,
\* marked as such.  wi_send_plist answers success just for the messages that were
\* sent whole.
SentWhole ==
    /\ \A i, j \in {k \in DOMAIN out : out[k].body # <<>>} :
            i < j => out[i].body[1][1] <= out[j].body[1][1]
    /\ \A m \in DOMAIN asked :
        /\ asked[m].ok <=> LengthIn(out, Len(out), m) = asked[m].length
        /\ \A k \in PartsIn(out, Len(out), m) :
            LET before == LengthIn(out, k - 1, m)
                after == LengthIn(out, k, m) IN
            /\ out[k].body = Bytes(m, before + 1, after)
            /\ mode = "partials" => after - before <= MaxRpc
            /\ Whole(out[k]) <=> after = asked[m].length
=============================================================================
