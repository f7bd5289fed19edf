--------------------------- MODULE DeviceListener ---------------------------
(***************************************************************************)
(* The connection to usbmuxd, src/src/device_listener.c, with the callbacks*)
(* on_attach and on_detach of the proxy: packets arrive in pieces through  *)
(* the buffer of CharBuffer, and keep two tables of HashTable, the devices *)
(* by number and the ports by device.                                      *)
(*                                                                         *)
(* A byte is its place in what usbmuxd sends, so that one that is lost,    *)
(* doubled or out of place shows.  The length in front of a packet is in   *)
(* its first LengthBytes; the rest is known by the kind.  An iteration of  *)
(* dl_recv_loop is an action.                                              *)
(*                                                                         *)
(* Operators whose comment starts with (slip) are not part of the model:   *)
(* each is the definition that follows it with a plausible mistake.        *)
(***************************************************************************)
EXTENDS CharBuffer, HashTable, Spans

CONSTANTS
    Nums,           \* numbers of devices
    Ids,            \* device ids
    LengthBytes,    \* 4 in the code
    HeaderLength,   \* 16 in the code
    Packets,        \* the packets that usbmuxd may send
    MaxPackets,     \* bound on how many it sends
    MaxBehind       \* bound on the bytes sent and not received when it sends more

ASSUME DevicesAssumption ==
    /\ Nums \subseteq Nat /\ Nums \cup Ids \subseteq DOMAIN Hash
    /\ NULL \notin Ids \cup {"open", "closed"}
ASSUME SizesAssumption ==
    /\ LengthBytes \in Nat \ {0} /\ HeaderLength \in Nat /\ HeaderLength > LengthBytes
    /\ MaxPackets \in Nat /\ MaxBehind \in Nat

\* "ack" is a Result of 0; "ignored" has another version or type; "fault" is a
\* Result of not 0, or a message that is unknown or without what it needs.  A
\* device that is attached without a serial number has the id NULL.
ASSUME PacketsAssumption ==
    \A packet \in Packets :
        /\ packet.kind \in {"ack", "ignored", "fault", "attached", "detached"}
        /\ packet.size \in Nat /\ packet.size >= LengthBytes
        /\ packet.kind \in {"attached", "detached"} => packet.num \in Nums
        /\ packet.kind = "attached" => packet.id \in Ids \cup {NULL}

VARIABLES
    in,             \* my->in
    hasLength,      \* my->has_length
    bodyLength,     \* my->body_length
    table,          \* device_num_to_device_id
    iports,         \* device_id_to_iport: "open" (s_fd > 0) or "closed"
    alive,          \* the connection to usbmuxd is open
    looping,        \* dl_recv_loop runs
    sent,           \* packets of usbmuxd
    starts,         \* bytes before each of them, and before the next
    delivered,      \* bytes of them that were received
    handled         \* packets that dl_recv_packet got

parser == <<in, hasLength, bodyLength, looping>>
vars == <<parser, table, iports, alive, sent, starts, delivered, handled>>

\* dl_new, and the start of the proxy with ports for no device yet.
Init ==
    /\ in = NewBuffer /\ hasLength = FALSE /\ bodyLength = 0 /\ looping = FALSE
    /\ table = NewTable /\ iports = NewTable
    /\ alive = TRUE
    /\ sent = <<>> /\ starts = <<0>> /\ delivered = 0 /\ handled = 0

-----------------------------------------------------------------------------
(* usbmuxd.                                                                  *)

BytesSent == starts[Len(starts)]

\* The i-th packet says of the number n that it is a device's, or is no more.
IsNews(i, n) ==
    /\ sent[i].kind \in {"attached", "detached"} /\ sent[i].num = n
    /\ sent[i].size >= HeaderLength

\* The last news of n in the first k packets, if any.
LastNews(n, k) == {i \in 1..k : IsNews(i, n) /\ \A j \in (i + 1)..k : ~IsNews(j, n)}

\* The devices that usbmuxd lists after its first k packets, by number.
ListedAfter(k) ==
    [n \in {m \in Nums : \E i \in LastNews(m, k) : sent[i].kind = "attached"} |->
        sent[CHOOSE i \in LastNews(n, k) : TRUE].id]

\* A number stays a device's until it is detached.
Sends(packet) ==
    /\ alive /\ ~looping
    /\ Len(sent) < MaxPackets /\ BytesSent - delivered <= MaxBehind
    /\ packet.kind = "attached" => packet.num \notin DOMAIN ListedAfter(Len(sent))
    /\ sent' = Append(sent, packet)
    /\ starts' = Append(starts, BytesSent + packet.size)
    /\ UNCHANGED <<parser, table, iports, alive, delivered, handled>>

-----------------------------------------------------------------------------
(* The callbacks.                                                            *)

\* iwdp_on_attach: what it may answer, and the ports after it.  A device that has
\* its port, is ignored or finds no port is no error, nor is one whose inspector
\* is not reached; but one is that cannot be added to the select loop.
AttachOutcomes(id) ==
    LET got == AfterGet(iports, id)
        new == IF Has(got, id) THEN got ELSE Put(got, id, "closed")
        again == AfterGet(new, id) IN
    IF id = NULL THEN {[iports |-> iports, ok |-> FALSE]}
    ELSE {[iports |-> got, ok |-> TRUE]} \cup
         (IF Value(iports, id) = "open" THEN {}
          ELSE {[iports |-> new, ok |-> TRUE], [iports |-> Put(again, id, "open"), ok |-> TRUE]}
               \cup [iports : {Put(again, id, "closed")}, ok : BOOLEAN])

\* (slip) the port of a device that is detached stays open.
PortsAfterDetachKept(id) == AfterGet(iports, id)

\* iwdp_on_detach.
PortsAfterDetach(id) ==
    LET got == AfterGet(iports, id) IN
    IF Value(got, id) = "open" THEN Put(got, id, "closed") ELSE got

\* The inspector of a device ends, and its port with it (CloseCascade).
InspectorEnds(id) ==
    /\ ~looping /\ Value(iports, id) = "open"
    /\ iports' = Put(iports, id, "closed")
    /\ UNCHANGED <<parser, table, alive, sent, starts, delivered, handled>>

-----------------------------------------------------------------------------
(* The parser.                                                               *)

\* dl_on_recv: the next n bytes arrive.
OnRecv(n) ==
    /\ alive /\ ~looping
    /\ delivered + n <= BytesSent
    /\ in' = BeginInput(in, Span(delivered, delivered + n))
    /\ delivered' = delivered + n
    /\ looping' = TRUE
    /\ UNCHANGED <<hasLength, bodyLength, table, iports, alive, sent, starts, handled>>

\* The packet that starts where the input does; elsewhere the bytes are no packet.
At(input) ==
    IF \E k \in DOMAIN sent : starts[k] + 1 = input[1]
    THEN sent[CHOOSE k \in DOMAIN sent : starts[k] + 1 = input[1]]
    ELSE [kind |-> "fault", size |-> 0]

\* (slip) a packet whose last byte is the last one received waits.
CompleteAndMore(input) == Len(input) > bodyLength

\* The whole packet is there.
Complete(input) == Len(input) >= bodyLength

RecvLength ==
    /\ looping /\ ~hasLength /\ Len(Input(in)) >= LengthBytes
    /\ bodyLength' = At(Input(in)).size
    /\ hasLength' = TRUE
    /\ UNCHANGED <<in, table, iports, alive, looping, sent, starts, delivered, handled>>

\* dl_recv_packet: what it may answer, and the tables after it.
Outcomes(packet) ==
    LET answer(ok) == {[table |-> table, iports |-> iports, ok |-> ok]}
        id == Value(table, packet.num) IN
    IF packet.size # bodyLength \/ bodyLength < HeaderLength \/ packet.kind = "fault"
    THEN answer(FALSE)
    ELSE IF packet.kind \in {"ack", "ignored"} THEN answer(TRUE)
    ELSE IF packet.kind = "attached"
    THEN {[table |-> Put(table, packet.num, packet.id), iports |-> o.iports, ok |-> o.ok] :
            o \in AttachOutcomes(packet.id)}
    ELSE IF id = NULL THEN answer(FALSE)
    ELSE {[table |-> RemoveKey(table, packet.num), iports |-> PortsAfterDetach(id), ok |-> TRUE]}

\* An error ends the loop and the connection; iwdp_idl_close leaves the ports.
RecvPacket ==
    /\ looping /\ hasLength /\ Complete(Input(in))
    /\ \E o \in Outcomes(At(Input(in))) :
        /\ table' = o.table /\ iports' = o.iports
        /\ LET read == Advance(in, bodyLength) IN in' = IF o.ok THEN read ELSE EndInput(read)
        /\ looping' = o.ok /\ alive' = o.ok
    /\ hasLength' = FALSE /\ bodyLength' = 0
    /\ handled' = handled + 1
    /\ UNCHANGED <<sent, starts, delivered>>

\* More input is needed.
RecvMore ==
    /\ looping
    /\ IF hasLength THEN ~Complete(Input(in)) ELSE Len(Input(in)) < LengthBytes
    /\ in' = EndInput(in)
    /\ looping' = FALSE
    /\ UNCHANGED <<hasLength, bodyLength, table, iports, alive, sent, starts, delivered, handled>>

Next ==
    \/ \E packet \in Packets : Sends(packet)
    \/ \E n \in 1..BytesSent : OnRecv(n)
    \/ \E id \in Ids : InspectorEnds(id)
    \/ RecvLength \/ RecvPacket \/ RecvMore

Spec == Init /\ [][Next]_vars

-----------------------------------------------------------------------------

\* The type of the state.
TypeOK ==
    /\ {hasLength, alive, looping} \subseteq BOOLEAN
    /\ bodyLength \in Nat /\ hasLength = (bodyLength # 0)
    /\ InBounds(in)
    /\ Keys(table) \subseteq Nums /\ Keys(iports) \subseteq Ids
    /\ sent \in Seq(Packets)
    /\ delivered \in 0..BytesSent /\ handled \in 0..Len(sent)

Framed == INSTANCE FramedStream WITH
    Sizes <- {packet.size : packet \in Packets},
    arrived <- delivered,
    unread <- IF ~alive THEN <<>> ELSE IF looping THEN Input(in) ELSE Kept(in),
    busy <- looping,
    open <- alive

\* dl_on_recv implements FramedStream: what the loop reads, and what is kept from one
\* call to the next, is what has arrived and was not handled, byte for byte, whether
\* the buffer shares the input, appends to its own, moves it to the front or grows;
\* and each packet is handled once, in order and with its last byte.
FramedSpec == Framed!Spec

\* The table of numbers is what usbmuxd listed with the packets that were handled,
\* however numbers collide in a bucket and whatever was removed before; and the
\* tables keep their form.
TableIsListed ==
    /\ WellFormed(table) /\ WellFormed(iports)
    /\ LET listed == ListedAfter(handled) IN
       alive => /\ Keys(table) = {n \in DOMAIN listed : listed[n] # NULL}
                /\ \A n \in Keys(table) : Value(table, n) = listed[n]

\* A port is open only for a device that is still listed, by the number of its
\* attach message or by another one.
OpenIsListed ==
    alive => \A id \in Keys(iports) :
                Value(iports, id) = "open" => \E n \in Keys(table) : Value(table, n) = id
=============================================================================
